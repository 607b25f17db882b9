------------------------------ MODULE MCServices ------------------------------
(***************************************************************************)
(* Services with one of them at work at a time, for TLC; price_oracle      *)
(* under several foci.                                                     *)
(***************************************************************************)
EXTENDS Services

CONSTANTS i1, i2, vault, fees, f1, f2, f3

VARIABLE focus

MCInitial    == [i \in Investor |-> IF i = i1 THEN 6000 ELSE 4000]
MCFaceValues == [k \in {"n1", "n2"} |-> IF k = "n1" THEN 5 ELSE 8]
MCBundles    == {<<>>, <<"n1">>, <<"n1", "n2">>, <<"n3">>}
MCBids       == {-1, 0, 2, 3}
MCPegs       == {[ratio |-> 4, tolerance |-> 2500, autoFlag |-> b] : b \in BOOLEAN}

P == "base/quote"

(* Positions sold, wrapped and handed on until the pool closes.            *)
Trading ==
  \/ Market!Next /\ UNCHANGED fracVars
  \/ \E i \in Investor, n \in {2} : Frac!Wrap(i, n) /\ UNCHANGED marketVars
  \/ \E i \in Investor : Frac!Unwrap(i) /\ UNCHANGED marketVars
  \/ Frac!ClosePool(50) /\ UNCHANGED <<fracVars, marketVars>>

(* Shares split, traded, settled and redeemed.                             *)
Wrapping ==
  \/ Frac!Next /\ UNCHANGED marketVars
  \/ \E i, j \in Investor : Frac!TransferPosition(i, j) /\ UNCHANGED <<repaid, cash, fracVars, marketVars>>
  \/ \E n \in {0, 7, 11} : Frac!ClosePool(n) /\ UNCHANGED <<fracVars, marketVars>>
  \/ cash[vault] = 0 /\ Frac!Donate(5) /\ UNCHANGED <<fracVars, marketVars>>

(* Three feeders, one pair, a fresh set that ages.                         *)
Median ==
  \/ \E f \in {f1, f2, f3} : oracleNow = 0 /\ Oracle!AddFeeder(f) /\ UNCHANGED <<oraclePaused, published, oracleNow>>
  \/ \E f \in feeders, n \in {2, 4, 8} : (n = 4 => f = f1) /\ oracleNow # 1 /\ Oracle!SetPrice(f, P, n)
  \/ oracleNow < 2 /\ Oracle!Tick

(* One feeder and the ring of medians, through several wraps.              *)
History ==
  \/ \E b \in {1} : Oracle!SetMinFreshFeeders(b) /\ UNCHANGED <<oraclePaused, published, oracleNow>>
  \/ Oracle!AddFeeder(f1) /\ UNCHANGED <<oraclePaused, published, oracleNow>>
  \/ \E n \in {2, 4} : Oracle!SetPrice(f1, P, n)
  \/ Oracle!Tick

(* Every setting, with one feeder; no two limits on a price at a time.     *)
Setting ==
  /\ \/ Oracle!Setting
     \/ \E b \in BOOLEAN : Oracle!SetPause(b)
     \/ \E p \in Oracle!Pairs, n \in {0, 2, 4, 8} : (p # P => n = 2) /\ oracleNow # 1 /\ Oracle!SetPrice(f1, p, n)
     \/ Oracle!Tick
  /\ feeders' \subseteq {f1}
  /\ oracleNow' <= 2
  /\ oracleUpgrade' # -1 \/ oracleAdmin' # i1 => feeders' = {}
  /\ feeders' = {} => pairs' = pairs /\ minFresh' = minFresh
  /\ oraclePaused' => pairs' = pairs
  /\ \A p \in Oracle!Pairs : p # P => pairs'[p].limit = -1 /\ pairs'[p].staleness = 1 /\ ~pairs'[p].flagged
  /\ LET k == pairs'[P]
     IN Cardinality({x \in 1..4 : <<k.limit # -1, k.peg # Oracle!NoPeg, k.staleness # 1, k.fallback > 0>>[x]}) <= 1
  /\ pairs'[Oracle!ReversePair(P)].peg = Oracle!NoPeg /\ pairs'[Oracle!ReversePair(P)].fallback = 0

MCInit ==
  /\ focus \in {"trade", "wrap", "tranche", "referral", "median", "history", "setting", "queue"}
  /\ ServicesInit
  /\ focus # "trade" => protocolFee = 0
  /\ oracleAdmin = i1
MCNext ==
  /\ \/ focus = "trade" /\ Trading /\ UNCHANGED <<trancheVars, rewardVars, oracleVars, queueVars>>
     \/ focus = "wrap" /\ Wrapping /\ UNCHANGED <<trancheVars, rewardVars, oracleVars, queueVars>>
     \/ focus = "tranche" /\ TrancheStep
     \/ focus = "referral" /\ RewardStep
     \/ /\ \/ focus = "median" /\ Median
           \/ focus = "history" /\ History
           \/ focus = "setting" /\ Setting
        /\ UNCHANGED <<poolVars, fracVars, marketVars, trancheVars, rewardVars, queueVars>>
     \/ focus = "queue" /\ QueueStep
  /\ UNCHANGED focus
MCSpec == MCInit /\ [][MCNext]_<<focus, servicesVars>>
=============================================================================

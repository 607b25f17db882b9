---------------------------- MODULE MCFinancingPool ----------------------------
(***************************************************************************)
(* An instance of FinancingPool for TLC.  A behaviour keeps to one focus:  *)
(* "settle" two pools on one balance, "life" one pool, "gates" one pool in *)
(* changing surroundings, "trade" positions and shares changing hands.     *)
(***************************************************************************)
EXTENDS FinancingPool, TLC

CONSTANTS i1, i2, i3, t1

VARIABLE focus

Faces   == [id \in Id |-> IF id = 1 THEN 3 ELSE 2]
Dues    == [id \in Id |-> IF id = 1 THEN 1 ELSE 0]
Moved   == [id \in Id |-> 2]
ParRate == [id \in Id |-> 1]

TwoPlans == {<<[amount |-> 1, due |-> 0], [amount |-> 2, due |-> 1]>>,
             <<[amount |-> 3, due |-> 1]>>}
Lists    == {<<2, 1>>, <<1, 1>>}

(* Two investors hold half of every pool each; one holds all of it.        *)
Halves == [i \in Investor |-> IF i \in {i1, i2} THEN [contributed |-> 1, bps |-> 5000]
                                                ELSE NoPosition]
Whole  == [i \in Investor |-> IF i = i1 THEN [contributed |-> 2, bps |-> 10000]
                                        ELSE NoPosition]

(* Two pools: every way they are repaid, netted, bought out, escrowed or   *)
(* defaulted, without a schedule.                                          *)
SettleNext == (Repaying \/ BuyingOut \/ Escrowing \/ Tick) /\ plan' = plan /\ now' <= 1

(* One pool, repaid in every way but by approval. No netting names it      *)
(* twice.                                                                  *)
LifeNext ==
  (Repaying \/ RepayingPartly \/ BuyingOut \/ Escrowing \/ Tick) /\ ~flow'[1].twice

(* One pool, while the parameters change and a pause, a freeze or a dispute*)
(* comes and goes, the latter without a penalty in force; it is bought out *)
(* or repaid by approval, and never in part.                               *)
OneGate ==
  <<gate.frozen, gate.disputed, gate.paused>> \in
    {<<{}, {}, FALSE>>, <<{}, {}, TRUE>>, <<{1}, {}, FALSE>>, <<{}, {1}, FALSE>>}

GatesNext ==
  /\ Repaying \/ Approving \/ BuyingOut \/ Escrowing \/ Surroundings \/ Tick
  /\ OneGate' /\ approval'[1].by \subseteq {i1, i2} /\ ~flow'[1].twice
  /\ settings'.penalty > 0 => ~gate'.paused /\ gate'.frozen = {} /\ gate'.disputed = {}
  /\ approval'[1] = NoApproval \/ buyout'[1] = NoBuyout

(* Positions and shares changing hands, also under an escrow reservation:  *)
(* i1 and i2 take positions in that order, i3 only buys; i1 alone splits,  *)
(* and one offer is open at a time.                                        *)
RecordingNext ==
  \/ ReleaseFunds(1, t1)
  \/ \E a \in Pay, n \in Totals : RecordPosition(1, i1, a, n)
  \/ \E a \in Pay, n \in Totals : Holds(1, i1) /\ RecordPosition(1, i2, a, n)

TradeNext ==
  /\ RecordingNext \/ Trading \/ Escrowing
  /\ reserved'[1] <= 1 /\ shares'[1][i2] = <<>> /\ shares'[1][i3] = <<>>
  /\ Cardinality(sale') + Cardinality(shareSale') <= 1

MCInit ==
  \/ focus = "settle" /\ InitWith(Id, t1, Whole)
  \/ focus \in {"life", "gates"} /\ InitWith({1}, t1, Halves)
  \/ focus = "trade" /\ Init /\ settings.penalty = 0

MCNext ==
  /\ \/ focus = "settle" /\ SettleNext
     \/ focus = "life" /\ LifeNext
     \/ focus = "gates" /\ GatesNext
     \/ focus = "trade" /\ TradeNext
  /\ UNCHANGED focus

MCSpec == MCInit /\ [][MCNext]_<<vars, focus>>

(* One pool, as in "life".                                                 *)
LifeSpec ==
  InitWith({1}, t1, Halves) /\ focus = "life" /\ [][LifeNext /\ UNCHANGED focus]_<<vars, focus>>

(* Trade during a buyout.                                                  *)
BuyoutNext == Trading \/ BuyingOut
BuyoutSpec ==
  InitWith({1}, t1, Halves) /\ focus = "buyout" /\ [][BuyoutNext /\ UNCHANGED focus]_<<vars, focus>>

===============================================================================

-------------------------- MODULE FinancingPoolProofs --------------------------
(***************************************************************************)
(* What FinancingPool never does, for every set of invoices, investors and *)
(* tokens: the books of a pool disagree, a settled or escrowed pool moves, *)
(* an investor is paid out of another pool's money, or trade creates a     *)
(* stake.                                                                  *)
(*                                                                         *)
(* Inv adds to the types where the one balance comes from (Conserved), and *)
(* per invoice the absence of everything before its pool opens (Fresh),    *)
(* the status of its NFT (ClosedOk), its installments (PartsOk) and its    *)
(* receipts (ReceiptsOk): a pool is shared out once, while Funded.         *)
(***************************************************************************)
EXTENDS FinancingPool, FiniteSums

Fresh(id) ==
  IF Exists(id) THEN nft[id] # "Listed"
  ELSE /\ pool[id] = NoPool /\ nft[id] = "Listed" /\ flow[id] = NoFlow /\ plan[id] = NoPlan
       /\ reserved[id] = 0 /\ buyout[id] = NoBuyout

ClosedOk(id) ==
  /\ pool[id].closed => Settled(id)
  /\ Settled(id) => pool[id].closed \/ flow[id].twice

PartsOk(id) == Open(id) => pool[id].repaid >= PaidParts(id)

ReceiptsOk(id) ==
  /\ (nft[id] = "Funded" /\ ~flow[id].loose) => flow[id].out = 0
  /\ Rate[id] = 1 => pool[id].repaid <= flow[id].in
  /\ Plain(id) => flow[id].out <= flow[id].in

PoolOk(id) == Fresh(id) /\ ClosedOk(id) /\ PartsOk(id) /\ ReceiptsOk(id)

(* What the balance holds on account of a pool.                            *)
Worth(id) == IF Exists(id) THEN Funding[id] + buyout[id].amount + flow[id].in - flow[id].out ELSE 0

Conserved ==
  \A t \in Token : Token = {t} => balance[t] = SumOver([id \in Id |-> Worth(id)], Id)

Inv == TypeOK /\ Conserved /\ StatsInStep /\ \A id \in Id : PoolOk(id)

-------------------------------------------------------------------------------
(* Amounts.                                                                *)

LEMMA BpsRange == \A b \in Bps : b \in Nat /\ b <= 10000
BY DEF Bps

LEMMA BpsShare ==
  ASSUME NEW n \in Nat, NEW b \in Bps
  PROVE  BpsOf(n, b) \in Nat /\ BpsOf(n, b) <= n
<1>1. b \in Nat /\ b <= 10000
  BY BpsRange
<1>2. (n * b) \div 10000 \in 0..n
  BY <1>1, ShareOfWhole
<1> DEFINE q == (n * b) \div 10000
<1>3. q \in 0..n
  BY <1>2
<1> HIDE DEF q
<1>4. q \in Nat /\ q <= n
  BY <1>3
<1>5. QED
  BY <1>4 DEF q, BpsOf

LEMMA PendingRange == \A b : b \in PendingBps <=> b \in Nat /\ b < Unanimity
<1>1. Unanimity \in Nat
  BY DEF Unanimity
<1>2. QED
  BY <1>1 DEF PendingBps

LEMMA NoBuyoutTyped == NoBuyout \in BuyoutRecord /\ NoBuyout.amount = 0
<1>1. Unanimity \in Nat /\ 0 < Unanimity
  BY DEF Unanimity
<1>2. 0 \in PendingBps
  BY <1>1, PendingRange
<1>3. QED
  BY <1>2 DEF NoBuyout, BuyoutRecord

LEMMA PoolTypes ==
  ASSUME Inv, NEW id \in Id
  PROVE  /\ pool[id] \in PoolRecord /\ cut[id] \in Nat
         /\ pool[id].repaid \in Nat /\ pool[id].owed \in Nat /\ pool[id].face \in Nat
         /\ pool[id].token \in Token \union {NoToken} /\ pool[id].rate \in Bps
         /\ pool[id].closed \in BOOLEAN /\ pool[id].penalized \in BOOLEAN
         /\ (Exists(id) => pool[id].token \in Token)
<1>1. pool[id] \in PoolRecord /\ cut[id] \in Nat
  BY DEF Inv, TypeOK, PoolsOk
<1>2. QED
  BY <1>1 DEF PoolRecord, Exists

LEMMA FlowTypes ==
  ASSUME Inv, NEW id \in Id
  PROVE  /\ flow \in [Id -> FlowRecord] /\ flow[id] \in FlowRecord
         /\ flow[id].in \in Nat /\ flow[id].out \in Nat
         /\ flow[id].loose \in BOOLEAN /\ flow[id].twice \in BOOLEAN
<1>1. flow \in [Id -> FlowRecord] /\ flow[id] \in FlowRecord
  BY DEF Inv, TypeOK, MoneyOk
<1>2. QED
  BY <1>1 DEF FlowRecord

LEMMA ClaimTypes ==
  ASSUME Inv, NEW id \in Id, NEW i \in Investor
  PROVE  /\ position[id] \in [Investor -> PositionRecord] /\ position[id][i] \in PositionRecord
         /\ position[id][i].contributed \in Nat /\ position[id][i].bps \in Bps
         /\ shares[id] \in [Investor -> Seq(ShareRecord)] /\ shares[id][i] \in Seq(ShareRecord)
         /\ IsFiniteSet(DOMAIN shares[id][i])
         /\ \A k \in DOMAIN shares[id][i] : /\ shares[id][i][k] \in ShareRecord
                                            /\ shares[id][i][k].amount \in Nat
<1>1. position[id] \in [Investor -> PositionRecord] /\ shares[id] \in [Investor -> Seq(ShareRecord)]
  BY DEF Inv, TypeOK, ClaimsOk
<1>2. position[id][i] \in PositionRecord /\ shares[id][i] \in Seq(ShareRecord)
  BY <1>1
<1>3. position[id][i].contributed \in Nat /\ position[id][i].bps \in Bps
  BY <1>2 DEF PositionRecord
<1> DEFINE split == shares[id][i]
<1>4. split \in Seq(ShareRecord)
  BY <1>2
<1> HIDE DEF split
<1>5. IsFiniteSet(DOMAIN split)
  <2>1. Len(split) \in Nat /\ DOMAIN split = 1..Len(split)
    BY <1>4
  <2>2. QED
    BY <2>1, FS_Interval
<1>6. \A k \in DOMAIN split : split[k] \in ShareRecord
  BY <1>4
<1>7. \A k \in DOMAIN split : split[k].amount \in Nat
  BY <1>6 DEF ShareRecord
<1>8. QED
  BY <1>1, <1>2, <1>3, <1>5, <1>6, <1>7 DEF split

LEMMA DealTypes ==
  ASSUME Inv, NEW id \in Id
  PROVE  /\ approval[id] \in ApprovalRecord /\ buyout[id] \in BuyoutRecord /\ plan[id] \in PlanRecord
         /\ approval[id].amount \in Nat /\ buyout[id].amount \in Nat /\ reserved[id] \in Nat
         /\ plan[id].parts \in Seq(PartRecord) /\ plan[id].next \in Nat /\ plan[id].next >= 1
         /\ plan[id].next <= Len(plan[id].parts) + 1
         /\ \A k \in DOMAIN plan[id].parts : plan[id].parts[k].amount \in Nat
<1>1. /\ approval[id] \in ApprovalRecord /\ buyout[id] \in BuyoutRecord /\ plan[id] \in PlanRecord
      /\ reserved[id] \in Nat /\ plan[id].next \in 1..(Len(plan[id].parts) + 1)
  BY DEF Inv, TypeOK, DealsOk
<1>2. approval[id].amount \in Nat
  BY <1>1 DEF ApprovalRecord
<1>3. buyout[id].amount \in Nat
  BY <1>1 DEF BuyoutRecord
<1>4. plan[id].parts \in Seq(PartRecord) /\ plan[id].next \in Nat
  BY <1>1 DEF PlanRecord
<1> DEFINE parts == plan[id].parts
           n     == plan[id].next
<1>5. parts \in Seq(PartRecord) /\ n \in Nat /\ n \in 1..(Len(parts) + 1)
  BY <1>1, <1>4
<1> HIDE DEF parts, n
<1>6. Len(parts) \in Nat /\ n >= 1 /\ n <= Len(parts) + 1
  BY <1>5
<1>7. \A k \in DOMAIN parts : parts[k] \in PartRecord
  BY <1>5
<1>8. \A k \in DOMAIN parts : parts[k].amount \in Nat
  BY <1>7 DEF PartRecord
<1>9. QED
  BY <1>1, <1>2, <1>3, <1>4, <1>6, <1>8 DEF parts, n

-------------------------------------------------------------------------------
(* What distribute_yield pays out.                                         *)

LEMMA PositionOutFair ==
  ASSUME Inv, NEW id \in Id, NEW i \in Holders(id), NEW total \in Nat
  PROVE  /\ Payout(id, i, total) \in Nat /\ PositionOut(id, i, total) \in Nat
         /\ Payout(id, i, total) <= PositionOut(id, i, total)
         /\ WithinStake(id, i) => PositionOut(id, i, total) = Payout(id, i, total)
<1> DEFINE payout == Payout(id, i, total)
           stake  == position[id][i].contributed
           split  == shares[id][i]
           part   == [k \in DOMAIN split |-> split[k].amount]
           share  == ShareOuts(id, i, total)
<1>1. i \in Investor /\ stake \in Nat /\ stake > 0
  BY ClaimTypes DEF Holders, Holds
<1>2. payout \in Nat
  <2>1. position[id][i].bps \in Bps
    BY <1>1, ClaimTypes
  <2>2. QED
    BY <2>1, BpsShare DEF Payout
<1>3. IsFiniteSet(DOMAIN split) /\ \A k \in DOMAIN split : part[k] \in Nat
  BY <1>1, ClaimTypes
<1>4. \A k \in DOMAIN split : share[k] = (part[k] * payout) \div stake
  BY DEF ShareOuts
<1>5. WithinStake(id, i) <=> SumOver(part, DOMAIN split) <= stake
  BY DEF WithinStake, SplitOff
<1>6. PositionOut(id, i, total) = IF SumOver(share, DOMAIN split) > payout
                                  THEN SumOver(share, DOMAIN split) ELSE payout
  BY DEF PositionOut
<1> DEFINE D == DOMAIN split
<1>7. IsFiniteSet(D) /\ (\A k \in D : part[k] \in Nat /\ share[k] = (part[k] * payout) \div stake)
      /\ (WithinStake(id, i) <=> SumOver(part, D) <= stake)
      /\ PositionOut(id, i, total) = IF SumOver(share, D) > payout THEN SumOver(share, D) ELSE payout
  BY <1>3, <1>4, <1>5, <1>6
<1> HIDE DEF payout, stake, split, part, share, D
<1>8. ASSUME NEW k \in D PROVE share[k] \in Nat /\ share[k] = (payout * part[k]) \div stake
  <2>1. part[k] * payout = payout * part[k] /\ payout * part[k] \in Nat
    BY <1>2, <1>7
  <2>2. QED
    BY <1>1, <1>7, <2>1
<1>9. SumOver(share, D) \in Nat
  BY <1>7, <1>8, SumNat
<1>10. ASSUME WithinStake(id, i) PROVE SumOver(share, D) <= payout
  BY <1>1, <1>2, <1>7, <1>8, <1>10, SharesOfTotal
<1>11. QED
  BY <1>2, <1>7, <1>9, <1>10 DEF payout

(* The investors' part of total.                                           *)
LEMMA InvestorsOutFair ==
  ASSUME Inv, NEW id \in Id, NEW total \in Nat
  PROVE  /\ InvestorsOut(id, total) \in Nat
         /\ Sound(id) => InvestorsOut(id, total) <= total
<1> DEFINE H    == Holders(id)
           out  == [i \in H |-> PositionOut(id, i, total)]
           part == [i \in Investor |-> position[id][i].bps]
<1>1. H \in SUBSET Investor /\ IsFiniteSet(H) /\ IsFiniteSet(Investor)
  BY FinitelyMany, FS_Subset DEF Holders
<1>2. \A i \in H : out[i] \in Nat
  BY PositionOutFair
<1>3. InvestorsOut(id, total) = SumOver(out, H)
  BY DEF InvestorsOut
<1>4. SumOver(out, H) \in Nat
  <2> HIDE DEF out, H
  <2>1. QED
    BY <1>1, <1>2, SumNat
<1>5. ASSUME Sound(id) PROVE SumOver(out, H) <= total
  <2>1. \A i \in H : out[i] = (total * part[i]) \div 10000
    <3> SUFFICES ASSUME NEW i \in H PROVE out[i] = (total * part[i]) \div 10000
      OBVIOUS
    <3>1. WithinStake(id, i)
      BY <1>5 DEF Sound
    <3>2. out[i] = Payout(id, i, total)
      BY <3>1, PositionOutFair
    <3>3. i \in Investor
      BY <1>1
    <3>4. QED
      BY <3>2, <3>3 DEF Payout, BpsOf
  <2>2. \A i \in Investor : part[i] \in Nat
    <3> SUFFICES ASSUME NEW i \in Investor PROVE part[i] \in Nat
      OBVIOUS
    <3>1. part[i] \in Bps
      BY ClaimTypes
    <3> HIDE DEF part
    <3>2. QED
      BY <3>1, BpsRange
  <2>3. SumOver(part, Investor) <= 10000
    BY <1>5 DEF Sound, TotalBps
  <2> HIDE DEF out, part, H
  <2>4. SumOver(part, H) <= SumOver(part, Investor) /\ SumOver(part, H) \in Nat
        /\ SumOver(part, Investor) \in Nat
    <3>1. \A i \in H : part[i] \in Nat
      BY <1>1, <2>2
    <3>2. QED
      BY <1>1, <2>2, <3>1, SumSubset, SumNat
  <2>5. SumOver(part, H) <= 10000
    BY <2>3, <2>4
  <2>6. \A i \in H : part[i] \in Nat /\ out[i] = (total * part[i]) \div 10000
    BY <1>1, <2>1, <2>2
  <2>7. QED
    BY <1>1, <2>5, <2>6, SharesOfTotal
<1>6. QED
  BY <1>3, <1>4, <1>5

(* All that distribute_yield pays out of total, the treasury's cut with it.*)
LEMMA YieldOutFair ==
  ASSUME Inv, NEW id \in Id, NEW total \in Nat, NEW c \in Nat, Distributable(id, total, c)
  PROVE  /\ YieldOut(id, total, c) \in Nat
         /\ Sound(id) => YieldOut(id, total, c) <= total
<1>1. YieldOut(id, total, c) = c + InvestorsOut(id, total - c)
  BY DEF YieldOut
<1>2. CASE total >= c
  <2>1. total - c \in Nat
    BY <1>2
  <2>2. /\ InvestorsOut(id, total - c) \in Nat
        /\ Sound(id) => InvestorsOut(id, total - c) <= total - c
    BY <2>1, InvestorsOutFair
  <2>3. QED
    BY <1>1, <2>2
<1>3. CASE Holders(id) = {}
  <2>1. ~Sound(id)
    BY <1>3 DEF Sound
  <2>2. InvestorsOut(id, total - c) = 0
    BY <1>3, SumEmpty DEF InvestorsOut
  <2>3. QED
    BY <1>1, <2>1, <2>2
<1>4. QED
  BY <1>2, <1>3 DEF Distributable

LEMMA ContributedInt == ASSUME Inv, NEW id \in Id PROVE Contributed(id) \in Int
<1> DEFINE f == [i \in Investor |-> position[id][i].contributed]
<1>1. \A i \in Investor : f[i] \in Int
  BY ClaimTypes
<1>2. Contributed(id) = SumOver(f, Investor)
  BY DEF Contributed
<1> HIDE DEF f
<1>3. QED
  BY <1>1, <1>2, FinitelyMany, SumInt

LEMMA BalanceTypes ==
  ASSUME Inv
  PROVE  /\ balance \in [Token -> Nat] /\ aggregate \in [Token -> Int] /\ stats \in StatsRecord
         /\ stats.opened \in Nat /\ stats.active \in Nat /\ stats.repaid \in Nat
         /\ stats.defaulted \in Nat
<1>1. balance \in [Token -> Nat] /\ aggregate \in [Token -> Int] /\ stats \in StatsRecord
  BY DEF Inv, TypeOK, MoneyOk
<1>2. QED
  BY <1>1 DEF StatsRecord

(* distribute_yield changes the one balance by what came in less what went *)
(* out.                                                                    *)
LEMMA Distributed ==
  ASSUME Inv, NEW id \in Id, NEW t \in Token, NEW total \in Nat, NEW c \in Nat, NEW arriving \in Nat,
         DistributeYield(id, t, total, c, arriving)
  PROVE  /\ YieldOut(id, total, c) \in Nat
         /\ Sound(id) => YieldOut(id, total, c) <= total
         /\ balance' = [balance EXCEPT ![t] = balance[t] + (arriving - YieldOut(id, total, c))]
         /\ balance' \in [Token -> Nat] /\ aggregate' \in [Token -> Int] /\ cut' \in [Id -> Nat]
<1> DEFINE out == YieldOut(id, total, c)
<1>1. /\ Distributable(id, total, c) /\ out <= balance[t] + arriving
      /\ balance' = [balance EXCEPT ![t] = balance[t] + arriving - out]
      /\ aggregate' = [aggregate EXCEPT ![t] = aggregate[t] - Contributed(id)]
      /\ cut' = [cut EXCEPT ![id] = 0]
  BY DEF DistributeYield
<1>2. out \in Nat /\ (Sound(id) => out <= total)
  BY <1>1, YieldOutFair
<1> HIDE DEF out
<1>3. balance \in [Token -> Nat] /\ aggregate \in [Token -> Int] /\ cut \in [Id -> Nat]
  BY DEF Inv, TypeOK, PoolsOk, MoneyOk
<1>4. balance[t] \in Nat /\ aggregate[t] \in Int
  BY <1>3
<1>5. balance[t] + arriving - out \in Nat /\ balance[t] + arriving - out = balance[t] + (arriving - out)
  BY <1>1, <1>2, <1>4
<1>6. balance' \in [Token -> Nat]
  BY <1>1, <1>3, <1>5
<1>7. aggregate[t] - Contributed(id) \in Int
  BY <1>4, ContributedInt
<1>8. aggregate' \in [Token -> Int] /\ cut' \in [Id -> Nat]
  BY <1>1, <1>3, <1>7
<1>9. QED
  BY <1>1, <1>2, <1>5, <1>6, <1>8 DEF out

-------------------------------------------------------------------------------
(* Frames: what a step that concerns one pool leaves alone.                *)

Same(x) ==
  /\ pool'[x] = pool[x] /\ nft'[x] = nft[x] /\ flow'[x] = flow[x] /\ plan'[x] = plan[x]
  /\ reserved'[x] = reserved[x] /\ buyout'[x] = buyout[x]
  /\ (x \in credited') <=> (x \in credited)

LEMMA SameStaysOk ==
  ASSUME Inv, NEW x \in Id, Same(x)
  PROVE  PoolOk(x)' /\ Worth(x)' = Worth(x)
<1>1. PoolOk(x)
  BY DEF Inv
<1>2. Fresh(x)'
  BY <1>1 DEF PoolOk, Same, Fresh, Exists
<1>3. ClosedOk(x)'
  BY <1>1 DEF PoolOk, Same, ClosedOk, Settled
<1>4. PartsOk(x)'
  BY <1>1 DEF PoolOk, Same, PartsOk, PaidParts, Open, Exists
<1>5. ReceiptsOk(x)'
  BY <1>1 DEF PoolOk, Same, ReceiptsOk, Plain
<1>6. Worth(x)' = Worth(x)
  BY DEF Same, Worth, Exists
<1>7. QED
  BY <1>2, <1>3, <1>4, <1>5, <1>6 DEF PoolOk

LEMMA WorthInt == ASSUME Inv, NEW x \in Id PROVE Worth(x) \in Int
<1>1. Funding[x] \in Int /\ buyout[x].amount \in Int /\ flow[x].in \in Int /\ flow[x].out \in Int
  BY DealTypes, FlowTypes, InvoicesOk
<1>2. QED
  BY <1>1 DEF Worth

(* Money that comes in or goes out on account of one pool.                 *)
LEMMA ConservedMoves ==
  ASSUME Inv, NEW id \in Id, NEW u \in Token, NEW d \in Int,
         \A x \in Id : x # id => Same(x), Worth(id)' = Worth(id) + d,
         balance' = [balance EXCEPT ![u] = balance[u] + d]
  PROVE  Conserved'
<1> SUFFICES ASSUME NEW t \in Token, Token = {t}
             PROVE  balance'[t] = SumOver([x \in Id |-> Worth(x)'], Id)
  BY DEF Conserved
<1> DEFINE f == [x \in Id |-> Worth(x)]
           g == [x \in Id |-> Worth(x)']
<1>1. balance[t] = SumOver(f, Id) /\ balance[t] \in Int /\ balance'[t] = balance[t] + d
  <2>1. u = t
    OBVIOUS
  <2>2. balance \in [Token -> Nat]
    BY BalanceTypes
  <2>3. balance[t] = SumOver(f, Id)
    BY DEF Inv, Conserved
  <2>4. QED
    BY <2>1, <2>2, <2>3
<1>2. \A x \in Id : f[x] \in Int
  BY WorthInt
<1>3. g[id] = f[id] + d /\ g[id] \in Int
  BY <1>2
<1>4. \A x \in Id \ {id} : g[x] = f[x]
  BY SameStaysOk
<1> HIDE DEF f, g
<1>5. SumOver(g, Id) = SumOver(f, Id) - f[id] + g[id]
  <2>1. IsFiniteSet(Id) /\ g[id] \in Int
    BY <1>3, FinitelyMany
  <2>2. QED
    BY <1>2, <1>4, <2>1, SumChange
<1>6. SumOver(f, Id) \in Int
  BY <1>2, FinitelyMany, SumInt
<1>7. SumOver(g, Id) = balance'[t]
  BY <1>1, <1>2, <1>3, <1>5, <1>6
<1>8. QED
  BY <1>7 DEF g

LEMMA ConservedStays ==
  ASSUME Inv, \A x \in Id : Worth(x)' = Worth(x), balance' = balance
  PROVE  Conserved'
<1> SUFFICES ASSUME NEW t \in Token, Token = {t}
             PROVE  balance'[t] = SumOver([x \in Id |-> Worth(x)'], Id)
  BY DEF Conserved
<1>1. balance[t] = SumOver([x \in Id |-> Worth(x)], Id)
  BY DEF Inv, Conserved
<1>2. [x \in Id |-> Worth(x)'] = [x \in Id |-> Worth(x)]
  OBVIOUS
<1>3. QED
  BY <1>1, <1>2

(* The pools that exist, and the invoices of a status.                     *)
LEMMA StatsSame ==
  ASSUME Inv, \A x \in Id : Exists(x)' = Exists(x), nft' = nft,
         stats'.opened = stats.opened, stats'.active = stats.active,
         stats'.defaulted = stats.defaulted
  PROVE  StatsInStep'
<1>1. {x \in Id : Exists(x)'} = {x \in Id : Exists(x)}
  OBVIOUS
<1>2. QED
  BY <1>1 DEF Inv, StatsInStep

(* Financed invoices are settled: each is one fewer of the active pools.   *)
LEMMA StatsSettle ==
  ASSUME Inv, NEW D \in SUBSET Id, \A x \in D : nft[x] = "Funded",
         NEW s \in {"Repaid", "Defaulted"}, nft' = [x \in Id |-> IF x \in D THEN s ELSE nft[x]],
         \A x \in Id : Exists(x)' = Exists(x),
         stats'.opened = stats.opened, stats'.active = Less(stats.active, Cardinality(D)),
         stats'.defaulted = IF s = "Defaulted" THEN stats.defaulted + Cardinality(D)
                            ELSE stats.defaulted
  PROVE  StatsInStep'
<1> DEFINE A == {x \in Id : nft[x] = "Funded"}
           B == {x \in Id : nft[x] = "Defaulted"}
<1>1. stats.active = Cardinality(A) /\ stats.defaulted = Cardinality(B)
      /\ stats.opened = Cardinality({x \in Id : Exists(x)})
  BY DEF Inv, StatsInStep
<1>2. IsFiniteSet(A) /\ IsFiniteSet(B) /\ IsFiniteSet(D)
  BY FinitelyMany, FS_Subset
<1>3. Cardinality(A) \in Nat /\ Cardinality(B) \in Nat /\ Cardinality(D) \in Nat
  BY <1>2, FS_CardinalityType
<1>4. {x \in Id : nft'[x] = "Funded"} = A \ D /\ A \cap D = D
  OBVIOUS
<1>5. Cardinality(A \ D) = Cardinality(A) - Cardinality(D)
  <2> HIDE DEF A
  <2>1. Cardinality(A \ D) = Cardinality(A) - Cardinality(A \cap D)
    BY <1>2, FS_Difference
  <2>2. QED
    BY <1>4, <2>1
<1>6. Cardinality(D) <= Cardinality(A)
  <2>1. D \in SUBSET A
    OBVIOUS
  <2> HIDE DEF A
  <2>2. QED
    BY <1>2, <2>1, FS_Subset
<1>7. {x \in Id : nft'[x] = "Defaulted"} = IF s = "Defaulted" THEN B \union D ELSE B
  OBVIOUS
<1>8. B \cap D = {}
  OBVIOUS
<1>9. Cardinality(B \union D) = Cardinality(B) + Cardinality(D)
  <2> HIDE DEF B
  <2>1. Cardinality(B \union D) = Cardinality(B) + Cardinality(D) - Cardinality({})
    BY <1>2, <1>8, FS_Union
  <2>2. QED
    BY <1>3, <2>1, FS_EmptySet
<1>10. {x \in Id : Exists(x)'} = {x \in Id : Exists(x)}
  OBVIOUS
<1> HIDE DEF A, B
<1>11. stats'.active = Cardinality(A \ D)
  BY <1>1, <1>3, <1>5, <1>6 DEF Less
<1>12. stats'.defaulted = Cardinality(IF s = "Defaulted" THEN B \union D ELSE B)
  BY <1>1, <1>9
<1>13. QED
  BY <1>1, <1>4, <1>7, <1>10, <1>11, <1>12 DEF StatsInStep

(* A step that concerns the pool of one invoice.                           *)
LEMMA OnePool ==
  ASSUME Inv, TypeOK', Conserved', StatsInStep', NEW id \in Id, \A x \in Id : x # id => Same(x),
         PoolOk(id)'
  PROVE  Inv'
<1>1. \A x \in Id : PoolOk(x)'
  BY SameStaysOk
<1>2. QED
  BY <1>1 DEF Inv

LEMMA ClaimsKept == ASSUME Inv, UNCHANGED claimVars PROVE ClaimsOk'
BY DEF Inv, TypeOK, ClaimsOk, claimVars

LEMMA DealsKept == ASSUME Inv, UNCHANGED dealVars PROVE DealsOk'
BY DEF Inv, TypeOK, DealsOk, dealVars

LEMMA MoneyKept == ASSUME Inv, UNCHANGED moneyVars PROVE PoolsOk' /\ MoneyOk'
BY DEF Inv, TypeOK, PoolsOk, MoneyOk, moneyVars

LEMMA EnvKept == ASSUME Inv, UNCHANGED envVars PROVE EnvOk'
BY DEF Inv, TypeOK, EnvOk, envVars

(* A step that moves no money and settles nothing.                         *)
LEMMA BooksUntouched ==
  ASSUME Inv, TypeOK', UNCHANGED <<pool, stats, balance, flow, nft>>,
         UNCHANGED <<buyout, plan, reserved, credited>>
  PROVE  Inv'
<1>1. \A x \in Id : Same(x)
  BY DEF Same
<1>2. Conserved'
  BY <1>1, SameStaysOk, ConservedStays
<1>3. StatsInStep'
  BY StatsSame DEF Exists
<1>4. \A x \in Id : PoolOk(x)'
  BY <1>1, SameStaysOk
<1>5. QED
  BY <1>2, <1>3, <1>4 DEF Inv

-------------------------------------------------------------------------------
(* Trade.                                                                  *)

LEMMA ClaimsMove ==
  ASSUME Inv, ClaimsOk', UNCHANGED <<moneyVars, dealVars, envVars>>
  PROVE  Inv'
<1>1. TypeOK'
  BY DealsKept, MoneyKept, EnvKept DEF TypeOK
<1>2. /\ UNCHANGED <<pool, stats, balance, flow, nft>>
      /\ UNCHANGED <<buyout, plan, reserved, credited>>
  BY DEF moneyVars, dealVars
<1>3. QED
  BY <1>1, <1>2, BooksUntouched

LEMMA SharesTyped ==
  ASSUME Inv, NEW id \in Id, NEW i \in Investor, NEW s \in Seq(ShareRecord),
         shares' = [shares EXCEPT ![id][i] = s]
  PROVE  shares' \in [Id -> [Investor -> Seq(ShareRecord)]]
<1> DEFINE Rows == Seq(ShareRecord)
<1>1. shares \in [Id -> [Investor -> Rows]] /\ s \in Rows
  BY DEF Inv, TypeOK, ClaimsOk
<1> HIDE DEF Rows
<1>2. shares' \in [Id -> [Investor -> Rows]]
  BY <1>1
<1>3. QED
  BY <1>2 DEF Rows

LEMMA SplitPositionStep ==
  ASSUME Inv, NEW id \in Id, NEW i \in Investor, NEW a \in Pay, SplitPosition(id, i, a)
  PROVE  Inv'
<1> DEFINE old == shares[id][i]
           rec == [amount |-> a, owner |-> i]
           s   == Append(old, rec)
<1>1. rec \in ShareRecord
  BY AmountsOk DEF ShareRecord
<1>2. old \in Seq(ShareRecord)
  BY ClaimTypes
<1>3. s \in Seq(ShareRecord)
  <2> HIDE DEF old, rec
  <2>1. QED
    BY <1>1, <1>2
<1>4. /\ shares' = [shares EXCEPT ![id][i] = s]
      /\ UNCHANGED <<position, sale, shareSale, moneyVars, dealVars, envVars>>
  BY DEF SplitPosition
<1>5. shares' \in [Id -> [Investor -> Seq(ShareRecord)]]
  <2> HIDE DEF s
  <2>1. QED
    BY <1>3, <1>4, SharesTyped
<1>6. ClaimsOk'
  BY <1>4, <1>5 DEF Inv, TypeOK, ClaimsOk
<1>7. QED
  BY <1>4, <1>6, ClaimsMove

(* A share gets another owner.                                             *)
LEMMA OwnerMoves ==
  ASSUME Inv, NEW id \in Id, NEW i \in Investor, NEW k \in DOMAIN shares[id][i],
         NEW j \in Investor, shares' = [shares EXCEPT ![id][i][k].owner = j]
  PROVE  shares' \in [Id -> [Investor -> Seq(ShareRecord)]]
<1> DEFINE old == shares[id][i]
           rec == [old[k] EXCEPT !.owner = j]
           s   == [old EXCEPT ![k] = rec]
<1>1. old \in Seq(ShareRecord) /\ old[k] \in ShareRecord /\ k \in DOMAIN old
  BY ClaimTypes
<1>2. rec \in ShareRecord
  <2> HIDE DEF old
  <2>1. QED
    BY <1>1 DEF ShareRecord
<1>3. s \in Seq(ShareRecord)
  <2> HIDE DEF old, rec
  <2>1. QED
    BY <1>1, <1>2
<1>4. shares' = [shares EXCEPT ![id][i] = s]
  OBVIOUS
<1> HIDE DEF s
<1>5. QED
  BY <1>3, <1>4, SharesTyped

LEMMA TransferShareStep ==
  ASSUME Inv, NEW id \in Id, NEW i \in Investor, NEW k \in 1..MaxShares, NEW j \in Investor,
         TransferShare(id, i, k, j)
  PROVE  Inv'
<1>1. /\ k \in DOMAIN shares[id][i] /\ shares' = [shares EXCEPT ![id][i][k].owner = j]
      /\ UNCHANGED <<position, sale, shareSale, moneyVars, dealVars, envVars>>
  BY DEF TransferShare
<1>2. shares' \in [Id -> [Investor -> Seq(ShareRecord)]]
  BY <1>1, OwnerMoves
<1>3. ClaimsOk'
  BY <1>1, <1>2 DEF Inv, TypeOK, ClaimsOk
<1>4. QED
  BY <1>1, <1>3, ClaimsMove

LEMMA ListShareStep ==
  ASSUME Inv, NEW id \in Id, NEW i \in Investor, NEW k \in 1..MaxShares, ListShareForSale(id, i, k)
  PROVE  Inv'
<1> DEFINE o == [id |-> id, of |-> i, index |-> k, seller |-> shares[id][i][k].owner]
<1>1. /\ k \in DOMAIN shares[id][i] /\ shareSale' = shareSale \union {o}
      /\ UNCHANGED <<position, shares, sale, moneyVars, dealVars, envVars>>
  BY DEF ListShareForSale
<1>2. shares[id][i][k].owner \in Investor
  <2>1. shares[id][i][k] \in ShareRecord
    BY <1>1, ClaimTypes
  <2>2. QED
    BY <2>1 DEF ShareRecord
<1>3. o \in SaleRecord
  BY <1>2 DEF SaleRecord
<1> HIDE DEF o
<1>4. ClaimsOk'
  BY <1>1, <1>3 DEF Inv, TypeOK, ClaimsOk
<1>5. QED
  BY <1>1, <1>4, ClaimsMove

LEMMA BuyShareStep ==
  ASSUME Inv, NEW i \in Investor, NEW o \in shareSale, BuyShare(i, o)
  PROVE  Inv'
<1>1. /\ shareSale' = shareSale \ {o} /\ shares' = [shares EXCEPT ![o.id][o.of][o.index].owner = i]
      /\ UNCHANGED <<position, sale, moneyVars, dealVars, envVars>>
  BY DEF BuyShare
<1>2. o.id \in Id /\ o.of \in Investor
  BY DEF Inv, TypeOK, ClaimsOk, SaleRecord
<1>3. CASE o.index \in DOMAIN shares[o.id][o.of]
  <2>1. shares' \in [Id -> [Investor -> Seq(ShareRecord)]]
    BY <1>1, <1>2, <1>3, OwnerMoves
  <2>2. ClaimsOk'
    BY <1>1, <2>1 DEF Inv, TypeOK, ClaimsOk
  <2>3. QED
    BY <1>1, <2>2, ClaimsMove
<1>4. CASE o.index \notin DOMAIN shares[o.id][o.of]
  <2>1. shares \in [Id -> [Investor -> Seq(ShareRecord)]]
    BY DEF Inv, TypeOK, ClaimsOk
  <2> DEFINE old == shares[o.id][o.of]
             s   == [old EXCEPT ![o.index].owner = i]
  <2>2. s = old /\ old \in Seq(ShareRecord)
    <3>1. old \in Seq(ShareRecord)
      BY <1>2, ClaimTypes
    <3> HIDE DEF old
    <3>2. QED
      BY <1>4, <3>1 DEF old
  <2>3. shares' = [shares EXCEPT ![o.id][o.of] = s]
    BY <1>1
  <2> HIDE DEF s, old
  <2>4. shares' \in [Id -> [Investor -> Seq(ShareRecord)]]
    BY <1>2, <2>2, <2>3, SharesTyped
  <2>5. ClaimsOk'
    BY <1>1, <2>4 DEF Inv, TypeOK, ClaimsOk
  <2>6. QED
    BY <1>1, <2>5, ClaimsMove
<1>5. QED
  BY <1>3, <1>4

LEMMA OffersMove ==
  ASSUME Inv, NEW S \in SUBSET (Id \X Investor), sale' = S,
         UNCHANGED <<position, shares, shareSale, moneyVars, dealVars, envVars>>
  PROVE  Inv'
<1>1. ClaimsOk'
  BY DEF Inv, TypeOK, ClaimsOk
<1>2. QED
  BY <1>1, ClaimsMove

(* Where a position has gone.                                              *)
Moved(p, from, to) == [p EXCEPT ![from] = NoPosition, ![to] = p[from]]

LEMMA PositionMoves ==
  ASSUME Inv, NEW id \in Id, NEW from \in Investor, NEW to \in Investor, MovePosition(id, from, to)
  PROVE  /\ position'[id] \in [Investor -> PositionRecord]
         /\ position' \in [Id -> [Investor -> PositionRecord]]
         /\ \A x \in Id : x # id => position'[x] = position[x]
         /\ position'[id][to] = position[id][from]
         /\ from # to => position'[id][from] = NoPosition
         /\ \A i \in Investor : i \notin {from, to} => position'[id][i] = position[id][i]
<1> DEFINE old  == position[id]
           Held == [Investor -> PositionRecord]
           new  == [[old EXCEPT ![from] = NoPosition] EXCEPT ![to] = old[from]]
<1>1. position \in [Id -> Held] /\ old \in Held
  BY DEF Inv, TypeOK, ClaimsOk
<1>2. position' = [position EXCEPT ![id] = new]
  BY DEF MovePosition
<1>3. NoPosition \in PositionRecord
  BY BpsRange DEF NoPosition, PositionRecord, Bps
<1>4. /\ new \in Held /\ new[to] = old[from] /\ (from # to => new[from] = NoPosition)
      /\ \A i \in Investor : i \notin {from, to} => new[i] = old[i]
  <2> HIDE DEF old
  <2>1. QED
    BY <1>1, <1>3
<1> HIDE DEF new, Held
<1>5. position'[id] = new /\ position' \in [Id -> Held] /\ \A x \in Id : x # id => position'[x] = position[x]
  BY <1>1, <1>2, <1>4
<1>6. QED
  BY <1>4, <1>5 DEF Held

LEMMA PositionMovesStep ==
  ASSUME Inv, NEW id \in Id, NEW from \in Investor, NEW to \in Investor, MovePosition(id, from, to),
         NEW S \in SUBSET (Id \X Investor), sale' = S,
         UNCHANGED <<shares, shareSale, moneyVars, dealVars, envVars>>
  PROVE  Inv'
<1>1. position' \in [Id -> [Investor -> PositionRecord]]
  BY PositionMoves
<1>2. ClaimsOk'
  BY <1>1 DEF Inv, TypeOK, ClaimsOk
<1>3. QED
  BY <1>2, ClaimsMove

LEMMA TradingStep == ASSUME Inv, Trading PROVE Inv'
<1>1. PICK id \in Id, i \in Investor :
        \/ \E a \in Pay : SplitPosition(id, i, a)
        \/ \E k \in 1..MaxShares :
             \/ \E j \in Investor : TransferShare(id, i, k, j)
             \/ ListShareForSale(id, i, k)
        \/ \E o \in shareSale : BuyShare(i, o)
        \/ ListPositionForSale(id, i)
        \/ \E j \in Investor : BuyPosition(id, i, j) \/ TransferPosition(id, i, j)
  BY DEF Trading
<1>2. sale \in SUBSET (Id \X Investor)
  BY DEF Inv, TypeOK, ClaimsOk
<1>3. CASE ListPositionForSale(id, i)
  <2>1. sale' = sale \union {<<id, i>>} /\ sale \union {<<id, i>>} \in SUBSET (Id \X Investor)
    BY <1>2, <1>3 DEF ListPositionForSale
  <2>2. UNCHANGED <<position, shares, shareSale, moneyVars, dealVars, envVars>>
    BY <1>3 DEF ListPositionForSale
  <2>3. QED
    BY <2>1, <2>2, OffersMove
<1>4. ASSUME NEW j \in Investor, BuyPosition(id, i, j) PROVE Inv'
  <2>1. MovePosition(id, i, j) /\ sale' = sale \ {<<id, i>>}
        /\ sale \ {<<id, i>>} \in SUBSET (Id \X Investor)
    BY <1>2, <1>4 DEF BuyPosition
  <2>2. UNCHANGED <<shares, shareSale, moneyVars, dealVars, envVars>>
    BY <1>4 DEF BuyPosition
  <2>3. QED
    BY <2>1, <2>2, PositionMovesStep
<1>5. ASSUME NEW j \in Investor, TransferPosition(id, i, j) PROVE Inv'
  <2>1. MovePosition(id, i, j) /\ sale' = sale
        /\ UNCHANGED <<shares, shareSale, moneyVars, dealVars, envVars>>
    BY <1>5 DEF TransferPosition
  <2>2. QED
    BY <1>2, <2>1, PositionMovesStep
<1>6. QED
  BY <1>1, <1>3, <1>4, <1>5, SplitPositionStep, TransferShareStep, ListShareStep, BuyShareStep

-------------------------------------------------------------------------------
(* Opening.                                                                *)

LEMMA ShareBpsRange ==
  ASSUME NEW a \in Nat, NEW n \in Nat, n > 0, a <= n
  PROVE  ShareBps(a, n) \in Bps
<1>1. (10000 * a) \div n \in 0..10000
  BY ShareOfWhole
<1>2. 10000 * a = a * 10000
  OBVIOUS
<1>3. QED
  BY <1>1, <1>2 DEF ShareBps, Bps

LEMMA RecordPositionStep ==
  ASSUME Inv, NEW id \in Id, NEW i \in Investor, NEW a \in Pay, NEW n \in Totals,
         RecordPosition(id, i, a, n)
  PROVE  Inv'
<1> DEFINE b   == ShareBps(a, n)
           rec == [contributed |-> a, bps |-> b]
           t   == pool[id].token
           k   == aggregate[t] - position[id][i].contributed + a
<1>1. /\ PositionAllowed(id, i, a, n) /\ Exists(id)
      /\ position' = [position EXCEPT ![id][i] = rec]
      /\ aggregate' = [aggregate EXCEPT ![t] = k]
      /\ UNCHANGED <<shares, sale, shareSale, pool, cut, stats, balance, flow, nft, dealVars, envVars>>
  BY DEF RecordPosition
<1>2. a \in Nat /\ n \in Nat /\ n > 0 /\ a <= n
  BY <1>1, AmountsOk DEF PositionAllowed
<1>3. b \in Bps
  BY <1>2, ShareBpsRange
<1>4. rec \in PositionRecord
  <2> HIDE DEF b
  <2>1. QED
    BY <1>2, <1>3 DEF PositionRecord
<1>5. position' \in [Id -> [Investor -> PositionRecord]]
  <2> DEFINE Held == [Investor -> PositionRecord]
  <2>1. position \in [Id -> Held] /\ position[id] \in Held
    BY DEF Inv, TypeOK, ClaimsOk
  <2> HIDE DEF rec
  <2>2. [position[id] EXCEPT ![i] = rec] \in Held
    BY <1>4, <2>1
  <2> HIDE DEF Held
  <2>3. position' \in [Id -> Held]
    BY <1>1, <2>1, <2>2
  <2>4. QED
    BY <2>3 DEF Held
<1>6. t \in Token /\ aggregate \in [Token -> Int] /\ position[id][i].contributed \in Nat
  BY <1>1, PoolTypes, BalanceTypes, ClaimTypes
<1>7. k \in Int
  <2> HIDE DEF t
  <2>1. QED
    BY <1>2, <1>6
<1>8. aggregate' \in [Token -> Int]
  <2> HIDE DEF t, k
  <2>1. QED
    BY <1>1, <1>6, <1>7
<1>9. ClaimsOk' /\ MoneyOk' /\ PoolsOk'
  BY <1>1, <1>5, <1>8 DEF Inv, TypeOK, ClaimsOk, MoneyOk, PoolsOk
<1>10. TypeOK'
  BY <1>1, <1>9, DealsKept, EnvKept DEF TypeOK
<1>11. /\ UNCHANGED <<pool, stats, balance, flow, nft>>
       /\ UNCHANGED <<buyout, plan, reserved, credited>>
  BY <1>1 DEF dealVars
<1>12. QED
  BY <1>10, <1>11, BooksUntouched

LEMMA ReleaseFundsStep ==
  ASSUME Inv, NEW id \in Id, NEW t \in Token, ReleaseFunds(id, t)
  PROVE  Inv'
<1> DEFINE p == OpenPool(id, t, settings.penalty)
<1>1. /\ ~Exists(id) /\ nft[id] = "Listed"
      /\ pool' = [pool EXCEPT ![id] = p]
      /\ stats' = [stats EXCEPT !.opened = stats.opened + 1, !.active = stats.active + 1]
      /\ nft' = [nft EXCEPT ![id] = "Funded"]
      /\ balance' = [balance EXCEPT ![t] = balance[t] + Funding[id]]
      /\ UNCHANGED <<claimVars, dealVars, envVars, cut, aggregate, flow>>
  BY DEF ReleaseFunds
<1>2. PoolOk(id) /\ pool[id] = NoPool /\ flow[id] = NoFlow /\ plan[id] = NoPlan /\ reserved[id] = 0
      /\ buyout[id] = NoBuyout
  BY <1>1 DEF Inv, PoolOk, Fresh
<1>3. /\ pool \in [Id -> PoolRecord] /\ cut \in [Id -> Nat]
      /\ nft \in [Id -> {"Listed", "Funded", "Repaid", "Defaulted"}]
  BY DEF Inv, TypeOK, PoolsOk
<1>4. p \in PoolRecord /\ p.token = t /\ p.repaid = 0 /\ ~p.closed
  <2>1. settings.penalty \in Bps
    <3>1. settings \in SettingsRecord
      BY DEF Inv, TypeOK, EnvOk
    <3>2. QED
      BY <3>1 DEF SettingsRecord
  <2>2. Face[id] \in Nat
    BY InvoicesOk
  <2>3. QED
    BY <2>1, <2>2 DEF OpenPool, PoolRecord
<1> HIDE DEF p
<1>5. pool'[id] = p /\ nft'[id] = "Funded" /\ (\A x \in Id : x # id => pool'[x] = pool[x] /\ nft'[x] = nft[x])
      /\ PoolsOk'
  BY <1>1, <1>3, <1>4 DEF PoolsOk
<1>6. Funding[id] \in Nat /\ balance \in [Token -> Nat] /\ balance[t] \in Nat
  BY BalanceTypes, InvoicesOk
<1>7. stats' \in StatsRecord /\ stats'.opened = stats.opened + 1 /\ stats'.active = stats.active + 1
      /\ stats'.defaulted = stats.defaulted
  <2> DEFINE o == stats.opened + 1
             a == stats.active + 1
  <2>1. stats \in StatsRecord /\ o \in Nat /\ a \in Nat
    BY BalanceTypes
  <2>2. stats' = [stats EXCEPT !.opened = o, !.active = a]
    BY <1>1
  <2> HIDE DEF o, a
  <2>3. stats' \in StatsRecord /\ stats'.opened = o /\ stats'.active = a
        /\ stats'.defaulted = stats.defaulted
    BY <2>1, <2>2 DEF StatsRecord
  <2>4. QED
    BY <2>3 DEF o, a
<1>8. MoneyOk'
  <2>1. balance' \in [Token -> Nat]
    BY <1>1, <1>6
  <2>2. QED
    BY <1>1, <1>7, <2>1 DEF Inv, TypeOK, MoneyOk
<1>9. TypeOK'
  BY <1>1, <1>5, <1>8, ClaimsKept, DealsKept, EnvKept DEF TypeOK
<1>10. \A x \in Id : x # id => Same(x)
  BY <1>1, <1>5 DEF Same, dealVars
<1>11. UNCHANGED <<flow, plan, reserved, buyout, credited>>
  BY <1>1 DEF dealVars
<1>12. Exists(id)' /\ t # NoToken
  BY <1>4, <1>5, TokensOk DEF Exists
<1>13. Worth(id)' = Worth(id) + Funding[id]
  BY <1>1, <1>2, <1>6, <1>11, <1>12 DEF Worth, NoFlow, NoBuyout
<1>14. Conserved'
  <2>1. Funding[id] \in Int
    BY <1>6
  <2>2. balance' = [balance EXCEPT ![t] = balance[t] + Funding[id]]
    BY <1>1
  <2>3. QED
    BY <1>10, <1>13, <2>1, <2>2, ConservedMoves
<1>15. PoolOk(id)'
  <2>1. Fresh(id)'
    BY <1>5, <1>12 DEF Fresh
  <2>2. ClosedOk(id)'
    BY <1>4, <1>5 DEF ClosedOk, Settled
  <2>3. PaidParts(id)' = 0
    <3>1. PaidParts(id)' = SumOver([k \in DOMAIN <<>> |-> <<>>[k].amount], 1..0)
      BY <1>2, <1>11 DEF PaidParts, NoPlan
    <3>2. 1..0 = {}
      OBVIOUS
    <3>3. QED
      BY <3>1, <3>2, SumEmpty
  <2>4. PartsOk(id)'
    BY <1>4, <1>5, <2>3 DEF PartsOk
  <2>5. ReceiptsOk(id)'
    BY <1>2, <1>4, <1>5, <1>11 DEF ReceiptsOk, NoFlow, Plain
  <2>6. QED
    BY <2>1, <2>2, <2>4, <2>5 DEF PoolOk
<1>16. StatsInStep'
  <2> DEFINE E == {x \in Id : Exists(x)}
             A == {x \in Id : nft[x] = "Funded"}
  <2>1. stats.opened = Cardinality(E) /\ stats.active = Cardinality(A)
        /\ stats.defaulted = Cardinality({x \in Id : nft[x] = "Defaulted"})
    BY DEF Inv, StatsInStep
  <2>2. IsFiniteSet(E) /\ IsFiniteSet(A) /\ id \notin E /\ id \notin A
    BY <1>1, FinitelyMany, FS_Subset
  <2>3. {x \in Id : Exists(x)'} = E \union {id}
    BY <1>5, <1>12 DEF Exists
  <2>4. {x \in Id : nft'[x] = "Funded"} = A \union {id}
    BY <1>5
  <2>5. {x \in Id : nft'[x] = "Defaulted"} = {x \in Id : nft[x] = "Defaulted"}
    BY <1>1, <1>5
  <2> HIDE DEF E, A
  <2>6. Cardinality(E \union {id}) = Cardinality(E) + 1 /\ Cardinality(A \union {id}) = Cardinality(A) + 1
    BY <2>2, FS_AddElement
  <2>7. QED
    BY <1>7, <2>1, <2>3, <2>4, <2>5, <2>6 DEF StatsInStep
<1>17. QED
  BY <1>9, <1>10, <1>14, <1>15, <1>16, OnePool

-------------------------------------------------------------------------------
(* Approvals, the surroundings and time move no money.                     *)

LEMMA ApprovalMoves ==
  ASSUME Inv, NEW id \in Id, NEW r \in ApprovalRecord, approval' = [approval EXCEPT ![id] = r],
         UNCHANGED <<claimVars, moneyVars, buyout, plan, reserved, credited, envVars>>
  PROVE  Inv'
<1>1. DealsOk'
  BY DEF Inv, TypeOK, DealsOk
<1>2. TypeOK'
  BY <1>1, ClaimsKept, MoneyKept, EnvKept DEF TypeOK
<1>3. UNCHANGED <<pool, stats, balance, flow, nft>>
  BY DEF moneyVars
<1>4. QED
  BY <1>2, <1>3, BooksUntouched

LEMMA ProposeRepaymentStep ==
  ASSUME Inv, NEW id \in Id, NEW a \in Pay, ProposeRepayment(id, a)
  PROVE  Inv'
<1> DEFINE r == [approval[id] EXCEPT !.amount = a]
<1>1. approval[id] \in ApprovalRecord /\ a \in Nat
  BY DealTypes, AmountsOk
<1>2. r \in ApprovalRecord
  BY <1>1 DEF ApprovalRecord
<1>3. approval' = [approval EXCEPT ![id] = r]
      /\ UNCHANGED <<claimVars, moneyVars, buyout, plan, reserved, credited, envVars>>
  BY DEF ProposeRepayment
<1> HIDE DEF r
<1>4. QED
  BY <1>2, <1>3, ApprovalMoves

LEMMA ApproveRepaymentStep ==
  ASSUME Inv, NEW id \in Id, NEW i \in Investor, ApproveRepayment(id, i)
  PROVE  Inv'
<1> DEFINE r == [approval[id] EXCEPT !.by = approval[id].by \union {i}]
<1>1. approval[id] \in ApprovalRecord
  BY DealTypes
<1>2. r \in ApprovalRecord
  BY <1>1 DEF ApprovalRecord
<1>3. approval' = [approval EXCEPT ![id] = r]
      /\ UNCHANGED <<claimVars, moneyVars, buyout, plan, reserved, credited, envVars>>
  BY DEF ApproveRepayment
<1> HIDE DEF r
<1>4. QED
  BY <1>2, <1>3, ApprovalMoves

LEMMA EnvMoves ==
  ASSUME Inv, EnvOk', UNCHANGED <<claimVars, moneyVars, dealVars>>
  PROVE  Inv'
<1>1. TypeOK'
  BY ClaimsKept, MoneyKept, DealsKept DEF TypeOK
<1>2. /\ UNCHANGED <<pool, stats, balance, flow, nft>>
      /\ UNCHANGED <<buyout, plan, reserved, credited>>
  BY DEF moneyVars, dealVars
<1>3. QED
  BY <1>1, <1>2, BooksUntouched

LEMMA SurroundingsStep == ASSUME Inv, Surroundings PROVE Inv'
<1>1. settings \in SettingsRecord /\ gate \in GateRecord /\ now \in Time
  BY DEF Inv, TypeOK, EnvOk
<1>2. ASSUME NEW s \in SettingsRecord, Configure(s) PROVE Inv'
  <2>1. EnvOk' /\ UNCHANGED <<claimVars, moneyVars, dealVars>>
    BY <1>1, <1>2 DEF Configure, EnvOk
  <2>2. QED
    BY <2>1, EnvMoves
<1>3. ASSUME NEW g \in GateRecord, Environment(g) PROVE Inv'
  <2>1. EnvOk' /\ UNCHANGED <<claimVars, moneyVars, dealVars>>
    BY <1>1, <1>3 DEF Environment, EnvOk
  <2>2. QED
    BY <2>1, EnvMoves
<1>4. ASSUME NEW c \in Caps, SetMaxPositionBps(c) PROVE Inv'
  <2>1. c \in Bps
    BY SettingsFit
  <2>2. [settings EXCEPT !.cap = c] \in SettingsRecord
    BY <1>1, <2>1 DEF SettingsRecord
  <2>3. QED
    BY <1>2, <1>4, <2>2 DEF SetMaxPositionBps
<1>5. ASSUME NEW b \in Splits, SetLatePenaltySplit(b) PROVE Inv'
  <2>1. b \in Bps
    BY SettingsFit
  <2>2. [settings EXCEPT !.split = b] \in SettingsRecord
    BY <1>1, <2>1 DEF SettingsRecord
  <2>3. QED
    BY <1>2, <1>5, <2>2 DEF SetLatePenaltySplit
<1>6. ASSUME NEW b \in Penalties, SetLatePenaltyBps(b) PROVE Inv'
  <2>1. b \in Bps
    BY SettingsFit
  <2>2. [settings EXCEPT !.penalty = b] \in SettingsRecord
    BY <1>1, <2>1 DEF SettingsRecord
  <2>3. QED
    BY <1>2, <1>6, <2>2 DEF SetLatePenaltyBps
<1>7. CASE TogglePause
  <2>1. [gate EXCEPT !.paused = ~gate.paused] \in GateRecord
    BY <1>1 DEF GateRecord
  <2>2. QED
    BY <1>3, <1>7, <2>1 DEF TogglePause
<1>8. ASSUME NEW id \in Id, ToggleFreeze(id) PROVE Inv'
  <2>1. [gate EXCEPT !.frozen = Toggle(gate.frozen, id)] \in GateRecord
    BY <1>1 DEF GateRecord, Toggle
  <2>2. QED
    BY <1>3, <1>8, <2>1 DEF ToggleFreeze
<1>9. ASSUME NEW id \in Id, ToggleDispute(id) PROVE Inv'
  <2>1. [gate EXCEPT !.disputed = Toggle(gate.disputed, id)] \in GateRecord
    BY <1>1 DEF GateRecord, Toggle
  <2>2. QED
    BY <1>3, <1>9, <2>1 DEF ToggleDispute
<1>10. QED
  BY <1>4, <1>5, <1>6, <1>7, <1>8, <1>9 DEF Surroundings

LEMMA TickStep == ASSUME Inv, Tick PROVE Inv'
<1>1. now' = now + 1 /\ now < MaxTime /\ UNCHANGED <<claimVars, moneyVars, dealVars, settings, gate>>
  BY DEF Tick
<1>2. settings \in SettingsRecord /\ gate \in GateRecord /\ now \in Time /\ MaxTime \in Nat
  BY LimitsOk DEF Inv, TypeOK, EnvOk
<1>3. now' \in Time
  BY <1>1, <1>2 DEF Time
<1>4. EnvOk'
  BY <1>1, <1>2, <1>3 DEF EnvOk
<1>5. QED
  BY <1>1, <1>4, EnvMoves

-------------------------------------------------------------------------------
(* Schedules, reservations and buyouts before they settle.                 *)

LEMMA PlanMoves ==
  ASSUME Inv, NEW id \in Id, NEW r \in PlanRecord, r.next \in 1..(Len(r.parts) + 1),
         plan' = [plan EXCEPT ![id] = r]
  PROVE  /\ plan' \in [Id -> PlanRecord] /\ plan'[id] = r
         /\ \A x \in Id : plan'[x].next \in 1..(Len(plan'[x].parts) + 1)
         /\ \A x \in Id : x # id => plan'[x] = plan[x]
<1>1. plan \in [Id -> PlanRecord] /\ \A x \in Id : plan[x].next \in 1..(Len(plan[x].parts) + 1)
  BY DEF Inv, TypeOK, DealsOk
<1>2. plan' \in [Id -> PlanRecord] /\ plan'[id] = r /\ \A x \in Id : x # id => plan'[x] = plan[x]
  BY <1>1
<1>3. QED
  BY <1>1, <1>2

(* No installment is marked paid.                                          *)
LEMMA NonePaid == \A f : SumOver(f, 1..(1 - 1)) = 0
<1>1. 1..(1 - 1) = {}
  OBVIOUS
<1>2. QED
  BY <1>1, SumEmpty

LEMMA SetInstallmentScheduleStep ==
  ASSUME Inv, NEW id \in Id, NEW p \in Plans, SetInstallmentSchedule(id, p)
  PROVE  Inv'
<1> DEFINE r == [parts |-> p, next |-> 1]
<1>1. /\ Open(id) /\ plan' = [plan EXCEPT ![id] = r]
      /\ UNCHANGED <<claimVars, moneyVars, approval, buyout, reserved, credited, envVars>>
  BY DEF SetInstallmentSchedule
<1>2. p \in Seq(PartRecord)
  BY PlansOk DEF PartRecord
<1>3. r \in PlanRecord
  BY <1>2 DEF PlanRecord
<1>4. r.next \in 1..(Len(r.parts) + 1)
  <2>1. Len(p) \in Nat
    BY <1>2
  <2>2. QED
    BY <2>1
<1>5. r.next = 1 /\ r.parts = p
  OBVIOUS
<1> HIDE DEF r
<1>6. /\ plan' \in [Id -> PlanRecord] /\ plan'[id] = r
      /\ \A x \in Id : plan'[x].next \in 1..(Len(plan'[x].parts) + 1)
      /\ \A x \in Id : x # id => plan'[x] = plan[x]
  BY <1>1, <1>3, <1>4, PlanMoves
<1>7. DealsOk'
  BY <1>1, <1>6 DEF Inv, TypeOK, DealsOk
<1>8. TypeOK'
  BY <1>1, <1>7, ClaimsKept, MoneyKept, EnvKept DEF TypeOK
<1>9. UNCHANGED <<pool, stats, balance, flow, nft, buyout, reserved, credited>>
  BY <1>1 DEF moneyVars
<1>10. \A x \in Id : x # id => Same(x)
  BY <1>6, <1>9 DEF Same
<1>11. \A x \in Id : Worth(x)' = Worth(x)
  BY <1>9 DEF Worth, Exists
<1>12. Conserved'
  BY <1>9, <1>11, ConservedStays
<1>13. StatsInStep'
  BY <1>9, StatsSame DEF Exists
<1>14. PoolOk(id)'
  <2>1. PoolOk(id) /\ Exists(id)
    BY <1>1 DEF Inv, Open
  <2>2. Fresh(id)' /\ ClosedOk(id)' /\ ReceiptsOk(id)'
    BY <1>9, <2>1 DEF PoolOk, Fresh, ClosedOk, ReceiptsOk, Exists, Settled, Plain
  <2>3. PaidParts(id)' = 0
    BY <1>5, <1>6, NonePaid DEF PaidParts
  <2>4. pool[id].repaid \in Nat
    BY PoolTypes
  <2>5. PartsOk(id)'
    BY <1>9, <2>3, <2>4 DEF PartsOk
  <2>6. QED
    BY <2>2, <2>5 DEF PoolOk
<1>15. QED
  BY <1>8, <1>10, <1>12, <1>13, <1>14, OnePool

(* A reservation for an existing pool.                                     *)
LEMMA ReservationMoves ==
  ASSUME Inv, NEW id \in Id, NEW n \in Nat, Exists(id), reserved' = [reserved EXCEPT ![id] = n],
         UNCHANGED <<claimVars, moneyVars, approval, buyout, plan, credited, envVars>>
  PROVE  Inv'
<1>1. reserved' \in [Id -> Nat] /\ \A x \in Id : x # id => reserved'[x] = reserved[x]
  BY DEF Inv, TypeOK, DealsOk
<1>2. DealsOk'
  BY <1>1 DEF Inv, TypeOK, DealsOk
<1>3. TypeOK'
  BY <1>2, ClaimsKept, MoneyKept, EnvKept DEF TypeOK
<1>4. UNCHANGED <<pool, stats, balance, flow, nft, buyout, plan, credited>>
  BY DEF moneyVars
<1>5. \A x \in Id : x # id => Same(x)
  BY <1>1, <1>4 DEF Same
<1>6. \A x \in Id : Worth(x)' = Worth(x)
  BY <1>4 DEF Worth, Exists
<1>7. Conserved'
  BY <1>4, <1>6, ConservedStays
<1>8. StatsInStep'
  BY <1>4, StatsSame DEF Exists
<1>9. PoolOk(id)
  BY DEF Inv
<1>10. Fresh(id)' /\ ClosedOk(id)' /\ PartsOk(id)' /\ ReceiptsOk(id)'
  BY <1>4, <1>9 DEF PoolOk, Fresh, ClosedOk, PartsOk, PaidParts, ReceiptsOk, Exists, Open, Settled, Plain
<1>11. QED
  BY <1>3, <1>5, <1>7, <1>8, <1>10, OnePool DEF PoolOk

LEMMA ReserveEscrowStep ==
  ASSUME Inv, NEW id \in Id, NEW a \in Pay, ReserveEscrow(id, a)
  PROVE  Inv'
<1>1. /\ Exists(id) /\ reserved' = [reserved EXCEPT ![id] = a]
      /\ UNCHANGED <<claimVars, moneyVars, approval, buyout, plan, credited, envVars>>
  BY DEF ReserveEscrow, EscrowTerms, Open
<1>2. a \in Nat
  BY AmountsOk
<1>3. QED
  BY <1>1, <1>2, ReservationMoves

LEMMA ReleaseEscrowStep ==
  ASSUME Inv, NEW id \in Id, ReleaseEscrow(id)
  PROVE  Inv'
<1>1. /\ reserved[id] > 0 /\ reserved' = [reserved EXCEPT ![id] = 0]
      /\ UNCHANGED <<claimVars, moneyVars, approval, buyout, plan, credited, envVars>>
  BY DEF ReleaseEscrow
<1>2. Exists(id)
  BY <1>1 DEF Inv, PoolOk, Fresh
<1>3. QED
  BY <1>1, <1>2, ReservationMoves

(* The SME's discount comes in or goes back: the balance follows it.       *)
LEMMA BuyoutMoves ==
  ASSUME Inv, NEW id \in Id, Exists(id), NEW r \in BuyoutRecord, buyout' = [buyout EXCEPT ![id] = r],
         NEW d \in Int, r.amount = buyout[id].amount + d, balance[pool[id].token] + d >= 0,
         balance' = [balance EXCEPT ![pool[id].token] = balance[pool[id].token] + d],
         UNCHANGED <<claimVars, pool, cut, aggregate, stats, flow, nft,
                     approval, plan, reserved, credited, envVars>>
  PROVE  Inv'
<1> DEFINE t == pool[id].token
<1>1. buyout' \in [Id -> BuyoutRecord] /\ buyout'[id] = r /\ \A x \in Id : x # id => buyout'[x] = buyout[x]
  BY DEF Inv, TypeOK, DealsOk
<1>2. DealsOk'
  BY <1>1 DEF Inv, TypeOK, DealsOk
<1>3. t \in Token
  BY PoolTypes
<1>4. balance' = [balance EXCEPT ![t] = balance[t] + d] /\ balance[t] + d >= 0
  OBVIOUS
<1> HIDE DEF t
<1>5. MoneyOk' /\ PoolsOk'
  <2>1. balance \in [Token -> Nat] /\ balance[t] \in Nat
    BY <1>3, BalanceTypes
  <2>2. balance[t] + d \in Nat
    BY <1>4, <2>1
  <2>3. balance' \in [Token -> Nat]
    BY <1>4, <2>1, <2>2
  <2>4. QED
    BY <2>3 DEF Inv, TypeOK, MoneyOk, PoolsOk
<1>6. TypeOK'
  BY <1>2, <1>5, ClaimsKept, EnvKept DEF TypeOK
<1>7. \A x \in Id : x # id => Same(x)
  BY <1>1 DEF Same
<1>8. Worth(id)' = Worth(id) + d
  <2>1. Funding[id] \in Int /\ flow[id].in \in Int /\ flow[id].out \in Int /\ buyout[id].amount \in Int
    BY DealTypes, FlowTypes, InvoicesOk
  <2>2. QED
    BY <1>1, <2>1 DEF Worth, Exists
<1>9. Conserved'
  BY <1>3, <1>4, <1>7, <1>8, ConservedMoves
<1>10. StatsInStep'
  BY StatsSame DEF Exists
<1>11. PoolOk(id)
  BY DEF Inv
<1>12. Fresh(id)' /\ ClosedOk(id)' /\ PartsOk(id)' /\ ReceiptsOk(id)'
  BY <1>11 DEF PoolOk, Fresh, ClosedOk, PartsOk, PaidParts, ReceiptsOk, Exists, Open, Settled, Plain
<1>13. QED
  BY <1>6, <1>7, <1>9, <1>10, <1>12, OnePool DEF PoolOk

LEMMA ProposeEarlySettlementStep ==
  ASSUME Inv, NEW id \in Id, NEW a \in Pay, ProposeEarlySettlement(id, a)
  PROVE  Inv'
<1> DEFINE r == [buyout[id] EXCEPT !.amount = a]
           t == pool[id].token
<1>1. /\ Exists(id) /\ buyout[id] = NoBuyout /\ buyout' = [buyout EXCEPT ![id] = r]
      /\ balance' = [balance EXCEPT ![t] = balance[t] + a]
      /\ UNCHANGED <<claimVars, pool, cut, aggregate, stats, flow, nft,
                     approval, plan, reserved, credited, envVars>>
  BY DEF ProposeEarlySettlement, Open
<1>2. a \in Nat /\ buyout[id] \in BuyoutRecord
  BY AmountsOk, DealTypes
<1>3. r \in BuyoutRecord /\ r.amount = a
  <2>1. r = [amount |-> a, bps |-> 0, accepted |-> {}]
    BY <1>1 DEF NoBuyout
  <2> HIDE DEF r
  <2>2. 0 \in PendingBps
    BY DEF PendingBps, Unanimity
  <2>3. QED
    BY <1>2, <2>1, <2>2 DEF BuyoutRecord
<1>4. buyout[id].amount = 0
  BY <1>1 DEF NoBuyout
<1>5. balance[t] \in Nat
  BY <1>1, PoolTypes, BalanceTypes
<1> HIDE DEF r, t
<1>6. r.amount = buyout[id].amount + a /\ balance[t] + a >= 0 /\ a \in Int
  BY <1>2, <1>3, <1>4, <1>5
<1>7. r \in BuyoutRecord /\ t = pool[id].token
  BY <1>3 DEF t
<1>8. QED
  BY <1>1, <1>6, <1>7, BuyoutMoves

LEMMA CancelEarlySettlementStep ==
  ASSUME Inv, NEW id \in Id, CancelEarlySettlement(id)
  PROVE  Inv'
<1> DEFINE t == pool[id].token
           a == buyout[id].amount
           d == -a
<1>1. /\ a > 0 /\ a <= balance[t] /\ buyout' = [buyout EXCEPT ![id] = NoBuyout]
      /\ balance' = [balance EXCEPT ![t] = balance[t] - a]
      /\ UNCHANGED <<claimVars, pool, cut, aggregate, stats, flow, nft,
                     approval, plan, reserved, credited, envVars>>
  BY DEF CancelEarlySettlement
<1>2. Exists(id)
  BY <1>1 DEF Inv, PoolOk, Fresh, NoBuyout
<1>3. a \in Nat /\ balance[t] \in Nat
  BY <1>2, DealTypes, PoolTypes, BalanceTypes
<1>4. NoBuyout \in BuyoutRecord /\ NoBuyout.amount = 0
  BY NoBuyoutTyped
<1>5. /\ d \in Int /\ NoBuyout.amount = buyout[id].amount + d /\ balance[t] + d >= 0
      /\ balance[t] - a = balance[t] + d
  <2>1. a = buyout[id].amount
    OBVIOUS
  <2> HIDE DEF a, t
  <2>2. QED
    BY <1>1, <1>3, <1>4, <2>1
<1>6. balance' = [balance EXCEPT ![t] = balance[t] + d]
  BY <1>1, <1>5
<1> HIDE DEF d
<1>7. QED
  BY <1>1, <1>2, <1>4, <1>5, <1>6, BuyoutMoves

-------------------------------------------------------------------------------
(* The parts of a payment.                                                 *)

LEMMA PoolMoves ==
  ASSUME Inv, NEW id \in Id, NEW p \in PoolRecord, p.token = pool[id].token,
         pool' = [pool EXCEPT ![id] = p]
  PROVE  /\ pool' \in [Id -> PoolRecord] /\ pool'[id] = p
         /\ \A x \in Id : x # id => pool'[x] = pool[x]
         /\ \A x \in Id : Exists(x)' = Exists(x)
<1>1. pool \in [Id -> PoolRecord]
  BY DEF Inv, TypeOK, PoolsOk
<1>2. pool' \in [Id -> PoolRecord] /\ pool'[id] = p /\ \A x \in Id : x # id => pool'[x] = pool[x]
  BY <1>1
<1>3. QED
  BY <1>2 DEF Exists

LEMMA FlowsMove ==
  ASSUME Inv, NEW id \in Id, NEW credit \in Nat, NEW out \in Nat, flow' = Flows(id, credit, out)
  PROVE  /\ flow' \in [Id -> FlowRecord] /\ \A x \in Id : x # id => flow'[x] = flow[x]
         /\ flow'[id].in = flow[id].in + credit /\ flow'[id].out = flow[id].out + out
         /\ flow'[id].loose = (flow[id].loose \/ ~Sound(id))
         /\ flow'[id].twice = flow[id].twice
<1> DEFINE r == [in |-> flow[id].in + credit, out |-> flow[id].out + out,
                 loose |-> flow[id].loose \/ ~Sound(id), twice |-> flow[id].twice]
<1>1. flow \in [Id -> FlowRecord] /\ flow[id].in \in Nat /\ flow[id].out \in Nat
      /\ flow[id].loose \in BOOLEAN /\ flow[id].twice \in BOOLEAN
  BY FlowTypes
<1>2. flow' = [flow EXCEPT ![id] = r]
  BY DEF Flows
<1>3. (flow[id].loose \/ ~Sound(id)) \in BOOLEAN
  OBVIOUS
<1>4. r \in FlowRecord
  BY <1>1, <1>3 DEF FlowRecord
<1>5. r.in = flow[id].in + credit /\ r.out = flow[id].out + out
      /\ r.loose = (flow[id].loose \/ ~Sound(id)) /\ r.twice = flow[id].twice
  OBVIOUS
<1> HIDE DEF r
<1>6. flow' \in [Id -> FlowRecord] /\ flow'[id] = r /\ \A x \in Id : x # id => flow'[x] = flow[x]
  BY <1>1, <1>2, <1>4
<1>7. QED
  BY <1>5, <1>6

LEMMA KeepMoves ==
  ASSUME Inv, NEW id \in Id, NEW t \in Token, NEW c \in Nat, NEW n \in Nat, Keep(id, t, c, n)
  PROVE  /\ flow' \in [Id -> FlowRecord] /\ \A x \in Id : x # id => flow'[x] = flow[x]
         /\ flow'[id].in = flow[id].in + n /\ flow'[id].out = flow[id].out
         /\ flow'[id].loose = flow[id].loose /\ flow'[id].twice = flow[id].twice
         /\ balance' = [balance EXCEPT ![t] = balance[t] + n] /\ balance' \in [Token -> Nat]
         /\ cut' \in [Id -> Nat] /\ aggregate' = aggregate
<1> DEFINE m == flow[id].in + n
           r == [flow[id] EXCEPT !.in = m]
<1>1. /\ balance' = [balance EXCEPT ![t] = balance[t] + n] /\ cut' = [cut EXCEPT ![id] = c]
      /\ flow' = [flow EXCEPT ![id] = r] /\ aggregate' = aggregate
  BY DEF Keep
<1>2. flow \in [Id -> FlowRecord] /\ flow[id] \in FlowRecord /\ m \in Nat
  BY FlowTypes
<1>3. balance' \in [Token -> Nat]
  <2>1. balance \in [Token -> Nat] /\ balance[t] + n \in Nat
    BY BalanceTypes
  <2>2. QED
    BY <1>1, <2>1
<1>4. cut' \in [Id -> Nat]
  BY <1>1 DEF Inv, TypeOK, PoolsOk
<1> HIDE DEF m
<1>5. r \in FlowRecord /\ r.in = m /\ r.out = flow[id].out /\ r.loose = flow[id].loose
      /\ r.twice = flow[id].twice
  BY <1>2 DEF FlowRecord
<1> HIDE DEF r
<1>6. flow' \in [Id -> FlowRecord] /\ flow'[id] = r /\ \A x \in Id : x # id => flow'[x] = flow[x]
  BY <1>1, <1>2, <1>5
<1>7. QED
  BY <1>1, <1>3, <1>4, <1>5, <1>6 DEF m

LEMMA RepaidMoves ==
  ASSUME Inv, NEW id \in Id, SetRepaid({id})
  PROVE  /\ nft[id] = "Funded"
         /\ nft' = [x \in Id |-> IF x \in {id} THEN "Repaid" ELSE nft[x]]
BY DEF SetRepaid

LEMMA BookedMoves ==
  ASSUME Inv, NEW n \in Nat, NEW closes \in BOOLEAN, stats' = Booked(n, closes)
  PROVE  /\ stats' \in StatsRecord /\ stats'.opened = stats.opened
         /\ stats'.defaulted = stats.defaulted
         /\ stats'.active = IF closes THEN Less(stats.active, 1) ELSE stats.active
<1> DEFINE r == stats.repaid + n
           a == IF closes THEN Less(stats.active, 1) ELSE stats.active
<1>1. stats \in StatsRecord /\ r \in Nat /\ a \in Nat
  BY BalanceTypes DEF Less
<1>2. stats' = [stats EXCEPT !.repaid = r, !.active = a]
  BY DEF Booked
<1> HIDE DEF r, a
<1>3. stats' \in StatsRecord /\ stats'.opened = stats.opened /\ stats'.defaulted = stats.defaulted
      /\ stats'.active = a
  BY <1>1, <1>2 DEF StatsRecord
<1>4. QED
  BY <1>3 DEF a

(* What a pool is left as when its repayments are shared out.              *)
LEMMA ReceiptsShared ==
  ASSUME Inv, NEW id \in Id, nft[id] = "Funded", nft'[id] \in {"Repaid", "Defaulted"},
         NEW credit \in Nat, NEW out \in Nat, NEW total \in Nat,
         pool'[id].repaid = total, Rate[id] = 1 => total <= flow[id].in + credit,
         Sound(id) => out <= total,
         flow'[id].in = flow[id].in + credit, flow'[id].out = flow[id].out + out,
         flow'[id].loose = (flow[id].loose \/ ~Sound(id))
  PROVE  ReceiptsOk(id)'
<1>1. flow[id].in \in Nat /\ flow[id].out \in Nat
  BY FlowTypes
<1>2. ~flow[id].loose => flow[id].out = 0
  BY DEF Inv, PoolOk, ReceiptsOk
<1>3. ASSUME Plain(id)' PROVE flow'[id].out <= flow'[id].in
  <2>1. Rate[id] = 1 /\ ~flow[id].loose /\ Sound(id)
    BY <1>3 DEF Plain
  <2>2. out <= total /\ total <= flow[id].in + credit /\ flow[id].out = 0
    BY <1>2, <2>1
  <2>3. QED
    BY <1>1, <2>2
<1>4. QED
  BY <1>3 DEF ReceiptsOk

(* The whole of a payment, or of a default, that is shared out.            *)
LEMMA SharedOut ==
  ASSUME Inv, ClaimsOk', DealsOk', EnvOk', NEW id \in Id, Exists(id),
         NEW p \in PoolRecord, p.token = pool[id].token, pool' = [pool EXCEPT ![id] = p],
         NEW t \in Token, NEW c \in Nat, NEW arriving \in Nat, NEW credit \in Nat,
         DistributeYield(id, t, p.repaid, c, arriving),
         flow' = Flows(id, credit, YieldOut(id, p.repaid, c)),
         buyout'[id].amount = buyout[id].amount + arriving - credit,
         Rate[id] = 1 => p.repaid <= flow[id].in + credit,
         NEW s \in {"Repaid", "Defaulted"}, nft[id] = "Funded",
         nft' = [x \in Id |-> IF x \in {id} THEN s ELSE nft[x]],
         p.closed <=> s = "Repaid" \/ id \in credited', p.closed \/ p.repaid >= PaidParts(id)',
         stats' \in StatsRecord, stats'.opened = stats.opened,
         stats'.active = Less(stats.active, 1),
         stats'.defaulted = IF s = "Defaulted" THEN stats.defaulted + 1 ELSE stats.defaulted,
         \A x \in Id : x # id => /\ plan'[x] = plan[x] /\ reserved'[x] = reserved[x]
                                 /\ buyout'[x] = buyout[x]
                                 /\ (x \in credited') <=> (x \in credited)
  PROVE  Inv'
<1> DEFINE out == YieldOut(id, p.repaid, c)
           d   == arriving - out
<1>1. /\ pool' \in [Id -> PoolRecord] /\ pool'[id] = p
      /\ \A x \in Id : x # id => pool'[x] = pool[x]
      /\ \A x \in Id : Exists(x)' = Exists(x)
  BY PoolMoves
<1>2. p.repaid \in Nat
  BY DEF PoolRecord
<1>3. /\ out \in Nat /\ (Sound(id) => out <= p.repaid)
      /\ balance' = [balance EXCEPT ![t] = balance[t] + d]
      /\ balance' \in [Token -> Nat] /\ aggregate' \in [Token -> Int] /\ cut' \in [Id -> Nat]
  BY <1>2, Distributed
<1>4. flow' = Flows(id, credit, out)
  OBVIOUS
<1>5. d \in Int /\ d = arriving - out
  BY <1>3
<1> HIDE DEF out, d
<1>6. /\ flow' \in [Id -> FlowRecord] /\ \A x \in Id : x # id => flow'[x] = flow[x]
      /\ flow'[id].in = flow[id].in + credit /\ flow'[id].out = flow[id].out + out
      /\ flow'[id].loose = (flow[id].loose \/ ~Sound(id))
      /\ flow'[id].twice = flow[id].twice
  BY <1>3, <1>4, FlowsMove
<1>7. nft' \in [Id -> {"Listed", "Funded", "Repaid", "Defaulted"}] /\ nft'[id] = s
      /\ \A x \in Id : x # id => nft'[x] = nft[x]
  BY DEF Inv, TypeOK, PoolsOk
<1>8. TypeOK'
  BY <1>1, <1>3, <1>6, <1>7 DEF TypeOK, PoolsOk, MoneyOk
<1>9. \A x \in Id : x # id => Same(x)
  BY <1>1, <1>6, <1>7 DEF Same
<1>10. Conserved'
  <2>1. Funding[id] \in Int /\ flow[id].in \in Int /\ flow[id].out \in Int /\ buyout[id].amount \in Int
    BY DealTypes, FlowTypes, InvoicesOk
  <2>2. Worth(id) = Funding[id] + buyout[id].amount + flow[id].in - flow[id].out
    BY DEF Worth
  <2>3. Worth(id)' = Funding[id] + buyout'[id].amount + flow'[id].in - flow'[id].out
    BY <1>1 DEF Worth
  <2>4. Worth(id)' = Worth(id) + d
    BY <1>3, <1>5, <1>6, <2>1, <2>2, <2>3
  <2>5. QED
    BY <1>3, <1>5, <1>9, <2>4, ConservedMoves
<1>11. StatsInStep'
  <2>1. Cardinality({id}) = 1 /\ {id} \in SUBSET Id
    BY FS_Singleton
  <2>2. QED
    BY <1>1, <2>1, StatsSettle
<1>12. PoolOk(id)'
  <2>1. Fresh(id)'
    BY <1>1, <1>7 DEF Fresh
  <2>2. ClosedOk(id)'
    BY <1>1, <1>7 DEF ClosedOk, Settled
  <2>3. PartsOk(id)'
    BY <1>1 DEF PartsOk, Open
  <2>4. ReceiptsOk(id)'
    BY <1>1, <1>2, <1>3, <1>6, <1>7, ReceiptsShared
  <2>5. QED
    BY <2>1, <2>2, <2>3, <2>4 DEF PoolOk
<1>13. QED
  BY <1>8, <1>9, <1>10, <1>11, <1>12, OnePool

(* A payment that is only taken in.                                        *)
LEMMA TakenIn ==
  ASSUME Inv, ClaimsOk', DealsOk', EnvOk', NEW id \in Id, Open(id),
         NEW p \in PoolRecord, p.token = pool[id].token, ~p.closed,
         pool' = [pool EXCEPT ![id] = p],
         NEW t \in Token, NEW c \in Nat, NEW arriving \in Nat, Keep(id, t, c, arriving),
         Rate[id] = 1 => p.repaid <= flow[id].in + arriving, p.repaid >= PaidParts(id)',
         nft' = nft, nft[id] = "Funded" \/ credited' = credited, buyout' = buyout,
         stats' \in StatsRecord, stats'.opened = stats.opened,
         stats'.active = stats.active, stats'.defaulted = stats.defaulted,
         \A x \in Id : x # id => /\ plan'[x] = plan[x] /\ reserved'[x] = reserved[x]
                                 /\ (x \in credited') <=> (x \in credited)
  PROVE  Inv'
<1>1. /\ pool' \in [Id -> PoolRecord] /\ pool'[id] = p
      /\ \A x \in Id : x # id => pool'[x] = pool[x]
      /\ \A x \in Id : Exists(x)' = Exists(x)
  BY PoolMoves
<1>2. /\ flow' \in [Id -> FlowRecord] /\ \A x \in Id : x # id => flow'[x] = flow[x]
      /\ flow'[id].in = flow[id].in + arriving /\ flow'[id].out = flow[id].out
      /\ flow'[id].loose = flow[id].loose /\ flow'[id].twice = flow[id].twice
      /\ balance' = [balance EXCEPT ![t] = balance[t] + arriving] /\ balance' \in [Token -> Nat]
      /\ cut' \in [Id -> Nat] /\ aggregate' = aggregate
  BY KeepMoves
<1>3. TypeOK'
  BY <1>1, <1>2 DEF Inv, TypeOK, PoolsOk, MoneyOk
<1>4. \A x \in Id : x # id => Same(x)
  BY <1>1, <1>2 DEF Same
<1>5. Exists(id) /\ ~pool[id].closed /\ PoolOk(id)
  BY DEF Open, Inv
<1>6. Conserved'
  <2>1. Funding[id] \in Int /\ flow[id].in \in Int /\ flow[id].out \in Int /\ buyout[id].amount \in Int
    BY DealTypes, FlowTypes, InvoicesOk
  <2>2. Worth(id)' = Worth(id) + arriving
    BY <1>1, <1>2, <1>5, <2>1 DEF Worth
  <2>3. arriving \in Int
    OBVIOUS
  <2>4. QED
    BY <1>2, <1>4, <2>2, <2>3, ConservedMoves
<1>7. StatsInStep'
  BY <1>1, StatsSame
<1>8. PoolOk(id)'
  <2>1. Fresh(id)'
    BY <1>1, <1>5 DEF PoolOk, Fresh
  <2>2. ClosedOk(id)'
    BY <1>1, <1>2, <1>5 DEF PoolOk, ClosedOk, Settled
  <2>3. PartsOk(id)'
    BY <1>1 DEF PartsOk
  <2>4. ReceiptsOk(id)'
    <3>1. flow[id].in \in Nat /\ flow[id].out \in Nat
      BY FlowTypes
    <3>2. QED
      BY <1>1, <1>2, <1>5, <3>1 DEF PoolOk, ReceiptsOk, Plain
  <2>5. QED
    BY <2>1, <2>2, <2>3, <2>4 DEF PoolOk
<1>9. QED
  BY <1>3, <1>4, <1>6, <1>7, <1>8, OnePool

-------------------------------------------------------------------------------
(* Payments.                                                               *)

(* One more installment is marked paid.                                    *)
LEMMA NextPaid ==
  ASSUME NEW f, NEW n \in Nat, n >= 1, \A k \in 1..n : f[k] \in Int
  PROVE  SumOver(f, 1..((n + 1) - 1)) = f[n] + SumOver(f, 1..(n - 1))
<1>1. 1..((n + 1) - 1) = 1..(n - 1) \union {n} /\ n \notin 1..(n - 1)
  OBVIOUS
<1>2. IsFiniteSet(1..(n - 1))
  BY FS_Interval
<1> DEFINE S == 1..(n - 1)
<1>3. (\A k \in S : f[k] \in Int) /\ f[n] \in Int
  OBVIOUS
<1> HIDE DEF S
<1>4. SumOver(f, S \union {n}) = f[n] + SumOver(f, S)
  BY <1>1, <1>2, <1>3, SumAdd DEF S
<1>5. QED
  BY <1>1, <1>4 DEF S

LEMMA PaidFinite == \A n \in Nat : IsFiniteSet(1..(n - 1))
<1> SUFFICES ASSUME NEW n \in Nat PROVE IsFiniteSet(1..(n - 1))
  OBVIOUS
<1>1. 1 \in Int /\ n - 1 \in Int
  OBVIOUS
<1>2. QED
  BY <1>1, FS_Interval

LEMMA PaidPartsInt == ASSUME Inv, NEW id \in Id PROVE PaidParts(id) \in Int
<1> DEFINE parts == plan[id].parts
           n     == plan[id].next
           g     == [k \in DOMAIN parts |-> parts[k].amount]
<1>1. /\ parts \in Seq(PartRecord) /\ n \in Nat /\ n >= 1 /\ n <= Len(parts) + 1
      /\ \A k \in DOMAIN parts : g[k] \in Nat
  BY DealTypes
<1>2. PaidParts(id) = SumOver(g, 1..(n - 1))
  BY DEF PaidParts
<1> HIDE DEF parts, n, g
<1>3. DOMAIN parts = 1..Len(parts) /\ Len(parts) \in Nat
  BY <1>1
<1>4. IsFiniteSet(1..(n - 1)) /\ \A k \in 1..(n - 1) : g[k] \in Int
  <2>1. \A k \in 1..(n - 1) : k \in DOMAIN parts
    BY <1>1, <1>3
  <2>2. IsFiniteSet(1..(n - 1))
    BY <1>1, PaidFinite
  <2>3. QED
    BY <1>1, <2>1, <2>2
<1>5. QED
  BY <1>2, <1>4, SumInt

(* repay_internal's move of the schedule: what is marked paid was received.*)
LEMMA InstallmentPaid ==
  ASSUME Inv, NEW id \in Id, NEW n \in Nat, Open(id), InstallmentFits(id, n),
         plan' = [plan EXCEPT ![id].next = IF Scheduled(id) THEN plan[id].next + 1 ELSE plan[id].next]
  PROVE  /\ plan' \in [Id -> PlanRecord]
         /\ \A x \in Id : plan'[x].next \in 1..(Len(plan'[x].parts) + 1)
         /\ \A x \in Id : x # id => plan'[x] = plan[x]
         /\ pool[id].repaid + n >= PaidParts(id)'
<1> DEFINE m == IF Scheduled(id) THEN plan[id].next + 1 ELSE plan[id].next
           r == [plan[id] EXCEPT !.next = m]
           parts == plan[id].parts
           f == [k \in DOMAIN parts |-> parts[k].amount]
           old == plan[id].next
<1>1. /\ plan[id] \in PlanRecord /\ parts \in Seq(PartRecord) /\ old \in Nat /\ old >= 1
      /\ old <= Len(parts) + 1 /\ \A k \in DOMAIN parts : parts[k].amount \in Nat
  BY DealTypes
<1>2. plan' = [plan EXCEPT ![id] = r]
  OBVIOUS
<1>3. Scheduled(id) => old <= Len(parts)
  BY DEF InstallmentFits
<1>4. m \in Nat /\ m = (IF Scheduled(id) THEN old + 1 ELSE old)
  BY <1>1
<1> HIDE DEF m
<1>5. r \in PlanRecord /\ r.parts = parts /\ r.next = m
  BY <1>1, <1>4 DEF PlanRecord
<1>6. Len(parts) \in Nat /\ DOMAIN parts = 1..Len(parts)
  BY <1>1
<1>7. m \in 1..(Len(parts) + 1)
  <2> HIDE DEF old, parts
  <2>1. QED
    BY <1>1, <1>3, <1>4, <1>6
<1> HIDE DEF r
<1>8. /\ plan' \in [Id -> PlanRecord] /\ plan'[id] = r
      /\ \A x \in Id : plan'[x].next \in 1..(Len(plan'[x].parts) + 1)
      /\ \A x \in Id : x # id => plan'[x] = plan[x]
  <2>1. r.next \in 1..(Len(r.parts) + 1)
    BY <1>5, <1>7
  <2>2. QED
    BY <1>2, <1>5, <2>1, PlanMoves
<1>9. PaidParts(id) = SumOver(f, 1..(old - 1)) /\ PaidParts(id)' = SumOver(f, 1..(m - 1))
  <2>1. plan'[id].parts = parts /\ plan'[id].next = m
    BY <1>5, <1>8
  <2>2. QED
    BY <2>1 DEF PaidParts
<1>10. pool[id].repaid >= SumOver(f, 1..(old - 1)) /\ pool[id].repaid \in Nat
  BY <1>9, PoolTypes DEF Inv, PoolOk, PartsOk
<1>11. CASE ~Scheduled(id)
  <2>1. m = old
    BY <1>4, <1>11
  <2>2. IsFiniteSet(1..(old - 1)) /\ \A k \in 1..(old - 1) : f[k] \in Int
    <3>1. IsFiniteSet(1..(old - 1))
      BY <1>1, PaidFinite
    <3>2. \A k \in DOMAIN parts : f[k] \in Int
      BY <1>1
    <3>3. 1..(old - 1) \subseteq DOMAIN parts
      <4> HIDE DEF old, parts
      <4>1. QED
        BY <1>1, <1>6
    <3>4. QED
      BY <3>1, <3>2, <3>3
  <2> DEFINE s == SumOver(f, 1..(old - 1))
  <2>3. s \in Int
    <3> HIDE DEF f, old
    <3>1. QED
      BY <2>2, SumInt
  <2>4. PaidParts(id)' = s /\ pool[id].repaid >= s
    BY <1>9, <1>10, <2>1
  <2> HIDE DEF s
  <2>5. pool[id].repaid + n >= PaidParts(id)'
    BY <1>10, <2>3, <2>4
  <2>6. QED
    BY <1>8, <2>5
<1>12. CASE Scheduled(id)
  <2>1. m = old + 1 /\ old <= Len(parts)
    BY <1>3, <1>4, <1>12
  <2>2. f[old] <= n /\ f[old] \in Nat
    <3>1. old \in DOMAIN parts
      <4> HIDE DEF old, parts
      <4>1. QED
        BY <1>1, <1>6, <2>1
    <3>2. f[old] = Installment(id).amount /\ f[old] \in Nat
      BY <1>1, <3>1 DEF Installment
    <3>3. n >= Installment(id).amount
      BY <1>12, <3>2 DEF InstallmentFits
    <3>4. QED
      BY <3>2, <3>3
  <2>3. \A k \in 1..old : f[k] \in Int
    <3>1. \A k \in DOMAIN parts : f[k] \in Int
      BY <1>1
    <3>2. 1..old \subseteq DOMAIN parts
      <4> HIDE DEF old, parts
      <4>1. QED
        BY <1>1, <1>6, <2>1
    <3>3. QED
      BY <3>1, <3>2
  <2> DEFINE s == SumOver(f, 1..(old - 1))
  <2>4. SumOver(f, 1..((old + 1) - 1)) = f[old] + s
    <3> HIDE DEF f, old
    <3>1. QED
      BY <1>1, <2>3, NextPaid
  <2>5. s \in Int
    <3>1. IsFiniteSet(1..(old - 1))
      BY <1>1, PaidFinite
    <3>2. \A k \in 1..(old - 1) : f[k] \in Int
      <4> HIDE DEF old, f
      <4>1. QED
        BY <1>1, <2>3
    <3> HIDE DEF f, old
    <3>3. QED
      BY <3>1, <3>2, SumInt
  <2>6. PaidParts(id)' = f[old] + s /\ pool[id].repaid >= s
    BY <1>9, <1>10, <2>1, <2>4
  <2> DEFINE a == f[old]
  <2>7. a <= n /\ a \in Nat /\ PaidParts(id)' = a + s
    BY <2>2, <2>6
  <2> HIDE DEF s, a
  <2>8. pool[id].repaid + n >= PaidParts(id)'
    BY <1>10, <2>5, <2>6, <2>7
  <2>9. QED
    BY <1>8, <2>8
<1>13. QED
  BY <1>11, <1>12

(* repay_internal, whatever its caller did to the approval.                *)
LEMMA RepayInternalStep ==
  ASSUME Inv, NEW id \in Id, NEW t \in Token, NEW amount \in Nat, RepayInternal(id, t, amount),
         approval' \in [Id -> ApprovalRecord]
  PROVE  Inv'
<1> DEFINE effective == amount * Rate[id]
           late    == ~pool[id].penalized /\ settings.penalty > 0 /\ Overdue(id)
           penalty == LatePenalty(id)
           share   == BpsOf(penalty, settings.split)
           owed    == pool[id].owed + penalty - share
           repaid  == pool[id].repaid + effective
           closes  == repaid >= owed
           held    == cut[id] + share
           marked  == pool[id].penalized \/ late
           p       == [pool[id] EXCEPT !.repaid = repaid, !.owed = owed, !.penalized = marked,
                                       !.closed = closes]
<1>1. /\ Open(id) /\ InstallmentFits(id, effective)
      /\ pool' = [pool EXCEPT ![id] = p]
      /\ plan' = [plan EXCEPT ![id].next = IF Scheduled(id) THEN plan[id].next + 1 ELSE plan[id].next]
      /\ stats' = Booked(effective, closes)
      /\ UNCHANGED <<claimVars, buyout, reserved, credited, envVars>>
  BY DEF RepayInternal
<1>2. \/ /\ closes
         /\ DistributeYield(id, t, repaid, held, amount)
         /\ flow' = Flows(id, amount, YieldOut(id, repaid, held))
         /\ SetRepaid({id})
      \/ /\ ~closes
         /\ Keep(id, t, held, amount)
         /\ nft' = nft
  BY DEF RepayInternal
<1>3. /\ pool[id] \in PoolRecord /\ cut[id] \in Nat /\ pool[id].repaid \in Nat
      /\ pool[id].owed \in Nat /\ pool[id].face \in Nat
  BY PoolTypes
<1>4. effective \in Nat /\ (Rate[id] = 1 => effective = amount)
  <2>1. Rate[id] \in Nat
    BY RatesOk
  <2>2. QED
    BY <2>1
<1>5. penalty \in Nat /\ share \in Nat /\ share <= penalty
  <2>1. settings.penalty \in Bps /\ settings.split \in Bps
    BY DEF Inv, TypeOK, EnvOk, SettingsRecord
  <2>2. penalty \in Nat
    <3>1. BpsOf(pool[id].face, settings.penalty) \in Nat
      BY <1>3, <2>1, BpsShare
    <3>2. QED
      BY <3>1 DEF LatePenalty
  <2> HIDE DEF penalty
  <2>3. QED
    BY <2>1, <2>2, BpsShare
<1> HIDE DEF effective, penalty, share
<1>6. owed \in Nat /\ repaid \in Nat /\ held \in Nat /\ closes \in BOOLEAN
  BY <1>3, <1>4, <1>5
<1>7. marked \in BOOLEAN
  BY PoolTypes
<1> HIDE DEF owed, held, marked, late
<1>8. p \in PoolRecord /\ p.token = pool[id].token /\ p.repaid = repaid /\ p.closed = closes
  <2> HIDE DEF repaid, closes
  <2>1. QED
    BY <1>3, <1>6, <1>7 DEF PoolRecord
<1>9. /\ plan' \in [Id -> PlanRecord]
      /\ \A x \in Id : plan'[x].next \in 1..(Len(plan'[x].parts) + 1)
      /\ \A x \in Id : x # id => plan'[x] = plan[x]
      /\ repaid >= PaidParts(id)'
  BY <1>1, <1>4, InstallmentPaid
<1>10. DealsOk'
  BY <1>1, <1>9 DEF Inv, TypeOK, DealsOk
<1>11. ClaimsOk' /\ EnvOk'
  BY <1>1, ClaimsKept, EnvKept
<1>12. /\ stats' \in StatsRecord /\ stats'.opened = stats.opened
       /\ stats'.defaulted = stats.defaulted
       /\ stats'.active = IF closes THEN Less(stats.active, 1) ELSE stats.active
  <2> HIDE DEF closes
  <2>1. QED
    BY <1>1, <1>4, <1>6, BookedMoves
<1>13. Rate[id] = 1 => repaid <= flow[id].in + amount
  <2>1. Rate[id] = 1 => pool[id].repaid <= flow[id].in
    BY DEF Inv, PoolOk, ReceiptsOk
  <2>2. flow[id].in \in Nat
    BY FlowTypes
  <2>3. QED
    BY <1>3, <1>4, <2>1, <2>2
<1>14. \A x \in Id : x # id => /\ plan'[x] = plan[x] /\ reserved'[x] = reserved[x]
                               /\ buyout'[x] = buyout[x]
                               /\ (x \in credited') <=> (x \in credited)
  BY <1>1, <1>9
<1>15. Exists(id) /\ buyout'[id].amount = buyout[id].amount + amount - amount
  <2>1. buyout[id].amount \in Nat
    BY DealTypes
  <2>2. QED
    BY <1>1, <2>1 DEF Open
<1> HIDE DEF p
<1>16. CASE closes
  <2>1. /\ DistributeYield(id, t, p.repaid, held, amount)
        /\ flow' = Flows(id, amount, YieldOut(id, p.repaid, held))
        /\ SetRepaid({id}) /\ p.closed
    BY <1>2, <1>8, <1>16
  <2>2. nft[id] = "Funded" /\ nft' = [x \in Id |-> IF x \in {id} THEN "Repaid" ELSE nft[x]]
    BY <2>1, RepaidMoves
  <2>3. Rate[id] = 1 => p.repaid <= flow[id].in + amount
    BY <1>8, <1>13
  <2> HIDE DEF repaid, closes
  <2>4. stats'.active = Less(stats.active, 1)
    BY <1>12, <1>16
  <2>5. QED
    BY <1>1, <1>6, <1>8, <1>10, <1>11, <1>12, <1>14, <1>15, <2>1, <2>2, <2>3, <2>4, SharedOut
<1>17. CASE ~closes
  <2>1. Keep(id, t, held, amount) /\ nft' = nft /\ ~p.closed
    BY <1>2, <1>8, <1>17
  <2>2. (Rate[id] = 1 => p.repaid <= flow[id].in + amount) /\ p.repaid >= PaidParts(id)'
    BY <1>8, <1>9, <1>13
  <2> HIDE DEF repaid, closes
  <2>3. stats'.active = stats.active
    BY <1>12, <1>17
  <2>4. QED
    BY <1>1, <1>6, <1>8, <1>10, <1>11, <1>12, <1>14, <2>1, <2>2, <2>3, TakenIn
<1>18. QED
  BY <1>16, <1>17

LEMMA RepayStep ==
  ASSUME Inv, NEW id \in Id, NEW t \in Token, NEW a \in Pay, Repay(id, t, a)
  PROVE  Inv'
<1>1. RepayInternal(id, t, a) /\ approval' \in [Id -> ApprovalRecord] /\ a \in Nat
  BY AmountsOk DEF Repay, Inv, TypeOK, DealsOk
<1>2. QED
  BY <1>1, RepayInternalStep

LEMMA ExecuteStep ==
  ASSUME Inv, NEW id \in Id, NEW t \in Token, ExecuteRepayment(id, t)
  PROVE  Inv'
<1> DEFINE r == [approval[id] EXCEPT !.executed = TRUE]
<1>1. RepayInternal(id, t, approval[id].amount) /\ approval' = [approval EXCEPT ![id] = r]
  BY DEF ExecuteRepayment
<1>2. approval[id] \in ApprovalRecord /\ approval[id].amount \in Nat
      /\ approval \in [Id -> ApprovalRecord]
  BY DealTypes DEF Inv, TypeOK, DealsOk
<1>3. r \in ApprovalRecord
  BY <1>2 DEF ApprovalRecord
<1> HIDE DEF r
<1>4. approval' \in [Id -> ApprovalRecord]
  BY <1>1, <1>2, <1>3
<1>5. QED
  BY <1>1, <1>2, <1>4, RepayInternalStep

LEMMA RepayPartialStep ==
  ASSUME Inv, NEW id \in Id, NEW t \in Token, NEW a \in Pay, RepayPartial(id, t, a)
  PROVE  Inv'
<1> DEFINE repaid == pool[id].repaid + a
           c      == cut[id]
           out    == YieldOut(id, repaid, c)
           p      == [pool[id] EXCEPT !.repaid = repaid]
           d      == a - out
<1>1. /\ Open(id) /\ pool' = [pool EXCEPT ![id] = p] /\ stats' = Booked(a, FALSE)
      /\ DistributeYield(id, t, repaid, c, a)
      /\ flow' = [Flows(id, a, out) EXCEPT ![id].loose = TRUE]
      /\ UNCHANGED <<claimVars, dealVars, envVars, nft>>
  BY DEF RepayPartial
<1>2. pool[id] \in PoolRecord /\ c \in Nat /\ pool[id].repaid \in Nat /\ a \in Nat
  BY PoolTypes, AmountsOk
<1>3. repaid \in Nat
  BY <1>2
<1>4. p \in PoolRecord /\ p.token = pool[id].token /\ p.repaid = repaid /\ p.closed = pool[id].closed
  <2> HIDE DEF repaid
  <2>1. QED
    BY <1>2, <1>3 DEF PoolRecord
<1> HIDE DEF p
<1>5. /\ pool' \in [Id -> PoolRecord] /\ pool'[id] = p
      /\ \A x \in Id : x # id => pool'[x] = pool[x]
      /\ \A x \in Id : Exists(x)' = Exists(x)
  BY <1>1, <1>4, PoolMoves
<1>6. /\ out \in Nat /\ balance' = [balance EXCEPT ![t] = balance[t] + d]
      /\ balance' \in [Token -> Nat] /\ aggregate' \in [Token -> Int] /\ cut' \in [Id -> Nat]
  <2> HIDE DEF c, repaid
  <2>1. QED
    BY <1>1, <1>2, <1>3, Distributed
<1>7. d \in Int /\ d = a - out
  BY <1>2, <1>6
<1> HIDE DEF out, d
<1> DEFINE f == Flows(id, a, out)
           r == [f[id] EXCEPT !.loose = TRUE]
<1>8. /\ f \in [Id -> FlowRecord] /\ \A x \in Id : x # id => f[x] = flow[x]
      /\ f[id].in = flow[id].in + a /\ f[id].out = flow[id].out + out
  <2> DEFINE g == [in |-> flow[id].in + a, out |-> flow[id].out + out,
                   loose |-> flow[id].loose \/ ~Sound(id), twice |-> flow[id].twice]
  <2>1. f = [flow EXCEPT ![id] = g]
    BY DEF Flows
  <2>2. flow \in [Id -> FlowRecord] /\ flow[id].in \in Nat /\ flow[id].out \in Nat
        /\ flow[id].loose \in BOOLEAN /\ flow[id].twice \in BOOLEAN
    BY FlowTypes
  <2>3. (flow[id].loose \/ ~Sound(id)) \in BOOLEAN
    OBVIOUS
  <2>4. g \in FlowRecord /\ g.in = flow[id].in + a /\ g.out = flow[id].out + out
    BY <1>2, <1>6, <2>2, <2>3 DEF FlowRecord
  <2> HIDE DEF f, g
  <2>5. QED
    BY <2>1, <2>2, <2>4
<1>9. flow' = [f EXCEPT ![id] = r]
  BY <1>1
<1> HIDE DEF f
<1>10. r \in FlowRecord /\ r.in = flow[id].in + a /\ r.out = flow[id].out + out /\ r.loose
  BY <1>8 DEF FlowRecord
<1> HIDE DEF r
<1>11. /\ flow' \in [Id -> FlowRecord] /\ flow'[id] = r
       /\ \A x \in Id : x # id => flow'[x] = flow[x]
  BY <1>8, <1>9, <1>10
<1>12. /\ stats' \in StatsRecord /\ stats'.opened = stats.opened
       /\ stats'.active = stats.active /\ stats'.defaulted = stats.defaulted
  BY <1>1, <1>2, BookedMoves
<1>13. TypeOK'
  <2>1. PoolsOk' /\ MoneyOk'
    BY <1>1, <1>5, <1>6, <1>11, <1>12 DEF Inv, TypeOK, PoolsOk, MoneyOk
  <2>2. QED
    BY <1>1, <2>1, ClaimsKept, DealsKept, EnvKept DEF TypeOK
<1>14. UNCHANGED <<approval, buyout, plan, reserved, credited, nft>>
  BY <1>1 DEF dealVars
<1>15. \A x \in Id : x # id => Same(x)
  BY <1>5, <1>11, <1>14 DEF Same
<1>16. Exists(id) /\ PoolOk(id)
  BY <1>1 DEF Open, Inv
<1>17. Conserved'
  <2>1. Funding[id] \in Int /\ flow[id].in \in Int /\ flow[id].out \in Int /\ buyout[id].amount \in Int
    BY DealTypes, FlowTypes, InvoicesOk
  <2>2. Worth(id)' = Worth(id) + d
    BY <1>2, <1>5, <1>6, <1>7, <1>10, <1>11, <1>14, <1>16, <2>1 DEF Worth
  <2>3. QED
    BY <1>6, <1>7, <1>15, <2>2, ConservedMoves
<1>18. StatsInStep'
  BY <1>5, <1>12, <1>14, StatsSame
<1>19. PoolOk(id)'
  <2>1. Fresh(id)'
    BY <1>5, <1>14, <1>16 DEF PoolOk, Fresh
  <2>2. ClosedOk(id)'
    <3>1. pool'[id].closed = FALSE /\ ~pool[id].closed
      BY <1>1, <1>4, <1>5 DEF Open, Inv, TypeOK, PoolsOk, PoolRecord
    <3>2. flow'[id].twice = flow[id].twice
      <4>1. r.twice = f[id].twice /\ f[id].twice = flow[id].twice
        BY FlowTypes DEF r, f, Flows
      <4>2. QED
        BY <1>11, <4>1
    <3>3. QED
      BY <1>14, <1>16, <3>1, <3>2 DEF PoolOk, ClosedOk, Settled
  <2>3. PartsOk(id)'
    <3>1. PaidParts(id)' = PaidParts(id) /\ pool[id].repaid >= PaidParts(id)
      BY <1>1, <1>14, <1>16 DEF PaidParts, PoolOk, PartsOk
    <3>2. PaidParts(id) \in Int
      BY PaidPartsInt
    <3>3. QED
      BY <1>2, <1>4, <1>5, <3>1, <3>2 DEF PartsOk
  <2>4. ReceiptsOk(id)'
    <3>1. flow[id].in \in Nat
      BY FlowTypes
    <3>2. QED
      BY <1>2, <1>4, <1>5, <1>10, <1>11, <1>16, <3>1 DEF PoolOk, ReceiptsOk, Plain
  <2>5. QED
    BY <2>1, <2>2, <2>3, <2>4 DEF PoolOk
<1>20. QED
  BY <1>13, <1>15, <1>17, <1>18, <1>19, OnePool

LEMMA MarkDefaultStep ==
  ASSUME Inv, NEW id \in Id, NEW t \in Token, MarkDefault(id, t)
  PROVE  Inv'
<1> DEFINE gone == id \in credited
           p    == [pool[id] EXCEPT !.closed = gone]
           k    == stats.defaulted + 1
           a    == Less(stats.active, 1)
<1>1. /\ Open(id) /\ nft[id] = "Funded" /\ pool' = [pool EXCEPT ![id] = p]
      /\ nft' = [nft EXCEPT ![id] = "Defaulted"]
      /\ stats' = [stats EXCEPT !.defaulted = k, !.active = a]
      /\ UNCHANGED <<claimVars, dealVars, envVars>>
  BY DEF MarkDefault
<1>2. IF pool[id].repaid > 0
        THEN /\ DistributeYield(id, t, pool[id].repaid, cut[id], 0)
             /\ flow' = Flows(id, 0, YieldOut(id, pool[id].repaid, cut[id]))
        ELSE UNCHANGED <<balance, aggregate, cut, flow>>
  BY DEF MarkDefault
<1>3. pool[id] \in PoolRecord /\ cut[id] \in Nat /\ pool[id].repaid \in Nat /\ gone \in BOOLEAN
  BY PoolTypes
<1>4. p \in PoolRecord /\ p.token = pool[id].token /\ p.repaid = pool[id].repaid /\ p.closed = gone
  <2> HIDE DEF gone
  <2>1. QED
    BY <1>3 DEF PoolRecord
<1> HIDE DEF p
<1>5. /\ stats' \in StatsRecord /\ stats'.opened = stats.opened
      /\ stats'.defaulted = stats.defaulted + 1 /\ stats'.active = Less(stats.active, 1)
  <2>1. stats \in StatsRecord /\ k \in Nat /\ a \in Nat
    BY BalanceTypes DEF Less
  <2> HIDE DEF k, a
  <2>2. stats' \in StatsRecord /\ stats'.opened = stats.opened /\ stats'.defaulted = k
        /\ stats'.active = a
    BY <1>1, <2>1 DEF StatsRecord
  <2>3. QED
    BY <2>2 DEF k, a
<1>6. UNCHANGED <<approval, buyout, plan, reserved, credited>>
  BY <1>1 DEF dealVars
<1>7. ClaimsOk' /\ DealsOk' /\ EnvOk' /\ Exists(id) /\ PoolOk(id)
  BY <1>1, ClaimsKept, DealsKept, EnvKept DEF Open, Inv
<1>8. nft' = [x \in Id |-> IF x \in {id} THEN "Defaulted" ELSE nft[x]]
  BY <1>1 DEF Inv, TypeOK, PoolsOk
<1>9. p.closed <=> id \in credited'
  BY <1>4, <1>6
<1>10. p.repaid >= PaidParts(id)'
  BY <1>1, <1>4, <1>6, <1>7 DEF PoolOk, PartsOk, PaidParts
<1>11. CASE pool[id].repaid > 0
  <2>1. /\ DistributeYield(id, t, p.repaid, cut[id], 0)
        /\ flow' = Flows(id, 0, YieldOut(id, p.repaid, cut[id]))
    BY <1>2, <1>4, <1>11
  <2>2. Rate[id] = 1 => p.repaid <= flow[id].in + 0
    <3>1. flow[id].in \in Nat
      BY FlowTypes
    <3>2. QED
      BY <1>4, <1>7, <3>1 DEF PoolOk, ReceiptsOk
  <2>3. buyout'[id].amount = buyout[id].amount + 0 - 0
    <3>1. buyout[id].amount \in Nat
      BY DealTypes
    <3>2. QED
      BY <1>6, <3>1
  <2>4. 0 \in Nat
    OBVIOUS
  <2>5. \A x \in Id : x # id => /\ plan'[x] = plan[x] /\ reserved'[x] = reserved[x]
                                /\ buyout'[x] = buyout[x]
                                /\ (x \in credited') <=> (x \in credited)
    BY <1>6
  <2>6. QED
    BY <1>1, <1>3, <1>4, <1>5, <1>7, <1>8, <1>9, <1>10, <2>1, <2>2, <2>3, <2>4, <2>5, SharedOut
<1>12. CASE pool[id].repaid = 0
  <2>1. UNCHANGED <<balance, aggregate, cut, flow>>
    BY <1>2, <1>12
  <2>2. /\ pool' \in [Id -> PoolRecord] /\ pool'[id] = p
        /\ \A x \in Id : x # id => pool'[x] = pool[x]
        /\ \A x \in Id : Exists(x)' = Exists(x)
    BY <1>1, <1>4, PoolMoves
  <2>3. nft' \in [Id -> {"Listed", "Funded", "Repaid", "Defaulted"}] /\ nft'[id] = "Defaulted"
        /\ \A x \in Id : x # id => nft'[x] = nft[x]
    BY <1>1 DEF Inv, TypeOK, PoolsOk
  <2>4. TypeOK'
    BY <1>5, <1>7, <2>1, <2>2, <2>3 DEF Inv, TypeOK, PoolsOk, MoneyOk
  <2>5. \A x \in Id : x # id => Same(x)
    BY <1>6, <2>1, <2>2, <2>3 DEF Same
  <2>6. Conserved'
    <3>1. \A x \in Id : Worth(x)' = Worth(x)
      BY <1>6, <2>1, <2>2 DEF Worth
    <3>2. QED
      BY <2>1, <3>1, ConservedStays
  <2>7. StatsInStep'
    <3>1. Cardinality({id}) = 1 /\ {id} \in SUBSET Id
      BY FS_Singleton
    <3>2. \A x \in {id} : nft[x] = "Funded"
      BY <1>1
    <3>3. stats'.active = Less(stats.active, Cardinality({id}))
          /\ stats'.defaulted = stats.defaulted + Cardinality({id}) /\ stats'.opened = stats.opened
      BY <1>5, <3>1
    <3>4. QED
      BY <1>8, <2>2, <3>1, <3>2, <3>3, StatsSettle
  <2>8. PoolOk(id)'
    <3>1. Fresh(id)'
      BY <2>2, <2>3, <1>7 DEF Fresh
    <3>2. ClosedOk(id)'
      BY <1>4, <1>6, <2>2, <2>3 DEF ClosedOk, Settled
    <3>3. PartsOk(id)'
      BY <1>10, <2>2 DEF PartsOk
    <3>4. ReceiptsOk(id)'
      BY <1>4, <1>7, <2>1, <2>2, <2>3 DEF PoolOk, ReceiptsOk, Plain
    <3>5. QED
      BY <3>1, <3>2, <3>3, <3>4 DEF PoolOk
  <2>9. QED
    BY <2>4, <2>5, <2>6, <2>7, <2>8, OnePool
<1>13. QED
  BY <1>3, <1>11, <1>12

-------------------------------------------------------------------------------
(* Buyouts and escrows that settle.                                        *)

LEMMA AcceptEarlySettlementStep ==
  ASSUME Inv, NEW id \in Id, NEW i \in Investor, AcceptEarlySettlement(id, i)
  PROVE  Inv'
<1> DEFINE o   == buyout[id]
           n   == o.amount
           bps == o.bps + position[id][i].bps
           t   == pool[id].token
           p   == [pool[id] EXCEPT !.repaid = n, !.closed = TRUE]
           r   == [amount |-> n, bps |-> bps, accepted |-> o.accepted \union {i}]
           Settling == /\ pool' = [pool EXCEPT ![id] = p]
                       /\ DistributeYield(id, t, n, cut[id], 0)
                       /\ flow' = Flows(id, n, YieldOut(id, n, cut[id]))
                       /\ SetRepaid({id})
                       /\ stats' = Booked(n, TRUE)
                       /\ buyout' = [buyout EXCEPT ![id] = NoBuyout]
           Noting == /\ bps < Unanimity
                     /\ buyout' = [buyout EXCEPT ![id] = r]
                     /\ UNCHANGED moneyVars
<1>1. /\ Open(id) /\ UNCHANGED <<claimVars, approval, plan, reserved, credited, envVars>>
      /\ Settling \/ Noting
  <2>1. Settling \/ Noting
    BY DEF AcceptEarlySettlement
  <2>2. QED
    BY <2>1 DEF AcceptEarlySettlement
<1>2. /\ pool[id] \in PoolRecord /\ cut[id] \in Nat /\ n \in Nat /\ Exists(id) /\ t \in Token
      /\ o \in BuyoutRecord
  BY <1>1, PoolTypes, DealTypes DEF Open
<1>3. NoBuyout \in BuyoutRecord /\ NoBuyout.amount = 0
  BY NoBuyoutTyped
<1>4. buyout \in [Id -> BuyoutRecord]
  BY DEF Inv, TypeOK, DealsOk
<1>5. CASE Settling
  <2>1. p \in PoolRecord /\ p.token = pool[id].token /\ p.repaid = n /\ p.closed
    <3> HIDE DEF n
    <3>1. QED
      BY <1>2 DEF PoolRecord
  <2>2. /\ pool' = [pool EXCEPT ![id] = p]
        /\ DistributeYield(id, t, p.repaid, cut[id], 0)
        /\ flow' = Flows(id, n, YieldOut(id, p.repaid, cut[id]))
    BY <1>5, <2>1
  <2>3. nft[id] = "Funded" /\ nft' = [x \in Id |-> IF x \in {id} THEN "Repaid" ELSE nft[x]]
    BY <1>5, RepaidMoves
  <2>4. /\ stats' \in StatsRecord /\ stats'.opened = stats.opened
        /\ stats'.defaulted = stats.defaulted /\ stats'.active = Less(stats.active, 1)
    BY <1>2, <1>5, BookedMoves
  <2>5. buyout' \in [Id -> BuyoutRecord] /\ buyout'[id] = NoBuyout
        /\ \A x \in Id : x # id => buyout'[x] = buyout[x]
    BY <1>3, <1>4, <1>5
  <2>6. DealsOk'
    BY <1>1, <2>5 DEF Inv, TypeOK, DealsOk
  <2>7. buyout'[id].amount = buyout[id].amount + 0 - n
    BY <1>2, <1>3, <2>5
  <2>8. Rate[id] = 1 => p.repaid <= flow[id].in + n
    <3>1. flow[id].in \in Nat
      BY FlowTypes
    <3> HIDE DEF n
    <3>2. QED
      BY <1>2, <2>1, <3>1
  <2>9. ClaimsOk' /\ EnvOk'
    BY <1>1, ClaimsKept, EnvKept
  <2>10. \A x \in Id : x # id => /\ plan'[x] = plan[x] /\ reserved'[x] = reserved[x]
                                 /\ buyout'[x] = buyout[x]
                                 /\ (x \in credited') <=> (x \in credited)
    BY <1>1, <2>5
  <2>11. 0 \in Nat
    OBVIOUS
  <2> HIDE DEF p, n, t, o
  <2>12. QED
    BY <1>2, <2>1, <2>2, <2>3, <2>4, <2>6, <2>7, <2>8, <2>9, <2>10, <2>11, SharedOut
<1>6. CASE Noting
  <2>1. bps \in PendingBps
    <3> DEFINE x == o.bps
               y == position[id][i].bps
    <3>1. x \in Nat
      <4> HIDE DEF o
      <4>1. o.bps \in PendingBps
        BY <1>2 DEF BuyoutRecord
      <4>2. QED
        BY <4>1, PendingRange
    <3>2. y \in Nat
      BY ClaimTypes, BpsRange
    <3>3. bps = x + y /\ bps < Unanimity
      BY <1>6
    <3> HIDE DEF x, y, bps
    <3>4. bps \in Nat
      BY <3>1, <3>2, <3>3
    <3>5. QED
      BY <3>3, <3>4, PendingRange
  <2>2. r \in BuyoutRecord /\ r.amount = n
    <3>1. o.accepted \union {i} \in SUBSET Investor
      BY <1>2 DEF BuyoutRecord
    <3> HIDE DEF n, bps, o
    <3>2. QED
      BY <1>2, <2>1, <3>1 DEF BuyoutRecord
  <2> HIDE DEF r
  <2>3. balance \in [Token -> Nat] /\ balance[t] \in Nat /\ balance' = balance
    BY <1>2, <1>6, BalanceTypes DEF moneyVars
  <2>4. balance' = [balance EXCEPT ![t] = balance[t] + 0] /\ balance[t] + 0 >= 0
    <3>1. balance[t] + 0 = balance[t]
      BY <2>3
    <3>2. QED
      BY <2>3, <3>1
  <2>5. r.amount = buyout[id].amount + 0 /\ 0 \in Int
    BY <1>2, <2>2
  <2>6. UNCHANGED <<claimVars, pool, cut, aggregate, stats, flow, nft,
                    approval, plan, reserved, credited, envVars>>
    BY <1>1, <1>6 DEF moneyVars
  <2> DEFINE d == 0
  <2>7. d \in Int /\ r.amount = buyout[id].amount + d /\ balance[t] + d >= 0
        /\ balance' = [balance EXCEPT ![t] = balance[t] + d]
    BY <2>4, <2>5
  <2>8. buyout' = [buyout EXCEPT ![id] = r] /\ t = pool[id].token
    BY <1>6 DEF r
  <2> HIDE DEF d, t
  <2>9. QED
    BY <1>2, <2>2, <2>6, <2>7, <2>8, BuyoutMoves
<1>7. QED
  BY <1>1, <1>5, <1>6

LEMMA SettleEscrowStep ==
  ASSUME Inv, NEW id \in Id, SettleEscrow(id)
  PROVE  Inv'
<1> DEFINE n      == reserved[id]
           t      == pool[id].token
           repaid == pool[id].repaid + n
           closes == repaid = pool[id].owed
           p      == [pool[id] EXCEPT !.repaid = repaid, !.closed = closes]
<1>1. /\ Open(id) /\ nft[id] = "Funded"
      /\ pool' = [pool EXCEPT ![id] = p]
      /\ credited' = credited \union {id}
      /\ reserved' = [reserved EXCEPT ![id] = 0]
      /\ stats' = Booked(n, closes)
      /\ UNCHANGED <<claimVars, approval, buyout, plan, envVars>>
  BY DEF SettleEscrow
<1>2. \/ /\ closes
         /\ DistributeYield(id, t, repaid, cut[id], n)
         /\ flow' = Flows(id, n, YieldOut(id, repaid, cut[id]))
         /\ SetRepaid({id})
      \/ /\ ~closes
         /\ Keep(id, t, cut[id], n)
         /\ nft' = nft
  BY DEF SettleEscrow
<1>3. /\ pool[id] \in PoolRecord /\ cut[id] \in Nat /\ pool[id].repaid \in Nat
      /\ n \in Nat /\ Exists(id) /\ t \in Token /\ PoolOk(id)
  BY <1>1, PoolTypes, DealTypes DEF Open, Inv
<1>4. repaid \in Nat /\ closes \in BOOLEAN
  BY <1>3
<1>5. p \in PoolRecord /\ p.token = pool[id].token /\ p.repaid = repaid /\ p.closed = closes
  <2> HIDE DEF repaid, closes
  <2>1. QED
    BY <1>3, <1>4 DEF PoolRecord
<1>6. /\ stats' \in StatsRecord /\ stats'.opened = stats.opened
      /\ stats'.defaulted = stats.defaulted
      /\ stats'.active = IF closes THEN Less(stats.active, 1) ELSE stats.active
  <2> HIDE DEF closes
  <2>1. QED
    BY <1>1, <1>3, <1>4, BookedMoves
<1>7. /\ reserved' \in [Id -> Nat] /\ \A x \in Id : x # id => reserved'[x] = reserved[x]
      /\ credited' \subseteq Id
  BY <1>1 DEF Inv, TypeOK, DealsOk
<1>8. DealsOk'
  BY <1>1, <1>7 DEF Inv, TypeOK, DealsOk
<1>9. ClaimsOk' /\ EnvOk'
  BY <1>1, ClaimsKept, EnvKept
<1>10. Rate[id] = 1 => p.repaid <= flow[id].in + n
  <2>1. flow[id].in \in Nat
    BY FlowTypes
  <2>2. Rate[id] = 1 => pool[id].repaid <= flow[id].in
    BY <1>3 DEF PoolOk, ReceiptsOk
  <2> HIDE DEF p
  <2>3. QED
    BY <1>3, <1>5, <2>1, <2>2
<1>11. p.repaid >= PaidParts(id)'
  <2>1. pool[id].repaid >= PaidParts(id) /\ PaidParts(id)' = PaidParts(id) /\ PaidParts(id) \in Int
    BY <1>1, <1>3, PaidPartsInt DEF PoolOk, PartsOk, PaidParts
  <2> DEFINE s == PaidParts(id)
  <2>2. s \in Int /\ pool[id].repaid >= s
    BY <2>1
  <2> HIDE DEF p, s
  <2>3. p.repaid >= s
    BY <1>3, <1>5, <2>2
  <2>4. QED
    BY <2>1, <2>3 DEF s
<1>12. \A x \in Id : x # id => /\ plan'[x] = plan[x] /\ reserved'[x] = reserved[x]
                               /\ buyout'[x] = buyout[x]
                               /\ (x \in credited') <=> (x \in credited)
  BY <1>1, <1>7
<1>13. buyout' = buyout /\ buyout'[id].amount = buyout[id].amount + n - n
  <2>1. buyout[id].amount \in Nat
    BY DealTypes
  <2>2. QED
    BY <1>1, <1>3, <2>1
<1> HIDE DEF p
<1>14. CASE closes
  <2>1. /\ DistributeYield(id, t, p.repaid, cut[id], n)
        /\ flow' = Flows(id, n, YieldOut(id, p.repaid, cut[id]))
        /\ SetRepaid({id}) /\ p.closed
    BY <1>2, <1>5, <1>14
  <2>2. nft' = [x \in Id |-> IF x \in {id} THEN "Repaid" ELSE nft[x]]
    BY <2>1, RepaidMoves
  <2>3. stats'.active = Less(stats.active, 1)
    BY <1>6, <1>14
  <2> HIDE DEF repaid, closes, n, t
  <2>4. QED
    BY <1>1, <1>3, <1>5, <1>6, <1>8, <1>9, <1>10, <1>12, <1>13, <2>1, <2>2, <2>3, SharedOut
<1>15. CASE ~closes
  <2>1. Keep(id, t, cut[id], n) /\ nft' = nft /\ ~p.closed
    BY <1>2, <1>5, <1>15
  <2>2. stats'.active = stats.active
    BY <1>6, <1>15
  <2> HIDE DEF repaid, closes, n, t
  <2>3. QED
    BY <1>1, <1>3, <1>5, <1>6, <1>8, <1>9, <1>10, <1>11, <1>12, <1>13, <2>1, <2>2, TakenIn
<1>16. QED
  BY <1>14, <1>15

-------------------------------------------------------------------------------
(* Netting.                                                                *)

(* The pool as one turn of the loop writes it.                             *)
LEMMA NettedTypes ==
  ASSUME Inv, NEW id \in Id, NEW n \in Nat
  PROVE  /\ Netted(id, n) \in PoolRecord /\ Netted(id, n).token = pool[id].token
         /\ Netted(id, n).repaid = pool[id].repaid + n
<1> DEFINE p    == pool[id]
           late == ~p.penalized /\ p.rate > 0 /\ now > Due[id]
           owed == IF late THEN p.owed + BpsOf(p.face, p.rate) ELSE p.owed
           r    == p.repaid + n
           m    == p.penalized \/ late
           c    == r >= owed
<1>1. Netted(id, n) = [p EXCEPT !.owed = owed, !.penalized = m, !.repaid = r, !.closed = c]
  BY DEF Netted
<1>2. /\ p \in PoolRecord /\ p.repaid \in Nat /\ p.owed \in Nat /\ p.face \in Nat
      /\ p.rate \in Bps /\ p.penalized \in BOOLEAN
  BY PoolTypes
<1>3. BpsOf(p.face, p.rate) \in Nat
  BY <1>2, BpsShare
<1>4. owed \in Nat
  <2> HIDE DEF p, late
  <2>1. QED
    BY <1>2, <1>3
<1>5. r \in Nat /\ m \in BOOLEAN /\ c \in BOOLEAN
  BY <1>2
<1> HIDE DEF owed, r, m, c, late, p
<1>6. /\ Netted(id, n) \in PoolRecord /\ Netted(id, n).token = p.token /\ Netted(id, n).repaid = r
  BY <1>1, <1>2, <1>4, <1>5 DEF PoolRecord
<1>7. QED
  BY <1>6 DEF p, r

LEMMA TurnsFinite ==
  ASSUME NEW ids \in Seq(Id), Len(ids) >= 1
  PROVE  /\ DOMAIN ids \in SUBSET Int /\ IsFiniteSet(DOMAIN ids) /\ 1 \in DOMAIN ids
         /\ \A k \in DOMAIN ids : ids[k] \in Id
<1>1. Len(ids) \in Nat /\ DOMAIN ids = 1..Len(ids)
  OBVIOUS
<1>2. IsFiniteSet(1..Len(ids))
  BY <1>1, FS_Interval
<1>3. QED
  BY <1>1, <1>2

(* Nothing of the payment is lost in the allocation.                       *)
LEMMA AllocationFair ==
  ASSUME Inv, NEW ids \in Seq(Id), Len(ids) >= 1, NEW amount \in Nat,
         \E k \in DOMAIN ids : NetRemaining(ids[k]) > 0
  PROVE  /\ \A k \in DOMAIN ids : Allocation(ids, amount)[k] \in Nat
         /\ SumOver(Allocation(ids, amount), DOMAIN ids) = amount
<1> DEFINE K     == DOMAIN ids
           debts == [k \in K |-> NetRemaining(ids[k])]
           w     == SumOver(debts, K)
           base  == [k \in K |-> (amount * debts[k]) \div w]
           rest  == amount - SumOver(base, K)
           alloc == [base EXCEPT ![1] = base[1] + rest]
<1>1. K \in SUBSET Int /\ IsFiniteSet(K) /\ 1 \in K
  BY TurnsFinite
<1>2. \A k \in K : debts[k] \in Nat
  <2> SUFFICES ASSUME NEW k \in K PROVE debts[k] \in Nat
    OBVIOUS
  <2>1. ids[k] \in Id
    BY TurnsFinite
  <2>2. pool[ids[k]].owed \in Nat /\ pool[ids[k]].repaid \in Nat
    BY <2>1, PoolTypes
  <2>3. QED
    BY <2>2 DEF NetRemaining, Remaining
<1>3. \E k \in K : debts[k] > 0
  OBVIOUS
<1>4. Allocation(ids, amount) = alloc
  BY DEF Allocation
<1> HIDE DEF debts, K
<1>5. w \in Nat /\ w > 0
  <2>1. w \in Nat /\ \A k \in K : debts[k] <= w
    BY <1>1, <1>2, SumNat
  <2> HIDE DEF w
  <2>2. QED
    BY <1>2, <1>3, <2>1
<1>6. SumOver(debts, K) <= w
  BY <1>5
<1>7. \A k \in K : base[k] = (amount * debts[k]) \div w
  OBVIOUS
<1>8. DOMAIN base = K
  OBVIOUS
<1> HIDE DEF w, base
<1>9. /\ \A k \in K : base[k] \in Nat
      /\ SumOver(base, K) \in Nat /\ SumOver(base, K) <= amount
  BY <1>1, <1>2, <1>5, <1>6, <1>7, SharesOfTotal
<1>10. rest \in Nat /\ SumOver(base, K) + rest = amount
  BY <1>9
<1>11. alloc[1] = base[1] + rest /\ \A k \in K \ {1} : alloc[k] = base[k]
  BY <1>1, <1>8
<1> HIDE DEF rest, alloc
<1>12. \A k \in K : alloc[k] \in Nat
  <2>1. base[1] \in Nat
    BY <1>1, <1>9
  <2>2. alloc[1] \in Nat
    BY <1>10, <1>11, <2>1
  <2>3. \A k \in K \ {1} : alloc[k] \in Nat
    BY <1>9, <1>11
  <2>4. QED
    BY <2>2, <2>3
<1>13. SumOver(alloc, K) = SumOver(base, K) + rest
  <2>1. \A k \in K : base[k] \in Int
    BY <1>9
  <2>2. rest \in Int /\ 1 \in K
    BY <1>1, <1>10
  <2>3. alloc[1] = base[1] + rest
    BY <1>11
  <2>4. \A k \in K \ {1} : alloc[k] = base[k]
    BY <1>11
  <2>5. IsFiniteSet(K)
    BY <1>1
  <2>6. QED
    BY <2>1, <2>2, <2>3, <2>4, <2>5, SumGrows
<1>14. SumOver(alloc, K) = amount
  BY <1>1, <1>9, <1>10, <1>11, <1>13
<1>15. QED
  BY <1>4, <1>12, <1>14 DEF K

(* The turns W that write the pool of id: what is allocated to them, and   *)
(* the last of them.                                                       *)
TurnsOk(ids, alloc, id, W) ==
  /\ SumOver(alloc, W) \in Nat
  /\ W = {} => SumOver(alloc, W) = 0 /\ AfterNetting(ids, alloc, id) = pool[id]
  /\ W # {} => \E m \in W : /\ m \in DOMAIN ids /\ ids[m] = id /\ alloc[m] \in Nat
                            /\ alloc[m] > 0 /\ alloc[m] <= SumOver(alloc, W)
                            /\ AfterNetting(ids, alloc, id) = Netted(id, alloc[m])

LEMMA WritesOf ==
  ASSUME NEW ids \in Seq(Id), Len(ids) >= 1, NEW alloc, \A k \in DOMAIN ids : alloc[k] \in Nat,
         NEW id \in Id, NEW W, W = Writes(ids, alloc, id)
  PROVE  TurnsOk(ids, alloc, id, W)
<1>1. W \in SUBSET Int /\ IsFiniteSet(W) /\ \A k \in W : alloc[k] \in Nat
  BY TurnsFinite, FS_Subset DEF Writes
<1>2. \A k \in W : k \in DOMAIN ids /\ ids[k] = id /\ alloc[k] > 0
  BY DEF Writes
<1>3. AfterNetting(ids, alloc, id) = IF W = {} THEN pool[id] ELSE Netted(id, alloc[Max(W)])
  BY DEF AfterNetting
<1>4. SumOver(alloc, W) \in Nat /\ \A k \in W : alloc[k] <= SumOver(alloc, W)
  BY <1>1, SumNat
<1>5. W = {} => SumOver(alloc, W) = 0
  BY SumEmpty
<1>6. W # {} => Max(W) \in W
  BY <1>1, MaxIsLargest
<1>7. QED
  BY <1>1, <1>2, <1>3, <1>4, <1>5, <1>6 DEF TurnsOk

(* What one netting makes of one invoice, whether it is among those netted *)
(* or not: the turns W write its pool, the pools of done are closed by some*)
(* turn and out is shared out of this one.                                 *)
NettedInto(ids, alloc, id, W, done, out) ==
  /\ W = Writes(ids, alloc, id) /\ (W # {} => Open(id))
  /\ done = {ids[k] : k \in Closing(ids, alloc)}
  /\ id \in done => nft[id] = "Funded" /\ nft'[id] = "Repaid"
  /\ id \in done /\ Sound(id) => out <= AfterNetting(ids, alloc, id).repaid
  /\ id \notin done => nft'[id] = nft[id] /\ out = 0
  /\ pool'[id] = AfterNetting(ids, alloc, id)
  /\ flow'[id] = [in    |-> flow[id].in + SumOver(alloc, W),
                  out   |-> flow[id].out + out,
                  loose |-> flow[id].loose \/ (id \in done /\ ~Sound(id)),
                  twice |-> flow[id].twice \/ Cardinality(W) > 1]
  /\ UNCHANGED <<buyout, plan, reserved, credited>>

LEMMA OneNetted ==
  ASSUME Inv, NEW ids \in Seq(Id), Len(ids) >= 1, NEW alloc, \A k \in DOMAIN ids : alloc[k] \in Nat,
         NEW id \in Id, NEW W, NEW done, NEW out \in Nat, NettedInto(ids, alloc, id, W, done, out)
  PROVE  /\ pool'[id] \in PoolRecord /\ flow'[id] \in FlowRecord /\ Exists(id)' = Exists(id)
         /\ PoolOk(id)' /\ Worth(id)' = Worth(id) + (SumOver(alloc, W) - out)
<1> DEFINE n == SumOver(alloc, W)
           p == AfterNetting(ids, alloc, id)
<1>1. /\ n \in Nat
      /\ W = {} => n = 0 /\ pool'[id] = pool[id]
      /\ W # {} => \E m \in W : /\ m \in DOMAIN ids /\ ids[m] = id /\ alloc[m] \in Nat
                                /\ alloc[m] > 0 /\ alloc[m] <= n
                                /\ pool'[id] = Netted(id, alloc[m])
  <2>1. /\ n \in Nat
        /\ W = {} => n = 0 /\ p = pool[id]
        /\ W # {} => \E m \in W : /\ m \in DOMAIN ids /\ ids[m] = id /\ alloc[m] \in Nat
                                  /\ alloc[m] > 0 /\ alloc[m] <= n
                                  /\ p = Netted(id, alloc[m])
    <3>1. TurnsOk(ids, alloc, id, W)
      BY WritesOf DEF NettedInto
    <3>2. QED
      BY <3>1 DEF TurnsOk
  <2>2. pool'[id] = p
    BY DEF NettedInto
  <2> HIDE DEF n, p
  <2>3. QED
    BY <2>1, <2>2
<1>2. /\ flow[id].in \in Nat /\ flow[id].out \in Nat /\ flow[id].loose \in BOOLEAN
      /\ flow[id].twice \in BOOLEAN /\ flow[id] \in FlowRecord
  BY FlowTypes
<1>3. /\ flow'[id].in = flow[id].in + n /\ flow'[id].out = flow[id].out + out
      /\ flow'[id].loose = (flow[id].loose \/ (id \in done /\ ~Sound(id)))
      /\ flow'[id].twice = (flow[id].twice \/ Cardinality(W) > 1)
  BY DEF NettedInto
<1>4. flow'[id] \in FlowRecord
  <2> DEFINE a == flow[id].in + n
             b == flow[id].out + out
             l == flow[id].loose \/ (id \in done /\ ~Sound(id))
             w == flow[id].twice \/ Cardinality(W) > 1
  <2>1. a \in Nat /\ b \in Nat
    <3>1. n \in Nat
      BY <1>1
    <3> HIDE DEF n
    <3>2. QED
      BY <1>2, <3>1
  <2>2. l \in BOOLEAN /\ w \in BOOLEAN
    BY <1>2
  <2>3. flow'[id] = [in |-> a, out |-> b, loose |-> l, twice |-> w]
    BY DEF NettedInto
  <2> HIDE DEF a, b, l, w
  <2>4. QED
    BY <2>1, <2>2, <2>3 DEF FlowRecord
<1>5. id \in done => \E k \in W : k \in DOMAIN ids /\ ids[k] = id /\ Netted(id, alloc[k]).closed
  BY DEF Closing, Writes, NettedInto
<1>6. \A k \in W : Netted(id, alloc[k]).closed => id \in done
  BY DEF Closing, Writes, NettedInto
<1> HIDE DEF n
<1>7. PoolOk(id) /\ pool[id] \in PoolRecord /\ pool[id].repaid \in Nat
  BY PoolTypes DEF Inv
<1>8. /\ UNCHANGED <<buyout, plan, reserved, credited>>
      /\ W # {} => Open(id)
      /\ id \in done => nft[id] = "Funded" /\ nft'[id] = "Repaid"
      /\ id \notin done => nft'[id] = nft[id] /\ out = 0
      /\ id \in done /\ Sound(id) => out <= pool'[id].repaid
  BY DEF NettedInto
<1>9. CASE W = {}
  <2>1. id \notin done /\ n = 0 /\ pool'[id] = pool[id] /\ Cardinality(W) = 0
    BY <1>1, <1>5, <1>9, FS_EmptySet
  <2>2. nft'[id] = nft[id] /\ out = 0
    BY <1>8, <2>1
  <2>3. flow'[id] = flow[id]
    <3>1. /\ flow[id].in + n = flow[id].in /\ flow[id].out + out = flow[id].out
          /\ flow'[id].loose = flow[id].loose /\ flow'[id].twice = flow[id].twice
      BY <1>2, <1>3, <2>1, <2>2
    <3>2. QED
      BY <1>2, <1>3, <1>4, <3>1 DEF FlowRecord
  <2>4. Same(id)
    BY <1>8, <2>1, <2>2, <2>3 DEF Same
  <2>5. PoolOk(id)' /\ Worth(id)' = Worth(id)
    BY <2>4, SameStaysOk
  <2>6. Worth(id) \in Int /\ n - out = 0
    BY <2>1, <2>2, WorthInt
  <2>7. QED
    BY <1>4, <1>7, <2>1, <2>5, <2>6 DEF Exists, n
<1>10. CASE W # {}
  <2>1. PICK m \in W : /\ m \in DOMAIN ids /\ ids[m] = id /\ alloc[m] \in Nat
                       /\ alloc[m] > 0 /\ alloc[m] <= n
                       /\ pool'[id] = Netted(id, alloc[m])
    BY <1>1, <1>10
  <2>2. Exists(id) /\ ~pool[id].closed
    BY <1>8, <1>10 DEF Open
  <2>3. /\ pool'[id] \in PoolRecord /\ pool'[id].token = pool[id].token
        /\ pool'[id].repaid = pool[id].repaid + alloc[m]
    BY <2>1, NettedTypes
  <2>4. Exists(id)'
    BY <2>2, <2>3 DEF Exists
  <2>5. nft[id] # "Listed" /\ nft'[id] # "Listed"
    BY <1>7, <1>8, <2>2 DEF PoolOk, Fresh
  <2>6. Fresh(id)'
    BY <2>4, <2>5 DEF Fresh
  <2>7. ClosedOk(id)'
    <3>1. ASSUME pool'[id].closed PROVE Settled(id)'
      BY <1>6, <1>8, <2>1, <3>1 DEF Settled
    <3>2. ASSUME Settled(id)', ~pool'[id].closed PROVE flow'[id].twice
      <4>1. CASE id \in done
        <5>1. PICK k \in W : k \in DOMAIN ids /\ Netted(id, alloc[k]).closed
          BY <1>5, <4>1
        <5>2. k # m
          BY <2>1, <3>2, <5>1
        <5>3. IsFiniteSet(W)
          <6>1. W \in SUBSET (DOMAIN ids)
            BY DEF Writes, NettedInto
          <6>2. QED
            BY <6>1, TurnsFinite, FS_Subset
        <5>4. Cardinality(W) > 1
          BY <5>2, <5>3, TwoMembers
        <5>5. QED
          BY <1>3, <5>4
      <4>2. CASE id \notin done
        <5>1. Settled(id)
          BY <1>8, <3>2, <4>2 DEF Settled
        <5>2. QED
          BY <1>3, <1>7, <2>2, <5>1 DEF PoolOk, ClosedOk
      <4>3. QED
        BY <4>1, <4>2
    <3>3. QED
      BY <3>1, <3>2 DEF ClosedOk
  <2>8. PartsOk(id)'
    <3> DEFINE s == PaidParts(id)
    <3>1. s \in Int /\ PaidParts(id)' = s /\ pool[id].repaid >= s
      BY <1>7, <1>8, <1>10, PaidPartsInt DEF PaidParts, PoolOk, PartsOk
    <3> HIDE DEF s
    <3>2. QED
      BY <1>7, <2>1, <2>3, <3>1 DEF PartsOk
  <2>9. pool'[id].repaid \in Nat /\ (Rate[id] = 1 => pool'[id].repaid <= flow'[id].in)
    <3> DEFINE x == alloc[m]
               r == pool[id].repaid
               i == flow[id].in
    <3>1. x \in Nat /\ r \in Nat /\ i \in Nat /\ n \in Nat /\ x <= n
      BY <1>1, <1>2, <1>7, <2>1
    <3>2. pool'[id].repaid = r + x /\ flow'[id].in = i + n /\ (Rate[id] = 1 => r <= i)
      BY <1>3, <1>7, <2>3 DEF PoolOk, ReceiptsOk
    <3> HIDE DEF x, r, i
    <3>3. QED
      BY <3>1, <3>2
  <2>10. ReceiptsOk(id)'
    <3>1. CASE id \in done
      <4>1. pool'[id].repaid \in Nat
        BY <2>9
      <4>2. Rate[id] = 1 => pool'[id].repaid <= flow[id].in + n
        BY <1>3, <2>9
      <4>3. Sound(id) => out <= pool'[id].repaid
        BY <1>8, <3>1
      <4>4. flow'[id].loose = (flow[id].loose \/ ~Sound(id))
        BY <1>3, <3>1
      <4>5. nft[id] = "Funded" /\ nft'[id] \in {"Repaid", "Defaulted"}
        BY <1>8, <3>1
      <4>6. PICK q \in Nat : q = pool'[id].repaid
        BY <4>1
      <4>7. Sound(id) => out <= q
        BY <4>3, <4>6
      <4>8. Rate[id] = 1 => q <= flow[id].in + n
        BY <4>2, <4>6
      <4>9. flow'[id].in = flow[id].in + n /\ flow'[id].out = flow[id].out + out
        BY <1>3
      <4>10. QED
        BY <1>1, <4>4, <4>5, <4>6, <4>7, <4>8, <4>9, ReceiptsShared
    <3>2. CASE id \notin done
      <4>1. nft'[id] = nft[id] /\ out = 0 /\ flow'[id].loose = flow[id].loose
        BY <1>2, <1>3, <1>8, <3>2
      <4>2. QED
        BY <1>1, <1>2, <1>3, <1>7, <2>9, <4>1 DEF PoolOk, ReceiptsOk, Plain
    <3>3. QED
      BY <3>1, <3>2
  <2>11. Worth(id)' = Worth(id) + (n - out)
    <3> DEFINE c == Funding[id]
               b == buyout[id].amount
               i == flow[id].in
               o == flow[id].out
    <3>1. c \in Int /\ b \in Int /\ i \in Int /\ o \in Int
      BY <1>2, DealTypes, InvoicesOk
    <3>2. Worth(id) = c + b + i - o
      BY <2>2 DEF Worth
    <3>3. Worth(id)' = c + b + (i + n) - (o + out)
      BY <1>3, <1>8, <2>4 DEF Worth
    <3> HIDE DEF c, b, i, o
    <3>4. QED
      BY <1>1, <3>1, <3>2, <3>3
  <2>12. QED
    BY <1>4, <2>2, <2>3, <2>4, <2>6, <2>7, <2>8, <2>10, <2>11 DEF PoolOk, n
<1>11. QED
  BY <1>9, <1>10

LEMMA AfterTyped ==
  ASSUME Inv, NEW ids \in Seq(Id), Len(ids) >= 1, NEW alloc, \A k \in DOMAIN ids : alloc[k] \in Nat,
         NEW id \in Id
  PROVE  AfterNetting(ids, alloc, id).repaid \in Nat
<1> DEFINE W == Writes(ids, alloc, id)
<1>1. TurnsOk(ids, alloc, id, W)
  BY WritesOf
<1>2. pool[id].repaid \in Nat
  BY PoolTypes
<1> HIDE DEF W
<1>3. CASE W = {}
  BY <1>1, <1>2, <1>3 DEF TurnsOk
<1>4. CASE W # {}
  <2>1. PICK m \in W : alloc[m] \in Nat /\ AfterNetting(ids, alloc, id) = Netted(id, alloc[m])
    BY <1>1, <1>4 DEF TurnsOk
  <2>2. Netted(id, alloc[m]).repaid = pool[id].repaid + alloc[m]
    BY <2>1, NettedTypes
  <2>3. QED
    BY <1>2, <2>1, <2>2
<1>5. QED
  BY <1>3, <1>4

(* The whole payment comes in on account of the invoices netted.           *)
LEMMA AllComesIn ==
  ASSUME NEW ids \in Seq(Id), Len(ids) >= 1, NEW alloc, \A k \in DOMAIN ids : alloc[k] \in Nat,
         NEW g, \A x \in Id : g[x] = SumOver(alloc, Writes(ids, alloc, x))
  PROVE  SumOver(g, Id) = SumOver(alloc, DOMAIN ids)
<1> DEFINE K == DOMAIN ids
           P == {k \in K : alloc[k] > 0}
<1>1. IsFiniteSet(K) /\ (\A k \in K : ids[k] \in Id) /\ \A k \in K : alloc[k] \in Nat
  BY TurnsFinite
<1>2. SumOver(alloc, P) = SumOver(alloc, K)
  <2> HIDE DEF K
  <2>1. QED
    BY <1>1, SumPositive
<1>3. \A x \in Id : Writes(ids, alloc, x) = {k \in P : ids[k] = x}
  BY DEF Writes
<1>4. \A x \in Id : g[x] = SumOver(alloc, {k \in P : ids[k] = x})
  BY <1>3
<1>5. P \in SUBSET K
  OBVIOUS
<1> HIDE DEF P, K
<1>6. IsFiniteSet(P) /\ (\A k \in P : ids[k] \in Id) /\ \A k \in P : alloc[k] \in Int
  BY <1>1, <1>5, FS_Subset
<1>7. IsFiniteSet(Id)
  BY FinitelyMany
<1>8. SumOver(g, Id) = SumOver(alloc, P)
  BY <1>4, <1>6, <1>7, SumByGroup
<1>9. QED
  BY <1>2, <1>8 DEF K

(* Money that comes in and goes out on account of several pools.           *)
CameAndWent(in, out) ==
  \A x \in Id : in[x] \in Nat /\ out[x] \in Nat /\ Worth(x)' = Worth(x) + (in[x] - out[x])

LEMMA ConservedNetting ==
  ASSUME Inv, NEW t \in Token, NEW amount \in Nat, NEW in, NEW out, CameAndWent(in, out),
         SumOver(in, Id) = amount, NEW total, total = SumOver(out, Id),
         balance' = [balance EXCEPT ![t] = balance[t] + amount - total]
  PROVE  Conserved'
<1> SUFFICES ASSUME NEW u \in Token, Token = {u}
             PROVE  balance'[u] = SumOver([x \in Id |-> Worth(x)'], Id)
  BY DEF Conserved
<1> DEFINE f == [x \in Id |-> Worth(x)]
           h == [x \in Id |-> Worth(x)']
           e == [x \in Id |-> in[x] - out[x]]
<1>1. balance[u] = SumOver(f, Id) /\ balance[u] \in Int /\ balance'[u] = balance[u] + amount - total
  <2>1. t = u
    OBVIOUS
  <2>2. balance \in [Token -> Nat]
    BY BalanceTypes
  <2>3. balance[u] = SumOver(f, Id)
    BY DEF Inv, Conserved
  <2>4. QED
    BY <2>1, <2>2, <2>3
<1>2. \A x \in Id : f[x] \in Int /\ e[x] \in Int /\ h[x] = f[x] + e[x]
  <2> SUFFICES ASSUME NEW x \in Id PROVE f[x] \in Int /\ e[x] \in Int /\ h[x] = f[x] + e[x]
    OBVIOUS
  <2>1. Worth(x) \in Int
    BY WorthInt
  <2>2. in[x] \in Nat /\ out[x] \in Nat /\ Worth(x)' = Worth(x) + (in[x] - out[x])
    BY DEF CameAndWent
  <2>3. QED
    BY <2>1, <2>2
<1>3. \A x \in Id : e[x] \in Int /\ out[x] \in Int /\ in[x] = e[x] + out[x]
  BY DEF CameAndWent
<1>4. IsFiniteSet(Id)
  BY FinitelyMany
<1> HIDE DEF f, h, e
<1>5. SumOver(h, Id) = SumOver(f, Id) + SumOver(e, Id)
  BY <1>2, <1>4, SumPointwise
<1>6. SumOver(in, Id) = SumOver(e, Id) + SumOver(out, Id)
  BY <1>3, <1>4, SumPointwise
<1>7. SumOver(e, Id) \in Int /\ SumOver(out, Id) \in Int
  BY <1>3, <1>4, SumInt
<1>8. balance'[u] = SumOver(h, Id)
  BY <1>1, <1>5, <1>6, <1>7
<1>9. QED
  BY <1>8 DEF h

LEMMA NetSettleStep ==
  ASSUME Inv, NEW ids \in Nettings, NEW t \in Token, NEW amount \in Pay, NetSettle(ids, t, amount)
  PROVE  Inv'
<1> DEFINE alloc  == Allocation(ids, amount)
           after  == [id \in Id |-> AfterNetting(ids, alloc, id)]
           done   == {ids[k] : k \in Closing(ids, alloc)}
           out    == [id \in Id |-> IF id \in done THEN YieldOut(id, after[id].repaid, cut[id]) ELSE 0]
           given  == [id \in Id |-> IF id \in done THEN Contributed(id) ELSE 0]
           booked == [id \in Id |-> IF id \in done THEN after[id].repaid ELSE 0]
           in     == [id \in Id |-> SumOver(alloc, Writes(ids, alloc, id))]
           r(id)  == [in    |-> flow[id].in + SumOver(alloc, Writes(ids, alloc, id)),
                      out   |-> flow[id].out + out[id],
                      loose |-> flow[id].loose \/ (id \in done /\ ~Sound(id)),
                      twice |-> flow[id].twice \/ Cardinality(Writes(ids, alloc, id)) > 1]
<1>1. /\ Len(ids) >= 2
      /\ \A k \in DOMAIN ids : Open(ids[k])
      /\ \E k \in DOMAIN ids : NetRemaining(ids[k]) > 0
      /\ \A id \in done : Distributable(id, after[id].repaid, cut[id])
      /\ SumOver(out, Id) <= balance[t] + amount
      /\ pool' = after
      /\ balance' = [balance EXCEPT ![t] = balance[t] + amount - SumOver(out, Id)]
      /\ aggregate' = [aggregate EXCEPT ![t] = aggregate[t] - SumOver(given, Id)]
      /\ cut' = [id \in Id |-> IF id \in done THEN 0 ELSE cut[id]]
  BY DEF NetSettle
<1>2. /\ flow' = [id \in Id |-> r(id)]
      /\ stats' = [stats EXCEPT !.repaid = stats.repaid + SumOver(booked, Id),
                                !.active = Less(stats.active, Cardinality(done))]
      /\ IF done = {} THEN nft' = nft ELSE SetRepaid(done)
      /\ UNCHANGED <<claimVars, dealVars, envVars>>
  BY DEF NetSettle
<1>3. ids \in Seq(Id) /\ Len(ids) \in Nat /\ Len(ids) >= 1 /\ amount \in Nat
  <2>1. ids \in Seq(Id) /\ amount \in Nat
    BY NettingsOk, AmountsOk
  <2>2. QED
    BY <1>1, <2>1
<1>4. (\A k \in DOMAIN ids : alloc[k] \in Nat) /\ SumOver(alloc, DOMAIN ids) = amount
  BY <1>1, <1>3, AllocationFair
<1> HIDE DEF alloc
<1>5. done \in SUBSET Id
  BY <1>3, TurnsFinite DEF Closing
<1>6. \A id \in Id : pool'[id] = AfterNetting(ids, alloc, id)
  BY <1>1
<1>7. \A id \in Id : after[id].repaid \in Nat /\ after[id] = AfterNetting(ids, alloc, id)
  BY <1>3, <1>4, AfterTyped
<1>8. \A id \in Id : out[id] \in Nat /\ (id \in done /\ Sound(id) => out[id] <= after[id].repaid)
  <2> SUFFICES ASSUME NEW id \in Id
               PROVE  out[id] \in Nat /\ (id \in done /\ Sound(id) => out[id] <= after[id].repaid)
    OBVIOUS
  <2>1. CASE id \in done
    <3>1. Distributable(id, after[id].repaid, cut[id]) /\ after[id].repaid \in Nat /\ cut[id] \in Nat
      BY <1>1, <1>7, <2>1, PoolTypes
    <3>2. out[id] = YieldOut(id, after[id].repaid, cut[id])
      BY <2>1
    <3> HIDE DEF out, after, done
    <3>3. QED
      BY <3>1, <3>2, YieldOutFair
  <2>2. CASE id \notin done
    BY <2>2
  <2>3. QED
    BY <2>1, <2>2
<1>9. /\ nft' = [x \in Id |-> IF x \in done THEN "Repaid" ELSE nft[x]]
      /\ \A x \in done : nft[x] = "Funded"
  <2>1. nft \in [Id -> {"Listed", "Funded", "Repaid", "Defaulted"}]
    BY DEF Inv, TypeOK, PoolsOk
  <2> HIDE DEF done
  <2>2. QED
    BY <1>2, <2>1 DEF SetRepaid
<1>10. UNCHANGED <<approval, buyout, plan, reserved, credited>>
  BY <1>2 DEF dealVars
<1> DEFINE Followed(id) ==
             /\ pool'[id] \in PoolRecord /\ flow'[id] \in FlowRecord /\ Exists(id)' = Exists(id)
             /\ PoolOk(id)' /\ Worth(id)' = Worth(id) + (in[id] - out[id]) /\ in[id] \in Nat
<1>11. ASSUME NEW id \in Id PROVE Followed(id)
  <2> DEFINE W == Writes(ids, alloc, id)
             o == out[id]
  <2>1. W # {} => Open(id)
    BY <1>1 DEF Writes
  <2>2. o \in Nat /\ (id \in done /\ Sound(id) => o <= AfterNetting(ids, alloc, id).repaid)
    BY <1>7, <1>8
  <2>3. id \in done => nft[id] = "Funded" /\ nft'[id] = "Repaid"
    BY <1>9
  <2>4. id \notin done => nft'[id] = nft[id] /\ o = 0
    BY <1>9
  <2>5. flow'[id] = [in    |-> flow[id].in + SumOver(alloc, W),
                     out   |-> flow[id].out + o,
                     loose |-> flow[id].loose \/ (id \in done /\ ~Sound(id)),
                     twice |-> flow[id].twice \/ Cardinality(W) > 1]
    BY <1>2
  <2>6. done = {ids[k] : k \in Closing(ids, alloc)} /\ W = Writes(ids, alloc, id)
    OBVIOUS
  <2>7. in[id] = SumOver(alloc, W) /\ in[id] \in Nat
    <3>1. TurnsOk(ids, alloc, id, W)
      BY <1>3, <1>4, WritesOf
    <3>2. QED
      BY <3>1 DEF TurnsOk
  <2> HIDE DEF W, o, done, in
  <2>8. id \in done /\ Sound(id) => o <= AfterNetting(ids, alloc, id).repaid
    BY <2>2
  <2>9. UNCHANGED <<buyout, plan, reserved, credited>>
    BY <1>10
  <2>10. /\ pool'[id] \in PoolRecord /\ flow'[id] \in FlowRecord /\ Exists(id)' = Exists(id)
         /\ PoolOk(id)' /\ Worth(id)' = Worth(id) + (SumOver(alloc, W) - o)
    <3>1. o \in Nat
      BY <2>2
    <3>2. ids \in Seq(Id) /\ Len(ids) >= 1
      BY <1>3
    <3>3. \A k \in DOMAIN ids : alloc[k] \in Nat
      BY <1>4
    <3>4. NettedInto(ids, alloc, id, W, done, o)
      BY <1>6, <2>1, <2>3, <2>4, <2>5, <2>6, <2>8, <2>9 DEF NettedInto
    <3>5. QED
      BY <3>1, <3>2, <3>3, <3>4, OneNetted
  <2>11. QED
    BY <2>7, <2>10 DEF o
<1>12. /\ \A id \in Id : pool'[id] \in PoolRecord /\ flow'[id] \in FlowRecord /\ Exists(id)' = Exists(id)
       /\ \A id \in Id : PoolOk(id)'
       /\ \A id \in Id : Worth(id)' = Worth(id) + (in[id] - out[id]) /\ in[id] \in Nat
  <2> HIDE DEF in, out
  <2>1. QED
    BY <1>11
<1>13. SumOver(in, Id) = amount
  <2>1. \A x \in Id : in[x] = SumOver(alloc, Writes(ids, alloc, x))
    OBVIOUS
  <2> HIDE DEF in
  <2>2. QED
    BY <1>3, <1>4, <2>1, AllComesIn
<1> HIDE DEF in
<1>14. \A id \in Id : given[id] \in Int /\ booked[id] \in Nat
  BY <1>7, ContributedInt
<1> HIDE DEF out, given, booked, after
<1>15. SumOver(out, Id) \in Nat /\ SumOver(given, Id) \in Int /\ SumOver(booked, Id) \in Nat
  <2>1. IsFiniteSet(Id)
    BY FinitelyMany
  <2>2. SumOver(out, Id) \in Nat
    BY <1>8, <2>1, SumNat
  <2>3. SumOver(booked, Id) \in Nat
    BY <1>14, <2>1, SumNat
  <2>4. SumOver(given, Id) \in Int
    BY <1>14, <2>1, SumInt
  <2>5. QED
    BY <2>2, <2>3, <2>4
<1> DEFINE total == SumOver(out, Id)
           sum   == SumOver(given, Id)
<1>16. balance' \in [Token -> Nat] /\ aggregate' \in [Token -> Int]
  <2>1. balance \in [Token -> Nat] /\ aggregate \in [Token -> Int]
    BY BalanceTypes
  <2>2. balance[t] + amount - total \in Nat /\ aggregate[t] - sum \in Int
    <3> DEFINE b == balance[t]
               g == aggregate[t]
    <3>1. b \in Nat /\ g \in Int /\ total \in Nat /\ sum \in Int /\ total <= b + amount
      BY <1>1, <1>15, <2>1
    <3> HIDE DEF total, sum, b, g
    <3>2. b + amount - total \in Nat /\ g - sum \in Int
      BY <1>3, <3>1
    <3>3. QED
      BY <3>2 DEF b, g
  <2>3. QED
    BY <1>1, <2>1, <2>2
<1>17. Conserved'
  <2>1. balance' = [balance EXCEPT ![t] = balance[t] + amount - total]
    BY <1>1
  <2>2. CameAndWent(in, out)
    BY <1>8, <1>12 DEF CameAndWent
  <2>3. SumOver(in, Id) = amount
    BY <1>13
  <2>4. total = SumOver(out, Id)
    OBVIOUS
  <2>5. amount \in Nat
    BY <1>3
  <2> HIDE DEF total
  <2>6. QED
    BY <2>1, <2>2, <2>3, <2>4, <2>5, ConservedNetting
<1>18. /\ stats' \in StatsRecord /\ stats'.opened = stats.opened
       /\ stats'.defaulted = stats.defaulted /\ stats'.active = Less(stats.active, Cardinality(done))
  <2> DEFINE n == stats.repaid + SumOver(booked, Id)
             a == Less(stats.active, Cardinality(done))
  <2>1. stats \in StatsRecord /\ n \in Nat
    BY <1>15, BalanceTypes
  <2>2. a \in Nat
    <3>1. IsFiniteSet(done)
      BY <1>5, FinitelyMany, FS_Subset
    <3>2. Cardinality(done) \in Nat /\ stats.active \in Nat
      BY <3>1, FS_CardinalityType, BalanceTypes
    <3>3. QED
      BY <3>2 DEF Less
  <2>3. stats' = [stats EXCEPT !.repaid = n, !.active = a]
    BY <1>2
  <2> HIDE DEF n, a
  <2>4. /\ stats' \in StatsRecord /\ stats'.opened = stats.opened
        /\ stats'.defaulted = stats.defaulted /\ stats'.active = a
    BY <2>1, <2>2, <2>3 DEF StatsRecord
  <2>5. QED
    BY <2>4 DEF a
<1> HIDE DEF done
<1>19. StatsInStep'
  BY <1>5, <1>9, <1>12, <1>18, StatsSettle
<1>20. TypeOK'
  <2>1. pool' \in [Id -> PoolRecord]
    <3>1. pool' = [id \in Id |-> pool'[id]]
      BY <1>1 DEF after
    <3>2. QED
      BY <1>12, <3>1
  <2>2. flow' \in [Id -> FlowRecord]
    <3>1. flow' = [id \in Id |-> flow'[id]]
      BY <1>2
    <3>2. QED
      BY <1>12, <3>1
  <2>3. cut' \in [Id -> Nat] /\ nft' \in [Id -> {"Listed", "Funded", "Repaid", "Defaulted"}]
    BY <1>1, <1>9 DEF Inv, TypeOK, PoolsOk
  <2>4. PoolsOk' /\ MoneyOk'
    BY <1>16, <1>18, <2>1, <2>2, <2>3 DEF PoolsOk, MoneyOk
  <2>5. QED
    BY <1>2, <2>4, ClaimsKept, DealsKept, EnvKept DEF TypeOK
<1>21. QED
  BY <1>12, <1>17, <1>19, <1>20 DEF Inv

-------------------------------------------------------------------------------
(* Inv holds at the start and every step keeps it.                         *)

LEMMA InitInv == ASSUME Init PROVE Inv
<1>1. /\ pool = [id \in Id |-> NoPool] /\ nft = [id \in Id |-> "Listed"]
      /\ cut = [id \in Id |-> 0]
  BY DEF Init, InitWith
<1>2. /\ position = [id \in Id |-> NoPositions]
      /\ shares = [id \in Id |-> [i \in Investor |-> <<>>]]
      /\ sale = {} /\ shareSale = {}
  BY DEF Init, InitWith
<1>3. /\ approval = [id \in Id |-> NoApproval] /\ buyout = [id \in Id |-> NoBuyout]
      /\ plan = [id \in Id |-> NoPlan] /\ reserved = [id \in Id |-> 0] /\ credited = {}
  BY DEF Init, InitWith
<1>4. /\ aggregate = [u \in Token |-> 0] /\ balance = [u \in Token |-> 0]
      /\ flow = [id \in Id |-> NoFlow]
  BY TokensOk DEF Init, InitWith
<1>5. stats = [opened |-> 0, active |-> 0, repaid |-> 0, defaulted |-> 0]
  <2>1. stats = [opened |-> Cardinality({}), active |-> Cardinality({}), repaid |-> 0, defaulted |-> 0]
    BY DEF Init, InitWith
  <2>2. Cardinality({}) = 0
    BY FS_EmptySet
  <2>3. QED
    BY <2>1, <2>2
<1>6. /\ settings \in [penalty : Penalties, split : Splits, cap : Caps]
      /\ gate = [paused |-> FALSE, frozen |-> {}, disputed |-> {}] /\ now = 0
  BY DEF Init, InitWith
<1>7. 0 \in Bps
  BY DEF Bps
<1>8. PoolsOk
  <2>1. NoPool \in PoolRecord
    BY <1>7 DEF NoPool, PoolRecord
  <2>2. QED
    BY <1>1, <2>1 DEF PoolsOk
<1>9. ClaimsOk
  <2>1. NoPosition \in PositionRecord
    BY <1>7 DEF NoPosition, PositionRecord
  <2>2. NoPositions \in [Investor -> PositionRecord]
    BY <2>1 DEF NoPositions
  <2> DEFINE Rows == Seq(ShareRecord)
  <2>3. <<>> \in Rows
    OBVIOUS
  <2> HIDE DEF Rows
  <2>4. shares \in [Id -> [Investor -> Rows]]
    BY <1>2, <2>3
  <2>5. QED
    BY <1>2, <2>2, <2>4 DEF ClaimsOk, Rows
<1>10. DealsOk
  <2>1. NoApproval \in ApprovalRecord
    BY DEF NoApproval, ApprovalRecord
  <2>2. NoPlan \in PlanRecord /\ NoPlan.next \in 1..(Len(NoPlan.parts) + 1)
    BY DEF NoPlan, PlanRecord
  <2>3. QED
    BY <1>3, <2>1, <2>2, NoBuyoutTyped DEF DealsOk
<1>11. MoneyOk
  <2>1. NoFlow \in FlowRecord
    BY DEF NoFlow, FlowRecord
  <2>2. stats \in StatsRecord
    BY <1>5 DEF StatsRecord
  <2>3. QED
    BY <1>4, <2>1, <2>2 DEF MoneyOk
<1>12. EnvOk
  <2>1. settings \in SettingsRecord
    BY <1>6, SettingsFit DEF SettingsRecord
  <2>2. gate \in GateRecord
    BY <1>6 DEF GateRecord
  <2>3. now \in Time
    BY <1>6, LimitsOk DEF Time
  <2>4. QED
    BY <2>1, <2>2, <2>3 DEF EnvOk
<1>13. \A id \in Id : ~Exists(id)
  BY <1>1 DEF Exists, NoPool
<1>14. Conserved
  <2> SUFFICES ASSUME NEW t \in Token PROVE balance[t] = SumOver([id \in Id |-> Worth(id)], Id)
    BY DEF Conserved
  <2> DEFINE f == [id \in Id |-> Worth(id)]
  <2>1. \A id \in Id : f[id] = 0
    BY <1>13 DEF Worth
  <2> HIDE DEF f
  <2>2. SumOver(f, Id) = 0
    BY <2>1, FinitelyMany, SumZero
  <2>3. QED
    BY <1>4, <2>2 DEF f
<1>15. StatsInStep
  <2>1. {id \in Id : Exists(id)} = {} /\ {id \in Id : nft[id] = "Funded"} = {}
        /\ {id \in Id : nft[id] = "Defaulted"} = {}
    BY <1>1, <1>13
  <2>2. QED
    BY <1>5, <2>1, FS_EmptySet DEF StatsInStep
<1>16. \A id \in Id : PoolOk(id)
  <2> SUFFICES ASSUME NEW id \in Id PROVE PoolOk(id)
    OBVIOUS
  <2>1. Fresh(id)
    BY <1>1, <1>3, <1>4, <1>13 DEF Fresh
  <2>2. ClosedOk(id)
    BY <1>1 DEF ClosedOk, Settled, NoPool
  <2>3. PartsOk(id)
    BY <1>13 DEF PartsOk, Open
  <2>4. ReceiptsOk(id)
    BY <1>1, <1>4 DEF ReceiptsOk, NoPool, NoFlow
  <2>5. QED
    BY <2>1, <2>2, <2>3, <2>4 DEF PoolOk
<1>17. QED
  BY <1>8, <1>9, <1>10, <1>11, <1>12, <1>14, <1>15, <1>16 DEF Inv, TypeOK

LEMMA StepInv == ASSUME Inv, [Next]_vars PROVE Inv'
<1>1. CASE Opening
  BY <1>1, ReleaseFundsStep, RecordPositionStep DEF Opening
<1>2. CASE Trading
  BY <1>2, TradingStep
<1>3. CASE Repaying
  BY <1>3, RepayStep, NetSettleStep, SetInstallmentScheduleStep, MarkDefaultStep DEF Repaying
<1>4. CASE RepayingPartly
  BY <1>4, RepayPartialStep DEF RepayingPartly
<1>5. CASE Approving
  BY <1>5, ProposeRepaymentStep, ApproveRepaymentStep, ExecuteStep DEF Approving
<1>6. CASE BuyingOut
  BY <1>6, ProposeEarlySettlementStep, AcceptEarlySettlementStep, CancelEarlySettlementStep DEF BuyingOut
<1>7. CASE Escrowing
  BY <1>7, ReserveEscrowStep, ReleaseEscrowStep, SettleEscrowStep DEF Escrowing
<1>8. CASE Surroundings
  BY <1>8, SurroundingsStep
<1>9. CASE Tick
  BY <1>9, TickStep
<1>10. CASE UNCHANGED vars
  <2>1. UNCHANGED claimVars /\ UNCHANGED moneyVars /\ UNCHANGED dealVars /\ UNCHANGED envVars
    BY <1>10 DEF vars
  <2>2. EnvOk'
    BY <2>1, EnvKept
  <2>3. QED
    BY <2>1, <2>2, EnvMoves
<1>11. QED
  BY <1>1, <1>2, <1>3, <1>4, <1>5, <1>6, <1>7, <1>8, <1>9, <1>10 DEF Next

LEMMA InvAlways == Spec => []Inv
<1>1. Init => Inv
  BY InitInv
<1>2. Inv /\ [Next]_vars => Inv'
  BY StepInv
<1>3. QED
  BY <1>1, <1>2, PTL DEF Spec

(* The types of everything the contract stores (DataKey, lib.rs:44-120).   *)
THEOREM TypeCorrect == Spec => []TypeOK
<1>1. Inv => TypeOK
  BY DEF Inv
<1>2. QED
  BY <1>1, InvAlways, PTL

(* The pool records, the statistics, the schedules and the NFT statuses of *)
(* another contract always tell the same story, over any number of pools   *)
(* and any mix of payments, nettings, buyouts, escrows and defaults.       *)
THEOREM BooksAlwaysAgree == Spec => []BooksAgree
<1>1. Inv => BooksAgree
  BY DEF Inv, PoolOk, ClosedOk, PartsOk, BooksAgree, ClosedIffSettled, PaidInstallmentsCovered
<1>2. QED
  BY <1>1, InvAlways, PTL

(* distribute_yield pays a pool's investors from that pool's receipts only,*)
(* and the one balance the contract holds covers the capital of all pools  *)
(* and the pending buyouts, as long as the stakes add up.                  *)
THEOREM PaidAlwaysFromReceipts == Spec => []PaidFromOwnReceipts
<1>1. ASSUME Inv PROVE PaidFromOwnReceipts
  <2>1. ASSUME NEW id \in Id, Plain(id) PROVE flow[id].out <= flow[id].in
    BY <1>1, <2>1 DEF Inv, PoolOk, ReceiptsOk
  <2>2. ASSUME NEW t \in Token, Token = {t}, \A id \in Id : Plain(id)
        PROVE  balance[t] >= SumOver([id \in Id |-> Capital(id)], Id)
    <3> DEFINE f == [id \in Id |-> Capital(id)]
               g == [id \in Id |-> Worth(id)]
    <3>1. balance[t] = SumOver(g, Id)
      BY <1>1, <2>2 DEF Inv, Conserved
    <3>2. ASSUME NEW id \in Id PROVE f[id] \in Int /\ g[id] \in Int /\ f[id] <= g[id]
      <4> DEFINE c == Funding[id]
                 b == buyout[id].amount
                 i == flow[id].in
                 o == flow[id].out
      <4>1. c \in Int /\ b \in Int /\ i \in Int /\ o \in Int
        BY <1>1, DealTypes, FlowTypes, InvoicesOk
      <4>2. o <= i
        BY <2>1, <2>2
      <4>3. /\ Capital(id) = IF Exists(id) THEN c + b ELSE 0
            /\ Worth(id) = IF Exists(id) THEN c + b + i - o ELSE 0
        BY DEF Capital, Worth
      <4> HIDE DEF c, b, i, o
      <4>4. Capital(id) \in Int /\ Worth(id) \in Int /\ Capital(id) <= Worth(id)
        BY <4>1, <4>2, <4>3
      <4>5. QED
        BY <4>4
    <3> HIDE DEF f, g
    <3>3. SumOver(f, Id) <= SumOver(g, Id) /\ SumOver(f, Id) \in Int /\ SumOver(g, Id) \in Int
      BY <3>2, FinitelyMany, SumMonotone, SumInt
    <3>4. QED
      BY <3>1, <3>3 DEF f
  <2>3. QED
    BY <2>1, <2>2 DEF PaidFromOwnReceipts
<1>2. QED
  BY <1>1, InvAlways, PTL

-------------------------------------------------------------------------------
(* Trade creates no stake.                                                 *)

(* What each investor is entitled to of n by its position.                 *)
Entitled(id, n) == [i \in Investor |-> IF Holds(id, i) THEN Payout(id, i, n) ELSE 0]

(* The investors get at least that, and exactly that while no position has *)
(* more split off than it is.                                              *)
OutOk ==
  \A id \in Id, n \in Pay :
    /\ SumOver(Entitled(id, n), Investor) \in Nat
    /\ SumOver(Entitled(id, n), Investor) <= InvestorsOut(id, n)
    /\ (\A i \in Holders(id) : WithinStake(id, i)) =>
         InvestorsOut(id, n) = SumOver(Entitled(id, n), Investor)

LEMMA OutFair == Inv => OutOk
<1> SUFFICES ASSUME Inv, NEW id \in Id, NEW n \in Pay
             PROVE  /\ SumOver(Entitled(id, n), Investor) \in Nat
                    /\ SumOver(Entitled(id, n), Investor) <= InvestorsOut(id, n)
                    /\ (\A i \in Holders(id) : WithinStake(id, i)) =>
                         InvestorsOut(id, n) = SumOver(Entitled(id, n), Investor)
  BY DEF OutOk
<1> DEFINE H   == Holders(id)
           out == [i \in H |-> PositionOut(id, i, n)]
           due == [i \in H |-> Payout(id, i, n)]
           all == Entitled(id, n)
<1>1. H \in SUBSET Investor /\ IsFiniteSet(H) /\ IsFiniteSet(Investor)
  BY FinitelyMany, FS_Subset DEF Holders
<1>2. n \in Nat
  BY AmountsOk
<1>3. \A i \in H : /\ out[i] \in Nat /\ due[i] \in Nat /\ due[i] <= out[i]
                   /\ WithinStake(id, i) => out[i] = due[i]
  BY <1>2, PositionOutFair
<1>4. InvestorsOut(id, n) = SumOver(out, H)
  BY DEF InvestorsOut
<1>5. (\A i \in H : all[i] = due[i]) /\ \A i \in Investor \ H : all[i] = 0
  BY DEF Entitled, Holders
<1> HIDE DEF H, out, due, all
<1>6. SumOver(all, Investor) = SumOver(due, H)
  BY <1>1, <1>3, <1>5, SumPadded
<1>7. SumOver(due, H) \in Nat /\ SumOver(due, H) <= SumOver(out, H)
  BY <1>1, <1>3, SumNat, SumMonotone
<1>8. (\A i \in H : WithinStake(id, i)) => SumOver(out, H) = SumOver(due, H)
  BY <1>1, <1>3, SumSame
<1>9. QED
  BY <1>4, <1>6, <1>7, <1>8 DEF all, H

NoMore(id) == TotalBps(id)' <= TotalBps(id) /\ Contributed(id)' <= Contributed(id)

(* A trade adds nothing to what a repayment pays.                          *)
NoneAdded(id) ==
  StakesStay(id) \/ (\A i \in Holders(id) : WithinStake(id, i))'
    => \A n \in Pay : InvestorsOut(id, n)' <= InvestorsOut(id, n)

(* The same positions, of which the same amounts are split off.            *)
SameAmounts(id) ==
  /\ position'[id] = position[id]
  /\ \A i \in Investor : /\ DOMAIN shares'[id][i] = DOMAIN shares[id][i]
                          /\ \A k \in DOMAIN shares[id][i] :
                               shares'[id][i][k].amount = shares[id][i][k].amount

LEMMA SameAmountsPaid ==
  ASSUME Inv, NEW id \in Id, SameAmounts(id)
  PROVE  NoneAdded(id)
<1> SUFFICES ASSUME NEW n \in Pay PROVE InvestorsOut(id, n)' <= InvestorsOut(id, n)
  BY DEF NoneAdded
<1>1. Holders(id)' = Holders(id) /\ Holders(id) \in SUBSET Investor
  BY DEF Holders, Holds, SameAmounts
<1>2. ASSUME NEW i \in Holders(id) PROVE PositionOut(id, i, n)' = PositionOut(id, i, n)
  <2>1. Payout(id, i, n)' = Payout(id, i, n)
    BY DEF SameAmounts, Payout
  <2>2. /\ DOMAIN shares'[id][i] = DOMAIN shares[id][i]
        /\ \A k \in DOMAIN shares[id][i] : shares'[id][i][k].amount = shares[id][i][k].amount
    BY <1>1 DEF SameAmounts
  <2>3. position'[id][i].contributed = position[id][i].contributed
    BY DEF SameAmounts
  <2>4. ShareOuts(id, i, n)' = ShareOuts(id, i, n)
    BY <2>1, <2>2, <2>3 DEF ShareOuts
  <2>5. QED
    BY <2>1, <2>2, <2>4 DEF PositionOut
<1>3. InvestorsOut(id, n)' = InvestorsOut(id, n)
  BY <1>1, <1>2 DEF InvestorsOut
<1>4. InvestorsOut(id, n) \in Nat
  BY AmountsOk, InvestorsOutFair
<1>5. QED
  BY <1>3, <1>4

(* Where the new entitlements come to no more than the old ones did.       *)
LEMMA EntitledPaid ==
  ASSUME Inv, OutOk, OutOk', NEW id \in Id, ~StakesStay(id),
         \A n \in Pay : SumOver(Entitled(id, n)', Investor) <= SumOver(Entitled(id, n), Investor)
  PROVE  NoneAdded(id)
<1> SUFFICES ASSUME (\A i \in Holders(id) : WithinStake(id, i))', NEW n \in Pay
             PROVE  InvestorsOut(id, n)' <= InvestorsOut(id, n)
  BY DEF NoneAdded
<1> DEFINE out1 == InvestorsOut(id, n)'
           out  == InvestorsOut(id, n)
           due1 == SumOver(Entitled(id, n)', Investor)
           due  == SumOver(Entitled(id, n), Investor)
<1>1. out1 = due1 /\ due1 \in Nat
  BY DEF OutOk
<1>2. due \in Nat /\ due <= out /\ due1 <= due
  BY DEF OutOk
<1>3. out \in Nat
  BY AmountsOk, InvestorsOutFair
<1> HIDE DEF out, out1, due, due1
<1>4. out1 <= out
  BY <1>1, <1>2, <1>3
<1>5. QED
  BY <1>4 DEF out, out1

LEMMA PositionsKept ==
  ASSUME Inv, NEW id \in Id, position'[id] = position[id]
  PROVE  NoMore(id)
<1> DEFINE b == [i \in Investor |-> position[id][i].bps]
<1>1. TotalBps(id) \in Int
  <2>1. \A i \in Investor : b[i] \in Int
    BY ClaimTypes, BpsRange
  <2>2. TotalBps(id) = SumOver(b, Investor)
    BY DEF TotalBps
  <2> HIDE DEF b
  <2>3. QED
    BY <2>1, <2>2, FinitelyMany, SumInt
<1>2. TotalBps(id)' = TotalBps(id) /\ Contributed(id)' = Contributed(id)
  BY DEF TotalBps, Contributed
<1>3. QED
  BY <1>1, <1>2, ContributedInt DEF NoMore

LEMMA MovesNoMore ==
  ASSUME Inv, NEW id \in Id, NEW from \in Investor, NEW to \in Investor, MovePosition(id, from, to),
         NEW x \in Id
  PROVE  NoMore(x)
<1>1. /\ position'[id] \in [Investor -> PositionRecord]
      /\ \A y \in Id : y # id => position'[y] = position[y]
      /\ position'[id][to] = position[id][from]
      /\ from # to => position'[id][from] = NoPosition
      /\ \A i \in Investor : i \notin {from, to} => position'[id][i] = position[id][i]
  BY PositionMoves
<1>2. CASE x # id
  BY <1>1, <1>2, PositionsKept
<1>3. CASE x = id /\ from = to
  <2>1. position[id] \in [Investor -> PositionRecord]
    BY ClaimTypes
  <2>2. \A i \in Investor : position'[id][i] = position[id][i]
    BY <1>1, <1>3
  <2>3. position'[id] = position[id]
    BY <1>1, <2>1, <2>2
  <2>4. QED
    BY <1>3, <2>3, PositionsKept
<1>4. CASE x = id /\ from # to
  <2> DEFINE b  == [i \in Investor |-> position[id][i].bps]
             c  == [i \in Investor |-> position[id][i].contributed]
             b1 == [i \in Investor |-> position'[id][i].bps]
             c1 == [i \in Investor |-> position'[id][i].contributed]
  <2>1. TotalBps(id) = SumOver(b, Investor) /\ TotalBps(id)' = SumOver(b1, Investor)
        /\ Contributed(id) = SumOver(c, Investor) /\ Contributed(id)' = SumOver(c1, Investor)
    BY DEF TotalBps, Contributed
  <2>2. \A i \in Investor : b[i] \in Nat
    BY ClaimTypes, BpsRange
  <2>3. \A i \in Investor : c[i] \in Nat
    BY ClaimTypes
  <2>4. /\ b1[from] = 0 /\ b1[to] = b[from] /\ \A i \in Investor \ {from, to} : b1[i] = b[i]
        /\ c1[from] = 0 /\ c1[to] = c[from] /\ \A i \in Investor \ {from, to} : c1[i] = c[i]
    BY <1>1, <1>4 DEF NoPosition
  <2>5. IsFiniteSet(Investor) /\ from # to
    BY <1>4, FinitelyMany
  <2> HIDE DEF b, c, b1, c1
  <2>6. SumOver(b1, Investor) <= SumOver(b, Investor)
    BY <2>2, <2>4, <2>5, SumReplaced
  <2>7. SumOver(c1, Investor) <= SumOver(c, Investor)
    BY <2>3, <2>4, <2>5, SumReplaced
  <2>8. QED
    BY <1>4, <2>1, <2>6, <2>7 DEF NoMore
<1>5. QED
  BY <1>2, <1>3, <1>4

(* A position changes hands: whoever gets it is entitled to what its old   *)
(* holder was.                                                             *)
LEMMA MovesAddNothing ==
  ASSUME Inv, OutOk, OutOk', NEW id \in Id, NEW from \in Investor, NEW to \in Investor,
         MovePosition(id, from, to), shares' = shares, NEW x \in Id
  PROVE  NoneAdded(x)
<1>1. /\ position'[id] \in [Investor -> PositionRecord]
      /\ \A y \in Id : y # id => position'[y] = position[y]
      /\ position'[id][to] = position[id][from]
      /\ from # to => position'[id][from] = NoPosition
      /\ \A i \in Investor : i \notin {from, to} => position'[id][i] = position[id][i]
  BY PositionMoves
<1>2. CASE position'[x] = position[x]
  BY <1>2, SameAmountsPaid DEF SameAmounts
<1>3. CASE position'[x] # position[x]
  <2>1. x = id
    BY <1>1, <1>3
  <2>2. from # to
    <3>1. position[id] \in [Investor -> PositionRecord]
      BY ClaimTypes
    <3>2. ASSUME from = to PROVE \A i \in Investor : position'[id][i] = position[id][i]
      BY <1>1, <3>2
    <3>3. QED
      BY <1>1, <1>3, <2>1, <3>1, <3>2
  <2>3. ~StakesStay(x)
    BY <1>3 DEF StakesStay
  <2>4. ASSUME NEW n \in Pay
        PROVE  SumOver(Entitled(id, n)', Investor) <= SumOver(Entitled(id, n), Investor)
    <3> DEFINE e  == Entitled(id, n)
               e1 == Entitled(id, n)'
    <3>1. \A i \in Investor : e[i] \in Nat
      <4> SUFFICES ASSUME NEW i \in Investor PROVE e[i] \in Nat
        OBVIOUS
      <4>1. position[id][i].bps \in Bps /\ n \in Nat
        BY AmountsOk, ClaimTypes
      <4>2. QED
        BY <4>1, BpsShare DEF Entitled, Payout
    <3>2. e1[from] = 0
      BY <1>1, <2>2 DEF Entitled, Holds, NoPosition
    <3>3. e1[to] = e[from]
      BY <1>1 DEF Entitled, Holds, Payout
    <3>4. \A i \in Investor \ {from, to} : e1[i] = e[i]
      BY <1>1 DEF Entitled, Holds, Payout
    <3> HIDE DEF e, e1
    <3>5. SumOver(e1, Investor) <= SumOver(e, Investor)
      BY <2>2, <3>1, <3>2, <3>3, <3>4, FinitelyMany, SumReplaced
    <3>6. QED
      BY <3>5 DEF e, e1
  <2>5. QED
    BY <2>1, <2>3, <2>4, EntitledPaid
<1>4. QED
  BY <1>2, <1>3

(* A share that gets another owner keeps its amount.                       *)
LEMMA OwnersAddNothing ==
  ASSUME Inv, NEW id \in Id, NEW i \in Investor, NEW k, NEW j,
         shares' = [shares EXCEPT ![id][i][k].owner = j], position' = position, NEW x \in Id
  PROVE  NoneAdded(x)
<1>1. ASSUME NEW h \in Investor
      PROVE  /\ DOMAIN shares'[x][h] = DOMAIN shares[x][h]
             /\ \A m \in DOMAIN shares[x][h] : shares'[x][h][m].amount = shares[x][h][m].amount
  <2> DEFINE old == shares[id][i]
             s   == [old EXCEPT ![k].owner = j]
  <2>1. shares \in [Id -> [Investor -> Seq(ShareRecord)]] /\ old \in Seq(ShareRecord)
    BY ClaimTypes DEF Inv, TypeOK, ClaimsOk
  <2>2. shares' = [shares EXCEPT ![id][i] = s]
    OBVIOUS
  <2>3. DOMAIN s = DOMAIN old /\ \A m \in DOMAIN old : s[m].amount = old[m].amount
    <3>1. \A m \in DOMAIN old : old[m] \in ShareRecord
      BY <2>1
    <3>2. DOMAIN s = DOMAIN old
      OBVIOUS
    <3>3. ASSUME NEW m \in DOMAIN old PROVE s[m].amount = old[m].amount
      <4> HIDE DEF old
      <4>1. s[m] = IF m = k THEN [old[m] EXCEPT !.owner = j] ELSE old[m]
        OBVIOUS
      <4>2. [old[m] EXCEPT !.owner = j].amount = old[m].amount
        BY <3>1 DEF ShareRecord
      <4>3. QED
        BY <4>1, <4>2
    <3>4. QED
      BY <3>2, <3>3
  <2> HIDE DEF s
  <2>4. CASE x = id /\ h = i
    <3>1. shares'[x][h] = s
      BY <2>1, <2>2, <2>4
    <3>2. QED
      BY <2>3, <2>4, <3>1
  <2>5. CASE ~(x = id /\ h = i)
    BY <2>1, <2>2, <2>5
  <2>6. QED
    BY <2>4, <2>5
<1>2. SameAmounts(x)
  BY <1>1 DEF SameAmounts
<1>3. QED
  BY <1>2, SameAmountsPaid

(* A split leaves what the position is entitled to.                        *)
LEMMA SplitAddsNothing ==
  ASSUME Inv, OutOk, OutOk', NEW id \in Id, NEW i \in Investor, NEW a \in Pay,
         SplitPosition(id, i, a), NEW x \in Id
  PROVE  NoneAdded(x)
<1>1. /\ shares' = [shares EXCEPT ![id][i] = Append(@, [amount |-> a, owner |-> i])]
      /\ position' = position
  BY DEF SplitPosition
<1>2. shares \in [Id -> [Investor -> Seq(ShareRecord)]] /\ shares[id][i] \in Seq(ShareRecord)
  BY ClaimTypes DEF Inv, TypeOK, ClaimsOk
<1>3. CASE x # id
  <2>1. shares'[x] = shares[x]
    BY <1>1, <1>2, <1>3
  <2>2. QED
    BY <1>1, <2>1, SameAmountsPaid DEF SameAmounts
<1>4. CASE x = id
  <2> DEFINE old == shares[id][i]
             s   == Append(old, [amount |-> a, owner |-> i])
  <2>1. shares'[id][i] = s
    BY <1>1, <1>2
  <2>2. Len(s) = Len(old) + 1 /\ DOMAIN s = 1..Len(s) /\ DOMAIN old = 1..Len(old)
        /\ Len(old) \in Nat
    <3>1. old \in Seq(ShareRecord)
      BY <1>2
    <3>2. [amount |-> a, owner |-> i] \in ShareRecord
      BY AmountsOk DEF ShareRecord
    <3> HIDE DEF old
    <3>3. QED
      BY <3>1, <3>2
  <2> HIDE DEF old, s
  <2>3. DOMAIN s # DOMAIN old
    <3>1. Len(s) \in DOMAIN s /\ Len(s) \notin DOMAIN old
      BY <2>2
    <3>2. QED
      BY <3>1
  <2>4. ~StakesStay(x)
    BY <1>4, <2>1, <2>3 DEF StakesStay, old
  <2>5. \A n \in Pay : SumOver(Entitled(id, n)', Investor) <= SumOver(Entitled(id, n), Investor)
    <3> SUFFICES ASSUME NEW n \in Pay
                 PROVE  SumOver(Entitled(id, n)', Investor) <= SumOver(Entitled(id, n), Investor)
      OBVIOUS
    <3>1. Entitled(id, n)' = Entitled(id, n)
      BY <1>1 DEF Entitled, Holds, Payout
    <3>2. SumOver(Entitled(id, n), Investor) \in Nat
      BY DEF OutOk
    <3> DEFINE due == SumOver(Entitled(id, n), Investor)
    <3>3. SumOver(Entitled(id, n)', Investor) = due
      BY <3>1
    <3> HIDE DEF due
    <3>4. QED
      BY <3>2, <3>3 DEF due
  <2>6. QED
    BY <1>4, <2>4, <2>5, EntitledPaid
<1>5. QED
  BY <1>3, <1>4

LEMMA TradingNoMore ==
  ASSUME Inv, OutOk, OutOk', Trading, NEW x \in Id
  PROVE  NoMore(x) /\ NoneAdded(x)
<1>1. PICK id \in Id, i \in Investor :
        \/ \E a \in Pay : SplitPosition(id, i, a)
        \/ \E k \in 1..MaxShares :
             \/ \E j \in Investor : TransferShare(id, i, k, j)
             \/ ListShareForSale(id, i, k)
        \/ \E o \in shareSale : BuyShare(i, o)
        \/ ListPositionForSale(id, i)
        \/ \E j \in Investor : BuyPosition(id, i, j) \/ TransferPosition(id, i, j)
  BY DEF Trading
<1>2. ASSUME NEW a \in Pay, SplitPosition(id, i, a) PROVE NoMore(x) /\ NoneAdded(x)
  <2>1. position' = position
    BY <1>2 DEF SplitPosition
  <2>2. QED
    BY <1>2, <2>1, PositionsKept, SplitAddsNothing
<1>3. ASSUME NEW k \in 1..MaxShares, NEW j \in Investor, TransferShare(id, i, k, j)
      PROVE  NoMore(x) /\ NoneAdded(x)
  <2>1. shares' = [shares EXCEPT ![id][i][k].owner = j] /\ position' = position
    BY <1>3 DEF TransferShare
  <2>2. QED
    BY <2>1, PositionsKept, OwnersAddNothing
<1>4. ASSUME NEW o \in shareSale, BuyShare(i, o) PROVE NoMore(x) /\ NoneAdded(x)
  <2>1. shares' = [shares EXCEPT ![o.id][o.of][o.index].owner = i] /\ position' = position
    BY <1>4 DEF BuyShare
  <2>2. o.id \in Id /\ o.of \in Investor
    BY DEF Inv, TypeOK, ClaimsOk, SaleRecord
  <2>3. QED
    BY <2>1, <2>2, PositionsKept, OwnersAddNothing
<1>5. CASE (\E k \in 1..MaxShares : ListShareForSale(id, i, k)) \/ ListPositionForSale(id, i)
  <2>1. position' = position /\ shares' = shares
    BY <1>5 DEF ListShareForSale, ListPositionForSale
  <2>2. QED
    BY <2>1, PositionsKept, SameAmountsPaid DEF SameAmounts
<1>6. ASSUME NEW j \in Investor, BuyPosition(id, i, j) \/ TransferPosition(id, i, j)
      PROVE  NoMore(x) /\ NoneAdded(x)
  <2>1. MovePosition(id, i, j) /\ shares' = shares
    BY <1>6 DEF BuyPosition, TransferPosition
  <2>2. QED
    BY <2>1, MovesNoMore, MovesAddNothing
<1>7. QED
  BY <1>1, <1>2, <1>3, <1>4, <1>5, <1>6

(* Positions that are sold or passed on add to no pool, and neither they   *)
(* nor the shares that are split off, sold or passed on add to what a      *)
(* repayment pays the investors, unless some holder is left with more split*)
(* off than it holds.                                                      *)
THEOREM TradeCreatesNothing == Spec => StakesNotCreated
<1> DEFINE Step == Trading =>
                     \A id \in Id :
                       /\ TotalBps(id)' <= TotalBps(id) /\ Contributed(id)' <= Contributed(id)
                       /\ StakesStay(id) \/ (\A i \in Holders(id) : WithinStake(id, i))'
                            => \A n \in Pay : InvestorsOut(id, n)' <= InvestorsOut(id, n)
           Full == Inv /\ OutOk
<1>1. Spec => []Full
  BY InvAlways, OutFair, PTL
<1>2. Full /\ Full' /\ [Next]_vars => [Step]_vars
  BY TradingNoMore DEF NoMore, NoneAdded
<1>3. [][Step]_vars => StakesNotCreated
  BY PTL DEF StakesNotCreated
<1>4. QED
  BY <1>1, <1>2, <1>3, PTL DEF Spec

-------------------------------------------------------------------------------
(* A settled pool, and one an escrow is reserved for, stand still.         *)

Still(x) ==
  /\ pool[x].closed \/ (reserved[x] > 0 /\ reserved'[x] > 0) =>
       pool'[x] = pool[x] /\ flow'[x] = flow[x] /\ nft'[x] = nft[x]
  /\ reserved[x] > 0 /\ reserved'[x] > 0 =>
       /\ position'[x] = position[x] /\ shares'[x] = shares[x]
       /\ plan'[x] = plan[x] /\ buyout'[x] = buyout[x]

SameMoney(x)  == pool'[x] = pool[x] /\ flow'[x] = flow[x] /\ nft'[x] = nft[x]
SameClaims(x) == /\ position'[x] = position[x] /\ shares'[x] = shares[x]
                 /\ plan'[x] = plan[x] /\ buyout'[x] = buyout[x]

(* A call that moves no money of any pool, and claims only of a free one.  *)
LEMMA StillUnpaid ==
  ASSUME UNCHANGED <<pool, flow, nft>>, NEW x, reserved[x] = 0 \/ reserved'[x] = 0 \/ SameClaims(x)
  PROVE  Still(x)
BY DEF Still, SameClaims

(* A call about one invoice, whose pool is open and not reserved.          *)
LEMMA StillIfOpen ==
  ASSUME NEW id, ~pool[id].closed, reserved[id] = 0 \/ reserved'[id] = 0,
         NEW x, x # id => SameMoney(x) /\ SameClaims(x)
  PROVE  Still(x)
BY DEF Still, SameMoney, SameClaims

LEMMA OpeningStill == ASSUME Inv, Opening, NEW x \in Id PROVE Still(x)
<1>1. ASSUME NEW id \in Id, NEW t \in Token, ReleaseFunds(id, t) PROVE Still(x)
  <2>1. pool[id] = NoPool /\ reserved[id] = 0
    BY <1>1 DEF Inv, PoolOk, Fresh, ReleaseFunds
  <2>2. ~pool[id].closed
    BY <2>1 DEF NoPool
  <2>3. UNCHANGED <<position, shares, plan, buyout, flow>>
    BY <1>1 DEF ReleaseFunds, claimVars, dealVars
  <2>4. pool \in [Id -> PoolRecord] /\ nft \in [Id -> {"Listed", "Funded", "Repaid", "Defaulted"}]
    BY DEF Inv, TypeOK, PoolsOk
  <2>5. x # id => pool'[x] = pool[x] /\ nft'[x] = nft[x]
    BY <1>1, <2>4 DEF ReleaseFunds
  <2>6. x # id => SameMoney(x) /\ SameClaims(x)
    BY <2>3, <2>5 DEF SameMoney, SameClaims
  <2>7. QED
    BY <2>1, <2>2, <2>6, StillIfOpen
<1>2. ASSUME NEW id \in Id, NEW i \in Investor, NEW a \in Pay, NEW n \in Totals,
             RecordPosition(id, i, a, n)
      PROVE  Still(x)
  <2>1. UNCHANGED <<pool, flow, nft, shares, plan, buyout>> /\ reserved[id] = 0
    BY <1>2 DEF RecordPosition, Unreserved, dealVars
  <2>2. position \in [Id -> [Investor -> PositionRecord]]
    BY DEF Inv, TypeOK, ClaimsOk
  <2>3. x # id => position'[x] = position[x]
    BY <1>2, <2>2 DEF RecordPosition
  <2>4. QED
    BY <2>1, <2>3, StillUnpaid DEF SameClaims
<1>3. QED
  BY <1>1, <1>2 DEF Opening

(* Every trade is of one open pool that is not reserved.                   *)
LEMMA TradingStill == ASSUME Inv, Trading, NEW x \in Id PROVE Still(x)
<1> USE DEF Tradable, Unreserved
<1>1. /\ position \in [Id -> [Investor -> PositionRecord]]
      /\ shares \in [Id -> [Investor -> Seq(ShareRecord)]]
      /\ shareSale \subseteq SaleRecord
  BY DEF Inv, TypeOK, ClaimsOk
<1>2. \E id \in Id : /\ reserved[id] = 0
                     /\ UNCHANGED moneyVars /\ UNCHANGED dealVars
                     /\ x # id => position'[x] = position[x] /\ shares'[x] = shares[x]
  <2>1. PICK id \in Id, i \in Investor :
          \/ \E a \in Pay : SplitPosition(id, i, a)
          \/ \E k \in 1..MaxShares :
               \/ \E j \in Investor : TransferShare(id, i, k, j)
               \/ ListShareForSale(id, i, k)
          \/ \E o \in shareSale : BuyShare(i, o)
          \/ ListPositionForSale(id, i)
          \/ \E j \in Investor : BuyPosition(id, i, j) \/ TransferPosition(id, i, j)
    BY DEF Trading
  <2>2. CASE \E a \in Pay : SplitPosition(id, i, a)
    BY <1>1, <2>2 DEF SplitPosition
  <2>3. CASE \E k \in 1..MaxShares, j \in Investor : TransferShare(id, i, k, j)
    BY <1>1, <2>3 DEF TransferShare
  <2>4. CASE \E k \in 1..MaxShares : ListShareForSale(id, i, k)
    BY <2>4 DEF ListShareForSale
  <2>5. CASE \E o \in shareSale : BuyShare(i, o)
    <3>1. PICK o \in shareSale : BuyShare(i, o)
      BY <2>5
    <3>2. o.id \in Id
      BY <1>1 DEF SaleRecord
    <3>3. reserved[o.id] = 0 /\ position' = position /\ (x # o.id => shares'[x] = shares[x])
         /\ UNCHANGED moneyVars /\ UNCHANGED dealVars
      BY <1>1, <3>1, <3>2 DEF BuyShare
    <3>4. QED
      BY <3>2, <3>3
  <2>6. CASE ListPositionForSale(id, i)
    BY <2>6 DEF ListPositionForSale
  <2>7. CASE \E j \in Investor : BuyPosition(id, i, j) \/ TransferPosition(id, i, j)
    BY <1>1, <2>7 DEF BuyPosition, TransferPosition, MovePosition
  <2>8. QED
    BY <2>1, <2>2, <2>3, <2>4, <2>5, <2>6, <2>7
<1>3. PICK id \in Id : /\ reserved[id] = 0
                       /\ UNCHANGED moneyVars /\ UNCHANGED dealVars
                       /\ x # id => position'[x] = position[x] /\ shares'[x] = shares[x]
  BY <1>2
<1>4. UNCHANGED <<pool, flow, nft, plan, buyout>>
  BY <1>3 DEF moneyVars, dealVars
<1>5. QED
  BY <1>3, <1>4, StillUnpaid DEF SameClaims

(* What set_repaid, distribute_yield and the intake of a payment leave to  *)
(* the other invoices.                                                     *)
LEMMA OthersKeep ==
  ASSUME Inv, NEW id \in Id, NEW x \in Id, x # id, NEW p, pool' = [pool EXCEPT ![id] = p],
         \/ \E c, o : flow' = Flows(id, c, o)
         \/ \E c, o : flow' = [Flows(id, c, o) EXCEPT ![id].loose = TRUE]
         \/ \E a : flow' = [flow EXCEPT ![id].in = @ + a]
         \/ flow' = flow,
         nft' = nft \/ SetRepaid({id}) \/ nft' = [nft EXCEPT ![id] = "Defaulted"]
  PROVE  SameMoney(x)
<1>1. /\ pool \in [Id -> PoolRecord] /\ flow \in [Id -> FlowRecord]
      /\ nft \in [Id -> {"Listed", "Funded", "Repaid", "Defaulted"}]
  BY DEF Inv, TypeOK, PoolsOk, MoneyOk
<1>2. pool'[x] = pool[x]
  BY <1>1
<1>3. flow'[x] = flow[x]
  BY <1>1 DEF Flows
<1>4. nft'[x] = nft[x]
  BY <1>1 DEF SetRepaid
<1>5. QED
  BY <1>2, <1>3, <1>4 DEF SameMoney

LEMMA RepaidStill ==
  ASSUME Inv, NEW id \in Id, NEW x \in Id, NEW t \in Token, NEW a, RepayInternal(id, t, a)
  PROVE  Still(x)
<1>1. ~pool[id].closed /\ reserved[id] = 0
  BY DEF RepayInternal, Open, Unreserved
<1>2. ASSUME x # id PROVE SameMoney(x) /\ SameClaims(x)
  <2>1. \E p : pool' = [pool EXCEPT ![id] = p]
    BY DEF RepayInternal
  <2>2. \/ \E c, o : flow' = Flows(id, c, o)
        \/ \E c : flow' = [flow EXCEPT ![id].in = @ + c]
    BY DEF RepayInternal, Keep
  <2>3. nft' = nft \/ SetRepaid({id})
    BY DEF RepayInternal
  <2>4. SameMoney(x)
    BY <1>2, <2>1, <2>2, <2>3, OthersKeep
  <2>5. UNCHANGED <<position, shares, buyout>>
    BY DEF RepayInternal, claimVars
  <2>6. plan \in [Id -> PlanRecord]
    BY DEF Inv, TypeOK, DealsOk
  <2>7. \E n : plan' = [plan EXCEPT ![id].next = n]
    <3>1. plan' = [plan EXCEPT ![id].next = IF Scheduled(id) THEN plan[id].next + 1 ELSE plan[id].next]
      BY <2>6 DEF RepayInternal
    <3>2. QED
      BY <3>1
  <2>8. plan'[x] = plan[x]
    BY <1>2, <2>6, <2>7
  <2>9. QED
    BY <2>4, <2>5, <2>8 DEF SameClaims
<1>3. QED
  BY <1>1, <1>2, StillIfOpen

LEMMA PartialStill ==
  ASSUME Inv, NEW id \in Id, NEW x \in Id, NEW t \in Token, NEW a, RepayPartial(id, t, a)
  PROVE  Still(x)
<1>1. ~pool[id].closed /\ reserved[id] = 0
  BY DEF RepayPartial, Open, Unreserved
<1>2. UNCHANGED <<position, shares, plan, buyout>> /\ nft' = nft
  BY DEF RepayPartial, claimVars, dealVars
<1>3. \E c, o : flow' = [Flows(id, c, o) EXCEPT ![id].loose = TRUE]
  BY DEF RepayPartial
<1>4. pool \in [Id -> PoolRecord]
  BY DEF Inv, TypeOK, PoolsOk
<1>5. \E p : pool' = [pool EXCEPT ![id] = p]
  <2>1. pool' = [pool EXCEPT ![id] = [pool[id] EXCEPT !.repaid = pool[id].repaid + a]]
    BY <1>4 DEF RepayPartial
  <2>2. QED
    BY <2>1
<1>6. x # id => SameMoney(x)
  BY <1>2, <1>3, <1>5, OthersKeep
<1>7. QED
  BY <1>1, <1>2, <1>6, StillIfOpen DEF SameClaims

LEMMA DefaultStill ==
  ASSUME Inv, NEW id \in Id, NEW x \in Id, NEW t \in Token, MarkDefault(id, t)
  PROVE  Still(x)
<1>1. ~pool[id].closed /\ reserved[id] = 0
  BY DEF MarkDefault, Open, Unreserved
<1>2. UNCHANGED <<position, shares, plan, buyout>> /\ nft' = [nft EXCEPT ![id] = "Defaulted"]
  BY DEF MarkDefault, claimVars, dealVars
<1>3. (\E c, o : flow' = Flows(id, c, o)) \/ flow' = flow
  BY DEF MarkDefault
<1>4. pool \in [Id -> PoolRecord]
  BY DEF Inv, TypeOK, PoolsOk
<1>5. \E p : pool' = [pool EXCEPT ![id] = p]
  <2>1. pool' = [pool EXCEPT ![id] = [pool[id] EXCEPT !.closed = id \in credited]]
    BY <1>4 DEF MarkDefault
  <2>2. QED
    BY <2>1
<1>6. x # id => SameMoney(x)
  BY <1>2, <1>3, <1>5, OthersKeep
<1>7. QED
  BY <1>1, <1>2, <1>6, StillIfOpen DEF SameClaims

LEMMA BuyingOutStill == ASSUME Inv, BuyingOut, NEW x \in Id PROVE Still(x)
<1>1. buyout \in [Id -> BuyoutRecord]
  BY DEF Inv, TypeOK, DealsOk
<1>2. ASSUME NEW id \in Id, NEW a \in Pay, ProposeEarlySettlement(id, a) PROVE Still(x)
  <2>1. UNCHANGED <<pool, flow, nft, position, shares, plan>> /\ reserved[id] = 0
    BY <1>2 DEF ProposeEarlySettlement, Unreserved, claimVars
  <2>2. x # id => buyout'[x] = buyout[x]
    BY <1>1, <1>2 DEF ProposeEarlySettlement
  <2>3. QED
    BY <2>1, <2>2, StillUnpaid DEF SameClaims
<1>3. ASSUME NEW id \in Id, CancelEarlySettlement(id) PROVE Still(x)
  <2>1. UNCHANGED <<pool, flow, nft, position, shares, plan>> /\ reserved[id] = 0
    BY <1>3 DEF CancelEarlySettlement, Unreserved, claimVars
  <2>2. x # id => buyout'[x] = buyout[x]
    BY <1>1, <1>3 DEF CancelEarlySettlement
  <2>3. QED
    BY <2>1, <2>2, StillUnpaid DEF SameClaims
<1>4. ASSUME NEW id \in Id, NEW i \in Investor, AcceptEarlySettlement(id, i) PROVE Still(x)
  <2>1. /\ ~pool[id].closed /\ reserved[id] = 0
        /\ UNCHANGED <<position, shares, plan>>
        /\ \E b : buyout' = [buyout EXCEPT ![id] = b]
    BY <1>4 DEF AcceptEarlySettlement, Open, Unreserved, claimVars
  <2>2. x # id => SameClaims(x)
    BY <1>1, <2>1 DEF SameClaims
  <2>3. \/ /\ \E p : pool' = [pool EXCEPT ![id] = p]
           /\ \E c, o : flow' = Flows(id, c, o)
           /\ SetRepaid({id})
        \/ UNCHANGED <<pool, flow, nft>>
    BY <1>4 DEF AcceptEarlySettlement, moneyVars
  <2>4. x # id => SameMoney(x)
    BY <2>3, OthersKeep DEF SameMoney
  <2>5. QED
    BY <2>1, <2>2, <2>4, StillIfOpen
<1>5. QED
  BY <1>2, <1>3, <1>4 DEF BuyingOut

LEMMA EscrowingStill == ASSUME Inv, Escrowing, NEW x \in Id PROVE Still(x)
<1>1. reserved \in [Id -> Nat]
  BY DEF Inv, TypeOK, DealsOk
<1>2. ASSUME NEW id \in Id, NEW a \in Pay, ReserveEscrow(id, a) PROVE Still(x)
  <2>1. UNCHANGED <<pool, flow, nft>> /\ UNCHANGED <<position, shares, plan, buyout>>
    BY <1>2 DEF ReserveEscrow, claimVars, moneyVars
  <2>2. QED
    BY <2>1, StillUnpaid DEF SameClaims
<1>3. ASSUME NEW id \in Id, ReleaseEscrow(id) PROVE Still(x)
  <2>1. UNCHANGED <<pool, flow, nft>> /\ UNCHANGED <<position, shares, plan, buyout>>
    BY <1>3 DEF ReleaseEscrow, claimVars, moneyVars
  <2>2. QED
    BY <2>1, StillUnpaid DEF SameClaims
<1>4. ASSUME NEW id \in Id, SettleEscrow(id) PROVE Still(x)
  <2>1. ~pool[id].closed /\ reserved'[id] = 0 /\ UNCHANGED <<position, shares, plan, buyout>>
    BY <1>1, <1>4 DEF SettleEscrow, Open, claimVars
  <2>2. \E p : pool' = [pool EXCEPT ![id] = p]
    BY <1>4 DEF SettleEscrow
  <2>3. \/ \E c, o : flow' = Flows(id, c, o)
        \/ \E c : flow' = [flow EXCEPT ![id].in = @ + c]
    BY <1>4 DEF SettleEscrow, Keep
  <2>4. nft' = nft \/ SetRepaid({id})
    BY <1>4 DEF SettleEscrow
  <2>5. x # id => SameMoney(x)
    BY <2>2, <2>3, <2>4, OthersKeep
  <2>6. QED
    BY <2>1, <2>5, StillIfOpen DEF SameClaims
<1>5. QED
  BY <1>2, <1>3, <1>4 DEF Escrowing

(* Netting moves only the invoices it names, which are open and free.      *)
LEMMA NettingStill ==
  ASSUME Inv, NEW ids \in Nettings, NEW t \in Token, NEW a \in Pay, NetSettle(ids, t, a),
         NEW x \in Id
  PROVE  Still(x)
<1> DEFINE alloc == Allocation(ids, a)
           W     == Writes(ids, alloc, x)
           done  == {ids[k] : k \in Closing(ids, alloc)}
<1>1. UNCHANGED <<position, shares, plan, buyout>>
  BY DEF NetSettle, claimVars, dealVars
<1>2. CASE W # {}
  <2>1. PICK k \in DOMAIN ids : ids[k] = x
    BY <1>2 DEF Writes
  <2>2. Open(ids[k]) /\ Unreserved(ids[k])
    BY DEF NetSettle
  <2>3. ~pool[x].closed /\ reserved[x] = 0
    BY <2>1, <2>2 DEF Open, Unreserved
  <2>4. QED
    BY <2>3, StillIfOpen
<1>3. CASE W = {}
  <2>1. pool'[x] = pool[x]
    BY <1>3 DEF NetSettle, AfterNetting
  <2>2. x \notin done
    BY <1>3 DEF Writes, Closing
  <2>3. IF done = {} THEN nft' = nft ELSE SetRepaid(done)
    BY DEF NetSettle
  <2>4. nft'[x] = nft[x]
    <3> HIDE DEF done
    <3>1. QED
      BY <2>2, <2>3 DEF SetRepaid
  <2> DEFINE out == [id \in Id |-> IF id \in done
                                  THEN YieldOut(id, AfterNetting(ids, alloc, id).repaid, cut[id]) ELSE 0]
  <2>5. flow'[x] = [in    |-> flow[x].in + SumOver(alloc, W),
                    out   |-> flow[x].out + out[x],
                    loose |-> flow[x].loose \/ (x \in done /\ ~Sound(x)),
                    twice |-> flow[x].twice \/ Cardinality(W) > 1]
    BY DEF NetSettle
  <2>6. out[x] = 0
    BY <2>2
  <2> HIDE DEF out
  <2>7. SumOver(alloc, W) = 0 /\ Cardinality(W) = 0
    BY <1>3, SumEmpty, FS_EmptySet
  <2>8. flow'[x] = flow[x]
    <3>1. /\ flow[x] = [in |-> flow[x].in, out |-> flow[x].out, loose |-> flow[x].loose,
                        twice |-> flow[x].twice]
          /\ flow[x].in \in Nat /\ flow[x].out \in Nat /\ flow[x].loose \in BOOLEAN
          /\ flow[x].twice \in BOOLEAN
      <4>1. flow[x] \in FlowRecord
        BY FlowTypes
      <4>2. QED
        BY <4>1 DEF FlowRecord
    <3>2. /\ flow[x].in + SumOver(alloc, W) = flow[x].in /\ flow[x].out + out[x] = flow[x].out
          /\ (flow[x].loose \/ (x \in done /\ ~Sound(x))) = flow[x].loose
          /\ (flow[x].twice \/ Cardinality(W) > 1) = flow[x].twice
      <4> HIDE DEF done, W
      <4>1. QED
        BY <2>2, <2>6, <2>7, <3>1
    <3> HIDE DEF W, done
    <3>3. QED
      BY <2>5, <3>1, <3>2
  <2>9. QED
    BY <1>1, <2>1, <2>4, <2>8 DEF Still
<1>4. QED
  BY <1>2, <1>3

LEMMA RepayingStill == ASSUME Inv, Repaying, NEW x \in Id PROVE Still(x)
<1>1. ASSUME NEW id \in Id, NEW t \in Token, NEW a \in Pay, Repay(id, t, a) PROVE Still(x)
  BY <1>1, RepaidStill DEF Repay
<1>2. ASSUME NEW ids \in Nettings, NEW t \in Token, NEW a \in Pay, NetSettle(ids, t, a) PROVE Still(x)
  BY <1>2, NettingStill
<1>3. ASSUME NEW id \in Id, NEW p \in Plans, SetInstallmentSchedule(id, p) PROVE Still(x)
  <2>1. UNCHANGED <<pool, flow, nft, position, shares, buyout>> /\ reserved[id] = 0
    BY <1>3 DEF SetInstallmentSchedule, Unreserved, claimVars, moneyVars
  <2>2. plan \in [Id -> PlanRecord]
    BY DEF Inv, TypeOK, DealsOk
  <2>3. x # id => plan'[x] = plan[x]
    BY <1>3, <2>2 DEF SetInstallmentSchedule
  <2>4. QED
    BY <2>1, <2>3, StillUnpaid DEF SameClaims
<1>4. ASSUME NEW id \in Id, NEW t \in Token, MarkDefault(id, t) PROVE Still(x)
  BY <1>4, DefaultStill
<1>5. QED
  BY <1>1, <1>2, <1>3, <1>4 DEF Repaying

LEMMA ApprovingStill == ASSUME Inv, Approving, NEW x \in Id PROVE Still(x)
<1>1. ASSUME NEW id \in Id, NEW a \in Pay, ProposeRepayment(id, a) PROVE Still(x)
  BY <1>1, StillUnpaid DEF ProposeRepayment, claimVars, moneyVars, SameClaims
<1>2. ASSUME NEW id \in Id, NEW i \in Investor, ApproveRepayment(id, i) PROVE Still(x)
  BY <1>2, StillUnpaid DEF ApproveRepayment, claimVars, moneyVars, SameClaims
<1>3. ASSUME NEW id \in Id, NEW t \in Token, ExecuteRepayment(id, t) PROVE Still(x)
  BY <1>3, RepaidStill DEF ExecuteRepayment
<1>4. QED
  BY <1>1, <1>2, <1>3 DEF Approving

LEMMA SurroundingsStill ==
  ASSUME UNCHANGED claimVars, UNCHANGED moneyVars, UNCHANGED dealVars, NEW x PROVE Still(x)
BY DEF Still, claimVars, moneyVars, dealVars

LEMMA StepStill == ASSUME Inv, [Next]_vars, NEW x \in Id PROVE Still(x)
<1>1. CASE Opening
  BY <1>1, OpeningStill
<1>2. CASE Trading
  BY <1>2, TradingStill
<1>3. CASE Repaying
  BY <1>3, RepayingStill
<1>4. CASE RepayingPartly
  BY <1>4, PartialStill DEF RepayingPartly
<1>5. CASE Approving
  BY <1>5, ApprovingStill
<1>6. CASE BuyingOut
  BY <1>6, BuyingOutStill
<1>7. CASE Escrowing
  BY <1>7, EscrowingStill
<1>8. CASE Surroundings
  <2>1. UNCHANGED claimVars /\ UNCHANGED moneyVars /\ UNCHANGED dealVars
    BY <1>8 DEF Surroundings, SetMaxPositionBps, SetLatePenaltySplit, SetLatePenaltyBps, Configure,
                TogglePause, ToggleFreeze, ToggleDispute, Environment
  <2>2. QED
    BY <2>1, SurroundingsStill
<1>9. CASE Tick
  BY <1>9, SurroundingsStill DEF Tick
<1>10. CASE UNCHANGED vars
  BY <1>10, SurroundingsStill DEF vars
<1>11. QED
  BY <1>1, <1>2, <1>3, <1>4, <1>5, <1>6, <1>7, <1>8, <1>9, <1>10 DEF Next

(* No entry point called late touches a closed pool or its invoice, and    *)
(* while reserve_escrow holds a pool none moves its debt or its claims     *)
(* (lib.rs:293).                                                           *)
THEOREM SettledStandsStill == Spec => StandsStill
<1> DEFINE Step == \A id \in Id :
             /\ pool[id].closed \/ (reserved[id] > 0 /\ reserved'[id] > 0) =>
                  pool'[id] = pool[id] /\ flow'[id] = flow[id] /\ nft'[id] = nft[id]
             /\ reserved[id] > 0 /\ reserved'[id] > 0 =>
                  /\ position'[id] = position[id] /\ shares'[id] = shares[id]
                  /\ plan'[id] = plan[id] /\ buyout'[id] = buyout[id]
<1>1. Inv /\ [Next]_vars => [Step]_vars
  BY StepStill DEF Still
<1>2. [][Step]_vars => StandsStill
  BY PTL DEF StandsStill
<1>3. QED
  BY <1>1, <1>2, InvAlways, PTL DEF Spec

===============================================================================

----------------------------- MODULE FinancingPool -----------------------------
(***************************************************************************)
(* contracts/financing_pool: the pool opened for a funded invoice, the     *)
(* investors' positions in it and their trade, the ways it is repaid       *)
(* (lump sum, installments, partial, netting, approved high-value payment, *)
(* buyout, settled escrow), default, and distribute_yield, which pays the  *)
(* investors out of the one balance the contract holds of each token.      *)
(*                                                                         *)
(* A call that fails is rolled back by the host, so an action is a call    *)
(* that succeeds, and RepaymentLock, set and removed inside one call, is   *)
(* never seen set between two calls.                                       *)
(*                                                                         *)
(* The escrow callbacks are those of lib.rs:209-401, the only one of the   *)
(* three copies in the file that writes EscrowCredited, the key the rest   *)
(* of the contract reads.                                                  *)
(***************************************************************************)
EXTENDS Integers, FiniteSets, Sequences, Sums

CONSTANTS
  Id,           \* invoices
  Investor,     \* addresses that hold and trade positions, and approve
  Token,        \* token contracts
  NoToken,      \* no token: there is no pool
  Face,         \* face value of each invoice
  Due,          \* due date of each invoice
  Funding,      \* capital the marketplace has moved here for each invoice
  Rate,         \* price_oracle: pool-currency units per unit repaid
  Grace,        \* GracePeriod
  Threshold,    \* REPAYMENT_APPROVAL_THRESHOLD
  MaxPositions, \* MAX_POSITIONS_PER_POOL
  MaxShares,    \* bound: shares split off one position
  MaxAggregate, \* bound: AggregateFunded that record_position may reach
  MaxTime,      \* bound: ledger timestamps 0..MaxTime
  Pay,          \* amounts a payer, a proposer or a splitter may choose
  Totals,       \* values of record_position's total_pool
  Plans,        \* installment schedules an admin may propose
  Nettings,     \* lists of invoices an SME may net
  Penalties,    \* late penalties in basis points
  Splits,       \* treasury splits of the late penalty
  Caps          \* caps on one investor's share

Time == 0..MaxTime
Bps  == 0..10000

(* The share of a pool's stakes that settles a buyout.                     *)
Unanimity == 10000

ASSUME FinitelyMany == IsFiniteSet(Id) /\ IsFiniteSet(Investor)
ASSUME InvoicesOk   == Face \in [Id -> Nat \ {0}] /\ Due \in [Id -> Time] /\ Funding \in [Id -> Nat]
ASSUME RatesOk      == Rate \in [Id -> Nat \ {0}]
ASSUME TokensOk     == NoToken \notin Token
ASSUME LimitsOk     == /\ Grace \in Nat /\ Threshold \in Nat \ {0} /\ MaxTime \in Nat
                       /\ MaxPositions \in Nat /\ MaxShares \in Nat /\ MaxAggregate \in Nat
ASSUME AmountsOk    == Pay \subseteq Nat \ {0} /\ Totals \subseteq Nat \ {0}
ASSUME PlansOk      == Plans \subseteq Seq([amount : Nat, due : Time])
ASSUME NettingsOk   == Nettings \subseteq Seq(Id)
ASSUME SettingsFit  == Penalties \subseteq Bps /\ Splits \subseteq Bps /\ Caps \subseteq Bps \ {0}

VARIABLES
  pool,      \* Pool(id); token NoToken where the key is absent
  position,  \* Positions(id); contributed 0 where an investor has none
  shares,    \* PositionShares(id, original investor), by share index
  sale,      \* SaleOffer(id, seller)
  shareSale, \* ShareSaleOffer(id, original investor, index), with its seller
  approval,  \* RepaymentApproval(id); amount 0 where the key is absent
  buyout,    \* EarlySettlement(id); amount 0 where the key is absent
  plan,      \* InstallmentSchedule(id); no parts where the key is absent
  reserved,  \* EscrowPending(id); 0 where the key is absent
  credited,  \* ids with EscrowCredited
  cut,       \* PenaltyTreasuryCut(id)
  aggregate, \* AggregateFunded(token)
  stats,     \* ProtocolStats
  balance,   \* token balance of this contract
  flow,      \* history per invoice (see NoFlow)
  nft,       \* invoice_nft: status of the invoice
  settings,  \* late penalty, its treasury split, position cap
  gate,      \* access_control pause, frozen invoices, open disputes
  now

claimVars == <<position, shares, sale, shareSale>>
moneyVars == <<pool, cut, aggregate, stats, balance, flow, nft>>
dealVars  == <<approval, buyout, plan, reserved, credited>>
envVars   == <<settings, gate, now>>
vars == <<claimVars, moneyVars, dealVars, envVars>>

-------------------------------------------------------------------------------
NoPool == [token |-> NoToken, face |-> 0, repaid |-> 0, owed |-> 0, rate |-> 0,
           penalized |-> FALSE, closed |-> FALSE]
NoPosition == [contributed |-> 0, bps |-> 0]
NoApproval == [amount |-> 0, by |-> {}, executed |-> FALSE]
NoBuyout   == [amount |-> 0, bps |-> 0, accepted |-> {}]
NoPlan     == [parts |-> <<>>, next |-> 1]

(* Received and paid out on account of the invoice; whether some payment   *)
(* was shared out when the stakes did not add up to the pool, or by        *)
(* repay_partial; whether one netting named the invoice twice.             *)
NoFlow == [in |-> 0, out |-> 0, loose |-> FALSE, twice |-> FALSE]

OpenPool(id, t, rate) ==
  [token |-> t, face |-> Face[id], repaid |-> 0, owed |-> Face[id], rate |-> rate,
   penalized |-> FALSE, closed |-> FALSE]

NoPositions == [i \in Investor |-> NoPosition]

(* The pools of the given ids open in token t, with the given positions,   *)
(* and nothing repaid: what release_funds and record_position lead to.     *)
InitWith(open, t, stakes) ==
  /\ settings \in [penalty : Penalties, split : Splits, cap : Caps]
  /\ pool = [id \in Id |-> IF id \in open THEN OpenPool(id, t, settings.penalty) ELSE NoPool]
  /\ position = [id \in Id |-> IF id \in open THEN stakes ELSE NoPositions]
  /\ shares = [id \in Id |-> [i \in Investor |-> <<>>]]
  /\ sale = {} /\ shareSale = {}
  /\ approval = [id \in Id |-> NoApproval] /\ buyout = [id \in Id |-> NoBuyout]
  /\ plan = [id \in Id |-> NoPlan]
  /\ reserved = [id \in Id |-> 0] /\ credited = {}
  /\ cut = [id \in Id |-> 0]
  /\ aggregate = [u \in Token |-> IF u # t THEN 0 ELSE Cardinality(open) *
                    SumOver([i \in Investor |-> stakes[i].contributed], Investor)]
  /\ balance = [u \in Token |-> IF u # t THEN 0 ELSE SumOver(Funding, open)]
  /\ stats = [opened |-> Cardinality(open), active |-> Cardinality(open),
              repaid |-> 0, defaulted |-> 0]
  /\ flow = [id \in Id |-> NoFlow]
  /\ nft = [id \in Id |-> IF id \in open THEN "Funded" ELSE "Listed"]
  /\ gate = [paused |-> FALSE, frozen |-> {}, disputed |-> {}]
  /\ now = 0

(* initialize, with the parameters as the registry has them.               *)
Init == InitWith({}, NoToken, NoPositions)

Exists(id) == pool[id].token # NoToken
Open(id)   == Exists(id) /\ ~pool[id].closed
Holds(id, i) == position[id][i].contributed > 0
Holders(id) == {i \in Investor : Holds(id, i)}
(* Mutant: require_no_escrow is not called.                                *)
UnreservedAny(id) == TRUE
Unreserved(id) == reserved[id] = 0          \* require_no_escrow
Uncredited(id) == id \notin credited        \* require_no_escrow_credit
Remaining(id) == pool[id].owed - pool[id].repaid

BpsOf(amount, bps) == (amount * bps) \div 10000

(* u32 saturating_sub.                                                     *)
Less(n, k) == IF n > k THEN n - k ELSE 0

Booked(amount, closes) ==
  [stats EXCEPT !.repaid = @ + amount, !.active = IF closes THEN Less(@, 1) ELSE @]

-------------------------------------------------------------------------------
(* distribute_yield.                                                       *)

(* The payout of position i when investors share total, and what of it     *)
(* each share split off gets: each share is paid on its own, the investor  *)
(* gets what is left, if anything.                                         *)
Payout(id, i, total) == BpsOf(total, position[id][i].bps)

ShareOuts(id, i, total) ==
  [k \in DOMAIN shares[id][i] |->
     (shares[id][i][k].amount * Payout(id, i, total)) \div position[id][i].contributed]

PositionOut(id, i, total) ==
  LET toShares == SumOver(ShareOuts(id, i, total), DOMAIN shares[id][i])
  IN  IF toShares > Payout(id, i, total) THEN toShares ELSE Payout(id, i, total)

InvestorsOut(id, total) ==
  SumOver([i \in Holders(id) |-> PositionOut(id, i, total)], Holders(id))

Contributed(id) == SumOver([i \in Investor |-> position[id][i].contributed], Investor)
TotalBps(id)    == SumOver([i \in Investor |-> position[id][i].bps], Investor)

(* bps_of_normalized refuses the negative amount left when the treasury's  *)
(* cut exceeds what is distributed.                                        *)
Distributable(id, total, treasuryCut) == total >= treasuryCut \/ Holders(id) = {}

(* Mutant: the investors share the treasury's cut as well.                 *)
YieldOutGross(id, total, treasuryCut) == treasuryCut + InvestorsOut(id, total)

YieldOut(id, total, treasuryCut) == treasuryCut + InvestorsOut(id, total - treasuryCut)

(* distribute_yield(id, t, total) once arriving has come in for a debt.    *)
DistributeYield(id, t, total, treasuryCut, arriving) ==
  LET out == YieldOut(id, total, treasuryCut)
  IN  /\ Distributable(id, total, treasuryCut)
      /\ out <= balance[t] + arriving
      /\ balance' = [balance EXCEPT ![t] = @ + arriving - out]
      /\ aggregate' = [aggregate EXCEPT ![t] = @ - Contributed(id)]
      /\ cut' = [cut EXCEPT ![id] = 0]

(* The stakes add up: somebody holds one, they come to at most the pool,   *)
(* and the shares split off a position come to at most the position.       *)
SplitOff(id, i) ==
  SumOver([k \in DOMAIN shares[id][i] |-> shares[id][i][k].amount], DOMAIN shares[id][i])
WithinStake(id, i) == SplitOff(id, i) <= position[id][i].contributed
Sound(id) == /\ Holders(id) # {} /\ TotalBps(id) <= 10000
             /\ \A i \in Holders(id) : WithinStake(id, i)

(* History: credit came in for the invoice, out was shared out for it.     *)
Flows(id, credit, out) ==
  [flow EXCEPT ![id] = [in |-> flow[id].in + credit, out |-> flow[id].out + out,
                        loose |-> flow[id].loose \/ ~Sound(id), twice |-> flow[id].twice]]

(* A repayment that is only taken in.                                      *)
Keep(id, t, treasuryCut, arriving) ==
  /\ balance' = [balance EXCEPT ![t] = @ + arriving]
  /\ cut' = [cut EXCEPT ![id] = treasuryCut]
  /\ flow' = [flow EXCEPT ![id].in = @ + arriving]
  /\ UNCHANGED aggregate

(* Mutant: of several invoices only one is marked.                         *)
SetRepaidOne(ids) ==
  /\ ~gate.paused
  /\ \A id \in ids : nft[id] = "Funded"
  /\ nft' = [nft EXCEPT ![CHOOSE id \in ids : TRUE] = "Repaid"]

(* invoice_nft.set_repaid, which is refused while the protocol is paused.  *)
SetRepaid(ids) ==
  /\ ~gate.paused
  /\ \A id \in ids : nft[id] = "Funded"
  /\ nft' = [id \in Id |-> IF id \in ids THEN "Repaid" ELSE nft[id]]

-------------------------------------------------------------------------------
(* Opening a pool and recording its investors.                             *)

(* release_funds, called by the marketplace once it has moved the capital  *)
(* here: nothing is paid to the SME.                                       *)
ReleaseFunds(id, t) ==
  /\ ~gate.paused
  /\ ~Exists(id)
  /\ nft[id] = "Listed"
  /\ pool' = [pool EXCEPT ![id] = OpenPool(id, t, settings.penalty)]
  /\ stats' = [stats EXCEPT !.opened = @ + 1, !.active = @ + 1]
  /\ nft' = [nft EXCEPT ![id] = "Funded"]
  /\ balance' = [balance EXCEPT ![t] = @ + Funding[id]]
  /\ UNCHANGED <<claimVars, dealVars, envVars, cut, aggregate, flow>>

ShareBps(amount, total) == (amount * 10000) \div total

(* The concentration cap and MAX_POSITIONS_PER_POOL.                       *)
PositionAllowed(id, i, amount, total) ==
  /\ amount <= total /\ ShareBps(amount, total) <= settings.cap
  /\ Holds(id, i) \/ Cardinality(Holders(id)) < MaxPositions

(* record_position overwrites; the pool need not be open.                  *)
RecordPosition(id, i, amount, total) ==
  LET bps == ShareBps(amount, total)
      t   == pool[id].token
  IN  /\ Uncredited(id) /\ Unreserved(id)
      /\ ~gate.paused /\ id \notin gate.frozen
      /\ PositionAllowed(id, i, amount, total)
      /\ Exists(id)
      /\ aggregate[t] - position[id][i].contributed + amount <= MaxAggregate
      /\ position' = [position EXCEPT ![id][i] = [contributed |-> amount, bps |-> bps]]
      /\ aggregate' = [aggregate EXCEPT ![t] = @ - position[id][i].contributed + amount]
      /\ UNCHANGED <<shares, sale, shareSale, pool, cut, stats, balance, flow, nft,
                     dealVars, envVars>>

-------------------------------------------------------------------------------
(* Trading positions and shares of them. Prices go from buyer to seller and*)
(* touch no balance here.                                                  *)

Tradable(id) == Unreserved(id) /\ ~gate.paused /\ Open(id)

(* split_position leaves the position's contributed amount as it is.       *)
SplitPosition(id, i, amount) ==
  /\ Tradable(id)
  /\ Holds(id, i) /\ amount <= position[id][i].contributed
  /\ Len(shares[id][i]) < MaxShares
  /\ shares' = [shares EXCEPT ![id][i] = Append(@, [amount |-> amount, owner |-> i])]
  /\ UNCHANGED <<position, sale, shareSale, moneyVars, dealVars, envVars>>

TransferShare(id, i, k, to) ==
  /\ Tradable(id)
  /\ k \in DOMAIN shares[id][i]
  /\ shares' = [shares EXCEPT ![id][i][k].owner = to]
  /\ UNCHANGED <<position, sale, shareSale, moneyVars, dealVars, envVars>>

(* Sellers who accepted a pending buyout are refused.                      *)
ListShareForSale(id, i, k) ==
  /\ Tradable(id)
  /\ k \in DOMAIN shares[id][i]
  /\ shares[id][i][k].owner \notin buyout[id].accepted
  /\ \A o \in shareSale : <<o.id, o.of, o.index>> # <<id, i, k>>
  /\ shareSale' = shareSale \union
       {[id |-> id, of |-> i, index |-> k, seller |-> shares[id][i][k].owner]}
  /\ UNCHANGED <<position, shares, sale, moneyVars, dealVars, envVars>>

(* buy_share pays the offer's seller, whoever owns the share by then.      *)
BuyShare(buyer, o) ==
  /\ Tradable(o.id)
  /\ o \in shareSale
  /\ shareSale' = shareSale \ {o}
  /\ shares' = [shares EXCEPT ![o.id][o.of][o.index].owner = buyer]
  /\ UNCHANGED <<position, sale, moneyVars, dealVars, envVars>>

ListPositionForSale(id, i) ==
  /\ Tradable(id)
  /\ Holds(id, i)
  /\ <<id, i>> \notin sale
  /\ sale' = sale \union {<<id, i>>}
  /\ UNCHANGED <<position, shares, shareSale, moneyVars, dealVars, envVars>>

(* Mutant: the seller keeps the position it sold.                          *)
MovePositionKeep(id, from, to) ==
  position' = [position EXCEPT ![id][to] = position[id][from]]

(* The position is removed from one key and set under another, where it    *)
(* replaces what that key held. Shares split off stay with the old key.    *)
MovePosition(id, from, to) ==
  position' = [position EXCEPT ![id] =
    [[position[id] EXCEPT ![from] = NoPosition] EXCEPT ![to] = position[id][from]]]

BuyPosition(id, seller, buyer) ==
  /\ Tradable(id)
  /\ <<id, seller>> \in sale /\ Holds(id, seller)
  /\ sale' = sale \ {<<id, seller>>}
  /\ MovePosition(id, seller, buyer)
  /\ UNCHANGED <<shares, shareSale, moneyVars, dealVars, envVars>>

(* An offer the old holder made stays in place.                            *)
TransferPosition(id, from, to) ==
  /\ Tradable(id)
  /\ from # to /\ Holds(id, from)
  /\ MovePosition(id, from, to)
  /\ UNCHANGED <<shares, sale, shareSale, moneyVars, dealVars, envVars>>

-------------------------------------------------------------------------------
(* Repayment.                                                              *)

(* repay_partial distributes everything repaid so far, never closes the    *)
(* pool, and reads neither the pause nor the freeze.                       *)
RepayPartial(id, t, amount) ==
  LET repaid == pool[id].repaid + amount
  IN  /\ Uncredited(id) /\ Unreserved(id)
      /\ Open(id)
      /\ repaid <= pool[id].owed
      /\ pool' = [pool EXCEPT ![id].repaid = repaid]
      /\ stats' = Booked(amount, FALSE)
      /\ DistributeYield(id, t, repaid, cut[id], amount)
      /\ flow' = [Flows(id, amount, YieldOut(id, repaid, cut[id])) EXCEPT ![id].loose = TRUE]
      /\ UNCHANGED <<claimVars, dealVars, envVars, nft>>

Scheduled(id) == plan[id].parts # <<>>
Installment(id) == plan[id].parts[plan[id].next]

(* Every installment but the last is paid exactly, the last at least.      *)
InstallmentFits(id, amount) ==
  \/ ~Scheduled(id)
  \/ /\ plan[id].next <= Len(plan[id].parts)
     /\ IF plan[id].next = Len(plan[id].parts)
          THEN amount >= Installment(id).amount
          ELSE amount = Installment(id).amount

Overdue(id) == now > (IF Scheduled(id) THEN Installment(id).due ELSE Due[id])

(* The one-time late penalty at the rate now in force.                     *)
LatePenalty(id) ==
  IF ~pool[id].penalized /\ settings.penalty > 0 /\ Overdue(id)
    THEN BpsOf(pool[id].face, settings.penalty)
    ELSE 0

(* Part of the penalty goes to the treasury when yield is distributed, the *)
(* rest is added to what is owed.                                          *)
RepayInternal(id, t, amount) ==
  LET effective == amount * Rate[id]
      late    == ~pool[id].penalized /\ settings.penalty > 0 /\ Overdue(id)
      penalty == LatePenalty(id)
      toTreasury == BpsOf(penalty, settings.split)
      owed    == pool[id].owed + penalty - toTreasury
      repaid  == pool[id].repaid + effective
      closes  == repaid >= owed
      held    == cut[id] + toTreasury
  IN  /\ Unreserved(id) /\ id \notin gate.frozen
      /\ Open(id)
      /\ InstallmentFits(id, effective)
      /\ pool' = [pool EXCEPT ![id] = [pool[id] EXCEPT
                     !.repaid = repaid, !.owed = owed, !.penalized = @ \/ late, !.closed = closes]]
      /\ plan' = [plan EXCEPT ![id].next = IF Scheduled(id) THEN @ + 1 ELSE @]
      /\ stats' = Booked(effective, closes)
      /\ \/ /\ closes
            /\ DistributeYield(id, t, repaid, held, amount)
            /\ flow' = Flows(id, amount, YieldOut(id, repaid, held))
            /\ SetRepaid({id})
         \/ /\ ~closes
            /\ Keep(id, t, held, amount)
            /\ UNCHANGED nft
      /\ UNCHANGED <<claimVars, buyout, reserved, credited, envVars>>

(* From the threshold on some approval of this invoice must have executed. *)
Repay(id, t, amount) ==
  /\ amount >= Threshold => approval[id].executed
  /\ RepayInternal(id, t, amount)
  /\ UNCHANGED approval

ProposeRepayment(id, amount) ==
  /\ amount >= Threshold
  /\ Open(id)
  /\ approval[id] = NoApproval
  /\ approval' = [approval EXCEPT ![id].amount = amount]
  /\ UNCHANGED <<claimVars, moneyVars, buyout, plan, reserved, credited, envVars>>

(* Any address may approve, once.                                          *)
ApproveRepayment(id, i) ==
  /\ Open(id)
  /\ approval[id].amount > 0 /\ ~approval[id].executed
  /\ i \notin approval[id].by
  /\ approval' = [approval EXCEPT ![id].by = @ \union {i}]
  /\ UNCHANGED <<claimVars, moneyVars, buyout, plan, reserved, credited, envVars>>

ExecuteRepayment(id, t) ==
  /\ ~approval[id].executed /\ Cardinality(approval[id].by) >= 2
  /\ approval' = [approval EXCEPT ![id].executed = TRUE]
  /\ RepayInternal(id, t, approval[id].amount)

(* A schedule may be replaced until repayment starts.                      *)
SetInstallmentSchedule(id, parts) ==
  /\ Uncredited(id) /\ Unreserved(id) /\ ~gate.paused
  /\ Open(id) /\ pool[id].repaid = 0
  /\ parts # <<>>
  /\ \A k \in DOMAIN parts : parts[k].amount > 0
  /\ \A k \in 2..Len(parts) : parts[k - 1].due <= parts[k].due
  /\ SumOver([k \in DOMAIN parts |-> parts[k].amount], DOMAIN parts) = pool[id].owed
  /\ plan' = [plan EXCEPT ![id] = [parts |-> parts, next |-> 1]]
  /\ UNCHANGED <<claimVars, moneyVars, approval, buyout, reserved, credited, envVars>>

-------------------------------------------------------------------------------
(* Netting several invoices of one SME with one payment.                   *)

NetRemaining(id) == IF Remaining(id) > 0 THEN Remaining(id) ELSE 0

(* Proportional to the remaining debts, the rounding remainder to the first.*)
Allocation(ids, amount) ==
  LET debts == [k \in DOMAIN ids |-> NetRemaining(ids[k])]
      base  == [k \in DOMAIN ids |-> (amount * debts[k]) \div SumOver(debts, DOMAIN ids)]
  IN  [base EXCEPT ![1] = base[1] + (amount - SumOver(base, DOMAIN ids))]

(* The pool as read before the loop, with one allocation applied. Here the *)
(* penalty is the pool's own rate and the treasury has no part of it.      *)
Netted(id, amount) ==
  LET p == pool[id]
      late == ~p.penalized /\ p.rate > 0 /\ now > Due[id]
      owed == IF late THEN p.owed + BpsOf(p.face, p.rate) ELSE p.owed
  IN  [p EXCEPT !.owed = owed, !.penalized = @ \/ late, !.repaid = @ + amount,
                !.closed = p.repaid + amount >= owed]

(* The closing pools, one entry for each time the loop closes one.         *)
Closing(ids, alloc) == {k \in DOMAIN ids : alloc[k] > 0 /\ Netted(ids[k], alloc[k]).closed}

(* The turns of the loop that write the pool of id: the last one stays.    *)
Writes(ids, alloc, id) == {k \in DOMAIN ids : ids[k] = id /\ alloc[k] > 0}

AfterNetting(ids, alloc, id) ==
  LET turns == Writes(ids, alloc, id)
  IN  IF turns = {} THEN pool[id] ELSE Netted(id, alloc[Max(turns)])

(* Nothing refuses a list that names an invoice twice, unless it closes    *)
(* twice: set_repaid fails then.                                           *)
NetSettle(ids, t, amount) ==
  LET alloc  == Allocation(ids, amount)
      after  == [id \in Id |-> AfterNetting(ids, alloc, id)]
      done   == {ids[k] : k \in Closing(ids, alloc)}
      out    == [id \in Id |-> IF id \in done THEN YieldOut(id, after[id].repaid, cut[id]) ELSE 0]
      given  == [id \in Id |-> IF id \in done THEN Contributed(id) ELSE 0]
      booked == [id \in Id |-> IF id \in done THEN after[id].repaid ELSE 0]
  IN  /\ ~gate.paused /\ Len(ids) >= 2
      /\ \A k \in DOMAIN ids :
           /\ Uncredited(ids[k]) /\ Unreserved(ids[k]) /\ ids[k] \notin gate.frozen
           /\ Open(ids[k]) /\ pool[ids[k]].token = t
      /\ \E k \in DOMAIN ids : NetRemaining(ids[k]) > 0
      /\ Cardinality(Closing(ids, alloc)) = Cardinality(done)
      /\ \A id \in done : Distributable(id, after[id].repaid, cut[id])
      /\ SumOver(out, Id) <= balance[t] + amount
      /\ pool' = after
      /\ balance' = [balance EXCEPT ![t] = @ + amount - SumOver(out, Id)]
      /\ aggregate' = [aggregate EXCEPT ![t] = @ - SumOver(given, Id)]
      /\ cut' = [id \in Id |-> IF id \in done THEN 0 ELSE cut[id]]
      /\ flow' = [id \in Id |->
           [in    |-> flow[id].in + SumOver(alloc, Writes(ids, alloc, id)),
            out   |-> flow[id].out + out[id],
            loose |-> flow[id].loose \/ (id \in done /\ ~Sound(id)),
            twice |-> flow[id].twice \/ Cardinality(Writes(ids, alloc, id)) > 1]]
      /\ stats' = [stats EXCEPT !.repaid = @ + SumOver(booked, Id),
                                !.active = Less(@, Cardinality(done))]
      /\ IF done = {} THEN UNCHANGED nft ELSE SetRepaid(done)
      /\ UNCHANGED <<claimVars, dealVars, envVars>>

-------------------------------------------------------------------------------
(* Default, buyout, escrow.                                                *)

(* mark_default: the pool stays open unless it holds an escrow credit; the *)
(* risk registry is told on a best-effort basis.                           *)
MarkDefault(id, t) ==
  /\ ~gate.paused
  /\ Unreserved(id)
  /\ Open(id)
  /\ now >= Due[id] + Grace
  /\ id \notin gate.disputed
  /\ nft[id] = "Funded" /\ now > Due[id]
  /\ pool' = [pool EXCEPT ![id].closed = id \in credited]
  /\ IF pool[id].repaid > 0
       THEN /\ DistributeYield(id, t, pool[id].repaid, cut[id], 0)
            /\ flow' = Flows(id, 0, YieldOut(id, pool[id].repaid, cut[id]))
       ELSE UNCHANGED <<balance, aggregate, cut, flow>>
  /\ nft' = [nft EXCEPT ![id] = "Defaulted"]
  /\ stats' = [stats EXCEPT !.defaulted = @ + 1, !.active = Less(@, 1)]
  /\ UNCHANGED <<claimVars, dealVars, envVars>>

(* The SME escrows a discount here. total_funded is 0 in every pool, so any*)
(* amount below the debt will do.                                          *)
ProposeEarlySettlement(id, amount) ==
  /\ Uncredited(id) /\ Unreserved(id) /\ ~gate.paused
  /\ Open(id) /\ amount < pool[id].owed
  /\ buyout[id] = NoBuyout
  /\ buyout' = [buyout EXCEPT ![id].amount = amount]
  /\ balance' = [balance EXCEPT ![pool[id].token] = @ + amount]
  /\ UNCHANGED <<claimVars, pool, cut, aggregate, stats, flow, nft,
                 approval, plan, reserved, credited, envVars>>

(* The acceptance that completes 100% settles: what was repaid before is   *)
(* overwritten by the buyout amount.                                       *)
AcceptEarlySettlement(id, i) ==
  LET o   == buyout[id]
      bps == o.bps + position[id][i].bps
  IN  /\ Unreserved(id) /\ ~gate.paused
      /\ o.amount > 0 /\ Open(id)
      /\ Holds(id, i) /\ i \notin o.accepted
      /\ \/ /\ bps >= Unanimity
            /\ pool' = [pool EXCEPT ![id] = [pool[id] EXCEPT !.repaid = o.amount, !.closed = TRUE]]
            /\ DistributeYield(id, pool[id].token, o.amount, cut[id], 0)
            /\ flow' = Flows(id, o.amount, YieldOut(id, o.amount, cut[id]))
            /\ SetRepaid({id})
            /\ stats' = Booked(o.amount, TRUE)
            /\ buyout' = [buyout EXCEPT ![id] = NoBuyout]
         \/ /\ bps < Unanimity
            /\ buyout' = [buyout EXCEPT ![id] = [amount |-> o.amount, bps |-> bps,
                                                  accepted |-> o.accepted \union {i}]]
            /\ UNCHANGED moneyVars
      /\ UNCHANGED <<claimVars, approval, plan, reserved, credited, envVars>>

(* The SME takes its escrow back, whatever has become of the pool.         *)
CancelEarlySettlement(id) ==
  LET t == pool[id].token
  IN  /\ Unreserved(id)
      /\ buyout[id].amount > 0 /\ buyout[id].amount <= balance[t]
      /\ buyout' = [buyout EXCEPT ![id] = NoBuyout]
      /\ balance' = [balance EXCEPT ![t] = @ - buyout[id].amount]
      /\ UNCHANGED <<claimVars, pool, cut, aggregate, stats, flow, nft,
                     approval, plan, reserved, credited, envVars>>

(* escrow_terms: only fresh lump-sum debt may be escrowed.                 *)
EscrowTerms(id) ==
  /\ Unreserved(id) /\ Open(id)
  /\ pool[id].repaid = 0 /\ pool[id].rate = 0
  /\ ~Scheduled(id) /\ buyout[id] = NoBuyout
  /\ Remaining(id) > 0 /\ Remaining(id) < Threshold
  /\ nft[id] = "Funded" /\ id \notin gate.frozen /\ Rate[id] = 1

(* dispute_escrow holds the payment itself.                                *)
ReserveEscrow(id, amount) ==
  /\ ~gate.paused
  /\ EscrowTerms(id) /\ amount <= Remaining(id)
  /\ reserved' = [reserved EXCEPT ![id] = amount]
  /\ UNCHANGED <<claimVars, moneyVars, approval, buyout, plan, credited, envVars>>

(* settle_escrow after dispute_escrow refunded its payer.                  *)
ReleaseEscrow(id) ==
  /\ reserved[id] > 0
  /\ reserved' = [reserved EXCEPT ![id] = 0]
  /\ UNCHANGED <<claimVars, moneyVars, approval, buyout, plan, credited, envVars>>

(* settle_escrow after dispute_escrow moved the reserved amount here.      *)
SettleEscrow(id) ==
  LET t == pool[id].token
      repaid == pool[id].repaid + reserved[id]
      closes == repaid = pool[id].owed
  IN  /\ reserved[id] > 0
      /\ Open(id) /\ nft[id] = "Funded" /\ id \notin gate.frozen
      /\ repaid <= pool[id].owed
      /\ pool' = [pool EXCEPT ![id] = [pool[id] EXCEPT !.repaid = repaid, !.closed = closes]]
      /\ credited' = credited \union {id}
      /\ reserved' = [reserved EXCEPT ![id] = 0]
      /\ stats' = Booked(reserved[id], closes)
      /\ \/ /\ closes
            /\ DistributeYield(id, t, repaid, cut[id], reserved[id])
            /\ flow' = Flows(id, reserved[id], YieldOut(id, repaid, cut[id]))
            /\ SetRepaid({id})
         \/ /\ ~closes
            /\ Keep(id, t, cut[id], reserved[id])
            /\ UNCHANGED nft
      /\ UNCHANGED <<claimVars, approval, buyout, plan, envVars>>

-------------------------------------------------------------------------------
(* Parameters (here or in parameter_registry), other contracts, time.      *)

Configure(new) ==
  /\ settings' = new
  /\ UNCHANGED <<claimVars, moneyVars, dealVars, gate, now>>

SetMaxPositionBps(c)   == Configure([settings EXCEPT !.cap = c])
SetLatePenaltySplit(b) == Configure([settings EXCEPT !.split = b])
SetLatePenaltyBps(b)   == Configure([settings EXCEPT !.penalty = b])

Environment(new) ==
  /\ gate' = new
  /\ UNCHANGED <<claimVars, moneyVars, dealVars, settings, now>>

Toggle(set, x) == IF x \in set THEN set \ {x} ELSE set \union {x}

TogglePause     == Environment([gate EXCEPT !.paused = ~@])
ToggleFreeze(id)  == Environment([gate EXCEPT !.frozen = Toggle(@, id)])
ToggleDispute(id) == Environment([gate EXCEPT !.disputed = Toggle(@, id)])

Tick ==
  /\ now < MaxTime
  /\ now' = now + 1
  /\ UNCHANGED <<claimVars, moneyVars, dealVars, settings, gate>>

-------------------------------------------------------------------------------
Opening ==
  \E id \in Id :
    \/ \E t \in Token : ReleaseFunds(id, t)
    \/ \E i \in Investor, a \in Pay, n \in Totals : RecordPosition(id, i, a, n)

Trading ==
  \E id \in Id, i \in Investor :
    \/ \E a \in Pay : SplitPosition(id, i, a)
    \/ \E k \in 1..MaxShares :
         \/ \E j \in Investor : TransferShare(id, i, k, j)
         \/ ListShareForSale(id, i, k)
    \/ \E o \in shareSale : BuyShare(i, o)
    \/ ListPositionForSale(id, i)
    \/ \E j \in Investor : BuyPosition(id, i, j) \/ TransferPosition(id, i, j)

Repaying ==
  \/ \E id \in Id, t \in Token, a \in Pay : Repay(id, t, a)
  \/ \E ids \in Nettings, t \in Token, a \in Pay : NetSettle(ids, t, a)
  \/ \E id \in Id, p \in Plans : SetInstallmentSchedule(id, p)
  \/ \E id \in Id, t \in Token : MarkDefault(id, t)

RepayingPartly ==
  \E id \in Id, t \in Token, a \in Pay : RepayPartial(id, t, a)

Approving ==
  \E id \in Id :
    \/ \E a \in Pay : ProposeRepayment(id, a)
    \/ \E i \in Investor : ApproveRepayment(id, i)
    \/ \E t \in Token : ExecuteRepayment(id, t)

BuyingOut ==
  \E id \in Id :
    \/ \E a \in Pay : ProposeEarlySettlement(id, a)
    \/ \E i \in Investor : AcceptEarlySettlement(id, i)
    \/ CancelEarlySettlement(id)

Escrowing ==
  \E id \in Id :
    \/ \E a \in Pay : ReserveEscrow(id, a)
    \/ ReleaseEscrow(id) \/ SettleEscrow(id)

Surroundings ==
  \/ \E c \in Caps : SetMaxPositionBps(c)
  \/ \E b \in Splits : SetLatePenaltySplit(b)
  \/ \E b \in Penalties : SetLatePenaltyBps(b)
  \/ TogglePause
  \/ \E id \in Id : ToggleFreeze(id) \/ ToggleDispute(id)

Next == Opening \/ Trading \/ Repaying \/ RepayingPartly \/ Approving \/ BuyingOut
        \/ Escrowing \/ Surroundings \/ Tick

Spec == Init /\ [][Next]_vars
-------------------------------------------------------------------------------
(* Properties.                                                             *)

PoolRecord     == [token : Token \union {NoToken}, face : Nat, repaid : Nat, owed : Nat,
                   rate : Bps, penalized : BOOLEAN, closed : BOOLEAN]
PositionRecord == [contributed : Nat, bps : Bps]
ShareRecord    == [amount : Nat \ {0}, owner : Investor]
SaleRecord     == [id : Id, of : Investor, index : 1..MaxShares, seller : Investor]
ApprovalRecord == [amount : Nat, by : SUBSET Investor, executed : BOOLEAN]
PendingBps     == 0..(Unanimity - 1)
BuyoutRecord   == [amount : Nat, bps : PendingBps, accepted : SUBSET Investor]
PartRecord     == [amount : Nat, due : Time]
PlanRecord     == [parts : Seq(PartRecord), next : Nat]
FlowRecord     == [in : Nat, out : Nat, loose : BOOLEAN, twice : BOOLEAN]
StatsRecord    == [opened : Nat, repaid : Nat, defaulted : Nat, active : Nat]
SettingsRecord == [penalty : Bps, split : Bps, cap : Bps]
GateRecord     == [paused : BOOLEAN, frozen : SUBSET Id, disputed : SUBSET Id]

PoolsOk  == pool \in [Id -> PoolRecord] /\ cut \in [Id -> Nat]
            /\ nft \in [Id -> {"Listed", "Funded", "Repaid", "Defaulted"}]
ClaimsOk == /\ position \in [Id -> [Investor -> PositionRecord]]
            /\ shares \in [Id -> [Investor -> Seq(ShareRecord)]]
            /\ sale \subseteq Id \X Investor /\ shareSale \subseteq SaleRecord
DealsOk  == /\ approval \in [Id -> ApprovalRecord] /\ buyout \in [Id -> BuyoutRecord]
            /\ plan \in [Id -> PlanRecord]
            /\ \A id \in Id : plan[id].next \in 1..(Len(plan[id].parts) + 1)
            /\ reserved \in [Id -> Nat] /\ credited \subseteq Id
MoneyOk  == /\ aggregate \in [Token -> Int] /\ balance \in [Token -> Nat]
            /\ flow \in [Id -> FlowRecord] /\ stats \in StatsRecord
EnvOk    == settings \in SettingsRecord /\ gate \in GateRecord /\ now \in Time

TypeOK == PoolsOk /\ ClaimsOk /\ DealsOk /\ MoneyOk /\ EnvOk

(* However repayments, buyouts, escrow settlements, netting and defaults   *)
(* interleave over several pools, ProtocolStats counts the pools opened,   *)
(* those still financed and those defaulted (lib.rs:761, 1907, 2403).      *)
StatsInStep ==
  /\ stats.opened = Cardinality({id \in Id : Exists(id)})
  /\ stats.active = Cardinality({id \in Id : nft[id] = "Funded"})
  /\ stats.defaulted = Cardinality({id \in Id : nft[id] = "Defaulted"})

(* The pool record and the NFT of another contract agree: a pool is closed *)
(* exactly when its invoice is Repaid, or Defaulted while the pool held an *)
(* escrow credit (lib.rs:1889, 2381). A netting that names an invoice twice*)
(* may close it and then write it back open (lib.rs:2099-2140).            *)
Settled(id) == nft[id] = "Repaid" \/ (nft[id] = "Defaulted" /\ id \in credited)
ClosedIffSettled ==
  \A id \in Id :
    /\ pool[id].closed => Settled(id)
    /\ Settled(id) => pool[id].closed \/ flow[id].twice

(* The cursor of a schedule never runs ahead of the money: an open pool has*)
(* received at least the installments marked paid (lib.rs:1762-1838).      *)
PaidParts(id) == SumOver([k \in DOMAIN plan[id].parts |-> plan[id].parts[k].amount],
                         1..(plan[id].next - 1))
PaidInstallmentsCovered == \A id \in Id : Open(id) => pool[id].repaid >= PaidParts(id)

(* The four books kept of a pool tell the same story: its record, the      *)
(* statistics, its schedule, and the status another contract keeps.        *)
BooksAgree == StatsInStep /\ ClosedIffSettled /\ PaidInstallmentsCovered

(* Once a pool is closed, and from reserve_escrow until settle_escrow, its *)
(* debt, schedule, buyout and invoice stand still and nothing is paid on   *)
(* its account, whichever entry point is called late; while reserved no    *)
(* claim changes hands either ("preventing competing repayment or position *)
(* changes", lib.rs:293).                                                  *)
StandsStill ==
  [][\A id \in Id :
       /\ pool[id].closed \/ (reserved[id] > 0 /\ reserved'[id] > 0) =>
            pool'[id] = pool[id] /\ flow'[id] = flow[id] /\ nft'[id] = nft[id]
       /\ reserved[id] > 0 /\ reserved'[id] > 0 =>
            /\ position'[id] = position[id] /\ shares'[id] = shares[id]
            /\ plan'[id] = plan[id] /\ buyout'[id] = buyout[id]]_vars

(* In one currency, and always shared out among stakes that add up.        *)
Plain(id) == Rate[id] = 1 /\ ~flow[id].loose

(* What the contract's balance owes to a pool: its capital, the pending    *)
(* buyout, and the receipts not yet shared out.                            *)
Capital(id) == IF Exists(id) THEN Funding[id] + buyout[id].amount ELSE 0

(* While the stakes add up, what is paid out on account of an invoice never*)
(* exceeds what was received for it, over every mix of installments, late  *)
(* penalty, escrow credit, netting, buyout and default; so the capital of  *)
(* all pools and the pending buyouts, held in one balance, are intact.     *)
PaidFromOwnReceipts ==
  /\ \A id \in Id : Plain(id) => flow[id].out <= flow[id].in
  /\ \A t \in Token :
       (Token = {t} /\ \A id \in Id : Plain(id)) =>
         balance[t] >= SumOver([id \in Id |-> Capital(id)], Id)

(* No position of the pool moves, and nothing more is split off one.       *)
StakesStay(id) ==
  position'[id] = position[id]
    /\ \A i \in Investor : DOMAIN shares'[id][i] = DOMAIN shares[id][i]

(* Trading moves or overwrites positions and adds to none (buy_position,   *)
(* transfer_position). Nor does it add to what a repayment would pay the   *)
(* investors, as long as it leaves no holder with more split off than it   *)
(* holds: split_position does not look at what was split off before        *)
(* (lib.rs:1333), and a position that changes hands meets the shares its   *)
(* new holder once split off another (lib.rs:2256). A share sold, listed   *)
(* or passed on adds nothing in either case.                               *)
StakesNotCreated ==
  [][Trading =>
       \A id \in Id :
         /\ TotalBps(id)' <= TotalBps(id) /\ Contributed(id)' <= Contributed(id)
         /\ StakesStay(id) \/ (\A i \in Holders(id) : WithinStake(id, i))'
              => \A n \in Pay : InvestorsOut(id, n)' <= InvestorsOut(id, n)]_vars

-------------------------------------------------------------------------------
(* What the documentation says of the contract and the code does not do.   *)

(* "No investor receives yield twice" (verification/README.md:13): no more *)
(* is paid out on account of an invoice than came in. repay_partial        *)
(* distributes the cumulative repaid amount at each call (lib.rs:1661).    *)
NoDoublePayout == \A id \in Id : flow[id].out <= flow[id].in

(* A buyout settles "once investors representing 100% of pool shares have  *)
(* accepted" (lib.rs:2590): when it does, at most the holder whose call    *)
(* completes it has not accepted before.                                   *)
BuyoutUnanimous ==
  [][\A id \in Id : (buyout[id].amount > 0 /\ Open(id) /\ pool'[id].closed)
       => Cardinality(Holders(id) \ buyout[id].accepted) <= 1]_vars

===============================================================================

------------------------------ MODULE DisputeEscrow ------------------------------
(***************************************************************************)
(* contracts/dispute_escrow together with the callbacks it makes into      *)
(* financing_pool: a disputed payment of an SME is held outside the pool   *)
(* until the admin, or the passing of DISPUTE_TIMEOUT, sends it on.  Of    *)
(* the pool there is what the callbacks read and write (the copy at        *)
(* lib.rs:209-401; FinancingPool models the rest); repayment, default,     *)
(* pause and freeze are other contracts' steps that may come in between.   *)
(* Failed calls are rolled back whole.                                     *)
(***************************************************************************)
EXTENDS Sums, FiniteSets

CONSTANTS
  Invoice, Sme,
  Outsider,         \* may call, holds no position
  Holder,           \* the investor with positions
  Owed,             \* [Invoice -> total_owed of its pool]
  Payments,         \* amounts, of any sign
  Timeout,          \* DISPUTE_TIMEOUT
  EscrowMaxTime     \* bound

VARIABLES
  escrow,    \* Dispute(id); NoDispute where absent
  loan,      \* per invoice what the callbacks use of the pool and the NFT
  tokens,    \* balances of "sme", "escrow" and "pool"
  stopped,   \* protocol paused
  escrowNow

vars == <<escrow, loan, tokens, stopped, escrowNow>>

NoDispute == [amount |-> 0, opened |-> 0, resolved |-> FALSE, toPool |-> FALSE]

(* repaid_amount, EscrowPending (0: absent), EscrowCredited, NFT status.   *)
NewLoan == [repaid |-> 0, reserved |-> 0, credited |-> FALSE, status |-> "Funded", frozen |-> FALSE]

Init ==
  /\ escrow = [id \in Invoice |-> NoDispute]
  /\ loan = [id \in Invoice |-> NewLoan]
  /\ tokens = [sme |-> SumOver(Owed, Invoice), escrow |-> 0, pool |-> 0]
  /\ stopped = FALSE
  /\ escrowNow = 0

Moved(from, to, amount) == [tokens EXCEPT ![from] = @ - amount, ![to] = @ + amount]

-----------------------------------------------------------------------------
(* The pool's callbacks                                                    *)

Open(id) == loan[id].status = "Funded"

RequireNoEscrow(id) == loan[id].reserved = 0

EscrowTerms(id) ==
  /\ RequireNoEscrow(id) /\ Open(id)
  /\ loan[id].repaid = 0
  /\ ~loan[id].frozen

ReserveEscrow(id, amount) ==
  /\ ~stopped
  /\ EscrowTerms(id)
  /\ amount > 0 /\ amount <= Owed[id] - loan[id].repaid
  /\ loan' = [loan EXCEPT ![id].reserved = amount]

(* Mutant: a refund, too, waits for the freeze to be lifted.               *)
SettleUnfrozen(id, amount, payPool) ==
  LET repaid == loan[id].repaid + (IF payPool THEN amount ELSE 0)
      closes == repaid = Owed[id]
  IN /\ loan[id].reserved = amount /\ ~loan[id].frozen
     /\ Open(id) /\ repaid <= Owed[id] /\ (closes => ~stopped)
     /\ loan' = [loan EXCEPT ![id].repaid = repaid, ![id].reserved = 0, ![id].credited = payPool,
                             ![id].status = IF closes THEN "Repaid" ELSE @]

(* A refund only takes the reservation away.  A payment that completes the *)
(* debt closes the pool, pays its yield and marks the NFT, which refuses   *)
(* that during a pause.                                                    *)
SettleEscrow(id, amount, payPool) ==
  LET repaid == loan[id].repaid + amount
      closes == repaid = Owed[id]
  IN /\ loan[id].reserved > 0 /\ loan[id].reserved = amount
     /\ \/ /\ ~payPool
           /\ loan' = [loan EXCEPT ![id].reserved = 0]
        \/ /\ payPool
           /\ Open(id) /\ ~loan[id].frozen
           /\ repaid <= Owed[id]
           /\ closes => ~stopped
           /\ loan' = [loan EXCEPT ![id] = [@ EXCEPT !.repaid = repaid, !.reserved = 0, !.credited = TRUE,
                                                  !.status = IF closes THEN "Repaid" ELSE loan[id].status]]

-----------------------------------------------------------------------------
(* The escrow                                                              *)

HasPosition(challenger) == challenger = Holder

Undisputed(id) == escrow[id] = NoDispute

OpenDispute(id, challenger, payer, amount) ==
  /\ amount > 0
  /\ Undisputed(id)
  /\ EscrowTerms(id)
  /\ payer = Sme
  /\ amount <= Owed[id] - loan[id].repaid
  /\ challenger # Sme => HasPosition(challenger)
  /\ tokens.sme >= amount
  /\ escrowNow + Timeout <= EscrowMaxTime
  /\ escrow' = [escrow EXCEPT ![id] = [NoDispute EXCEPT !.amount = amount, !.opened = escrowNow]]
  /\ ReserveEscrow(id, amount)
  /\ tokens' = Moved("sme", "escrow", amount)
  /\ UNCHANGED <<stopped, escrowNow>>

LoadOpen(id) == escrow[id] # NoDispute /\ ~escrow[id].resolved

(* Mutant: the record is not closed.                                       *)
SettleLeftOpen(id, payPool) ==
  /\ escrow' = [escrow EXCEPT ![id].toPool = payPool]
  /\ tokens' = Moved("escrow", IF payPool THEN "pool" ELSE "sme", escrow[id].amount)
  /\ SettleEscrow(id, escrow[id].amount, payPool)

Settle(id, payPool) ==
  /\ escrow' = [escrow EXCEPT ![id] = [@ EXCEPT !.resolved = TRUE, !.toPool = payPool]]
  /\ tokens' = Moved("escrow", IF payPool THEN "pool" ELSE "sme", escrow[id].amount)
  /\ SettleEscrow(id, escrow[id].amount, payPool)

(* Only the admin's call.                                                  *)
ResolveDispute(id, payPool) ==
  /\ LoadOpen(id)
  /\ escrowNow < escrow[id].opened + Timeout
  /\ Settle(id, payPool)
  /\ UNCHANGED <<stopped, escrowNow>>

(* Anybody's call.                                                         *)
ResolveTimeout(id) ==
  /\ LoadOpen(id)
  /\ escrowNow >= escrow[id].opened + Timeout
  /\ Settle(id, FALSE)
  /\ UNCHANGED <<stopped, escrowNow>>

-----------------------------------------------------------------------------
(* What happens around it                                                  *)

(* repay of the whole rest; a pool with an escrow credit too.              *)
Repay(id) ==
  /\ RequireNoEscrow(id) /\ Open(id) /\ ~stopped /\ ~loan[id].frozen
  /\ tokens.sme >= Owed[id] - loan[id].repaid
  /\ loan' = [loan EXCEPT ![id] = [@ EXCEPT !.repaid = Owed[id], !.status = "Repaid"]]
  /\ tokens' = Moved("sme", "pool", Owed[id] - loan[id].repaid)
  /\ UNCHANGED <<escrow, stopped, escrowNow>>

(* repay_partial, closed to pools with an escrow credit.                   *)
RepayPartial(id, amount) ==
  /\ RequireNoEscrow(id) /\ Open(id) /\ ~loan[id].credited
  /\ ~stopped /\ ~loan[id].frozen
  /\ amount > 0 /\ amount < Owed[id] - loan[id].repaid /\ tokens.sme >= amount
  /\ loan' = [loan EXCEPT ![id].repaid = @ + amount]
  /\ tokens' = Moved("sme", "pool", amount)
  /\ UNCHANGED <<escrow, stopped, escrowNow>>

MarkDefault(id) ==
  /\ RequireNoEscrow(id) /\ Open(id) /\ ~stopped
  /\ loan' = [loan EXCEPT ![id].status = "Defaulted"]
  /\ UNCHANGED <<escrow, tokens, stopped, escrowNow>>

SetFrozen(id, b) ==
  /\ loan' = [loan EXCEPT ![id].frozen = b]
  /\ UNCHANGED <<escrow, tokens, stopped, escrowNow>>
SetStopped(b) == stopped' = b /\ UNCHANGED <<escrow, loan, tokens, escrowNow>>

Tick ==
  /\ escrowNow < EscrowMaxTime
  /\ escrowNow' = escrowNow + 1
  /\ UNCHANGED <<escrow, loan, tokens, stopped>>

Next ==
  \/ \E id \in Invoice, c \in {Sme, Holder, Outsider}, p \in {Sme, Outsider}, a \in Payments : OpenDispute(id, c, p, a)
  \/ \E id \in Invoice, b \in BOOLEAN : ResolveDispute(id, b) \/ SetFrozen(id, b)
  \/ \E id \in Invoice, a \in Payments : RepayPartial(id, a)
  \/ \E id \in Invoice : ResolveTimeout(id) \/ Repay(id) \/ MarkDefault(id)
  \/ \E b \in BOOLEAN : SetStopped(b)
  \/ Tick

-----------------------------------------------------------------------------
(* What could be wrong                                                     *)

(* The payments of open disputes.                                          *)
HeldFor == [id \in Invoice |-> IF LoadOpen(id) THEN escrow[id].amount ELSE 0]

(* The escrow holds exactly the payments of its open disputes, and the     *)
(* pool keeps a reservation of the same amount for each of them and for    *)
(* nothing else, whatever failed in between.                               *)
CustodyMatchesReservations ==
  /\ tokens.escrow = SumOver(HeldFor, Invoice)
  /\ \A id \in Invoice : loan[id].reserved = HeldFor[id]

(* While a payment is held the debt stays as it was, so that it can still  *)
(* be credited in full: no repayment or default overtakes it.              *)
ReservedDebtStays ==
  \A id \in Invoice : loan[id].reserved > 0 =>
    loan[id].status = "Funded" /\ loan[id].repaid + loan[id].reserved <= Owed[id]

(* One dispute per invoice, one outcome per dispute: a resolved record and *)
(* the direction of its payment never change.                              *)
ResolvedStep == \A id \in Invoice : escrow[id].resolved => escrow'[id] = escrow[id] /\ loan'[id].reserved = 0
ResolvedOnce == [][ResolvedStep]_vars

(* Every dispute ends, with the admin silent, the protocol paused or the   *)
(* invoice frozen: time passes, and somebody asks for the refund.          *)
Fairness == WF_vars(Tick) /\ \A id \in Invoice : WF_vars(ResolveTimeout(id))
EveryDisputeEnds == \A id \in Invoice : (escrow[id] # NoDispute) ~> escrow[id].resolved

Spec == Init /\ [][Next]_vars /\ Fairness
=============================================================================

-------------------------- MODULE SmallContractsProofs --------------------------
(***************************************************************************)
(* Theorems about Disputes and Decisions, each contract with its own       *)
(* inductive invariant, for every number of callers, invoices, proposals,  *)
(* grants and parameters, every delay and amount, and every order of       *)
(* calls.                                                                  *)
(***************************************************************************)
EXTENDS Disputes, Decisions, FiniteSums

(* The sums of the two modules that keep one are the same.                 *)
LEMMA SameSum ==
  ASSUME NEW f, NEW S
  PROVE  Escrow!SumOver(f, S) = SumOver(f, S) /\ Nomination!SumOver(f, S) = SumOver(f, S)
BY DEF SumOver, MapThenSumSet, MapThenFoldSet, Escrow!SumOver, Escrow!MapThenSumSet, Escrow!MapThenFoldSet,
       Nomination!SumOver, Nomination!MapThenSumSet, Nomination!MapThenFoldSet

-----------------------------------------------------------------------------
(* dispute_escrow.  A held payment is positive and was owed when it was    *)
(* reserved; the pool refuses whatever would change that.                  *)

EscrowRecord == [amount : Int, opened : Int, resolved : BOOLEAN, toPool : BOOLEAN]
LoanRecord   == [repaid : Int, reserved : Int, credited : BOOLEAN,
                 status : {"Funded", "Repaid", "Defaulted"}, frozen : BOOLEAN]

EscrowTypes ==
  /\ escrow \in [Invoice -> EscrowRecord] /\ loan \in [Invoice -> LoanRecord]
  /\ escrowTokens \in [sme : Int, escrow : Int, pool : Int]
  /\ stopped \in BOOLEAN /\ escrowNow \in Int

HeldIsOwed(id) ==
  /\ loan[id].reserved = Escrow!HeldFor[id]
  /\ Escrow!LoadOpen(id) =>
       /\ escrow[id].amount > 0
       /\ loan[id].status = "Funded" /\ loan[id].repaid + escrow[id].amount <= Owed[id]

EscrowInv ==
  /\ EscrowTypes
  /\ escrowTokens.escrow = SumOver(Escrow!HeldFor, Invoice)
  /\ \A id \in Invoice : HeldIsOwed(id)

LEMMA HeldTypes ==
  ASSUME EscrowTypes
  PROVE  \A id \in Invoice : /\ escrow[id] \in EscrowRecord /\ loan[id] \in LoanRecord
                             /\ Escrow!HeldFor[id] \in Int /\ Owed[id] \in Int
<1>1. \A id \in Invoice : escrow[id] \in EscrowRecord /\ loan[id] \in LoanRecord /\ Owed[id] \in Int
  BY PaymentsOk DEF EscrowTypes
<1>2. QED
  BY <1>1 DEF Escrow!HeldFor, EscrowRecord

LEMMA EscrowStarts ==
  ASSUME Escrow!Init
  PROVE  EscrowInv
<1>1. Escrow!SumOver(Owed, Invoice) \in Int
  BY SumInt, SameSum, FinitelyMany, PaymentsOk
<1>2. EscrowTypes
  <2>1. Escrow!NoDispute \in EscrowRecord /\ Escrow!NewLoan \in LoanRecord
    BY DEF EscrowRecord, LoanRecord, Escrow!NoDispute, Escrow!NewLoan
  <2>2. escrow \in [Invoice -> EscrowRecord] /\ loan \in [Invoice -> LoanRecord]
    BY <2>1 DEF Escrow!Init
  <2>3. escrowTokens \in [sme : Int, escrow : Int, pool : Int]
    BY <1>1 DEF Escrow!Init
  <2>4. QED
    BY <2>2, <2>3 DEF Escrow!Init, EscrowTypes
<1>3. \A id \in Invoice : ~Escrow!LoadOpen(id) /\ Escrow!HeldFor[id] = 0 /\ loan[id].reserved = 0
  BY DEF Escrow!Init, Escrow!LoadOpen, Escrow!HeldFor, Escrow!NewLoan
<1>4. SumOver(Escrow!HeldFor, Invoice) = 0
  BY <1>3, SumZero, FinitelyMany
<1>5. escrowTokens.escrow = 0
  BY DEF Escrow!Init
<1>6. QED
  BY <1>2, <1>3, <1>4, <1>5 DEF EscrowInv, HeldIsOwed

(* What a call that concerns one invoice at most has to show.              *)
LEMMA OneInvoiceMoves ==
  ASSUME EscrowInv, NEW id \in Invoice, NEW n \in Int, EscrowTypes',
         \A i \in Invoice \ {id} : escrow'[i] = escrow[i] /\ loan'[i] = loan[i],
         Escrow!HeldFor'[id] = Escrow!HeldFor[id] + n,
         escrowTokens'.escrow = escrowTokens.escrow + n,
         HeldIsOwed(id)'
  PROVE  EscrowInv'
<1>1. \A i \in Invoice \ {id} : Escrow!HeldFor'[i] = Escrow!HeldFor[i] /\ HeldIsOwed(i)'
  BY DEF EscrowInv, HeldIsOwed, Escrow!HeldFor, Escrow!LoadOpen
<1>2. \A i \in Invoice : Escrow!HeldFor[i] \in Int
  BY HeldTypes DEF EscrowInv
<1>3. SumOver(Escrow!HeldFor', Invoice) = SumOver(Escrow!HeldFor, Invoice) + n
  BY <1>1, <1>2, SumGrows, FinitelyMany
<1>4. QED
  BY <1>1, <1>3 DEF EscrowInv

LEMMA DisputeOpened ==
  ASSUME EscrowInv, NEW id \in Invoice, NEW c, NEW p, NEW a \in Payments, Escrow!OpenDispute(id, c, p, a)
  PROVE  EscrowInv'
<1>1. /\ escrow[id] \in EscrowRecord /\ loan[id] \in LoanRecord
      /\ Owed[id] \in Int /\ a \in Int /\ escrowNow \in Int /\ HeldIsOwed(id)
  BY HeldTypes, PaymentsOk DEF EscrowInv, EscrowTypes
<1>2. /\ a > 0 /\ escrow[id] = Escrow!NoDispute /\ loan[id].status = "Funded"
      /\ loan[id].repaid = 0 /\ a <= Owed[id]
      /\ loan' = [loan EXCEPT ![id].reserved = a]
      /\ escrowTokens' = [escrowTokens EXCEPT !["sme"] = @ - a, !["escrow"] = @ + a]
      /\ UNCHANGED <<stopped, escrowNow>>
  BY <1>1 DEF Escrow!OpenDispute, Escrow!Undisputed, Escrow!EscrowTerms, Escrow!Open,
       Escrow!ReserveEscrow, Escrow!Moved
<1> DEFINE r == [Escrow!NoDispute EXCEPT !.amount = a, !.opened = escrowNow]
<1>3. r \in EscrowRecord /\ r.amount = a /\ ~r.resolved /\ r # Escrow!NoDispute
  <2> DEFINE d  == Escrow!NoDispute
             r1 == [d EXCEPT !.amount = a]
             r2 == [r1 EXCEPT !.opened = escrowNow]
  <2>1. d \in EscrowRecord /\ d.amount = 0 /\ ~d.resolved /\ a # 0
    BY <1>1, <1>2 DEF Escrow!NoDispute, EscrowRecord
  <2>2. r = r2
    BY Zenon
  <2> HIDE DEF d, r
  <2>3. r1 \in EscrowRecord /\ r1.amount = a /\ ~r1.resolved
    BY <1>1, <2>1 DEF EscrowRecord
  <2> HIDE DEF r1
  <2>4. r2 \in EscrowRecord /\ r2.amount = a /\ ~r2.resolved
    BY <1>1, <2>3 DEF EscrowRecord
  <2>5. QED
    BY <2>1, <2>2, <2>4 DEF d
<1>4. escrow' = [escrow EXCEPT ![id] = r]
  BY DEF Escrow!OpenDispute
<1> HIDE DEF r
<1>5. EscrowTypes'
  BY <1>1, <1>2, <1>3, <1>4 DEF EscrowInv, EscrowTypes, LoanRecord
<1>6. \A i \in Invoice \ {id} : escrow'[i] = escrow[i] /\ loan'[i] = loan[i]
  BY <1>2, <1>4
<1>7. escrow'[id] = r
  BY <1>4 DEF EscrowInv, EscrowTypes
<1>8. Escrow!LoadOpen(id)' /\ ~Escrow!LoadOpen(id)
  BY <1>2, <1>3, <1>7 DEF Escrow!LoadOpen
<1>9. Escrow!HeldFor[id] = 0 /\ Escrow!HeldFor'[id] = a
  BY <1>3, <1>7, <1>8 DEF Escrow!HeldFor
<1>10. escrowTokens'.escrow = escrowTokens.escrow + a
  BY <1>2 DEF EscrowInv, EscrowTypes
<1>11. loan'[id].reserved = a /\ loan'[id].status = "Funded" /\ loan'[id].repaid = 0
  BY <1>1, <1>2 DEF EscrowInv, EscrowTypes, LoanRecord
<1>12. HeldIsOwed(id)'
  BY <1>1, <1>2, <1>3, <1>7, <1>9, <1>11 DEF HeldIsOwed
<1>13. Escrow!HeldFor'[id] = Escrow!HeldFor[id] + a
  BY <1>1, <1>9
<1>14. QED
  BY <1>1, <1>5, <1>6, <1>10, <1>12, <1>13, OneInvoiceMoves

(* What a settlement does to the loan, in either direction.                *)
LEMMA LoanSettled ==
  ASSUME EscrowInv, NEW id \in Invoice, NEW n \in Int, NEW x \in BOOLEAN, Escrow!SettleEscrow(id, n, x)
  PROVE  /\ \A i \in Invoice \ {id} : loan'[i] = loan[i]
         /\ loan' \in [Invoice -> LoanRecord]
         /\ loan'[id].reserved = 0
<1>1. loan \in [Invoice -> LoanRecord] /\ loan[id] \in LoanRecord
  BY HeldTypes DEF EscrowInv, EscrowTypes
<1>2. CASE ~x
  BY <1>1, <1>2 DEF Escrow!SettleEscrow, LoanRecord
<1>3. CASE x
  <2> DEFINE m  == loan[id].repaid + n
             r1 == [loan[id] EXCEPT !.repaid = m]
             r2 == [r1 EXCEPT !.reserved = 0]
             r3 == [r2 EXCEPT !.credited = TRUE]
             r4 == [r3 EXCEPT !.status = IF m = Owed[id] THEN "Repaid" ELSE loan[id].status]
  <2>1. loan' = [loan EXCEPT ![id] = r4]
    BY <1>3, Zenon DEF Escrow!SettleEscrow
  <2>2. m \in Int
    BY <1>1 DEF LoanRecord
  <2> HIDE DEF m
  <2>3. r1 \in LoanRecord
    BY <1>1, <2>2 DEF LoanRecord
  <2> HIDE DEF r1
  <2>4. r2 \in LoanRecord /\ r2.reserved = 0
    BY <2>3 DEF LoanRecord
  <2> HIDE DEF r2
  <2>5. r3 \in LoanRecord /\ r3.reserved = 0
    BY <2>4 DEF LoanRecord
  <2> HIDE DEF r3
  <2>6. r4 \in LoanRecord /\ r4.reserved = 0
    BY <1>1, <2>5 DEF LoanRecord
  <2> HIDE DEF r4
  <2>7. QED
    BY <1>1, <2>1, <2>6
<1>4. QED
  BY <1>2, <1>3

LEMMA DisputeSettled ==
  ASSUME EscrowInv, NEW id \in Invoice, NEW x \in BOOLEAN,
         Escrow!LoadOpen(id), Escrow!Settle(id, x), UNCHANGED <<stopped, escrowNow>>
  PROVE  EscrowInv'
<1> DEFINE n == escrow[id].amount
           r == [escrow[id] EXCEPT !.resolved = TRUE, !.toPool = x]
<1>1. escrow[id] \in EscrowRecord /\ n \in Int /\ HeldIsOwed(id)
  BY HeldTypes DEF EscrowInv, EscrowRecord
<1>2. escrow' = [escrow EXCEPT ![id] = r] /\ escrow \in [Invoice -> EscrowRecord]
  BY DEF Escrow!Settle, EscrowInv, EscrowTypes
<1>3. r \in EscrowRecord /\ r.resolved
  BY <1>1 DEF EscrowRecord
<1>4. escrowTokens' \in [sme : Int, escrow : Int, pool : Int] /\ escrowTokens'.escrow = escrowTokens.escrow - n
  <2>1. CASE x
    BY <1>1, <2>1 DEF Escrow!Settle, Escrow!Moved, EscrowInv, EscrowTypes
  <2>2. CASE ~x
    BY <1>1, <2>2 DEF Escrow!Settle, Escrow!Moved, EscrowInv, EscrowTypes
  <2>3. QED
    BY <2>1, <2>2
<1>5. Escrow!SettleEscrow(id, n, x)
  BY DEF Escrow!Settle
<1> HIDE DEF r, n
<1>6. /\ \A i \in Invoice \ {id} : loan'[i] = loan[i]
      /\ loan' \in [Invoice -> LoanRecord] /\ loan'[id].reserved = 0
  BY <1>1, <1>5, LoanSettled
<1>7. EscrowTypes'
  BY <1>2, <1>3, <1>4, <1>6 DEF EscrowInv, EscrowTypes
<1>8. ~Escrow!LoadOpen(id)'
  BY <1>2, <1>3 DEF Escrow!LoadOpen
<1>9. Escrow!HeldFor[id] = n /\ Escrow!HeldFor'[id] = 0
  BY <1>8 DEF Escrow!HeldFor, n
<1>10. HeldIsOwed(id)'
  BY <1>6, <1>8, <1>9 DEF HeldIsOwed
<1>11. -n \in Int /\ Escrow!HeldFor'[id] = Escrow!HeldFor[id] + (-n) /\ escrowTokens'.escrow = escrowTokens.escrow + (-n)
  BY <1>1, <1>4, <1>9 DEF EscrowInv, EscrowTypes
<1>12. \A i \in Invoice \ {id} : escrow'[i] = escrow[i] /\ loan'[i] = loan[i]
  BY <1>2, <1>6
<1>13. QED
  BY <1>7, <1>10, <1>11, <1>12, OneInvoiceMoves

(* What the pool, the NFT and the admin do in between concerns no held     *)
(* payment: a pool with a reservation refuses repayments and defaults.     *)
LEMMA LoanMoves ==
  ASSUME EscrowInv, NEW id \in Invoice, NEW a \in Payments \union {0}, NEW b \in BOOLEAN,
         \/ Escrow!Repay(id) \/ Escrow!RepayPartial(id, a) \/ Escrow!MarkDefault(id) \/ Escrow!SetFrozen(id, b)
  PROVE  EscrowInv'
<1>1. /\ escrow[id] \in EscrowRecord /\ loan[id] \in LoanRecord /\ Owed[id] \in Int
      /\ HeldIsOwed(id) /\ EscrowTypes /\ a \in Int
  <2>1. a \in Int
    BY PaymentsOk
  <2>2. QED
    BY <2>1, HeldTypes DEF EscrowInv
<1>2. PICK r \in LoanRecord :
        /\ loan' = [loan EXCEPT ![id] = r] /\ r.reserved = loan[id].reserved
        /\ \/ loan[id].reserved = 0
           \/ r.repaid = loan[id].repaid /\ r.status = loan[id].status
  <2>1. /\ [loan[id] EXCEPT !.repaid = Owed[id], !.status = "Repaid"] \in LoanRecord
        /\ [loan[id] EXCEPT !.repaid = @ + a] \in LoanRecord
        /\ [loan[id] EXCEPT !.status = "Defaulted"] \in LoanRecord
        /\ [loan[id] EXCEPT !.frozen = b] \in LoanRecord
    <3>1. [loan[id] EXCEPT !.repaid = Owed[id], !.status = "Repaid"] \in LoanRecord
      BY <1>1 DEF LoanRecord
    <3>2. [loan[id] EXCEPT !.repaid = @ + a] \in LoanRecord
      BY <1>1 DEF LoanRecord
    <3>3. [loan[id] EXCEPT !.status = "Defaulted"] \in LoanRecord
      BY <1>1 DEF LoanRecord
    <3>4. [loan[id] EXCEPT !.frozen = b] \in LoanRecord
      BY <1>1 DEF LoanRecord
    <3>5. QED
      BY <3>1, <3>2, <3>3, <3>4
  <2>2. CASE Escrow!Repay(id) \/ Escrow!MarkDefault(id)
    BY <1>1, <2>1, <2>2 DEF Escrow!Repay, Escrow!MarkDefault, Escrow!RequireNoEscrow, LoanRecord
  <2>3. CASE Escrow!RepayPartial(id, a) \/ Escrow!SetFrozen(id, b)
    BY <1>1, <2>1, <2>3 DEF Escrow!RepayPartial, Escrow!SetFrozen, Escrow!RequireNoEscrow, LoanRecord
  <2>4. QED
    BY <2>2, <2>3
<1>3. /\ escrow' = escrow /\ stopped' = stopped /\ escrowNow' = escrowNow
      /\ escrowTokens' \in [sme : Int, escrow : Int, pool : Int] /\ escrowTokens'.escrow = escrowTokens.escrow
  BY <1>1 DEF Escrow!Repay, Escrow!RepayPartial, Escrow!MarkDefault, Escrow!SetFrozen, Escrow!Moved,
       EscrowTypes, LoanRecord
<1>4. EscrowTypes' /\ loan'[id] = r /\ \A i \in Invoice \ {id} : escrow'[i] = escrow[i] /\ loan'[i] = loan[i]
  BY <1>1, <1>2, <1>3 DEF EscrowTypes
<1>5. Escrow!HeldFor' = Escrow!HeldFor /\ (Escrow!LoadOpen(id)' <=> Escrow!LoadOpen(id))
  BY <1>3 DEF Escrow!HeldFor, Escrow!LoadOpen
<1>6. HeldIsOwed(id)'
  BY <1>1, <1>2, <1>3, <1>4, <1>5 DEF HeldIsOwed, Escrow!HeldFor
<1>7. Escrow!HeldFor[id] \in Int /\ escrowTokens.escrow \in Int
  BY HeldTypes, <1>1 DEF EscrowTypes
<1>8. Escrow!HeldFor'[id] = Escrow!HeldFor[id] + 0 /\ escrowTokens'.escrow = escrowTokens.escrow + 0
  BY <1>3, <1>5, <1>7
<1>9. QED
  BY <1>4, <1>6, <1>8, OneInvoiceMoves

LEMMA EscrowUntouched ==
  ASSUME EscrowInv, escrow' = escrow, loan' = loan, escrowTokens' = escrowTokens,
         stopped' \in BOOLEAN, escrowNow' \in Int
  PROVE  EscrowInv'
<1>1. Escrow!HeldFor' = Escrow!HeldFor /\ \A id \in Invoice : Escrow!LoadOpen(id)' = Escrow!LoadOpen(id)
  BY DEF Escrow!HeldFor, Escrow!LoadOpen
<1>2. QED
  BY <1>1 DEF EscrowInv, EscrowTypes, HeldIsOwed

LEMMA EscrowKept ==
  ASSUME EscrowInv, Escrow!Next
  PROVE  EscrowInv'
<1>1. CASE \E id \in Invoice, c \in {Sme, Holder, Outsider}, p \in {Sme, Outsider}, a \in Payments :
             Escrow!OpenDispute(id, c, p, a)
  BY <1>1, DisputeOpened
<1>2. CASE \E id \in Invoice, b \in BOOLEAN : Escrow!ResolveDispute(id, b)
  BY <1>2, DisputeSettled DEF Escrow!ResolveDispute
<1>3. CASE \E id \in Invoice : Escrow!ResolveTimeout(id)
  BY <1>3, DisputeSettled DEF Escrow!ResolveTimeout
<1>4. CASE \E id \in Invoice, b \in BOOLEAN : Escrow!SetFrozen(id, b)
  <2>1. PICK id \in Invoice, b \in BOOLEAN : Escrow!SetFrozen(id, b)
    BY <1>4
  <2>2. QED
    BY <2>1, LoanMoves
<1>5. CASE \E id \in Invoice, a \in Payments : Escrow!RepayPartial(id, a)
  BY <1>5, LoanMoves
<1>6. CASE \E id \in Invoice : Escrow!Repay(id) \/ Escrow!MarkDefault(id)
  BY <1>6, LoanMoves
<1>7. CASE \E b \in BOOLEAN : Escrow!SetStopped(b)
  BY <1>7, EscrowUntouched DEF Escrow!SetStopped, EscrowInv, EscrowTypes
<1>8. CASE Escrow!Tick
  BY <1>8, EscrowUntouched DEF Escrow!Tick, EscrowInv, EscrowTypes
<1>9. QED
  BY <1>1, <1>2, <1>3, <1>4, <1>5, <1>6, <1>7, <1>8 DEF Escrow!Next

(* The invariant says what the run checks of dispute_escrow.               *)
LEMMA EscrowSound ==
  ASSUME EscrowInv
  PROVE  Escrow!CustodyMatchesReservations /\ Escrow!ReservedDebtStays
<1>1. Escrow!SumOver(Escrow!HeldFor, Invoice) = SumOver(Escrow!HeldFor, Invoice)
  BY SameSum
<1>2. \A id \in Invoice : loan[id].reserved > 0 => Escrow!LoadOpen(id) /\ loan[id].reserved = escrow[id].amount
  BY HeldTypes DEF EscrowInv, HeldIsOwed, Escrow!HeldFor
<1>3. QED
  BY <1>1, <1>2 DEF EscrowInv, HeldIsOwed, Escrow!CustodyMatchesReservations, Escrow!ReservedDebtStays

LEMMA DisputeStays ==
  ASSUME EscrowInv, [Escrow!Next]_escrowVars
  PROVE  Escrow!ResolvedStep
<1> SUFFICES ASSUME NEW id \in Invoice, escrow[id].resolved
             PROVE  escrow'[id] = escrow[id] /\ loan'[id].reserved = 0
  BY DEF Escrow!ResolvedStep
<1>1. EscrowInv'
  BY EscrowKept, EscrowUntouched DEF escrowVars, EscrowInv, EscrowTypes
<1>2. escrow'[id] = escrow[id]
  <2>1. escrow[id] # Escrow!NoDispute /\ ~Escrow!LoadOpen(id) /\ escrow \in [Invoice -> EscrowRecord]
    BY DEF Escrow!NoDispute, Escrow!LoadOpen, EscrowInv, EscrowTypes
  <2>2. CASE \E i \in Invoice, c \in {Sme, Holder, Outsider}, p \in {Sme, Outsider}, a \in Payments :
               Escrow!OpenDispute(i, c, p, a)
    BY <2>1, <2>2 DEF Escrow!OpenDispute, Escrow!Undisputed
  <2>3. CASE \E i \in Invoice, x \in BOOLEAN : Escrow!LoadOpen(i) /\ Escrow!Settle(i, x)
    BY <2>1, <2>3 DEF Escrow!Settle
  <2>4. CASE UNCHANGED escrow
    BY <2>4
  <2>5. CASE \/ \E i \in Invoice, x \in BOOLEAN : Escrow!ResolveDispute(i, x)
             \/ \E i \in Invoice : Escrow!ResolveTimeout(i)
    BY <2>3, <2>5 DEF Escrow!ResolveDispute, Escrow!ResolveTimeout
  <2>6. CASE \E i \in Invoice, x \in BOOLEAN : Escrow!SetFrozen(i, x) \/ Escrow!SetStopped(x)
    BY <2>6 DEF Escrow!SetFrozen, Escrow!SetStopped
  <2>7. CASE \E i \in Invoice, a \in Payments : Escrow!RepayPartial(i, a)
    BY <2>7 DEF Escrow!RepayPartial
  <2>8. CASE \E i \in Invoice : Escrow!Repay(i)
    BY <2>8 DEF Escrow!Repay
  <2>9. CASE \E i \in Invoice : Escrow!MarkDefault(i)
    BY <2>9 DEF Escrow!MarkDefault
  <2>10. CASE Escrow!Tick \/ UNCHANGED escrowVars
    BY <2>10 DEF Escrow!Tick, escrowVars
  <2>11. QED
    BY <2>2, <2>5, <2>6, <2>7, <2>8, <2>9, <2>10 DEF Escrow!Next
<1>3. QED
  BY <1>1, <1>2 DEF EscrowInv, HeldIsOwed, Escrow!HeldFor, Escrow!LoadOpen

-----------------------------------------------------------------------------
(* dispute_resolution.  A case is judged while it is open, and closed then. *)

CaseRecord == [challenger : Person \union {Nobody}, evidence : Int, opened : Int,
               resolved : BOOLEAN, upheld : BOOLEAN, resolvedAt : Int]

CaseTypes ==
  /\ cases \in [Case -> CaseRecord] /\ judge \in [Case -> Person \union {Multisig, Nobody}]
  /\ caseNow \in Int /\ casePaused \in BOOLEAN

LEMMA CasesKept ==
  ASSUME CaseTypes, [Cases!Next]_caseVars
  PROVE  CaseTypes' /\ Cases!VerdictStep
<1>1. ASSUME NEW id \in Case, NEW r \in CaseRecord, cases' = [cases EXCEPT ![id] = r], ~cases[id].resolved,
             ~r.resolved, UNCHANGED <<judge, casePaused, caseNow>>
      PROVE  CaseTypes' /\ Cases!VerdictStep
  BY <1>1 DEF CaseTypes, Cases!VerdictStep
<1>2. CASE \E c \in Person, id \in Case : Cases!OpenDispute(c, id)
  <2>1. PICK c \in Person, id \in Case : Cases!OpenDispute(c, id)
    BY <1>2
  <2> DEFINE r == [Cases!NoCase EXCEPT !.challenger = c, !.opened = caseNow]
  <2>2. r \in CaseRecord /\ ~r.resolved
    <3> DEFINE d  == Cases!NoCase
               r1 == [d EXCEPT !.challenger = c]
               r2 == [r1 EXCEPT !.opened = caseNow]
    <3>1. d \in CaseRecord /\ ~d.resolved
      BY DEF Cases!NoCase, CaseRecord
    <3>2. r = r2
      BY Zenon
    <3> HIDE DEF d, r
    <3>3. r1 \in CaseRecord /\ ~r1.resolved
      BY <3>1 DEF CaseRecord
    <3> HIDE DEF r1
    <3>4. r2 \in CaseRecord /\ ~r2.resolved
      BY <3>3 DEF CaseRecord, CaseTypes
    <3>5. QED
      BY <3>2, <3>4
  <2>3. cases' = [cases EXCEPT ![id] = r] /\ ~cases[id].resolved /\ UNCHANGED <<judge, casePaused, caseNow>>
    BY <2>1 DEF Cases!OpenDispute, Cases!Unchallenged, Cases!NoCase
  <2> HIDE DEF r
  <2>4. QED
    BY <1>1, <2>2, <2>3
<1>3. CASE \E c \in Person, id \in Case : Cases!SubmitEvidence(c, id)
  <2>1. PICK c \in Person, id \in Case : Cases!SubmitEvidence(c, id)
    BY <1>3
  <2> DEFINE r == [cases[id] EXCEPT !.evidence = @ + 1]
  <2>2. r \in CaseRecord /\ ~r.resolved /\ ~cases[id].resolved
    BY <2>1 DEF Cases!SubmitEvidence, CaseRecord, CaseTypes
  <2>3. cases' = [cases EXCEPT ![id] = r] /\ UNCHANGED <<judge, casePaused, caseNow>>
    BY <2>1 DEF Cases!SubmitEvidence, CaseTypes
  <2> HIDE DEF r
  <2>4. QED
    BY <1>1, <2>2, <2>3
<1>4. CASE \E r \in Person, id \in Case, upheld \in BOOLEAN, caller \in Person \union {Multisig} :
             Cases!ResolveDispute(r, caller, id, upheld) /\ caller \in {r, Multisig}
  <2>1. PICK p \in Person, id \in Case, upheld \in BOOLEAN, caller \in Person \union {Multisig} :
               Cases!ResolveDispute(p, caller, id, upheld) /\ caller \in {p, Multisig}
    BY <1>4
  <2> DEFINE r == [cases[id] EXCEPT !.resolved = TRUE, !.upheld = upheld, !.resolvedAt = caseNow]
  <2>2. cases[id] \in CaseRecord /\ caseNow \in Int
    BY DEF CaseTypes
  <2>3. r \in CaseRecord /\ r.resolved /\ r.evidence = cases[id].evidence
    BY <2>2 DEF CaseRecord
  <2>4. /\ cases' = [cases EXCEPT ![id] = r] /\ judge' = [judge EXCEPT ![id] = caller]
        /\ ~cases[id].resolved /\ p \in signers /\ caseNow <= cases[id].opened + WindowSecs
        /\ UNCHANGED <<casePaused, caseNow>>
    BY <2>1 DEF Cases!ResolveDispute, Cases!RequireGovernance, Cases!InWindow, CaseTypes
  <2> HIDE DEF r
  <2>5. CaseTypes'
    BY <2>3, <2>4 DEF CaseTypes
  <2>6. judge'[id] \in signers \union {Multisig} /\ caseNow - cases[id].opened <= WindowSecs
    BY <2>1, <2>2, <2>4, WindowsOk DEF CaseTypes, CaseRecord
  <2>7. cases'[id] = r /\ \A i \in Case \ {id} : cases'[i] = cases[i]
    BY <2>4 DEF CaseTypes
  <2>8. QED
    BY <2>3, <2>4, <2>5, <2>6, <2>7 DEF Cases!VerdictStep
<1>5. CASE UNCHANGED <<cases, judge>> /\ casePaused' \in BOOLEAN /\ caseNow' \in Int
  BY <1>5 DEF CaseTypes, Cases!VerdictStep
<1>6. CASE \E c \in Person, id \in Case : Cases!OpenDispute(c, id) \/ Cases!SubmitEvidence(c, id)
  BY <1>2, <1>3, <1>6
<1>7. CASE \E r \in Person, id \in Case, upheld \in BOOLEAN :
             Cases!ResolveDispute(r, r, id, upheld) \/ Cases!ResolveDispute(r, Multisig, id, upheld)
  BY <1>4, <1>7
<1>8. CASE \/ Cases!ProposeUpgrade \/ Cases!ExecuteUpgrade \/ Cases!Tick \/ UNCHANGED caseVars
           \/ \E s \in SignerSets : Cases!Reconfigure(s)
           \/ \E b \in BOOLEAN : Cases!SetPause(b)
  BY <1>5, <1>8 DEF CaseTypes, caseVars, Cases!ProposeUpgrade, Cases!ExecuteUpgrade, Cases!Tick,
       Cases!Reconfigure, Cases!SetPause
<1>9. QED
  BY <1>6, <1>7, <1>8 DEF Cases!Next

LEMMA CasesStart ==
  ASSUME Cases!Init
  PROVE  CaseTypes
<1>1. Cases!NoCase \in CaseRecord
  BY DEF Cases!NoCase, CaseRecord
<1>2. cases \in [Case -> CaseRecord] /\ judge \in [Case -> Person \union {Multisig, Nobody}]
  BY <1>1 DEF Cases!Init
<1>3. caseNow \in Int
  BY DEF Cases!Init
<1>4. casePaused \in BOOLEAN
  BY Zenon DEF Cases!Init
<1>5. QED
  BY <1>2, <1>3, <1>4 DEF CaseTypes

-----------------------------------------------------------------------------
(* debtor_attestation.  The status of a record is its latest word.         *)

AttestRecord == [status : {"Pending", "Confirmed", "Rejected"}, debtor : Debtor \union {Nobody},
                 amount : ClaimAmounts \union {0}, expires : Int, relay : Relay \union {Nobody}]

AttestInv ==
  /\ listedAs \in [Invoice -> {"none", "free", "attested"}] /\ attested \in [Invoice -> AttestRecord]
  /\ lastWord \in [Invoice -> {"none", "confirmed", "rejected"}]
  /\ attestNow \in Int
  /\ \A id \in Invoice :
       /\ attested[id].status = "Confirmed" <=> lastWord[id] = "confirmed"
       /\ attested[id].status = "Rejected" <=> lastWord[id] = "rejected"

LEMMA AttestStarts ==
  ASSUME Attestation!Init
  PROVE  AttestInv
<1>1. Attestation!NoRecord \in AttestRecord /\ Attestation!NoRecord.status = "Pending"
  BY DEF Attestation!NoRecord, AttestRecord
<1>2. attested = [id \in Invoice |-> Attestation!NoRecord] /\ attested \in [Invoice -> AttestRecord]
  BY <1>1 DEF Attestation!Init
<1>3. lastWord = [id \in Invoice |-> "none"] /\ listedAs = [id \in Invoice |-> "none"] /\ attestNow \in Int
  BY DEF Attestation!Init
<1>4. QED
  BY <1>1, <1>2, <1>3 DEF AttestInv

(* A new record with the word that goes with it.                           *)
LEMMA WordGiven ==
  ASSUME AttestInv, NEW id \in Invoice, NEW r \in AttestRecord, NEW w \in {"confirmed", "rejected"},
         r.status = IF w = "confirmed" THEN "Confirmed" ELSE "Rejected",
         attested' = [attested EXCEPT ![id] = r], lastWord' = [lastWord EXCEPT ![id] = w],
         UNCHANGED <<listedAs, attestNow>>
  PROVE  AttestInv'
<1>1. attested'[id] = r /\ lastWord'[id] = w
      /\ \A i \in Invoice \ {id} : attested'[i] = attested[i] /\ lastWord'[i] = lastWord[i]
  BY DEF AttestInv
<1>2. attested' \in [Invoice -> AttestRecord] /\ lastWord' \in [Invoice -> {"none", "confirmed", "rejected"}]
  BY DEF AttestInv
<1>3. QED
  BY <1>1, <1>2 DEF AttestInv

LEMMA AttestKept ==
  ASSUME AttestInv, [Attestation!Next]_attestVars
  PROVE  AttestInv'
<1>1. CASE \E d \in Debtor, id \in Invoice, a \in ClaimAmounts, e \in Expiries, r \in Relay \union {Nobody} :
             Attestation!StoreRecord(id, d, a, e, r)
  <2>1. PICK d \in Debtor, id \in Invoice, a \in ClaimAmounts, e \in Expiries, p \in Relay \union {Nobody} :
               Attestation!StoreRecord(id, d, a, e, p)
    BY <1>1
  <2> DEFINE r == [status |-> "Confirmed", debtor |-> d, amount |-> a, expires |-> e, relay |-> p]
  <2>2. r \in AttestRecord /\ r.status = "Confirmed"
    BY WindowsOk DEF AttestRecord
  <2>3. /\ attested' = [attested EXCEPT ![id] = r] /\ lastWord' = [lastWord EXCEPT ![id] = "confirmed"]
        /\ UNCHANGED <<listedAs, attestNow>>
    BY <2>1 DEF Attestation!StoreRecord
  <2> HIDE DEF r
  <2>4. QED
    BY <2>2, <2>3, WordGiven
<1>2. CASE \E c \in Debtor \union Relay, id \in Invoice : Attestation!Reject(c, id)
  <2>1. PICK c \in Debtor \union Relay, id \in Invoice : Attestation!Reject(c, id)
    BY <1>2
  <2> DEFINE r == Attestation!Rejected(attested[id])
  <2>2. r \in AttestRecord /\ r.status = "Rejected"
    BY DEF AttestRecord, AttestInv, Attestation!Rejected
  <2>3. /\ attested' = [attested EXCEPT ![id] = r] /\ lastWord' = [lastWord EXCEPT ![id] = "rejected"]
        /\ UNCHANGED <<listedAs, attestNow>>
    BY <2>1 DEF Attestation!Reject
  <2> HIDE DEF r
  <2>4. QED
    BY <2>2, <2>3, WordGiven
<1>3. CASE \E id \in Invoice : Attestation!ListInvoice(id)
  BY <1>3 DEF Attestation!ListInvoice, AttestInv
<1>4. CASE UNCHANGED <<attested, lastWord, listedAs>> /\ attestNow' \in Int
  BY <1>4 DEF AttestInv
<1>5. CASE \E d \in Debtor, id \in Invoice, a \in ClaimAmounts, e \in Expiries, n \in Nonces :
             Attestation!Attest(d, id, a, e, n) \/ \E r \in Relay : Attestation!AttestViaRelay(r, d, id, a, e, n)
  BY <1>1, <1>5 DEF Attestation!Attest, Attestation!AttestViaRelay
<1>6. CASE \/ \E n \in Ages : Attestation!SetMaxAttestationAge(n)
           \/ \E r \in Relay : Attestation!AddRelay(r) \/ Attestation!RemoveRelay(r)
           \/ \E b \in BOOLEAN : Attestation!SetDebtorAttestation(b)
           \/ Attestation!Tick \/ UNCHANGED attestVars
  BY <1>4, <1>6 DEF AttestInv, attestVars, Attestation!SetMaxAttestationAge, Attestation!AddRelay,
       Attestation!RemoveRelay, Attestation!SetDebtorAttestation, Attestation!Tick
<1>7. QED
  BY <1>2, <1>3, <1>5, <1>6 DEF Attestation!Next

LEMMA GateKept ==
  ASSUME AttestInv, AttestInv', [Attestation!Next]_attestVars
  PROVE  Attestation!GateStep
<1>1. Attestation!RejectionStands'
  BY DEF AttestInv, Attestation!RejectionStands, Attestation!AttestationStatus
<1>2. ASSUME NEW id \in Invoice, listedAs'[id] # listedAs[id], listedAs'[id] = "attested"
      PROVE  lastWord[id] = "confirmed" /\ attested[id].amount = FaceValue[id]
             /\ Attestation!AttestationStatus(id) = "Confirmed"
  <2>1. PICK i \in Invoice : Attestation!ListInvoice(i)
    BY <1>2 DEF Attestation!Next, attestVars, Attestation!SetMaxAttestationAge, Attestation!AddRelay,
         Attestation!RemoveRelay, Attestation!SetDebtorAttestation, Attestation!Tick, Attestation!Attest,
         Attestation!AttestViaRelay, Attestation!StoreRecord, Attestation!Reject
  <2>2. i = id /\ id \in HighRisk /\ wired /\ Attestation!RequireDebtorAttestationIfNeeded(id)
    BY <1>2, <2>1 DEF Attestation!ListInvoice, AttestInv
  <2>3. QED
    BY <2>2 DEF Attestation!RequireDebtorAttestationIfNeeded, Attestation!IsConfirmed, AttestInv,
         Attestation!AttestationStatus, AttestRecord
<1>3. QED
  BY <1>1, <1>2 DEF Attestation!GateStep

-----------------------------------------------------------------------------
(* verifier_nomination.  The total of a nomination is the sum of the       *)
(* stakes behind it, and what takes a stake out first ends eligibility.    *)

NomRecord == [candidate : Candidate, total : Int, created : Int, selected : Int,
              status : {"Open", "Selected", "Accepted", "Declined", "Expired"}]
StakeTable == [Supporter -> Int]

Backed(n, g) ==
  /\ n.total = SumOver(g, Supporter)
  /\ n.status \in {"Selected", "Accepted"} => n.total >= MinimumStake

NomRecords(ns, ss) ==
  /\ ns \in Seq(NomRecord) /\ ss \in Seq(StakeTable) /\ Len(ss) = Len(ns)
  /\ \A id \in 1..Len(ns) : Backed(ns[id], ss[id])

NomInv == NomRecords(nominations, support) /\ nomNow \in Int

LEMMA NomAt ==
  ASSUME NEW ns, NEW ss, NomRecords(ns, ss), NEW id \in DOMAIN ns
  PROVE  id \in 1..Len(ns) /\ ns[id] \in NomRecord /\ ss[id] \in StakeTable /\ Backed(ns[id], ss[id])
<1>1. id \in 1..Len(ns) /\ id \in 1..Len(ss) /\ ns \in Seq(NomRecord) /\ ss \in Seq(StakeTable)
  BY DEF NomRecords
<1>2. ns[id] \in NomRecord
  BY <1>1
<1>3. ss[id] \in StakeTable
  BY <1>1
<1>4. QED
  BY <1>1, <1>2, <1>3 DEF NomRecords

LEMMA NomChanged ==
  ASSUME NEW ns, NEW ss, NomRecords(ns, ss), NEW id \in DOMAIN ns,
         NEW r \in NomRecord, NEW g \in StakeTable, Backed(r, g)
  PROVE  NomRecords([ns EXCEPT ![id] = r], [ss EXCEPT ![id] = g])
<1> DEFINE nt == [ns EXCEPT ![id] = r]
           st == [ss EXCEPT ![id] = g]
<1>1. id \in 1..Len(ns) /\ id \in 1..Len(ss) /\ ns \in Seq(NomRecord) /\ ss \in Seq(StakeTable) /\ Len(ss) = Len(ns)
  BY DEF NomRecords
<1>2. nt \in Seq(NomRecord) /\ Len(nt) = Len(ns)
  BY <1>1
<1>3. st \in Seq(StakeTable) /\ Len(st) = Len(ss)
  BY <1>1
<1>4. ASSUME NEW i \in 1..Len(ns) PROVE Backed(nt[i], st[i])
  <2>1. CASE i = id
    BY <1>1, <2>1
  <2>2. CASE i # id
    <3>1. nt[i] = ns[i] /\ st[i] = ss[i]
      BY <1>1, <2>2
    <3>2. QED
      BY <3>1 DEF NomRecords
  <2>3. QED
    BY <2>1, <2>2
<1> HIDE DEF nt, st
<1>5. NomRecords(nt, st)
  BY <1>1, <1>2, <1>3, <1>4 DEF NomRecords
<1>6. QED
  BY <1>5 DEF nt, st

LEMMA NomAdded ==
  ASSUME NEW ns, NEW ss, NomRecords(ns, ss), NEW r \in NomRecord, NEW g \in StakeTable, Backed(r, g)
  PROVE  NomRecords(Append(ns, r), Append(ss, g)) /\ Len(ns) + 1 \in DOMAIN Append(ns, r)
         /\ Append(ns, r)[Len(ns) + 1] = r /\ Append(ss, g)[Len(ns) + 1] = g
<1> DEFINE nt == Append(ns, r)
           st == Append(ss, g)
<1>1. ns \in Seq(NomRecord) /\ ss \in Seq(StakeTable) /\ Len(ss) = Len(ns) /\ Len(ns) \in Nat
  BY DEF NomRecords
<1>2. nt \in Seq(NomRecord) /\ Len(nt) = Len(ns) + 1 /\ nt[Len(ns) + 1] = r /\ \A i \in 1..Len(ns) : nt[i] = ns[i]
  BY <1>1
<1>3. st \in Seq(StakeTable) /\ Len(st) = Len(ns) + 1 /\ st[Len(ns) + 1] = g /\ \A i \in 1..Len(ns) : st[i] = ss[i]
  BY <1>1
<1> HIDE DEF nt, st
<1>4. ASSUME NEW i \in 1..Len(nt) PROVE Backed(nt[i], st[i])
  <2>1. CASE i = Len(ns) + 1
    BY <1>2, <1>3, <2>1
  <2>2. CASE i # Len(ns) + 1
    <3>1. i \in 1..Len(ns)
      BY <1>1, <1>2, <2>2
    <3>2. QED
      BY <1>2, <1>3, <3>1 DEF NomRecords
  <2>3. QED
    BY <2>1, <2>2
<1>5. NomRecords(nt, st)
  BY <1>1, <1>2, <1>3, <1>4 DEF NomRecords
<1>6. Len(ns) + 1 \in DOMAIN nt
  BY <1>1, <1>2
<1>7. QED
  BY <1>2, <1>3, <1>5, <1>6 DEF nt, st

(* A stake given, or taken back: the record r has it in its total.         *)
LEMMA StakeMoves ==
  ASSUME NEW ns, NEW ss, NomRecords(ns, ss), NEW id \in DOMAIN ns, NEW s \in Supporter, NEW n \in Int,
         NEW r \in NomRecord, r.total = ns[id].total + n,
         r.status \in {"Selected", "Accepted"} => r.status = ns[id].status /\ n >= 0
  PROVE  NomRecords([ns EXCEPT ![id] = r], [ss EXCEPT ![id] = [ss[id] EXCEPT ![s] = ss[id][s] + n]])
<1> DEFINE g == [ss[id] EXCEPT ![s] = ss[id][s] + n]
<1>1. ns[id] \in NomRecord /\ ss[id] \in StakeTable /\ Backed(ns[id], ss[id])
  BY NomAt
<1>2. ss[id][s] \in Int /\ \A x \in Supporter : ss[id][x] \in Int
  BY <1>1 DEF StakeTable
<1>3. g \in StakeTable /\ g[s] = ss[id][s] + n /\ \A x \in Supporter \ {s} : g[x] = ss[id][x]
  BY <1>1, <1>2 DEF StakeTable
<1> HIDE DEF g
<1>4. SumOver(g, Supporter) = SumOver(ss[id], Supporter) + n
  BY <1>2, <1>3, SumGrows, FinitelyMany
<1>5. ns[id].total \in Int /\ MinimumStake \in Int
  BY <1>1, StakesOk DEF NomRecord
<1>6. Backed(r, g)
  BY <1>1, <1>4, <1>5 DEF Backed
<1>7. NomRecords([ns EXCEPT ![id] = r], [ss EXCEPT ![id] = g])
  BY <1>3, <1>6, NomChanged
<1>8. QED
  BY <1>7 DEF g

LEMMA StakedKept ==
  ASSUME NEW ns, NEW ss, NomRecords(ns, ss), NEW id \in DOMAIN ns, NEW s \in Supporter, NEW a \in Amounts,
         Nomination!Staked(ns, ss, id, s, a)
  PROVE  NomRecords(nominations, support)'
<1> DEFINE r == [ns[id] EXCEPT !.total = @ + a]
<1>1. ns[id] \in NomRecord /\ ss[id] \in StakeTable /\ a \in Int /\ ns[id].status = "Open"
  <2>1. a \in Int
    BY StakesOk
  <2>2. QED
    BY <2>1, NomAt DEF Nomination!Staked
<1>2. r \in NomRecord /\ r.total = ns[id].total + a /\ r.status = "Open"
  BY <1>1 DEF NomRecord
<1>3. nominations' = [ns EXCEPT ![id] = r]
  BY DEF Nomination!Staked
<1>4. support' = [ss EXCEPT ![id] = [ss[id] EXCEPT ![s] = ss[id][s] + a]]
  BY DEF Nomination!Staked
<1> HIDE DEF r
<1>5. QED
  BY <1>1, <1>2, <1>3, <1>4, StakeMoves

LEMMA NomineeAdded ==
  ASSUME NomInv, NEW s \in Supporter, NEW c \in Candidate, NEW a \in Amounts, Nomination!Nominate(s, c, a)
  PROVE  NomInv'
<1> DEFINE r == [candidate |-> c, total |-> 0, created |-> nomNow, selected |-> 0, status |-> "Open"]
           g == [x \in Supporter |-> 0]
<1>1. nominations \in Seq(NomRecord) /\ Len(nominations) + 1 \in Nat
  BY DEF NomInv, NomRecords
<1>2. r \in NomRecord /\ r.total = 0 /\ r.status = "Open"
  BY DEF NomRecord, NomInv
<1>3. g \in StakeTable /\ \A x \in Supporter : g[x] = 0
  BY DEF StakeTable
<1>4. Nomination!Staked(Append(nominations, r), Append(support, g), Len(nominations) + 1, s, a) /\ nomNow' = nomNow
  BY DEF Nomination!Nominate
<1> HIDE DEF r, g
<1>5. SumOver(g, Supporter) = 0
  BY <1>3, SumZero, FinitelyMany
<1>6. Backed(r, g)
  BY <1>2, <1>5 DEF Backed
<1>7. NomRecords(Append(nominations, r), Append(support, g)) /\ Len(nominations) + 1 \in DOMAIN Append(nominations, r)
  BY <1>2, <1>3, <1>6, NomAdded DEF NomInv
<1>8. NomRecords(nominations, support)'
  BY <1>4, <1>7, StakedKept
<1>9. QED
  BY <1>4, <1>8 DEF NomInv

(* The status alone changes; who becomes eligible is backed.               *)
LEMMA StatusMoves ==
  ASSUME NomInv, NEW id \in DOMAIN nominations, NEW r \in NomRecord,
         r.total = nominations[id].total, nominations' = [nominations EXCEPT ![id] = r],
         r.status \in {"Selected", "Accepted"} => r.total >= MinimumStake,
         support' = support, nomNow' = nomNow
  PROVE  NomInv'
<1>1. /\ nominations[id] \in NomRecord /\ support[id] \in StakeTable /\ Backed(nominations[id], support[id])
  BY NomAt DEF NomInv
<1>2. Backed(r, support[id])
  BY <1>1 DEF Backed
<1>3. support \in Seq(StakeTable) /\ id \in DOMAIN support
  BY NomAt DEF NomInv, NomRecords
<1>4. [support EXCEPT ![id] = support[id]] = support
  BY <1>3
<1>5. NomRecords([nominations EXCEPT ![id] = r], [support EXCEPT ![id] = support[id]])
  BY <1>1, <1>2, NomChanged DEF NomInv
<1>6. QED
  BY <1>4, <1>5 DEF NomInv

LEMMA NomKept ==
  ASSUME NomInv, [Nomination!Next]_nomVars
  PROVE  NomInv'
<1>1. CASE \E s \in Supporter, c \in Candidate, a \in Amounts : Nomination!Nominate(s, c, a)
  BY <1>1, NomineeAdded
<1>2. CASE \E s \in Supporter, id \in DOMAIN nominations, a \in Amounts : Nomination!Stake(s, id, a)
  BY <1>2, StakedKept DEF Nomination!Stake, NomInv
<1>3. CASE \E s \in Supporter, id \in DOMAIN nominations : Nomination!Withdraw(s, id)
  <2>1. PICK s \in Supporter, id \in DOMAIN nominations : Nomination!Withdraw(s, id)
    BY <1>3
  <2> DEFINE n == nominations[id]
             a == support[id][s]
             st == Nomination!AfterWithdrawal(n)
             r == [n EXCEPT !.total = n.total - a, !.status = st]
  <2>2. n \in NomRecord /\ support[id] \in StakeTable /\ a \in Int
    BY NomAt DEF NomInv, StakeTable
  <2>3. st \in {"Declined", "Expired"}
    BY <2>1, <2>2 DEF Nomination!Withdraw, Nomination!Withdrawable, Nomination!AfterWithdrawal,
         Nomination!Stale, Nomination!SelectionExpired
  <2>4. /\ nominations' = [nominations EXCEPT ![id] = r] /\ nomNow' = nomNow
        /\ support' = [support EXCEPT ![id] = [support[id] EXCEPT ![s] = 0]]
    BY <2>1 DEF Nomination!Withdraw
  <2>5. -a \in Int /\ n.total - a = n.total + (-a) /\ support[id][s] + (-a) = 0 /\ n.total - a \in Int
    BY <2>2 DEF NomRecord
  <2> HIDE DEF st
  <2>6. r \in NomRecord /\ r.total = n.total + (-a) /\ r.status = st
    <3> DEFINE t  == n.total - a
               r1 == [n EXCEPT !.total = t]
               r2 == [r1 EXCEPT !.status = st]
    <3>1. r = r2 /\ t \in Int /\ t = n.total + (-a)
      BY <2>5
    <3> HIDE DEF t, r
    <3>2. r1 \in NomRecord /\ r1.total = t
      BY <2>2, <3>1 DEF NomRecord
    <3> HIDE DEF r1
    <3>3. r2 \in NomRecord /\ r2.total = t /\ r2.status = st
      BY <2>3, <3>2 DEF NomRecord
    <3>4. QED
      BY <3>1, <3>3
  <2> HIDE DEF r
  <2>7. NomRecords([nominations EXCEPT ![id] = r], [support EXCEPT ![id] = [support[id] EXCEPT ![s] = support[id][s] + (-a)]])
    BY <2>3, <2>5, <2>6, StakeMoves DEF NomInv
  <2>8. QED
    BY <2>4, <2>5, <2>7 DEF NomInv
<1>4. CASE \E c \in Candidate, id \in DOMAIN nominations, st \in {"Accepted", "Declined"} : Nomination!Answer(c, id, st)
  <2>1. PICK c \in Candidate, id \in DOMAIN nominations, st \in {"Accepted", "Declined"} : Nomination!Answer(c, id, st)
    BY <1>4
  <2> DEFINE n == nominations[id]
             r == [n EXCEPT !.status = st]
  <2>2. n \in NomRecord /\ n.total >= MinimumStake
    BY <2>1, NomAt DEF NomInv, Backed, Nomination!Answer
  <2>3. r \in NomRecord /\ r.total = n.total
    BY <2>2 DEF NomRecord
  <2>4. nominations' = [nominations EXCEPT ![id] = r] /\ support' = support /\ nomNow' = nomNow
    BY <2>1 DEF Nomination!Answer
  <2> HIDE DEF r
  <2>5. QED
    BY <2>2, <2>3, <2>4, StatusMoves
<1>5. CASE Nomination!SelectCandidate
  <2>1. PICK id \in Nomination!Winner :
          /\ nominations' = [nominations EXCEPT ![id].status = "Selected", ![id].selected = nomNow]
          /\ support' = support /\ nomNow' = nomNow
    BY <1>5 DEF Nomination!SelectCandidate
  <2> DEFINE n  == nominations[id]
             r1 == [n EXCEPT !.status = "Selected"]
             r  == [r1 EXCEPT !.selected = nomNow]
  <2>2. id \in DOMAIN nominations /\ n.total >= MinimumStake
    BY <2>1 DEF Nomination!Winner, Nomination!Selectable
  <2>3. n \in NomRecord /\ nominations \in Seq(NomRecord)
    BY <2>2, NomAt DEF NomInv, NomRecords
  <2>4. nominations' = [nominations EXCEPT ![id] = r]
    BY <2>1, <2>2, <2>3
  <2>5. r1 \in NomRecord /\ r1.total = n.total
    BY <2>3 DEF NomRecord
  <2> HIDE DEF r1
  <2>6. r \in NomRecord /\ r.total = n.total
    BY <2>5 DEF NomRecord, NomInv
  <2> HIDE DEF r
  <2>7. QED
    BY <2>1, <2>2, <2>4, <2>6, StatusMoves
<1>6. CASE Nomination!Tick \/ UNCHANGED nomVars
  BY <1>6 DEF Nomination!Tick, nomVars, NomInv
<1>7. QED
  BY <1>1, <1>2, <1>3, <1>4, <1>5, <1>6 DEF Nomination!Next, Nomination!AcceptOnboarding, Nomination!DeclineOnboarding

LEMMA NomStarts ==
  ASSUME Nomination!Init
  PROVE  NomInv
<1>1. nominations = <<>> /\ support = <<>> /\ nomNow = 0
  BY DEF Nomination!Init
<1>2. QED
  BY <1>1 DEF NomInv, NomRecords

LEMMA NomSound ==
  ASSUME NomInv
  PROVE  Nomination!BackedWhileEligible
<1>1. SUFFICES ASSUME NEW id \in DOMAIN nominations
               PROVE  /\ nominations[id].total = SumOver(support[id], Supporter)
                      /\ nominations[id].status \in {"Selected", "Accepted"} => nominations[id].total >= MinimumStake
  BY SameSum DEF Nomination!BackedWhileEligible
<1>2. QED
  BY NomAt DEF NomInv, Backed

-----------------------------------------------------------------------------
(* The theorems                                                            *)

DisputesInv == EscrowInv /\ CaseTypes /\ AttestInv /\ NomInv

LEMMA DisputesKept ==
  ASSUME DisputesInv, [DisputesNext]_disputesVars
  PROVE  DisputesInv' /\ Escrow!ResolvedStep /\ Cases!VerdictStep /\ Attestation!GateStep
<1>1. /\ [Escrow!Next]_escrowVars /\ [Cases!Next]_caseVars
      /\ [Nomination!Next]_nomVars /\ [Attestation!Next]_attestVars
  BY DEF DisputesNext, EscrowStep, CaseStep, NomStep, AttestStep, disputesVars, escrowVars, caseVars, nomVars, attestVars
<1>2. EscrowInv' /\ Escrow!ResolvedStep
  <2>1. CASE Escrow!Next
    BY <2>1, EscrowKept, DisputeStays, <1>1 DEF DisputesInv
  <2>2. CASE UNCHANGED escrowVars
    <3>1. escrow' = escrow /\ loan' = loan /\ escrowTokens' = escrowTokens /\ stopped' \in BOOLEAN /\ escrowNow' \in Int
      BY <2>2 DEF escrowVars, DisputesInv, EscrowInv, EscrowTypes
    <3>2. QED
      BY <1>1, <3>1, EscrowUntouched, DisputeStays DEF DisputesInv
  <2>3. QED
    BY <1>1, <2>1, <2>2
<1>3. CaseTypes' /\ Cases!VerdictStep
  BY <1>1, CasesKept DEF DisputesInv
<1>4. NomInv'
  BY <1>1, NomKept DEF DisputesInv
<1>5. AttestInv' /\ Attestation!GateStep
  BY <1>1, AttestKept, GateKept DEF DisputesInv
<1>6. QED
  BY <1>2, <1>3, <1>4, <1>5 DEF DisputesInv

LEMMA DisputesStart == DisputesInit => DisputesInv
BY EscrowStarts, CasesStart, AttestStarts, NomStarts DEF DisputesInit, DisputesInv

(* The escrow holds exactly the payments of the open disputes, the pool    *)
(* reserves the same for each and leaves that debt as it was; a nomination *)
(* counts the stakes behind it, and a selected or accepted candidate is    *)
(* backed by the minimum (open_dispute, settle, resolve_timeout; stake,    *)
(* withdraw_support, select_candidate).                                    *)
THEOREM HeldAlwaysMatches == DisputesSpec => []HeldMatchesRecords
<1>1. DisputesInv => HeldMatchesRecords
  BY EscrowSound, NomSound DEF DisputesInv, HeldMatchesRecords
<1>2. DisputesInv /\ [DisputesNext]_disputesVars => DisputesInv'
  BY DisputesKept
<1>3. QED
  BY <1>1, <1>2, DisputesStart, PTL DEF DisputesSpec

(* A resolved escrow dispute keeps its outcome, its reservation gone; a    *)
(* case is judged in its window by a signer of that moment, and then stays *)
(* as it is (resolve_dispute of both contracts, resolve_timeout).          *)
THEOREM OutcomesAlwaysStand == DisputesSpec => OutcomesStand
<1>1. DisputesInv /\ [DisputesNext]_disputesVars => DisputesInv'
  BY DisputesKept
<1>2. DisputesInv /\ [DisputesNext]_disputesVars => [Escrow!ResolvedStep]_escrowVars /\ [Cases!VerdictStep]_caseVars
  BY DisputesKept
<1>3. QED
  BY <1>1, <1>2, DisputesStart, PTL DEF DisputesSpec, OutcomesStand

(* What passes the marketplace's gate is confirmed at that moment, for its *)
(* face value, by the latest word given; a rejection stands until somebody *)
(* attests anew (attest, attest_via_relay, reject, is_confirmed).          *)
THEOREM GateAlwaysHolds == DisputesSpec => GateHolds
<1>1. DisputesInv /\ [DisputesNext]_disputesVars => DisputesInv'
  BY DisputesKept
<1>2. DisputesInv /\ [DisputesNext]_disputesVars => [Attestation!GateStep]_attestVars
  BY DisputesKept
<1>3. QED
  BY <1>1, <1>2, DisputesStart, PTL DEF DisputesSpec, GateHolds


(***************************************************************************)
(* The decisions of votes, signers and time.                               *)
(***************************************************************************)

(* Facts about lists that only grow, or in which one entry changes.        *)
LEMMA ListGrows ==
  ASSUME NEW R, NEW q \in Seq(R), NEW r \in R
  PROVE  /\ Append(q, r) \in Seq(R) /\ Len(Append(q, r)) = Len(q) + 1
         /\ \A id \in DOMAIN q : Append(q, r)[id] = q[id]
         /\ Append(q, r)[Len(q) + 1] = r
         /\ DOMAIN Append(q, r) = DOMAIN q \union {Len(q) + 1}
OBVIOUS

LEMMA ListChanges ==
  ASSUME NEW R, NEW q \in Seq(R), NEW id \in DOMAIN q, NEW r \in R
  PROVE  /\ [q EXCEPT ![id] = r] \in Seq(R) /\ Len([q EXCEPT ![id] = r]) = Len(q)
         /\ DOMAIN [q EXCEPT ![id] = r] = DOMAIN q
         /\ [q EXCEPT ![id] = r][id] = r
         /\ \A o \in DOMAIN q : o # id => [q EXCEPT ![id] = r][o] = q[o]
OBVIOUS

LEMMA ListEntry ==
  ASSUME NEW R, NEW q \in Seq(R)
  PROVE  /\ Len(q) \in Nat /\ DOMAIN q = 1..Len(q)
         /\ \A id \in DOMAIN q : q[id] \in R
OBVIOUS

-----------------------------------------------------------------------------
(* The shared timelock.  What ran is marked executed, and stays so.        *)

UpgradeRecord == [code : Codes, proposer : Proposers, proposedAt : Int, executed : BOOLEAN, cancelled : BOOLEAN]

UpgradesTypes ==
  /\ upgrades \in Seq(UpgradeRecord) /\ running \in Seq(Nat)
  /\ delay \in Int /\ lockNow \in Int

RunningExecuted ==
  \A k \in DOMAIN running : running[k] \in DOMAIN upgrades /\ upgrades[running[k]].executed

UpgradesInv == UpgradesTypes /\ RunningExecuted

LEMMA UpgradesStart ==
  ASSUME Lock!Init
  PROVE  UpgradesInv
BY DEF Lock!Init, UpgradesInv, UpgradesTypes, RunningExecuted

LEMMA UpgradeExecuted ==
  ASSUME UpgradesInv, NEW id \in DOMAIN upgrades, Lock!Execute(id)
  PROVE  UpgradesInv' /\ Lock!RunsOnceStep
<1> DEFINE u == upgrades[id]
           r == [u EXCEPT !.executed = TRUE]
<1>1. /\ upgrades \in Seq(UpgradeRecord) /\ running \in Seq(Nat) /\ u \in UpgradeRecord /\ id \in Nat
      /\ delay \in Int /\ lockNow \in Int
  BY ListEntry DEF UpgradesInv, UpgradesTypes
<1>2. r \in UpgradeRecord /\ r.executed
  BY <1>1 DEF UpgradeRecord
<1>3. /\ ~u.cancelled /\ ~u.executed /\ lockNow >= u.proposedAt + Lock!GetDelay
      /\ upgrades' = [upgrades EXCEPT ![id] = r] /\ running' = Append(running, id)
      /\ delay' = delay /\ lockNow' = lockNow
  BY DEF Lock!Execute, Lock!PrepareExecute, Lock!MarkExecuted, Lock!ExecutableAt
<1> HIDE DEF r
<1>4. /\ upgrades' \in Seq(UpgradeRecord) /\ DOMAIN upgrades' = DOMAIN upgrades /\ upgrades'[id] = r
      /\ \A o \in DOMAIN upgrades : o # id => upgrades'[o] = upgrades[o]
  BY <1>1, <1>2, <1>3, ListChanges
<1>5. /\ running' \in Seq(Nat) /\ Len(running') = Len(running) + 1
      /\ \A k \in DOMAIN running : running'[k] = running[k]
      /\ running'[Len(running) + 1] = id /\ DOMAIN running' = DOMAIN running \union {Len(running) + 1}
  BY <1>1, <1>3, ListGrows
<1>6. UpgradesInv'
  BY <1>1, <1>2, <1>3, <1>4, <1>5 DEF UpgradesInv, UpgradesTypes, RunningExecuted
<1>7. \A o \in DOMAIN upgrades : upgrades[o].executed \/ upgrades[o].cancelled => upgrades'[o] = upgrades[o]
  BY <1>3, <1>4
<1>8. \A k \in DOMAIN running : running[k] # id
  BY <1>3 DEF UpgradesInv, RunningExecuted
<1>9. lockNow - u.proposedAt >= Lock!GetDelay
  <2>1. u.proposedAt \in Int /\ Lock!GetDelay \in Int
    BY <1>1, TimelockOk DEF UpgradeRecord, Lock!GetDelay
  <2> DEFINE m == u.proposedAt
             d == Lock!GetDelay
  <2>2. m \in Int /\ d \in Int /\ lockNow \in Int /\ lockNow >= m + d
    BY <1>1, <1>3, <2>1
  <2> HIDE DEF m, d
  <2>3. lockNow - m >= d
    BY <2>2
  <2>4. QED
    BY <2>3 DEF m, d
<1>10. QED
  BY <1>3, <1>5, <1>6, <1>7, <1>8, <1>9 DEF Lock!RunsOnceStep

LEMMA UpgradesKept ==
  ASSUME UpgradesInv, [Lock!Next]_lockVars
  PROVE  UpgradesInv' /\ Lock!RunsOnceStep
<1>1. CASE \E id \in DOMAIN upgrades : Lock!Execute(id)
  BY <1>1, UpgradeExecuted
<1>2. CASE \E id \in DOMAIN upgrades : Lock!CancelUpgrade(id)
  <2>1. PICK id \in DOMAIN upgrades : Lock!CancelUpgrade(id)
    BY <1>2
  <2> DEFINE r == [upgrades[id] EXCEPT !.cancelled = TRUE]
  <2>2. upgrades \in Seq(UpgradeRecord) /\ upgrades[id] \in UpgradeRecord
    BY ListEntry DEF UpgradesInv, UpgradesTypes
  <2>3. r \in UpgradeRecord /\ r.executed = upgrades[id].executed
    BY <2>2 DEF UpgradeRecord
  <2>4. /\ ~upgrades[id].executed /\ ~upgrades[id].cancelled
        /\ upgrades' = [upgrades EXCEPT ![id] = r] /\ UNCHANGED <<delay, running, lockNow>>
    BY <2>1 DEF Lock!CancelUpgrade
  <2> HIDE DEF r
  <2>5. /\ upgrades' \in Seq(UpgradeRecord) /\ DOMAIN upgrades' = DOMAIN upgrades /\ upgrades'[id] = r
        /\ \A o \in DOMAIN upgrades : o # id => upgrades'[o] = upgrades[o]
    BY <2>2, <2>3, <2>4, ListChanges
  <2>6. QED
    BY <2>3, <2>4, <2>5 DEF UpgradesInv, UpgradesTypes, RunningExecuted, Lock!RunsOnceStep
<1>3. CASE \E a \in Proposers, code \in Codes : Lock!ProposeUpgrade(a, code)
  <2>1. PICK a \in Proposers, code \in Codes : Lock!ProposeUpgrade(a, code)
    BY <1>3
  <2> DEFINE r == [code |-> code, proposer |-> a, proposedAt |-> lockNow, executed |-> FALSE, cancelled |-> FALSE]
  <2>2. r \in UpgradeRecord /\ upgrades \in Seq(UpgradeRecord)
    BY DEF UpgradesInv, UpgradesTypes, UpgradeRecord
  <2>3. upgrades' = Append(upgrades, r) /\ UNCHANGED <<delay, running, lockNow>>
    BY <2>1 DEF Lock!ProposeUpgrade
  <2> HIDE DEF r
  <2>4. /\ upgrades' \in Seq(UpgradeRecord) /\ DOMAIN upgrades \subseteq DOMAIN upgrades'
        /\ \A o \in DOMAIN upgrades : upgrades'[o] = upgrades[o]
    BY <2>2, <2>3, ListGrows
  <2>5. QED
    BY <2>3, <2>4 DEF UpgradesInv, UpgradesTypes, RunningExecuted, Lock!RunsOnceStep
<1>4. CASE (\E d \in Delays : Lock!SetDelay(d)) \/ Lock!Tick \/ UNCHANGED lockVars
  <2>1. upgrades' = upgrades /\ running' = running /\ delay' \in Int /\ lockNow' \in Int
    BY <1>4, TimelockOk DEF Lock!SetDelay, Lock!Tick, lockVars, UpgradesInv, UpgradesTypes
  <2>2. QED
    BY <2>1 DEF UpgradesInv, UpgradesTypes, RunningExecuted, Lock!RunsOnceStep
<1>5. QED
  BY <1>1, <1>2, <1>3, <1>4 DEF Lock!Next

-----------------------------------------------------------------------------
(* The marketplace's settings.  Only types are needed: each guard is the   *)
(* step's own.                                                             *)

Action == Settings!Actions
ActRecord == [action : Action, approvals : SUBSET Account, executed : BOOLEAN]
ListedRecord == [usable : SUBSET Tokens, list : SUBSET Tokens, at : [Tokens -> Int], priced : SUBSET Tokens]

SetTypes ==
  /\ acts \in Seq(ActRecord) /\ listed \in ListedRecord
  /\ reported \in [signers : SUBSET Account, threshold : Nat] /\ mktNow \in Int

LEMMA SetStarts ==
  ASSUME Settings!Init
  PROVE  SetTypes
<1>1. acts \in Seq(ActRecord) /\ mktNow \in Int
  BY DEF Settings!Init
<1>2. listed \in ListedRecord
  BY DEF Settings!Init, ListedRecord
<1>3. reported \in [signers : SUBSET Account, threshold : Nat]
  BY DEF Settings!Init, Settings!NoSigners
<1>4. QED
  BY <1>1, <1>2, <1>3 DEF SetTypes

(* What an action that was decided does, and what it leaves alone.         *)
LEMMA Enacted ==
  ASSUME SetTypes, NEW act \in Action, Settings!Enact(act)
  PROVE  /\ listed' \in ListedRecord
         /\ rates' # rates => act.type \in {"SetFeeBps", "SetReferrerSplitBps", "SetTierFeeBps"}
         /\ codeAt' # codeAt => act.type \in {"ProposeUpgrade", "ExecuteUpgrade"}
         /\ listed'.usable \subseteq listed.usable \/ act.type = "WhitelistToken"
<1>1. CASE \/ act.type \in {"SetFeeBps", "SetReferrerSplitBps", "SetTierFeeBps"} /\ UNCHANGED <<listed, codeAt>>
           \/ act.type \in {"ProposeUpgrade", "ExecuteUpgrade"} /\ UNCHANGED <<listed, rates>>
  BY <1>1 DEF SetTypes, ListedRecord
<1>2. CASE act.type = "WhitelistToken" /\ Settings!ApplyWhitelistToken(act.token)
  <2>1. act.token \in Tokens
    BY <1>2 DEF Action, Settings!Actions
  <2>2. QED
    BY <1>2, <2>1 DEF Settings!ApplyWhitelistToken, SetTypes, ListedRecord
<1>3. CASE act.type = "RemoveTokenWhitelist" /\ Settings!ApplyRemoveTokenWhitelist(act.token)
  BY <1>3 DEF Settings!ApplyRemoveTokenWhitelist, SetTypes, ListedRecord
<1>4. QED
  BY <1>1, <1>2, <1>3 DEF Settings!Enact, Settings!ApplySetFeeBps, Settings!ApplySetReferrerSplitBps,
       Settings!ApplySetTierFeeBps, Settings!ApplyProposeUpgrade, Settings!ApplyExecuteUpgrade

LEMMA ActionExecuted ==
  ASSUME SetTypes, NEW a \in Account, NEW id \in DOMAIN acts, Settings!ExecuteAdminAction(a, id)
  PROVE  SetTypes' /\ Settings!SettingsGuardedStep
<1> DEFINE r == [acts[id] EXCEPT !.executed = TRUE]
<1>1. acts[id] \in ActRecord /\ acts \in Seq(ActRecord)
  BY ListEntry DEF SetTypes
<1>2. acts[id].action \in Action /\ r \in ActRecord /\ r.executed
  BY <1>1 DEF ActRecord
<1>9. acts' = [acts EXCEPT ![id] = r]
  BY DEF Settings!ExecuteAdminAction
<1> HIDE DEF r
<1>3. /\ ~acts[id].executed /\ Settings!Cardinality(acts[id].approvals) >= reported.threshold
      /\ Settings!Enact(acts[id].action) /\ reported' = reported /\ mktNow' = mktNow
  BY DEF Settings!ExecuteAdminAction, Settings!outside
<1>4. acts' \in Seq(ActRecord) /\ acts'[id].executed
  BY <1>1, <1>2, <1>9, ListChanges
<1> DEFINE act == acts[id].action
<1>5. /\ listed' \in ListedRecord
      /\ rates' # rates => act.type \in {"SetFeeBps", "SetReferrerSplitBps", "SetTierFeeBps"}
      /\ codeAt' # codeAt => act.type \in {"ProposeUpgrade", "ExecuteUpgrade"}
      /\ listed'.usable \subseteq listed.usable \/ act.type = "WhitelistToken"
  BY <1>2, <1>3, Enacted
<1>6. SetTypes'
  BY <1>3, <1>4, <1>5 DEF SetTypes
<1>7. Settings!SettingsGuardedStep
  <2> DEFINE Done(kinds) ==
        \E i \in DOMAIN acts :
          /\ acts'[i].executed /\ ~acts[i].executed
          /\ acts[i].action.type \in kinds
          /\ Settings!Cardinality(acts[i].approvals) >= reported.threshold
  <2>1. \A kinds : act.type \in kinds => Done(kinds)
    BY <1>3, <1>4
  <2> HIDE DEF act, Done
  <2>2. /\ rates' # rates => Done({"SetFeeBps", "SetReferrerSplitBps", "SetTierFeeBps"})
        /\ codeAt' # codeAt => Done({"ProposeUpgrade", "ExecuteUpgrade"})
        /\ listed'.usable \ listed.usable # {} => Done({"WhitelistToken"})
    BY <1>5, <2>1
  <2>3. QED
    BY <2>2 DEF Done, Settings!SettingsGuardedStep
<1>8. QED
  BY <1>6, <1>7

(* What the admin does alone leaves the proposals alone; rates and code    *)
(* only while no larger quorum is reported.                                *)
LEMMA AdminActs ==
  ASSUME SetTypes, acts' = acts, reported' = reported, mktNow' \in Int, listed' \in ListedRecord,
         \/ UNCHANGED <<rates, codeAt>> \/ reported.threshold <= 1,
         \A t \in listed'.usable \ listed.usable : listed.at[t] # -1 /\ mktNow >= listed.at[t] + MktDelay
  PROVE  SetTypes' /\ Settings!SettingsGuardedStep
<1>1. reported.threshold \in Nat
  BY DEF SetTypes
<1>2. reported.threshold > 1 => UNCHANGED <<rates, codeAt>>
  BY <1>1
<1>3. QED
  BY <1>2 DEF SetTypes, Settings!SettingsGuardedStep

LEMMA SettingsCalls ==
  ASSUME SetTypes, Settings!Listing \/ Settings!Wiring \/ Settings!Tick \/ UNCHANGED setVars
  PROVE  SetTypes' /\ Settings!SettingsGuardedStep
<1>1. CASE Settings!Listing
  <2>1. PICK t \in Tokens : \/ Settings!ProposeTokenWhitelist(t) \/ Settings!ExecuteTokenWhitelist(t)
                            \/ Settings!RemoveTokenWhitelist(t) \/ Settings!SetTokenCurrency(t)
    BY <1>1 DEF Settings!Listing
  <2>2. UNCHANGED <<rates, codeAt, acts, reported, mktNow>>
    BY <2>1 DEF Settings!ProposeTokenWhitelist, Settings!ExecuteTokenWhitelist, Settings!RemoveTokenWhitelist,
         Settings!SetTokenCurrency, Settings!outside
  <2>3. listed \in ListedRecord /\ mktNow \in Int
    BY DEF SetTypes
  <2>4. CASE Settings!ProposeTokenWhitelist(t)
    <3>1. listed' \in ListedRecord /\ listed'.usable = listed.usable
      BY <2>3, <2>4 DEF Settings!ProposeTokenWhitelist, ListedRecord
    <3>2. QED
      BY <2>2, <2>3, <3>1, AdminActs
  <2>5. CASE Settings!ExecuteTokenWhitelist(t)
    <3> DEFINE r1 == [listed EXCEPT !.at[t] = -1]
               r2 == [r1 EXCEPT !.usable = @ \cup {t}]
               r3 == [r2 EXCEPT !.list = @ \cup {t}]
    <3>1. listed' = r3
      BY <2>5, Zenon DEF Settings!ExecuteTokenWhitelist
    <3>2. r1 \in ListedRecord /\ r1.usable = listed.usable
      BY <2>3 DEF ListedRecord
    <3> HIDE DEF r1
    <3>3. r2 \in ListedRecord /\ r2.usable = listed.usable \cup {t}
      BY <3>2 DEF ListedRecord
    <3> HIDE DEF r2
    <3>4. r3 \in ListedRecord /\ r3.usable = listed.usable \cup {t}
      BY <3>3 DEF ListedRecord
    <3>5. listed.at[t] # -1 /\ mktNow >= listed.at[t] + MktDelay
      BY <2>5 DEF Settings!ExecuteTokenWhitelist
    <3> HIDE DEF r3
    <3>6. QED
      BY <2>2, <2>3, <3>1, <3>4, <3>5, AdminActs
  <2>6. CASE Settings!RemoveTokenWhitelist(t)
    <3> DEFINE r1 == [listed EXCEPT !.usable = @ \ {t}]
               r2 == [r1 EXCEPT !.list = @ \ {t}]
    <3>1. listed' = r2
      BY <2>6, Zenon DEF Settings!RemoveTokenWhitelist
    <3>2. r1 \in ListedRecord /\ r1.usable = listed.usable \ {t}
      BY <2>3 DEF ListedRecord
    <3> HIDE DEF r1
    <3>3. r2 \in ListedRecord /\ r2.usable = listed.usable \ {t}
      BY <3>2 DEF ListedRecord
    <3> HIDE DEF r2
    <3>4. QED
      BY <2>2, <2>3, <3>1, <3>3, AdminActs
  <2>7. CASE Settings!SetTokenCurrency(t)
    <3>1. listed' \in ListedRecord /\ listed'.usable = listed.usable
      BY <2>3, <2>7 DEF Settings!SetTokenCurrency, ListedRecord
    <3>2. QED
      BY <2>2, <2>3, <3>1, AdminActs
  <2>8. QED
    BY <2>1, <2>4, <2>5, <2>6, <2>7
<1>2. CASE Settings!Wiring \/ Settings!Tick \/ UNCHANGED setVars
  <2>1. UNCHANGED <<rates, listed, codeAt, acts, reported>> /\ mktNow' \in Int
    <3>1. CASE Settings!Wiring
      <4>1. UNCHANGED <<rates, listed, codeAt, acts, reported, mktNow>>
        BY <3>1, Zenon DEF Settings!Wiring, Settings!outside, Settings!ExecuteDependencyUpdate,
             Settings!ProposeDependencyUpdate, Settings!SetDebtorAttestation
      <4>2. QED
        BY <4>1 DEF SetTypes
    <3>2. CASE Settings!Tick \/ UNCHANGED setVars
      BY <3>2 DEF Settings!Tick, setVars, Settings!settingVars, SetTypes
    <3>3. QED
      BY <1>2, <3>1, <3>2
  <2>2. listed' \in ListedRecord /\ listed'.usable = listed.usable
    BY <2>1 DEF SetTypes
  <2>3. QED
    BY <2>1, <2>2, AdminActs
<1>3. QED
  BY <1>1, <1>2

LEMMA SetKept ==
  ASSUME SetTypes, [Settings!Next]_setVars
  PROVE  SetTypes' /\ Settings!SettingsGuardedStep
<1>1. CASE \/ \E bps \in Rates : \/ Settings!SetFeeBps(bps) \/ Settings!SetReferrerSplitBps(bps)
                                 \/ \E n \in Tiers : Settings!SetTierFeeBps(n, bps)
           \/ Settings!ProposeUpgrade \/ Settings!ExecuteUpgrade
  <2>1. UNCHANGED <<listed, acts, reported, mktNow>> /\ reported.threshold <= 1
    BY <1>1 DEF Settings!SetFeeBps, Settings!SetReferrerSplitBps, Settings!SetTierFeeBps,
         Settings!ProposeUpgrade, Settings!ExecuteUpgrade, Settings!ApplySetFeeBps,
         Settings!ApplySetReferrerSplitBps, Settings!ApplySetTierFeeBps, Settings!ApplyProposeUpgrade,
         Settings!ApplyExecuteUpgrade, Settings!RequireDirectAdminAllowed, Settings!outside
  <2>2. listed' \in ListedRecord /\ mktNow' \in Int /\ listed'.usable = listed.usable
    BY <2>1 DEF SetTypes
  <2>3. QED
    BY <2>1, <2>2, AdminActs
<1>2. CASE \E a \in Account, act \in Action : Settings!ProposeAdminAction(a, act)
  <2>1. PICK a \in Account, act \in Action : Settings!ProposeAdminAction(a, act)
    BY <1>2
  <2> DEFINE r == [action |-> act, approvals |-> {a}, executed |-> FALSE]
  <2>2. r \in ActRecord
    BY DEF ActRecord
  <2>3. acts' = Append(acts, r) /\ UNCHANGED <<rates, listed, codeAt, reported, mktNow>>
    BY <2>1 DEF Settings!ProposeAdminAction, Settings!settingVars, Settings!outside
  <2> HIDE DEF r
  <2>4. acts' \in Seq(ActRecord)
    BY <2>2, <2>3, ListGrows DEF SetTypes
  <2>5. QED
    BY <2>3, <2>4 DEF SetTypes, Settings!SettingsGuardedStep
<1>3. CASE \E a \in Account, id \in DOMAIN acts : Settings!ApproveAdminAction(a, id)
  <2>1. PICK a \in Account, id \in DOMAIN acts : Settings!ApproveAdminAction(a, id)
    BY <1>3
  <2> DEFINE r == [acts[id] EXCEPT !.approvals = @ \cup {a}]
  <2>2. acts[id] \in ActRecord /\ acts \in Seq(ActRecord)
    BY ListEntry DEF SetTypes
  <2>3. r \in ActRecord
    BY <2>2 DEF ActRecord
  <2>4. acts' = [acts EXCEPT ![id] = r] /\ UNCHANGED <<rates, listed, codeAt, reported, mktNow>>
    BY <2>1 DEF Settings!ApproveAdminAction, Settings!settingVars, Settings!outside
  <2> HIDE DEF r
  <2>5. acts' \in Seq(ActRecord)
    BY <2>2, <2>3, <2>4, ListChanges
  <2>6. QED
    BY <2>4, <2>5 DEF SetTypes, Settings!SettingsGuardedStep
<1>4. CASE \E a \in Account, id \in DOMAIN acts : Settings!ExecuteAdminAction(a, id)
  BY <1>4, ActionExecuted
<1>5. CASE (\E c \in Quora : Settings!Report(c)) \/ Settings!Refuse
  <2>1. /\ UNCHANGED <<rates, listed, codeAt, acts, mktNow>>
        /\ reported' \in [signers : SUBSET Account, threshold : Nat]
    BY <1>5, SettingsOk DEF Settings!Report, Settings!Refuse, Settings!settingVars, SetTypes
  <2>2. QED
    BY <2>1 DEF SetTypes, Settings!SettingsGuardedStep
<1>6. CASE Settings!Listing \/ Settings!Wiring \/ Settings!Tick \/ UNCHANGED setVars
  BY <1>6, SettingsCalls
<1>7. QED
  BY <1>1, <1>2, <1>3, <1>4, <1>5, <1>6 DEF Settings!Next, Settings!Signing, Action

-----------------------------------------------------------------------------
(* vesting.  The vested share of a grant grows with the time it is asked   *)
(* for, and stays within the grant.                                        *)

GrantRecord == [total : Int, start : Int, cliff : Int, duration : Int, released : Int, revokedAt : Int]

Sound(g) == g.total >= 0 /\ g.start >= 0 /\ g.cliff >= 0 /\ g.cliff <= g.duration /\ g.revokedAt >= -1

(* Of two moments the later one has at least as much vested.               *)
LEMMA ShareGrows ==
  ASSUME NEW n \in Nat, NEW a \in Nat, NEW b \in Nat, a <= b, NEW d \in Nat, d > 0
  PROVE  (n * a) \div d \in Int /\ (n * a) \div d <= (n * b) \div d /\ (n * a) \div d >= 0
<1> DEFINE x == n * a
           y == n * b
           p == x \div d
           q == y \div d
<1>1. x \in Nat /\ y \in Nat /\ x <= y
  <2>1. n * (b - a) \in Nat /\ n * b = n * a + n * (b - a)
    BY b - a \in Nat
  <2>2. QED
    BY <2>1
<1> HIDE DEF x, y
<1>2. p \in Int /\ q \in Int /\ d * p <= x /\ x < d * (p + 1) /\ d * q <= y /\ y < d * (q + 1)
  BY <1>1
<1> HIDE DEF p, q
<1>3. p <= q
  <2>1. SUFFICES ASSUME p >= q + 1 PROVE FALSE
    BY <1>2
  <2>2. d * p >= d * (q + 1)
    BY <1>2, <2>1
  <2>3. QED
    BY <1>1, <1>2, <2>2
<1>4. p >= 0
  <2>1. SUFFICES ASSUME p + 1 <= 0 PROVE FALSE
    BY <1>2
  <2>2. d * (p + 1) <= 0
    BY <1>2, <2>1
  <2>3. QED
    BY <1>1, <1>2, <2>2
<1>5. QED
  BY <1>2, <1>3, <1>4 DEF p, q, x, y

LEMMA VestedRange ==
  ASSUME NEW g \in GrantRecord, Sound(g), NEW t \in Int
  PROVE  Vest!CalculateVestedAt(g, t) \in Int /\ Vest!CalculateVestedAt(g, t) >= 0
         /\ Vest!CalculateVestedAt(g, t) <= g.total
<1> DEFINE e == (IF g.revokedAt # -1 THEN g.revokedAt ELSE t) - g.start
<1>1. e \in Int /\ g.total \in Nat /\ g.duration \in Int /\ g.cliff \in Int
  BY DEF GrantRecord, Sound
<1>2. Vest!CalculateVestedAt(g, t) =
        IF e < 0 \/ e < g.cliff THEN 0 ELSE IF e >= g.duration THEN g.total ELSE (g.total * e) \div g.duration
  BY DEF Vest!CalculateVestedAt
<1> HIDE DEF e
<1>3. CASE e < 0 \/ e < g.cliff \/ e >= g.duration
  BY <1>1, <1>2, <1>3
<1>4. CASE e >= 0 /\ e < g.duration
  <2>1. (g.total * e) \div g.duration \in 0..g.total
    BY <1>1, <1>4, ShareOfWhole
  <2>2. QED
    BY <1>1, <1>2, <1>4, <2>1
<1>5. QED
  BY <1>1, <1>3, <1>4

(* g and h differ at most in the moment of revocation: what counts is the  *)
(* moment vesting is asked for, or stopped.                                *)
LEMMA VestedGrows ==
  ASSUME NEW g \in GrantRecord, Sound(g), NEW h \in GrantRecord,
         h.total = g.total, h.start = g.start, h.cliff = g.cliff, h.duration = g.duration,
         NEW t \in Int, NEW u \in Int,
         (IF g.revokedAt # -1 THEN g.revokedAt ELSE t) <= (IF h.revokedAt # -1 THEN h.revokedAt ELSE u)
  PROVE  Vest!CalculateVestedAt(g, t) <= Vest!CalculateVestedAt(h, u)
<1> DEFINE e == (IF g.revokedAt # -1 THEN g.revokedAt ELSE t) - g.start
           f == (IF h.revokedAt # -1 THEN h.revokedAt ELSE u) - h.start
           n == g.total
           d == g.duration
           c == g.cliff
           Q(x) == (n * x) \div d
           At(x) == IF x < 0 \/ x < c THEN 0 ELSE IF x >= d THEN n ELSE Q(x)
<1>1. e \in Int /\ f \in Int /\ e <= f /\ n \in Nat /\ c \in Nat /\ d \in Int /\ c <= d
  BY DEF GrantRecord, Sound
<1>2. Vest!CalculateVestedAt(g, t) = At(e) /\ Vest!CalculateVestedAt(h, u) = At(f)
  BY DEF Vest!CalculateVestedAt
<1> HIDE DEF e, f, n, d, c
<1>3. ASSUME NEW x \in Int, x >= 0, x >= c, x < d
      PROVE  At(x) = Q(x) /\ Q(x) \in 0..n /\ (e >= 0 /\ e <= x => Q(e) <= Q(x))
  <2>1. x \in Nat /\ d \in Nat /\ d > 0 /\ x <= d
    BY <1>1, <1>3
  <2>2. Q(x) \in 0..n
    BY <1>1, <2>1, ShareOfWhole
  <2>3. e >= 0 /\ e <= x => Q(e) <= Q(x)
    BY <1>1, <2>1, ShareGrows
  <2>4. At(x) = Q(x)
    <3> HIDE DEF Q
    <3>1. QED
      BY <1>1, <1>3
  <2>5. QED
    BY <2>2, <2>3, <2>4
<1> HIDE DEF Q
<1>4. \A x \in Int : (x < 0 \/ x < c => At(x) = 0) /\ (x >= 0 /\ x >= c /\ x >= d => At(x) = n)
  BY <1>1
<1> HIDE DEF At
<1>5. At(e) <= At(f)
  <2>1. CASE e < 0 \/ e < c
    BY <1>1, <1>3, <1>4, <2>1
  <2>2. CASE e >= 0 /\ e >= c /\ e < d
    BY <1>1, <1>3, <1>4, <2>2
  <2>3. CASE e >= 0 /\ e >= c /\ e >= d
    BY <1>1, <1>4, <2>3
  <2>4. QED
    BY <1>1, <2>1, <2>2, <2>3
<1>6. QED
  BY <1>2, <1>5

LEMMA VestedLater ==
  ASSUME NEW g \in GrantRecord, Sound(g), NEW t \in Int, NEW u \in Int, t <= u
  PROVE  Vest!CalculateVestedAt(g, t) <= Vest!CalculateVestedAt(g, u)
<1>1. (IF g.revokedAt # -1 THEN g.revokedAt ELSE t) <= (IF g.revokedAt # -1 THEN g.revokedAt ELSE u)
  BY DEF GrantRecord
<1>2. QED
  BY <1>1, VestedGrows

(* A grant is kept under its schedule; what was released is booked and had *)
(* vested by now.                                                          *)
GrantOk(a) ==
  /\ Sound(grants[a]) /\ grants[a].revokedAt <= vestNow
  /\ received[a] = grants[a].released
  /\ grants[a].released <= Vest!CalculateVestedAt(grants[a], vestNow)

VestInv ==
  /\ grants \in [Account -> GrantRecord] /\ received \in [Account -> Int]
  /\ vestNow \in Nat
  /\ \A a \in Account : GrantOk(a)

(* The grants with nothing in them are those that do not exist.            *)
LEMMA NothingGranted ==
  ASSUME NEW t \in Int
  PROVE  /\ Vest!NoGrant \in GrantRecord /\ Sound(Vest!NoGrant) /\ Vest!NoGrant.released = 0
         /\ Vest!NoGrant.revokedAt = -1 /\ Vest!NoGrant.total = 0
         /\ Vest!CalculateVestedAt(Vest!NoGrant, t) = 0
<1>1. /\ Vest!NoGrant \in GrantRecord /\ Sound(Vest!NoGrant) /\ Vest!NoGrant.released = 0
      /\ Vest!NoGrant.revokedAt = -1 /\ Vest!NoGrant.total = 0
  BY DEF Vest!NoGrant, GrantRecord, Sound
<1>2. QED
  BY <1>1, VestedRange

LEMMA VestStarts ==
  ASSUME Vest!Init
  PROVE  VestInv
<1>1. grants = [a \in Account |-> Vest!NoGrant] /\ received = [a \in Account |-> 0] /\ vestNow = 0
  BY DEF Vest!Init
<1>2. QED
  BY <1>1, NothingGranted DEF VestInv, GrantOk

(* A grant takes the place of another, with at least as much vested.       *)
Succeeds(h, g) ==
  \A t \in Int : t <= vestNow => Vest!CalculateVestedAt(g, t) <= Vest!CalculateVestedAt(h, t)

LEMMA VestedStays ==
  ASSUME VestInv, VestInv', vestNow <= vestNow',
         \A a \in Account : Succeeds(grants'[a], grants[a])
  PROVE  Vest!ScheduleKeptStep
<1> DEFINE At(g, t) == Vest!CalculateVestedAt(g, t)
<1>1. /\ \A a \in Account : /\ grants[a] \in GrantRecord /\ grants'[a] \in GrantRecord
                            /\ Sound(grants[a]) /\ Sound(grants'[a])
      /\ vestNow \in Nat /\ vestNow' \in Nat
  BY DEF VestInv, GrantOk, Sound
<1>2. \A a \in Account, t \in Int : /\ At(grants[a], t) \in Int /\ At(grants'[a], t) \in Int
                                    /\ At(grants'[a], t) <= grants'[a].total
  BY <1>1, VestedRange
<1>3. ASSUME NEW a \in Account
      PROVE  /\ Vest!GetVestedBalance(a) = At(grants[a], vestNow)
             /\ Vest!GetVestedBalance(a)' = At(grants'[a], vestNow')
  BY <1>1, NothingGranted DEF Vest!GetVestedBalance, Vest!CalculateVested
<1>4. ASSUME NEW a \in Account, NEW t \in 0..vestNow
      PROVE  /\ Vest!GetVestedBalanceAt(a, t) = At(grants[a], t)
             /\ Vest!GetVestedBalanceAt(a, t)' = At(grants'[a], t)
  BY <1>1, NothingGranted DEF Vest!GetVestedBalanceAt, Vest!VestedBalanceAt
<1> HIDE DEF At
<1>5. ASSUME NEW a \in Account PROVE Vest!GetVestedBalance(a)' >= Vest!GetVestedBalance(a)
  <2>1. At(grants[a], vestNow) <= At(grants'[a], vestNow)
    BY <1>1 DEF Succeeds, At
  <2>2. At(grants'[a], vestNow) <= At(grants'[a], vestNow')
    BY <1>1, VestedLater DEF At
  <2>3. QED
    BY <1>1, <1>2, <1>3, <2>1, <2>2
<1>6. ASSUME NEW a \in Account, NEW t \in 0..vestNow
      PROVE  Vest!GetVestedBalanceAt(a, t)' >= Vest!GetVestedBalanceAt(a, t)
  <2>1. t \in Int /\ t <= vestNow
    BY <1>1
  <2>2. At(grants[a], t) <= At(grants'[a], t)
    BY <2>1 DEF Succeeds, At
  <2>3. QED
    BY <1>2, <1>4, <2>1, <2>2
<1>7. ASSUME NEW a \in Account
      PROVE  /\ received'[a] = grants'[a].released
             /\ received'[a] <= Vest!GetVestedBalance(a)'
             /\ Vest!GetUnvestedBalance(a)' >= 0
  <2>1. GrantOk(a)'
    BY DEF VestInv
  <2>2. received'[a] = grants'[a].released /\ grants'[a].released <= At(grants'[a], vestNow')
    BY <2>1 DEF GrantOk, At
  <2>3. grants'[a].total \in Int /\ Vest!GetUnvestedBalance(a)' = grants'[a].total - At(grants'[a], vestNow')
    BY <1>1, <1>3 DEF GrantRecord, Vest!GetUnvestedBalance
  <2>4. QED
    BY <1>1, <1>2, <1>3, <2>2, <2>3
<1>8. QED
  BY <1>5, <1>6, <1>7 DEF Vest!ScheduleKeptStep, Vest!NeverAheadOfSchedule

LEMMA OneGrantMoves ==
  ASSUME VestInv, NEW a \in Account, NEW h \in GrantRecord, NEW n \in Int,
         grants' = [grants EXCEPT ![a] = h], received' = [received EXCEPT ![a] = n], vestNow' = vestNow,
         Sound(h), h.revokedAt <= vestNow, n = h.released, h.released <= Vest!CalculateVestedAt(h, vestNow),
         Succeeds(h, grants[a])
  PROVE  VestInv' /\ Vest!ScheduleKeptStep
<1>1. /\ grants' \in [Account -> GrantRecord] /\ received' \in [Account -> Int]
      /\ grants'[a] = h /\ received'[a] = n
      /\ \A x \in Account \ {a} : grants'[x] = grants[x] /\ received'[x] = received[x]
  BY DEF VestInv
<1>2. VestInv'
  BY <1>1 DEF VestInv, GrantOk
<1>3. \A x \in Account : Succeeds(grants'[x], grants[x])
  <2>1. \A x \in Account, t \in Int : Vest!CalculateVestedAt(grants[x], t) \in Int
    BY VestedRange DEF VestInv, GrantOk
  <2>2. \A x \in Account : Succeeds(grants[x], grants[x])
    BY <2>1 DEF Succeeds
  <2>3. QED
    BY <1>1, <2>2
<1>4. vestNow <= vestNow'
  BY DEF VestInv
<1>5. QED
  BY <1>2, <1>3, <1>4, VestedStays

LEMMA VestKept ==
  ASSUME VestInv, [Vest!Next]_vestVars
  PROVE  VestInv' /\ Vest!ScheduleKeptStep
<1>1. /\ \A a \in Account : /\ grants[a] \in GrantRecord /\ Sound(grants[a]) /\ received[a] = grants[a].released
                            /\ received[a] \in Int /\ grants[a].revokedAt <= vestNow
                            /\ grants[a].released <= Vest!CalculateVestedAt(grants[a], vestNow)
      /\ vestNow \in Nat /\ grants \in [Account -> GrantRecord] /\ received \in [Account -> Int]
  BY DEF VestInv, GrantOk
<1>2. CASE \E a \in Account, s \in Schedules : Vest!CreateGrant(a, s)
  <2>1. PICK a \in Account, s \in Schedules : Vest!CreateGrant(a, s)
    BY <1>2
  <2> DEFINE h == [total |-> s.total, start |-> s.start, cliff |-> s.cliff, duration |-> s.duration,
                   released |-> 0, revokedAt |-> -1]
  <2>2. s \in [total : Int, start : Nat, cliff : Nat, duration : Nat]
    BY VestingOk
  <2>3. s.total > 0 /\ s.duration > s.cliff /\ grants[a] = Vest!NoGrant /\ grants' = [grants EXCEPT ![a] = h]
        /\ received' = received /\ vestNow' = vestNow
    BY <2>1 DEF Vest!CreateGrant, Vest!Schedulable, Vest!NewGrant
  <2>4. h \in GrantRecord /\ Sound(h) /\ h.released = 0 /\ h.revokedAt = -1
    BY <2>2, <2>3 DEF GrantRecord, Sound
  <2> HIDE DEF h
  <2>5. \A t \in Int : Vest!CalculateVestedAt(h, t) >= 0 /\ Vest!CalculateVestedAt(grants[a], t) = 0
                       /\ Vest!CalculateVestedAt(h, t) \in Int
    BY <2>3, <2>4, VestedRange, NothingGranted
  <2>6. Succeeds(h, grants[a]) /\ h.released <= Vest!CalculateVestedAt(h, vestNow)
    BY <1>1, <2>4, <2>5 DEF Succeeds
  <2>7. received[a] = 0
    BY <1>1, <2>3, NothingGranted
  <2>8. received' = [received EXCEPT ![a] = 0]
    BY <1>1, <2>3, <2>7
  <2>9. h.revokedAt <= vestNow /\ 0 = h.released
    BY <1>1, <2>4
  <2> DEFINE n == 0
  <2>10. n \in Int /\ received' = [received EXCEPT ![a] = n] /\ n = h.released
    BY <2>8, <2>9
  <2> HIDE DEF n
  <2>11. grants' = [grants EXCEPT ![a] = h] /\ vestNow' = vestNow /\ h \in GrantRecord /\ Sound(h)
    BY <2>3, <2>4
  <2>12. QED
    BY <2>6, <2>9, <2>10, <2>11, OneGrantMoves
<1>3. CASE \E a \in Account : Vest!Release(a)
  <2>1. PICK a \in Account : Vest!Release(a)
    BY <1>3
  <2> DEFINE g == grants[a]
             v == Vest!CalculateVestedAt(g, vestNow)
             n == v - g.released
             h == [g EXCEPT !.released = @ + n]
  <2>2. g \in GrantRecord /\ Sound(g) /\ v \in Int /\ n \in Int /\ g.released \in Int /\ g.released + n = v
    BY <1>1, VestedRange DEF GrantRecord
  <2>3. grants' = [grants EXCEPT ![a] = h] /\ received' = [received EXCEPT ![a] = received[a] + n] /\ vestNow' = vestNow
    BY <2>1 DEF Vest!Release, Vest!CalculateVested, Vest!Released
  <2> HIDE DEF n, v
  <2>4. /\ h \in GrantRecord /\ h.released = v /\ h.total = g.total /\ h.start = g.start /\ h.cliff = g.cliff
        /\ h.duration = g.duration /\ h.revokedAt = g.revokedAt
    BY <2>2 DEF GrantRecord
  <2> HIDE DEF h
  <2>5. Sound(h)
    BY <2>2, <2>4 DEF Sound
  <2>6. \A t \in Int : Vest!CalculateVestedAt(h, t) = Vest!CalculateVestedAt(g, t) /\ Vest!CalculateVestedAt(g, t) \in Int
    BY <2>2, <2>4, VestedRange DEF Vest!CalculateVestedAt
  <2>7. Succeeds(h, g)
    BY <2>6 DEF Succeeds
  <2>8. received[a] + n = h.released /\ h.revokedAt <= vestNow /\ h.released <= Vest!CalculateVestedAt(h, vestNow)
    BY <1>1, <2>2, <2>4, <2>6 DEF v
  <2>9. received[a] + n \in Int
    BY <1>1, <2>2
  <2>10. QED
    BY <2>3, <2>4, <2>5, <2>7, <2>8, <2>9, OneGrantMoves
<1>4. CASE \E a \in Account : Vest!RevokeGrant(a)
  <2>1. PICK a \in Account : Vest!RevokeGrant(a)
    BY <1>4
  <2> DEFINE g == grants[a]
             h == [g EXCEPT !.revokedAt = vestNow]
  <2>2. g \in GrantRecord /\ Sound(g) /\ g.revokedAt = -1
    BY <1>1, <2>1 DEF Vest!RevokeGrant, Vest!Revocable, Vest!Revoked
  <2>3. grants' = [grants EXCEPT ![a] = h] /\ received' = received /\ vestNow' = vestNow
    BY <2>1 DEF Vest!RevokeGrant, Vest!Revocable, Vest!Revoked
  <2>4. /\ h \in GrantRecord /\ h.released = g.released /\ h.total = g.total /\ h.start = g.start /\ h.cliff = g.cliff
        /\ h.duration = g.duration /\ h.revokedAt = vestNow
    BY <1>1, <2>2 DEF GrantRecord
  <2> HIDE DEF h
  <2>5. Sound(h)
    BY <1>1, <2>2, <2>4 DEF Sound
  <2>6. \A t \in Int : t <= vestNow => Vest!CalculateVestedAt(g, t) <= Vest!CalculateVestedAt(h, t)
    BY <1>1, <2>2, <2>4, VestedGrows
  <2>7. \A t \in Int : Vest!CalculateVestedAt(h, t) \in Int /\ Vest!CalculateVestedAt(g, t) \in Int
    BY <2>2, <2>4, <2>5, VestedRange
  <2>8. Succeeds(h, g)
    BY <2>6 DEF Succeeds
  <2>9. h.released <= Vest!CalculateVestedAt(h, vestNow)
    <3>1. Vest!CalculateVestedAt(g, vestNow) <= Vest!CalculateVestedAt(h, vestNow)
      BY <1>1, <2>6
    <3>2. g.released <= Vest!CalculateVestedAt(g, vestNow) /\ g.released \in Int
      BY <1>1
    <3>3. QED
      BY <1>1, <2>4, <2>7, <3>1, <3>2
  <2>10. received' = [received EXCEPT ![a] = received[a]] /\ received[a] = h.released /\ h.revokedAt <= vestNow
    BY <1>1, <2>3, <2>4
  <2>11. QED
    BY <1>1, <2>3, <2>4, <2>5, <2>8, <2>9, <2>10, OneGrantMoves
<1>5. CASE UNCHANGED <<grants, received>> /\ vestNow' \in Nat /\ vestNow <= vestNow'
  <2>1. \A a \in Account, t \in Int : Vest!CalculateVestedAt(grants[a], t) \in Int
    BY <1>1, VestedRange
  <2>2. \A a \in Account : Succeeds(grants[a], grants[a])
    BY <2>1 DEF Succeeds
  <2>3. ASSUME NEW a \in Account
        PROVE  grants[a].released <= Vest!CalculateVestedAt(grants[a], vestNow') /\ grants[a].revokedAt <= vestNow'
    <3>1. Vest!CalculateVestedAt(grants[a], vestNow) <= Vest!CalculateVestedAt(grants[a], vestNow')
      BY <1>1, <1>5, VestedLater
    <3>2. /\ grants[a].released \in Int /\ grants[a].revokedAt \in Int
          /\ Vest!CalculateVestedAt(grants[a], vestNow) \in Int /\ Vest!CalculateVestedAt(grants[a], vestNow') \in Int
      BY <1>1, <1>5, <2>1 DEF GrantRecord
    <3>3. QED
      BY <1>1, <1>5, <3>1, <3>2
  <2>4. VestInv'
    BY <1>1, <1>5, <2>3 DEF VestInv, GrantOk
  <2>5. QED
    BY <1>5, <2>2, <2>4, VestedStays
<1>6. CASE \/ \E n \in Deposits : Vest!Deposit(n)
           \/ Vest!ProposeUpgrade \/ Vest!ExecuteUpgrade \/ Vest!Tick \/ UNCHANGED vestVars
  <2>1. UNCHANGED <<grants, received>> /\ vestNow' \in Nat /\ vestNow <= vestNow'
    BY <1>1, <1>6 DEF Vest!Deposit, Vest!ProposeUpgrade, Vest!ExecuteUpgrade, Vest!Tick, Vest!state, vestVars
  <2>2. QED
    BY <1>5, <2>1
<1>7. QED
  BY <1>2, <1>3, <1>4, <1>6 DEF Vest!Next

-----------------------------------------------------------------------------
(* parameter_registry.  A value is checked against the bounds of its key   *)
(* whenever it is written, so a proposal that was valid once is of no      *)
(* consequence; the bounds themselves never move.                          *)

ParamRecord  == [value : Int, min : Int, max : Int]
ChangeRecord == [key : Keys, value : Int, proposer : Account, approvals : SUBSET Account,
                 executed : BOOLEAN, cancelled : BOOLEAN, executableAfter : Int, expiresAt : Int]

RegTypes ==
  /\ params \in [Keys -> ParamRecord] /\ changes \in Seq(ChangeRecord) /\ regNow \in Int
  /\ \A k \in Keys : params[k].max > 0

RegInv == RegTypes /\ Registry!ParamsInBounds

Fits(d, k) ==
  /\ d \in ParamRecord /\ d.max > 0 /\ d.value \in d.min .. d.max
  /\ k \in Registry!BpsKeys => d.value <= Registry!MaxBps

LEMMA FitsIf ==
  ASSUME NEW k, NEW v \in Int, NEW lo \in Int, NEW hi \in Int, hi > 0, lo <= v, v <= hi,
         v <= Registry!MaxBps \/ k \notin Registry!BpsKeys
  PROVE  Fits([value |-> v, min |-> lo, max |-> hi], k)
BY DEF Fits, ParamRecord

LEMMA Limits ==
  /\ Registry!MaxBps \in Int /\ Registry!MaxBps >= 5000
  /\ Registry!MaxGrace \in Int /\ Registry!MaxGrace >= 604800
  /\ Registry!Unbounded \in Int /\ Registry!Unbounded >= 1000000000
BY DEF Registry!MaxBps, Registry!MaxGrace, Registry!Unbounded

LEMMA DefaultsInBounds ==
  ASSUME NEW k \in Keys
  PROVE  Fits(Registry!BootstrapDefault(k), k)
<1>1. CASE k \in {"MarketplaceFeeBps", "TierFeeA", "TreasuryFeeBps"}
  <2>1. Registry!BootstrapDefault(k) = [value |-> 50, min |-> 0, max |-> Registry!MaxBps]
    BY <1>1 DEF Registry!BootstrapDefault
  <2>2. QED
    BY <2>1, Limits, FitsIf
<1>2. CASE k = "ReferrerSplitBps"
  <2>1. Registry!BootstrapDefault(k) = [value |-> 1000, min |-> 0, max |-> 5000]
    BY <1>2 DEF Registry!BootstrapDefault
  <2>2. QED
    BY <2>1, Limits, FitsIf
<1>3. CASE k = "MinContributionAmount"
  <2>1. Registry!BootstrapDefault(k) = [value |-> 10000000, min |-> 0, max |-> Registry!Unbounded]
    BY <1>3 DEF Registry!BootstrapDefault
  <2>2. k \notin Registry!BpsKeys
    BY <1>3 DEF Registry!BpsKeys
  <2>3. QED
    BY <2>1, <2>2, Limits, FitsIf
<1>4. CASE k = "TierFeeAaa"
  <2>1. Registry!BootstrapDefault(k) = [value |-> 25, min |-> 0, max |-> Registry!MaxBps]
    BY <1>4 DEF Registry!BootstrapDefault
  <2>2. QED
    BY <2>1, Limits, FitsIf
<1>5. CASE k = "TierFeeAa"
  <2>1. Registry!BootstrapDefault(k) = [value |-> 35, min |-> 0, max |-> Registry!MaxBps]
    BY <1>5 DEF Registry!BootstrapDefault
  <2>2. QED
    BY <2>1, Limits, FitsIf
<1>6. CASE k = "TierFeeB"
  <2>1. Registry!BootstrapDefault(k) = [value |-> 75, min |-> 0, max |-> Registry!MaxBps]
    BY <1>6 DEF Registry!BootstrapDefault
  <2>2. QED
    BY <2>1, Limits, FitsIf
<1>7. CASE k = "TierFeeC"
  <2>1. Registry!BootstrapDefault(k) = [value |-> 100, min |-> 0, max |-> Registry!MaxBps]
    BY <1>7 DEF Registry!BootstrapDefault
  <2>2. QED
    BY <2>1, Limits, FitsIf
<1>8. CASE k \in {"LatePenaltyBps", "SlashPercentageBps"}
  <2>1. Registry!BootstrapDefault(k) = [value |-> 500, min |-> 0, max |-> Registry!MaxBps]
    BY <1>8 DEF Registry!BootstrapDefault
  <2>2. QED
    BY <2>1, Limits, FitsIf
<1>9. CASE k = "LatePenaltyTreasurySplitBps"
  <2>1. Registry!BootstrapDefault(k) = [value |-> 5000, min |-> 0, max |-> Registry!MaxBps]
    BY <1>9 DEF Registry!BootstrapDefault
  <2>2. QED
    BY <2>1, Limits, FitsIf
<1>10. CASE k = "MaxPositionBps"
  <2>1. Registry!BootstrapDefault(k) = [value |-> 5000, min |-> 1, max |-> Registry!MaxBps]
    BY <1>10 DEF Registry!BootstrapDefault
  <2>2. QED
    BY <2>1, Limits, FitsIf
<1>11. CASE k = "GracePeriodSecs"
  <2>1. Registry!BootstrapDefault(k) = [value |-> 604800, min |-> 0, max |-> Registry!MaxGrace]
    BY <1>11 DEF Registry!BootstrapDefault
  <2>2. k \notin Registry!BpsKeys
    BY <1>11 DEF Registry!BpsKeys
  <2>3. QED
    BY <2>1, <2>2, Limits, FitsIf
<1>12. CASE k = "MinimumVerifierStake"
  <2>1. Registry!BootstrapDefault(k) = [value |-> 1000000000, min |-> 0, max |-> Registry!Unbounded]
    BY <1>12 DEF Registry!BootstrapDefault
  <2>2. k \notin Registry!BpsKeys
    BY <1>12 DEF Registry!BpsKeys
  <2>3. QED
    BY <2>1, <2>2, Limits, FitsIf
<1>13. CASE k = "MinimumDebtorScore"
  <2>1. Registry!BootstrapDefault(k) = [value |-> 0, min |-> 0, max |-> 100]
    BY <1>13 DEF Registry!BootstrapDefault
  <2>2. k \notin Registry!BpsKeys
    BY <1>13 DEF Registry!BpsKeys
  <2>3. QED
    BY <2>1, <2>2, Limits, FitsIf
<1>14. CASE k = "ReserveAllocationBps"
  <2>1. Registry!BootstrapDefault(k) = [value |-> 1000, min |-> 0, max |-> 5000]
    BY <1>14 DEF Registry!BootstrapDefault
  <2>2. QED
    BY <2>1, Limits, FitsIf
<1>15. QED
  BY KeysKnown, <1>1, <1>2, <1>3, <1>4, <1>5, <1>6, <1>7, <1>8, <1>9, <1>10, <1>11, <1>12, <1>13, <1>14

LEMMA RegStarts ==
  ASSUME Registry!Init
  PROVE  RegInv
<1>1. params = [k \in Keys |-> Registry!BootstrapDefault(k)] /\ changes = <<>> /\ regNow = 0
  BY DEF Registry!Init
<1>2. \A k \in Keys : Fits(params[k], k)
  BY <1>1, DefaultsInBounds
<1>3. params \in [Keys -> ParamRecord]
  BY <1>1, DefaultsInBounds DEF Fits
<1>4. QED
  BY <1>1, <1>2, <1>3 DEF RegInv, RegTypes, Fits, Registry!ParamsInBounds

(* A value that is applied has just been checked.                          *)
LEMMA ParamApplied ==
  ASSUME RegInv, NEW k \in Keys, NEW v \in Int, Registry!ApplyParamUpdate(k, v)
  PROVE  /\ params' \in [Keys -> ParamRecord] /\ \A x \in Keys : params'[x].max > 0
         /\ Registry!ParamsInBounds' /\ params'[k].value = v
<1> DEFINE r == [params[k] EXCEPT !.value = v]
<1>1. params[k] \in ParamRecord /\ params \in [Keys -> ParamRecord] /\ params[k].max > 0
  BY DEF RegInv, RegTypes
<1>2. params' = [params EXCEPT ![k] = r]
  BY DEF Registry!ApplyParamUpdate
<1>3. r \in ParamRecord /\ r.value = v /\ r.min = params[k].min /\ r.max = params[k].max
  BY <1>1 DEF ParamRecord
<1> HIDE DEF r
<1>4. v <= r.max /\ v >= r.min /\ (k \in Registry!BpsKeys => v <= Registry!MaxBps)
  BY <1>1, <1>3 DEF Registry!ApplyParamUpdate, Registry!ValidateParamValue
<1>5. params'[k] = r /\ params' \in [Keys -> ParamRecord] /\ \A x \in Keys \ {k} : params'[x] = params[x]
  BY <1>1, <1>2, <1>3
<1>6. r.value \in r.min .. r.max
  BY <1>3, <1>4 DEF ParamRecord
<1>7. QED
  BY <1>1, <1>3, <1>4, <1>5, <1>6 DEF RegInv, RegTypes, Registry!ParamsInBounds

(* An entry of the list is changed while it is pending.                    *)
LEMMA ChangeMoves ==
  ASSUME RegInv, NEW id \in DOMAIN changes, Registry!Pending(changes[id]), NEW r \in ChangeRecord,
         changes' = [changes EXCEPT ![id] = r]
  PROVE  /\ changes' \in Seq(ChangeRecord) /\ changes'[id] = r
         /\ \A i \in DOMAIN changes : changes[i].executed \/ changes[i].cancelled => changes'[i] = changes[i]
<1>1. changes \in Seq(ChangeRecord)
  BY DEF RegInv, RegTypes
<1>2. QED
  BY <1>1, ListChanges DEF Registry!Pending

LEMMA RegKept ==
  ASSUME RegInv, [Registry!Next]_regVars
  PROVE  RegInv' /\ Registry!ParametersGuardedStep
<1>1. /\ params \in [Keys -> ParamRecord] /\ changes \in Seq(ChangeRecord) /\ regNow \in Int
      /\ \A id \in DOMAIN changes : changes[id] \in ChangeRecord
  BY ListEntry DEF RegInv, RegTypes
<1>2. CASE \E k \in Keys, v \in Values : Registry!AdminSetParameter(k, v)
  <2>1. PICK k \in Keys, v \in Values : Registry!AdminSetParameter(k, v)
    BY <1>2
  <2>2. v \in Int
    BY RegistryOk
  <2>3. Registry!ApplyParamUpdate(k, v) /\ ~Registry!IsMultisigConfigured /\ changes' = changes /\ regNow' = regNow
    BY <2>1 DEF Registry!AdminSetParameter
  <2>4. RegInv'
    BY <1>1, <2>2, <2>3, ParamApplied DEF RegInv, RegTypes
  <2>5. QED
    BY <2>3, <2>4 DEF RegInv, Registry!ParametersGuardedStep
<1>3. CASE \E a \in Account, k \in Keys, v \in Values : Registry!ProposeParamUpdate(a, k, v)
  <2>1. PICK a \in Account, k \in Keys, v \in Values : Registry!ProposeParamUpdate(a, k, v)
    BY <1>3
  <2> DEFINE r == [key |-> k, value |-> v, proposer |-> a, approvals |-> {a}, executed |-> FALSE, cancelled |-> FALSE,
                   executableAfter |-> regNow + Timelock, expiresAt |-> regNow + ProposalTtl]
  <2>2. r \in ChangeRecord
    BY <1>1, RegistryOk DEF ChangeRecord
  <2>3. changes' = Append(changes, r) /\ UNCHANGED <<params, regNow>>
    BY <2>1 DEF Registry!ProposeParamUpdate
  <2> HIDE DEF r
  <2>4. changes' \in Seq(ChangeRecord) /\ \A id \in DOMAIN changes : changes'[id] = changes[id]
    BY <1>1, <2>2, <2>3, ListGrows
  <2>5. RegInv'
    BY <2>3, <2>4 DEF RegInv, RegTypes, Registry!ParamsInBounds
  <2>6. QED
    BY <2>3, <2>4, <2>5 DEF RegInv, Registry!ParametersGuardedStep
<1>4. CASE \E a \in Account, id \in DOMAIN changes : Registry!ApproveParamUpdate(a, id) \/ Registry!CancelParamUpdate(a, id)
  <2>1. PICK a \in Account, id \in DOMAIN changes : Registry!ApproveParamUpdate(a, id) \/ Registry!CancelParamUpdate(a, id)
    BY <1>4
  <2>2. PICK r \in ChangeRecord : changes' = [changes EXCEPT ![id] = r]
    <3>1. CASE Registry!ApproveParamUpdate(a, id)
      <4>1. [changes[id] EXCEPT !.approvals = @ \cup {a}] \in ChangeRecord
        BY <1>1 DEF ChangeRecord
      <4>2. QED
        BY <3>1, <4>1 DEF Registry!ApproveParamUpdate
    <3>2. CASE Registry!CancelParamUpdate(a, id)
      <4>1. [changes[id] EXCEPT !.cancelled = TRUE] \in ChangeRecord
        BY <1>1 DEF ChangeRecord
      <4>2. QED
        BY <3>2, <4>1 DEF Registry!CancelParamUpdate
    <3>3. QED
      BY <2>1, <3>1, <3>2
  <2>3. Registry!Pending(changes[id]) /\ UNCHANGED <<params, regNow>>
    BY <2>1 DEF Registry!ApproveParamUpdate, Registry!CancelParamUpdate
  <2>4. /\ changes' \in Seq(ChangeRecord)
        /\ \A i \in DOMAIN changes : changes[i].executed \/ changes[i].cancelled => changes'[i] = changes[i]
    BY <2>2, <2>3, ChangeMoves
  <2>5. RegInv'
    BY <2>3, <2>4 DEF RegInv, RegTypes, Registry!ParamsInBounds
  <2>6. QED
    BY <2>3, <2>4, <2>5 DEF RegInv, Registry!ParametersGuardedStep
<1>5. CASE \E a \in Account, id \in DOMAIN changes : Registry!ExecuteParamUpdate(a, id)
  <2>1. PICK a \in Account, id \in DOMAIN changes : Registry!ExecuteParamUpdate(a, id)
    BY <1>5
  <2> DEFINE c == changes[id]
             r == [c EXCEPT !.executed = TRUE]
  <2>2. c \in ChangeRecord /\ c.key \in Keys /\ c.value \in Int /\ c.executableAfter \in Int /\ c.expiresAt \in Int
    BY <1>1 DEF ChangeRecord
  <2>3. changes' = [changes EXCEPT ![id] = r]
    BY <2>1 DEF Registry!ExecuteParamUpdate
  <2>4. r \in ChangeRecord /\ r.executed /\ r.cancelled = c.cancelled
    BY <2>2 DEF ChangeRecord
  <2> HIDE DEF r
  <2>5. /\ Registry!Pending(c) /\ regNow <= c.expiresAt /\ Registry!Approved(c) /\ regNow >= c.executableAfter
        /\ Registry!ApplyParamUpdate(c.key, c.value) /\ regNow' = regNow
    BY <2>1 DEF Registry!ExecuteParamUpdate
  <2>6. /\ changes' \in Seq(ChangeRecord) /\ changes'[id] = r
        /\ \A i \in DOMAIN changes : changes[i].executed \/ changes[i].cancelled => changes'[i] = changes[i]
    BY <2>3, <2>4, <2>5, ChangeMoves
  <2>7. /\ params' \in [Keys -> ParamRecord] /\ \A x \in Keys : params'[x].max > 0
        /\ Registry!ParamsInBounds' /\ params'[c.key].value = c.value
    BY <2>2, <2>5, ParamApplied
  <2>8. RegInv'
    BY <1>1, <2>5, <2>6, <2>7 DEF RegInv, RegTypes
  <2>9. Registry!IsMultisigConfigured => Registry!Cardinality(c.approvals) >= Registry!Config.threshold
    BY <2>5 DEF Registry!Approved, Registry!GovernanceThreshold
  <2>10. regNow \in c.executableAfter .. c.expiresAt
    BY <1>1, <2>2, <2>5
  <2>11. ~c.executed /\ changes'[id].executed /\ ~changes'[id].cancelled
    BY <2>4, <2>5, <2>6 DEF Registry!Pending
  <2>12. Registry!IsMultisigConfigured =>
           \E i \in DOMAIN changes :
             /\ ~changes[i].executed /\ changes'[i].executed /\ ~changes'[i].cancelled
             /\ params'[changes[i].key].value = changes[i].value
             /\ Registry!Cardinality(changes[i].approvals) >= Registry!Config.threshold
             /\ regNow \in changes[i].executableAfter .. changes[i].expiresAt
    BY <2>7, <2>9, <2>10, <2>11
  <2>13. QED
    BY <2>6, <2>7, <2>8, <2>12 DEF Registry!ParametersGuardedStep
<1>6. CASE Registry!Administer \/ (\E c \in SignerConfigs : Registry!Reconfigure(c)) \/ Registry!Tick \/ UNCHANGED regVars
  <2>1. UNCHANGED <<params, changes>> /\ regNow' \in Int
    BY <1>1, <1>6 DEF Registry!Administer, Registry!Reconfigure, Registry!Tick, Registry!state, regVars
  <2>2. RegInv'
    BY <2>1 DEF RegInv, RegTypes, Registry!ParamsInBounds
  <2>3. QED
    BY <2>1, <2>2 DEF RegInv, Registry!ParametersGuardedStep
<1>7. QED
  BY <1>2, <1>3, <1>4, <1>5, <1>6 DEF Registry!Next
-----------------------------------------------------------------------------
(* governance.  A proposal's tallies are the sums of its ballots, one for  *)
(* each Voted key; what was executed is closed to votes.                   *)

HashValue    == Hashes \union {NoHash}
BallotRecord == [id : Nat, fast : BOOLEAN, voter : Account, support : BOOLEAN, weight : Int]
StandardPoll == [for : Int, against : Int, end : Int, status : {"Active", "Executed"}, hash : HashValue,
                 mode : {"OnChain", "OffChain"}]
FastPoll     == [for : Int, against : Int, end : Int, status : {"Active", "Executed"}, hash : HashValue,
                 created : Int, disclosed : BOOLEAN]
TrackRecord  == [enabled : BOOLEAN, threshold : Nat, timelock : Nat, maxSize : Nat]

GovTypes ==
  /\ stake \in [Account -> Int] /\ target \in HashValue /\ count \in Nat /\ govNow \in Int
  /\ track \in TrackRecord
  /\ standard \in [DOMAIN standard -> StandardPoll] /\ fast \in [DOMAIN fast -> FastPoll]
  /\ ballots \in SUBSET BallotRecord /\ IsFiniteSet(ballots)

OneCounter ==
  /\ DOMAIN standard \subseteq 1..count /\ DOMAIN fast \subseteq 1..count /\ DOMAIN offchain \subseteq 1..count
  /\ DOMAIN standard \cap DOMAIN fast = {}

OneBallotEach ==
  /\ \A b \in ballots : <<b.id, b.voter>> \in voted
  /\ \A b \in ballots : IF b.fast THEN b.id \in DOMAIN fast ELSE b.id \in DOMAIN standard
  /\ \A v \in voted : \E b \in ballots : b.id = v[1] /\ b.voter = v[2]
  /\ \A b, c \in ballots : b.id = c.id /\ b.voter = c.voter => b = c

Backing(B, id, isFast, side) ==
  SumOver([b \in B |-> b.weight], {b \in B : b.id = id /\ b.fast = isFast /\ b.support = side})

Tallied(p, id, isFast, B) ==
  /\ p.for = Backing(B, id, isFast, TRUE)
  /\ p.against = Backing(B, id, isFast, FALSE)

Decided(p, id, anchored, time) ==
  /\ p.mode = "OffChain" => p.for = 0 /\ p.against = 0
  /\ id \in DOMAIN anchored => p.mode = "OffChain" /\ time >= p.end
  /\ p.status = "Executed" /\ p.mode = "OnChain" => Gov!Won(p.for, p.against, ThresholdBps)
  /\ p.status = "Executed" /\ p.mode = "OffChain" =>
       id \in DOMAIN anchored /\ Gov!Won(anchored[id][1], anchored[id][2], ThresholdBps)

FastDecided(p) == p.status = "Executed" => p.for + p.against >= Quorum

StandardFine == \A id \in DOMAIN standard : Tallied(standard[id], id, FALSE, ballots) /\ Decided(standard[id], id, offchain, govNow)
FastFine     == \A id \in DOMAIN fast : Tallied(fast[id], id, TRUE, ballots) /\ FastDecided(fast[id])

GovInv == GovTypes /\ OneCounter /\ OneBallotEach /\ StandardFine /\ FastFine

(* The sums and the cardinality of that module are the usual ones.         *)
LEMMA GovSums ==
  ASSUME NEW f, NEW S
  PROVE  Gov!SumOver(f, S) = SumOver(f, S) /\ Gov!Cardinality(S) = Cardinality(S)
<1>1. Gov!SumOver(f, S) = SumOver(f, S)
  BY DEF SumOver, MapThenSumSet, MapThenFoldSet, Gov!SumOver, Gov!MapThenSumSet, Gov!MapThenFoldSet
<1>2. Gov!Cardinality(S) = Cardinality(S)
  BY DEF Gov!Cardinality, Cardinality
<1>3. QED
  BY <1>1, <1>2

LEMMA BackingGrows ==
  ASSUME NEW B \in SUBSET BallotRecord, IsFiniteSet(B), NEW b \in BallotRecord, b \notin B,
         NEW id, NEW isFast, NEW side
  PROVE  Backing(B \union {b}, id, isFast, side) =
           Backing(B, id, isFast, side)
             + (IF b.id = id /\ b.fast = isFast /\ b.support = side THEN b.weight ELSE 0)
<1> DEFINE In(X) == {x \in X : x.id = id /\ x.fast = isFast /\ x.support = side}
           f == [x \in B |-> x.weight]
           g == [x \in B \union {b} |-> x.weight]
<1>1. IsFiniteSet(In(B)) /\ \A x \in In(B) : g[x] \in Int /\ f[x] \in Int /\ g[x] = f[x]
  BY FS_Subset DEF BallotRecord
<1>2. SumOver(f, In(B)) = SumOver(g, In(B)) /\ SumOver(g, In(B)) \in Int
  BY <1>1, SumSame, SumInt
<1>3. Backing(B, id, isFast, side) = SumOver(f, In(B)) /\ Backing(B \union {b}, id, isFast, side) = SumOver(g, In(B \union {b}))
  BY DEF Backing
<1>4. CASE b.id = id /\ b.fast = isFast /\ b.support = side
  <2>1. In(B \union {b}) = In(B) \union {b} /\ b \notin In(B) /\ g[b] = b.weight /\ b.weight \in Int
    BY <1>4 DEF BallotRecord
  <2>2. SumOver(g, In(B) \union {b}) = b.weight + SumOver(g, In(B))
    BY <1>1, <2>1, SumAdd
  <2>3. Backing(B \union {b}, id, isFast, side) = b.weight + Backing(B, id, isFast, side)
    BY <1>2, <1>3, <2>1, <2>2
  <2>4. QED
    BY <1>2, <1>4, <1>3, <2>1, <2>3
<1>5. CASE ~(b.id = id /\ b.fast = isFast /\ b.support = side)
  <2>1. In(B \union {b}) = In(B)
    BY <1>5
  <2>2. Backing(B \union {b}, id, isFast, side) = Backing(B, id, isFast, side)
    BY <1>2, <1>3, <2>1
  <2>3. QED
    BY <1>2, <1>5, <1>3, <2>2
<1>6. QED
  BY <1>4, <1>5

LEMMA NoBacking ==
  ASSUME NEW B, NEW id, NEW isFast, NEW side, \A b \in B : b.id # id
  PROVE  Backing(B, id, isFast, side) = 0
BY SumEmpty DEF Backing

LEMMA GovStarts ==
  ASSUME Gov!Init
  PROVE  GovInv
<1>1. /\ stake = [a \in Account |-> 0] /\ target = NoHash /\ count = 0 /\ govNow = 0
      /\ DOMAIN standard = {} /\ DOMAIN fast = {} /\ DOMAIN offchain = {} /\ voted = {} /\ ballots = {}
  BY DEF Gov!Init, Gov!None
<1>2. track \in TrackRecord
  BY DEF Gov!Init, TrackRecord
<1>3. standard \in [DOMAIN standard -> StandardPoll] /\ fast \in [DOMAIN fast -> FastPoll]
  BY DEF Gov!Init, Gov!None
<1>4. QED
  BY <1>1, <1>2, <1>3, FS_EmptySet
     DEF GovInv, GovTypes, OneCounter, OneBallotEach, StandardFine, FastFine, HashValue

(* A step that leaves proposals and ballots alone, whatever it sets.       *)
LEMMA GovUntouched ==
  ASSUME GovInv, UNCHANGED <<count, standard, fast, voted, offchain, ballots>>,
         govNow' \in Int, govNow' >= govNow,
         stake' \in [Account -> Int], target' \in HashValue, track' \in TrackRecord
  PROVE  GovInv'
<1>1. GovTypes' /\ OneCounter' /\ OneBallotEach'
  BY DEF GovInv, GovTypes, OneCounter, OneBallotEach
<1>2. \A id \in DOMAIN standard : standard[id].end \in Int
  BY DEF GovInv, GovTypes, StandardPoll
<1>3. \A id \in DOMAIN standard : Tallied(standard[id], id, FALSE, ballots) /\ Decided(standard[id], id, offchain, govNow)
  BY DEF GovInv, StandardFine
<1>4. ASSUME NEW id \in DOMAIN standard PROVE Tallied(standard[id], id, FALSE, ballots) /\ Decided(standard[id], id, offchain, govNow')
  <2>1. standard[id].end \in Int /\ govNow \in Int
    BY <1>2 DEF GovInv, GovTypes
  <2> DEFINE end == standard[id].end
  <2>2. govNow >= end => govNow' >= end
    BY <2>1
  <2>3. Tallied(standard[id], id, FALSE, ballots)
    BY <1>3
  <2>4. Decided(standard[id], id, offchain, govNow')
    BY <1>3, <2>2, Zenon DEF Decided
  <2>5. QED
    BY <2>3, <2>4
<1>5. StandardFine'
  BY <1>4 DEF StandardFine
<1>6. FastFine'
  BY DEF GovInv, FastFine
<1>7. QED
  BY <1>1, <1>5, <1>6 DEF GovInv

LEMMA SettingKept ==
  ASSUME GovInv, Gov!Setting \/ Gov!Tick \/ UNCHANGED govVars
  PROVE  GovInv'
<1>1. UNCHANGED <<count, standard, fast, voted, offchain, ballots>>
  BY DEF Gov!Setting, Gov!Tick, Gov!state, govVars
<1>2. govNow' \in Int /\ govNow' >= govNow
  BY DEF Gov!Setting, Gov!Tick, govVars, GovInv, GovTypes
<1>3. stake \in [Account -> Int] /\ target \in HashValue /\ track \in TrackRecord
  BY DEF GovInv, GovTypes
<1>4. CASE Gov!Setting
  <2>1. TrackSettings \subseteq TrackRecord /\ Stakes \subseteq Int
    BY GovernanceOk DEF TrackRecord
  <2>2. stake' \in [Account -> Int]
    BY <1>3, <1>4, <2>1 DEF Gov!Setting, Gov!SetStake, Gov!SetTargetHash, Gov!ConfigureFastTrack, Gov!RegisterCriticalBugReport
  <2>3. target' \in HashValue
    BY <1>3, <1>4 DEF Gov!Setting, Gov!SetStake, Gov!SetTargetHash, Gov!ConfigureFastTrack, Gov!RegisterCriticalBugReport, HashValue
  <2>4. track' \in TrackRecord
    BY <1>3, <1>4, <2>1 DEF Gov!Setting, Gov!SetStake, Gov!SetTargetHash, Gov!ConfigureFastTrack, Gov!RegisterCriticalBugReport
  <2>5. QED
    BY <1>1, <1>2, <2>2, <2>3, <2>4, GovUntouched
<1>5. CASE Gov!Tick \/ UNCHANGED govVars
  <2>1. stake' = stake /\ target' = target /\ track' = track
    BY <1>5 DEF Gov!Tick, Gov!state, govVars
  <2>2. QED
    BY <1>1, <1>2, <1>3, <2>1, GovUntouched
<1>6. QED
  BY <1>4, <1>5

(* A new proposal draws the next id, which no ballot names.                *)
LEMMA FreshId ==
  ASSUME GovInv
  PROVE  /\ count + 1 \in Nat /\ count + 1 \notin DOMAIN standard /\ count + 1 \notin DOMAIN fast
         /\ count + 1 \notin DOMAIN offchain /\ 1..count \subseteq 1..(count + 1) /\ count + 1 \in 1..(count + 1)
         /\ \A isFast, side : Backing(ballots, count + 1, isFast, side) = 0
<1>1. count \in Nat /\ count + 1 \notin 1..count /\ count + 1 \in Nat /\ 1..count \subseteq 1..(count + 1)
  BY DEF GovInv, GovTypes
<1>2. \A b \in ballots : b.id \in DOMAIN standard \union DOMAIN fast
  BY DEF GovInv, OneBallotEach
<1>3. DOMAIN standard \subseteq 1..count /\ DOMAIN fast \subseteq 1..count /\ DOMAIN offchain \subseteq 1..count
  BY DEF GovInv, OneCounter
<1>4. \A b \in ballots : b.id # count + 1
  BY <1>1, <1>2, <1>3
<1>5. \A isFast, side : Backing(ballots, count + 1, isFast, side) = 0
  BY <1>4, NoBacking
<1>6. QED
  BY <1>1, <1>3, <1>5

LEMMA CreatedKept ==
  ASSUME GovInv, NEW a \in Account, Gov!CreateProposal(a)
  PROVE  GovInv'
<1> DEFINE id == count + 1
           p == Gov!Poll
<1>1. /\ count' = id /\ standard' = Gov!Put(standard, id, p)
      /\ UNCHANGED <<stake, target, track, fast, voted, offchain, ballots, govNow>>
  BY DEF Gov!CreateProposal, Gov!settings
<1>2. p \in StandardPoll /\ p.for = 0 /\ p.against = 0 /\ p.status = "Active" /\ p.mode = "OnChain"
  BY GovernanceOk DEF Gov!Poll, StandardPoll, GovInv, GovTypes
<1>3. /\ id \in Nat /\ id \notin DOMAIN standard /\ id \notin DOMAIN fast /\ id \notin DOMAIN offchain
      /\ 1..count \subseteq 1..id /\ id \in 1..id
      /\ \A isFast, side : Backing(ballots, id, isFast, side) = 0
  BY FreshId
<1> HIDE DEF id, p
<1>4. /\ DOMAIN standard' = DOMAIN standard \union {id} /\ standard'[id] = p
      /\ \A i \in DOMAIN standard : standard'[i] = standard[i]
      /\ standard' = [x \in {id} \union DOMAIN standard |-> IF x = id THEN p ELSE standard[x]]
  BY <1>1, <1>3 DEF Gov!Put
<1>5. standard' \in [DOMAIN standard' -> StandardPoll]
  BY <1>2, <1>4 DEF GovInv, GovTypes
<1>6. GovTypes'
  BY <1>1, <1>3, <1>5 DEF GovInv, GovTypes
<1>7. OneCounter'
  BY <1>1, <1>3, <1>4 DEF GovInv, OneCounter
<1>8. OneBallotEach'
  BY <1>1, <1>4 DEF GovInv, OneBallotEach
<1>9. FastFine'
  BY <1>1 DEF GovInv, FastFine
<1>10. StandardFine'
  <2>1. Tallied(p, id, FALSE, ballots) /\ Decided(p, id, offchain, govNow)
    BY <1>1, <1>2, <1>3 DEF Tallied, Decided
  <2>2. \A i \in DOMAIN standard : Tallied(standard[i], i, FALSE, ballots) /\ Decided(standard[i], i, offchain, govNow)
    BY DEF GovInv, StandardFine
  <2>3. QED
    BY <1>1, <1>4, <2>1, <2>2 DEF StandardFine
<1>11. QED
  BY <1>6, <1>7, <1>8, <1>9, <1>10 DEF GovInv

LEMMA FastCreatedKept ==
  ASSUME GovInv, NEW a \in Account, NEW size \in Sizes, Gov!CreateFastTrackProposal(a, size)
  PROVE  GovInv'
<1> DEFINE id == count + 1
           p == Gov!FastTrackPoll
<1>1. /\ count' = id /\ fast' = Gov!Put(fast, id, p)
      /\ UNCHANGED <<stake, target, track, standard, voted, offchain, ballots, govNow>>
  BY DEF Gov!CreateFastTrackProposal, Gov!settings, Gov!FastTrackId
<1>2. p \in FastPoll /\ p.for = 0 /\ p.against = 0 /\ p.status = "Active"
  BY GovernanceOk DEF Gov!FastTrackPoll, FastPoll, GovInv, GovTypes, TrackRecord
<1>3. /\ id \in Nat /\ id \notin DOMAIN standard /\ id \notin DOMAIN fast
      /\ 1..count \subseteq 1..id /\ id \in 1..id
      /\ \A isFast, side : Backing(ballots, id, isFast, side) = 0
  BY FreshId
<1> HIDE DEF id, p
<1>4. /\ DOMAIN fast' = DOMAIN fast \union {id} /\ fast'[id] = p
      /\ \A i \in DOMAIN fast : fast'[i] = fast[i]
      /\ fast' = [x \in {id} \union DOMAIN fast |-> IF x = id THEN p ELSE fast[x]]
  BY <1>1, <1>3 DEF Gov!Put
<1>5. fast' \in [DOMAIN fast' -> FastPoll]
  BY <1>2, <1>4 DEF GovInv, GovTypes
<1>6. GovTypes'
  BY <1>1, <1>3, <1>5 DEF GovInv, GovTypes
<1>7. OneCounter'
  BY <1>1, <1>3, <1>4 DEF GovInv, OneCounter
<1>8. OneBallotEach'
  BY <1>1, <1>4 DEF GovInv, OneBallotEach
<1>9. StandardFine'
  BY <1>1 DEF GovInv, StandardFine
<1>10. FastFine'
  <2>1. Tallied(p, id, TRUE, ballots) /\ FastDecided(p)
    BY <1>2, <1>3 DEF Tallied, FastDecided
  <2>2. \A i \in DOMAIN fast : Tallied(fast[i], i, TRUE, ballots) /\ FastDecided(fast[i])
    BY DEF GovInv, FastFine
  <2>3. QED
    BY <1>1, <1>4, <2>1, <2>2 DEF FastFine
<1>11. QED
  BY <1>6, <1>7, <1>8, <1>9, <1>10 DEF GovInv

LEMMA BackingInt ==
  ASSUME NEW B \in SUBSET BallotRecord, IsFiniteSet(B)
  PROVE  \A id, isFast, side : Backing(B, id, isFast, side) \in Int
<1> TAKE id, isFast, side
<1> DEFINE S == {b \in B : b.id = id /\ b.fast = isFast /\ b.support = side}
           f == [b \in B |-> b.weight]
<1>1. IsFiniteSet(S) /\ \A b \in S : f[b] \in Int
  BY FS_Subset DEF BallotRecord
<1>2. SumOver(f, S) \in Int
  BY <1>1, SumInt
<1>3. QED
  BY <1>2 DEF Backing

(* What a ballot does to the tally it is for, and to the others.           *)
LEMMA TallyMoves ==
  ASSUME NEW B \in SUBSET BallotRecord, IsFiniteSet(B), NEW b \in BallotRecord, b \notin B,
         NEW p, NEW r, Tallied(p, b.id, b.fast, B),
         b.support = TRUE => r.for = p.for + b.weight /\ r.against = p.against,
         b.support = FALSE => r.for = p.for /\ r.against = p.against + b.weight
  PROVE  Tallied(r, b.id, b.fast, B \union {b})
<1> DEFINE Old(s) == Backing(B, b.id, b.fast, s)
           New(s) == Backing(B \union {b}, b.id, b.fast, s)
<1>1. \A s : Old(s) \in Int
  BY BackingInt
<1>2. \A s : New(s) = Old(s) + (IF b.id = b.id /\ b.fast = b.fast /\ b.support = s THEN b.weight ELSE 0)
  BY BackingGrows
<1>3. p.for = Old(TRUE) /\ p.against = Old(FALSE) /\ b.weight \in Int
  BY DEF Tallied, BallotRecord
<1>4. r.for = New(TRUE) /\ r.against = New(FALSE) => Tallied(r, b.id, b.fast, B \union {b})
  BY DEF Tallied
<1>5. b.support = TRUE \/ b.support = FALSE
  BY DEF BallotRecord
<1> HIDE DEF Old, New
<1>6. New(b.support) = Old(b.support) + b.weight
  BY <1>2, Zenon
<1>7. \A s : s # b.support => New(s) = Old(s) + 0
  BY <1>2, Zenon
<1>8. CASE b.support = TRUE
  <2>1. New(TRUE) = Old(TRUE) + b.weight /\ New(FALSE) = Old(FALSE) + 0
    BY <1>6, <1>7, <1>8, Zenon
  <2>2. r.for = p.for + b.weight /\ r.against = p.against
    BY <1>8
  <2>3. Old(FALSE) + 0 = Old(FALSE)
    <3>1. \A n \in Int : n + 0 = n
      OBVIOUS
    <3>2. QED
      BY <1>1, <3>1, Zenon
  <2>4. QED
    BY <1>3, <1>4, <2>1, <2>2, <2>3, Zenon
<1>9. CASE b.support = FALSE
  <2>1. New(FALSE) = Old(FALSE) + b.weight /\ New(TRUE) = Old(TRUE) + 0
    BY <1>6, <1>7, <1>9, Zenon
  <2>2. r.for = p.for /\ r.against = p.against + b.weight
    BY <1>9
  <2>3. Old(TRUE) + 0 = Old(TRUE)
    <3>1. \A n \in Int : n + 0 = n
      OBVIOUS
    <3>2. QED
      BY <1>1, <3>1, Zenon
  <2>4. QED
    BY <1>3, <1>4, <2>1, <2>2, <2>3, Zenon
<1>10. QED
  BY <1>5, <1>8, <1>9

LEMMA TallyStays ==
  ASSUME NEW B \in SUBSET BallotRecord, IsFiniteSet(B), NEW b \in BallotRecord, b \notin B,
         NEW p, NEW id, NEW isFast, Tallied(p, id, isFast, B), ~(b.id = id /\ b.fast = isFast)
  PROVE  Tallied(p, id, isFast, B \union {b})
<1>1. ASSUME NEW s PROVE Backing(B \union {b}, id, isFast, s) = Backing(B, id, isFast, s)
  <2>1. Backing(B, id, isFast, s) \in Int
    BY BackingInt
  <2>2. Backing(B \union {b}, id, isFast, s) =
          Backing(B, id, isFast, s) + (IF b.id = id /\ b.fast = isFast /\ b.support = s THEN b.weight ELSE 0)
    BY BackingGrows
  <2>3. Backing(B \union {b}, id, isFast, s) = Backing(B, id, isFast, s) + 0
    BY <2>2, Zenon
  <2>4. QED
    BY <2>1, <2>3
<1>2. QED
  BY <1>1 DEF Tallied

(* A vote adds the voter's only ballot on that id.                         *)
LEMMA BallotCast ==
  ASSUME GovInv, NEW b \in BallotRecord, <<b.id, b.voter>> \notin voted,
         IF b.fast THEN b.id \in DOMAIN fast ELSE b.id \in DOMAIN standard,
         voted' = voted \union {<<b.id, b.voter>>}, ballots' = ballots \union {b},
         DOMAIN standard' = DOMAIN standard, DOMAIN fast' = DOMAIN fast
  PROVE  b \notin ballots /\ ballots' \in SUBSET BallotRecord /\ IsFiniteSet(ballots') /\ OneBallotEach'
<1>1. ballots \in SUBSET BallotRecord /\ IsFiniteSet(ballots)
  BY DEF GovInv, GovTypes
<1>2. \A c \in ballots : <<c.id, c.voter>> \in voted
  BY Zenon DEF GovInv, OneBallotEach
<1>3. \A c \in ballots : IF c.fast THEN c.id \in DOMAIN fast ELSE c.id \in DOMAIN standard
  BY DEF GovInv, OneBallotEach
<1>4. \A v \in voted : \E c \in ballots : c.id = v[1] /\ c.voter = v[2]
  BY DEF GovInv, OneBallotEach
<1>5. \A c, d \in ballots : c.id = d.id /\ c.voter = d.voter => c = d
  BY DEF GovInv, OneBallotEach
<1>6. \A c \in ballots : ~(c.id = b.id /\ c.voter = b.voter)
  BY <1>2, Zenon
<1>7. b \notin ballots
  BY <1>6
<1>8. ballots' \in SUBSET BallotRecord /\ IsFiniteSet(ballots')
  BY <1>1, FS_AddElement
<1>9. \A c \in ballots' : <<c.id, c.voter>> \in voted'
  BY <1>2, Zenon
<1>10. \A c \in ballots' : IF c.fast THEN c.id \in DOMAIN fast' ELSE c.id \in DOMAIN standard'
  BY <1>3
<1>11. \A v \in voted' : \E c \in ballots' : c.id = v[1] /\ c.voter = v[2]
  BY <1>4
<1>12. \A c, d \in ballots' : c.id = d.id /\ c.voter = d.voter => c = d
  BY <1>5, <1>6
<1>13. QED
  BY <1>7, <1>8, <1>9, <1>10, <1>11, <1>12 DEF OneBallotEach

LEMMA VoteKept ==
  ASSUME GovInv, NEW a \in Account, NEW id \in DOMAIN standard, NEW side \in BOOLEAN, Gov!Vote(a, id, side)
  PROVE  GovInv'
<1> DEFINE p == standard[id]
           r == Gov!Counted(p, a, side)
           b == [id |-> id, fast |-> FALSE, voter |-> a, support |-> side, weight |-> stake[a]]
<1>1. /\ p \in StandardPoll /\ id \in Nat /\ stake[a] \in Int /\ standard \in [DOMAIN standard -> StandardPoll]
      /\ ballots \in SUBSET BallotRecord /\ IsFiniteSet(ballots)
  BY DEF GovInv, GovTypes, OneCounter
<1>2. Tallied(p, id, FALSE, ballots) /\ Decided(p, id, offchain, govNow)
  BY DEF GovInv, StandardFine
<1>3. /\ p.status = "Active" /\ p.mode = "OnChain" /\ standard' = [standard EXCEPT ![id] = r]
      /\ <<id, a>> \notin voted /\ voted' = voted \union {<<id, a>>} /\ ballots' = ballots \union {b}
      /\ UNCHANGED <<stake, target, track, count, fast, offchain, govNow>>
  BY DEF Gov!Vote, Gov!Cast, Gov!Open, Gov!settings
<1>4. /\ r \in StandardPoll /\ r.status = p.status /\ r.mode = p.mode
      /\ side = TRUE => r.for = p.for + stake[a] /\ r.against = p.against
      /\ side = FALSE => r.for = p.for /\ r.against = p.against + stake[a]
  <2>1. CASE side
    BY <1>1, <2>1 DEF Gov!Counted, StandardPoll
  <2>2. CASE ~side
    BY <1>1, <2>2 DEF Gov!Counted, StandardPoll
  <2>3. QED
    BY <2>1, <2>2
<1>5. /\ b \in BallotRecord /\ b.id = id /\ b.fast = FALSE /\ b.voter = a /\ b.support = side
      /\ b.weight = stake[a]
  BY <1>1 DEF BallotRecord
<1> HIDE DEF r, b
<1>6. /\ DOMAIN standard' = DOMAIN standard /\ standard'[id] = r /\ standard' \in [DOMAIN standard -> StandardPoll]
      /\ \A i \in DOMAIN standard : i # id => standard'[i] = standard[i]
  BY <1>1, <1>3, <1>4
<1>7. b \notin ballots /\ ballots' \in SUBSET BallotRecord /\ IsFiniteSet(ballots') /\ OneBallotEach'
  <2>1. IF b.fast THEN b.id \in DOMAIN fast ELSE b.id \in DOMAIN standard
    BY <1>5
  <2>2. <<b.id, b.voter>> \notin voted /\ voted' = voted \union {<<b.id, b.voter>>}
    BY <1>3, <1>5
  <2>3. QED
    BY <1>3, <1>5, <1>6, <2>1, <2>2, BallotCast
<1>8. Tallied(r, id, FALSE, ballots')
  <2>1. Tallied(p, b.id, b.fast, ballots)
    BY <1>2, <1>5
  <2>2. /\ b.support = TRUE => r.for = p.for + b.weight /\ r.against = p.against
        /\ b.support = FALSE => r.for = p.for /\ r.against = p.against + b.weight
    BY <1>4, <1>5, Zenon
  <2>3. Tallied(r, b.id, b.fast, ballots \union {b})
    BY <1>1, <1>5, <1>7, <2>1, <2>2, TallyMoves
  <2>4. QED
    BY <1>3, <1>5, <2>3
<1>9. Decided(r, id, offchain, govNow)
  BY <1>2, <1>3, <1>4 DEF Decided
<1>10. \A i \in DOMAIN standard : i # id => Tallied(standard[i], i, FALSE, ballots')
  BY <1>1, <1>3, <1>5, <1>7, TallyStays DEF GovInv, StandardFine
<1>11. StandardFine'
  BY <1>3, <1>6, <1>8, <1>9, <1>10 DEF GovInv, StandardFine
<1>12. \A i \in DOMAIN fast : Tallied(fast[i], i, TRUE, ballots')
  BY <1>1, <1>3, <1>5, <1>7, TallyStays DEF GovInv, FastFine
<1>13. FastFine'
  BY <1>3, <1>12 DEF GovInv, FastFine
<1>14. QED
  BY <1>3, <1>6, <1>7, <1>11, <1>13 DEF GovInv, GovTypes, OneCounter

LEMMA FastVoteKept ==
  ASSUME GovInv, NEW a \in Account, NEW id \in DOMAIN fast, NEW side \in BOOLEAN, Gov!VoteFastTrack(a, id, side)
  PROVE  GovInv'
<1> DEFINE p == fast[id]
           r == Gov!Counted(p, a, side)
           b == [id |-> id, fast |-> TRUE, voter |-> a, support |-> side, weight |-> stake[a]]
<1>1. /\ p \in FastPoll /\ id \in Nat /\ stake[a] \in Int /\ fast \in [DOMAIN fast -> FastPoll]
      /\ ballots \in SUBSET BallotRecord /\ IsFiniteSet(ballots)
  BY DEF GovInv, GovTypes, OneCounter
<1>2. Tallied(p, id, TRUE, ballots)
  BY DEF GovInv, FastFine
<1>3. /\ p.status = "Active" /\ fast' = [fast EXCEPT ![id] = r]
      /\ <<id, a>> \notin voted /\ voted' = voted \union {<<id, a>>} /\ ballots' = ballots \union {b}
      /\ UNCHANGED <<stake, target, track, count, standard, offchain, govNow>>
  BY DEF Gov!VoteFastTrack, Gov!Cast, Gov!Open, Gov!settings
<1>4. /\ r \in FastPoll /\ r.status = p.status
      /\ side = TRUE => r.for = p.for + stake[a] /\ r.against = p.against
      /\ side = FALSE => r.for = p.for /\ r.against = p.against + stake[a]
  <2>1. CASE side
    BY <1>1, <2>1 DEF Gov!Counted, FastPoll
  <2>2. CASE ~side
    BY <1>1, <2>2 DEF Gov!Counted, FastPoll
  <2>3. QED
    BY <2>1, <2>2
<1>5. /\ b \in BallotRecord /\ b.id = id /\ b.fast = TRUE /\ b.voter = a /\ b.support = side
      /\ b.weight = stake[a]
  BY <1>1 DEF BallotRecord
<1> HIDE DEF r, b
<1>6. /\ DOMAIN fast' = DOMAIN fast /\ fast'[id] = r /\ fast' \in [DOMAIN fast -> FastPoll]
      /\ \A i \in DOMAIN fast : i # id => fast'[i] = fast[i]
  BY <1>1, <1>3, <1>4
<1>7. b \notin ballots /\ ballots' \in SUBSET BallotRecord /\ IsFiniteSet(ballots') /\ OneBallotEach'
  <2>1. IF b.fast THEN b.id \in DOMAIN fast ELSE b.id \in DOMAIN standard
    BY <1>5
  <2>2. <<b.id, b.voter>> \notin voted /\ voted' = voted \union {<<b.id, b.voter>>}
    BY <1>3, <1>5
  <2>3. QED
    BY <1>3, <1>5, <1>6, <2>1, <2>2, BallotCast
<1>8. Tallied(r, id, TRUE, ballots')
  <2>1. Tallied(p, b.id, b.fast, ballots)
    BY <1>2, <1>5
  <2>2. /\ b.support = TRUE => r.for = p.for + b.weight /\ r.against = p.against
        /\ b.support = FALSE => r.for = p.for /\ r.against = p.against + b.weight
    BY <1>4, <1>5, Zenon
  <2>3. Tallied(r, b.id, b.fast, ballots \union {b})
    BY <1>1, <1>5, <1>7, <2>1, <2>2, TallyMoves
  <2>4. QED
    BY <1>3, <1>5, <2>3
<1>9. FastDecided(r)
  BY <1>3, <1>4 DEF FastDecided
<1>10. \A i \in DOMAIN fast : i # id => Tallied(fast[i], i, TRUE, ballots')
  BY <1>1, <1>3, <1>5, <1>7, TallyStays DEF GovInv, FastFine
<1>11. FastFine'
  BY <1>3, <1>6, <1>8, <1>9, <1>10 DEF GovInv, FastFine
<1>12. \A i \in DOMAIN standard : Tallied(standard[i], i, FALSE, ballots')
  BY <1>1, <1>3, <1>5, <1>7, TallyStays DEF GovInv, StandardFine
<1>13. StandardFine'
  BY <1>3, <1>12 DEF GovInv, StandardFine
<1>14. QED
  BY <1>3, <1>6, <1>7, <1>11, <1>13 DEF GovInv, GovTypes, OneCounter

(* A proposal that changes but for its tally.                              *)
LEMMA StandardMoves ==
  ASSUME GovInv, NEW id \in DOMAIN standard, NEW r \in StandardPoll,
         standard' = [standard EXCEPT ![id] = r], r.for = standard[id].for, r.against = standard[id].against,
         Decided(r, id, offchain, govNow),
         UNCHANGED <<stake, target, track, count, fast, voted, offchain, ballots, govNow>>
  PROVE  GovInv'
<1>1. /\ DOMAIN standard' = DOMAIN standard /\ standard'[id] = r /\ standard' \in [DOMAIN standard -> StandardPoll]
      /\ \A i \in DOMAIN standard : i # id => standard'[i] = standard[i]
  BY DEF GovInv, GovTypes
<1>2. Tallied(r, id, FALSE, ballots)
  BY DEF GovInv, StandardFine, Tallied
<1>3. StandardFine'
  BY <1>1, <1>2 DEF GovInv, StandardFine
<1>4. OneBallotEach'
  BY <1>1 DEF GovInv, OneBallotEach
<1>5. FastFine'
  BY DEF GovInv, FastFine
<1>6. QED
  BY <1>1, <1>3, <1>4, <1>5 DEF GovInv, GovTypes, OneCounter

LEMMA FastMoves ==
  ASSUME GovInv, NEW id \in DOMAIN fast, NEW r \in FastPoll,
         fast' = [fast EXCEPT ![id] = r], r.for = fast[id].for, r.against = fast[id].against,
         FastDecided(r),
         UNCHANGED <<stake, target, track, count, standard, voted, offchain, ballots, govNow>>
  PROVE  GovInv'
<1>1. /\ DOMAIN fast' = DOMAIN fast /\ fast'[id] = r /\ fast' \in [DOMAIN fast -> FastPoll]
      /\ \A i \in DOMAIN fast : i # id => fast'[i] = fast[i]
  BY DEF GovInv, GovTypes
<1>2. Tallied(r, id, TRUE, ballots)
  BY DEF GovInv, FastFine, Tallied
<1>3. FastFine'
  BY <1>1, <1>2 DEF GovInv, FastFine
<1>4. OneBallotEach'
  BY <1>1 DEF GovInv, OneBallotEach
<1>5. StandardFine'
  BY DEF GovInv, StandardFine
<1>6. QED
  BY <1>1, <1>3, <1>4, <1>5 DEF GovInv, GovTypes, OneCounter

LEMMA StandardAt ==
  ASSUME GovInv, NEW id \in DOMAIN standard
  PROVE  standard[id] \in StandardPoll /\ Decided(standard[id], id, offchain, govNow) /\ govNow \in Int
BY DEF GovInv, GovTypes, StandardFine

LEMMA DesignatedKept ==
  ASSUME GovInv, NEW id \in DOMAIN standard, Gov!DesignateOffchainVoting(id)
  PROVE  GovInv'
<1> DEFINE p == standard[id]
           r == [p EXCEPT !.mode = "OffChain"]
<1>1. p \in StandardPoll /\ Decided(p, id, offchain, govNow)
  BY StandardAt
<1>2. /\ p.status = "Active" /\ p.mode = "OnChain" /\ p.for = 0 /\ p.against = 0
      /\ standard' = [standard EXCEPT ![id] = r]
      /\ UNCHANGED <<stake, target, track, count, fast, voted, offchain, ballots, govNow>>
  BY DEF Gov!DesignateOffchainVoting, Gov!settings
<1>3. /\ r \in StandardPoll /\ r.for = p.for /\ r.against = p.against /\ r.status = p.status
      /\ r.mode = "OffChain" /\ r.end = p.end
  BY <1>1 DEF StandardPoll
<1> HIDE DEF r
<1>4. Decided(r, id, offchain, govNow)
  BY <1>1, <1>2, <1>3 DEF Decided
<1>5. QED
  BY <1>2, <1>3, <1>4, StandardMoves

LEMMA ExecutedKept ==
  ASSUME GovInv, NEW id \in DOMAIN standard, Gov!ExecuteProposal(id)
  PROVE  GovInv'
<1> DEFINE p == standard[id]
           r == [p EXCEPT !.status = "Executed"]
<1>1. p \in StandardPoll /\ Decided(p, id, offchain, govNow)
  BY StandardAt
<1>2. /\ standard' = [standard EXCEPT ![id] = r]
      /\ UNCHANGED <<stake, target, track, count, fast, voted, offchain, ballots, govNow>>
  BY DEF Gov!ExecuteProposal, Gov!settings
<1>3. p.mode = "OnChain" => Gov!Won(p.for, p.against, ThresholdBps)
  BY DEF Gov!ExecuteProposal
<1>4. p.mode = "OffChain" => id \in DOMAIN offchain /\ Gov!Won(offchain[id][1], offchain[id][2], ThresholdBps)
  BY DEF Gov!ExecuteProposal
<1>5. /\ r \in StandardPoll /\ r.for = p.for /\ r.against = p.against /\ r.mode = p.mode /\ r.end = p.end
  BY <1>1 DEF StandardPoll
<1> HIDE DEF r
<1>6. Decided(r, id, offchain, govNow)
  BY <1>1, <1>3, <1>4, <1>5 DEF Decided
<1>7. QED
  BY <1>2, <1>5, <1>6, StandardMoves

LEMMA FastExecutedKept ==
  ASSUME GovInv, NEW id \in DOMAIN fast, Gov!ExecuteFastTrackProposal(id)
  PROVE  GovInv'
<1> DEFINE p == fast[id]
           r == [p EXCEPT !.status = "Executed"]
<1>1. p \in FastPoll
  BY DEF GovInv, GovTypes
<1>2. /\ fast' = [fast EXCEPT ![id] = r]
      /\ UNCHANGED <<stake, target, track, count, standard, voted, offchain, ballots, govNow>>
  BY DEF Gov!ExecuteFastTrackProposal, Gov!settings
<1>3. Gov!Won(p.for, p.against, track.threshold)
  BY DEF Gov!ExecuteFastTrackProposal
<1>4. p.for + p.against >= Quorum
  BY <1>3 DEF Gov!Won
<1>5. r \in FastPoll /\ r.for = p.for /\ r.against = p.against
  BY <1>1 DEF FastPoll
<1> HIDE DEF r
<1>6. FastDecided(r)
  BY <1>4, <1>5, Zenon DEF FastDecided
<1>7. QED
  BY <1>2, <1>5, <1>6, FastMoves

LEMMA DisclosedKept ==
  ASSUME GovInv, NEW id \in DOMAIN fast, Gov!PublishFastTrackDisclosure(id)
  PROVE  GovInv'
<1> DEFINE p == fast[id]
           r == [p EXCEPT !.disclosed = TRUE]
<1>1. p \in FastPoll /\ FastDecided(p)
  BY DEF GovInv, GovTypes, FastFine
<1>2. /\ fast' = [fast EXCEPT ![id] = r]
      /\ UNCHANGED <<stake, target, track, count, standard, voted, offchain, ballots, govNow>>
  BY DEF Gov!PublishFastTrackDisclosure, Gov!settings
<1>3. r \in FastPoll /\ r.for = p.for /\ r.against = p.against /\ r.status = p.status
  BY <1>1 DEF FastPoll
<1> HIDE DEF r
<1>4. FastDecided(r)
  BY <1>1, <1>3, Zenon DEF FastDecided
<1>5. QED
  BY <1>2, <1>3, <1>4, FastMoves

(* A result is anchored once, after the end, and before any execution.     *)
LEMMA AnchoredKept ==
  ASSUME GovInv, NEW id \in DOMAIN standard, NEW result \in Results, Gov!AnchorOffchainResult(id, result)
  PROVE  GovInv'
<1>1. standard[id] \in StandardPoll /\ Decided(standard[id], id, offchain, govNow)
  BY StandardAt
<1>2. /\ standard[id].status = "Active" /\ standard[id].mode = "OffChain" /\ govNow >= standard[id].end
      /\ id \notin DOMAIN offchain /\ offchain' = Gov!Put(offchain, id, result)
      /\ UNCHANGED <<stake, target, track, count, standard, fast, voted, ballots, govNow>>
  BY DEF Gov!AnchorOffchainResult, Gov!VotingOver, Gov!settings
<1>3. DOMAIN offchain' = DOMAIN offchain \union {id} /\ \A i \in DOMAIN offchain : offchain'[i] = offchain[i]
  BY <1>2 DEF Gov!Put
<1>4. Decided(standard[id], id, offchain', govNow)
  BY <1>1, <1>2, <1>3 DEF Decided
<1>5. ASSUME NEW i \in DOMAIN standard, i # id PROVE Decided(standard[i], i, offchain', govNow)
  BY <1>3, <1>5, StandardAt DEF Decided
<1>6. StandardFine'
  BY <1>2, <1>4, <1>5 DEF GovInv, StandardFine
<1>7. OneCounter'
  BY <1>2, <1>3 DEF GovInv, OneCounter
<1>8. QED
  BY <1>2, <1>6, <1>7 DEF GovInv, GovTypes, OneBallotEach, FastFine

LEMMA GovKept ==
  ASSUME GovInv, [Gov!Next]_govVars
  PROVE  GovInv'
<1>1. CASE Gov!Setting \/ Gov!Tick \/ UNCHANGED govVars
  BY <1>1, SettingKept
<1>2. CASE \E a \in Account : Gov!CreateProposal(a)
  BY <1>2, CreatedKept
<1>3. CASE \E a \in Account, size \in Sizes : Gov!CreateFastTrackProposal(a, size)
  BY <1>3, FastCreatedKept
<1>4. ASSUME NEW id \in DOMAIN standard, \E a \in Account, b \in BOOLEAN : Gov!Vote(a, id, b) PROVE GovInv'
  BY <1>4, VoteKept
<1>5. ASSUME NEW id \in DOMAIN standard, Gov!DesignateOffchainVoting(id) PROVE GovInv'
  BY <1>5, DesignatedKept
<1>6. ASSUME NEW id \in DOMAIN standard, \E r \in Results : Gov!AnchorOffchainResult(id, r) PROVE GovInv'
  BY <1>6, AnchoredKept
<1>7. ASSUME NEW id \in DOMAIN standard, Gov!ExecuteProposal(id) PROVE GovInv'
  BY <1>7, ExecutedKept
<1>8. ASSUME NEW id \in DOMAIN fast, \E a \in Account, b \in BOOLEAN : Gov!VoteFastTrack(a, id, b) PROVE GovInv'
  BY <1>8, FastVoteKept
<1>9. ASSUME NEW id \in DOMAIN fast, Gov!ExecuteFastTrackProposal(id) PROVE GovInv'
  BY <1>9, FastExecutedKept
<1>10. ASSUME NEW id \in DOMAIN fast, Gov!PublishFastTrackDisclosure(id) PROVE GovInv'
  BY <1>10, DisclosedKept
<1>11. QED
  BY <1>1, <1>2, <1>3, <1>4, <1>5, <1>6, <1>7, <1>8, <1>9, <1>10 DEF Gov!Next

(* The records of the timelock: one per executed proposal, and no other.   *)
ScheduleInv == scheduled \in Seq(Nat) /\ Gov!ScheduledOnce

LEMMA ScheduleStarts ==
  ASSUME Gov!Init
  PROVE  ScheduleInv
<1>1. scheduled = <<>> /\ DOMAIN standard = {} /\ DOMAIN fast = {}
  BY DEF Gov!Init, Gov!None
<1>2. QED
  BY <1>1 DEF ScheduleInv, Gov!ScheduledOnce, Gov!Carried

LEMMA ScheduleRests ==
  ASSUME ScheduleInv, scheduled' = scheduled, Gov!Carried' = Gov!Carried
  PROVE  ScheduleInv'
BY DEF ScheduleInv, Gov!ScheduledOnce

LEMMA ScheduleGrows ==
  ASSUME ScheduleInv, NEW id \in Nat, id \notin Gov!Carried,
         scheduled' = Append(scheduled, id), Gov!Carried' = Gov!Carried \union {id}
  PROVE  ScheduleInv'
<1>1. scheduled \in Seq(Nat) /\ scheduled' \in Seq(Nat) /\ Len(scheduled') = Len(scheduled) + 1
  BY DEF ScheduleInv
<1>2. /\ DOMAIN scheduled = 1..Len(scheduled) /\ DOMAIN scheduled' = 1..(Len(scheduled) + 1)
      /\ scheduled'[Len(scheduled) + 1] = id
      /\ \A i \in 1..Len(scheduled) : scheduled'[i] = scheduled[i]
  BY <1>1 DEF ScheduleInv
<1>3. \A i \in 1..Len(scheduled) : scheduled[i] \in Gov!Carried
  BY <1>2 DEF ScheduleInv, Gov!ScheduledOnce
<1>4. {scheduled'[i] : i \in DOMAIN scheduled'} = {scheduled[i] : i \in DOMAIN scheduled} \union {id}
  BY <1>1, <1>2
<1>5. {scheduled'[i] : i \in DOMAIN scheduled'} = Gov!Carried'
  BY <1>4 DEF ScheduleInv, Gov!ScheduledOnce
<1>6. \A i, j \in DOMAIN scheduled' : scheduled'[i] = scheduled'[j] => i = j
  <2>1. \A i, j \in 1..Len(scheduled) : scheduled[i] = scheduled[j] => i = j
    BY <1>2 DEF ScheduleInv, Gov!ScheduledOnce
  <2>2. \A i \in DOMAIN scheduled' : i \in 1..Len(scheduled) \/ i = Len(scheduled) + 1
    BY <1>1, <1>2
  <2>3. QED
    BY <1>2, <1>3, <2>1, <2>2
<1>7. QED
  BY <1>1, <1>5, <1>6 DEF ScheduleInv, Gov!ScheduledOnce

(* A step that leaves the proposals there are, or only changes those that  *)
(* keep their status, carries nothing further.                             *)
LEMMA StatusesRest ==
  ASSUME DOMAIN standard \subseteq DOMAIN standard', DOMAIN fast \subseteq DOMAIN fast',
         \A id \in DOMAIN standard : standard'[id].status = standard[id].status,
         \A id \in DOMAIN fast : fast'[id].status = fast[id].status,
         \A id \in DOMAIN standard' \ DOMAIN standard : standard'[id].status = "Active",
         \A id \in DOMAIN fast' \ DOMAIN fast : fast'[id].status = "Active"
  PROVE  Gov!Carried' = Gov!Carried
BY DEF Gov!Carried

LEMMA CarriedOnceKept ==
  ASSUME GovInv, ScheduleInv, [Gov!Next]_govVars
  PROVE  ScheduleInv'
<1>1. CASE Gov!Setting \/ Gov!Tick \/ UNCHANGED govVars
  <2>1. UNCHANGED <<standard, fast, scheduled>>
    BY <1>1 DEF Gov!Setting, Gov!Tick, Gov!state, govVars
  <2>2. QED
    BY <2>1, StatusesRest, ScheduleRests
<1>2. ASSUME NEW a \in Account, Gov!CreateProposal(a) PROVE ScheduleInv'
  <2>1. standard' = Gov!Put(standard, count + 1, Gov!Poll) /\ fast' = fast /\ scheduled' = scheduled
    BY <1>2 DEF Gov!CreateProposal
  <2>2. Gov!Poll.status = "Active" /\ count + 1 \notin DOMAIN standard
    BY FreshId DEF Gov!Poll
  <2>3. QED
    BY <2>1, <2>2, StatusesRest, ScheduleRests DEF Gov!Put
<1>3. ASSUME NEW a \in Account, NEW size \in Sizes, Gov!CreateFastTrackProposal(a, size) PROVE ScheduleInv'
  <2>1. fast' = Gov!Put(fast, count + 1, Gov!FastTrackPoll) /\ standard' = standard /\ scheduled' = scheduled
    BY <1>3 DEF Gov!CreateFastTrackProposal, Gov!FastTrackId
  <2>2. Gov!FastTrackPoll.status = "Active" /\ count + 1 \notin DOMAIN fast
    BY FreshId DEF Gov!FastTrackPoll
  <2>3. QED
    BY <2>1, <2>2, StatusesRest, ScheduleRests DEF Gov!Put
<1>4. ASSUME NEW id \in DOMAIN standard,
             \/ \E a \in Account, b \in BOOLEAN : Gov!Vote(a, id, b)
             \/ Gov!DesignateOffchainVoting(id)
             \/ \E r \in Results : Gov!AnchorOffchainResult(id, r)
      PROVE  ScheduleInv'
  <2>1. fast' = fast /\ scheduled' = scheduled
    BY <1>4 DEF Gov!Vote, Gov!Cast, Gov!DesignateOffchainVoting, Gov!AnchorOffchainResult
  <2>2. standard[id] \in StandardPoll /\ standard \in [DOMAIN standard -> StandardPoll]
    BY DEF GovInv, GovTypes
  <2>3. /\ DOMAIN standard' = DOMAIN standard
        /\ \A i \in DOMAIN standard : standard'[i].status = standard[i].status
    <3>1. CASE \E a \in Account, b \in BOOLEAN : Gov!Vote(a, id, b)
      <4>1. PICK a \in Account, b \in BOOLEAN : standard' = [standard EXCEPT ![id] = Gov!Counted(@, a, b)]
        BY <3>1 DEF Gov!Vote
      <4>2. Gov!Counted(standard[id], a, b).status = standard[id].status
        BY <2>2 DEF Gov!Counted, StandardPoll
      <4>3. QED
        BY <2>2, <4>1, <4>2
    <3>2. CASE Gov!DesignateOffchainVoting(id)
      <4>1. standard' = [standard EXCEPT ![id].mode = "OffChain"]
        BY <3>2 DEF Gov!DesignateOffchainVoting
      <4>2. QED
        BY <2>2, <4>1 DEF StandardPoll
    <3>3. CASE \E r \in Results : Gov!AnchorOffchainResult(id, r)
      BY <3>3 DEF Gov!AnchorOffchainResult
    <3>4. QED
      BY <1>4, <3>1, <3>2, <3>3
  <2>4. QED
    BY <2>1, <2>3, StatusesRest, ScheduleRests
<1>5. ASSUME NEW id \in DOMAIN fast,
             \/ \E a \in Account, b \in BOOLEAN : Gov!VoteFastTrack(a, id, b)
             \/ Gov!PublishFastTrackDisclosure(id)
      PROVE  ScheduleInv'
  <2>1. standard' = standard /\ scheduled' = scheduled
    BY <1>5 DEF Gov!VoteFastTrack, Gov!Cast, Gov!PublishFastTrackDisclosure
  <2>2. fast[id] \in FastPoll /\ fast \in [DOMAIN fast -> FastPoll]
    BY DEF GovInv, GovTypes
  <2>3. /\ DOMAIN fast' = DOMAIN fast
        /\ \A i \in DOMAIN fast : fast'[i].status = fast[i].status
    <3>1. CASE \E a \in Account, b \in BOOLEAN : Gov!VoteFastTrack(a, id, b)
      <4>1. PICK a \in Account, b \in BOOLEAN : fast' = [fast EXCEPT ![id] = Gov!Counted(@, a, b)]
        BY <3>1 DEF Gov!VoteFastTrack
      <4>2. Gov!Counted(fast[id], a, b).status = fast[id].status
        BY <2>2 DEF Gov!Counted, FastPoll
      <4>3. QED
        BY <2>2, <4>1, <4>2
    <3>2. CASE Gov!PublishFastTrackDisclosure(id)
      <4>1. fast' = [fast EXCEPT ![id].disclosed = TRUE]
        BY <3>2 DEF Gov!PublishFastTrackDisclosure
      <4>2. QED
        BY <2>2, <4>1 DEF FastPoll
    <3>3. QED
      BY <1>5, <3>1, <3>2
  <2>4. QED
    BY <2>1, <2>3, StatusesRest, ScheduleRests
<1>6. ASSUME NEW id \in DOMAIN standard, Gov!ExecuteProposal(id) PROVE ScheduleInv'
  <2>1. /\ standard[id].status = "Active" /\ fast' = fast /\ scheduled' = Append(scheduled, id)
        /\ standard' = [standard EXCEPT ![id].status = "Executed"]
    BY <1>6 DEF Gov!ExecuteProposal
  <2>2. id \in Nat /\ id \notin DOMAIN fast /\ standard \in [DOMAIN standard -> StandardPoll]
    BY DEF GovInv, GovTypes, OneCounter
  <2>3. /\ DOMAIN standard' = DOMAIN standard /\ standard'[id].status = "Executed"
        /\ \A i \in DOMAIN standard : i # id => standard'[i] = standard[i]
    BY <2>1, <2>2 DEF StandardPoll
  <2>4. id \notin Gov!Carried /\ Gov!Carried' = Gov!Carried \union {id}
    BY <2>1, <2>2, <2>3 DEF Gov!Carried
  <2>5. QED
    BY <2>1, <2>2, <2>4, ScheduleGrows
<1>7. ASSUME NEW id \in DOMAIN fast, Gov!ExecuteFastTrackProposal(id) PROVE ScheduleInv'
  <2>1. /\ fast[id].status = "Active" /\ standard' = standard /\ scheduled' = Append(scheduled, id)
        /\ fast' = [fast EXCEPT ![id].status = "Executed"]
    BY <1>7 DEF Gov!ExecuteFastTrackProposal
  <2>2. id \in Nat /\ id \notin DOMAIN standard /\ fast \in [DOMAIN fast -> FastPoll]
    BY DEF GovInv, GovTypes, OneCounter
  <2>3. /\ DOMAIN fast' = DOMAIN fast /\ fast'[id].status = "Executed"
        /\ \A i \in DOMAIN fast : i # id => fast'[i] = fast[i]
    BY <2>1, <2>2 DEF FastPoll
  <2>4. id \notin Gov!Carried /\ Gov!Carried' = Gov!Carried \union {id}
    BY <2>1, <2>2, <2>3 DEF Gov!Carried
  <2>5. QED
    BY <2>1, <2>2, <2>4, ScheduleGrows
<1>8. QED
  BY <1>1, <1>2, <1>3, <1>4, <1>5, <1>6, <1>7 DEF Gov!Next

LEMMA SupportIsBacking ==
  ASSUME NEW id, NEW isFast, NEW side
  PROVE  Gov!SupportFor(id, isFast, side) = Backing(ballots, id, isFast, side)
BY GovSums DEF Gov!SupportFor, Backing

LEMMA GovSound ==
  ASSUME GovInv, ScheduleInv
  PROVE  Gov!ExecutedStaysWon
<1>1. Gov!VotedOnceOnOne
  <2>1. ASSUME NEW v \in voted PROVE Gov!Cardinality({b \in ballots : b.id = v[1] /\ b.voter = v[2]}) = 1
    <3> DEFINE S == {b \in ballots : b.id = v[1] /\ b.voter = v[2]}
    <3>1. PICK b \in ballots : b.id = v[1] /\ b.voter = v[2]
      BY DEF GovInv, OneBallotEach
    <3>2. S = {b}
      BY <3>1 DEF GovInv, OneBallotEach
    <3>3. Cardinality({b}) = 1
      BY FS_Singleton
    <3>4. QED
      BY <3>2, <3>3, GovSums
  <2>2. QED
    BY <2>1 DEF GovInv, OneCounter, OneBallotEach, Gov!VotedOnceOnOne
<1>2. ASSUME NEW id \in DOMAIN standard, standard[id].status = "Executed"
      PROVE  IF standard[id].mode = "OnChain"
             THEN Gov!Won(Gov!SupportFor(id, FALSE, TRUE), Gov!SupportFor(id, FALSE, FALSE), ThresholdBps)
             ELSE /\ Gov!SupportFor(id, FALSE, TRUE) + Gov!SupportFor(id, FALSE, FALSE) = 0
                  /\ Gov!Won(offchain[id][1], offchain[id][2], ThresholdBps)
                  /\ govNow >= standard[id].end
  <2> DEFINE p == standard[id]
  <2>1. p \in StandardPoll /\ Decided(p, id, offchain, govNow) /\ Tallied(p, id, FALSE, ballots)
    BY StandardAt DEF GovInv, StandardFine
  <2>2. p.for = Gov!SupportFor(id, FALSE, TRUE) /\ p.against = Gov!SupportFor(id, FALSE, FALSE)
    BY <2>1, SupportIsBacking DEF Tallied
  <2>3. CASE p.mode = "OnChain"
    <3>1. Gov!Won(p.for, p.against, ThresholdBps)
      BY <1>2, <2>1, <2>3 DEF Decided
    <3>2. QED
      BY <2>2, <2>3, <3>1
  <2>4. CASE p.mode # "OnChain"
    <3>1. p.mode = "OffChain"
      BY <2>1, <2>4 DEF StandardPoll
    <3>2. p.for = 0 /\ p.against = 0 /\ Gov!Won(offchain[id][1], offchain[id][2], ThresholdBps) /\ govNow >= p.end
      BY <1>2, <2>1, <3>1 DEF Decided
    <3>3. p.for + p.against = 0
      BY <3>2
    <3>4. QED
      BY <2>2, <2>4, <3>2, <3>3
  <2>5. QED
    BY <2>3, <2>4
<1>3. ASSUME NEW id \in DOMAIN fast, fast[id].status = "Executed"
      PROVE  Gov!SupportFor(id, TRUE, TRUE) + Gov!SupportFor(id, TRUE, FALSE) >= Quorum
  <2>1. FastDecided(fast[id]) /\ Tallied(fast[id], id, TRUE, ballots)
    BY DEF GovInv, FastFine
  <2>2. fast[id].for + fast[id].against >= Quorum
    BY <1>3, <2>1 DEF FastDecided
  <2>3. fast[id].for = Gov!SupportFor(id, TRUE, TRUE) /\ fast[id].against = Gov!SupportFor(id, TRUE, FALSE)
    BY <2>1, SupportIsBacking DEF Tallied
  <2>4. QED
    BY <2>2, <2>3
<1>4. Gov!ScheduledOnce
  BY DEF ScheduleInv
<1>5. QED
  BY <1>1, <1>2, <1>3, <1>4 DEF Gov!ExecutedStaysWon

-----------------------------------------------------------------------------
(* governance_voting: the loops over a list of delegators and of           *)
(* integer_sqrt, each a function defined from its own value one turn       *)
(* before; it exists because the turns can be taken one after the other.   *)

Members(q) == {q[i] : i \in DOMAIN q}
Distinct(q) == \A i, j \in DOMAIN q : q[i] = q[j] => i = j

Copies(F, q, e, n) ==
  F = [i \in 0..n |-> IF i = 0 THEN <<>> ELSE IF q[i] = e THEN F[i - 1] ELSE Append(F[i - 1], q[i])]

LEMMA CopyExists ==
  ASSUME NEW q, NEW e, NEW n \in Nat
  PROVE  \E F : Copies(F, q, e, n)
<1> DEFINE G == {m \in Nat : \E F : Copies(F, q, e, m)}
<1>1. 0 \in G
  <2> DEFINE F == [i \in 0..0 |-> <<>>]
  <2>1. Copies(F, q, e, 0)
    BY DEF Copies
  <2>2. QED
    BY <2>1
<1>2. ASSUME NEW m \in Nat, m \in G PROVE m + 1 \in G
  <2>1. PICK F : Copies(F, q, e, m)
    BY <1>2
  <2> DEFINE H == [i \in 0..(m + 1) |-> IF i = m + 1 THEN IF q[m + 1] = e THEN F[m] ELSE Append(F[m], q[m + 1]) ELSE F[i]]
  <2>2. \A i \in 0..m : H[i] = F[i]
    OBVIOUS
  <2>3. H[m + 1] = IF q[m + 1] = e THEN F[m] ELSE Append(F[m], q[m + 1])
    OBVIOUS
  <2>4. \A i \in 0..m : F[i] = IF i = 0 THEN <<>> ELSE IF q[i] = e THEN F[i - 1] ELSE Append(F[i - 1], q[i])
    BY <2>1 DEF Copies
  <2>5. H = [i \in 0..(m + 1) |-> H[i]]
    OBVIOUS
  <2> HIDE DEF H
  <2>6. \A i \in 0..(m + 1) :
          H[i] = IF i = 0 THEN <<>> ELSE IF q[i] = e THEN H[i - 1] ELSE Append(H[i - 1], q[i])
    <3>1. SUFFICES ASSUME NEW i \in 0..(m + 1)
                   PROVE  H[i] = IF i = 0 THEN <<>> ELSE IF q[i] = e THEN H[i - 1] ELSE Append(H[i - 1], q[i])
      OBVIOUS
    <3>2. CASE i = m + 1
      BY <3>2, <2>2, <2>3
    <3>3. CASE i # m + 1
      <4>1. i \in 0..m /\ (i # 0 => i - 1 \in 0..m)
        BY <3>3
      <4>2. QED
        BY <4>1, <2>2, <2>4
    <3>4. QED
      BY <3>2, <3>3
  <2>7. Copies(H, q, e, m + 1)
    BY <2>5, <2>6 DEF Copies
  <2>8. QED
    BY <2>7
<1>3. n \in G
  <2>1. \A m \in Nat : m \in G => m + 1 \in G
    BY <1>2
  <2> HIDE DEF G
  <2>2. QED
    BY <1>1, <2>1, NumberInduction
<1>4. QED
  BY <1>3

LEMMA CopiedPrefix ==
  ASSUME NEW S, NEW q \in Seq(S), NEW e, NEW F, Copies(F, q, e, Len(q)), Distinct(q)
  PROVE  /\ F[Len(q)] \in Seq(S) /\ Members(F[Len(q)]) = Members(q) \ {e}
         /\ Distinct(F[Len(q)])
<1> DEFINE Before(n) == {q[i] : i \in 1..n}
           Fine(n) == F[n] \in Seq(S) /\ Members(F[n]) = Before(n) \ {e} /\ Distinct(F[n])
           G == {n \in Nat : n <= Len(q) => Fine(n)}
<1>1. /\ Len(q) \in Nat /\ F[0] = <<>> /\ \A i \in 1..Len(q) : q[i] \in S
      /\ \A i \in 1..Len(q) : F[i] = IF q[i] = e THEN F[i - 1] ELSE Append(F[i - 1], q[i])
  <2>1. Len(q) \in Nat /\ \A i \in 1..Len(q) : q[i] \in S
    OBVIOUS
  <2>2. \A i \in 0..Len(q) :
          F[i] = IF i = 0 THEN <<>> ELSE IF q[i] = e THEN F[i - 1] ELSE Append(F[i - 1], q[i])
    BY DEF Copies
  <2>3. 0 \in 0..Len(q) /\ \A i \in 1..Len(q) : i \in 0..Len(q) /\ i # 0
    BY <2>1
  <2>4. QED
    BY <2>1, <2>2, <2>3
<1>2. 0 \in G
  <2>1. <<>> \in Seq(S) /\ DOMAIN <<>> = {} /\ 1..0 = {}
    OBVIOUS
  <2>2. Members(<<>>) = {} /\ Before(0) = {} /\ Distinct(<<>>)
    BY <2>1, Zenon DEF Members, Distinct
  <2>3. QED
    BY <1>1, <2>1, <2>2
<1>3. ASSUME NEW n \in Nat, n \in G PROVE n + 1 \in G
  <2>1. SUFFICES ASSUME n + 1 <= Len(q) PROVE Fine(n + 1)
    OBVIOUS
  <2>2. Fine(n) /\ n + 1 \in 1..Len(q) /\ q[n + 1] \in S
    BY <1>1, <1>3, <2>1
  <2>3. Before(n + 1) = Before(n) \union {q[n + 1]}
    <3>1. 1..(n + 1) = (1..n) \union {n + 1}
      OBVIOUS
    <3>2. QED
      BY <3>1
  <2>4. q[n + 1] \notin Before(n)
    BY <2>2 DEF Distinct
  <2>5. F[n + 1] = IF q[n + 1] = e THEN F[n] ELSE Append(F[n], q[n + 1])
    <3>1. (n + 1) - 1 = n
      OBVIOUS
    <3>2. QED
      BY <1>1, <2>2, <3>1
  <2>6. CASE q[n + 1] = e
    BY <2>2, <2>3, <2>4, <2>5, <2>6
  <2>7. CASE q[n + 1] # e
    <3> DEFINE t == F[n]
               x == q[n + 1]
               u == Append(t, x)
    <3>1. t \in Seq(S) /\ x \in S /\ x \notin Members(t) /\ Distinct(t) /\ F[n + 1] = u /\ Members(t) = Before(n) \ {e}
      BY <2>2, <2>4, <2>5, <2>7
    <3> HIDE DEF t, x
    <3>2. /\ u \in Seq(S) /\ DOMAIN u = DOMAIN t \union {Len(t) + 1} /\ Len(t) + 1 \notin DOMAIN t
          /\ u[Len(t) + 1] = x /\ \A i \in DOMAIN t : u[i] = t[i]
      BY <3>1
    <3> HIDE DEF u
    <3>3. Members(u) = Members(t) \union {x}
      BY <3>2 DEF Members
    <3>4. Distinct(u)
      BY <3>1, <3>2 DEF Distinct, Members
    <3>5. Before(n + 1) \ {e} = (Before(n) \ {e}) \union {x}
      BY <2>3, <2>7 DEF x
    <3>6. QED
      BY <3>1, <3>2, <3>3, <3>4, <3>5
  <2>8. QED
    BY <2>6, <2>7
<1>4. Len(q) \in G
  <2>1. \A n \in Nat : n \in G => n + 1 \in G
    BY <1>3
  <2> HIDE DEF G
  <2>2. QED
    BY <1>1, <1>2, <2>1, NumberInduction
<1>5. Before(Len(q)) = Members(q)
  BY DEF Members
<1>6. QED
  BY <1>1, <1>4, <1>5

LEMMA WithoutRemoves ==
  ASSUME NEW S, NEW q \in Seq(S), NEW e, Distinct(q)
  PROVE  /\ Voting!Without(q, e) \in Seq(S) /\ Members(Voting!Without(q, e)) = Members(q) \ {e}
         /\ Distinct(Voting!Without(q, e))
<1> DEFINE F == CHOOSE F : Copies(F, q, e, Len(q))
<1>1. Copies(F, q, e, Len(q))
  <2>1. Len(q) \in Nat
    OBVIOUS
  <2>2. \E H : Copies(H, q, e, Len(q))
    BY <2>1, CopyExists
  <2>3. QED
    BY <2>2, Zenon
<1>2. Voting!Without(q, e) = F[Len(q)]
  BY DEF Voting!Without, Copies
<1> HIDE DEF F
<1>3. QED
  BY <1>1, <1>2, CopiedPrefix

-----------------------------------------------------------------------------
(* Delegation.  The reverse index has each delegator once, with its        *)
(* delegate.                                                               *)

DelegInv ==
  /\ delegation \in [Voter -> Voter \union {NoOne}] /\ delegatedBy \in [Voter -> Seq(Voter)]
  /\ \A a, b \in Voter : delegation[a] = b <=> a \in Members(delegatedBy[b])
  /\ \A a \in Voter : Distinct(delegatedBy[a])
  /\ \A a, b \in Voter : ~(delegation[a] = b /\ delegation[b] = a)

LEMMA UndelegatedIndex ==
  ASSUME DelegInv, NEW from \in Voter
  PROVE  /\ Voting!Undelegated(from) \in [Voter -> Seq(Voter)]
         /\ \A b \in Voter : Members(Voting!Undelegated(from)[b]) = Members(delegatedBy[b]) \ {from}
         /\ \A b \in Voter : Distinct(Voting!Undelegated(from)[b])
<1>1. /\ delegation[from] \in Voter \union {NoOne} /\ delegatedBy \in [Voter -> Seq(Voter)]
      /\ \A b \in Voter : b # delegation[from] => from \notin Members(delegatedBy[b])
      /\ \A b \in Voter : Distinct(delegatedBy[b])
  BY DEF DelegInv
<1>2. CASE delegation[from] = NoOne
  <2>1. Voting!Undelegated(from) = delegatedBy
    BY <1>2 DEF Voting!Undelegated
  <2>2. \A b \in Voter : from \notin Members(delegatedBy[b])
    BY <1>1, <1>2, Nameable
  <2>3. QED
    BY <1>1, <2>1, <2>2
<1>3. CASE delegation[from] # NoOne
  <2> DEFINE to == delegation[from]
             s == Voting!Without(delegatedBy[to], from)
  <2>1. to \in Voter /\ delegatedBy[to] \in Seq(Voter) /\ Distinct(delegatedBy[to])
    BY <1>1, <1>3
  <2>2. s \in Seq(Voter) /\ Members(s) = Members(delegatedBy[to]) \ {from} /\ Distinct(s)
    BY <2>1, WithoutRemoves
  <2>3. Voting!Undelegated(from) = [delegatedBy EXCEPT ![to] = s]
    BY <1>3 DEF Voting!Undelegated, Voting!RemoveFromDelegatedByIndex
  <2> HIDE DEF s
  <2>4. QED
    BY <1>1, <2>1, <2>2, <2>3
<1>4. QED
  BY <1>2, <1>3

LEMMA DelegateKept ==
  ASSUME DelegInv, NEW from \in Voter, NEW to \in Voter, Voting!Delegate(from, to)
  PROVE  DelegInv'
<1> DEFINE idx == Voting!Undelegated(from)
           s == Append(idx[to], from)
<1>1. from # to /\ delegation[to] # from /\ delegation' = [delegation EXCEPT ![from] = to]
  BY DEF Voting!Delegate
<1>2. /\ idx \in [Voter -> Seq(Voter)]
      /\ \A b \in Voter : Members(idx[b]) = Members(delegatedBy[b]) \ {from}
      /\ \A b \in Voter : Distinct(idx[b])
  BY UndelegatedIndex
<1>3. delegatedBy' = [idx EXCEPT ![to] = s]
  <2>1. delegatedBy' = Voting!AddToDelegatedByIndex(idx, to, from)
    BY DEF Voting!Delegate
  <2>2. from \notin Voting!ToSet(idx[to])
    <3>1. Voting!ToSet(idx[to]) = Members(idx[to])
      BY DEF Voting!ToSet, Members
    <3>2. QED
      BY <1>2, <3>1
  <2>3. QED
    BY <2>1, <2>2 DEF Voting!AddToDelegatedByIndex
<1> HIDE DEF idx
<1>4. s \in Seq(Voter) /\ Members(s) = Members(idx[to]) \union {from} /\ Distinct(s)
  <2> DEFINE t == idx[to]
  <2>1. t \in Seq(Voter) /\ from \notin Members(t) /\ Distinct(t)
    BY <1>2
  <2> HIDE DEF t
  <2> DEFINE u == Append(t, from)
  <2>2. /\ u \in Seq(Voter) /\ DOMAIN u = DOMAIN t \union {Len(t) + 1} /\ Len(t) + 1 \notin DOMAIN t
        /\ u[Len(t) + 1] = from /\ \A i \in DOMAIN t : u[i] = t[i]
    BY <2>1
  <2> HIDE DEF u
  <2>3. Members(u) = Members(t) \union {from} /\ Distinct(u)
    BY <2>1, <2>2 DEF Members, Distinct
  <2>4. QED
    BY <2>2, <2>3 DEF u, t
<1> HIDE DEF s
<1>5. delegatedBy' \in [Voter -> Seq(Voter)] /\ delegatedBy'[to] = s /\ \A b \in Voter \ {to} : delegatedBy'[b] = idx[b]
  BY <1>2, <1>3, <1>4
<1>6. /\ delegation' \in [Voter -> Voter \union {NoOne}] /\ delegation'[from] = to
      /\ \A a \in Voter \ {from} : delegation'[a] = delegation[a]
  BY <1>1 DEF DelegInv
<1>7. ASSUME NEW a \in Voter, NEW b \in Voter PROVE delegation'[a] = b <=> a \in Members(delegatedBy'[b])
  <2>1. delegation[a] = b <=> a \in Members(delegatedBy[b])
    BY DEF DelegInv
  <2>2. Members(delegatedBy'[b]) = (Members(delegatedBy[b]) \ {from}) \union (IF b = to THEN {from} ELSE {})
    BY <1>2, <1>4, <1>5
  <2>3. QED
    BY <1>6, <2>1, <2>2
<1>8. \A b \in Voter : Distinct(delegatedBy'[b])
  BY <1>2, <1>4, <1>5
<1>9. \A a, b \in Voter : ~(delegation'[a] = b /\ delegation'[b] = a)
  BY <1>1, <1>6 DEF DelegInv
<1>10. QED
  BY <1>5, <1>6, <1>7, <1>8, <1>9 DEF DelegInv

LEMMA RevokeKept ==
  ASSUME DelegInv, NEW from \in Voter, Voting!RevokeDelegation(from)
  PROVE  DelegInv'
<1>1. delegation' = [delegation EXCEPT ![from] = NoOne] /\ delegatedBy' = Voting!Undelegated(from)
  BY DEF Voting!RevokeDelegation
<1>2. /\ delegatedBy' \in [Voter -> Seq(Voter)]
      /\ \A b \in Voter : Members(delegatedBy'[b]) = Members(delegatedBy[b]) \ {from}
      /\ \A b \in Voter : Distinct(delegatedBy'[b])
  BY <1>1, UndelegatedIndex
<1>3. /\ delegation' \in [Voter -> Voter \union {NoOne}] /\ delegation'[from] = NoOne
      /\ \A a \in Voter \ {from} : delegation'[a] = delegation[a]
  BY <1>1 DEF DelegInv
<1>4. \A a, b \in Voter : delegation'[a] = b <=> a \in Members(delegatedBy'[b])
  BY <1>2, <1>3, Nameable DEF DelegInv
<1>5. \A a, b \in Voter : ~(delegation'[a] = b /\ delegation'[b] = a)
  <2>1. \A a, b \in Voter : delegation'[a] = b => delegation[a] = b
    BY <1>3, Nameable
  <2>2. QED
    BY <2>1 DEF DelegInv
<1>6. QED
  BY <1>2, <1>3, <1>4, <1>5 DEF DelegInv

LEMMA DelegSound ==
  ASSUME DelegInv
  PROVE  Voting!DelegationMirrored
<1>1. ASSUME NEW a \in Voter
      PROVE  /\ Voting!ToSet(delegatedBy[a]) = Members(delegatedBy[a])
             /\ Voting!Cardinality(Voting!ToSet(delegatedBy[a])) = Len(delegatedBy[a])
  <2> DEFINE q == delegatedBy[a]
  <2>1. q \in Seq(Voter) /\ Distinct(q)
    BY DEF DelegInv
  <2>2. Voting!ToSet(q) = Members(q)
    BY DEF Voting!ToSet, Members
  <2> HIDE DEF q
  <2>3. Len(q) \in Nat /\ DOMAIN q = 1..Len(q)
    BY <2>1
  <2>4. Cardinality(1..Len(q)) = Len(q) /\ IsFiniteSet(1..Len(q))
    <3>1. \A n \in Nat : (IF 1 > n THEN 0 ELSE n - 1 + 1) = n
      OBVIOUS
    <3>2. \A n \in Nat : Cardinality(1..n) = (IF 1 > n THEN 0 ELSE n - 1 + 1) /\ IsFiniteSet(1..n)
      BY FS_Interval
    <3>3. QED
      BY <2>3, <3>1, <3>2
  <2>5. q \in Bijection(1..Len(q), Members(q))
    BY <2>1, <2>3 DEF Bijection, Injection, Surjection, Members, Distinct, IsInjective
  <2>6. ExistsBijection(1..Len(q), Members(q))
    BY <2>5 DEF ExistsBijection
  <2>7. Cardinality(1..Len(q)) = Cardinality(Members(q))
    BY <2>4, <2>6, FS_Bijection
  <2>8. Voting!Cardinality(Members(q)) = Cardinality(Members(q))
    BY DEF Voting!Cardinality, Cardinality
  <2>9. QED
    BY <2>2, <2>4, <2>7, <2>8 DEF q
<1>2. QED
  BY <1>1 DEF DelegInv, Voting!DelegationMirrored

-----------------------------------------------------------------------------
(* integer_sqrt.  The root lies in the interval that is left, or next to   *)
(* it, and every turn shrinks the interval.                                *)

Interval == [low : Int, high : Int, result : Int]

Around(s, n) ==
  /\ s \in Interval /\ s.low >= 1 /\ s.result >= 1 /\ s.result * s.result <= n
  /\ \/ s.low > s.high /\ n < (s.result + 1) * (s.result + 1)
     \/ /\ s.low <= s.high + 1 /\ n < (s.high + 1) * (s.high + 1)
        /\ s.result = s.low - 1 \/ (s.low = 1 /\ s.result = 1)

Shrunk(s, n, k) == s.low > s.high \/ s.high - s.low + 1 <= n - k

LEMMA NarrowedAround ==
  ASSUME NEW n \in Nat, n >= 2, NEW k \in Nat, NEW s, Around(s, n), Shrunk(s, n, k)
  PROVE  Around(Voting!Narrowed(n, s), n) /\ Shrunk(Voting!Narrowed(n, s), n, k + 1)
<1> DEFINE l == s.low
           h == s.high
           r == s.result
           m == l + (h - l) \div 2
           t == Voting!Narrowed(n, s)
<1>1. s \in Interval /\ l \in Int /\ h \in Int /\ r \in Int /\ l >= 1 /\ r >= 1 /\ r * r <= n
  BY DEF Around, Interval
<1>2. CASE l > h
  <2>1. t = s
    BY <1>1, <1>2 DEF Voting!Narrowed
  <2>2. Shrunk(t, n, k + 1)
    BY <1>2, <2>1 DEF Shrunk
  <2>3. QED
    BY <2>1, <2>2
<1>3. CASE l <= h
  <2>1. m \in Int /\ l <= m /\ m <= h /\ m >= 1
    <3>1. (h - l) \div 2 \in Int /\ 0 <= (h - l) \div 2 /\ (h - l) \div 2 <= h - l
      BY <1>1, <1>3
    <3>2. QED
      BY <1>1, <3>1
  <2>2. /\ m * m = n => t = [low |-> m + 1, high |-> m, result |-> m]
        /\ m * m < n => t = [low |-> m + 1, high |-> h, result |-> m]
        /\ m * m > n => t = [low |-> l, high |-> m - 1, result |-> r]
    BY <1>1, <1>3, <2>1 DEF Voting!Narrowed
  <2>3. /\ n < (h + 1) * (h + 1) /\ (r = l - 1 \/ (l = 1 /\ r = 1))
        /\ h - l + 1 <= n - k
    BY <1>1, <1>3 DEF Around, Shrunk
  <2>4. m * m \in Int
    BY <2>1
  <2> HIDE DEF m, t
  <2>5. CASE m * m = n
    <3>1. t = [low |-> m + 1, high |-> m, result |-> m]
      BY <2>2, <2>5
    <3>2. t \in Interval /\ t.low = m + 1 /\ t.high = m /\ t.result = m
      BY <2>1, <3>1 DEF Interval
    <3>3. n < (m + 1) * (m + 1) /\ m + 1 > m /\ m + 1 >= 1
      BY <2>1, <2>5
    <3>4. Around(t, n)
      BY <2>1, <2>5, <3>2, <3>3 DEF Around
    <3>5. Shrunk(t, n, k + 1)
      BY <3>2, <3>3 DEF Shrunk
    <3>6. QED
      BY <3>4, <3>5 DEF t
  <2>6. CASE m * m < n
    <3>1. t = [low |-> m + 1, high |-> h, result |-> m]
      BY <2>2, <2>6
    <3>2. t \in Interval /\ t.low = m + 1 /\ t.high = h /\ t.result = m
      BY <1>1, <2>1, <3>1 DEF Interval
    <3>3. m + 1 <= h + 1 /\ m + 1 >= 1 /\ m = (m + 1) - 1 /\ m * m <= n
      BY <1>1, <2>1, <2>6
    <3>4. Around(t, n)
      BY <2>1, <2>3, <3>2, <3>3 DEF Around
    <3>5. h - (m + 1) + 1 <= n - (k + 1)
      BY <1>1, <2>1, <2>3
    <3>6. Shrunk(t, n, k + 1)
      BY <3>2, <3>5 DEF Shrunk
    <3>7. QED
      BY <3>4, <3>6 DEF t
  <2>7. CASE m * m > n
    <3>1. t = [low |-> l, high |-> m - 1, result |-> r]
      BY <2>2, <2>7
    <3>2. t \in Interval /\ t.low = l /\ t.high = m - 1 /\ t.result = r
      BY <1>1, <2>1, <3>1 DEF Interval
    <3>3. l <= (m - 1) + 1 /\ (m - 1) + 1 = m
      BY <1>1, <2>1
    <3>4. n < ((m - 1) + 1) * ((m - 1) + 1)
      BY <2>7, <3>3
    <3>5. Around(t, n)
      BY <1>1, <2>3, <3>2, <3>3, <3>4 DEF Around
    <3>6. (m - 1) - l + 1 <= n - (k + 1)
      BY <1>1, <2>1, <2>3
    <3>7. Shrunk(t, n, k + 1)
      BY <3>2, <3>6 DEF Shrunk
    <3>8. QED
      BY <3>5, <3>7 DEF t
  <2>8. QED
    BY <2>4, <2>5, <2>6, <2>7
<1>4. QED
  BY <1>1, <1>2, <1>3

Turns(F, n, m) ==
  F = [turn \in 0..m |-> IF turn = 0 THEN [low |-> 1, high |-> n, result |-> 1] ELSE Voting!Narrowed(n, F[turn - 1])]

LEMMA TurnsExist ==
  ASSUME NEW n, NEW m \in Nat
  PROVE  \E F : Turns(F, n, m)
<1> DEFINE G == {k \in Nat : \E F : Turns(F, n, k)}
           b == [low |-> 1, high |-> n, result |-> 1]
<1>1. 0 \in G
  <2> DEFINE F == [turn \in 0..0 |-> b]
  <2>1. Turns(F, n, 0)
    BY DEF Turns
  <2>2. QED
    BY <2>1
<1>2. ASSUME NEW k \in Nat, k \in G PROVE k + 1 \in G
  <2>1. PICK F : Turns(F, n, k)
    BY <1>2
  <2> DEFINE H == [turn \in 0..(k + 1) |-> IF turn = k + 1 THEN Voting!Narrowed(n, F[k]) ELSE F[turn]]
  <2>2. \A i \in 0..k : H[i] = F[i]
    OBVIOUS
  <2>3. H[k + 1] = Voting!Narrowed(n, F[k])
    OBVIOUS
  <2>4. \A i \in 0..k : F[i] = IF i = 0 THEN b ELSE Voting!Narrowed(n, F[i - 1])
    BY <2>1 DEF Turns
  <2>5. H = [i \in 0..(k + 1) |-> H[i]]
    OBVIOUS
  <2> HIDE DEF H
  <2>6. \A i \in 0..(k + 1) : H[i] = IF i = 0 THEN b ELSE Voting!Narrowed(n, H[i - 1])
    <3>1. SUFFICES ASSUME NEW i \in 0..(k + 1)
                   PROVE  H[i] = IF i = 0 THEN b ELSE Voting!Narrowed(n, H[i - 1])
      OBVIOUS
    <3>2. CASE i = k + 1
      BY <3>2, <2>2, <2>3
    <3>3. CASE i # k + 1
      <4>1. i \in 0..k /\ (i # 0 => i - 1 \in 0..k)
        BY <3>3
      <4>2. QED
        BY <4>1, <2>2, <2>4
    <3>4. QED
      BY <3>2, <3>3
  <2>7. Turns(H, n, k + 1)
    BY <2>5, <2>6 DEF Turns
  <2>8. QED
    BY <2>7
<1>3. m \in G
  <2>1. \A k \in Nat : k \in G => k + 1 \in G
    BY <1>2
  <2> HIDE DEF G
  <2>2. QED
    BY <1>1, <2>1, NumberInduction
<1>4. QED
  BY <1>3

IsRoot(r, n) == r \in Nat /\ r * r <= n /\ n < (r + 1) * (r + 1)

LEMMA SearchFinds ==
  ASSUME NEW n \in Nat, n >= 2, NEW F, Turns(F, n, n)
  PROVE  IsRoot(F[n].result, n)
<1> DEFINE G == {k \in Nat : k <= n => Around(F[k], n) /\ Shrunk(F[k], n, k)}
<1>1. \A k \in 0..n : F[k] = IF k = 0 THEN [low |-> 1, high |-> n, result |-> 1] ELSE Voting!Narrowed(n, F[k - 1])
  BY DEF Turns
<1>2. 0 \in G
  <2>1. F[0] = [low |-> 1, high |-> n, result |-> 1]
    BY <1>1
  <2>2. n < (n + 1) * (n + 1)
    <3>1. n * n >= 0
      OBVIOUS
    <3>2. (n + 1) * (n + 1) = n * n + n + n + 1
      OBVIOUS
    <3>3. QED
      BY <3>1, <3>2
  <2>3. F[0] \in Interval /\ F[0].low = 1 /\ F[0].high = n /\ F[0].result = 1
    BY <2>1 DEF Interval
  <2>4. QED
    BY <2>2, <2>3 DEF Around, Shrunk
<1>3. ASSUME NEW k \in Nat, k \in G PROVE k + 1 \in G
  <2>1. SUFFICES ASSUME k + 1 <= n PROVE Around(F[k + 1], n) /\ Shrunk(F[k + 1], n, k + 1)
    OBVIOUS
  <2>2. Around(F[k], n) /\ Shrunk(F[k], n, k)
    BY <1>3, <2>1
  <2>3. k + 1 \in 0..n /\ k + 1 # 0 /\ (k + 1) - 1 = k
    BY <2>1
  <2>4. F[k + 1] = Voting!Narrowed(n, F[k])
    BY <1>1, <2>3
  <2>5. QED
    BY <2>2, <2>4, NarrowedAround
<1>4. n \in G
  <2>1. \A k \in Nat : k \in G => k + 1 \in G
    BY <1>3
  <2> HIDE DEF G
  <2>2. QED
    BY <1>2, <2>1, NumberInduction
<1>5. Around(F[n], n) /\ Shrunk(F[n], n, n)
  BY <1>4
<1> DEFINE l == F[n].low
           h == F[n].high
           r == F[n].result
<1>6. l \in Int /\ h \in Int /\ r \in Int /\ r >= 1 /\ r * r <= n
  BY <1>5 DEF Around, Interval
<1>7. l > h
  BY <1>5, <1>6 DEF Shrunk
<1>8. n < (r + 1) * (r + 1)
  <2>1. CASE l <= h + 1 /\ n < (h + 1) * (h + 1) /\ (r = l - 1 \/ (l = 1 /\ r = 1))
    <3>1. l = h + 1
      BY <1>6, <1>7, <2>1
    <3>2. CASE r = l - 1
      <4>1. r = h
        BY <1>6, <3>1, <3>2
      <4>2. QED
        BY <2>1, <4>1
    <3>3. CASE l = 1
      <4>1. h + 1 = 1
        BY <1>6, <3>1, <3>3
      <4>2. n < 1 * 1
        BY <2>1, <4>1
      <4>3. QED
        BY <4>2
    <3>4. QED
      BY <2>1, <3>2, <3>3
  <2>2. QED
    BY <1>5, <2>1 DEF Around
<1>9. QED
  BY <1>6, <1>8 DEF IsRoot

LEMMA RootFound ==
  ASSUME NEW n \in Nat
  PROVE  IsRoot(Voting!IntegerSqrt(n), n)
<1> DEFINE F == CHOOSE F : Turns(F, n, n)
<1>1. Voting!IntegerSqrt(n) = IF n < 0 THEN 0 ELSE IF n \in {0, 1} THEN n ELSE F[n].result
  BY DEF Voting!IntegerSqrt, Turns
<1>2. Turns(F, n, n)
  BY TurnsExist, Zenon
<1> HIDE DEF F
<1>3. CASE n \in {0, 1}
  <2>1. Voting!IntegerSqrt(n) = n
    BY <1>1, <1>3
  <2>2. QED
    BY <2>1, <1>3 DEF IsRoot
<1>4. CASE n \notin {0, 1}
  <2>1. n >= 2 /\ Voting!IntegerSqrt(n) = F[n].result
    BY <1>1, <1>4
  <2>2. QED
    BY <1>2, <2>1, SearchFinds
<1>5. QED
  BY <1>3, <1>4

LEMMA RootBelow ==
  ASSUME NEW n \in Nat, NEW r, IsRoot(r, n)
  PROVE  r <= n
<1>1. CASE r = 0
  BY <1>1
<1>2. CASE r # 0
  <2>1. r \in Nat /\ r >= 1
    BY <1>2 DEF IsRoot
  <2>2. r * r >= r
    <3>1. r * (r - 1) >= 0
      BY <2>1
    <3>2. QED
      BY <2>1, <3>1
  <2>3. QED
    BY <2>1, <2>2 DEF IsRoot
<1>3. QED
  BY <1>1, <1>2

-----------------------------------------------------------------------------
(* Votes.  A tally is the sum of the vote records of its choice.           *)

PollRecord == [type : {"Sentiment", "Financial"}, mode : {"Standard", "Quadratic"}, quorum : Int, executed : BOOLEAN,
               createdAt : 0..VoteMaxTime, expiresAt : Int, tally : [Voting!VoteChoice -> Int]]
VoteRecord == [choice : Voting!VoteChoice \union {"none"}, weight : Int, credits : Int]

CountedFor(votes, c) == SumOver([a \in Voter |-> votes[a].weight], {a \in Voter : votes[a].choice = c})
PollCounted(p, votes) == \A c \in Voting!VoteChoice : p.tally[c] = CountedFor(votes, c)
PollRooted(p, votes) ==
  \A a \in Voter : p.mode = "Quadratic" /\ votes[a] # Voting!NoVote => IsRoot(votes[a].weight, votes[a].credits)

VoteTypes ==
  /\ weight \in [Voter -> Int] /\ vesting \in Vestings \union {NoOne} /\ now \in 0..VoteMaxTime
  /\ proposals \in Seq(PollRecord) /\ records \in Seq([Voter -> VoteRecord]) /\ DOMAIN records = DOMAIN proposals

VoteInv ==
  /\ VoteTypes
  /\ \A id \in DOMAIN proposals : PollCounted(proposals[id], records[id]) /\ PollRooted(proposals[id], records[id])

(* The grants of the vesting contracts, and what they weighed when each    *)
(* proposal was created.                                                   *)
OpeningRecord == [contract : Vestings \union {NoOne}, weights : [Voter -> Int], grants : [Voter -> GrantRecord]]
OpenedAt(o, t) == o.contract # NoOne => \A a \in Voter : o.weights[a] = Voting!VestedBalanceAt(o.grants[a], t)

GrantedOk == granted \in [Vestings -> [Voter -> GrantRecord]] /\ \A v \in Vestings, a \in Voter : Sound(granted[v][a])

WeightInv ==
  /\ GrantedOk
  /\ opening \in Seq(OpeningRecord) /\ DOMAIN opening = DOMAIN proposals
  /\ \A id \in DOMAIN proposals : proposals[id].createdAt <= now /\ OpenedAt(opening[id], proposals[id].createdAt)

(* A vesting contract answers a vote as it answers a release.              *)
LEMMA VestedBalanceIs ==
  ASSUME NEW g \in GrantRecord, Sound(g), NEW t \in Int
  PROVE  Voting!VestedBalanceAt(g, t) = Vest!CalculateVestedAt(g, t) /\ Voting!VestedBalanceAt(g, t) \in Nat
<1>1. /\ Voting!NoGrant = Vest!NoGrant /\ Voting!CalculateVestedAt(g, t) = Vest!CalculateVestedAt(g, t)
      /\ Vest!CalculateVestedAt(Vest!NoGrant, t) = 0
  BY NothingGranted DEF Voting!NoGrant, Vest!NoGrant, Voting!CalculateVestedAt, Vest!CalculateVestedAt
<1>2. Voting!VestedBalanceAt(g, t) = IF g = Vest!NoGrant THEN 0 ELSE Vest!CalculateVestedAt(g, t)
  BY <1>1 DEF Voting!VestedBalanceAt
<1>3. QED
  BY <1>1, <1>2, VestedRange

LEMMA VoteAt ==
  ASSUME VoteInv, NEW id \in DOMAIN proposals
  PROVE  /\ id \in DOMAIN records /\ proposals[id] \in PollRecord /\ records[id] \in [Voter -> VoteRecord]
         /\ PollCounted(proposals[id], records[id]) /\ PollRooted(proposals[id], records[id])
BY ListEntry DEF VoteInv, VoteTypes

LEMMA VotesStart ==
  ASSUME Voting!Init
  PROVE  VoteInv /\ DelegInv /\ WeightInv
<1>1. VoteInv
  <2>1. proposals = <<>> /\ records = <<>> /\ vesting = NoOne /\ now = 0 /\ weight = [a \in Voter |-> 0]
    BY DEF Voting!Init
  <2>2. /\ proposals \in Seq(PollRecord) /\ records \in Seq([Voter -> VoteRecord])
        /\ DOMAIN proposals = {} /\ DOMAIN records = {} /\ weight \in [Voter -> Int]
    BY <2>1
  <2>3. now \in 0..VoteMaxTime
    BY <2>1, WeightsOk
  <2>4. QED
    BY <2>1, <2>2, <2>3 DEF VoteInv, VoteTypes
<1>2. DelegInv
  BY Nameable DEF Voting!Init, DelegInv, Members, Distinct
<1>3. GrantedOk
  <2>1. granted = [v \in Vestings |-> [a \in Voter |-> Voting!NoGrant]]
    BY DEF Voting!Init
  <2>2. Voting!NoGrant \in GrantRecord /\ Sound(Voting!NoGrant)
    BY DEF Voting!NoGrant, GrantRecord, Sound
  <2>3. QED
    BY <2>1, <2>2 DEF GrantedOk
<1>4. opening = <<>> /\ proposals = <<>>
  BY DEF Voting!Init
<1>5. QED
  BY <1>1, <1>2, <1>3, <1>4 DEF WeightInv

(* A first vote moves one tally by its weight.                             *)
LEMMA VoteCounts ==
  ASSUME NEW votes \in [Voter -> VoteRecord], NEW a \in Voter, votes[a] = Voting!NoVote,
         NEW b \in VoteRecord, b.choice \in Voting!VoteChoice
  PROVE  \A c \in Voting!VoteChoice :
           CountedFor([votes EXCEPT ![a] = b], c) = CountedFor(votes, c) + (IF c = b.choice THEN b.weight ELSE 0)
<1> DEFINE new == [votes EXCEPT ![a] = b]
           Chose(v, c) == {x \in Voter : v[x].choice = c}
           f == [x \in Voter |-> votes[x].weight]
           g == [x \in Voter |-> new[x].weight]
<1>1. new \in [Voter -> VoteRecord] /\ new[a] = b /\ \A x \in Voter \ {a} : new[x] = votes[x]
  OBVIOUS
<1> HIDE DEF new
<1>2. \A x \in Voter : f[x] \in Int /\ g[x] \in Int
  BY <1>1 DEF VoteRecord
<1>3. SUFFICES ASSUME NEW c \in Voting!VoteChoice
               PROVE  CountedFor(new, c) = CountedFor(votes, c) + (IF c = b.choice THEN b.weight ELSE 0)
  BY DEF new
<1>4. IsFiniteSet(Chose(votes, c)) /\ a \notin Chose(votes, c)
  BY FiniteCrowd, FS_Subset DEF Voting!NoVote, Voting!VoteChoice
<1>5. SumOver(f, Chose(votes, c)) = SumOver(g, Chose(votes, c)) /\ SumOver(g, Chose(votes, c)) \in Int
  <2>1. \A x \in Chose(votes, c) : f[x] = g[x] /\ g[x] \in Int
    BY <1>1, <1>2, <1>4
  <2>2. QED
    BY <1>4, <2>1, SumSame, SumInt
<1>6. CountedFor(new, c) = SumOver(g, Chose(new, c)) /\ CountedFor(votes, c) = SumOver(f, Chose(votes, c))
  BY DEF CountedFor
<1>7. CASE c = b.choice
  <2>1. Chose(new, c) = Chose(votes, c) \union {a} /\ g[a] = b.weight
    BY <1>1, <1>7
  <2>2. SumOver(g, Chose(votes, c) \union {a}) = g[a] + SumOver(g, Chose(votes, c))
    <3>1. \A x \in Chose(votes, c) : g[x] \in Int
      BY <1>2
    <3>2. g[a] \in Int
      BY <1>2
    <3> HIDE DEF g, f, Chose
    <3>3. QED
      BY <1>4, <3>1, <3>2, SumAdd
  <2>3. b.weight \in Int
    BY DEF VoteRecord
  <2> HIDE DEF g, f, Chose
  <2>4. QED
    BY <1>5, <1>6, <1>7, <2>1, <2>2, <2>3
<1>8. CASE c # b.choice
  <2>1. Chose(new, c) = Chose(votes, c)
    BY <1>1, <1>4, <1>8
  <2> HIDE DEF g, f, Chose
  <2>2. QED
    BY <1>5, <1>6, <1>8, <2>1
<1>9. QED
  BY <1>7, <1>8

(* What a vote weighs: the weight there is, or the root of the credits.    *)
LEMMA BallotWeighs ==
  ASSUME VoteInv, WeightInv, NEW a \in Voter, NEW id \in DOMAIN proposals, NEW c \in Voting!VoteChoice, NEW n \in Credits,
         Voting!Vote(a, id, c, n),
         NEW b, b = Voting!Ballot(proposals[id].mode, Voting!BaseWeightAtSnapshot(a, proposals[id].createdAt), c, n)
  PROVE  /\ b \in VoteRecord /\ b.choice = c
         /\ proposals[id].mode = "Quadratic" => IsRoot(b.weight, b.credits)
         /\ b.weight <= Voting!BaseWeightAtSnapshot(a, proposals[id].createdAt)
<1> DEFINE p == proposals[id]
           base == Voting!BaseWeightAtSnapshot(a, p.createdAt)
<1>1. p \in PollRecord /\ p.createdAt \in Int /\ weight[a] \in Int /\ vesting \in Vestings \union {NoOne}
  BY VoteAt, WeightsOk DEF PollRecord, VoteInv, VoteTypes
<1>2. base \in Int
  <2>1. vesting # NoOne => Voting!VestedBalanceAt(granted[vesting][a], p.createdAt) \in Int
    BY <1>1, VestedBalanceIs DEF WeightInv, GrantedOk
  <2>2. QED
    BY <1>1, <2>1 DEF Voting!BaseWeightAtSnapshot
<1>3. base > 0 /\ (p.mode = "Quadratic" => n > 0 /\ n <= base)
  BY DEF Voting!Vote
<1> HIDE DEF base
<1>4. b = Voting!Ballot(p.mode, base, c, n)
  BY DEF base
<1>5. CASE p.mode = "Standard"
  <2>1. b = [choice |-> c, weight |-> base, credits |-> 0]
    BY <1>4, <1>5 DEF Voting!Ballot
  <2>2. b \in VoteRecord /\ b.choice = c /\ b.weight = base
    BY <1>2, <2>1 DEF VoteRecord
  <2>3. QED
    BY <1>2, <1>5, <2>2 DEF base
<1>6. CASE p.mode = "Quadratic"
  <2>1. n \in Nat /\ n <= base
    BY <1>3, <1>6, WeightsOk
  <2> DEFINE r == Voting!IntegerSqrt(n)
  <2>2. IsRoot(r, n) /\ r <= n
    BY <2>1, RootFound, RootBelow
  <2> HIDE DEF r
  <2>3. b = [choice |-> c, weight |-> r, credits |-> n]
    BY <1>4, <1>6 DEF Voting!Ballot, r
  <2>4. r \in Nat
    BY <2>2 DEF IsRoot
  <2>5. b \in VoteRecord /\ b.choice = c /\ b.weight = r /\ b.credits = n
    BY <2>1, <2>3, <2>4 DEF VoteRecord
  <2>6. r <= base
    BY <1>2, <2>1, <2>2, <2>4
  <2>7. QED
    BY <2>2, <2>5, <2>6 DEF base
<1>7. QED
  BY <1>1, <1>5, <1>6 DEF PollRecord

(* What was weighed at the creation of the proposals stays as time passes. *)
LEMMA WeightStays ==
  ASSUME VoteInv, WeightInv, opening' = opening, DOMAIN proposals' = DOMAIN proposals,
         \A id \in DOMAIN proposals : proposals'[id].createdAt = proposals[id].createdAt,
         now' \in Int, now <= now', granted' = granted \/ GrantedOk'
  PROVE  WeightInv'
<1>1. GrantedOk'
  BY DEF WeightInv, GrantedOk
<1>2. \A id \in DOMAIN proposals : proposals[id].createdAt \in Int /\ now \in Int
  BY VoteAt, WeightsOk DEF VoteInv, VoteTypes, PollRecord
<1>3. QED
  BY <1>1, <1>2 DEF WeightInv

LEMMA BallotKept ==
  ASSUME VoteInv, WeightInv, NEW a \in Voter, NEW id \in DOMAIN proposals, NEW c \in Voting!VoteChoice, NEW n \in Credits,
         Voting!Vote(a, id, c, n)
  PROVE  VoteInv' /\ WeightInv' /\ Voting!SnapshotHoldsStep
<1> DEFINE p == proposals[id]
           base == Voting!BaseWeightAtSnapshot(a, p.createdAt)
           b == Voting!Ballot(p.mode, base, c, n)
           v == records[id]
           u == [v EXCEPT ![a] = b]
           q == Voting!Tallied(p, b)
<1>1. /\ id \in DOMAIN records /\ p \in PollRecord /\ v \in [Voter -> VoteRecord]
      /\ PollCounted(p, v) /\ PollRooted(p, v)
  BY VoteAt
<1>2. /\ b \in VoteRecord /\ b.choice = c /\ (p.mode = "Quadratic" => IsRoot(b.weight, b.credits))
      /\ b.weight <= base
  BY BallotWeighs
<1>3. /\ v[a] = Voting!NoVote /\ records' = [records EXCEPT ![id] = u] /\ proposals' = [proposals EXCEPT ![id] = q]
      /\ UNCHANGED <<weight, vesting, granted, opening, now>>
  BY DEF Voting!Vote, Voting!weightVars
<1>4. ASSUME vesting # NoOne
      PROVE  /\ b.weight <= Voting!BaseWeight(a)
             /\ vesting = opening[id].contract /\ granted[vesting][a] = opening[id].grants[a] => b.weight <= opening[id].weights[a]
  <2> DEFINE g == granted[vesting][a]
  <2>1. /\ g \in GrantRecord /\ Sound(g) /\ p.createdAt \in Int /\ now \in Int /\ p.createdAt <= now
        /\ OpenedAt(opening[id], p.createdAt)
    BY <1>1, <1>4, WeightsOk DEF VoteInv, VoteTypes, WeightInv, GrantedOk, PollRecord
  <2>2. base = Voting!VestedBalanceAt(g, p.createdAt) /\ Voting!BaseWeight(a) = Voting!VestedBalanceAt(g, now)
    BY <1>4 DEF Voting!BaseWeightAtSnapshot, Voting!BaseWeight
  <2> HIDE DEF g, base, b
  <2>3. base <= Voting!BaseWeight(a) /\ base \in Int /\ Voting!BaseWeight(a) \in Int
    BY <2>1, <2>2, VestedBalanceIs, VestedLater
  <2>4. b.weight \in Int
    BY <1>2 DEF VoteRecord
  <2>5. b.weight <= Voting!BaseWeight(a)
    BY <1>2, <2>3, <2>4
  <2>6. vesting = opening[id].contract /\ g = opening[id].grants[a] => base = opening[id].weights[a]
    BY <1>4, <2>1, <2>2 DEF OpenedAt
  <2>7. QED
    BY <1>2, <2>5, <2>6 DEF g
<1> HIDE DEF b, base
<1>5. u \in [Voter -> VoteRecord] /\ u[a] = b /\ \A x \in Voter \ {a} : u[x] = v[x]
  BY <1>1, <1>2
<1>6. \A k \in Voting!VoteChoice : CountedFor(u, k) = CountedFor(v, k) + (IF k = b.choice THEN b.weight ELSE 0)
  BY <1>1, <1>2, <1>3, VoteCounts
<1>7. /\ q \in PollRecord /\ q.mode = p.mode /\ q.createdAt = p.createdAt
      /\ \A k \in Voting!VoteChoice : q.tally[k] = p.tally[k] + (IF k = b.choice THEN b.weight ELSE 0)
  <2> DEFINE t == [p.tally EXCEPT ![b.choice] = p.tally[b.choice] + b.weight]
  <2>1. p.tally \in [Voting!VoteChoice -> Int] /\ b.weight \in Int /\ b.choice \in Voting!VoteChoice
    BY <1>1, <1>2 DEF PollRecord, VoteRecord
  <2>2. /\ t \in [Voting!VoteChoice -> Int]
        /\ \A k \in Voting!VoteChoice : t[k] = p.tally[k] + (IF k = b.choice THEN b.weight ELSE 0)
    BY <2>1
  <2>3. q = [p EXCEPT !.tally = t]
    BY <1>1 DEF Voting!Tallied, PollRecord
  <2> HIDE DEF t
  <2>4. QED
    BY <1>1, <2>2, <2>3 DEF PollRecord
<1> HIDE DEF u, q
<1>8. PollCounted(q, u)
  BY <1>1, <1>6, <1>7 DEF PollCounted
<1>9. PollRooted(q, u)
  <2>1. SUFFICES ASSUME NEW x \in Voter, q.mode = "Quadratic", u[x] # Voting!NoVote PROVE IsRoot(u[x].weight, u[x].credits)
    BY DEF PollRooted
  <2>2. CASE x = a
    BY <2>1, <2>2, <1>2, <1>5, <1>7
  <2>3. CASE x # a
    BY <2>1, <2>3, <1>1, <1>5, <1>7 DEF PollRooted
  <2>4. QED
    BY <2>2, <2>3
<1>10. /\ proposals' \in Seq(PollRecord) /\ DOMAIN proposals' = DOMAIN proposals /\ proposals'[id] = q
       /\ \A i \in DOMAIN proposals : i # id => proposals'[i] = proposals[i]
  <2>1. proposals \in Seq(PollRecord)
    BY DEF VoteInv, VoteTypes
  <2>2. QED
    BY <1>3, <1>7, <2>1, ListChanges
<1>11. /\ records' \in Seq([Voter -> VoteRecord]) /\ DOMAIN records' = DOMAIN records /\ records'[id] = u
       /\ \A i \in DOMAIN records : i # id => records'[i] = records[i]
  <2>1. records \in Seq([Voter -> VoteRecord])
    BY DEF VoteInv, VoteTypes
  <2>2. QED
    BY <1>1, <1>3, <1>5, <2>1, ListChanges
<1>12. VoteTypes'
  BY <1>3, <1>10, <1>11 DEF VoteInv, VoteTypes
<1>13. VoteInv'
  <2>1. ASSUME NEW i \in DOMAIN proposals PROVE PollCounted(proposals'[i], records'[i]) /\ PollRooted(proposals'[i], records'[i])
    <3>1. CASE i = id
      BY <3>1, <1>8, <1>9, <1>10, <1>11
    <3>2. CASE i # id
      BY <3>2, <1>10, <1>11 DEF VoteInv, VoteTypes
    <3>3. QED
      BY <3>1, <3>2
  <2>2. QED
    BY <1>10, <1>12, <2>1 DEF VoteInv
<1>14. Voting!SnapshotHoldsStep
  <2>1. SUFFICES ASSUME NEW i \in DOMAIN records, NEW x \in Voter, vesting # NoOne, records'[i][x] # records[i][x]
                 PROVE  /\ records'[i][x].weight <= Voting!BaseWeight(x)
                        /\ vesting = opening[i].contract /\ granted[vesting][x] = opening[i].grants[x] =>
                             records'[i][x].weight <= opening[i].weights[x]
    BY DEF Voting!SnapshotHoldsStep
  <2>2. i = id /\ x = a
    BY <2>1, <1>5, <1>11
  <2>3. QED
    BY <2>1, <2>2, <1>4, <1>5, <1>11
<1>15. \A i \in DOMAIN proposals : proposals'[i].createdAt = proposals[i].createdAt
  BY <1>7, <1>10
<1>16. WeightInv'
  <2>1. now' \in Int /\ now <= now'
    BY <1>3, WeightsOk DEF VoteInv, VoteTypes
  <2>2. QED
    BY <1>3, <1>10, <1>15, <2>1, WeightStays
<1>17. QED
  BY <1>13, <1>14, <1>16

(* Steps that leave the votes alone.                                       *)
LEMMA VotesUntouched ==
  ASSUME VoteInv, WeightInv, records' = records, proposals' = proposals, opening' = opening,
         weight' \in [Voter -> Int], vesting' \in Vestings \union {NoOne}, now' \in 0..VoteMaxTime, now <= now',
         granted' = granted \/ GrantedOk'
  PROVE  VoteInv' /\ WeightInv' /\ Voting!SnapshotHoldsStep
<1>1. VoteInv' /\ Voting!SnapshotHoldsStep
  BY DEF VoteInv, VoteTypes, Voting!SnapshotHoldsStep
<1>2. now' \in Int
  BY WeightsOk
<1>3. QED
  BY <1>1, <1>2, WeightStays

LEMMA PollCreated ==
  ASSUME VoteInv, WeightInv, NEW type \in {"Sentiment", "Financial"}, NEW mode \in {"Standard", "Quadratic"},
         NEW q \in Quorums, NEW d \in Durations, Voting!CreateProposal(type, mode, q, d)
  PROVE  VoteInv' /\ WeightInv' /\ Voting!SnapshotHoldsStep
<1> DEFINE p == [type |-> type, mode |-> mode, quorum |-> q, executed |-> FALSE, createdAt |-> now,
                 expiresAt |-> now + (IF d > 0 THEN d ELSE PollDuration), tally |-> [c \in Voting!VoteChoice |-> 0]]
           v == [a \in Voter |-> Voting!NoVote]
           id == Len(proposals) + 1
           o == [contract |-> vesting, weights |-> [a \in Voter |-> Voting!BaseWeight(a)],
                 grants |-> [a \in Voter |-> IF vesting = NoOne THEN Voting!NoGrant ELSE granted[vesting][a]]]
<1>1. /\ proposals' = Append(proposals, p) /\ records' = Append(records, v) /\ opening' = Append(opening, o)
      /\ UNCHANGED <<weight, vesting, granted, now>>
  BY DEF Voting!CreateProposal, Voting!weightVars
<1>2. p \in PollRecord /\ v \in [Voter -> VoteRecord]
  <2>1. now \in 0..VoteMaxTime /\ now \in Int /\ q \in Int /\ d \in Int /\ PollDuration \in Int
    BY WeightsOk, PollsOk DEF VoteInv, VoteTypes
  <2>2. now + (IF d > 0 THEN d ELSE PollDuration) \in Int
    BY <2>1
  <2>3. QED
    BY <2>1, <2>2 DEF PollRecord, VoteRecord, Voting!NoVote
<1>3. \A c \in Voting!VoteChoice : p.tally[c] = 0
  OBVIOUS
<1>4. ASSUME NEW c \in Voting!VoteChoice PROVE CountedFor(v, c) = 0
  <2>1. {a \in Voter : v[a].choice = c} = {}
    BY DEF Voting!NoVote, Voting!VoteChoice
  <2>2. QED
    BY <2>1, SumEmpty DEF CountedFor
<1>5. PollRooted(p, v)
  BY DEF PollRooted
<1>6. o \in OpeningRecord /\ OpenedAt(o, now) /\ p.createdAt = now
  <2>1. /\ vesting \in Vestings \union {NoOne} /\ weight \in [Voter -> Int] /\ now \in Int
        /\ granted \in [Vestings -> [Voter -> GrantRecord]] /\ \A x \in Vestings, a \in Voter : Sound(granted[x][a])
    BY WeightsOk DEF VoteInv, VoteTypes, WeightInv, GrantedOk
  <2>2. Voting!NoGrant \in GrantRecord
    BY DEF Voting!NoGrant, GrantRecord
  <2>3. CASE vesting = NoOne
    <3>1. \A a \in Voter : Voting!BaseWeight(a) \in Int
      BY <2>1, <2>3 DEF Voting!BaseWeight
    <3>2. QED
      BY <2>2, <2>3, <3>1 DEF OpeningRecord, OpenedAt
  <2>4. CASE vesting # NoOne
    <3>1. \A a \in Voter : /\ Voting!BaseWeight(a) = Voting!VestedBalanceAt(granted[vesting][a], now)
                            /\ Voting!BaseWeight(a) \in Int /\ granted[vesting][a] \in GrantRecord
      BY <2>1, <2>4, VestedBalanceIs DEF Voting!BaseWeight
    <3>2. /\ o.contract = vesting /\ o.weights \in [Voter -> Int] /\ o.grants \in [Voter -> GrantRecord]
          /\ \A a \in Voter : o.weights[a] = Voting!BaseWeight(a) /\ o.grants[a] = granted[vesting][a]
      BY <2>4, <3>1
    <3>3. o \in OpeningRecord
      BY <2>1, <3>2 DEF OpeningRecord
    <3>4. OpenedAt(o, now)
      BY <3>1, <3>2 DEF OpenedAt
    <3>5. QED
      BY <3>3, <3>4
  <2>5. QED
    BY <2>3, <2>4
<1> HIDE DEF p, v, o
<1>7. PollCounted(p, v)
  BY <1>3, <1>4 DEF PollCounted
<1>8. /\ proposals \in Seq(PollRecord) /\ records \in Seq([Voter -> VoteRecord])
      /\ DOMAIN records = DOMAIN proposals /\ Len(records) = Len(proposals)
  BY DEF VoteInv, VoteTypes
<1>9. /\ proposals' \in Seq(PollRecord) /\ proposals'[id] = p /\ DOMAIN proposals' = DOMAIN proposals \union {id}
      /\ \A i \in DOMAIN proposals : proposals'[i] = proposals[i]
  BY <1>1, <1>2, <1>8, ListGrows
<1>10. /\ records' \in Seq([Voter -> VoteRecord]) /\ records'[id] = v /\ DOMAIN records' = DOMAIN records \union {id}
      /\ \A i \in DOMAIN records : records'[i] = records[i]
  BY <1>1, <1>2, <1>8, ListGrows
<1> HIDE DEF id
<1>11. VoteTypes'
  BY <1>1, <1>8, <1>9, <1>10 DEF VoteInv, VoteTypes
<1>12. /\ opening' \in Seq(OpeningRecord) /\ opening'[id] = o /\ DOMAIN opening' = DOMAIN opening \union {id}
       /\ \A i \in DOMAIN opening : opening'[i] = opening[i]
  <2>1. opening \in Seq(OpeningRecord) /\ DOMAIN opening = DOMAIN proposals
    BY DEF WeightInv
  <2>2. Len(opening) = Len(proposals)
    BY <1>8, <2>1
  <2>3. QED
    BY <1>1, <1>6, <2>1, <2>2, ListGrows DEF id
<1>13. WeightInv'
  <2>1. now \in Int /\ now' = now /\ granted' = granted /\ GrantedOk'
    BY <1>1, WeightsOk DEF VoteInv, VoteTypes, WeightInv, GrantedOk
  <2>2. ASSUME NEW i \in DOMAIN proposals' PROVE proposals'[i].createdAt <= now' /\ OpenedAt(opening'[i], proposals'[i].createdAt)
    <3>1. CASE i = id
      BY <1>9, <1>6, <1>12, <2>1, <3>1
    <3>2. CASE i # id
      <4>1. i \in DOMAIN proposals /\ proposals'[i] = proposals[i] /\ opening'[i] = opening[i]
        BY <1>9, <1>12, <3>2 DEF WeightInv
      <4>2. QED
        BY <2>1, <4>1 DEF WeightInv
    <3>3. QED
      BY <3>1, <3>2
  <2>3. DOMAIN opening' = DOMAIN proposals'
    BY <1>9, <1>12 DEF WeightInv
  <2>4. QED
    BY <1>12, <2>1, <2>2, <2>3 DEF WeightInv
<1>14. \A i \in DOMAIN proposals' : PollCounted(proposals'[i], records'[i]) /\ PollRooted(proposals'[i], records'[i])
  BY <1>5, <1>7, <1>8, <1>9, <1>10 DEF VoteInv
<1>15. QED
  BY <1>10, <1>11, <1>14, <1>13 DEF VoteInv, Voting!SnapshotHoldsStep

LEMMA PollExecuted ==
  ASSUME VoteInv, WeightInv, NEW id \in DOMAIN proposals, Voting!ExecuteProposal(id)
  PROVE  VoteInv' /\ WeightInv' /\ Voting!SnapshotHoldsStep
<1> DEFINE p == proposals[id]
           q == [p EXCEPT !.executed = TRUE]
<1>1. proposals' = [proposals EXCEPT ![id] = q] /\ UNCHANGED <<weight, vesting, granted, records, opening, now>>
  BY DEF Voting!ExecuteProposal, Voting!weightVars
<1>2. p \in PollRecord /\ PollCounted(p, records[id]) /\ PollRooted(p, records[id]) /\ proposals \in Seq(PollRecord)
  BY VoteAt DEF VoteInv, VoteTypes
<1>3. q \in PollRecord /\ q.mode = p.mode /\ q.tally = p.tally /\ q.createdAt = p.createdAt
  BY <1>2 DEF PollRecord
<1> HIDE DEF q
<1>4. PollCounted(q, records[id]) /\ PollRooted(q, records[id])
  BY <1>2, <1>3 DEF PollCounted, PollRooted
<1>5. /\ proposals' \in Seq(PollRecord) /\ DOMAIN proposals' = DOMAIN proposals /\ proposals'[id] = q
      /\ \A i \in DOMAIN proposals : i # id => proposals'[i] = proposals[i]
  BY <1>1, <1>2, <1>3, ListChanges
<1>6. VoteInv'
  BY <1>1, <1>4, <1>5 DEF VoteInv, VoteTypes
<1>7. WeightInv'
  <2>1. now' \in Int /\ now <= now'
    BY <1>1, WeightsOk DEF VoteInv, VoteTypes
  <2>2. \A i \in DOMAIN proposals : proposals'[i].createdAt = proposals[i].createdAt
    BY <1>3, <1>5
  <2>3. QED
    BY <1>1, <1>5, <2>1, <2>2, WeightStays
<1>8. QED
  BY <1>1, <1>6, <1>7 DEF Voting!SnapshotHoldsStep

LEMMA VotingKept ==
  ASSUME VoteInv, DelegInv, WeightInv, [Voting!Next]_voteVars
  PROVE  VoteInv' /\ DelegInv' /\ WeightInv' /\ Voting!SnapshotHoldsStep
<1>1. /\ weight \in [Voter -> Int] /\ vesting \in Vestings \union {NoOne} /\ now \in 0..VoteMaxTime /\ now \in Int
      /\ granted \in [Vestings -> [Voter -> GrantRecord]] /\ \A v \in Vestings, a \in Voter : Sound(granted[v][a])
  BY WeightsOk DEF VoteInv, VoteTypes, WeightInv, GrantedOk
<1>2. CASE \E a \in Voter, w \in Weights : Voting!SetVotingWeight(a, w)
  <2>1. weight' \in [Voter -> Int] /\ UNCHANGED <<vesting, granted, delegation, delegatedBy, proposals, records, opening, now>>
    BY <1>1, <1>2, WeightsOk DEF Voting!SetVotingWeight, Voting!delegateVars, Voting!pollVars
  <2>2. QED
    BY <1>1, <2>1, VotesUntouched DEF DelegInv
<1>3. CASE \E v \in Vestings : Voting!SetVestingContract(v)
  <2>1. vesting' \in Vestings /\ UNCHANGED <<weight, granted, delegation, delegatedBy, proposals, records, opening, now>>
    BY <1>3 DEF Voting!SetVestingContract, Voting!delegateVars, Voting!pollVars
  <2>2. QED
    BY <1>1, <2>1, VotesUntouched DEF DelegInv
<1>4. ASSUME NEW v \in Vestings, NEW a \in Voter, NEW g \in GrantRecord, Sound(g),
              granted' = [granted EXCEPT ![v][a] = g],
              UNCHANGED <<weight, vesting, delegation, delegatedBy, proposals, records, opening, now>>
       PROVE  VoteInv' /\ DelegInv' /\ WeightInv' /\ Voting!SnapshotHoldsStep
  <2>1. GrantedOk'
    BY <1>1, <1>4 DEF GrantedOk
  <2>2. QED
    BY <1>1, <1>4, <2>1, VotesUntouched DEF DelegInv
<1>5. CASE \E v \in Vestings, a \in Voter, s \in Schedules : Voting!CreateGrant(v, a, s)
  <2>1. PICK v \in Vestings, a \in Voter, s \in Schedules : Voting!CreateGrant(v, a, s)
    BY <1>5
  <2> DEFINE g == Voting!NewGrant(s)
  <2>2. s \in [total : Int, start : Nat, cliff : Nat, duration : Nat] /\ s.total > 0 /\ s.duration > s.cliff
    BY <2>1, VestingOk DEF Voting!CreateGrant, Voting!Schedulable
  <2>3. g \in GrantRecord /\ Sound(g)
    BY <2>2 DEF Voting!NewGrant, GrantRecord, Sound
  <2>4. /\ granted' = [granted EXCEPT ![v][a] = g]
        /\ UNCHANGED <<weight, vesting, delegation, delegatedBy, proposals, records, opening, now>>
    BY <2>1 DEF Voting!CreateGrant, Voting!delegateVars, Voting!pollVars
  <2> HIDE DEF g
  <2>5. QED
    BY <1>4, <2>3, <2>4
<1>6. CASE \E v \in Vestings, a \in Voter : Voting!RevokeGrant(v, a)
  <2>1. PICK v \in Vestings, a \in Voter : Voting!RevokeGrant(v, a)
    BY <1>6
  <2> DEFINE g == [granted[v][a] EXCEPT !.revokedAt = now]
  <2>2. granted[v][a] \in GrantRecord /\ Sound(granted[v][a]) /\ now >= 0
    BY <1>1
  <2>3. g \in GrantRecord /\ Sound(g)
    BY <1>1, <2>2 DEF GrantRecord, Sound
  <2>4. /\ granted' = [granted EXCEPT ![v][a] = g]
        /\ UNCHANGED <<weight, vesting, delegation, delegatedBy, proposals, records, opening, now>>
    BY <2>1 DEF Voting!RevokeGrant, Voting!Revoked, Voting!delegateVars, Voting!pollVars
  <2> HIDE DEF g
  <2>5. QED
    BY <1>4, <2>3, <2>4
<1>7. CASE (\E a, b \in Voter : Voting!Delegate(a, b)) \/ (\E a \in Voter : Voting!RevokeDelegation(a))
  <2>1. UNCHANGED <<weight, vesting, granted, proposals, records, opening, now>>
    BY <1>7 DEF Voting!Delegate, Voting!RevokeDelegation, Voting!weightVars, Voting!pollVars
  <2>2. DelegInv'
    BY <1>7, DelegateKept, RevokeKept
  <2>3. QED
    BY <1>1, <2>1, <2>2, VotesUntouched
<1>8. CASE \E type \in {"Sentiment", "Financial"}, mode \in {"Standard", "Quadratic"}, q \in Quorums, d \in Durations :
             Voting!CreateProposal(type, mode, q, d)
  <2>1. UNCHANGED <<delegation, delegatedBy>>
    BY <1>8 DEF Voting!CreateProposal, Voting!delegateVars
  <2>2. QED
    BY <1>8, <2>1, PollCreated DEF DelegInv
<1>9. CASE \E a \in Voter, id \in DOMAIN proposals, c \in Voting!VoteChoice, n \in Credits : Voting!Vote(a, id, c, n)
  <2>1. UNCHANGED <<delegation, delegatedBy>>
    BY <1>9 DEF Voting!Vote, Voting!delegateVars
  <2>2. QED
    BY <1>9, <2>1, BallotKept DEF DelegInv
<1>10. CASE \E id \in DOMAIN proposals : Voting!ExecuteProposal(id)
  <2>1. UNCHANGED <<delegation, delegatedBy>>
    BY <1>10 DEF Voting!ExecuteProposal, Voting!delegateVars
  <2>2. QED
    BY <1>10, <2>1, PollExecuted DEF DelegInv
<1>11. CASE Voting!Tick \/ UNCHANGED voteVars
  <2>1. UNCHANGED <<weight, vesting, granted, delegation, delegatedBy, proposals, records, opening>>
    BY <1>11 DEF Voting!Tick, Voting!state, voteVars
  <2>2. now' \in 0..VoteMaxTime /\ now <= now'
    BY <1>1, <1>11, WeightsOk DEF Voting!Tick, voteVars
  <2>3. QED
    BY <1>1, <2>1, <2>2, VotesUntouched DEF DelegInv
<1>12. QED
  BY <1>2, <1>3, <1>7, <1>8, <1>9, <1>10, <1>11, <1>5, <1>6 DEF Voting!Next

LEMMA VotingSound ==
  ASSUME VoteInv, DelegInv
  PROVE  Voting!VotesCounted
<1>1. Voting!TalliesAreVotes
  <2>1. SUFFICES ASSUME NEW id \in DOMAIN proposals, NEW c \in Voting!VoteChoice
                 PROVE  proposals[id].tally[c] =
                          Voting!SumOver([a \in Voter |-> records[id][a].weight], {a \in Voter : records[id][a].choice = c})
    BY DEF Voting!TalliesAreVotes
  <2>2. proposals[id].tally[c] = CountedFor(records[id], c)
    BY VoteAt DEF PollCounted
  <2>3. \A f, S : Voting!SumOver(f, S) = SumOver(f, S)
    BY DEF SumOver, MapThenSumSet, MapThenFoldSet, Voting!SumOver, Voting!MapThenSumSet, Voting!MapThenFoldSet
  <2>4. QED
    BY <2>2, <2>3 DEF CountedFor
<1>2. Voting!QuadraticRoot
  <2>1. SUFFICES ASSUME NEW id \in DOMAIN records, NEW a \in Voter,
                        proposals[id].mode = "Quadratic", records[id][a] # Voting!NoVote
                 PROVE  IsRoot(records[id][a].weight, records[id][a].credits)
    BY DEF Voting!QuadraticRoot, IsRoot
  <2>2. id \in DOMAIN proposals
    BY DEF VoteInv, VoteTypes
  <2>3. QED
    BY <2>1, <2>2, VoteAt DEF PollRooted
<1>3. QED
  BY <1>1, <1>2, DelegSound DEF Voting!VotesCounted

-----------------------------------------------------------------------------
(* The theorems                                                            *)

DecisionsInv == VoteInv /\ DelegInv /\ WeightInv /\ GovInv /\ ScheduleInv /\ RegInv /\ VestInv /\ SetTypes /\ UpgradesInv

LEMMA DecisionsStart == DecisionsInit => DecisionsInv
BY VotesStart, GovStarts, ScheduleStarts, RegStarts, VestStarts, SetStarts, UpgradesStart DEF DecisionsInit, DecisionsInv

LEMMA DecisionsKept ==
  ASSUME DecisionsInv, [DecisionsNext]_decisionsVars
  PROVE  /\ DecisionsInv' /\ Voting!SnapshotHoldsStep /\ Registry!ParametersGuardedStep
         /\ Settings!SettingsGuardedStep /\ Lock!RunsOnceStep /\ Vest!ScheduleKeptStep
<1>1. /\ [Voting!Next]_voteVars /\ [Gov!Next]_govVars /\ [Registry!Next]_regVars
      /\ [Vest!Next]_vestVars /\ [Settings!Next]_setVars /\ [Lock!Next]_lockVars
  BY DEF DecisionsNext, VotingStep, GovStep, RegistryStep, VestStep, SettingsStep, LockStep, decisionsVars,
         voteVars, govVars, regVars, vestVars, setVars, lockVars
<1>2. VoteInv' /\ DelegInv' /\ WeightInv' /\ Voting!SnapshotHoldsStep
  BY <1>1, VotingKept DEF DecisionsInv
<1>3. GovInv' /\ ScheduleInv'
  BY <1>1, GovKept, CarriedOnceKept DEF DecisionsInv
<1>4. RegInv' /\ Registry!ParametersGuardedStep
  BY <1>1, RegKept DEF DecisionsInv
<1>5. VestInv' /\ Vest!ScheduleKeptStep
  BY <1>1, VestKept DEF DecisionsInv
<1>6. SetTypes' /\ Settings!SettingsGuardedStep
  BY <1>1, SetKept DEF DecisionsInv
<1>7. UpgradesInv' /\ Lock!RunsOnceStep
  BY <1>1, UpgradesKept DEF DecisionsInv
<1>8. QED
  BY <1>2, <1>3, <1>4, <1>5, <1>6, <1>7 DEF DecisionsInv

(* Every tally is the sum of the votes of its choice, a quadratic vote is  *)
(* the whole root of its credits, and the reverse index of delegations     *)
(* holds each delegator once, with its delegate (vote, integer_sqrt,       *)
(* delegate, revoke_delegation).                                           *)
THEOREM VotesAlwaysCounted == DecisionsSpec => []VotesCounted
<1>1. DecisionsInv => VotesCounted
  BY VotingSound DEF DecisionsInv, VotesCounted
<1>2. DecisionsInv /\ [DecisionsNext]_decisionsVars => DecisionsInv'
  BY DecisionsKept
<1>3. QED
  BY <1>1, <1>2, DecisionsStart, PTL DEF DecisionsSpec

(* A vote under a vesting contract weighs no more than what has vested by  *)
(* the time it is cast, through any grants, revocations and changes of the *)
(* contract, and no more than at the proposal's creation while contract    *)
(* and grant stay (get_base_weight_at_snapshot, vote, revoke_grant).       *)
THEOREM SnapshotAlwaysHolds == DecisionsSpec => SnapshotHolds
<1>1. DecisionsInv /\ [DecisionsNext]_decisionsVars => DecisionsInv'
  BY DecisionsKept
<1>2. DecisionsInv /\ [DecisionsNext]_decisionsVars => [Voting!SnapshotHoldsStep]_voteVars
  BY DecisionsKept
<1>3. QED
  BY <1>1, <1>2, DecisionsStart, PTL DEF DecisionsSpec, SnapshotHolds

(* An executed upgrade had won by ballots cast once each, or by an         *)
(* anchored result after the end, and still has, and is in the timelock    *)
(* once (vote, vote_fast_track, anchor_offchain_result, execute_proposal,  *)
(* execute_fast_track_proposal, propose_upgrade).                          *)
THEOREM ExecutedAlwaysWon == DecisionsSpec => []ExecutedStaysWon
<1>1. DecisionsInv => ExecutedStaysWon
  BY GovSound DEF DecisionsInv, ExecutedStaysWon
<1>2. DecisionsInv /\ [DecisionsNext]_decisionsVars => DecisionsInv'
  BY DecisionsKept
<1>3. QED
  BY <1>1, <1>2, DecisionsStart, PTL DEF DecisionsSpec

(* Under signers, a parameter or a setting changes only by a decision that *)
(* had its approvals and waited its time, and within its bounds; what the  *)
(* shared timelock runs, it runs once (execute_param_update,               *)
(* execute_action, prepare_execute).                                       *)
THEOREM ParametersAlwaysGuarded == DecisionsSpec => ParametersGuarded
<1>1. DecisionsInv /\ [DecisionsNext]_decisionsVars => DecisionsInv'
  BY DecisionsKept
<1>2. DecisionsInv /\ [DecisionsNext]_decisionsVars =>
        /\ [Registry!ParametersGuardedStep]_regVars /\ [Settings!SettingsGuardedStep]_setVars
        /\ [Lock!RunsOnceStep]_lockVars
  BY DecisionsKept
<1>3. QED
  BY <1>1, <1>2, DecisionsStart, PTL DEF DecisionsSpec, ParametersGuarded

(* No grant is paid ahead of its schedule, and what had vested stays the   *)
(* beneficiary's after a revocation (release, revoke_grant).               *)
THEOREM ScheduleAlwaysKept == DecisionsSpec => ScheduleKept
<1>1. DecisionsInv /\ [DecisionsNext]_decisionsVars => DecisionsInv'
  BY DecisionsKept
<1>2. DecisionsInv /\ [DecisionsNext]_decisionsVars => [Vest!ScheduleKeptStep]_vestVars
  BY DecisionsKept
<1>3. QED
  BY <1>1, <1>2, DecisionsStart, PTL DEF DecisionsSpec, ScheduleKept
=============================================================================

--------------------------- MODULE VerifierNomination ---------------------------
(***************************************************************************)
(* contracts/verifier_nomination: candidates for the risk registry's       *)
(* verifiers, the stakes behind them, the selection of one, and the return *)
(* of the stakes.                                                          *)
(***************************************************************************)
EXTENDS Sums, Sequences

CONSTANTS
  Supporter, Candidate,
  Amounts,            \* staked, of any sign
  MinimumStake, PerAddressCap, Window, \* fixed by initialize, all positive
  MaxNominations,     \* MAX_NOMINATIONS
  NomMaxTime          \* bound

VARIABLES
  nominations,  \* Nomination(id), counted from 1; NextId is their number
  support,      \* Stake(id, supporter)
  stakeTokens,  \* the contract's balance
  nomNow

vars == <<nominations, support, stakeTokens, nomNow>>

Init == nominations = <<>> /\ support = <<>> /\ stakeTokens = 0 /\ nomNow = 0

StakedOn(n) == nomNow < n.created + Window

(* stake_internal, on the records ns and stakes ss.                        *)
Staked(ns, ss, id, s, amount) ==
  /\ amount > 0
  /\ ns[id].status = "Open" /\ StakedOn(ns[id])
  /\ ss[id][s] + amount <= PerAddressCap
  /\ nominations' = [ns EXCEPT ![id].total = @ + amount]
  /\ support' = [ss EXCEPT ![id][s] = @ + amount]
  /\ stakeTokens' = stakeTokens + amount

(* A nomination without a valid first stake is rolled back.                *)
Nominate(s, c, amount) ==
  /\ Len(nominations) < MaxNominations
  /\ nomNow + 2 * Window <= NomMaxTime
  /\ Staked(Append(nominations, [candidate |-> c, total |-> 0, created |-> nomNow, selected |-> 0, status |-> "Open"]),
            Append(support, [x \in Supporter |-> 0]), Len(nominations) + 1, s, amount)
  /\ UNCHANGED nomNow

Stake(s, id, amount) == Staked(nominations, support, id, s, amount) /\ UNCHANGED nomNow

Selectable(n) == n.status = "Open" /\ n.total >= MinimumStake /\ StakedOn(n)

(* The first of those with the highest stake.                              *)
Winner ==
  LET open == {i \in DOMAIN nominations : Selectable(nominations[i])}
  IN {i \in open : \A j \in open : \/ nominations[j].total < nominations[i].total
                                   \/ nominations[j].total = nominations[i].total /\ i <= j}

SelectCandidate ==
  \E id \in Winner :
    /\ nominations' = [nominations EXCEPT ![id].status = "Selected", ![id].selected = nomNow]
    /\ UNCHANGED <<support, stakeTokens, nomNow>>

(* No time limit on the answer.                                            *)
Answer(c, id, status) ==
  /\ nominations[id].candidate = c
  /\ nominations[id].status = "Selected"
  /\ nominations' = [nominations EXCEPT ![id].status = status]
  /\ UNCHANGED <<support, stakeTokens, nomNow>>
AcceptOnboarding(c, id) == Answer(c, id, "Accepted")
DeclineOnboarding(c, id) == Answer(c, id, "Declined")

Stale(n) == n.status = "Open" /\ ~StakedOn(n)
SelectionExpired(n) == n.status \in {"Selected", "Accepted"} /\ nomNow >= n.selected + Window

AfterWithdrawal(n) == IF Stale(n) \/ SelectionExpired(n) THEN "Expired" ELSE n.status

(* Mutant: support of an accepted candidate stays for good.                *)
NeverWhenAccepted(n) == Stale(n) \/ n.status \in {"Declined", "Expired"} \/ (n.status = "Selected" /\ SelectionExpired(n))

Withdrawable(n) == Stale(n) \/ SelectionExpired(n) \/ n.status \in {"Declined", "Expired"}

Withdraw(s, id) ==
  LET n == nominations[id]
      amount == support[id][s]
  IN /\ Withdrawable(n)
     /\ amount > 0
     /\ support' = [support EXCEPT ![id][s] = 0]
     /\ nominations' = [nominations EXCEPT ![id].total = @ - amount, ![id].status = AfterWithdrawal(n)]
     /\ stakeTokens' = stakeTokens - amount
     /\ UNCHANGED nomNow

Tick == nomNow < NomMaxTime /\ nomNow' = nomNow + 1 /\ UNCHANGED <<nominations, support, stakeTokens>>

Next ==
  \/ \E s \in Supporter, c \in Candidate, a \in Amounts : Nominate(s, c, a)
  \/ \E s \in Supporter, id \in DOMAIN nominations, a \in Amounts : Stake(s, id, a)
  \/ \E s \in Supporter, id \in DOMAIN nominations : Withdraw(s, id)
  \/ \E c \in Candidate, id \in DOMAIN nominations : AcceptOnboarding(c, id) \/ DeclineOnboarding(c, id)
  \/ SelectCandidate
  \/ Tick

-----------------------------------------------------------------------------
(* What could be wrong                                                     *)

(* docs/verifier-nomination.md: eligibility is revoked before the backing  *)
(* is returned.  Selected and eligible candidates are backed by at least   *)
(* the minimum stake, through withdrawals in any order.                    *)
BackedWhileEligible ==
  \A id \in DOMAIN nominations :
    /\ nominations[id].total = SumOver(support[id], Supporter)
    /\ nominations[id].status \in {"Selected", "Accepted"} => nominations[id].total >= MinimumStake

(* Every stake comes back in the end: whatever the candidate does or does  *)
(* not do, a window passes, and a supporter who keeps asking is paid.      *)
Slots == 1 .. MaxNominations
WithdrawSlot(s, id) == id \in DOMAIN nominations /\ Withdraw(s, id)
Fairness == WF_vars(Tick) /\ \A s \in Supporter, id \in Slots : WF_vars(WithdrawSlot(s, id))
Supports(s, id) == id \in DOMAIN nominations /\ support[id][s] > 0
StakeComesBack == \A s \in Supporter, id \in Slots : Supports(s, id) ~> ~Supports(s, id)

Spec == Init /\ [][Next]_vars /\ Fairness
=============================================================================

---------------------------- MODULE DisputeResolution ----------------------------
(***************************************************************************)
(* contracts/dispute_resolution: one challenge per invoice, evidence from  *)
(* its challenger, and a verdict.  access_control's signer set and pause   *)
(* flag are what it reads of that contract.  Evidence is a version: only   *)
(* whether it changes matters.                                             *)
(***************************************************************************)
EXTENDS Integers, FiniteSets

CONSTANTS
  Case,            \* invoice ids
  Person, Nobody,
  Multisig,        \* the access_control contract as a caller
  SignerSets,      \* configurations of its multisig; {} where there is none
  WindowSecs,      \* DISPUTE_WINDOW_SECS
  CodeDelay,       \* UPGRADE_TIMELOCK_DELAY
  MaxEvidence, CaseMaxTime \* bounds

VARIABLES
  cases,       \* Dispute(id); NoCase where absent
  judge,       \* history: who called resolve_dispute
  signers, casePaused, \* access_control's
  caseUpgrade, \* UpgradeProposal: time proposed; -1 where absent
  caseNow

vars == <<cases, judge, signers, casePaused, caseUpgrade, caseNow>>

NoCase == [challenger |-> Nobody, evidence |-> 0, opened |-> 0, resolved |-> FALSE, upheld |-> FALSE, resolvedAt |-> 0]

Init ==
  /\ cases = [id \in Case |-> NoCase]
  /\ judge = [id \in Case |-> Nobody]
  /\ signers \in SignerSets
  /\ casePaused = FALSE
  /\ caseUpgrade = -1
  /\ caseNow = 0

(* Mutant: a judged invoice may be challenged anew.                        *)
Unjudged(id) == cases[id] = NoCase \/ cases[id].resolved
Unchallenged(id) == cases[id] = NoCase

(* No default of the invoice is looked for.                                *)
OpenDispute(c, id) ==
  /\ ~casePaused
  /\ Unchallenged(id)
  /\ cases' = [cases EXCEPT ![id] = [NoCase EXCEPT !.challenger = c, !.opened = caseNow]]
  /\ UNCHANGED <<judge, signers, casePaused, caseUpgrade, caseNow>>

SubmitEvidence(c, id) ==
  /\ cases[id] # NoCase /\ ~cases[id].resolved
  /\ cases[id].challenger = c
  /\ cases[id].evidence < MaxEvidence
  /\ cases' = [cases EXCEPT ![id].evidence = @ + 1]
  /\ UNCHANGED <<judge, signers, casePaused, caseUpgrade, caseNow>>

RequireGovernance(caller) == caller \in signers

InWindow(id) == caseNow <= cases[id].opened + WindowSecs

(* Called by resolver itself, or by access_control's execute_action for    *)
(* the resolver its proposal names.                                        *)
ResolveDispute(resolver, caller, id, upheld) ==
  /\ RequireGovernance(resolver)
  /\ cases[id] # NoCase /\ ~cases[id].resolved
  /\ InWindow(id)
  /\ cases' = [cases EXCEPT ![id].resolved = TRUE, ![id].upheld = upheld, ![id].resolvedAt = caseNow]
  /\ judge' = [judge EXCEPT ![id] = caller]
  /\ UNCHANGED <<signers, casePaused, caseUpgrade, caseNow>>

ProposeUpgrade == caseUpgrade' = caseNow /\ UNCHANGED <<cases, judge, signers, casePaused, caseNow>>
ExecuteUpgrade ==
  /\ caseUpgrade # -1 /\ caseNow >= caseUpgrade + CodeDelay
  /\ caseUpgrade' = -1
  /\ UNCHANGED <<cases, judge, signers, casePaused, caseNow>>

Reconfigure(s) == signers' = s /\ UNCHANGED <<cases, judge, casePaused, caseUpgrade, caseNow>>
SetPause(b) == casePaused' = b /\ UNCHANGED <<cases, judge, signers, caseUpgrade, caseNow>>
Tick == caseNow < CaseMaxTime /\ caseNow' = caseNow + 1 /\ UNCHANGED <<cases, judge, signers, casePaused, caseUpgrade>>

Next ==
  \/ \E c \in Person, id \in Case : OpenDispute(c, id) \/ SubmitEvidence(c, id)
  \/ \E r \in Person, id \in Case, upheld \in BOOLEAN :
       ResolveDispute(r, r, id, upheld) \/ ResolveDispute(r, Multisig, id, upheld)
  \/ ProposeUpgrade \/ ExecuteUpgrade
  \/ \E s \in SignerSets : Reconfigure(s)
  \/ \E b \in BOOLEAN : SetPause(b)
  \/ Tick

-----------------------------------------------------------------------------
(* What could be wrong                                                     *)

(* A verdict is given in the window, under the signer set of that moment,  *)
(* and neither it nor the evidence and the challenger behind it changes    *)
(* afterwards, whoever signs by then.                                      *)
VerdictStep ==
  \A id \in Case :
    /\ cases[id].resolved => cases'[id] = cases[id]
    /\ cases'[id].resolved /\ ~cases[id].resolved =>
         /\ judge'[id] \in signers \union {Multisig}
         /\ caseNow - cases[id].opened <= WindowSecs
         /\ cases'[id].evidence = cases[id].evidence
VerdictFinal == [][VerdictStep]_vars

=============================================================================

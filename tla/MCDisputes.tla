------------------------------- MODULE MCDisputes -------------------------------
(***************************************************************************)
(* Disputes with one contract at work at a time, for TLC.  The fairness of *)
(* a contract is asked for under its own focus.                            *)
(***************************************************************************)
EXTENDS Disputes

CONSTANTS n1, n2

VARIABLE focus

MCOwed      == [id \in {n1, n2} |-> 3]
MCFaceValue == [id \in {n1, n2} |-> 5]

allVars == <<focus, disputesVars>>

(* The other maximal age is tried on one invoice, without the gate.        *)
Attesting == AttestStep /\ (maxAge' # 1 => attested'[n2] = Attestation!NoRecord /\ ~wired')

MCInit ==
  /\ focus \in {"escrow", "cases", "nomination", "attestation"}
  /\ DisputesInit
  /\ maxAge = 1
  /\ focus # "cases" => signers = {}
MCNext ==
  /\ \/ focus = "escrow" /\ EscrowStep
     \/ focus = "cases" /\ CaseStep
     \/ focus = "nomination" /\ NomStep
     \/ focus = "attestation" /\ Attesting
  /\ UNCHANGED focus

EscrowTick == focus = "escrow" /\ Escrow!Tick /\ UNCHANGED <<focus, caseVars, nomVars, attestVars>>
EscrowTimeout(id) == focus = "escrow" /\ Escrow!ResolveTimeout(id) /\ UNCHANGED <<focus, caseVars, nomVars, attestVars>>
NomTick == focus = "nomination" /\ Nomination!Tick /\ UNCHANGED <<focus, escrowVars, caseVars, attestVars>>
NomWithdraw(s, id) ==
  /\ focus = "nomination"
  /\ Nomination!WithdrawSlot(s, id)
  /\ UNCHANGED <<focus, escrowVars, caseVars, attestVars>>

MCSpec ==
  /\ MCInit /\ [][MCNext]_allVars
  /\ WF_allVars(EscrowTick) /\ \A id \in {n1, n2} : WF_allVars(EscrowTimeout(id))
  /\ WF_allVars(NomTick) /\ \A s \in Supporter, id \in 1 .. 2 : WF_allVars(NomWithdraw(s, id))
=============================================================================

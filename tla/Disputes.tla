-------------------------------- MODULE Disputes --------------------------------
(***************************************************************************)
(* Where disagreements are settled and candidates backed: dispute_escrow,  *)
(* dispute_resolution, verifier_nomination and debtor_attestation, each    *)
(* with its own state.  Any of them may be called at any time.             *)
(***************************************************************************)
EXTENDS Integers, FiniteSets, Sequences

CONSTANTS
  Invoice, Sme, Outsider, Holder, Owed, Payments, Timeout, EscrowMaxTime,
  Case, Person, Nobody, Multisig, SignerSets, WindowSecs, CodeDelay, MaxEvidence, CaseMaxTime,
  Supporter, Candidate, Amounts, MinimumStake, PerAddressCap, Window, MaxNominations, NomMaxTime,
  Debtor, Relay, FaceValue, HighRisk, ClaimAmounts, Expiries, Nonces, Ages, AttestMaxTime

ASSUME FinitelyMany == IsFiniteSet(Invoice) /\ IsFiniteSet(Supporter)
ASSUME PaymentsOk   == Owed \in [Invoice -> Nat] /\ Payments \subseteq Int
ASSUME StakesOk     == Amounts \subseteq Int /\ MinimumStake \in Nat \ {0} /\ PerAddressCap \in Nat
ASSUME WindowsOk ==
  /\ Timeout \in Nat /\ WindowSecs \in Nat /\ CodeDelay \in Nat /\ Window \in Nat
  /\ Expiries \subseteq Nat
ASSUME BoundsOk ==
  /\ EscrowMaxTime \in Nat /\ CaseMaxTime \in Nat /\ NomMaxTime \in Nat /\ AttestMaxTime \in Nat
  /\ MaxEvidence \in Nat /\ MaxNominations \in Nat

VARIABLES
  escrow, loan, escrowTokens, stopped, escrowNow,
  cases, judge, signers, casePaused, caseUpgrade, caseNow,
  nominations, support, stakeTokens, nomNow,
  relays, maxAge, attested, nonces, wired, listedAs, lastWord, attestNow

escrowVars == <<escrow, loan, escrowTokens, stopped, escrowNow>>
caseVars   == <<cases, judge, signers, casePaused, caseUpgrade, caseNow>>
nomVars    == <<nominations, support, stakeTokens, nomNow>>
attestVars == <<relays, maxAge, attested, nonces, wired, listedAs, lastWord, attestNow>>
disputesVars == <<escrowVars, caseVars, nomVars, attestVars>>

Escrow      == INSTANCE DisputeEscrow WITH tokens <- escrowTokens
Cases       == INSTANCE DisputeResolution
Nomination  == INSTANCE VerifierNomination
Attestation == INSTANCE DebtorAttestation

DisputesInit == Escrow!Init /\ Cases!Init /\ Nomination!Init /\ Attestation!Init

EscrowStep == Escrow!Next /\ UNCHANGED <<caseVars, nomVars, attestVars>>
CaseStep   == Cases!Next /\ UNCHANGED <<escrowVars, nomVars, attestVars>>
NomStep    == Nomination!Next /\ UNCHANGED <<escrowVars, caseVars, attestVars>>
AttestStep == Attestation!Next /\ UNCHANGED <<escrowVars, caseVars, nomVars>>

DisputesNext == EscrowStep \/ CaseStep \/ NomStep \/ AttestStep

DisputesSpec == DisputesInit /\ [][DisputesNext]_disputesVars

-----------------------------------------------------------------------------
(* What dispute_escrow and verifier_nomination hold for others matches     *)
(* their records: payments under reservation, and stakes behind candidates.*)
HeldMatchesRecords ==
  /\ Escrow!CustodyMatchesReservations /\ Escrow!ReservedDebtStays
  /\ Nomination!BackedWhileEligible

(* A dispute ends once, in either contract, and its outcome stands.        *)
OutcomesStand == [][Escrow!ResolvedStep]_escrowVars /\ [][Cases!VerdictStep]_caseVars

(* Each property under the name its module gives it.                       *)
GateHolds        == [][Attestation!GateStep]_attestVars
EveryDisputeEnds == Escrow!EveryDisputeEnds
StakeComesBack   == Nomination!StakeComesBack
=============================================================================

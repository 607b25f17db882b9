SPECIFICATION MCSpec
CONSTANTS
  n1 = n1
  n2 = n2
  Invoice = {n1, n2}
  Sme = sme
  Outsider = outsider
  Holder = holder
  Owed <- MCOwed
  Payments = {0, 1, 3, 4}
  Timeout = 2
  EscrowMaxTime = 3
  Case = {n1}
  Person = {sme, holder}
  Nobody = Nobody
  Multisig = multisig
  SignerSets = {{}, {holder}, {sme, holder}}
  WindowSecs = 1
  CodeDelay = 2
  MaxEvidence = 1
  CaseMaxTime = 3
  Supporter = {sme, holder}
  Candidate = {outsider}
  Amounts = {0, 1, 2}
  MinimumStake = 2
  PerAddressCap = 2
  Window = 1
  MaxNominations = 2
  NomMaxTime = 4
  Debtor = {sme}
  Relay = {holder}
  FaceValue <- MCFaceValue
  HighRisk = {n1}
  ClaimAmounts = {4, 5}
  Expiries = {0, 1, 2}
  Nonces = {0, 1}
  Ages = {1, 2}
  AttestMaxTime = 3
INVARIANTS
  HeldMatchesRecords
PROPERTIES
  OutcomesStand
  GateHolds
  EveryDisputeEnds
  StakeComesBack
CHECK_DEADLOCK FALSE

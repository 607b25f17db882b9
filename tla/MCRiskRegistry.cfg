SPECIFICATION MCSpec
CONSTANTS
  a1 = a1
  a2 = a2
  a3 = a3
  m1 = m1
  m2 = m2
  Address = {a1, a2, a3}
  Deployer = a1
  Nobody = Nobody
  Smes = {m1, m2}
  Debtors = {d1}
  Scores = {10, 50}
  Amounts = {4}
  Limits = {0, 5}
  Percentages = {5000}
  Breakers <- MCBreakers
  Boundaries <- MCBoundaries
  MaxTime = 2
  MaxCount = 2
  MaxReputation = 3
  Penalty = 2
  MinReputation = 2
  RemovalDelay = 1
  ReaddDelay = 1
  ScoreInterval = 1
  UpgradeDelay = 1
  MaxAttestors = 2
INVARIANTS
  StakesCovered
  CountersKept
PROPERTIES
  TermsNeedAnActiveVerifier
  AverageIsSteady
CHECK_DEADLOCK FALSE

SPECIFICATION MCSpec
CONSTANTS
  a1 = a1
  a2 = a2
  t1 = t1
  Address = {a1, a2}
  Deployer = a1
  Nobody = Nobody
  Tokens = {t1}
  Amounts = {1, 3}
  Rates = {0, 5000}
  Caps = {0, 1}
  Configs <- MCConfigs
  Actions <- MCActions
  Milestones <- MCMilestones
  Splits <- MCSplits
  MaxProposals = 4
  MaxGrants = 1
  MaxPayments = 3
  MaxEpoch = 2
  MaxTime = 5
  MaxReceived = 7
  UpgradeDelay = 1
  DefaultDelay = 2
  Ttl = 3
  EpochLength = 2
  ReclaimDelay = 2
INVARIANTS
  ReserveKept
  BooksFollowMoney
  TwiceTheCap
PROPERTIES
  QuorumForWithdrawals
CHECK_DEADLOCK FALSE

SPECIFICATION MCSpec
CONSTANTS
  a1 = a1
  a2 = a2
  a3 = a3
  h1 = h1
  v1 = v1
  v2 = v2
  NoHash = NoHash
  NoOne = NoOne
  Voter = {a1, a2, a3}
  Weights = {1, 3, 24}
  Credits <- MCCredits
  Quorums = {0, 3}
  Durations = {0, 1}
  PollDuration = 2
  Vestings = {v1, v2}
  MaxPolls = 2
  VoteMaxTime = 3
  Account = {a1, a2}
  Stakes = {1, 2}
  Hashes = {h1}
  Results <- MCResults
  TrackSettings <- MCTrack
  Sizes = {1, 2}
  MinStake = 1
  Quorum = 2
  ThresholdBps = 6000
  VotingDuration = 2
  MaxCount = 2
  GovMaxTime = 2
  Deployer = a1
  Keys = {"MaxPositionBps", "ReserveAllocationBps"}
  Values = {0, 6000}
  SignerConfigs <- MCSigners
  Timelock = 1
  ProposalTtl = 2
  MaxParamProposals = 2
  RegMaxTime = 3
  Schedules <- MCSchedules
  Deposits = {3}
  UpgradeDelay = 2
  VestMaxFunds = 6
  VestMaxTime = 5
  Tokens = {"t1"}
  Fields = {"AccessControl", "DebtorAttestation"}
  Contracts = {a2, a3}
  Rates = {30, 10001}
  Tiers = {0}
  Quora <- MCQuora
  MktDelay = 1
  MaxActs = 2
  MktMaxTime = 2
  Proposers = {a1}
  Codes = {h1}
  Delays = {0, 1, 2}
  DefaultDelay = 2
  MaxUpgrades = 3
  LockMaxTime = 3
INVARIANTS
  VotesCounted
  ExecutedStaysWon
PROPERTIES
  SnapshotHolds
  ParametersGuarded
  ScheduleKept
CHECK_DEADLOCK FALSE

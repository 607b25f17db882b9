SPECIFICATION MCSpec
CONSTANTS
  i1 = i1
  i2 = i2
  vault = vault
  fees = fees
  f1 = f1
  f2 = f2
  f3 = f3
  Investor = {i1, i2}
  Vault = vault
  Fees = fees
  Initial <- MCInitial
  Cash = 40
  Closings = {0, 7, 11, 50}
  Gifts = {5}
  ShareCounts = {0, 1, 2, 3, 4}
  MaxShares = 3
  AskPrices = {0, 35}
  FeeRates = {0, 500, 2000}
  MaxFeeBps = 1000
  FaceValues <- MCFaceValues
  Bundles <- MCBundles
  Bids <- MCBids
  MaxTranches = 2
  MaxFunded = 8
  Newcomer = {s1, s2, s3}
  RewardAmounts <- MCBids
  Bonus = 2
  Allocation = 5
  MaxHeld = 7
  Feeders = {f1, f2, f3}
  Admins = {i1, i2}
  Prices = {0, 2, 4, 8}
  ChangeLimits = {5000, 20000}
  Pegs <- MCPegs
  FallbackPrices = {6}
  FeederCounts = {0, 1, 2}
  OracleAges = {0, 1, 2}
  Quantities = {1, 2, 3, 4, 5, 6, 7, 8, 9}
  Decimals = {0, 1}
  Unit = 4
  HistoryCap = 2
  MaxStaleness = 1
  DefaultMinFresh = 2
  MaxFeeders = 2
  OracleDelay = 2
  OracleMaxTime = 4
  QueueAmounts = {0, 1, 2, 3}
  MaxQueueLen = 2
  MaxRequests = 4
INVARIANTS
  ClaimsCovered
  PricesFaithful
PROPERTIES
  TradeIsFair
  StrayedPairWaits
CHECK_DEADLOCK FALSE

SPECIFICATION MCSpec
CONSTANTS
  Id = {1, 2}
  Investor = {i1, i2, i3}
  Token = {t1}
  NoToken = NoToken
  Face <- Faces
  Due <- Dues
  Funding <- Moved
  Rate <- ParRate
  Grace = 0
  Threshold = 4
  MaxPositions = 2
  MaxShares = 2
  MaxAggregate = 3
  MaxTime = 2
  Pay = {1, 2, 4}
  Totals = {4}
  Plans <- TwoPlans
  Nettings <- Lists
  Penalties = {0, 10000}
  Splits = {5000}
  Caps = {5000}
  i1 = i1
  i2 = i2
  i3 = i3
  t1 = t1
INVARIANTS
  BooksAgree
  PaidFromOwnReceipts
PROPERTIES
  StandsStill
  StakesNotCreated
CHECK_DEADLOCK FALSE

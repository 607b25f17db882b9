SPECIFICATION MCSpec
CONSTANTS
  Id = {1, 2}
  Investor = {i1, i2}
  Token = {t1, t2}
  Face <- FaceFour
  TierOf <- OneTier
  Price = {2, 3}
  Pay = {1, 2, 3}
  Worth <- TwoToOne
  InvoiceWorth <- InvoiceOne
  MaxTime = 2
  MaxExposure = 9
  FeeRates = {0, 5000, 10000}
  Floors = {2}
  ShareCaps = {5000}
  ExposureCaps = {3}
  Windows <- FirstOnly
  Gates = {"breaker", "frozen", "unlistable"}
  NoFee = NoFee
  NoToken = NoToken
  i1 = i1
  i2 = i2
  t1 = t1
  t2 = t2
INVARIANTS
  ListingNftPoolInStep
  RefundExactlyOnce
  CancelPaysEveryone
  FundingAccounted
PROPERTIES
  TermsFixedOnceFunded
SYMMETRY Investors
CHECK_DEADLOCK FALSE

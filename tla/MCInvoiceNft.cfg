SPECIFICATION MCSpec
CONSTANTS
  s1 = s1
  s2 = s2
  s3 = s3
  NoSme = NoSme
  Sme = {s1, s2, s3}
  MaxId = 3
  Amount = {1, 2}
  Score = {10}
  MaxTime = 2
  CreditLimit <- LimitTwo
  ProfileScore <- AnyScore
  MaxBatch = 2
  MaxHops = 3
  RateLimits <- ThreePerTwo
  Ceilings = {5}
  Bounds <- OneToOne
  AuditSize = 2
  MaxAudit = 3
  UpgradeDelay = 1
INVARIANTS
  IndexSound
  TimesMatchStatus
  SideRecordsExplained
  ReferralsAcyclic
PROPERTIES
  FixedOnceStated
  ImplementsLifecycle
SYMMETRY Smes

SPECIFICATION MCSpec
CONSTANTS
  a1 = a1
  a2 = a2
  a3 = a3
  Address = {a1, a2, a3}
  Deployer = a1
  Nobody = Nobody
  Configs <- MCConfigs
  Actions <- MCActions
  Terms <- MCTerms
  Parameters = {"FeeBps"}
  Values = {1}
  MaxProposals = 2
  MaxTime = 2
  Ttl = 1
  GovDelay = 1
  RecoveryDelay = 2
  Cooldown = 1
PROPERTIES
  PrivilegeNeedsQuorum
  ResolvedIsFinal
  RotationOvertakesNothing
CHECK_DEADLOCK FALSE

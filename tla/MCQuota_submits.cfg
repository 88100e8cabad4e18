CONSTANTS
  Submit = {s1, s2, s3}
  Tenant = {busy}
  TenantOf <- OneTenant
  TierOf <- Tiers
  tierLimits <- SmallTiers
  Window = 2
  LockWait = 1
  MaxTime = 3
  MaxFaults = 1
  None = None
SPECIFICATION FairSpec
CHECK_DEADLOCK FALSE
INVARIANTS
  TypeOK
  ActiveCapped
  HourlyCapped
  RowsAccounted
PROPERTY EveryoneAnswered

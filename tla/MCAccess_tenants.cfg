CONSTANTS
  User = {u1}
  Tenant = {t1, t2}
  Key = {k1}
  Req = {r1, r2, r3}
  TTL = 1
  MaxMint = 2
  MaxTime = 2
  MaxMoves = 1
  MaxFaults = 1
  None = None
SPECIFICATION Spec
INVARIANTS TypeOK KeyAccessIsLive StaleClaimsBounded RowsAttributed TenantScoped DeleteSticks
CHECK_DEADLOCK FALSE
SYMMETRY Symmetry

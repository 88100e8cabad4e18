CONSTANTS
  User = {u1}
  Tenant = {t1, t2}
  Key = {k1}
  Req = {r1, r2}
  TTL = 2
  MaxMint = 2
  MaxTime = 1
  MaxMoves = 1
  MaxFaults = 0
  None = None
SPECIFICATION Spec
INVARIANT MembershipRechecked
CHECK_DEADLOCK FALSE
SYMMETRY Symmetry

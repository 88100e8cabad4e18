SPECIFICATION Spec
CONSTANTS
  User = {u1, u2}
  u1 = u1
  u2 = u2
  Jti = {j1, j2, j3, j4}
  j1 = j1
  j2 = j2
  j3 = j3
  j4 = j4
  Req = {r1, r2, r3, r4}
  r1 = r1
  r2 = r2
  r3 = r3
  r4 = r4
  None = None
  MaxFaults = 1
SYMMETRY Symmetry
INVARIANT TypeOK
INVARIANT NoDoubleMint
INVARIANT SessionTokens
INVARIANT OutlivesByRotation
CHECK_DEADLOCK FALSE

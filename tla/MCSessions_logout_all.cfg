SPECIFICATION Spec
CONSTANTS
  User = {u1}
  u1 = u1
  Jti = {j1, j2, j3}
  j1 = j1
  j2 = j2
  j3 = j3
  Req = {r1, r2, r3}
  r1 = r1
  r2 = r2
  r3 = r3
  None = None
  MaxFaults = 0
SYMMETRY Symmetry
INVARIANT LogoutAllEndsSessions
CHECK_DEADLOCK FALSE

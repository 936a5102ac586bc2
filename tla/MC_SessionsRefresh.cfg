SPECIFICATION Spec
CONSTANTS
  p1 = p1
  p2 = p2
  k1 = k1
  k2 = k2
  k3 = k3
  Processes = {p1}
  NoProcess = NoProcess
  Requests = {r1, r2}
  Tokens = {k1}
  NoToken = NoToken
  JwtTTL = 1
  RefreshTTL = 5
  Retention = 1
  Keep = 0
  Closings = {"unblock"}
  MaxClock = 3
  MaxBegun = 2
SYMMETRY Symmetry
INVARIANT ClosedRefreshesStayClosed

SPECIFICATION Spec
CONSTANTS
  p1 = p1
  p2 = p2
  k1 = k1
  k2 = k2
  k3 = k3
  Processes = {p1, p2}
  NoProcess = NoProcess
  Requests = {r1, r2}
  Tokens = {k1, k2, k3}
  NoToken = NoToken
  JwtTTL = 2
  RefreshTTL = 3
  Retention = 2
  Keep = 0
  Closings = {"logoutAll", "block", "unblock", "reset", "delete"}
  MaxClock = 4
  MaxBegun = 4
CONSTRAINT Focus
SYMMETRY Symmetry
INVARIANTS
  TypeOK
  OneActivePerFamily
  OnlyCurrentPassword
  ClosedSessionsStayClosed
  LoggedOutStaysOut
PROPERTIES
  FamiliesSpec

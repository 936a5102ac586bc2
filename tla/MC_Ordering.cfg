SPECIFICATION Spec
CONSTANTS
  Devices = {d1, d2}
  Notes = {n}
  Requests = {r1, r2}
  Host <- Hosts
  Blobs = {3}
  Texts = {3}
  Overhead = 1
  Forms = {0, 1, 32}
  MaxBytes = 5
  Nobody = Nobody
  MaxSent = 3
SYMMETRY Symmetry
INVARIANTS
  TypeOK
  VersionNamesOneState
PROPERTIES
  ResetHolds
  QuotaKept
  CleanupAllowed
  LimitStaysLimit
  RegisterSpec

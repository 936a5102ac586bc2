SPECIFICATION Spec
CONSTANTS
  r1 = r1
  Requests = {r1}
  Maint = Maint
  Reload = Reload
  MaxOpen = 1
  IsLocal = TRUE
  Chunk = 1
  MaxFree = 2
INVARIANTS
  TypeOK
  PoolOutlivesItsUsers
  NoConnectionLost
PROPERTIES
  EveryQueryServed
  VacuumEnds
  ShutdownEnds

SPECIFICATION FairSpec
CONSTANTS
  Requests = {r1, r2}
  Keys = {k1}
  NoKey = NoKey
  Entries = {e1, e2}
  NoEntry = NoEntry
  Cost = 2
  Burst = 3
  StaleAfter = 3
  MaxClock = 5
CONSTRAINT Focus
INVARIANTS
  TypeOK
  WithinBudget
  NoSilentBypass
PROPERTIES
  BucketSpec
  EveryRequestDecided

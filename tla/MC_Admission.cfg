SPECIFICATION FairSpec
CONSTANTS
  r1 = r1
  r2 = r2
  r3 = r3
  u1 = u1
  u2 = u2
  Requests = {r1, r2, r3}
  Syncs = {r1, r3}
  Users = {u1, u2}
  UserOf <- Owner
  Entries = {e1, e2, e3}
  NoEntry = NoEntry
  MaxSlots = 1
INVARIANTS
  TypeOK
  OneAtATime
  SlotsMatchBodies
  NoEntryLeaks
PROPERTIES
  GateSpec
  EveryRequestAdmitted

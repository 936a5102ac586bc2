SPECIFICATION Spec
CONSTANTS
  n1 = n1
  f1 = f1
  Notes = {n1}
  Folders = {f1}
  Home <- InFolder
  Root = Root
  Devices = {d1, d2}
  NoDevice = NoDevice
  Servers = {s1, s2}
  Bodies = {b}
  NoBody = NoBody
  EditTimes = {1, 3}
  Readings = {1}
  OtherReadings = {6}
  Retention = 2
  Margin = 1
  Skew = 1
  Lease = 10
  Drift = 1
  MaxStamp = 7
  MaxSends = 3
  MaxEdits = 2
SYMMETRY Symmetry
CONSTRAINT Focus
INVARIANTS
  TypeOK
  ActiveRowsReachDevices
  DeletionsReachDevices
  PurgedRowsForceResync
PROPERTY CommitOrder
CHECK_DEADLOCK FALSE

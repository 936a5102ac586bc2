SPECIFICATION Spec
CONSTANTS
  Folders = {a, b, c}
  Notes = {n}
  Root = Root
  EditTimes = {1, 3}
  Readings = {2}
  Skew = 1
  Keep = 0
  Batches <- NotesAndTriples
  MaxFolders = 2
  MaxNotes = 1
  MaxSize = 2
  Deletions = {"deleted"}
  MaxRows = 4
  MaxStamp = 3
SYMMETRY Symmetry
INVARIANTS
  TypeOK
  AcceptedInAnyOrder
PROPERTIES
  CascadeReachesAll
  CascadeReachesOnly
  BatchesKeepForest
CHECK_DEADLOCK FALSE

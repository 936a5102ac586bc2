SPECIFICATION Spec
CONSTANTS
  Folders = {a, b}
  Notes = {}
  Root = Root
  EditTimes = {1}
  Readings = {2}
  Skew = 1
  Keep = 0
  Batches <- AllBatches
  MaxFolders = 2
  MaxNotes = 0
  MaxSize = 2
  Deletions = {"deleted"}
  MaxRows = 3
  MaxStamp = 3
SYMMETRY Symmetry
INVARIANT NoCycle
CHECK_DEADLOCK FALSE

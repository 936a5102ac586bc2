SPECIFICATION Spec
CONSTANTS
  Folders = {a}
  Notes = {n}
  Root = Root
  EditTimes = {1}
  Readings = {2}
  Skew = 1
  Keep = 0
  Batches <- AllBatches
  MaxFolders = 1
  MaxNotes = 1
  MaxSize = 2
  Deletions = {"deleted"}
  MaxRows = 4
  MaxStamp = 2
SYMMETRY Symmetry
PROPERTY ResendChangesNothing
CHECK_DEADLOCK FALSE

CONSTANTS
  Cells <- MCCells
  BlockSize = 3
  Values <- MCValues
  Images <- MCImages
  Scripts <- MCScripts
  MaxEntries = 256
SPECIFICATION FairSpec
INVARIANTS
  WriteAhead
  UndoRestores
  SuccessMeansInstalled
PROPERTIES
  RunsEnd
CHECK_DEADLOCK FALSE

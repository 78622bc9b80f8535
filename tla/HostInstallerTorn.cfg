CONSTANTS
  Cells <- MCCells
  BlockSize = 3
  Values <- MCValues
  Images <- MCImages
  Scripts <- MCScripts
  MaxEntries = 256
SPECIFICATION Spec
INVARIANT UndoRestoresAll
CHECK_DEADLOCK FALSE

CONSTANTS
  Top = 30
  Page = 2
  Limit = 30
  LowMem = 4
  MaxParts = 64
  MaxRetries = 100
  Boots <- FixedBoots
  InfoAt = 6
  InfoSize = 2
  FileSize = 3
  StubSize = 2
  MaxRelocTries = 100
SPECIFICATION Spec
CHECK_DEADLOCK FALSE
INVARIANT
  NoLateSource

CONSTANTS
  Top = 30
  Page = 2
  Limit = 30
  LowMem = 4
  MaxParts = 64
  MaxRetries = 100
  Boots <- SomeBoots
  InfoAt = 6
  InfoSize = 2
  FileSize = 3
  StubSize = 2
  MaxRelocTries = 100
SPECIFICATION Spec
INVARIANTS
  TargetsApart
  FailureIsHonest
  HandoffIntact
CHECK_DEADLOCK FALSE

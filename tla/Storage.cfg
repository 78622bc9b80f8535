SPECIFICATION StorageSpec
CONSTANTS
  Unit = 2
  Volumes <- ReadVolumes
  Requests <- Reads
  Limit = 64
  DiskSize = 24
  MaxArray = 6
  MaxGpt = 4
  MaxLogical = 5
  MaxEbrs = 3
  PoolSize = 4
  Encodable = {"x", "xa", "d", "D", "z", "c", "C", "ek", "q"}
  Wide = {"w"}
  MaxLfn = 3
  MaxChain = 12
  Fat12Clusters = 8
  Fat16Clusters = 11
  MaxOpens = 2
  MaxDescriptors = 4
  MaxHops = 2
  MaxName = 3
  MaxExtents = 3
INVARIANTS
  ReadExact
  EnumerationExact
  IterationMeetsAll
  HandleNamesVolume
  FileExact
  DiscExact
CHECK_DEADLOCK FALSE

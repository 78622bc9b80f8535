CONSTANTS
  PageSize = 2
  AddrTop = 18
  MaxEntries = 7
  KeepFirstPage = FALSE
  E820Maps <- MCE820Maps
  Ebda = 7
  OneMiB = 8
  BssEnd = 4
  FourGiB = 14
  AllocTypes <- MCAllocTypes
  Sizes <- MCSizes
  Alignments <- MCAlignments
  Limits <- MCLimits
  Fixed <- MCFixed
  Tables <- MCTables
SPECIFICATION FairSpec
INVARIANTS
  LoansAreExclusive
  QueriesAgree
PROPERTIES
  KeepsPromise
CHECK_DEADLOCK FALSE

CONSTANTS
  Cpus <- MCCpus
  Bsp = 0
  Machines <- MCMachines
  Narrow = 3
  Wide = 5
  MaxCore = 3
SPECIFICATION FairSpec
INVARIANTS
  TableSound
  OwnEntry
  NeverReset
PROPERTIES
  Arrivals
CHECK_DEADLOCK FALSE

SPECIFICATION Spec
CONSTANTS
  Machines <- CloneMachines
  PoolSize = 4
INVARIANT
  HandleNamesVolume
CHECK_DEADLOCK FALSE

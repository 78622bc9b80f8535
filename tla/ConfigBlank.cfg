SPECIFICATION Spec
CONSTANTS
  Machines <- FirstLines
  MaxNesting = 2
  MaxPath = 9
  ConfName = 3
  MaxName = 2
  MaxValue = 2
  Builtins <- MCBuiltins
INVARIANT ConfigExact
CHECK_DEADLOCK FALSE

SPECIFICATION Spec
INVARIANTS
  ConfigExact
  BootsHighlighted
  CursorOnScreen
PROPERTIES
  ChosenEntryReturns
  HiddenMenuResolves
CHECK_DEADLOCK FALSE

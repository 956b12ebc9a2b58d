CONSTANTS
  Top = 3
  Starts <- Backends
  MaxWrites = 1
  MaxClicks = 3
SPECIFICATION Spec
INVARIANTS
  ReadyHasGrounds
  LifecycleSettles
PROPERTY
  OneStateAtATime
CHECK_DEADLOCK FALSE

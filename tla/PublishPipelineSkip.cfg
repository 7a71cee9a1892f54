CONSTANTS
  MaxPushes = 2
  MaxCollects = 3
SPECIFICATION Spec
INVARIANT SkipIsNoOp

CHECK_DEADLOCK FALSE

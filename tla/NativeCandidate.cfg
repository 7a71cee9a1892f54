\* A release takes four commits to record; six leave room for two to undo it.
CONSTANT
  MaxEdits = 6
SPECIFICATION Spec
INVARIANT OneReleaseState
PROPERTY GoNeedsTheReceipts
CHECK_DEADLOCK FALSE

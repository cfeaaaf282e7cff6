\* Three commands in a row, an HttpBridge is present.
CONSTANTS
  MaxCommands = 3
  HasBridge = TRUE
SPECIFICATION FairSpec
CHECK_DEADLOCK FALSE
INVARIANTS
  CodeBeforeVerify
  OneOperationAfterCancel
PROPERTY CancelledEnds

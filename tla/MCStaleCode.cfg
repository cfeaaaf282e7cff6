\* Two commands are enough for a stale pairing code.
CONSTANTS
  MaxCommands = 2
  HasBridge = TRUE
SPECIFICATION Spec
CHECK_DEADLOCK FALSE
INVARIANT SurfacedCodeIsAwaited

\* The same commands; Taproot script-path spends are among the inputs.
CONSTANTS
  Kinds <- AllKinds
  Commands <- MCCommands
  Calls <- MCCalls
  MaxDerive = 3
  Hardened = 5
  Top = 10
  MaxAmount = 3
  None = None
  Bad = Bad
SPECIFICATION WalletSpec
CHECK_DEADLOCK FALSE
INVARIANT BitBoxScriptNeedsPolicy

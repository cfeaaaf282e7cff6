\* Every family, every command and helper call, arguments at the boundaries;
\* indices and amounts scaled down so that every one of them is tried.
CONSTANTS
  Kinds <- AllKinds
  Commands <- MCCommands
  Calls <- MCCalls
  MaxDerive = 3
  Hardened = 5
  Top = 10
  MaxAmount = 3
  None = None
  Bad = Bad
SPECIFICATION WalletSpec
CHECK_DEADLOCK FALSE
INVARIANTS
  RegisteredIsUsable
  LedgerBound
  BuiltIsSignable
  ResultFits
  DerivedRange
  FeeExact

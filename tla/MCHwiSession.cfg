\* Three tasks: two commands and a disconnect, two commands and a
\* reconfiguration, a command, an export and a disconnect...
CONSTANTS
  Tasks = {p1, p2, p3}
  Handles = {h1, h2}
  Families <- AllFamilies
  Nobody = Nobody
  NoHandle = NoHandle
  Wrapper = Wrapper
SPECIFICATION Spec
SYMMETRY Symmetry
INVARIANTS
  NoUseAfterFree
  LeaseFreeUnderMutex
  CommandErrorsTyped
  SecretsCleared
PROPERTY ImplementsOneCommand

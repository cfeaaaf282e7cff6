\* One input; any number of rounds.
CONSTANTS
  k1 = k1
  k2 = k2
  path = path
  a = a
  b = b
  d = d
  Places = {k1, k2, path}
  Taproot = {path}
  Signatures = {a, b, d}
  ModeOf <- MCModeOf
  Pushes <- MCPushes
  MaxInputs = 1
  Absent = Absent
  Unparsable = Unparsable
SPECIFICATION Spec
INVARIANTS
  NothingLost
  HonestAccepted
PROPERTY AddedAsRequested

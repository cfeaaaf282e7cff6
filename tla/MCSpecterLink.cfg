\* Two callers of one link, three exchanges, answers of two bytes.
CONSTANTS
  Callers = {c1, c2}
  MaxRequests = 3
  FrameLength = 2
SPECIFICATION FairSpec
CHECK_DEADLOCK FALSE
INVARIANTS
  OwnAnswer
  ReadyIsQuiet
PROPERTIES
  ExchangeEnds
  ImplementsRetiringLink

\* Two callers of one link, three exchanges, messages of one or two packets.
CONSTANTS
  Callers = {c1, c2}
  MaxRequests = 3
  MaxPackets = 2
SPECIFICATION FairSpec
CHECK_DEADLOCK FALSE
INVARIANTS
  OwnAnswer
  ReadyIsQuiet
PROPERTIES
  CancelledEnds
  ImplementsRetiringLink

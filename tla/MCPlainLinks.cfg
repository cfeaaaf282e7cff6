\* Two exchanges per link; every short stream for the walk behind Jade.
CONSTANTS
  Walk <- MCWalk
  WellFormed <- MCWellFormed
  Links <- MCLinks
  RequestSizes <- MCRequestSizes
  AnswerSizes <- MCAnswerSizes
  PlatformMtus = {15, 23}
  DeviceMtus = {0, 30}
  MaxRequests = 2
  MtuAttempts = 2
  Messages <- MCMessages
  Alphabet <- MCAlphabet
  MaxBytes = 4
  MaxCalls = 2
  Streams <- MCStreams
SPECIFICATION MCSpec
CHECK_DEADLOCK FALSE
INVARIANTS OwnAnswer RequestIntact WalkAgrees CutsAgree WalkIsBounded
PROPERTY ExchangeEnds

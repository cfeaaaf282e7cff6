\* Two threads, two interpreter objects, one BitBox and one Coldcard handle.
CONSTANTS
  Threads = {t1, t2}
  Interps = {i1, i2}
  NoiseCells = {noise}
  ColdcardCells = {coldcard}
  NoCell = NoCell
  Nobody = Nobody
SPECIFICATION FairSpec
INVARIANTS
  NoAliasing
  LeaseHasOneOwner
  CoreHasSession
  SessionFate
  KeyIsCurrent
PROPERTIES
  ImplementsExclusiveLease
  GoneReleasesLease

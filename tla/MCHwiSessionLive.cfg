\* Two tasks, without symmetry, for liveness
CONSTANTS
  Tasks = {p1, p2}
  Handles = {h1, h2}
  Families <- AllFamilies
  Nobody = Nobody
  NoHandle = NoHandle
  Wrapper = Wrapper
SPECIFICATION FairSpec
PROPERTIES
  MonitorIsBrief
  StalledCanBeCancelled

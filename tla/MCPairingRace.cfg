\* bitboxPairing racing disconnect.
CONSTANTS
  Tasks = {p1, p2}
  Handles = {h1, h2}
  Families <- BitBoxOnly
  Nobody = Nobody
  NoHandle = NoHandle
  Wrapper = Wrapper
SPECIFICATION Spec
SYMMETRY Symmetry
INVARIANT AllErrorsTyped

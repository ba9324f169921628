CONSTANTS
  None = None
  Hosts = {h1, h2}
  Keys = {k1, k2}
  Tokens = {e1, e2, e3}
  Requests = {r1, r2}
SPECIFICATION Spec
SYMMETRY Symmetry
INVARIANTS
  NoOpenDoor
  OneBindingEach
PROPERTIES
  KeepsIdentity
CHECK_DEADLOCK FALSE

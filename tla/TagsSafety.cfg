CONSTANTS
  None = None
  h1 = h1
  h2 = h2
  a = a
  b = b
  Hosts = {h1, h2}
  Names = {a, b}
  Requests = {r1, r2}
  Wants <- SomeWants
  Legacy <- OwnTags
  MaxId = 2
SPECIFICATION Spec
SYMMETRY Symmetry
INVARIANTS
  TypeOK
PROPERTIES
  UpdateIsExact
  KeepsPromise

SPECIFICATION Spec
CONSTANTS
  Process = {p1, p2}
  Scope = {a, b}
  Digest = {x, y}
  None = None
  MaxTotal = 1
  MaxScopes = 1
  MaxPublications = 2
  MaxTicks = 1
  MaxFaults = 1
SYMMETRY Interchangeable
INVARIANTS
  TypeOK
  Whole
  ScopesBounded
CHECK_DEADLOCK FALSE

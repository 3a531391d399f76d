SPECIFICATION Spec
CONSTANTS
  Universe = {u1, u2}
  Source = {s1, s2}
  Ns = {"source", "m", "n"}
  SourceNs = "source"
  Text <- MCText
  Pass = {"A", "B"}
  Order <- MCOrder
  Inputs <- MCInputs
  Requires <- MCRequires
  Selects <- MCSelects
  Requested = {"A", "B"}
  Mandatory = {"A"}
  None = None
  MaxEdits = 3
  MaxFaults = 2
INVARIANTS
  TypeOK
  Coherent
  CompleteShards
PROPERTIES
  NothingUnreported
  QuietRetains
SYMMETRY Interchangeable

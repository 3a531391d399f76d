SPECIFICATION Spec
CONSTANTS
  o1 = o1  o2 = o2
  Owner = {o1, o2}
  None = None
  Overlapping = FALSE
  MaxEdits = 2
  MaxUpsets = 2
SYMMETRY Symmetry
INVARIANTS
  TypeOK
  Coherent
  ExactUnlessOwed

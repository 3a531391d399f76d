SPECIFICATION Spec
CONSTANTS
  o1 = o1  o2 = o2
  Owner = {o1, o2}
  None = None
  Overlapping = FALSE
  MaxEdits = 1
  MaxUpsets = 1
SYMMETRY Symmetry
INVARIANTS
  ExactWhenQuiet

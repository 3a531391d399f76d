SPECIFICATION Spec
CONSTANTS
  p = p  c = c
  r1 = r1  i1 = i1  a2 = a2
  Spc = {p, c}
  File = {r1, i1, a2}
  OwnerOf <- MCOwnerOf
  KindOf <- MCKindOf
  Reaches <- Imported
  Buffering = TRUE
  None = None
  MaxEdits = 2
  MaxRequests = 2
  MaxFailures = 0
  MaxRestarts = 0
INVARIANT
  CodeInvalidates
CHECK_DEADLOCK FALSE

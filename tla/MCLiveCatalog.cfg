SPECIFICATION Spec
CONSTANTS
  p = p  c = c
  r1 = r1  i1 = i1  a2 = a2
  Spc = {p, c}
  File = {r1, i1, a2}
  OwnerOf <- MCOwnerOf
  KindOf <- MCKindOf
  Reaches <- Imported
  Buffering = FALSE
  None = None
  MaxEdits = 2
  MaxRequests = 1
  MaxFailures = 1
  MaxRestarts = 1
INVARIANTS
  TypeOK
  ShownOfSnapshot
  VerdictsEarned
  QuietIsCurrent
  QuietIsHeard
CHECK_DEADLOCK FALSE

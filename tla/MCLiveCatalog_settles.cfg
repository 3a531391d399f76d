SPECIFICATION FairSpec
CONSTANTS
  p = p  c = c
  r1 = r1  i1 = i1  a2 = a2
  Spc = {p, c}
  File = {r1, i1, a2}
  OwnerOf <- MCOwnerOf
  KindOf <- MCKindOf
  Reaches <- Imported
  Buffering = TRUE
  None = None
  MaxEdits = 2
  MaxRequests = 1
  MaxFailures = 0
  MaxRestarts = 0
PROPERTIES
  Settles
  Closes
CHECK_DEADLOCK FALSE

SPECIFICATION FairSpec
CONSTANTS
  u1 = u1  u2 = u2
  s1 = s1
  r1 = r1
  h1 = h1
  Universe = {u1, u2}
  Source = {s1}
  Revision = {r1}
  Handle = {h1}
  None = None
  MaxUniverses = 1
  MaxCalls <- MCMaxCalls
  MaxQueue = 1
  MaxCommits = 3
  MaxFailures = 2
INVARIANTS
  ReadersRetained
  NothingLeaks
PROPERTIES
  UpdatesExact
  DisposalEnds
CHECK_DEADLOCK FALSE

SPECIFICATION FairSpec
CONSTANTS
  u1 = u1  u2 = u2
  s1 = s1  s2 = s2
  r1 = r1  r2 = r2
  Universe = {u1, u2}
  Source = {s1, s2}
  Revision = {r1, r2}
  None = None
  Restarting = {TRUE, FALSE}
  Fault <- MCFault
  MaxEdits <- MCMaxEdits
  MaxUpsets <- MCMaxUpsets
INVARIANTS
  TypeOK
  FreshPublication
  CandidateWasReal
  AnswerIsProgram
  CommitLate
PROPERTIES
  Converges

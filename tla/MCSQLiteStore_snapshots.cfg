SPECIFICATION Spec
CONSTANTS
  u1 = u1  u2 = u2
  p1 = p1  p2 = p2
  h1 = h1  h2 = h2
  k1 = k1  k2 = k2
  pa = pa  pb = pb
  fa = fa  fb = fb
  Universe = {u1, u2}
  Process = {p1, p2}
  Handle = {h1}
  ProcessOf <- MCReader
  Key = {k1}
  Payload = {pa}
  Fact = {fa, fb}
  Declares <- MCDeclares
  Derives <- MCNoDerives
  MaxRetained = 1
  MaxSequence = 2
  Responsive = TRUE
  Nobody = Nobody
  NoContent = NoContent
  NoTransaction = NoTransaction
CONSTRAINT FewCommits
SYMMETRY UniverseSymmetry
INVARIANTS
  LeasesMatchPins
  ShardsExact
  ReadersKeepGenerations
PROPERTIES
  ImplementsStore
CHECK_DEADLOCK FALSE

SPECIFICATION Spec
CONSTANTS
  u1 = u1  u2 = u2  u3 = u3
  h1 = h1  h2 = h2
  k1 = k1  k2 = k2
  pa = pa  pb = pb
  fa = fa  fb = fb
  Universe = {u1, u2, u3}
  Handle = {h1, h2}
  Key = {k1}
  Payload = {pa}
  Fact = {fa, fb}
  Declares <- MCDeclares
  Derives <- MCNoDerives
  MaxRetained = 1
  MaxUniverses = 2
  MaxSequence = 2
  NoHandle = NoHandle
  NoContent = NoContent
SYMMETRY Symmetry
INVARIANTS
  TypeOK
  LeasesCountHolders
  PinnedRetained
  CurrentIsNewest
PROPERTIES
  ImplementsStore
CHECK_DEADLOCK FALSE

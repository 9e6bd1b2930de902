SPECIFICATION Spec
CONSTANTS
  d1 = d1
  p1 = p1
  p2 = p2
  h1 = h1
  h2 = h2
  Proc = {p1, p2}
  Harness = {h1, h2}
  Parent <- MCParent
  Path = {d1}
  Managed = {d1}
  None = None
  MaxLeases = 2
VIEW Distinguished
SYMMETRY Exchange
CHECK_DEADLOCK FALSE
INVARIANT
  AuthorityAlways

SPECIFICATION Spec
CONSTANTS
  Proc = {p1, p2}
  Pack = {k1}
  None = None
  MaxInstalls = 2
  MaxStops = 1
INVARIANT
  PruneIsSafe

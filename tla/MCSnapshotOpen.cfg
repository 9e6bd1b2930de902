SPECIFICATION Spec
CONSTANTS
  p1 = p1
  p2 = p2
  None = None
  Proc <- MCProc
  Movers = {}
  Deletes = FALSE
  MaxEdits = 1
  MaxStates = 1
  MaxLog = 1
INVARIANT
  OpenNotRefused

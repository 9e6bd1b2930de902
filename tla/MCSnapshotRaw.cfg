SPECIFICATION Spec
CONSTANTS
  p1 = p1
  p2 = p2
  None = None
  Proc <- MCProc
  Movers = {}
  Deletes = FALSE
  MaxEdits = 2
  MaxStates = 3
  MaxLog = 3
INVARIANT
  RawAuthoritative

SPECIFICATION Spec
CONSTANTS
  p1 = p1
  p2 = p2
  None = None
  Proc <- MCProc
  Movers = {p2}
  Deletes = FALSE
  MaxEdits = 1
  MaxStates = 3
  MaxLog = 3
INVARIANT
  ExactlyOnce
  Recoverable
  SamePosition
  PersistedClean

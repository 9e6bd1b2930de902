SPECIFICATION Spec
CONSTANTS
  p1 = p1
  p2 = p2
  None = None
  Proc <- MCProc
  Movers = {}
  Deletes = TRUE
  MaxEdits = 2
  MaxStates = 3
  MaxLog = 3
PROPERTY
  OutputIsNewest

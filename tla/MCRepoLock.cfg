SPECIFICATION FairSpec
CONSTANTS
  t1 = t1
  t2 = t2
  t3 = t3
  t4 = t4
  p1 = p1
  p2 = p2
  NoThread = NoThread
  Threads <- MCThreads
  Procs <- MCProcs
  ProcOf <- MCProcOf
  MaxDepth = 2
  MaxCalls = 2
  MaxErrors = 1
CHECK_DEADLOCK FALSE
INVARIANT
  TypeOK
  Exclusion
  CoveredReadsProtected
PROPERTY
  WriteReturnsUnlessError

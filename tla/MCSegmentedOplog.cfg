SPECIFICATION Spec
CONSTANTS
  p1 = p1
  p2 = p2
  None = None
  Procs <- MCProcs
  Readers <- MCReaders
  Recs <- MCRecs
  MaxGen = 3
  MaxFails = 1
INVARIANTS
  TypeOK
  ListedIntact
  CachedSound
  DurableKept
PROPERTIES
  ImplementsLog

SPECIFICATION FairSpec
CONSTANTS
  p1 = p1
  p2 = p2
  None = None
  Procs <- MCProcs
  Readers <- MCReaders
  Recs <- MCRecs
  MaxGen = 2
  MaxFails = 1
PROPERTIES
  ReadsFinish

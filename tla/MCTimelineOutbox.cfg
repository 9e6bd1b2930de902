SPECIFICATION FairSpec
CONSTANTS
  r1 = r1
  r2 = r2
  Run = {r1}
  None = None
  MaxPending = 3
  ScanLimit = 2
  BatchLimit = 1
  LongAfter = 1
  MaxEvents <- MCEvents
  MaxSnapshots <- MCSnapshots
  MaxFaults = 2
INVARIANTS
  Faithful
  NothingDropped
  AckContinues
  PendingBounded
PROPERTY
  ReachedOrReported

SPECIFICATION FairSpec
CONSTANTS
  r1 = r1
  r2 = r2
  Run = {r1, r2}
  None = None
  MaxPending = 3
  ScanLimit = 2
  BatchLimit = 1
  LongAfter = 1
  MaxEvents <- MCSharedEvents
  MaxSnapshots <- MCSharedSnapshots
  MaxFaults = 1
INVARIANTS
  TypeOK
  Faithful
  NothingDropped
  AckContinues
  PendingBounded
PROPERTY
  ReachedOrReported

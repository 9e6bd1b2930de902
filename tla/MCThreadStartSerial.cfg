SPECIFICATION Spec
CONSTANTS
  Proc = {p1}
  Path = {d1, d2}
  NoProc = NoProc
  NoPath = NoPath
  NoRecord = NoRecord
  Absent = Absent
  MaxAttempts = 2
  Faults = {"crash", "io", "rewind", "sync"}
  MaxLog = 3
  MaxClock = 2
  MaxPresence = 1
SYMMETRY PathSymmetry
INVARIANTS FailedStartUndone ThreadStays CheckoutStays

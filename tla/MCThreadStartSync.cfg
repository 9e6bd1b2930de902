SPECIFICATION Spec
CONSTANTS
  Proc = {p1}
  Path = {d1}
  NoProc = NoProc
  NoPath = NoPath
  NoRecord = NoRecord
  Absent = Absent
  MaxAttempts = 2
  Faults = {"crash", "sync"}
  MaxLog = 2
  MaxClock = 2
  MaxPresence = 1
INVARIANT CreatedOnceAlways

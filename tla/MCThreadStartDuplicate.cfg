SPECIFICATION Spec
CONSTANTS
  Proc = {p1, p2}
  Path = {d1, d2}
  NoProc = NoProc
  NoPath = NoPath
  NoRecord = NoRecord
  Absent = Absent
  MaxAttempts = 2
  Faults = {"crash"}
  MaxLog = 2
  MaxClock = 2
  MaxPresence = 1
PROPERTY DuplicateIsNoOp

SPECIFICATION Spec
CONSTANTS
  Proc = {p1, p2}
  Path = {d1}
  NoProc = NoProc
  NoPath = NoPath
  NoRecord = NoRecord
  Absent = Absent
  MaxAttempts = 1
  Faults = {"crash", "sync"}
  MaxLog = 2
  MaxClock = 2
  MaxPresence = 1
SYMMETRY ProcSymmetry
INVARIANTS TypeOK ExactlyOnce CapturesKept CreatedOnce AllOrNothing

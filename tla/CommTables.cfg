SPECIFICATION Spec
CONSTANTS
  Proc = {p1, p2}
  NoProc = NoProc
  MaxConn = 2
  MaxSerial = 1
  Kinds = {"send", "command", "async"}
  Refusers = {p1, p2}
  Deferrers = {p1, p2}
  Closers = {p1, p2}
  Mortals = {p1, p2}
SYMMETRY Symmetry
INVARIANTS TablesAgree NoOrphanedSend OwnAnswer AtMostOnce StateIsOwn
CHECK_DEADLOCK FALSE

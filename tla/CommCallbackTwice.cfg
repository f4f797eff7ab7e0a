SPECIFICATION Spec
CONSTANTS
  Proc = {p1, p2}
  NoProc = NoProc
  MaxConn = 1
  MaxSerial = 1
  Kinds = {"command"}
  Refusers = {}
  Deferrers = {}
  Closers = {p1}
  Mortals = {}
INVARIANTS CallbackOnce
CHECK_DEADLOCK FALSE

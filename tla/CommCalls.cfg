SPECIFICATION CallsSpec
CONSTANTS
  Proc = {p1, p2}
  NoProc = NoProc
  MaxConn = 2
  MaxSerial = 2
  Kinds = {"send"}
  Refusers = {p1}
  Deferrers = {p1}
  Closers = {p1}
  Mortals = {p2}
PROPERTIES SendReturns CallSpec
CHECK_DEADLOCK FALSE

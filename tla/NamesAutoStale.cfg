SPECIFICATION AutoSpec
CONSTANTS
  Name = {n, m}
  None = None
  Me = Me
  Past = Past
  Rival = Rival
  MaxLoss = 2
  MaxCall = 3
  MaxNest = 2
INVARIANTS Pursued
CHECK_DEADLOCK FALSE

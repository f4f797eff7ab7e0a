SPECIFICATION FairSpec
CONSTANTS
  n1 = n1
  n2 = n2
  Client = {c1, c2}
  Name = {n1, n2}
  Pattern <- OnePattern
  None = None
  MaxSession = 3
  MaxTag = 1
  MaxCall = 2
  MaxDeath = 1
  Mortals = {c2}
INVARIANTS DatabaseAgrees BoundIsMine ViewCatchesUp
PROPERTIES CallReturns
CHECK_DEADLOCK FALSE

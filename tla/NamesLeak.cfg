SPECIFICATION Spec
CONSTANTS
  n1 = n1
  n2 = n2
  Client = {c1, c2}
  Name = {n1, n2}
  Pattern <- OnePattern
  None = None
  MaxSession = 2
  MaxTag = 1
  MaxCall = 3
  MaxDeath = 0
  Mortals = {c2}
INVARIANTS NamesOfTheLostGo
CHECK_DEADLOCK FALSE

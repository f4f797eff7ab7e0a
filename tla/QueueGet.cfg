SPECIFICATION StructuresSpec
CONSTANTS
  Item = {a, b}
  NoQueue = NoQueue
  MaxItems = 4
  MaxUnget = 3
  NoStack = NoStack
  MaxDepth = 4
  MaxSteps = 4
  Var = {1, 2}
  Unset = Unset
  NoString = NoString
  Malformed = Malformed
  Free = Free
  MaxLength = 2
  MaxArgs = 2
  Name = {"root", "a", "b", "c", "node1"}
  NoName = NoName
  NoValue = NoValue
  NoTree = NoTree
  Generated <- MCGenerated
  Serials <- MCSerials
  MaxNodes = 5
  Element = {x}
  MaxValue = 1
  MaxValued = 1
  MaxEdits = 1
  MaxCopy = 6
  Defects = {}
  WNode = {1,2,3,4,5}
  Shapes <- MCShapes
  Start = 1
  MaxOdd = 2
  MaxChanges = 1
PROPERTIES GetRemovesFront
CHECK_DEADLOCK FALSE

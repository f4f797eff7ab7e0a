SPECIFICATION CallbacksSpec
CONSTANTS
  NodeName = {"a", "b", "c", "n1"}
  ArcName = {"r", "s"}
  NoName = NoName
  NoWeight = NoWeight
  Malformed = Malformed
  Generated <- MCGenerated
  Command <- MCCommand
  ValueOf <- MCValueOf
  Serials <- MCSerials
  Queries <- MCQueries
  Key = {"k"}
  Item = {"i"}
  Weight = {1}
  MaxNode = 6
  MaxArc = 4
  MaxEdits = 1
  MaxCopies = 1
  MaxLive = 2
  WalkShapes <- MCWalkShapes
  WalkNodes = 4
  MaxOdd = 1
  MaxChanges = 1
  Defects = {}
  ent1 = ent1
  ent2 = ent2
  Entity = {ent1, ent2}
  HookName = {hk}
  Prefix = {pre1, pre2}
  AutoName <- MCAuto
  Unbound = Unbound
  Nobody = Nobody
  MaxHookDepth = 2
  MaxHookEdits = 3
INVARIANTS LinksAgree QueriesAsDocumented EditsAsDocumented CopiesAsDocumented
  WalksAsDocumented IndexAgrees
PROPERTIES TableSpec EveryoneIsCalled CallRules
CHECK_DEADLOCK FALSE

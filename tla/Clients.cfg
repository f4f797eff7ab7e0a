SPECIFICATION ClientsSpec
CONSTANTS
  Key = {k1}
  Value = {v1, v2}
  Hole = Hole
  Unknown = Unknown
  MaxReq = 3
  Tag = {t}
  EventName = {e, f}
  Command = {c, d}
  Watcher = {w}
  Pattern <- AllPatterns
  NoBinding = NoBinding
  MaxToken = 3
  MaxWatchDepth = 2
  Name = {n, m}
  None = None
  Me = Me
  Past = Past
  Rival = Rival
  MaxLoss = 2
  MaxCall = 2
  MaxNest = 2
INVARIANTS NoForgottenRequest AnsweredOnce AnswerWasKnown AnsweredInOrder AskedOnce
  TablesAgree WatchersKnow PursuedOtherwise
PROPERTIES GetsAnswered RestoredOtherwise
CHECK_DEADLOCK FALSE

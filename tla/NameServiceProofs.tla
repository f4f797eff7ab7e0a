------------------------- MODULE NameServiceProofs -------------------------
(***************************************************************************)
(* Theorems about NameService: the shape of its state, that the server's   *)
(* database agrees with itself, that what a client was told it has bound   *)
(* is bound to it, and that its receivers catch up with the database, for  *)
(* any number of clients, names, patterns, sessions and searches.          *)
(***************************************************************************)
EXTENDS NameService, TLAPS

USE PatternAssumption, NoneAssumption, BoundAssumption, MortalAssumption

---------------------------------------------------------------------------
(***************************************************************************)
(* Types.                                                                  *)
(***************************************************************************)

LEMMA OnlyType ==
  ASSUME NEW N, NEW f \in Entries
  PROVE  Only(N, f) \in Entries
BY DEF Only, Entries

\* Messages.
LEMMA AdditionType ==
  ASSUME NEW e \in Entries, NEW T \in SUBSET Tag
  PROVE  [Addition(e) EXCEPT !.tags = T] \in Message
BY DEF Addition, Message

LEMMA RemovalType ==
  ASSUME NEW N \in SUBSET Name, NEW T \in SUBSET Tag
  PROVE  [Removal(N) EXCEPT !.tags = T] \in Message
BY DEF Removal, Message

LEMMA AppendType ==
  ASSUME NEW S, NEW f \in [Session -> Seq(S)], NEW s \in Session, NEW m \in S
  PROVE  [f EXCEPT ![s] = Append(@, m)] \in [Session -> Seq(S)]
<1>1. Append(f[s], m) \in Seq(S)
  OBVIOUS
<1> QED BY <1>1

LEMMA DeliveredType ==
  ASSUME toClient \in [Session -> Seq(Message)], NEW D, NEW m,
         \A T \in SUBSET Tag : [m EXCEPT !.tags = T] \in Message
  PROVE  Delivered(D, m) \in [Session -> Seq(Message)]
<1> SUFFICES ASSUME NEW s \in Session
             PROVE  (IF near[s] /\ Tags(D, s) # {}
                       THEN Append(toClient[s], [m EXCEPT !.tags = Tags(D, s)])
                       ELSE toClient[s]) \in Seq(Message)
  BY DEF Delivered
<1>1. Tags(D, s) \in SUBSET Tag
  BY DEF Tags
<1>2. [m EXCEPT !.tags = Tags(D, s)] \in Message
  BY <1>1
<1>3. toClient[s] \in Seq(Message)
  OBVIOUS
<1> HIDE DEF Message
<1> QED BY <1>2, <1>3

LEMMA RepliedType ==
  ASSUME NEW w \in [Session -> Seq(Message)], NEW s \in Session, NEW ser \in Serial,
         NEW ok \in BOOLEAN
  PROVE  Replied(w, s, ser, ok) \in [Session -> Seq(Message)]
<1>1. [type |-> "reply", ok |-> ok, ser |-> ser] \in Message
  BY DEF Message
<1> QED BY <1>1, AppendType DEF Replied

\* What a client sends, over its session or a new one.
LEMMA SendType ==
  ASSUME TypeOK, NEW c \in Client, NEW s \in Session, NEW m \in Command, SendCommand(c, s, m)
  PROVE  /\ owner' \in [Session -> Client \cup {None}]
         /\ near' \in [Session -> BOOLEAN]
         /\ far' \in [Session -> {"none", "up", "lost", "gone"}]
         /\ toServer' \in [Session -> Seq(Command)]
         /\ toClient' \in [Session -> Seq(Message)]
         /\ sess' \in [Client -> Session \cup {0}]
<1> HIDE DEF Command
<1>1. toServer \in [Session -> Seq(Command)]
  BY DEF TypeOK
<1>2. CASE sess[c] # 0
  <2>1. /\ toServer' = IF far[s] = "up" THEN [toServer EXCEPT ![s] = Append(@, m)] ELSE toServer
        /\ owner' = owner /\ near' = near /\ far' = far /\ toClient' = toClient /\ sess' = sess
    BY <1>2 DEF SendCommand
  <2>2. [toServer EXCEPT ![s] = Append(@, m)] \in [Session -> Seq(Command)]
    BY <1>1, AppendType
  <2>3. toServer' \in [Session -> Seq(Command)]
    BY <1>1, <2>1, <2>2
  <2> QED BY <2>1, <2>3 DEF TypeOK
<1>3. CASE sess[c] = 0
  <2>1. /\ owner'    = [owner EXCEPT ![s] = c]
        /\ near'     = [near EXCEPT ![s] = TRUE]
        /\ far'      = [far EXCEPT ![s] = "up"]
        /\ sess'     = [sess EXCEPT ![c] = s]
        /\ toServer' = [toServer EXCEPT ![s] = <<m>>]
        /\ toClient' = toClient
    BY <1>3 DEF SendCommand
  <2>2. <<m>> \in Seq(Command)
    OBVIOUS
  <2> QED BY <2>1, <2>2 DEF TypeOK
<1> QED BY <1>2, <1>3

LEMMA DropType ==
  ASSUME TypeOK, NEW S, Drop(S)
  PROVE  /\ searchi' \in [Session -> [Tag -> Pattern \cup {None}]]
         /\ searchp' \in [Pattern -> SUBSET Searches]
BY DEF Drop, TypeOK

LEMMA ReleaseType ==
  ASSUME TypeOK, NEW s \in Session, NEW ser \in Serial \cup {0}, ReleaseId(s, ser)
  PROVE  /\ names' \in [Session -> SUBSET Name]
         /\ data' \in Entries
         /\ searchi' \in [Session -> [Tag -> Pattern \cup {None}]]
         /\ searchp' \in [Pattern -> SUBSET Searches]
         /\ toClient' \in [Session -> Seq(Message)]
         /\ threw' \in BOOLEAN
<1>1. Drop({s} \X Tag)
      /\ names' = [names EXCEPT ![s] = {}]
      /\ data' = [n \in Name |-> IF n \in names[s] THEN None ELSE data[n]]
  BY DEF ReleaseId
<1>2. names' \in [Session -> SUBSET Name] /\ data' \in Entries
  BY <1>1 DEF TypeOK, Entries
<1>3. PICK D : /\ toClient' = IF ser = 0 THEN Delivered(D, Removal(names[s]))
                     ELSE Replied(Delivered(D, Removal(names[s])), s, ser,
                                  D = {e \in Watching(names[s]) : e[1] # s})
               /\ threw' = (threw \/ D # {e \in Watching(names[s]) : e[1] # s})
  BY DEF ReleaseId
<1>4. Delivered(D, Removal(names[s])) \in [Session -> Seq(Message)]
  BY RemovalType, DeliveredType DEF TypeOK
<1>5. toClient' \in [Session -> Seq(Message)]
  BY <1>3, <1>4, RepliedType
<1>6. threw' \in BOOLEAN
  BY <1>3 DEF TypeOK
<1> QED BY <1>1, <1>2, <1>5, <1>6, DropType

\* What a client makes of a message.
LEMMA ReceiveType ==
  ASSUME TypeOK, NEW c \in Client, NEW m \in Message,
         \/ TakeReply(c, m) \/ Ignore
         \/ sess[c] \in Session /\ ReceiveChange(c, sess[c], m)
  PROVE  /\ call' \in [Client -> Call \cup {None}]
         /\ mine' \in [Session -> SUBSET Name]
         /\ receiver' \in [Tag -> Receiver \cup {None}]
         /\ toServer' \in [Session -> Seq(Command)]
<1> DEFINE s == sess[c]
<1>1. CASE Ignore
  BY <1>1 DEF Ignore, TypeOK
<1>2. CASE TakeReply(c, m)
  <2>1. call' \in [Client -> Call \cup {None}]
    BY <1>2 DEF TakeReply, TypeOK
  <2>2. mine' \in [Session -> SUBSET Name]
    <3>1. CASE m.ok /\ call[c].type = "bind"
      <4>1. call[c].name \in Name
        BY <1>2, <3>1 DEF TakeReply, Call, TypeOK
      <4>2. mine' = [mine EXCEPT ![s] = @ \cup {call[c].name}]
        BY <1>2, <3>1 DEF TakeReply
      <4>3. \A r \in Session : mine[r] \in SUBSET Name
        BY DEF TypeOK
      <4>4. mine' = [r \in Session |-> IF r = s THEN mine[s] \cup {call[c].name} ELSE mine[r]]
        BY <4>2 DEF TypeOK
      <4> QED BY <4>1, <4>3, <4>4
    <3>2. CASE ~(m.ok /\ call[c].type = "bind")
      BY <1>2, <3>2 DEF TakeReply, TypeOK
    <3> QED BY <3>1, <3>2
  <2> QED BY <1>2, <2>1, <2>2 DEF TakeReply, TypeOK
<1>3. CASE s \in Session /\ ReceiveChange(c, s, m)
  <2>1. toServer' \in [Session -> Seq(Command)]
    <3> DEFINE T == {t \in m.tags : receiver[t] # None}
               once == {t \in T : m.type = "add" /\ receiver[t].singleshot}
    <3>1. once \in SUBSET Tag
      BY <1>3 DEF ReceiveChange, Message
    <3>2. [type |-> "stop", tags |-> once] \in Command
      BY <3>1 DEF Command
    <3>3. toServer' = IF once = {} \/ far[s] # "up" THEN toServer
             ELSE [toServer EXCEPT ![s] = Append(@, [type |-> "stop", tags |-> once])]
      BY <1>3 DEF ReceiveChange
    <3>4. s \in Session
      BY <1>3
    <3> HIDE DEF once, s
    <3> QED BY <3>4, <3>2, <3>3, AppendType DEF TypeOK
  <2>2. receiver' \in [Tag -> Receiver \cup {None}]
    <3>1. ASSUME NEW t \in Tag, receiver[t] # None, m.type = "add"
          PROVE  Added(t, m.entries) \in Receiver
      <4>1. m.entries \in Entries
        BY <3>1 DEF Message
      <4>2. receiver[t] \in Receiver
        BY <3>1 DEF TypeOK
      <4> QED BY <4>1, <4>2 DEF Added, Receiver, Entries
    <3>2. ASSUME NEW t \in Tag, receiver[t] # None, NEW N
          PROVE  Removed(t, N) \in Receiver
      <4>1. receiver[t] \in Receiver
        BY <3>2 DEF TypeOK
      <4> QED BY <4>1 DEF Removed, Receiver, Entries
    <3>3. receiver' = [t \in Tag |->
             IF t \notin {u \in m.tags : receiver[u] # None} THEN receiver[t]
             ELSE IF m.type = "add" THEN Added(t, m.entries) ELSE Removed(t, m.names)]
      BY <1>3 DEF ReceiveChange
    <3>4. ASSUME NEW t \in Tag
          PROVE  (IF t \notin {u \in m.tags : receiver[u] # None} THEN receiver[t]
                  ELSE IF m.type = "add" THEN Added(t, m.entries) ELSE Removed(t, m.names))
                 \in Receiver \cup {None}
      BY <3>1, <3>2 DEF TypeOK
    <3> QED BY <3>3, <3>4
  <2> QED BY <1>3, <2>1, <2>2 DEF ReceiveChange, TypeOK, serverVars
<1> QED BY <1>1, <1>2, <1>3

LEMMA TypeInit == Init => TypeOK
<1> SUFFICES ASSUME Init PROVE TypeOK
  OBVIOUS
<1>1. /\ toServer \in [Session -> Seq(Command)]
      /\ toClient \in [Session -> Seq(Message)]
  BY DEF Init
<1>2. /\ data \in Entries
      /\ searchi \in [Session -> [Tag -> Pattern \cup {None}]]
      /\ searchp \in [Pattern -> SUBSET Searches]
  BY DEF Init, Nothing, Entries
<1>3. /\ owner \in [Session -> Client \cup {None}]
      /\ near \in [Session -> BOOLEAN]
      /\ far \in [Session -> {"none", "up", "lost", "gone"}]
      /\ names \in [Session -> SUBSET Name]
      /\ mine \in [Session -> SUBSET Name]
      /\ sess \in [Client -> Session \cup {0}]
      /\ search \in [Client -> SUBSET Tag]
  BY DEF Init
<1>4. /\ call \in [Client -> Call \cup {None}]
      /\ receiver \in [Tag -> Receiver \cup {None}]
  BY DEF Init
<1>5. deaths \in 0 .. MaxDeath /\ calls \in 0 .. MaxCall
  BY DEF Init
<1>6. late \in [Client -> Seq(Message)]
  BY DEF Init
<1> QED BY <1>1, <1>2, <1>3, <1>4, <1>5, <1>6 DEF Init, TypeOK

\* Every step keeps the shape of the state.
LEMMA TypeInductive ==
  ASSUME TypeOK, [Next]_vars
  PROVE  TypeOK'
<1>1. CASE UNCHANGED vars
  BY <1>1 DEF vars, sessionVars, serverVars, clientVars, histVars, TypeOK
<1>2. ASSUME NEW c \in Client, NEW n \in Name, Bind(c, n)
      PROVE  TypeOK'
  <2> DEFINE m == [type |-> "bind", name |-> n, ser |-> calls']
  <2>1. calls' \in Serial /\ m \in Call /\ m \in Command
    BY <1>2 DEF Bind, TypeOK, Serial, Call, Command
  <2>2. PICK s \in Session : SendCommand(c, s, m)
    BY <1>2 DEF Bind
  <2>3. /\ owner' \in [Session -> Client \cup {None}]
        /\ near' \in [Session -> BOOLEAN]
        /\ far' \in [Session -> {"none", "up", "lost", "gone"}]
        /\ toServer' \in [Session -> Seq(Command)]
        /\ toClient' \in [Session -> Seq(Message)]
        /\ sess' \in [Client -> Session \cup {0}]
    BY <2>1, <2>2, SendType
  <2>4. /\ call' \in [Client -> Call \cup {None}]
        /\ calls' \in 0 .. MaxCall
    BY <1>2, <2>1 DEF Bind, TypeOK
  <2> QED BY <1>2, <2>3, <2>4 DEF Bind, TypeOK, serverVars, histVars
<1>3. ASSUME NEW c \in Client, Release(c)
      PROVE  TypeOK'
  <2> DEFINE m == [type |-> "release", ser |-> calls']
  <2>1. calls' \in Serial /\ m \in Call /\ m \in Command
    BY <1>3 DEF Release, TypeOK, Serial, Call, Command
  <2>2. PICK s \in Session : SendCommand(c, s, m) /\ mine' = [mine EXCEPT ![s] = {}]
    BY <1>3 DEF Release
  <2>3. /\ owner' \in [Session -> Client \cup {None}]
        /\ near' \in [Session -> BOOLEAN]
        /\ far' \in [Session -> {"none", "up", "lost", "gone"}]
        /\ toServer' \in [Session -> Seq(Command)]
        /\ toClient' \in [Session -> Seq(Message)]
        /\ sess' \in [Client -> Session \cup {0}]
    BY <2>1, <2>2, SendType
  <2>4. /\ call' \in [Client -> Call \cup {None}]
        /\ calls' \in 0 .. MaxCall
        /\ mine' \in [Session -> SUBSET Name]
    BY <1>3, <2>1, <2>2 DEF Release, TypeOK
  <2> QED BY <1>3, <2>3, <2>4 DEF Release, TypeOK, serverVars
<1>4. ASSUME NEW c \in Client, NEW p \in Pattern, NEW once \in BOOLEAN, Search(c, p, once)
      PROVE  TypeOK'
  <2>1. PICK t \in Tag, s \in Session :
          /\ SendCommand(c, s, [type |-> "start", tag |-> t, pattern |-> p])
          /\ receiver' = [receiver EXCEPT ![t] =
               [client |-> c, pattern |-> p, async |-> once, singleshot |-> once,
                filled |-> FALSE, view |-> Nothing]]
          /\ search' = [search EXCEPT ![c] = @ \cup {t}]
          /\ used'   = used \cup {t}
    BY <1>4 DEF Search
  <2>2. [type |-> "start", tag |-> t, pattern |-> p] \in Command
    BY DEF Command
  <2>3. /\ owner' \in [Session -> Client \cup {None}]
        /\ near' \in [Session -> BOOLEAN]
        /\ far' \in [Session -> {"none", "up", "lost", "gone"}]
        /\ toServer' \in [Session -> Seq(Command)]
        /\ toClient' \in [Session -> Seq(Message)]
        /\ sess' \in [Client -> Session \cup {0}]
    BY <2>1, <2>2, SendType
  <2>4. Nothing \in Entries
    BY DEF Nothing, Entries
  <2>5. receiver' \in [Tag -> Receiver \cup {None}]
    BY <2>1, <2>4 DEF Receiver, TypeOK
  <2>6. search' \in [Client -> SUBSET Tag] /\ used' \subseteq Tag
    BY <2>1 DEF TypeOK
  <2> QED BY <1>4, <2>3, <2>5, <2>6 DEF Search, TypeOK, serverVars, histVars
<1>5. ASSUME NEW t \in Tag, Destroy(t)
      PROVE  TypeOK'
  <2> DEFINE m == [type |-> "stop", tags |-> {t}]
  <2>1. m \in Command
    BY DEF Command
  <2>2. receiver[t] \in Receiver /\ receiver[t].client \in Client
    BY <1>5 DEF Destroy, TypeOK, Receiver
  <2>3. /\ owner' \in [Session -> Client \cup {None}]
        /\ near' \in [Session -> BOOLEAN]
        /\ far' \in [Session -> {"none", "up", "lost", "gone"}]
        /\ toServer' \in [Session -> Seq(Command)]
        /\ toClient' \in [Session -> Seq(Message)]
        /\ sess' \in [Client -> Session \cup {0}]
    <3>1. CASE receiver[t].singleshot
      BY <1>5, <3>1 DEF Destroy, sessionVars, TypeOK
    <3>2. CASE ~receiver[t].singleshot
      BY <1>5, <2>1, <2>2, <3>2, SendType DEF Destroy
    <3> QED BY <3>1, <3>2
  <2>4. receiver' \in [Tag -> Receiver \cup {None}]
    BY <1>5 DEF Destroy, TypeOK
  <2> QED BY <1>5, <2>3, <2>4 DEF Destroy, TypeOK, serverVars, histVars
<1>6. ASSUME NEW c \in Client, ClientReceive(c)
      PROVE  TypeOK'
  <2> DEFINE s == sess[c]
             m == Head(toClient[s])
  <2>1. /\ s \in Session /\ m \in Message
        /\ toClient' = [toClient EXCEPT ![s] = Tail(@)]
        /\ UNCHANGED <<owner, near, far, serverVars, alive, sess, late, search, used, calls,
                       threw, crossed>>
    BY <1>6 DEF ClientReceive, TypeOK
  <2>2. toClient' \in [Session -> Seq(Message)]
    <3>1. toClient[s] \in Seq(Message) /\ toClient[s] # <<>>
      BY <1>6, <2>1 DEF ClientReceive, TypeOK
    <3>2. Tail(toClient[s]) \in Seq(Message)
      BY <3>1
    <3> QED BY <2>1, <3>2 DEF TypeOK
  <2>3. TakeReply(c, m) \/ Ignore \/ ReceiveChange(c, s, m)
    BY <1>6 DEF ClientReceive
  <2>4. /\ call' \in [Client -> Call \cup {None}]
        /\ mine' \in [Session -> SUBSET Name]
        /\ receiver' \in [Tag -> Receiver \cup {None}]
        /\ toServer' \in [Session -> Seq(Command)]
    BY <2>1, <2>3, ReceiveType
  <2> QED BY <2>1, <2>2, <2>4 DEF TypeOK, serverVars
<1>7. ASSUME NEW c \in Client, ClientLost(c)
      PROVE  TypeOK'
  <2> DEFINE s == sess[c]
  <2>1. s \in Session
    BY <1>7 DEF ClientLost, TypeOK
  <2>2. /\ near' \in [Session -> BOOLEAN]
        /\ toClient' \in [Session -> Seq(Message)]
        /\ sess' \in [Client -> Session \cup {0}]
        /\ call' \in [Client -> Call \cup {None}]
    BY <1>7, <2>1 DEF ClientLost, TypeOK
  <2> DEFINE dead == {t \in search[c] : receiver[t] = None}
  <2>3. PICK T \in SUBSET (search[c] \ dead) :
          /\ search' = [search EXCEPT ![c] = @ \ T]
          /\ receiver' = [t \in Tag |->
               IF t \in T /\ ~(receiver[t].filled /\ receiver[t].singleshot)
                 THEN [receiver[t] EXCEPT !.singleshot = TRUE] ELSE receiver[t]]
    BY <1>7 DEF ClientLost
  <2>4. search' \in [Client -> SUBSET Tag]
    BY <2>3 DEF TypeOK
  <2>5. receiver' \in [Tag -> Receiver \cup {None}]
    <3>1. ASSUME NEW r \in Receiver
          PROVE  [r EXCEPT !.singleshot = TRUE] \in Receiver
      BY DEF Receiver
    <3>2. ASSUME NEW t \in Tag
          PROVE  (IF t \in T /\ ~(receiver[t].filled /\ receiver[t].singleshot)
                    THEN [receiver[t] EXCEPT !.singleshot = TRUE] ELSE receiver[t])
                 \in Receiver \cup {None}
      <4>1. receiver[t] \in Receiver \cup {None} /\ (t \in T => receiver[t] \in Receiver)
        BY <2>3 DEF TypeOK
      <4> QED BY <3>1, <4>1
    <3> QED BY <2>3, <3>2
  <2>6. late' \in [Client -> Seq(Message)]
    <3>1. PICK k \in 0 .. Len(toClient[s]) :
            late' = [late EXCEPT ![c] = @ \o SubSeq(toClient[s], 1, k)]
      BY <1>7 DEF ClientLost
    <3>2. toClient[s] \in Seq(Message) /\ late[c] \in Seq(Message)
      BY <2>1 DEF TypeOK
    <3>3. SubSeq(toClient[s], 1, k) \in Seq(Message)
      BY <3>2
    <3>4. late[c] \o SubSeq(toClient[s], 1, k) \in Seq(Message)
      BY <3>2, <3>3
    <3> QED BY <3>1, <3>4 DEF TypeOK
  <2> QED BY <1>7, <2>2, <2>4, <2>5, <2>6 DEF ClientLost, TypeOK, serverVars, histVars
<1>8. ASSUME NEW c \in Client, ClientDie(c)
      PROVE  TypeOK'
  <2>1. toClient' \in [Session -> Seq(Message)]
    <3>1. \A s \in Session : (IF owner[s] = c THEN <<>> ELSE toClient[s]) \in Seq(Message)
      BY DEF TypeOK
    <3> QED BY <1>8, <3>1 DEF ClientDie
  <2>2. receiver' \in [Tag -> Receiver \cup {None}]
    BY <1>8 DEF ClientDie, TypeOK
  <2> QED BY <1>8, <2>1, <2>2 DEF ClientDie, TypeOK, serverVars, histVars
<1>9. ASSUME NEW s \in Session, Serve(s)
      PROVE  TypeOK'
  <2> DEFINE m == Head(toServer[s])
  <2>1. m \in Command
    BY <1>9 DEF Serve, TypeOK
  <2>2. toServer' \in [Session -> Seq(Command)]
    <3>1. Tail(toServer[s]) \in Seq(Command)
      BY <1>9 DEF Serve, TypeOK
    <3> QED BY <1>9, <3>1 DEF Serve, TypeOK
  <2>3. /\ names' \in [Session -> SUBSET Name]
        /\ data' \in Entries
        /\ searchi' \in [Session -> [Tag -> Pattern \cup {None}]]
        /\ searchp' \in [Pattern -> SUBSET Searches]
        /\ toClient' \in [Session -> Seq(Message)]
        /\ threw' \in BOOLEAN
    <3>1. CASE ServeBind(s, m)
      <4>1. m.name \in Name /\ m.ser \in Serial
        BY <2>1, <3>1 DEF ServeBind, Command, Call
      <4>2. CASE data[m.name] # None
        <5>1. /\ toClient' = Replied(toClient, s, m.ser, FALSE)
              /\ UNCHANGED <<names, data, searchi, searchp, threw>>
          BY <3>1, <4>2 DEF ServeBind
        <5>2. toClient' \in [Session -> Seq(Message)]
          BY <4>1, <5>1, RepliedType DEF TypeOK
        <5> QED BY <5>1, <5>2 DEF TypeOK
      <4>3. CASE data[m.name] = None
        <5>1. /\ names' = [names EXCEPT ![s] = @ \cup {m.name}]
              /\ data'  = [data EXCEPT ![m.name] = owner[s]]
              /\ UNCHANGED <<searchi, searchp>>
          BY <3>1, <4>3 DEF ServeBind
        <5>2. names' \in [Session -> SUBSET Name] /\ data' \in Entries
          BY <4>1, <5>1 DEF TypeOK, Entries
        <5>3. PICK D :
                 /\ toClient' = Replied(Delivered(D, Addition(Only({m.name}, data'))),
                                        s, m.ser, D = Watching({m.name}))
                 /\ threw' = (threw \/ D # Watching({m.name}))
          BY <3>1, <4>3 DEF ServeBind
        <5>4. Delivered(D, Addition(Only({m.name}, data'))) \in [Session -> Seq(Message)]
          BY <5>2, OnlyType, AdditionType, DeliveredType DEF TypeOK
        <5>5. toClient' \in [Session -> Seq(Message)]
          BY <4>1, <5>3, <5>4, RepliedType
        <5>6. threw' \in BOOLEAN
          BY <5>3 DEF TypeOK
        <5> QED BY <5>1, <5>2, <5>5, <5>6 DEF TypeOK
      <4> QED BY <4>2, <4>3
    <3>2. CASE ServeRelease(s, m)
      <4>1. m.ser \in Serial
        BY <2>1, <3>2 DEF ServeRelease, Command, Call
      <4> QED BY <3>2, <4>1, ReleaseType DEF ServeRelease
    <3>3. CASE ServeStart(s, m)
      <4>1. m.tag \in Tag /\ m.pattern \in Pattern
        BY <2>1, <3>3 DEF ServeStart, Command, Call
      <4>2. CASE searchi[s][m.tag] # None
        BY <3>3, <4>2 DEF ServeStart, TypeOK
      <4>3. CASE searchi[s][m.tag] = None
        <5>1. /\ searchi' = [searchi EXCEPT ![s][m.tag] = m.pattern]
              /\ searchp' = [searchp EXCEPT ![m.pattern] = @ \cup {<<s, m.tag>>}]
              /\ toClient' = IF far[s] = "up"
                               THEN Delivered({<<s, m.tag>>}, Addition(Only(m.pattern, data)))
                               ELSE toClient
              /\ UNCHANGED <<names, data, threw>>
          BY <3>3, <4>3 DEF ServeStart
        <5>2. searchi' \in [Session -> [Tag -> Pattern \cup {None}]]
          <6>1. [searchi[s] EXCEPT ![m.tag] = m.pattern] \in [Tag -> Pattern \cup {None}]
            BY <4>1 DEF TypeOK
          <6>2. searchi' = [searchi EXCEPT ![s] = [searchi[s] EXCEPT ![m.tag] = m.pattern]]
            BY <5>1
          <6> QED BY <6>1, <6>2 DEF TypeOK
        <5>3. searchp' \in [Pattern -> SUBSET Searches]
          <6>1. <<s, m.tag>> \in Searches
            BY <4>1 DEF Searches
          <6>2. searchp[m.pattern] \cup {<<s, m.tag>>} \in SUBSET Searches
            BY <4>1, <6>1 DEF TypeOK
          <6> QED BY <4>1, <5>1, <6>2 DEF TypeOK
        <5>4. Delivered({<<s, m.tag>>}, Addition(Only(m.pattern, data))) \in [Session -> Seq(Message)]
          BY OnlyType, AdditionType, DeliveredType DEF TypeOK
        <5> QED BY <5>1, <5>2, <5>3, <5>4 DEF TypeOK
      <4> QED BY <4>2, <4>3
    <3>4. CASE ServeStop(s, m)
      BY <3>4 DEF ServeStop, TypeOK
    <3> QED BY <1>9, <3>1, <3>2, <3>3, <3>4 DEF Serve
  <2> QED BY <1>9, <2>2, <2>3 DEF Serve, TypeOK, clientVars
<1>10. ASSUME NEW s \in Session, ServerLost(s)
       PROVE  TypeOK'
  <2>1. toServer' \in [Session -> Seq(Command)]
    <3>1. PICK k \in 0 .. Len(toServer[s]) : toServer' = [toServer EXCEPT ![s] = SubSeq(@, 1, k)]
      BY <1>10 DEF ServerLost
    <3>2. toServer[s] \in Seq(Command)
      BY DEF TypeOK
    <3>3. SubSeq(toServer[s], 1, k) \in Seq(Command)
      BY <3>2
    <3> QED BY <3>1, <3>3 DEF TypeOK
  <2>2. far' \in [Session -> {"none", "up", "lost", "gone"}]
    BY <1>10 DEF ServerLost, TypeOK
  <2>3. ReleaseId(s, 0)
    BY <1>10 DEF ServerLost
  <2> QED BY <1>10, <2>1, <2>2, <2>3, ReleaseType DEF ServerLost, TypeOK, clientVars
<1>11. CASE ServerDie
  <2>1. toServer' \in [Session -> Seq(Command)] /\ data' \in Entries
        /\ searchi' \in [Session -> [Tag -> Pattern \cup {None}]]
        /\ searchp' \in [Pattern -> SUBSET Searches]
    BY <1>11 DEF ServerDie, Nothing, Entries
  <2>2. deaths' \in 0 .. MaxDeath
    BY <1>11 DEF ServerDie, TypeOK
  <2> QED BY <1>11, <2>1, <2>2 DEF ServerDie, TypeOK, clientVars, histVars
<1>12. CASE ServerStart
  BY <1>12 DEF ServerStart, TypeOK, sessionVars, clientVars, histVars
<1>13. ASSUME NEW c \in Client, ClientReceiveLate(c)
       PROVE  TypeOK'
  <2> DEFINE m == Head(late[c])
  <2>1. /\ m \in Message
        /\ late' = [late EXCEPT ![c] = Tail(@)]
        /\ UNCHANGED <<owner, near, far, toClient, serverVars, alive, sess, search, used, calls,
                       threw>>
    BY <1>13 DEF ClientReceiveLate, TypeOK
  <2>2. late' \in [Client -> Seq(Message)]
    <3>1. late[c] \in Seq(Message) /\ late[c] # <<>>
      BY <1>13 DEF ClientReceiveLate, TypeOK
    <3>2. Tail(late[c]) \in Seq(Message)
      BY <3>1
    <3> QED BY <2>1, <3>2 DEF TypeOK
  <2>3. /\ TakeReply(c, m) \/ Ignore \/ (sess[c] # 0 /\ ReceiveChange(c, sess[c], m))
        /\ crossed' \in BOOLEAN
    BY <1>13 DEF ClientReceiveLate, TypeOK
  <2>4. sess[c] # 0 => sess[c] \in Session
    BY DEF TypeOK
  <2>5. /\ call' \in [Client -> Call \cup {None}]
        /\ mine' \in [Session -> SUBSET Name]
        /\ receiver' \in [Tag -> Receiver \cup {None}]
        /\ toServer' \in [Session -> Seq(Command)]
    BY <2>1, <2>3, <2>4, ReceiveType
  <2> QED BY <2>1, <2>2, <2>3, <2>5 DEF TypeOK, serverVars
<1> QED BY <1>1, <1>2, <1>3, <1>4, <1>5, <1>6, <1>7, <1>8, <1>9, <1>10, <1>11, <1>12, <1>13
       DEF Next

\* The state keeps its shape.
THEOREM NamesTypeCorrect == Spec => []TypeOK
BY TypeInit, TypeInductive, PTL DEF Spec

---------------------------------------------------------------------------
(***************************************************************************)
(* The database agrees with itself.  That a name's data is its session's   *)
(* client needs that the session has one, and keeps it: a session nobody   *)
(* opened has bound nothing.                                               *)
(***************************************************************************)
SessionsHaveOwners ==
  \A s \in Session : owner[s] = None => far[s] = "none" /\ names[s] = {}

DataInv == DatabaseAgrees /\ SessionsHaveOwners

\* Opening a session, or using one, gives it an owner for good.
LEMMA SendOwner ==
  ASSUME TypeOK, NEW c \in Client, NEW s \in Session, NEW m, SendCommand(c, s, m)
  PROVE  \A r \in Session : /\ owner'[r] = owner[r] \/ owner[r] = None
                            /\ owner'[r] = None => owner[r] = None /\ far'[r] = far[r]
<1>1. CASE sess[c] # 0
  BY <1>1 DEF SendCommand
<1>2. CASE sess[c] = 0
  <2>1. owner[s] = None /\ owner' = [owner EXCEPT ![s] = c] /\ far' = [far EXCEPT ![s] = "up"]
    BY <1>2 DEF SendCommand
  <2> QED BY <2>1 DEF TypeOK
<1> QED BY <1>1, <1>2

\* A step of a client that leaves the server alone.
LEMMA ServerUntouched ==
  ASSUME TypeOK, DataInv, UNCHANGED serverVars,
         \A r \in Session : /\ owner'[r] = owner[r] \/ owner[r] = None
                            /\ owner'[r] = None => owner[r] = None /\ far'[r] = far[r]
  PROVE  DataInv'
<1>1. names' = names /\ data' = data /\ searchi' = searchi /\ searchp' = searchp
  BY DEF serverVars
<1>2. \A s \in Session : names[s] # {} => owner'[s] = owner[s]
  BY DEF DataInv, SessionsHaveOwners
<1>3. DatabaseAgrees'
  BY <1>1, <1>2 DEF DataInv, DatabaseAgrees
<1>4. SessionsHaveOwners'
  BY <1>1 DEF DataInv, SessionsHaveOwners
<1> QED BY <1>3, <1>4 DEF DataInv

\* Search/Release keeps the two tables of searches alike.
LEMMA DropAgrees ==
  ASSUME TypeOK, NEW S, Drop(S),
         \A s \in Session, t \in Tag, p \in Pattern : searchi[s][t] = p <=> <<s, t>> \in searchp[p]
  PROVE  \A s \in Session, t \in Tag, p \in Pattern :
           searchi'[s][t] = p <=> <<s, t>> \in searchp'[p]
<1> SUFFICES ASSUME NEW s \in Session, NEW t \in Tag, NEW p \in Pattern
             PROVE  searchi'[s][t] = p <=> <<s, t>> \in searchp'[p]
  OBVIOUS
<1>1. /\ searchi'[s][t] = IF <<s, t>> \in S THEN None ELSE searchi[s][t]
      /\ searchp'[p] = searchp[p] \ S
  BY DEF Drop
<1>2. p # None
  OBVIOUS
<1> QED BY <1>1, <1>2

\* ReleaseId takes the names of one session, and no other has bound them.
LEMMA ReleaseAgrees ==
  ASSUME TypeOK, DatabaseAgrees, NEW s \in Session, NEW ser, ReleaseId(s, ser),
         owner' = owner
  PROVE  DatabaseAgrees' /\ \A r \in Session : names'[r] \subseteq names[r]
<1>1. /\ Drop({s} \X Tag)
      /\ names' = [names EXCEPT ![s] = {}]
      /\ data' = [n \in Name |-> IF n \in names[s] THEN None ELSE data[n]]
  BY DEF ReleaseId
<1>2. \A r \in Session : names'[r] = IF r = s THEN {} ELSE names[r]
  BY <1>1 DEF TypeOK
<1>3. ASSUME NEW n \in Name
      PROVE  /\ data'[n] # None <=> \E r \in Session : n \in names'[r]
             /\ \A r \in Session : n \in names'[r] => data'[n] = owner'[r]
             /\ \A q, r \in Session : n \in names'[q] \cap names'[r] => q = r
  <2>1. data'[n] = IF n \in names[s] THEN None ELSE data[n]
    BY <1>1
  <2> QED BY <1>2, <2>1 DEF DatabaseAgrees
<1>4. \A r \in Session, t \in Tag, p \in Pattern :
        searchi'[r][t] = p <=> <<r, t>> \in searchp'[p]
  BY <1>1, DropAgrees DEF DatabaseAgrees
<1> QED BY <1>2, <1>3, <1>4 DEF DatabaseAgrees

\* Bind enters a name nobody has, under a session that has an owner.
LEMMA BindAgrees ==
  ASSUME TypeOK, DataInv, NEW s \in Session, NEW m \in Command, ServeBind(s, m),
         far[s] # "none", owner' = owner, far' = far
  PROVE  DataInv'
<1>1. m.name \in Name /\ UNCHANGED <<searchi, searchp>>
  BY DEF ServeBind, Command, Call
<1>2. CASE data[m.name] # None
  BY <1>1, <1>2 DEF ServeBind, DataInv, DatabaseAgrees, SessionsHaveOwners
<1>3. CASE data[m.name] = None
  <2>1. /\ names' = [names EXCEPT ![s] = @ \cup {m.name}]
        /\ data'  = [data EXCEPT ![m.name] = owner[s]]
    BY <1>3 DEF ServeBind
  <2>2. owner[s] # None
    BY DEF DataInv, SessionsHaveOwners
  <2>3. /\ \A r \in Session : names'[r] = IF r = s THEN names[s] \cup {m.name} ELSE names[r]
        /\ \A n \in Name : data'[n] = IF n = m.name THEN owner[s] ELSE data[n]
    BY <1>1, <2>1 DEF TypeOK, Entries
  <2>4. \A r \in Session : m.name \notin names[r]
    BY <1>1, <1>3 DEF DataInv, DatabaseAgrees
  <2>5. ASSUME NEW n \in Name
        PROVE  /\ data'[n] # None <=> \E r \in Session : n \in names'[r]
               /\ \A r \in Session : n \in names'[r] => data'[n] = owner'[r]
               /\ \A q, r \in Session : n \in names'[q] \cap names'[r] => q = r
    <3>1. CASE n = m.name
      BY <2>2, <2>3, <2>4, <3>1
    <3>2. CASE n # m.name
      <4>1. data'[n] = data[n] /\ \A r \in Session : n \in names'[r] <=> n \in names[r]
        BY <2>3, <3>2
      <4> QED BY <4>1 DEF DataInv, DatabaseAgrees
    <3> QED BY <3>1, <3>2
  <2>6. DatabaseAgrees'
    BY <1>1, <2>5 DEF DataInv, DatabaseAgrees
  <2>7. SessionsHaveOwners'
    BY <2>2, <2>3 DEF DataInv, SessionsHaveOwners
  <2> QED BY <2>6, <2>7 DEF DataInv
<1> QED BY <1>2, <1>3

\* Search/Continuous/Start enters a search that neither table has.
LEMMA StartAgrees ==
  ASSUME TypeOK, DataInv, NEW s \in Session, NEW m \in Command, ServeStart(s, m),
         owner' = owner, far' = far
  PROVE  DataInv'
<1>1. m.tag \in Tag /\ m.pattern \in Pattern /\ names' = names /\ data' = data
  BY DEF ServeStart, Command, Call
<1>2. CASE searchi[s][m.tag] # None
  BY <1>1, <1>2 DEF ServeStart, DataInv, DatabaseAgrees, SessionsHaveOwners
<1>3. CASE searchi[s][m.tag] = None
  <2>1. /\ searchi' = [searchi EXCEPT ![s][m.tag] = m.pattern]
        /\ searchp' = [searchp EXCEPT ![m.pattern] = @ \cup {<<s, m.tag>>}]
    BY <1>3 DEF ServeStart
  <2>2. ASSUME NEW r \in Session, NEW t \in Tag, NEW p \in Pattern
        PROVE  searchi'[r][t] = p <=> <<r, t>> \in searchp'[p]
    <3>1. searchi'[r][t] = IF r = s /\ t = m.tag THEN m.pattern ELSE searchi[r][t]
      BY <1>1, <2>1 DEF TypeOK
    <3>2. searchp'[p] = IF p = m.pattern THEN searchp[p] \cup {<<s, m.tag>>} ELSE searchp[p]
      BY <1>1, <2>1 DEF TypeOK
    <3>3. searchi[r][t] = p <=> <<r, t>> \in searchp[p]
      BY DEF DataInv, DatabaseAgrees
    <3>4. p # None
      OBVIOUS
    <3> QED BY <1>3, <3>1, <3>2, <3>3, <3>4
  <2>3. DatabaseAgrees'
    BY <1>1, <2>2 DEF DataInv, DatabaseAgrees
  <2> QED BY <1>1, <2>3 DEF DataInv, SessionsHaveOwners
<1> QED BY <1>2, <1>3

LEMMA DataInit == Init => DataInv
BY DEF Init, Nothing, DataInv, DatabaseAgrees, SessionsHaveOwners

LEMMA DataInductive ==
  ASSUME TypeOK, DataInv, [Next]_vars
  PROVE  DataInv'
<1>1. ASSUME UNCHANGED <<owner, far>>, UNCHANGED serverVars
      PROVE  DataInv'
  BY <1>1, ServerUntouched
<1>2. CASE UNCHANGED vars
  BY <1>1, <1>2 DEF vars, sessionVars
<1>3. ASSUME NEW c \in Client, NEW n \in Name, Bind(c, n)
      PROVE  DataInv'
  BY <1>3, SendOwner, ServerUntouched DEF Bind
<1>4. ASSUME NEW c \in Client, Release(c)
      PROVE  DataInv'
  BY <1>4, SendOwner, ServerUntouched DEF Release
<1>5. ASSUME NEW c \in Client, NEW p \in Pattern, NEW once \in BOOLEAN, Search(c, p, once)
      PROVE  DataInv'
  BY <1>5, SendOwner, ServerUntouched DEF Search
<1>6. ASSUME NEW t \in Tag, Destroy(t)
      PROVE  DataInv'
  <2>1. receiver[t].client \in Client /\ UNCHANGED serverVars
    BY <1>6 DEF Destroy, TypeOK, Receiver
  <2>2. CASE receiver[t].singleshot
    BY <1>1, <1>6, <2>1, <2>2 DEF Destroy, sessionVars
  <2>3. CASE ~receiver[t].singleshot
    BY <1>6, <2>1, <2>3, SendOwner, ServerUntouched DEF Destroy
  <2> QED BY <2>2, <2>3
<1>7. ASSUME NEW c \in Client, ClientReceive(c)
      PROVE  DataInv'
  BY <1>1, <1>7 DEF ClientReceive
<1>8. ASSUME NEW c \in Client, ClientLost(c)
      PROVE  DataInv'
  BY <1>1, <1>8 DEF ClientLost
<1>9. ASSUME NEW c \in Client, ClientDie(c)
      PROVE  DataInv'
  BY <1>1, <1>9 DEF ClientDie
<1>10. ASSUME NEW s \in Session, Serve(s)
       PROVE  DataInv'
  <2> DEFINE m == Head(toServer[s])
  <2>1. m \in Command
    BY <1>10 DEF Serve, TypeOK
  <2>2. owner' = owner /\ far' = far /\ far[s] # "none"
    BY <1>10 DEF Serve
  <2>3. CASE ServeBind(s, m)
    BY <2>1, <2>2, <2>3, BindAgrees
  <2>4. CASE ServeRelease(s, m)
    BY <2>2, <2>4, ReleaseAgrees DEF ServeRelease, DataInv, SessionsHaveOwners
  <2>5. CASE ServeStart(s, m)
    BY <2>1, <2>2, <2>5, StartAgrees
  <2>6. CASE ServeStop(s, m)
    BY <2>2, <2>6 DEF ServeStop, DataInv, DatabaseAgrees, SessionsHaveOwners
  <2> QED BY <1>10, <2>3, <2>4, <2>5, <2>6 DEF Serve
<1>11. ASSUME NEW s \in Session, ServerLost(s)
       PROVE  DataInv'
  <2>1. ReleaseId(s, 0) /\ owner' = owner /\ far' = [far EXCEPT ![s] = "lost"] /\ far[s] = "up"
    BY <1>11 DEF ServerLost
  <2>2. DatabaseAgrees' /\ \A r \in Session : names'[r] \subseteq names[r]
    BY <2>1, ReleaseAgrees DEF DataInv
  <2>3. SessionsHaveOwners'
    BY <2>1, <2>2 DEF DataInv, SessionsHaveOwners, TypeOK
  <2> QED BY <2>2, <2>3 DEF DataInv
<1>12. CASE ServerDie
  BY <1>12 DEF ServerDie, Nothing, DataInv, DatabaseAgrees, SessionsHaveOwners
<1>13. CASE ServerStart
  BY <1>13 DEF ServerStart, sessionVars, DataInv, DatabaseAgrees, SessionsHaveOwners
<1>14. ASSUME NEW c \in Client, ClientReceiveLate(c)
       PROVE  DataInv'
  BY <1>1, <1>14 DEF ClientReceiveLate
<1> QED BY <1>2, <1>3, <1>4, <1>5, <1>6, <1>7, <1>8, <1>9, <1>10, <1>11, <1>12, <1>13, <1>14 DEF Next

\* The server's tables agree, for any interleaving of binds, releases, searches
\* and losses, and whatever notification throws.
THEOREM DatabaseAlwaysAgrees == Spec => []DatabaseAgrees
<1>1. DataInv => DatabaseAgrees
  BY DEF DataInv
<1> QED BY <1>1, TypeInit, TypeInductive, DataInit, DataInductive, PTL DEF Spec

---------------------------------------------------------------------------
(***************************************************************************)
(* What a client was told it has bound is bound.  A client waits for one   *)
(* command at a time.  As long as both ends of its session are open, the   *)
(* command it waits for is under way, or its reply is, and never both, nor *)
(* either twice; if the client does not wait, neither is.  So no reply of  *)
(* the session is taken for another.                                       *)
(***************************************************************************)

\* No message of w has a type in K; one has, and it is m.
NoneOf(w, K)   == \A i \in DOMAIN w : w[i].type \notin K
OneOf(w, K, m) == \E i \in DOMAIN w : w[i] = m /\ \A j \in DOMAIN w : j # i => w[j].type \notin K

Asked    == {"bind", "release"}
Answered == {"reply"}

\* The names M that the client knows it has bound are bound, of N, and nothing
\* else is, unless a notification threw: then bind answered with an error.
Told(M, N, t) == M \subseteq N /\ (t \/ M = N)

Answer(k, ok) == [type |-> "reply", ok |-> ok, ser |-> k.ser]

\* A session whose client waits for k (None: for nothing), with the commands a and
\* the messages b under way, whose client knows it has bound M, where N is bound.
Quiet(k, a, b, M, N, t) ==
  k = None /\ NoneOf(a, Asked) /\ NoneOf(b, Answered) /\ Told(M, N, t)
CommandUnderWay(k, a, b, M, N, t) ==
  /\ k # None /\ OneOf(a, Asked, k) /\ NoneOf(b, Answered)
  /\ IF k.type = "bind" THEN Told(M, N, t) ELSE M = {}
ReplyUnderWay(k, a, b, M, N, t) ==
  /\ k # None /\ NoneOf(a, Asked)
  /\ \E ok \in BOOLEAN :
       /\ OneOf(b, Answered, Answer(k, ok))
       /\ IF k.type = "bind" THEN Told(M \cup (IF ok THEN {k.name} ELSE {}), N, t)
                             ELSE M = {} /\ N = {}
Stands(k, a, b, M, N, t) ==
  Quiet(k, a, b, M, N, t) \/ CommandUnderWay(k, a, b, M, N, t) \/ ReplyUnderWay(k, a, b, M, N, t)

\* Both ends of the session are open.
Live(s) == near[s] /\ far[s] = "up"

Standing(s) ==
  Stands(call[owner[s]], toServer[s], toClient[s], mine[s], names[s], threw)

\* A client's session is its own and open at its end, and it has no other open
\* one; without a session it waits for nothing.  A session nobody has opened is
\* untouched.
SessionsFit ==
  /\ \A c \in Client : /\ sess[c] # 0 => owner[sess[c]] = c /\ near[sess[c]]
                       /\ sess[c] = 0 => call[c] = None
  /\ \A s \in Session : near[s] => owner[s] # None /\ sess[owner[s]] = s
  /\ \A s \in Session : owner[s] = None =>
       far[s] = "none" /\ ~near[s] /\ toClient[s] = <<>> /\ mine[s] = {}

CallsFit == ~crossed => \A s \in Session : Live(s) => Standing(s)

BoundInv == SessionsFit /\ CallsFit

\* Queues: what joins and leaves them.
LEMMA NoneAppend ==
  ASSUME NEW S, NEW w \in Seq(S), NEW K, NEW x \in S, NoneOf(w, K), x.type \notin K
  PROVE  NoneOf(Append(w, x), K)
<1> SUFFICES ASSUME NEW i \in DOMAIN Append(w, x)
             PROVE  Append(w, x)[i].type \notin K
  BY DEF NoneOf
<1>1. CASE i = Len(w) + 1
  BY <1>1
<1>2. CASE i # Len(w) + 1
  <2>1. i \in DOMAIN w /\ Append(w, x)[i] = w[i]
    BY <1>2
  <2> QED BY <2>1 DEF NoneOf
<1> QED BY <1>1, <1>2

LEMMA OneAppend ==
  ASSUME NEW S, NEW w \in Seq(S), NEW K, NEW m, NEW x \in S, OneOf(w, K, m), x.type \notin K
  PROVE  OneOf(Append(w, x), K, m)
<1>1. PICK i \in DOMAIN w : w[i] = m /\ \A j \in DOMAIN w : j # i => w[j].type \notin K
  BY DEF OneOf
<1>2. i \in DOMAIN Append(w, x) /\ Append(w, x)[i] = m
  BY <1>1
<1>3. ASSUME NEW j \in DOMAIN Append(w, x), j # i
      PROVE  Append(w, x)[j].type \notin K
  <2>1. CASE j = Len(w) + 1
    BY <2>1
  <2>2. CASE j # Len(w) + 1
    <3>1. j \in DOMAIN w /\ Append(w, x)[j] = w[j]
      BY <2>2
    <3> QED BY <1>1, <1>3, <3>1
  <2> QED BY <2>1, <2>2
<1> QED BY <1>2, <1>3 DEF OneOf

LEMMA OneJoins ==
  ASSUME NEW S, NEW w \in Seq(S), NEW K, NEW m \in S, NoneOf(w, K)
  PROVE  OneOf(Append(w, m), K, m)
<1>1. Len(w) + 1 \in DOMAIN Append(w, m) /\ Append(w, m)[Len(w) + 1] = m
  OBVIOUS
<1>2. ASSUME NEW j \in DOMAIN Append(w, m), j # Len(w) + 1
      PROVE  Append(w, m)[j].type \notin K
  <2>1. j \in DOMAIN w /\ Append(w, m)[j] = w[j]
    BY <1>2
  <2> QED BY <2>1 DEF NoneOf
<1> QED BY <1>1, <1>2 DEF OneOf

LEMMA TailEntries ==
  ASSUME NEW S, NEW w \in Seq(S), w # <<>>
  PROVE  /\ Head(w) = w[1] /\ 1 \in DOMAIN w
         /\ \A i \in DOMAIN Tail(w) : i + 1 \in DOMAIN w /\ i + 1 # 1 /\ Tail(w)[i] = w[i + 1]
         /\ \A i \in DOMAIN w : i # 1 => i - 1 \in DOMAIN Tail(w) /\ Tail(w)[i - 1] = w[i]
OBVIOUS

LEMMA NoneTail ==
  ASSUME NEW S, NEW w \in Seq(S), NEW K, w # <<>>, NoneOf(w, K)
  PROVE  NoneOf(Tail(w), K) /\ Head(w).type \notin K
BY TailEntries DEF NoneOf

LEMMA OneTail ==
  ASSUME NEW S, NEW w \in Seq(S), NEW K, NEW m, w # <<>>, OneOf(w, K, m), m.type \in K,
         Head(w).type \notin K
  PROVE  OneOf(Tail(w), K, m)
<1>1. PICK i \in DOMAIN w : w[i] = m /\ \A j \in DOMAIN w : j # i => w[j].type \notin K
  BY DEF OneOf
<1>2. i # 1
  BY <1>1, TailEntries
<1>3. i - 1 \in DOMAIN Tail(w) /\ Tail(w)[i - 1] = m
  BY <1>1, <1>2, TailEntries
<1>4. ASSUME NEW j \in DOMAIN Tail(w), j # i - 1
      PROVE  Tail(w)[j].type \notin K
  <2>1. j + 1 \in DOMAIN w /\ Tail(w)[j] = w[j + 1]
    BY TailEntries
  <2>2. j + 1 # i
    BY <1>4
  <2> QED BY <1>1, <2>1, <2>2
<1> QED BY <1>3, <1>4 DEF OneOf

LEMMA OneTaken ==
  ASSUME NEW S, NEW w \in Seq(S), NEW K, NEW m, w # <<>>, OneOf(w, K, m), Head(w).type \in K
  PROVE  Head(w) = m /\ NoneOf(Tail(w), K)
<1>1. PICK i \in DOMAIN w : w[i] = m /\ \A j \in DOMAIN w : j # i => w[j].type \notin K
  BY DEF OneOf
<1>2. i = 1
  BY <1>1, TailEntries
<1>3. ASSUME NEW j \in DOMAIN Tail(w)
      PROVE  Tail(w)[j].type \notin K
  BY <1>1, <1>2, TailEntries
<1> QED BY <1>1, <1>2, <1>3, TailEntries DEF NoneOf

---------------------------------------------------------------------------
\* What happens to a session, seen from it.

\* A change of receivers, or a command without a reply, is none of its business.
LEMMA StandsAppended ==
  ASSUME NEW k, NEW a \in Seq(Command), NEW b \in Seq(Message), NEW M, NEW N, NEW t,
         Stands(k, a, b, M, N, t)
  PROVE  /\ \A x \in Command : x.type \notin Asked => Stands(k, Append(a, x), b, M, N, t)
         /\ \A x \in Message : x.type \notin Answered => Stands(k, a, Append(b, x), M, N, t)
<1> HIDE DEF Command, Message
<1>1. ASSUME NEW x \in Command, x.type \notin Asked
      PROVE  Stands(k, Append(a, x), b, M, N, t)
  <2>1. /\ NoneOf(a, Asked) => NoneOf(Append(a, x), Asked)
        /\ OneOf(a, Asked, k) => OneOf(Append(a, x), Asked, k)
    BY <1>1, NoneAppend, OneAppend
  <2> QED BY <2>1 DEF Stands, Quiet, CommandUnderWay, ReplyUnderWay
<1>2. ASSUME NEW x \in Message, x.type \notin Answered
      PROVE  Stands(k, a, Append(b, x), M, N, t)
  <2>1. /\ NoneOf(b, Answered) => NoneOf(Append(b, x), Answered)
        /\ \A r : OneOf(b, Answered, r) => OneOf(Append(b, x), Answered, r)
    BY <1>2, NoneAppend, OneAppend
  <2> QED BY <2>1 DEF Stands, Quiet, CommandUnderWay, ReplyUnderWay
<1> QED BY <1>1, <1>2

\* Nor is its leaving the queue.
LEMMA StandsTail ==
  ASSUME NEW k \in Call \cup {None}, NEW a \in Seq(Command), NEW b \in Seq(Message),
         NEW M, NEW N, NEW t, Stands(k, a, b, M, N, t)
  PROVE  /\ a # <<>> /\ Head(a).type \notin Asked => Stands(k, Tail(a), b, M, N, t)
         /\ b # <<>> /\ Head(b).type \notin Answered => Stands(k, a, Tail(b), M, N, t)
<1>1. k # None => k.type \in Asked
  BY DEF Call, Asked
<1> HIDE DEF Command, Message, Call
<1>2. ASSUME a # <<>>, Head(a).type \notin Asked
      PROVE  Stands(k, Tail(a), b, M, N, t)
  <2>1. /\ NoneOf(a, Asked) => NoneOf(Tail(a), Asked)
        /\ k # None /\ OneOf(a, Asked, k) => OneOf(Tail(a), Asked, k)
    BY <1>1, <1>2, NoneTail, OneTail
  <2> QED BY <2>1 DEF Stands, Quiet, CommandUnderWay, ReplyUnderWay
<1>3. ASSUME b # <<>>, Head(b).type \notin Answered
      PROVE  Stands(k, a, Tail(b), M, N, t)
  <2>1. NoneOf(b, Answered) => NoneOf(Tail(b), Answered)
    BY <1>3, NoneTail
  <2>2. ASSUME NEW ok, OneOf(b, Answered, Answer(k, ok))
        PROVE  OneOf(Tail(b), Answered, Answer(k, ok))
    <3>1. Answer(k, ok).type \in Answered
      BY DEF Answer, Answered
    <3> QED BY <1>3, <2>2, <3>1, OneTail
  <2> QED BY <2>1, <2>2 DEF Stands, Quiet, CommandUnderWay, ReplyUnderWay
<1> QED BY <1>2, <1>3

\* The client calls: a new command is under way.
LEMMA StandsCalled ==
  ASSUME NEW k \in Call, NEW a \in Seq(Command), NEW b, NEW M, NEW N, NEW t,
         Stands(None, a, b, M, N, t)
  PROVE  /\ k.type = "bind" => Stands(k, Append(a, k), b, M, N, t)
         /\ k.type = "release" => Stands(k, Append(a, k), b, {}, N, t)
<1>1. k \in Command
  BY DEF Command
<1>2. k # None
  BY NoCallAssumption
<1> HIDE DEF Command
<1>3. NoneOf(a, Asked) /\ NoneOf(b, Answered) /\ Told(M, N, t)
  BY DEF Stands, Quiet, CommandUnderWay, ReplyUnderWay
<1>4. OneOf(Append(a, k), Asked, k)
  BY <1>1, <1>3, OneJoins
<1> QED BY <1>2, <1>3, <1>4 DEF Stands, CommandUnderWay

\* The server takes the command, and replies.
LEMMA StandsAnswered ==
  ASSUME NEW k \in Call \cup {None}, NEW a \in Seq(Command), NEW b \in Seq(Message),
         NEW M, NEW N, NEW t, Stands(k, a, b, M, N, t), a # <<>>,
         NEW m, m = Head(a), m.type \in Asked,
         NEW d \in Seq(Message), NoneOf(b, Answered) => NoneOf(d, Answered),
         NEW ok \in BOOLEAN, NEW e, e = Append(d, Answer(m, ok)),
         NEW G, G = (IF ok THEN {m.name} ELSE {})
  PROVE  /\ m.type = "bind" => Told(M, N, t) /\ \A L, u : 
              Told(M \cup G, L, u) => Stands(k, Tail(a), e, M, L, u)
         /\ m.type = "release" => \A u : Stands(k, Tail(a), e, M, {}, u)
<1>1. ~NoneOf(a, Asked)
  <2> HIDE DEF Command
  <2> QED BY NoneTail
<1>2. CommandUnderWay(k, a, b, M, N, t)
  BY <1>1 DEF Stands, Quiet, ReplyUnderWay
<1>3. k \in Call
  BY <1>2 DEF CommandUnderWay
<1>4. k = m /\ NoneOf(Tail(a), Asked)
  <2> HIDE DEF Command
  <2> QED BY <1>2, OneTaken DEF CommandUnderWay
<1>5. Answer(k, ok) \in Message
  BY <1>3 DEF Answer, Message, Call
<1>6. OneOf(e, Answered, Answer(k, ok))
  <2> HIDE DEF Message
  <2> QED BY <1>2, <1>4, <1>5, OneJoins DEF CommandUnderWay
<1>7. k # None
  BY <1>2 DEF CommandUnderWay
<1>8. ASSUME m.type = "bind"
      PROVE  Told(M, N, t)
  BY <1>2, <1>4, <1>8 DEF CommandUnderWay
<1>9. ASSUME m.type = "bind", NEW L, NEW u, Told(M \cup G, L, u)
      PROVE  Stands(k, Tail(a), e, M, L, u)
  BY <1>4, <1>6, <1>7, <1>9 DEF Stands, ReplyUnderWay
<1>10. ASSUME m.type = "release", NEW u
       PROVE  Stands(k, Tail(a), e, M, {}, u)
  <2>1. M = {}
    BY <1>2, <1>4, <1>10 DEF CommandUnderWay
  <2> QED BY <1>4, <1>6, <1>7, <1>10, <2>1 DEF Stands, ReplyUnderWay
<1> QED BY <1>8, <1>9, <1>10

\* The client takes the reply: it is the one it waits for.
LEMMA StandsReplied ==
  ASSUME NEW k \in Call \cup {None}, NEW a, NEW b \in Seq(Message),
         NEW M, NEW N, NEW t, Stands(k, a, b, M, N, t), b # <<>>, Head(b).type = "reply"
  PROVE  /\ k # None /\ Head(b).ser = k.ser
         /\ Stands(None, a, Tail(b),
                   IF Head(b).ok /\ k.type = "bind" THEN M \cup {k.name} ELSE M, N, t)
<1> HIDE DEF Message
<1>1. ~NoneOf(b, Answered)
  BY NoneTail DEF Answered
<1>2. ReplyUnderWay(k, a, b, M, N, t)
  BY <1>1 DEF Stands, Quiet, CommandUnderWay
<1>3. PICK ok \in BOOLEAN :
         /\ OneOf(b, Answered, Answer(k, ok))
         /\ IF k.type = "bind" THEN Told(M \cup (IF ok THEN {k.name} ELSE {}), N, t)
                               ELSE M = {} /\ N = {}
  BY <1>2 DEF ReplyUnderWay
<1>4. Head(b) = Answer(k, ok) /\ NoneOf(Tail(b), Answered)
  BY <1>3, OneTaken DEF Answered
<1>5. Head(b).ser = k.ser /\ Head(b).ok = ok
  BY <1>4 DEF Answer
<1>6. Told(IF Head(b).ok /\ k.type = "bind" THEN M \cup {k.name} ELSE M, N, t)
  <2>1. CASE k.type = "bind" /\ ok
    BY <1>3, <1>5, <2>1
  <2>2. CASE k.type = "bind" /\ ~ok
    <3>1. M \cup (IF ok THEN {k.name} ELSE {}) = M
      BY <2>2
    <3> QED BY <1>3, <1>5, <2>2, <3>1
  <2>3. CASE k.type # "bind"
    BY <1>3, <1>5, <2>3 DEF Told
  <2> QED BY <2>1, <2>2, <2>3
<1> QED BY <1>2, <1>4, <1>5, <1>6 DEF Stands, Quiet, ReplyUnderWay

\* A notification throws, somewhere.
LEMMA StandsThrew ==
  ASSUME NEW k, NEW a, NEW b, NEW M, NEW N, NEW t \in BOOLEAN, NEW u \in BOOLEAN,
         Stands(k, a, b, M, N, t), t => u
  PROVE  Stands(k, a, b, M, N, u)
<1>1. \A X : Told(X, N, t) => Told(X, N, u)
  BY DEF Told
<1> QED BY <1>1 DEF Stands, Quiet, CommandUnderWay, ReplyUnderWay

\* The messages to a client after a notification, which may or may not have
\* reached it.
Notified(b, d) == d = b \/ \E x \in Message : x.type \notin Answered /\ d = Append(b, x)

LEMMA NotifiedStays ==
  ASSUME NEW b \in Seq(Message), NEW d, Notified(b, d)
  PROVE  /\ d \in Seq(Message)
         /\ NoneOf(b, Answered) => NoneOf(d, Answered)
         /\ \A k, M, N, t : \A a \in Seq(Command) :
              Stands(k, a, b, M, N, t) => Stands(k, a, d, M, N, t)
<1> HIDE DEF Message, Command
<1>1. CASE d = b
  BY <1>1
<1>2. CASE d # b
  <2>1. PICK x \in Message : x.type \notin Answered /\ d = Append(b, x)
    BY <1>2 DEF Notified
  <2>2. d \in Seq(Message)
    BY <2>1
  <2>3. NoneOf(b, Answered) => NoneOf(d, Answered)
    BY <2>1, NoneAppend
  <2>4. ASSUME NEW k, NEW M, NEW N, NEW t, NEW a \in Seq(Command), Stands(k, a, b, M, N, t)
        PROVE  Stands(k, a, d, M, N, t)
    BY <2>1, <2>4, StandsAppended
  <2> QED BY <2>2, <2>3, <2>4
<1> QED BY <1>1, <1>2

LEMMA DeliveredNotifies ==
  ASSUME TypeOK, NEW D, NEW m, NEW r \in Session, m.type \notin Answered,
         \A T \in SUBSET Tag : /\ [m EXCEPT !.tags = T] \in Message
                               /\ [m EXCEPT !.tags = T].type = m.type
  PROVE  /\ Notified(toClient[r], Delivered(D, m)[r])
         /\ ~near[r] => Delivered(D, m)[r] = toClient[r]
<1>1. Delivered(D, m)[r] =
        IF near[r] /\ Tags(D, r) # {}
          THEN Append(toClient[r], [m EXCEPT !.tags = Tags(D, r)]) ELSE toClient[r]
  BY DEF Delivered
<1>2. Tags(D, r) \in SUBSET Tag
  BY DEF Tags
<1>3. [m EXCEPT !.tags = Tags(D, r)] \in Message /\ [m EXCEPT !.tags = Tags(D, r)].type = m.type
  BY <1>2
<1> HIDE DEF Message
<1> QED BY <1>1, <1>3 DEF Notified

\* The two kinds of notification.
LEMMA AdditionNotifies ==
  ASSUME TypeOK, NEW D, NEW e \in Entries, NEW r \in Session
  PROVE  /\ Notified(toClient[r], Delivered(D, Addition(e))[r])
         /\ ~near[r] => Delivered(D, Addition(e))[r] = toClient[r]
<1>1. /\ Addition(e).type \notin Answered
      /\ \A T \in SUBSET Tag : [Addition(e) EXCEPT !.tags = T].type = Addition(e).type
  BY DEF Addition, Answered
<1>2. \A T \in SUBSET Tag : [Addition(e) EXCEPT !.tags = T] \in Message
  BY AdditionType
<1> QED BY <1>1, <1>2, DeliveredNotifies

LEMMA RemovalNotifies ==
  ASSUME TypeOK, NEW D, NEW N \in SUBSET Name, NEW r \in Session
  PROVE  /\ Notified(toClient[r], Delivered(D, Removal(N))[r])
         /\ ~near[r] => Delivered(D, Removal(N))[r] = toClient[r]
<1>1. /\ Removal(N).type \notin Answered
      /\ \A T \in SUBSET Tag : [Removal(N) EXCEPT !.tags = T].type = Removal(N).type
  BY DEF Removal, Answered
<1>2. \A T \in SUBSET Tag : [Removal(N) EXCEPT !.tags = T] \in Message
  BY RemovalType
<1> QED BY <1>1, <1>2, DeliveredNotifies

\* A session another one's step leaves alone, but for a notification.
LEMMA Bystander ==
  ASSUME TypeOK, NEW r \in Session, Standing(r),
         call'[owner'[r]] = call[owner[r]], toServer'[r] = toServer[r],
         mine'[r] = mine[r], names'[r] = names[r], Notified(toClient[r], toClient'[r]),
         threw' \in BOOLEAN, threw => threw'
  PROVE  Standing(r)'
<1> DEFINE k == call[owner[r]]
<1>1. Stands(k, toServer[r], toClient[r], mine[r], names[r], threw)
  BY DEF Standing
<1>2. toServer[r] \in Seq(Command) /\ toClient[r] \in Seq(Message) /\ threw \in BOOLEAN
  BY DEF TypeOK
<1>3. Stands(k, toServer[r], toClient'[r], mine[r], names[r], threw)
  BY <1>1, <1>2, NotifiedStays
<1>4. Stands(k, toServer[r], toClient'[r], mine[r], names[r], threw')
  <2> HIDE DEF k
  <2> QED BY <1>2, <1>3, StandsThrew
<1> QED BY <1>4 DEF Standing

\* A client sends a command over its session, or a new one.
LEMMA SendFits ==
  ASSUME TypeOK, SessionsFit, NEW c \in Client, NEW s \in Session, NEW m, SendCommand(c, s, m),
         \A d \in Client : d # c => call'[d] = call[d],
         \A r \in Session : r # s => mine'[r] = mine[r]
  PROVE  SessionsFit'
<1>1. CASE sess[c] # 0
  <2>1. s = sess[c] /\ UNCHANGED <<owner, near, far, toClient, sess>>
    BY <1>1 DEF SendCommand
  <2>2. owner[s] = c
    BY <1>1, <2>1 DEF SessionsFit
  <2>3. c # None
    BY NoneAssumption
  <2>4. \A d \in Client : /\ sess'[d] # 0 => owner'[sess'[d]] = d /\ near'[sess'[d]]
                          /\ sess'[d] = 0 => call'[d] = None
    BY <1>1, <2>1 DEF SessionsFit
  <2>5. \A r \in Session : near'[r] => owner'[r] # None /\ sess'[owner'[r]] = r
    BY <2>1 DEF SessionsFit
  <2>6. \A r \in Session : owner'[r] = None =>
          far'[r] = "none" /\ ~near'[r] /\ toClient'[r] = <<>> /\ mine'[r] = {}
    BY <2>1, <2>2, <2>3 DEF SessionsFit
  <2> QED BY <2>4, <2>5, <2>6 DEF SessionsFit
<1>2. CASE sess[c] = 0
  <2>1. /\ owner[s] = None
        /\ owner' = [owner EXCEPT ![s] = c] /\ near' = [near EXCEPT ![s] = TRUE]
        /\ far' = [far EXCEPT ![s] = "up"] /\ sess' = [sess EXCEPT ![c] = s]
        /\ toClient' = toClient
    BY <1>2 DEF SendCommand
  <2>2. /\ \A r \in Session : /\ owner'[r] = IF r = s THEN c ELSE owner[r]
                              /\ near'[r] = IF r = s THEN TRUE ELSE near[r]
                              /\ far'[r] = IF r = s THEN "up" ELSE far[r]
        /\ \A d \in Client : sess'[d] = IF d = c THEN s ELSE sess[d]
    BY <2>1 DEF TypeOK
  <2>3. ~near[s] /\ c # None /\ s # 0
    BY <2>1, NoneAssumption DEF SessionsFit, Session
  <2>4. \A d \in Client : sess[d] # 0 => sess[d] \in Session
    BY DEF TypeOK
  <2>5. \A r \in Session : owner[r] \in Client \cup {None}
    BY DEF TypeOK
  <2>6. ASSUME NEW d \in Client
        PROVE  /\ sess'[d] # 0 => owner'[sess'[d]] = d /\ near'[sess'[d]]
               /\ sess'[d] = 0 => call'[d] = None
    <3>1. CASE d = c
      BY <2>2, <2>3, <3>1
    <3>2. CASE d # c
      <4>1. sess[d] # 0 => owner[sess[d]] = d /\ near[sess[d]] /\ sess[d] # s
        BY <2>3, <2>4 DEF SessionsFit
      <4>2. sess[d] = 0 => call[d] = None
        BY DEF SessionsFit
      <4>3. sess'[d] = sess[d] /\ call'[d] = call[d]
        BY <2>2, <3>2
      <4>4. CASE sess[d] # 0
        <5>1. PICK r \in Session : r = sess[d]
          BY <2>4, <4>4
        <5>2. owner'[r] = d /\ near'[r]
          BY <2>2, <4>1, <4>4, <5>1
        <5> QED BY <4>3, <4>4, <5>1, <5>2
      <4> QED BY <4>2, <4>3, <4>4
    <3> QED BY <3>1, <3>2
  <2>7. ASSUME NEW r \in Session, near'[r]
        PROVE  owner'[r] # None /\ sess'[owner'[r]] = r
    <3>1. CASE r = s
      BY <2>2, <2>3, <3>1
    <3>2. CASE r # s
      <4>1. near[r] /\ owner'[r] = owner[r]
        BY <2>2, <2>7, <3>2
      <4>2. owner[r] # None /\ sess[owner[r]] = r /\ owner[r] \in Client
        BY <2>5, <4>1 DEF SessionsFit
      <4>3. r # 0
        BY DEF Session
      <4>4. owner[r] # c
        BY <1>2, <4>2, <4>3
      <4> QED BY <2>2, <4>1, <4>2, <4>4
    <3> QED BY <3>1, <3>2
  <2>8. ASSUME NEW r \in Session, owner'[r] = None
        PROVE  far'[r] = "none" /\ ~near'[r] /\ toClient'[r] = <<>> /\ mine'[r] = {}
    <3>1. r # s /\ owner[r] = None
      BY <2>2, <2>3, <2>8
    <3> QED BY <2>1, <2>2, <3>1 DEF SessionsFit
  <2> QED BY <2>6, <2>7, <2>8 DEF SessionsFit
<1> QED BY <1>1, <1>2

\* The other sessions stay as they are, and the command joins those under way in
\* its own, which stands as the client does: if it is new, the client waits for
\* nothing, and nothing is bound.
LEMMA SendStands ==
  ASSUME TypeOK, DataInv, BoundInv, ~crossed, NEW c \in Client, NEW s \in Session,
         NEW m \in Command, SendCommand(c, s, m)
  PROVE  /\ \A r \in Session : r # s /\ Live(r)' =>
              /\ Standing(r) /\ owner[r] \in Client \ {c} /\ owner'[r] = owner[r]
              /\ toServer'[r] = toServer[r] /\ toClient'[r] = toClient[r]
         /\ Live(s)' => owner'[s] = c /\ \E a \in Seq(Command) :
              /\ toServer'[s] = Append(a, m)
              /\ Stands(call[c], a, toClient'[s], mine[s], names[s], threw)
<1>1. SessionsFit /\ \A r \in Session : Live(r) => Standing(r)
  BY DEF BoundInv, CallsFit
<1>2. \A r \in Session : owner[r] \in Client \cup {None}
  BY DEF TypeOK
<1>3. ASSUME NEW r \in Session, Live(r), sess[c] # r
      PROVE  Standing(r) /\ owner[r] \in Client \ {c}
  <2>1. owner[r] # None /\ sess[owner[r]] = r
    BY <1>1, <1>3 DEF SessionsFit, Live
  <2> QED BY <1>1, <1>2, <1>3, <2>1
<1>4. CASE sess[c] # 0
  <2>1. /\ s = sess[c] /\ UNCHANGED <<owner, near, far, toClient, sess>>
        /\ toServer' = IF far[s] = "up" THEN [toServer EXCEPT ![s] = Append(@, m)] ELSE toServer
    BY <1>4 DEF SendCommand
  <2>2. ASSUME NEW r \in Session, r # s, Live(r)'
        PROVE  /\ Standing(r) /\ owner[r] \in Client \ {c} /\ owner'[r] = owner[r]
               /\ toServer'[r] = toServer[r] /\ toClient'[r] = toClient[r]
    <3>1. Live(r) /\ owner'[r] = owner[r] /\ toClient'[r] = toClient[r]
      BY <2>1, <2>2 DEF Live
    <3>2. toServer'[r] = toServer[r]
      BY <2>1, <2>2 DEF TypeOK
    <3> QED BY <1>3, <2>1, <2>2, <3>1, <3>2
  <2>3. ASSUME Live(s)'
        PROVE  /\ owner'[s] = c
               /\ toServer'[s] = Append(toServer[s], m)
               /\ Stands(call[c], toServer[s], toClient'[s], mine[s], names[s], threw)
    <3>1. Live(s)
      BY <2>1, <2>3 DEF Live
    <3>2. owner[s] = c
      BY <1>1, <1>4, <2>1 DEF SessionsFit
    <3>3. toServer'[s] = Append(toServer[s], m)
      BY <2>1, <3>1 DEF Live, TypeOK
    <3>4. Stands(call[owner[s]], toServer[s], toClient[s], mine[s], names[s], threw)
      BY <1>1, <3>1 DEF Standing
    <3> QED BY <2>1, <3>2, <3>3, <3>4
  <2>4. toServer[s] \in Seq(Command)
    BY DEF TypeOK
  <2> QED BY <2>2, <2>3, <2>4
<1>5. CASE sess[c] = 0
  <2>1. /\ owner[s] = None
        /\ owner' = [owner EXCEPT ![s] = c] /\ near' = [near EXCEPT ![s] = TRUE]
        /\ far' = [far EXCEPT ![s] = "up"]
        /\ toServer' = [toServer EXCEPT ![s] = <<m>>] /\ toClient' = toClient
    BY <1>5 DEF SendCommand
  <2>2. ASSUME NEW r \in Session, r # s, Live(r)'
        PROVE  /\ Standing(r) /\ owner[r] \in Client \ {c} /\ owner'[r] = owner[r]
               /\ toServer'[r] = toServer[r] /\ toClient'[r] = toClient[r]
    <3>1. /\ near'[r] = near[r] /\ far'[r] = far[r] /\ owner'[r] = owner[r]
          /\ toServer'[r] = toServer[r] /\ toClient'[r] = toClient[r]
      BY <2>1, <2>2 DEF TypeOK
    <3>2. Live(r) /\ r # 0
      BY <2>2, <3>1 DEF Live, Session
    <3> QED BY <1>3, <1>5, <3>1, <3>2
  <2>3. /\ owner'[s] = c
        /\ toServer'[s] = <<m>> /\ toClient'[s] = <<>> /\ mine[s] = {} /\ names[s] = {}
        /\ call[c] = None
    <3>1. owner'[s] = c /\ toServer'[s] = <<m>>
      BY <2>1 DEF TypeOK
    <3>2. toClient'[s] = <<>> /\ mine[s] = {}
      BY <1>1, <2>1 DEF SessionsFit
    <3>3. names[s] = {}
      BY <2>1 DEF DataInv, SessionsHaveOwners
    <3>4. call[c] = None
      BY <1>1, <1>5 DEF SessionsFit
    <3> QED BY <3>1, <3>2, <3>3, <3>4
  <2>4. <<>> \in Seq(Command) /\ Append(<<>>, m) = <<m>>
    OBVIOUS
  <2>5. NoneOf(<<>>, Asked) /\ NoneOf(<<>>, Answered) /\ Told({}, {}, threw)
    BY DEF NoneOf, Told
  <2>6. Stands(None, <<>>, <<>>, {}, {}, threw)
    BY <2>5 DEF Stands, Quiet
  <2> QED BY <2>2, <2>3, <2>4, <2>6
<1> QED BY <1>4, <1>5

LEMMA BoundInit == Init => BoundInv
<1> SUFFICES ASSUME Init PROVE BoundInv
  OBVIOUS
<1>1. SessionsFit
  BY DEF Init, SessionsFit
<1>2. \A s \in Session : ~Live(s)
  BY DEF Init, Live
<1> QED BY <1>1, <1>2 DEF BoundInv, CallsFit

\* A command without a reply.
LEMMA NoReplyBound ==
  ASSUME TypeOK, DataInv, BoundInv, NEW c \in Client, NEW s \in Session, NEW m \in Command,
         SendCommand(c, s, m), m.type \notin Asked, UNCHANGED <<call, mine, names, threw, crossed>>
  PROVE  BoundInv'
<1> HIDE DEF Command
<1>1. SessionsFit'
  BY SendFits DEF BoundInv
<1>2. ASSUME ~crossed, NEW r \in Session, Live(r)'
      PROVE  Standing(r)'
  <2>1. CASE r = s
    <3>1. owner'[s] = c
      BY <1>2, <2>1, SendStands
    <3>2. PICK a \in Seq(Command) :
            /\ toServer'[s] = Append(a, m)
            /\ Stands(call[c], a, toClient'[s], mine[s], names[s], threw)
      BY <1>2, <2>1, SendStands
    <3>3. toClient'[s] \in Seq(Message)
      BY SendType
    <3>4. Stands(call[c], Append(a, m), toClient'[s], mine[s], names[s], threw)
      BY <3>2, <3>3, StandsAppended
    <3> QED BY <2>1, <3>1, <3>2, <3>4 DEF Standing
  <2>2. CASE r # s
    <3>1. /\ Standing(r) /\ owner'[r] = owner[r]
          /\ toServer'[r] = toServer[r] /\ toClient'[r] = toClient[r]
      BY <1>2, <2>2, SendStands
    <3> QED BY <3>1 DEF Standing
  <2> QED BY <2>1, <2>2
<1> QED BY <1>1, <1>2 DEF BoundInv, CallsFit

\* bind and release.
LEMMA CallBound ==
  ASSUME TypeOK, DataInv, BoundInv, NEW c \in Client, NEW s \in Session, NEW k \in Call,
         call[c] = None, SendCommand(c, s, k), call' = [call EXCEPT ![c] = k],
         \/ k.type = "bind" /\ mine' = mine
         \/ k.type = "release" /\ mine' = [mine EXCEPT ![s] = {}],
         UNCHANGED <<names, threw, crossed>>
  PROVE  BoundInv'
<1>1. k \in Command
  BY DEF Command
<1> HIDE DEF Command, Call
<1>2. /\ call'[c] = k /\ \A d \in Client : d # c => call'[d] = call[d]
      /\ mine'[s] = IF k.type = "bind" THEN mine[s] ELSE {}
      /\ \A r \in Session : r # s => mine'[r] = mine[r]
  BY DEF TypeOK
<1>3. SessionsFit'
  BY <1>2, SendFits DEF BoundInv
<1>4. ASSUME ~crossed, NEW r \in Session, Live(r)'
      PROVE  Standing(r)'
  <2>1. CASE r = s
    <3>1. owner'[s] = c
      BY <1>1, <1>4, <2>1, SendStands
    <3>2. PICK a \in Seq(Command) :
            /\ toServer'[s] = Append(a, k)
            /\ Stands(None, a, toClient'[s], mine[s], names[s], threw)
      BY <1>1, <1>4, <2>1, SendStands
    <3>3. Stands(k, Append(a, k), toClient'[s], mine'[s], names[s], threw)
      BY <1>2, <3>2, StandsCalled
    <3> QED BY <1>2, <2>1, <3>1, <3>2, <3>3 DEF Standing
  <2>2. CASE r # s
    <3>1. /\ Standing(r) /\ owner'[r] = owner[r] /\ owner[r] \in Client \ {c}
          /\ toServer'[r] = toServer[r] /\ toClient'[r] = toClient[r]
      BY <1>1, <1>4, <2>2, SendStands
    <3> QED BY <1>2, <2>2, <3>1 DEF Standing
  <2> QED BY <2>1, <2>2
<1> QED BY <1>3, <1>4 DEF BoundInv, CallsFit

\* What a step of the server for session s leaves of the others.
OthersNotified(s) ==
  /\ \A r \in Session : r # s => names'[r] = names[r]
  /\ \A r \in Session : r # s => /\ Notified(toClient[r], toClient'[r])
                                 /\ ~near[r] => toClient'[r] = toClient[r]
  /\ threw' \in BOOLEAN /\ (threw => threw')

LEMMA ServerBound ==
  ASSUME TypeOK, BoundInv, NEW s \in Session, far[s] # "none", OthersNotified(s),
         UNCHANGED <<owner, near, sess, call, mine, crossed>>,
         \A r \in Session : r # s => far'[r] = far[r] /\ toServer'[r] = toServer[r],
         ~crossed /\ Live(s)' => Standing(s)'
  PROVE  BoundInv'
<1>1. owner[s] # None
  BY DEF BoundInv, SessionsFit
<1>2. \A r \in Session : owner[r] = None => toClient'[r] = <<>> /\ far'[r] = "none"
  BY <1>1 DEF BoundInv, SessionsFit, OthersNotified
<1>3. SessionsFit'
  BY <1>2 DEF BoundInv, SessionsFit
<1>4. ASSUME ~crossed, NEW r \in Session, Live(r)', r # s
      PROVE  Standing(r)'
  <2>1. Live(r)
    BY <1>4 DEF Live
  <2>2. Standing(r)
    BY <1>4, <2>1 DEF BoundInv, CallsFit
  <2> QED BY <1>4, <2>2, Bystander DEF OthersNotified
<1> QED BY <1>3, <1>4 DEF BoundInv, CallsFit

\* The reply a command gets in a session both ends of which are open.
RepliedTo(s, m, ok) ==
  \E d : Notified(toClient[s], d) /\ toClient'[s] = Append(d, Answer(m, ok))

LEMMA ReleaseReplies ==
  ASSUME TypeOK, NEW s \in Session, NEW m, m.ser \in Serial \cup {0}, ReleaseId(s, m.ser)
  PROVE  /\ OthersNotified(s)
         /\ names'[s] = {}
         /\ Live(s) /\ m.ser # 0 => \E ok \in BOOLEAN : RepliedTo(s, m, ok)
<1> DEFINE N == names[s]
           T == {e \in Watching(N) : e[1] # s}
<1>1. PICK D : /\ toClient' = IF m.ser = 0 THEN Delivered(D, Removal(N))
                                ELSE Replied(Delivered(D, Removal(N)), s, m.ser, D = T)
               /\ threw' = (threw \/ D # T)
  BY DEF ReleaseId
<1>2. names' = [names EXCEPT ![s] = {}]
  BY DEF ReleaseId
<1>3. N \in SUBSET Name
  BY DEF TypeOK
<1> DEFINE w == Delivered(D, Removal(N))
<1>4. w \in [Session -> Seq(Message)]
  BY <1>3, RemovalType, DeliveredType DEF TypeOK
<1>5. \A r \in Session : Notified(toClient[r], w[r]) /\ (~near[r] => w[r] = toClient[r])
  BY <1>3, RemovalNotifies
<1>6. PICK ok \in BOOLEAN : ok = (D = T)
  OBVIOUS
<1>7. toClient' = IF m.ser = 0 THEN w ELSE Replied(w, s, m.ser, ok)
  <2>1. CASE D = T
    BY <1>1, <1>6, <2>1
  <2>2. CASE D # T
    BY <1>1, <1>6, <2>2
  <2> QED BY <2>1, <2>2
<1>8. \A r \in Session : r # s => toClient'[r] = w[r]
  <2> HIDE DEF w
  <2>1. CASE m.ser = 0
    BY <1>7, <2>1
  <2>2. CASE m.ser # 0
    <3>1. toClient' = Replied(w, s, m.ser, ok)
      BY <1>7, <2>2
    <3> QED BY <1>4, <3>1 DEF Replied
  <2> QED BY <2>1, <2>2
<1>9. threw' \in BOOLEAN /\ (threw => threw')
  BY <1>1 DEF TypeOK
<1>10. OthersNotified(s)
  <2>1. \A r \in Session : r # s => names'[r] = names[r]
    BY <1>2 DEF TypeOK
  <2> QED BY <1>5, <1>8, <1>9, <2>1 DEF OthersNotified
<1>11. names'[s] = {}
  BY <1>2 DEF TypeOK
<1>12. ASSUME Live(s), m.ser # 0
       PROVE  RepliedTo(s, m, ok)
  <2>1. toClient'[s] = Append(w[s], Answer(m, ok))
    <3>1. toClient' = Replied(w, s, m.ser, ok)
      BY <1>12, <1>7
    <3> HIDE DEF w
    <3> QED BY <1>4, <1>12, <3>1 DEF Replied, Live, Answer
  <2> QED BY <1>5, <2>1 DEF RepliedTo
<1> QED BY <1>10, <1>11, <1>12

LEMMA BindReplies ==
  ASSUME TypeOK, NEW s \in Session, NEW m \in Command, ServeBind(s, m)
  PROVE  /\ OthersNotified(s)
         /\ Live(s) => \E ok \in BOOLEAN :
              /\ RepliedTo(s, m, ok)
              /\ \/ ~ok /\ names'[s] = names[s] /\ threw' = threw
                 \/ names'[s] = names[s] \cup {m.name} /\ threw' = (threw \/ ~ok)
<1>1. m.name \in Name /\ m.type = "bind"
  BY DEF ServeBind, Command, Call
<1>2. toClient \in [Session -> Seq(Message)] /\ threw \in BOOLEAN
  BY DEF TypeOK
<1>3. CASE data[m.name] # None
  <2>1. toClient' = Replied(toClient, s, m.ser, FALSE) /\ names' = names /\ threw' = threw
    BY <1>3 DEF ServeBind
  <2>2. \A r \in Session : r # s => toClient'[r] = toClient[r]
    BY <1>2, <2>1 DEF Replied
  <2>3. OthersNotified(s)
    BY <1>2, <2>1, <2>2 DEF OthersNotified, Notified
  <2>4. Live(s) => toClient'[s] = Append(toClient[s], Answer(m, FALSE))
    BY <1>2, <2>1 DEF Replied, Live, Answer
  <2>5. Live(s) => RepliedTo(s, m, FALSE)
    BY <2>4 DEF RepliedTo, Notified
  <2> QED BY <2>1, <2>3, <2>5
<1>4. CASE data[m.name] = None
  <2> DEFINE T == Watching({m.name})
             e == Only({m.name}, data')
  <2>1. /\ names' = [names EXCEPT ![s] = @ \cup {m.name}]
        /\ data' = [data EXCEPT ![m.name] = owner[s]]
    BY <1>4 DEF ServeBind
  <2>2. PICK D : /\ toClient' = Replied(Delivered(D, Addition(e)), s, m.ser, D = T)
                 /\ threw' = (threw \/ D # T)
    BY <1>4 DEF ServeBind
  <2>3. e \in Entries
    <3>1. data' \in Entries
      BY <1>1, <2>1 DEF TypeOK, Entries
    <3> QED BY <3>1, OnlyType
  <2> DEFINE w == Delivered(D, Addition(e))
  <2> HIDE DEF e
  <2>4. w \in [Session -> Seq(Message)]
    BY <2>3, AdditionType, DeliveredType DEF TypeOK
  <2>5. \A r \in Session : Notified(toClient[r], w[r]) /\ (~near[r] => w[r] = toClient[r])
    BY <2>3, AdditionNotifies
  <2>6. PICK ok \in BOOLEAN : ok = (D = T)
    OBVIOUS
  <2>7. toClient' = Replied(w, s, m.ser, ok) /\ threw' = (threw \/ ~ok)
    <3>1. CASE D = T
      BY <2>2, <2>6, <3>1
    <3>2. CASE D # T
      BY <2>2, <2>6, <3>2
    <3> QED BY <3>1, <3>2
  <2>8. \A r \in Session : r # s => toClient'[r] = w[r]
    <3> HIDE DEF w
    <3> QED BY <2>4, <2>7 DEF Replied
  <2>9. \A r \in Session : names'[r] = IF r = s THEN names[s] \cup {m.name} ELSE names[r]
    BY <2>1 DEF TypeOK
  <2>10. OthersNotified(s)
    BY <1>2, <2>5, <2>7, <2>8, <2>9 DEF OthersNotified
  <2>11. Live(s) => toClient'[s] = Append(w[s], Answer(m, ok))
    <3> HIDE DEF w
    <3> QED BY <2>4, <2>7 DEF Replied, Live, Answer
  <2>12. Live(s) => RepliedTo(s, m, ok)
    BY <2>5, <2>11 DEF RepliedTo
  <2> QED BY <2>7, <2>9, <2>10, <2>12
<1> QED BY <1>3, <1>4

\* The server executes a command of session s.
LEMMA ServeBound ==
  ASSUME TypeOK, BoundInv, NEW s \in Session, Serve(s)
  PROVE  BoundInv'
<1> DEFINE m == Head(toServer[s])
           k == call[owner[s]]
<1>1. /\ toServer[s] # <<>> /\ toServer[s] \in Seq(Command) /\ m \in Command
      /\ toClient[s] \in Seq(Message) /\ threw \in BOOLEAN
      /\ toServer' = [toServer EXCEPT ![s] = Tail(@)]
      /\ UNCHANGED <<owner, near, far, sess, call, mine, crossed>>
      /\ far[s] # "none"
      /\ ServeBind(s, m) \/ ServeRelease(s, m) \/ ServeStart(s, m) \/ ServeStop(s, m)
  BY DEF Serve, TypeOK, clientVars
<1>2. /\ toServer'[s] = Tail(toServer[s])
      /\ \A r \in Session : r # s => toServer'[r] = toServer[r]
  BY <1>1 DEF TypeOK
<1>3. ASSUME ~crossed, Live(s)
      PROVE  /\ Stands(k, toServer[s], toClient[s], mine[s], names[s], threw)
             /\ k \in Call \cup {None}
  <2>1. Standing(s)
    BY <1>3 DEF BoundInv, CallsFit
  <2>2. owner[s] # None /\ owner[s] \in Client \cup {None}
    BY <1>3 DEF BoundInv, SessionsFit, Live, TypeOK
  <2>3. k \in Call \cup {None}
    BY <2>2 DEF TypeOK
  <2> QED BY <2>1, <2>3 DEF Standing
<1>4. Live(s)' => Live(s)
  BY <1>1 DEF Live
<1>5. ASSUME OthersNotified(s),
             ~crossed /\ Live(s) =>
               Stands(k, Tail(toServer[s]), toClient'[s], mine[s], names'[s], threw')
      PROVE  BoundInv'
  <2>1. ~crossed /\ Live(s)' => Standing(s)'
    BY <1>1, <1>2, <1>4, <1>5 DEF Standing
  <2>2. \A r \in Session : r # s => far'[r] = far[r] /\ toServer'[r] = toServer[r]
    BY <1>1, <1>2
  <2> QED BY <1>1, <1>5, <2>1, <2>2, ServerBound
<1>6. ASSUME ~crossed, Live(s), m.type \in Asked, NEW ok \in BOOLEAN, RepliedTo(s, m, ok)
      PROVE  /\ m.type = "bind" =>
                  /\ Told(mine[s], names[s], threw)
                  /\ \A L, u : Told(mine[s] \cup (IF ok THEN {m.name} ELSE {}), L, u) =>
                       Stands(k, Tail(toServer[s]), toClient'[s], mine[s], L, u)
             /\ m.type = "release" => \A u :
                  Stands(k, Tail(toServer[s]), toClient'[s], mine[s], {}, u)
  <2>1. PICK d : Notified(toClient[s], d) /\ toClient'[s] = Append(d, Answer(m, ok))
    BY <1>6 DEF RepliedTo
  <2>2. d \in Seq(Message) /\ (NoneOf(toClient[s], Answered) => NoneOf(d, Answered))
    BY <1>1, <2>1, NotifiedStays
  <2> DEFINE a == toServer[s]
             b == toClient[s]
             M == mine[s]
             N == names[s]
             e == toClient'[s]
             G == IF ok THEN {m.name} ELSE {}
  <2>3. /\ k \in Call \cup {None} /\ a \in Seq(Command) /\ b \in Seq(Message)
        /\ Stands(k, a, b, M, N, threw) /\ a # <<>>
    BY <1>1, <1>3, <1>6
  <2>4. /\ m = Head(a) /\ m.type \in Asked /\ d \in Seq(Message)
        /\ NoneOf(b, Answered) => NoneOf(d, Answered)
        /\ ok \in BOOLEAN /\ e = Append(d, Answer(m, ok)) /\ G = (IF ok THEN {m.name} ELSE {})
    BY <1>6, <2>1, <2>2
  <2> HIDE DEF k, m, a, b, M, N, e, G
  <2>5. /\ m.type = "bind" => Told(M, N, threw) /\ \A L, u :
             Told(M \cup G, L, u) => Stands(k, Tail(a), e, M, L, u)
        /\ m.type = "release" => \A u : Stands(k, Tail(a), e, M, {}, u)
    BY <2>3, <2>4, StandsAnswered
  <2> QED BY <2>5 DEF a, M, N, e, G
<1>7. CASE ServeBind(s, m)
  <2>1. m.type = "bind" /\ m.type \in Asked
    BY <1>7 DEF ServeBind, Asked
  <2>2. OthersNotified(s)
    BY <1>1, <1>7, BindReplies
  <2>3. ASSUME ~crossed, Live(s)
        PROVE  Stands(k, Tail(toServer[s]), toClient'[s], mine[s], names'[s], threw')
    <3>1. PICK ok \in BOOLEAN :
            /\ RepliedTo(s, m, ok)
            /\ \/ ~ok /\ names'[s] = names[s] /\ threw' = threw
               \/ names'[s] = names[s] \cup {m.name} /\ threw' = (threw \/ ~ok)
      BY <1>1, <1>7, <2>3, BindReplies
    <3>2. /\ Told(mine[s], names[s], threw)
          /\ \A L, u : Told(mine[s] \cup (IF ok THEN {m.name} ELSE {}), L, u) =>
               Stands(k, Tail(toServer[s]), toClient'[s], mine[s], L, u)
      BY <1>6, <2>1, <2>3, <3>1
    <3>3. Told(mine[s] \cup (IF ok THEN {m.name} ELSE {}), names'[s], threw')
      BY <3>1, <3>2 DEF Told
    <3> QED BY <3>2, <3>3
  <2> QED BY <1>5, <2>2, <2>3
<1>8. CASE ServeRelease(s, m)
  <2>1. m.type = "release" /\ m.type \in Asked /\ ReleaseId(s, m.ser)
    BY <1>8 DEF ServeRelease, Asked
  <2>2. m.ser \in Serial /\ m.ser # 0
    BY <1>1, <2>1 DEF Command, Call, Serial
  <2>3. OthersNotified(s) /\ names'[s] = {}
    BY <2>1, <2>2, ReleaseReplies
  <2>4. ASSUME ~crossed, Live(s)
        PROVE  Stands(k, Tail(toServer[s]), toClient'[s], mine[s], names'[s], threw')
    <3>1. PICK ok \in BOOLEAN : RepliedTo(s, m, ok)
      BY <2>1, <2>2, <2>4, ReleaseReplies
    <3> QED BY <1>6, <2>1, <2>3, <2>4, <3>1
  <2> QED BY <1>5, <2>3, <2>4
<1>9. ASSUME m.type \notin Asked, OthersNotified(s), Notified(toClient[s], toClient'[s]),
             names'[s] = names[s], threw' = threw
      PROVE  BoundInv'
  <2>1. ASSUME ~crossed, Live(s)
        PROVE  Stands(k, Tail(toServer[s]), toClient'[s], mine[s], names'[s], threw')
    <3>1. Stands(k, Tail(toServer[s]), toClient[s], mine[s], names[s], threw)
      <4> HIDE DEF k
      <4> QED BY <1>1, <1>3, <1>9, <2>1, StandsTail
    <3>2. Tail(toServer[s]) \in Seq(Command)
      <4> HIDE DEF Command
      <4> QED BY <1>1
    <3>3. Stands(k, Tail(toServer[s]), toClient'[s], mine[s], names[s], threw)
      <4> HIDE DEF k
      <4> QED BY <1>1, <1>9, <3>1, <3>2, NotifiedStays
    <3> QED BY <1>9, <3>3
  <2> QED BY <1>5, <1>9, <2>1
<1>10. CASE ServeStart(s, m)
  <2>1. m.type \notin Asked /\ names' = names /\ threw' = threw
    BY <1>10 DEF ServeStart, Asked
  <2>2. CASE toClient' = toClient
    BY <1>1, <1>9, <2>1, <2>2 DEF OthersNotified, Notified
  <2>3. CASE toClient' = Delivered({<<s, m.tag>>}, Addition(Only(m.pattern, data)))
    <3>1. Only(m.pattern, data) \in Entries
      BY OnlyType DEF TypeOK
    <3>2. \A r \in Session : /\ Notified(toClient[r], toClient'[r])
                             /\ ~near[r] => toClient'[r] = toClient[r]
      BY <2>3, <3>1, AdditionNotifies
    <3> QED BY <1>1, <1>9, <2>1, <3>2 DEF OthersNotified
  <2> QED BY <1>10, <2>2, <2>3 DEF ServeStart
<1>11. CASE ServeStop(s, m)
  <2>1. m.type \notin Asked /\ names' = names /\ threw' = threw /\ toClient' = toClient
    BY <1>11 DEF ServeStop, Asked
  <2> QED BY <1>1, <1>9, <2>1 DEF OthersNotified, Notified
<1> QED BY <1>1, <1>7, <1>8, <1>10, <1>11

\* The server sees the loss of session s, whose client closed it.
LEMMA ServerLostBound ==
  ASSUME TypeOK, BoundInv, NEW s \in Session, ServerLost(s)
  PROVE  BoundInv'
<1>1. /\ UNCHANGED <<owner, near, sess, call, mine, crossed>>
      /\ far[s] = "up" /\ ~near[s] /\ far' = [far EXCEPT ![s] = "lost"]
      /\ ReleaseId(s, 0)
  BY DEF ServerLost, clientVars
<1>2. \A r \in Session : r # s => far'[r] = far[r] /\ toServer'[r] = toServer[r]
  BY <1>1 DEF ServerLost, TypeOK
<1>3. OthersNotified(s)
  <2> DEFINE m == [ser |-> 0]
  <2>1. m.ser = 0
    OBVIOUS
  <2>2. m.ser \in Serial \cup {0} /\ ReleaseId(s, m.ser)
    BY <1>1, <2>1
  <2> HIDE DEF m
  <2> QED BY <2>2, ReleaseReplies
<1>4. ~Live(s)'
  BY <1>1 DEF Live
<1> QED BY <1>1, <1>2, <1>3, <1>4, ServerBound

\* A client executes a message.
LEMMA ReceiveBound ==
  ASSUME TypeOK, BoundInv, NEW c \in Client, ClientReceive(c)
  PROVE  BoundInv'
<1> DEFINE s == sess[c]
           m == Head(toClient[s])
<1>1. /\ s \in Session /\ toClient[s] # <<>>
      /\ toClient' = [toClient EXCEPT ![s] = Tail(@)]
      /\ UNCHANGED <<owner, near, far, names, sess, threw, crossed>>
      /\ \/ TakeReply(c, m) /\ Awaits(c, m.ser)
         \/ Ignore /\ m.type = "reply" /\ ~Awaits(c, m.ser)
         \/ ReceiveChange(c, s, m)
  BY DEF ClientReceive, TypeOK, serverVars
<1>2. toClient[s] \in Seq(Message) /\ toServer[s] \in Seq(Command) /\ m \in Message
  BY <1>1 DEF TypeOK
<1>3. owner[s] = c /\ s # 0
  BY <1>1 DEF BoundInv, SessionsFit, Session
<1>4. \A r \in Session : r # s => toClient'[r] = toClient[r]
  BY <1>1 DEF TypeOK
<1>5. toClient'[s] = Tail(toClient[s])
  BY <1>1 DEF TypeOK
<1>6. /\ \A d \in Client : d # c => call'[d] = call[d]
      /\ \A r \in Session : r # s => mine'[r] = mine[r] /\ toServer'[r] = toServer[r]
      /\ m.type # "reply" => call' = call /\ mine' = mine
  <2>1. CASE TakeReply(c, m)
    BY <2>1 DEF TakeReply, TypeOK
  <2>2. CASE Ignore /\ m.type = "reply"
    BY <2>2 DEF Ignore, TypeOK
  <2>3. CASE ReceiveChange(c, s, m)
    BY <2>3 DEF ReceiveChange, TypeOK
  <2> QED BY <1>1, <2>1, <2>2, <2>3
<1>7. SessionsFit'
  <2>1. \A d \in Client : sess[d] = 0 => call'[d] = None
    BY <1>3, <1>6 DEF BoundInv, SessionsFit
  <2>2. \A r \in Session : owner[r] = None => r # s
    BY <1>3
  <2> QED BY <1>1, <1>4, <1>6, <2>1, <2>2 DEF BoundInv, SessionsFit
<1>8. ASSUME ~crossed, NEW r \in Session, Live(r)', r # s
      PROVE  Standing(r)'
  <2>1. Live(r)
    BY <1>1, <1>8 DEF Live
  <2>2. Standing(r)
    BY <1>8, <2>1, <1>1 DEF BoundInv, CallsFit
  <2>3. owner[r] # None /\ owner[r] \in Client \cup {None} /\ sess[owner[r]] = r
    BY <2>1 DEF BoundInv, SessionsFit, Live, TypeOK
  <2>4. call'[owner[r]] = call[owner[r]]
    BY <1>6, <1>8, <2>3
  <2> QED BY <1>1, <1>4, <1>6, <1>8, <2>2, <2>4 DEF Standing
<1>9. ASSUME ~crossed, Live(s)
      PROVE  Stands(call'[c], toServer'[s], toClient'[s], mine'[s], names[s], threw)
  <2> DEFINE k == call[c]
  <2>1. k \in Call \cup {None} /\ Stands(k, toServer[s], toClient[s], mine[s], names[s], threw)
    <3>1. Standing(s)
      BY <1>1, <1>9 DEF BoundInv, CallsFit
    <3> QED BY <1>3, <3>1 DEF Standing, TypeOK
  <2>2. CASE m.type = "reply"
    <3>1. /\ k # None /\ m.ser = k.ser
          /\ Stands(None, toServer[s], Tail(toClient[s]),
                    IF m.ok /\ k.type = "bind" THEN mine[s] \cup {k.name} ELSE mine[s],
                    names[s], threw)
      <4> HIDE DEF k
      <4> QED BY <1>1, <1>2, <2>1, <2>2, StandsReplied
    <3>2. Awaits(c, m.ser)
      BY <3>1 DEF Awaits
    <3>3. TakeReply(c, m)
      BY <1>1, <2>2, <3>2 DEF ReceiveChange
    <3>4. call'[c] = None /\ toServer'[s] = toServer[s]
      BY <3>3 DEF TakeReply, TypeOK
    <3>5. mine'[s] = IF m.ok /\ k.type = "bind" THEN mine[s] \cup {k.name} ELSE mine[s]
      <4>1. CASE m.ok /\ k.type = "bind"
        BY <1>1, <3>3, <4>1 DEF TakeReply, TypeOK
      <4>2. CASE ~(m.ok /\ k.type = "bind")
        BY <1>1, <3>3, <4>2 DEF TakeReply, TypeOK
      <4> QED BY <4>1, <4>2
    <3> QED BY <1>5, <3>1, <3>4, <3>5
  <2>3. CASE m.type # "reply"
    <3>1. Stands(k, toServer[s], Tail(toClient[s]), mine[s], names[s], threw)
      <4> HIDE DEF k
      <4> QED BY <1>1, <1>2, <2>1, <2>3, StandsTail DEF Answered
    <3>2. ReceiveChange(c, s, m)
      BY <1>1, <2>3 DEF TakeReply
    <3>3. PICK once \in SUBSET Tag :
            toServer'[s] = toServer[s]
            \/ toServer'[s] = Append(toServer[s], [type |-> "stop", tags |-> once])
      <4> DEFINE o == {t \in {u \in m.tags : receiver[u] # None} :
                         m.type = "add" /\ receiver[t].singleshot}
      <4>1. o \in SUBSET Tag
        BY <1>2, <3>2 DEF ReceiveChange, Message
      <4>2. toServer' = IF o = {} \/ far[s] # "up" THEN toServer
               ELSE [toServer EXCEPT ![s] = Append(@, [type |-> "stop", tags |-> o])]
        BY <3>2 DEF ReceiveChange
      <4> HIDE DEF o, s
      <4>3. \/ toServer'[s] = toServer[s]
            \/ toServer'[s] = Append(toServer[s], [type |-> "stop", tags |-> o])
        BY <1>1, <4>2 DEF TypeOK
      <4> QED BY <4>1, <4>3
    <3>4. Stands(k, toServer'[s], Tail(toClient[s]), mine[s], names[s], threw)
      <4> DEFINE x == [type |-> "stop", tags |-> once]
      <4>1. x \in Command /\ x.type \notin Asked
        BY DEF Command, Asked
      <4>2. Tail(toClient[s]) \in Seq(Message)
        <5> HIDE DEF Message
        <5> QED BY <1>1, <1>2
      <4> HIDE DEF x, k
      <4>3. Stands(k, Append(toServer[s], x), Tail(toClient[s]), mine[s], names[s], threw)
        BY <1>2, <3>1, <4>1, <4>2, StandsAppended
      <4> QED BY <3>1, <3>3, <4>3 DEF x
    <3> QED BY <1>5, <1>6, <2>3, <3>4
  <2> QED BY <2>2, <2>3
<1>10. ~crossed /\ Live(s)' => Stands(call'[owner'[s]], toServer'[s], toClient'[s], mine'[s],
                                      names'[s], threw')
  <2>1. Live(s)' => Live(s)
    BY <1>1 DEF Live
  <2> QED BY <1>1, <1>3, <1>9, <2>1
<1>11. ASSUME ~crossed, NEW r \in Session, Live(r)', r = s
       PROVE  Standing(r)'
  BY <1>10, <1>11, <1>1 DEF Standing, Live
<1> QED BY <1>1, <1>7, <1>8, <1>11 DEF BoundInv, CallsFit

\* A client executes a message of a lost session.  If a command takes a reply
\* then, nothing is claimed any more.
LEMMA LateBound ==
  ASSUME TypeOK, BoundInv, NEW c \in Client, ClientReceiveLate(c)
  PROVE  BoundInv'
<1> DEFINE s == sess[c]
           m == Head(late[c])
<1>1. /\ UNCHANGED <<owner, near, far, toClient, names, sess, threw>>
      /\ late[c] # <<>> /\ late[c] \in Seq(Message) /\ m \in Message
      /\ \/ TakeReply(c, m) /\ crossed' = TRUE
         \/ Ignore /\ crossed' = crossed
         \/ s # 0 /\ ReceiveChange(c, s, m) /\ crossed' = crossed
  BY DEF ClientReceiveLate, TypeOK, serverVars
<1>2. s \in Session \cup {0}
  BY DEF TypeOK
<1>3. CASE TakeReply(c, m) /\ crossed' = TRUE
  <2>1. /\ \A d \in Client : d # c => call'[d] = call[d]
        /\ call'[c] = None
        /\ \A r \in Session : r # s => mine'[r] = mine[r]
    BY <1>3 DEF TakeReply, TypeOK
  <2>2. \A r \in Session : owner[r] = None => r # s
    <3>1. s # 0 => owner[s] = c
      BY DEF BoundInv, SessionsFit
    <3> QED BY <3>1 DEF Session
  <2>3. \A d \in Client : sess[d] = 0 => call'[d] = None
    BY <2>1 DEF BoundInv, SessionsFit
  <2>4. SessionsFit'
    BY <1>1, <2>1, <2>2, <2>3 DEF BoundInv, SessionsFit
  <2> QED BY <1>3, <2>4 DEF BoundInv, CallsFit
<1>4. CASE Ignore /\ crossed' = crossed
  <2>1. SessionsFit'
    BY <1>1, <1>4 DEF Ignore, BoundInv, SessionsFit
  <2>2. CallsFit'
    BY <1>1, <1>4 DEF Ignore, BoundInv, CallsFit, Live, Standing
  <2> QED BY <2>1, <2>2 DEF BoundInv
<1>5. CASE s # 0 /\ ReceiveChange(c, s, m) /\ crossed' = crossed
  <2>1. call' = call /\ mine' = mine /\ s \in Session
    BY <1>2, <1>5 DEF ReceiveChange
  <2>2. SessionsFit'
    BY <1>1, <2>1 DEF BoundInv, SessionsFit
  <2>3. PICK once \in SUBSET Tag :
          /\ \A r \in Session : r # s => toServer'[r] = toServer[r]
          /\ \/ toServer'[s] = toServer[s]
             \/ toServer'[s] = Append(toServer[s], [type |-> "stop", tags |-> once])
    <3> DEFINE o == {t \in {u \in m.tags : receiver[u] # None} :
                       m.type = "add" /\ receiver[t].singleshot}
    <3>1. o \in SUBSET Tag
      BY <1>1, <1>5 DEF ReceiveChange, Message
    <3>2. toServer' = IF o = {} \/ far[s] # "up" THEN toServer
             ELSE [toServer EXCEPT ![s] = Append(@, [type |-> "stop", tags |-> o])]
      BY <1>5 DEF ReceiveChange
    <3> HIDE DEF o, s
    <3>3. /\ \A r \in Session : r # s => toServer'[r] = toServer[r]
          /\ \/ toServer'[s] = toServer[s]
             \/ toServer'[s] = Append(toServer[s], [type |-> "stop", tags |-> o])
      BY <2>1, <3>2 DEF TypeOK
    <3> QED BY <3>1, <3>3
  <2> DEFINE x == [type |-> "stop", tags |-> once]
  <2>4. x \in Command /\ x.type \notin Asked
    BY DEF Command, Asked
  <2>5. toServer[s] \in Seq(Command) /\ toClient[s] \in Seq(Message)
    BY <2>1 DEF TypeOK
  <2>6. ASSUME ~crossed, NEW r \in Session, Live(r)'
        PROVE  Standing(r)'
    <3>1. Standing(r)
      BY <1>1, <2>6 DEF BoundInv, CallsFit, Live
    <3>2. CASE r # s \/ toServer'[r] = toServer[r]
      BY <1>1, <2>1, <2>3, <3>1, <3>2 DEF Standing
    <3>3. CASE r = s /\ toServer'[s] = Append(toServer[s], x)
      <4> DEFINE k == call[owner[s]]
      <4>1. Stands(k, toServer[s], toClient[s], mine[s], names[s], threw)
        BY <3>1, <3>3 DEF Standing
      <4> HIDE DEF k, x
      <4>2. Stands(k, Append(toServer[s], x), toClient[s], mine[s], names[s], threw)
        BY <2>4, <2>5, <4>1, StandsAppended
      <4> QED BY <1>1, <2>1, <3>3, <4>2 DEF Standing, k
    <3> QED BY <2>3, <3>2, <3>3
  <2>7. CallsFit'
    BY <1>5, <2>6 DEF CallsFit
  <2> QED BY <2>2, <2>7 DEF BoundInv
<1> QED BY <1>1, <1>3, <1>4, <1>5

\* A step that closes ends of sessions, and leaves the other ones alone.
LEMMA ClosedBound ==
  ASSUME TypeOK, BoundInv, SessionsFit',
         UNCHANGED <<owner, mine, threw>>, crossed' => crossed, crossed => crossed',
         \A r \in Session : Live(r)' =>
           /\ Live(r) /\ call'[owner[r]] = call[owner[r]] /\ toServer'[r] = toServer[r]
           /\ toClient'[r] = toClient[r] /\ names'[r] = names[r]
  PROVE  BoundInv'
<1> SUFFICES ASSUME ~crossed, NEW r \in Session, Live(r)'
             PROVE  Standing(r)'
  BY DEF BoundInv, CallsFit
<1>1. /\ Live(r) /\ call'[owner[r]] = call[owner[r]] /\ toServer'[r] = toServer[r]
      /\ toClient'[r] = toClient[r] /\ names'[r] = names[r]
  OBVIOUS
<1>2. Standing(r)
  BY <1>1 DEF BoundInv, CallsFit
<1> QED BY <1>1, <1>2 DEF Standing

LEMMA LostBound ==
  ASSUME TypeOK, BoundInv, NEW c \in Client, ClientLost(c)
  PROVE  BoundInv'
<1> DEFINE s == sess[c]
<1>1. /\ s \in Session /\ far[s] # "up"
      /\ near' = [near EXCEPT ![s] = FALSE] /\ toClient' = [toClient EXCEPT ![s] = <<>>]
      /\ sess' = [sess EXCEPT ![c] = 0] /\ call' = [call EXCEPT ![c] = None]
      /\ UNCHANGED <<owner, far, toServer, names, mine, threw, crossed>>
  BY DEF ClientLost, TypeOK, serverVars, histVars
<1>2. /\ \A r \in Session : /\ near'[r] <=> near[r] /\ r # s
                            /\ toClient'[r] = IF r = s THEN <<>> ELSE toClient[r]
      /\ \A d \in Client : /\ sess'[d] = IF d = c THEN 0 ELSE sess[d]
                           /\ call'[d] = IF d = c THEN None ELSE call[d]
  BY <1>1 DEF TypeOK
<1>3. owner[s] = c /\ s # 0
  BY <1>1 DEF BoundInv, SessionsFit, Session
<1>4. ASSUME NEW r \in Session, near'[r]
      PROVE  /\ near[r] /\ r # s /\ owner[r] # None /\ owner[r] \in Client /\ owner[r] # c
             /\ sess[owner[r]] = r
  <2>1. near[r] /\ r # s
    BY <1>2, <1>4
  <2>2. owner[r] # None /\ sess[owner[r]] = r /\ owner[r] \in Client \cup {None}
    BY <2>1 DEF BoundInv, SessionsFit, TypeOK
  <2> QED BY <2>1, <2>2
<1>5. SessionsFit'
  <2>1. ASSUME NEW d \in Client
        PROVE  /\ sess'[d] # 0 => owner'[sess'[d]] = d /\ near'[sess'[d]]
               /\ sess'[d] = 0 => call'[d] = None
    <3>1. CASE d = c
      BY <1>2, <3>1
    <3>2. CASE d # c
      <4>1. sess'[d] = sess[d] /\ call'[d] = call[d]
        BY <1>2, <3>2
      <4>2. /\ sess[d] # 0 => owner[sess[d]] = d /\ near[sess[d]] /\ sess[d] \in Session
            /\ sess[d] = 0 => call[d] = None
        BY DEF BoundInv, SessionsFit, TypeOK
      <4>3. sess[d] # 0 => sess[d] # s
        BY <1>3, <3>2, <4>2
      <4>4. sess[d] # 0 => near'[sess[d]]
        <5> HIDE DEF s
        <5> QED BY <1>2, <4>2, <4>3
      <4> QED BY <1>1, <4>1, <4>2, <4>4
    <3> QED BY <3>1, <3>2
  <2>2. ASSUME NEW r \in Session, near'[r]
        PROVE  owner'[r] # None /\ sess'[owner'[r]] = r
    BY <1>1, <1>2, <1>4, <2>2
  <2>3. ASSUME NEW r \in Session, owner'[r] = None
        PROVE  far'[r] = "none" /\ ~near'[r] /\ toClient'[r] = <<>> /\ mine'[r] = {}
    <3>1. far[r] = "none" /\ ~near[r] /\ toClient[r] = <<>> /\ mine[r] = {}
      BY <1>1, <2>3 DEF BoundInv, SessionsFit
    <3> QED BY <1>1, <1>2, <3>1
  <2> QED BY <2>1, <2>2, <2>3 DEF SessionsFit
<1>6. ASSUME NEW r \in Session, Live(r)'
      PROVE  /\ Live(r) /\ call'[owner[r]] = call[owner[r]] /\ toServer'[r] = toServer[r]
             /\ toClient'[r] = toClient[r] /\ names'[r] = names[r]
  <2>1. near'[r] /\ far'[r] = "up"
    BY <1>6 DEF Live
  <2> QED BY <1>1, <1>2, <1>4, <2>1 DEF Live
<1> QED BY <1>1, <1>5, <1>6, ClosedBound

LEMMA DieBound ==
  ASSUME TypeOK, BoundInv, NEW c \in Client, ClientDie(c)
  PROVE  BoundInv'
<1>1. /\ near' = [s \in Session |-> near[s] /\ owner[s] # c]
      /\ toClient' = [s \in Session |-> IF owner[s] = c THEN <<>> ELSE toClient[s]]
      /\ sess' = [sess EXCEPT ![c] = 0] /\ call' = [call EXCEPT ![c] = None]
      /\ UNCHANGED <<owner, far, toServer, names, mine, threw, crossed>>
  BY DEF ClientDie, serverVars, histVars
<1>2. /\ \A r \in Session : /\ near'[r] <=> near[r] /\ owner[r] # c
                            /\ toClient'[r] = IF owner[r] = c THEN <<>> ELSE toClient[r]
      /\ \A d \in Client : /\ sess'[d] = IF d = c THEN 0 ELSE sess[d]
                           /\ call'[d] = IF d = c THEN None ELSE call[d]
  BY <1>1 DEF TypeOK
<1>3. ASSUME NEW r \in Session, near'[r]
      PROVE  /\ near[r] /\ owner[r] # None /\ owner[r] \in Client /\ owner[r] # c
             /\ sess[owner[r]] = r
  <2>1. near[r] /\ owner[r] # c
    BY <1>2, <1>3
  <2>2. owner[r] # None /\ sess[owner[r]] = r /\ owner[r] \in Client \cup {None}
    BY <2>1 DEF BoundInv, SessionsFit, TypeOK
  <2> QED BY <2>1, <2>2
<1>4. SessionsFit'
  <2>1. ASSUME NEW d \in Client
        PROVE  /\ sess'[d] # 0 => owner'[sess'[d]] = d /\ near'[sess'[d]]
               /\ sess'[d] = 0 => call'[d] = None
    <3>1. CASE d = c
      BY <1>2, <3>1
    <3>2. CASE d # c
      <4>1. sess'[d] = sess[d] /\ call'[d] = call[d]
        BY <1>2, <3>2
      <4>2. /\ sess[d] # 0 => owner[sess[d]] = d /\ near[sess[d]] /\ sess[d] \in Session
            /\ sess[d] = 0 => call[d] = None
        BY DEF BoundInv, SessionsFit, TypeOK
      <4>3. sess[d] # 0 => near'[sess[d]]
        BY <1>2, <3>2, <4>2
      <4> QED BY <1>1, <4>1, <4>2, <4>3
    <3> QED BY <3>1, <3>2
  <2>2. ASSUME NEW r \in Session, near'[r]
        PROVE  owner'[r] # None /\ sess'[owner'[r]] = r
    BY <1>1, <1>2, <1>3, <2>2
  <2>3. ASSUME NEW r \in Session, owner'[r] = None
        PROVE  far'[r] = "none" /\ ~near'[r] /\ toClient'[r] = <<>> /\ mine'[r] = {}
    <3>1. far[r] = "none" /\ ~near[r] /\ toClient[r] = <<>> /\ mine[r] = {}
      BY <1>1, <2>3 DEF BoundInv, SessionsFit
    <3> QED BY <1>1, <1>2, <3>1
  <2> QED BY <2>1, <2>2, <2>3 DEF SessionsFit
<1>5. ASSUME NEW r \in Session, Live(r)'
      PROVE  /\ Live(r) /\ call'[owner[r]] = call[owner[r]] /\ toServer'[r] = toServer[r]
             /\ toClient'[r] = toClient[r] /\ names'[r] = names[r]
  <2>1. near'[r] /\ far'[r] = "up"
    BY <1>5 DEF Live
  <2> QED BY <1>1, <1>2, <1>3, <2>1 DEF Live
<1> QED BY <1>1, <1>4, <1>5, ClosedBound

LEMMA ServerDieBound ==
  ASSUME TypeOK, BoundInv, ServerDie
  PROVE  BoundInv'
<1>1. /\ far' = [s \in Session |-> IF far[s] = "none" THEN "none" ELSE "gone"]
      /\ UNCHANGED <<owner, near, toClient, sess, call, mine, threw, crossed>>
  BY DEF ServerDie, clientVars, histVars
<1>2. SessionsFit'
  BY <1>1 DEF BoundInv, SessionsFit
<1>3. \A r \in Session : ~Live(r)'
  BY <1>1 DEF Live
<1> QED BY <1>1, <1>2, <1>3, ClosedBound

\* Every step keeps the state of each session and its calls in one of the three
\* shapes.
LEMMA BoundInductive ==
  ASSUME TypeOK, DataInv, BoundInv, [Next]_vars
  PROVE  BoundInv'
<1>1. ASSUME UNCHANGED <<owner, near, far, toServer, toClient, sess, call, mine, names, threw,
                         crossed>>
      PROVE  BoundInv'
  BY <1>1 DEF BoundInv, SessionsFit, CallsFit, Live, Standing
<1>2. CASE UNCHANGED vars
  BY <1>1, <1>2 DEF vars, sessionVars, serverVars, clientVars, histVars
<1>3. ASSUME NEW c \in Client, NEW n \in Name, Bind(c, n)
      PROVE  BoundInv'
  <2> DEFINE k == [type |-> "bind", name |-> n, ser |-> calls']
  <2>1. k \in Call /\ k.type = "bind"
    BY <1>3 DEF Bind, TypeOK, Serial, Call
  <2>2. PICK s \in Session : SendCommand(c, s, k)
    BY <1>3 DEF Bind
  <2>3. /\ call[c] = None /\ call' = [call EXCEPT ![c] = k]
        /\ mine' = mine /\ names' = names /\ threw' = threw /\ crossed' = crossed
    BY <1>3 DEF Bind, serverVars, histVars
  <2> HIDE DEF k
  <2> QED BY <2>1, <2>2, <2>3, CallBound
<1>4. ASSUME NEW c \in Client, Release(c)
      PROVE  BoundInv'
  <2> DEFINE k == [type |-> "release", ser |-> calls']
  <2>1. k \in Call /\ k.type = "release"
    BY <1>4 DEF Release, TypeOK, Serial, Call
  <2>2. PICK s \in Session : SendCommand(c, s, k) /\ mine' = [mine EXCEPT ![s] = {}]
    BY <1>4 DEF Release
  <2>3. /\ call[c] = None /\ call' = [call EXCEPT ![c] = k]
        /\ names' = names /\ threw' = threw /\ crossed' = crossed
    BY <1>4 DEF Release, serverVars
  <2> HIDE DEF k
  <2> QED BY <2>1, <2>2, <2>3, CallBound
<1>5. ASSUME NEW c \in Client, NEW p \in Pattern, NEW once \in BOOLEAN, Search(c, p, once)
      PROVE  BoundInv'
  <2>1. PICK t \in Tag, s \in Session :
          SendCommand(c, s, [type |-> "start", tag |-> t, pattern |-> p])
    BY <1>5 DEF Search
  <2> DEFINE m == [type |-> "start", tag |-> t, pattern |-> p]
  <2>2. m \in Command /\ m.type \notin Asked /\ SendCommand(c, s, m)
    BY <2>1 DEF Command, Asked
  <2>3. UNCHANGED <<call, mine, names, threw, crossed>>
    BY <1>5 DEF Search, serverVars, histVars
  <2> HIDE DEF m
  <2> QED BY <2>2, <2>3, NoReplyBound
<1>6. ASSUME NEW t \in Tag, Destroy(t)
      PROVE  BoundInv'
  <2> DEFINE c == receiver[t].client
             m == [type |-> "stop", tags |-> {t}]
  <2>1. c \in Client /\ UNCHANGED <<call, mine, names, threw, crossed>>
    BY <1>6 DEF Destroy, TypeOK, Receiver, serverVars, histVars
  <2>2. CASE receiver[t].singleshot
    BY <1>1, <1>6, <2>1, <2>2 DEF Destroy, sessionVars
  <2>3. CASE ~receiver[t].singleshot
    <3>1. PICK s \in Session : SendCommand(c, s, m)
      BY <1>6, <2>3 DEF Destroy
    <3>2. m \in Command /\ m.type \notin Asked
      BY DEF Command, Asked
    <3> HIDE DEF m, c
    <3> QED BY <2>1, <3>1, <3>2, NoReplyBound
  <2> QED BY <2>2, <2>3
<1>7. CASE ServerStart
  BY <1>1, <1>7 DEF ServerStart, sessionVars, clientVars, histVars
<1> QED BY <1>2, <1>3, <1>4, <1>5, <1>6, <1>7, ReceiveBound, LateBound, LostBound, DieBound,
           ServeBound, ServerLostBound, ServerDieBound DEF Next

LEMMA BoundFollows ==
  ASSUME BoundInv
  PROVE  BoundIsMine
<1> SUFFICES ASSUME ~crossed, NEW s \in Session, far[s] = "up", near[s]
             PROVE  /\ mine[s] \subseteq names[s]
                    /\ ~threw /\ call[owner[s]] = None => mine[s] = names[s]
  BY DEF BoundIsMine, ToldIsBound
<1> DEFINE k == call[owner[s]]
<1>1. Stands(k, toServer[s], toClient[s], mine[s], names[s], threw)
  BY DEF BoundInv, CallsFit, Live, Standing
<1>2. \/ Told(mine[s], names[s], threw)
      \/ k # None /\ \E G : Told(mine[s] \cup G, names[s], threw)
      \/ k # None /\ mine[s] = {}
  BY <1>1 DEF Stands, Quiet, CommandUnderWay, ReplyUnderWay
<1> QED BY <1>2 DEF Told

\* What a client was told it has bound, the server has bound to it, for any number
\* of clients, names and sessions, and any order of calls, replies, losses and
\* deaths; and if nothing is under way and no notification threw, nothing else.
THEOREM BoundIsAlwaysMine == Spec => []BoundIsMine
BY TypeInit, TypeInductive, DataInit, DataInductive, BoundInit, BoundInductive, BoundFollows,
   PTL DEF Spec

---------------------------------------------------------------------------
(***************************************************************************)
(* A receiver catches up.  Its search lives in one session, which first    *)
(* carries the command that starts it, once, and then the changes; no      *)
(* other session, and no message of a lost one, says anything to it.  What *)
(* the messages under way will make of its view is what the server's data  *)
(* says.                                                                   *)
(***************************************************************************)

\* The message concerns receiver t; it says something of the name n to it, and
\* what.
Concerns(m, t)   == m.type \in {"add", "remove"} /\ t \in m.tags
Touches(m, t, n) == \/ m.type = "add" /\ t \in m.tags /\ m.entries[n] # None
                    \/ m.type = "remove" /\ t \in m.tags /\ n \in m.names
Effect(m, n)     == IF m.type = "add" THEN m.entries[n] ELSE None

\* Some message of q concerns t.
Tells(q, t) == \E i \in DOMAIN q : Concerns(q[i], t)

\* After the messages q, a receiver t that shows v for n shows w.
LastAt(q, t, n, i) ==
  i \in DOMAIN q /\ Touches(q[i], t, n) /\ \A j \in DOMAIN q : Touches(q[j], t, n) => j <= i
Says(q, t, n, v, w) ==
  \/ (\A i \in DOMAIN q : ~Touches(q[i], t, n)) /\ w = v
  \/ \E i \in DOMAIN q : LastAt(q, t, n, i) /\ w = Effect(q[i], n)

\* The commands q start no search for t, or one, for the pattern p.
Starts(m, t)      == m.type = "start" /\ m.tag = t
NoStart(q, t)     == \A i \in DOMAIN q : ~Starts(q[i], t)
OneStart(q, t, p) == \E i \in DOMAIN q :
                       /\ Starts(q[i], t) /\ q[i].pattern = p
                       /\ \A j \in DOMAIN q : j # i => ~Starts(q[j], t)

LEMMA AppendEntries ==
  ASSUME NEW S, NEW q \in Seq(S), NEW x \in S
  PROVE  /\ Len(q) + 1 \in DOMAIN Append(q, x) /\ Append(q, x)[Len(q) + 1] = x
         /\ Len(q) + 1 \notin DOMAIN q
         /\ \A i \in DOMAIN q : /\ i \in DOMAIN Append(q, x) /\ Append(q, x)[i] = q[i]
                                /\ i <= Len(q) + 1 /\ i \in Int
         /\ \A i \in DOMAIN Append(q, x) : i = Len(q) + 1 \/ i \in DOMAIN q
OBVIOUS

LEMMA TellsAppend ==
  ASSUME NEW q \in Seq(Message), NEW x \in Message, NEW t
  PROVE  Tells(Append(q, x), t) <=> Tells(q, t) \/ Concerns(x, t)
<1> HIDE DEF Message
<1> QED BY AppendEntries DEF Tells

LEMMA TellsTail ==
  ASSUME NEW q \in Seq(Message), NEW t, q # <<>>
  PROVE  /\ Tells(Tail(q), t) => Tells(q, t)
         /\ Concerns(Head(q), t) => Tells(q, t)
<1> HIDE DEF Message
<1> QED BY TailEntries DEF Tells

LEMMA TellsMore ==
  ASSUME NEW a \in Seq(Message), NEW q \in Seq(Message), NEW k \in 0 .. Len(q), NEW t,
         Tells(a \o SubSeq(q, 1, k), t)
  PROVE  Tells(a, t) \/ Tells(q, t)
<1> HIDE DEF Message
<1> DEFINE b == SubSeq(q, 1, k)
<1>1. b \in Seq(Message) /\ Len(b) = k /\ \A i \in 1 .. k : b[i] = q[i] /\ i \in DOMAIN q
  OBVIOUS
<1>2. PICK i \in DOMAIN (a \o b) : Concerns((a \o b)[i], t)
  BY DEF Tells
<1> HIDE DEF b
<1>3. CASE i \in DOMAIN a
  <2>1. (a \o b)[i] = a[i]
    BY <1>1, <1>3
  <2> QED BY <1>2, <1>3, <2>1 DEF Tells
<1>4. CASE i \notin DOMAIN a
  <2>1. i - Len(a) \in 1 .. k /\ (a \o b)[i] = b[i - Len(a)]
    BY <1>1, <1>4
  <2>2. i - Len(a) \in DOMAIN q /\ (a \o b)[i] = q[i - Len(a)]
    BY <1>1, <2>1
  <2> QED BY <1>2, <2>2 DEF Tells
<1> QED BY <1>3, <1>4

\* What a new message says.
LEMMA SaysAppend ==
  ASSUME NEW q \in Seq(Message), NEW x \in Message, NEW t, NEW n, NEW v, NEW w,
         Says(q, t, n, v, w)
  PROVE  /\ Touches(x, t, n) => Says(Append(q, x), t, n, v, Effect(x, n))
         /\ ~Touches(x, t, n) => Says(Append(q, x), t, n, v, w)
<1> HIDE DEF Message
<1> DEFINE a == Append(q, x)
           l == Len(q) + 1
<1>1. /\ l \in DOMAIN a /\ a[l] = x /\ l \notin DOMAIN q
      /\ \A i \in DOMAIN q : i \in DOMAIN a /\ a[i] = q[i] /\ i <= l
      /\ \A i \in DOMAIN a : i = l \/ i \in DOMAIN q
  BY AppendEntries
<1>2. l <= l
  OBVIOUS
<1> HIDE DEF a, l
<1>3. ASSUME Touches(x, t, n)
      PROVE  Says(a, t, n, v, Effect(x, n))
  <2>1. LastAt(a, t, n, l)
    BY <1>1, <1>2, <1>3 DEF LastAt
  <2> QED BY <1>1, <2>1 DEF Says
<1>4. ASSUME ~Touches(x, t, n)
      PROVE  Says(a, t, n, v, w)
  <2>1. CASE (\A i \in DOMAIN q : ~Touches(q[i], t, n)) /\ w = v
    <3>1. \A i \in DOMAIN a : ~Touches(a[i], t, n)
      BY <1>1, <1>4, <2>1
    <3> QED BY <2>1, <3>1 DEF Says
  <2>2. ASSUME NEW i \in DOMAIN q, LastAt(q, t, n, i), w = Effect(q[i], n)
        PROVE  Says(a, t, n, v, w)
    <3>1. \A j \in DOMAIN a : Touches(a[j], t, n) => j \in DOMAIN q /\ Touches(q[j], t, n)
      BY <1>1, <1>4
    <3>2. LastAt(a, t, n, i)
      BY <1>1, <2>2, <3>1 DEF LastAt
    <3> QED BY <1>1, <2>2, <3>2 DEF Says
  <2> QED BY <2>1, <2>2 DEF Says
<1> QED BY <1>3, <1>4 DEF a

\* What the rest says, when the first message has been executed.
LEMMA SaysTail ==
  ASSUME NEW q \in Seq(Message), NEW t, NEW n, NEW v, NEW w, Says(q, t, n, v, w), q # <<>>
  PROVE  /\ Touches(Head(q), t, n) => Says(Tail(q), t, n, Effect(Head(q), n), w)
         /\ ~Touches(Head(q), t, n) => Says(Tail(q), t, n, v, w)
<1> HIDE DEF Message
<1> DEFINE a == Tail(q)
<1>1. /\ Head(q) = q[1] /\ 1 \in DOMAIN q
      /\ \A i \in DOMAIN a : i + 1 \in DOMAIN q /\ a[i] = q[i + 1] /\ i \in 1 .. Len(q)
      /\ \A i \in DOMAIN q : i # 1 => i - 1 \in DOMAIN a /\ a[i - 1] = q[i]
      /\ \A i \in DOMAIN q : i \in 1 .. Len(q)
  BY TailEntries
<1>2. Len(q) \in Nat
  OBVIOUS
<1> HIDE DEF a
<1>3. CASE (\A i \in DOMAIN q : ~Touches(q[i], t, n)) /\ w = v
  <2>1. \A i \in DOMAIN a : ~Touches(a[i], t, n)
    BY <1>1, <1>3
  <2>2. Says(a, t, n, v, w) /\ ~Touches(Head(q), t, n)
    BY <1>1, <1>3, <2>1 DEF Says
  <2> QED BY <2>2 DEF a
<1>4. ASSUME NEW i \in DOMAIN q, LastAt(q, t, n, i), w = Effect(q[i], n)
      PROVE  /\ Touches(Head(q), t, n) => Says(a, t, n, Effect(Head(q), n), w)
             /\ ~Touches(Head(q), t, n) => Says(a, t, n, v, w)
  <2>1. CASE i = 1
    <3>1. ASSUME NEW j \in DOMAIN a
          PROVE  ~Touches(a[j], t, n)
      <4>1. j + 1 \in DOMAIN q /\ ~(j + 1 <= 1) /\ a[j] = q[j + 1]
        BY <1>1, <1>2
      <4> QED BY <1>4, <2>1, <4>1 DEF LastAt
    <3>2. Touches(Head(q), t, n) /\ w = Effect(Head(q), n)
      BY <1>1, <1>4, <2>1 DEF LastAt
    <3> QED BY <3>1, <3>2 DEF Says
  <2>2. CASE i # 1
    <3>1. i - 1 \in DOMAIN a /\ a[i - 1] = q[i]
      BY <1>1, <2>2
    <3>2. ASSUME NEW j \in DOMAIN a, Touches(a[j], t, n)
          PROVE  j <= i - 1
      <4>1. j + 1 \in DOMAIN q /\ a[j] = q[j + 1] /\ j \in 1 .. Len(q) /\ i \in 1 .. Len(q)
        BY <1>1
      <4>2. j + 1 <= i
        BY <1>4, <3>2, <4>1 DEF LastAt
      <4> QED BY <1>2, <4>1, <4>2
    <3>3. Touches(a[i - 1], t, n)
      BY <1>4, <3>1 DEF LastAt
    <3>4. LastAt(a, t, n, i - 1)
      BY <3>1, <3>2, <3>3 DEF LastAt
    <3>5. w = Effect(a[i - 1], n)
      BY <1>4, <3>1
    <3> QED BY <3>1, <3>4, <3>5 DEF Says
  <2> QED BY <2>1, <2>2
<1> QED BY <1>3, <1>4 DEF a, Says

\* That is what the receiver will show.
LEMMA SaysShown ==
  ASSUME NEW q, DOMAIN q \subseteq Int, NEW t, NEW n, NEW w,
         Says(q, t, n, receiver[t].view[n], w)
  PROVE  Shown(t, n, q) = w
<1> DEFINE I == {i \in DOMAIN q :
                   \/ q[i].type = "add" /\ t \in q[i].tags /\ q[i].entries[n] # None
                   \/ q[i].type = "remove" /\ t \in q[i].tags /\ n \in q[i].names}
<1>1. \A i \in DOMAIN q : i \in I <=> Touches(q[i], t, n)
  BY DEF Touches
<1>2. CASE (\A i \in DOMAIN q : ~Touches(q[i], t, n)) /\ w = receiver[t].view[n]
  <2>1. I = {}
    BY <1>1, <1>2
  <2> QED BY <1>2, <2>1 DEF Shown
<1>3. ASSUME NEW i \in DOMAIN q, LastAt(q, t, n, i), w = Effect(q[i], n)
      PROVE  Shown(t, n, q) = w
  <2>1. i \in I /\ \A j \in I : j <= i
    BY <1>1, <1>3 DEF LastAt
  <2>2. \A k \in I : (\A j \in I : j <= k) => k = i
    <3> SUFFICES ASSUME NEW k \in I, \A j \in I : j <= k PROVE k = i
      OBVIOUS
    <3>1. i \in Int /\ k \in Int
      OBVIOUS
    <3>2. i <= k /\ k <= i
      BY <2>1
    <3> QED BY <3>1, <3>2
  <2> DEFINE last == q[CHOOSE k \in I : \A j \in I : j <= k]
  <2>3. Shown(t, n, q) = IF I = {} THEN receiver[t].view[n]
                         ELSE IF last.type = "add" THEN last.entries[n] ELSE None
    BY DEF Shown
  <2> HIDE DEF I
  <2>4. (CHOOSE k \in I : \A j \in I : j <= k) = i
    BY <2>1, <2>2
  <2>5. I # {}
    BY <2>1
  <2> QED BY <1>3, <2>3, <2>4, <2>5 DEF Effect
<1> QED BY <1>2, <1>3 DEF Says

\* Commands that come and go.
LEMMA StartsAppend ==
  ASSUME NEW q \in Seq(Command), NEW x \in Command, NEW t
  PROVE  /\ ~Starts(x, t) /\ NoStart(q, t) => NoStart(Append(q, x), t)
         /\ ~Starts(x, t) => \A p : OneStart(q, t, p) => OneStart(Append(q, x), t, p)
         /\ Starts(x, t) /\ NoStart(q, t) => OneStart(Append(q, x), t, x.pattern)
<1> HIDE DEF Command
<1> DEFINE a == Append(q, x)
           l == Len(q) + 1
<1>1. /\ l \in DOMAIN a /\ a[l] = x /\ l \notin DOMAIN q
      /\ \A i \in DOMAIN q : i \in DOMAIN a /\ a[i] = q[i]
      /\ \A i \in DOMAIN a : i = l \/ i \in DOMAIN q
  BY AppendEntries
<1> HIDE DEF a, l
<1>2. ASSUME ~Starts(x, t), NoStart(q, t)
      PROVE  NoStart(a, t)
  BY <1>1, <1>2 DEF NoStart
<1>3. ASSUME ~Starts(x, t), NEW p, OneStart(q, t, p)
      PROVE  OneStart(a, t, p)
  <2>1. PICK i \in DOMAIN q : /\ Starts(q[i], t) /\ q[i].pattern = p
                              /\ \A j \in DOMAIN q : j # i => ~Starts(q[j], t)
    BY <1>3 DEF OneStart
  <2>2. \A j \in DOMAIN a : j # i => ~Starts(a[j], t)
    BY <1>1, <1>3, <2>1
  <2> QED BY <1>1, <2>1, <2>2 DEF OneStart
<1>4. ASSUME Starts(x, t), NoStart(q, t)
      PROVE  OneStart(a, t, x.pattern)
  <2>1. \A j \in DOMAIN a : j # l => ~Starts(a[j], t)
    BY <1>1, <1>4 DEF NoStart
  <2> QED BY <1>1, <1>4, <2>1 DEF OneStart
<1> QED BY <1>2, <1>3, <1>4 DEF a

LEMMA StartsTail ==
  ASSUME NEW q \in Seq(Command), NEW t, q # <<>>
  PROVE  /\ NoStart(q, t) => NoStart(Tail(q), t) /\ ~Starts(Head(q), t)
         /\ \A p : OneStart(q, t, p) /\ ~Starts(Head(q), t) => OneStart(Tail(q), t, p)
         /\ \A p : OneStart(q, t, p) /\ Starts(Head(q), t) =>
              Head(q).pattern = p /\ NoStart(Tail(q), t)
<1> HIDE DEF Command
<1> DEFINE a == Tail(q)
<1>1. /\ Head(q) = q[1] /\ 1 \in DOMAIN q
      /\ \A i \in DOMAIN a : i + 1 \in DOMAIN q /\ i + 1 # 1 /\ a[i] = q[i + 1]
      /\ \A i \in DOMAIN q : i # 1 => i - 1 \in DOMAIN a /\ a[i - 1] = q[i]
      /\ \A i \in DOMAIN q : i \in Int
      /\ \A i \in DOMAIN a : i \in Int
  BY TailEntries
<1> HIDE DEF a
<1>2. ASSUME NoStart(q, t)
      PROVE  NoStart(a, t) /\ ~Starts(Head(q), t)
  BY <1>1, <1>2 DEF NoStart
<1>3. ASSUME NEW p, OneStart(q, t, p)
      PROVE  /\ ~Starts(Head(q), t) => OneStart(a, t, p)
             /\ Starts(Head(q), t) => Head(q).pattern = p /\ NoStart(a, t)
  <2>1. PICK i \in DOMAIN q : /\ Starts(q[i], t) /\ q[i].pattern = p
                              /\ \A j \in DOMAIN q : j # i => ~Starts(q[j], t)
    BY <1>3 DEF OneStart
  <2>2. ASSUME ~Starts(Head(q), t)
        PROVE  OneStart(a, t, p)
    <3>1. i - 1 \in DOMAIN a /\ a[i - 1] = q[i]
      BY <1>1, <2>1, <2>2
    <3>2. ASSUME NEW j \in DOMAIN a, j # i - 1
          PROVE  ~Starts(a[j], t)
      <4>1. j + 1 \in DOMAIN q /\ a[j] = q[j + 1] /\ j \in Int /\ i \in Int
        BY <1>1
      <4>2. j + 1 # i
        BY <3>2, <4>1
      <4> QED BY <2>1, <4>1, <4>2
    <3> QED BY <2>1, <3>1, <3>2 DEF OneStart
  <2>3. ASSUME Starts(Head(q), t)
        PROVE  Head(q).pattern = p /\ NoStart(a, t)
    <3>1. i = 1
      BY <1>1, <2>1, <2>3
    <3>2. NoStart(a, t)
      BY <1>1, <2>1, <3>1 DEF NoStart
    <3> QED BY <1>1, <2>1, <3>1, <3>2
  <2> QED BY <2>2, <2>3
<1> QED BY <1>2, <1>3 DEF a

\* The search of t is in the session: its start is under way, or the server
\* follows it, or messages for it are under way.
StartAt(s, t) == ~NoStart(toServer[s], t)
Home(s, t)    == StartAt(s, t) \/ searchi[s][t] # None \/ Tells(toClient[s], t)

\* A search is in one session, of a client; a message read from a lost session
\* concerns none that is in an open one.
HomesFit ==
  /\ \A s \in Session, t \in Tag : Home(s, t) => t \in used /\ owner[s] # None
  /\ \A r, s \in Session, t \in Tag : Home(r, t) /\ Home(s, t) => r = s
  /\ \A c \in Client, t \in Tag : Tells(late[c], t) =>
       t \in used /\ \A s \in Session : near[s] => ~Home(s, t)
  /\ \A t \in Tag : t \notin used => receiver[t] = None

\* The server has not heard of the search, nor the receiver of the server.
Fresh(s, t, p) ==
  /\ searchi[s][t] = None /\ ~Tells(toClient[s], t)
  /\ receiver[t] # None => receiver[t].view = Nothing /\ receiver[t].pattern = p

\* A start under way is the only one, and for the receiver's pattern.
Started(s, t) ==
  near[s] =>
    /\ NoStart(toServer[s], t) \/ \E p : OneStart(toServer[s], t, p) /\ Fresh(s, t, p)
    /\ searchi[s][t] # None /\ receiver[t] # None => searchi[s][t] = receiver[t].pattern

\* With what is under way the receiver shows the data.
Caught(s, t) ==
  Live(s) /\ searchi[s][t] # None /\ receiver[t] # None =>
    \A n \in searchi[s][t] : Says(toClient[s], t, n, receiver[t].view[n], data[n])

StartsFit == \A s \in Session, t \in Tag : Started(s, t)
ViewsFit  == ~threw => \A s \in Session, t \in Tag : Caught(s, t)

ViewInv == HomesFit /\ StartsFit /\ ViewsFit

\* Of the commands q, b keeps those that start a search for t, or none.
SameStarts(q, b, t) ==
  /\ NoStart(q, t) => NoStart(b, t)
  /\ \A p : OneStart(q, t, p) => OneStart(b, t, p) \/ NoStart(b, t)

\* The receiver is as it was, or gone.
SameView(t) ==
  receiver'[t] # None => /\ receiver[t] # None
                         /\ receiver'[t].view = receiver[t].view
                         /\ receiver'[t].pattern = receiver[t].pattern

LEMMA HomesKept ==
  ASSUME HomesFit,
         \A s \in Session, t \in Tag : Home(s, t)' => Home(s, t),
         \A s \in Session : near'[s] => near[s] \/ owner[s] = None,
         \A s \in Session : owner[s] # None => owner'[s] # None,
         \A c \in Client, t \in Tag : Tells(late'[c], t) =>
           \/ Tells(late[c], t)
           \/ \E s \in Session : Tells(toClient[s], t) /\ ~near'[s],
         used' = used, \A t \in Tag : receiver[t] = None => receiver'[t] = None
  PROVE  HomesFit'
<1>1. \A s \in Session, t \in Tag : Home(s, t)' => t \in used' /\ owner'[s] # None
  BY DEF HomesFit
<1>2. \A r, s \in Session, t \in Tag : Home(r, t)' /\ Home(s, t)' => r = s
  BY DEF HomesFit
<1>3. ASSUME NEW c \in Client, NEW t \in Tag, Tells(late'[c], t)
      PROVE  t \in used' /\ \A s \in Session : near'[s] => ~Home(s, t)'
  <2>1. CASE Tells(late[c], t)
    <3>1. t \in used /\ \A s \in Session : near[s] => ~Home(s, t)
      BY <2>1 DEF HomesFit
    <3>2. \A s \in Session : owner[s] = None => ~Home(s, t)
      BY DEF HomesFit
    <3> QED BY <3>1, <3>2
  <2>2. ASSUME NEW r \in Session, Tells(toClient[r], t), ~near'[r]
        PROVE  t \in used' /\ \A s \in Session : near'[s] => ~Home(s, t)'
    <3>1. Home(r, t)
      BY <2>2 DEF Home
    <3>2. t \in used /\ \A s \in Session : Home(s, t) => s = r
      BY <3>1 DEF HomesFit
    <3> QED BY <2>2, <3>2
  <2> QED BY <1>3, <2>1, <2>2
<1>4. \A t \in Tag : t \notin used' => receiver'[t] = None
  BY DEF HomesFit
<1> QED BY <1>1, <1>2, <1>3, <1>4 DEF HomesFit

LEMMA NoOwnerNoHome ==
  ASSUME HomesFit, NEW s \in Session, NEW t \in Tag, owner[s] = None
  PROVE  NoStart(toServer[s], t) /\ searchi[s][t] = None /\ ~Tells(toClient[s], t)
BY DEF HomesFit, Home, StartAt

LEMMA NotHomeFits ==
  ASSUME NEW s \in Session, NEW t \in Tag, ~Home(s, t)'
  PROVE  Started(s, t)' /\ Caught(s, t)'
BY DEF Home, StartAt, Started, Caught

LEMMA StartedKept ==
  ASSUME NEW s \in Session, NEW t \in Tag, HomesFit, Started(s, t),
         near'[s] => near[s] \/ owner[s] = None,
         near'[s] => SameStarts(toServer[s], toServer'[s], t),
         searchi'[s][t] \in {searchi[s][t], None},
         Tells(toClient'[s], t) => Tells(toClient[s], t) \/ searchi[s][t] # None,
         SameView(t)
  PROVE  Started(s, t)'
<1> SUFFICES ASSUME near'[s]
             PROVE  /\ \/ NoStart(toServer'[s], t)
                       \/ \E p : OneStart(toServer'[s], t, p) /\ Fresh(s, t, p)'
                    /\ searchi'[s][t] # None /\ receiver'[t] # None =>
                         searchi'[s][t] = receiver'[t].pattern
  BY DEF Started
<1>1. CASE owner[s] = None
  <2>1. NoStart(toServer[s], t) /\ searchi[s][t] = None
    BY <1>1, NoOwnerNoHome
  <2> QED BY <2>1 DEF SameStarts
<1>2. CASE near[s]
  <2>1. /\ NoStart(toServer[s], t) \/ \E p : OneStart(toServer[s], t, p) /\ Fresh(s, t, p)
        /\ searchi[s][t] # None /\ receiver[t] # None => searchi[s][t] = receiver[t].pattern
    BY <1>2 DEF Started
  <2>2. searchi'[s][t] # None /\ receiver'[t] # None => searchi'[s][t] = receiver'[t].pattern
    BY <2>1 DEF SameView
  <2>3. ASSUME NEW p, OneStart(toServer[s], t, p), Fresh(s, t, p)
        PROVE  NoStart(toServer'[s], t) \/ (OneStart(toServer'[s], t, p) /\ Fresh(s, t, p)')
    <3>1. Fresh(s, t, p)'
      BY <2>3 DEF Fresh, SameView, Nothing
    <3> QED BY <2>3, <3>1 DEF SameStarts
  <2> QED BY <2>1, <2>2, <2>3 DEF SameStarts
<1> QED BY <1>1, <1>2

\* A step that changes nothing of what receivers are told, but may end sessions,
\* searches and receivers.
LEMMA ViewsKept ==
  ASSUME ViewInv,
         \A s \in Session, t \in Tag : SameStarts(toServer[s], toServer'[s], t),
         \A s \in Session : near'[s] => (near[s] \/ owner[s] = None) /\ toClient'[s] = toClient[s],
         \A s \in Session : Live(s)' => Live(s) \/ owner[s] = None,
         \A s \in Session : owner[s] # None => owner'[s] # None,
         \A s \in Session, t \in Tag : Tells(toClient'[s], t) => Tells(toClient[s], t),
         \A s \in Session, t \in Tag : \/ searchi'[s][t] = None
                                       \/ searchi'[s][t] = searchi[s][t] /\ data' = data,
         \A t \in Tag : SameView(t),
         \A c \in Client, t \in Tag : Tells(late'[c], t) =>
           \/ Tells(late[c], t)
           \/ \E s \in Session : Tells(toClient[s], t) /\ ~near'[s],
         used' = used, threw' = threw
  PROVE  ViewInv'
<1>1. HomesFit /\ StartsFit /\ ViewsFit
  BY DEF ViewInv
<1>2. ASSUME NEW s \in Session, NEW t \in Tag
      PROVE  Home(s, t)' => Home(s, t)
  BY DEF Home, StartAt, SameStarts
<1>3. \A t \in Tag : receiver[t] = None => receiver'[t] = None
  BY DEF SameView
<1>4. HomesFit'
  BY <1>1, <1>2, <1>3, HomesKept
<1>5. ASSUME NEW s \in Session, NEW t \in Tag
      PROVE  Started(s, t)'
  <2>1. Started(s, t)
    BY <1>1 DEF StartsFit
  <2>2. searchi'[s][t] \in {searchi[s][t], None}
    OBVIOUS
  <2> QED BY <1>1, <2>1, <2>2, StartedKept
<1>6. ASSUME ~threw', NEW s \in Session, NEW t \in Tag
      PROVE  Caught(s, t)'
  <2> SUFFICES ASSUME Live(s)', searchi'[s][t] # None, receiver'[t] # None,
                      NEW n \in searchi'[s][t]
               PROVE  Says(toClient'[s], t, n, receiver'[t].view[n], data'[n])
    BY DEF Caught
  <2>1. searchi'[s][t] = searchi[s][t] /\ data' = data
    OBVIOUS
  <2>2. Live(s)
    <3>1. owner[s] = None => searchi[s][t] = None
      BY <1>1, NoOwnerNoHome
    <3> QED BY <2>1, <3>1
  <2>3. toClient'[s] = toClient[s]
    BY DEF Live
  <2>4. receiver[t] # None /\ receiver'[t].view = receiver[t].view
    BY DEF SameView
  <2>5. Caught(s, t)
    BY <1>1, <1>6 DEF ViewsFit
  <2>6. Says(toClient[s], t, n, receiver[t].view[n], data[n])
    BY <2>1, <2>2, <2>4, <2>5 DEF Caught
  <2> QED BY <2>1, <2>3, <2>4, <2>6
<1> QED BY <1>4, <1>5, <1>6 DEF ViewInv, StartsFit, ViewsFit

\* The command joins those of its session, which may be new.
LEMMA SendStarts ==
  ASSUME TypeOK, NEW c \in Client, NEW s \in Session, NEW m \in Command, SendCommand(c, s, m)
  PROVE  /\ \A r \in Session, t \in Tag : ~Starts(m, t) \/ r # s =>
              SameStarts(toServer[r], toServer'[r], t)
         /\ \A t \in Tag : Starts(m, t) /\ NoStart(toServer[s], t) =>
              NoStart(toServer'[s], t) \/ OneStart(toServer'[s], t, m.pattern)
         /\ toClient' = toClient
         /\ \A r \in Session : /\ near'[r] => near[r] \/ owner[r] = None
                               /\ Live(r)' => Live(r) \/ owner[r] = None
                               /\ owner[r] # None => owner'[r] # None
<1> HIDE DEF Command
<1>1. toServer \in [Session -> Seq(Command)] /\ \A r \in Session : toServer[r] \in Seq(Command)
  BY DEF TypeOK
<1>2. CASE sess[c] # 0
  <2>1. /\ toServer' = IF far[s] = "up" THEN [toServer EXCEPT ![s] = Append(@, m)] ELSE toServer
        /\ UNCHANGED <<owner, near, far, toClient>>
    BY <1>2 DEF SendCommand
  <2>2. \A r \in Session : /\ r # s => toServer'[r] = toServer[r]
                           /\ toServer'[s] = toServer[s] \/ toServer'[s] = Append(toServer[s], m)
    BY <1>1, <2>1
  <2>3. ASSUME NEW r \in Session, NEW t \in Tag, ~Starts(m, t) \/ r # s
        PROVE  SameStarts(toServer[r], toServer'[r], t)
    <3>1. CASE toServer'[r] = toServer[r]
      BY <3>1 DEF SameStarts
    <3>2. CASE toServer'[r] # toServer[r]
      <4>1. r = s /\ toServer'[r] = Append(toServer[r], m) /\ ~Starts(m, t)
        BY <2>2, <2>3, <3>2
      <4> QED BY <1>1, <4>1, StartsAppend DEF SameStarts
    <3> QED BY <3>1, <3>2
  <2>4. ASSUME NEW t \in Tag, Starts(m, t), NoStart(toServer[s], t)
        PROVE  NoStart(toServer'[s], t) \/ OneStart(toServer'[s], t, m.pattern)
    BY <1>1, <2>2, <2>4, StartsAppend
  <2>5. \A r \in Session : /\ near'[r] => near[r] \/ owner[r] = None
                           /\ Live(r)' => Live(r) \/ owner[r] = None
                           /\ owner[r] # None => owner'[r] # None
    BY <2>1 DEF Live
  <2> QED BY <2>1, <2>3, <2>4, <2>5
<1>3. CASE sess[c] = 0
  <2>1. /\ owner[s] = None
        /\ owner' = [owner EXCEPT ![s] = c] /\ near' = [near EXCEPT ![s] = TRUE]
        /\ far' = [far EXCEPT ![s] = "up"] /\ toServer' = [toServer EXCEPT ![s] = <<m>>]
        /\ toClient' = toClient
    BY <1>3 DEF SendCommand
  <2>2. \A r \in Session : /\ owner'[r] = IF r = s THEN c ELSE owner[r]
                           /\ near'[r] = IF r = s THEN TRUE ELSE near[r]
                           /\ far'[r] = IF r = s THEN "up" ELSE far[r]
                           /\ toServer'[r] = IF r = s THEN <<m>> ELSE toServer[r]
    BY <2>1 DEF TypeOK
  <2> DEFINE q == <<m>>
  <2>3. DOMAIN q = {1} /\ q[1] = m
    OBVIOUS
  <2>q. toServer'[s] = q
    BY <2>2
  <2> HIDE DEF q
  <2>n. \A t \in Tag : ~Starts(m, t) => NoStart(q, t)
    BY <2>3 DEF NoStart
  <2>o. \A t \in Tag : Starts(m, t) => OneStart(q, t, m.pattern)
    BY <2>3 DEF OneStart
  <2>4. ASSUME NEW r \in Session, NEW t \in Tag, ~Starts(m, t) \/ r # s
        PROVE  SameStarts(toServer[r], toServer'[r], t)
    <3>1. CASE r = s
      <4>1. NoStart(toServer'[r], t)
        BY <2>4, <2>q, <2>n, <3>1
      <4> QED BY <4>1 DEF SameStarts
    <3>2. CASE r # s
      BY <2>2, <3>2 DEF SameStarts
    <3> QED BY <3>1, <3>2
  <2>5. ASSUME NEW t \in Tag, Starts(m, t)
        PROVE  OneStart(toServer'[s], t, m.pattern)
    BY <2>5, <2>q, <2>o
  <2>6. \A r \in Session : /\ near'[r] => near[r] \/ owner[r] = None
                           /\ Live(r)' => Live(r) \/ owner[r] = None
                           /\ owner[r] # None => owner'[r] # None
    BY <2>1, <2>2 DEF Live
  <2> QED BY <2>1, <2>4, <2>5, <2>6
<1> QED BY <1>2, <1>3

\* The notification x changes what is shown for n, to Effect(x, n).
Changes(x, n) == \/ x.type = "add" /\ x.entries[n] # None
                 \/ x.type = "remove" /\ n \in x.names

Notice(x) ==
  \A T \in SUBSET Tag :
    LET y == [x EXCEPT !.tags = T]
    IN /\ y \in Message /\ \A t : Concerns(y, t) => t \in T
       /\ \A t, n : /\ Touches(y, t, n) <=> t \in T /\ Changes(x, n)
                    /\ Effect(y, n) = Effect(x, n)

\* A receiver's queue has become b: with the notification x, without.
Noticed(a, b, x, t) ==
  \A n, v, w : Says(a, t, n, v, w) => Says(b, t, n, v, IF Changes(x, n) THEN Effect(x, n) ELSE w)
Unnoticed(a, b, t) ==
  /\ Tells(b, t) => Tells(a, t)
  /\ \A n, v, w : Says(a, t, n, v, w) => Says(b, t, n, v, w)

\* The notification x has reached the searches D.
Reached(D, x) ==
  \A s \in Session, t \in Tag :
    /\ <<s, t>> \in D /\ near[s] => Noticed(toClient[s], toClient'[s], x, t)
    /\ <<s, t>> \notin D => Unnoticed(toClient[s], toClient'[s], t)

LEMMA AdditionNotice ==
  ASSUME NEW e \in Entries
  PROVE  Notice(Addition(e))
<1> SUFFICES ASSUME NEW T \in SUBSET Tag
             PROVE  LET y == [Addition(e) EXCEPT !.tags = T]
                    IN /\ y \in Message /\ \A t : Concerns(y, t) => t \in T
                       /\ \A t, n : /\ Touches(y, t, n) <=> t \in T /\ Changes(Addition(e), n)
                                    /\ Effect(y, n) = Effect(Addition(e), n)
  BY DEF Notice
<1> DEFINE x == Addition(e)
           y == [x EXCEPT !.tags = T]
<1>1. y \in Message
  BY AdditionType
<1>2. x.type = "add" /\ x.entries = e
  BY DEF Addition
<1>3. y.type = "add" /\ y.tags = T /\ y.entries = e
  BY DEF Addition
<1> HIDE DEF x, y
<1>4. \A t : Concerns(y, t) => t \in T
  BY <1>3 DEF Concerns
<1>5. \A t, n : /\ Touches(y, t, n) <=> t \in T /\ Changes(x, n)
                /\ Effect(y, n) = Effect(x, n)
  BY <1>2, <1>3 DEF Touches, Changes, Effect
<1> QED BY <1>1, <1>4, <1>5 DEF x, y

LEMMA RemovalNotice ==
  ASSUME NEW N \in SUBSET Name
  PROVE  Notice(Removal(N))
<1> SUFFICES ASSUME NEW T \in SUBSET Tag
             PROVE  LET y == [Removal(N) EXCEPT !.tags = T]
                    IN /\ y \in Message /\ \A t : Concerns(y, t) => t \in T
                       /\ \A t, n : /\ Touches(y, t, n) <=> t \in T /\ Changes(Removal(N), n)
                                    /\ Effect(y, n) = Effect(Removal(N), n)
  BY DEF Notice
<1> DEFINE x == Removal(N)
           y == [x EXCEPT !.tags = T]
<1>1. y \in Message
  BY RemovalType
<1>2. x.type = "remove" /\ x.names = N
  BY DEF Removal
<1>3. y.type = "remove" /\ y.tags = T /\ y.names = N
  BY DEF Removal
<1> HIDE DEF x, y
<1>4. \A t : Concerns(y, t) => t \in T
  BY <1>3 DEF Concerns
<1>5. \A t, n : /\ Touches(y, t, n) <=> t \in T /\ Changes(x, n)
                /\ Effect(y, n) = Effect(x, n)
  BY <1>2, <1>3 DEF Touches, Changes, Effect
<1> QED BY <1>1, <1>4, <1>5 DEF x, y

LEMMA DeliveredReaches ==
  ASSUME TypeOK, NEW D, NEW x, Notice(x), NEW s \in Session, NEW t \in Tag
  PROVE  /\ <<s, t>> \in D /\ near[s] => Noticed(toClient[s], Delivered(D, x)[s], x, t)
         /\ <<s, t>> \notin D => Unnoticed(toClient[s], Delivered(D, x)[s], t)
<1> DEFINE T == Tags(D, s)
           y == [x EXCEPT !.tags = T]
           q == toClient[s]
           b == Delivered(D, x)[s]
<1>1. b = IF near[s] /\ T # {} THEN Append(q, y) ELSE q
  BY DEF Delivered
<1>2. T \in SUBSET Tag /\ (t \in T <=> <<s, t>> \in D)
  BY DEF Tags
<1>3. /\ y \in Message /\ (Concerns(y, t) => t \in T)
      /\ \A n : /\ Touches(y, t, n) <=> t \in T /\ Changes(x, n)
                /\ Effect(y, n) = Effect(x, n)
  <2> HIDE DEF T
  <2> QED BY <1>2 DEF Notice
<1>4. q \in Seq(Message)
  BY DEF TypeOK
<1> HIDE DEF Message, T, y, q, b
<1>5. ASSUME NEW n, NEW v, NEW w, Says(q, t, n, v, w)
      PROVE  /\ t \in T /\ Changes(x, n) => Says(Append(q, y), t, n, v, Effect(x, n))
             /\ ~(t \in T /\ Changes(x, n)) => Says(Append(q, y), t, n, v, w)
  <2>1. /\ Touches(y, t, n) => Says(Append(q, y), t, n, v, Effect(y, n))
        /\ ~Touches(y, t, n) => Says(Append(q, y), t, n, v, w)
    BY <1>3, <1>4, <1>5, SaysAppend
  <2> QED BY <1>3, <2>1
<1>6. ASSUME t \in T, near[s]
      PROVE  Noticed(q, b, x, t)
  <2>1. b = Append(q, y)
    BY <1>1, <1>6
  <2> QED BY <1>5, <1>6, <2>1 DEF Noticed
<1>7. ASSUME t \notin T
      PROVE  Unnoticed(q, b, t)
  <2>1. CASE b = q
    BY <2>1 DEF Unnoticed
  <2>2. CASE b # q
    <3>1. b = Append(q, y)
      BY <1>1, <2>2
    <3>2. Tells(b, t) => Tells(q, t)
      BY <1>3, <1>4, <1>7, <3>1, TellsAppend
    <3> QED BY <1>5, <1>7, <3>1, <3>2 DEF Unnoticed
  <2> QED BY <2>1, <2>2
<1> QED BY <1>2, <1>6, <1>7 DEF q, b

\* A reply says nothing to receivers.
LEMMA RepliedTells ==
  ASSUME NEW w \in [Session -> Seq(Message)], NEW r \in Session, NEW ser \in Serial,
         NEW ok \in BOOLEAN, NEW s \in Session, NEW t
  PROVE  Unnoticed(w[s], Replied(w, r, ser, ok)[s], t)
<1> DEFINE y == [type |-> "reply", ok |-> ok, ser |-> ser]
           q == w[s]
           b == Replied(w, r, ser, ok)[s]
<1>1. y \in Message /\ ~Concerns(y, t) /\ \A n : ~Touches(y, t, n)
  <2>1. y \in Message
    BY DEF Message
  <2>2. y.type = "reply"
    OBVIOUS
  <2> HIDE DEF y
  <2> QED BY <2>1, <2>2 DEF Concerns, Touches
<1>2. b = q \/ b = Append(q, y)
  <2>1. Replied(w, r, ser, ok) = w \/ Replied(w, r, ser, ok) = [w EXCEPT ![r] = Append(@, y)]
    BY DEF Replied
  <2> HIDE DEF y, Message
  <2> QED BY <2>1
<1>3. q \in Seq(Message)
  OBVIOUS
<1> HIDE DEF y, q, b, Message
<1>4. ASSUME b = q
      PROVE  Unnoticed(q, b, t)
  BY <1>4 DEF Unnoticed
<1>5. ASSUME b = Append(q, y)
      PROVE  Unnoticed(q, b, t)
  <2>1. Tells(b, t) => Tells(q, t)
    BY <1>1, <1>3, <1>5, TellsAppend
  <2>2. \A n, v, z : Says(q, t, n, v, z) => Says(b, t, n, v, z)
    BY <1>1, <1>3, <1>5, SaysAppend
  <2> QED BY <2>1, <2>2 DEF Unnoticed
<1> QED BY <1>2, <1>4, <1>5 DEF q, b

LEMMA NoticesReach ==
  ASSUME TypeOK, NEW D, NEW x, Notice(x), NEW w \in [Session -> Seq(Message)],
         w = Delivered(D, x),
         \/ toClient' = w
         \/ \E r \in Session, ser \in Serial, ok \in BOOLEAN : toClient' = Replied(w, r, ser, ok)
  PROVE  Reached(D, x)
<1> SUFFICES ASSUME NEW s \in Session, NEW t \in Tag
             PROVE  /\ <<s, t>> \in D /\ near[s] => Noticed(toClient[s], toClient'[s], x, t)
                    /\ <<s, t>> \notin D => Unnoticed(toClient[s], toClient'[s], t)
  BY DEF Reached
<1>1. /\ <<s, t>> \in D /\ near[s] => Noticed(toClient[s], w[s], x, t)
      /\ <<s, t>> \notin D => Unnoticed(toClient[s], w[s], t)
  BY DeliveredReaches
<1>2. Unnoticed(w[s], toClient'[s], t)
  <2>1. CASE toClient' = w
    BY <2>1 DEF Unnoticed
  <2>2. CASE toClient' # w
    <3>1. PICK r \in Session, ser \in Serial, ok \in BOOLEAN : toClient' = Replied(w, r, ser, ok)
      BY <2>2
    <3> QED BY <3>1, RepliedTells
  <2> QED BY <2>1, <2>2
<1> QED BY <1>1, <1>2 DEF Noticed, Unnoticed

LEMMA ReleaseReaches ==
  ASSUME TypeOK, NEW s \in Session, NEW ser \in Serial \cup {0}, ReleaseId(s, ser)
  PROVE  LET T == {e \in Watching(names[s]) : e[1] # s}
         IN \E D \in SUBSET T :
              Reached(D, Removal(names[s])) /\ (~threw' => ~threw /\ D = T)
<1> DEFINE N == names[s]
           T == {e \in Watching(N) : e[1] # s}
<1>1. PICK D \in NotifiedBefore(T) :
               /\ toClient' = IF ser = 0 THEN Delivered(D, Removal(N))
                                ELSE Replied(Delivered(D, Removal(N)), s, ser, D = T)
               /\ threw' = (threw \/ D # T)
  BY DEF ReleaseId
<1>2. N \in SUBSET Name
  BY DEF TypeOK
<1> DEFINE w == Delivered(D, Removal(N))
<1>3. w \in [Session -> Seq(Message)]
  BY <1>2, RemovalType, DeliveredType DEF TypeOK
<1>4. PICK ok \in BOOLEAN : ok = (D = T)
  OBVIOUS
<1>5. toClient' = IF ser = 0 THEN w ELSE Replied(w, s, ser, ok)
  <2>1. CASE D = T
    BY <1>1, <1>4, <2>1
  <2>2. CASE D # T
    BY <1>1, <1>4, <2>2
  <2> QED BY <2>1, <2>2
<1>6. Notice(Removal(N))
  BY <1>2, RemovalNotice
<1>7. Reached(D, Removal(N))
  <2>1. PICK u \in [Session -> Seq(Message)] : u = w
    BY <1>3
  <2>2. \/ toClient' = u
        \/ \E r \in Session, z \in Serial, k \in BOOLEAN : toClient' = Replied(u, r, z, k)
    <3> HIDE DEF w
    <3>1. CASE ser = 0
      BY <1>5, <2>1, <3>1
    <3>2. CASE ser # 0
      <4>1. ser \in Serial /\ toClient' = Replied(u, s, ser, ok)
        BY <1>5, <2>1, <3>2
      <4> QED BY <4>1
    <3> QED BY <3>1, <3>2
  <2> QED BY <1>6, <2>1, <2>2, NoticesReach
<1>8. ~threw' => ~threw /\ D = T
  BY <1>1
<1>9. D \in SUBSET T
  BY <1>1 DEF NotifiedBefore
<1> QED BY <1>7, <1>8, <1>9

LEMMA BindReaches ==
  ASSUME TypeOK, NEW s \in Session, NEW m \in Command, ServeBind(s, m)
  PROVE  /\ m.name \in Name
         /\ data[m.name] # None => /\ data' = data /\ threw' = threw
                                   /\ \A r \in Session, t \in Tag :
                                        Unnoticed(toClient[r], toClient'[r], t)
         /\ data[m.name] = None =>
              LET T == Watching({m.name})
                  e == Only({m.name}, data')
              IN /\ data' = [data EXCEPT ![m.name] = owner[s]]
                 /\ \E D \in SUBSET T : Reached(D, Addition(e)) /\ (~threw' => ~threw /\ D = T)
<1>1. m.name \in Name /\ m.ser \in Serial
  BY DEF ServeBind, Command, Call
<1>2. toClient \in [Session -> Seq(Message)]
  BY DEF TypeOK
<1>3. ASSUME data[m.name] # None
      PROVE  /\ data' = data /\ threw' = threw
             /\ \A r \in Session, t \in Tag : Unnoticed(toClient[r], toClient'[r], t)
  <2>1. toClient' = Replied(toClient, s, m.ser, FALSE) /\ data' = data /\ threw' = threw
    BY <1>3 DEF ServeBind
  <2>2. PICK ok \in BOOLEAN : toClient' = Replied(toClient, s, m.ser, ok)
    BY <2>1
  <2>3. \A r \in Session, t \in Tag : Unnoticed(toClient[r], toClient'[r], t)
    BY <1>1, <1>2, <2>2, RepliedTells
  <2> QED BY <2>1, <2>3
<1>4. ASSUME data[m.name] = None
      PROVE  LET T == Watching({m.name})
                 e == Only({m.name}, data')
             IN /\ data' = [data EXCEPT ![m.name] = owner[s]]
                /\ \E D \in SUBSET T : Reached(D, Addition(e)) /\ (~threw' => ~threw /\ D = T)
  <2> DEFINE T == Watching({m.name})
             e == Only({m.name}, data')
  <2>1. data' = [data EXCEPT ![m.name] = owner[s]]
    BY <1>4 DEF ServeBind
  <2>2. PICK D \in NotifiedBefore(T) :
                 /\ toClient' = Replied(Delivered(D, Addition(e)), s, m.ser, D = T)
                 /\ threw' = (threw \/ D # T)
    BY <1>4 DEF ServeBind
  <2>3. e \in Entries
    <3>1. data' \in Entries
      BY <1>1, <2>1 DEF TypeOK, Entries
    <3> QED BY <3>1, OnlyType
  <2> DEFINE x == Addition(e)
             w == Delivered(D, x)
  <2>4. Notice(x) /\ w \in [Session -> Seq(Message)]
    <3> HIDE DEF e
    <3>1. w \in [Session -> Seq(Message)]
      BY <2>3, AdditionType, DeliveredType DEF TypeOK
    <3> QED BY <2>3, <3>1, AdditionNotice
  <2>5. PICK ok \in BOOLEAN : ok = (D = T)
    OBVIOUS
  <2>6. toClient' = Replied(w, s, m.ser, ok)
    <3>1. CASE D = T
      BY <2>2, <2>5, <3>1
    <3>2. CASE D # T
      BY <2>2, <2>5, <3>2
    <3> QED BY <3>1, <3>2
  <2>7. Reached(D, x)
    <3>1. PICK u \in [Session -> Seq(Message)] : u = w
      BY <2>4
    <3>2. \E r \in Session, z \in Serial, k \in BOOLEAN : toClient' = Replied(u, r, z, k)
      <4> HIDE DEF w
      <4> QED BY <1>1, <2>6, <3>1
    <3>3. u = Delivered(D, x)
      BY <3>1
    <3> HIDE DEF w, x
    <3> QED BY <2>4, <3>2, <3>3, NoticesReach
  <2>8. ~threw' => ~threw /\ D = T
    BY <2>2
  <2>9. D \in SUBSET T
    BY <2>2 DEF NotifiedBefore
  <2> QED BY <2>1, <2>7, <2>8, <2>9
<1> QED BY <1>1, <1>3, <1>4

LEMMA WatchingIs ==
  ASSUME TypeOK, DatabaseAgrees, NEW N, NEW s \in Session, NEW t \in Tag
  PROVE  <<s, t>> \in Watching(N) <=> searchi[s][t] # None /\ searchi[s][t] \cap N # {}
<1>1. searchi[s][t] \in Pattern \cup {None}
  BY DEF TypeOK
<1>2. \A p \in Pattern : searchi[s][t] = p <=> <<s, t>> \in searchp[p]
  BY DEF DatabaseAgrees
<1>3. <<s, t>> \in Watching(N) <=> \E p \in Pattern : p \cap N # {} /\ <<s, t>> \in searchp[p]
  BY DEF Watching
<1> QED BY <1>1, <1>2, <1>3

\* A step of the server that sends the notification x to the searches T, unless
\* it throws, and changes the data as x says; and starts no search.
NoticeStep(T, x) ==
  /\ \A s \in Session, t \in Tag : <<s, t>> \in T => searchi[s][t] # None
  /\ \E D \in SUBSET T : Reached(D, x) /\ (~threw' => ~threw /\ D = T)
  /\ \A s \in Session, t \in Tag :
       \/ searchi'[s][t] = None
       \/ /\ searchi'[s][t] = searchi[s][t]
          /\ \A n \in searchi[s][t] :
               data'[n] = IF <<s, t>> \in T /\ Changes(x, n) THEN Effect(x, n) ELSE data[n]
StartsGo ==
  \A s \in Session, t \in Tag : /\ near[s] => SameStarts(toServer[s], toServer'[s], t)
                                /\ NoStart(toServer[s], t) => NoStart(toServer'[s], t)

LEMMA NoticeViews ==
  ASSUME ViewInv, UNCHANGED <<owner, near, receiver, late, used>>,
         \A s \in Session : far'[s] = "up" => far[s] = "up",
         StartsGo, NEW T, NEW x, NoticeStep(T, x)
  PROVE  ViewInv'
<1>1. HomesFit /\ StartsFit /\ ViewsFit
  BY DEF ViewInv
<1>0. /\ \A s \in Session, t \in Tag : <<s, t>> \in T => searchi[s][t] # None
      /\ \A s \in Session, t \in Tag :
           \/ searchi'[s][t] = None
           \/ /\ searchi'[s][t] = searchi[s][t]
              /\ \A n \in searchi[s][t] :
                   data'[n] = IF <<s, t>> \in T /\ Changes(x, n) THEN Effect(x, n) ELSE data[n]
  BY DEF NoticeStep
<1>d. PICK D \in SUBSET T : Reached(D, x) /\ (~threw' => ~threw /\ D = T)
  BY DEF NoticeStep
<1>2. ASSUME NEW s \in Session, NEW t \in Tag
      PROVE  Tells(toClient'[s], t) => Tells(toClient[s], t) \/ searchi[s][t] # None
  BY <1>0, <1>d DEF Reached, Unnoticed
<1>3. \A s \in Session, t \in Tag : Home(s, t)' => Home(s, t)
  BY <1>0, <1>2 DEF Home, StartAt, StartsGo
<1>4. HomesFit'
  BY <1>1, <1>3, HomesKept
<1>5. ASSUME NEW s \in Session, NEW t \in Tag
      PROVE  Started(s, t)'
  <2>1. Started(s, t)
    BY <1>1 DEF StartsFit
  <2>2. searchi'[s][t] \in {searchi[s][t], None}
    BY <1>0
  <2>3. SameView(t)
    BY DEF SameView
  <2>4. near'[s] => SameStarts(toServer[s], toServer'[s], t)
    BY DEF StartsGo
  <2> QED BY <1>1, <1>2, <2>1, <2>2, <2>3, <2>4, StartedKept
<1>6. ASSUME ~threw', NEW s \in Session, NEW t \in Tag
      PROVE  Caught(s, t)'
  <2> SUFFICES ASSUME Live(s)', searchi'[s][t] # None, receiver'[t] # None,
                      NEW n \in searchi'[s][t]
               PROVE  Says(toClient'[s], t, n, receiver'[t].view[n], data'[n])
    BY DEF Caught
  <2>1. /\ n \in searchi[s][t] /\ searchi[s][t] # None /\ receiver'[t] = receiver[t]
        /\ data'[n] = IF <<s, t>> \in T /\ Changes(x, n) THEN Effect(x, n) ELSE data[n]
    BY <1>0
  <2>2. Live(s) /\ near[s]
    BY DEF Live
  <2>3. Caught(s, t)
    BY <1>1, <1>6, <1>d DEF ViewsFit
  <2>4. Says(toClient[s], t, n, receiver[t].view[n], data[n])
    BY <2>1, <2>2, <2>3 DEF Caught
  <2>5. D = T
    BY <1>6, <1>d
  <2>6. CASE <<s, t>> \in T
    <3>1. Noticed(toClient[s], toClient'[s], x, t)
      BY <1>d, <2>2, <2>5, <2>6 DEF Reached
    <3> QED BY <2>1, <2>4, <2>6, <3>1 DEF Noticed
  <2>7. CASE <<s, t>> \notin T
    <3>1. Unnoticed(toClient[s], toClient'[s], t)
      BY <1>d, <2>5, <2>7 DEF Reached
    <3> QED BY <2>1, <2>4, <2>7, <3>1 DEF Unnoticed
  <2> QED BY <2>6, <2>7
<1> QED BY <1>4, <1>5, <1>6 DEF ViewInv, StartsFit, ViewsFit

LEMMA ReleaseViews ==
  ASSUME TypeOK, DataInv, ViewInv, NEW s \in Session, NEW ser \in Serial \cup {0},
         ReleaseId(s, ser), UNCHANGED <<owner, near, receiver, late, used>>,
         \A r \in Session : far'[r] = "up" => far[r] = "up", StartsGo
  PROVE  ViewInv'
<1> DEFINE N == names[s]
           T == {e \in Watching(N) : e[1] # s}
           x == Removal(N)
<1>1. PICK D \in SUBSET T : Reached(D, x) /\ (~threw' => ~threw /\ D = T)
  BY ReleaseReaches
<1>2. /\ data' = [n \in Name |-> IF n \in N THEN None ELSE data[n]]
      /\ searchi' = [r \in Session |-> [t \in Tag |->
                       IF <<r, t>> \in {s} \X Tag THEN None ELSE searchi[r][t]]]
  BY DEF ReleaseId, Drop
<1>3. x.type = "remove" /\ x.names = N
  BY DEF Removal
<1>4. DatabaseAgrees
  BY DEF DataInv
<1>5. \A r \in Session, t \in Tag :
        <<r, t>> \in T <=> r # s /\ searchi[r][t] # None /\ searchi[r][t] \cap N # {}
  <2> SUFFICES ASSUME NEW r \in Session, NEW t \in Tag
               PROVE  <<r, t>> \in T <=> r # s /\ searchi[r][t] # None /\ searchi[r][t] \cap N # {}
    OBVIOUS
  <2>1. <<r, t>> \in T <=> r # s /\ <<r, t>> \in Watching(N)
    <3>1. <<r, t>>[1] = r
      OBVIOUS
    <3> QED BY <3>1
  <2> HIDE DEF T, N
  <2>2. <<r, t>> \in Watching(N) <=> searchi[r][t] # None /\ searchi[r][t] \cap N # {}
    BY <1>4, WatchingIs
  <2> QED BY <2>1, <2>2
<1>6. \A n : /\ Changes(x, n) <=> n \in N
             /\ Effect(x, n) = None
  BY <1>3 DEF Changes, Effect
<1>7. ASSUME NEW r \in Session, NEW t \in Tag, searchi'[r][t] # None
      PROVE  /\ searchi'[r][t] = searchi[r][t]
             /\ \A n \in searchi[r][t] :
                  data'[n] = IF <<r, t>> \in T /\ Changes(x, n) THEN Effect(x, n) ELSE data[n]
  <2>1. r # s /\ searchi'[r][t] = searchi[r][t] /\ searchi[r][t] # None
    BY <1>2, <1>7
  <2>2. searchi[r][t] \subseteq Name
    BY <2>1 DEF TypeOK
  <2>3. ASSUME NEW n \in searchi[r][t]
        PROVE  data'[n] = IF <<r, t>> \in T /\ Changes(x, n) THEN Effect(x, n) ELSE data[n]
    <3>1. data'[n] = IF n \in N THEN None ELSE data[n]
      BY <1>2, <2>2
    <3>2. n \in N => <<r, t>> \in T
      BY <1>5, <2>1
    <3> HIDE DEF T, x, N
    <3> QED BY <1>6, <3>1, <3>2
  <2> QED BY <2>1, <2>3
<1> HIDE DEF T, x, N
<1>8. \A r \in Session, t \in Tag : <<r, t>> \in T => searchi[r][t] # None
  BY <1>5
<1>9. NoticeStep(T, x)
  BY <1>1, <1>7, <1>8 DEF NoticeStep
<1> QED BY <1>9, NoticeViews

LEMMA BindViews ==
  ASSUME TypeOK, DataInv, ViewInv, NEW s \in Session, NEW m \in Command, ServeBind(s, m),
         UNCHANGED <<owner, near, far, receiver, late, used>>,
         \A r \in Session, t \in Tag : SameStarts(toServer[r], toServer'[r], t)
  PROVE  ViewInv'
<1>1. searchi' = searchi
  BY DEF ServeBind
<1>2. StartsGo
  BY DEF StartsGo, SameStarts
<1>3. DatabaseAgrees
  BY DEF DataInv
<1>4. m.name \in Name
  BY BindReaches
<1>5. CASE data[m.name] # None
  <2>1. /\ data' = data /\ threw' = threw
        /\ \A r \in Session, t \in Tag : Unnoticed(toClient[r], toClient'[r], t)
    BY <1>5, BindReaches
  <2>2. Reached({}, Addition(Nothing))
    BY <2>1 DEF Reached
  <2>3. \A r \in Session, t \in Tag : <<r, t>> \in {} => searchi[r][t] # None
    OBVIOUS
  <2>4. {} \in SUBSET {}
    OBVIOUS
  <2>5. \A r \in Session, t \in Tag :
           /\ searchi'[r][t] = searchi[r][t]
           /\ \A n \in searchi[r][t] :
                data'[n] = IF <<r, t>> \in {} /\ Changes(Addition(Nothing), n)
                             THEN Effect(Addition(Nothing), n) ELSE data[n]
    BY <1>1, <2>1
  <2>6. PICK x : Reached({}, x) /\ \A r \in Session, t \in Tag :
           /\ searchi'[r][t] = searchi[r][t]
           /\ \A n \in searchi[r][t] :
                data'[n] = IF <<r, t>> \in {} /\ Changes(x, n) THEN Effect(x, n) ELSE data[n]
    BY <2>2, <2>5
  <2>7. PICK T : T = {}
    OBVIOUS
  <2>8. NoticeStep(T, x)
    <3>1. \A r \in Session, t \in Tag : <<r, t>> \notin T
      BY <2>7
    <3>2. {} \in SUBSET T /\ {} = T
      BY <2>7
    <3> QED BY <2>1, <2>6, <2>7, <3>1, <3>2 DEF NoticeStep
  <2> QED BY <1>2, <2>8, NoticeViews
<1>6. CASE data[m.name] = None
  <2> DEFINE T == Watching({m.name})
             e == Only({m.name}, data')
             x == Addition(e)
  <2>1. /\ data' = [data EXCEPT ![m.name] = owner[s]]
        /\ \E D \in SUBSET T : Reached(D, x) /\ (~threw' => ~threw /\ D = T)
    BY <1>6, BindReaches
  <2>2. PICK D \in SUBSET T : Reached(D, x) /\ (~threw' => ~threw /\ D = T)
    BY <2>1
  <2>3. x.type = "add" /\ x.entries = e
    BY DEF Addition
  <2>4. \A n \in Name : e[n] = IF n = m.name THEN data'[n] ELSE None
    BY DEF Only
  <2>5. \A n \in Name : n # m.name => data'[n] = data[n]
    BY <2>1 DEF TypeOK, Entries
  <2>6. \A r \in Session, t \in Tag :
          <<r, t>> \in T <=> searchi[r][t] # None /\ searchi[r][t] \cap {m.name} # {}
    BY <1>3, WatchingIs
  <2>7. \A n : /\ Changes(x, n) <=> e[n] # None
               /\ Effect(x, n) = e[n]
    BY <2>3 DEF Changes, Effect
  <2> HIDE DEF T, x, e
  <2>8. ASSUME NEW r \in Session, NEW t \in Tag, searchi[r][t] # None, NEW n \in searchi[r][t]
        PROVE  data'[n] = IF <<r, t>> \in T /\ Changes(x, n) THEN Effect(x, n) ELSE data[n]
    <3>1. n \in Name
      BY <2>8 DEF TypeOK
    <3>2. CASE n = m.name
      <4>1. <<r, t>> \in T
        BY <2>6, <2>8, <3>2
      <4> QED BY <1>6, <2>4, <2>7, <3>1, <3>2, <4>1
    <3>3. CASE n # m.name
      BY <2>4, <2>5, <2>7, <3>1, <3>3
    <3> QED BY <3>2, <3>3
  <2>9. \A r \in Session, t \in Tag : <<r, t>> \in T => searchi[r][t] # None
    BY <2>6
  <2>10. NoticeStep(T, x)
    BY <1>1, <2>2, <2>8, <2>9 DEF NoticeStep
  <2> QED BY <1>2, <2>10, NoticeViews
<1> QED BY <1>5, <1>6

\* The loss of a session whose client closed it.
LEMMA ServerLostViews ==
  ASSUME TypeOK, DataInv, ViewInv, NEW s \in Session, ServerLost(s)
  PROVE  ViewInv'
<1>1. /\ UNCHANGED <<owner, near, receiver, late, used>>
      /\ far' = [far EXCEPT ![s] = "lost"] /\ ~near[s] /\ ReleaseId(s, 0)
  BY DEF ServerLost, clientVars
<1>2. \A r \in Session : far'[r] = "up" => far[r] = "up"
  BY <1>1 DEF TypeOK
<1>3. ASSUME NEW r \in Session, NEW t \in Tag
      PROVE  /\ near[r] => SameStarts(toServer[r], toServer'[r], t)
             /\ NoStart(toServer[r], t) => NoStart(toServer'[r], t)
  <2>1. PICK k \in 0 .. Len(toServer[s]) : toServer' = [toServer EXCEPT ![s] = SubSeq(@, 1, k)]
    BY DEF ServerLost
  <2>2. toServer'[r] = IF r = s THEN SubSeq(toServer[r], 1, k) ELSE toServer[r]
    BY <2>1 DEF TypeOK
  <2>3. CASE r = s
    <3>1. toServer[r] \in Seq(Command)
      BY DEF TypeOK
    <3> DEFINE q == toServer[r]
               b == SubSeq(q, 1, k)
    <3>2. \A i \in DOMAIN b : i \in DOMAIN q /\ b[i] = q[i]
      <4> HIDE DEF Command
      <4> QED BY <2>1, <2>3, <3>1
    <3> HIDE DEF q, b
    <3>3. NoStart(q, t) => NoStart(b, t)
      BY <3>2 DEF NoStart
    <3> QED BY <1>1, <2>2, <2>3, <3>3 DEF q, b
  <2>4. CASE r # s
    BY <2>2, <2>4 DEF SameStarts
  <2> QED BY <2>3, <2>4
<1>4. PICK z \in Serial \cup {0} : ReleaseId(s, z)
  BY <1>1
<1>5. StartsGo
  BY <1>3 DEF StartsGo
<1> QED BY <1>1, <1>2, <1>4, <1>5, ReleaseViews

\* The server starts a search: the first answer is what is bound.
LEMMA StartViews ==
  ASSUME TypeOK, ViewInv, NEW s \in Session, toServer[s] # <<>>,
         toServer' = [toServer EXCEPT ![s] = Tail(@)], ServeStart(s, Head(toServer[s])),
         UNCHANGED <<owner, near, far, receiver, late, used>>
  PROVE  ViewInv'
<1> DEFINE m == Head(toServer[s])
           t0 == m.tag
           p0 == m.pattern
           e == Only(p0, data)
           x == Addition(e)
           D == {<<s, t0>>}
<1>1. HomesFit /\ StartsFit /\ ViewsFit
  BY DEF ViewInv
<1>2. toServer[s] \in Seq(Command) /\ m \in Command
  <2>1. toServer[s] \in Seq(Command)
    BY DEF TypeOK
  <2> HIDE DEF Command
  <2> QED BY <2>1
<1>3. m.type = "start" /\ t0 \in Tag /\ p0 \in Pattern
  BY <1>2 DEF ServeStart, Command, Call
<1>4. data' = data /\ threw' = threw
  BY DEF ServeStart
<1>5. \/ searchi[s][t0] # None /\ searchi' = searchi /\ toClient' = toClient
      \/ /\ searchi[s][t0] = None /\ searchi' = [searchi EXCEPT ![s][t0] = p0]
         /\ toClient' = IF far[s] = "up" THEN Delivered(D, x) ELSE toClient
  BY DEF ServeStart
<1>6. Starts(m, t0) /\ \A t : t # t0 => ~Starts(m, t)
  BY <1>3 DEF Starts
<1>7. \A r \in Session : toServer'[r] = IF r = s THEN Tail(toServer[s]) ELSE toServer[r]
  BY DEF TypeOK
<1>8. e \in Entries /\ \A n \in p0 : e[n] = data[n]
  <2>1. e \in Entries
    BY OnlyType DEF TypeOK
  <2>2. \A n \in Name : e[n] = IF n \in p0 THEN data[n] ELSE None
    BY DEF Only
  <2> QED BY <1>3, <2>1, <2>2
<1>9. x.type = "add" /\ x.entries = e /\ Notice(x)
  <2>1. Notice(x)
    BY <1>8, AdditionNotice
  <2> QED BY <2>1 DEF Addition
<1>10. \A r \in Session, t \in Tag : searchi'[r][t] = searchi[r][t] \/ (r = s /\ t = t0)
  <2>1. searchi \in [Session -> [Tag -> Pattern \cup {None}]]
    BY DEF TypeOK
  <2> HIDE DEF t0, p0
  <2>2. CASE searchi' = searchi
    BY <2>2
  <2>3. CASE searchi' = [searchi EXCEPT ![s][t0] = p0]
    BY <2>1, <2>3
  <2> QED BY <1>5, <2>2, <2>3
<1>11. \A r \in Session, t \in Tag : (r = s /\ t = t0) \/ Unnoticed(toClient[r], toClient'[r], t)
  <2> SUFFICES ASSUME NEW r \in Session, NEW t \in Tag, ~(r = s /\ t = t0)
               PROVE  Unnoticed(toClient[r], toClient'[r], t)
    OBVIOUS
  <2>1. CASE toClient' = toClient
    BY <2>1 DEF Unnoticed
  <2>2. CASE toClient' = Delivered(D, x)
    <3>1. <<r, t>> \notin D
      OBVIOUS
    <3> HIDE DEF D, x
    <3> QED BY <1>9, <2>2, <3>1, DeliveredReaches
  <2> QED BY <1>5, <2>1, <2>2
<1>12. \A r \in Session, t \in Tag : (r = s /\ t = t0) \/ SameStarts(toServer[r], toServer'[r], t)
  <2> SUFFICES ASSUME NEW r \in Session, NEW t \in Tag, ~(r = s /\ t = t0)
               PROVE  SameStarts(toServer[r], toServer'[r], t)
    OBVIOUS
  <2>1. CASE r # s
    BY <1>7, <2>1 DEF SameStarts
  <2>2. CASE r = s
    <3>1. ~Starts(m, t) /\ toServer'[r] = Tail(toServer[r])
      BY <1>6, <1>7, <2>2
    <3> HIDE DEF Command
    <3> QED BY <1>2, <2>2, <3>1, StartsTail DEF SameStarts
  <2> QED BY <2>1, <2>2
<1>13. Home(s, t0)
  <2>1. NoStart(toServer[s], t0) => ~Starts(m, t0)
    <3> HIDE DEF Command
    <3> QED BY <1>2, StartsTail
  <2> QED BY <1>6, <2>1 DEF Home, StartAt
<1>14. \A r \in Session, t \in Tag : Home(r, t)' => Home(r, t)
  <2> SUFFICES ASSUME NEW r \in Session, NEW t \in Tag, ~(r = s /\ t = t0), Home(r, t)'
               PROVE  Home(r, t)
    BY <1>13
  <2> HIDE DEF t0
  <2> QED BY <1>10, <1>11, <1>12 DEF Home, StartAt, Unnoticed, SameStarts
<1>15. HomesFit'
  BY <1>1, <1>14, HomesKept
<1>16. ASSUME near[s]
       PROVE  /\ NoStart(toServer'[s], t0) /\ Fresh(s, t0, p0)
  <2>1. PICK p : OneStart(toServer[s], t0, p) /\ Fresh(s, t0, p)
    <3>1. Started(s, t0)
      BY <1>1, <1>3 DEF StartsFit
    <3>2. ~NoStart(toServer[s], t0)
      <4> HIDE DEF Command
      <4> QED BY <1>2, <1>6, StartsTail
    <3> QED BY <1>16, <3>1, <3>2 DEF Started
  <2>2. m.pattern = p /\ NoStart(Tail(toServer[s]), t0)
    <3> HIDE DEF Command
    <3> QED BY <1>2, <1>6, <2>1, StartsTail
  <2> QED BY <1>7, <2>1, <2>2
<1>17. ASSUME near[s]
       PROVE  searchi'[s][t0] = p0
  <2>1. searchi[s][t0] = None
    BY <1>16, <1>17 DEF Fresh
  <2>2. searchi' = [searchi EXCEPT ![s][t0] = p0]
    BY <1>5, <2>1
  <2> QED BY <1>3, <2>2 DEF TypeOK
<1>18. ASSUME NEW r \in Session, NEW t \in Tag
       PROVE  Started(r, t)'
  <2>1. CASE r = s /\ t = t0
    <3>1. near'[r] => /\ NoStart(toServer'[r], t)
                      /\ searchi'[r][t] = p0
                      /\ receiver'[t] # None => receiver'[t].pattern = p0
      BY <1>16, <1>17, <2>1 DEF Fresh
    <3> HIDE DEF t0, p0
    <3> QED BY <3>1 DEF Started
  <2>2. CASE ~(r = s /\ t = t0)
    <3>1. /\ SameStarts(toServer[r], toServer'[r], t)
          /\ searchi'[r][t] \in {searchi[r][t], None}
          /\ Tells(toClient'[r], t) => Tells(toClient[r], t)
      BY <1>10, <1>11, <1>12, <2>2 DEF Unnoticed
    <3>2. SameView(t) /\ Started(r, t)
      BY <1>1 DEF SameView, StartsFit
    <3> QED BY <1>1, <3>1, <3>2, StartedKept
  <2> QED BY <2>1, <2>2
<1>19. ASSUME ~threw', NEW r \in Session, NEW t \in Tag
       PROVE  Caught(r, t)'
  <2> SUFFICES ASSUME Live(r)', searchi'[r][t] # None, receiver'[t] # None,
                      NEW n \in searchi'[r][t]
               PROVE  Says(toClient'[r], t, n, receiver'[t].view[n], data'[n])
    BY DEF Caught
  <2>1. CASE r = s /\ t = t0
    <3>1. Fresh(s, t0, p0) /\ n \in p0 /\ near[s] /\ far[s] = "up"
      BY <1>16, <1>17, <2>1 DEF Live
    <3>2. receiver[t].view = Nothing /\ n \in Name /\ ~Tells(toClient[s], t)
      BY <1>3, <2>1, <3>1 DEF Fresh
    <3>3. receiver[t].view[n] = None
      BY <3>2 DEF Nothing
    <3>4. Says(toClient[s], t, n, None, None)
      BY <3>2 DEF Says, Tells, Concerns, Touches
    <3>5. toClient' = Delivered(D, x)
      BY <1>5, <3>1 DEF Fresh
    <3>6. Noticed(toClient[s], toClient'[s], x, t)
      <4>1. <<s, t>> \in D
        BY <2>1
      <4> HIDE DEF D, x
      <4> QED BY <1>9, <3>1, <3>5, <4>1, DeliveredReaches
    <3>7. Says(toClient'[s], t, n, None, IF Changes(x, n) THEN Effect(x, n) ELSE None)
      BY <3>4, <3>6 DEF Noticed
    <3>8. (IF Changes(x, n) THEN Effect(x, n) ELSE None) = data[n]
      <4> HIDE DEF x, e, p0
      <4> QED BY <1>8, <1>9, <3>1 DEF Changes, Effect
    <3> QED BY <1>4, <2>1, <3>3, <3>7, <3>8
  <2>2. CASE ~(r = s /\ t = t0)
    <3>1. searchi'[r][t] = searchi[r][t] /\ Unnoticed(toClient[r], toClient'[r], t)
      BY <1>10, <1>11, <2>2
    <3>2. Live(r) /\ Caught(r, t)
      BY <1>1, <1>4, <1>19 DEF Live, ViewsFit
    <3>3. Says(toClient[r], t, n, receiver[t].view[n], data[n])
      BY <3>1, <3>2 DEF Caught
    <3> QED BY <1>4, <3>1, <3>3 DEF Unnoticed
  <2> QED BY <2>1, <2>2
<1> QED BY <1>15, <1>18, <1>19 DEF ViewInv, StartsFit, ViewsFit

LEMMA ServeViews ==
  ASSUME TypeOK, DataInv, ViewInv, NEW s \in Session, Serve(s)
  PROVE  ViewInv'
<1> DEFINE m == Head(toServer[s])
<1>1. /\ toServer[s] # <<>> /\ toServer' = [toServer EXCEPT ![s] = Tail(@)]
      /\ UNCHANGED <<owner, near, far, receiver, late, used>>
      /\ ServeBind(s, m) \/ ServeRelease(s, m) \/ ServeStart(s, m) \/ ServeStop(s, m)
  BY DEF Serve, clientVars
<1>2. toServer[s] \in Seq(Command) /\ m \in Command
  <2>1. toServer[s] \in Seq(Command)
    BY DEF TypeOK
  <2> HIDE DEF Command
  <2> QED BY <1>1, <2>1
<1>3. ASSUME m.type # "start", NEW r \in Session, NEW t \in Tag
      PROVE  SameStarts(toServer[r], toServer'[r], t)
  <2>1. toServer'[r] = IF r = s THEN Tail(toServer[r]) ELSE toServer[r]
    BY <1>1 DEF TypeOK
  <2>2. ~Starts(m, t)
    BY <1>3 DEF Starts
  <2>3. CASE r = s
    <3> HIDE DEF Command
    <3> QED BY <1>1, <1>2, <2>1, <2>2, <2>3, StartsTail DEF SameStarts
  <2>4. CASE r # s
    BY <2>1, <2>4 DEF SameStarts
  <2> QED BY <2>3, <2>4
<1>4. CASE ServeBind(s, m)
  <2>1. m.type # "start"
    BY <1>4 DEF ServeBind
  <2> HIDE DEF m
  <2> QED BY <1>1, <1>2, <1>3, <1>4, <2>1, BindViews
<1>5. CASE ServeRelease(s, m)
  <2>1. m.type = "release" /\ ReleaseId(s, m.ser)
    BY <1>5 DEF ServeRelease
  <2>2. m.ser \in Serial
    BY <1>2, <2>1 DEF Command, Call
  <2>3. PICK z \in Serial \cup {0} : ReleaseId(s, z)
    BY <2>1, <2>2
  <2>4. StartsGo
    BY <1>3, <2>1 DEF StartsGo, SameStarts
  <2> QED BY <1>1, <2>3, <2>4, ReleaseViews
<1>6. CASE ServeStart(s, m)
  BY <1>1, <1>6, StartViews
<1>7. CASE ServeStop(s, m)
  <2>1. /\ m.type # "start"
        /\ data' = data /\ searchi' = searchi /\ toClient' = toClient /\ threw' = threw
    BY <1>7 DEF ServeStop
  <2>2. \A r \in Session, t \in Tag : SameStarts(toServer[r], toServer'[r], t)
    BY <1>3, <2>1
  <2>3. \A t \in Tag : SameView(t)
    BY <1>1 DEF SameView
  <2>4. \A r \in Session : Live(r)' => Live(r)
    BY <1>1 DEF Live
  <2> QED BY <1>1, <2>1, <2>2, <2>3, <2>4, ViewsKept
<1> QED BY <1>1, <1>4, <1>5, <1>6, <1>7

\* A client sends a command that starts no search.
LEMMA SendViews ==
  ASSUME TypeOK, ViewInv, NEW c \in Client, NEW s \in Session, NEW m \in Command,
         m.type # "start", SendCommand(c, s, m),
         UNCHANGED <<data, searchi, late, used, threw>>, \A t \in Tag : SameView(t)
  PROVE  ViewInv'
<1>1. \A t : ~Starts(m, t)
  BY DEF Starts
<1>2. /\ \A r \in Session, t \in Tag : SameStarts(toServer[r], toServer'[r], t)
      /\ toClient' = toClient
      /\ \A r \in Session : /\ near'[r] => near[r] \/ owner[r] = None
                            /\ Live(r)' => Live(r) \/ owner[r] = None
                            /\ owner[r] # None => owner'[r] # None
  BY <1>1, SendStarts
<1> QED BY <1>2, ViewsKept

LEMMA SearchViews ==
  ASSUME TypeOK, SessionsFit, ViewInv, NEW c \in Client, NEW p \in Pattern, NEW once \in BOOLEAN,
         Search(c, p, once)
  PROVE  ViewInv'
<1>1. PICK t0 \in Tag \ used, s \in Session :
        /\ SendCommand(c, s, [type |-> "start", tag |-> t0, pattern |-> p])
        /\ receiver' = [receiver EXCEPT ![t0] =
             [client |-> c, pattern |-> p, async |-> once, singleshot |-> once,
              filled |-> FALSE, view |-> Nothing]]
        /\ used' = used \cup {t0}
  BY DEF Search
<1>2. UNCHANGED <<data, searchi, late, threw>>
  BY DEF Search, serverVars, histVars
<1> DEFINE m == [type |-> "start", tag |-> t0, pattern |-> p]
<1>3. m \in Command /\ m.pattern = p /\ \A t : Starts(m, t) <=> t = t0
  BY DEF Command, Starts
<1> HIDE DEF m
<1>4. /\ \A r \in Session, t \in Tag : ~Starts(m, t) \/ r # s =>
           SameStarts(toServer[r], toServer'[r], t)
      /\ \A t \in Tag : Starts(m, t) /\ NoStart(toServer[s], t) =>
           NoStart(toServer'[s], t) \/ OneStart(toServer'[s], t, m.pattern)
      /\ toClient' = toClient
      /\ \A r \in Session : /\ near'[r] => near[r] \/ owner[r] = None
                            /\ Live(r)' => Live(r) \/ owner[r] = None
                            /\ owner[r] # None => owner'[r] # None
  <2>1. SendCommand(c, s, m)
    BY <1>1 DEF m
  <2> QED BY <1>3, <2>1, SendStarts
<1>5. HomesFit /\ StartsFit /\ ViewsFit
  BY DEF ViewInv
<1>6. \A r \in Session : ~Home(r, t0)
  BY <1>1, <1>5 DEF HomesFit
<1>7. owner'[s] # None
  <2>1. owner'[s] = c
    <3>1. CASE sess[c] # 0
      BY <1>1, <3>1 DEF SendCommand, SessionsFit
    <3>2. CASE sess[c] = 0
      <4>1. owner' = [owner EXCEPT ![s] = c]
        BY <1>1, <3>2 DEF SendCommand
      <4> QED BY <4>1 DEF TypeOK
    <3> QED BY <3>1, <3>2
  <2> QED BY <2>1
<1>8. \A t \in Tag : t # t0 => receiver'[t] = receiver[t]
  BY <1>1 DEF TypeOK
<1>9. receiver'[t0].view = Nothing /\ receiver'[t0].pattern = p
  <2>1. receiver'[t0] = [client |-> c, pattern |-> p, async |-> once, singleshot |-> once,
                         filled |-> FALSE, view |-> Nothing]
    BY <1>1 DEF TypeOK
  <2> QED BY <2>1
<1>10. \A r \in Session, t \in Tag : Home(r, t)' => Home(r, t) \/ (r = s /\ t = t0)
  BY <1>2, <1>3, <1>4 DEF Home, StartAt, SameStarts
<1>11. HomesFit'
  <2>1. \A r \in Session, t \in Tag : Home(r, t)' => t \in used' /\ owner'[r] # None
    BY <1>1, <1>4, <1>5, <1>7, <1>10 DEF HomesFit
  <2>2. \A q, r \in Session, t \in Tag : Home(q, t)' /\ Home(r, t)' => q = r
    BY <1>5, <1>6, <1>10 DEF HomesFit
  <2>3. ASSUME NEW d \in Client, NEW t \in Tag, Tells(late'[d], t)
        PROVE  t \in used' /\ \A r \in Session : near'[r] => ~Home(r, t)'
    <3>1. t \in used /\ \A r \in Session : near[r] => ~Home(r, t)
      BY <1>2, <1>5, <2>3 DEF HomesFit
    <3>2. \A r \in Session : owner[r] = None => ~Home(r, t)
      BY <1>5 DEF HomesFit
    <3>3. t # t0
      BY <1>1, <3>1
    <3> QED BY <1>1, <1>4, <1>10, <3>1, <3>2, <3>3
  <2>4. \A t \in Tag : t \notin used' => receiver'[t] = None
    BY <1>1, <1>5, <1>8 DEF HomesFit
  <2> QED BY <2>1, <2>2, <2>3, <2>4 DEF HomesFit
<1>12. ASSUME NEW r \in Session, NEW t \in Tag, ~(r = s /\ t = t0)
       PROVE  Started(r, t)' /\ (~threw' => Caught(r, t)')
  <2>1. CASE t = t0
    <3>1. ~Home(r, t)'
      BY <1>6, <1>10, <1>12, <2>1
    <3> QED BY <3>1, NotHomeFits
  <2>2. CASE t # t0
    <3>1. SameStarts(toServer[r], toServer'[r], t)
      BY <1>3, <1>4, <2>2
    <3>2. SameView(t) /\ Started(r, t) /\ receiver'[t] = receiver[t]
      BY <1>5, <1>8, <2>2 DEF SameView, StartsFit
    <3>3. Started(r, t)'
      <4>1. searchi'[r][t] \in {searchi[r][t], None}
        BY <1>2
      <4> QED BY <1>4, <1>5, <3>1, <3>2, <4>1, StartedKept
    <3>4. ASSUME ~threw'
          PROVE  Caught(r, t)'
      <4>1. Caught(r, t)
        BY <1>2, <1>5, <3>4 DEF ViewsFit
      <4>2. owner[r] = None => searchi[r][t] = None
        BY <1>5, NoOwnerNoHome
      <4>3. Live(r)' /\ searchi[r][t] # None => Live(r)
        BY <1>4, <4>2
      <4> QED BY <1>2, <1>4, <3>2, <4>1, <4>3 DEF Caught
    <3> QED BY <3>3, <3>4
  <2> QED BY <2>1, <2>2
<1>13. Started(s, t0)' /\ Caught(s, t0)'
  <2>1. NoStart(toServer[s], t0) /\ searchi[s][t0] = None /\ ~Tells(toClient[s], t0)
    BY <1>6 DEF Home, StartAt
  <2>2. Fresh(s, t0, p)'
    BY <1>2, <1>4, <1>9, <2>1 DEF Fresh, Nothing
  <2>3. NoStart(toServer'[s], t0) \/ OneStart(toServer'[s], t0, p)
    BY <1>3, <1>4, <2>1
  <2>4. searchi'[s][t0] = None
    BY <1>2, <2>1
  <2> QED BY <2>2, <2>3, <2>4 DEF Started, Caught
<1> QED BY <1>11, <1>12, <1>13 DEF ViewInv, StartsFit, ViewsFit

\* What the execution of a message leaves as it is: whom it does not concern.
Executed(m) ==
  /\ \A s \in Session, t \in Tag : SameStarts(toServer[s], toServer'[s], t)
  /\ \A t \in Tag : /\ receiver[t] = None => receiver'[t] = None
                    /\ ~Concerns(m, t) => receiver'[t] = receiver[t]
\* And what it does to whom it does.
Showed(m) ==
  \A t \in Tag : receiver[t] # None /\ Concerns(m, t) =>
    /\ receiver'[t].pattern = receiver[t].pattern
    /\ \A n \in Name :
         receiver'[t].view[n] = IF Touches(m, t, n) THEN Effect(m, n) ELSE receiver[t].view[n]

LEMMA ChangeShows ==
  ASSUME TypeOK, NEW c, NEW s \in Session, NEW m, ReceiveChange(c, s, m)
  PROVE  Executed(m) /\ Showed(m)
<1> DEFINE T == {t \in m.tags : receiver[t] # None}
           once == {t \in T : m.type = "add" /\ receiver[t].singleshot}
<1>1. /\ m.type \in {"add", "remove"}
      /\ receiver' = [t \in Tag |->
           IF t \notin T THEN receiver[t]
           ELSE IF m.type = "add" THEN Added(t, m.entries) ELSE Removed(t, m.names)]
      /\ toServer' = IF once = {} \/ far[s] # "up" THEN toServer
           ELSE [toServer EXCEPT ![s] = Append(@, [type |-> "stop", tags |-> once])]
  BY DEF ReceiveChange
<1>2. \A t \in Tag : receiver'[t] =
        IF t \notin T THEN receiver[t]
        ELSE IF m.type = "add" THEN Added(t, m.entries) ELSE Removed(t, m.names)
  BY <1>1
<1>3. \A t : Concerns(m, t) <=> t \in m.tags
  BY <1>1 DEF Concerns
<1>4. ASSUME NEW r \in Session, NEW t \in Tag
      PROVE  SameStarts(toServer[r], toServer'[r], t)
  <2>1. toServer[r] \in Seq(Command)
    BY DEF TypeOK
  <2>2. CASE toServer'[r] = toServer[r]
    BY <2>2 DEF SameStarts
  <2>3. CASE toServer'[r] # toServer[r]
    <3> DEFINE x == [type |-> "stop", tags |-> once]
    <3>1. toServer' = [toServer EXCEPT ![s] = Append(@, x)]
      BY <1>1, <2>3
    <3>2. toServer'[r] = Append(toServer[r], x)
      <4> HIDE DEF x, Command
      <4>1. toServer \in [Session -> Seq(Command)]
        BY DEF TypeOK
      <4> QED BY <2>3, <3>1, <4>1
    <3>3. x.type = "stop" /\ \A i \in DOMAIN Append(toServer[r], x) :
            \/ Append(toServer[r], x)[i] = x
            \/ i \in DOMAIN toServer[r] /\ Append(toServer[r], x)[i] = toServer[r][i]
      <4>1. x.type = "stop"
        OBVIOUS
      <4> HIDE DEF x, Command
      <4> QED BY <2>1, <4>1
    <3>4. /\ Len(toServer[r]) + 1 \in DOMAIN Append(toServer[r], x)
          /\ \A i \in DOMAIN toServer[r] :
               i \in DOMAIN Append(toServer[r], x) /\ Append(toServer[r], x)[i] = toServer[r][i]
      <4> HIDE DEF x, Command
      <4> QED BY <2>1
    <3>5. ~Starts(x, t)
      BY <3>3 DEF Starts
    <3>6. PICK b : b = Append(toServer[r], x)
      OBVIOUS
    <3> HIDE DEF x
    <3>7. NoStart(toServer[r], t) => NoStart(b, t)
      BY <3>3, <3>5, <3>6 DEF NoStart
    <3>8. ASSUME NEW p, OneStart(toServer[r], t, p)
          PROVE  OneStart(b, t, p)
      <4>1. PICK i \in DOMAIN toServer[r] :
              /\ Starts(toServer[r][i], t) /\ toServer[r][i].pattern = p
              /\ \A j \in DOMAIN toServer[r] : j # i => ~Starts(toServer[r][j], t)
        BY <3>8 DEF OneStart
      <4>2. i \in DOMAIN b /\ b[i] = toServer[r][i]
        BY <3>4, <3>6
      <4>3. \A j \in DOMAIN b : j # i => ~Starts(b[j], t)
        BY <3>3, <3>5, <3>6, <4>1
      <4> QED BY <4>1, <4>2, <4>3 DEF OneStart
    <3> QED BY <3>2, <3>6, <3>7, <3>8 DEF SameStarts
  <2> QED BY <2>2, <2>3
<1>5. Executed(m)
  <2>1. \A t \in Tag : /\ receiver[t] = None => receiver'[t] = None
                       /\ ~Concerns(m, t) => receiver'[t] = receiver[t]
    BY <1>2, <1>3
  <2> QED BY <1>4, <2>1 DEF Executed
<1>6. ASSUME NEW t \in Tag, receiver[t] # None, Concerns(m, t)
      PROVE  /\ receiver'[t].pattern = receiver[t].pattern
             /\ \A n \in Name : receiver'[t].view[n] =
                  IF Touches(m, t, n) THEN Effect(m, n) ELSE receiver[t].view[n]
  <2>1. t \in T
    BY <1>3, <1>6
  <2>2. receiver[t] \in Receiver
    BY <1>6 DEF TypeOK
  <2>3. CASE m.type = "add"
    <3>1. receiver'[t] = Added(t, m.entries)
      BY <1>2, <2>1, <2>3
    <3>2. /\ receiver'[t].pattern = receiver[t].pattern
          /\ receiver'[t].view = [n \in Name |-> IF m.entries[n] # None THEN m.entries[n]
                                                 ELSE receiver[t].view[n]]
      BY <2>2, <3>1 DEF Added, Receiver
    <3> QED BY <1>3, <1>6, <2>3, <3>2 DEF Touches, Effect
  <2>4. CASE m.type = "remove"
    <3>1. receiver'[t] = Removed(t, m.names)
      BY <1>2, <2>1, <2>4
    <3>2. /\ receiver'[t].pattern = receiver[t].pattern
          /\ receiver'[t].view = [n \in Name |-> IF n \in m.names THEN None
                                                 ELSE receiver[t].view[n]]
      BY <2>2, <3>1 DEF Removed, Receiver
    <3> QED BY <1>3, <1>6, <2>4, <3>2 DEF Touches, Effect
  <2> QED BY <1>1, <2>3, <2>4
<1> QED BY <1>5, <1>6 DEF Showed

\* A message was executed that concerns no search in an open session, but for
\* those of the session s.
LEMMA OthersFit ==
  ASSUME ViewInv, NEW m, Executed(m), UNCHANGED <<near, far, searchi, data, threw>>,
         NEW r \in Session, NEW t \in Tag, toClient'[r] = toClient[r],
         near[r] /\ Concerns(m, t) => ~Home(r, t)
  PROVE  Started(r, t)' /\ (~threw' => Caught(r, t)')
<1>1. HomesFit /\ StartsFit /\ ViewsFit
  BY DEF ViewInv
<1>2. SameStarts(toServer[r], toServer'[r], t)
  BY DEF Executed
<1>3. CASE ~near[r]
  BY <1>3 DEF Started, Caught, Live
<1>4. CASE near[r] /\ Concerns(m, t)
  <2>1. ~Home(r, t)'
    BY <1>2, <1>4 DEF Home, StartAt, SameStarts
  <2> QED BY <2>1, NotHomeFits
<1>5. CASE ~Concerns(m, t)
  <2>1. receiver'[t] = receiver[t]
    BY <1>5 DEF Executed
  <2>2. Started(r, t) /\ SameView(t)
    BY <1>1, <2>1 DEF StartsFit, SameView
  <2>3. searchi'[r][t] \in {searchi[r][t], None}
    OBVIOUS
  <2>4. Started(r, t)'
    BY <1>1, <1>2, <2>2, <2>3, StartedKept
  <2>5. ~threw => Caught(r, t)
    BY <1>1 DEF ViewsFit
  <2>6. ~threw' => Caught(r, t)'
    BY <2>1, <2>5 DEF Caught, Live
  <2> QED BY <2>4, <2>6
<1> QED BY <1>3, <1>4, <1>5

LEMMA ReceiveViews ==
  ASSUME TypeOK, ViewInv, NEW c \in Client, ClientReceive(c)
  PROVE  ViewInv'
<1>s. PICK s \in Session : s = sess[c]
  BY DEF ClientReceive, TypeOK
<1> DEFINE q == toClient[s]
           m == Head(q)
<1>1. /\ q # <<>>
      /\ toClient' = [toClient EXCEPT ![s] = Tail(@)]
      /\ TakeReply(c, m) \/ (Ignore /\ m.type = "reply") \/ ReceiveChange(c, s, m)
      /\ UNCHANGED <<owner, near, far, data, searchi, late, used, threw>>
  BY <1>s DEF ClientReceive, serverVars
<1>2. q \in Seq(Message)
  BY <1>1 DEF TypeOK
<1>3. \A r \in Session : toClient'[r] = IF r = s THEN Tail(q) ELSE toClient[r]
  BY <1>1 DEF TypeOK
<1>4. Executed(m) /\ Showed(m)
  <2>1. CASE m.type = "reply" /\ UNCHANGED <<receiver, toServer>>
    BY <2>1 DEF Executed, Showed, Concerns, SameStarts
  <2>2. CASE ReceiveChange(c, s, m)
    <3> HIDE DEF m
    <3> QED BY <1>1, <2>2, ChangeShows
  <2> QED BY <1>1, <2>1, <2>2 DEF TakeReply, Ignore
<1>5. HomesFit /\ StartsFit /\ ViewsFit
  BY DEF ViewInv
<1>6. \A t : /\ Tells(Tail(q), t) => Tells(q, t)
             /\ Concerns(m, t) => Tells(q, t)
  <2> HIDE DEF q, Message
  <2> QED BY <1>1, <1>2, TellsTail
<1> HIDE DEF m
<1>7. \A r \in Session, t \in Tag : Home(r, t)' => Home(r, t)
  BY <1>1, <1>3, <1>4, <1>6 DEF Home, StartAt, Executed, SameStarts
<1>8. HomesFit'
  <2>1. \A t \in Tag : receiver[t] = None => receiver'[t] = None
    BY <1>4 DEF Executed
  <2> QED BY <1>1, <1>5, <1>7, <2>1, HomesKept
<1>9. ASSUME NEW r \in Session, NEW t \in Tag, r # s
      PROVE  Started(r, t)' /\ (~threw' => Caught(r, t)')
  <2>1. Concerns(m, t) => ~Home(r, t)
    <3>1. Concerns(m, t) => Home(s, t)
      BY <1>6 DEF Home
    <3> QED BY <1>1, <1>5, <1>9, <3>1 DEF HomesFit
  <2>2. toClient'[r] = toClient[r]
    BY <1>3, <1>9
  <2> QED BY <1>1, <1>4, <2>1, <2>2, OthersFit
<1>10. ASSUME NEW t \in Tag
       PROVE  Started(s, t)' /\ (~threw' => Caught(s, t)')
  <2>1. Started(s, t) /\ (~threw => Caught(s, t))
    BY <1>1, <1>5 DEF StartsFit, ViewsFit
  <2>2. SameStarts(toServer[s], toServer'[s], t) /\ toClient'[s] = Tail(q)
    BY <1>1, <1>3, <1>4 DEF Executed
  <2>3. CASE ~Concerns(m, t)
    <3>1. receiver'[t] = receiver[t]
      BY <1>4, <2>3 DEF Executed
    <3>2. Started(s, t)'
      <4>1. searchi'[s][t] \in {searchi[s][t], None} /\ SameView(t)
        BY <1>1, <3>1 DEF SameView
      <4>2. Tells(toClient'[s], t) => Tells(toClient[s], t)
        BY <1>6, <2>2
      <4> QED BY <1>1, <1>5, <2>1, <2>2, <4>1, <4>2, StartedKept
    <3>3. ASSUME ~threw'
          PROVE  Caught(s, t)'
      <4> SUFFICES ASSUME Live(s), searchi[s][t] # None, receiver[t] # None,
                          NEW n \in searchi[s][t]
                   PROVE  Says(Tail(q), t, n, receiver[t].view[n], data[n])
        BY <1>1, <2>2, <3>1 DEF Caught, Live
      <4>1. Says(q, t, n, receiver[t].view[n], data[n])
        BY <1>1, <2>1, <3>3 DEF Caught
      <4>2. ~Touches(m, t, n)
        BY <2>3 DEF Touches, Concerns
      <4> HIDE DEF q, Message
      <4> QED BY <1>1, <1>2, <4>1, <4>2, SaysTail DEF m
    <3> QED BY <3>2, <3>3
  <2>4. CASE Concerns(m, t)
    <3>1. Tells(q, t)
      BY <1>6, <2>4
    <3>2. near[s] => NoStart(toServer[s], t)
      BY <2>1, <3>1 DEF Started, Fresh
    <3>3. receiver'[t] # None =>
            /\ receiver[t] # None
            /\ receiver'[t].pattern = receiver[t].pattern
            /\ \A n \in Name : receiver'[t].view[n] =
                 IF Touches(m, t, n) THEN Effect(m, n) ELSE receiver[t].view[n]
      BY <1>4, <2>4 DEF Executed, Showed
    <3>4. Started(s, t)'
      BY <1>1, <2>1, <2>2, <3>2, <3>3 DEF Started, SameStarts
    <3>5. ASSUME ~threw'
          PROVE  Caught(s, t)'
      <4> SUFFICES ASSUME Live(s), searchi[s][t] # None, receiver'[t] # None,
                          NEW n \in searchi[s][t]
                   PROVE  Says(Tail(q), t, n, receiver'[t].view[n], data[n])
        BY <1>1, <2>2 DEF Caught, Live
      <4>1. Says(q, t, n, receiver[t].view[n], data[n])
        BY <1>1, <2>1, <3>3, <3>5 DEF Caught
      <4>2. n \in Name
        <5>1. searchi[s][t] \in Pattern
          BY <1>1 DEF TypeOK
        <5> QED BY <5>1
      <4>3. receiver'[t].view[n] =
              IF Touches(m, t, n) THEN Effect(m, n) ELSE receiver[t].view[n]
        BY <3>3, <4>2
      <4>4. /\ Touches(m, t, n) => Says(Tail(q), t, n, Effect(m, n), data[n])
            /\ ~Touches(m, t, n) => Says(Tail(q), t, n, receiver[t].view[n], data[n])
        <5> HIDE DEF q, Message
        <5> QED BY <1>1, <1>2, <4>1, SaysTail DEF m
      <4> QED BY <4>3, <4>4
    <3> QED BY <3>4, <3>5
  <2> QED BY <2>3, <2>4
<1>11. \A r \in Session, t \in Tag : Started(r, t)' /\ (~threw' => Caught(r, t)')
  BY <1>9, <1>10
<1> QED BY <1>8, <1>11 DEF ViewInv, StartsFit, ViewsFit

LEMMA LateViews ==
  ASSUME TypeOK, ViewInv, NEW c \in Client, ClientReceiveLate(c)
  PROVE  ViewInv'
<1> DEFINE q == late[c]
           m == Head(q)
<1>1. /\ q # <<>> /\ late' = [late EXCEPT ![c] = Tail(@)]
      /\ \/ TakeReply(c, m) \/ Ignore
         \/ sess[c] # 0 /\ ReceiveChange(c, sess[c], m)
      /\ UNCHANGED <<owner, near, far, toClient, data, searchi, used, threw>>
  BY DEF ClientReceiveLate, serverVars
<1>2. q \in Seq(Message)
  BY DEF TypeOK
<1>3. Executed(m)
  <2>1. CASE UNCHANGED <<receiver, toServer>>
    BY <2>1 DEF Executed, SameStarts
  <2>2. CASE sess[c] # 0 /\ ReceiveChange(c, sess[c], m)
    <3>1. PICK s \in Session : ReceiveChange(c, s, m)
      BY <2>2 DEF TypeOK
    <3> HIDE DEF m
    <3> QED BY <3>1, ChangeShows
  <2> QED BY <1>1, <2>1, <2>2 DEF TakeReply, Ignore
<1>4. \A t : /\ Tells(Tail(q), t) => Tells(q, t)
             /\ Concerns(m, t) => Tells(q, t)
  <2> HIDE DEF q, Message
  <2> QED BY <1>1, <1>2, TellsTail
<1>5. \A d \in Client : late'[d] = IF d = c THEN Tail(q) ELSE late[d]
  BY <1>1 DEF TypeOK
<1>6. HomesFit /\ StartsFit /\ ViewsFit
  BY DEF ViewInv
<1>7. \A d \in Client, t \in Tag : Tells(late'[d], t) => Tells(late[d], t)
  BY <1>4, <1>5
<1>8. \A r \in Session, t \in Tag : near[r] /\ Concerns(m, t) => ~Home(r, t)
  BY <1>4, <1>6 DEF HomesFit
<1> HIDE DEF m, q
<1>9. \A r \in Session, t \in Tag : Home(r, t)' => Home(r, t)
  BY <1>1, <1>3 DEF Home, StartAt, Executed, SameStarts
<1>10. HomesFit'
  <2>1. \A t \in Tag : receiver[t] = None => receiver'[t] = None
    BY <1>3 DEF Executed
  <2> QED BY <1>1, <1>6, <1>7, <1>9, <2>1, HomesKept
<1>11. \A r \in Session, t \in Tag : Started(r, t)' /\ (~threw' => Caught(r, t)')
  BY <1>1, <1>3, <1>8, OthersFit
<1> QED BY <1>10, <1>11 DEF ViewInv, StartsFit, ViewsFit

LEMMA LostViews ==
  ASSUME TypeOK, ViewInv, NEW c \in Client, ClientLost(c)
  PROVE  ViewInv'
<1> DEFINE s == sess[c]
<1>1. /\ s \in Session
      /\ near' = [near EXCEPT ![s] = FALSE] /\ toClient' = [toClient EXCEPT ![s] = <<>>]
      /\ UNCHANGED <<owner, far, toServer, data, searchi, used, threw>>
  BY DEF ClientLost, TypeOK, serverVars, histVars
<1>2. PICK k \in 0 .. Len(toClient[s]) :
        late' = [late EXCEPT ![c] = @ \o SubSeq(toClient[s], 1, k)]
  BY DEF ClientLost
<1>3. \A r \in Session : /\ near'[r] = IF r = s THEN FALSE ELSE near[r]
                         /\ toClient'[r] = IF r = s THEN <<>> ELSE toClient[r]
  BY <1>1 DEF TypeOK
<1>4. \A t : ~Tells(<<>>, t)
  BY DEF Tells
<1>5. ASSUME NEW d \in Client, NEW t \in Tag, Tells(late'[d], t)
      PROVE  Tells(late[d], t) \/ \E r \in Session : Tells(toClient[r], t) /\ ~near'[r]
  <2>1. late[c] \in Seq(Message) /\ toClient[s] \in Seq(Message)
    BY <1>1 DEF TypeOK
  <2>2. late'[d] = IF d = c THEN late[c] \o SubSeq(toClient[s], 1, k) ELSE late[d]
    BY <1>2 DEF TypeOK
  <2>3. CASE d = c
    <3>1. Tells(late[c], t) \/ Tells(toClient[s], t)
      BY <1>2, <1>5, <2>1, <2>2, <2>3, TellsMore
    <3> QED BY <1>1, <1>3, <2>3, <3>1
  <2>4. CASE d # c
    BY <1>5, <2>2, <2>4
  <2> QED BY <2>3, <2>4
<1>6. ASSUME NEW t \in Tag
      PROVE  SameView(t)
  <2>1. PICK T \in SUBSET (search[c] \ {u \in search[c] : receiver[u] = None}) :
          receiver' = [u \in Tag |->
             IF u \in T /\ ~(receiver[u].filled /\ receiver[u].singleshot)
               THEN [receiver[u] EXCEPT !.singleshot = TRUE] ELSE receiver[u]]
    BY DEF ClientLost
  <2>2. receiver'[t] = receiver[t] \/ (t \in T /\ receiver'[t] = [receiver[t] EXCEPT !.singleshot = TRUE])
    BY <2>1
  <2>3. CASE receiver'[t] = receiver[t]
    BY <2>3 DEF SameView
  <2>4. CASE t \in T /\ receiver'[t] = [receiver[t] EXCEPT !.singleshot = TRUE]
    <3>1. receiver[t] # None /\ receiver[t] \in Receiver
      BY <2>4 DEF TypeOK
    <3>2. receiver'[t].view = receiver[t].view /\ receiver'[t].pattern = receiver[t].pattern
      BY <2>4, <3>1 DEF Receiver
    <3> QED BY <3>1, <3>2 DEF SameView
  <2> QED BY <2>2, <2>3, <2>4
<1>7. \A r \in Session, t \in Tag : SameStarts(toServer[r], toServer'[r], t)
  BY <1>1 DEF SameStarts
<1>8. \A r \in Session : Live(r)' => Live(r)
  BY <1>1, <1>3 DEF Live
<1>9. \A r \in Session, t \in Tag : Tells(toClient'[r], t) => Tells(toClient[r], t)
  BY <1>3, <1>4
<1> QED BY <1>1, <1>3, <1>5, <1>6, <1>7, <1>8, <1>9, ViewsKept

LEMMA DieViews ==
  ASSUME TypeOK, ViewInv, NEW c \in Client, ClientDie(c)
  PROVE  ViewInv'
<1>1. /\ near' = [s \in Session |-> near[s] /\ owner[s] # c]
      /\ toClient' = [s \in Session |-> IF owner[s] = c THEN <<>> ELSE toClient[s]]
      /\ late' = [late EXCEPT ![c] = <<>>]
      /\ receiver' = [t \in Tag |-> IF receiver[t] # None /\ receiver[t].client = c
                                      THEN None ELSE receiver[t]]
      /\ UNCHANGED <<owner, far, toServer, data, searchi, used, threw>>
  BY DEF ClientDie, serverVars, histVars
<1>2. \A r \in Session : /\ near'[r] => near[r] /\ toClient'[r] = toClient[r]
                         /\ toClient'[r] = toClient[r] \/ toClient'[r] = <<>>
  BY <1>1
<1>3. \A t : ~Tells(<<>>, t)
  BY DEF Tells
<1>4. \A d \in Client, t \in Tag : Tells(late'[d], t) => Tells(late[d], t)
  <2>1. \A d \in Client : late'[d] = late[d] \/ late'[d] = <<>>
    BY <1>1 DEF TypeOK
  <2> QED BY <1>3, <2>1
<1>5. \A t \in Tag : SameView(t)
  <2>1. \A t \in Tag : receiver'[t] = None \/ receiver'[t] = receiver[t]
    BY <1>1
  <2> QED BY <2>1 DEF SameView
<1>6. \A r \in Session, t \in Tag : SameStarts(toServer[r], toServer'[r], t)
  BY <1>1 DEF SameStarts
<1>7. \A r \in Session : Live(r)' => Live(r)
  BY <1>1, <1>2 DEF Live
<1>8. \A r \in Session, t \in Tag : Tells(toClient'[r], t) => Tells(toClient[r], t)
  BY <1>2, <1>3
<1> QED BY <1>1, <1>2, <1>4, <1>5, <1>6, <1>7, <1>8, ViewsKept

LEMMA ServerDieViews ==
  ASSUME TypeOK, ViewInv, ServerDie
  PROVE  ViewInv'
<1>1. /\ far' = [s \in Session |-> IF far[s] = "none" THEN "none" ELSE "gone"]
      /\ toServer' = [s \in Session |-> <<>>]
      /\ searchi' = [s \in Session |-> [t \in Tag |-> None]]
      /\ UNCHANGED <<owner, near, toClient, late, receiver, used, threw>>
  BY DEF ServerDie, clientVars, histVars
<1>2. \A r \in Session, t \in Tag : SameStarts(toServer[r], toServer'[r], t)
  BY <1>1 DEF SameStarts, NoStart
<1>3. \A t \in Tag : SameView(t)
  BY <1>1 DEF SameView
<1>4. \A r \in Session : ~Live(r)'
  BY <1>1 DEF Live
<1> QED BY <1>1, <1>2, <1>3, <1>4, ViewsKept

LEMMA ViewInit == Init => ViewInv
<1> SUFFICES ASSUME Init PROVE ViewInv
  OBVIOUS
<1>1. \A s \in Session, t \in Tag : /\ NoStart(toServer[s], t) /\ searchi[s][t] = None
                                    /\ ~Tells(toClient[s], t)
  BY DEF Init, NoStart, Tells
<1>2. \A c \in Client, t \in Tag : ~Tells(late[c], t)
  BY DEF Init, Tells
<1>3. \A t \in Tag : receiver[t] = None
  BY DEF Init
<1>4. HomesFit
  BY <1>1, <1>2, <1>3 DEF HomesFit, Home, StartAt
<1>5. \A s \in Session, t \in Tag : Started(s, t) /\ Caught(s, t)
  BY <1>1 DEF Started, Caught
<1> QED BY <1>4, <1>5 DEF ViewInv, StartsFit, ViewsFit

LEMMA ViewInductive ==
  ASSUME TypeOK, DataInv, BoundInv, ViewInv, [Next]_vars
  PROVE  ViewInv'
<1>1. SessionsFit
  BY DEF BoundInv
<1>2. ASSUME UNCHANGED <<owner, near, far, toServer, toClient, data, searchi, late, used, threw>>,
             \A t \in Tag : SameView(t)
      PROVE  ViewInv'
  <2>1. \A r \in Session, t \in Tag : SameStarts(toServer[r], toServer'[r], t)
    BY <1>2 DEF SameStarts
  <2>2. \A r \in Session : Live(r)' => Live(r)
    BY <1>2 DEF Live
  <2> QED BY <1>2, <2>1, <2>2, ViewsKept
<1>3. receiver' = receiver => \A t \in Tag : SameView(t)
  BY DEF SameView
<1>4. CASE UNCHANGED vars
  BY <1>2, <1>3, <1>4 DEF vars, sessionVars, serverVars, clientVars, histVars
<1>5. ASSUME NEW c \in Client, NEW n \in Name, Bind(c, n)
      PROVE  ViewInv'
  <2> DEFINE k == [type |-> "bind", name |-> n, ser |-> calls']
  <2>1. k \in Command /\ k.type # "start"
    BY <1>5 DEF Bind, TypeOK, Serial, Call, Command
  <2>2. PICK s \in Session : SendCommand(c, s, k)
    BY <1>5 DEF Bind
  <2>3. UNCHANGED <<data, searchi, late, used, threw, receiver>>
    BY <1>5 DEF Bind, serverVars, histVars
  <2> HIDE DEF k
  <2> QED BY <1>3, <2>1, <2>2, <2>3, SendViews
<1>6. ASSUME NEW c \in Client, Release(c)
      PROVE  ViewInv'
  <2> DEFINE k == [type |-> "release", ser |-> calls']
  <2>1. k \in Command /\ k.type # "start"
    BY <1>6 DEF Release, TypeOK, Serial, Call, Command
  <2>2. PICK s \in Session : SendCommand(c, s, k)
    BY <1>6 DEF Release
  <2>3. UNCHANGED <<data, searchi, late, used, threw, receiver>>
    BY <1>6 DEF Release, serverVars
  <2> HIDE DEF k
  <2> QED BY <1>3, <2>1, <2>2, <2>3, SendViews
<1>7. ASSUME NEW t0 \in Tag, Destroy(t0)
      PROVE  ViewInv'
  <2> DEFINE c == receiver[t0].client
             k == [type |-> "stop", tags |-> {t0}]
  <2>1. c \in Client /\ UNCHANGED <<data, searchi, late, used, threw>>
    BY <1>7 DEF Destroy, TypeOK, Receiver, serverVars, histVars
  <2>2. \A t \in Tag : SameView(t)
    <3>1. \A t \in Tag : receiver'[t] = IF t = t0 THEN None ELSE receiver[t]
      BY <1>7 DEF Destroy, TypeOK
    <3> QED BY <3>1 DEF SameView
  <2>3. CASE receiver[t0].singleshot
    BY <1>2, <1>7, <2>1, <2>2, <2>3 DEF Destroy, sessionVars
  <2>4. CASE ~receiver[t0].singleshot
    <3>1. PICK s \in Session : SendCommand(c, s, k)
      BY <1>7, <2>4 DEF Destroy
    <3>2. k \in Command /\ k.type # "start"
      BY DEF Command
    <3> HIDE DEF k, c
    <3> QED BY <2>1, <2>2, <3>1, <3>2, SendViews
  <2> QED BY <2>3, <2>4
<1>8. CASE ServerStart
  BY <1>2, <1>3, <1>8 DEF ServerStart, sessionVars, clientVars, histVars
<1> QED BY <1>1, <1>4, <1>5, <1>6, <1>7, <1>8, SearchViews, ReceiveViews, LateViews, LostViews,
           DieViews, ServeViews, ServerLostViews, ServerDieViews DEF Next

LEMMA ViewFollows ==
  ASSUME TypeOK, ViewInv
  PROVE  ViewCatchesUp
<1> SUFFICES ASSUME ~threw, NEW s \in Session, NEW t \in Tag, far[s] = "up", near[s],
                    searchi[s][t] # None, receiver[t] # None, NEW n \in receiver[t].pattern
             PROVE  Shown(t, n, toClient[s]) = data[n]
  BY DEF ViewCatchesUp
<1>1. Started(s, t) /\ Caught(s, t)
  BY DEF ViewInv, StartsFit, ViewsFit
<1>2. Says(toClient[s], t, n, receiver[t].view[n], data[n])
  BY <1>1 DEF Started, Caught, Live
<1>3. DOMAIN toClient[s] \subseteq Int
  <2>1. toClient[s] \in Seq(Message)
    BY DEF TypeOK
  <2> HIDE DEF Message
  <2> QED BY <2>1
<1> QED BY <1>2, <1>3, SaysShown

\* With what is on its way each receiver shows what is bound of its pattern, for any
\* number of clients, names, sessions and searches, however binds, releases, losses
\* and deaths are interleaved with its search, unless a notification threw.
THEOREM ViewsAlwaysCatchUp == Spec => []ViewCatchesUp
BY TypeInit, TypeInductive, DataInit, DataInductive, BoundInit, BoundInductive, ViewInit,
   ViewInductive, ViewFollows, PTL DEF Spec
=============================================================================

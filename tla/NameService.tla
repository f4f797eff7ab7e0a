---------------------------- MODULE NameService ----------------------------
(***************************************************************************)
(* The name service: modules/nns/server.tcl, and its client,               *)
(* modules/nns/nns.tcl.                                                    *)
(*                                                                         *)
(* Clients bind names at the server, release them, and search for names,   *)
(* once or with a receiver that follows the changes.  They talk through    *)
(* comm (see Comm): a client has one comm channel at a time, and through   *)
(* it one session with the server, which lasts until one of the two loses  *)
(* the connection; the next call opens a new one, under a new id.          *)
(* Commands and notifications of a session arrive in order.  What either   *)
(* side has read from a session it executes even when the connection is    *)
(* lost before.                                                            *)
(***************************************************************************)
EXTENDS Integers, Sequences

CONSTANTS
  Client,      \* the client processes; each binds names to its own data
  Name,        \* names
  Pattern,     \* search patterns, each the set of the names it matches
  None,        \* nobody, nothing
  MaxSession,  \* bound: connections opened in a behaviour
  MaxTag,      \* bound: receivers created in a behaviour
  MaxCall,     \* bound: calls of bind and release
  MaxDeath,    \* bound: how often the server dies
  Mortals      \* clients that may die

ASSUME NoneAssumption    == None \notin Client /\ None \notin Pattern
ASSUME PatternAssumption == Pattern \subseteq SUBSET Name
ASSUME BoundAssumption   == MaxSession \in Nat /\ MaxTag \in Nat
                            /\ MaxCall \in Nat /\ MaxDeath \in Nat
ASSUME MortalAssumption  == Mortals \subseteq Client

Session == 1 .. MaxSession
Tag     == 1 .. MaxTag
Serial  == 1 .. MaxCall

\* A client's commands, and what it receives: the reply to a command it waits
\* for, and changes, "add" and "remove", for its receivers.  What is sent in one
\* go for several receivers of one client is one message here, for their tags.
\* The serial tells the commands with a reply from each other; in the code each
\* comm channel counts its own, from the start.
Call == [type : {"bind"}, name : Name, ser : Serial]
        \cup [type : {"release"}, ser : Serial]

\* A client that waits for no reply has None for its command.
ASSUME NoCallAssumption == None \notin Call

Command ==
  Call \cup [type : {"start"}, tag : Tag, pattern : Pattern] \cup [type : {"stop"}, tags : SUBSET Tag]
Entries == [Name -> Client \cup {None}]
Message ==
  [type : {"reply"}, ok : BOOLEAN, ser : Serial]
  \cup [type : {"add"}, tags : SUBSET Tag, entries : Entries]
  \cup [type : {"remove"}, tags : SUBSET Tag, names : SUBSET Name]

VARIABLES
  \* the sessions
  owner,     \* s -> the client that opened it, None before
  near,      \* s -> the client's end is open
  far,       \* s -> the server's end: "none", "up", "lost", and "gone" with its process
  toServer,  \* s -> commands under way, or read by the server and not executed
  toClient,  \* s -> messages under way
  \* the server
  up,        \* it is running
  deaths,    \* how often it died
  names,     \* s -> names($id)
  data,      \* n -> data($name), None if it is not bound
  searchi,   \* s -> tag -> searchi($id $tag), None if there is no such search
  searchp,   \* p -> searchp($pattern), the searches of the pattern
  \* the clients
  alive,     \* the clients that are running
  sess,      \* c -> its session, 0 if it has no comm channel
  call,      \* c -> the command whose reply it waits for, None
  late,      \* c -> messages of a lost session, read before the loss, to be executed
  search,    \* c -> the receivers in its table
  receiver,  \* t -> the receiver object, None if it does not exist (any more)
  used,      \* the tags of receivers created so far
  calls,     \* how often bind and release were called
  \* history
  threw,     \* a notification could not be sent, and the rest was not
  crossed,   \* a command took the reply to a command of a lost session for its own
  mine       \* s -> the names its client bound with success and did not release

sessionVars == <<owner, near, far, toServer, toClient>>
serverVars  == <<up, deaths, names, data, searchi, searchp>>
clientVars  == <<alive, sess, call, late, search, receiver, used, calls>>
histVars    == <<threw, crossed, mine>>
vars == <<sessionVars, serverVars, clientVars, histVars>>

Nothing  == [n \in Name |-> None]
Receiver == [client : Client, pattern : Pattern, async : BOOLEAN,
             singleshot : BOOLEAN, filled : BOOLEAN, view : Entries]

Init ==
  /\ owner    = [s \in Session |-> None]
  /\ near     = [s \in Session |-> FALSE]
  /\ far      = [s \in Session |-> "none"]
  /\ toServer = [s \in Session |-> <<>>]
  /\ toClient = [s \in Session |-> <<>>]
  /\ up = TRUE /\ deaths = 0
  /\ names   = [s \in Session |-> {}]
  /\ data    = Nothing
  /\ searchi = [s \in Session |-> [t \in Tag |-> None]]
  /\ searchp = [p \in Pattern |-> {}]
  /\ alive    = Client
  /\ sess     = [c \in Client |-> 0]
  /\ call     = [c \in Client |-> None]
  /\ late     = [c \in Client |-> <<>>]
  /\ search   = [c \in Client |-> {}]
  /\ receiver = [t \in Tag |-> None]
  /\ used     = {}
  /\ calls    = 0
  /\ threw = FALSE /\ crossed = FALSE
  /\ mine  = [s \in Session |-> {}]

---------------------------------------------------------------------------
(***************************************************************************)
(* The client's side of a session.                                         *)
(***************************************************************************)

\* SERV: the comm channel there is, or a new one, and the connection to the
\* server it makes; then what is sent.
SendCommand(c, s, m) ==
  \/ /\ sess[c] # 0 /\ s = sess[c]
     /\ toServer' = IF far[s] = "up" THEN [toServer EXCEPT ![s] = Append(@, m)]
                    ELSE toServer
     /\ UNCHANGED <<owner, near, far, toClient, sess>>
  \/ /\ sess[c] = 0 /\ up
     /\ owner[s] = None /\ \A r \in Session : r < s => owner[r] # None
     /\ owner'    = [owner EXCEPT ![s] = c]
     /\ near'     = [near EXCEPT ![s] = TRUE]
     /\ far'      = [far EXCEPT ![s] = "up"]
     /\ sess'     = [sess EXCEPT ![c] = s]
     /\ toServer' = [toServer EXCEPT ![s] = <<m>>]
     /\ UNCHANGED toClient

\* bind and release wait for the server's reply.
Bind(c, n) ==
  /\ c \in alive /\ call[c] = None
  /\ calls < MaxCall /\ calls' = calls + 1
  /\ \E s \in Session : SendCommand(c, s, [type |-> "bind", name |-> n, ser |-> calls'])
  /\ call' = [call EXCEPT ![c] = [type |-> "bind", name |-> n, ser |-> calls']]
  /\ UNCHANGED <<serverVars, alive, late, search, receiver, used, histVars>>

Release(c) ==
  /\ c \in alive /\ call[c] = None
  /\ calls < MaxCall /\ calls' = calls + 1
  /\ \E s \in Session :
       /\ SendCommand(c, s, [type |-> "release", ser |-> calls'])
       /\ mine' = [mine EXCEPT ![s] = {}]
  /\ call' = [call EXCEPT ![c] = [type |-> "release", ser |-> calls']]
  /\ UNCHANGED <<serverVars, alive, late, search, receiver, used, threw, crossed>>

\* search -async and -continuous: a receiver, entered in the table.
Search(c, p, once) ==
  /\ c \in alive
  /\ \E t \in Tag \ used, s \in Session :
       /\ \A r \in Tag : r < t => r \in used
       /\ SendCommand(c, s, [type |-> "start", tag |-> t, pattern |-> p])
       /\ receiver' = [receiver EXCEPT ![t] =
            [client |-> c, pattern |-> p, async |-> once, singleshot |-> once,
             filled |-> FALSE, view |-> Nothing]]
       /\ search' = [search EXCEPT ![c] = @ \cup {t}]
       /\ used'   = used \cup {t}
  /\ UNCHANGED <<serverVars, alive, call, late, calls, histVars>>

\* The destructor of a receiver stops a continuous search.  The receiver stays
\* in the table.
Destroy(t) ==
  /\ receiver[t] # None /\ receiver[t].client \in alive
  /\ IF receiver[t].singleshot
       THEN UNCHANGED <<sessionVars, sess>>
       ELSE \E s \in Session :
              SendCommand(receiver[t].client, s, [type |-> "stop", tags |-> {t}])
  /\ receiver' = [receiver EXCEPT ![t] = None]
  /\ UNCHANGED <<serverVars, alive, call, late, search, used, calls, histVars>>

\* commExec of a reply: the command the client waits for takes it, or nobody does.
TakeReply(c, m) ==
  /\ m.type = "reply" /\ call[c] # None
  /\ call' = [call EXCEPT ![c] = None]
  /\ mine' = IF m.ok /\ call[c].type = "bind"
               THEN [mine EXCEPT ![sess[c]] = @ \cup {call[c].name}] ELSE mine
  /\ UNCHANGED <<receiver, toServer>>

Awaits(c, ser) == call[c] # None /\ call[c].ser = ser

\* Nobody waits for it, or nobody can execute it.
Ignore == UNCHANGED <<call, mine, receiver, toServer>>

\* DATA add and DATA remove of the receivers that still exist: each one stops
\* the search after an addition if it is a single shot.
Added(t, e) ==
  [receiver[t] EXCEPT !.filled = TRUE,
     !.view = [n \in Name |-> IF e[n] # None THEN e[n] ELSE @[n]]]
Removed(t, N) ==
  [receiver[t] EXCEPT !.filled = TRUE, !.view = [n \in Name |-> IF n \in N THEN None ELSE @[n]]]

ReceiveChange(c, s, m) ==
  LET T    == {t \in m.tags : receiver[t] # None}
      once == {t \in T : m.type = "add" /\ receiver[t].singleshot}
  IN /\ m.type \in {"add", "remove"}
     /\ receiver' = [t \in Tag |->
          IF t \notin T THEN receiver[t]
          ELSE IF m.type = "add" THEN Added(t, m.entries) ELSE Removed(t, m.names)]
     /\ toServer' = IF once = {} \/ far[s] # "up" THEN toServer
          ELSE [toServer EXCEPT ![s] = Append(@, [type |-> "stop", tags |-> once])]
     /\ UNCHANGED <<call, mine>>

ClientReceive(c) ==
  LET s == sess[c]
      m == Head(toClient[s])
  IN /\ c \in alive /\ late[c] = <<>> /\ s # 0 /\ toClient[s] # <<>>
     /\ toClient' = [toClient EXCEPT ![s] = Tail(@)]
     /\ \/ TakeReply(c, m) /\ Awaits(c, m.ser)
        \/ Ignore /\ m.type = "reply" /\ ~Awaits(c, m.ser)
        \/ ReceiveChange(c, s, m)
     /\ UNCHANGED <<owner, near, far, serverVars, alive, sess, late, search, used, calls,
                    threw, crossed>>

\* A message of a lost session is executed.  Without a comm channel it fails.  On
\* a new one, which has the name of the old and counts its serials from the start
\* again, a change reaches its receivers, and a command that waits may take the
\* reply for its own.
ClientReceiveLate(c) ==
  LET m == Head(late[c])
  IN /\ c \in alive /\ late[c] # <<>>
     /\ late' = [late EXCEPT ![c] = Tail(@)]
     /\ \/ TakeReply(c, m) /\ crossed' = TRUE
        \/ Ignore /\ (m.type = "reply" \/ sess[c] = 0) /\ UNCHANGED crossed
        \/ sess[c] # 0 /\ ReceiveChange(c, sess[c], m) /\ UNCHANGED crossed
     /\ UNCHANGED <<owner, near, far, toClient, serverVars, alive, sess, search, used, calls,
                    threw>>

\* LOST: the comm channel is destroyed, and a command that waits ends with an
\* error.  What comm has read stays to be executed, the rest is dropped.  The receivers of the table are stopped one after the other, up to one
\* that does not exist any more: then nothing of what follows is done.
ClientLost(c) ==
  LET s    == sess[c]
      dead == {t \in search[c] : receiver[t] = None}
  IN /\ c \in alive /\ s # 0 /\ far[s] # "up"
     /\ near' = [near EXCEPT ![s] = FALSE]
     /\ toClient' = [toClient EXCEPT ![s] = <<>>]
     /\ \E k \in 0 .. Len(toClient[s]) :
          late' = [late EXCEPT ![c] = @ \o SubSeq(toClient[s], 1, k)]
     /\ sess' = [sess EXCEPT ![c] = 0]
     /\ call' = [call EXCEPT ![c] = None]
     /\ \E T \in SUBSET (search[c] \ dead) :
          /\ dead = {} => T = search[c]
          /\ search' = [search EXCEPT ![c] = @ \ T]
          /\ receiver' = [t \in Tag |->
               IF t \in T /\ ~(receiver[t].filled /\ receiver[t].singleshot)
                 THEN [receiver[t] EXCEPT !.singleshot = TRUE] ELSE receiver[t]]
     /\ UNCHANGED <<owner, far, toServer, serverVars, alive, used, calls, histVars>>

\* The client dies.
ClientDie(c) ==
  /\ c \in alive \cap Mortals
  /\ alive' = alive \ {c}
  /\ near' = [s \in Session |-> near[s] /\ owner[s] # c]
  /\ toClient' = [s \in Session |-> IF owner[s] = c THEN <<>> ELSE toClient[s]]
  /\ sess' = [sess EXCEPT ![c] = 0]
  /\ call' = [call EXCEPT ![c] = None]
  /\ late' = [late EXCEPT ![c] = <<>>]
  /\ search' = [search EXCEPT ![c] = {}]
  /\ receiver' = [t \in Tag |-> IF receiver[t] # None /\ receiver[t].client = c
                                   THEN None ELSE receiver[t]]
  /\ UNCHANGED <<owner, far, toServer, serverVars, used, calls, histVars>>

---------------------------------------------------------------------------
(***************************************************************************)
(* The server.                                                             *)
(***************************************************************************)

Searches == Session \X Tag

Tags(D, s) == {t \in Tag : <<s, t>> \in D}

\* The message m reaches the searches D.
Delivered(D, m) ==
  [s \in Session |-> IF near[s] /\ Tags(D, s) # {}
                       THEN Append(toClient[s], [m EXCEPT !.tags = Tags(D, s)]) ELSE toClient[s]]

Addition(e) == [type |-> "add", tags |-> {}, entries |-> e]
Removal(N)  == [type |-> "remove", tags |-> {}, names |-> N]

\* The flush to a client that is gone may throw; the connection of a new channel
\* to one whose session was lost does.
MayThrow(s) == ~near[s] \/ far[s] = "lost"

\* Notify for the searches T: one after the other, up to one that throws.
NotifiedBefore(T) ==
  {D \in SUBSET T : /\ \A e \in D : far[e[1]] = "up"
                    /\ D = T \/ \E e \in T \ D : MayThrow(e[1])}

\* Mutant of Watching: only the searches for exactly these names.
WatchingExactly(N) == UNION {searchp[p] : p \in {q \in Pattern : q = N}}

\* The searches whose pattern matches one of the names.
Watching(N) == UNION {searchp[p] : p \in {q \in Pattern : q \cap N # {}}}

\* Mutants of Replied: an error is answered as success, or not at all.
RepliedAlwaysOk(w, s, ser, ok) ==
  IF near[s] /\ far[s] = "up"
    THEN [w EXCEPT ![s] = Append(@, [type |-> "reply", ok |-> TRUE, ser |-> ser])] ELSE w
RepliedIfOk(w, s, ser, ok) ==
  IF ok /\ near[s] /\ far[s] = "up"
    THEN [w EXCEPT ![s] = Append(@, [type |-> "reply", ok |-> ok, ser |-> ser])] ELSE w

\* commSendReply
Replied(w, s, ser, ok) ==
  IF near[s] /\ far[s] = "up"
    THEN [w EXCEPT ![s] = Append(@, [type |-> "reply", ok |-> ok, ser |-> ser])] ELSE w

\* f for the names of N.
Only(N, f) == [n \in Name |-> IF n \in N THEN f[n] ELSE None]

ServeBind(s, m) ==
  /\ m.type = "bind"
  /\ UNCHANGED <<searchi, searchp>>
  /\ IF data[m.name] # None
       THEN /\ toClient' = Replied(toClient, s, m.ser, FALSE)
            /\ UNCHANGED <<names, data, threw>>
       ELSE /\ names' = [names EXCEPT ![s] = @ \cup {m.name}]
            /\ data'  = [data EXCEPT ![m.name] = owner[s]]
            /\ \E D \in NotifiedBefore(Watching({m.name})) :
                 /\ toClient' = Replied(Delivered(D, Addition(Only({m.name}, data'))),
                                        s, m.ser, D = Watching({m.name}))
                 /\ threw' = (threw \/ D # Watching({m.name}))

\* Mutant of Drop: the pattern keeps the searches.
DropKeepsPatterns(S) ==
  /\ searchi' = [s \in Session |-> [t \in Tag |->
                   IF <<s, t>> \in S THEN None ELSE searchi[s][t]]]
  /\ UNCHANGED searchp

\* Search/Release of the searches S.
Drop(S) ==
  /\ searchi' = [s \in Session |-> [t \in Tag |->
                   IF <<s, t>> \in S THEN None ELSE searchi[s][t]]]
  /\ searchp' = [p \in Pattern |-> searchp[p] \ S]

\* ReleaseId: the searches of a session first, then its names, with a
\* notification for the searches of others; the answer, unless ser is 0.
ReleaseId(s, ser) ==
  LET N == names[s]
      T == {e \in Watching(N) : e[1] # s}
  IN /\ Drop({s} \X Tag)
     /\ names' = [names EXCEPT ![s] = {}]
     /\ data'  = [n \in Name |-> IF n \in N THEN None ELSE data[n]]
     /\ \E D \in NotifiedBefore(T) :
          /\ toClient' = IF ser = 0 THEN Delivered(D, Removal(N))
                                    ELSE Replied(Delivered(D, Removal(N)), s, ser, D = T)
          /\ threw' = (threw \/ D # T)

ServeRelease(s, m) ==
  /\ m.type = "release"
  /\ ReleaseId(s, m.ser)

\* Search/Continuous/Start: the first answer is what is bound now.
ServeStart(s, m) ==
  /\ m.type = "start"
  /\ IF searchi[s][m.tag] # None
       THEN UNCHANGED <<searchi, searchp, toClient>>
       ELSE /\ searchi' = [searchi EXCEPT ![s][m.tag] = m.pattern]
            /\ searchp' = [searchp EXCEPT ![m.pattern] = @ \cup {<<s, m.tag>>}]
            /\ toClient' = IF far[s] = "up"
                             THEN Delivered({<<s, m.tag>>}, Addition(Only(m.pattern, data)))
                             ELSE toClient
  /\ UNCHANGED <<names, data, threw>>

\* Search/Continuous/Stop reads the variable comm, which it does not declare: it
\* ends with an error before it stops anything, and nobody waits for a reply.
ServeStop(s, m) ==
  /\ m.type = "stop"
  /\ UNCHANGED <<names, data, searchi, searchp, toClient, threw>>

\* The server executes the next command of a session.
Serve(s) ==
  /\ up /\ far[s] \in {"up", "lost"} /\ toServer[s] # <<>>
  /\ toServer' = [toServer EXCEPT ![s] = Tail(@)]
  /\ LET m == Head(toServer[s])
     IN ServeBind(s, m) \/ ServeRelease(s, m) \/ ServeStart(s, m) \/ ServeStop(s, m)
  /\ UNCHANGED <<owner, near, far, up, deaths, clientVars, crossed, mine>>

\* comm finds the end of the connection: the commands it has read already stay
\* to be executed, the rest is dropped.  LOST releases what the session has.
ServerLost(s) ==
  /\ up /\ far[s] = "up" /\ ~near[s]
  /\ far' = [far EXCEPT ![s] = "lost"]
  /\ \E k \in 0 .. Len(toServer[s]) :
       toServer' = [toServer EXCEPT ![s] = SubSeq(@, 1, k)]
  /\ ReleaseId(s, 0)
  /\ UNCHANGED <<owner, near, up, deaths, clientVars, crossed, mine>>

\* The server's process dies; a new one starts with nothing.
ServerDie ==
  /\ up /\ deaths < MaxDeath
  /\ up' = FALSE /\ deaths' = deaths + 1
  /\ far' = [s \in Session |-> IF far[s] = "none" THEN "none" ELSE "gone"]
  /\ toServer' = [s \in Session |-> <<>>]
  /\ names'   = [s \in Session |-> {}]
  /\ data'    = Nothing
  /\ searchi' = [s \in Session |-> [t \in Tag |-> None]]
  /\ searchp' = [p \in Pattern |-> {}]
  /\ UNCHANGED <<owner, near, toClient, clientVars, histVars>>

ServerStart ==
  /\ ~up /\ up' = TRUE
  /\ UNCHANGED <<sessionVars, deaths, names, data, searchi, searchp, clientVars, histVars>>

---------------------------------------------------------------------------

Next ==
  \/ \E c \in Client :
       \/ Release(c) \/ ClientReceive(c) \/ ClientReceiveLate(c)
       \/ ClientLost(c) \/ ClientDie(c)
       \/ \E n \in Name : Bind(c, n)
       \/ \E p \in Pattern, once \in BOOLEAN : Search(c, p, once)
  \/ \E t \in Tag : Destroy(t)
  \/ \E s \in Session : Serve(s) \/ ServerLost(s)
  \/ ServerDie \/ ServerStart

Spec == Init /\ [][Next]_vars

\* The server and the clients run their event loops.
Fairness ==
  /\ \A s \in Session : WF_vars(Serve(s)) /\ WF_vars(ServerLost(s))
  /\ \A c \in Client : 
       /\ WF_vars(ClientReceive(c)) /\ WF_vars(ClientReceiveLate(c))
       /\ WF_vars(ClientLost(c))

FairSpec == Spec /\ Fairness

---------------------------------------------------------------------------
(***************************************************************************)
(* Properties.                                                             *)
(***************************************************************************)

\* The shape of the state.
TypeOK ==
  /\ owner \in [Session -> Client \cup {None}]
  /\ near \in [Session -> BOOLEAN]
  /\ far \in [Session -> {"none", "up", "lost", "gone"}]
  /\ toServer \in [Session -> Seq(Command)]
  /\ toClient \in [Session -> Seq(Message)]
  /\ up \in BOOLEAN /\ deaths \in 0 .. MaxDeath
  /\ names \in [Session -> SUBSET Name]
  /\ data \in Entries
  /\ searchi \in [Session -> [Tag -> Pattern \cup {None}]]
  /\ searchp \in [Pattern -> SUBSET Searches]
  /\ alive \subseteq Client
  /\ sess \in [Client -> Session \cup {0}]
  /\ call \in [Client -> Call \cup {None}]
  /\ late \in [Client -> Seq(Message)]
  /\ search \in [Client -> SUBSET Tag]
  /\ receiver \in [Tag -> Receiver \cup {None}]
  /\ used \subseteq Tag /\ calls \in 0 .. MaxCall
  /\ threw \in BOOLEAN /\ crossed \in BOOLEAN
  /\ mine \in [Session -> SUBSET Name]

\* The database agrees with itself: a name has data exactly when one session has
\* bound it, the data is of that session's client, and the searches by pattern
\* and the patterns by search are the same; whatever throws halfway, and in
\* whatever order commands, losses and releases come.
DatabaseAgrees ==
  /\ \A n \in Name :
       /\ data[n] # None <=> \E s \in Session : n \in names[s]
       /\ \A s \in Session : n \in names[s] => data[n] = owner[s]
       /\ \A r, s \in Session : n \in names[r] \cap names[s] => r = s
  /\ \A s \in Session, t \in Tag, p \in Pattern :
       searchi[s][t] = p <=> <<s, t>> \in searchp[p]

\* bind "will throw an error if the chosen name is already registered": what a
\* client was told it has bound, the server has bound to it, as long as it knows
\* the session.  After a loss, a bind may take the reply to an earlier command of
\* the lost session for its own.
ToldIsBound ==
  \A s \in Session : far[s] = "up" /\ near[s] =>
    \/ mine[s] \subseteq names[s]
    \/ \E i \in DOMAIN toServer[s] : toServer[s][i].type = "release"

\* As long as no reply was taken for another, that is so, and when nothing is
\* under way and no notification threw, the server has bound nothing else.
BoundIsMine ==
  ~crossed =>
    /\ ToldIsBound
    /\ \A s \in Session : far[s] = "up" /\ near[s] /\ ~threw /\ call[owner[s]] = None =>
         mine[s] = names[s]

\* What receiver t will show for name n after the messages q: what the last of
\* them that concerns both says, or what it shows now.
Shown(t, n, q) ==
  LET I == {i \in DOMAIN q :
              \/ q[i].type = "add" /\ t \in q[i].tags /\ q[i].entries[n] # None
              \/ q[i].type = "remove" /\ t \in q[i].tags /\ n \in q[i].names}
      last == q[CHOOSE i \in I : \A j \in I : j <= i]
  IN IF I = {} THEN receiver[t].view[n]
     ELSE IF last.type = "add" THEN last.entries[n] ELSE None

\* A receiver catches up: with what is on its way, it shows what is bound of its
\* pattern, however binds, releases and losses of others were interleaved with
\* its search, unless a notification threw.
ViewCatchesUp ==
  ~threw =>
    \A s \in Session, t \in Tag :
      far[s] = "up" /\ near[s] /\ searchi[s][t] # None /\ receiver[t] # None =>
        \A n \in receiver[t].pattern : Shown(t, n, toClient[s]) = data[n]

\* bind and release return, also when the server dies.
CallReturns ==
  \A c \in Client : call[c] # None ~> call[c] = None

\* "A registered name is automatically removed by the server when the connection
\* to it collapses": a command read before the loss and executed after it binds
\* a name, and nobody will ever release it.
NamesOfTheLostGo ==
  \A s \in Session : far[s] = "lost" => names[s] = {}

\* A search -async is filled once "and then not modified any more": when the
\* server has executed all the client sent, it does not follow a search any more
\* whose receiver was filled once and for all.
AsyncSearchEnds ==
  \A s \in Session, t \in Tag :
    far[s] = "up" /\ near[s] /\ toServer[s] = <<>> /\ searchi[s][t] # None =>
      ~(receiver[t] # None /\ receiver[t].singleshot /\ receiver[t].filled)
=============================================================================

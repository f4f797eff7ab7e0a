---------------------------- MODULE NameServAuto ----------------------------
(***************************************************************************)
(* The client of the name service that restores what it had bound:         *)
(* modules/nns/nns_auto.tcl, on top of modules/nns/nns.tcl.                *)
(*                                                                         *)
(* It remembers the names it binds.  When the connection to the server is  *)
(* lost, an event of uevent has it reconnect: it asks the server for its   *)
(* features, at once and then by a timer until it answers, and binds again *)
(* what it remembers, and starts its search again.  Every call of the      *)
(* server waits in the event loop: events, timers and calls of the         *)
(* application are executed inside it.  Of the server and of the client    *)
(* below only what concerns this client is here (see NameService).         *)
(***************************************************************************)
EXTENDS Integers, Sequences

CONSTANTS
  Name,      \* names
  None, Me, Past, Rival,  \* who has bound a name: this client, in this session or a past one
  MaxLoss,   \* bound: losses of the connection, deaths of the server included
  MaxCall,   \* bound: calls of the application
  MaxNest    \* bound: calls of the server that wait inside each other

ASSUME AutoBoundAssumption == MaxLoss \in Nat /\ MaxCall \in Nat /\ MaxNest \in Nat
ASSUME OwnerAssumption == Me \notin {None, Past, Rival} /\ Past \notin {None, Rival} /\ Rival # None

Owner == {None, Me, Past, Rival}

VARIABLES
  up,        \* the server runs
  data,      \* name -> who has bound it at the server
  losses,    \* how often the connection was lost
  conn,      \* the comm channel: "none", "up", or "gone" before the loss is noticed
  bindings,  \* the names remembered
  timer,     \* the variable of that name is set
  timers,    \* timers that were started and did not fire
  lost,      \* lost-connection events in the event queue
  search,    \* the persistent search: "none", "live", "answered" if it was asynchronous
             \* and is done, "destroyed"
  followed,  \* the server follows it
  callsMade, \* calls of the application
  frames,    \* the calls of the server under way, the innermost last
  \* history
  dropped,   \* names released while there was a connection, and not bound since
  ceded,     \* names a restoration forgot that no other client had, not remembered since
  broken     \* a restoration was ended by a name that could not be forgotten

server  == <<up, data>>
history == <<dropped, ceded, broken>>
aVars == <<server, losses, conn, bindings, timer, timers, lost, search, followed, callsMade, frames,
          history>>

\* A call of the server: for Reconnect (features), for Enter (bind) or for
\* release; the answer, if there is one; for a restoration the names left to do.
\* A frame "rebind" is a restoration between two calls.  A name that is bound
\* already may be another client's or its own: the server and the client treat the
\* two answers alike, "taken" and "own".
Reply == {"wait", "ok", "taken", "own", "failed"}
Frame == [kind : {"features", "bind", "release", "rebind"}, name : Name \cup {None},
          restoring : BOOLEAN, rest : SUBSET Name, answer : Reply]

Calling(kind, n, restoring, rest) ==
  [kind |-> kind, name |-> n, restoring |-> restoring, rest |-> rest, answer |-> "wait"]
Rebinding(rest) == [Calling("rebind", None, TRUE, rest) EXCEPT !.answer = "ok"]

AutoInit ==
  /\ up \in BOOLEAN /\ data = [n \in Name |-> None]
  /\ losses = 0 /\ conn = "none"
  /\ bindings = {} /\ timer = FALSE /\ timers = 0 /\ lost = 0
  /\ search = "none" /\ followed = FALSE
  /\ callsMade = 0 /\ frames = <<>>
  /\ dropped = {} /\ ceded = {} /\ broken = FALSE

---------------------------------------------------------------------------
(***************************************************************************)
(* The server, another client, and the connection.                         *)
(***************************************************************************)

\* The server executes the next call it has received.
Serve ==
  \E i \in DOMAIN frames :
    /\ up /\ conn = "up"
    /\ frames[i].answer = "wait" /\ \A j \in 1 .. i - 1 : frames[j].answer # "wait"
    /\ LET f == frames[i]
           n == f.name
       IN CASE f.kind = "features" ->
                 frames' = [frames EXCEPT ![i].answer = "ok"] /\ UNCHANGED data
            [] f.kind = "release" ->
                 /\ frames' = [frames EXCEPT ![i].answer = "ok"]
                 /\ data' = [m \in Name |-> IF data[m] = Me THEN None ELSE data[m]]
            [] f.kind = "bind" ->
                 IF data[n] = None
                   THEN /\ frames' = [frames EXCEPT ![i].answer = "ok"]
                        /\ data' = [data EXCEPT ![n] = Me]
                   ELSE /\ frames' = [frames EXCEPT ![i].answer =
                                        IF data[n] = Rival THEN "taken" ELSE "own"]
                        /\ UNCHANGED data
  /\ UNCHANGED <<up, losses, conn, bindings, timer, timers, lost, search, followed, callsMade, history>>

\* Another client binds a name, or releases it.
RivalActs(n) ==
  /\ up
  /\ \/ data[n] = None  /\ data' = [data EXCEPT ![n] = Rival]
     \/ data[n] = Rival /\ data' = [data EXCEPT ![n] = None]
  /\ UNCHANGED <<up, losses, conn, bindings, timer, timers, lost, search, followed, callsMade, frames,
                 history>>

\* The connection breaks: the names stay bound until the server notices.
Break ==
  /\ conn = "up" /\ losses < MaxLoss /\ losses' = losses + 1
  /\ conn' = "gone"
  /\ data' = [n \in Name |-> IF data[n] = Me THEN Past ELSE data[n]]
  /\ UNCHANGED <<up, bindings, timer, timers, lost, search, followed, callsMade, frames, history>>

ServerNotices ==
  /\ \E n \in Name : data[n] = Past
  /\ data' = [n \in Name |-> IF data[n] = Past THEN None ELSE data[n]]
  /\ UNCHANGED <<up, losses, conn, bindings, timer, timers, lost, search, followed, callsMade, frames,
                 history>>

ServerDie ==
  /\ up /\ losses < MaxLoss /\ losses' = losses + 1
  /\ up' = FALSE
  /\ conn' = IF conn = "up" THEN "gone" ELSE conn
  /\ data' = [n \in Name |-> None]
  /\ UNCHANGED <<bindings, timer, timers, lost, search, followed, callsMade, frames, history>>

ServerStart ==
  /\ ~up /\ up' = TRUE
  /\ UNCHANGED <<data, losses, conn, bindings, timer, timers, lost, search, followed, callsMade, frames,
                 history>>

---------------------------------------------------------------------------
(***************************************************************************)
(* The client.                                                             *)
(***************************************************************************)

Top == frames[Len(frames)]
Popped == SubSeq(frames, 1, Len(frames) - 1)

\* The event loop runs: nothing is under way, or it waits for the server.
EventLoop == frames # <<>> => Top.kind # "rebind" /\ Top.answer = "wait"

\* SERV: there is a connection, or the server accepts one.
Connects == conn # "none" \/ up
Connected == conn' = IF conn = "none" THEN "up" ELSE conn

\* Mutant of StartReconnect: only the variable is set.
StartNoTimer == timer' = TRUE /\ UNCHANGED timers

StartReconnect ==
  /\ timer' = TRUE
  /\ timers' = IF timer THEN timers ELSE timers + 1

\* Mutant of Retry: Reconnect gives up when there is no server.
RetryNot(n) == timer' = FALSE /\ timers' = n

\* StartReconnect in Reconnect, after StopReconnect, with n timers pending.
Retry(n) == timer' = TRUE /\ timers' = n + 1

\* Reconnect, with n timers pending after it is called: StopReconnect forgets the
\* timer and does not cancel it.
Reconnect(n) ==
  /\ Len(frames) < MaxNest
  /\ IF Connects
       THEN /\ Connected
            /\ timer' = FALSE /\ timers' = n
            /\ frames' = Append(frames, Calling("features", None, FALSE, {}))
       ELSE Retry(n) /\ UNCHANGED <<conn, frames>>
  /\ UNCHANGED <<server, losses, bindings, search, followed, callsMade, history>>

TimerFires == EventLoop /\ timers > 0 /\ Reconnect(timers - 1) /\ UNCHANGED lost
LossEvent  == EventLoop /\ lost > 0 /\ lost' = lost - 1 /\ Reconnect(timers)

\* A receiver that was destroyed is in the client's table of searches.
Stale == search \in {"answered", "destroyed"}

\* LOST: calls that wait fail; the event, unless a destroyed receiver is found
\* in the table before.
Lost ==
  /\ EventLoop /\ conn = "gone"
  /\ conn' = "none" /\ followed' = FALSE
  /\ frames' = [i \in DOMAIN frames |->
       IF frames[i].answer = "wait" THEN [frames[i] EXCEPT !.answer = "failed"] ELSE frames[i]]
  /\ lost' = IF Stale THEN lost ELSE lost + 1
  /\ UNCHANGED <<server, losses, bindings, timer, timers, search, callsMade, history>>

\* bind, and what it remembers before it has bound anything.
Bind(n) ==
  /\ EventLoop /\ callsMade < MaxCall /\ callsMade' = callsMade + 1
  /\ Len(frames) < MaxNest
  /\ bindings' = bindings \cup {n}
  /\ IF Connects
       THEN /\ Connected
            /\ frames' = Append(frames, Calling("bind", n, FALSE, {}))
            /\ UNCHANGED <<timer, timers>>
       ELSE StartReconnect /\ UNCHANGED <<conn, frames>>
  /\ dropped' = dropped \ {n} /\ ceded' = ceded \ {n}
  /\ UNCHANGED <<server, losses, lost, search, followed, broken>>

\* release: the server is told if the timer is set.
Release ==
  /\ EventLoop /\ callsMade < MaxCall /\ callsMade' = callsMade + 1
  /\ Len(frames) < MaxNest
  /\ bindings' = {}
  /\ IF timer /\ Connects
       THEN Connected /\ frames' = Append(frames, Calling("release", None, FALSE, {}))
       ELSE UNCHANGED <<conn, frames>>
  /\ dropped' = IF conn = "up" THEN Name ELSE dropped
  /\ ceded' = {}
  /\ UNCHANGED <<server, losses, timer, timers, lost, search, followed, broken>>

\* A call fails that nobody restores: bind forgets the name, release nothing.
CallEnds ==
  /\ frames # <<>> /\ Top.answer # "wait" /\ Top.kind \in {"bind", "release"} /\ ~Top.restoring
  /\ frames' = Popped
  /\ bindings' = IF Top.kind = "bind" /\ Top.answer # "ok" THEN bindings \ {Top.name} ELSE bindings
  /\ UNCHANGED <<server, losses, conn, timer, timers, lost, search, followed, callsMade, history>>

\* Reconnect has its answer: Rebind, or another try.
FeaturesAnswered ==
  /\ frames # <<>> /\ Top.kind = "features" /\ Top.answer # "wait"
  /\ IF Top.answer = "ok"
       THEN frames' = Append(Popped, Rebinding(bindings)) /\ UNCHANGED <<timer, timers>>
       ELSE frames' = Popped /\ StartReconnect
  /\ UNCHANGED <<server, losses, conn, bindings, lost, search, followed, callsMade, history>>

\* Rebind enters the next of the names there were when it began.
RebindNext(n) ==
  /\ frames # <<>> /\ Top.kind = "rebind" /\ n \in Top.rest
  /\ bindings' = bindings \cup {n}
  /\ IF Connects
       THEN /\ Connected
            /\ frames' = Append(Popped, Calling("bind", n, TRUE, Top.rest \ {n}))
            /\ UNCHANGED <<timer, timers>>
       ELSE frames' = Popped /\ StartReconnect /\ UNCHANGED conn
  /\ ceded' = ceded \ {n}
  /\ UNCHANGED <<server, losses, lost, search, followed, callsMade, dropped, broken>>

\* It has the answer: any error but that there is no server is taken to mean that
\* the name is lost, which is reported, be it that the name is its own already or
\* that the call failed in another loss; a name that was released meanwhile cannot
\* be unset, which ends the restoration.
RebindAnswered ==
  /\ frames # <<>> /\ Top.kind = "bind" /\ Top.restoring /\ Top.answer # "wait"
  /\ bindings' = IF Top.answer = "ok" THEN bindings ELSE bindings \ {Top.name}
  /\ LET ends == Top.answer # "ok" /\ Top.name \notin bindings
     IN /\ frames' = IF ends THEN Popped ELSE Append(Popped, Rebinding(Top.rest))
        /\ broken' = (broken \/ ends)
  /\ ceded' = IF Top.answer \in {"own", "failed"} THEN ceded \cup ({Top.name} \cap bindings)
                                                 ELSE ceded
  /\ UNCHANGED <<server, losses, conn, timer, timers, lost, search, followed, callsMade, dropped>>

\* It restores the search: the server is asked, and nobody waits for an answer.
\* A receiver that was destroyed is still to be restored, which is an error.
RebindEnds ==
  /\ frames # <<>> /\ Top.kind = "rebind" /\ Top.rest = {}
  /\ frames' = Popped
  /\ IF search = "live"
       THEN IF Connects THEN Connected /\ followed' = TRUE /\ UNCHANGED <<timer, timers>>
                        ELSE StartReconnect /\ UNCHANGED <<conn, followed>>
       ELSE UNCHANGED <<conn, followed, timer, timers>>
  /\ UNCHANGED <<server, losses, bindings, lost, search, callsMade, history>>

\* search -continuous or -async: the same.
Search ==
  /\ EventLoop /\ search = "none"
  /\ search' = "live"
  /\ IF Connects THEN Connected /\ followed' = TRUE /\ UNCHANGED <<timer, timers>>
                 ELSE StartReconnect /\ UNCHANGED <<conn, followed>>
  /\ UNCHANGED <<server, losses, bindings, lost, callsMade, frames, history>>

\* The receiver is destroyed by the application, or, if it was asynchronous, its
\* inner one as soon as the answer has come.
SearchEnds ==
  /\ EventLoop /\ search = "live" /\ followed
  /\ search' \in {"answered", "destroyed"}
  /\ UNCHANGED <<server, losses, conn, bindings, timer, timers, lost, followed, callsMade, frames,
                 history>>

AutoNext ==
  \/ Serve \/ Break \/ ServerNotices \/ ServerDie \/ ServerStart
  \/ TimerFires \/ LossEvent \/ Lost \/ Release
  \/ CallEnds \/ FeaturesAnswered \/ RebindAnswered \/ RebindEnds
  \/ Search \/ SearchEnds
  \/ \E n \in Name : RivalActs(n) \/ Bind(n) \/ RebindNext(n)

AutoSpec == AutoInit /\ [][AutoNext]_aVars

\* The server executes what it receives, notices losses, and is started again;
\* the client runs its event loop.
AutoFairness ==
  /\ WF_aVars(Serve) /\ WF_aVars(ServerNotices) /\ WF_aVars(ServerStart)
  /\ WF_aVars(TimerFires) /\ WF_aVars(LossEvent) /\ WF_aVars(Lost)
  /\ WF_aVars(CallEnds) /\ WF_aVars(FeaturesAnswered) /\ WF_aVars(RebindAnswered)
  /\ WF_aVars(RebindEnds) /\ WF_aVars(\E n \in Name : RebindNext(n))

AutoFairSpec == AutoSpec /\ AutoFairness

---------------------------------------------------------------------------
(***************************************************************************)
(* Properties.                                                             *)
(***************************************************************************)

\* The shape of the state.  No more timers run than one for each loss and one.
AutoTypeOK ==
  /\ up \in BOOLEAN /\ data \in [Name -> Owner]
  /\ losses \in 0 .. MaxLoss /\ conn \in {"none", "up", "gone"}
  /\ bindings \subseteq Name /\ timer \in BOOLEAN
  /\ timers \in 0 .. MaxLoss + 1 /\ lost \in 0 .. MaxLoss
  /\ search \in {"none", "live", "answered", "destroyed"} /\ followed \in BOOLEAN
  /\ callsMade \in 0 .. MaxCall
  /\ frames \in Seq(Frame) /\ Len(frames) <= MaxNest
  /\ dropped \subseteq Name /\ ceded \subseteq Name /\ broken \in BOOLEAN

\* Somebody will try to bind the name n again.
IsPursued(n) ==
  \/ timers > 0 \/ lost > 0 \/ conn = "gone"
  \/ \E i \in DOMAIN frames :
       \/ frames[i].kind = "features"
       \/ frames[i].kind = "rebind" /\ n \in frames[i].rest
       \/ frames[i].kind = "bind" /\ (n = frames[i].name \/ n \in frames[i].rest)

\* "This means that the bound names [...] are remembered client-side and
\* automatically re-entered into the server when the connection comes back after
\* its loss": a name that is remembered is bound, or somebody will try to.
Pursued == \A n \in bindings : data[n] = Me \/ IsPursued(n)

\* Two cases excepted.  A receiver of a search that was destroyed ends the report
\* of a loss; and a bind by the application that fails while the name is being
\* restored forgets the name, and the restoration ends when it is to do the same.
\* Otherwise it is so, in whatever way losses, timers, events and calls are
\* executed inside each other.
PursuedOtherwise == ~Stale /\ ~broken => Pursued

\* Nothing can be lost any more: the losses are used up, and what the last one left
\* behind is gone.
Settled ==
  /\ losses = MaxLoss /\ conn # "gone" /\ \A n \in Name : data[n] # Past
  /\ \A i \in DOMAIN frames : frames[i].answer \notin {"own", "failed"}

\* And it comes about, with the exceptions of PursuedOtherwise: a name that is
\* remembered is bound in the end or forgotten: released, refused to the application
\* that binds it, or given up by a restoration, which it is not only when another
\* client has it (see CededToOthers).  But when nothing is lost any more, and no
\* name of a past session is left, a restoration gives up a name that was not bound
\* meanwhile only if another client has it.
RestoredOtherwise ==
  \A n \in Name :
    /\ n \in bindings ~> data[n] = Me \/ n \notin bindings \/ Stale \/ broken
    /\ n \in bindings /\ Settled ~>
         data[n] = Me \/ (n \notin bindings /\ n \notin ceded) \/ Stale \/ broken

\* What a restoration gives up, and reports as lost-name, another client has: the
\* event "indicates that a different client took ownership of the name while this
\* client was out of contact" (nns_auto.man:75-76), and "another loss of the
\* connection, be it during or after re-entering the remembered information simply
\* restarts the timer" (nns_auto.man:113-115).  The code breaks it: every error but
\* "No name server" is taken for the first.
CededToOthers == ceded = {}

\* "Actually release the data only if the connection is currently not lost.
\* Otherwise they are gone already": what was released over a connection is not
\* bound once nothing is under way.
ReleasedIsReleased ==
  frames = <<>> /\ timers = 0 /\ lost = 0 /\ conn = "up" => \A n \in dropped : data[n] # Me
=============================================================================

------------------------------- MODULE Comm -------------------------------
(***************************************************************************)
(* Remote command execution between Tcl processes: modules/comm/comm.tcl.  *)
(*                                                                         *)
(* Every process has one comm channel, named by the process itself (the    *)
(* code's id is its port).  A channel keeps a table of connections and, by *)
(* serial number, of the commands it sent and has no reply for yet.  A     *)
(* process is one Tcl interpreter: a handler runs to completion, except    *)
(* where it calls vwait, which opens a nested event loop: a synchronous    *)
(* send does, and until its reply arrives the process keeps serving        *)
(* sockets and executing the commands of others, which may send and wait   *)
(* in their turn.  The loops unwind in the order opposite to their         *)
(* creation.  Serials only grow, so the nest of waiting sends of a process *)
(* is the set of its frames, the one with the largest serial on top.       *)
(*                                                                         *)
(* A script executed for a peer takes its own steps (a nested send, a      *)
(* return_async, a shutdown) between the prologue of commExec and its      *)
(* epilogue; while it runs nothing else happens in its process.            *)
(***************************************************************************)
EXTENDS Integers, Sequences

CONSTANTS
  Proc,        \* the processes, each with one listening comm channel
  NoProc,      \* no process: an array element that is not set
  MaxConn,     \* bound: connections opened in a behaviour
  MaxSerial,   \* bound: commands sent by one process
  Kinds,       \* the variants of send in use, of "send", "async", "command"
  Refusers,    \* processes whose hook for incoming connections may refuse
  Deferrers,   \* processes whose commands may promise their result for later
  Closers,     \* processes whose scripts may shut connections down
  Mortals      \* processes that may die

ASSUME ProcAssumption   == NoProc \notin Proc
ASSUME BoundAssumption  == MaxConn \in Nat /\ MaxSerial \in Nat
ASSUME KindsAssumption  == Kinds \subseteq {"send", "async", "command"}
ASSUME PeopleAssumption ==
  /\ Refusers \subseteq Proc /\ Deferrers \subseteq Proc
  /\ Closers \subseteq Proc /\ Mortals \subseteq Proc

Conn == 1 .. MaxConn            \* a connection; its number is the fid at both ends
Ser  == 1 .. MaxSerial
Call == Proc \X Ser             \* <<caller, serial>> identifies a command for good

\* What travels on a connection.  "offer" is the first line; "of" is no part
\* of the protocol, it tells which call the message is about.
Msg == [kind : {"offer", "reply", "callback"} \cup Kinds, ser : 0 .. MaxSerial,
        of : Proc \X (0 .. MaxSerial)]
Job == [fid : Conn, id : Proc, msg : Msg]
Request == {"send", "async", "command"}

NoJob    == [fid |-> 0, id |-> NoProc,
             msg |-> [kind |-> "none", ser |-> 0, of |-> <<NoProc, 0>>]]
NoLink   == [from |-> NoProc, to |-> NoProc]
NoFrame  == [id |-> NoProc, job |-> NoJob,
             current |-> [async |-> FALSE, job |-> NoJob], remoteid |-> NoProc]
NoResult == [tag |-> "none", of |-> <<NoProc, 0>>]
Lost     == [tag |-> "lost", of |-> <<NoProc, 0>>]

Link   == [from : Proc, to : Proc] \cup {NoLink}
State  == [async : BOOLEAN, job : Job \cup {NoJob}]
Frame  == [id : Proc, job : Job \cup {NoJob}, current : State,
           remoteid : Proc \cup {NoProc}]
Future == [job : Job \cup {NoJob}, owner : Job, canceled : BOOLEAN]
Result == {NoResult, Lost} \cup [tag : {"answer"}, of : Proc \X (0 .. MaxSerial)]
Entry  == Ser \X {"sync", "callback"}

VARIABLES
  \* the network
  link,        \* c -> the process that opened it and the one it reaches
  stage,       \* c -> how far the accepting side is: "free", "backlog", "offered", "up"
  open,        \* p -> the connections whose end at p is open
  wire,        \* p -> c -> what has been written to c and p has not read yet
  \* who is alive
  up,
  \* the tables of a channel
  serial,      \* p -> $ch,serial
  peers,       \* p -> id -> $ch,peers,$id, 0 when not set
  fids,        \* p -> fid -> $ch,fids,$fid, NoProc when not set
  haspending,  \* p -> the ids for which $ch,pending,$id is set
  pending,     \* p -> id -> its entries, {} when it is not set
  ret,         \* p -> serial -> $ch,return,$serial: "none", "waiting", "callback", "set"
  result,      \* p -> serial -> $ch,result,$serial
  \* the event loops of a process
  frame,       \* p -> serial -> the send waiting for it in a vwait, or NoFrame
  idle,        \* p -> the 'after idle' queue of commExec calls
  running,     \* p -> the remote command whose script is executing now, or NoJob
  remoteid,    \* p -> $ch,remoteid
  current,     \* p -> (current,async) and (current,state)
  futures,     \* p -> the future objects
  \* history
  execs,       \* p -> serial -> how often the command was executed
  told,        \* p -> serial -> what its synchronous send returned: "answer", "lost"
  called       \* p -> serial -> what its callback was invoked with

netVars   == <<link, stage, open, wire>>
tableVars == <<serial, peers, fids, haspending, pending>>
waitVars  == <<ret, result, frame>>
execVars  == <<idle, running, remoteid, current, futures>>
histVars  == <<execs, told, called>>
vars == <<netVars, up, tableVars, waitVars, execVars, histVars>>

Init ==
  /\ link  = [c \in Conn |-> NoLink]
  /\ stage = [c \in Conn |-> "free"]
  /\ open  = [p \in Proc |-> {}]
  /\ wire  = [p \in Proc |-> [c \in Conn |-> <<>>]]
  /\ up    = Proc
  /\ serial     = [p \in Proc |-> 0]
  /\ peers      = [p \in Proc |-> [q \in Proc |-> 0]]
  /\ fids       = [p \in Proc |-> [c \in Conn |-> NoProc]]
  /\ haspending = [p \in Proc |-> {}]
  /\ pending    = [p \in Proc |-> [q \in Proc |-> {}]]
  /\ ret      = [p \in Proc |-> [s \in Ser |-> "none"]]
  /\ result   = [p \in Proc |-> [s \in Ser |-> NoResult]]
  /\ frame    = [p \in Proc |-> [s \in Ser |-> NoFrame]]
  /\ idle     = [p \in Proc |-> <<>>]
  /\ running  = [p \in Proc |-> NoJob]
  /\ remoteid = [p \in Proc |-> NoProc]
  /\ current  = [p \in Proc |-> [async |-> FALSE, job |-> NoJob]]
  /\ futures  = [p \in Proc |-> {}]
  /\ execs    = [p \in Proc |-> [s \in Ser |-> 0]]
  /\ told     = [p \in Proc |-> [s \in Ser |-> <<>>]]
  /\ called   = [p \in Proc |-> [s \in Ser |-> <<>>]]

---------------------------------------------------------------------------
(***************************************************************************)
(* The event loop.                                                         *)
(***************************************************************************)

Peer(p, c) == IF link[c].from = p THEN link[c].to ELSE link[c].from

Waiting(p) == {s \in Ser : frame[p][s] # NoFrame}
Top(p, s)  == s \in Waiting(p) /\ \A t \in Waiting(p) : t <= s

\* Mutant of Awake: any vwait whose variable is written returns.
AwakeAnyOrder(p, s) == s \in Waiting(p) /\ result[p][s] # NoResult

\* The vwait of the innermost send has seen its variable written.
Awake(p, s) == Top(p, s) /\ result[p][s] # NoResult
Ready(p)    == \E s \in Ser : Awake(p, s)

\* The loop serves timers and sockets only until its vwait is satisfied.
Serving(p) == p \in up /\ running[p] = NoJob /\ ~Ready(p)

\* Code of p may call comm: the script of a remote command that is running,
\* or the program's own, from an event of the loop.
Calling(p) == p \in up /\ (running[p] # NoJob \/ ~Ready(p))

---------------------------------------------------------------------------
(***************************************************************************)
(* Connections.                                                            *)
(***************************************************************************)

\* The connection a command for q goes through: the known one, or a new one.
Usable(p, q, c) ==
  \/ peers[p][q] # 0 /\ c = peers[p][q]
  \/ /\ peers[p][q] = 0
     /\ q \in up
     /\ stage[c] = "free" /\ \A d \in Conn : d < c => stage[d] # "free"

\* puts and flush: what is written to an end whose other end is gone is lost.
Written(w, p, c, ms) ==
  IF c \in open[p] /\ c \in open[Peer(p, c)]
    THEN [w EXCEPT ![Peer(p, c)][c] = @ \o ms] ELSE w

\* commNewConn: an id that has a connection already keeps it, with its pending
\* list; the new fid is only entered in the reverse table.
NewConn(p, q, c) ==
  /\ peers' = [peers EXCEPT ![p][q] = IF @ = 0 THEN c ELSE @]
  /\ haspending' = [haspending EXCEPT ![p] = IF peers[p][q] = 0 THEN @ \cup {q} ELSE @]
  /\ fids' = [fids EXCEPT ![p][c] = q]

\* commConnect, and the messages the caller writes next.
ConnectAndWrite(p, q, c, ms) ==
  IF peers[p][q] # 0
    THEN /\ wire' = Written(wire, p, c, ms)
         /\ UNCHANGED <<link, stage, open, peers, fids, haspending>>
    ELSE /\ link'  = [link EXCEPT ![c] = [from |-> p, to |-> q]]
         /\ stage' = [stage EXCEPT ![c] = "backlog"]
         /\ open'  = [open EXCEPT ![p] = @ \cup {c}, ![q] = @ \cup {c}]
         /\ wire'  = [wire EXCEPT ![q][c] =
                        <<[kind |-> "offer", ser |-> 0, of |-> <<p, 0>>]>> \o ms]
         /\ NewConn(p, q, c)

\* comm connect
Connect(p, q) ==
  /\ Calling(p) /\ p # q /\ peers[p][q] = 0
  /\ \E c \in Conn : Usable(p, q, c) /\ ConnectAndWrite(p, q, c, <<>>)
  /\ UNCHANGED <<up, serial, pending, waitVars, execVars, histVars>>

Close(p, S) ==
  /\ open' = [open EXCEPT ![p] = @ \ S]
  /\ wire' = [wire EXCEPT ![p] = [c \in Conn |-> IF c \in S THEN <<>> ELSE @[c]]]

\* A connection is accepted; the incoming hook of p may refuse it.
CommIncoming(p, c) ==
  /\ Serving(p) /\ link[c].to = p /\ c \in open[p] /\ stage[c] = "backlog"
  /\ \/ stage' = [stage EXCEPT ![c] = "offered"] /\ UNCHANGED <<open, wire>>
     \/ p \in Refusers /\ stage' = [stage EXCEPT ![c] = "up"] /\ Close(p, {c})
  /\ UNCHANGED <<link, up, tableVars, waitVars, execVars, histVars>>

\* The protocol line arrives.  If the other side is gone it may be lost.
CommIncomingOffered(p, c) ==
  /\ Serving(p) /\ link[c].to = p /\ c \in open[p] /\ stage[c] = "offered"
  /\ stage' = [stage EXCEPT ![c] = "up"]
  /\ \/ /\ wire[p][c] # <<>>
        /\ wire' = [wire EXCEPT ![p][c] = Tail(@)]
        /\ NewConn(p, link[c].from, c)
        /\ UNCHANGED open
     \/ /\ c \notin open[link[c].from]
        /\ Close(p, {c})
        /\ UNCHANGED <<peers, fids, haspending>>
  /\ UNCHANGED <<link, up, serial, pending, waitVars, execVars, histVars>>

---------------------------------------------------------------------------
(***************************************************************************)
(* Losing connections.                                                     *)
(***************************************************************************)

\* Mutant of Entries: only the sends of a connection that is the id's own.
EntriesInUse(p, S) ==
  UNION {pending[p][fids[p][c]] : c \in {d \in S : peers[p][fids[p][d]] = d}}

Entries(p, S) == UNION {pending[p][fids[p][c]] : c \in S}

\* Mutant of Awaited: nobody looks whether someone still waits.
AwaitedAlways(p, s) == TRUE

\* $ch,return,$ser exists.
Awaited(p, s) == ret[p][s] # "none"

\* Mutants of Forget: without 'unset peers', and without 'unset pending'.
ForgetKeepsPeers(p, S) ==
  LET ids == {fids[p][c] : c \in S}
  IN /\ pending' = [pending EXCEPT ![p] = [q \in Proc |-> IF q \in ids THEN {} ELSE @[q]]]
     /\ haspending' = [haspending EXCEPT ![p] = @ \ ids]
     /\ fids'    = [fids EXCEPT ![p] = [c \in Conn |-> IF c \in S THEN NoProc ELSE @[c]]]
     /\ UNCHANGED peers

ForgetKeepsPending(p, S) ==
  LET ids == {fids[p][c] : c \in S}
  IN /\ peers'   = [peers EXCEPT ![p] = [q \in Proc |-> IF q \in ids THEN 0 ELSE @[q]]]
     /\ fids'    = [fids EXCEPT ![p] = [c \in Conn |-> IF c \in S THEN NoProc ELSE @[c]]]
     /\ UNCHANGED <<pending, haspending>>

\* The fids S leave the tables, and with them the ids they belong to.
Forget(p, S) ==
  LET ids == {fids[p][c] : c \in S}
  IN /\ pending' = [pending EXCEPT ![p] = [q \in Proc |-> IF q \in ids THEN {} ELSE @[q]]]
     /\ haspending' = [haspending EXCEPT ![p] = @ \ ids]
     /\ peers'   = [peers EXCEPT ![p] = [q \in Proc |-> IF q \in ids THEN 0 ELSE @[q]]]
     /\ fids'    = [fids EXCEPT ![p] = [c \in Conn |-> IF c \in S THEN NoProc ELSE @[c]]]

\* commLostConn for the fids S of p, each with a pending list: every send
\* waiting for one of these ids is given an error, every callback is invoked
\* with one (its command is not forgotten), the futures made for requests that
\* came in on S are canceled.
CommLostConn(p, S) ==
  LET sync == {s \in Ser : <<s, "sync">> \in Entries(p, S)}
      back == {s \in Ser : <<s, "callback">> \in Entries(p, S) /\ Awaited(p, s)}
  IN /\ Close(p, S)
     /\ ret'     = [ret EXCEPT ![p] = [s \in Ser |-> IF s \in sync THEN "set" ELSE @[s]]]
     /\ result'  = [result EXCEPT ![p] = [s \in Ser |-> IF s \in sync THEN Lost ELSE @[s]]]
     /\ called'  = [called EXCEPT ![p] =
                      [s \in Ser |-> IF s \in back THEN Append(@[s], "lost") ELSE @[s]]]
     /\ Forget(p, S)
     /\ futures' = [futures EXCEPT ![p] =
                      {[f EXCEPT !.canceled = @ \/ f.job.fid \in S] : f \in futures[p]}]
     /\ UNCHANGED <<link, stage, up, serial, frame, idle, running, remoteid, current,
                    execs, told>>

\* commCollect at the end of the file: whatever was still to be read is
\* dropped.  When the id's pending list is gone, commLostConn stops with an
\* error right after closing the socket.
CommCollectEof(p, c) ==
  /\ Serving(p) /\ c \in open[p] /\ fids[p][c] # NoProc
  /\ c \notin open[Peer(p, c)]
  /\ IF fids[p][c] \in haspending[p]
       THEN CommLostConn(p, {c})
       ELSE /\ Close(p, {c})
            /\ UNCHANGED <<link, stage, up, tableVars, waitVars, execVars, histVars>>

\* comm shutdown id
Shutdown(p, q) ==
  /\ p \in Closers /\ Calling(p) /\ peers[p][q] # 0
  /\ CommLostConn(p, {peers[p][q]})

\* comm abort
Abort(p) ==
  /\ p \in Closers /\ Calling(p)
  /\ LET known == {peers[p][q] : q \in Proc} \ {0}
     IN known # {} /\ CommLostConn(p, known)

\* The process dies: its sockets are closed, its memory is gone.
Die(p) ==
  /\ p \in up \cap Mortals
  /\ up' = up \ {p}
  /\ Close(p, Conn)
  /\ peers'      = [peers EXCEPT ![p] = [q \in Proc |-> 0]]
  /\ fids'       = [fids EXCEPT ![p] = [c \in Conn |-> NoProc]]
  /\ haspending' = [haspending EXCEPT ![p] = {}]
  /\ pending'    = [pending EXCEPT ![p] = [q \in Proc |-> {}]]
  /\ ret'        = [ret EXCEPT ![p] = [s \in Ser |-> "none"]]
  /\ result'     = [result EXCEPT ![p] = [s \in Ser |-> NoResult]]
  /\ frame'      = [frame EXCEPT ![p] = [s \in Ser |-> NoFrame]]
  /\ idle'       = [idle EXCEPT ![p] = <<>>]
  /\ running'    = [running EXCEPT ![p] = NoJob]
  /\ futures'    = [futures EXCEPT ![p] = {}]
  /\ UNCHANGED <<link, stage, serial, remoteid, current, histVars>>

---------------------------------------------------------------------------
(***************************************************************************)
(* Sending commands.                                                       *)
(***************************************************************************)

\* comm send: the connection, the next serial, the message, and how its reply
\* is awaited.  A synchronous send enters a vwait: the wrapper of vwait saves
\* which remote command is executing, and the frame which script waits.  The
\* wrapper finds the channel in the state, where return_async has put a future:
\* after that it does not save the channel's remoteid.
Send(p, q, kind) ==
  LET s == serial[p] + 1
      m == [kind |-> kind, ser |-> s, of |-> <<p, s>>]
  IN /\ Calling(p) /\ p # q /\ s <= MaxSerial
     /\ \E c \in Conn : Usable(p, q, c) /\ ConnectAndWrite(p, q, c, <<m>>)
     /\ serial' = [serial EXCEPT ![p] = s]
     /\ pending' =
          CASE kind = "send"    -> [pending EXCEPT ![p][q] = @ \cup {<<s, "sync">>}]
            [] kind = "command" -> [pending EXCEPT ![p][q] = @ \cup {<<s, "callback">>}]
            [] kind = "async"   -> pending
     /\ ret' =
          CASE kind = "send"    -> [ret EXCEPT ![p][s] = "waiting"]
            [] kind = "command" -> [ret EXCEPT ![p][s] = "callback"]
            [] kind = "async"   -> ret
     /\ IF kind = "send"
          THEN /\ frame' = [frame EXCEPT ![p][s] =
                    [id |-> q, job |-> running[p],
                     current |-> current[p],
                     remoteid |-> IF current[p].async THEN NoProc ELSE remoteid[p]]]
               /\ running' = [running EXCEPT ![p] = NoJob]
          ELSE UNCHANGED <<frame, running>>
     /\ UNCHANGED <<up, result, idle, remoteid, current, futures, histVars>>

\* The other end is gone and the flush reports it: the send throws, the serial
\* is spent, and the connection stays in the tables until its end is read.
SendFails(p, q) ==
  /\ Calling(p) /\ serial[p] < MaxSerial
  /\ peers[p][q] # 0 /\ peers[p][q] \notin open[q]
  /\ serial' = [serial EXCEPT ![p] = @ + 1]
  /\ UNCHANGED <<netVars, up, peers, fids, haspending, pending, waitVars, execVars, histVars>>

\* Mutant of Restore: vwait without the wrapper.
RestoreNothing(p, f) == UNCHANGED <<remoteid, current>>

\* The wrapper of vwait restores the state it saved, if there was one.
Restore(p, f) ==
  /\ remoteid' = [remoteid EXCEPT ![p] = IF f.remoteid = NoProc THEN @ ELSE f.remoteid]
  /\ current'  = [current EXCEPT ![p] = IF f.current.job = NoJob THEN @ ELSE f.current]

\* The vwait returns and the send with it, to the script that made it: the
\* program's, or a remote command's, which goes on running.
Return(p) ==
  /\ p \in up /\ running[p] = NoJob
  /\ \E s \in Ser :
       LET f == frame[p][s]
       IN /\ Awake(p, s)
          /\ pending' = [pending EXCEPT ![p][f.id] = @ \ {<<s, "sync">>}]
          /\ ret'     = [ret EXCEPT ![p][s] = "none"]
          /\ result'  = [result EXCEPT ![p][s] = NoResult]
          /\ frame'   = [frame EXCEPT ![p][s] = NoFrame]
          /\ told'    = [told EXCEPT ![p][s] = Append(@, result[p][s].tag)]
          /\ running' = [running EXCEPT ![p] = f.job]
          /\ Restore(p, f)
  /\ UNCHANGED <<netVars, up, serial, peers, fids, haspending, idle, futures,
                 execs, called>>

---------------------------------------------------------------------------
(***************************************************************************)
(* Receiving commands and replies.                                         *)
(***************************************************************************)

\* commCollect: a message is complete; its execution is queued for when the
\* loop is idle, with the id the connection has now.
CommCollect(p, c) ==
  /\ Serving(p) /\ c \in open[p] /\ fids[p][c] # NoProc /\ wire[p][c] # <<>>
  /\ idle' = [idle EXCEPT ![p] =
       Append(@, [fid |-> c, id |-> fids[p][c], msg |-> Head(wire[p][c])])]
  /\ wire' = [wire EXCEPT ![p][c] = Tail(@)]
  /\ UNCHANGED <<link, stage, open, up, tableVars, waitVars,
                 running, remoteid, current, futures, histVars>>

\* Mutant of Dequeue: a process that waits executes replies only.
DequeueReplies(p, job) ==
  /\ p \in up /\ running[p] = NoJob
  /\ idle[p] # <<>> /\ job = Head(idle[p])
  /\ Waiting(p) = {} \/ job.msg.kind \notin Request
  /\ idle'     = [idle EXCEPT ![p] = Tail(@)]
  /\ remoteid' = [remoteid EXCEPT ![p] = job.id]
  /\ current'  = [current EXCEPT ![p] = [async |-> FALSE, job |-> job]]

\* The prologue of commExec: take the next queued message, note whose it is
\* and, with AsyncPrepare, which command is the current one.  The loop runs the
\* idle handlers it has in one go, without looking at its vwait in between.
Dequeue(p, job) ==
  /\ p \in up /\ running[p] = NoJob
  /\ idle[p] # <<>> /\ job = Head(idle[p])
  /\ idle'     = [idle EXCEPT ![p] = Tail(@)]
  /\ remoteid' = [remoteid EXCEPT ![p] = job.id]
  /\ current'  = [current EXCEPT ![p] = [async |-> FALSE, job |-> job]]

\* commExec of a request: its script starts.
ExecRequest(p) ==
  /\ idle[p] # <<>>
  /\ LET job == Head(idle[p])
     IN /\ job.msg.kind \in Request
        /\ Dequeue(p, job)
        /\ running' = [running EXCEPT ![p] = job]
        /\ execs'   = [execs EXCEPT ![job.msg.of[1]][job.msg.of[2]] = @ + 1]
  /\ UNCHANGED <<netVars, up, tableVars, waitVars, futures, told, called>>

\* commExec of the reply to a synchronous send: wakes it up.
ExecReply(p) ==
  /\ idle[p] # <<>>
  /\ LET job == Head(idle[p])
         s   == job.msg.ser
     IN /\ job.msg.kind = "reply"
        /\ Dequeue(p, job)
        /\ IF Awaited(p, s)
             THEN /\ ret'    = [ret EXCEPT ![p][s] = "set"]
                  /\ result' = [result EXCEPT ![p][s] = [tag |-> "answer", of |-> job.msg.of]]
             ELSE UNCHANGED <<ret, result>>
  /\ UNCHANGED <<netVars, up, tableVars, frame, running, futures, histVars>>

\* commExec of the reply to a send -command: invokes its callback.
ExecCallback(p) ==
  /\ idle[p] # <<>>
  /\ LET job == Head(idle[p])
         s   == job.msg.ser
     IN /\ job.msg.kind = "callback"
        /\ Dequeue(p, job)
        /\ IF Awaited(p, s)
             THEN /\ ret'     = [ret EXCEPT ![p][s] = "none"]
                  /\ pending' = [pending EXCEPT ![p][job.id] = @ \ {<<s, "callback">>}]
                  /\ called'  = [called EXCEPT ![p][s] = Append(@, "answer")]
             ELSE UNCHANGED <<ret, pending, called>>
  /\ UNCHANGED <<netVars, up, serial, peers, fids, haspending, result, frame,
                 running, futures, execs, told>>

---------------------------------------------------------------------------
(***************************************************************************)
(* Results, delivered at once or later.                                    *)
(***************************************************************************)

\* Mutant of CommSendReply: the serial of the current command, not its own.
SendReplyOfCurrent(p, job, of) ==
  LET reply(kind) == <<[kind |-> kind, ser |-> current[p].job.msg.ser, of |-> of]>>
  IN wire' = CASE job.msg.kind = "send"    -> Written(wire, p, job.fid, reply("reply"))
               [] job.msg.kind = "command" -> Written(wire, p, job.fid, reply("callback"))
               [] OTHER -> wire

\* commSendReply: job says where the reply goes, "of" what it answers.  The
\* caller may be lost: errors are caught.
CommSendReply(p, job, of) ==
  LET reply(kind) == <<[kind |-> kind, ser |-> job.msg.ser, of |-> of]>>
  IN wire' = CASE job.msg.kind = "send"    -> Written(wire, p, job.fid, reply("reply"))
               [] job.msg.kind = "command" -> Written(wire, p, job.fid, reply("callback"))
               [] OTHER -> wire

\* The script of the running command ends; commExec replies unless AsyncCheck
\* finds that the command promised its result for later.
Finish(p) ==
  /\ p \in up /\ running[p] # NoJob
  /\ IF current[p].async THEN UNCHANGED wire
     ELSE CommSendReply(p, running[p], running[p].msg.of)
  /\ running' = [running EXCEPT ![p] = NoJob]
  /\ UNCHANGED <<link, stage, open, up, tableVars, waitVars,
                 idle, remoteid, current, futures, histVars>>

\* comm return_async, called by the running command: a future for what the
\* package takes to be the current command.
ReturnAsync(p) ==
  /\ p \in up \cap Deferrers /\ running[p] # NoJob /\ ~current[p].async
  /\ futures' = [futures EXCEPT ![p] = @ \cup
       {[job |-> current[p].job, owner |-> running[p], canceled |-> FALSE]}]
  /\ current' = [current EXCEPT ![p].async = TRUE]
  /\ UNCHANGED <<netVars, up, tableVars, waitVars, idle, running, remoteid, histVars>>

\* $future return, and FutureDone for one that is not canceled.
FutureReturn(p) ==
  /\ Calling(p)
  /\ \E f \in futures[p] :
       /\ IF f.canceled THEN UNCHANGED wire
          ELSE CommSendReply(p, f.job, f.owner.msg.of)
       /\ futures' = [futures EXCEPT ![p] = @ \ {f}]
  /\ UNCHANGED <<link, stage, open, up, tableVars, waitVars,
                 idle, running, remoteid, current, histVars>>

---------------------------------------------------------------------------
(***************************************************************************)
(* The system.                                                             *)
(***************************************************************************)

\* What the event loop of p does of its own accord.
Loop(p) ==
  \/ ExecRequest(p) \/ ExecReply(p) \/ ExecCallback(p)
  \/ Return(p) \/ Finish(p)
  \/ \E c \in Conn : \/ CommIncoming(p, c) \/ CommIncomingOffered(p, c)
                     \/ CommCollect(p, c) \/ CommCollectEof(p, c)

\* What scripts may ask for.
Script(p) ==
  \/ \E q \in Proc : \/ Connect(p, q) \/ Shutdown(p, q) \/ SendFails(p, q)
                     \/ \E kind \in Kinds : Send(p, q, kind)
  \/ Abort(p) \/ ReturnAsync(p) \/ FutureReturn(p)

Next == \E p \in Proc : Loop(p) \/ Script(p) \/ Die(p)

Spec == Init /\ [][Next]_vars

\* Every process keeps running its event loop; the commands it executes come to
\* an end, and so do the operations that results were promised for.  Nobody is
\* obliged to send, to connect, to shut anything down or to die.
Fairness == \A p \in Proc : WF_vars(Loop(p)) /\ WF_vars(FutureReturn(p))

FairSpec == Spec /\ Fairness

---------------------------------------------------------------------------
(***************************************************************************)
(* Properties.                                                             *)
(***************************************************************************)

Told(p, s) == {told[p][s][i] : i \in DOMAIN told[p][s]}
              \cup {called[p][s][i] : i \in DOMAIN called[p][s]}

\* The shape of the state.
TypeOK ==
  /\ link \in [Conn -> Link]
  /\ stage \in [Conn -> {"free", "backlog", "offered", "up"}]
  /\ open \in [Proc -> SUBSET Conn]
  /\ wire \in [Proc -> [Conn -> Seq(Msg)]]
  /\ up \subseteq Proc
  /\ serial \in [Proc -> 0 .. MaxSerial]
  /\ peers \in [Proc -> [Proc -> Conn \cup {0}]]
  /\ fids \in [Proc -> [Conn -> Proc \cup {NoProc}]]
  /\ haspending \in [Proc -> SUBSET Proc]
  /\ pending \in [Proc -> [Proc -> SUBSET Entry]]
  /\ ret \in [Proc -> [Ser -> {"none", "waiting", "callback", "set"}]]
  /\ result \in [Proc -> [Ser -> Result]]
  /\ frame \in [Proc -> [Ser -> Frame \cup {NoFrame}]]
  /\ idle \in [Proc -> Seq(Job)]
  /\ running \in [Proc -> Job \cup {NoJob}]
  /\ remoteid \in [Proc -> Proc \cup {NoProc}]
  /\ current \in [Proc -> State]
  /\ futures \in [Proc -> SUBSET Future]
  /\ execs \in [Proc -> [Ser -> Nat]]
  /\ told \in [Proc -> [Ser -> Seq({"answer", "lost"})]]
  /\ called \in [Proc -> [Ser -> Seq({"answer", "lost"})]]

\* The tables of a channel agree: an id has a pending list exactly when it has
\* a connection to use, that connection is open and entered under its id, and a
\* connection is entered only once its protocol line has been read.
TablesAgree ==
  /\ \A p, q \in Proc :
       /\ q \in haspending[p] <=> peers[p][q] # 0
       /\ peers[p][q] # 0 => peers[p][q] \in open[p] /\ fids[p][peers[p][q]] = q
  /\ \A p \in Proc, c \in Conn :
       /\ fids[p][c] # NoProc /\ link[c].to = p => stage[c] = "up"
       /\ c \in open[p] \/ fids[p][c] # NoProc => stage[c] # "free"

\* A send still blocked in its vwait is listed as pending for its peer, and its
\* peer's connection is open and watched: whether the reply or the end of the
\* connection comes first, something finds the send and wakes it.  Sends,
\* losses, crossed connections, aborts and deaths all rewrite these tables,
\* some while the send is deep in a nest of event loops.
NoOrphanedSend ==
  \A p \in Proc : \A s \in Waiting(p) :
    result[p][s] = NoResult =>
      LET q == frame[p][s].id
          c == peers[p][q]
      IN /\ q \in haspending[p] /\ <<s, "sync">> \in pending[p][q]
         /\ c # 0 /\ c \in open[p] /\ fids[p][c] = q

\* A send is woken by the reply to its own command or by a loss, whatever was
\* executed, nested, replied to or reconnected since it was sent.
OwnAnswer ==
  \A p \in Proc, s \in Ser :
    result[p][s].tag = "answer" =>
      /\ s \in Waiting(p) /\ result[p][s].of = <<p, s>> /\ execs[p][s] = 1

\* No command is executed twice.  A synchronous send returns at most once.  A
\* callback is invoked for a loss at most once, for the reply at most once, and
\* never again after the reply: what is left of a lost command cannot revive it.
AtMostOnce ==
  \A p \in Proc, s \in Ser :
    /\ execs[p][s] <= 1
    /\ told[p][s] \in {<<>>, <<"answer">>, <<"lost">>}
    /\ called[p][s] \in {<<>>, <<"answer">>, <<"lost">>, <<"lost", "answer">>}
    /\ "answer" \in Told(p, s) => execs[p][s] = 1

\* The package's notion of the current remote command is the one whose script
\* is executing, also after that script sent and waited in a nested loop that
\* executed others; so a future answers the command that asked for it, and the
\* script can learn who sent it, unless it promised its result already.
StateIsOwn ==
  \A p \in Proc :
    /\ \A f \in futures[p] : f.job = f.owner
    /\ running[p] # NoJob =>
         /\ current[p].job = running[p]
         /\ ~current[p].async => remoteid[p] = running[p].id

\* Blocked loops unwind in the order opposite to their creation, and still no
\* send blocks forever: every process that waits is, directly or through
\* others, waiting for one that can move.
SendReturns ==
  \A p \in Proc, s \in Ser : s \in Waiting(p) ~> s \notin Waiting(p)

---------------------------------------------------------------------------
(***************************************************************************)
(* Comm implements RemoteCall.                                             *)
(***************************************************************************)

Calls == INSTANCE RemoteCall WITH
  made     <- serial,
  waiting  <- [p \in Proc |-> Waiting(p)],
  executed <- [p \in Proc |-> {s \in Ser : execs[p][s] > 0}],
  outcome  <- [p \in Proc |-> [s \in Ser |->
                IF told[p][s] = <<>> THEN "none" ELSE told[p][s][1]]]

\* To the scripts that use it, the machinery of connections, pending lists and
\* nested event loops is a remote call: at most one execution, at most one
\* outcome, an answer only to what was executed, waits that end innermost first.
CallSpec == Calls!Spec

---------------------------------------------------------------------------
(***************************************************************************)
(* What the manual says and the code does not do.                          *)
(***************************************************************************)

\* "If connection is lost before a reply is received, the callback will be
\* invoked with a connection lost message": that, or the reply.  commLostConn
\* keeps the callback, and a reply queued before the loss invokes it again.
CallbackOnce == \A p \in Proc, s \in Ser : Len(called[p][s]) <= 1

\* "Should comm have lost the connection to the invoker while the result is
\* being computed the future will not try to deliver the result".  The loss of
\* the second of two crossed connections stops before it cancels the futures.
LossCancelsFutures ==
  [][\A p \in up, c \in Conn :
       (p \in up' /\ c \in open[p] \ open'[p]) =>
         \A f \in futures'[p] : f.job.fid = c => f.canceled]_vars
=============================================================================

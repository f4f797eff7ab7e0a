---------------------------- MODULE CommProofs ----------------------------
(***************************************************************************)
(* Theorems about Comm, for any number of processes, connections and       *)
(* commands.                                                               *)
(***************************************************************************)
EXTENDS Comm, TLAPS

---------------------------------------------------------------------------
(***************************************************************************)
(* Types.  The operators that change the network and the tables keep the   *)
(* types of what they change; every action is then a few lines.            *)
(***************************************************************************)

\* Changing one entry of a two-dimensional table, or none if there is no such
\* entry.
LEMMA TableType ==
  ASSUME NEW A, NEW B, NEW T, NEW f \in [A -> [B -> T]], NEW a \in A, NEW b, NEW v,
         b \in B => v \in T
  PROVE  [f EXCEPT ![a][b] = v] \in [A -> [B -> T]]
<1>1. [f[a] EXCEPT ![b] = v] \in [B -> T]
  <2>1. f[a] \in [B -> T] OBVIOUS
  <2>2. [f[a] EXCEPT ![b] = v] = [x \in B |-> IF x = b THEN v ELSE f[a][x]] BY <2>1
  <2>3. \A x \in B : (IF x = b THEN v ELSE f[a][x]) \in T BY <2>1
  <2>4. [x \in B |-> IF x = b THEN v ELSE f[a][x]] \in [B -> T] BY <2>3
  <2> QED BY <2>2, <2>4
<1>2. [f EXCEPT ![a][b] = v] = [f EXCEPT ![a] = [f[a] EXCEPT ![b] = v]]
  OBVIOUS
<1> QED BY <1>1, <1>2

\* The types of the messages that are written: what the scripts send, and the
\* replies to requests.
LEMMA MsgTypes ==
  ASSUME NEW k \in {"offer", "reply", "callback"} \cup Kinds,
         NEW n \in 0 .. MaxSerial, NEW o \in Proc \X (0 .. MaxSerial)
  PROVE  [kind |-> k, ser |-> n, of |-> o] \in Msg
BY DEF Msg

\* Writing to a connection leaves well-typed wires.
LEMMA WrittenType ==
  ASSUME NEW w \in [Proc -> [Conn -> Seq(Msg)]], NEW p \in Proc, NEW c \in Conn,
         NEW ms \in Seq(Msg)
  PROVE  Written(w, p, c, ms) \in [Proc -> [Conn -> Seq(Msg)]]
<1> DEFINE q == Peer(p, c)
<1>1. ASSUME q \in Proc
      PROVE  [w EXCEPT ![q][c] = @ \o ms] \in [Proc -> [Conn -> Seq(Msg)]]
  <2>1. w[q][c] \o ms \in Seq(Msg) BY <1>1
  <2>2. w[q] \in [Conn -> Seq(Msg)] BY <1>1
  <2>3. [w[q] EXCEPT ![c] = w[q][c] \o ms] \in [Conn -> Seq(Msg)] BY <2>1, <2>2
  <2> QED BY <2>3
<1>2. ASSUME q \notin Proc
      PROVE  [w EXCEPT ![q][c] = @ \o ms] = w
  BY <1>2
<1> QED BY <1>1, <1>2 DEF Written

\* Closing connections.
LEMMA CloseType ==
  ASSUME TypeOK, NEW p \in Proc, NEW S, Close(p, S)
  PROVE  /\ open' \in [Proc -> SUBSET Conn]
         /\ wire' \in [Proc -> [Conn -> Seq(Msg)]]
<1>1. wire[p] \in [Conn -> Seq(Msg)] /\ <<>> \in Seq(Msg) BY DEF TypeOK
<1>2. [c \in Conn |-> IF c \in S THEN <<>> ELSE wire[p][c]] \in [Conn -> Seq(Msg)]
  BY <1>1
<1> QED BY <1>2 DEF Close, TypeOK

\* Entering a connection.
LEMMA NewConnType ==
  ASSUME TypeOK, NEW p \in Proc, NEW q \in Proc, NEW c \in Conn, NewConn(p, q, c)
  PROVE  /\ peers' \in [Proc -> [Proc -> Conn \cup {0}]]
         /\ fids' \in [Proc -> [Conn -> Proc \cup {NoProc}]]
         /\ haspending' \in [Proc -> SUBSET Proc]
<1>1. peers[p] \in [Proc -> Conn \cup {0}] /\ fids[p] \in [Conn -> Proc \cup {NoProc}]
  BY DEF TypeOK
<1> QED BY <1>1 DEF NewConn, TypeOK

\* Using a connection, or opening one.
LEMMA ConnectType ==
  ASSUME TypeOK, NEW p \in Proc, NEW q \in Proc, NEW c \in Conn,
         NEW ms \in Seq(Msg), ConnectAndWrite(p, q, c, ms)
  PROVE  /\ link' \in [Conn -> Link]
         /\ stage' \in [Conn -> {"free", "backlog", "offered", "up"}]
         /\ open' \in [Proc -> SUBSET Conn]
         /\ wire' \in [Proc -> [Conn -> Seq(Msg)]]
         /\ peers' \in [Proc -> [Proc -> Conn \cup {0}]]
         /\ fids' \in [Proc -> [Conn -> Proc \cup {NoProc}]]
         /\ haspending' \in [Proc -> SUBSET Proc]
<1>1. CASE peers[p][q] # 0
  <2>1. wire \in [Proc -> [Conn -> Seq(Msg)]] BY DEF TypeOK
  <2>2. Written(wire, p, c, ms) \in [Proc -> [Conn -> Seq(Msg)]] BY <2>1, WrittenType
  <2>3. wire' \in [Proc -> [Conn -> Seq(Msg)]] BY <1>1, <2>2 DEF ConnectAndWrite
  <2>4. UNCHANGED <<link, stage, open, peers, fids, haspending>>
    BY <1>1 DEF ConnectAndWrite
  <2> QED BY <2>3, <2>4 DEF TypeOK
<1>2. CASE peers[p][q] = 0
  <2> DEFINE offer == [kind |-> "offer", ser |-> 0, of |-> <<p, 0>>]
  <2>1. offer \in Msg BY MsgTypes, BoundAssumption
  <2>2. <<offer>> \o ms \in Seq(Msg) BY <2>1
  <2>3. wire[q] \in [Conn -> Seq(Msg)] BY DEF TypeOK
  <2>4. [wire[q] EXCEPT ![c] = <<offer>> \o ms] \in [Conn -> Seq(Msg)] BY <2>2, <2>3
  <2>5. wire' = [wire EXCEPT ![q][c] = <<offer>> \o ms] BY <1>2 DEF ConnectAndWrite
  <2>6. wire' \in [Proc -> [Conn -> Seq(Msg)]] BY <2>4, <2>5 DEF TypeOK
  <2>7. NewConn(p, q, c) BY <1>2 DEF ConnectAndWrite
  <2>8. /\ link'  = [link EXCEPT ![c] = [from |-> p, to |-> q]]
        /\ stage' = [stage EXCEPT ![c] = "backlog"]
        /\ open'  = [open EXCEPT ![p] = @ \cup {c}, ![q] = @ \cup {c}]
    BY <1>2 DEF ConnectAndWrite
  <2>9. /\ link' \in [Conn -> Link]
        /\ stage' \in [Conn -> {"free", "backlog", "offered", "up"}]
    BY <2>8 DEF TypeOK, Link
  <2>10. open' \in [Proc -> SUBSET Conn]
    BY <2>8 DEF TypeOK
  <2> QED BY <2>6, <2>7, <2>9, <2>10, NewConnType
<1> QED BY <1>1, <1>2

\* Losing connections: the tables shrink, the waiting sends get a result, the
\* callbacks an outcome.
LEMMA LostType ==
  ASSUME TypeOK, NEW p \in Proc, NEW S, CommLostConn(p, S)
  PROVE  TypeOK'
<1> DEFINE sync == {s \in Ser : <<s, "sync">> \in Entries(p, S)}
           back == {s \in Ser : <<s, "callback">> \in Entries(p, S) /\ ret[p][s] # "none"}
           ids  == {fids[p][c] : c \in S}
<1>1. /\ open' \in [Proc -> SUBSET Conn]
      /\ wire' \in [Proc -> [Conn -> Seq(Msg)]]
  BY CloseType DEF CommLostConn
<1>2. /\ UNCHANGED <<link, stage, up, serial, frame, idle, running, remoteid, current,
                     execs, told>>
      /\ ret' = [ret EXCEPT ![p] = [s \in Ser |-> IF s \in sync THEN "set" ELSE ret[p][s]]]
      /\ result' = [result EXCEPT ![p] =
                      [s \in Ser |-> IF s \in sync THEN Lost ELSE result[p][s]]]
      /\ called' = [called EXCEPT ![p] =
           [s \in Ser |-> IF s \in back THEN Append(called[p][s], "lost") ELSE called[p][s]]]
      /\ pending' = [pending EXCEPT ![p] =
                      [q \in Proc |-> IF q \in ids THEN {} ELSE pending[p][q]]]
      /\ haspending' = [haspending EXCEPT ![p] = haspending[p] \ ids]
      /\ peers' = [peers EXCEPT ![p] = [q \in Proc |-> IF q \in ids THEN 0 ELSE peers[p][q]]]
      /\ fids' = [fids EXCEPT ![p] = [c \in Conn |-> IF c \in S THEN NoProc ELSE fids[p][c]]]
      /\ futures' = [futures EXCEPT ![p] =
           {[f EXCEPT !.canceled = f.canceled \/ f.job.fid \in S] : f \in futures[p]}]
  BY DEF CommLostConn, Forget, Awaited, TypeOK
<1> HIDE DEF sync, back, ids
<1>3. ret' \in [Proc -> [Ser -> {"none", "waiting", "callback", "set"}]]
  <2>1. ret[p] \in [Ser -> {"none", "waiting", "callback", "set"}] BY DEF TypeOK
  <2>2. [s \in Ser |-> IF s \in sync THEN "set" ELSE ret[p][s]]
          \in [Ser -> {"none", "waiting", "callback", "set"}]
    BY <2>1
  <2> QED BY <1>2, <2>2 DEF TypeOK
<1>4. result' \in [Proc -> [Ser -> Result]]
  <2>1. result[p] \in [Ser -> Result] /\ Lost \in Result BY DEF TypeOK, Result
  <2>2. [s \in Ser |-> IF s \in sync THEN Lost ELSE result[p][s]] \in [Ser -> Result]
    BY <2>1
  <2> QED BY <1>2, <2>2 DEF TypeOK
<1>5. called' \in [Proc -> [Ser -> Seq({"answer", "lost"})]]
  <2>1. called[p] \in [Ser -> Seq({"answer", "lost"})] BY DEF TypeOK
  <2>2. \A s \in Ser : Append(called[p][s], "lost") \in Seq({"answer", "lost"}) BY <2>1
  <2>3. [s \in Ser |-> IF s \in back THEN Append(called[p][s], "lost") ELSE called[p][s]]
          \in [Ser -> Seq({"answer", "lost"})]
    BY <2>1, <2>2
  <2> QED BY <1>2, <2>3 DEF TypeOK
<1>6. /\ pending' \in [Proc -> [Proc -> SUBSET Entry]]
      /\ haspending' \in [Proc -> SUBSET Proc]
  <2>1. pending[p] \in [Proc -> SUBSET Entry] BY DEF TypeOK
  <2>2. [q \in Proc |-> IF q \in ids THEN {} ELSE pending[p][q]] \in [Proc -> SUBSET Entry]
    BY <2>1
  <2> QED BY <1>2, <2>2 DEF TypeOK
<1>7. /\ peers' \in [Proc -> [Proc -> Conn \cup {0}]]
      /\ fids' \in [Proc -> [Conn -> Proc \cup {NoProc}]]
  <2>1. peers[p] \in [Proc -> Conn \cup {0}] /\ fids[p] \in [Conn -> Proc \cup {NoProc}]
    BY DEF TypeOK
  <2> QED BY <1>2, <2>1 DEF TypeOK
<1>8. futures' \in [Proc -> SUBSET Future]
  <2>1. futures[p] \subseteq Future BY DEF TypeOK
  <2>2. ASSUME NEW f \in Future
        PROVE  [f EXCEPT !.canceled = f.canceled \/ f.job.fid \in S] \in Future
    BY DEF Future
  <2>3. {[f EXCEPT !.canceled = f.canceled \/ f.job.fid \in S] : f \in futures[p]}
          \subseteq Future
    BY <2>1, <2>2
  <2> QED BY <1>2, <2>3 DEF TypeOK
<1> QED BY <1>1, <1>2, <1>3, <1>4, <1>5, <1>6, <1>7, <1>8 DEF TypeOK

\* A send, blocking or not.
LEMMA SendType ==
  ASSUME TypeOK, NEW p \in Proc, NEW q \in Proc, NEW kind \in Kinds, Send(p, q, kind)
  PROVE  TypeOK'
<1> DEFINE s == serial[p] + 1
           m == [kind |-> kind, ser |-> s, of |-> <<p, s>>]
           f == [id |-> q, job |-> running[p], current |-> current[p],
                 remoteid |-> IF current[p].async THEN NoProc ELSE remoteid[p]]
<1>1. s \in Ser
  BY BoundAssumption DEF Send, TypeOK, Ser
<1>2. m \in Msg
  <2>1. s \in 0 .. MaxSerial BY <1>1, BoundAssumption DEF Ser
  <2> QED BY <2>1, MsgTypes
<1>3. f \in Frame
  BY DEF TypeOK, Frame
<1>4. PICK c \in Conn : ConnectAndWrite(p, q, c, <<m>>)
  BY DEF Send
<1>5. <<m>> \in Seq(Msg)
  BY <1>2
<1> HIDE DEF m
<1>6. /\ link' \in [Conn -> Link]
      /\ stage' \in [Conn -> {"free", "backlog", "offered", "up"}]
      /\ open' \in [Proc -> SUBSET Conn]
      /\ wire' \in [Proc -> [Conn -> Seq(Msg)]]
      /\ peers' \in [Proc -> [Proc -> Conn \cup {0}]]
      /\ fids' \in [Proc -> [Conn -> Proc \cup {NoProc}]]
      /\ haspending' \in [Proc -> SUBSET Proc]
  BY <1>4, <1>5, ConnectType
<1>7. serial' \in [Proc -> 0 .. MaxSerial]
  <2>1. serial' = [serial EXCEPT ![p] = s] BY DEF Send
  <2>2. s \in 0 .. MaxSerial BY <1>1, BoundAssumption DEF Ser
  <2> QED BY <2>1, <2>2 DEF TypeOK
<1>8. pending' \in [Proc -> [Proc -> SUBSET Entry]]
  <2>1. <<s, "sync">> \in Entry /\ <<s, "callback">> \in Entry BY <1>1 DEF Entry
  <2>2. ASSUME NEW e \in Entry
        PROVE  [pending EXCEPT ![p][q] = @ \cup {e}] \in [Proc -> [Proc -> SUBSET Entry]]
    BY DEF TypeOK
  <2>3. kind \in {"send", "async", "command"} BY KindsAssumption
  <2>4. \/ pending' = pending
        \/ pending' = [pending EXCEPT ![p][q] = @ \cup {<<s, "sync">>}]
        \/ pending' = [pending EXCEPT ![p][q] = @ \cup {<<s, "callback">>}]
    BY <2>3 DEF Send
  <2>5. pending \in [Proc -> [Proc -> SUBSET Entry]] BY DEF TypeOK
  <2> HIDE DEF s
  <2> QED BY <2>1, <2>2, <2>4, <2>5
<1>9. ret' \in [Proc -> [Ser -> {"none", "waiting", "callback", "set"}]]
  <2>1. kind \in {"send", "async", "command"} BY KindsAssumption
  <2>2. \/ ret' = ret
        \/ ret' = [ret EXCEPT ![p][s] = "waiting"]
        \/ ret' = [ret EXCEPT ![p][s] = "callback"]
    BY <2>1 DEF Send
  <2>3. ret \in [Proc -> [Ser -> {"none", "waiting", "callback", "set"}]] BY DEF TypeOK
  <2> HIDE DEF s
  <2>4. ASSUME NEW r \in {"waiting", "callback"}
        PROVE  [ret EXCEPT ![p][s] = r]
                 \in [Proc -> [Ser -> {"none", "waiting", "callback", "set"}]]
    BY <1>1, <2>3
  <2> QED BY <2>2, <2>3, <2>4
<1>10. /\ frame' \in [Proc -> [Ser -> Frame \cup {NoFrame}]]
       /\ running' \in [Proc -> Job \cup {NoJob}]
  <2>1. \/ frame' = [frame EXCEPT ![p][s] = f] /\ running' = [running EXCEPT ![p] = NoJob]
        \/ UNCHANGED <<frame, running>>
    BY DEF Send
  <2> HIDE DEF f, s
  <2>2. frame \in [Proc -> [Ser -> Frame \cup {NoFrame}]] BY DEF TypeOK
  <2>3. [frame EXCEPT ![p][s] = f] \in [Proc -> [Ser -> Frame \cup {NoFrame}]]
    BY <1>1, <1>3, <2>2
  <2>4. running \in [Proc -> Job \cup {NoJob}] BY DEF TypeOK
  <2>5. [running EXCEPT ![p] = NoJob] \in [Proc -> Job \cup {NoJob}] BY <2>4
  <2> QED BY <2>1, <2>2, <2>3, <2>4, <2>5
<1>11. UNCHANGED <<up, result, idle, remoteid, current, futures, execs, told, called>>
  BY DEF Send, histVars
<1> QED BY <1>6, <1>7, <1>8, <1>9, <1>10, <1>11 DEF TypeOK

\* The return of a send.
LEMMA ReturnType ==
  ASSUME TypeOK, NEW p \in Proc, Return(p)
  PROVE  TypeOK'
<1>1. PICK s \in Ser :
        LET f == frame[p][s]
        IN /\ Top(p, s) /\ result[p][s] # NoResult
           /\ pending' = [pending EXCEPT ![p][f.id] = @ \ {<<s, "sync">>}]
           /\ ret'     = [ret EXCEPT ![p][s] = "none"]
           /\ result'  = [result EXCEPT ![p][s] = NoResult]
           /\ frame'   = [frame EXCEPT ![p][s] = NoFrame]
           /\ told'    = [told EXCEPT ![p][s] = Append(@, result[p][s].tag)]
           /\ running' = [running EXCEPT ![p] = f.job]
           /\ remoteid' = [remoteid EXCEPT ![p] = IF f.remoteid = NoProc THEN @ ELSE f.remoteid]
           /\ current' = [current EXCEPT ![p] = IF f.current.job = NoJob THEN @ ELSE f.current]
  BY DEF Return, Awake, Restore
<1>2. frame[p][s] \in Frame
  BY <1>1 DEF Top, Waiting, TypeOK
<1>3. /\ frame[p][s].id \in Proc /\ frame[p][s].job \in Job \cup {NoJob}
      /\ frame[p][s].current \in State /\ frame[p][s].remoteid \in Proc \cup {NoProc}
  BY <1>2 DEF Frame
<1>4. result[p][s] \in Result /\ NoResult \in Result
  BY DEF TypeOK, Result
<1>5. result[p][s].tag \in {"answer", "lost"}
  BY <1>1, <1>4 DEF Result, Lost
<1>6. Append(told[p][s], result[p][s].tag) \in Seq({"answer", "lost"})
  BY <1>5 DEF TypeOK
<1>7. pending' \in [Proc -> [Proc -> SUBSET Entry]]
  BY <1>1, <1>3 DEF TypeOK
<1>8. /\ ret' \in [Proc -> [Ser -> {"none", "waiting", "callback", "set"}]]
      /\ result' \in [Proc -> [Ser -> Result]]
      /\ frame' \in [Proc -> [Ser -> Frame \cup {NoFrame}]]
  BY <1>1, <1>4 DEF TypeOK
<1>9. told' \in [Proc -> [Ser -> Seq({"answer", "lost"})]]
  <2>1. [told[p] EXCEPT ![s] = Append(told[p][s], result[p][s].tag)]
          \in [Ser -> Seq({"answer", "lost"})]
    BY <1>6 DEF TypeOK
  <2>2. told' = [told EXCEPT ![p] = [told[p] EXCEPT ![s] = Append(told[p][s], result[p][s].tag)]]
    BY <1>1 DEF TypeOK
  <2> QED BY <2>1, <2>2 DEF TypeOK
<1>10. /\ running' \in [Proc -> Job \cup {NoJob}]
       /\ remoteid' \in [Proc -> Proc \cup {NoProc}]
       /\ current' \in [Proc -> State]
  BY <1>1, <1>3 DEF TypeOK
<1>11. UNCHANGED <<link, stage, open, wire, up, serial, peers, fids, haspending, idle,
                   futures, execs, called>>
  BY DEF Return, netVars
<1> QED BY <1>7, <1>8, <1>9, <1>10, <1>11 DEF TypeOK

\* Replying: to a request, on the connection it came in on.
LEMMA ReplyType ==
  ASSUME TypeOK, NEW p \in Proc, NEW job \in Job \cup {NoJob}, NEW owner \in Job,
         CommSendReply(p, job, owner.msg.of)
  PROVE  wire' \in [Proc -> [Conn -> Seq(Msg)]]
<1>1. wire \in [Proc -> [Conn -> Seq(Msg)]]
  BY DEF TypeOK
<1>2. CASE job \in Job
  <2>1. /\ job.fid \in Conn /\ job.msg.ser \in 0 .. MaxSerial
        /\ owner.msg.of \in Proc \X (0 .. MaxSerial)
    BY <1>2 DEF Job, Msg
  <2>2. ASSUME NEW k \in {"reply", "callback"}
        PROVE  Written(wire, p, job.fid,
                       <<[kind |-> k, ser |-> job.msg.ser, of |-> owner.msg.of]>>)
                 \in [Proc -> [Conn -> Seq(Msg)]]
    <3>1. [kind |-> k, ser |-> job.msg.ser, of |-> owner.msg.of] \in Msg
      BY <2>1, MsgTypes
    <3>2. <<[kind |-> k, ser |-> job.msg.ser, of |-> owner.msg.of]>> \in Seq(Msg)
      BY <3>1
    <3> QED BY <1>1, <2>1, <3>2, WrittenType
  <2> QED BY <1>1, <2>2 DEF CommSendReply
<1>3. CASE job = NoJob
  BY <1>1, <1>3 DEF CommSendReply, NoJob
<1> QED BY <1>2, <1>3

\* The prologue of commExec.
LEMMA DequeueType ==
  ASSUME TypeOK, NEW p \in Proc, idle[p] # <<>>, Dequeue(p, Head(idle[p]))
  PROVE  /\ Head(idle[p]) \in Job
         /\ idle' \in [Proc -> Seq(Job)]
         /\ remoteid' \in [Proc -> Proc \cup {NoProc}]
         /\ current' \in [Proc -> State]
<1>1. idle[p] \in Seq(Job) BY DEF TypeOK
<1>2. Head(idle[p]) \in Job /\ Tail(idle[p]) \in Seq(Job) BY <1>1
<1>3. Head(idle[p]).id \in Proc BY <1>2 DEF Job
<1>4. [async |-> FALSE, job |-> Head(idle[p])] \in State BY <1>2 DEF State
<1>5. /\ idle'     = [idle EXCEPT ![p] = Tail(idle[p])]
      /\ remoteid' = [remoteid EXCEPT ![p] = Head(idle[p]).id]
      /\ current'  = [current EXCEPT ![p] = [async |-> FALSE, job |-> Head(idle[p])]]
  BY DEF Dequeue, TypeOK
<1>6. /\ idle \in [Proc -> Seq(Job)] /\ remoteid \in [Proc -> Proc \cup {NoProc}]
      /\ current \in [Proc -> State]
  BY DEF TypeOK
<1> HIDE DEF Dequeue, TypeOK, Job
<1> QED BY <1>2, <1>3, <1>4, <1>5, <1>6

\* commExec: of a request, of a reply, of the reply to a send -command.
LEMMA ExecType ==
  ASSUME TypeOK, NEW p \in Proc, ExecRequest(p) \/ ExecReply(p) \/ ExecCallback(p)
  PROVE  TypeOK'
<1> DEFINE job == Head(idle[p])
           s   == job.msg.ser
<1>1. idle[p] # <<>> /\ Dequeue(p, job)
  BY DEF ExecRequest, ExecReply, ExecCallback
<1>2. /\ job \in Job
      /\ idle' \in [Proc -> Seq(Job)]
      /\ remoteid' \in [Proc -> Proc \cup {NoProc}]
      /\ current' \in [Proc -> State]
  BY <1>1, DequeueType
<1>3. job.id \in Proc /\ job.msg.of \in Proc \X (0 .. MaxSerial)
  BY <1>2 DEF Job, Msg
<1>4. CASE ExecRequest(p)
  <2>1. /\ running' = [running EXCEPT ![p] = job]
        /\ execs' = [execs EXCEPT ![job.msg.of[1]][job.msg.of[2]] = @ + 1]
        /\ UNCHANGED <<link, stage, open, wire, up, serial, peers, fids, haspending,
                       pending, ret, result, frame, futures, told, called>>
    BY <1>4 DEF ExecRequest, netVars, tableVars, waitVars
  <2>2. running' \in [Proc -> Job \cup {NoJob}] BY <1>2, <2>1 DEF TypeOK
  <2>3. execs' \in [Proc -> [Ser -> Nat]]
    <3>1. execs \in [Proc -> [Ser -> Nat]] BY DEF TypeOK
    <3>2. ASSUME NEW a \in Proc, NEW n
          PROVE  [execs EXCEPT ![a][n] = @ + 1] \in [Proc -> [Ser -> Nat]]
      <4>1. n \in Ser => execs[a][n] + 1 \in Nat BY <3>1
      <4> QED BY <3>1, <4>1, TableType
    <3> QED BY <1>3, <2>1, <3>2
  <2> QED BY <1>2, <2>1, <2>2, <2>3 DEF TypeOK
<1>5. CASE ExecReply(p)
  <2>1. UNCHANGED <<link, stage, open, wire, up, serial, peers, fids, haspending,
                    pending, frame, running, futures, execs, told, called>>
    BY <1>5 DEF ExecReply, netVars, tableVars, histVars
  <2>2. \/ UNCHANGED <<ret, result>>
        \/ /\ ret'    = [ret EXCEPT ![p][s] = "set"]
           /\ result' = [result EXCEPT ![p][s] = [tag |-> "answer", of |-> job.msg.of]]
    BY <1>5 DEF ExecReply, Awaited
  <2>3. [tag |-> "answer", of |-> job.msg.of] \in Result BY <1>3 DEF Result
  <2>4. /\ ret \in [Proc -> [Ser -> {"none", "waiting", "callback", "set"}]]
        /\ result \in [Proc -> [Ser -> Result]]
    BY DEF TypeOK
  <2> HIDE DEF job
  <2> HIDE DEF s
  <2>5. ret' \in [Proc -> [Ser -> {"none", "waiting", "callback", "set"}]]
    <3>1. [ret EXCEPT ![p][s] = "set"]
            \in [Proc -> [Ser -> {"none", "waiting", "callback", "set"}]]
      BY <2>4, TableType, Zenon
    <3> QED BY <2>2, <2>4, <3>1
  <2>6. result' \in [Proc -> [Ser -> Result]]
    <3> DEFINE answer == [tag |-> "answer", of |-> job.msg.of]
    <3> HIDE DEF answer
    <3>1. [result EXCEPT ![p][s] = answer] \in [Proc -> [Ser -> Result]]
      BY <2>3, <2>4, TableType, Zenon DEF answer
    <3> QED BY <2>2, <2>4, <3>1 DEF answer
  <2> QED BY <1>2, <2>1, <2>5, <2>6 DEF TypeOK
<1>6. CASE ExecCallback(p)
  <2>1. UNCHANGED <<link, stage, open, wire, up, serial, peers, fids, haspending,
                    result, frame, running, futures, execs, told>>
    BY <1>6 DEF ExecCallback, netVars
  <2>2. \/ UNCHANGED <<ret, pending, called>>
        \/ /\ ret'     = [ret EXCEPT ![p][s] = "none"]
           /\ pending' = [pending EXCEPT ![p][job.id] = @ \ {<<s, "callback">>}]
           /\ called'  = [called EXCEPT ![p][s] = Append(@, "answer")]
    BY <1>6 DEF ExecCallback, Awaited
  <2>3. /\ ret \in [Proc -> [Ser -> {"none", "waiting", "callback", "set"}]]
        /\ pending \in [Proc -> [Proc -> SUBSET Entry]]
        /\ called \in [Proc -> [Ser -> Seq({"answer", "lost"})]]
    BY DEF TypeOK
  <2> HIDE DEF job
  <2> HIDE DEF s
  <2>4. ret' \in [Proc -> [Ser -> {"none", "waiting", "callback", "set"}]]
    <3>1. [ret EXCEPT ![p][s] = "none"]
            \in [Proc -> [Ser -> {"none", "waiting", "callback", "set"}]]
      BY <2>3, TableType, Zenon
    <3> QED BY <2>2, <2>3, <3>1
  <2>6. pending' \in [Proc -> [Proc -> SUBSET Entry]]
    <3>1. ASSUME NEW q \in Proc, NEW e
          PROVE  [pending EXCEPT ![p][q] = @ \ {e}] \in [Proc -> [Proc -> SUBSET Entry]]
      BY <2>3
    <3>2. [pending EXCEPT ![p][job.id] = @ \ {<<s, "callback">>}]
            \in [Proc -> [Proc -> SUBSET Entry]]
      BY <1>3, <3>1
    <3> QED BY <2>2, <2>3, <3>2
  <2>5. called' \in [Proc -> [Ser -> Seq({"answer", "lost"})]]
    <3>1. \A q \in Seq({"answer", "lost"}) : Append(q, "answer") \in Seq({"answer", "lost"})
      OBVIOUS
    <3>2. s \in Ser => Append(called[p][s], "answer") \in Seq({"answer", "lost"})
      BY <2>3, <3>1
    <3> DEFINE v == Append(called[p][s], "answer")
    <3>3. called' = called \/ called' = [called EXCEPT ![p][s] = v]
      BY <2>2
    <3>4. s \in Ser => v \in Seq({"answer", "lost"})
      BY <3>2
    <3> HIDE DEF v
    <3>5. [called EXCEPT ![p][s] = v] \in [Proc -> [Ser -> Seq({"answer", "lost"})]]
      BY <2>3, <3>4, TableType, Zenon
    <3> QED BY <2>3, <3>3, <3>5
  <2> QED BY <1>2, <2>1, <2>4, <2>5, <2>6 DEF TypeOK
<1> QED BY <1>4, <1>5, <1>6

\* Every step keeps the types.
LEMMA TypeStep == TypeOK /\ [Next]_vars => TypeOK'
<1> SUFFICES ASSUME TypeOK, [Next]_vars
             PROVE  TypeOK'
  OBVIOUS
<1>1. ASSUME NEW p \in Proc, NEW q \in Proc, Connect(p, q)
      PROVE  TypeOK'
  <2>1. PICK c \in Conn : ConnectAndWrite(p, q, c, <<>>) BY <1>1 DEF Connect
  <2>2. <<>> \in Seq(Msg) OBVIOUS
  <2> QED BY <1>1, <2>1, <2>2, ConnectType
        DEF TypeOK, Connect, waitVars, execVars, histVars
<1>2. ASSUME NEW p \in Proc, NEW q \in Proc, Shutdown(p, q)
      PROVE  TypeOK'
  BY <1>2, LostType DEF Shutdown
<1>3. ASSUME NEW p \in Proc, NEW q \in Proc, SendFails(p, q)
      PROVE  TypeOK'
  <2>1. serial' \in [Proc -> 0 .. MaxSerial]
    BY <1>3, BoundAssumption DEF SendFails, TypeOK
  <2> QED BY <1>3, <2>1
        DEF TypeOK, SendFails, netVars, waitVars, execVars, histVars
<1>4. ASSUME NEW p \in Proc, NEW q \in Proc, NEW kind \in Kinds, Send(p, q, kind)
      PROVE  TypeOK'
  BY <1>4, SendType
<1>5. ASSUME NEW p \in Proc, Abort(p)
      PROVE  TypeOK'
  BY <1>5, LostType DEF Abort
<1>6. ASSUME NEW p \in Proc, ReturnAsync(p)
      PROVE  TypeOK'
  <2>1. /\ running[p] \in Job /\ current[p].job \in Job \cup {NoJob}
        /\ [job |-> current[p].job, owner |-> running[p], canceled |-> FALSE] \in Future
    BY <1>6 DEF ReturnAsync, TypeOK, State, Future
  <2>2. futures' \in [Proc -> SUBSET Future]
    <3> DEFINE f == [job |-> current[p].job, owner |-> running[p], canceled |-> FALSE]
    <3>1. futures' = [futures EXCEPT ![p] = @ \cup {f}] BY <1>6 DEF ReturnAsync
    <3>2. f \in Future BY <2>1
    <3>3. futures \in [Proc -> SUBSET Future] BY DEF TypeOK
    <3> HIDE DEF f
    <3> QED BY <3>1, <3>2, <3>3
  <2>3. current' \in [Proc -> State]
    <3>1. current' = [current EXCEPT ![p] = [current[p] EXCEPT !.async = TRUE]]
      BY <1>6 DEF ReturnAsync
    <3>2. [current[p] EXCEPT !.async = TRUE] \in State
      <4>1. current[p] \in State BY DEF TypeOK
      <4> QED BY <4>1 DEF State
    <3> QED BY <3>1, <3>2 DEF TypeOK
  <2> QED BY <1>6, <2>2, <2>3
        DEF TypeOK, ReturnAsync, netVars, tableVars, waitVars, histVars
<1>7. ASSUME NEW p \in Proc, FutureReturn(p)
      PROVE  TypeOK'
  <2>1. PICK f \in futures[p] :
          /\ f.canceled \/ CommSendReply(p, f.job, f.owner.msg.of)
          /\ f.canceled => UNCHANGED wire
          /\ futures' = [futures EXCEPT ![p] = @ \ {f}]
    BY <1>7 DEF FutureReturn
  <2>2. f.job \in Job \cup {NoJob} /\ f.owner \in Job
    BY DEF TypeOK, Future
  <2>3. wire' \in [Proc -> [Conn -> Seq(Msg)]]
    <3>1. CASE f.canceled BY <2>1, <3>1 DEF TypeOK
    <3>2. CASE ~f.canceled BY <2>1, <2>2, <3>2, ReplyType
    <3> QED BY <3>1, <3>2
  <2>4. futures' \in [Proc -> SUBSET Future] BY <2>1 DEF TypeOK
  <2> QED BY <1>7, <2>3, <2>4 DEF TypeOK, FutureReturn, tableVars, waitVars, histVars
<1>8. ASSUME NEW p \in Proc, ExecRequest(p) \/ ExecReply(p) \/ ExecCallback(p)
      PROVE  TypeOK'
  BY <1>8, ExecType
<1>9. ASSUME NEW p \in Proc, Return(p)
      PROVE  TypeOK'
  BY <1>9, ReturnType
<1>10. ASSUME NEW p \in Proc, Finish(p)
       PROVE  TypeOK'
  <2>1. running[p] \in Job BY <1>10 DEF Finish, TypeOK
  <2>2. wire' \in [Proc -> [Conn -> Seq(Msg)]]
    <3>1. UNCHANGED wire \/ CommSendReply(p, running[p], running[p].msg.of)
      BY <1>10 DEF Finish
    <3>2. CASE UNCHANGED wire BY <3>2 DEF TypeOK
    <3>3. CASE CommSendReply(p, running[p], running[p].msg.of) BY <2>1, <3>3, ReplyType
    <3> QED BY <3>1, <3>2, <3>3
  <2>3. running' \in [Proc -> Job \cup {NoJob}] BY <1>10 DEF Finish, TypeOK
  <2> QED BY <1>10, <2>2, <2>3 DEF TypeOK, Finish, tableVars, waitVars, histVars
<1>11. ASSUME NEW p \in Proc, NEW c \in Conn, CommIncoming(p, c)
       PROVE  TypeOK'
  <2>1. stage' \in [Conn -> {"free", "backlog", "offered", "up"}]
    <3>1. stage \in [Conn -> {"free", "backlog", "offered", "up"}]
      BY DEF TypeOK
    <3>2. \/ stage' = [stage EXCEPT ![c] = "offered"]
          \/ stage' = [stage EXCEPT ![c] = "up"]
      BY <1>11 DEF CommIncoming
    <3> QED BY <3>1, <3>2
  <2>2. /\ open' \in [Proc -> SUBSET Conn]
        /\ wire' \in [Proc -> [Conn -> Seq(Msg)]]
    <3>1. CASE UNCHANGED <<open, wire>> BY <3>1 DEF TypeOK
    <3>2. CASE Close(p, {c}) BY <3>2, CloseType
    <3> QED BY <1>11, <3>1, <3>2 DEF CommIncoming
  <2> QED BY <1>11, <2>1, <2>2
        DEF TypeOK, CommIncoming, tableVars, waitVars, execVars, histVars
<1>12. ASSUME NEW p \in Proc, NEW c \in Conn, CommIncomingOffered(p, c)
       PROVE  TypeOK'
  <2>1. stage' \in [Conn -> {"free", "backlog", "offered", "up"}]
    BY <1>12 DEF CommIncomingOffered, TypeOK
  <2>2. UNCHANGED <<link, up, serial, pending, ret, result, frame, idle, running,
                    remoteid, current, futures, execs, told, called>>
    BY <1>12 DEF CommIncomingOffered, waitVars, execVars, histVars
  <2>3. CASE /\ wire[p][c] # <<>>
             /\ wire' = [wire EXCEPT ![p][c] = Tail(@)]
             /\ NewConn(p, link[c].from, c)
             /\ UNCHANGED open
    <3>1. link[c].from \in Proc
      BY <1>12, ProcAssumption DEF CommIncomingOffered, TypeOK, Link, NoLink
    <3>2. wire' \in [Proc -> [Conn -> Seq(Msg)]]
      <4>1. Tail(wire[p][c]) \in Seq(Msg) BY <2>3 DEF TypeOK
      <4> QED BY <2>3, <4>1 DEF TypeOK
    <3>3. /\ peers' \in [Proc -> [Proc -> Conn \cup {0}]]
          /\ fids' \in [Proc -> [Conn -> Proc \cup {NoProc}]]
          /\ haspending' \in [Proc -> SUBSET Proc]
      BY <2>3, <3>1, NewConnType
    <3> QED BY <2>1, <2>2, <2>3, <3>2, <3>3 DEF TypeOK
  <2>4. CASE /\ Close(p, {c})
             /\ UNCHANGED <<peers, fids, haspending>>
    BY <2>1, <2>2, <2>4, CloseType DEF TypeOK
  <2> QED BY <1>12, <2>3, <2>4 DEF CommIncomingOffered
<1>13. ASSUME NEW p \in Proc, NEW c \in Conn, CommCollect(p, c)
       PROVE  TypeOK'
  <2>1. /\ wire[p][c] \in Seq(Msg) /\ wire[p][c] # <<>> /\ fids[p][c] \in Proc
        /\ idle[p] \in Seq(Job)
    BY <1>13 DEF CommCollect, TypeOK
  <2>2. Head(wire[p][c]) \in Msg /\ Tail(wire[p][c]) \in Seq(Msg) BY <2>1
  <2>3. [fid |-> c, id |-> fids[p][c], msg |-> Head(wire[p][c])] \in Job
    BY <2>1, <2>2 DEF Job
  <2>4. idle' \in [Proc -> Seq(Job)]
    <3>1. Append(idle[p], [fid |-> c, id |-> fids[p][c], msg |-> Head(wire[p][c])])
            \in Seq(Job)
      BY <2>1, <2>3
    <3> QED BY <1>13, <3>1 DEF CommCollect, TypeOK
  <2>5. wire' \in [Proc -> [Conn -> Seq(Msg)]]
    BY <1>13, <2>2 DEF CommCollect, TypeOK
  <2> QED BY <1>13, <2>4, <2>5 DEF TypeOK, CommCollect, tableVars, waitVars, histVars
<1>14. ASSUME NEW p \in Proc, NEW c \in Conn, CommCollectEof(p, c)
       PROVE  TypeOK'
  <2>1. CASE CommLostConn(p, {c}) BY <2>1, LostType
  <2>2. CASE /\ Close(p, {c})
             /\ UNCHANGED <<link, stage, up, tableVars, waitVars, execVars, histVars>>
    BY <2>2, CloseType DEF TypeOK, tableVars, waitVars, execVars, histVars
  <2> QED BY <1>14, <2>1, <2>2 DEF CommCollectEof
<1>15. ASSUME NEW p \in Proc, Die(p)
       PROVE  TypeOK'
  <2>1. /\ open' \in [Proc -> SUBSET Conn]
        /\ wire' \in [Proc -> [Conn -> Seq(Msg)]]
    BY <1>15, CloseType DEF Die
  <2>2. /\ up' \subseteq Proc
        /\ peers' \in [Proc -> [Proc -> Conn \cup {0}]]
        /\ fids' \in [Proc -> [Conn -> Proc \cup {NoProc}]]
        /\ haspending' \in [Proc -> SUBSET Proc]
        /\ pending' \in [Proc -> [Proc -> SUBSET Entry]]
    BY <1>15 DEF Die, TypeOK
  <2>3. /\ ret' \in [Proc -> [Ser -> {"none", "waiting", "callback", "set"}]]
        /\ result' \in [Proc -> [Ser -> Result]]
        /\ frame' \in [Proc -> [Ser -> Frame \cup {NoFrame}]]
    BY <1>15 DEF Die, TypeOK, Result
  <2>4. /\ idle' \in [Proc -> Seq(Job)]
        /\ running' \in [Proc -> Job \cup {NoJob}]
        /\ futures' \in [Proc -> SUBSET Future]
    <3>1. <<>> \in Seq(Job) OBVIOUS
    <3> QED BY <1>15, <3>1 DEF Die, TypeOK
  <2> QED BY <1>15, <2>1, <2>2, <2>3, <2>4 DEF TypeOK, Die, histVars
<1>16. CASE UNCHANGED vars
  BY <1>16 DEF TypeOK, vars, netVars, tableVars, waitVars, execVars, histVars
<1> QED BY <1>1, <1>2, <1>3, <1>4, <1>5, <1>6, <1>7, <1>8, <1>9, <1>10, <1>11, <1>12,
           <1>13, <1>14, <1>15, <1>16 DEF Next, Loop, Script

\* The types hold from the start.
LEMMA TypeInit == Init => TypeOK
<1> SUFFICES ASSUME Init PROVE TypeOK
  OBVIOUS
<1>1. /\ <<>> \in Seq(Msg) /\ <<>> \in Seq(Job) /\ <<>> \in Seq({"answer", "lost"})
      /\ 0 \in 0 .. MaxSerial /\ NoResult \in Result
      /\ [async |-> FALSE, job |-> NoJob] \in State
  BY BoundAssumption DEF Result, State
<1>2. /\ link \in [Conn -> Link]
      /\ stage \in [Conn -> {"free", "backlog", "offered", "up"}]
      /\ open \in [Proc -> SUBSET Conn]
      /\ wire \in [Proc -> [Conn -> Seq(Msg)]]
      /\ up \subseteq Proc
  BY <1>1 DEF Init, Link
<1>3. /\ serial \in [Proc -> 0 .. MaxSerial]
      /\ peers \in [Proc -> [Proc -> Conn \cup {0}]]
      /\ fids \in [Proc -> [Conn -> Proc \cup {NoProc}]]
      /\ haspending \in [Proc -> SUBSET Proc]
      /\ pending \in [Proc -> [Proc -> SUBSET Entry]]
  BY <1>1 DEF Init
<1>4. /\ ret \in [Proc -> [Ser -> {"none", "waiting", "callback", "set"}]]
      /\ result \in [Proc -> [Ser -> Result]]
      /\ frame \in [Proc -> [Ser -> Frame \cup {NoFrame}]]
  BY <1>1 DEF Init
<1>5. /\ idle \in [Proc -> Seq(Job)]
      /\ running \in [Proc -> Job \cup {NoJob}]
      /\ remoteid \in [Proc -> Proc \cup {NoProc}]
      /\ current \in [Proc -> State]
      /\ futures \in [Proc -> SUBSET Future]
  BY <1>1 DEF Init
<1>6. /\ execs \in [Proc -> [Ser -> Nat]]
      /\ told \in [Proc -> [Ser -> Seq({"answer", "lost"})]]
      /\ called \in [Proc -> [Ser -> Seq({"answer", "lost"})]]
  BY <1>1 DEF Init
<1> QED BY <1>2, <1>3, <1>4, <1>5, <1>6 DEF TypeOK

\* The state always has the shape the code gives it.
THEOREM TypeCorrect == Spec => []TypeOK
BY TypeInit, TypeStep, PTL DEF Spec

---------------------------------------------------------------------------
(***************************************************************************)
(* The tables of a channel.                                                *)
(***************************************************************************)

\* An action that leaves the tables and the connections alone.
LEMMA TablesSame ==
  ASSUME TablesAgree, UNCHANGED <<link, stage, open, peers, fids, haspending>>
  PROVE  TablesAgree'
BY DEF TablesAgree

\* A connection whose id has none is closed without touching the tables.
LEMMA TablesClose ==
  ASSUME TypeOK, TablesAgree, NEW p \in Proc, NEW c \in Conn, Close(p, {c}),
         \A q \in Proc : peers[p][q] # c,
         UNCHANGED <<link, peers, fids, haspending>>,
         stage' = stage \/ stage' = [stage EXCEPT ![c] = "up"]
  PROVE  TablesAgree'
<1>1. /\ open' \in [Proc -> SUBSET Conn]
      /\ \A a \in Proc : open'[a] = IF a = p THEN open[p] \ {c} ELSE open[a]
  BY DEF Close, TypeOK
<1>2. \A d \in Conn : stage'[d] = stage[d] \/ stage'[d] = "up"
  BY DEF TypeOK
<1>3. ASSUME NEW a \in Proc, NEW q \in Proc
      PROVE  /\ q \in haspending'[a] <=> peers'[a][q] # 0
             /\ peers'[a][q] # 0 => peers'[a][q] \in open'[a] /\ fids'[a][peers'[a][q]] = q
  BY <1>1 DEF TablesAgree
<1>4. ASSUME NEW a \in Proc, NEW d \in Conn
      PROVE  /\ fids'[a][d] # NoProc /\ link'[d].to = a => stage'[d] = "up"
             /\ d \in open'[a] \/ fids'[a][d] # NoProc => stage'[d] # "free"
  BY <1>1, <1>2 DEF TablesAgree
<1> QED BY <1>3, <1>4 DEF TablesAgree

\* A connection that is open, and entered nowhere, is entered under its id.
LEMMA TablesNewConn ==
  ASSUME TypeOK, NEW p \in Proc, NEW q \in Proc, NEW c \in Conn, NewConn(p, q, c),
         \A a, b \in Proc :
           /\ b \in haspending[a] <=> peers[a][b] # 0
           /\ peers[a][b] # 0 => peers[a][b] \in open[a] /\ fids[a][peers[a][b]] = b,
         fids[p][c] = NoProc, c \in open'[p],
         \A a \in Proc : open[a] \subseteq open'[a]
  PROVE  \A a, b \in Proc :
           /\ b \in haspending'[a] <=> peers'[a][b] # 0
           /\ peers'[a][b] # 0 => peers'[a][b] \in open'[a] /\ fids'[a][peers'[a][b]] = b
<1> TAKE a, b \in Proc
<1>1. /\ peers' = [peers EXCEPT ![p] = [peers[p] EXCEPT ![q] =
                                          IF peers[p][q] = 0 THEN c ELSE peers[p][q]]]
      /\ fids' = [fids EXCEPT ![p] = [fids[p] EXCEPT ![c] = q]]
      /\ haspending' = [haspending EXCEPT ![p] =
                          IF peers[p][q] = 0 THEN haspending[p] \cup {q} ELSE haspending[p]]
  BY DEF NewConn, TypeOK
<1>2. /\ peers[p] \in [Proc -> Conn \cup {0}] /\ fids[p] \in [Conn -> Proc \cup {NoProc}]
      /\ 0 \notin Conn
  BY DEF TypeOK, Conn
<1>3. peers'[a][b] = IF a = p /\ b = q /\ peers[p][q] = 0 THEN c ELSE peers[a][b]
  BY <1>1, <1>2 DEF TypeOK
<1>4. \A d \in Conn : fids'[a][d] = IF a = p /\ d = c THEN q ELSE fids[a][d]
  BY <1>1, <1>2 DEF TypeOK
<1>5. b \in haspending'[a] <=> b \in haspending[a] \/ (a = p /\ b = q /\ peers[p][q] = 0)
  BY <1>1 DEF TypeOK
<1>6. peers[a][b] \in Conn \cup {0} BY DEF TypeOK
<1>7. b \in haspending'[a] <=> peers'[a][b] # 0
  BY <1>2, <1>3, <1>5
<1>8. peers'[a][b] # 0 => peers'[a][b] \in open'[a] /\ fids'[a][peers'[a][b]] = b
  <2>1. CASE a = p /\ b = q /\ peers[p][q] = 0
    BY <2>1, <1>3, <1>4
  <2>2. CASE ~(a = p /\ b = q /\ peers[p][q] = 0) /\ peers[a][b] # 0
    <3>1. peers[a][b] \in open[a] /\ fids[a][peers[a][b]] = b /\ peers[a][b] \in Conn
      BY <1>6, <2>2
    <3>2. ~(a = p /\ peers[a][b] = c)
      BY <3>1, ProcAssumption
    <3> QED BY <2>2, <3>1, <3>2, <1>3, <1>4
  <2> QED BY <2>1, <2>2, <1>3
<1> QED BY <1>7, <1>8

\* Using a connection, or opening one.
LEMMA TablesConnect ==
  ASSUME TypeOK, TablesAgree, NEW p \in Proc, NEW q \in Proc, NEW c \in Conn, NEW ms,
         p # q, Usable(p, q, c), ConnectAndWrite(p, q, c, ms)
  PROVE  TablesAgree' /\ peers'[p][q] # 0
<1>1. CASE peers[p][q] # 0
  <2>1. UNCHANGED <<link, stage, open, peers, fids, haspending>>
    BY <1>1 DEF ConnectAndWrite
  <2> QED BY <1>1, <2>1, TablesSame
<1>2. CASE peers[p][q] = 0
  <2>1. /\ link'  = [link EXCEPT ![c] = [from |-> p, to |-> q]]
        /\ stage' = [stage EXCEPT ![c] = "backlog"]
        /\ open'  = [open EXCEPT ![p] = @ \cup {c}, ![q] = @ \cup {c}]
        /\ NewConn(p, q, c)
        /\ stage[c] = "free"
    BY <1>2 DEF ConnectAndWrite, Usable
  <2>2. \A a \in Proc : open[a] \subseteq open'[a]
    BY <2>1 DEF TypeOK
  <2>3. c \in open'[p]
    BY <2>1 DEF TypeOK
  <2>4. \A a \in Proc : fids[a][c] = NoProc
    BY <2>1 DEF TablesAgree
  <2>5. \A a, b \in Proc :
          /\ b \in haspending'[a] <=> peers'[a][b] # 0
          /\ peers'[a][b] # 0 => peers'[a][b] \in open'[a] /\ fids'[a][peers'[a][b]] = b
    BY <2>1, <2>2, <2>3, <2>4, TablesNewConn DEF TablesAgree
  <2>6. \A a \in Proc, d \in Conn :
          /\ fids'[a][d] # NoProc => fids[a][d] # NoProc \/ (a = p /\ d = c)
          /\ d \in open'[a] => d \in open[a] \/ d = c
          /\ d # c => link'[d] = link[d] /\ stage'[d] = stage[d]
    BY <2>1 DEF NewConn, TypeOK
  <2>7. link'[c].to = q /\ stage'[c] = "backlog"
    BY <2>1 DEF TypeOK
  <2>8. \A a \in Proc, d \in Conn :
          /\ fids'[a][d] # NoProc /\ link'[d].to = a => stage'[d] = "up"
          /\ d \in open'[a] \/ fids'[a][d] # NoProc => stage'[d] # "free"
    BY <2>4, <2>6, <2>7 DEF TablesAgree
  <2>9. peers'[p][q] # 0
    BY <1>2, <2>1 DEF NewConn, TypeOK, Conn
  <2> QED BY <2>5, <2>8, <2>9 DEF TablesAgree
<1> QED BY <1>1, <1>2

\* Reading the protocol line.
LEMMA TablesOffered ==
  ASSUME TypeOK, TablesAgree, NEW p \in Proc, NEW c \in Conn, CommIncomingOffered(p, c)
  PROVE  TablesAgree'
<1>1. /\ link[c].to = p /\ c \in open[p] /\ stage[c] = "offered"
      /\ stage' = [stage EXCEPT ![c] = "up"] /\ UNCHANGED link
  BY DEF CommIncomingOffered
<1>2. fids[p][c] = NoProc
  BY <1>1 DEF TablesAgree
<1>3. CASE NewConn(p, link[c].from, c) /\ UNCHANGED open
  <2>1. link[c].from \in Proc
    BY <1>1, ProcAssumption DEF TypeOK, Link, NoLink
  <2>2. \A a, b \in Proc :
          /\ b \in haspending'[a] <=> peers'[a][b] # 0
          /\ peers'[a][b] # 0 => peers'[a][b] \in open'[a] /\ fids'[a][peers'[a][b]] = b
    BY <1>1, <1>2, <1>3, <2>1, TablesNewConn DEF TablesAgree
  <2>3. \A a \in Proc, d \in Conn :
          /\ fids'[a][d] # NoProc => fids[a][d] # NoProc \/ d = c
          /\ d # c => stage'[d] = stage[d]
    BY <1>1, <1>3 DEF NewConn, TypeOK
  <2>4. stage'[c] = "up"
    BY <1>1 DEF TypeOK
  <2>5. \A a \in Proc, d \in Conn :
          /\ fids'[a][d] # NoProc /\ link'[d].to = a => stage'[d] = "up"
          /\ d \in open'[a] \/ fids'[a][d] # NoProc => stage'[d] # "free"
    BY <1>1, <1>3, <2>3, <2>4 DEF TablesAgree
  <2> QED BY <2>2, <2>5 DEF TablesAgree
<1>4. CASE Close(p, {c}) /\ UNCHANGED <<peers, fids, haspending>>
  <2>1. \A q \in Proc : peers[p][q] # c
    BY <1>2, ProcAssumption DEF TablesAgree, Conn
  <2> QED BY <1>1, <1>4, <2>1, TablesClose
<1> QED BY <1>3, <1>4 DEF CommIncomingOffered

\* Losing the connections S of one process.
LEMMA TablesLost ==
  ASSUME TypeOK, TablesAgree, NEW p \in Proc, NEW S \in SUBSET Conn, CommLostConn(p, S)
  PROVE  TablesAgree'
<1> DEFINE ids == {fids[p][c] : c \in S}
<1>1. /\ \A a \in Proc : open'[a] = IF a = p THEN open[p] \ S ELSE open[a]
      /\ \A a, b \in Proc : /\ peers'[a][b] = IF a = p /\ b \in ids THEN 0 ELSE peers[a][b]
                            /\ b \in haspending'[a] <=>
                                 b \in haspending[a] /\ ~(a = p /\ b \in ids)
      /\ \A a \in Proc, d \in Conn : fids'[a][d] = IF a = p /\ d \in S THEN NoProc
                                                   ELSE fids[a][d]
      /\ UNCHANGED <<link, stage>>
  <2>1. /\ open' = [open EXCEPT ![p] = open[p] \ S]
        /\ haspending' = [haspending EXCEPT ![p] = haspending[p] \ ids]
        /\ peers' = [peers EXCEPT ![p] = [q \in Proc |-> IF q \in ids THEN 0 ELSE peers[p][q]]]
        /\ fids' = [fids EXCEPT ![p] = [c \in Conn |-> IF c \in S THEN NoProc ELSE fids[p][c]]]
        /\ UNCHANGED <<link, stage>>
    BY DEF CommLostConn, Forget, Close, TypeOK
  <2> HIDE DEF ids
  <2>2. \A a \in Proc : open'[a] = IF a = p THEN open[p] \ S ELSE open[a]
    BY <2>1 DEF TypeOK
  <2>3. \A a, b \in Proc : /\ peers'[a][b] = IF a = p /\ b \in ids THEN 0 ELSE peers[a][b]
                           /\ b \in haspending'[a] <=>
                                b \in haspending[a] /\ ~(a = p /\ b \in ids)
    BY <2>1 DEF TypeOK
  <2>4. \A a \in Proc, d \in Conn : fids'[a][d] = IF a = p /\ d \in S THEN NoProc
                                                  ELSE fids[a][d]
    BY <2>1 DEF TypeOK
  <2> QED BY <2>1, <2>2, <2>3, <2>4
<1>2. ASSUME NEW a \in Proc, NEW b \in Proc
      PROVE  /\ b \in haspending'[a] <=> peers'[a][b] # 0
             /\ peers'[a][b] # 0 => peers'[a][b] \in open'[a] /\ fids'[a][peers'[a][b]] = b
  <2>1. CASE a = p /\ b \in ids
    BY <1>1, <2>1
  <2>2. CASE ~(a = p /\ b \in ids)
    <3>1. /\ peers'[a][b] = peers[a][b]
          /\ b \in haspending'[a] <=> b \in haspending[a]
      BY <1>1, <2>2
    <3>2. peers[a][b] # 0 => /\ peers[a][b] \in open[a] /\ fids[a][peers[a][b]] = b
                             /\ peers[a][b] \in Conn
      BY DEF TablesAgree, TypeOK
    <3>3. peers[a][b] # 0 => ~(a = p /\ peers[a][b] \in S)
      BY <2>2, <3>2
    <3> QED BY <1>1, <3>1, <3>2, <3>3 DEF TablesAgree
  <2> QED BY <2>1, <2>2
<1>3. ASSUME NEW a \in Proc, NEW d \in Conn
      PROVE  /\ fids'[a][d] # NoProc /\ link'[d].to = a => stage'[d] = "up"
             /\ d \in open'[a] \/ fids'[a][d] # NoProc => stage'[d] # "free"
  BY <1>1 DEF TablesAgree
<1> QED BY <1>2, <1>3 DEF TablesAgree

\* Every step keeps the tables in agreement.
LEMMA TablesStep == TypeOK /\ TablesAgree /\ [Next]_vars => TablesAgree'
<1> SUFFICES ASSUME TypeOK, TablesAgree, [Next]_vars
             PROVE  TablesAgree'
  OBVIOUS
<1>1. ASSUME NEW p \in Proc, NEW q \in Proc, Connect(p, q)
      PROVE  TablesAgree'
  BY <1>1, TablesConnect DEF Connect
<1>2. ASSUME NEW p \in Proc, NEW q \in Proc, Shutdown(p, q)
      PROVE  TablesAgree'
  <2>1. peers[p][q] \in Conn BY <1>2 DEF Shutdown, TypeOK
  <2> QED BY <1>2, <2>1, TablesLost DEF Shutdown
<1>3. ASSUME NEW p \in Proc, NEW q \in Proc, SendFails(p, q)
      PROVE  TablesAgree'
  BY <1>3, TablesSame DEF SendFails, netVars
<1>4. ASSUME NEW p \in Proc, NEW q \in Proc, NEW kind \in Kinds, Send(p, q, kind)
      PROVE  TablesAgree'
  BY <1>4, TablesConnect DEF Send
<1>5. ASSUME NEW p \in Proc, Abort(p)
      PROVE  TablesAgree'
  <2>1. {peers[p][q] : q \in Proc} \ {0} \in SUBSET Conn BY DEF TypeOK
  <2> QED BY <1>5, <2>1, TablesLost DEF Abort
<1>6. ASSUME NEW p \in Proc,
             \/ ReturnAsync(p) \/ FutureReturn(p) \/ Return(p) \/ Finish(p)
             \/ ExecRequest(p) \/ ExecReply(p) \/ ExecCallback(p)
      PROVE  TablesAgree'
  BY <1>6, TablesSame
     DEF ReturnAsync, FutureReturn, Return, Finish, ExecRequest, ExecReply, ExecCallback,
         netVars, tableVars
<1>7. ASSUME NEW p \in Proc, NEW c \in Conn, CommIncoming(p, c)
      PROVE  TablesAgree'
  <2>1. /\ link[c].to = p /\ c \in open[p] /\ stage[c] = "backlog"
        /\ UNCHANGED <<link, peers, fids, haspending>>
    BY <1>7 DEF CommIncoming, tableVars
  <2>2. CASE stage' = [stage EXCEPT ![c] = "offered"] /\ UNCHANGED open
    <3>1. /\ \A d \in Conn : d # c => stage'[d] = stage[d]
          /\ stage'[c] = "offered"
      BY <2>2 DEF TypeOK
    <3>2. \A a \in Proc, d \in Conn :
            /\ fids'[a][d] # NoProc /\ link'[d].to = a => stage'[d] = "up"
            /\ d \in open'[a] \/ fids'[a][d] # NoProc => stage'[d] # "free"
      BY <2>1, <2>2, <3>1 DEF TablesAgree
    <3> QED BY <2>1, <2>2, <3>2 DEF TablesAgree
  <2>3. CASE stage' = [stage EXCEPT ![c] = "up"] /\ Close(p, {c})
    <3>1. \A q \in Proc : peers[p][q] # c
      BY <2>1, ProcAssumption DEF TablesAgree, Conn
    <3> QED BY <2>1, <2>3, <3>1, TablesClose
  <2> QED BY <1>7, <2>2, <2>3 DEF CommIncoming
<1>8. ASSUME NEW p \in Proc, NEW c \in Conn, CommIncomingOffered(p, c)
      PROVE  TablesAgree'
  BY <1>8, TablesOffered
<1>9. ASSUME NEW p \in Proc, NEW c \in Conn, CommCollect(p, c)
      PROVE  TablesAgree'
  BY <1>9, TablesSame DEF CommCollect, tableVars
<1>10. ASSUME NEW p \in Proc, NEW c \in Conn, CommCollectEof(p, c)
       PROVE  TablesAgree'
  <2>1. CASE fids[p][c] \in haspending[p]
    BY <1>10, <2>1, TablesLost DEF CommCollectEof
  <2>2. CASE fids[p][c] \notin haspending[p]
    <3>1. Close(p, {c}) /\ UNCHANGED <<link, stage, peers, fids, haspending>>
      BY <1>10, <2>2 DEF CommCollectEof, tableVars
    <3>2. \A q \in Proc : peers[p][q] # c
      BY <1>10, <2>2 DEF CommCollectEof, TablesAgree, Conn
    <3> QED BY <3>1, <3>2, TablesClose
  <2> QED BY <2>1, <2>2
<1>11. ASSUME NEW p \in Proc, Die(p)
       PROVE  TablesAgree'
  <2>1. /\ \A a \in Proc : a # p => open'[a] = open[a]
        /\ \A a \in Proc : open'[a] \subseteq open[a]
        /\ \A a, b \in Proc : peers'[a][b] = IF a = p THEN 0 ELSE peers[a][b]
        /\ \A a \in Proc : haspending'[a] = IF a = p THEN {} ELSE haspending[a]
        /\ \A a \in Proc, d \in Conn : fids'[a][d] = IF a = p THEN NoProc ELSE fids[a][d]
        /\ UNCHANGED <<link, stage>>
    BY <1>11 DEF Die, Close, TypeOK
  <2>2. ASSUME NEW a \in Proc, NEW b \in Proc
        PROVE  /\ b \in haspending'[a] <=> peers'[a][b] # 0
               /\ peers'[a][b] # 0 => peers'[a][b] \in open'[a] /\ fids'[a][peers'[a][b]] = b
    <3>1. peers[a][b] # 0 => peers[a][b] \in Conn BY DEF TypeOK
    <3> QED BY <2>1, <3>1 DEF TablesAgree
  <2>3. ASSUME NEW a \in Proc, NEW d \in Conn
        PROVE  /\ fids'[a][d] # NoProc /\ link'[d].to = a => stage'[d] = "up"
               /\ d \in open'[a] \/ fids'[a][d] # NoProc => stage'[d] # "free"
    BY <2>1 DEF TablesAgree
  <2> QED BY <2>2, <2>3 DEF TablesAgree
<1>12. CASE UNCHANGED vars
  BY <1>12, TablesSame DEF vars, netVars, tableVars
<1> QED BY <1>1, <1>2, <1>3, <1>4, <1>5, <1>6, <1>7, <1>8, <1>9, <1>10, <1>11, <1>12
        DEF Next, Loop, Script

\* The tables of a channel agree at all times.
THEOREM TablesAlwaysAgree == Spec => []TablesAgree
<1>1. Init => TablesAgree
  BY DEF Init, TablesAgree
<1> QED BY <1>1, TypeInit, TypeStep, TablesStep, PTL DEF Spec

---------------------------------------------------------------------------
(***************************************************************************)
(* Blocked sends.                                                          *)
(***************************************************************************)

\* The core of NoOrphanedSend: the send is pending for its peer, and the peer
\* has a connection.  With TablesAgree the rest of it follows.
BlockedPending ==
  \A p \in Proc, s \in Ser :
    frame[p][s] # NoFrame /\ result[p][s] = NoResult =>
      /\ <<s, "sync">> \in pending[p][frame[p][s].id]
      /\ peers[p][frame[p][s].id] # 0

LEMMA BlockedIsNotOrphaned == TypeOK /\ TablesAgree /\ BlockedPending => NoOrphanedSend
<1> SUFFICES ASSUME TypeOK, TablesAgree, BlockedPending,
                    NEW p \in Proc, NEW s \in Ser, frame[p][s] # NoFrame,
                    result[p][s] = NoResult
             PROVE  LET q == frame[p][s].id
                        c == peers[p][q]
                    IN /\ q \in haspending[p] /\ <<s, "sync">> \in pending[p][q]
                       /\ c # 0 /\ c \in open[p] /\ fids[p][c] = q
  BY DEF NoOrphanedSend, Waiting
<1>1. frame[p][s].id \in Proc
  BY DEF TypeOK, Frame
<1>2. <<s, "sync">> \in pending[p][frame[p][s].id] /\ peers[p][frame[p][s].id] # 0
  BY DEF BlockedPending
<1> QED BY <1>1, <1>2 DEF TablesAgree

\* An action that wakes no send of its own, starts none, drops no pending entry
\* of one and no connection.
LEMMA BlockedMonotone ==
  ASSUME BlockedPending, UNCHANGED frame,
         \A a \in Proc, s \in Ser : result'[a][s] = NoResult => result[a][s] = NoResult,
         \A a, b \in Proc, s \in Ser :
           <<s, "sync">> \in pending[a][b] => <<s, "sync">> \in pending'[a][b],
         \A a, b \in Proc : peers[a][b] # 0 => peers'[a][b] # 0,
         TypeOK
  PROVE  BlockedPending'
<1> SUFFICES ASSUME NEW p \in Proc, NEW s \in Ser, frame'[p][s] # NoFrame,
                    result'[p][s] = NoResult
             PROVE  /\ <<s, "sync">> \in pending'[p][frame'[p][s].id]
                    /\ peers'[p][frame'[p][s].id] # 0
  BY DEF BlockedPending
<1>1. frame[p][s].id \in Proc BY DEF TypeOK, Frame
<1>2. <<s, "sync">> \in pending[p][frame[p][s].id] /\ peers[p][frame[p][s].id] # 0
  BY DEF BlockedPending
<1> QED BY <1>1, <1>2

\* A connection is entered: the id of no other loses its own.
LEMMA PeersGrow ==
  ASSUME TypeOK, NEW p \in Proc, NEW q \in Proc, NEW c \in Conn,
         NewConn(p, q, c) \/ UNCHANGED peers
  PROVE  \A a, b \in Proc : peers[a][b] # 0 => peers'[a][b] # 0
<1>1. CASE NewConn(p, q, c)
  <2>1. peers' = [peers EXCEPT ![p] = [peers[p] EXCEPT ![q] =
                                         IF peers[p][q] = 0 THEN c ELSE peers[p][q]]]
    BY <1>1 DEF NewConn, TypeOK
  <2>2. peers \in [Proc -> [Proc -> Conn \cup {0}]] /\ c # 0
    BY DEF TypeOK, Conn
  <2> QED BY <2>1, <2>2
<1> QED BY <1>1

\* Every send waiting for one of the ids that are lost gets a result.
LEMMA BlockedLost ==
  ASSUME TypeOK, BlockedPending, NEW p \in Proc, NEW S \in SUBSET Conn,
         CommLostConn(p, S)
  PROVE  BlockedPending'
<1> DEFINE ids == {fids[p][c] : c \in S}
<1> SUFFICES ASSUME NEW a \in Proc, NEW s \in Ser, frame'[a][s] # NoFrame,
                    result'[a][s] = NoResult
             PROVE  /\ <<s, "sync">> \in pending'[a][frame'[a][s].id]
                    /\ peers'[a][frame'[a][s].id] # 0
  BY DEF BlockedPending
<1>1. UNCHANGED frame
  BY DEF CommLostConn
<1>2. /\ result' = [result EXCEPT ![p] = [t \in Ser |->
                      IF <<t, "sync">> \in Entries(p, S) THEN Lost ELSE result[p][t]]]
      /\ pending' = [pending EXCEPT ![p] =
                      [q \in Proc |-> IF q \in ids THEN {} ELSE pending[p][q]]]
      /\ peers' = [peers EXCEPT ![p] = [q \in Proc |-> IF q \in ids THEN 0 ELSE peers[p][q]]]
  BY DEF CommLostConn, Forget, Awaited, TypeOK
<1>3. frame[a][s].id \in Proc
  BY <1>1 DEF TypeOK, Frame
<1>4. CASE a # p
  <2>1. /\ result'[a] = result[a] /\ pending'[a] = pending[a] /\ peers'[a] = peers[a]
    BY <1>2, <1>4 DEF TypeOK
  <2> QED BY <1>1, <2>1 DEF BlockedPending
<1>5. CASE a = p
  <2>1. result'[p][s] = IF <<s, "sync">> \in Entries(p, S) THEN Lost ELSE result[p][s]
    BY <1>2 DEF TypeOK
  <2>2. <<s, "sync">> \notin Entries(p, S) /\ result[p][s] = NoResult
    BY <1>5, <2>1 DEF Lost, NoResult
  <2>3. <<s, "sync">> \in pending[p][frame[p][s].id] /\ peers[p][frame[p][s].id] # 0
    BY <1>1, <1>5, <2>2 DEF BlockedPending
  <2>4. frame[p][s].id \notin ids
    BY <2>2, <2>3 DEF Entries
  <2>5. /\ pending'[p][frame[p][s].id] = pending[p][frame[p][s].id]
        /\ peers'[p][frame[p][s].id] = peers[p][frame[p][s].id]
    <3> HIDE DEF ids
    <3> QED BY <1>2, <1>3, <1>5, <2>4 DEF TypeOK
  <2> QED BY <1>1, <1>5, <2>3, <2>5
<1> QED BY <1>4, <1>5

\* A send that waits is pending from the start; no other is disturbed.
LEMMA BlockedSend ==
  ASSUME TypeOK, BlockedPending, NEW p \in Proc, NEW q \in Proc, NEW kind \in Kinds,
         Send(p, q, kind), peers'[p][q] # 0
  PROVE  BlockedPending'
<1> DEFINE n == serial[p] + 1
<1>1. n \in Ser
  BY BoundAssumption DEF Send, TypeOK, Ser
<1>2. \A a, b \in Proc : peers[a][b] # 0 => peers'[a][b] # 0
  <2>1. PICK c \in Conn : NewConn(p, q, c) \/ UNCHANGED peers
    BY DEF Send, ConnectAndWrite
  <2> QED BY <2>1, PeersGrow
<1>3. kind \in {"send", "async", "command"} /\ UNCHANGED result
  BY KindsAssumption DEF Send
<1>4. \A a, b \in Proc : pending[a][b] \subseteq pending'[a][b]
  <2>1. \/ pending' = pending
        \/ \E e \in Entry : pending' = [pending EXCEPT ![p][q] = @ \cup {e}]
    BY <1>1, <1>3 DEF Send, Entry
  <2>2. pending \in [Proc -> [Proc -> SUBSET Entry]]
    BY DEF TypeOK
  <2>3. ASSUME NEW e \in Entry, NEW a \in Proc, NEW b \in Proc
        PROVE  pending[a][b] \subseteq [pending EXCEPT ![p][q] = @ \cup {e}][a][b]
    BY <2>2
  <2> QED BY <2>1, <2>3
<1>5. CASE kind = "send"
  <2>1. /\ frame' = [frame EXCEPT ![p][n] =
              [id |-> q, job |-> running[p], current |-> current[p],
               remoteid |-> IF current[p].async THEN NoProc ELSE remoteid[p]]]
        /\ pending' = [pending EXCEPT ![p][q] = @ \cup {<<n, "sync">>}]
    BY <1>5 DEF Send
  <2>2. frame'[p][n].id = q /\ <<n, "sync">> \in pending'[p][q]
    BY <1>1, <2>1 DEF TypeOK
  <2>3. \A a \in Proc, s \in Ser : a # p \/ s # n => frame'[a][s] = frame[a][s]
    BY <2>1 DEF TypeOK
  <2>4. ASSUME NEW a \in Proc, NEW s \in Ser, a # p \/ s # n, frame'[a][s] # NoFrame,
               result'[a][s] = NoResult
        PROVE  /\ <<s, "sync">> \in pending'[a][frame'[a][s].id]
               /\ peers'[a][frame'[a][s].id] # 0
    <3>1. frame'[a][s] = frame[a][s] BY <2>3, <2>4
    <3>2. frame[a][s].id \in Proc BY <2>4, <3>1 DEF TypeOK, Frame
    <3>3. <<s, "sync">> \in pending[a][frame[a][s].id] /\ peers[a][frame[a][s].id] # 0
      BY <1>3, <2>4, <3>1 DEF BlockedPending
    <3> QED BY <1>2, <1>4, <3>1, <3>2, <3>3
  <2> HIDE DEF n
  <2> QED BY <2>2, <2>4 DEF BlockedPending
<1>6. CASE kind # "send"
  <2>1. UNCHANGED frame BY <1>6 DEF Send
  <2> QED BY <1>2, <1>3, <1>4, <2>1, BlockedMonotone
<1> QED BY <1>5, <1>6

\* A send that returns takes its own entry with it, and nothing else.
LEMMA BlockedReturn ==
  ASSUME TypeOK, BlockedPending, NEW p \in Proc, Return(p)
  PROVE  BlockedPending'
<1>1. PICK s \in Ser :
        /\ Top(p, s)
        /\ pending' = [pending EXCEPT ![p][frame[p][s].id] = @ \ {<<s, "sync">>}]
        /\ result'  = [result EXCEPT ![p][s] = NoResult]
        /\ frame'   = [frame EXCEPT ![p][s] = NoFrame]
  BY DEF Return, Awake, Restore
<1>2. UNCHANGED peers
  BY DEF Return, Awake, Restore
<1>3. frame[p][s] \in Frame /\ frame[p][s].id \in Proc
  BY <1>1 DEF Top, Waiting, TypeOK, Frame
<1>4. ASSUME NEW a \in Proc, NEW t \in Ser, frame'[a][t] # NoFrame,
             result'[a][t] = NoResult
      PROVE  /\ <<t, "sync">> \in pending'[a][frame'[a][t].id]
             /\ peers'[a][frame'[a][t].id] # 0
  <2>1. a # p \/ t # s
    BY <1>1, <1>4 DEF TypeOK
  <2>2. frame'[a][t] = frame[a][t] /\ result'[a][t] = result[a][t]
    BY <1>1, <2>1 DEF TypeOK
  <2>3. frame[a][t].id \in Proc
    BY <1>4, <2>2 DEF TypeOK, Frame
  <2>4. <<t, "sync">> \in pending[a][frame[a][t].id] /\ peers[a][frame[a][t].id] # 0
    BY <1>4, <2>2 DEF BlockedPending
  <2>5. /\ a # p => pending'[a] = pending[a]
        /\ pending[a][frame[a][t].id] \ {<<s, "sync">>} \subseteq pending'[a][frame[a][t].id]
    BY <1>1, <1>3, <2>3 DEF TypeOK
  <2>6. t # s => <<t, "sync">> # <<s, "sync">>
    OBVIOUS
  <2> QED BY <1>2, <2>1, <2>2, <2>4, <2>5, <2>6
<1> QED BY <1>4 DEF BlockedPending

\* Every step keeps the blocked sends pending.
LEMMA BlockedStep == TypeOK /\ TablesAgree /\ BlockedPending /\ [Next]_vars => BlockedPending'
<1> SUFFICES ASSUME TypeOK, TablesAgree, BlockedPending, [Next]_vars
             PROVE  BlockedPending'
  OBVIOUS
<1>1. ASSUME NEW p \in Proc, NEW q \in Proc, Connect(p, q)
      PROVE  BlockedPending'
  <2>1. PICK c \in Conn : NewConn(p, q, c) \/ UNCHANGED peers
    BY <1>1 DEF Connect, ConnectAndWrite
  <2>2. UNCHANGED <<frame, result, pending>>
    BY <1>1 DEF Connect, waitVars
  <2>3. \A a, b \in Proc : peers[a][b] # 0 => peers'[a][b] # 0
    BY <2>1, PeersGrow
  <2> QED BY <2>2, <2>3, BlockedMonotone
<1>2. ASSUME NEW p \in Proc, NEW q \in Proc, Shutdown(p, q)
      PROVE  BlockedPending'
  <2>1. peers[p][q] \in Conn BY <1>2 DEF Shutdown, TypeOK
  <2> QED BY <1>2, <2>1, BlockedLost DEF Shutdown
<1>3. ASSUME NEW p \in Proc, NEW q \in Proc, NEW kind \in Kinds, Send(p, q, kind)
      PROVE  BlockedPending'
  <2>1. peers'[p][q] # 0 BY <1>3, TablesConnect DEF Send
  <2> QED BY <1>3, <2>1, BlockedSend
<1>4. ASSUME NEW p \in Proc, Abort(p)
      PROVE  BlockedPending'
  <2>1. {peers[p][q] : q \in Proc} \ {0} \in SUBSET Conn BY DEF TypeOK
  <2> QED BY <1>4, <2>1, BlockedLost DEF Abort
<1>5. ASSUME NEW p \in Proc,
             \/ \E q \in Proc : SendFails(p, q)
             \/ ReturnAsync(p) \/ FutureReturn(p) \/ Finish(p) \/ ExecRequest(p)
             \/ \E c \in Conn : CommIncoming(p, c) \/ CommCollect(p, c)
      PROVE  BlockedPending'
  <2>1. UNCHANGED <<frame, result, pending, peers>>
    BY <1>5
       DEF SendFails, ReturnAsync, FutureReturn, Finish, ExecRequest, CommIncoming,
           CommCollect, tableVars, waitVars
  <2> QED BY <2>1, BlockedMonotone
<1>6. ASSUME NEW p \in Proc, ExecReply(p)
      PROVE  BlockedPending'
  <2> DEFINE s == Head(idle[p]).msg.ser
             answer == [tag |-> "answer", of |-> Head(idle[p]).msg.of]
  <2>1. /\ UNCHANGED <<frame, pending, peers>>
        /\ UNCHANGED result \/ result' = [result EXCEPT ![p][s] = answer]
    BY <1>6 DEF ExecReply, tableVars
  <2>2. answer # NoResult
    BY DEF NoResult
  <2> HIDE DEF s, answer
  <2>3. ASSUME NEW a \in Proc, NEW t \in Ser, result'[a][t] = NoResult
        PROVE  result[a][t] = NoResult
    <3>1. result \in [Proc -> [Ser -> Result]] BY DEF TypeOK
    <3>2. [result EXCEPT ![p][s] = answer][a][t] \in {result[a][t], answer} BY <3>1
    <3> QED BY <2>1, <2>2, <2>3, <3>2
  <2> QED BY <2>1, <2>3, BlockedMonotone
<1>7. ASSUME NEW p \in Proc, ExecCallback(p)
      PROVE  BlockedPending'
  <2> DEFINE job == Head(idle[p])
  <2>1. /\ UNCHANGED <<frame, result, peers>>
        /\ \/ UNCHANGED pending
           \/ pending' = [pending EXCEPT ![p][job.id] = @ \ {<<job.msg.ser, "callback">>}]
    BY <1>7 DEF ExecCallback, Awaited
  <2> HIDE DEF job
  <2>2. ASSUME NEW a \in Proc, NEW b \in Proc, NEW t \in Ser, <<t, "sync">> \in pending[a][b]
        PROVE  <<t, "sync">> \in pending'[a][b]
    <3>1. <<t, "sync">> # <<job.msg.ser, "callback">> OBVIOUS
    <3>2. pending \in [Proc -> [Proc -> SUBSET Entry]] BY DEF TypeOK
    <3> DEFINE e == <<job.msg.ser, "callback">>
    <3> HIDE DEF e
    <3>3. pending[a][b] \ {e} \subseteq [pending EXCEPT ![p][job.id] = @ \ {e}][a][b]
      BY <3>2
    <3> QED BY <2>1, <2>2, <3>1, <3>3 DEF e
  <2> QED BY <2>1, <2>2, BlockedMonotone
<1>8. ASSUME NEW p \in Proc, Return(p)
      PROVE  BlockedPending'
  BY <1>8, BlockedReturn
<1>9. ASSUME NEW p \in Proc, NEW c \in Conn, CommIncomingOffered(p, c)
      PROVE  BlockedPending'
  <2>1. link[c].from \in Proc
    BY <1>9, ProcAssumption DEF CommIncomingOffered, TypeOK, Link, NoLink
  <2>2. \A a, b \in Proc : peers[a][b] # 0 => peers'[a][b] # 0
    BY <1>9, <2>1, PeersGrow DEF CommIncomingOffered
  <2>3. UNCHANGED <<frame, result, pending>>
    BY <1>9 DEF CommIncomingOffered, waitVars
  <2> QED BY <2>2, <2>3, BlockedMonotone
<1>10. ASSUME NEW p \in Proc, NEW c \in Conn, CommCollectEof(p, c)
       PROVE  BlockedPending'
  <2>1. CASE CommLostConn(p, {c})
    BY <2>1, BlockedLost
  <2>2. CASE UNCHANGED <<frame, result, pending, peers>>
    BY <2>2, BlockedMonotone
  <2> QED BY <1>10, <2>1, <2>2 DEF CommCollectEof, tableVars, waitVars
<1>11. ASSUME NEW p \in Proc, Die(p)
       PROVE  BlockedPending'
  <2>1. /\ \A s \in Ser : frame'[p][s] = NoFrame
        /\ \A a \in Proc : a # p => /\ frame'[a] = frame[a] /\ result'[a] = result[a]
                                    /\ pending'[a] = pending[a] /\ peers'[a] = peers[a]
    BY <1>11 DEF Die, TypeOK
  <2> QED BY <2>1 DEF BlockedPending
<1>12. CASE UNCHANGED vars
  BY <1>12, BlockedMonotone DEF vars, tableVars, waitVars
<1> QED BY <1>1, <1>2, <1>3, <1>4, <1>5, <1>6, <1>7, <1>8, <1>9, <1>10, <1>11, <1>12
        DEF Next, Loop, Script

\* No send is ever left blocked with nothing that could wake it: whatever was
\* lost, crossed, refused or executed meanwhile, in any nest of event loops.
THEOREM NoSendIsOrphaned == Spec => []NoOrphanedSend
<1>1. Init => TablesAgree /\ BlockedPending
  BY DEF Init, TablesAgree, BlockedPending
<1> QED BY <1>1, TypeInit, TypeStep, TablesStep, BlockedStep, BlockedIsNotOrphaned, PTL
        DEF Spec

---------------------------------------------------------------------------
(***************************************************************************)
(* Whose command is executing.                                             *)
(***************************************************************************)

\* The strengthening of StateIsOwn: what the frame of a nested loop saved is
\* the state of the script it belongs to.
SavedStateIsOwn ==
  \A p \in Proc, s \in Ser :
    LET f == frame[p][s]
    IN f # NoFrame /\ f.job # NoJob =>
         f.current.job = f.job /\ (~f.current.async => f.remoteid = f.job.id)

\* An action that starts or ends no script, and makes no future.
LEMMA OwnSame ==
  ASSUME StateIsOwn, SavedStateIsOwn, UNCHANGED <<frame, running, current, remoteid>>,
         \A p \in Proc : \A f \in futures'[p] :
           \E g \in futures[p] : f.job = g.job /\ f.owner = g.owner
  PROVE  StateIsOwn' /\ SavedStateIsOwn'
<1>1. \A p \in Proc : \A f \in futures'[p] : f.job = f.owner
  BY DEF StateIsOwn
<1>2. \A p \in Proc :
        running'[p] # NoJob =>
          /\ current'[p].job = running'[p]
          /\ ~current'[p].async => remoteid'[p] = running'[p].id
  BY DEF StateIsOwn
<1>3. SavedStateIsOwn'
  BY DEF SavedStateIsOwn
<1> QED BY <1>1, <1>2, <1>3 DEF StateIsOwn

\* Losing connections cancels futures and changes nothing else in them.
LEMMA OwnLost ==
  ASSUME TypeOK, StateIsOwn, SavedStateIsOwn, NEW p \in Proc, NEW S, CommLostConn(p, S)
  PROVE  StateIsOwn' /\ SavedStateIsOwn'
<1>1. UNCHANGED <<frame, running, current, remoteid>>
  BY DEF CommLostConn
<1>2. ASSUME NEW a \in Proc, NEW f \in futures'[a]
      PROVE  \E g \in futures[a] : f.job = g.job /\ f.owner = g.owner
  <2>1. futures' = [futures EXCEPT ![p] =
          {[g EXCEPT !.canceled = g.canceled \/ g.job.fid \in S] : g \in futures[p]}]
    BY DEF CommLostConn, Forget, Awaited, TypeOK
  <2>2. CASE a = p
    <3>1. PICK g \in futures[p] : f = [g EXCEPT !.canceled = g.canceled \/ g.job.fid \in S]
      BY <1>2, <2>1, <2>2 DEF TypeOK
    <3>2. g \in Future BY DEF TypeOK
    <3>3. f.job = g.job /\ f.owner = g.owner BY <3>1, <3>2 DEF Future
    <3> QED BY <2>2, <3>3
  <2>3. CASE a # p
    BY <1>2, <2>1, <2>3 DEF TypeOK
  <2> QED BY <2>2, <2>3
<1> QED BY <1>1, <1>2, OwnSame

\* A send that waits saves the state of the script that waits.
LEMMA OwnSend ==
  ASSUME TypeOK, StateIsOwn, SavedStateIsOwn, NEW p \in Proc, NEW q \in Proc,
         NEW kind \in Kinds, Send(p, q, kind)
  PROVE  StateIsOwn' /\ SavedStateIsOwn'
<1> DEFINE n == serial[p] + 1
           f == [id |-> q, job |-> running[p], current |-> current[p],
                 remoteid |-> IF current[p].async THEN NoProc ELSE remoteid[p]]
<1>1. UNCHANGED <<remoteid, current, futures>>
  BY DEF Send
<1>2. CASE kind # "send"
  <2>1. UNCHANGED <<frame, running>> BY <1>2 DEF Send
  <2> QED BY <1>1, <2>1, OwnSame
<1>3. CASE kind = "send"
  <2>1. frame' = [frame EXCEPT ![p][n] = f] /\ running' = [running EXCEPT ![p] = NoJob]
    BY <1>3 DEF Send
  <2>2. f.job # NoJob => f.current.job = f.job /\ (~f.current.async => f.remoteid = f.job.id)
    BY DEF StateIsOwn
  <2>3. frame \in [Proc -> [Ser -> Frame \cup {NoFrame}]] BY DEF TypeOK
  <2> HIDE DEF f, n
  <2>4. \A a \in Proc, s \in Ser : frame'[a][s] \in {frame[a][s], f}
    BY <2>1, <2>3
  <2>5. SavedStateIsOwn'
    BY <2>2, <2>4 DEF SavedStateIsOwn
  <2>6. \A a \in Proc : running'[a] # NoJob => a # p /\ running'[a] = running[a]
    BY <2>1 DEF TypeOK
  <2>7. StateIsOwn'
    BY <1>1, <2>6 DEF StateIsOwn
  <2> QED BY <2>5, <2>7
<1> QED BY <1>2, <1>3

\* A send that returns to a script restores the state that script had.
LEMMA OwnReturn ==
  ASSUME TypeOK, StateIsOwn, SavedStateIsOwn, NEW p \in Proc, Return(p)
  PROVE  StateIsOwn' /\ SavedStateIsOwn'
<1>1. PICK s \in Ser :
        LET f == frame[p][s]
        IN /\ Top(p, s)
           /\ frame'   = [frame EXCEPT ![p][s] = NoFrame]
           /\ running' = [running EXCEPT ![p] = f.job]
           /\ remoteid' = [remoteid EXCEPT ![p] = IF f.remoteid = NoProc THEN @ ELSE f.remoteid]
           /\ current' = [current EXCEPT ![p] = IF f.current.job = NoJob THEN @ ELSE f.current]
  BY DEF Return, Awake, Restore
<1> DEFINE f == frame[p][s]
<1>2. UNCHANGED futures
  BY DEF Return, Awake, Restore
<1>3. f \in Frame /\ f # NoFrame /\ (f.job # NoJob => f.job \in Job /\ f.job.id \in Proc)
  BY <1>1 DEF Top, Waiting, TypeOK, Frame, Job
<1>4. SavedStateIsOwn'
  <2>1. \A a \in Proc, t \in Ser : frame'[a][t] \in {frame[a][t], NoFrame}
    BY <1>1 DEF TypeOK
  <2> QED BY <2>1 DEF SavedStateIsOwn
<1>5. f.job # NoJob => f.current.job = f.job /\ (~f.current.async => f.remoteid = f.job.id)
  BY <1>3 DEF SavedStateIsOwn
<1>6. /\ running'[p] = f.job
      /\ f.remoteid # NoProc => remoteid'[p] = f.remoteid
      /\ f.current.job # NoJob => current'[p] = f.current
      /\ \A a \in Proc : a # p => /\ running'[a] = running[a] /\ remoteid'[a] = remoteid[a]
                                  /\ current'[a] = current[a]
  BY <1>1 DEF TypeOK
<1> HIDE DEF f
<1>7. running'[p] # NoJob => /\ current'[p].job = running'[p]
                             /\ ~current'[p].async => remoteid'[p] = running'[p].id
  BY <1>3, <1>5, <1>6, ProcAssumption
<1>8. StateIsOwn'
  BY <1>2, <1>6, <1>7 DEF StateIsOwn
<1> QED BY <1>4, <1>8

\* commExec starts a request as the current command.
LEMMA OwnExec ==
  ASSUME TypeOK, StateIsOwn, SavedStateIsOwn, NEW p \in Proc,
         ExecRequest(p) \/ ExecReply(p) \/ ExecCallback(p)
  PROVE  StateIsOwn' /\ SavedStateIsOwn'
<1> DEFINE job == Head(idle[p])
<1>1. /\ Dequeue(p, job) /\ UNCHANGED <<frame, futures>>
      /\ UNCHANGED running \/ running' = [running EXCEPT ![p] = job]
  BY DEF ExecRequest, ExecReply, ExecCallback, waitVars
<1>2. /\ running[p] = NoJob
      /\ remoteid' = [remoteid EXCEPT ![p] = job.id]
      /\ current'  = [current EXCEPT ![p] = [async |-> FALSE, job |-> job]]
  BY <1>1 DEF Dequeue
<1> HIDE DEF job
<1>3. running'[p] # NoJob => /\ current'[p].job = running'[p]
                             /\ ~current'[p].async => remoteid'[p] = running'[p].id
  BY <1>1, <1>2 DEF TypeOK
<1>4. \A a \in Proc : a # p => /\ running'[a] = running[a] /\ remoteid'[a] = remoteid[a]
                               /\ current'[a] = current[a]
  BY <1>1, <1>2 DEF TypeOK
<1>5. StateIsOwn'
  BY <1>1, <1>3, <1>4 DEF StateIsOwn
<1> QED BY <1>1, <1>5 DEF SavedStateIsOwn

LEMMA OwnStep ==
  TypeOK /\ StateIsOwn /\ SavedStateIsOwn /\ [Next]_vars => StateIsOwn' /\ SavedStateIsOwn'
<1> SUFFICES ASSUME TypeOK, StateIsOwn, SavedStateIsOwn, [Next]_vars
             PROVE  StateIsOwn' /\ SavedStateIsOwn'
  OBVIOUS
<1>1. ASSUME NEW p \in Proc,
             \/ \E q \in Proc : Connect(p, q) \/ SendFails(p, q)
             \/ \E c \in Conn : \/ CommIncoming(p, c) \/ CommIncomingOffered(p, c)
                              \/ CommCollect(p, c)
      PROVE  StateIsOwn' /\ SavedStateIsOwn'
  <2>1. UNCHANGED <<frame, running, current, remoteid, futures>>
    BY <1>1 DEF Connect, SendFails, CommIncoming, CommIncomingOffered, CommCollect,
                waitVars, execVars
  <2> QED BY <2>1, OwnSame
<1>2. ASSUME NEW p \in Proc, NEW S, CommLostConn(p, S)
      PROVE  StateIsOwn' /\ SavedStateIsOwn'
  BY <1>2, OwnLost
<1>3. ASSUME NEW p \in Proc, NEW c \in Conn, CommCollectEof(p, c)
      PROVE  StateIsOwn' /\ SavedStateIsOwn'
  <2>1. CASE UNCHANGED <<waitVars, execVars>>
    BY <2>1, OwnSame DEF waitVars, execVars
  <2> QED BY <1>2, <1>3, <2>1 DEF CommCollectEof
<1>4. ASSUME NEW p \in Proc, NEW q \in Proc, NEW kind \in Kinds, Send(p, q, kind)
      PROVE  StateIsOwn' /\ SavedStateIsOwn'
  BY <1>4, OwnSend
<1>5. ASSUME NEW p \in Proc, ReturnAsync(p)
      PROVE  StateIsOwn' /\ SavedStateIsOwn'
  <2>1. /\ running[p] # NoJob /\ UNCHANGED <<frame, running, remoteid>>
        /\ futures' = [futures EXCEPT ![p] = @ \cup
             {[job |-> current[p].job, owner |-> running[p], canceled |-> FALSE]}]
        /\ current' = [current EXCEPT ![p] = [current[p] EXCEPT !.async = TRUE]]
    BY <1>5 DEF ReturnAsync, waitVars
  <2>2. \A a \in Proc : \A f \in futures'[a] : f.job = f.owner
    BY <2>1 DEF StateIsOwn, TypeOK
  <2>3. current'[p].job = current[p].job /\ current'[p].async
    <3>1. current[p] \in State BY DEF TypeOK
    <3> QED BY <2>1, <3>1 DEF TypeOK, State
  <2>4. \A a \in Proc : a # p => current'[a] = current[a]
    BY <2>1 DEF TypeOK
  <2>5. StateIsOwn'
    BY <2>1, <2>2, <2>3, <2>4 DEF StateIsOwn
  <2> QED BY <2>1, <2>5 DEF SavedStateIsOwn
<1>6. ASSUME NEW p \in Proc, FutureReturn(p)
      PROVE  StateIsOwn' /\ SavedStateIsOwn'
  <2>1. /\ UNCHANGED <<frame, running, current, remoteid>>
        /\ \E f \in futures[p] : futures' = [futures EXCEPT ![p] = @ \ {f}]
    BY <1>6 DEF FutureReturn, waitVars
  <2>2. \A a \in Proc : futures'[a] \subseteq futures[a]
    BY <2>1 DEF TypeOK
  <2> QED BY <2>1, <2>2, OwnSame
<1>7. ASSUME NEW p \in Proc, Finish(p)
      PROVE  StateIsOwn' /\ SavedStateIsOwn'
  <2>1. /\ UNCHANGED <<frame, current, remoteid, futures>>
        /\ running' = [running EXCEPT ![p] = NoJob]
    BY <1>7 DEF Finish, waitVars
  <2>2. \A a \in Proc : running'[a] # NoJob => running'[a] = running[a]
    BY <2>1 DEF TypeOK
  <2> QED BY <2>1, <2>2 DEF StateIsOwn, SavedStateIsOwn
<1>8. ASSUME NEW p \in Proc, ExecRequest(p) \/ ExecReply(p) \/ ExecCallback(p)
      PROVE  StateIsOwn' /\ SavedStateIsOwn'
  BY <1>8, OwnExec
<1>9. ASSUME NEW p \in Proc, Return(p)
      PROVE  StateIsOwn' /\ SavedStateIsOwn'
  BY <1>9, OwnReturn
<1>10. ASSUME NEW p \in Proc, Die(p)
       PROVE  StateIsOwn' /\ SavedStateIsOwn'
  <2>1. /\ \A a \in Proc : running'[a] # NoJob => running'[a] = running[a]
        /\ \A a \in Proc : futures'[a] \subseteq futures[a]
        /\ \A a \in Proc, s \in Ser : frame'[a][s] \in {frame[a][s], NoFrame}
        /\ UNCHANGED <<current, remoteid>>
    BY <1>10 DEF Die, TypeOK
  <2>2. StateIsOwn' BY <2>1 DEF StateIsOwn
  <2>3. SavedStateIsOwn' BY <2>1 DEF SavedStateIsOwn
  <2> QED BY <2>2, <2>3
<1>11. CASE UNCHANGED vars
  BY <1>11, OwnSame DEF vars, waitVars, execVars
<1> QED BY <1>1, <1>2, <1>3, <1>4, <1>5, <1>6, <1>7, <1>8, <1>9, <1>10, <1>11
        DEF Next, Loop, Script, Shutdown, Abort

\* The current remote command is the one whose script is executing, however
\* deep the nest of event loops it was in.
THEOREM StateIsAlwaysOwn == Spec => []StateIsOwn
<1>1. Init => StateIsOwn /\ SavedStateIsOwn
  BY DEF Init, StateIsOwn, SavedStateIsOwn
<1> QED BY <1>1, TypeInit, TypeStep, OwnStep, PTL DEF Spec

---------------------------------------------------------------------------
(***************************************************************************)
(* What the caller knows of its commands.                                  *)
(***************************************************************************)

\* Whether a synchronous send waits can be read from its frame and from return.
WaitsAgree ==
  \A p \in Proc, s \in Ser : ret[p][s] \in {"waiting", "set"} <=> frame[p][s] # NoFrame

\* A send in a pending list waits for that peer.
SyncListed ==
  \A p, q \in Proc, s \in Ser : <<s, "sync">> \in pending[p][q] => frame[p][s].id = q

\* A callback is in one list; while it is registered, it was not invoked.
BackListed ==
  \A p, q \in Proc, s \in Ser : <<s, "callback">> \in pending[p][q] =>
    /\ s <= serial[p]
    /\ ret[p][s] # "none" => called[p][s] = <<>>
    /\ \A r \in Proc : <<s, "callback">> \in pending[p][r] => r = q

Unsent ==
  \A p \in Proc, s \in Ser : s > serial[p] =>
    ret[p][s] = "none" /\ told[p][s] = <<>> /\ called[p][s] = <<>> /\ execs[p][s] = 0

\* What a command came to, with what is still to come.
Outcome(e, t, c, w, r) ==
  /\ e \in {0, 1}
  /\ t \in {<<>>, <<"answer">>, <<"lost">>}
  /\ c \in {<<>>, <<"answer">>, <<"lost">>, <<"lost", "answer">>}
  /\ t = <<"answer">> \/ c \in {<<"answer">>, <<"lost", "answer">>} => e = 1
  /\ w # NoFrame => t = <<>>
  /\ r # "none" => c \in {<<>>, <<"lost">>}

Outcomes ==
  \A p \in Proc, s \in Ser :
    Outcome(execs[p][s], told[p][s], called[p][s], frame[p][s], ret[p][s])

\* A send is told of something, or a callback; a command is executed.
LEMMA OutcomeTold ==
  ASSUME NEW e, NEW t, NEW c, NEW w, NEW r, Outcome(e, t, c, w, r),
         NEW v \in {"answer", "lost"}, v = "answer" => e = 1
  PROVE  Outcome(e, <<v>>, c, NoFrame, "none")
<1>1. <<"lost">> # <<"answer">>
  OBVIOUS
<1>2. <<v>> \in {<<>>, <<"answer">>, <<"lost">>}
  OBVIOUS
<1>3. <<v>> = <<"answer">> => e = 1
  BY <1>1
<1> DEFINE u == <<v>>
<1>4. u \in {<<>>, <<"answer">>, <<"lost">>} /\ (u = <<"answer">> => e = 1)
  BY <1>2, <1>3
<1> HIDE DEF u
<1>5. Outcome(e, u, c, NoFrame, "none")
  BY <1>4 DEF Outcome
<1> QED BY <1>5 DEF u

LEMMA OutcomeCalled ==
  ASSUME NEW t, NEW c, NEW w, NEW r, Outcome(1, t, c, w, r), r # "none"
  PROVE  Outcome(1, t, Append(c, "answer"), w, "none")
<1>1. Append(<<>>, "answer") = <<"answer">>
  OBVIOUS
<1>2. Append(<<"lost">>, "answer") = <<"lost", "answer">>
  <2> DEFINE a == Append(<<"lost">>, "answer")
             b == <<"lost", "answer">>
             T == {"lost", "answer"}
  <2>5. <<"lost">> \in Seq(T) /\ Len(<<"lost">>) = 1 /\ "answer" \in T
    OBVIOUS
  <2>6. a \in Seq(T) /\ Len(a) = 2
    BY <2>5
  <2>7. b \in Seq(T)
    OBVIOUS
  <2>8. Len(b) = 2
    OBVIOUS
  <2>1. a \in Seq(T) /\ b \in Seq(T) /\ Len(a) = 2 /\ Len(b) = 2
    BY <2>6, <2>7, <2>8
  <2>2. a[1] = "lost" /\ a[2] = "answer" /\ b[1] = "lost" /\ b[2] = "answer"
    OBVIOUS
  <2> HIDE DEF a, b
  <2>3. \A i \in 1 .. Len(a) : i = 1 \/ i = 2
    BY <2>1
  <2>4. a = b
    BY <2>1, <2>2, <2>3
  <2> QED BY <2>4 DEF a, b
<1>3. c = <<>> \/ c = <<"lost">>
  BY DEF Outcome
<1> DEFINE u == Append(c, "answer")
<1>4. u \in {<<"answer">>, <<"lost", "answer">>}
  BY <1>1, <1>2, <1>3
<1> HIDE DEF u
<1>5. Outcome(1, t, u, w, "none")
  BY <1>4 DEF Outcome
<1> QED BY <1>5 DEF u

LEMMA OutcomeExecuted ==
  ASSUME NEW t, NEW c, NEW w, NEW r, Outcome(0, t, c, w, r)
  PROVE  Outcome(1, t, c, w, r)
BY DEF Outcome

CallerInv == WaitsAgree /\ SyncListed /\ BackListed /\ Unsent /\ Outcomes /\ OwnAnswer

\* Callbacks leave the lists.
LEMMA BackListedShrinks ==
  ASSUME BackListed, \A a, b \in Proc : pending'[a][b] \subseteq pending[a][b],
         \A a \in Proc, s \in Ser : s <= serial[a] => s <= serial'[a],
         \A a \in Proc, s \in Ser :
           ret'[a][s] # "none" => ret[a][s] # "none" /\ called'[a][s] = called[a][s]
  PROVE  BackListed'
<1> SUFFICES ASSUME NEW a \in Proc, NEW b \in Proc, NEW t \in Ser, <<t, "callback">> \in pending'[a][b]
             PROVE  /\ t <= serial'[a]
                    /\ ret'[a][t] # "none" => called'[a][t] = <<>>
                    /\ \A r \in Proc : <<t, "callback">> \in pending'[a][r] => r = b
  BY DEF BackListed
<1>1. t <= serial[a] /\ (ret[a][t] # "none" => called[a][t] = <<>>)
  BY DEF BackListed
<1>2. \A r \in Proc : <<t, "callback">> \in pending[a][r] => r = b
  BY DEF BackListed
<1>3. ret'[a][t] # "none" => called'[a][t] = <<>>
  BY <1>1
<1>4. t <= serial'[a]
  BY <1>1
<1> QED BY <1>2, <1>3, <1>4

\* Nothing of the caller's changes, but for the number of the next command.
LEMMA CallerSame ==
  ASSUME CallerInv, TypeOK, UNCHANGED <<pending, ret, result, frame, histVars>>,
         \A p \in Proc : serial'[p] >= serial[p], serial' \in [Proc -> 0 .. MaxSerial]
  PROVE  CallerInv'
<1>1. WaitsAgree' /\ SyncListed' /\ Outcomes'
  BY DEF CallerInv, WaitsAgree, SyncListed, Outcomes, histVars
<1>2. BackListed'
  <2>1. \A p \in Proc, s \in Ser : s <= serial[p] => s <= serial'[p]
    BY BoundAssumption DEF TypeOK, Ser
  <2> QED BY <2>1 DEF CallerInv, BackListed, histVars
<1>3. Unsent'
  <2>1. \A p \in Proc, s \in Ser : s > serial'[p] => s > serial[p]
    BY BoundAssumption DEF TypeOK, Ser
  <2> QED BY <2>1 DEF CallerInv, Unsent, histVars
<1>4. OwnAnswer'
  BY DEF CallerInv, OwnAnswer, histVars, Waiting
<1> QED BY <1>1, <1>2, <1>3, <1>4 DEF CallerInv

\* Losing connections.
LEMMA CallerLost ==
  ASSUME TypeOK, CallerInv, NEW p \in Proc, NEW S, CommLostConn(p, S),
         \A c \in S : fids[p][c] \in Proc
  PROVE  CallerInv'
<1> DEFINE sync == {s \in Ser : <<s, "sync">> \in Entries(p, S)}
           back == {s \in Ser : <<s, "callback">> \in Entries(p, S) /\ ret[p][s] # "none"}
           ids  == {fids[p][c] : c \in S}
<1>1. /\ UNCHANGED <<serial, frame, execs, told>>
      /\ ret' = [ret EXCEPT ![p] = [s \in Ser |-> IF s \in sync THEN "set" ELSE ret[p][s]]]
      /\ result' = [result EXCEPT ![p] =
                      [s \in Ser |-> IF s \in sync THEN Lost ELSE result[p][s]]]
      /\ called' = [called EXCEPT ![p] =
           [s \in Ser |-> IF s \in back THEN Append(called[p][s], "lost") ELSE called[p][s]]]
      /\ pending' = [pending EXCEPT ![p] =
                      [q \in Proc |-> IF q \in ids THEN {} ELSE pending[p][q]]]
  BY DEF CommLostConn, Forget, Awaited, TypeOK
<1>2. \A s \in sync : s \in Ser /\ \E q \in Proc : q \in ids /\ <<s, "sync">> \in pending[p][q]
  <2> SUFFICES ASSUME NEW s \in sync
               PROVE  \E q \in Proc : q \in ids /\ <<s, "sync">> \in pending[p][q]
    OBVIOUS
  <2>1. PICK c \in S : <<s, "sync">> \in pending[p][fids[p][c]]
    BY DEF Entries
  <2> QED BY <2>1
<1>3. \A s \in back : /\ s \in Ser /\ ret[p][s] # "none"
                      /\ \E q \in Proc : q \in ids /\ <<s, "callback">> \in pending[p][q]
  <2> SUFFICES ASSUME NEW s \in back
               PROVE  \E q \in Proc : q \in ids /\ <<s, "callback">> \in pending[p][q]
    OBVIOUS
  <2>1. PICK c \in S : <<s, "callback">> \in pending[p][fids[p][c]]
    BY DEF Entries
  <2> QED BY <2>1
<1>4. \A s \in sync : frame[p][s] # NoFrame
  BY <1>2, ProcAssumption DEF CallerInv, SyncListed, NoFrame
<1> HIDE DEF sync, back, ids
<1>5. \A a \in Proc, s \in Ser :
        /\ ret'[a][s] = IF a = p /\ s \in sync THEN "set" ELSE ret[a][s]
        /\ result'[a][s] = IF a = p /\ s \in sync THEN Lost ELSE result[a][s]
        /\ called'[a][s] = IF a = p /\ s \in back THEN Append(called[a][s], "lost") ELSE called[a][s]
  BY <1>1 DEF TypeOK
<1>6. \A a, q \in Proc : /\ pending'[a][q] \subseteq pending[a][q]
                         /\ a = p /\ q \in ids => pending'[a][q] = {}
  BY <1>1 DEF TypeOK
<1>7. WaitsAgree'
  BY <1>1, <1>4, <1>5 DEF CallerInv, WaitsAgree
<1>8. SyncListed'
  BY <1>1, <1>6 DEF CallerInv, SyncListed
<1>9. \A s \in back : called[p][s] = <<>>
  BY <1>3 DEF CallerInv, BackListed
<1>10. BackListed'
  <2> SUFFICES ASSUME NEW a \in Proc, NEW q \in Proc, NEW s \in Ser, <<s, "callback">> \in pending'[a][q]
               PROVE  /\ s <= serial'[a]
                      /\ ret'[a][s] # "none" => called'[a][s] = <<>>
                      /\ \A r \in Proc : <<s, "callback">> \in pending'[a][r] => r = q
    BY DEF BackListed
  <2>1. <<s, "callback">> \in pending[a][q]
    BY <1>6
  <2>2. s <= serial[a] /\ (ret[a][s] # "none" => called[a][s] = <<>>)
    BY <2>1 DEF CallerInv, BackListed
  <2>3. \A r \in Proc : <<s, "callback">> \in pending[a][r] => r = q
    BY <2>1 DEF CallerInv, BackListed
  <2>4. ~(a = p /\ s \in back)
    BY <2>3, <1>3, <1>6
  <2>5. a = p /\ s \in sync => called[a][s] = <<>>
    BY <2>2, <1>4 DEF CallerInv, WaitsAgree
  <2>6. ret'[a][s] # "none" => called'[a][s] = <<>>
    BY <2>2, <2>4, <2>5, <1>5
  <2> QED BY <2>2, <2>3, <2>6, <1>1, <1>6
<1>11. \A a \in Proc, s \in Ser : ret'[a][s] # "none" => ret[a][s] # "none"
  BY <1>4, <1>5 DEF CallerInv, WaitsAgree
<1>12. Unsent'
  <2> SUFFICES ASSUME NEW a \in Proc, NEW s \in Ser, s > serial[a]
               PROVE  /\ ret'[a][s] = "none" /\ told'[a][s] = <<>> /\ called'[a][s] = <<>>
                      /\ execs'[a][s] = 0
    BY <1>1 DEF Unsent
  <2>1. ret[a][s] = "none" /\ told[a][s] = <<>> /\ called[a][s] = <<>> /\ execs[a][s] = 0
    BY DEF CallerInv, Unsent
  <2>2. ~(a = p /\ s \in sync) /\ ~(a = p /\ s \in back)
    BY <2>1, <1>3, <1>4 DEF CallerInv, WaitsAgree
  <2> QED BY <2>1, <2>2, <1>1, <1>5
<1>13. Outcomes'
  <2>1. Append(<<>>, "lost") = <<"lost">>
    OBVIOUS
  <2>2. ASSUME NEW a \in Proc, NEW s \in Ser
        PROVE  called'[a][s] = called[a][s] \/ (called[a][s] = <<>> /\ called'[a][s] = <<"lost">>)
    <3>1. CASE a = p /\ s \in back
      <4>1. called[a][s] = <<>>
        BY <3>1, <1>9
      <4>2. called'[a][s] = Append(called[a][s], "lost")
        BY <3>1, <1>5
      <4> QED BY <4>1, <4>2, <2>1
    <3>2. CASE ~(a = p /\ s \in back)
      BY <3>2, <1>5
    <3> QED BY <3>1, <3>2
  <2>3. ASSUME NEW a \in Proc, NEW s \in Ser
        PROVE  Outcome(execs[a][s], told[a][s], called'[a][s], frame[a][s], ret'[a][s])
    <3>1. Outcome(execs[a][s], told[a][s], called[a][s], frame[a][s], ret[a][s])
      BY DEF CallerInv, Outcomes
    <3>2. CASE called'[a][s] = called[a][s]
      BY <3>1, <3>2, <1>11 DEF Outcome
    <3>3. CASE called[a][s] = <<>> /\ called'[a][s] = <<"lost">>
      <4>1. called'[a][s] # <<"answer">> /\ called'[a][s] # <<"lost", "answer">>
        BY <3>3
      <4> QED BY <3>1, <3>3, <4>1 DEF Outcome
    <3> QED BY <2>2, <3>2, <3>3
  <2> QED BY <2>3, <1>1 DEF Outcomes
<1>14. OwnAnswer'
  BY <1>1, <1>5 DEF CallerInv, OwnAnswer, Lost, Waiting
<1> QED BY <1>7, <1>8, <1>10, <1>12, <1>13, <1>14 DEF CallerInv

\* A command is sent.
LEMMA CallerSend ==
  ASSUME TypeOK, CallerInv, NEW p \in Proc, NEW q \in Proc, NEW kind \in Kinds, Send(p, q, kind)
  PROVE  CallerInv'
<1> DEFINE n == serial[p] + 1
           f == [id |-> q, job |-> running[p], current |-> current[p],
                 remoteid |-> IF current[p].async THEN NoProc ELSE remoteid[p]]
           new == CASE kind = "send" -> {<<n, "sync">>} [] kind = "command" -> {<<n, "callback">>}
                    [] kind = "async" -> {}
<1>1. /\ n <= MaxSerial /\ serial' = [serial EXCEPT ![p] = n] /\ UNCHANGED <<result, execs, told, called>>
      /\ pending' =
           CASE kind = "send"    -> [pending EXCEPT ![p][q] = @ \cup {<<n, "sync">>}]
             [] kind = "command" -> [pending EXCEPT ![p][q] = @ \cup {<<n, "callback">>}]
             [] kind = "async"   -> pending
      /\ ret' =
           CASE kind = "send"    -> [ret EXCEPT ![p][n] = "waiting"]
             [] kind = "command" -> [ret EXCEPT ![p][n] = "callback"]
             [] kind = "async"   -> ret
      /\ frame' = IF kind = "send" THEN [frame EXCEPT ![p][n] = f] ELSE frame
  BY DEF Send, histVars
<1>2. n \in Ser /\ serial[p] \in Nat /\ n > serial[p]
  BY <1>1, BoundAssumption DEF TypeOK, Ser
<1>3. f.id = q /\ f # NoFrame
  BY ProcAssumption DEF NoFrame
<1>4. kind \in {"send", "command", "async"}
  BY KindsAssumption
<1> HIDE DEF n, f
<1>5. ret[p][n] = "none" /\ told[p][n] = <<>> /\ called[p][n] = <<>> /\ execs[p][n] = 0
  BY <1>2 DEF CallerInv, Unsent
<1>6. frame[p][n] = NoFrame
  BY <1>2, <1>5 DEF CallerInv, WaitsAgree
<1>7. \A a \in Proc, s \in Ser :
        /\ a # p \/ s # n => ret'[a][s] = ret[a][s] /\ frame'[a][s] = frame[a][s]
        /\ a = p /\ s = n => CASE kind = "send" -> ret'[a][s] = "waiting" /\ frame'[a][s] = f
                               [] kind = "command" -> ret'[a][s] = "callback" /\ frame'[a][s] = NoFrame
                               [] kind = "async" -> ret'[a][s] = "none" /\ frame'[a][s] = NoFrame
  <2>1. CASE kind = "send"
    BY <2>1, <1>1, <1>2 DEF TypeOK
  <2>2. CASE kind = "command"
    BY <2>2, <1>1, <1>2, <1>6 DEF TypeOK
  <2>3. CASE kind = "async"
    BY <2>3, <1>1, <1>5, <1>6 DEF TypeOK
  <2> QED BY <2>1, <2>2, <2>3, <1>4
<1>8. \A a, b \in Proc : pending'[a][b] = IF a = p /\ b = q THEN pending[a][b] \cup new ELSE pending[a][b]
  <2>1. CASE kind = "send"
    BY <2>1, <1>1 DEF TypeOK
  <2>2. CASE kind = "command"
    BY <2>2, <1>1 DEF TypeOK
  <2>3. CASE kind = "async"
    BY <2>3, <1>1 DEF TypeOK
  <2> QED BY <2>1, <2>2, <2>3, <1>4
<1>9. \A s, t : <<s, t>> \in new => s = n /\ ((t = "sync" /\ kind = "send") \/ (t = "callback" /\ kind = "command"))
  BY <1>4
<1> HIDE DEF new
<1>10. WaitsAgree'
  <2> SUFFICES ASSUME NEW a \in Proc, NEW s \in Ser
               PROVE  ret'[a][s] \in {"waiting", "set"} <=> frame'[a][s] # NoFrame
    BY DEF WaitsAgree
  <2>1. CASE a = p /\ s = n
    BY <2>1, <1>3, <1>4, <1>7
  <2>2. CASE a # p \/ s # n
    <3>1. ret[a][s] \in {"waiting", "set"} <=> frame[a][s] # NoFrame
      BY DEF CallerInv, WaitsAgree
    <3>2. ret'[a][s] = ret[a][s] /\ frame'[a][s] = frame[a][s]
      BY <2>2, <1>7
    <3> QED BY <3>1, <3>2
  <2> QED BY <2>1, <2>2
<1>11. SyncListed'
  <2> SUFFICES ASSUME NEW a \in Proc, NEW b \in Proc, NEW s \in Ser, <<s, "sync">> \in pending'[a][b]
               PROVE  frame'[a][s].id = b
    BY DEF SyncListed
  <2>1. CASE <<s, "sync">> \in pending[a][b]
    <3>1. frame[a][s].id = b
      BY <2>1 DEF CallerInv, SyncListed
    <3>2. a # p \/ s # n
      BY <3>1, <1>6, ProcAssumption DEF NoFrame
    <3> QED BY <3>1, <3>2, <1>7
  <2>2. CASE <<s, "sync">> \notin pending[a][b]
    <3>1. a = p /\ b = q /\ <<s, "sync">> \in new
      BY <2>2, <1>8
    <3>2. s = n /\ kind = "send"
      BY <3>1, <1>9
    <3> QED BY <3>1, <3>2, <1>3, <1>7
  <2> QED BY <2>1, <2>2
<1>12. \A a \in Proc : serial'[a] = IF a = p THEN n ELSE serial[a]
  BY <1>1 DEF TypeOK
<1>13. \A a \in Proc, s \in Ser :
         /\ s > serial'[a] => s > serial[a] /\ (a # p \/ s # n)
         /\ s <= serial[a] => s <= serial'[a] /\ (a # p \/ s # n)
  <2> SUFFICES ASSUME NEW a \in Proc, NEW s \in Ser
               PROVE  /\ s > serial'[a] => s > serial[a] /\ (a # p \/ s # n)
                      /\ s <= serial[a] => s <= serial'[a] /\ (a # p \/ s # n)
    OBVIOUS
  <2>1. s \in Nat /\ n \in Nat /\ serial[a] \in Nat
    BY <1>2, BoundAssumption DEF TypeOK, Ser
  <2>2. CASE a = p
    BY <2>1, <2>2, <1>2, <1>12
  <2>3. CASE a # p
    BY <2>1, <2>3, <1>12
  <2> QED BY <2>2, <2>3
<1>14. serial'[p] = n
  BY <1>12
<1>15. BackListed'
  <2> SUFFICES ASSUME NEW a \in Proc, NEW b \in Proc, NEW s \in Ser, <<s, "callback">> \in pending'[a][b]
               PROVE  /\ s <= serial'[a]
                      /\ ret'[a][s] # "none" => called'[a][s] = <<>>
                      /\ \A r \in Proc : <<s, "callback">> \in pending'[a][r] => r = b
    BY DEF BackListed
  <2>1. CASE a = p /\ s = n
    <3>1. \A r \in Proc : <<s, "callback">> \notin pending[a][r]
      BY <2>1, <1>13 DEF CallerInv, BackListed
    <3>2. \A r \in Proc : <<s, "callback">> \in pending'[a][r] => r = q
      BY <3>1, <1>8
    <3>3. n <= n
      BY <1>2 DEF Ser
    <3> QED BY <2>1, <3>2, <3>3, <1>1, <1>5, <1>14
  <2>2. CASE a # p \/ s # n
    <3>1. \A r \in Proc : <<s, "callback">> \in pending'[a][r] => <<s, "callback">> \in pending[a][r]
      BY <2>2, <1>8, <1>9
    <3>2. s <= serial[a] /\ (ret[a][s] # "none" => called[a][s] = <<>>)
      BY <3>1 DEF CallerInv, BackListed
    <3>3. \A r \in Proc : <<s, "callback">> \in pending[a][r] => r = b
      BY <3>1 DEF CallerInv, BackListed
    <3> QED BY <2>2, <3>1, <3>2, <3>3, <1>1, <1>7, <1>13
  <2> QED BY <2>1, <2>2
<1>16. Unsent'
  <2> SUFFICES ASSUME NEW a \in Proc, NEW s \in Ser, s > serial'[a]
               PROVE  /\ ret'[a][s] = "none" /\ told[a][s] = <<>> /\ called[a][s] = <<>>
                      /\ execs[a][s] = 0
    BY <1>1 DEF Unsent
  <2>1. s > serial[a] /\ (a # p \/ s # n)
    BY <1>13
  <2>2. ret[a][s] = "none" /\ told[a][s] = <<>> /\ called[a][s] = <<>> /\ execs[a][s] = 0
    BY <2>1 DEF CallerInv, Unsent
  <2> QED BY <2>1, <2>2, <1>7
<1>17. Outcomes'
  <2> SUFFICES ASSUME NEW a \in Proc, NEW s \in Ser
               PROVE  Outcome(execs[a][s], told[a][s], called[a][s], frame'[a][s], ret'[a][s])
    BY <1>1 DEF Outcomes
  <2>1. Outcome(execs[a][s], told[a][s], called[a][s], frame[a][s], ret[a][s])
    BY DEF CallerInv, Outcomes
  <2>2. CASE a = p /\ s = n
    BY <2>1, <2>2, <1>5 DEF Outcome
  <2>3. CASE a # p \/ s # n
    BY <2>1, <2>3, <1>7
  <2> QED BY <2>2, <2>3
<1>18. OwnAnswer'
  <2>1. \A a \in Proc, s \in Ser : frame[a][s] # NoFrame => frame'[a][s] # NoFrame
    BY <1>6, <1>7
  <2> QED BY <2>1, <1>1 DEF CallerInv, OwnAnswer, Waiting
<1> QED BY <1>10, <1>11, <1>15, <1>16, <1>17, <1>18 DEF CallerInv

\* A send returns.
LEMMA CallerReturn ==
  ASSUME TypeOK, CallerInv, NEW p \in Proc, Return(p)
  PROVE  CallerInv'
<1>1. PICK s \in Ser :
        /\ frame[p][s] # NoFrame /\ result[p][s] # NoResult
        /\ pending' = [pending EXCEPT ![p][frame[p][s].id] = @ \ {<<s, "sync">>}]
        /\ ret'     = [ret EXCEPT ![p][s] = "none"]
        /\ result'  = [result EXCEPT ![p][s] = NoResult]
        /\ frame'   = [frame EXCEPT ![p][s] = NoFrame]
        /\ told'    = [told EXCEPT ![p][s] = Append(@, result[p][s].tag)]
  BY DEF Return, Awake, Top, Waiting
<1>2. UNCHANGED <<serial, execs, called>>
  BY DEF Return
<1>3. frame[p][s].id \in Proc
  BY <1>1 DEF TypeOK, Frame
<1>4. result[p][s].tag \in {"answer", "lost"}
  BY <1>1 DEF TypeOK, Result, Lost
<1>5. told[p][s] = <<>>
  BY <1>1 DEF CallerInv, Outcomes, Outcome
<1>6. result[p][s].tag = "answer" => execs[p][s] = 1
  BY DEF CallerInv, OwnAnswer
<1>7. \A a \in Proc, t \in Ser :
        /\ a # p \/ t # s => /\ ret'[a][t] = ret[a][t] /\ frame'[a][t] = frame[a][t]
                             /\ result'[a][t] = result[a][t] /\ told'[a][t] = told[a][t]
        /\ a = p /\ t = s => /\ ret'[a][t] = "none" /\ frame'[a][t] = NoFrame
                             /\ result'[a][t] = NoResult /\ told'[a][t] = <<result[p][s].tag>>
  BY <1>1, <1>5 DEF TypeOK
<1>8. \A a, b \in Proc : /\ pending'[a][b] \subseteq pending[a][b]
                         /\ a = p /\ b = frame[p][s].id => <<s, "sync">> \notin pending'[a][b]
  BY <1>1, <1>3 DEF TypeOK
<1>9. WaitsAgree'
  BY <1>7 DEF CallerInv, WaitsAgree
<1>10. SyncListed'
  <2> SUFFICES ASSUME NEW a \in Proc, NEW b \in Proc, NEW t \in Ser, <<t, "sync">> \in pending'[a][b]
               PROVE  frame'[a][t].id = b
    BY DEF SyncListed
  <2>1. frame[a][t].id = b
    BY <1>8 DEF CallerInv, SyncListed
  <2>2. a # p \/ t # s
    BY <2>1, <1>8
  <2> QED BY <2>1, <2>2, <1>7
<1>11. BackListed'
  <2>1. \A a \in Proc, t \in Ser :
          ret'[a][t] # "none" => ret[a][t] # "none" /\ called'[a][t] = called[a][t]
    BY <1>2, <1>7
  <2>2. BackListed /\ \A a, b \in Proc : pending'[a][b] \subseteq pending[a][b]
    BY <1>8 DEF CallerInv
  <2>3. \A a \in Proc, t \in Ser : t <= serial[a] => t <= serial'[a]
    BY <1>2
  <2> QED BY <2>1, <2>2, <2>3, BackListedShrinks
<1>12. Unsent'
  <2> SUFFICES ASSUME NEW a \in Proc, NEW t \in Ser, t > serial[a]
               PROVE  /\ ret'[a][t] = "none" /\ told'[a][t] = <<>> /\ called[a][t] = <<>>
                      /\ execs[a][t] = 0
    BY <1>2 DEF Unsent
  <2>1. ret[a][t] = "none" /\ told[a][t] = <<>> /\ called[a][t] = <<>> /\ execs[a][t] = 0
    BY DEF CallerInv, Unsent
  <2>2. a # p \/ t # s
    BY <2>1, <1>1 DEF CallerInv, WaitsAgree
  <2> QED BY <2>1, <2>2, <1>7
<1>13. Outcomes'
  <2> SUFFICES ASSUME NEW a \in Proc, NEW t \in Ser
               PROVE  Outcome(execs[a][t], told'[a][t], called[a][t], frame'[a][t], ret'[a][t])
    BY <1>2 DEF Outcomes
  <2>1. Outcome(execs[a][t], told[a][t], called[a][t], frame[a][t], ret[a][t])
    BY DEF CallerInv, Outcomes
  <2>2. CASE a = p /\ t = s
    <3>1. Outcome(execs[a][t], <<result[p][s].tag>>, called[a][t], NoFrame, "none")
      BY <2>1, <2>2, <1>4, <1>6, OutcomeTold
    <3>2. told'[a][t] = <<result[p][s].tag>> /\ frame'[a][t] = NoFrame /\ ret'[a][t] = "none"
      BY <2>2, <1>7
    <3> QED BY <3>1, <3>2
  <2>3. CASE a # p \/ t # s
    BY <2>1, <2>3, <1>7
  <2> QED BY <2>2, <2>3
<1>14. OwnAnswer'
  BY <1>2, <1>7 DEF CallerInv, OwnAnswer, Waiting, NoResult
<1> QED BY <1>9, <1>10, <1>11, <1>12, <1>13, <1>14 DEF CallerInv

\* A command is executed for the first time.
LEMMA CallerExecuted ==
  ASSUME TypeOK, CallerInv, NEW a \in Proc, NEW t \in Ser, t <= serial[a], execs[a][t] = 0,
         execs' = [execs EXCEPT ![a][t] = @ + 1],
         UNCHANGED <<serial, pending, ret, result, frame, told, called>>
  PROVE  CallerInv'
<1>1. \A b \in Proc, s \in Ser : execs'[b][s] = IF b = a /\ s = t THEN 1 ELSE execs[b][s]
  BY DEF TypeOK
<1>2. WaitsAgree' /\ SyncListed' /\ BackListed'
  BY DEF CallerInv, WaitsAgree, SyncListed, BackListed
<1>3. Unsent'
  <2>1. \A s \in Ser : s > serial[a] => s # t
    BY BoundAssumption DEF TypeOK, Ser
  <2> QED BY <2>1, <1>1 DEF CallerInv, Unsent
<1>4. Outcomes'
  <2> SUFFICES ASSUME NEW b \in Proc, NEW s \in Ser
               PROVE  Outcome(execs'[b][s], told[b][s], called[b][s], frame[b][s], ret[b][s])
    BY DEF Outcomes
  <2>1. Outcome(execs[b][s], told[b][s], called[b][s], frame[b][s], ret[b][s])
    BY DEF CallerInv, Outcomes
  <2>2. CASE b = a /\ s = t
    <3>1. Outcome(1, told[b][s], called[b][s], frame[b][s], ret[b][s])
      BY <2>1, <2>2, OutcomeExecuted
    <3> QED BY <2>2, <3>1, <1>1
  <2>3. CASE ~(b = a /\ s = t)
    <3>1. execs'[b][s] = execs[b][s]
      BY <2>3, <1>1
    <3> QED BY <2>1, <3>1
  <2> QED BY <2>2, <2>3
<1>5. OwnAnswer'
  BY <1>1 DEF CallerInv, OwnAnswer, Waiting
<1> QED BY <1>2, <1>3, <1>4, <1>5 DEF CallerInv

\* A waiting send is given its answer.
LEMMA CallerAnswered ==
  ASSUME TypeOK, CallerInv, NEW p \in Proc, NEW n \in Ser, ret[p][n] \in {"waiting", "set"},
         execs[p][n] = 1,
         ret' = [ret EXCEPT ![p][n] = "set"],
         result' = [result EXCEPT ![p][n] = [tag |-> "answer", of |-> <<p, n>>]],
         UNCHANGED <<serial, pending, frame, execs, told, called>>
  PROVE  CallerInv'
<1>1. \A a \in Proc, s \in Ser :
        /\ ret'[a][s] = IF a = p /\ s = n THEN "set" ELSE ret[a][s]
        /\ result'[a][s] = IF a = p /\ s = n THEN [tag |-> "answer", of |-> <<p, n>>] ELSE result[a][s]
  BY DEF TypeOK
<1>2. frame[p][n] # NoFrame
  BY DEF CallerInv, WaitsAgree
<1>3. WaitsAgree' /\ SyncListed'
  BY <1>1, <1>2 DEF CallerInv, WaitsAgree, SyncListed
<1>4. \A a \in Proc, s \in Ser : ret'[a][s] # "none" <=> ret[a][s] # "none"
  BY <1>1
<1>5. BackListed'
  BY <1>4 DEF CallerInv, BackListed
<1>6. Unsent'
  BY <1>4 DEF CallerInv, Unsent
<1>7. Outcomes'
  <2> SUFFICES ASSUME NEW a \in Proc, NEW s \in Ser
               PROVE  Outcome(execs[a][s], told[a][s], called[a][s], frame[a][s], ret'[a][s])
    BY DEF Outcomes
  <2>1. Outcome(execs[a][s], told[a][s], called[a][s], frame[a][s], ret[a][s])
    BY DEF CallerInv, Outcomes
  <2> QED BY <2>1, <1>4 DEF Outcome
<1>8. OwnAnswer'
  BY <1>1, <1>2 DEF CallerInv, OwnAnswer, Waiting
<1> QED BY <1>3, <1>5, <1>6, <1>7, <1>8 DEF CallerInv

\* A callback is given its answer.
LEMMA CallerCalled ==
  ASSUME TypeOK, CallerInv, NEW p \in Proc, NEW n \in Ser, ret[p][n] = "callback",
         execs[p][n] = 1,
         ret' = [ret EXCEPT ![p][n] = "none"],
         \A a, b \in Proc : pending'[a][b] \subseteq pending[a][b],
         called' = [called EXCEPT ![p][n] = Append(@, "answer")],
         UNCHANGED <<serial, result, frame, execs, told>>
  PROVE  CallerInv'
<1>1. \A a \in Proc, s \in Ser :
        /\ a # p \/ s # n => ret'[a][s] = ret[a][s] /\ called'[a][s] = called[a][s]
        /\ a = p /\ s = n => ret'[a][s] = "none" /\ called'[a][s] = Append(called[p][n], "answer")
  BY DEF TypeOK
<1>2. WaitsAgree'
  BY <1>1 DEF CallerInv, WaitsAgree
<1>3. SyncListed'
  BY DEF CallerInv, SyncListed
<1>4. BackListed'
  <2>1. \A a \in Proc, t \in Ser :
          ret'[a][t] # "none" => ret[a][t] # "none" /\ called'[a][t] = called[a][t]
    BY <1>1
  <2>2. BackListed /\ \A a, b \in Proc : pending'[a][b] \subseteq pending[a][b]
    BY DEF CallerInv
  <2>3. \A a \in Proc, t \in Ser : t <= serial[a] => t <= serial'[a]
    OBVIOUS
  <2> QED BY <2>1, <2>2, <2>3, BackListedShrinks
<1>5. Unsent'
  <2> SUFFICES ASSUME NEW a \in Proc, NEW t \in Ser, t > serial[a]
               PROVE  /\ ret'[a][t] = "none" /\ told[a][t] = <<>> /\ called'[a][t] = <<>>
                      /\ execs[a][t] = 0
    BY DEF Unsent
  <2>1. ret[a][t] = "none" /\ told[a][t] = <<>> /\ called[a][t] = <<>> /\ execs[a][t] = 0
    BY DEF CallerInv, Unsent
  <2>2. a # p \/ t # n
    BY <2>1
  <2> QED BY <2>1, <2>2, <1>1
<1>6. Outcomes'
  <2> SUFFICES ASSUME NEW a \in Proc, NEW s \in Ser
               PROVE  Outcome(execs[a][s], told[a][s], called'[a][s], frame[a][s], ret'[a][s])
    BY DEF Outcomes
  <2>1. Outcome(execs[a][s], told[a][s], called[a][s], frame[a][s], ret[a][s])
    BY DEF CallerInv, Outcomes
  <2>2. CASE a = p /\ s = n
    <3>1. Outcome(1, told[a][s], called[a][s], frame[a][s], ret[a][s]) /\ ret[a][s] # "none"
      BY <2>1, <2>2
    <3>2. Outcome(1, told[a][s], Append(called[a][s], "answer"), frame[a][s], "none")
      BY <3>1, OutcomeCalled
    <3>3. called'[a][s] = Append(called[a][s], "answer") /\ ret'[a][s] = "none" /\ execs[a][s] = 1
      BY <2>2, <1>1
    <3> QED BY <3>2, <3>3
  <2>3. CASE a # p \/ s # n
    <3>1. ret'[a][s] = ret[a][s] /\ called'[a][s] = called[a][s]
      BY <2>3, <1>1
    <3> QED BY <2>1, <3>1
  <2> QED BY <2>2, <2>3
<1>7. OwnAnswer'
  BY DEF CallerInv, OwnAnswer, Waiting
<1> QED BY <1>2, <1>3, <1>4, <1>5, <1>6, <1>7 DEF CallerInv

\* A caller dies.
LEMMA CallerDies ==
  ASSUME TypeOK, CallerInv, NEW p \in Proc, Die(p)
  PROVE  CallerInv'
<1>1. /\ UNCHANGED <<serial, execs, told, called>>
      /\ pending' = [pending EXCEPT ![p] = [q \in Proc |-> {}]]
      /\ ret'     = [ret EXCEPT ![p] = [s \in Ser |-> "none"]]
      /\ result'  = [result EXCEPT ![p] = [s \in Ser |-> NoResult]]
      /\ frame'   = [frame EXCEPT ![p] = [s \in Ser |-> NoFrame]]
  BY DEF Die, histVars
<1>2. \A a \in Proc, s \in Ser :
        /\ a # p => ret'[a][s] = ret[a][s] /\ frame'[a][s] = frame[a][s] /\ result'[a][s] = result[a][s]
        /\ a = p => ret'[a][s] = "none" /\ frame'[a][s] = NoFrame /\ result'[a][s] = NoResult
  BY <1>1 DEF TypeOK
<1>3. \A a, b \in Proc : /\ a # p => pending'[a][b] = pending[a][b]
                         /\ a = p => pending'[a][b] = {}
  BY <1>1 DEF TypeOK
<1>4. WaitsAgree'
  BY <1>2 DEF CallerInv, WaitsAgree
<1>5. SyncListed'
  BY <1>2, <1>3 DEF CallerInv, SyncListed
<1>6. BackListed'
  <2>1. \A a \in Proc, t \in Ser :
          ret'[a][t] # "none" => ret[a][t] # "none" /\ called'[a][t] = called[a][t]
    BY <1>1, <1>2
  <2>2. BackListed /\ \A a, b \in Proc : pending'[a][b] \subseteq pending[a][b]
    BY <1>3 DEF CallerInv
  <2>3. \A a \in Proc, t \in Ser : t <= serial[a] => t <= serial'[a]
    BY <1>1
  <2> QED BY <2>1, <2>2, <2>3, BackListedShrinks
<1>7. Unsent'
  BY <1>1, <1>2 DEF CallerInv, Unsent
<1>8. Outcomes'
  <2> SUFFICES ASSUME NEW a \in Proc, NEW s \in Ser
               PROVE  Outcome(execs[a][s], told[a][s], called[a][s], frame'[a][s], ret'[a][s])
    BY <1>1 DEF Outcomes
  <2>1. Outcome(execs[a][s], told[a][s], called[a][s], frame[a][s], ret[a][s])
    BY DEF CallerInv, Outcomes
  <2>2. CASE a = p
    <3>1. frame'[a][s] = NoFrame /\ ret'[a][s] = "none"
      BY <2>2, <1>2
    <3> QED BY <2>1, <3>1 DEF Outcome
  <2>3. CASE a # p
    <3>1. frame'[a][s] = frame[a][s] /\ ret'[a][s] = ret[a][s]
      BY <2>3, <1>2
    <3> QED BY <2>1, <3>1
  <2> QED BY <2>2, <2>3
<1>9. OwnAnswer'
  BY <1>1, <1>2 DEF CallerInv, OwnAnswer, Waiting, NoResult
<1> QED BY <1>4, <1>5, <1>6, <1>7, <1>8, <1>9 DEF CallerInv

---------------------------------------------------------------------------
(***************************************************************************)
(* Sequences of messages and of jobs.                                      *)
(***************************************************************************)

InSeq(s, x) == \E i \in DOMAIN s : s[i] = x

\* The messages of a sequence of jobs.
Msgs(b) == [i \in DOMAIN b |-> b[i].msg]

\* The requests of a sequence of messages.
Asks(w, k) == \E i \in DOMAIN w : w[i].kind \in Request /\ w[i].of = k
AsksTwice(w, k) ==
  \E i, j \in DOMAIN w : i # j /\ w[i].kind \in Request /\ w[i].of = k /\ w[j].kind \in Request /\ w[j].of = k

LEMMA TailIn ==
  ASSUME NEW T, NEW s \in Seq(T), s # <<>>
  PROVE  /\ Head(s) \in T /\ InSeq(s, Head(s))
         /\ \A x : InSeq(Tail(s), x) => InSeq(s, x)
<1>1. Head(s) = s[1] /\ 1 \in DOMAIN s /\ s[1] \in T
  OBVIOUS
<1>2. \A i \in DOMAIN Tail(s) : i + 1 \in DOMAIN s /\ Tail(s)[i] = s[i + 1]
  OBVIOUS
<1> QED BY <1>1, <1>2 DEF InSeq

LEMMA AppendIn ==
  ASSUME NEW T, NEW s \in Seq(T), NEW y \in T
  PROVE  \A x : InSeq(Append(s, y), x) => InSeq(s, x) \/ x = y
<1>1. \A i \in DOMAIN Append(s, y) : (i \in DOMAIN s /\ Append(s, y)[i] = s[i]) \/ Append(s, y)[i] = y
  OBVIOUS
<1> QED BY <1>1 DEF InSeq

LEMMA ConcatOne ==
  ASSUME NEW T, NEW s \in Seq(T), NEW y \in T
  PROVE  s \o <<y>> = Append(s, y)
OBVIOUS

LEMMA TailAsks ==
  ASSUME NEW w \in Seq(Msg), w # <<>>, NEW k
  PROVE  /\ Asks(Tail(w), k) => Asks(w, k)
         /\ AsksTwice(Tail(w), k) => AsksTwice(w, k)
         /\ Head(w).kind \in Request /\ Head(w).of = k =>
              Asks(w, k) /\ (Asks(Tail(w), k) => AsksTwice(w, k))
<1>1. Head(w) = w[1] /\ 1 \in DOMAIN w
  OBVIOUS
<1>2. \A i \in DOMAIN Tail(w) : i \in Nat /\ i + 1 \in DOMAIN w /\ i + 1 # 1 /\ Tail(w)[i] = w[i + 1]
  OBVIOUS
<1>3. \A i, j \in DOMAIN Tail(w) : i # j => i + 1 # j + 1
  BY <1>2
<1>4. Asks(Tail(w), k) => Asks(w, k)
  BY <1>2 DEF Asks
<1>5. AsksTwice(Tail(w), k) => AsksTwice(w, k)
  BY <1>2, <1>3 DEF AsksTwice
<1>6. ASSUME Head(w).kind \in Request, Head(w).of = k
      PROVE  Asks(w, k) /\ (Asks(Tail(w), k) => AsksTwice(w, k))
  BY <1>1, <1>2, <1>6 DEF Asks, AsksTwice
<1> QED BY <1>4, <1>5, <1>6

LEMMA AppendAsks ==
  ASSUME NEW w \in Seq(Msg), NEW m \in Msg, NEW k
  PROVE  /\ Asks(Append(w, m), k) => Asks(w, k) \/ (m.kind \in Request /\ m.of = k)
         /\ AsksTwice(Append(w, m), k) => AsksTwice(w, k) \/ (Asks(w, k) /\ m.kind \in Request /\ m.of = k)
<1> DEFINE a == Append(w, m)
<1>1. /\ DOMAIN a = DOMAIN w \cup {Len(w) + 1} /\ Len(w) + 1 \notin DOMAIN w
      /\ a[Len(w) + 1] = m
      /\ \A i \in DOMAIN w : a[i] = w[i]
  OBVIOUS
<1> DEFINE n == Len(w) + 1
<1> HIDE DEF a, n
<1>2. DOMAIN a = DOMAIN w \cup {n} /\ a[n] = m /\ \A i \in DOMAIN w : a[i] = w[i]
  BY <1>1 DEF n
<1>3. Asks(a, k) => Asks(w, k) \/ (m.kind \in Request /\ m.of = k)
  BY <1>2 DEF Asks
<1>4. AsksTwice(a, k) => AsksTwice(w, k) \/ (Asks(w, k) /\ m.kind \in Request /\ m.of = k)
  BY <1>2 DEF AsksTwice, Asks
<1> QED BY <1>3, <1>4 DEF a

LEMMA MsgsType ==
  ASSUME NEW b \in Seq(Job)
  PROVE  Msgs(b) \in Seq(Msg) /\ Len(Msgs(b)) = Len(b) /\ \A i \in DOMAIN b : Msgs(b)[i] = b[i].msg
<1>1. DOMAIN b = 1 .. Len(b) /\ Len(b) \in Nat /\ \A i \in DOMAIN b : b[i].msg \in Msg
  <2>1. DOMAIN b = 1 .. Len(b) /\ Len(b) \in Nat /\ \A i \in DOMAIN b : b[i] \in Job
    OBVIOUS
  <2>2. \A j \in Job : j.msg \in Msg
    BY DEF Job
  <2> QED BY <2>1, <2>2
<1>2. Msgs(b) \in [1 .. Len(b) -> Msg]
  BY <1>1 DEF Msgs
<1> QED BY <1>1, <1>2 DEF Msgs

LEMMA MsgsTail ==
  ASSUME NEW b \in Seq(Job), b # <<>>
  PROVE  Msgs(b) # <<>> /\ Msgs(Tail(b)) = Tail(Msgs(b)) /\ Head(Msgs(b)) = Head(b).msg
<1>1. Msgs(b) \in Seq(Msg) /\ Len(Msgs(b)) = Len(b) /\ \A i \in DOMAIN b : Msgs(b)[i] = b[i].msg
  BY MsgsType
<1>2. Tail(b) \in Seq(Job) /\ Len(Tail(b)) = Len(b) - 1 /\ \A i \in 1 .. Len(b) - 1 : Tail(b)[i] = b[i + 1]
  OBVIOUS
<1>3. /\ Msgs(Tail(b)) \in Seq(Msg) /\ Len(Msgs(Tail(b))) = Len(b) - 1
      /\ \A i \in DOMAIN Tail(b) : Msgs(Tail(b))[i] = Tail(b)[i].msg
  BY <1>2, MsgsType
<1>4. Msgs(b) # <<>> /\ Len(b) \in Nat \ {0}
  BY <1>1
<1>5. /\ Tail(Msgs(b)) \in Seq(Msg) /\ Len(Tail(Msgs(b))) = Len(b) - 1
      /\ \A i \in 1 .. Len(b) - 1 : Tail(Msgs(b))[i] = Msgs(b)[i + 1]
  <2> DEFINE t == Msgs(b)
  <2>1. t \in Seq(Msg) /\ t # <<>> /\ Len(t) = Len(b)
    BY <1>1, <1>4
  <2> HIDE DEF t
  <2>2. /\ Tail(t) \in Seq(Msg) /\ Len(Tail(t)) = Len(t) - 1
        /\ \A i \in 1 .. Len(t) - 1 : Tail(t)[i] = t[i + 1]
    BY <2>1
  <2> QED BY <2>1, <2>2 DEF t
<1>6. \A i \in 1 .. Len(b) - 1 : Msgs(Tail(b))[i] = Tail(Msgs(b))[i]
  <2>1. \A i \in 1 .. Len(b) - 1 : i \in DOMAIN Tail(b) /\ i + 1 \in DOMAIN b
    BY <1>2, <1>4
  <2> QED BY <2>1, <1>1, <1>2, <1>3, <1>5
<1>7. Msgs(Tail(b)) = Tail(Msgs(b))
  <2> DEFINE x == Msgs(Tail(b))
             y == Tail(Msgs(b))
             n == Len(b) - 1
  <2>1. x \in Seq(Msg) /\ y \in Seq(Msg) /\ Len(x) = n /\ Len(y) = n /\ \A i \in 1 .. n : x[i] = y[i]
    BY <1>3, <1>5, <1>6
  <2> HIDE DEF x, y, n
  <2>2. x = y
    BY <2>1
  <2> QED BY <2>2 DEF x, y
<1>8. Head(Msgs(b)) = Msgs(b)[1] /\ Head(b) = b[1] /\ 1 \in DOMAIN b
  BY <1>4, <1>1
<1> QED BY <1>1, <1>4, <1>7, <1>8

LEMMA MsgsAppend ==
  ASSUME NEW b \in Seq(Job), NEW j \in Job
  PROVE  Msgs(Append(b, j)) = Append(Msgs(b), j.msg) /\ j.msg \in Msg
<1>1. Msgs(b) \in Seq(Msg) /\ Len(Msgs(b)) = Len(b) /\ \A i \in DOMAIN b : Msgs(b)[i] = b[i].msg
  BY MsgsType
<1>2. /\ Append(b, j) \in Seq(Job) /\ Len(Append(b, j)) = Len(b) + 1
      /\ Append(b, j)[Len(b) + 1] = j /\ \A i \in 1 .. Len(b) : Append(b, j)[i] = b[i]
  OBVIOUS
<1>3. /\ Msgs(Append(b, j)) \in Seq(Msg) /\ Len(Msgs(Append(b, j))) = Len(b) + 1
      /\ \A i \in DOMAIN Append(b, j) : Msgs(Append(b, j))[i] = Append(b, j)[i].msg
  BY <1>2, MsgsType
<1>4. j.msg \in Msg
  BY DEF Job
<1>5. /\ Append(Msgs(b), j.msg) \in Seq(Msg) /\ Len(Append(Msgs(b), j.msg)) = Len(b) + 1
      /\ Append(Msgs(b), j.msg)[Len(b) + 1] = j.msg
      /\ \A i \in 1 .. Len(b) : Append(Msgs(b), j.msg)[i] = Msgs(b)[i]
  BY <1>1, <1>4
<1>6. ASSUME NEW i \in 1 .. Len(b) + 1
      PROVE  Msgs(Append(b, j))[i] = Append(Msgs(b), j.msg)[i]
  <2>1. i \in DOMAIN Append(b, j)
    BY <1>2
  <2>2. CASE i = Len(b) + 1
    BY <2>1, <2>2, <1>2, <1>3, <1>5
  <2>3. CASE i # Len(b) + 1
    <3>1. i \in 1 .. Len(b) /\ i \in DOMAIN b
      BY <2>3
    <3> QED BY <2>1, <3>1, <1>1, <1>2, <1>3, <1>5
  <2> QED BY <2>2, <2>3
<1>7. Msgs(Append(b, j)) = Append(Msgs(b), j.msg)
  <2> DEFINE x == Msgs(Append(b, j))
             y == Append(Msgs(b), j.msg)
             n == Len(b) + 1
  <2>1. x \in Seq(Msg) /\ y \in Seq(Msg) /\ Len(x) = n /\ Len(y) = n /\ \A i \in 1 .. n : x[i] = y[i]
    BY <1>3, <1>5, <1>6
  <2> HIDE DEF x, y, n
  <2>2. x = y
    BY <2>1
  <2> QED BY <2>2 DEF x, y
<1> QED BY <1>4, <1>7

---------------------------------------------------------------------------
(***************************************************************************)
(* What is under way.                                                      *)
(***************************************************************************)

\* The ends of a connection that are open belong to it.
LinksOK ==
  \A p \in Proc, c \in Conn : c \in open[p] =>
    stage[c] # "free" /\ link[c].from # link[c].to /\ p \in {link[c].from, link[c].to}

\* The message m of connection c, at the process q, is about a command that was
\* executed n times, and bears its number; a request comes from its caller, a
\* reply goes to it.  The caller did not register anything else for it.
Concerns(q, c, m, n) ==
  /\ stage[c] # "free"
  /\ m.of[1] = IF m.kind \in Request THEN Peer(q, c) ELSE q
  /\ m.of[2] \in Ser /\ m.ser = m.of[2] /\ m.of[2] <= serial[m.of[1]]
  /\ execs[m.of[1]][m.of[2]] = n
  /\ m.kind \in {"send", "reply"} => ret[m.of[1]][m.of[2]] # "callback"
  /\ m.kind \in {"command", "callback"} => ret[m.of[1]][m.of[2]] \in {"none", "callback"}

Underway(q, c, m) == m.kind # "offer" => Concerns(q, c, m, IF m.kind \in Request THEN 0 ELSE 1)

Executed(q, j) == j.msg.kind \in Request /\ Concerns(q, j.fid, j.msg, 1)

\* The process is executing the job, nested or not, or has promised its result.
Holds(q, j) == \/ running[q] = j
               \/ \E s \in Ser : frame[q][s].job = j
               \/ \E f \in futures[q] : f.owner = j

WiresOK    == \A q \in Proc, c \in Conn, m \in Msg : InSeq(wire[q][c], m) => Underway(q, c, m)
IdleOK     == \A q \in Proc, j \in Job : InSeq(idle[q], j) => Underway(q, j.fid, j.msg)
ExecutedOK == \A q \in Proc, j \in Job : Holds(q, j) => Executed(q, j)

\* No request is under way twice.
RequestsOnce ==
  \A k \in Call :
    /\ \A q \in Proc : ~AsksTwice(Msgs(idle[q]), k)
    /\ \A q \in Proc, c \in Conn : ~AsksTwice(wire[q][c], k)
    /\ \A q, r \in Proc : Asks(Msgs(idle[q]), k) /\ Asks(Msgs(idle[r]), k) => q = r
    /\ \A q, r \in Proc, c, d \in Conn : Asks(wire[q][c], k) /\ Asks(wire[r][d], k) => q = r /\ c = d
    /\ \A q, r \in Proc, c \in Conn : ~(Asks(wire[q][c], k) /\ Asks(Msgs(idle[r]), k))

MessageInv == LinksOK /\ WiresOK /\ IdleOK /\ ExecutedOK /\ RequestsOnce

\* What steps leave of what messages are about.
Steady ==
  /\ \A c \in Conn : stage[c] # "free" => stage'[c] # "free" /\ link'[c] = link[c]
  /\ \A p \in Proc : serial[p] <= serial'[p]
  /\ \A p \in Proc, s \in Ser : s <= serial[p] =>
       ret'[p][s] \in {ret[p][s], "none"} \/ (ret'[p][s] = "set" /\ ret[p][s] \in {"waiting", "set"})

LEMMA ConcernsStays ==
  ASSUME TypeOK, TypeOK', Steady, NEW q \in Proc, NEW c \in Conn, NEW m \in Msg, NEW n, NEW n2,
         Concerns(q, c, m, n), execs'[m.of[1]][m.of[2]] = n2
  PROVE  Concerns(q, c, m, n2)'
<1> DEFINE a == m.of[1]
           s == m.of[2]
<1>1. a \in Proc /\ s \in Ser /\ s <= serial[a] /\ stage[c] # "free"
  BY DEF Concerns, Msg
<1>2. stage'[c] # "free" /\ link'[c] = link[c]
  BY <1>1 DEF Steady
<1>3. m.of[1] = IF m.kind \in Request THEN Peer(q, c)' ELSE q
  BY <1>2 DEF Concerns, Peer
<1>4. m.of[2] \in Ser /\ m.ser = m.of[2]
  BY DEF Concerns
<1> HIDE DEF a, s
<1>5. s <= serial'[a]
  <2>1. serial[a] <= serial'[a] /\ serial[a] \in Nat /\ serial'[a] \in Nat /\ s \in Nat
    BY <1>1, BoundAssumption DEF Steady, TypeOK, Ser
  <2> QED BY <1>1, <2>1
<1>6. ret'[a][s] \in {ret[a][s], "none"} \/ (ret'[a][s] = "set" /\ ret[a][s] \in {"waiting", "set"})
  BY <1>1 DEF Steady
<1>7. /\ m.kind \in {"send", "reply"} => ret[a][s] # "callback"
      /\ m.kind \in {"command", "callback"} => ret[a][s] \in {"none", "callback"}
  BY DEF Concerns, a, s
<1>8. /\ m.kind \in {"send", "reply"} => ret'[a][s] # "callback"
      /\ m.kind \in {"command", "callback"} => ret'[a][s] \in {"none", "callback"}
  BY <1>6, <1>7
<1> QED BY <1>2, <1>3, <1>4, <1>5, <1>8 DEF Concerns, a, s

\* Messages are taken away or written, jobs come to their end.
LEMMA MessagesStay ==
  ASSUME TypeOK, TypeOK', Steady, UNCHANGED execs, WiresOK, IdleOK, ExecutedOK,
         \A q \in Proc, c \in Conn, m \in Msg :
           InSeq(wire'[q][c], m) => InSeq(wire[q][c], m) \/ Underway(q, c, m)',
         \A q \in Proc, j \in Job :
           InSeq(idle'[q], j) => InSeq(idle[q], j) \/ Underway(q, j.fid, j.msg),
         \A q \in Proc, j \in Job : Holds(q, j)' => Holds(q, j)
  PROVE  WiresOK' /\ IdleOK' /\ ExecutedOK'
<1>1. ASSUME NEW q \in Proc, NEW c \in Conn, NEW m \in Msg, Underway(q, c, m)
      PROVE  Underway(q, c, m)'
  <2> SUFFICES ASSUME m.kind # "offer"
               PROVE  Concerns(q, c, m, IF m.kind \in Request THEN 0 ELSE 1)'
    BY DEF Underway
  <2> DEFINE n == IF m.kind \in Request THEN 0 ELSE 1
  <2>1. Concerns(q, c, m, n)
    BY <1>1 DEF Underway
  <2>2. execs'[m.of[1]][m.of[2]] = n
    BY <2>1 DEF Concerns
  <2> HIDE DEF n
  <2>3. Concerns(q, c, m, n)'
    BY <2>1, <2>2, ConcernsStays
  <2> QED BY <2>3 DEF n
<1>2. ASSUME NEW q \in Proc, NEW j \in Job, Executed(q, j)
      PROVE  Executed(q, j)'
  <2>1. j.fid \in Conn /\ j.msg \in Msg
    BY DEF Job
  <2>2. execs'[j.msg.of[1]][j.msg.of[2]] = 1
    BY <1>2 DEF Executed, Concerns
  <2>3. Concerns(q, j.fid, j.msg, 1)'
    BY <1>2, <2>1, <2>2, ConcernsStays DEF Executed
  <2> QED BY <1>2, <2>3 DEF Executed
<1>3. WiresOK'
  BY <1>1 DEF WiresOK
<1>4. IdleOK'
  <2>1. \A j \in Job : j.fid \in Conn /\ j.msg \in Msg
    BY DEF Job
  <2> QED BY <1>1, <2>1 DEF IdleOK
<1>5. ExecutedOK'
  BY <1>2 DEF ExecutedOK
<1> QED BY <1>3, <1>4, <1>5

LEMMA OnceShrinks ==
  ASSUME RequestsOnce,
         \A k \in Call, q \in Proc :
           /\ Asks(Msgs(idle[q])', k) => Asks(Msgs(idle[q]), k)
           /\ AsksTwice(Msgs(idle[q])', k) => AsksTwice(Msgs(idle[q]), k),
         \A k \in Call, q \in Proc, c \in Conn :
           /\ Asks(wire'[q][c], k) => Asks(wire[q][c], k)
           /\ AsksTwice(wire'[q][c], k) => AsksTwice(wire[q][c], k)
  PROVE  RequestsOnce'
BY DEF RequestsOnce

\* One more request is written, which is not under way yet.
LEMMA OnceGrows ==
  ASSUME RequestsOnce, NEW k0, NEW r0 \in Proc, NEW c0 \in Conn, UNCHANGED idle,
         \A q \in Proc : ~Asks(Msgs(idle[q]), k0),
         \A q \in Proc, c \in Conn : ~Asks(wire[q][c], k0),
         \A k \in Call, q \in Proc, c \in Conn :
           /\ Asks(wire'[q][c], k) => Asks(wire[q][c], k) \/ (k = k0 /\ q = r0 /\ c = c0)
           /\ AsksTwice(wire'[q][c], k) => AsksTwice(wire[q][c], k)
  PROVE  RequestsOnce'
<1> SUFFICES ASSUME NEW k \in Call
             PROVE  /\ \A q \in Proc : ~AsksTwice(Msgs(idle[q]), k)
                    /\ \A q \in Proc, c \in Conn : ~AsksTwice(wire'[q][c], k)
                    /\ \A q, r \in Proc : Asks(Msgs(idle[q]), k) /\ Asks(Msgs(idle[r]), k) => q = r
                    /\ \A q, r \in Proc, c, d \in Conn :
                         Asks(wire'[q][c], k) /\ Asks(wire'[r][d], k) => q = r /\ c = d
                    /\ \A q, r \in Proc, c \in Conn : ~(Asks(wire'[q][c], k) /\ Asks(Msgs(idle[r]), k))
  BY DEF RequestsOnce
<1>1. /\ \A q \in Proc : ~AsksTwice(Msgs(idle[q]), k)
      /\ \A q \in Proc, c \in Conn : ~AsksTwice(wire'[q][c], k)
      /\ \A q, r \in Proc : Asks(Msgs(idle[q]), k) /\ Asks(Msgs(idle[r]), k) => q = r
  BY DEF RequestsOnce
<1>2. /\ \A q, r \in Proc, c, d \in Conn : Asks(wire[q][c], k) /\ Asks(wire[r][d], k) => q = r /\ c = d
      /\ \A q, r \in Proc, c \in Conn : ~(Asks(wire[q][c], k) /\ Asks(Msgs(idle[r]), k))
  BY DEF RequestsOnce
<1>3. CASE k = k0
  BY <1>1, <1>3
<1>4. CASE k # k0
  BY <1>1, <1>2, <1>4
<1> QED BY <1>3, <1>4

\* A message that is read goes from the wire to the idle queue.
LEMMA OnceCollected ==
  ASSUME RequestsOnce, NEW p \in Proc, NEW c0 \in Conn, NEW k0,
         Asks(wire[p][c0], k0),
         Asks(wire'[p][c0], k0) => AsksTwice(wire[p][c0], k0),
         \A k \in Call, q \in Proc, c \in Conn :
           /\ Asks(wire'[q][c], k) => Asks(wire[q][c], k)
           /\ AsksTwice(wire'[q][c], k) => AsksTwice(wire[q][c], k),
         \A k \in Call, q \in Proc :
           /\ Asks(Msgs(idle[q])', k) => Asks(Msgs(idle[q]), k) \/ (k = k0 /\ q = p)
           /\ AsksTwice(Msgs(idle[q])', k) =>
                AsksTwice(Msgs(idle[q]), k) \/ (k = k0 /\ q = p /\ Asks(Msgs(idle[p]), k))
  PROVE  RequestsOnce'
<1> SUFFICES ASSUME NEW k \in Call
             PROVE  /\ \A q \in Proc : ~AsksTwice(Msgs(idle[q])', k)
                    /\ \A q \in Proc, c \in Conn : ~AsksTwice(wire'[q][c], k)
                    /\ \A q, r \in Proc : Asks(Msgs(idle[q])', k) /\ Asks(Msgs(idle[r])', k) => q = r
                    /\ \A q, r \in Proc, c, d \in Conn :
                         Asks(wire'[q][c], k) /\ Asks(wire'[r][d], k) => q = r /\ c = d
                    /\ \A q, r \in Proc, c \in Conn : ~(Asks(wire'[q][c], k) /\ Asks(Msgs(idle[r])', k))
  BY DEF RequestsOnce
<1>1. /\ \A q \in Proc : ~AsksTwice(Msgs(idle[q]), k)
      /\ \A q \in Proc, c \in Conn : ~AsksTwice(wire[q][c], k)
      /\ \A q, r \in Proc : Asks(Msgs(idle[q]), k) /\ Asks(Msgs(idle[r]), k) => q = r
  BY DEF RequestsOnce
<1>2. /\ \A q, r \in Proc, c, d \in Conn : Asks(wire[q][c], k) /\ Asks(wire[r][d], k) => q = r /\ c = d
      /\ \A q, r \in Proc, c \in Conn : ~(Asks(wire[q][c], k) /\ Asks(Msgs(idle[r]), k))
  BY DEF RequestsOnce
<1>3. CASE k = k0
  <2>1. \A q \in Proc : ~Asks(Msgs(idle[q]), k)
    BY <1>2, <1>3
  <2>2. \A q \in Proc, c \in Conn : ~Asks(wire'[q][c], k)
    <3> SUFFICES ASSUME NEW q \in Proc, NEW c \in Conn, Asks(wire'[q][c], k)
                 PROVE  FALSE
      OBVIOUS
    <3>1. q = p /\ c = c0
      BY <1>2, <1>3
    <3> QED BY <3>1, <1>1, <1>3
  <2> QED BY <2>1, <2>2, <1>1, <1>3
<1>4. CASE k # k0
  BY <1>1, <1>2, <1>4
<1> QED BY <1>3, <1>4

---------------------------------------------------------------------------
(***************************************************************************)
(* What the steps do to the wires.                                         *)
(***************************************************************************)

\* Wires from which something is read, or that are emptied.
LEMMA WiresShrink ==
  ASSUME TypeOK, NEW q \in Proc, NEW c \in Conn,
         wire'[q][c] \in {wire[q][c], <<>>} \/ (wire[q][c] # <<>> /\ wire'[q][c] = Tail(wire[q][c]))
  PROVE  /\ \A m : InSeq(wire'[q][c], m) => InSeq(wire[q][c], m)
         /\ \A k : /\ Asks(wire'[q][c], k) => Asks(wire[q][c], k)
                   /\ AsksTwice(wire'[q][c], k) => AsksTwice(wire[q][c], k)
<1>1. wire[q][c] \in Seq(Msg)
  BY DEF TypeOK
<1>2. CASE wire'[q][c] = wire[q][c]
  BY <1>2
<1>3. CASE wire'[q][c] = <<>>
  <2>1. \A i : i \notin DOMAIN <<>>
    OBVIOUS
  <2> QED BY <2>1, <1>3 DEF InSeq, Asks, AsksTwice
<1>4. CASE wire[q][c] # <<>> /\ wire'[q][c] = Tail(wire[q][c])
  BY <1>1, <1>4, TailIn, TailAsks
<1> QED BY <1>2, <1>3, <1>4

\* A wire to which a message is written.
OfferOf(p) == [kind |-> "offer", ser |-> 0, of |-> <<p, 0>>]

LEMMA OfferIs ==
  ASSUME NEW p \in Proc
  PROVE  /\ <<OfferOf(p)>> \in Seq(Msg) /\ OfferOf(p) \in Msg
         /\ \A x : InSeq(<<OfferOf(p)>>, x) => x.kind = "offer"
         /\ \A k : ~Asks(<<OfferOf(p)>>, k)
         /\ \A k : ~AsksTwice(<<OfferOf(p)>>, k)
<1>1. OfferOf(p) \in Msg /\ OfferOf(p).kind = "offer"
  BY BoundAssumption DEF Msg, OfferOf
<1> DEFINE o == OfferOf(p)
<1> HIDE DEF o
<1>2. o \in Msg /\ o.kind = "offer"
  BY <1>1 DEF o
<1>3. <<o>> \in Seq(Msg) /\ DOMAIN <<o>> = {1} /\ <<o>>[1] = o
  BY <1>2
<1>4. \A k : ~Asks(<<o>>, k)
  BY <1>2, <1>3 DEF Asks, Request
<1>5. \A k : ~AsksTwice(<<o>>, k)
  BY <1>3 DEF AsksTwice
<1>6. \A x : InSeq(<<o>>, x) => x.kind = "offer"
  BY <1>2, <1>3 DEF InSeq
<1> QED BY <1>2, <1>3, <1>4, <1>5, <1>6 DEF o

Grown(p, q, c, m) ==
  \/ wire'[q][c] = wire[q][c]
  \/ wire'[q][c] = Append(wire[q][c], m)
  \/ wire'[q][c] = Append(<<OfferOf(p)>>, m)

LEMMA GrownIn ==
  ASSUME TypeOK, NEW p \in Proc, NEW q \in Proc, NEW c \in Conn, NEW m \in Msg, Grown(p, q, c, m),
         NEW x, InSeq(wire'[q][c], x)
  PROVE  InSeq(wire[q][c], x) \/ x = m \/ x.kind = "offer"
<1>1. wire[q][c] \in Seq(Msg)
  BY DEF TypeOK
<1>2. CASE wire'[q][c] = wire[q][c]
  BY <1>2
<1>3. CASE wire'[q][c] = Append(wire[q][c], m)
  BY <1>1, <1>3, AppendIn
<1>4. CASE wire'[q][c] = Append(<<OfferOf(p)>>, m)
  <2> DEFINE o == <<OfferOf(p)>>
  <2>1. o \in Seq(Msg) /\ (InSeq(o, x) => x.kind = "offer")
    BY OfferIs
  <2>2. InSeq(Append(o, m), x)
    BY <1>4
  <2> HIDE DEF o
  <2>3. InSeq(o, x) \/ x = m
    BY <2>1, <2>2, AppendIn
  <2> QED BY <2>1, <2>3
<1> QED BY <1>2, <1>3, <1>4 DEF Grown

LEMMA GrownAsks ==
  ASSUME TypeOK, NEW p \in Proc, NEW q \in Proc, NEW c \in Conn, NEW m \in Msg, Grown(p, q, c, m), NEW k
  PROVE  /\ Asks(wire'[q][c], k) => Asks(wire[q][c], k) \/ (m.kind \in Request /\ m.of = k)
         /\ AsksTwice(wire'[q][c], k) =>
              AsksTwice(wire[q][c], k) \/ (Asks(wire[q][c], k) /\ m.kind \in Request /\ m.of = k)
<1>1. wire[q][c] \in Seq(Msg)
  BY DEF TypeOK
<1>2. CASE wire'[q][c] = wire[q][c]
  BY <1>2
<1>3. CASE wire'[q][c] = Append(wire[q][c], m)
  BY <1>1, <1>3, AppendAsks
<1>4. CASE wire'[q][c] = Append(<<OfferOf(p)>>, m)
  <2> DEFINE o == <<OfferOf(p)>>
  <2>1. o \in Seq(Msg) /\ ~Asks(o, k) /\ ~AsksTwice(o, k)
    BY OfferIs
  <2>2. wire'[q][c] = Append(o, m)
    BY <1>4
  <2> HIDE DEF o
  <2>3. /\ Asks(Append(o, m), k) => Asks(o, k) \/ (m.kind \in Request /\ m.of = k)
        /\ AsksTwice(Append(o, m), k) => AsksTwice(o, k) \/ (Asks(o, k) /\ m.kind \in Request /\ m.of = k)
    BY <2>1, AppendAsks
  <2> QED BY <2>1, <2>2, <2>3
<1> QED BY <1>2, <1>3, <1>4 DEF Grown

\* puts, when the connection is open at this end.
LEMMA WrittenIs ==
  ASSUME TypeOK, NEW p \in Proc, NEW c \in Conn, NEW m \in Msg, wire' = Written(wire, p, c, <<m>>)
  PROVE  \A q \in Proc, d \in Conn :
           \/ wire'[q][d] = wire[q][d]
           \/ wire'[q][d] = Append(wire[q][d], m) /\ d = c /\ q = Peer(p, c) /\ c \in open[p]
<1> SUFFICES ASSUME NEW q \in Proc, NEW d \in Conn
             PROVE  \/ wire'[q][d] = wire[q][d]
                    \/ wire'[q][d] = Append(wire[q][d], m) /\ d = c /\ q = Peer(p, c) /\ c \in open[p]
  OBVIOUS
<1>1. wire[q][d] \o <<m>> = Append(wire[q][d], m)
  BY ConcatOne DEF TypeOK
<1>2. CASE c \in open[p] /\ c \in open[Peer(p, c)]
  <2> DEFINE r == Peer(p, c)
  <2>1. wire' = [wire EXCEPT ![r][c] = wire[r][c] \o <<m>>]
    BY <1>2 DEF Written
  <2>2. c \in open[p]
    BY <1>2
  <2>3. wire \in [Proc -> [Conn -> Seq(Msg)]]
    BY DEF TypeOK
  <2> HIDE DEF r
  <2>4. CASE q = r /\ d = c
    BY <1>1, <2>1, <2>2, <2>3, <2>4 DEF r
  <2>5. CASE q # r \/ d # c
    BY <2>1, <2>3, <2>5
  <2> QED BY <2>4, <2>5
<1>3. CASE ~(c \in open[p] /\ c \in open[Peer(p, c)])
  BY <1>3 DEF Written
<1> QED BY <1>2, <1>3

\* A connection is used, or opened.
LEMMA ConnectLinks ==
  ASSUME TypeOK, LinksOK, NEW p \in Proc, NEW q \in Proc, p # q, NEW c \in Conn, NEW ms,
         Usable(p, q, c), ConnectAndWrite(p, q, c, ms)
  PROVE  /\ LinksOK'
         /\ \A d \in Conn : stage[d] # "free" => stage'[d] # "free" /\ link'[d] = link[d]
<1>1. CASE peers[p][q] # 0
  BY <1>1 DEF ConnectAndWrite, LinksOK
<1>2. CASE peers[p][q] = 0
  <2>1. /\ stage[c] = "free"
        /\ link'  = [link EXCEPT ![c] = [from |-> p, to |-> q]]
        /\ stage' = [stage EXCEPT ![c] = "backlog"]
        /\ open'  = [open EXCEPT ![p] = @ \cup {c}, ![q] = @ \cup {c}]
    BY <1>2 DEF Usable, ConnectAndWrite
  <2>2. /\ link'[c] = [from |-> p, to |-> q] /\ stage'[c] = "backlog"
        /\ \A d \in Conn : d # c => link'[d] = link[d] /\ stage'[d] = stage[d]
    BY <2>1 DEF TypeOK
  <2>3. \A a \in Proc, d \in Conn : d \in open'[a] => d \in open[a] \/ (d = c /\ a \in {p, q})
    BY <2>1 DEF TypeOK
  <2>4. \A a \in Proc : c \notin open[a]
    BY <2>1 DEF LinksOK
  <2>5. link'[c].from = p /\ link'[c].to = q
    BY <2>2
  <2>6. LinksOK'
    <3> SUFFICES ASSUME NEW a \in Proc, NEW d \in Conn, d \in open'[a]
                 PROVE  /\ stage'[d] # "free" /\ link'[d].from # link'[d].to
                        /\ a \in {link'[d].from, link'[d].to}
      BY DEF LinksOK
    <3>1. CASE d = c
      BY <3>1, <2>2, <2>3, <2>4, <2>5
    <3>2. CASE d # c
      <4>1. d \in open[a]
        BY <3>2, <2>3
      <4>2. link'[d] = link[d] /\ stage'[d] = stage[d]
        BY <3>2, <2>2
      <4> QED BY <4>1, <4>2 DEF LinksOK
    <3> QED BY <3>1, <3>2
  <2>7. \A d \in Conn : stage[d] # "free" => stage'[d] # "free" /\ link'[d] = link[d]
    BY <2>1, <2>2
  <2> QED BY <2>6, <2>7
<1> QED BY <1>1, <1>2

\* Where the message goes that is written then.
LEMMA ConnectWrites ==
  ASSUME TypeOK, LinksOK, TablesAgree, NEW p \in Proc, NEW q \in Proc, p # q, NEW c \in Conn,
         NEW m \in Msg, Usable(p, q, c), ConnectAndWrite(p, q, c, <<m>>)
  PROVE  \E r \in Proc : /\ stage'[c] # "free" /\ Peer(r, c)' = p
                         /\ Grown(p, r, c, m)
                         /\ \A a \in Proc, d \in Conn : a # r \/ d # c => wire'[a][d] = wire[a][d]
<1>1. CASE peers[p][q] # 0
  <2>1. /\ c = peers[p][q] /\ wire' = Written(wire, p, c, <<m>>)
        /\ UNCHANGED <<link, stage, open>>
    BY <1>1 DEF Usable, ConnectAndWrite
  <2>2. c \in open[p]
    BY <1>1, <2>1 DEF TablesAgree
  <2>3. stage[c] # "free" /\ link[c].from # link[c].to /\ p \in {link[c].from, link[c].to}
    BY <2>2 DEF LinksOK
  <2>4. link[c].from \in Proc /\ link[c].to \in Proc
    <3>1. link[c] \in Link
      BY DEF TypeOK
    <3> QED BY <3>1, <2>3 DEF Link, NoLink
  <2>5. PICK r \in Proc : r = Peer(p, c) /\ Peer(r, c) = p
    BY <2>3, <2>4 DEF Peer
  <2>6. \A a \in Proc, d \in Conn :
          \/ wire'[a][d] = wire[a][d]
          \/ wire'[a][d] = Append(wire[a][d], m) /\ d = c /\ a = r
    BY <2>1, <2>5, WrittenIs
  <2>7. Peer(r, c)' = p /\ stage'[c] # "free"
    BY <2>1, <2>3, <2>5 DEF Peer
  <2> QED BY <2>5, <2>6, <2>7 DEF Grown
<1>2. CASE peers[p][q] = 0
  <2>1. /\ link'  = [link EXCEPT ![c] = [from |-> p, to |-> q]]
        /\ stage' = [stage EXCEPT ![c] = "backlog"]
        /\ wire'  = [wire EXCEPT ![q][c] = <<OfferOf(p)>> \o <<m>>]
    BY <1>2 DEF ConnectAndWrite, OfferOf
  <2>2. link'[c].from = p /\ link'[c].to = q /\ stage'[c] = "backlog"
    BY <2>1 DEF TypeOK
  <2>3. Peer(q, c)' = p
    BY <2>2 DEF Peer
  <2>4. <<OfferOf(p)>> \o <<m>> = Append(<<OfferOf(p)>>, m)
    BY OfferIs, ConcatOne
  <2>5. wire'[q][c] = Append(<<OfferOf(p)>>, m)
    BY <2>1, <2>4 DEF TypeOK
  <2>6. \A a \in Proc, d \in Conn : a # q \/ d # c => wire'[a][d] = wire[a][d]
    BY <2>1 DEF TypeOK
  <2> QED BY <2>2, <2>3, <2>5, <2>6 DEF Grown
<1> QED BY <1>1, <1>2

\* A connection is opened and nothing written.
LEMMA ConnectIn ==
  ASSUME TypeOK, NEW p \in Proc, NEW q \in Proc, NEW c \in Conn, peers[p][q] = 0,
         ConnectAndWrite(p, q, c, <<>>), NEW a \in Proc, NEW d \in Conn
  PROVE  wire'[a][d] = wire[a][d] \/ wire'[a][d] = <<OfferOf(p)>>
<1>1. wire'  = [wire EXCEPT ![q][c] = <<OfferOf(p)>> \o <<>>]
  BY DEF ConnectAndWrite, OfferOf
<1>2. <<OfferOf(p)>> \o <<>> = <<OfferOf(p)>>
  <2> DEFINE o == <<OfferOf(p)>>
  <2>1. o \in Seq(Msg)
    BY OfferIs
  <2> HIDE DEF o
  <2>2. o \o <<>> = o
    BY <2>1
  <2> QED BY <2>2 DEF o
<1> QED BY <1>1, <1>2 DEF TypeOK

\* Closing.
LEMMA LinksClose ==
  ASSUME LinksOK, \A p \in Proc : open'[p] \subseteq open[p],
         \A c \in Conn : stage[c] # "free" => stage'[c] # "free" /\ link'[c] = link[c]
  PROVE  LinksOK'
BY DEF LinksOK

LEMMA CloseIs ==
  ASSUME TypeOK, NEW p \in Proc, NEW S, Close(p, S)
  PROVE  /\ \A a \in Proc : open'[a] \subseteq open[a]
         /\ \A a \in Proc, d \in Conn : wire'[a][d] \in {wire[a][d], <<>>}
BY DEF TypeOK, Close

\* A reply is written, or not.
LEMMA ReplyIs ==
  ASSUME TypeOK, NEW p \in Proc, NEW j \in Job, Executed(p, j), CommSendReply(p, j, j.msg.of)
  PROVE  \E m \in Msg : /\ m.kind \in {"reply", "callback"}
                        /\ \A a \in Proc, d \in Conn :
                             \/ wire'[a][d] = wire[a][d]
                             \/ wire'[a][d] = Append(wire[a][d], m) /\ Underway(a, d, m)
<1> DEFINE k == IF j.msg.kind = "send" THEN "reply" ELSE "callback"
           m == [kind |-> k, ser |-> j.msg.ser, of |-> j.msg.of]
           r == Peer(p, j.fid)
<1>1. j.fid \in Conn /\ j.msg \in Msg /\ j.msg.ser \in 0 .. MaxSerial /\ j.msg.of \in Proc \X (0 .. MaxSerial)
  BY DEF Job, Msg
<1>2. m \in Msg /\ m.kind = k /\ m.ser = j.msg.ser /\ m.of = j.msg.of /\ k \in {"reply", "callback"}
  BY <1>1 DEF Msg
<1>3. j.msg.kind \in Request /\ Concerns(p, j.fid, j.msg, 1)
  BY DEF Executed
<1>4. \/ wire' = wire
      \/ j.msg.kind \in {"send", "command"} /\ wire' = Written(wire, p, j.fid, <<m>>)
  BY <1>3 DEF CommSendReply, Request
<1>5. ASSUME j.msg.kind \in {"send", "command"}
      PROVE  Underway(r, j.fid, m)
  <2>1. /\ stage[j.fid] # "free" /\ j.msg.of[1] = r
        /\ j.msg.of[2] \in Ser /\ j.msg.ser = j.msg.of[2] /\ j.msg.of[2] <= serial[j.msg.of[1]]
        /\ execs[j.msg.of[1]][j.msg.of[2]] = 1
    BY <1>3 DEF Concerns
  <2>2. /\ j.msg.kind = "send" => ret[j.msg.of[1]][j.msg.of[2]] # "callback"
        /\ j.msg.kind = "command" => ret[j.msg.of[1]][j.msg.of[2]] \in {"none", "callback"}
    BY <1>3 DEF Concerns
  <2>3. (k = "reply" /\ j.msg.kind = "send") \/ (k = "callback" /\ j.msg.kind = "command")
    BY <1>5
  <2> HIDE DEF m, r, k
  <2>4. Concerns(r, j.fid, m, 1)
    BY <2>1, <2>2, <2>3, <1>2 DEF Concerns, Request
  <2>5. m.kind \notin Request
    BY <1>2 DEF Request
  <2> QED BY <2>4, <2>5 DEF Underway
<1> HIDE DEF m, k
<1>6. CASE wire' = wire
  BY <1>2, <1>6
<1>7. CASE j.msg.kind \in {"send", "command"} /\ wire' = Written(wire, p, j.fid, <<m>>)
  <2>1. \A a \in Proc, d \in Conn :
          \/ wire'[a][d] = wire[a][d]
          \/ wire'[a][d] = Append(wire[a][d], m) /\ d = j.fid /\ a = Peer(p, j.fid)
    BY <1>1, <1>2, <1>7, WrittenIs
  <2> HIDE DEF r
  <2>2. Underway(r, j.fid, m) /\ r = Peer(p, j.fid)
    BY <1>5, <1>7 DEF r
  <2> QED BY <2>1, <2>2, <1>2
<1> QED BY <1>4, <1>6, <1>7

\* Queues from which something is taken, or that are emptied.
LEMMA IdleShrinks ==
  ASSUME TypeOK, NEW q \in Proc,
         idle'[q] \in {idle[q], <<>>} \/ (idle[q] # <<>> /\ idle'[q] = Tail(idle[q]))
  PROVE  /\ \A j : InSeq(idle'[q], j) => InSeq(idle[q], j)
         /\ \A k : Asks(Msgs(idle[q])', k) => Asks(Msgs(idle[q]), k)
         /\ \A k : AsksTwice(Msgs(idle[q])', k) => AsksTwice(Msgs(idle[q]), k)
<1>1. idle[q] \in Seq(Job) /\ Msgs(idle[q]) \in Seq(Msg)
  BY MsgsType DEF TypeOK
<1>2. CASE idle'[q] = idle[q]
  BY <1>2 DEF Msgs
<1>3. CASE idle'[q] = <<>>
  <2>1. \A i : i \notin DOMAIN <<>>
    OBVIOUS
  <2>2. \A i : i \notin DOMAIN (Msgs(idle[q])')
    BY <2>1, <1>3 DEF Msgs
  <2> QED BY <2>1, <2>2, <1>3 DEF InSeq, Asks, AsksTwice
<1>4. CASE idle[q] # <<>> /\ idle'[q] = Tail(idle[q])
  <2>1. Msgs(idle[q])' = Tail(Msgs(idle[q])) /\ Msgs(idle[q]) # <<>>
    <3>1. Msgs(idle'[q]) = Tail(Msgs(idle[q])) /\ Msgs(idle[q]) # <<>>
      BY <1>1, <1>4, MsgsTail
    <3> QED BY <3>1 DEF Msgs
  <2>2. \A j : InSeq(idle'[q], j) => InSeq(idle[q], j)
    BY <1>1, <1>4, TailIn
  <2> DEFINE t == Msgs(idle[q])
  <2>3. t \in Seq(Msg) /\ t # <<>>
    BY <1>1, <2>1
  <2>4. \A k : (Asks(Tail(t), k) => Asks(t, k)) /\ (AsksTwice(Tail(t), k) => AsksTwice(t, k))
    <3> HIDE DEF t
    <3> QED BY <2>3, TailAsks
  <2>5. \A k : Asks(Msgs(idle[q])', k) => Asks(Msgs(idle[q]), k)
    BY <2>1, <2>4
  <2>6. \A k : AsksTwice(Msgs(idle[q])', k) => AsksTwice(Msgs(idle[q]), k)
    BY <2>1, <2>4
  <2> QED BY <2>2, <2>5, <2>6
<1> QED BY <1>2, <1>3, <1>4

\* Nothing is written and nothing is executed.
LEMMA MessageQuiet ==
  ASSUME TypeOK, TypeOK', MessageInv, Steady, UNCHANGED execs,
         \A p \in Proc : open'[p] \subseteq open[p],
         \A q \in Proc, c \in Conn :
           wire'[q][c] \in {wire[q][c], <<>>} \/ (wire[q][c] # <<>> /\ wire'[q][c] = Tail(wire[q][c])),
         \A q \in Proc :
           idle'[q] \in {idle[q], <<>>} \/ (idle[q] # <<>> /\ idle'[q] = Tail(idle[q])),
         \A q \in Proc, j \in Job : Holds(q, j)' => Holds(q, j)
  PROVE  MessageInv'
<1>1. LinksOK'
  BY LinksClose DEF MessageInv, Steady
<1>2. ASSUME NEW q \in Proc, NEW c \in Conn
      PROVE  /\ \A m : InSeq(wire'[q][c], m) => InSeq(wire[q][c], m)
             /\ \A k : /\ Asks(wire'[q][c], k) => Asks(wire[q][c], k)
                       /\ AsksTwice(wire'[q][c], k) => AsksTwice(wire[q][c], k)
  BY WiresShrink
<1>3. ASSUME NEW q \in Proc
      PROVE  /\ \A j : InSeq(idle'[q], j) => InSeq(idle[q], j)
             /\ \A k : Asks(Msgs(idle[q])', k) => Asks(Msgs(idle[q]), k)
             /\ \A k : AsksTwice(Msgs(idle[q])', k) => AsksTwice(Msgs(idle[q]), k)
  BY IdleShrinks
<1>4. WiresOK' /\ IdleOK' /\ ExecutedOK'
  BY <1>2, <1>3, MessagesStay DEF MessageInv
<1>5. RequestsOnce'
  <2>1. \A k \in Call, q \in Proc, c \in Conn : /\ Asks(wire'[q][c], k) => Asks(wire[q][c], k)
                                                /\ AsksTwice(wire'[q][c], k) => AsksTwice(wire[q][c], k)
    BY <1>2
  <2>2. \A k \in Call, q \in Proc : /\ Asks(Msgs(idle[q])', k) => Asks(Msgs(idle[q]), k)
                                    /\ AsksTwice(Msgs(idle[q])', k) => AsksTwice(Msgs(idle[q]), k)
    BY <1>3
  <2> QED BY <2>1, <2>2, OnceShrinks DEF MessageInv
<1> QED BY <1>1, <1>4, <1>5 DEF MessageInv

\* Nothing changes that messages are about.
LEMMA SteadySame ==
  ASSUME TypeOK, UNCHANGED <<link, stage, serial, ret>>
  PROVE  Steady
<1>1. \A p \in Proc : serial[p] \in Nat
  BY BoundAssumption DEF TypeOK
<1>2. \A p \in Proc : serial[p] <= serial'[p]
  BY <1>1
<1> QED BY <1>2 DEF Steady

\* A reply is written.
LEMMA MessageReply ==
  ASSUME TypeOK, TypeOK', MessageInv, UNCHANGED <<link, stage, open, serial, ret, execs, idle>>,
         NEW p \in Proc, NEW j \in Job, Executed(p, j), CommSendReply(p, j, j.msg.of),
         \A q \in Proc, i \in Job : Holds(q, i)' => Holds(q, i)
  PROVE  MessageInv'
<1>1. Steady
  BY SteadySame
<1>2. LinksOK'
  BY DEF MessageInv, LinksOK
<1>3. PICK m \in Msg : /\ m.kind \in {"reply", "callback"}
                       /\ \A a \in Proc, d \in Conn :
                            \/ wire'[a][d] = wire[a][d]
                            \/ wire'[a][d] = Append(wire[a][d], m) /\ Underway(a, d, m)
  BY ReplyIs
<1>4. \A a \in Proc, d \in Conn : Underway(a, d, m) => Underway(a, d, m)'
  BY DEF Underway, Concerns, Peer
<1>5. ASSUME NEW a \in Proc, NEW d \in Conn, NEW x \in Msg, InSeq(wire'[a][d], x)
      PROVE  InSeq(wire[a][d], x) \/ Underway(a, d, x)'
  <2>1. CASE wire'[a][d] = wire[a][d]
    BY <1>5, <2>1
  <2>2. CASE wire'[a][d] = Append(wire[a][d], m) /\ Underway(a, d, m)
    <3>1. wire[a][d] \in Seq(Msg)
      BY DEF TypeOK
    <3>2. InSeq(wire[a][d], x) \/ x = m
      BY <3>1, <2>2, <1>5, AppendIn
    <3> QED BY <3>2, <2>2, <1>4
  <2> QED BY <2>1, <2>2, <1>3
<1>6. WiresOK' /\ IdleOK' /\ ExecutedOK'
  BY <1>1, <1>5, MessagesStay DEF MessageInv
<1>7. ASSUME NEW a \in Proc, NEW d \in Conn, NEW k
      PROVE  /\ Asks(wire'[a][d], k) => Asks(wire[a][d], k)
             /\ AsksTwice(wire'[a][d], k) => AsksTwice(wire[a][d], k)
  <2>1. m.kind \notin Request
    BY <1>3 DEF Request
  <2>2. wire[a][d] \in Seq(Msg)
    BY DEF TypeOK
  <2>3. wire'[a][d] = wire[a][d] \/ wire'[a][d] = Append(wire[a][d], m)
    BY <1>3
  <2>4. /\ Asks(Append(wire[a][d], m), k) => Asks(wire[a][d], k)
        /\ AsksTwice(Append(wire[a][d], m), k) => AsksTwice(wire[a][d], k)
    BY <2>1, <2>2, AppendAsks
  <2>5. CASE wire'[a][d] = wire[a][d]
    BY <2>5
  <2>6. CASE wire'[a][d] = Append(wire[a][d], m)
    BY <2>4, <2>6
  <2> QED BY <2>3, <2>5, <2>6
<1>8. RequestsOnce'
  <2>1. \A k \in Call, q \in Proc, c \in Conn : /\ Asks(wire'[q][c], k) => Asks(wire[q][c], k)
                                                /\ AsksTwice(wire'[q][c], k) => AsksTwice(wire[q][c], k)
    BY <1>7
  <2>2. \A k \in Call, q \in Proc : /\ Asks(Msgs(idle[q])', k) => Asks(Msgs(idle[q]), k)
                                    /\ AsksTwice(Msgs(idle[q])', k) => AsksTwice(Msgs(idle[q]), k)
    BY DEF Msgs
  <2> QED BY <2>1, <2>2, OnceShrinks DEF MessageInv
<1> QED BY <1>2, <1>6, <1>8 DEF MessageInv

---------------------------------------------------------------------------
(***************************************************************************)
(* The steps.                                                              *)
(***************************************************************************)

LEMMA NoJobIsNone == NoJob \notin Job
BY DEF Job, NoJob, Conn

\* Connections are accepted or refused, offers are read, a send fails.
LEMMA MessageNetwork ==
  ASSUME TypeOK, TypeOK', MessageInv, NEW p \in Proc,
         \/ \E c \in Conn : CommIncoming(p, c) \/ CommIncomingOffered(p, c)
         \/ \E c \in Conn : Close(p, {c}) /\ UNCHANGED <<link, stage, up, tableVars, waitVars, execVars, histVars>>
         \/ \E q \in Proc : SendFails(p, q)
         \/ UNCHANGED vars
  PROVE  MessageInv'
<1>1. UNCHANGED <<link, ret, execs, idle, running, frame, futures>>
  BY DEF CommIncoming, CommIncomingOffered, SendFails, netVars, tableVars, waitVars, execVars, histVars, vars
<1>2. \A c \in Conn : stage[c] # "free" => stage'[c] # "free"
  <2>1. \/ UNCHANGED stage
        \/ \E c \in Conn, v \in {"offered", "up"} : stage' = [stage EXCEPT ![c] = v]
    BY DEF CommIncoming, CommIncomingOffered, SendFails, netVars, vars
  <2>2. ASSUME NEW c \in Conn, NEW v \in {"offered", "up"}, stage' = [stage EXCEPT ![c] = v]
        PROVE  \A d \in Conn : stage'[d] = stage[d] \/ stage'[d] = v
    BY <2>2 DEF TypeOK
  <2> QED BY <2>1, <2>2
<1>3. \A a \in Proc : serial[a] <= serial'[a]
  <2>1. \A a \in Proc : serial[a] \in Nat
    BY BoundAssumption DEF TypeOK
  <2>2. serial' = serial \/ serial' = [serial EXCEPT ![p] = @ + 1]
    BY DEF CommIncoming, CommIncomingOffered, SendFails, tableVars, vars
  <2>3. \A a \in Proc : serial'[a] = serial[a] \/ serial'[a] = serial[a] + 1
    BY <2>2 DEF TypeOK
  <2> QED BY <2>1, <2>3
<1>4. Steady
  BY <1>1, <1>2, <1>3 DEF Steady
<1>5. \/ open' = open /\ wire' = wire
      \/ \E c \in Conn : Close(p, {c})
      \/ \E c \in Conn : open' = open /\ wire[p][c] # <<>> /\ wire' = [wire EXCEPT ![p][c] = Tail(@)]
  BY DEF CommIncoming, CommIncomingOffered, SendFails, netVars, vars
<1>6. /\ \A a \in Proc : open'[a] \subseteq open[a]
      /\ \A q \in Proc, c \in Conn :
           wire'[q][c] \in {wire[q][c], <<>>} \/ (wire[q][c] # <<>> /\ wire'[q][c] = Tail(wire[q][c]))
  <2>1. CASE open' = open /\ wire' = wire
    BY <2>1
  <2>2. ASSUME NEW c \in Conn, Close(p, {c})
        PROVE  /\ \A a \in Proc : open'[a] \subseteq open[a]
               /\ \A q \in Proc, d \in Conn : wire'[q][d] \in {wire[q][d], <<>>}
    BY <2>2, CloseIs
  <2>3. ASSUME NEW c \in Conn, wire[p][c] # <<>>, wire' = [wire EXCEPT ![p][c] = Tail(@)]
        PROVE  \A q \in Proc, d \in Conn :
                 wire'[q][d] = wire[q][d] \/ (wire[q][d] # <<>> /\ wire'[q][d] = Tail(wire[q][d]))
    BY <2>3 DEF TypeOK
  <2> QED BY <1>5, <2>1, <2>2, <2>3
<1>7. \A q \in Proc, j \in Job : Holds(q, j)' => Holds(q, j)
  BY <1>1 DEF Holds
<1> QED BY <1>1, <1>4, <1>6, <1>7, MessageQuiet

\* Connections are lost.
LEMMA MessageLost ==
  ASSUME TypeOK, TypeOK', MessageInv, CallerInv, NEW p \in Proc, NEW S, CommLostConn(p, S),
         \A c \in S : fids[p][c] \in Proc
  PROVE  MessageInv'
<1> DEFINE sync == {s \in Ser : <<s, "sync">> \in Entries(p, S)}
<1>1. /\ Close(p, S)
      /\ ret' = [ret EXCEPT ![p] = [s \in Ser |-> IF s \in sync THEN "set" ELSE ret[p][s]]]
      /\ UNCHANGED <<link, stage, serial, frame, idle, running, execs>>
  BY DEF CommLostConn, Forget, Awaited, TypeOK
<1>2. \A s \in sync : frame[p][s] # NoFrame
  <2> SUFFICES ASSUME NEW s \in Ser, <<s, "sync">> \in Entries(p, S)
               PROVE  frame[p][s] # NoFrame
    OBVIOUS
  <2>1. \E q \in Proc : <<s, "sync">> \in pending[p][q]
    BY DEF Entries
  <2> QED BY <2>1, ProcAssumption DEF CallerInv, SyncListed, NoFrame
<1>3. \A s \in sync : ret[p][s] \in {"waiting", "set"}
  BY <1>2 DEF CallerInv, WaitsAgree
<1>4. \A a \in Proc, s \in Ser : ret'[a][s] = ret[a][s] \/ (ret'[a][s] = "set" /\ a = p /\ s \in sync)
  BY <1>1 DEF TypeOK
<1> HIDE DEF sync
<1>5. Steady
  <2>1. \A a \in Proc : serial[a] <= serial'[a]
    <3>1. \A a \in Proc : serial[a] \in Nat
      BY BoundAssumption DEF TypeOK
    <3> QED BY <1>1, <3>1
  <2>2. \A a \in Proc, s \in Ser :
          ret'[a][s] \in {ret[a][s], "none"} \/ (ret'[a][s] = "set" /\ ret[a][s] \in {"waiting", "set"})
    BY <1>3, <1>4
  <2> QED BY <1>1, <2>1, <2>2 DEF Steady
<1>6. /\ \A a \in Proc : open'[a] \subseteq open[a]
      /\ \A a \in Proc, d \in Conn : wire'[a][d] \in {wire[a][d], <<>>}
  BY <1>1, CloseIs
<1>7. ASSUME NEW a \in Proc, NEW f \in futures'[a]
      PROVE  \E g \in futures[a] : f.owner = g.owner
  <2>1. futures' = [futures EXCEPT ![p] =
          {[g EXCEPT !.canceled = g.canceled \/ g.job.fid \in S] : g \in futures[p]}]
    BY DEF CommLostConn, Forget, Awaited, TypeOK
  <2>2. CASE a = p
    <3>1. PICK g \in futures[p] : f = [g EXCEPT !.canceled = g.canceled \/ g.job.fid \in S]
      BY <1>7, <2>1, <2>2 DEF TypeOK
    <3>2. g \in Future BY DEF TypeOK
    <3>3. f.owner = g.owner BY <3>1, <3>2 DEF Future
    <3> QED BY <2>2, <3>3
  <2>3. CASE a # p
    BY <1>7, <2>1, <2>3 DEF TypeOK
  <2> QED BY <2>2, <2>3
<1>8. \A q \in Proc, j \in Job : Holds(q, j)' => Holds(q, j)
  BY <1>1, <1>7 DEF Holds
<1> QED BY <1>1, <1>5, <1>6, <1>8, MessageQuiet

\* A send returns to the script that made it.
LEMMA MessageReturn ==
  ASSUME TypeOK, TypeOK', MessageInv, NEW p \in Proc, Return(p)
  PROVE  MessageInv'
<1>1. PICK s \in Ser :
        /\ ret'     = [ret EXCEPT ![p][s] = "none"]
        /\ frame'   = [frame EXCEPT ![p][s] = NoFrame]
        /\ running' = [running EXCEPT ![p] = frame[p][s].job]
  BY DEF Return
<1>2. UNCHANGED <<link, stage, open, wire, serial, idle, futures, execs>>
  BY DEF Return, netVars
<1>3. Steady
  <2>1. \A a \in Proc : serial[a] <= serial'[a]
    <3>1. \A a \in Proc : serial[a] \in Nat
      BY BoundAssumption DEF TypeOK
    <3> QED BY <1>2, <3>1
  <2>2. \A a \in Proc, t \in Ser : ret'[a][t] \in {ret[a][t], "none"}
    BY <1>1 DEF TypeOK
  <2> QED BY <1>2, <2>1, <2>2 DEF Steady
<1>4. ASSUME NEW q \in Proc, NEW j \in Job, Holds(q, j)'
      PROVE  Holds(q, j)
  <2>1. running'[q] = running[q] \/ (q = p /\ running'[q] = frame[p][s].job)
    BY <1>1 DEF TypeOK
  <2>2. \A t \in Ser : frame'[q][t] = frame[q][t] \/ frame'[q][t] = NoFrame
    BY <1>1 DEF TypeOK
  <2>3. NoFrame.job # j
    BY NoJobIsNone DEF NoFrame
  <2> QED BY <1>2, <1>4, <2>1, <2>2, <2>3 DEF Holds
<1> QED BY <1>2, <1>3, <1>4, MessageQuiet

\* A process dies.
LEMMA MessageDies ==
  ASSUME TypeOK, TypeOK', MessageInv, NEW p \in Proc, Die(p)
  PROVE  MessageInv'
<1>1. /\ Close(p, Conn)
      /\ ret'     = [ret EXCEPT ![p] = [s \in Ser |-> "none"]]
      /\ frame'   = [frame EXCEPT ![p] = [s \in Ser |-> NoFrame]]
      /\ idle'    = [idle EXCEPT ![p] = <<>>]
      /\ running' = [running EXCEPT ![p] = NoJob]
      /\ futures' = [futures EXCEPT ![p] = {}]
      /\ UNCHANGED <<link, stage, serial, execs>>
  BY DEF Die, histVars
<1>2. Steady
  <2>1. \A a \in Proc : serial[a] <= serial'[a]
    <3>1. \A a \in Proc : serial[a] \in Nat
      BY BoundAssumption DEF TypeOK
    <3> QED BY <1>1, <3>1
  <2>2. \A a \in Proc, t \in Ser : ret'[a][t] \in {ret[a][t], "none"}
    BY <1>1 DEF TypeOK
  <2> QED BY <1>1, <2>1, <2>2 DEF Steady
<1>3. /\ \A a \in Proc : open'[a] \subseteq open[a]
      /\ \A a \in Proc, d \in Conn : wire'[a][d] \in {wire[a][d], <<>>}
  BY <1>1, CloseIs
<1>4. \A a \in Proc : idle'[a] \in {idle[a], <<>>}
  BY <1>1 DEF TypeOK
<1>5. ASSUME NEW q \in Proc, NEW j \in Job, Holds(q, j)'
      PROVE  Holds(q, j)
  <2>1. running'[q] = running[q] \/ running'[q] = NoJob
    BY <1>1 DEF TypeOK
  <2>2. \A t \in Ser : frame'[q][t] = frame[q][t] \/ frame'[q][t] = NoFrame
    BY <1>1 DEF TypeOK
  <2>3. futures'[q] \subseteq futures[q]
    BY <1>1 DEF TypeOK
  <2>4. NoFrame.job # j /\ NoJob # j
    BY NoJobIsNone DEF NoFrame
  <2> QED BY <1>5, <2>1, <2>2, <2>3, <2>4 DEF Holds
<1> QED BY <1>1, <1>2, <1>3, <1>4, <1>5, MessageQuiet

\* A command promises its result for later.
LEMMA MessagePromise ==
  ASSUME TypeOK, TypeOK', MessageInv, NEW p \in Proc, ReturnAsync(p)
  PROVE  MessageInv'
<1>1. /\ futures' = [futures EXCEPT ![p] = @ \cup
           {[job |-> current[p].job, owner |-> running[p], canceled |-> FALSE]}]
      /\ UNCHANGED <<link, stage, open, wire, serial, ret, frame, idle, running, execs>>
  BY DEF ReturnAsync, netVars, tableVars, waitVars, histVars
<1>2. Steady
  BY <1>1, SteadySame
<1>3. \A a \in Proc : \A f \in futures'[a] : f \in futures[a] \/ f.owner = running[a]
  BY <1>1 DEF TypeOK
<1>4. \A q \in Proc, j \in Job : Holds(q, j)' => Holds(q, j)
  BY <1>1, <1>3 DEF Holds
<1> QED BY <1>1, <1>2, <1>4, MessageQuiet

\* A script ends; a promise is kept.
LEMMA MessageFinish ==
  ASSUME TypeOK, TypeOK', MessageInv, StateIsOwn, NEW p \in Proc, Finish(p) \/ FutureReturn(p)
  PROVE  MessageInv'
<1>1. UNCHANGED <<link, stage, open, serial, ret, frame, idle, execs>>
  BY DEF Finish, FutureReturn, tableVars, waitVars, histVars
<1>2. \A q \in Proc, j \in Job : Holds(q, j)' => Holds(q, j)
  <2>1. \A q \in Proc : futures'[q] \subseteq futures[q]
    <3>1. CASE Finish(p)
      BY <3>1 DEF Finish
    <3>2. CASE FutureReturn(p)
      <4>1. PICK f \in futures[p] : futures' = [futures EXCEPT ![p] = @ \ {f}]
        BY <3>2 DEF FutureReturn
      <4> QED BY <4>1 DEF TypeOK
    <3> QED BY <3>1, <3>2
  <2>2. \A q \in Proc : running'[q] = running[q] \/ running'[q] = NoJob
    BY DEF Finish, FutureReturn, TypeOK
  <2> QED BY <1>1, <2>1, <2>2, NoJobIsNone DEF Holds
<1>3. CASE UNCHANGED wire
  <2>1. Steady
    BY <1>1, SteadySame
  <2> QED BY <1>1, <1>2, <1>3, <2>1, MessageQuiet
<1>4. \/ UNCHANGED wire
      \/ \E j \in Job : Holds(p, j) /\ CommSendReply(p, j, j.msg.of)
  <2>1. CASE Finish(p)
    <3>1. running[p] \in Job /\ Holds(p, running[p])
      BY <2>1 DEF Finish, TypeOK, Holds
    <3>2. UNCHANGED wire \/ CommSendReply(p, running[p], running[p].msg.of)
      BY <2>1 DEF Finish
    <3> QED BY <3>1, <3>2
  <2>2. CASE FutureReturn(p)
    <3>1. PICK f \in futures[p] : UNCHANGED wire \/ CommSendReply(p, f.job, f.owner.msg.of)
      BY <2>2 DEF FutureReturn
    <3>2. f.job = f.owner /\ f.owner \in Job
      BY DEF StateIsOwn, TypeOK, Future
    <3>3. Holds(p, f.owner)
      BY DEF Holds
    <3> QED BY <3>1, <3>2, <3>3
  <2> QED BY <2>1, <2>2
<1>5. ASSUME NEW j \in Job, Holds(p, j), CommSendReply(p, j, j.msg.of)
      PROVE  MessageInv'
  <2>1. Executed(p, j)
    BY <1>5 DEF MessageInv, ExecutedOK
  <2> QED BY <1>1, <1>2, <1>5, <2>1, MessageReply
<1> QED BY <1>3, <1>4, <1>5

\* A reply or a callback is taken from the queue.
LEMMA MessageAnswered ==
  ASSUME TypeOK, TypeOK', MessageInv, NEW p \in Proc, ExecReply(p) \/ ExecCallback(p)
  PROVE  MessageInv'
<1>1. /\ idle[p] # <<>> /\ idle' = [idle EXCEPT ![p] = Tail(@)]
      /\ UNCHANGED <<link, stage, open, wire, serial, frame, running, futures, execs>>
  BY DEF ExecReply, ExecCallback, Dequeue, netVars, tableVars, histVars
<1> DEFINE job == Head(idle[p])
<1>2. idle[p] \in Seq(Job)
  BY DEF TypeOK
<1>3. job \in Job /\ InSeq(idle[p], job)
  BY <1>1, <1>2, TailIn
<1>4. Underway(p, job.fid, job.msg)
  BY <1>3 DEF MessageInv, IdleOK
<1>5. \A a \in Proc, s \in Ser :
        ret'[a][s] \in {ret[a][s], "none"} \/ (ret'[a][s] = "set" /\ ret[a][s] \in {"waiting", "set"})
  <2>1. job.msg.kind \in {"reply", "callback"}
    BY DEF ExecReply, ExecCallback
  <2>2. Concerns(p, job.fid, job.msg, 1)
    BY <2>1, <1>4 DEF Underway, Request
  <2>3. PICK n \in Ser : /\ n = job.msg.ser
                         /\ job.msg.kind = "reply" => ret[p][n] # "callback"
    BY <2>1, <2>2 DEF Concerns, Request
  <2>4. \/ UNCHANGED ret
        \/ ret' = [ret EXCEPT ![p][n] = "none"]
        \/ ret[p][n] \in {"waiting", "set"} /\ ret' = [ret EXCEPT ![p][n] = "set"]
    <3>1. CASE ExecReply(p)
      <4>1. UNCHANGED ret \/ (ret[p][n] # "none" /\ ret' = [ret EXCEPT ![p][n] = "set"])
        BY <3>1, <2>3 DEF ExecReply, Awaited
      <4>2. ret[p][n] # "callback"
        BY <3>1, <2>3 DEF ExecReply
      <4>3. ret[p][n] \in {"none", "waiting", "callback", "set"}
        BY DEF TypeOK
      <4> QED BY <4>1, <4>2, <4>3
    <3>2. CASE ExecCallback(p)
      BY <3>2, <2>3 DEF ExecCallback
    <3> QED BY <3>1, <3>2
  <2> HIDE DEF job
  <2>5. CASE UNCHANGED ret
    BY <2>5
  <2>6. CASE ret' = [ret EXCEPT ![p][n] = "none"]
    <3>1. \A a \in Proc, s \in Ser : ret'[a][s] \in {ret[a][s], "none"}
      BY <2>6 DEF TypeOK
    <3> QED BY <3>1
  <2>7. CASE ret[p][n] \in {"waiting", "set"} /\ ret' = [ret EXCEPT ![p][n] = "set"]
    <3>1. \A a \in Proc, s \in Ser :
            ret'[a][s] = ret[a][s] \/ (ret'[a][s] = "set" /\ a = p /\ s = n)
      BY <2>7 DEF TypeOK
    <3> QED BY <3>1, <2>7
  <2> QED BY <2>4, <2>5, <2>6, <2>7
<1>6. Steady
  <2>1. \A a \in Proc : serial[a] <= serial'[a]
    <3>1. \A a \in Proc : serial[a] \in Nat
      BY BoundAssumption DEF TypeOK
    <3> QED BY <1>1, <3>1
  <2> QED BY <1>1, <1>5, <2>1 DEF Steady
<1>7. \A q \in Proc : idle'[q] = idle[q] \/ (idle[q] # <<>> /\ idle'[q] = Tail(idle[q]))
  BY <1>1 DEF TypeOK
<1>8. \A q \in Proc, j \in Job : Holds(q, j)' => Holds(q, j)
  BY <1>1 DEF Holds
<1> QED BY <1>1, <1>6, <1>7, <1>8, MessageQuiet

\* A connection is opened.
LEMMA MessageConnect ==
  ASSUME TypeOK, TypeOK', MessageInv, NEW p \in Proc, NEW q \in Proc, Connect(p, q)
  PROVE  MessageInv'
<1>1. PICK c \in Conn : Usable(p, q, c) /\ ConnectAndWrite(p, q, c, <<>>)
  BY DEF Connect
<1>2. /\ p # q /\ peers[p][q] = 0
      /\ UNCHANGED <<serial, ret, frame, idle, running, futures, execs>>
  BY DEF Connect, waitVars, execVars, histVars
<1>3. /\ LinksOK'
      /\ \A d \in Conn : stage[d] # "free" => stage'[d] # "free" /\ link'[d] = link[d]
  BY <1>1, <1>2, ConnectLinks DEF MessageInv
<1>4. Steady
  <2>1. \A a \in Proc : serial[a] <= serial'[a]
    <3>1. \A a \in Proc : serial[a] \in Nat
      BY BoundAssumption DEF TypeOK
    <3> QED BY <1>2, <3>1
  <2> QED BY <1>2, <1>3, <2>1 DEF Steady
<1>5. \A a \in Proc, d \in Conn : wire'[a][d] = wire[a][d] \/ wire'[a][d] = <<OfferOf(p)>>
  BY <1>1, <1>2, ConnectIn
<1>6. ASSUME NEW a \in Proc, NEW d \in Conn
      PROVE  /\ \A m \in Msg : InSeq(wire'[a][d], m) => InSeq(wire[a][d], m) \/ m.kind = "offer"
             /\ \A k : /\ Asks(wire'[a][d], k) => Asks(wire[a][d], k)
                       /\ AsksTwice(wire'[a][d], k) => AsksTwice(wire[a][d], k)
  <2>1. CASE wire'[a][d] = wire[a][d]
    BY <2>1
  <2>2. CASE wire'[a][d] = <<OfferOf(p)>>
    BY <2>2, OfferIs
  <2> QED BY <2>1, <2>2, <1>5
<1>7. \A a \in Proc, d \in Conn, m \in Msg :
        InSeq(wire'[a][d], m) => InSeq(wire[a][d], m) \/ Underway(a, d, m)'
  BY <1>6 DEF Underway
<1>8. \A a \in Proc, j \in Job : Holds(a, j)' => Holds(a, j)
  BY <1>2 DEF Holds
<1>9. WiresOK' /\ IdleOK' /\ ExecutedOK'
  BY <1>2, <1>4, <1>7, <1>8, MessagesStay DEF MessageInv
<1>10. RequestsOnce'
  <2>1. \A k \in Call, a \in Proc, d \in Conn : /\ Asks(wire'[a][d], k) => Asks(wire[a][d], k)
                                                /\ AsksTwice(wire'[a][d], k) => AsksTwice(wire[a][d], k)
    BY <1>6
  <2>2. \A k \in Call, a \in Proc : /\ Asks(Msgs(idle[a])', k) => Asks(Msgs(idle[a]), k)
                                    /\ AsksTwice(Msgs(idle[a])', k) => AsksTwice(Msgs(idle[a]), k)
    BY <1>2 DEF Msgs
  <2> QED BY <2>1, <2>2, OnceShrinks DEF MessageInv
<1> QED BY <1>3, <1>9, <1>10 DEF MessageInv

\* Nothing is under way about a command that was not sent.
LEMMA NothingUnsent ==
  ASSUME TypeOK, MessageInv, NEW p \in Proc, NEW n \in Ser, ~(n <= serial[p])
  PROVE  /\ \A q \in Proc : ~Asks(Msgs(idle[q]), <<p, n>>)
         /\ \A q \in Proc, c \in Conn : ~Asks(wire[q][c], <<p, n>>)
<1>1. ASSUME NEW q \in Proc, NEW c \in Conn, Asks(wire[q][c], <<p, n>>)
      PROVE  FALSE
  <2>1. wire[q][c] \in Seq(Msg)
    BY DEF TypeOK
  <2>2. PICK i \in DOMAIN wire[q][c] : wire[q][c][i].kind \in Request /\ wire[q][c][i].of = <<p, n>>
    BY <1>1 DEF Asks
  <2>3. PICK m \in Msg : m = wire[q][c][i]
    BY <2>1
  <2>4. Underway(q, c, m)
    <3>1. InSeq(wire[q][c], m)
      BY <2>3 DEF InSeq
    <3> QED BY <3>1 DEF MessageInv, WiresOK
  <2>5. m.kind \in Request /\ m.of = <<p, n>>
    BY <2>2, <2>3
  <2>6. m.of[2] <= serial[m.of[1]]
    BY <2>4, <2>5 DEF Underway, Concerns, Request
  <2> QED BY <2>5, <2>6
<1>2. ASSUME NEW q \in Proc, Asks(Msgs(idle[q]), <<p, n>>)
      PROVE  FALSE
  <2>1. idle[q] \in Seq(Job)
    BY DEF TypeOK
  <2>2. \A i \in DOMAIN Msgs(idle[q]) : i \in DOMAIN idle[q] /\ Msgs(idle[q])[i] = idle[q][i].msg
    BY DEF Msgs
  <2>3. PICK i \in DOMAIN idle[q] : idle[q][i].msg.kind \in Request /\ idle[q][i].msg.of = <<p, n>>
    BY <1>2, <2>2 DEF Asks
  <2>4. PICK j \in Job : j = idle[q][i]
    BY <2>1
  <2>5. Underway(q, j.fid, j.msg)
    <3>1. InSeq(idle[q], j)
      BY <2>4 DEF InSeq
    <3> QED BY <3>1 DEF MessageInv, IdleOK
  <2>6. j.msg.kind \in Request /\ j.msg.of = <<p, n>>
    BY <2>3, <2>4
  <2>7. j.msg.of[2] <= serial[j.msg.of[1]]
    BY <2>5, <2>6 DEF Underway, Concerns, Request
  <2> QED BY <2>6, <2>7
<1> QED BY <1>1, <1>2

\* A command is sent.
LEMMA MessageSend ==
  ASSUME TypeOK, TypeOK', MessageInv, CallerInv, TablesAgree,
         NEW p \in Proc, NEW q \in Proc, NEW kind \in Kinds, Send(p, q, kind)
  PROVE  MessageInv'
<1> DEFINE n == serial[p] + 1
           m == [kind |-> kind, ser |-> n, of |-> <<p, n>>]
<1>1. /\ p # q /\ n <= MaxSerial
      /\ serial' = [serial EXCEPT ![p] = n]
      /\ ret' = CASE kind = "send" -> [ret EXCEPT ![p][n] = "waiting"]
                  [] kind = "command" -> [ret EXCEPT ![p][n] = "callback"]
                  [] kind = "async" -> ret
      /\ UNCHANGED <<idle, futures, execs>>
  BY DEF Send, histVars
<1>2. PICK c \in Conn : Usable(p, q, c) /\ ConnectAndWrite(p, q, c, <<m>>)
  BY DEF Send
<1>3. n \in Ser /\ ~(n <= serial[p]) /\ n > serial[p]
  <2>1. serial[p] \in Nat /\ MaxSerial \in Nat
    BY BoundAssumption DEF TypeOK
  <2> QED BY <1>1, <2>1 DEF Ser
<1>4. kind \in {"send", "command", "async"} /\ kind \in Request
  BY KindsAssumption DEF Request
<1>5. m \in Msg
  BY <1>3, BoundAssumption DEF Msg, Ser
<1>6. ret[p][n] = "none" /\ execs[p][n] = 0
  BY <1>3 DEF CallerInv, Unsent
<1>7. PICK r \in Proc : /\ stage'[c] # "free" /\ Peer(r, c)' = p
                        /\ Grown(p, r, c, m)
                        /\ \A a \in Proc, d \in Conn : a # r \/ d # c => wire'[a][d] = wire[a][d]
  BY <1>1, <1>2, <1>5, ConnectWrites DEF MessageInv
<1>8. /\ LinksOK'
      /\ \A d \in Conn : stage[d] # "free" => stage'[d] # "free" /\ link'[d] = link[d]
  BY <1>1, <1>2, ConnectLinks DEF MessageInv
<1>9. PICK k0 : k0 = <<p, n>> /\ k0[1] = p /\ k0[2] = n
  <2> HIDE DEF n
  <2>1. <<p, n>>[1] = p /\ <<p, n>>[2] = n
    OBVIOUS
  <2> QED BY <2>1
<1>10. PICK s \in Ser, x \in Msg :
         s = n /\ x = m /\ x.kind = kind /\ x.ser = s /\ x.of = k0 /\ k0[2] = s
  BY <1>3, <1>5, <1>9
<1> HIDE DEF n, m
<1>11. /\ \A a \in Proc, t \in Ser : (a # p \/ t # s) => ret'[a][t] = ret[a][t]
       /\ ret'[p][s] = CASE kind = "send" -> "waiting" [] kind = "command" -> "callback" [] kind = "async" -> "none"
  <2>1. ret[p][s] = "none"
    BY <1>6, <1>10
  <2>2. CASE kind = "send"
    BY <2>2, <1>1, <1>10 DEF TypeOK
  <2>3. CASE kind = "command"
    BY <2>3, <1>1, <1>10 DEF TypeOK
  <2>4. CASE kind = "async"
    BY <2>1, <2>4, <1>1
  <2> QED BY <2>2, <2>3, <2>4, <1>4
<1>12. /\ serial'[p] = s /\ \A a \in Proc : a # p => serial'[a] = serial[a]
       /\ \A a \in Proc : serial[a] \in Nat
       /\ s \in Nat /\ s > serial[p]
  BY <1>1, <1>3, <1>10, BoundAssumption DEF TypeOK, Ser
<1>13. \A a \in Proc : serial[a] <= serial'[a]
  BY <1>12
<1>14. Steady
  <2>1. \A a \in Proc, t \in Ser : t <= serial[a] => a # p \/ t # s
    BY <1>12 DEF Ser
  <2>2. \A a \in Proc, t \in Ser : t <= serial[a] => ret'[a][t] = ret[a][t]
    BY <2>1, <1>11
  <2> QED BY <1>8, <1>13, <2>2 DEF Steady
<1>15. Underway(r, c, x)'
  <2>1. execs'[p][s] = 0
    BY <1>1, <1>6, <1>10
  <2>2. s <= serial'[p]
    BY <1>12
  <2>3. /\ kind \in {"send", "reply"} => ret'[p][s] # "callback"
        /\ kind \in {"command", "callback"} => ret'[p][s] \in {"none", "callback"}
    BY <1>4, <1>11
  <2> QED BY <2>1, <2>2, <2>3, <1>4, <1>7, <1>9, <1>10 DEF Underway, Concerns
<1>16. \A a \in Proc, d \in Conn, y \in Msg :
         InSeq(wire'[a][d], y) => InSeq(wire[a][d], y) \/ Underway(a, d, y)'
  <2> SUFFICES ASSUME NEW a \in Proc, NEW d \in Conn, NEW y \in Msg, InSeq(wire'[a][d], y)
               PROVE  InSeq(wire[a][d], y) \/ Underway(a, d, y)'
    OBVIOUS
  <2>1. CASE a # r \/ d # c
    BY <2>1, <1>7
  <2>2. CASE a = r /\ d = c
    <3>1. InSeq(wire[r][c], y) \/ y = x \/ y.kind = "offer"
      BY <2>2, <1>7, <1>10, GrownIn
    <3>2. y.kind = "offer" => Underway(a, d, y)'
      BY DEF Underway
    <3> QED BY <2>2, <3>1, <3>2, <1>15
  <2> QED BY <2>1, <2>2
<1>17. \A a \in Proc, j \in Job : Holds(a, j)' => Holds(a, j)
  <2>1. /\ \A a \in Proc : running'[a] = running[a] \/ running'[a] = NoJob
        /\ \A a \in Proc, t \in Ser : frame'[a][t] = frame[a][t] \/ frame'[a][t].job = running[a]
    <3>1. CASE kind = "send"
      <4>1. PICK f : /\ f.job = running[p]
                     /\ frame' = [frame EXCEPT ![p][s] = f]
                     /\ running' = [running EXCEPT ![p] = NoJob]
        <5> DEFINE f == [id |-> q, job |-> running[p], current |-> current[p],
                         remoteid |-> IF current[p].async THEN NoProc ELSE remoteid[p]]
        <5>1. f.job = running[p]
          OBVIOUS
        <5>2. /\ frame' = [frame EXCEPT ![p][s] = f]
              /\ running' = [running EXCEPT ![p] = NoJob]
          BY <3>1, <1>10 DEF Send, n
        <5> HIDE DEF f
        <5> QED BY <5>1, <5>2
      <4>2. \A a \in Proc : running'[a] = running[a] \/ running'[a] = NoJob
        BY <4>1 DEF TypeOK
      <4>3. \A a \in Proc, t \in Ser : frame'[a][t] = frame[a][t] \/ (a = p /\ frame'[a][t] = f)
        BY <4>1 DEF TypeOK
      <4> QED BY <4>1, <4>2, <4>3
    <3>2. CASE kind # "send"
      BY <3>2 DEF Send
    <3> QED BY <3>1, <3>2
  <2> QED BY <1>1, <2>1, NoJobIsNone DEF Holds
<1>18. WiresOK' /\ IdleOK' /\ ExecutedOK'
  BY <1>1, <1>14, <1>16, <1>17, MessagesStay DEF MessageInv
<1>19. /\ \A a \in Proc : ~Asks(Msgs(idle[a]), k0)
       /\ \A a \in Proc, d \in Conn : ~Asks(wire[a][d], k0)
  BY <1>3, <1>9, NothingUnsent
<1>20. ASSUME NEW k, NEW a \in Proc, NEW d \in Conn
       PROVE  /\ Asks(wire'[a][d], k) => Asks(wire[a][d], k) \/ (k = k0 /\ a = r /\ d = c)
              /\ AsksTwice(wire'[a][d], k) => AsksTwice(wire[a][d], k)
  <2>1. CASE a # r \/ d # c
    BY <2>1, <1>7
  <2>2. CASE a = r /\ d = c
    <3>1. /\ Asks(wire'[r][c], k) => Asks(wire[r][c], k) \/ (x.kind \in Request /\ x.of = k)
          /\ AsksTwice(wire'[r][c], k) =>
               AsksTwice(wire[r][c], k) \/ (Asks(wire[r][c], k) /\ x.kind \in Request /\ x.of = k)
      BY <1>7, <1>10, GrownAsks
    <3> QED BY <2>2, <3>1, <1>10, <1>19
  <2> QED BY <2>1, <2>2
<1>21. RequestsOnce'
  <2>1. RequestsOnce /\ UNCHANGED idle
    BY <1>1 DEF MessageInv
  <2>2. \A k \in Call, a \in Proc, d \in Conn :
           /\ Asks(wire'[a][d], k) => Asks(wire[a][d], k) \/ (k = k0 /\ a = r /\ d = c)
           /\ AsksTwice(wire'[a][d], k) => AsksTwice(wire[a][d], k)
    BY <1>20
  <2> QED BY <2>1, <2>2, <1>19, OnceGrows
<1> QED BY <1>8, <1>18, <1>21 DEF MessageInv

\* A message is read and put into the queue.
LEMMA MessageCollect ==
  ASSUME TypeOK, TypeOK', MessageInv, NEW p \in Proc, NEW c \in Conn, CommCollect(p, c)
  PROVE  MessageInv'
<1> DEFINE w == wire[p][c]
           b == idle[p]
<1>1. /\ fids[p][c] # NoProc /\ w # <<>>
      /\ idle' = [idle EXCEPT ![p] = Append(@, [fid |-> c, id |-> fids[p][c], msg |-> Head(w)])]
      /\ wire' = [wire EXCEPT ![p][c] = Tail(@)]
      /\ UNCHANGED <<link, stage, open, serial, ret, frame, running, futures, execs>>
  BY DEF CommCollect, tableVars, waitVars, histVars
<1>2. w \in Seq(Msg) /\ b \in Seq(Job) /\ fids[p][c] \in Proc
  BY <1>1 DEF TypeOK
<1>3. PICK m \in Msg : m = Head(w) /\ InSeq(w, m)
  BY <1>1, <1>2, TailIn
<1>4. PICK j \in Job : j = [fid |-> c, id |-> fids[p][c], msg |-> m] /\ j.fid = c /\ j.msg = m
  <2> DEFINE j == [fid |-> c, id |-> fids[p][c], msg |-> m]
  <2>1. j \in Job /\ j.fid = c /\ j.msg = m
    BY <1>2, <1>3 DEF Job
  <2> QED BY <2>1
<1>5. /\ idle' = [idle EXCEPT ![p] = Append(b, j)]
      /\ wire' = [wire EXCEPT ![p][c] = Tail(w)]
  BY <1>1, <1>3, <1>4
<1>6. /\ idle'[p] = Append(b, j) /\ \A a \in Proc : a # p => idle'[a] = idle[a]
      /\ wire'[p][c] = Tail(w)
      /\ \A a \in Proc, d \in Conn : a # p \/ d # c => wire'[a][d] = wire[a][d]
  BY <1>5 DEF TypeOK
<1>7. Steady
  BY <1>1, SteadySame
<1>8. LinksOK'
  BY <1>1 DEF MessageInv, LinksOK
<1>9. ASSUME NEW a \in Proc, NEW d \in Conn
      PROVE  /\ \A x : InSeq(wire'[a][d], x) => InSeq(wire[a][d], x)
             /\ \A k : /\ Asks(wire'[a][d], k) => Asks(wire[a][d], k)
                       /\ AsksTwice(wire'[a][d], k) => AsksTwice(wire[a][d], k)
  <2>1. wire'[a][d] = wire[a][d] \/ (wire[a][d] # <<>> /\ wire'[a][d] = Tail(wire[a][d]))
    <3>1. CASE a = p /\ d = c
      BY <3>1, <1>1, <1>6
    <3>2. CASE a # p \/ d # c
      BY <3>2, <1>6
    <3> QED BY <3>1, <3>2
  <2>2. wire'[a][d] \in {wire[a][d], <<>>} \/ (wire[a][d] # <<>> /\ wire'[a][d] = Tail(wire[a][d]))
    BY <2>1
  <2> QED BY <2>2, WiresShrink
<1>10. \A a \in Proc, i \in Job : InSeq(idle'[a], i) => InSeq(idle[a], i) \/ (a = p /\ i = j)
  <2> SUFFICES ASSUME NEW a \in Proc, NEW i \in Job, InSeq(idle'[a], i)
               PROVE  InSeq(idle[a], i) \/ (a = p /\ i = j)
    OBVIOUS
  <2>1. CASE a = p
    <3> HIDE DEF b
    <3>1. InSeq(b, i) \/ i = j
      BY <2>1, <1>2, <1>6, AppendIn
    <3> QED BY <2>1, <3>1 DEF b
  <2>2. CASE a # p
    BY <2>2, <1>6
  <2> QED BY <2>1, <2>2
<1>11. Underway(p, j.fid, j.msg)
  BY <1>3, <1>4 DEF MessageInv, WiresOK
<1>12. \A a \in Proc, i \in Job : InSeq(idle'[a], i) => InSeq(idle[a], i) \/ Underway(a, i.fid, i.msg)
  BY <1>10, <1>11
<1>13. \A a \in Proc, i \in Job : Holds(a, i)' => Holds(a, i)
  BY <1>1 DEF Holds
<1>14. WiresOK' /\ IdleOK' /\ ExecutedOK'
  BY <1>1, <1>7, <1>9, <1>12, <1>13, MessagesStay DEF MessageInv
<1>15. Msgs(b) \in Seq(Msg) /\ Msgs(idle[p])' = Append(Msgs(b), m)
  <2>1. Msgs(b) \in Seq(Msg) /\ Msgs(Append(b, j)) = Append(Msgs(b), m)
    BY <1>2, <1>4, MsgsType, MsgsAppend
  <2>2. Msgs(idle[p])' = Msgs(Append(b, j))
    BY <1>6 DEF Msgs
  <2> QED BY <2>1, <2>2
<1>16. ASSUME NEW k, NEW a \in Proc
       PROVE  /\ Asks(Msgs(idle[a])', k) =>
                   Asks(Msgs(idle[a]), k) \/ (m.kind \in Request /\ m.of = k /\ a = p)
              /\ AsksTwice(Msgs(idle[a])', k) =>
                   AsksTwice(Msgs(idle[a]), k)
                   \/ (m.kind \in Request /\ m.of = k /\ a = p /\ Asks(Msgs(idle[p]), k))
  <2>1. CASE a = p
    <3> DEFINE t == Msgs(b)
    <3>1. t \in Seq(Msg) /\ Msgs(idle[p])' = Append(t, m) /\ t = Msgs(idle[p])
      BY <1>15
    <3> HIDE DEF t
    <3>2. /\ Asks(Append(t, m), k) => Asks(t, k) \/ (m.kind \in Request /\ m.of = k)
          /\ AsksTwice(Append(t, m), k) =>
               AsksTwice(t, k) \/ (Asks(t, k) /\ m.kind \in Request /\ m.of = k)
      BY <3>1, AppendAsks
    <3>3. /\ Asks(Msgs(idle[p])', k) => Asks(t, k) \/ (m.kind \in Request /\ m.of = k)
          /\ AsksTwice(Msgs(idle[p])', k) =>
               AsksTwice(t, k) \/ (Asks(t, k) /\ m.kind \in Request /\ m.of = k)
      BY <3>1, <3>2
    <3> QED BY <2>1, <3>1, <3>3
  <2>2. CASE a # p
    BY <2>2, <1>6 DEF Msgs
  <2> QED BY <2>1, <2>2
<1>17. RequestsOnce'
  <2>1. \A k \in Call, a \in Proc, d \in Conn : /\ Asks(wire'[a][d], k) => Asks(wire[a][d], k)
                                                /\ AsksTwice(wire'[a][d], k) => AsksTwice(wire[a][d], k)
    BY <1>9
  <2>2. RequestsOnce
    BY DEF MessageInv
  <2>3. CASE m.kind \in Request
    <3>1. PICK k0 : k0 = m.of
      OBVIOUS
    <3>2. Asks(wire[p][c], k0) /\ (Asks(Tail(w), k0) => AsksTwice(wire[p][c], k0))
      <4>1. Head(w).kind \in Request /\ Head(w).of = k0
        BY <2>3, <3>1, <1>3
      <4> HIDE DEF w
      <4>2. Asks(w, k0) /\ (Asks(Tail(w), k0) => AsksTwice(w, k0))
        BY <4>1, <1>1, <1>2, TailAsks
      <4> QED BY <4>2 DEF w
    <3>3. Asks(wire'[p][c], k0) => AsksTwice(wire[p][c], k0)
      BY <3>2, <1>6
    <3>4. \A k \in Call, a \in Proc :
            /\ Asks(Msgs(idle[a])', k) => Asks(Msgs(idle[a]), k) \/ (k = k0 /\ a = p)
            /\ AsksTwice(Msgs(idle[a])', k) =>
                 AsksTwice(Msgs(idle[a]), k) \/ (k = k0 /\ a = p /\ Asks(Msgs(idle[p]), k))
      BY <1>16, <3>1
    <3> QED BY <2>1, <2>2, <3>2, <3>3, <3>4, OnceCollected
  <2>4. CASE m.kind \notin Request
    <3>1. \A k \in Call, a \in Proc : /\ Asks(Msgs(idle[a])', k) => Asks(Msgs(idle[a]), k)
                                      /\ AsksTwice(Msgs(idle[a])', k) => AsksTwice(Msgs(idle[a]), k)
      BY <1>16, <2>4
    <3> QED BY <2>1, <2>2, <3>1, OnceShrinks
  <2> QED BY <2>3, <2>4
<1> QED BY <1>8, <1>14, <1>17 DEF MessageInv

\* What the next request to be executed is about.
LEMMA NextRequest ==
  ASSUME TypeOK, MessageInv, NEW p \in Proc, idle[p] # <<>>
  PROVE  /\ Head(idle[p]) \in Job
         /\ Underway(p, Head(idle[p]).fid, Head(idle[p]).msg)
         /\ Head(idle[p]).msg.kind \in Request =>
              LET k == Head(idle[p]).msg.of
              IN /\ ~Asks(Msgs(Tail(idle[p])), k)
                 /\ \A q \in Proc : q # p => ~Asks(Msgs(idle[q]), k)
                 /\ \A q \in Proc, c \in Conn : ~Asks(wire[q][c], k)
<1> DEFINE b == idle[p]
           j == Head(b)
<1>1. b \in Seq(Job) /\ b # <<>>
  BY DEF TypeOK
<1>2. j \in Job /\ InSeq(b, j)
  <2> HIDE DEF b
  <2> QED BY <1>1, TailIn
<1>3. Underway(p, j.fid, j.msg)
  BY <1>2 DEF MessageInv, IdleOK
<1>4. ASSUME j.msg.kind \in Request
      PROVE  /\ ~Asks(Msgs(Tail(b)), j.msg.of)
             /\ \A q \in Proc : q # p => ~Asks(Msgs(idle[q]), j.msg.of)
             /\ \A q \in Proc, c \in Conn : ~Asks(wire[q][c], j.msg.of)
  <2>1. PICK k : k = j.msg.of
    OBVIOUS
  <2>2. k \in Call
    <3>1. j.msg \in Msg /\ j.msg.of[2] \in Ser
      <4>1. Concerns(p, j.fid, j.msg, 0)
        BY <1>3, <1>4 DEF Underway, Request
      <4> QED BY <4>1, <1>2 DEF Concerns, Job
    <3>2. k \in Proc \X (0 .. MaxSerial) /\ k[2] \in Ser
      BY <2>1, <3>1 DEF Msg
    <3> QED BY <3>2 DEF Call
  <2> DEFINE t == Msgs(b)
  <2>3. t \in Seq(Msg) /\ t # <<>> /\ Msgs(Tail(b)) = Tail(t) /\ Head(t) = j.msg
    <3> HIDE DEF b
    <3> QED BY <1>1, MsgsType, MsgsTail
  <2>4. Asks(t, k) /\ (Asks(Tail(t), k) => AsksTwice(t, k))
    <3>1. Head(t).kind \in Request /\ Head(t).of = k
      BY <2>1, <2>3, <1>4
    <3> HIDE DEF t
    <3> QED BY <3>1, <2>3, TailAsks
  <2>5. RequestsOnce
    BY DEF MessageInv
  <2>6. ~AsksTwice(t, k)
    BY <2>2, <2>5 DEF RequestsOnce
  <2>7. \A q \in Proc : q # p => ~Asks(Msgs(idle[q]), k)
    BY <2>2, <2>4, <2>5 DEF RequestsOnce
  <2>8. \A q \in Proc, c \in Conn : ~Asks(wire[q][c], k)
    BY <2>2, <2>4, <2>5 DEF RequestsOnce
  <2> QED BY <2>1, <2>3, <2>4, <2>6, <2>7, <2>8
<1> QED BY <1>2, <1>3, <1>4

\* A command is executed.
LEMMA MessageExecuted ==
  ASSUME TypeOK, TypeOK', MessageInv, NEW p \in Proc, ExecRequest(p)
  PROVE  MessageInv'
<1> DEFINE job == Head(idle[p])
<1>1. /\ idle[p] # <<>> /\ job.msg.kind \in Request
      /\ idle' = [idle EXCEPT ![p] = Tail(@)]
      /\ running' = [running EXCEPT ![p] = job]
      /\ execs' = [execs EXCEPT ![job.msg.of[1]][job.msg.of[2]] = @ + 1]
      /\ UNCHANGED <<link, stage, open, wire, serial, ret, frame, futures>>
  BY DEF ExecRequest, Dequeue, netVars, tableVars, waitVars
<1>2. PICK j \in Job : j = job
  BY <1>1, NextRequest
<1>20. PICK k : k = j.msg.of
  OBVIOUS
<1>3. /\ Underway(p, j.fid, j.msg) /\ j.msg.kind \in Request
      /\ ~Asks(Msgs(Tail(idle[p])), k)
      /\ \A q \in Proc : q # p => ~Asks(Msgs(idle[q]), k)
      /\ \A q \in Proc, c \in Conn : ~Asks(wire[q][c], k)
  BY <1>1, <1>2, <1>20, NextRequest
<1> HIDE DEF job
<1>4. Concerns(p, j.fid, j.msg, 0)
  BY <1>3 DEF Underway, Request
<1>5. j.msg \in Msg /\ j.fid \in Conn
  BY DEF Job
<1>6. PICK a \in Proc, t \in Ser : k = <<a, t>> /\ k[1] = a /\ k[2] = t
  <2>1. k \in Proc \X (0 .. MaxSerial) /\ k[2] \in Ser
    BY <1>2, <1>20, <1>4, <1>5 DEF Concerns, Msg
  <2> QED BY <2>1
<1>7. execs[a][t] = 0
  BY <1>2, <1>20, <1>4, <1>6 DEF Concerns
<1>8. /\ execs' = [execs EXCEPT ![a][t] = @ + 1]
      /\ running' = [running EXCEPT ![p] = j]
  BY <1>1, <1>2, <1>20, <1>6
<1>9. execs'[a][t] = 1
  <2>1. execs'[a][t] = execs[a][t] + 1
    BY <1>8 DEF TypeOK
  <2> QED BY <2>1, <1>7
<1>10. \A b \in Proc, s \in Ser : b # a \/ s # t => execs'[b][s] = execs[b][s]
  BY <1>8 DEF TypeOK
<1>11. Steady
  BY <1>1, SteadySame
<1>12. LinksOK'
  BY <1>1 DEF MessageInv, LinksOK
<1>13. ASSUME NEW q \in Proc, NEW c \in Conn, NEW m \in Msg, NEW n, Concerns(q, c, m, n), m.of # k
       PROVE  Concerns(q, c, m, n)'
  <2>1. m.of \in Proc \X (0 .. MaxSerial) /\ m.of[2] \in Ser
    BY <1>13 DEF Concerns, Msg
  <2>2. m.of[1] \in Proc /\ (m.of[1] # a \/ m.of[2] # t)
    BY <2>1, <1>6, <1>13
  <2>3. execs'[m.of[1]][m.of[2]] = execs[m.of[1]][m.of[2]]
    BY <2>1, <2>2, <1>10
  <2>4. execs'[m.of[1]][m.of[2]] = n
    BY <2>3, <1>13 DEF Concerns
  <2> QED BY <2>4, <1>11, <1>13, ConcernsStays
<1>14. ASSUME NEW q \in Proc, NEW c \in Conn, NEW m \in Msg, Underway(q, c, m),
              ~(m.kind \in Request /\ m.of = k)
       PROVE  Underway(q, c, m)'
  <2> SUFFICES ASSUME m.kind # "offer"
               PROVE  Concerns(q, c, m, IF m.kind \in Request THEN 0 ELSE 1)'
    BY DEF Underway
  <2>1. PICK n : n = (IF m.kind \in Request THEN 0 ELSE 1)
    OBVIOUS
  <2>2. Concerns(q, c, m, n)
    BY <2>1, <1>14 DEF Underway
  <2>3. m.of # k
    <3> SUFFICES ASSUME m.of = k PROVE FALSE
      OBVIOUS
    <3>1. n = 1
      BY <2>1, <1>14
    <3>2. execs[a][t] = 1
      BY <2>2, <3>1, <1>6 DEF Concerns
    <3> QED BY <3>2, <1>7
  <2>4. Concerns(q, c, m, n)'
    BY <2>2, <2>3, <1>13
  <2> QED BY <2>1, <2>4
<1>15. WiresOK'
  <2> SUFFICES ASSUME NEW q \in Proc, NEW c \in Conn, NEW m \in Msg, InSeq(wire[q][c], m)
               PROVE  Underway(q, c, m)'
    BY <1>1 DEF WiresOK
  <2>1. Underway(q, c, m)
    BY DEF MessageInv, WiresOK
  <2>2. ~(m.kind \in Request /\ m.of = k)
    <3>1. ~Asks(wire[q][c], k)
      BY <1>3
    <3> QED BY <3>1 DEF Asks, InSeq
  <2> QED BY <2>1, <2>2, <1>14
<1>16. IdleOK'
  <2> SUFFICES ASSUME NEW q \in Proc, NEW i \in Job, InSeq(idle'[q], i)
               PROVE  Underway(q, i.fid, i.msg)'
    BY DEF IdleOK
  <2>1. idle'[q] = IF q = p THEN Tail(idle[q]) ELSE idle[q]
    BY <1>1 DEF TypeOK
  <2>2. InSeq(idle[q], i)
    <3>1. idle[p] \in Seq(Job)
      BY DEF TypeOK
    <3> QED BY <2>1, <3>1, <1>1, TailIn
  <2>3. Underway(q, i.fid, i.msg) /\ i.fid \in Conn /\ i.msg \in Msg
    BY <2>2 DEF MessageInv, IdleOK, Job
  <2>4. ~(i.msg.kind \in Request /\ i.msg.of = k)
    <3>1. ~Asks(Msgs(idle'[q]), k)
      BY <2>1, <1>3
    <3> QED BY <3>1 DEF Asks, InSeq, Msgs
  <2> QED BY <2>3, <2>4, <1>14
<1>17. ExecutedOK'
  <2> SUFFICES ASSUME NEW q \in Proc, NEW i \in Job, Holds(q, i)'
               PROVE  Executed(q, i)'
    BY DEF ExecutedOK
  <2>1. i.fid \in Conn /\ i.msg \in Msg
    BY DEF Job
  <2>2. Holds(q, i) \/ (q = p /\ i = j)
    <3>1. running'[q] = running[q] \/ (q = p /\ running'[q] = j)
      BY <1>8 DEF TypeOK
    <3> QED BY <3>1, <1>1 DEF Holds
  <2>3. CASE Holds(q, i)
    <3>1. Executed(q, i)
      BY <2>3 DEF MessageInv, ExecutedOK
    <3>2. i.msg.of # k
      <4> SUFFICES ASSUME i.msg.of = k PROVE FALSE
        OBVIOUS
      <4>1. execs[a][t] = 1
        BY <3>1, <1>6 DEF Executed, Concerns
      <4> QED BY <4>1, <1>7
    <3>3. Concerns(q, i.fid, i.msg, 1)'
      BY <2>1, <3>1, <3>2, <1>13 DEF Executed
    <3> QED BY <3>1, <3>3 DEF Executed
  <2>4. CASE q = p /\ i = j
    <3>1. execs'[j.msg.of[1]][j.msg.of[2]] = 1
      BY <1>2, <1>20, <1>6, <1>9
    <3>2. Concerns(p, j.fid, j.msg, 1)'
      BY <3>1, <1>4, <1>5, <1>11, ConcernsStays
    <3> QED BY <2>4, <3>2, <1>3 DEF Executed
  <2> QED BY <2>2, <2>3, <2>4
<1>18. RequestsOnce'
  <2>1. \A b \in Call, q \in Proc : /\ Asks(Msgs(idle[q])', b) => Asks(Msgs(idle[q]), b)
                                    /\ AsksTwice(Msgs(idle[q])', b) => AsksTwice(Msgs(idle[q]), b)
    <3> SUFFICES ASSUME NEW q \in Proc
                 PROVE  \A b : /\ Asks(Msgs(idle[q])', b) => Asks(Msgs(idle[q]), b)
                               /\ AsksTwice(Msgs(idle[q])', b) => AsksTwice(Msgs(idle[q]), b)
      OBVIOUS
    <3>1. idle'[q] = idle[q] \/ (idle[q] # <<>> /\ idle'[q] = Tail(idle[q]))
      BY <1>1 DEF TypeOK
    <3> QED BY <3>1, IdleShrinks
  <2> QED BY <2>1, <1>1, OnceShrinks DEF MessageInv
<1> QED BY <1>12, <1>15, <1>16, <1>17, <1>18 DEF MessageInv

\* The part of the invariant that is about the caller, when an answer is taken.
LEMMA CallerExec ==
  ASSUME TypeOK, MessageInv, CallerInv, NEW p \in Proc,
         ExecRequest(p) \/ ExecReply(p) \/ ExecCallback(p)
  PROVE  CallerInv'
<1>1. PICK j \in Job : j = Head(idle[p])
  BY NextRequest DEF ExecRequest, ExecReply, ExecCallback
<1>2. idle[p] # <<>>
  BY DEF ExecRequest, ExecReply, ExecCallback
<1>3. Underway(p, j.fid, j.msg) /\ j.msg \in Msg
  BY <1>1, <1>2, NextRequest DEF Job
<1>4. CASE ExecRequest(p)
  <2>1. j.msg.kind \in Request
    BY <1>1, <1>4 DEF ExecRequest
  <2>2. Concerns(p, j.fid, j.msg, 0)
    BY <2>1, <1>3 DEF Underway, Request
  <2>3. PICK a \in Proc, t \in Ser : a = j.msg.of[1] /\ t = j.msg.of[2]
    BY <2>2, <1>3 DEF Concerns, Msg
  <2>4. t <= serial[a] /\ execs[a][t] = 0
    BY <2>2, <2>3 DEF Concerns
  <2>5. /\ execs' = [execs EXCEPT ![a][t] = @ + 1]
        /\ UNCHANGED <<serial, pending, ret, result, frame, told, called>>
    BY <1>1, <1>4, <2>3 DEF ExecRequest, tableVars, waitVars
  <2> QED BY <2>4, <2>5, CallerExecuted
<1>5. ASSUME j.msg.kind \in {"reply", "callback"}
      PROVE  \E n \in Ser : /\ n = j.msg.ser /\ j.msg.of = <<p, n>> /\ execs[p][n] = 1
                            /\ j.msg.kind = "reply" => ret[p][n] # "callback"
                            /\ j.msg.kind = "callback" => ret[p][n] \in {"none", "callback"}
  <2>1. Concerns(p, j.fid, j.msg, 1)
    BY <1>3, <1>5 DEF Underway, Request
  <2>2. j.msg.of[1] = p /\ j.msg.of[2] = j.msg.ser /\ j.msg.ser \in Ser
    BY <2>1, <1>5 DEF Concerns, Request
  <2>3. j.msg.of = <<p, j.msg.ser>>
    BY <2>2, <1>3 DEF Msg
  <2>4. /\ execs[p][j.msg.ser] = 1
        /\ j.msg.kind = "reply" => ret[p][j.msg.ser] # "callback"
        /\ j.msg.kind = "callback" => ret[p][j.msg.ser] \in {"none", "callback"}
    BY <2>1, <2>2 DEF Concerns
  <2> QED BY <2>2, <2>3, <2>4
<1>6. CASE ExecReply(p)
  <2>1. j.msg.kind = "reply"
    BY <1>1, <1>6 DEF ExecReply
  <2>2. PICK n \in Ser : n = j.msg.ser /\ j.msg.of = <<p, n>> /\ execs[p][n] = 1 /\ ret[p][n] # "callback"
    BY <2>1, <1>5
  <2>3. UNCHANGED <<serial, pending, frame, execs, told, called>>
    BY <1>6 DEF ExecReply, tableVars, histVars
  <2>4. \/ UNCHANGED <<ret, result>>
        \/ /\ ret[p][n] # "none"
           /\ ret' = [ret EXCEPT ![p][n] = "set"]
           /\ result' = [result EXCEPT ![p][n] = [tag |-> "answer", of |-> <<p, n>>]]
    BY <1>1, <1>6, <2>2 DEF ExecReply, Awaited
  <2>5. CASE UNCHANGED <<ret, result>>
    <3>1. UNCHANGED <<pending, ret, result, frame, histVars>>
      BY <2>3, <2>5 DEF histVars
    <3>2. serial' \in [Proc -> 0 .. MaxSerial] /\ \A a \in Proc : serial'[a] >= serial[a]
      BY <2>3, BoundAssumption DEF TypeOK
    <3> QED BY <3>1, <3>2, CallerSame
  <2>6. CASE /\ ret[p][n] # "none"
             /\ ret' = [ret EXCEPT ![p][n] = "set"]
             /\ result' = [result EXCEPT ![p][n] = [tag |-> "answer", of |-> <<p, n>>]]
    <3>1. ret[p][n] \in {"none", "waiting", "callback", "set"}
      BY DEF TypeOK
    <3>2. ret[p][n] \in {"waiting", "set"}
      BY <3>1, <2>2, <2>6
    <3> QED BY <3>2, <2>2, <2>3, <2>6, CallerAnswered
  <2> QED BY <2>4, <2>5, <2>6
<1>7. CASE ExecCallback(p)
  <2>1. j.msg.kind = "callback"
    BY <1>1, <1>7 DEF ExecCallback
  <2>2. PICK n \in Ser : n = j.msg.ser /\ execs[p][n] = 1 /\ ret[p][n] \in {"none", "callback"}
    BY <2>1, <1>5
  <2>3. UNCHANGED <<serial, result, frame, execs, told>>
    BY <1>7 DEF ExecCallback
  <2>4. \/ UNCHANGED <<ret, pending, called>>
        \/ /\ ret[p][n] # "none"
           /\ ret' = [ret EXCEPT ![p][n] = "none"]
           /\ pending' = [pending EXCEPT ![p][j.id] = @ \ {<<n, "callback">>}]
           /\ called' = [called EXCEPT ![p][n] = Append(@, "answer")]
    BY <1>1, <1>7, <2>2 DEF ExecCallback, Awaited
  <2>5. CASE UNCHANGED <<ret, pending, called>>
    <3>1. UNCHANGED <<pending, ret, result, frame, histVars>>
      BY <2>3, <2>5 DEF histVars
    <3>2. serial' \in [Proc -> 0 .. MaxSerial] /\ \A a \in Proc : serial'[a] >= serial[a]
      BY <2>3, BoundAssumption DEF TypeOK
    <3> QED BY <3>1, <3>2, CallerSame
  <2>6. CASE /\ ret[p][n] # "none"
             /\ ret' = [ret EXCEPT ![p][n] = "none"]
             /\ pending' = [pending EXCEPT ![p][j.id] = @ \ {<<n, "callback">>}]
             /\ called' = [called EXCEPT ![p][n] = Append(@, "answer")]
    <3>1. ret[p][n] = "callback"
      BY <2>2, <2>6
    <3>2. \A a, b \in Proc : pending'[a][b] \subseteq pending[a][b]
      BY <2>6 DEF TypeOK
    <3> QED BY <3>1, <3>2, <2>2, <2>3, <2>6, CallerCalled
  <2> QED BY <2>4, <2>5, <2>6
<1> QED BY <1>4, <1>6, <1>7

LEMMA AnswerStep ==
  TypeOK /\ TablesAgree /\ StateIsOwn /\ CallerInv /\ MessageInv /\ [Next]_vars => CallerInv' /\ MessageInv'
<1> SUFFICES ASSUME TypeOK, TablesAgree, StateIsOwn, CallerInv, MessageInv, [Next]_vars
             PROVE  CallerInv' /\ MessageInv'
  OBVIOUS
<1>1. TypeOK'
  BY TypeStep
<1>2. ASSUME UNCHANGED <<pending, ret, result, frame, histVars>>, UNCHANGED serial
      PROVE  CallerInv'
  <2>1. serial' \in [Proc -> 0 .. MaxSerial] /\ \A a \in Proc : serial'[a] >= serial[a]
    BY <1>2, BoundAssumption DEF TypeOK
  <2> QED BY <1>2, <2>1, CallerSame
<1>3. ASSUME NEW p \in Proc, NEW S, CommLostConn(p, S), \A c \in S : fids[p][c] \in Proc
      PROVE  CallerInv' /\ MessageInv'
  BY <1>1, <1>3, CallerLost, MessageLost
<1>4. ASSUME NEW p \in Proc, NEW c \in Conn, CommIncoming(p, c) \/ CommIncomingOffered(p, c)
      PROVE  CallerInv' /\ MessageInv'
  <2>1. UNCHANGED <<pending, ret, result, frame, histVars>> /\ UNCHANGED serial
    BY <1>4 DEF CommIncoming, CommIncomingOffered, tableVars, waitVars
  <2> QED BY <1>1, <1>2, <1>4, <2>1, MessageNetwork
<1>5. ASSUME NEW p \in Proc, NEW c \in Conn, CommCollect(p, c)
      PROVE  CallerInv' /\ MessageInv'
  <2>1. UNCHANGED <<pending, ret, result, frame, histVars>> /\ UNCHANGED serial
    BY <1>5 DEF CommCollect, tableVars, waitVars
  <2> QED BY <1>1, <1>2, <1>5, <2>1, MessageCollect
<1>6. ASSUME NEW p \in Proc, NEW c \in Conn, CommCollectEof(p, c)
      PROVE  CallerInv' /\ MessageInv'
  <2>1. CASE CommLostConn(p, {c})
    <3>1. fids[p][c] \in Proc
      BY <1>6 DEF CommCollectEof, TypeOK
    <3> QED BY <2>1, <3>1, <1>3
  <2>2. CASE Close(p, {c}) /\ UNCHANGED <<link, stage, up, tableVars, waitVars, execVars, histVars>>
    <3>1. UNCHANGED <<pending, ret, result, frame, histVars>> /\ UNCHANGED serial
      BY <2>2 DEF tableVars, waitVars
    <3> QED BY <1>1, <1>2, <2>2, <3>1, MessageNetwork
  <2> QED BY <1>6, <2>1, <2>2 DEF CommCollectEof
<1>7. ASSUME NEW p \in Proc, NEW q \in Proc, Shutdown(p, q)
      PROVE  CallerInv' /\ MessageInv'
  <2>1. CommLostConn(p, {peers[p][q]}) /\ fids[p][peers[p][q]] = q
    BY <1>7 DEF Shutdown, TablesAgree
  <2> QED BY <2>1, <1>3
<1>8. ASSUME NEW p \in Proc, Abort(p)
      PROVE  CallerInv' /\ MessageInv'
  <2> DEFINE known == {peers[p][q] : q \in Proc} \ {0}
  <2>1. CommLostConn(p, known)
    BY <1>8 DEF Abort
  <2>2. \A c \in known : fids[p][c] \in Proc
    BY DEF TablesAgree
  <2> QED BY <2>1, <2>2, <1>3
<1>9. ASSUME NEW p \in Proc, NEW q \in Proc, Connect(p, q)
      PROVE  CallerInv' /\ MessageInv'
  <2>1. UNCHANGED <<pending, ret, result, frame, histVars>> /\ UNCHANGED serial
    BY <1>9 DEF Connect, waitVars
  <2> QED BY <1>1, <1>2, <1>9, <2>1, MessageConnect
<1>10. ASSUME NEW p \in Proc, NEW q \in Proc, SendFails(p, q)
       PROVE  CallerInv' /\ MessageInv'
  <2>1. UNCHANGED <<pending, ret, result, frame, histVars>>
    BY <1>10 DEF SendFails, waitVars
  <2>2. \A a \in Proc : serial'[a] >= serial[a]
    <3>1. \A a \in Proc : serial[a] \in Nat
      BY BoundAssumption DEF TypeOK
    <3>2. \A a \in Proc : serial'[a] = serial[a] \/ serial'[a] = serial[a] + 1
      BY <1>10 DEF SendFails, TypeOK
    <3> QED BY <3>1, <3>2
  <2>3. serial' \in [Proc -> 0 .. MaxSerial]
    BY <1>1 DEF TypeOK
  <2> QED BY <1>1, <1>10, <2>1, <2>2, <2>3, CallerSame, MessageNetwork
<1>11. ASSUME NEW p \in Proc, NEW q \in Proc, NEW kind \in Kinds, Send(p, q, kind)
       PROVE  CallerInv' /\ MessageInv'
  BY <1>1, <1>11, CallerSend, MessageSend
<1>12. ASSUME NEW p \in Proc, ReturnAsync(p)
       PROVE  CallerInv' /\ MessageInv'
  <2>1. UNCHANGED <<pending, ret, result, frame, histVars>> /\ UNCHANGED serial
    BY <1>12 DEF ReturnAsync, tableVars, waitVars
  <2> QED BY <1>1, <1>2, <1>12, <2>1, MessagePromise
<1>13. ASSUME NEW p \in Proc, Finish(p) \/ FutureReturn(p)
       PROVE  CallerInv' /\ MessageInv'
  <2>1. UNCHANGED <<pending, ret, result, frame, histVars>> /\ UNCHANGED serial
    BY <1>13 DEF Finish, FutureReturn, tableVars, waitVars
  <2> QED BY <1>1, <1>2, <1>13, <2>1, MessageFinish
<1>14. ASSUME NEW p \in Proc, ExecRequest(p) \/ ExecReply(p) \/ ExecCallback(p)
       PROVE  CallerInv' /\ MessageInv'
  BY <1>1, <1>14, CallerExec, MessageExecuted, MessageAnswered
<1>15. ASSUME NEW p \in Proc, Return(p)
       PROVE  CallerInv' /\ MessageInv'
  BY <1>1, <1>15, CallerReturn, MessageReturn
<1>16. ASSUME NEW p \in Proc, Die(p)
       PROVE  CallerInv' /\ MessageInv'
  BY <1>1, <1>16, CallerDies, MessageDies
<1>17. CASE UNCHANGED vars
  <2>1. UNCHANGED <<pending, ret, result, frame, histVars>> /\ UNCHANGED serial
    BY <1>17 DEF vars, tableVars, waitVars
  <2>2. CASE Proc = {}
    BY <2>1, <2>2, <1>2, <1>17 DEF MessageInv, LinksOK, WiresOK, IdleOK, ExecutedOK, RequestsOnce, vars, netVars, execVars, Call
  <2>3. ASSUME NEW p \in Proc
        PROVE  MessageInv'
    BY <1>1, <1>17, MessageNetwork
  <2> QED BY <2>1, <2>2, <2>3, <1>2
<1> QED BY <1>3, <1>4, <1>5, <1>6, <1>7, <1>8, <1>9, <1>10, <1>11, <1>12, <1>13, <1>14, <1>15,
           <1>16, <1>17 DEF Next, Loop, Script

LEMMA AnswerInit == Init => CallerInv /\ MessageInv
<1> SUFFICES ASSUME Init PROVE CallerInv /\ MessageInv
  OBVIOUS
<1>1. /\ \A p \in Proc : serial[p] = 0
      /\ \A p \in Proc, s \in Ser :
           /\ ret[p][s] = "none" /\ frame[p][s] = NoFrame /\ result[p][s] = NoResult
           /\ execs[p][s] = 0 /\ told[p][s] = <<>> /\ called[p][s] = <<>>
      /\ \A p, q \in Proc : pending[p][q] = {}
  BY DEF Init
<1>2. WaitsAgree /\ SyncListed /\ BackListed /\ Unsent
  BY <1>1 DEF WaitsAgree, SyncListed, BackListed, Unsent
<1>3. Outcomes
  <2>1. <<>> # <<"answer">> /\ <<>> # <<"lost", "answer">>
    OBVIOUS
  <2>2. Outcome(0, <<>>, <<>>, NoFrame, "none")
    BY <2>1 DEF Outcome
  <2> QED BY <1>1, <2>2 DEF Outcomes
<1>4. OwnAnswer
  BY <1>1 DEF OwnAnswer, NoResult
<1>5. /\ \A p \in Proc : open[p] = {} /\ idle[p] = <<>> /\ running[p] = NoJob /\ futures[p] = {}
      /\ \A p \in Proc, c \in Conn : wire[p][c] = <<>>
      /\ \A p \in Proc, s \in Ser : frame[p][s].job = NoJob
  BY DEF Init, NoFrame
<1>6. /\ \A x : ~InSeq(<<>>, x)
      /\ \A k : ~Asks(<<>>, k) /\ ~AsksTwice(<<>>, k)
      /\ \A k : ~Asks(Msgs(<<>>), k) /\ ~AsksTwice(Msgs(<<>>), k)
  <2>1. \A i : i \notin DOMAIN <<>>
    OBVIOUS
  <2>2. \A i : i \notin DOMAIN Msgs(<<>>)
    BY <2>1 DEF Msgs
  <2> QED BY <2>1, <2>2 DEF InSeq, Asks, AsksTwice
<1>7. LinksOK /\ WiresOK /\ IdleOK
  BY <1>5, <1>6 DEF LinksOK, WiresOK, IdleOK
<1>8. ExecutedOK
  BY <1>5, NoJobIsNone DEF ExecutedOK, Holds
<1>9. RequestsOnce
  BY <1>5, <1>6 DEF RequestsOnce
<1> QED BY <1>2, <1>3, <1>4, <1>7, <1>8, <1>9 DEF CallerInv, MessageInv

LEMMA AnswersInvariant == Spec => [](TypeOK /\ TablesAgree /\ CallerInv /\ MessageInv)
<1>1. Init => TablesAgree
  BY DEF Init, TablesAgree
<1>2. Init => StateIsOwn /\ SavedStateIsOwn
  BY DEF Init, StateIsOwn, SavedStateIsOwn
<1> QED BY <1>1, <1>2, TypeInit, TypeStep, TablesStep, OwnStep, AnswerInit, AnswerStep, PTL DEF Spec

\* A send that is woken is woken by the reply to its own command, whatever its
\* process executed, sent or lost in the meantime.
THEOREM AnswersAreOwn == Spec => []OwnAnswer
<1>1. CallerInv => OwnAnswer
  BY DEF CallerInv
<1> QED BY <1>1, AnswersInvariant, PTL

\* No command is executed twice, and what its caller is told of it is told once
\* and in order.
THEOREM NothingTwice == Spec => []AtMostOnce
<1>1. TypeOK /\ CallerInv => AtMostOnce
  <2> SUFFICES ASSUME TypeOK, CallerInv, NEW p \in Proc, NEW s \in Ser
               PROVE  /\ execs[p][s] <= 1
                      /\ told[p][s] \in {<<>>, <<"answer">>, <<"lost">>}
                      /\ called[p][s] \in {<<>>, <<"answer">>, <<"lost">>, <<"lost", "answer">>}
                      /\ "answer" \in Told(p, s) => execs[p][s] = 1
    BY DEF AtMostOnce
  <2>1. Outcome(execs[p][s], told[p][s], called[p][s], frame[p][s], ret[p][s])
    BY DEF CallerInv, Outcomes
  <2>2. execs[p][s] <= 1
    BY <2>1 DEF Outcome
  <2>3. "answer" \in Told(p, s) => execs[p][s] = 1
    <3>1. CASE told[p][s] = <<"answer">> \/ called[p][s] \in {<<"answer">>, <<"lost", "answer">>}
      BY <2>1, <3>1 DEF Outcome
    <3>2. CASE told[p][s] \in {<<>>, <<"lost">>} /\ called[p][s] \in {<<>>, <<"lost">>}
      <4>1. \A i \in DOMAIN told[p][s] : told[p][s][i] # "answer"
        BY <3>2
      <4>2. \A i \in DOMAIN called[p][s] : called[p][s][i] # "answer"
        BY <3>2
      <4> QED BY <4>1, <4>2 DEF Told
    <3> QED BY <2>1, <3>1, <3>2 DEF Outcome
  <2> QED BY <2>1, <2>2, <2>3 DEF Outcome
<1> QED BY <1>1, AnswersInvariant, PTL

---------------------------------------------------------------------------
(***************************************************************************)
(* Comm implements RemoteCall, step by step.                               *)
(***************************************************************************)

\* The state of RemoteCall.
Waits == [p \in Proc |-> Waiting(p)]
Ran   == [p \in Proc |-> {s \in Ser : execs[p][s] > 0}]
Ended == [p \in Proc |-> [s \in Ser |-> IF told[p][s] = <<>> THEN "none" ELSE told[p][s][1]]]

LEMMA CallStutters ==
  ASSUME UNCHANGED <<serial, frame, execs, told>>
  PROVE  UNCHANGED Calls!vars
BY DEF Calls!vars, Waiting

LEMMA RanSame ==
  ASSUME UNCHANGED execs PROVE UNCHANGED Ran
BY DEF Ran

LEMMA EndedSame ==
  ASSUME UNCHANGED told PROVE UNCHANGED Ended
BY DEF Ended

LEMMA WaitsSame ==
  ASSUME UNCHANGED frame PROVE UNCHANGED Waits
BY DEF Waits, Waiting

\* A command is sent, or its send fails.
LEMMA CallMade ==
  ASSUME TypeOK, NEW p \in Proc,
         \/ \E q \in Proc : SendFails(p, q)
         \/ \E q \in Proc, kind \in Kinds : Send(p, q, kind)
  PROVE  Calls!Make(p)
<1>1. /\ serial[p] < MaxSerial /\ serial' = [serial EXCEPT ![p] = @ + 1]
      /\ UNCHANGED <<execs, told>>
  <2>1. serial[p] \in Nat /\ MaxSerial \in Nat
    BY BoundAssumption DEF TypeOK
  <2>2. CASE \E q \in Proc : SendFails(p, q)
    BY <2>2 DEF SendFails, histVars
  <2>3. ASSUME NEW q \in Proc, NEW kind \in Kinds, Send(p, q, kind)
        PROVE  /\ serial[p] < MaxSerial /\ serial' = [serial EXCEPT ![p] = @ + 1]
               /\ UNCHANGED <<execs, told>>
    <3>1. serial[p] + 1 <= MaxSerial /\ serial' = [serial EXCEPT ![p] = @ + 1] /\ UNCHANGED <<execs, told>>
      BY <2>3 DEF Send, histVars
    <3> QED BY <2>1, <3>1
  <2> QED BY <2>2, <2>3
<1>2. PICK n \in Ser : n = serial[p] + 1 /\ serial'[p] = n
  <2>1. serial[p] \in Nat /\ MaxSerial \in Nat /\ serial'[p] = serial[p] + 1
    BY <1>1, BoundAssumption DEF TypeOK
  <2> QED BY <1>1, <2>1 DEF Ser
<1>3. \/ UNCHANGED frame
      \/ \E f : f # NoFrame /\ frame' = [frame EXCEPT ![p][n] = f]
  <2>1. CASE \E q \in Proc : SendFails(p, q)
    BY <2>1 DEF SendFails, waitVars
  <2>2. ASSUME NEW q \in Proc, NEW kind \in Kinds, Send(p, q, kind)
        PROVE  \/ UNCHANGED frame
               \/ \E f : f # NoFrame /\ frame' = [frame EXCEPT ![p][n] = f]
    <3> DEFINE f == [id |-> q, job |-> running[p], current |-> current[p],
                     remoteid |-> IF current[p].async THEN NoProc ELSE remoteid[p]]
    <3>1. f # NoFrame
      BY ProcAssumption DEF NoFrame
    <3>2. UNCHANGED frame \/ frame' = [frame EXCEPT ![p][n] = f]
      BY <2>2, <1>2 DEF Send
    <3> HIDE DEF f
    <3> QED BY <3>1, <3>2
  <2> QED BY <2>1, <2>2
<1>4. UNCHANGED Waits \/ Waits' = [Waits EXCEPT ![p] = @ \cup {serial'[p]}]
  <2>1. CASE UNCHANGED frame
    BY <2>1, WaitsSame
  <2>2. ASSUME NEW f, f # NoFrame, frame' = [frame EXCEPT ![p][n] = f]
        PROVE  Waits' = [Waits EXCEPT ![p] = @ \cup {serial'[p]}]
    <3>1. \A a \in Proc, s \in Ser : frame'[a][s] = IF a = p /\ s = n THEN f ELSE frame[a][s]
      BY <2>2 DEF TypeOK
    <3>2. \A a \in Proc : Waiting(a)' = IF a = p THEN Waiting(a) \cup {n} ELSE Waiting(a)
      BY <2>2, <3>1 DEF Waiting
    <3> QED BY <3>2, <1>2 DEF Waits
  <2> QED BY <1>3, <2>1, <2>2
<1>5. UNCHANGED <<Ran, Ended>>
  BY <1>1, RanSame, EndedSame
<1> QED BY <1>1, <1>4, <1>5 DEF Calls!Make, Waits, Ran, Ended

\* A command is executed.
LEMMA CallExecuted ==
  ASSUME TypeOK, MessageInv, NEW p \in Proc, ExecRequest(p)
  PROVE  \E a \in Proc, s \in Ser : Calls!Execute(a, s)
<1>1. PICK j \in Job : j = Head(idle[p])
  BY NextRequest DEF ExecRequest
<1>2. Underway(p, j.fid, j.msg) /\ j.msg \in Msg /\ j.msg.kind \in Request
  BY <1>1, NextRequest DEF Job, ExecRequest
<1>3. Concerns(p, j.fid, j.msg, 0)
  BY <1>2 DEF Underway, Request
<1>4. PICK a \in Proc, t \in Ser : a = j.msg.of[1] /\ t = j.msg.of[2]
  BY <1>2, <1>3 DEF Concerns, Msg
<1>5. t <= serial[a] /\ execs[a][t] = 0
  BY <1>3, <1>4 DEF Concerns
<1>6. /\ execs' = [execs EXCEPT ![a][t] = @ + 1]
      /\ UNCHANGED <<serial, frame, told>>
  BY <1>1, <1>4 DEF ExecRequest, tableVars, waitVars
<1>7. \A b \in Proc, s \in Ser : execs'[b][s] = IF b = a /\ s = t THEN 1 ELSE execs[b][s]
  <2>1. \A b \in Proc, s \in Ser : execs'[b][s] = IF b = a /\ s = t THEN execs[a][t] + 1 ELSE execs[b][s]
    BY <1>6 DEF TypeOK
  <2> QED BY <2>1, <1>5
<1>8. Ran' = [Ran EXCEPT ![a] = @ \cup {t}]
  <2>1. \A b \in Proc :
          {s \in Ser : execs'[b][s] > 0} = IF b = a THEN {s \in Ser : execs[b][s] > 0} \cup {t}
                                           ELSE {s \in Ser : execs[b][s] > 0}
    <3> SUFFICES ASSUME NEW b \in Proc, NEW s \in Ser
                 PROVE  execs'[b][s] > 0 <=> execs[b][s] > 0 \/ (b = a /\ s = t)
      OBVIOUS
    <3> QED BY <1>7
  <2> QED BY <2>1 DEF Ran
<1>9. t \notin Ran[a]
  BY <1>5 DEF Ran
<1>10. UNCHANGED <<Waits, Ended>>
  BY <1>6, WaitsSame, EndedSame
<1>11. Calls!Execute(a, t)
  BY <1>5, <1>6, <1>8, <1>9, <1>10 DEF Calls!Execute, Waits, Ran, Ended
<1> QED BY <1>11

\* A send returns.
LEMMA CallEnded ==
  ASSUME TypeOK, CallerInv, NEW p \in Proc, Return(p)
  PROVE  \E s \in Ser : Calls!End(p, s)
<1>1. PICK s \in Ser :
        /\ Awake(p, s)
        /\ frame' = [frame EXCEPT ![p][s] = NoFrame]
        /\ told' = [told EXCEPT ![p][s] = Append(@, result[p][s].tag)]
  BY DEF Return
<1>2. UNCHANGED <<serial, execs>>
  BY DEF Return
<1>3. /\ s \in Waiting(p) /\ frame[p][s] # NoFrame /\ result[p][s] # NoResult
      /\ \A t \in Waiting(p) : t <= s
  BY <1>1 DEF Awake, Top, Waiting
<1>4. told[p][s] = <<>>
  BY <1>3 DEF CallerInv, Outcomes, Outcome
<1>5. PICK o \in {"answer", "lost"} : o = result[p][s].tag
  <2>1. result[p][s] \in Result
    BY DEF TypeOK
  <2>2. result[p][s].tag \in {"answer", "lost"}
    BY <2>1, <1>3 DEF Result, Lost
  <2> QED BY <2>2
<1>6. o = "answer" => s \in Ran[p]
  <2> SUFFICES ASSUME o = "answer" PROVE s \in Ran[p]
    OBVIOUS
  <2>1. execs[p][s] = 1
    BY <1>5 DEF CallerInv, OwnAnswer
  <2> QED BY <2>1 DEF Ran
<1>7. \A a \in Proc, t \in Ser :
        /\ a = p /\ t = s => frame'[a][t] = NoFrame /\ told'[a][t] = <<o>>
        /\ a # p \/ t # s => frame'[a][t] = frame[a][t] /\ told'[a][t] = told[a][t]
  <2>1. Append(<<>>, o) = <<o>>
    OBVIOUS
  <2>2. told' = [told EXCEPT ![p][s] = <<o>>]
    BY <2>1, <1>1, <1>4, <1>5
  <2>3. \A a \in Proc, t \in Ser : told'[a][t] = IF a = p /\ t = s THEN <<o>> ELSE told[a][t]
    BY <2>2 DEF TypeOK
  <2>4. \A a \in Proc, t \in Ser : frame'[a][t] = IF a = p /\ t = s THEN NoFrame ELSE frame[a][t]
    BY <1>1 DEF TypeOK
  <2> QED BY <2>3, <2>4
<1>8. Waits' = [Waits EXCEPT ![p] = @ \ {s}]
  <2>1. \A a \in Proc : Waiting(a)' = IF a = p THEN Waiting(a) \ {s} ELSE Waiting(a)
    BY <1>7 DEF Waiting
  <2> QED BY <2>1 DEF Waits
<1>9. Ended' = [Ended EXCEPT ![p][s] = o]
  <2>1. <<o>> # <<>> /\ <<o>>[1] = o
    OBVIOUS
  <2>2. \A a \in Proc, t \in Ser :
          Ended'[a][t] = IF a = p /\ t = s THEN o ELSE Ended[a][t]
    BY <1>7, <2>1 DEF Ended
  <2>3. /\ Ended = [a \in Proc |-> [t \in Ser |-> Ended[a][t]]]
        /\ Ended' = [a \in Proc |-> [t \in Ser |-> Ended'[a][t]]]
    BY DEF Ended
  <2>4. \A a \in Proc :
          [t \in Ser |-> Ended'[a][t]] = IF a = p THEN [Ended[a] EXCEPT ![s] = o] ELSE Ended[a]
    <3> SUFFICES ASSUME NEW a \in Proc
                 PROVE  [t \in Ser |-> Ended'[a][t]] = IF a = p THEN [Ended[a] EXCEPT ![s] = o] ELSE Ended[a]
      OBVIOUS
    <3>1. Ended[a] = [t \in Ser |-> Ended[a][t]]
      BY DEF Ended
    <3> QED BY <2>2, <3>1
  <2> QED BY <2>3, <2>4
<1>10. UNCHANGED Ran
  BY <1>2, RanSame
<1>11. s \in Waits[p] /\ \A t \in Waits[p] : t <= s
  BY <1>3 DEF Waits
<1>12. \E v \in {"lost"} \cup (IF s \in Ran[p] THEN {"answer"} ELSE {}) : Ended' = [Ended EXCEPT ![p][s] = v]
  BY <1>6, <1>9
<1>13. Calls!End(p, s)
  BY <1>2, <1>8, <1>10, <1>11, <1>12 DEF Calls!End, Waits, Ran, Ended
<1> QED BY <1>13

\* A process dies.
LEMMA CallStopped ==
  ASSUME TypeOK, NEW p \in Proc, Die(p)
  PROVE  Calls!Stop(p)
<1>1. /\ frame' = [frame EXCEPT ![p] = [s \in Ser |-> NoFrame]]
      /\ UNCHANGED <<serial, execs, told>>
  BY DEF Die, histVars
<1>2. Waits' = [Waits EXCEPT ![p] = {}]
  <2>1. \A a \in Proc : Waiting(a)' = IF a = p THEN {} ELSE Waiting(a)
    BY <1>1 DEF Waiting, TypeOK
  <2> QED BY <2>1 DEF Waits
<1>3. UNCHANGED <<Ran, Ended>>
  BY <1>1, RanSame, EndedSame
<1> QED BY <1>1, <1>2, <1>3 DEF Calls!Stop, Waits, Ran, Ended

LEMMA CallStep ==
  TypeOK /\ CallerInv /\ MessageInv /\ [Next]_vars => [Calls!Next]_(Calls!vars)
<1> SUFFICES ASSUME TypeOK, CallerInv, MessageInv, [Next]_vars
             PROVE  [Calls!Next]_(Calls!vars)
  OBVIOUS
<1>1. Ser = Calls!Ser
  BY DEF Ser, Calls!Ser
<1>2. ASSUME NEW p \in Proc,
             \/ \E c \in Conn : \/ CommIncoming(p, c) \/ CommIncomingOffered(p, c)
                              \/ CommCollect(p, c) \/ CommCollectEof(p, c)
             \/ \E q \in Proc : Connect(p, q) \/ Shutdown(p, q)
             \/ Abort(p) \/ ReturnAsync(p) \/ FutureReturn(p) \/ Finish(p)
             \/ ExecReply(p) \/ ExecCallback(p)
      PROVE  UNCHANGED Calls!vars
  <2>1. ASSUME NEW S, CommLostConn(p, S)
        PROVE  UNCHANGED <<serial, frame, execs, told>>
    BY <2>1 DEF CommLostConn
  <2>2. UNCHANGED <<serial, frame, execs, told>>
    BY <1>2, <2>1 DEF CommIncoming, CommIncomingOffered, CommCollect, CommCollectEof, Connect, Shutdown,
          Abort, ReturnAsync, FutureReturn, Finish, ExecReply, ExecCallback, tableVars, waitVars, histVars
  <2> QED BY <2>2, CallStutters
<1>3. ASSUME NEW p \in Proc,
             \/ \E q \in Proc : SendFails(p, q)
             \/ \E q \in Proc, kind \in Kinds : Send(p, q, kind)
      PROVE  Calls!Next
  BY <1>3, CallMade DEF Calls!Next
<1>4. ASSUME NEW p \in Proc, ExecRequest(p)
      PROVE  Calls!Next
  BY <1>1, <1>4, CallExecuted DEF Calls!Next
<1>5. ASSUME NEW p \in Proc, Return(p)
      PROVE  Calls!Next
  BY <1>1, <1>5, CallEnded DEF Calls!Next
<1>6. ASSUME NEW p \in Proc, Die(p)
      PROVE  Calls!Next
  BY <1>6, CallStopped DEF Calls!Next
<1>7. CASE UNCHANGED vars
  BY <1>7, CallStutters DEF vars, tableVars, waitVars, histVars
<1> QED BY <1>2, <1>3, <1>4, <1>5, <1>6, <1>7 DEF Next, Loop, Script

\* To the scripts that use it, comm is a remote call: at most one execution, at
\* most one outcome, an answer only to what was executed, waits that end
\* innermost first.
THEOREM CommIsARemoteCall == Spec => CallSpec
<1>1. Init => Calls!Init
  <2> SUFFICES ASSUME Init PROVE Calls!Init
    OBVIOUS
  <2>1. serial = [p \in Proc |-> 0]
    BY DEF Init
  <2>2. \A p \in Proc : Waiting(p) = {}
    BY DEF Init, Waiting
  <2>3. \A p \in Proc : {s \in Ser : execs[p][s] > 0} = {}
    <3>1. \A p \in Proc, s \in Ser : ~(execs[p][s] > 0)
      BY DEF Init
    <3> QED BY <3>1
  <2>4. \A p \in Proc, s \in Ser : told[p][s] = <<>>
    BY DEF Init
  <2> QED BY <2>1, <2>2, <2>3, <2>4 DEF Calls!Init, Ser, Calls!Ser
<1> QED BY <1>1, AnswersInvariant, CallStep, PTL DEF Spec, CallSpec, Calls!Spec
=============================================================================

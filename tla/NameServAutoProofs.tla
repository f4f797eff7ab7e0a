------------------------- MODULE NameServAutoProofs -------------------------
(***************************************************************************)
(* Theorems about NameServAuto: the shape of its state, with the number of *)
(* timers that run, and that what is remembered is bound or pursued, for   *)
(* any names, any number of losses and calls, and any depth of calls that  *)
(* wait inside each other.                                                 *)
(***************************************************************************)
EXTENDS NameServAuto, TLAPS

---------------------------------------------------------------------------
(***************************************************************************)
(* The invariant.                                                          *)
(***************************************************************************)

Sum(t, n, l, c) == (IF t THEN n - 1 ELSE n) + l + (IF c = "gone" THEN 1 ELSE 0)

\* Each timer but the last, each event and each unnoticed end stands for a loss
\* of its own, and the variable is set only when a timer runs.
Timers ==
  /\ Sum(timer, timers, lost, conn) <= losses
  /\ timer => timers > 0

\* What a frame of each kind is like.
GoodFrame(f) ==
  /\ f \in Frame
  /\ f.kind = "bind" => f.name \in Name
  /\ f.kind = "rebind" => f.answer = "ok"
  /\ f.restoring \/ f.rest = {}

Frames == \A i \in DOMAIN frames : GoodFrame(frames[i])

\* The server answers in order: above a call that waits everybody waits.
InOrder ==
  \A i, j \in DOMAIN frames : i < j /\ frames[i].answer = "wait" => frames[j].answer = "wait"

\* The names of this session are bound over a connection.
MineIsUp == \A n \in Name : data[n] = Me => conn = "up"

\* The frame will try to bind the name, apart from a bind that is done.
Pursues(f, n) ==
  \/ f.kind = "features"
  \/ f.kind = "rebind" /\ n \in f.rest
  \/ f.kind = "bind" /\ (n \in f.rest \/ (n = f.name /\ f.answer # "ok"))

Retries == timers > 0 \/ lost > 0 \/ conn = "gone"

\* A name that is remembered is bound or pursued, and somebody pursues it who
\* comes after a release that the server has not executed.
Kept ==
  \A n \in bindings : data[n] = Me \/ Retries \/ \E i \in DOMAIN frames : Pursues(frames[i], n)
KeptAfter ==
  \A j \in DOMAIN frames : frames[j].kind = "release" /\ frames[j].answer = "wait" =>
    \A n \in bindings : Retries \/ \E k \in DOMAIN frames : j < k /\ Pursues(frames[k], n)

Calm == ~Stale /\ ~broken
Inv  == AutoTypeOK /\ Timers /\ Frames
IInv == InOrder /\ MineIsUp /\ (Calm => Kept /\ KeptAfter)

---------------------------------------------------------------------------
(***************************************************************************)
(* Lemmas about frames.                                                    *)
(***************************************************************************)

\* A call that is put on top of the others is the last frame, and the others stay.
LEMMA Pushed ==
  ASSUME NEW s \in Seq(Frame), NEW f \in Frame
  PROVE  /\ Append(s, f) \in Seq(Frame)
         /\ Len(Append(s, f)) = Len(s) + 1
         /\ DOMAIN Append(s, f) = 1 .. Len(s) + 1
         /\ DOMAIN s = 1 .. Len(s) /\ Len(s) \in Nat
         /\ \A i \in 1 .. Len(s) : Append(s, f)[i] = s[i]
         /\ Append(s, f)[Len(s) + 1] = f
OBVIOUS

\* A call that returns leaves the frames below it as they are.
LEMMA Below ==
  ASSUME NEW s \in Seq(Frame), s # <<>>
  PROVE  LET p == SubSeq(s, 1, Len(s) - 1)
         IN /\ p \in Seq(Frame)
            /\ Len(p) = Len(s) - 1
            /\ DOMAIN p = 1 .. Len(s) - 1
            /\ DOMAIN s = 1 .. Len(s) /\ Len(s) \in Nat \ {0}
            /\ \A i \in 1 .. Len(s) - 1 : p[i] = s[i]
<1>1. Len(s) \in Nat /\ Len(s) # 0 /\ DOMAIN s = 1 .. Len(s)
  OBVIOUS
<1> QED
  BY <1>1

\* The top frame is a frame.
LEMMA TopIsFrame ==
  ASSUME AutoTypeOK, Frames, frames # <<>>
  PROVE  Top \in Frame /\ GoodFrame(Top) /\ Len(frames) \in DOMAIN frames
<1>1. frames \in Seq(Frame)
  BY DEF AutoTypeOK
<1>2. Len(frames) \in Nat /\ Len(frames) # 0 /\ DOMAIN frames = 1 .. Len(frames)
  BY <1>1
<1> QED
  BY <1>1, <1>2 DEF Top, Frames, GoodFrame

\* Once the top frame has its answer nobody waits.
LEMMA NobodyWaits ==
  ASSUME AutoTypeOK, Frames, InOrder, frames # <<>>, Top.answer # "wait"
  PROVE  \A i \in DOMAIN frames : frames[i].answer # "wait"
<1>1. frames \in Seq(Frame)
  BY DEF AutoTypeOK
<1>2. Len(frames) \in DOMAIN frames /\ DOMAIN frames = 1 .. Len(frames) /\ Len(frames) \in Nat
  BY <1>1, TopIsFrame
<1>3. ASSUME NEW i \in DOMAIN frames, frames[i].answer = "wait" PROVE FALSE
  <2>1. i = Len(frames) \/ i < Len(frames)
    BY <1>2
  <2> QED
    BY <2>1, <1>2, <1>3 DEF InOrder, Top
<1> QED
  BY <1>3

\* What Calling and Rebinding make are frames.
LEMMA Frames1 ==
  ASSUME NEW k \in {"features", "bind", "release"}, NEW n \in Name \cup {None},
         NEW r \in BOOLEAN, NEW R \in SUBSET Name,
         k = "bind" => n \in Name, r \/ R = {}
  PROVE  /\ GoodFrame(Calling(k, n, r, R))
         /\ Calling(k, n, r, R).kind = k /\ Calling(k, n, r, R).name = n
         /\ Calling(k, n, r, R).answer = "wait" /\ Calling(k, n, r, R).rest = R
BY DEF GoodFrame, Frame, Calling, Reply

LEMMA Frames2 ==
  ASSUME NEW R \in SUBSET Name
  PROVE  /\ GoodFrame(Rebinding(R))
         /\ Rebinding(R).kind = "rebind" /\ Rebinding(R).rest = R
         /\ Rebinding(R).answer = "ok"
BY DEF GoodFrame, Frame, Calling, Rebinding, Reply

\* An answer makes of a call that waits a frame again, and leaves the rest of it.
LEMMA Answered ==
  ASSUME NEW f, GoodFrame(f), f.kind # "rebind", NEW a \in Reply
  PROVE  LET g == [f EXCEPT !.answer = a]
         IN /\ GoodFrame(g) /\ g.answer = a
            /\ g.kind = f.kind /\ g.name = f.name /\ g.rest = f.rest
BY DEF GoodFrame, Frame

---------------------------------------------------------------------------
(***************************************************************************)
(* The shape of the state.                                                 *)
(***************************************************************************)

\* What may be said of a sequence of frames.
GoodFrames(s) == s \in Seq(Frame) /\ Len(s) <= MaxNest /\ \A i \in DOMAIN s : GoodFrame(s[i])

\* The frames below the top, and with another on top, are good ones.
LEMMA GoodBelow ==
  ASSUME NEW s, GoodFrames(s), s # <<>>
  PROVE  GoodFrames(SubSeq(s, 1, Len(s) - 1)) /\ Len(SubSeq(s, 1, Len(s) - 1)) < MaxNest
<1> DEFINE p == SubSeq(s, 1, Len(s) - 1)
<1>1. s \in Seq(Frame) /\ Len(s) <= MaxNest /\ MaxNest \in Nat
  BY AutoBoundAssumption DEF GoodFrames
<1>2. /\ p \in Seq(Frame) /\ Len(p) = Len(s) - 1 /\ DOMAIN p = 1 .. Len(s) - 1
      /\ DOMAIN s = 1 .. Len(s) /\ Len(s) \in Nat \ {0}
      /\ \A i \in 1 .. Len(s) - 1 : p[i] = s[i]
  BY <1>1, Below
<1>3. \A i \in DOMAIN p : GoodFrame(p[i])
  <2> TAKE i \in DOMAIN p
  <2>1. i \in DOMAIN s /\ p[i] = s[i]
    BY <1>2
  <2> QED
    BY <2>1 DEF GoodFrames
<1> HIDE DEF p
<1>4. GoodFrames(p) /\ Len(p) < MaxNest
  BY <1>1, <1>2, <1>3 DEF GoodFrames
<1> QED
  BY <1>4 DEF p

LEMMA GoodPushed ==
  ASSUME NEW s, GoodFrames(s), Len(s) < MaxNest, NEW f, GoodFrame(f)
  PROVE  GoodFrames(Append(s, f))
<1> DEFINE t == Append(s, f)
<1>1. s \in Seq(Frame) /\ f \in Frame /\ MaxNest \in Nat
  BY AutoBoundAssumption DEF GoodFrames, GoodFrame
<1>2. /\ t \in Seq(Frame) /\ Len(t) = Len(s) + 1 /\ DOMAIN t = 1 .. Len(s) + 1
      /\ DOMAIN s = 1 .. Len(s) /\ Len(s) \in Nat
      /\ \A i \in 1 .. Len(s) : t[i] = s[i]
      /\ t[Len(s) + 1] = f
  BY <1>1, Pushed
<1>3. \A i \in DOMAIN t : GoodFrame(t[i])
  <2> TAKE i \in DOMAIN t
  <2>1. i = Len(s) + 1 \/ (i \in DOMAIN s /\ t[i] = s[i])
    BY <1>2
  <2> QED
    BY <2>1, <1>2 DEF GoodFrames
<1> HIDE DEF t
<1>4. GoodFrames(t)
  BY <1>1, <1>2, <1>3 DEF GoodFrames
<1> QED
  BY <1>4 DEF t

\* Answers leave the frames good ones.
LEMMA GoodAnswers ==
  ASSUME NEW s, GoodFrames(s), NEW t, DOMAIN t = DOMAIN s, t \in Seq(Frame),
         \A i \in DOMAIN s : GoodFrame(t[i])
  PROVE  GoodFrames(t)
<1>1. s \in Seq(Frame) /\ DOMAIN s = 1 .. Len(s) /\ Len(s) \in Nat
  BY DEF GoodFrames
<1>2. DOMAIN t = 1 .. Len(t) /\ Len(t) \in Nat
  OBVIOUS
<1>3. Len(t) = Len(s)
  BY <1>1, <1>2
<1> QED
  BY <1>3 DEF GoodFrames

\* The invariant in terms of the frames.
LEMMA InvFrames == Inv => GoodFrames(frames)
BY DEF Inv, AutoTypeOK, Frames, GoodFrames

\* The sum bounds the timers and the events.
LEMMA SumBounds ==
  ASSUME NEW t \in BOOLEAN, NEW n \in Nat, NEW l \in Nat, NEW c, NEW m \in Nat, NEW x \in 0 .. m,
         Sum(t, n, l, c) <= x, t => n > 0
  PROVE  n \in 0 .. m + 1 /\ l \in 0 .. m
<1>1. CASE t /\ c = "gone"
  BY <1>1 DEF Sum
<1>2. CASE t /\ c # "gone"
  BY <1>2 DEF Sum
<1>3. CASE ~t /\ c = "gone"
  BY <1>3 DEF Sum
<1>4. CASE ~t /\ c # "gone"
  BY <1>4 DEF Sum
<1> QED
  BY <1>1, <1>2, <1>3, <1>4

\* A step that keeps the scalars' types, the sum and the frames keeps the invariant.
LEMMA InvStep ==
  ASSUME Inv,
         up' \in BOOLEAN, data' \in [Name -> Owner],
         losses' \in 0 .. MaxLoss, conn' \in {"none", "up", "gone"},
         bindings' \subseteq Name, timer' \in BOOLEAN, timers' \in Nat, lost' \in Nat,
         search' \in {"none", "live", "answered", "destroyed"}, followed' \in BOOLEAN,
         callsMade' \in 0 .. MaxCall, dropped' \subseteq Name, ceded' \subseteq Name,
         broken' \in BOOLEAN,
         Timers', GoodFrames(frames')
  PROVE  Inv'
<1>1. MaxLoss \in Nat
  BY AutoBoundAssumption
<1>2. timers' \in 0 .. MaxLoss + 1 /\ lost' \in 0 .. MaxLoss
  BY <1>1, SumBounds DEF Timers
<1>3. Frames'
  BY DEF GoodFrames, Frames
<1>4. AutoTypeOK'
  BY <1>2 DEF AutoTypeOK, GoodFrames
<1> QED
  BY <1>3, <1>4 DEF Inv

\* What the invariant says of the parts that are no frames.
LEMMA InvParts ==
  ASSUME Inv
  PROVE  /\ up \in BOOLEAN /\ data \in [Name -> Owner]
         /\ losses \in 0 .. MaxLoss /\ conn \in {"none", "up", "gone"}
         /\ bindings \subseteq Name /\ timer \in BOOLEAN
         /\ timers \in Nat /\ lost \in Nat
         /\ search \in {"none", "live", "answered", "destroyed"} /\ followed \in BOOLEAN
         /\ callsMade \in 0 .. MaxCall /\ dropped \subseteq Name /\ ceded \subseteq Name
         /\ broken \in BOOLEAN
         /\ Timers /\ GoodFrames(frames)
         /\ MaxLoss \in Nat /\ MaxCall \in Nat /\ MaxNest \in Nat
BY InvFrames, AutoBoundAssumption DEF Inv, AutoTypeOK

\* Time in which nothing happens to the timers.
LEMMA TimersKept ==
  ASSUME Inv, UNCHANGED <<losses, timer, timers, lost>>, (conn' = "gone") <=> (conn = "gone")
  PROVE  Timers' /\ timer' \in BOOLEAN /\ timers' \in Nat /\ lost' \in Nat
BY InvParts DEF Timers, Sum

\* StartReconnect leaves a timer running, and is paid for by the one it replaces.
LEMMA Started ==
  ASSUME Inv, StartReconnect, UNCHANGED <<losses, lost>>, (conn' = "gone") <=> (conn = "gone")
  PROVE  Timers' /\ timer' \in BOOLEAN /\ timers' \in Nat \ {0} /\ lost' \in Nat
<1>1. timers \in Nat /\ lost \in Nat /\ losses \in Nat /\ timer \in BOOLEAN /\ Timers
  BY InvParts
<1>2. CASE timer
  BY <1>1, <1>2 DEF StartReconnect, Timers, Sum
<1>3. CASE ~timer
  BY <1>1, <1>3 DEF StartReconnect, Timers, Sum
<1> QED
  BY <1>1, <1>2, <1>3

\* A connection is up or gone after SERV, and gone only if it was.
LEMMA ConnectedType ==
  ASSUME conn \in {"none", "up", "gone"}, Connected
  PROVE  conn' \in {"up", "gone"} /\ ((conn' = "gone") <=> (conn = "gone"))
BY DEF Connected

\* Reconnect, by a timer or an event, one of which is used up.
LEMMA InvReconnect ==
  ASSUME Inv, TimerFires \/ LossEvent
  PROVE  Inv'
<1> USE InvParts
<1>1. PICK n \in Nat : /\ Reconnect(n) /\ lost' \in Nat
                       /\ n + lost' + (IF conn = "gone" THEN 1 ELSE 0) <= losses
  <2>1. CASE TimerFires
    <3>1. timers - 1 \in Nat /\ lost' = lost /\ Reconnect(timers - 1)
      BY <2>1 DEF TimerFires
    <3>2. timers - 1 + lost + (IF conn = "gone" THEN 1 ELSE 0) <= losses
      BY DEF Timers, Sum
    <3> QED
      BY <3>1, <3>2
  <2>2. CASE LossEvent
    <3>1. lost - 1 \in Nat /\ lost' = lost - 1 /\ Reconnect(timers)
      BY <2>2 DEF LossEvent
    <3>2. timers + (lost - 1) + (IF conn = "gone" THEN 1 ELSE 0) <= losses
      BY DEF Timers, Sum
    <3> QED
      BY <3>1, <3>2
  <2> QED
    BY <2>1, <2>2
<1>2. UNCHANGED <<up, data, losses, bindings, search, followed, callsMade, dropped, ceded, broken>>
  BY <1>1 DEF Reconnect, server, history
<1>3. CASE Connects
  <2>1. /\ Connected /\ timer' = FALSE /\ timers' = n /\ Len(frames) < MaxNest
        /\ frames' = Append(frames, Calling("features", None, FALSE, {}))
    BY <1>1, <1>3 DEF Reconnect
  <2>2. conn' \in {"none", "up", "gone"} /\ ((conn' = "gone") <=> (conn = "gone"))
    BY <2>1, ConnectedType
  <2>3. GoodFrames(frames')
    BY <2>1, Frames1, GoodPushed
  <2>4. Timers'
    BY <1>1, <1>2, <2>1, <2>2 DEF Timers, Sum
  <2> QED
    BY <1>1, <1>2, <2>1, <2>2, <2>3, <2>4, InvStep
<1>4. CASE ~Connects
  <2>1. timer' = TRUE /\ timers' = n + 1 /\ UNCHANGED <<conn, frames>>
    BY <1>1, <1>4 DEF Reconnect, Retry
  <2>2. GoodFrames(frames')
    BY <2>1
  <2>3. Timers'
    BY <1>1, <1>2, <2>1 DEF Timers, Sum
  <2> QED
    BY <1>1, <1>2, <2>1, <2>2, <2>3, InvStep
<1> QED
  BY <1>3, <1>4

\* What the server answers, and to whom: the first who waits.
LEMMA ServeAnswers ==
  ASSUME Inv, Serve
  PROVE  \E i \in DOMAIN frames :
           /\ frames[i].answer = "wait" /\ \A j \in 1 .. i - 1 : frames[j].answer # "wait"
           /\ \E a \in {"ok", "taken", "own"} : frames' = [frames EXCEPT ![i].answer = a]
           /\ \/ frames[i].kind = "features" /\ UNCHANGED data
              \/ /\ frames[i].kind = "release"
                 /\ data' = [m \in Name |-> IF data[m] = Me THEN None ELSE data[m]]
              \/ /\ frames[i].kind = "bind" /\ frames' = [frames EXCEPT ![i].answer = "ok"]
                 /\ data' = [data EXCEPT ![frames[i].name] = Me]
              \/ /\ frames[i].kind = "bind" /\ UNCHANGED data
                 /\ \E b \in {"taken", "own"} : frames' = [frames EXCEPT ![i].answer = b]
<1> USE InvParts
<1>1. PICK i \in DOMAIN frames :
        /\ frames[i].answer = "wait" /\ \A j \in 1 .. i - 1 : frames[j].answer # "wait"
        /\ CASE frames[i].kind = "features" ->
                 frames' = [frames EXCEPT ![i].answer = "ok"] /\ UNCHANGED data
            [] frames[i].kind = "release" ->
                 /\ frames' = [frames EXCEPT ![i].answer = "ok"]
                 /\ data' = [m \in Name |-> IF data[m] = Me THEN None ELSE data[m]]
            [] frames[i].kind = "bind" ->
                 IF data[frames[i].name] = None
                   THEN /\ frames' = [frames EXCEPT ![i].answer = "ok"]
                        /\ data' = [data EXCEPT ![frames[i].name] = Me]
                   ELSE /\ frames' = [frames EXCEPT ![i].answer =
                                        IF data[frames[i].name] = Rival THEN "taken" ELSE "own"]
                        /\ UNCHANGED data
  BY DEF Serve
<1>2. frames[i].kind \in {"features", "bind", "release"}
  BY <1>1 DEF GoodFrames, GoodFrame, Frame
<1>3. CASE frames[i].kind = "features"
  BY <1>1, <1>3
<1>4. CASE frames[i].kind = "release"
  BY <1>1, <1>4
<1>5. CASE frames[i].kind = "bind"
  BY <1>1, <1>5
<1> QED
  BY <1>2, <1>3, <1>4, <1>5

\* Answers of the server.
LEMMA InvServe == ASSUME Inv, Serve PROVE Inv'
<1> USE InvParts
<1>1. PICK i \in DOMAIN frames :
        /\ frames[i].answer = "wait"
        /\ \E a \in {"ok", "taken", "own"} : frames' = [frames EXCEPT ![i].answer = a]
        /\ data' \in [Name -> Owner]
  BY ServeAnswers DEF Owner
<1>2. UNCHANGED <<up, losses, conn, bindings, timer, timers, lost, search, followed, callsMade,
                  dropped, ceded, broken>>
  BY DEF Serve, history
<1>3. PICK a \in {"ok", "taken", "own"} : frames' = [frames EXCEPT ![i].answer = a]
  BY <1>1
<1>4. GoodFrames(frames')
  <2>1. frames \in Seq(Frame) /\ GoodFrame(frames[i]) /\ frames[i].kind # "rebind"
    BY <1>1 DEF GoodFrames, GoodFrame
  <2>2. GoodFrame([frames[i] EXCEPT !.answer = a])
    BY <2>1, Answered DEF Reply
  <2>3. \A j \in DOMAIN frames : GoodFrame(frames'[j])
    BY <1>3, <2>1, <2>2 DEF GoodFrames
  <2>4. frames' \in Seq(Frame) /\ DOMAIN frames' = DOMAIN frames
    BY <1>3, <2>1, <2>2 DEF GoodFrame
  <2> QED
    BY <2>3, <2>4, GoodAnswers
<1>5. Timers'
  BY <1>2, TimersKept
<1> QED
  BY <1>1, <1>2, <1>4, <1>5, InvStep

\* The server, others, and the connection.
LEMMA InvOutside ==
  ASSUME Inv, \/ \E n \in Name : RivalActs(n)
              \/ Break \/ ServerNotices \/ ServerDie \/ ServerStart
  PROVE  Inv'
<1> USE InvParts
<1>1. UNCHANGED <<bindings, timer, timers, lost, search, followed, callsMade, dropped, ceded, broken,
                 frames>>
  BY DEF RivalActs, Break, ServerNotices, ServerDie, ServerStart, history
<1>2. GoodFrames(frames')
  BY <1>1
<1>3. data' \in [Name -> Owner]
  BY DEF RivalActs, Break, ServerNotices, ServerDie, ServerStart, Owner
<1>4. up' \in BOOLEAN /\ conn' \in {"none", "up", "gone"}
  BY DEF RivalActs, Break, ServerNotices, ServerDie, ServerStart
<1>5. losses' \in 0 .. MaxLoss /\ Timers'
  <2>1. CASE UNCHANGED <<losses, conn>>
    BY <1>1, <2>1, TimersKept
  <2>2. CASE losses < MaxLoss /\ losses' = losses + 1
    BY <1>1, <2>2, <1>4 DEF Timers, Sum
  <2> QED
    BY <2>1, <2>2 DEF RivalActs, Break, ServerNotices, ServerDie, ServerStart
<1> QED
  BY <1>1, <1>2, <1>3, <1>4, <1>5, InvStep

\* The loss is noticed.
LEMMA InvLost == ASSUME Inv, Lost PROVE Inv'
<1> USE InvParts
<1>1. UNCHANGED <<up, data, losses, bindings, timer, timers, search, callsMade, dropped, ceded, broken>>
  BY DEF Lost, server, history
<1>2. conn = "gone" /\ conn' = "none" /\ followed' = FALSE /\ (lost' = lost \/ lost' = lost + 1)
  BY DEF Lost
<1>3. GoodFrames(frames')
  <2>1. frames \in Seq(Frame)
    BY DEF GoodFrames
  <2>2. frames' = [i \in DOMAIN frames |->
          IF frames[i].answer = "wait" THEN [frames[i] EXCEPT !.answer = "failed"] ELSE frames[i]]
    BY DEF Lost
  <2>3. ASSUME NEW i \in DOMAIN frames PROVE GoodFrame(frames'[i])
    <3>1. GoodFrame(frames[i])
      BY DEF GoodFrames
    <3>2. CASE frames[i].answer = "wait"
      <4>1. frames[i].kind # "rebind"
        BY <3>1, <3>2 DEF GoodFrame
      <4> QED
        BY <2>2, <3>1, <3>2, <4>1, Answered DEF Reply
    <3>3. CASE frames[i].answer # "wait"
      BY <2>2, <3>1, <3>3
    <3> QED
      BY <3>2, <3>3
  <2>4. \A i \in DOMAIN frames : frames'[i] \in Frame
    BY <2>3 DEF GoodFrame
  <2>5. frames' \in Seq(Frame) /\ DOMAIN frames' = DOMAIN frames
    BY <2>1, <2>2, <2>4
  <2> QED
    BY <2>3, <2>5, GoodAnswers
<1>4. Timers'
  BY <1>1, <1>2 DEF Timers, Sum
<1>5. lost' \in Nat
  BY <1>2
<1>6. conn' \in {"none", "up", "gone"}
  BY <1>2
<1>7. followed' \in BOOLEAN
  BY <1>2
<1> QED
  BY <1>1, <1>3, <1>4, <1>5, <1>6, <1>7, InvStep

\* A call of the application, of the server or of none.
LEMMA InvBind == ASSUME Inv, NEW n \in Name, Bind(n) PROVE Inv'
<1> USE InvParts
<1>1. /\ UNCHANGED <<up, data, losses, lost, search, followed, broken>>
      /\ bindings' = bindings \cup {n} /\ dropped' = dropped \ {n} /\ ceded' = ceded \ {n}
      /\ callsMade < MaxCall /\ callsMade' = callsMade + 1
  BY DEF Bind, server
<1>2. bindings' \subseteq Name /\ dropped' \subseteq Name /\ ceded' \subseteq Name
  BY <1>1
<1>3. callsMade' \in 0 .. MaxCall
  BY <1>1
<1>4. CASE Connects
  <2>1. /\ Connected /\ UNCHANGED <<timer, timers>> /\ Len(frames) < MaxNest
        /\ frames' = Append(frames, Calling("bind", n, FALSE, {}))
    BY <1>4 DEF Bind
  <2>2. conn' \in {"none", "up", "gone"} /\ ((conn' = "gone") <=> (conn = "gone"))
    BY <2>1, ConnectedType
  <2>3. GoodFrames(frames')
    BY <2>1, Frames1, GoodPushed
  <2>4. Timers'
    BY <1>1, <2>1, <2>2, TimersKept
  <2> QED
    BY <1>1, <1>2, <1>3, <2>1, <2>2, <2>3, <2>4, InvStep
<1>5. CASE ~Connects
  <2>1. StartReconnect /\ UNCHANGED <<conn, frames>>
    BY <1>5 DEF Bind
  <2>2. Timers' /\ timer' \in BOOLEAN /\ timers' \in Nat
    BY <1>1, <2>1, Started
  <2>3. GoodFrames(frames')
    BY <2>1
  <2> QED
    BY <1>1, <1>2, <1>3, <2>1, <2>2, <2>3, InvStep
<1> QED
  BY <1>4, <1>5

LEMMA InvRelease == ASSUME Inv, Release PROVE Inv'
<1> USE InvParts
<1>1. /\ UNCHANGED <<up, data, losses, timer, timers, lost, search, followed, broken>>
      /\ bindings' = {} /\ callsMade < MaxCall /\ callsMade' = callsMade + 1
      /\ dropped' \in {Name, dropped} /\ ceded' = {} /\ Len(frames) < MaxNest
  BY DEF Release, server
<1>2. bindings' \subseteq Name /\ dropped' \subseteq Name /\ ceded' \subseteq Name
  BY <1>1
<1>3. callsMade' \in 0 .. MaxCall
  BY <1>1
<1>4. CASE timer /\ Connects
  <2>1. /\ Connected /\ frames' = Append(frames, Calling("release", None, FALSE, {}))
    BY <1>4 DEF Release
  <2>2. conn' \in {"none", "up", "gone"} /\ ((conn' = "gone") <=> (conn = "gone"))
    BY <2>1, ConnectedType
  <2>3. GoodFrames(frames')
    BY <1>1, <2>1, Frames1, GoodPushed
  <2>4. Timers'
    BY <1>1, <2>2, TimersKept
  <2> QED
    BY <1>1, <1>2, <1>3, <2>2, <2>3, <2>4, InvStep
<1>5. CASE ~(timer /\ Connects)
  <2>1. UNCHANGED <<conn, frames>>
    BY <1>5 DEF Release
  <2>2. Timers'
    BY <1>1, <2>1, TimersKept
  <2>3. GoodFrames(frames')
    BY <2>1
  <2> QED
    BY <1>1, <1>2, <1>3, <2>1, <2>2, <2>3, InvStep
<1> QED
  BY <1>4, <1>5

\* The searches.
LEMMA InvSearch == ASSUME Inv, Search \/ SearchEnds PROVE Inv'
<1> USE InvParts
<1>1. UNCHANGED <<up, data, losses, bindings, lost, callsMade, frames, dropped, ceded, broken>>
  BY DEF Search, SearchEnds, server, history
<1>2. GoodFrames(frames')
  BY <1>1
<1>3. search' \in {"none", "live", "answered", "destroyed"} /\ followed' \in BOOLEAN
  BY DEF Search, SearchEnds
<1>4. CASE UNCHANGED <<timer, timers>> /\ (Connected \/ UNCHANGED conn)
  <2>1. conn' \in {"none", "up", "gone"} /\ ((conn' = "gone") <=> (conn = "gone"))
    BY <1>4, ConnectedType
  <2>2. Timers'
    BY <1>1, <1>4, <2>1, TimersKept
  <2> QED
    BY <1>1, <1>2, <1>3, <1>4, <2>1, <2>2, InvStep
<1>5. CASE StartReconnect /\ UNCHANGED conn
  <2>1. Timers' /\ timer' \in BOOLEAN /\ timers' \in Nat
    BY <1>1, <1>5, Started
  <2> QED
    BY <1>1, <1>2, <1>3, <1>5, <2>1, InvStep
<1> QED
  BY <1>4, <1>5 DEF Search, SearchEnds

\* Answers reach the client.
LEMMA InvReturns ==
  ASSUME Inv, CallEnds \/ FeaturesAnswered \/ RebindAnswered \/ RebindEnds
  PROVE  Inv'
<1> USE InvParts
<1>1. /\ UNCHANGED <<up, data, losses, lost, search, callsMade, dropped>>
      /\ frames # <<>> /\ bindings' \in {bindings, bindings \ {Top.name}}
  BY DEF CallEnds, FeaturesAnswered, RebindAnswered, RebindEnds, server, history
<1>2. bindings' \subseteq Name
  BY <1>1
<1>3. followed' \in BOOLEAN /\ broken' \in BOOLEAN /\ ceded' \subseteq Name
  BY DEF CallEnds, FeaturesAnswered, RebindAnswered, RebindEnds, history
<1>4. GoodFrame(Top) /\ Top.rest \subseteq Name
  BY <1>1, TopIsFrame DEF Inv, Frame
<1>5. GoodFrames(Popped) /\ Len(Popped) < MaxNest
  BY <1>1, GoodBelow DEF Popped
<1>6. GoodFrames(frames')
  <2>1. PICK R \in SUBSET Name : frames' \in {Popped, Append(Popped, Rebinding(R))}
    BY <1>1, <1>4 DEF CallEnds, FeaturesAnswered, RebindAnswered, RebindEnds
  <2>2. GoodFrame(Rebinding(R))
    BY Frames2
  <2>3. GoodFrames(Append(Popped, Rebinding(R)))
    BY <1>5, <2>2, GoodPushed
  <2> QED
    BY <2>1, <2>3, <1>5
<1>7. CASE UNCHANGED <<timer, timers>> /\ (Connected \/ UNCHANGED conn)
  <2>1. conn' \in {"none", "up", "gone"} /\ ((conn' = "gone") <=> (conn = "gone"))
    BY <1>7, ConnectedType
  <2>2. Timers'
    BY <1>1, <1>7, <2>1, TimersKept
  <2> QED
    BY <1>1, <1>2, <1>3, <1>6, <1>7, <2>1, <2>2, InvStep
<1>8. CASE StartReconnect /\ UNCHANGED conn
  <2>1. Timers' /\ timer' \in BOOLEAN /\ timers' \in Nat
    BY <1>1, <1>8, Started
  <2> QED
    BY <1>1, <1>2, <1>3, <1>6, <1>8, <2>1, InvStep
<1> QED
  BY <1>7, <1>8 DEF CallEnds, FeaturesAnswered, RebindAnswered, RebindEnds

\* A restoration enters the next name.
LEMMA InvRebindNext == ASSUME Inv, NEW n \in Name, RebindNext(n) PROVE Inv'
<1> USE InvParts
<1>1. /\ UNCHANGED <<up, data, losses, lost, search, followed, callsMade, dropped, broken>>
      /\ frames # <<>> /\ bindings' = bindings \cup {n} /\ ceded' = ceded \ {n}
  BY DEF RebindNext, server, history
<1>2. bindings' \subseteq Name /\ ceded' \subseteq Name
  BY <1>1
<1>3. GoodFrame(Top) /\ Top.rest \ {n} \in SUBSET Name
  BY <1>1, TopIsFrame DEF Inv, Frame
<1>4. GoodFrames(Popped) /\ Len(Popped) < MaxNest
  BY <1>1, GoodBelow DEF Popped
<1>5. CASE Connects
  <2>1. /\ Connected /\ UNCHANGED <<timer, timers>>
        /\ frames' = Append(Popped, Calling("bind", n, TRUE, Top.rest \ {n}))
    BY <1>5 DEF RebindNext
  <2>2. conn' \in {"none", "up", "gone"} /\ ((conn' = "gone") <=> (conn = "gone"))
    BY <2>1, ConnectedType
  <2>3. GoodFrames(frames')
    <3>1. GoodFrame(Calling("bind", n, TRUE, Top.rest \ {n}))
      <4> DEFINE R == Top.rest \ {n}
      <4>1. R \in SUBSET Name
        BY <1>3
      <4> HIDE DEF R
      <4>2. GoodFrame(Calling("bind", n, TRUE, R))
        BY <4>1, Frames1
      <4> QED
        BY <4>2 DEF R
    <3> QED
      BY <1>4, <2>1, <3>1, GoodPushed
  <2>4. Timers'
    BY <1>1, <2>1, <2>2, TimersKept
  <2> QED
    BY <1>1, <1>2, <2>1, <2>2, <2>3, <2>4, InvStep
<1>6. CASE ~Connects
  <2>1. frames' = Popped /\ StartReconnect /\ UNCHANGED conn
    BY <1>6 DEF RebindNext
  <2>2. Timers' /\ timer' \in BOOLEAN /\ timers' \in Nat
    BY <1>1, <2>1, Started
  <2>3. GoodFrames(frames')
    BY <1>4, <2>1
  <2> QED
    BY <1>1, <1>2, <2>1, <2>2, <2>3, InvStep
<1> QED
  BY <1>5, <1>6

LEMMA InvInit == AutoInit => Inv
<1> SUFFICES ASSUME AutoInit PROVE Inv
  OBVIOUS
<1>1. GoodFrames(frames)
  BY AutoBoundAssumption DEF AutoInit, GoodFrames
<1>2. Timers
  BY DEF AutoInit, Timers, Sum
<1>3. data \in [Name -> Owner] /\ up \in BOOLEAN
  BY DEF AutoInit, Owner
<1>4. /\ losses \in 0 .. MaxLoss /\ timers \in 0 .. MaxLoss + 1 /\ lost \in 0 .. MaxLoss
      /\ callsMade \in 0 .. MaxCall
  BY AutoBoundAssumption DEF AutoInit
<1>5. /\ conn \in {"none", "up", "gone"} /\ timer \in BOOLEAN /\ followed \in BOOLEAN
      /\ search \in {"none", "live", "answered", "destroyed"} /\ broken \in BOOLEAN
  BY DEF AutoInit
<1>6. bindings \subseteq Name /\ dropped \subseteq Name /\ ceded \subseteq Name
  BY DEF AutoInit
<1>7. AutoTypeOK
  BY <1>1, <1>3, <1>4, <1>5, <1>6 DEF AutoTypeOK, GoodFrames
<1> QED
  BY <1>1, <1>2, <1>7 DEF Inv, GoodFrames, Frames

LEMMA InvNext == Inv /\ [AutoNext]_aVars => Inv'
<1> SUFFICES ASSUME Inv, [AutoNext]_aVars PROVE Inv'
  OBVIOUS
<1>1. CASE Serve
  BY <1>1, InvServe
<1>2. CASE \/ \E n \in Name : RivalActs(n)
           \/ Break \/ ServerNotices \/ ServerDie \/ ServerStart
  BY <1>2, InvOutside
<1>3. CASE TimerFires \/ LossEvent
  BY <1>3, InvReconnect
<1>4. CASE Lost
  BY <1>4, InvLost
<1>5. CASE Release
  BY <1>5, InvRelease
<1>6. CASE CallEnds \/ FeaturesAnswered \/ RebindAnswered \/ RebindEnds
  BY <1>6, InvReturns
<1>7. CASE Search \/ SearchEnds
  BY <1>7, InvSearch
<1>8. CASE \E n \in Name : Bind(n)
  BY <1>8, InvBind
<1>9. CASE \E n \in Name : RebindNext(n)
  BY <1>9, InvRebindNext
<1>10. CASE UNCHANGED aVars
  BY <1>10 DEF Inv, AutoTypeOK, Timers, Frames, aVars, server, history
<1> QED
  BY <1>1, <1>2, <1>3, <1>4, <1>5, <1>6, <1>7, <1>8, <1>9, <1>10 DEF AutoNext

\* The state of the client, of its server and of their connection keeps its
\* shape.  No more timers run than one for each loss and one: StopReconnect does
\* not cancel them, and yet they do not pile up.
THEOREM AutoTypeCorrect == AutoSpec => []AutoTypeOK
<1>1. Inv => AutoTypeOK
  BY DEF Inv
<1> QED
  BY <1>1, InvInit, InvNext, PTL DEF AutoSpec

---------------------------------------------------------------------------
(***************************************************************************)
(* The order of the answers, and the names of this session.                *)
(***************************************************************************)

\* Everybody above a call that waits waits.
Ordered(s) == \A i, j \in DOMAIN s : i < j /\ s[i].answer = "wait" => s[j].answer = "wait"
NoneWaits(s) == \A i \in DOMAIN s : s[i].answer # "wait"

LEMMA OrderedPushed ==
  ASSUME NEW s \in Seq(Frame), NEW f \in Frame, NoneWaits(s) \/ (Ordered(s) /\ f.answer = "wait")
  PROVE  Ordered(Append(s, f))
<1> DEFINE t == Append(s, f)
<1>1. /\ DOMAIN t = 1 .. Len(s) + 1 /\ DOMAIN s = 1 .. Len(s) /\ Len(s) \in Nat
      /\ \A i \in 1 .. Len(s) : t[i] = s[i]
      /\ t[Len(s) + 1] = f
  BY Pushed
<1> HIDE DEF t
<1>2. ASSUME NEW i \in DOMAIN t, NEW j \in DOMAIN t, i < j, t[i].answer = "wait"
      PROVE  t[j].answer = "wait"
  <2>1. i \in DOMAIN s /\ t[i] = s[i] /\ (j = Len(s) + 1 \/ (j \in DOMAIN s /\ t[j] = s[j]))
    BY <1>1, <1>2
  <2>2. Ordered(s) /\ f.answer = "wait"
    BY <1>2, <2>1 DEF NoneWaits
  <2> QED
    BY <1>1, <1>2, <2>1, <2>2 DEF Ordered
<1>3. Ordered(t)
  BY <1>2 DEF Ordered
<1> QED
  BY <1>3 DEF t

\* Of the frames below the top nobody waits, if the top does not.
LEMMA PoppedWait ==
  ASSUME Inv, InOrder, frames # <<>>, Top.answer # "wait"
  PROVE  NoneWaits(Popped) /\ Popped \in Seq(Frame) /\ Ordered(Popped)
<1>1. frames \in Seq(Frame)
  BY DEF Inv, AutoTypeOK
<1>2. \A i \in DOMAIN frames : frames[i].answer # "wait"
  BY NobodyWaits DEF Inv
<1>3. /\ Popped \in Seq(Frame) /\ DOMAIN Popped = 1 .. Len(frames) - 1
      /\ DOMAIN frames = 1 .. Len(frames) /\ Len(frames) \in Nat \ {0}
      /\ \A i \in 1 .. Len(frames) - 1 : Popped[i] = frames[i]
  BY <1>1, Below DEF Popped
<1>4. \A i \in DOMAIN Popped : i \in DOMAIN frames /\ Popped[i] = frames[i]
  BY <1>3
<1>5. NoneWaits(Popped)
  BY <1>2, <1>4 DEF NoneWaits
<1> QED
  BY <1>3, <1>5 DEF NoneWaits, Ordered

\* The calls that wait, one kind at a time.
LEMMA Callings ==
  /\ GoodFrame(Calling("features", None, FALSE, {}))
  /\ Calling("features", None, FALSE, {}).answer = "wait"
  /\ GoodFrame(Calling("release", None, FALSE, {}))
  /\ Calling("release", None, FALSE, {}).answer = "wait"
  /\ \A n \in Name : GoodFrame(Calling("bind", n, FALSE, {}))
  /\ \A n \in Name : Calling("bind", n, FALSE, {}).answer = "wait"
<1>1. /\ GoodFrame(Calling("features", None, FALSE, {}))
      /\ GoodFrame(Calling("release", None, FALSE, {}))
  BY Frames1
<1>2. \A n \in Name : GoodFrame(Calling("bind", n, FALSE, {}))
  BY Frames1
<1> QED
  BY <1>1, <1>2 DEF Calling

\* What the actions do to the frames: they answer one, fail all, put one on top,
\* or have the top one, which has its answer, return, with another in its place.
LEMMA FrameSteps ==
  ASSUME Inv, [AutoNext]_aVars
  PROVE  \/ UNCHANGED frames
         \/ Serve
         \/ Lost
         \/ \E f \in Frame : f.answer = "wait" /\ frames' = Append(frames, f)
         \/ /\ frames # <<>> /\ Top.answer # "wait"
            /\ frames' = Popped \/ \E f \in Frame : frames' = Append(Popped, f)
<1> USE InvParts
<1>1. CASE TimerFires \/ LossEvent
  BY <1>1, Callings DEF TimerFires, LossEvent, Reconnect, GoodFrame
<1>2. CASE Release
  BY <1>2, Callings DEF Release, GoodFrame
<1>3. CASE \E n \in Name : Bind(n)
  <2>1. PICK n \in Name : Bind(n)
    BY <1>3
  <2> QED
    BY <2>1, Callings DEF Bind, GoodFrame
<1>4. CASE \E n \in Name : RebindNext(n)
  <2>1. PICK n \in Name : RebindNext(n)
    BY <1>4
  <2> DEFINE R == Top.rest \ {n}
  <2>2. frames # <<>> /\ Top.kind = "rebind" /\ GoodFrame(Top) /\ R \in SUBSET Name
    BY <2>1, TopIsFrame DEF RebindNext, Inv, Frame
  <2>3. Top.answer = "ok"
    BY <2>2 DEF GoodFrame
  <2>4. frames' = Popped \/ frames' = Append(Popped, Calling("bind", n, TRUE, R))
    BY <2>1 DEF RebindNext
  <2> HIDE DEF R
  <2>5. GoodFrame(Calling("bind", n, TRUE, R))
    BY <2>2, Frames1
  <2> QED
    BY <2>2, <2>3, <2>4, <2>5 DEF GoodFrame
<1>5. CASE CallEnds \/ FeaturesAnswered \/ RebindAnswered \/ RebindEnds
  <2>1. frames # <<>>
    BY <1>5 DEF CallEnds, FeaturesAnswered, RebindAnswered, RebindEnds
  <2>2. GoodFrame(Top) /\ Top.rest \subseteq Name
    BY <2>1, TopIsFrame DEF Inv, Frame
  <2>3. Top.answer # "wait"
    BY <1>5, <2>2 DEF CallEnds, FeaturesAnswered, RebindAnswered, RebindEnds, GoodFrame
  <2>4. PICK R \in SUBSET Name : frames' \in {Popped, Append(Popped, Rebinding(R))}
    BY <1>5, <2>2 DEF CallEnds, FeaturesAnswered, RebindAnswered, RebindEnds
  <2>5. Rebinding(R) \in Frame
    BY Frames2 DEF GoodFrame
  <2> QED
    BY <2>1, <2>3, <2>4, <2>5
<1>6. CASE Search \/ SearchEnds \/ (\E n \in Name : RivalActs(n))
  BY <1>6 DEF Search, SearchEnds, RivalActs
<1>7. CASE Break \/ ServerNotices \/ ServerDie \/ ServerStart
  BY <1>7 DEF Break, ServerNotices, ServerDie, ServerStart
<1>8. CASE UNCHANGED aVars
  BY <1>8 DEF aVars
<1> QED
  BY <1>1, <1>2, <1>3, <1>4, <1>5, <1>6, <1>7, <1>8 DEF AutoNext

\* The answers stay in order.
LEMMA OrderNext == Inv /\ InOrder /\ [AutoNext]_aVars => InOrder'
<1> SUFFICES ASSUME Inv, InOrder, [AutoNext]_aVars PROVE Ordered(frames')
  BY DEF InOrder, Ordered
<1>1. frames \in Seq(Frame) /\ Ordered(frames)
  BY DEF Inv, AutoTypeOK, InOrder, Ordered
<1>2. CASE UNCHANGED frames
  BY <1>1, <1>2
<1>3. CASE Serve
  <2>1. PICK i \in DOMAIN frames :
          /\ \A j \in 1 .. i - 1 : frames[j].answer # "wait"
          /\ \E a \in {"ok", "taken", "own"} : frames' = [frames EXCEPT ![i].answer = a]
    BY <1>3, ServeAnswers
  <2>2. PICK a \in {"ok", "taken", "own"} : frames' = [frames EXCEPT ![i].answer = a]
    BY <2>1
  <2>3. \A j \in DOMAIN frames : j # i => frames'[j] = frames[j]
    BY <1>1, <2>2
  <2>4. DOMAIN frames' = DOMAIN frames /\ DOMAIN frames = 1 .. Len(frames) /\ Len(frames) \in Nat
    BY <1>1, <2>2
  <2>5. frames'[i].answer = a
    <3>1. GoodFrame(frames[i]) /\ frames'[i] = [frames[i] EXCEPT !.answer = a]
      BY <2>2 DEF Inv, Frames
    <3> QED
      BY <3>1 DEF GoodFrame, Frame
  <2>6. ASSUME NEW j \in DOMAIN frames, NEW k \in DOMAIN frames, j < k, frames'[j].answer = "wait"
        PROVE  frames'[k].answer = "wait"
    <3>1. j # i /\ frames[j].answer = "wait"
      BY <2>3, <2>5, <2>6
    <3>2. j > i
      BY <2>1, <2>4, <3>1
    <3>3. k # i
      BY <2>4, <2>6, <3>2
    <3> QED
      BY <1>1, <2>3, <2>6, <3>1, <3>3 DEF Ordered
  <2> QED
    BY <2>4, <2>6 DEF Ordered
<1>4. CASE Lost
  <2>1. frames' = [i \in DOMAIN frames |->
          IF frames[i].answer = "wait" THEN [frames[i] EXCEPT !.answer = "failed"] ELSE frames[i]]
    BY <1>4 DEF Lost
  <2>2. ASSUME NEW i \in DOMAIN frames PROVE frames'[i].answer # "wait"
    <3>1. GoodFrame(frames[i])
      BY DEF Inv, Frames
    <3> QED
      BY <2>1, <3>1 DEF GoodFrame, Frame
  <2>3. DOMAIN frames' = DOMAIN frames
    BY <2>1
  <2> QED
    BY <2>2, <2>3 DEF Ordered
<1>5. CASE \E f \in Frame : f.answer = "wait" /\ frames' = Append(frames, f)
  BY <1>1, <1>5, OrderedPushed
<1>6. CASE /\ frames # <<>> /\ Top.answer # "wait"
           /\ frames' = Popped \/ \E f \in Frame : frames' = Append(Popped, f)
  BY <1>6, PoppedWait, OrderedPushed
<1> QED
  BY <1>2, <1>3, <1>4, <1>5, <1>6, FrameSteps

\* A name is bound in this session while the connection is up.
LEMMA MineNext == Inv /\ MineIsUp /\ [AutoNext]_aVars => MineIsUp'
<1> SUFFICES ASSUME Inv, MineIsUp, [AutoNext]_aVars, NEW n \in Name, data'[n] = Me
             PROVE  conn' = "up"
  BY DEF MineIsUp
<1> USE InvParts
<1>1. CASE Serve
  BY <1>1 DEF Serve
<1>2. CASE Lost
  <2>1. conn = "gone" /\ data' = data
    BY <1>2 DEF Lost, server
  <2> QED
    BY <2>1 DEF MineIsUp
<1>3. CASE Break \/ ServerDie
  BY <1>3, OwnerAssumption DEF Break, ServerDie
<1>4. CASE ServerNotices \/ ServerStart \/ \E m \in Name : RivalActs(m)
  <2>1. data[n] = Me /\ conn' = conn
    BY <1>4, OwnerAssumption DEF ServerNotices, ServerStart, RivalActs
  <2> QED
    BY <2>1 DEF MineIsUp
<1>5. CASE data' = data /\ (Connected \/ UNCHANGED conn)
  <2>1. conn = "up"
    BY <1>5 DEF MineIsUp
  <2> QED
    BY <1>5, <2>1 DEF Connected
<1>6. CASE TimerFires \/ LossEvent
  BY <1>5, <1>6 DEF TimerFires, LossEvent, Reconnect, server
<1>7. CASE Release \/ Search \/ SearchEnds \/ \E m \in Name : Bind(m)
  BY <1>5, <1>7 DEF Release, Search, SearchEnds, Bind, server
<1>8. CASE CallEnds \/ FeaturesAnswered \/ RebindAnswered \/ RebindEnds \/ \E m \in Name : RebindNext(m)
  BY <1>5, <1>8 DEF CallEnds, FeaturesAnswered, RebindAnswered, RebindEnds, RebindNext, server
<1>9. CASE UNCHANGED aVars
  BY <1>5, <1>9 DEF aVars, server
<1> QED
  BY <1>1, <1>2, <1>3, <1>4, <1>6, <1>7, <1>8, <1>9 DEF AutoNext

---------------------------------------------------------------------------
(***************************************************************************)
(* What is remembered is bound or pursued.                                 *)
(***************************************************************************)

\* A timer, an event or a loss pursues every name.
LEMMA RetriesKeep == ASSUME Retries' PROVE Kept' /\ KeptAfter'
BY DEF Kept, KeptAfter

\* The same calls are under way: no name is lost that is still bound.
LEMMA KeptSame ==
  ASSUME Kept, KeptAfter, UNCHANGED frames,
         \A n \in bindings' :
           Retries' \/ (n \in bindings /\ ~Retries /\ (data[n] = Me => data'[n] = Me))
  PROVE  Kept' /\ KeptAfter'
BY DEF Kept, KeptAfter

\* Another call is put on top, which pursues what it adds; a release has nothing left
\* to keep.
LEMMA KeptPushed ==
  ASSUME Kept, KeptAfter, frames \in Seq(Frame), NEW f \in Frame, frames' = Append(frames, f),
         UNCHANGED data, f.kind = "release" => bindings' = {},
         \A n \in bindings' : Pursues(f, n) \/ Retries' \/ (n \in bindings /\ ~Retries)
  PROVE  Kept' /\ KeptAfter'
<1>1. /\ DOMAIN frames' = 1 .. Len(frames) + 1 /\ DOMAIN frames = 1 .. Len(frames)
      /\ Len(frames) \in Nat
      /\ \A i \in 1 .. Len(frames) : frames'[i] = frames[i]
      /\ frames'[Len(frames) + 1] = f
  BY Pushed
<1>2. \A i \in DOMAIN frames : i \in DOMAIN frames' /\ frames'[i] = frames[i] /\ i < Len(frames) + 1
  BY <1>1
<1>3. Len(frames) + 1 \in DOMAIN frames'
  BY <1>1
<1>4. Kept'
  <2> SUFFICES ASSUME NEW n \in bindings', ~Retries'
               PROVE  data'[n] = Me \/ \E i \in DOMAIN frames' : Pursues(frames'[i], n)
    BY DEF Kept, Pursues
  <2>1. CASE Pursues(f, n)
    BY <1>1, <1>3, <2>1
  <2>2. CASE n \in bindings /\ ~Retries
    BY <1>2, <2>2 DEF Kept
  <2> QED
    BY <2>1, <2>2
<1>5. KeptAfter'
  <2> SUFFICES ASSUME NEW j \in DOMAIN frames', frames'[j].kind = "release", frames'[j].answer = "wait",
                      NEW n \in bindings', ~Retries'
               PROVE  \E k \in DOMAIN frames' : j < k /\ Pursues(frames'[k], n)
    BY DEF KeptAfter, Pursues
  <2>1. j \in DOMAIN frames /\ frames'[j] = frames[j]
    BY <1>1
  <2>2. CASE Pursues(f, n)
    BY <1>1, <1>2, <1>3, <2>1, <2>2
  <2>3. CASE n \in bindings /\ ~Retries
    <3>1. PICK k \in DOMAIN frames : j < k /\ Pursues(frames[k], n)
      BY <2>1, <2>3 DEF KeptAfter
    <3> QED
      BY <1>2, <3>1
  <2> QED
    BY <2>2, <2>3
<1> QED
  BY <1>4, <1>5

\* The top call returns, when nobody waits: what it pursued is bound, forgotten, or
\* pursued by others, by the frame g that takes its place among them.
LEMMA KeptReturned ==
  ASSUME Inv, InOrder, Kept, frames # <<>>, Top.answer # "wait", UNCHANGED data,
         NEW g \in Frame, g.kind # "release",
         \/ frames' = Append(Popped, g)
         \/ frames' = Popped /\ \A n \in Name : ~Pursues(g, n),
         bindings' \subseteq Name,
         \A n \in bindings' :
           Pursues(g, n) \/ Retries' \/ (n \in bindings /\ ~Retries /\ ~Pursues(Top, n))
  PROVE  Kept' /\ KeptAfter'
<1> DEFINE m == Len(frames) - 1
<1>1. frames \in Seq(Frame)
  BY DEF Inv, AutoTypeOK
<1>2. /\ Popped \in Seq(Frame) /\ Len(Popped) = m /\ DOMAIN Popped = 1 .. m
      /\ DOMAIN frames = 1 .. Len(frames) /\ Len(frames) \in Nat \ {0}
      /\ \A i \in 1 .. m : Popped[i] = frames[i]
  BY <1>1, Below DEF Popped
<1>3. m \in Nat /\ Len(frames) = m + 1 /\ DOMAIN frames = 1 .. m + 1
  BY <1>2
<1> HIDE DEF m
<1>4. /\ DOMAIN Append(Popped, g) = 1 .. m + 1
      /\ \A i \in 1 .. m : Append(Popped, g)[i] = frames[i]
      /\ Append(Popped, g)[m + 1] = g
  BY <1>2, Pushed
<1>5. \A i \in 1 .. m : i \in DOMAIN frames' /\ frames'[i] = frames[i]
  BY <1>2, <1>3, <1>4
<1>6. \A i \in DOMAIN frames' : i \in 1 .. m \/ frames'[i] = g
  BY <1>2, <1>3, <1>4
<1>7. Kept'
  <2> SUFFICES ASSUME NEW n \in bindings', ~Retries'
               PROVE  data'[n] = Me \/ \E i \in DOMAIN frames' : Pursues(frames'[i], n)
    BY DEF Kept, Pursues
  <2>1. CASE Pursues(g, n)
    <3>1. frames' = Append(Popped, g)
      BY <2>1
    <3>2. m + 1 \in DOMAIN frames' /\ frames'[m + 1] = g
      BY <1>3, <1>4, <3>1
    <3> QED
      BY <2>1, <3>2
  <2>2. CASE n \in bindings /\ ~Retries /\ ~Pursues(Top, n)
    <3>1. data[n] = Me \/ \E i \in DOMAIN frames : Pursues(frames[i], n)
      BY <2>2 DEF Kept
    <3>2. ASSUME NEW i \in DOMAIN frames, Pursues(frames[i], n) PROVE i \in 1 .. m
      <4>1. i # m + 1
        BY <1>3, <2>2, <3>2 DEF Top
      <4> QED
        BY <1>3, <4>1
    <3> QED
      BY <1>5, <3>1, <3>2
  <2> QED
    BY <2>1, <2>2
<1>8. KeptAfter'
  <2>1. \A i \in DOMAIN frames : frames[i].answer # "wait"
    BY NobodyWaits DEF Inv
  <2>2. \A i \in DOMAIN frames' : ~(frames'[i].kind = "release" /\ frames'[i].answer = "wait")
    BY <1>3, <1>5, <1>6, <2>1
  <2> QED
    BY <2>2 DEF KeptAfter
<1> QED
  BY <1>7, <1>8

\* SERV does not change whether somebody tries again.
LEMMA RetriesConnected ==
  ASSUME UNCHANGED <<timers, lost>>, Connected \/ UNCHANGED conn
  PROVE  Retries' <=> Retries
BY DEF Retries, Connected

LEMMA RetriesStarted ==
  ASSUME Inv, StartReconnect
  PROVE  Retries'
<1>1. timers \in Nat /\ timer \in BOOLEAN /\ (timer => timers > 0)
  BY InvParts DEF Timers
<1>2. timers' > 0
  BY <1>1 DEF StartReconnect
<1> QED
  BY <1>2 DEF Retries

\* The server answers: a bind that is done leaves its name bound, and what a release
\* unbinds is pursued by somebody after it.
LEMMA KeptServe == ASSUME Inv, IInv, Kept, KeptAfter, Serve PROVE Kept' /\ KeptAfter'
<1> USE InvParts
<1>1. PICK i \in DOMAIN frames :
        /\ frames[i].answer = "wait" /\ \A j \in 1 .. i - 1 : frames[j].answer # "wait"
        /\ \E a \in {"ok", "taken", "own"} : frames' = [frames EXCEPT ![i].answer = a]
        /\ \/ frames[i].kind = "features" /\ UNCHANGED data
           \/ /\ frames[i].kind = "release"
              /\ data' = [m \in Name |-> IF data[m] = Me THEN None ELSE data[m]]
           \/ /\ frames[i].kind = "bind" /\ frames' = [frames EXCEPT ![i].answer = "ok"]
              /\ data' = [data EXCEPT ![frames[i].name] = Me]
           \/ /\ frames[i].kind = "bind" /\ UNCHANGED data
              /\ \E b \in {"taken", "own"} : frames' = [frames EXCEPT ![i].answer = b]
  BY ServeAnswers
<1>2. PICK a \in {"ok", "taken", "own"} : frames' = [frames EXCEPT ![i].answer = a]
  BY <1>1
<1>3. bindings' = bindings /\ (Retries' <=> Retries)
  BY DEF Serve, Retries
<1>4. frames \in Seq(Frame) /\ DOMAIN frames = 1 .. Len(frames) /\ Len(frames) \in Nat
  BY DEF GoodFrames
<1>5. DOMAIN frames' = DOMAIN frames /\ \A j \in DOMAIN frames : j # i => frames'[j] = frames[j]
  BY <1>2, <1>4
<1>6. GoodFrame(frames[i]) /\ frames'[i] = [frames[i] EXCEPT !.answer = a]
  BY <1>2, <1>4 DEF GoodFrames
<1>7. /\ frames'[i].answer = a /\ frames'[i].kind = frames[i].kind
      /\ frames'[i].name = frames[i].name /\ frames'[i].rest = frames[i].rest
  BY <1>6 DEF GoodFrame, Frame
<1>8. Kept'
  <2> SUFFICES ASSUME NEW n \in bindings, ~Retries, data'[n] # Me
               PROVE  \E k \in DOMAIN frames : Pursues(frames'[k], n)
    BY <1>3, <1>5 DEF Kept, Pursues
  <2>1. CASE frames[i].kind = "release"
    <3>1. PICK k \in DOMAIN frames : i < k /\ Pursues(frames[k], n)
      BY <1>1, <2>1 DEF KeptAfter
    <3>2. k # i
      BY <1>4, <3>1
    <3> QED
      BY <1>5, <3>1, <3>2
  <2>2. CASE frames[i].kind # "release"
    <3>1. n \in Name /\ data[n] # Me
      BY <1>1, <2>2
    <3>2. PICK k \in DOMAIN frames : Pursues(frames[k], n)
      BY <3>1 DEF Kept
    <3>3. CASE k # i
      BY <1>5, <3>2, <3>3
    <3>4. CASE k = i /\ frames[i].kind = "features"
      BY <1>7, <3>4 DEF Pursues
    <3>5. CASE k = i /\ frames[i].kind = "bind"
      <4>1. CASE n \in frames[i].rest
        BY <1>7, <3>5, <4>1 DEF Pursues
      <4>2. CASE n = frames[i].name
        <5>1. data' # [data EXCEPT ![frames[i].name] = Me]
          BY <3>1, <4>2
        <5>2. PICK b \in {"taken", "own"} : frames' = [frames EXCEPT ![i].answer = b]
          BY <1>1, <3>5, <5>1
        <5>3. frames'[i].answer = b
          <6>1. frames'[i] = [frames[i] EXCEPT !.answer = b]
            BY <1>4, <5>2
          <6> QED
            BY <1>6, <6>1 DEF GoodFrame, Frame
        <5> QED
          BY <1>7, <3>5, <4>2, <5>3 DEF Pursues
      <4> QED
        BY <3>2, <3>5, <4>1, <4>2 DEF Pursues
    <3> QED
      BY <1>1, <2>2, <3>3, <3>4, <3>5
  <2> QED
    BY <2>1, <2>2
<1>9. KeptAfter'
  <2> SUFFICES ASSUME NEW j \in DOMAIN frames, frames'[j].kind = "release", frames'[j].answer = "wait",
                      NEW n \in bindings, ~Retries
               PROVE  \E k \in DOMAIN frames : j < k /\ Pursues(frames'[k], n)
    BY <1>3, <1>5 DEF KeptAfter, Pursues
  <2>1. j # i
    BY <1>7
  <2>2. frames[j].kind = "release" /\ frames[j].answer = "wait"
    BY <1>5, <2>1
  <2>3. j > i
    BY <1>1, <1>4, <2>1, <2>2
  <2>4. PICK k \in DOMAIN frames : j < k /\ Pursues(frames[k], n)
    BY <2>2 DEF KeptAfter
  <2>5. k # i
    BY <1>4, <2>3, <2>4
  <2> QED
    BY <1>5, <2>4, <2>5
<1> QED
  BY <1>8, <1>9

\* The server, others, and the connection: what is no longer bound was lost with the
\* connection, whose end is not noticed yet.
LEMMA KeptOutside ==
  ASSUME Inv, IInv, Kept, KeptAfter,
         \/ \E n \in Name : RivalActs(n)
         \/ Break \/ ServerNotices \/ ServerDie \/ ServerStart
  PROVE  Kept' /\ KeptAfter'
<1> USE InvParts
<1>1. UNCHANGED <<bindings, frames, timers, lost>>
  BY DEF RivalActs, Break, ServerNotices, ServerDie, ServerStart
<1>2. CASE conn' = "gone"
  BY <1>2, RetriesKeep DEF Retries
<1>3. CASE conn' # "gone"
  <2>1. conn' = conn /\ (Retries' <=> Retries)
    BY <1>1, <1>3 DEF RivalActs, Break, ServerNotices, ServerDie, ServerStart, Retries
  <2>2. \A n \in bindings : data[n] = Me => data'[n] = Me
    <3>1. CASE ServerDie
      <4>1. conn # "up"
        BY <1>3, <3>1 DEF ServerDie
      <4> QED
        BY <4>1 DEF IInv, MineIsUp
    <3>2. CASE \/ \E n \in Name : RivalActs(n)
               \/ ServerNotices \/ ServerStart
      BY <3>2, OwnerAssumption DEF RivalActs, ServerNotices, ServerStart
    <3>3. ~Break
      BY <1>3 DEF Break
    <3> QED
      BY <3>1, <3>2, <3>3
  <2> QED
    BY <1>1, <2>1, <2>2, KeptSame
<1> QED
  BY <1>2, <1>3

\* Reconnect replaces the timer or the event that called it.
LEMMA KeptReconnect ==
  ASSUME Inv, Kept, KeptAfter, TimerFires \/ LossEvent
  PROVE  Kept' /\ KeptAfter'
<1> USE InvParts
<1>1. PICK n \in Nat : Reconnect(n)
  <2>1. CASE TimerFires
    <3>1. timers - 1 \in Nat
      BY <2>1 DEF TimerFires
    <3> QED
      BY <2>1, <3>1 DEF TimerFires
  <2> QED
    BY <2>1 DEF LossEvent
<1>2. CASE Connects
  <2> DEFINE f == Calling("features", None, FALSE, {})
  <2>1. frames' = Append(frames, f) /\ UNCHANGED data
    BY <1>1, <1>2 DEF Reconnect, server
  <2>2. f \in Frame /\ f.kind = "features"
    BY Callings DEF GoodFrame, Calling
  <2>3. frames \in Seq(Frame)
    BY DEF GoodFrames
  <2> HIDE DEF f
  <2>4. \A m \in bindings' : Pursues(f, m)
    BY <2>2 DEF Pursues
  <2> QED
    BY <2>1, <2>2, <2>3, <2>4, KeptPushed
<1>3. CASE ~Connects
  <2>1. timers' = n + 1
    BY <1>1, <1>3 DEF Reconnect, Retry
  <2>2. timers' > 0
    BY <2>1
  <2> QED
    BY <2>2, RetriesKeep DEF Retries
<1> QED
  BY <1>2, <1>3

\* A loss that is reported is an event.
LEMMA KeptLost == ASSUME Inv, ~Stale, Lost PROVE Kept' /\ KeptAfter'
<1>1. lost \in Nat /\ lost' = lost + 1
  BY InvParts DEF Lost
<1>2. lost' > 0
  BY <1>1
<1> QED
  BY <1>2, RetriesKeep DEF Retries

\* What the application binds is pursued from then on; after release nothing is
\* remembered.
LEMMA KeptBind ==
  ASSUME Inv, Kept, KeptAfter, NEW n \in Name, Bind(n)
  PROVE  Kept' /\ KeptAfter'
<1>1. CASE Connects
  <2> DEFINE f == Calling("bind", n, FALSE, {})
  <2>1. /\ frames' = Append(frames, f) /\ UNCHANGED <<data, timers, lost>> /\ Connected
        /\ bindings' = bindings \cup {n}
    BY <1>1 DEF Bind, server
  <2>2. f \in Frame /\ f.kind = "bind" /\ f.name = n /\ f.answer = "wait"
    BY Callings DEF GoodFrame, Calling
  <2>3. frames \in Seq(Frame) /\ (Retries' <=> Retries)
    BY <2>1, InvParts, RetriesConnected DEF GoodFrames
  <2> HIDE DEF f
  <2>4. \A m \in bindings' : Pursues(f, m) \/ Retries' \/ (m \in bindings /\ ~Retries)
    BY <2>1, <2>2, <2>3 DEF Pursues
  <2> QED
    BY <2>1, <2>2, <2>3, <2>4, KeptPushed
<1>2. CASE ~Connects
  BY <1>2, RetriesStarted, RetriesKeep DEF Bind
<1> QED
  BY <1>1, <1>2

LEMMA KeptRelease ==
  ASSUME Inv, Kept, KeptAfter, Release
  PROVE  Kept' /\ KeptAfter'
<1>1. bindings' = {} /\ UNCHANGED data
  BY DEF Release, server
<1>2. CASE timer /\ Connects
  <2> DEFINE f == Calling("release", None, FALSE, {})
  <2>1. frames' = Append(frames, f)
    BY <1>2 DEF Release
  <2>2. f \in Frame
    BY Callings DEF GoodFrame
  <2>3. frames \in Seq(Frame)
    BY InvParts DEF GoodFrames
  <2> HIDE DEF f
  <2> QED
    BY <1>1, <2>1, <2>2, <2>3, KeptPushed
<1>3. CASE ~(timer /\ Connects)
  BY <1>1, <1>3, KeptSame DEF Release
<1> QED
  BY <1>2, <1>3

\* A search leaves the names alone.
LEMMA KeptSearch ==
  ASSUME Inv, Kept, KeptAfter, Search
  PROVE  Kept' /\ KeptAfter'
<1>1. UNCHANGED <<data, bindings, lost, frames>>
  BY DEF Search, server
<1>2. CASE Connects
  <2>1. Retries' <=> Retries
    BY <1>1, <1>2, RetriesConnected DEF Search
  <2> QED
    BY <1>1, <2>1, KeptSame, RetriesKeep
<1>3. CASE ~Connects
  BY <1>3, RetriesStarted, RetriesKeep DEF Search
<1> QED
  BY <1>2, <1>3

\* A restoration without names left pursues none: it stands for a call that returns
\* without another in its place.
LEMMA NothingLeft ==
  /\ Rebinding({}) \in Frame /\ Rebinding({}).kind # "release"
  /\ \A n : ~Pursues(Rebinding({}), n)
<1>1. GoodFrame(Rebinding({})) /\ Rebinding({}).kind = "rebind" /\ Rebinding({}).rest = {}
  BY Frames2
<1> QED
  BY <1>1 DEF GoodFrame, Pursues

\* A call of the application returns: its name is bound, or forgotten.
LEMMA KeptCallEnds ==
  ASSUME Inv, InOrder, Kept, CallEnds
  PROVE  Kept' /\ KeptAfter'
<1>1. /\ frames # <<>> /\ Top.answer # "wait" /\ Top.kind \in {"bind", "release"} /\ ~Top.restoring
      /\ frames' = Popped
      /\ bindings' = IF Top.kind = "bind" /\ Top.answer # "ok" THEN bindings \ {Top.name} ELSE bindings
      /\ UNCHANGED <<data, timers, lost, conn>>
  BY DEF CallEnds, server
<1>2. Top.rest = {}
  BY <1>1, TopIsFrame DEF Inv, GoodFrame
<1>3. (Retries' <=> Retries) /\ bindings' \subseteq Name
  BY <1>1, InvParts, RetriesConnected
<1>4. ASSUME NEW n \in bindings' PROVE n \in bindings /\ ~Pursues(Top, n)
  BY <1>1, <1>2, <1>4 DEF Pursues
<1>5. \A n \in bindings' :
        Pursues(Rebinding({}), n) \/ Retries' \/ (n \in bindings /\ ~Retries /\ ~Pursues(Top, n))
  BY <1>3, <1>4
<1> QED
  BY <1>1, <1>3, <1>5, NothingLeft, KeptReturned

\* Reconnect returns: everything is left to do, or there is another timer.
LEMMA KeptFeatures ==
  ASSUME Inv, InOrder, Kept, FeaturesAnswered
  PROVE  Kept' /\ KeptAfter'
<1>1. CASE Top.answer = "ok"
  <2>1. /\ frames # <<>> /\ frames' = Append(Popped, Rebinding(bindings))
        /\ UNCHANGED <<data, bindings>> /\ bindings \subseteq Name
    BY <1>1, InvParts DEF FeaturesAnswered, server
  <2> DEFINE g == Rebinding(bindings)
  <2>2. g \in Frame /\ g.kind = "rebind" /\ g.rest = bindings
    BY <2>1, Frames2 DEF GoodFrame
  <2>3. frames' = Append(Popped, g)
    BY <2>1
  <2> HIDE DEF g
  <2>4. \A n \in bindings' : Pursues(g, n)
    BY <2>1, <2>2 DEF Pursues
  <2> QED
    BY <1>1, <2>1, <2>2, <2>3, <2>4, KeptReturned
<1>2. CASE Top.answer # "ok"
  BY <1>2, RetriesStarted, RetriesKeep DEF FeaturesAnswered
<1> QED
  BY <1>1, <1>2

\* A restoration hands what is left to the call of the next name.
LEMMA KeptRebindNext ==
  ASSUME Inv, InOrder, Kept, NEW n \in Name, RebindNext(n)
  PROVE  Kept' /\ KeptAfter'
<1>1. /\ frames # <<>> /\ Top.kind = "rebind" /\ bindings' = bindings \cup {n}
      /\ UNCHANGED <<data, lost>>
  BY DEF RebindNext, server
<1>2. GoodFrame(Top) /\ Top.rest \subseteq Name
  BY <1>1, TopIsFrame DEF Inv, Frame
<1>3. CASE Connects
  <2> DEFINE R == Top.rest \ {n}
             g == Calling("bind", n, TRUE, R)
  <2>1. R \in SUBSET Name /\ \A m \in Top.rest : m = n \/ m \in R
    BY <1>2
  <2>2. frames' = Append(Popped, g) /\ UNCHANGED timers /\ Connected
    BY <1>3 DEF RebindNext
  <2> HIDE DEF R
  <2>3. GoodFrame(g) /\ g.kind = "bind" /\ g.name = n /\ g.rest = R /\ g.answer = "wait"
    <3>1. GoodFrame(g)
      BY <2>1, Frames1
    <3> QED
      BY <3>1 DEF Calling
  <2> HIDE DEF g
  <2>4. g \in Frame /\ g.kind # "release"
    BY <2>3 DEF GoodFrame
  <2>5. (Retries' <=> Retries) /\ bindings' \subseteq Name
    BY <1>1, <2>2, InvParts, RetriesConnected
  <2>6. \A m \in bindings' :
          Pursues(g, m) \/ Retries' \/ (m \in bindings /\ ~Retries /\ ~Pursues(Top, m))
    BY <1>1, <2>1, <2>3, <2>5 DEF Pursues
  <2>7. Top.answer # "wait"
    BY <1>1, <1>2 DEF GoodFrame
  <2> QED
    BY <1>1, <2>2, <2>4, <2>5, <2>6, <2>7, KeptReturned
<1>4. CASE ~Connects
  BY <1>4, RetriesStarted, RetriesKeep DEF RebindNext
<1> QED
  BY <1>3, <1>4

\* The call of a name returns what is left to the restoration, and its name is bound
\* or forgotten.
LEMMA KeptRebindAnswered ==
  ASSUME Inv, InOrder, Kept, RebindAnswered, ~broken'
  PROVE  Kept' /\ KeptAfter'
<1> DEFINE g == Rebinding(Top.rest)
<1>1. /\ frames # <<>> /\ Top.kind = "bind" /\ Top.answer # "wait"
      /\ bindings' = IF Top.answer = "ok" THEN bindings ELSE bindings \ {Top.name}
      /\ UNCHANGED <<data, timers, lost, conn>>
  BY DEF RebindAnswered, server
<1>2. frames' = Append(Popped, g)
  BY DEF RebindAnswered
<1>3. Top.rest \subseteq Name
  BY <1>1, TopIsFrame DEF Inv, Frame
<1>4. g \in Frame /\ g.kind = "rebind" /\ g.rest = Top.rest
  BY <1>3, Frames2 DEF GoodFrame
<1> HIDE DEF g
<1>5. (Retries' <=> Retries) /\ bindings' \subseteq Name
  BY <1>1, InvParts, RetriesConnected
<1>6. ASSUME NEW n \in bindings', Pursues(Top, n) PROVE Pursues(g, n)
  <2>1. n \in Top.rest
    BY <1>1, <1>6 DEF Pursues
  <2> QED
    BY <1>4, <2>1 DEF Pursues
<1>7. bindings' \subseteq bindings
  BY <1>1
<1>8. \A n \in bindings' :
        Pursues(g, n) \/ Retries' \/ (n \in bindings /\ ~Retries /\ ~Pursues(Top, n))
  BY <1>5, <1>6, <1>7
<1> QED
  BY <1>1, <1>2, <1>4, <1>5, <1>8, KeptReturned

\* A restoration ends when nothing is left.
LEMMA KeptRebindEnds ==
  ASSUME Inv, InOrder, Kept, RebindEnds
  PROVE  Kept' /\ KeptAfter'
<1>1. /\ frames # <<>> /\ Top.kind = "rebind" /\ Top.rest = {} /\ frames' = Popped
      /\ UNCHANGED <<data, bindings, lost>> /\ bindings \subseteq Name
  BY InvParts DEF RebindEnds, server
<1>2. Top.answer # "wait" /\ \A n \in Name : ~Pursues(Top, n)
  BY <1>1, TopIsFrame DEF Inv, GoodFrame, Pursues
<1>3. CASE UNCHANGED timers /\ (Connected \/ UNCHANGED conn)
  <2>1. Retries' <=> Retries
    BY <1>1, <1>3, RetriesConnected
  <2>2. \A n \in bindings' :
          Pursues(Rebinding({}), n) \/ Retries' \/ (n \in bindings /\ ~Retries /\ ~Pursues(Top, n))
    BY <1>1, <1>2, <2>1
  <2> QED
    BY <1>1, <1>2, <2>2, NothingLeft, KeptReturned
<1>4. CASE StartReconnect
  BY <1>4, RetriesStarted, RetriesKeep
<1> QED
  BY <1>3, <1>4 DEF RebindEnds

\* A destroyed receiver stays in the table, and what was broken off stays so.
LEMMA CalmBefore == ASSUME [AutoNext]_aVars, Calm' PROVE Calm
<1>1. CASE UNCHANGED <<search, broken>>
  BY <1>1 DEF Calm, Stale
<1>2. CASE Serve \/ Break \/ ServerNotices \/ ServerDie \/ ServerStart \/ \E n \in Name : RivalActs(n)
  BY <1>1, <1>2 DEF Serve, Break, ServerNotices, ServerDie, ServerStart, RivalActs, history
<1>3. CASE TimerFires \/ LossEvent \/ Lost
  BY <1>1, <1>3 DEF TimerFires, LossEvent, Reconnect, Lost, history
<1>4. CASE Release \/ \E n \in Name : Bind(n)
  BY <1>1, <1>4 DEF Release, Bind
<1>5. CASE CallEnds \/ FeaturesAnswered \/ RebindEnds
  BY <1>1, <1>5 DEF CallEnds, FeaturesAnswered, RebindEnds, history
<1>6. CASE \E n \in Name : RebindNext(n)
  BY <1>1, <1>6 DEF RebindNext, history
<1>7. CASE RebindAnswered
  BY <1>7 DEF RebindAnswered, Calm, Stale
<1>8. CASE Search \/ SearchEnds
  <2>1. broken' = broken /\ search \in {"none", "live"}
    BY <1>8 DEF Search, SearchEnds, history
  <2> QED
    BY <2>1 DEF Calm, Stale
<1>9. CASE UNCHANGED aVars
  BY <1>1, <1>9 DEF aVars, history
<1> QED
  BY <1>2, <1>3, <1>4, <1>5, <1>6, <1>7, <1>8, <1>9 DEF AutoNext

LEMMA KeptNext ==
  ASSUME Inv, IInv, [AutoNext]_aVars, Calm'
  PROVE  Kept' /\ KeptAfter'
<1>1. ~Stale /\ ~broken' /\ InOrder /\ Kept /\ KeptAfter
  BY CalmBefore DEF IInv, Calm
<1>2. CASE Serve
  BY <1>1, <1>2, KeptServe
<1>3. CASE \/ \E n \in Name : RivalActs(n)
           \/ Break \/ ServerNotices \/ ServerDie \/ ServerStart
  BY <1>1, <1>3, KeptOutside
<1>4. CASE TimerFires \/ LossEvent
  BY <1>1, <1>4, KeptReconnect
<1>5. CASE Lost
  BY <1>1, <1>5, KeptLost
<1>6. CASE Release \/ \E n \in Name : Bind(n)
  BY <1>1, <1>6, KeptRelease, KeptBind
<1>7. CASE CallEnds
  BY <1>1, <1>7, KeptCallEnds
<1>8. CASE FeaturesAnswered
  BY <1>1, <1>8, KeptFeatures
<1>9. CASE RebindAnswered \/ RebindEnds \/ \E n \in Name : RebindNext(n)
  BY <1>1, <1>9, KeptRebindAnswered, KeptRebindEnds, KeptRebindNext
<1>10. CASE Search
  BY <1>1, <1>10, KeptSearch
<1>11. ~SearchEnds
  BY DEF SearchEnds, Calm, Stale
<1>12. CASE UNCHANGED aVars
  BY <1>1, <1>12 DEF aVars, server, Kept, KeptAfter, Retries
<1> QED
  BY <1>2, <1>3, <1>4, <1>5, <1>6, <1>7, <1>8, <1>9, <1>10, <1>11, <1>12 DEF AutoNext

\* "This means that the bound names [...] are remembered client-side and automatically
\* re-entered into the server when the connection comes back after its loss": unless a
\* search has left a destroyed receiver behind, or a restoration was broken off, every
\* name remembered is bound, or a timer, an event or a call under way will bind it.
\* It rests on the order of the server's answers: what a release unbinds that was
\* called before other names were bound is pursued by the calls after it.
THEOREM RememberedIsPursued == AutoSpec => []PursuedOtherwise
<1>1. AutoInit => Inv /\ IInv
  <2> SUFFICES ASSUME AutoInit PROVE IInv
    BY InvInit
  <2>1. frames = <<>> /\ bindings = {} /\ \A n \in Name : data[n] = None
    BY DEF AutoInit
  <2>2. InOrder /\ Kept /\ KeptAfter
    BY <2>1 DEF InOrder, Kept, KeptAfter
  <2>3. MineIsUp
    BY <2>1, OwnerAssumption DEF MineIsUp
  <2> QED
    BY <2>2, <2>3 DEF IInv
<1>2. Inv /\ IInv /\ [AutoNext]_aVars => Inv' /\ IInv'
  <2> SUFFICES ASSUME Inv, IInv, [AutoNext]_aVars PROVE IInv'
    BY InvNext
  <2>1. InOrder'
    BY OrderNext DEF IInv
  <2>2. MineIsUp'
    BY MineNext DEF IInv
  <2>3. Calm' => Kept' /\ KeptAfter'
    BY KeptNext
  <2> QED
    BY <2>1, <2>2, <2>3 DEF IInv
<1>3. Inv /\ IInv => PursuedOtherwise
  <2> SUFFICES ASSUME IInv, Calm PROVE Pursued
    BY DEF PursuedOtherwise, Calm
  <2>1. ASSUME NEW n \in bindings, data[n] # Me PROVE IsPursued(n)
    <3>1. Retries \/ \E i \in DOMAIN frames : Pursues(frames[i], n)
      BY <2>1 DEF IInv, Kept
    <3> QED
      BY <3>1 DEF Retries, Pursues, IsPursued
  <2> QED
    BY <2>1 DEF Pursued
<1> QED
  BY <1>1, <1>2, <1>3, PTL DEF AutoSpec
=============================================================================

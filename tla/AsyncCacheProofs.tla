-------------------------- MODULE AsyncCacheProofs --------------------------
(***************************************************************************)
(* Proofs about AsyncCache: the shape of its state, that no request is     *)
(* forgotten, that each is answered once, in order and with what the cache *)
(* was told, and that the provider is asked once, for any keys, values and *)
(* number of requests.                                                     *)
(***************************************************************************)
EXTENDS AsyncCache, TLAPS

USE MaxReqAssumption

\* What a request waits for, and what is entered in the idle queue for it.
LEMMA DoneIsEvent ==
  ASSUME NEW r \in Req, NEW k \in Key, NEW v \in Value \cup {Hole}
  PROVE  Done(r, k, v) \in Event
BY DEF Done, Event

LEMMA QuestionIsEvent ==
  ASSUME NEW k \in Key
  PROVE  Question(k) \in Event
BY DEF Question, Event

\* The callbacks Notify queues.
LEMMA NotifyEvents ==
  ASSUME NEW k \in Key, NEW v \in Value \cup {Hole}, waiting[k] \in Seq(Req)
  PROVE  [i \in 1 .. Len(waiting[k]) |-> Done(waiting[k][i], k, v)] \in Seq(Event)
<1>1. \A i \in 1 .. Len(waiting[k]) : Done(waiting[k][i], k, v) \in Event
  BY DoneIsEvent
<1>2. Len(waiting[k]) \in Nat
  OBVIOUS
<1> QED BY <1>1, <1>2

\* What Tell does to the state: to the tables and the queue it is a value or a
\* hole that is known already, or one that is entered and notified.
LEMMA TellTypes ==
  ASSUME TypeOK, NEW k \in Key, Tell(k)
  PROVE  /\ waiting' \in [Key -> Seq(Req)]
         /\ hit' \in [Key -> Value \cup {Unknown}]
         /\ miss' \subseteq Key
         /\ idle' \in Seq(Event)
         /\ latest' \in [Key -> Value \cup {Hole, Unknown}]
         /\ seen' \in [Req -> SUBSET (Value \cup {Hole, Unknown})]
<1>1. ASSUME NEW v \in Value \cup {Hole}, Notify(k, v)
      PROVE  waiting' \in [Key -> Seq(Req)] /\ idle' \in Seq(Event)
  <2>1. [i \in 1 .. Len(waiting[k]) |-> Done(waiting[k][i], k, v)] \in Seq(Event)
    BY NotifyEvents DEF TypeOK
  <2>2. idle' \in Seq(Event)
    BY <1>1, <2>1 DEF Notify, TypeOK
  <2> QED BY <1>1, <2>2 DEF Notify, TypeOK
<1>2. ASSUME NEW v \in Value \cup {Hole}, Told(k, v)
      PROVE  /\ latest' \in [Key -> Value \cup {Hole, Unknown}]
             /\ seen' \in [Req -> SUBSET (Value \cup {Hole, Unknown})]
  BY <1>2 DEF Told, TypeOK
<1>3. ASSUME NEW v \in Value, SetMethod(k, v)
      PROVE  /\ waiting' \in [Key -> Seq(Req)] /\ hit' \in [Key -> Value \cup {Unknown}]
             /\ miss' \subseteq Key /\ idle' \in Seq(Event)
  <2>1. CASE hit[k] = v
    BY <1>3, <2>1 DEF SetMethod, TypeOK, tables
  <2>2. CASE hit[k] # v
    BY <1>3, <1>1, <2>2 DEF SetMethod, TypeOK
  <2> QED BY <2>1, <2>2
<1>4. CASE UnsetMethod(k)
  BY <1>4, <1>1, <1>2 DEF UnsetMethod, TypeOK
<1>5. CASE \E v \in Value : SetMethod(k, v)
  BY <1>5, <1>2, <1>3 DEF SetMethod
<1> QED BY <1>4, <1>5 DEF Tell

LEMMA KnownValue ==
  ASSUME TypeOK, NEW k \in Key, Known(k) # Unknown
  PROVE  Known(k) \in Value \cup {Hole}
BY DEF Known, TypeOK

LEMMA TypeInductive ==
  ASSUME TypeOK, [Next]_vars
  PROVE  TypeOK'
<1>1. CASE UNCHANGED vars
  BY <1>1 DEF vars, tables, TypeOK
<1>2. CASE Idle
  <2>1. idle' \in Seq(Event) /\ Head(idle) \in Event
    BY <1>2 DEF Idle, TypeOK
  <2>2. CASE Head(idle).type = "question" /\ asked' = [asked EXCEPT ![Head(idle).key] = @ + 1]
                /\ UNCHANGED answers
    <3>1. Head(idle).key \in Key
      BY <2>1, <2>2 DEF Event
    <3>2. asked' \in [Key -> Nat]
      BY <2>2, <3>1 DEF TypeOK
    <3> QED BY <1>2, <2>1, <2>2, <3>2 DEF Idle, TypeOK, tables
  <2>3. CASE /\ Head(idle).type = "done"
             /\ answers' = [answers EXCEPT ![Head(idle).req] = Append(@, Head(idle).value)]
             /\ UNCHANGED asked
    <3>1. Head(idle).req \in Req /\ Head(idle).value \in Value \cup {Hole}
      BY <2>1, <2>3 DEF Event
    <3>2. answers' \in [Req -> Seq(Value \cup {Hole})]
      BY <2>3, <3>1 DEF TypeOK
    <3> QED BY <1>2, <2>1, <2>3, <3>2 DEF Idle, TypeOK, tables
  <2> QED BY <1>2, <2>2, <2>3 DEF Idle
<1>3. ASSUME NEW K \in SUBSET Key, Clear(K)
      PROVE  TypeOK'
  BY <1>3 DEF Clear, TypeOK
<1>4. ASSUME NEW k \in Key, Fill(k)
      PROVE  TypeOK'
  BY <1>4, TellTypes DEF Fill, TypeOK
<1>5. ASSUME NEW k \in Key, Answer(k)
      PROVE  TypeOK'
  <2>1. asked' \in [Key -> Nat]
    BY <1>5 DEF Answer, TypeOK
  <2> QED BY <1>5, <2>1, TellTypes DEF Answer, TypeOK
<1>6. ASSUME NEW k \in Key, Get(k)
      PROVE  TypeOK'
  <2> DEFINE r == Len(made) + 1
  <2>1. /\ r \in Req
        /\ made' \in Seq(Key) /\ Len(made') <= MaxReq
        /\ seen' \in [Req -> SUBSET (Value \cup {Hole, Unknown})]
        /\ UNCHANGED <<full, hit, miss, asked, latest, prefilled>>
    BY <1>6 DEF Get, TypeOK, Req
  <2>2. CASE Known(k) # Unknown /\ Direct
    <3>1. answers' = [answers EXCEPT ![r] = Append(@, Known(k))]
          /\ UNCHANGED <<waiting, idle>>
      BY <1>6, <2>2 DEF Get
    <3> QED BY <2>1, <2>2, <3>1, KnownValue DEF TypeOK
  <2>3. CASE Known(k) # Unknown /\ ~Direct
    <3>1. idle' = Append(idle, Done(r, k, Known(k))) /\ UNCHANGED <<waiting, answers>>
      BY <1>6, <2>3 DEF Get
    <3>2. Done(r, k, Known(k)) \in Event
      BY <2>1, <2>3, KnownValue, DoneIsEvent
    <3> QED BY <2>1, <3>1, <3>2 DEF TypeOK
  <2>4. CASE Known(k) = Unknown
    <3>1. /\ waiting' = [waiting EXCEPT ![k] = Append(@, r)]
          /\ idle' = IF FirstToWait(k) THEN Append(idle, Question(k)) ELSE idle
          /\ UNCHANGED answers
      BY <1>6, <2>4 DEF Get
    <3>2. idle' \in Seq(Event)
      BY <3>1, QuestionIsEvent DEF TypeOK
    <3>3. waiting' \in [Key -> Seq(Req)]
      BY <2>1, <3>1 DEF TypeOK
    <3> QED BY <2>1, <3>1, <3>2, <3>3 DEF TypeOK
  <2> QED BY <2>2, <2>3, <2>4
<1> QED BY <1>1, <1>2, <1>3, <1>4, <1>5, <1>6 DEF Next

LEMMA TypeInit == Init => TypeOK
BY DEF Init, TypeOK, Req

\* The state keeps its shape.
THEOREM CacheTypeCorrect == Spec => []TypeOK
BY TypeInit, TypeInductive, PTL DEF Spec

---------------------------------------------------------------------------
(***************************************************************************)
(* No request is forgotten.                                                *)
(***************************************************************************)

\* What is queued stays queued when more is.
LEMMA QueuedAppend ==
  ASSUME idle \in Seq(Event), NEW s \in Seq(Event), idle' = idle \o s,
         NEW e, Queued(e)
  PROVE  Queued(e)'
BY DEF Queued

LEMMA QueuedAppendOne ==
  ASSUME idle \in Seq(Event), NEW e, idle' = Append(idle, e)
  PROVE  Queued(e)' /\ \A f : Queued(f) => Queued(f)'
<1>1. /\ DOMAIN idle = 1 .. Len(idle) /\ DOMAIN idle' = 1 .. Len(idle) + 1
      /\ Len(idle) \in Nat
      /\ idle'[Len(idle) + 1] = e
      /\ \A i \in 1 .. Len(idle) : idle'[i] = idle[i]
  OBVIOUS
<1>2. Len(idle) + 1 \in DOMAIN idle'
  BY <1>1
<1>3. Queued(e)'
  BY <1>1, <1>2 DEF Queued
<1>4. ASSUME NEW f, Queued(f)
      PROVE  Queued(f)'
  <2>1. PICK i \in DOMAIN idle : idle[i] = f
    BY <1>4 DEF Queued
  <2>2. i \in DOMAIN idle' /\ idle'[i] = f
    BY <1>1, <2>1
  <2> QED BY <2>2 DEF Queued
<1> QED BY <1>3, <1>4

\* Telling the cache about k leaves the requests for other keys as they are, and
\* nobody waiting for k.
LEMMA TellNotifies ==
  ASSUME TypeOK, NoForgottenRequest, NEW k \in Key, Tell(k)
  PROVE  /\ waiting'[k] = <<>>
         /\ \A j \in Key \ {k} : waiting'[j] = waiting[j] /\ Known(j)' = Known(j)
         /\ \A j \in Key : Queued(Question(j)) => Queued(Question(j))'
<1>1. ASSUME NEW v \in Value \cup {Hole}, Notify(k, v)
      PROVE  /\ waiting'[k] = <<>>
             /\ \A j \in Key \ {k} : waiting'[j] = waiting[j]
             /\ \A j \in Key : Queued(Question(j)) => Queued(Question(j))'
  <2>1. [i \in 1 .. Len(waiting[k]) |-> Done(waiting[k][i], k, v)] \in Seq(Event)
    BY NotifyEvents DEF TypeOK
  <2>2. \A j \in Key : Queued(Question(j)) => Queued(Question(j))'
    BY <1>1, <2>1, QueuedAppend DEF Notify, TypeOK
  <2> QED BY <1>1, <2>2 DEF Notify, TypeOK
<1>2. ASSUME NEW v \in Value, SetMethod(k, v)
      PROVE  /\ waiting'[k] = <<>>
             /\ \A j \in Key \ {k} : waiting'[j] = waiting[j] /\ Known(j)' = Known(j)
             /\ \A j \in Key : Queued(Question(j)) => Queued(Question(j))'
  <2>1. CASE hit[k] = v
    <3>1. Known(k) # Unknown
      BY <2>1, ValueAssumption DEF Known
    <3>2. waiting[k] = <<>>
      BY <3>1 DEF NoForgottenRequest
    <3> QED BY <1>2, <2>1, <3>2 DEF SetMethod, tables, Known, Queued
  <2>2. CASE hit[k] # v
    <3>1. \A j \in Key \ {k} : Known(j)' = Known(j)
      BY <1>2, <2>2 DEF SetMethod, Known, TypeOK
    <3> QED BY <1>1, <1>2, <2>2, <3>1 DEF SetMethod
  <2> QED BY <2>1, <2>2
<1>3. CASE UnsetMethod(k)
  <2>1. \A j \in Key \ {k} : Known(j)' = Known(j)
    BY <1>3 DEF UnsetMethod, Known, TypeOK
  <2> QED BY <1>1, <1>3, <2>1 DEF UnsetMethod
<1> QED BY <1>2, <1>3 DEF Tell

LEMMA NoForgottenInductive ==
  ASSUME TypeOK, NoForgottenRequest, [Next]_vars
  PROVE  NoForgottenRequest'
<1>1. CASE UNCHANGED vars
  BY <1>1 DEF vars, tables, NoForgottenRequest, Known, Queued
<1>2. CASE Idle
  <2> SUFFICES ASSUME NEW k \in Key, waiting[k] # <<>>
               PROVE  Queued(Question(k))' \/ asked'[k] > 0
    BY <1>2 DEF Idle, tables, NoForgottenRequest, Known
  <2>1. Queued(Question(k)) \/ asked[k] > 0
    BY DEF NoForgottenRequest
  <2>2. asked'[k] \in Nat /\ asked[k] \in Nat /\ asked'[k] >= asked[k]
    <3>1. asked' = asked \/ asked' = [asked EXCEPT ![Head(idle).key] = @ + 1]
      BY <1>2 DEF Idle
    <3>2. asked[k] \in Nat
      BY DEF TypeOK
    <3>3. CASE asked' = [asked EXCEPT ![Head(idle).key] = @ + 1]
      <4>1. asked'[k] = IF k = Head(idle).key THEN asked[k] + 1 ELSE asked[k]
        BY <3>3 DEF TypeOK
      <4> QED BY <3>2, <4>1
    <3> QED BY <3>1, <3>2, <3>3
  <2>3. CASE asked[k] > 0
    BY <2>2, <2>3
  <2>4. CASE Head(idle) = Question(k)
    <3>1. Head(idle).type = "question" /\ Head(idle).key = k
      BY <2>4 DEF Question
    <3>2. asked' = [asked EXCEPT ![k] = @ + 1]
      BY <1>2, <3>1 DEF Idle
    <3>3. asked[k] \in Nat /\ asked'[k] = asked[k] + 1
      BY <3>2 DEF TypeOK
    <3> QED BY <3>3
  <2>5. CASE Queued(Question(k)) /\ Head(idle) # Question(k)
    <3>1. PICK i \in DOMAIN idle : idle[i] = Question(k)
      BY <2>5 DEF Queued
    <3>2. i # 1
      BY <1>2, <2>5, <3>1 DEF Idle, TypeOK
    <3>3. i - 1 \in DOMAIN Tail(idle) /\ Tail(idle)[i - 1] = Question(k)
      BY <1>2, <3>1, <3>2 DEF Idle, TypeOK
    <3> QED BY <1>2, <3>3 DEF Idle, Queued
  <2> QED BY <2>1, <2>3, <2>4, <2>5
<1>3. ASSUME NEW K \in SUBSET Key, Clear(K)
      PROVE  NoForgottenRequest'
  BY <1>3 DEF Clear, NoForgottenRequest, Known, Queued, TypeOK
<1>4. ASSUME NEW k \in Key, Fill(k)
      PROVE  NoForgottenRequest'
  BY <1>4, TellNotifies DEF Fill, NoForgottenRequest
<1>5. ASSUME NEW k \in Key, Answer(k)
      PROVE  NoForgottenRequest'
  <2>1. \A j \in Key \ {k} : asked'[j] = asked[j]
    BY <1>5 DEF Answer, TypeOK
  <2> QED BY <1>5, <2>1, TellNotifies DEF Answer, NoForgottenRequest
<1>6. ASSUME NEW k \in Key, Get(k)
      PROVE  NoForgottenRequest'
  <2>1. \A j \in Key : Known(j)' = Known(j) /\ asked'[j] = asked[j]
    BY <1>6 DEF Get, Known
  <2>2. CASE Known(k) # Unknown /\ Direct
    BY <1>6, <2>1, <2>2 DEF Get, NoForgottenRequest, Queued
  <2>3. CASE Known(k) # Unknown /\ ~Direct
    <3> DEFINE e == Done(Len(made) + 1, k, Known(k))
    <3>1. idle' = Append(idle, e) /\ UNCHANGED waiting
      BY <1>6, <2>3 DEF Get
    <3>2. \A j \in Key : Queued(Question(j)) => Queued(Question(j))'
      BY <3>1, QueuedAppendOne DEF TypeOK
    <3> QED BY <2>1, <3>1, <3>2 DEF NoForgottenRequest
  <2>4. CASE Known(k) = Unknown
    <3>1. /\ waiting' = [waiting EXCEPT ![k] = Append(@, Len(made) + 1)]
          /\ idle' = IF FirstToWait(k) THEN Append(idle, Question(k)) ELSE idle
      BY <1>6, <2>4 DEF Get
    <3>2. \A j \in Key : Queued(Question(j)) => Queued(Question(j))'
      <4>1. CASE FirstToWait(k)
        BY <3>1, <4>1, QueuedAppendOne DEF TypeOK
      <4>2. CASE ~FirstToWait(k)
        BY <3>1, <4>2 DEF Queued
      <4> QED BY <4>1, <4>2
    <3>3. CASE FirstToWait(k)
      <4>1. Queued(Question(k))'
        BY <3>1, <3>3, QueuedAppendOne DEF TypeOK
      <4> QED BY <2>1, <2>4, <3>1, <3>2, <4>1 DEF NoForgottenRequest, TypeOK
    <3>4. CASE ~FirstToWait(k)
      BY <2>1, <2>4, <3>1, <3>2, <3>4 DEF NoForgottenRequest, TypeOK, FirstToWait
    <3> QED BY <3>3, <3>4
  <2> QED BY <2>2, <2>3, <2>4
<1> QED BY <1>1, <1>2, <1>3, <1>4, <1>5, <1>6 DEF Next

LEMMA NoForgottenInit == Init => NoForgottenRequest
BY DEF Init, NoForgottenRequest

\* Whoever waits for a key has a question for it on its way, whatever fills,
\* clears, gets and answers came in between.
THEOREM NobodyIsForgotten == Spec => []NoForgottenRequest
BY TypeInit, TypeInductive, NoForgottenInit, NoForgottenInductive, PTL DEF Spec

---------------------------------------------------------------------------
(***************************************************************************)
(* An answer is something the cache was told.  What the tables say of a    *)
(* key is what the cache was told last, no key is both a value and a hole, *)
(* and whoever waits for a key made a get of it; so what is queued for a   *)
(* request was told since the request, and more is only added to that.     *)
(***************************************************************************)
TablesAreLatest ==
  \A k \in Key : latest[k] = Known(k) /\ (k \in miss => hit[k] = Unknown)

WaitersAsked ==
  \A k \in Key : \A i \in DOMAIN waiting[k] :
    waiting[k][i] \in DOMAIN made /\ made[waiting[k][i]] = k

QueuedWasKnown ==
  \A i \in DOMAIN idle : idle[i].type = "done" => idle[i].value \in seen[idle[i].req]

NothingSeenBefore == \A r \in Req \ DOMAIN made : seen[r] = {}

KnownInv == TablesAreLatest /\ WaitersAsked /\ QueuedWasKnown /\ NothingSeenBefore /\ AnswerWasKnown

\* What was seen stays seen, so what was known stays known.
LEMMA SeenGrows ==
  ASSUME AnswerWasKnown, answers' = answers, \A r \in Req : seen[r] \subseteq seen'[r]
  PROVE  AnswerWasKnown'
BY DEF AnswerWasKnown

LEMMA QueuedGrows ==
  ASSUME TypeOK, QueuedWasKnown, NEW q \in Seq(Event), idle' = idle \o q,
         \A r \in Req : seen[r] \subseteq seen'[r],
         \A i \in DOMAIN q : q[i].type = "done" => q[i].value \in seen'[q[i].req]
  PROVE  QueuedWasKnown'
<1> SUFFICES ASSUME NEW i \in DOMAIN (idle \o q), (idle \o q)[i].type = "done"
             PROVE  (idle \o q)[i].value \in seen'[(idle \o q)[i].req]
  BY DEF QueuedWasKnown
<1>1. idle \in Seq(Event) /\ Len(idle) \in Nat /\ Len(q) \in Nat
  BY DEF TypeOK
<1>2. CASE i \in 1 .. Len(idle)
  <2>1. (idle \o q)[i] = idle[i] /\ idle[i] \in Event
    BY <1>1, <1>2
  <2>2. idle[i].req \in Req
    BY <2>1 DEF Event
  <2> QED BY <1>1, <1>2, <2>1, <2>2 DEF QueuedWasKnown
<1>3. CASE i \notin 1 .. Len(idle)
  <2>1. i - Len(idle) \in DOMAIN q /\ (idle \o q)[i] = q[i - Len(idle)]
    BY <1>1, <1>3
  <2> QED BY <2>1
<1> QED BY <1>2, <1>3

LEMMA QueuedSame ==
  ASSUME TypeOK, QueuedWasKnown, idle' = idle, \A r \in Req : seen[r] \subseteq seen'[r]
  PROVE  QueuedWasKnown'
<1> SUFFICES ASSUME NEW i \in DOMAIN idle, idle[i].type = "done"
             PROVE  idle[i].value \in seen'[idle[i].req]
  BY DEF QueuedWasKnown
<1>1. idle[i] \in Event
  BY DEF TypeOK
<1>2. idle[i].req \in Req
  BY <1>1 DEF Event
<1> QED BY <1>2 DEF QueuedWasKnown

LEMMA QueuedOne ==
  ASSUME TypeOK, QueuedWasKnown, NEW e \in Event, idle' = Append(idle, e),
         \A r \in Req : seen[r] \subseteq seen'[r],
         e.type = "done" => e.value \in seen'[e.req]
  PROVE  QueuedWasKnown'
<1> DEFINE q == <<e>>
<1>1. q \in Seq(Event) /\ \A i \in DOMAIN q : q[i] = e
  OBVIOUS
<1>2. idle' = idle \o q
  BY DEF TypeOK
<1> HIDE DEF q
<1> QED BY <1>1, <1>2, QueuedGrows

\* Telling the cache about a key.
LEMMA ToldGrows ==
  ASSUME TypeOK, NEW k \in Key, NEW v, Told(k, v)
  PROVE  /\ \A r \in Req : seen[r] \subseteq seen'[r]
         /\ \A r \in Req : r \in DOMAIN made /\ made[r] = k => v \in seen'[r]
         /\ \A r \in Req \ DOMAIN made : seen'[r] = seen[r]
         /\ latest'[k] = v /\ \A j \in Key \ {k} : latest'[j] = latest[j]
BY DEF Told, TypeOK

LEMMA NotifyKnown ==
  ASSUME TypeOK, KnownInv, NEW k \in Key, NEW v \in Value \cup {Hole},
         Told(k, v), Notify(k, v), made' = made
  PROVE  WaitersAsked' /\ QueuedWasKnown'
<1> DEFINE q == [i \in 1 .. Len(waiting[k]) |-> Done(waiting[k][i], k, v)]
<1>1. q \in Seq(Event) /\ idle' = idle \o q
  BY NotifyEvents DEF Notify, TypeOK
<1>2. ASSUME NEW i \in DOMAIN q
      PROVE  q[i].value \in seen'[q[i].req]
  <2>1. q[i].value = v /\ q[i].req = waiting[k][i] /\ i \in DOMAIN waiting[k]
    BY <1>2 DEF Done, TypeOK
  <2>2. waiting[k][i] \in Req /\ waiting[k][i] \in DOMAIN made /\ made[waiting[k][i]] = k
    BY <2>1 DEF KnownInv, WaitersAsked, TypeOK
  <2> QED BY <2>1, <2>2, ToldGrows
<1> HIDE DEF q
<1>3. QueuedWasKnown'
  BY <1>1, <1>2, QueuedGrows, ToldGrows DEF KnownInv
<1>4. WaitersAsked'
  BY DEF Notify, KnownInv, WaitersAsked, TypeOK
<1> QED BY <1>3, <1>4

LEMMA TellKnown ==
  ASSUME TypeOK, KnownInv, NEW k \in Key, Tell(k), UNCHANGED <<made, answers>>
  PROVE  KnownInv'
<1>1. ASSUME NEW v \in Value, SetMethod(k, v)
      PROVE  KnownInv'
  <2>1. Told(k, v)
    BY <1>1 DEF SetMethod
  <2>2. AnswerWasKnown' /\ NothingSeenBefore'
    BY <2>1, ToldGrows, SeenGrows DEF KnownInv, NothingSeenBefore
  <2>3. CASE hit[k] = v
    <3>1. UNCHANGED <<waiting, hit, miss, idle>>
      BY <1>1, <2>3 DEF SetMethod, tables
    <3>2. WaitersAsked'
      BY <3>1 DEF KnownInv, WaitersAsked
    <3>3. QueuedWasKnown'
      BY <2>1, <3>1, ToldGrows, QueuedSame DEF KnownInv
    <3>4. TablesAreLatest'
      BY <2>1, <2>3, <3>1, ToldGrows, ValueAssumption DEF KnownInv, TablesAreLatest, Known
    <3> QED BY <2>2, <3>2, <3>3, <3>4 DEF KnownInv
  <2>4. CASE hit[k] # v
    <3>1. hit' = [hit EXCEPT ![k] = v] /\ miss' = miss \ {k} /\ Notify(k, v)
      BY <1>1, <2>4 DEF SetMethod
    <3>2. TablesAreLatest'
      BY <2>1, <3>1, ToldGrows DEF KnownInv, TablesAreLatest, Known, TypeOK
    <3> QED BY <2>1, <2>2, <3>1, <3>2, NotifyKnown DEF KnownInv
  <2> QED BY <2>3, <2>4
<1>2. CASE UnsetMethod(k)
  <2>1. /\ Told(k, Hole) /\ Notify(k, Hole)
        /\ hit' = [hit EXCEPT ![k] = Unknown] /\ miss' = miss \cup {k}
    BY <1>2 DEF UnsetMethod
  <2>2. AnswerWasKnown' /\ NothingSeenBefore'
    BY <2>1, ToldGrows, SeenGrows DEF KnownInv, NothingSeenBefore
  <2>3. TablesAreLatest'
    BY <2>1, ToldGrows DEF KnownInv, TablesAreLatest, Known, TypeOK
  <2> QED BY <2>1, <2>2, <2>3, NotifyKnown DEF KnownInv
<1> QED BY <1>1, <1>2 DEF Tell

\* A get: what is seen of a new request is what the tables say now.
LEMMA GetKnown ==
  ASSUME TypeOK, KnownInv, NEW k \in Key, Get(k)
  PROVE  KnownInv'
<1> DEFINE r == Len(made) + 1
<1>1. /\ r \in Req /\ made' = Append(made, k) /\ seen' = [seen EXCEPT ![r] = {latest[k]}]
      /\ UNCHANGED <<hit, miss, latest>>
  BY DEF Get
<1>2. /\ r \notin DOMAIN made /\ made'[r] = k /\ DOMAIN made' = DOMAIN made \cup {r}
      /\ \A i \in DOMAIN made : made'[i] = made[i]
  BY <1>1 DEF TypeOK
<1>3. seen[r] = {} /\ seen'[r] = {Known(k)} /\ \A q \in Req \ {r} : seen'[q] = seen[q]
  BY <1>1, <1>2 DEF KnownInv, NothingSeenBefore, TablesAreLatest, TypeOK
<1> HIDE DEF r
<1>4. \A q \in Req : seen[q] \subseteq seen'[q]
  BY <1>3
<1>5. NothingSeenBefore'
  BY <1>2, <1>3 DEF KnownInv, NothingSeenBefore
<1>6. TablesAreLatest'
  BY <1>1 DEF KnownInv, TablesAreLatest, Known
<1>7. CASE Known(k) # Unknown /\ Direct
  <2>1. answers' = [answers EXCEPT ![r] = Append(@, Known(k))] /\ UNCHANGED <<waiting, idle>>
    BY <1>7 DEF Get, r
  <2>2. answers[r] = <<>>
    <3>1. answers[r] \in Seq(Value \cup {Hole}) /\ \A i \in DOMAIN answers[r] : answers[r][i] \in {}
      BY <1>1, <1>3 DEF KnownInv, AnswerWasKnown, TypeOK
    <3>2. ASSUME answers[r] # <<>>
          PROVE  1 \in DOMAIN answers[r]
      BY <3>1, <3>2
    <3> QED BY <3>1, <3>2
  <2>3. AnswerWasKnown'
    <3> SUFFICES ASSUME NEW q \in Req, NEW i \in DOMAIN answers'[q]
                 PROVE  answers'[q][i] \in seen'[q]
      BY DEF AnswerWasKnown
    <3>1. CASE q = r
      <4>1. answers'[r] = <<Known(k)>>
        BY <1>1, <2>1, <2>2 DEF TypeOK
      <4> QED BY <1>3, <3>1, <4>1
    <3>2. CASE q # r
      <4>1. answers'[q] = answers[q]
        BY <1>1, <2>1, <3>2 DEF TypeOK
      <4> QED BY <1>4, <4>1 DEF KnownInv, AnswerWasKnown
    <3> QED BY <3>1, <3>2
  <2>4. WaitersAsked'
    BY <1>2, <2>1 DEF KnownInv, WaitersAsked
  <2>5. QueuedWasKnown'
    BY <1>4, <2>1, QueuedSame DEF KnownInv
  <2> QED BY <1>5, <1>6, <2>3, <2>4, <2>5 DEF KnownInv
<1>8. CASE Known(k) # Unknown /\ ~Direct
  <2>1. idle' = Append(idle, Done(r, k, Known(k))) /\ UNCHANGED <<waiting, answers>>
    BY <1>8 DEF Get, r
  <2>2. Done(r, k, Known(k)) \in Event
    BY <1>1, <1>8, KnownValue, DoneIsEvent
  <2>3. QueuedWasKnown'
    <3>1. Done(r, k, Known(k)).value \in seen'[Done(r, k, Known(k)).req]
      BY <1>3 DEF Done
    <3> QED BY <1>4, <2>1, <2>2, <3>1, QueuedOne DEF KnownInv
  <2>4. WaitersAsked'
    BY <1>2, <2>1 DEF KnownInv, WaitersAsked
  <2>5. AnswerWasKnown'
    BY <1>4, <2>1, SeenGrows DEF KnownInv
  <2> QED BY <1>5, <1>6, <2>3, <2>4, <2>5 DEF KnownInv
<1>9. CASE Known(k) = Unknown
  <2>1. /\ waiting' = [waiting EXCEPT ![k] = Append(@, r)]
        /\ idle' = IF FirstToWait(k) THEN Append(idle, Question(k)) ELSE idle
        /\ answers' = answers
    BY <1>9 DEF Get, r
  <2>2. WaitersAsked'
    <3> SUFFICES ASSUME NEW j \in Key, NEW i \in DOMAIN waiting'[j]
                 PROVE  waiting'[j][i] \in DOMAIN made' /\ made'[waiting'[j][i]] = j
      BY DEF WaitersAsked
    <3>1. CASE j # k
      BY <1>2, <2>1, <3>1 DEF KnownInv, WaitersAsked, TypeOK
    <3>2. CASE j = k
      <4>1. waiting'[k] = Append(waiting[k], r) /\ waiting[k] \in Seq(Req)
        BY <2>1 DEF TypeOK
      <4>2. CASE i = Len(waiting[k]) + 1
        BY <1>2, <3>2, <4>1, <4>2
      <4>3. CASE i # Len(waiting[k]) + 1
        <5>1. i \in DOMAIN waiting[k] /\ waiting'[k][i] = waiting[k][i]
          BY <3>2, <4>1, <4>3
        <5> QED BY <1>2, <3>2, <5>1 DEF KnownInv, WaitersAsked
      <4> QED BY <4>2, <4>3
    <3> QED BY <3>1, <3>2
  <2>3. QueuedWasKnown'
    <3>1. CASE FirstToWait(k)
      <4>1. idle' = Append(idle, Question(k)) /\ Question(k) \in Event
        BY <2>1, <3>1, QuestionIsEvent
      <4>2. Question(k).type # "done"
        BY DEF Question
      <4> QED BY <1>4, <4>1, <4>2, QueuedOne DEF KnownInv
    <3>2. CASE ~FirstToWait(k)
      BY <1>4, <2>1, <3>2, QueuedSame DEF KnownInv
    <3> QED BY <3>1, <3>2
  <2>4. AnswerWasKnown'
    BY <1>4, <2>1, SeenGrows DEF KnownInv
  <2> QED BY <1>5, <1>6, <2>2, <2>3, <2>4 DEF KnownInv
<1> QED BY <1>7, <1>8, <1>9

\* An idle callback passes on what was queued for it.
LEMMA IdleKnown ==
  ASSUME TypeOK, KnownInv, Idle
  PROVE  KnownInv'
<1> DEFINE e == Head(idle)
<1>1. /\ idle \in Seq(Event) /\ idle # <<>> /\ idle' = Tail(idle) /\ e = idle[1] /\ e \in Event
      /\ UNCHANGED <<waiting, hit, miss, made, latest, seen>>
  BY DEF Idle, TypeOK, tables
<1>2. TablesAreLatest' /\ WaitersAsked' /\ NothingSeenBefore'
  BY <1>1 DEF KnownInv, TablesAreLatest, WaitersAsked, NothingSeenBefore, Known
<1>3. QueuedWasKnown'
  <2> SUFFICES ASSUME NEW i \in DOMAIN idle', idle'[i].type = "done"
               PROVE  idle'[i].value \in seen[idle'[i].req]
    BY <1>1 DEF QueuedWasKnown
  <2>1. i + 1 \in DOMAIN idle /\ idle'[i] = idle[i + 1]
    BY <1>1
  <2> QED BY <2>1 DEF KnownInv, QueuedWasKnown
<1>4. AnswerWasKnown'
  <2>1. CASE e.type = "done" /\ answers' = [answers EXCEPT ![e.req] = Append(@, e.value)]
    <3>1. e.req \in Req /\ e.value \in Value \cup {Hole}
      BY <1>1, <2>1 DEF Event
    <3>2. e.value \in seen[e.req]
      BY <1>1, <2>1 DEF KnownInv, QueuedWasKnown
    <3> SUFFICES ASSUME NEW r \in Req, NEW i \in DOMAIN answers'[r]
                 PROVE  answers'[r][i] \in seen[r]
      BY <1>1 DEF AnswerWasKnown
    <3>3. CASE r # e.req
      BY <2>1, <3>1, <3>3 DEF KnownInv, AnswerWasKnown, TypeOK
    <3>4. CASE r = e.req
      <4>1. answers'[r] = Append(answers[r], e.value) /\ answers[r] \in Seq(Value \cup {Hole})
        BY <2>1, <3>1, <3>4 DEF TypeOK
      <4>2. CASE i = Len(answers[r]) + 1
        BY <3>2, <3>4, <4>1, <4>2
      <4>3. CASE i # Len(answers[r]) + 1
        <5>1. i \in DOMAIN answers[r] /\ answers'[r][i] = answers[r][i]
          BY <4>1, <4>3
        <5> QED BY <5>1 DEF KnownInv, AnswerWasKnown
      <4> QED BY <4>2, <4>3
    <3> QED BY <3>3, <3>4
  <2>2. CASE answers' = answers
    BY <1>1, <2>2 DEF KnownInv, AnswerWasKnown
  <2> QED BY <2>1, <2>2 DEF Idle
<1> QED BY <1>2, <1>3, <1>4 DEF KnownInv

LEMMA KnownInit == Init => KnownInv
BY DEF Init, KnownInv, TablesAreLatest, WaitersAsked, QueuedWasKnown, NothingSeenBefore,
       AnswerWasKnown, Known

LEMMA KnownInductive ==
  ASSUME TypeOK, KnownInv, [Next]_vars
  PROVE  KnownInv'
<1>1. CASE UNCHANGED vars
  BY <1>1 DEF vars, tables, KnownInv, TablesAreLatest, WaitersAsked, QueuedWasKnown,
              NothingSeenBefore, AnswerWasKnown, Known
<1>2. CASE Idle
  BY <1>2, IdleKnown
<1>3. ASSUME NEW K \in SUBSET Key, Clear(K)
      PROVE  KnownInv'
  <2>1. UNCHANGED <<waiting, idle, made, seen, answers>>
    BY <1>3 DEF Clear
  <2>2. TablesAreLatest'
    BY <1>3 DEF Clear, KnownInv, TablesAreLatest, Known, TypeOK
  <2> QED BY <2>1, <2>2 DEF KnownInv, WaitersAsked, QueuedWasKnown, NothingSeenBefore,
                            AnswerWasKnown
<1>4. ASSUME NEW k \in Key, Fill(k) \/ Answer(k)
      PROVE  KnownInv'
  BY <1>4, TellKnown DEF Fill, Answer
<1>5. ASSUME NEW k \in Key, Get(k)
      PROVE  KnownInv'
  BY <1>5, GetKnown
<1> QED BY <1>1, <1>2, <1>3, <1>4, <1>5 DEF Next

\* The answer to a get is what the cache held when it was made, or was told
\* since: a clear, a fill or an older answer never brings back what was replaced.
THEOREM AnswersWereKnown == Spec => []AnswerWasKnown
<1>1. KnownInv => AnswerWasKnown
  BY DEF KnownInv
<1> QED BY <1>1, TypeInit, TypeInductive, KnownInit, KnownInductive, PTL DEF Spec

---------------------------------------------------------------------------
(***************************************************************************)
(* Every get is answered at most once: a request is in one place, a list   *)
(* of those who wait, the idle queue or the answers, and there once.       *)
(***************************************************************************)
Callback(i) == i \in DOMAIN idle /\ idle[i].type = "done"

QueuedOnce ==
  \A i, j \in DOMAIN idle : Callback(i) /\ Callback(j) /\ idle[i].req = idle[j].req => i = j

QueuedUnanswered ==
  \A i \in DOMAIN idle : Callback(i) =>
    idle[i].req \in DOMAIN made /\ answers[idle[i].req] = <<>>

WaitingOnce ==
  \A k \in Key : \A i, j \in DOMAIN waiting[k] : waiting[k][i] = waiting[k][j] => i = j

WaitingUnanswered ==
  \A k \in Key : \A i \in DOMAIN waiting[k] :
    /\ answers[waiting[k][i]] = <<>>
    /\ \A j \in DOMAIN idle : Callback(j) => idle[j].req # waiting[k][i]

UnmadeUnanswered == \A r \in Req \ DOMAIN made : answers[r] = <<>>

OnceInv == /\ QueuedOnce /\ QueuedUnanswered /\ WaitingOnce /\ WaitingUnanswered
           /\ UnmadeUnanswered /\ AnsweredOnce

\* Where an element of the longer queue was.
LEMMA Extended ==
  ASSUME NEW s \in Seq(Event), NEW q \in Seq(Event), NEW i \in DOMAIN (s \o q)
  PROVE  \/ i \in DOMAIN s /\ (s \o q)[i] = s[i]
         \/ /\ i \notin DOMAIN s /\ i - Len(s) \in DOMAIN q
            /\ (s \o q)[i] = q[i - Len(s)]
<1>1. Len(s) \in Nat /\ Len(q) \in Nat
  OBVIOUS
<1>2. CASE i \in 1 .. Len(s)
  BY <1>1, <1>2
<1>3. CASE i \notin 1 .. Len(s)
  BY <1>1, <1>3
<1> QED BY <1>2, <1>3

\* The callbacks of those who waited are queued: each once, none that was queued.
LEMMA NotifyOnce ==
  ASSUME TypeOK, WaitersAsked, OnceInv, NEW k \in Key, NEW v \in Value \cup {Hole},
         Notify(k, v), UNCHANGED <<made, answers>>
  PROVE  OnceInv'
<1> DEFINE q == [i \in 1 .. Len(waiting[k]) |-> Done(waiting[k][i], k, v)]
           n == Len(idle)
<1>1. q \in Seq(Event) /\ idle' = idle \o q /\ idle \in Seq(Event) /\ n \in Nat
  <2>1. waiting[k] \in Seq(Req) /\ idle \in Seq(Event)
    BY DEF TypeOK
  <2>2. q \in Seq(Event)
    BY <2>1, NotifyEvents
  <2>3. idle' = idle \o q
    BY DEF Notify
  <2> HIDE DEF q
  <2> QED BY <2>1, <2>2, <2>3
<1>2. \A i \in DOMAIN q : /\ q[i].type = "done" /\ q[i].req = waiting[k][i]
                          /\ i \in DOMAIN waiting[k]
  BY DEF Done, TypeOK
<1>3. waiting'[k] = <<>> /\ \A j \in Key \ {k} : waiting'[j] = waiting[j]
  BY DEF Notify, TypeOK
<1> HIDE DEF q
<1>4. \A i \in DOMAIN idle' : \/ i \in DOMAIN idle /\ idle'[i] = idle[i]
                              \/ i \notin DOMAIN idle /\ i - n \in DOMAIN q /\ idle'[i] = q[i - n]
  BY <1>1, Extended
<1>5. DOMAIN idle' \subseteq Nat
  BY <1>1
<1>6. ASSUME NEW i \in DOMAIN idle', i \notin DOMAIN idle
      PROVE  /\ i - n \in DOMAIN waiting[k] /\ idle'[i].req = waiting[k][i - n]
             /\ \A j \in DOMAIN idle : Callback(j) => idle[j].req # waiting[k][i - n]
  BY <1>2, <1>4, <1>6 DEF OnceInv, WaitingUnanswered
<1>7. QueuedOnce'
  <2> SUFFICES ASSUME NEW i \in DOMAIN idle', NEW j \in DOMAIN idle',
                      idle'[i].type = "done", idle'[j].type = "done",
                      idle'[i].req = idle'[j].req
               PROVE  i = j
    BY DEF QueuedOnce, Callback
  <2>1. CASE i \in DOMAIN idle /\ j \in DOMAIN idle
    <3>1. idle'[i] = idle[i] /\ idle'[j] = idle[j]
      BY <1>4, <2>1
    <3> QED BY <2>1, <3>1 DEF OnceInv, QueuedOnce, Callback
  <2>2. CASE i \notin DOMAIN idle /\ j \in DOMAIN idle
    BY <1>4, <1>6, <2>2 DEF Callback
  <2>3. CASE i \in DOMAIN idle /\ j \notin DOMAIN idle
    BY <1>4, <1>6, <2>3 DEF Callback
  <2>4. CASE i \notin DOMAIN idle /\ j \notin DOMAIN idle
    <3>1. waiting[k][i - n] = waiting[k][j - n]
      BY <1>6, <2>4
    <3>2. i - n = j - n
      BY <1>6, <2>4, <3>1 DEF OnceInv, WaitingOnce
    <3> QED BY <1>1, <1>5, <3>2
  <2> QED BY <2>1, <2>2, <2>3, <2>4
<1>8. QueuedUnanswered'
  <2> SUFFICES ASSUME NEW i \in DOMAIN idle', idle'[i].type = "done"
               PROVE  idle'[i].req \in DOMAIN made /\ answers[idle'[i].req] = <<>>
    BY DEF QueuedUnanswered, Callback
  <2>1. CASE i \in DOMAIN idle
    BY <1>4, <2>1 DEF OnceInv, QueuedUnanswered, Callback
  <2>2. CASE i \notin DOMAIN idle
    BY <1>6, <2>2 DEF OnceInv, WaitingUnanswered, WaitersAsked
  <2> QED BY <2>1, <2>2
<1>9. WaitingUnanswered'
  <2> SUFFICES ASSUME NEW l \in Key, NEW m \in DOMAIN waiting'[l]
               PROVE  /\ answers[waiting'[l][m]] = <<>>
                      /\ \A i \in DOMAIN idle' : idle'[i].type = "done" =>
                           idle'[i].req # waiting'[l][m]
    BY DEF WaitingUnanswered, Callback
  <2>1. l # k /\ waiting'[l] = waiting[l]
    BY <1>3
  <2>2. made[waiting[l][m]] = l
    BY <2>1 DEF WaitersAsked
  <2>3. ASSUME NEW i \in DOMAIN idle', idle'[i].type = "done"
        PROVE  idle'[i].req # waiting'[l][m]
    <3>1. CASE i \in DOMAIN idle
      BY <1>4, <2>1, <2>3, <3>1 DEF OnceInv, WaitingUnanswered, Callback
    <3>2. CASE i \notin DOMAIN idle
      <4>1. made[idle'[i].req] = k
        BY <1>6, <3>2 DEF WaitersAsked
      <4> QED BY <2>1, <2>2, <4>1
    <3> QED BY <3>1, <3>2
  <2> QED BY <2>1, <2>3 DEF OnceInv, WaitingUnanswered
<1>10. WaitingOnce'
  BY <1>3 DEF OnceInv, WaitingOnce
<1>11. UnmadeUnanswered' /\ AnsweredOnce'
  BY DEF OnceInv, UnmadeUnanswered, AnsweredOnce
<1> QED BY <1>7, <1>8, <1>9, <1>10, <1>11 DEF OnceInv

LEMMA TellOnce ==
  ASSUME TypeOK, WaitersAsked, OnceInv, NEW k \in Key, Tell(k), UNCHANGED <<made, answers>>
  PROVE  OnceInv'
<1>1. ASSUME UNCHANGED <<waiting, idle>>
      PROVE  OnceInv'
  BY <1>1 DEF OnceInv, QueuedOnce, QueuedUnanswered, WaitingOnce, WaitingUnanswered,
              UnmadeUnanswered, AnsweredOnce, Callback
<1>2. CASE \E v \in Value \cup {Hole} : Notify(k, v)
  BY <1>2, NotifyOnce
<1> QED BY <1>1, <1>2 DEF Tell, SetMethod, UnsetMethod, tables

\* A new request is in no place yet.
LEMMA GetOnce ==
  ASSUME TypeOK, WaitersAsked, OnceInv, NEW k \in Key, Get(k)
  PROVE  OnceInv'
<1> DEFINE r == Len(made) + 1
<1>1. /\ r \in Req /\ r \notin DOMAIN made /\ DOMAIN made' = DOMAIN made \cup {r}
      /\ answers[r] = <<>> /\ \A i \in DOMAIN made : made'[i] = made[i]
  <2>1. r \in Req /\ made' = Append(made, k) /\ made \in Seq(Key)
    BY DEF Get, TypeOK
  <2>2. /\ r \notin DOMAIN made /\ DOMAIN made' = DOMAIN made \cup {r}
        /\ \A i \in DOMAIN made : made'[i] = made[i]
    BY <2>1
  <2> QED BY <2>1, <2>2 DEF OnceInv, UnmadeUnanswered
<1> HIDE DEF r
<1>2. /\ \A i \in DOMAIN idle : Callback(i) => idle[i].req # r
      /\ \A l \in Key : \A i \in DOMAIN waiting[l] : waiting[l][i] # r
  BY <1>1 DEF OnceInv, QueuedUnanswered, WaitersAsked
<1>3. CASE /\ answers' = [answers EXCEPT ![r] = Append(@, Known(k))]
           /\ UNCHANGED <<waiting, idle>>
  <2>1. \A s \in Req : answers'[s] = IF s = r THEN Append(answers[s], Known(k)) ELSE answers[s]
    BY <1>3 DEF TypeOK
  <2>2. Len(answers'[r]) <= 1
    <3>1. \A x : Append(<<>>, x) = <<x>> /\ Len(<<x>>) <= 1
      OBVIOUS
    <3>2. answers'[r] = Append(<<>>, Known(k))
      BY <1>1, <2>1
    <3> QED BY <3>1, <3>2
  <2>3. AnsweredOnce' /\ UnmadeUnanswered'
    <3>1. \A s \in Req \ {r} : answers'[s] = answers[s]
      BY <2>1
    <3>2. AnsweredOnce'
      <4> SUFFICES ASSUME NEW s \in Req
                   PROVE  Len(answers'[s]) <= 1
        BY DEF AnsweredOnce
      <4>1. CASE s = r
        BY <2>2, <4>1, Zenon
      <4>2. CASE s # r
        BY <3>1, <4>2 DEF OnceInv, AnsweredOnce
      <4> QED BY <4>1, <4>2
    <3>3. UnmadeUnanswered'
      BY <1>1, <3>1 DEF OnceInv, UnmadeUnanswered
    <3> QED BY <3>2, <3>3
  <2>4. QueuedOnce' /\ WaitingOnce'
    BY <1>3 DEF OnceInv, QueuedOnce, WaitingOnce, Callback
  <2>5. DOMAIN made \subseteq Req
    BY DEF TypeOK, Req
  <2>6. QueuedUnanswered'
    BY <1>1, <1>2, <1>3, <2>1, <2>5 DEF OnceInv, QueuedUnanswered, Callback
  <2>7. WaitingUnanswered'
    BY <1>2, <1>3, <2>1, <2>5 DEF OnceInv, WaitingUnanswered, WaitersAsked, Callback
  <2> QED BY <2>3, <2>4, <2>6, <2>7 DEF OnceInv
<1>4. UNCHANGED answers => UnmadeUnanswered' /\ AnsweredOnce'
  BY <1>1 DEF OnceInv, UnmadeUnanswered, AnsweredOnce
<1>5. ASSUME NEW e \in Event, idle' = Append(idle, e), UNCHANGED answers,
             e.type = "done" => e.req = r
      PROVE  QueuedOnce' /\ QueuedUnanswered'
  <2>1. /\ idle \in Seq(Event) /\ Len(idle) \in Nat
        /\ \A i \in DOMAIN idle' : \/ i \in DOMAIN idle /\ idle'[i] = idle[i]
                                   \/ i = Len(idle) + 1 /\ idle'[i] = e
    BY <1>5 DEF TypeOK
  <2>2. QueuedOnce'
    BY <1>2, <1>5, <2>1 DEF OnceInv, QueuedOnce, Callback
  <2>3. QueuedUnanswered'
    BY <1>1, <1>5, <2>1 DEF OnceInv, QueuedUnanswered, Callback
  <2> QED BY <2>2, <2>3
<1>6. CASE Known(k) # Unknown /\ idle' = Append(idle, Done(r, k, Known(k)))
           /\ UNCHANGED <<waiting, answers>>
  <2> DEFINE e == Done(r, k, Known(k))
  <2>1. e \in Event /\ e.type = "done" /\ e.req = r
    BY <1>1, <1>6, KnownValue, DoneIsEvent DEF Done
  <2>2. idle' = Append(idle, e)
    BY <1>6
  <2> HIDE DEF e
  <2>3. QueuedOnce' /\ QueuedUnanswered'
    BY <1>5, <1>6, <2>1, <2>2
  <2>4. \A i \in DOMAIN idle' : \/ i \in DOMAIN idle /\ idle'[i] = idle[i]
                              \/ idle'[i] = e
    BY <2>2 DEF TypeOK
  <2>5. WaitingUnanswered'
    BY <1>2, <1>6, <2>1, <2>4 DEF OnceInv, WaitingUnanswered, Callback
  <2>6. WaitingOnce'
    BY <1>6 DEF OnceInv, WaitingOnce
  <2> QED BY <1>4, <1>6, <2>3, <2>5, <2>6 DEF OnceInv
<1>7. CASE /\ waiting' = [waiting EXCEPT ![k] = Append(@, r)]
           /\ idle' = IF FirstToWait(k) THEN Append(idle, Question(k)) ELSE idle
           /\ UNCHANGED answers
  <2>1. /\ \A l \in Key \ {k} : waiting'[l] = waiting[l]
        /\ waiting'[k] = Append(waiting[k], r) /\ waiting[k] \in Seq(Req)
    BY <1>7 DEF TypeOK
  <2>2. Question(k) \in Event /\ Question(k).type # "done"
    BY QuestionIsEvent DEF Question
  <2>3. \A i \in DOMAIN idle' : Callback(i)' => i \in DOMAIN idle /\ idle'[i] = idle[i]
    <3>1. CASE FirstToWait(k)
      <4>1. \A i \in DOMAIN idle' : (i \in DOMAIN idle /\ idle'[i] = idle[i]) \/ idle'[i] = Question(k)
        <5>1. idle \in Seq(Event) /\ idle' = Append(idle, Question(k))
          BY <1>7, <3>1 DEF TypeOK
        <5>2. /\ DOMAIN idle' = 1 .. Len(idle) + 1 /\ DOMAIN idle = 1 .. Len(idle)
              /\ Len(idle) \in Nat
              /\ idle'[Len(idle) + 1] = Question(k)
              /\ \A i \in 1 .. Len(idle) : idle'[i] = idle[i]
          BY <2>2, <5>1
        <5> QED BY <5>2
      <4> QED BY <2>2, <4>1 DEF Callback
    <3>2. CASE ~FirstToWait(k)
      BY <1>7, <3>2
    <3> QED BY <3>1, <3>2
  <2>4. QueuedOnce' /\ QueuedUnanswered'
    BY <1>1, <1>7, <2>3 DEF OnceInv, QueuedOnce, QueuedUnanswered, Callback
  <2>5. \A l \in Key : \A i \in DOMAIN waiting'[l] :
          \/ i \in DOMAIN waiting[l] /\ waiting'[l][i] = waiting[l][i]
          \/ l = k /\ i = Len(waiting[k]) + 1 /\ waiting'[l][i] = r
    BY <2>1
  <2>6. WaitingOnce'
    BY <1>2, <2>5 DEF OnceInv, WaitingOnce
  <2>7. WaitingUnanswered'
    BY <1>1, <1>2, <1>7, <2>3, <2>5 DEF OnceInv, WaitingUnanswered, Callback
  <2> QED BY <1>4, <1>7, <2>4, <2>6, <2>7 DEF OnceInv
<1> QED BY <1>3, <1>6, <1>7 DEF Get, r

\* The callback that is run was queued once, and its request not answered.
LEMMA IdleOnce ==
  ASSUME TypeOK, WaitersAsked, OnceInv, Idle
  PROVE  OnceInv'
<1> DEFINE e == Head(idle)
<1>1. /\ idle \in Seq(Event) /\ idle # <<>> /\ e = idle[1] /\ e \in Event /\ 1 \in DOMAIN idle
      /\ UNCHANGED <<waiting, made>>
      /\ \A i \in DOMAIN idle' : i + 1 \in DOMAIN idle /\ idle'[i] = idle[i + 1] /\ i \in Nat \ {0}
  BY DEF Idle, TypeOK, tables
<1>2. QueuedOnce' /\ WaitingOnce'
  BY <1>1 DEF OnceInv, QueuedOnce, WaitingOnce, Callback
<1>3. CASE answers' = answers
  BY <1>1, <1>2, <1>3 DEF OnceInv, QueuedUnanswered, WaitingUnanswered, UnmadeUnanswered,
                          AnsweredOnce, Callback
<1>4. CASE e.type = "done" /\ answers' = [answers EXCEPT ![e.req] = Append(@, e.value)]
  <2>1. e.req \in DOMAIN made /\ answers[e.req] = <<>> /\ Callback(1)
    BY <1>1, <1>4 DEF OnceInv, QueuedUnanswered, Callback
  <2>2. DOMAIN made \subseteq Req
    BY DEF TypeOK, Req
  <2>3. \A s \in Req : answers'[s] = IF s = e.req THEN Append(answers[s], e.value) ELSE answers[s]
    BY <1>4 DEF TypeOK
  <2>4. Len(answers'[e.req]) <= 1
    <3>1. \A x : Append(<<>>, x) = <<x>> /\ Len(<<x>>) <= 1
      OBVIOUS
    <3>2. answers'[e.req] = Append(<<>>, e.value)
      BY <2>1, <2>2, <2>3
    <3> QED BY <3>1, <3>2
  <2> HIDE DEF e
  <2>5. AnsweredOnce' /\ UnmadeUnanswered'
    <3>1. \A s \in Req \ {e.req} : answers'[s] = answers[s]
      BY <2>3
    <3>2. AnsweredOnce'
      <4> SUFFICES ASSUME NEW s \in Req
                   PROVE  Len(answers'[s]) <= 1
        BY DEF AnsweredOnce
      <4>1. CASE s = e.req
        BY <2>4, <4>1, Zenon
      <4>2. CASE s # e.req
        BY <3>1, <4>2 DEF OnceInv, AnsweredOnce
      <4> QED BY <4>1, <4>2
    <3>3. UnmadeUnanswered'
      BY <1>1, <2>1, <2>2, <3>1 DEF OnceInv, UnmadeUnanswered
    <3> QED BY <3>2, <3>3
  <2>6. \A i \in DOMAIN idle' : Callback(i)' => Callback(i + 1) /\ idle'[i].req # e.req
    BY <1>1, <2>1 DEF OnceInv, QueuedOnce, Callback
  <2>7. QueuedUnanswered'
    BY <1>1, <2>2, <2>3, <2>6 DEF OnceInv, QueuedUnanswered
  <2>8. WaitingUnanswered'
    BY <1>1, <2>1, <2>2, <2>3, <2>6 DEF OnceInv, WaitingUnanswered, WaitersAsked
  <2> QED BY <1>2, <2>5, <2>7, <2>8 DEF OnceInv
<1> QED BY <1>3, <1>4 DEF Idle

LEMMA OnceInit == Init => OnceInv
BY DEF Init, OnceInv, QueuedOnce, QueuedUnanswered, WaitingOnce, WaitingUnanswered,
       UnmadeUnanswered, AnsweredOnce, Callback

LEMMA OnceInductive ==
  ASSUME TypeOK, WaitersAsked, OnceInv, [Next]_vars
  PROVE  OnceInv'
<1>1. CASE UNCHANGED <<waiting, idle, made, answers>>
  BY <1>1 DEF OnceInv, QueuedOnce, QueuedUnanswered, WaitingOnce, WaitingUnanswered,
              UnmadeUnanswered, AnsweredOnce, Callback
<1>2. CASE Idle
  BY <1>2, IdleOnce
<1>3. ASSUME NEW k \in Key, Fill(k) \/ Answer(k)
      PROVE  OnceInv'
  BY <1>3, TellOnce DEF Fill, Answer
<1>4. ASSUME NEW k \in Key, Get(k)
      PROVE  OnceInv'
  BY <1>4, GetOnce
<1> QED BY <1>1, <1>2, <1>3, <1>4 DEF Next, Clear, vars, tables

\* No callback is run twice, however often its key is filled, cleared, answered
\* and asked for again while it waits.
THEOREM EveryGetAnsweredOnce == Spec => []AnsweredOnce
<1>1. KnownInv => WaitersAsked
  BY DEF KnownInv
<1>2. OnceInv => AnsweredOnce
  BY DEF OnceInv
<1> QED BY <1>1, <1>2, TypeInit, TypeInductive, KnownInit, KnownInductive, OnceInit,
           OnceInductive, PTL DEF Spec

---------------------------------------------------------------------------
(***************************************************************************)
(* The provider is asked once.  When nobody waits for a key that users do  *)
(* not fill, no question for it is on its way: so the first to wait may    *)
(* ask, and an answer takes the question and all who wait with it.         *)
(***************************************************************************)
NoIdleQuestion ==
  \A k \in Key \ prefilled : waiting[k] = <<>> => asked[k] = 0 /\ ~Queued(Question(k))

AskedInv == AskedOnce /\ NoIdleQuestion

LEMMA QuestionIsOwn == \A j, k : Question(j) = Question(k) => j = k
<1> TAKE j, k
<1>1. Question(j).key = j /\ Question(k).key = k
  BY DEF Question
<1> QED BY <1>1

\* The questions in the queue are those that were there.
OldQuestions ==
  \A k \in Key : \A i \in DOMAIN idle' :
    idle'[i] = Question(k) => i \in DOMAIN idle /\ idle[i] = Question(k)

LEMMA TellAsksNothing ==
  ASSUME TypeOK, NEW k \in Key, Tell(k)
  PROVE  /\ OldQuestions
         /\ \A j \in Key \ {k} : waiting'[j] = waiting[j]
<1>1. ASSUME UNCHANGED <<waiting, idle>>
      PROVE  OldQuestions /\ \A j \in Key \ {k} : waiting'[j] = waiting[j]
  BY <1>1 DEF OldQuestions
<1>2. ASSUME NEW v \in Value \cup {Hole}, Notify(k, v)
      PROVE  OldQuestions /\ \A j \in Key \ {k} : waiting'[j] = waiting[j]
  <2> DEFINE q == [i \in 1 .. Len(waiting[k]) |-> Done(waiting[k][i], k, v)]
  <2>1. q \in Seq(Event) /\ idle' = idle \o q /\ idle \in Seq(Event)
    BY <1>2, NotifyEvents DEF Notify, TypeOK
  <2>2. \A i \in DOMAIN q : q[i].type = "done"
    BY DEF Done, TypeOK
  <2>3. \A j \in Key : Question(j).type # "done"
    BY DEF Question
  <2> HIDE DEF q
  <2>4. \A i \in DOMAIN idle' : \/ i \in DOMAIN idle /\ idle'[i] = idle[i]
                              \/ idle'[i].type = "done"
    BY <2>1, <2>2, Extended
  <2>5. OldQuestions
    BY <2>3, <2>4 DEF OldQuestions
  <2> QED BY <1>2, <2>5 DEF Notify, TypeOK
<1> QED BY <1>1, <1>2 DEF Tell, SetMethod, UnsetMethod, tables

\* Where no question came in, and as many as before wait and were asked.
LEMMA SameAsked ==
  ASSUME AskedInv, OldQuestions, NEW k \in Key, k \notin prefilled,
         asked'[k] = asked[k], waiting'[k] = <<>> => waiting[k] = <<>>
  PROVE  /\ asked'[k] <= 1
         /\ asked'[k] = 1 => ~Queued(Question(k))'
         /\ \A i, j \in DOMAIN idle' :
              idle'[i] = Question(k) /\ idle'[j] = Question(k) => i = j
         /\ waiting'[k] = <<>> => asked'[k] = 0 /\ ~Queued(Question(k))'
BY DEF AskedInv, AskedOnce, NoIdleQuestion, OldQuestions, Queued

LEMMA AskedEach ==
  ASSUME \A k \in Key \ prefilled' :
           /\ asked'[k] <= 1
           /\ asked'[k] = 1 => ~Queued(Question(k))'
           /\ \A i, j \in DOMAIN idle' :
                idle'[i] = Question(k) /\ idle'[j] = Question(k) => i = j
           /\ waiting'[k] = <<>> => asked'[k] = 0 /\ ~Queued(Question(k))'
  PROVE  AskedInv'
BY DEF AskedInv, AskedOnce, NoIdleQuestion

LEMMA AnswerAsked ==
  ASSUME TypeOK, AskedInv, NEW k \in Key, Answer(k)
  PROVE  AskedInv'
<1>1. /\ asked[k] > 0 /\ asked' = [asked EXCEPT ![k] = @ - 1] /\ Tell(k)
      /\ prefilled' = prefilled
  BY DEF Answer
<1>2. OldQuestions /\ \A j \in Key \ {k} : waiting'[j] = waiting[j] /\ asked'[j] = asked[j]
  BY <1>1, TellAsksNothing DEF TypeOK
<1> SUFFICES ASSUME NEW j \in Key, j \notin prefilled
             PROVE  /\ asked'[j] <= 1
                    /\ asked'[j] = 1 => ~Queued(Question(j))'
                    /\ \A m, n \in DOMAIN idle' :
                         idle'[m] = Question(j) /\ idle'[n] = Question(j) => m = n
                    /\ waiting'[j] = <<>> => asked'[j] = 0 /\ ~Queued(Question(j))'
  BY <1>1, AskedEach
<1>3. CASE j # k
  BY <1>2, <1>3, SameAsked
<1>4. CASE j = k
  <2>1. asked[k] \in Nat /\ asked'[k] = asked[k] - 1 /\ asked[k] <= 1
    BY <1>1, <1>4 DEF TypeOK, AskedInv, AskedOnce
  <2>2. asked[k] = 1 /\ asked'[k] = 0
    BY <1>1, <2>1
  <2>3. ~Queued(Question(k))
    BY <1>4, <2>2 DEF AskedInv, AskedOnce
  <2>4. ~Queued(Question(k))'
    BY <1>2, <2>3 DEF OldQuestions, Queued
  <2> QED BY <1>4, <2>2, <2>4 DEF Queued
<1> QED BY <1>3, <1>4

LEMMA FillAsked ==
  ASSUME TypeOK, AskedInv, NEW k \in Key, Fill(k)
  PROVE  AskedInv'
<1>1. OldQuestions /\ \A j \in Key \ {k} : waiting'[j] = waiting[j] /\ asked'[j] = asked[j]
  BY TellAsksNothing DEF Fill
<1>2. prefilled' = prefilled \cup {k}
  BY DEF Fill
<1> QED BY <1>1, <1>2, AskedEach, SameAsked

\* Where an element of the queue with one more at its end was.
LEMMA AppendedQueue ==
  ASSUME idle \in Seq(Event), NEW e, idle' = Append(idle, e)
  PROVE  /\ idle'[Len(idle) + 1] = e
         /\ \A i \in DOMAIN idle' : (i \in DOMAIN idle /\ idle'[i] = idle[i]) \/ i = Len(idle) + 1
OBVIOUS

LEMMA GetAsked ==
  ASSUME TypeOK, AskedInv, NEW k \in Key, Get(k)
  PROVE  AskedInv'
<1> DEFINE r == Len(made) + 1
<1>1. UNCHANGED <<asked, prefilled>> /\ r \in Req
  BY DEF Get
<1>2. CASE /\ Known(k) # Unknown
           /\ \/ UNCHANGED <<waiting, idle>>
              \/ idle' = Append(idle, Done(r, k, Known(k))) /\ UNCHANGED waiting
  <2> DEFINE e == Done(r, k, Known(k))
  <2>1. e.type = "done" /\ \A j : Question(j).type = "question"
    BY DEF Done, Question
  <2>2. \A j : Question(j) # e
    BY <2>1
  <2>4. idle \in Seq(Event)
    BY DEF TypeOK
  <2> HIDE DEF e
  <2>3. ASSUME idle' = Append(idle, e)
        PROVE  OldQuestions
    <3>1. /\ idle'[Len(idle) + 1] = e
          /\ \A i \in DOMAIN idle' : (i \in DOMAIN idle /\ idle'[i] = idle[i]) \/ i = Len(idle) + 1
      BY <2>3, <2>4, AppendedQueue
    <3> QED BY <2>2, <3>1 DEF OldQuestions
  <2>5. OldQuestions
    <3>1. CASE UNCHANGED <<waiting, idle>>
      BY <3>1 DEF OldQuestions
    <3> QED BY <1>2, <2>3, <3>1 DEF e
  <2> QED BY <1>1, <1>2, <2>5, AskedEach, SameAsked
<1>3. CASE /\ waiting' = [waiting EXCEPT ![k] = Append(@, r)]
           /\ idle' = IF FirstToWait(k) THEN Append(idle, Question(k)) ELSE idle
  <2>1. /\ \A j \in Key \ {k} : waiting'[j] = waiting[j]
        /\ waiting'[k] = Append(waiting[k], r) /\ waiting[k] \in Seq(Req)
    BY <1>3 DEF TypeOK
  <2>2. waiting'[k] # <<>>
    <3>1. \A w \in Seq(Req) : Len(Append(w, r)) = Len(w) + 1 /\ Len(w) \in Nat
      BY <1>1
    <3>2. Len(waiting'[k]) = Len(waiting[k]) + 1 /\ Len(waiting[k]) \in Nat
      BY <2>1, <3>1
    <3>3. Len(<<>>) = 0
      OBVIOUS
    <3> QED BY <3>2, <3>3
  <2>3. CASE ~FirstToWait(k)
    <3>1. OldQuestions
      BY <1>3, <2>3 DEF OldQuestions
    <3> QED BY <1>1, <2>1, <2>2, <3>1, AskedEach, SameAsked
  <2>4. CASE FirstToWait(k)
    <3>1. idle' = Append(idle, Question(k)) /\ idle \in Seq(Event) /\ waiting[k] = <<>>
      BY <1>3, <2>4 DEF FirstToWait, TypeOK
    <3>2. \A i \in DOMAIN idle' : (i \in DOMAIN idle /\ idle'[i] = idle[i]) \/ i = Len(idle) + 1
      BY <3>1, AppendedQueue
    <3>5. idle'[Len(idle) + 1] = Question(k)
      BY <3>1, AppendedQueue
    <3> SUFFICES ASSUME NEW j \in Key, j \notin prefilled
                 PROVE  /\ asked'[j] <= 1
                        /\ asked'[j] = 1 => ~Queued(Question(j))'
                        /\ \A m, n \in DOMAIN idle' :
                             idle'[m] = Question(j) /\ idle'[n] = Question(j) => m = n
                        /\ waiting'[j] = <<>> => asked'[j] = 0 /\ ~Queued(Question(j))'
      BY <1>1, AskedEach
    <3>3. CASE j = k
      <4>1. asked[k] = 0 /\ ~Queued(Question(k))
        BY <3>1, <3>3 DEF AskedInv, NoIdleQuestion
      <4>2. \A m \in DOMAIN idle' : idle'[m] = Question(k) => m = Len(idle) + 1
        BY <3>2, <4>1 DEF Queued
      <4>3. asked'[j] = 0
        BY <1>1, <3>3, <4>1
      <4> QED BY <2>2, <3>3, <4>2, <4>3
    <3>4. CASE j # k
      <4>1. \A m \in DOMAIN idle' : idle'[m] = Question(j) => m \in DOMAIN idle /\ idle[m] = Question(j)
        BY <3>2, <3>4, <3>5, QuestionIsOwn
      <4> QED BY <1>1, <2>1, <3>4, <4>1 DEF AskedInv, AskedOnce, NoIdleQuestion, Queued
    <3> QED BY <3>3, <3>4
  <2> QED BY <2>3, <2>4
<1> QED BY <1>2, <1>3 DEF Get

LEMMA IdleAsked ==
  ASSUME TypeOK, AskedInv, Idle
  PROVE  AskedInv'
<1> DEFINE e == Head(idle)
<1>1. /\ idle \in Seq(Event) /\ idle # <<>> /\ e = idle[1] /\ e \in Event /\ 1 \in DOMAIN idle
      /\ UNCHANGED <<waiting, prefilled>>
      /\ \A i \in DOMAIN idle' : i + 1 \in DOMAIN idle /\ idle'[i] = idle[i + 1] /\ i \in Nat \ {0}
  BY DEF Idle, TypeOK, tables
<1> HIDE DEF e
<1> SUFFICES ASSUME NEW k \in Key, k \notin prefilled
             PROVE  /\ asked'[k] <= 1
                    /\ asked'[k] = 1 => ~Queued(Question(k))'
                    /\ \A m, n \in DOMAIN idle' :
                         idle'[m] = Question(k) /\ idle'[n] = Question(k) => m = n
                    /\ waiting'[k] = <<>> => asked'[k] = 0 /\ ~Queued(Question(k))'
  BY <1>1, AskedEach
<1>2. \A m, n \in DOMAIN idle' : idle'[m] = Question(k) /\ idle'[n] = Question(k) => m = n
  <2> SUFFICES ASSUME NEW m \in DOMAIN idle', NEW n \in DOMAIN idle',
                      idle'[m] = Question(k), idle'[n] = Question(k)
               PROVE  m = n
    OBVIOUS
  <2>1. m + 1 = n + 1
    BY <1>1 DEF AskedInv, AskedOnce
  <2> QED BY <1>1, <2>1
<1>3. Queued(Question(k))' => Queued(Question(k))
  BY <1>1 DEF Queued
<1>4. CASE e = Question(k)
  <2>7. Queued(Question(k))
    BY <1>1, <1>4 DEF Queued
  <2>8. e.type = "question" /\ e.key = k
    BY <1>4 DEF Question
  <2>1. Queued(Question(k)) /\ e.type = "question" /\ e.key = k
    BY <2>7, <2>8
  <2>2. asked[k] \in Nat /\ asked[k] <= 1 /\ asked[k] # 1
    BY <2>1 DEF TypeOK, AskedInv, AskedOnce
  <2>3. asked[k] = 0
    BY <2>2
  <2>4. asked' = [asked EXCEPT ![k] = @ + 1]
    BY <2>1 DEF Idle, e
  <2>5. asked'[k] = 1
    BY <2>3, <2>4 DEF TypeOK
  <2>6. ~Queued(Question(k))'
    <3> SUFFICES ASSUME NEW i \in DOMAIN idle', idle'[i] = Question(k)
                 PROVE  FALSE
      BY DEF Queued
    <3>1. i + 1 = 1
      BY <1>1, <1>4 DEF AskedInv, AskedOnce
    <3> QED BY <1>1, <3>1
  <2>9. waiting'[k] # <<>>
    BY <1>1, <2>1 DEF AskedInv, NoIdleQuestion
  <2> QED BY <1>2, <2>5, <2>6, <2>9
<1>5. CASE e # Question(k)
  <2>1. e.type = "question" => e.key # k
    <3>1. e.type = "question" => e = Question(e.key)
      BY <1>1 DEF Event, Question
    <3> QED BY <1>5, <3>1
  <2>2. asked'[k] = asked[k]
    <3>1. CASE e.type = "question" /\ asked' = [asked EXCEPT ![e.key] = @ + 1]
      BY <2>1, <3>1 DEF TypeOK
    <3>2. CASE UNCHANGED asked
      BY <3>2
    <3> QED BY <3>1, <3>2 DEF Idle, e
  <2> QED BY <1>1, <1>2, <1>3, <2>2 DEF AskedInv, AskedOnce, NoIdleQuestion
<1> QED BY <1>4, <1>5

LEMMA AskedInit == Init => AskedInv
<1> SUFFICES ASSUME Init
             PROVE  AskedInv
  OBVIOUS
<1>1. idle = <<>> /\ \A k \in Key : asked[k] = 0
  BY DEF Init
<1>3. DOMAIN idle = {}
  BY <1>1
<1>2. \A k \in Key : ~Queued(Question(k))
  BY <1>3 DEF Queued
<1> QED BY <1>1, <1>2, <1>3 DEF AskedInv, AskedOnce, NoIdleQuestion

LEMMA AskedInductive ==
  ASSUME TypeOK, AskedInv, [Next]_vars
  PROVE  AskedInv'
<1>1. CASE UNCHANGED <<waiting, idle, asked, prefilled>>
  BY <1>1 DEF AskedInv, AskedOnce, NoIdleQuestion, Queued
<1>2. CASE Idle
  BY <1>2, IdleAsked
<1>3. ASSUME NEW k \in Key, Fill(k) \/ Answer(k) \/ Get(k)
      PROVE  AskedInv'
  BY <1>3, FillAsked, AnswerAsked, GetAsked
<1> QED BY <1>1, <1>2, <1>3 DEF Next, Clear, vars, tables

\* However many ask for a key, and whatever is cleared in between, the provider
\* has at most one question for it, as long as nobody else fills the key.
THEOREM ProviderAskedOnce == Spec => []AskedOnce
<1>1. AskedInv => AskedOnce
  BY DEF AskedInv
<1> QED BY <1>1, TypeInit, TypeInductive, AskedInit, AskedInductive, PTL DEF Spec

---------------------------------------------------------------------------
(***************************************************************************)
(* The gets of a key are answered in their order.  A request made is       *)
(* answered, queued or waits; of one key the queued ones are in the order  *)
(* of their gets, so are those who wait, and they come after the queued.   *)
(* A get of a known key is queued behind its elders because nobody waits   *)
(* for a known key.                                                        *)
(***************************************************************************)
Queues(r) == \E i \in DOMAIN idle : Callback(i) /\ idle[i].req = r

Waits(r) == \E k \in Key : \E i \in DOMAIN waiting[k] : waiting[k][i] = r

Placed == \A r \in DOMAIN made : answers[r] # <<>> \/ Queues(r) \/ Waits(r)

QueueOrder ==
  \A i, j \in DOMAIN idle :
    Callback(i) /\ Callback(j) /\ made[idle[i].req] = made[idle[j].req] /\ i < j
      => idle[i].req < idle[j].req

WaitOrder ==
  \A k \in Key : \A i, j \in DOMAIN waiting[k] : i < j => waiting[k][i] < waiting[k][j]

QueueBeforeWait ==
  \A k \in Key : \A i \in DOMAIN idle : \A j \in DOMAIN waiting[k] :
    Callback(i) /\ made[idle[i].req] = k => idle[i].req < waiting[k][j]

OrderInv == Placed /\ QueueOrder /\ WaitOrder /\ QueueBeforeWait /\ AnsweredInOrder

\* The gets made are requests, and those are numbers.
LEMMA MadeAreRequests == TypeOK => DOMAIN made \subseteq Nat /\ DOMAIN made \subseteq Req
<1> SUFFICES ASSUME TypeOK PROVE DOMAIN made \subseteq Nat /\ DOMAIN made \subseteq Req
  OBVIOUS
<1>1. made \in Seq(Key) /\ Len(made) <= MaxReq
  BY DEF TypeOK
<1>2. DOMAIN made = 1 .. Len(made) /\ Len(made) \in Nat
  BY <1>1
<1>3. MaxReq \in Nat
  BY MaxReqAssumption
<1> QED BY <1>1, <1>2, <1>3 DEF Req

\* Those who waited are queued in their order, behind the elders of their key.
LEMMA NotifyOrdered ==
  ASSUME TypeOK, WaitersAsked, OrderInv, NEW k \in Key, NEW v \in Value \cup {Hole},
         Notify(k, v), UNCHANGED <<full, made, answers>>
  PROVE  OrderInv'
<1> DEFINE q == [i \in 1 .. Len(waiting[k]) |-> Done(waiting[k][i], k, v)]
           n == Len(idle)
<1>1. q \in Seq(Event) /\ idle' = idle \o q /\ idle \in Seq(Event) /\ n \in Nat
  <2>1. waiting[k] \in Seq(Req) /\ idle \in Seq(Event)
    BY DEF TypeOK
  <2>2. q \in Seq(Event)
    BY <2>1, NotifyEvents
  <2>3. idle' = idle \o q
    BY DEF Notify
  <2> HIDE DEF q
  <2> QED BY <2>1, <2>2, <2>3
<1>2. /\ DOMAIN q = DOMAIN waiting[k]
      /\ \A i \in DOMAIN q : q[i].type = "done" /\ q[i].req = waiting[k][i]
  BY DEF Done, TypeOK
<1>3. waiting'[k] = <<>> /\ \A j \in Key \ {k} : waiting'[j] = waiting[j]
  BY DEF Notify, TypeOK
<1> HIDE DEF q
<1>4. \A i \in DOMAIN idle' : \/ i \in DOMAIN idle /\ idle'[i] = idle[i]
                              \/ i \notin DOMAIN idle /\ i - n \in DOMAIN q /\ idle'[i] = q[i - n]
  BY <1>1, Extended
<1>5. /\ DOMAIN idle' \subseteq Nat /\ DOMAIN idle = 1 .. n /\ DOMAIN q \subseteq Nat
      /\ \A i \in DOMAIN idle : i \in DOMAIN idle' /\ idle'[i] = idle[i]
      /\ \A i \in DOMAIN q : n + i \in DOMAIN idle' /\ idle'[n + i] = q[i]
  BY <1>1
<1>6. ASSUME NEW i \in DOMAIN idle', i \notin DOMAIN idle
      PROVE  /\ i - n \in DOMAIN waiting[k] /\ idle'[i].req = waiting[k][i - n]
             /\ made[idle'[i].req] = k
  BY <1>2, <1>4, <1>6 DEF WaitersAsked
<1>7. Placed'
  <2> SUFFICES ASSUME NEW r \in DOMAIN made, answers[r] = <<>>
               PROVE  Queues(r)' \/ Waits(r)'
    BY DEF Placed
  <2>1. CASE Queues(r)
    BY <1>5, <2>1 DEF Queues, Callback
  <2>2. CASE Waits(r)
    <3>1. PICK l \in Key : \E i \in DOMAIN waiting[l] : waiting[l][i] = r
      BY <2>2 DEF Waits
    <3>2. CASE l = k
      <4>1. PICK i \in DOMAIN waiting[k] : waiting[k][i] = r
        BY <3>1, <3>2
      <4>2. n + i \in DOMAIN idle' /\ idle'[n + i].type = "done" /\ idle'[n + i].req = r
        BY <1>2, <1>5, <4>1
      <4> QED BY <4>2 DEF Queues, Callback
    <3>3. CASE l # k
      BY <1>3, <3>1, <3>3 DEF Waits
    <3> QED BY <3>2, <3>3
  <2> QED BY <2>1, <2>2 DEF OrderInv, Placed
<1>8. QueueOrder'
  <2> SUFFICES ASSUME NEW i \in DOMAIN idle', NEW j \in DOMAIN idle',
                      idle'[i].type = "done", idle'[j].type = "done",
                      made[idle'[i].req] = made[idle'[j].req], i < j
               PROVE  idle'[i].req < idle'[j].req
    BY DEF QueueOrder, Callback
  <2>1. CASE i \in DOMAIN idle /\ j \in DOMAIN idle
    <3>1. idle'[i] = idle[i] /\ idle'[j] = idle[j]
      BY <1>4, <2>1
    <3> QED BY <2>1, <3>1 DEF OrderInv, QueueOrder, Callback
  <2>2. CASE i \in DOMAIN idle /\ j \notin DOMAIN idle
    <3>1. idle'[i] = idle[i]
      BY <1>4, <2>2
    <3>2. /\ j - n \in DOMAIN waiting[k] /\ idle'[j].req = waiting[k][j - n]
          /\ made[idle[i].req] = k /\ Callback(i)
      BY <1>6, <2>2, <3>1 DEF Callback
    <3> QED BY <2>2, <3>1, <3>2 DEF OrderInv, QueueBeforeWait
  <2>3. CASE i \notin DOMAIN idle /\ j \in DOMAIN idle
    BY <1>1, <1>5, <2>3
  <2>4. CASE i \notin DOMAIN idle /\ j \notin DOMAIN idle
    <3>1. i - n < j - n
      BY <1>1, <1>5
    <3> QED BY <1>6, <2>4, <3>1 DEF OrderInv, WaitOrder
  <2> QED BY <2>1, <2>2, <2>3, <2>4
<1>9. WaitOrder'
  BY <1>3 DEF OrderInv, WaitOrder
<1>10. QueueBeforeWait'
  <2> SUFFICES ASSUME NEW l \in Key, NEW i \in DOMAIN idle', NEW j \in DOMAIN waiting'[l],
                      idle'[i].type = "done", made[idle'[i].req] = l
               PROVE  idle'[i].req < waiting'[l][j]
    BY DEF QueueBeforeWait, Callback
  <2>1. l # k /\ waiting'[l] = waiting[l]
    BY <1>3
  <2>2. i \in DOMAIN idle /\ idle'[i] = idle[i]
    BY <1>4, <1>6, <2>1
  <2> QED BY <2>1, <2>2 DEF OrderInv, QueueBeforeWait, Callback
<1>11. AnsweredInOrder'
  BY DEF OrderInv, AnsweredInOrder
<1> QED BY <1>7, <1>8, <1>9, <1>10, <1>11 DEF OrderInv

LEMMA TellOrdered ==
  ASSUME TypeOK, WaitersAsked, OrderInv, NEW k \in Key, Tell(k),
         UNCHANGED <<full, made, answers>>
  PROVE  OrderInv'
<1>1. ASSUME UNCHANGED <<waiting, idle>>
      PROVE  OrderInv'
  BY <1>1 DEF OrderInv, Placed, QueueOrder, WaitOrder, QueueBeforeWait, AnsweredInOrder,
              Queues, Waits, Callback
<1>2. CASE \E v \in Value \cup {Hole} : Notify(k, v)
  BY <1>2, NotifyOrdered
<1> QED BY <1>1, <1>2 DEF Tell, SetMethod, UnsetMethod, tables

\* A new request is younger than all in its way: it goes to the end of the queue
\* when nobody waits for its key, and else to the end of those who wait.
LEMMA GetOrdered ==
  ASSUME TypeOK, WaitersAsked, OnceInv, NoForgottenRequest, OrderInv, NEW k \in Key, Get(k)
  PROVE  OrderInv'
<1>0. PICK r \in Req : r = Len(made) + 1
  BY DEF Get
<1>1. /\ r \in Req /\ r \notin DOMAIN made /\ DOMAIN made' = DOMAIN made \cup {r}
      /\ answers[r] = <<>> /\ \A i \in DOMAIN made : made'[i] = made[i]
      /\ made'[r] = k /\ \A i \in DOMAIN made : i < r
      /\ full' = full
  <2>1. made' = Append(made, k) /\ made \in Seq(Key) /\ full' = full
    BY DEF Get, TypeOK
  <2>2. /\ r \notin DOMAIN made /\ DOMAIN made' = DOMAIN made \cup {r}
        /\ \A i \in DOMAIN made : made'[i] = made[i]
        /\ made'[r] = k /\ \A i \in DOMAIN made : i < r
    BY <1>0, <2>1
  <2> QED BY <2>1, <2>2 DEF OnceInv, UnmadeUnanswered
<1>2. /\ \A i \in DOMAIN idle : Callback(i) => idle[i].req \in DOMAIN made
      /\ \A l \in Key : \A i \in DOMAIN waiting[l] :
           waiting[l][i] \in DOMAIN made /\ made[waiting[l][i]] = l
  BY DEF OnceInv, QueuedUnanswered, WaitersAsked
<1>3. DOMAIN made \subseteq Nat /\ DOMAIN made \subseteq Req /\ r \in Nat
  <2>1. DOMAIN made \subseteq Nat /\ DOMAIN made \subseteq Req
    BY MadeAreRequests
  <2> QED BY <2>1 DEF Req
<1>4. UNCHANGED answers => AnsweredInOrder'
  <2> SUFFICES ASSUME full, UNCHANGED answers, NEW x \in DOMAIN made', NEW y \in DOMAIN made',
                      x < y, made'[x] = made'[y], answers[y] # <<>>
               PROVE  answers[x] # <<>>
    BY <1>1 DEF AnsweredInOrder
  <2>1. y \in DOMAIN made
    BY <1>1
  <2>2. x # r
    BY <1>1, <1>3, <2>1
  <2> QED BY <1>1, <2>1, <2>2 DEF OrderInv, AnsweredInOrder
<1>5. CASE Direct /\ answers' = [answers EXCEPT ![r] = Append(@, Known(k))]
           /\ UNCHANGED <<waiting, idle>>
  <2>2. \A s \in DOMAIN made : answers'[s] = answers[s]
    BY <1>1, <1>3, <1>5 DEF TypeOK
  <2>3. answers'[r] # <<>>
    <3>1. answers'[r] = Append(<<>>, Known(k))
      BY <1>1, <1>5 DEF TypeOK
    <3>2. \A x : Append(<<>>, x) # <<>>
      OBVIOUS
    <3> QED BY <3>1, <3>2
  <2>4. Placed'
    BY <1>1, <1>5, <2>2, <2>3 DEF OrderInv, Placed, Queues, Waits, Callback
  <2>5. QueueOrder' /\ WaitOrder' /\ QueueBeforeWait'
    BY <1>1, <1>2, <1>5 DEF OrderInv, QueueOrder, WaitOrder, QueueBeforeWait, Callback
  <2>6. AnsweredInOrder'
    BY <1>1, <1>5 DEF Direct, AnsweredInOrder
  <2> QED BY <2>4, <2>5, <2>6 DEF OrderInv
<1>6. CASE Known(k) # Unknown /\ idle' = Append(idle, Done(r, k, Known(k)))
           /\ UNCHANGED <<waiting, answers>>
  <2> DEFINE e == Done(r, k, Known(k))
  <2>1. e.type = "done" /\ e.req = r
    BY DEF Done
  <2>2. idle' = Append(idle, e) /\ idle \in Seq(Event) /\ waiting[k] = <<>>
    BY <1>6 DEF NoForgottenRequest, TypeOK
  <2> HIDE DEF e
  <2>3. /\ idle'[Len(idle) + 1] = e
        /\ \A i \in DOMAIN idle' : (i \in DOMAIN idle /\ idle'[i] = idle[i]) \/ i = Len(idle) + 1
    BY <2>2, AppendedQueue
  <2>4. /\ Len(idle) \in Nat /\ DOMAIN idle = 1 .. Len(idle) /\ DOMAIN idle' = 1 .. Len(idle) + 1
        /\ \A i \in DOMAIN idle : i \in DOMAIN idle' /\ idle'[i] = idle[i]
    BY <2>2
  <2>5. Placed'
    <3>1. Queues(r)'
      BY <2>1, <2>3, <2>4 DEF Queues, Callback
    <3>2. \A s : Queues(s) => Queues(s)'
      BY <2>4 DEF Queues, Callback
    <3>3. \A s : Waits(s) => Waits(s)'
      BY <1>6 DEF Waits
    <3> QED BY <1>1, <1>6, <3>1, <3>2, <3>3 DEF OrderInv, Placed
  <2>6. QueueOrder'
    <3> SUFFICES ASSUME NEW i \in DOMAIN idle', NEW j \in DOMAIN idle',
                        idle'[i].type = "done", idle'[j].type = "done",
                        made'[idle'[i].req] = made'[idle'[j].req], i < j
                 PROVE  idle'[i].req < idle'[j].req
      BY DEF QueueOrder, Callback
    <3>1. i \in DOMAIN idle /\ idle'[i] = idle[i]
      BY <2>3, <2>4
    <3>2. Callback(i) /\ idle[i].req \in DOMAIN made
      BY <1>2, <3>1 DEF Callback
    <3>3. CASE j \in DOMAIN idle
      <4>1. idle'[j] = idle[j] /\ Callback(j) /\ idle[j].req \in DOMAIN made
        BY <1>2, <2>4, <3>3 DEF Callback
      <4>2. made[idle[i].req] = made[idle[j].req]
        BY <1>1, <3>1, <3>2, <4>1
      <4> QED BY <3>1, <3>2, <3>3, <4>1, <4>2 DEF OrderInv, QueueOrder
    <3>4. CASE j \notin DOMAIN idle
      <4>1. idle'[j].req = r
        BY <2>1, <2>3, <3>4
      <4> QED BY <1>1, <3>1, <3>2, <4>1
    <3> QED BY <3>3, <3>4
  <2>7. WaitOrder'
    BY <1>6 DEF OrderInv, WaitOrder
  <2>8. QueueBeforeWait'
    <3> SUFFICES ASSUME NEW l \in Key, NEW i \in DOMAIN idle', NEW j \in DOMAIN waiting[l],
                        idle'[i].type = "done", made'[idle'[i].req] = l
                 PROVE  idle'[i].req < waiting[l][j]
      BY <1>6 DEF QueueBeforeWait, Callback
    <3>1. l # k
      BY <2>2
    <3>2. i \in DOMAIN idle /\ idle'[i] = idle[i]
      BY <1>1, <2>1, <2>3, <3>1
    <3>3. Callback(i) /\ idle[i].req \in DOMAIN made
      BY <1>2, <3>2 DEF Callback
    <3>4. made[idle[i].req] = l
      BY <1>1, <3>2, <3>3
    <3> QED BY <3>2, <3>3, <3>4 DEF OrderInv, QueueBeforeWait
  <2> QED BY <1>4, <1>6, <2>5, <2>6, <2>7, <2>8 DEF OrderInv
<1>7. CASE /\ waiting' = [waiting EXCEPT ![k] = Append(@, r)]
           /\ idle' = IF FirstToWait(k) THEN Append(idle, Question(k)) ELSE idle
           /\ UNCHANGED answers
  <2>1. /\ \A l \in Key \ {k} : waiting'[l] = waiting[l]
        /\ waiting'[k] = Append(waiting[k], r) /\ waiting[k] \in Seq(Req)
    BY <1>7 DEF TypeOK
  <2>2. /\ \A l \in Key : \A i \in DOMAIN waiting'[l] :
             (i \in DOMAIN waiting[l] /\ waiting'[l][i] = waiting[l][i])
             \/ (l = k /\ i = Len(waiting[k]) + 1 /\ waiting'[l][i] = r)
        /\ \A l \in Key : \A i \in DOMAIN waiting[l] :
             i \in DOMAIN waiting'[l] /\ waiting'[l][i] = waiting[l][i]
        /\ Len(waiting[k]) + 1 \in DOMAIN waiting'[k] /\ waiting'[k][Len(waiting[k]) + 1] = r
        /\ DOMAIN waiting[k] = 1 .. Len(waiting[k]) /\ Len(waiting[k]) \in Nat
    <3>1. /\ DOMAIN waiting[k] = 1 .. Len(waiting[k]) /\ Len(waiting[k]) \in Nat
          /\ DOMAIN waiting'[k] = 1 .. Len(waiting[k]) + 1
          /\ waiting'[k][Len(waiting[k]) + 1] = r
          /\ \A i \in 1 .. Len(waiting[k]) : waiting'[k][i] = waiting[k][i]
      BY <2>1
    <3>2. \A i \in DOMAIN waiting'[k] : i \in DOMAIN waiting[k] \/ i = Len(waiting[k]) + 1
      BY <3>1
    <3>3. \A l \in Key \ {k} : waiting'[l] = waiting[l]
      BY <2>1
    <3>4. \A i \in DOMAIN waiting'[k] :
            (i \in DOMAIN waiting[k] /\ waiting'[k][i] = waiting[k][i])
            \/ (i = Len(waiting[k]) + 1 /\ waiting'[k][i] = r)
      BY <3>1, <3>2
    <3>5. /\ \A i \in DOMAIN waiting[k] : i \in DOMAIN waiting'[k] /\ waiting'[k][i] = waiting[k][i]
          /\ Len(waiting[k]) + 1 \in DOMAIN waiting'[k]
      BY <3>1
    <3> QED BY <3>1, <3>3, <3>4, <3>5
  <2>3. Question(k).type # "done" /\ idle \in Seq(Event)
    BY DEF Question, TypeOK
  <2>4. /\ \A i \in DOMAIN idle' : Callback(i)' => i \in DOMAIN idle /\ idle'[i] = idle[i] /\ Callback(i)
        /\ \A i \in DOMAIN idle : i \in DOMAIN idle' /\ idle'[i] = idle[i]
    <3>1. CASE FirstToWait(k)
      <4>1. /\ \A i \in DOMAIN idle' : (i \in DOMAIN idle /\ idle'[i] = idle[i]) \/ idle'[i] = Question(k)
            /\ \A i \in DOMAIN idle : i \in DOMAIN idle' /\ idle'[i] = idle[i]
        BY <1>7, <2>3, <3>1
      <4> QED BY <2>3, <4>1 DEF Callback
    <3>2. CASE ~FirstToWait(k)
      BY <1>7, <3>2 DEF Callback
    <3> QED BY <3>1, <3>2
  <2>5. Placed'
    <3>1. \A s : Queues(s) => Queues(s)'
      BY <2>4 DEF Queues, Callback
    <3>2. \A s : Waits(s) => Waits(s)'
      BY <2>2 DEF Waits
    <3>3. Waits(r)'
      BY <2>2 DEF Waits
    <3> QED BY <1>1, <1>7, <3>1, <3>2, <3>3 DEF OrderInv, Placed
  <2>6. QueueOrder'
    <3> SUFFICES ASSUME NEW i \in DOMAIN idle', NEW j \in DOMAIN idle', Callback(i)', Callback(j)',
                        made'[idle'[i].req] = made'[idle'[j].req], i < j
                 PROVE  idle'[i].req < idle'[j].req
      BY DEF QueueOrder
    <3>1. /\ i \in DOMAIN idle /\ idle'[i] = idle[i] /\ Callback(i)
          /\ j \in DOMAIN idle /\ idle'[j] = idle[j] /\ Callback(j)
      BY <2>4
    <3>2. made[idle[i].req] = made[idle[j].req]
      BY <1>1, <1>2, <3>1
    <3> QED BY <3>1, <3>2 DEF OrderInv, QueueOrder
  <2>7. WaitOrder'
    <3> SUFFICES ASSUME NEW l \in Key, NEW i \in DOMAIN waiting'[l], NEW j \in DOMAIN waiting'[l],
                        i < j
                 PROVE  waiting'[l][i] < waiting'[l][j]
      BY DEF WaitOrder
    <3>1. CASE j \in DOMAIN waiting[l]
      <4>1. i \in DOMAIN waiting[l]
        BY <2>2, <3>1
      <4> QED BY <2>2, <3>1, <4>1 DEF OrderInv, WaitOrder
    <3>2. CASE j \notin DOMAIN waiting[l]
      <4>1. l = k /\ j = Len(waiting[k]) + 1 /\ waiting'[l][j] = r
        BY <2>2, <3>2
      <4>2. i \in DOMAIN waiting[l] /\ waiting'[l][i] = waiting[l][i]
        BY <2>2, <4>1
      <4> QED BY <1>1, <1>2, <4>1, <4>2
    <3> QED BY <3>1, <3>2
  <2>8. QueueBeforeWait'
    <3> SUFFICES ASSUME NEW l \in Key, NEW i \in DOMAIN idle', NEW j \in DOMAIN waiting'[l],
                        Callback(i)', made'[idle'[i].req] = l
                 PROVE  idle'[i].req < waiting'[l][j]
      BY DEF QueueBeforeWait
    <3>1. i \in DOMAIN idle /\ idle'[i] = idle[i] /\ Callback(i) /\ idle[i].req \in DOMAIN made
      BY <1>2, <2>4
    <3>2. made[idle[i].req] = l
      BY <1>1, <3>1
    <3>3. CASE j \in DOMAIN waiting[l] /\ waiting'[l][j] = waiting[l][j]
      BY <3>1, <3>2, <3>3 DEF OrderInv, QueueBeforeWait
    <3>4. CASE waiting'[l][j] = r
      BY <1>1, <3>1, <3>4
    <3> QED BY <2>2, <3>3, <3>4
  <2> QED BY <1>4, <1>7, <2>5, <2>6, <2>7, <2>8 DEF OrderInv
<1> QED BY <1>0, <1>5, <1>6, <1>7 DEF Get

\* The callback that is run is the eldest of its key.
LEMMA IdleOrdered ==
  ASSUME TypeOK, WaitersAsked, OnceInv, OrderInv, Idle
  PROVE  OrderInv'
<1> DEFINE e == Head(idle)
<1>1. /\ idle \in Seq(Event) /\ idle # <<>> /\ e = idle[1] /\ e \in Event /\ 1 \in DOMAIN idle
      /\ UNCHANGED <<full, waiting, made>>
      /\ \A i \in DOMAIN idle' : i + 1 \in DOMAIN idle /\ idle'[i] = idle[i + 1] /\ i \in Nat \ {0}
      /\ \A i \in DOMAIN idle : i \in Nat /\ (i # 1 => i > 1 /\ i - 1 \in DOMAIN idle' /\ idle'[i - 1] = idle[i])
  BY DEF Idle, TypeOK, tables
<1>2. DOMAIN made \subseteq Req /\ DOMAIN made \subseteq Nat
  BY MadeAreRequests
<1> HIDE DEF e
<1>3. QueueOrder' /\ WaitOrder' /\ QueueBeforeWait'
  <2>1. \A i \in DOMAIN idle' : Callback(i)' => Callback(i + 1)
    BY <1>1 DEF Callback
  <2>2. \A i, j \in DOMAIN idle' : i < j => i + 1 < j + 1
    BY <1>1
  <2>3. QueueOrder'
    BY <1>1, <2>1, <2>2 DEF OrderInv, QueueOrder
  <2>4. QueueBeforeWait'
    <3> SUFFICES ASSUME NEW k \in Key, NEW i \in DOMAIN idle', NEW j \in DOMAIN waiting[k],
                        Callback(i)', made[idle'[i].req] = k
                 PROVE  idle'[i].req < waiting[k][j]
      BY <1>1 DEF QueueBeforeWait
    <3>1. i + 1 \in DOMAIN idle /\ idle'[i] = idle[i + 1] /\ Callback(i + 1)
      BY <1>1, <2>1
    <3> QED BY <3>1 DEF OrderInv, QueueBeforeWait
  <2> QED BY <1>1, <2>3, <2>4 DEF OrderInv, WaitOrder
<1>4. \A r : Waits(r) => Waits(r)'
  BY <1>1 DEF Waits
<1>5. \A r : Queues(r) => Queues(r)' \/ (e.type = "done" /\ e.req = r)
  BY <1>1 DEF Queues, Callback
<1>6. CASE e.type = "question" /\ answers' = answers
  <2>1. Placed'
    BY <1>1, <1>4, <1>5, <1>6 DEF OrderInv, Placed
  <2>2. AnsweredInOrder'
    BY <1>1, <1>6 DEF OrderInv, AnsweredInOrder
  <2> QED BY <1>3, <2>1, <2>2 DEF OrderInv
<1>7. CASE e.type = "done" /\ answers' = [answers EXCEPT ![e.req] = Append(@, e.value)]
  <2>1. e.req \in DOMAIN made /\ answers[e.req] = <<>> /\ Callback(1)
    BY <1>1, <1>7 DEF OnceInv, QueuedUnanswered, Callback
  <2>2. \A s \in DOMAIN made : answers'[s] = IF s = e.req THEN Append(answers[s], e.value) ELSE answers[s]
    BY <1>2, <1>7 DEF TypeOK
  <2>3. answers'[e.req] # <<>>
    <3>1. \A x : Append(<<>>, x) # <<>>
      OBVIOUS
    <3>2. answers'[e.req] = Append(<<>>, e.value)
      BY <2>1, <2>2
    <3> QED BY <3>1, <3>2
  <2>4. Placed'
    BY <1>1, <1>4, <1>5, <2>2, <2>3 DEF OrderInv, Placed
  <2>5. AnsweredInOrder'
    <3> SUFFICES ASSUME full, NEW r \in DOMAIN made, NEW s \in DOMAIN made,
                        r < s, made[r] = made[s], answers'[s] # <<>>
                 PROVE  answers'[r] # <<>>
      BY <1>1 DEF AnsweredInOrder
    <3>1. CASE s # e.req
      <4>1. answers[r] # <<>>
        BY <2>2, <3>1 DEF OrderInv, AnsweredInOrder
      <4> QED BY <2>2, <2>3, <4>1
    <3>2. CASE s = e.req
      <4>1. ~Queues(r)
        <5> SUFFICES ASSUME NEW i \in DOMAIN idle, Callback(i), idle[i].req = r
                     PROVE  FALSE
          BY DEF Queues
        <5>1. i # 1
          BY <1>1, <1>2, <3>2
        <5>2. 1 < i
          BY <1>1, <5>1
        <5>3. s < r
          BY <1>1, <2>1, <3>2, <5>2 DEF OrderInv, QueueOrder
        <5> QED BY <1>2, <5>3
      <4>2. ~Waits(r)
        <5> SUFFICES ASSUME NEW k \in Key, NEW i \in DOMAIN waiting[k], waiting[k][i] = r
                     PROVE  FALSE
          BY DEF Waits
        <5>1. made[r] = k
          BY DEF WaitersAsked
        <5>2. s < r
          BY <1>1, <2>1, <3>2, <5>1 DEF OrderInv, QueueBeforeWait
        <5> QED BY <1>2, <5>2
      <4>3. answers[r] # <<>>
        BY <4>1, <4>2 DEF OrderInv, Placed
      <4> QED BY <2>2, <2>3, <4>3
    <3> QED BY <3>1, <3>2
  <2> QED BY <1>3, <2>4, <2>5 DEF OrderInv
<1> QED BY <1>6, <1>7 DEF Idle, e

LEMMA OrderInit == Init => OrderInv
BY DEF Init, OrderInv, Placed, QueueOrder, WaitOrder, QueueBeforeWait, AnsweredInOrder

LEMMA OrderInductive ==
  ASSUME TypeOK, WaitersAsked, OnceInv, NoForgottenRequest, OrderInv, [Next]_vars
  PROVE  OrderInv'
<1>1. CASE UNCHANGED <<full, waiting, idle, made, answers>>
  BY <1>1 DEF OrderInv, Placed, QueueOrder, WaitOrder, QueueBeforeWait, AnsweredInOrder,
              Queues, Waits, Callback
<1>2. CASE Idle
  BY <1>2, IdleOrdered
<1>3. ASSUME NEW k \in Key, Fill(k) \/ Answer(k)
      PROVE  OrderInv'
  BY <1>3, TellOrdered DEF Fill, Answer
<1>4. ASSUME NEW k \in Key, Get(k)
      PROVE  OrderInv'
  BY <1>4, GetOrdered
<1> QED BY <1>1, <1>2, <1>3, <1>4 DEF Next, Clear, vars, tables

\* In a fully asynchronous cache no get of a key is answered before an earlier
\* one, whether they waited or found the key known.
THEOREM AnswersKeepOrder == Spec => []AnsweredInOrder
<1>1. KnownInv => WaitersAsked
  BY DEF KnownInv
<1>2. OrderInv => AnsweredInOrder
  BY DEF OrderInv
<1> QED BY <1>1, <1>2, TypeInit, TypeInductive, KnownInit, KnownInductive, OnceInit,
           OnceInductive, NoForgottenInit, NoForgottenInductive, OrderInit, OrderInductive,
           PTL DEF Spec
=============================================================================

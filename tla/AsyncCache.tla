----------------------------- MODULE AsyncCache -----------------------------
(***************************************************************************)
(* The asynchronous in-memory cache: modules/cache/async.tcl.              *)
(*                                                                         *)
(* A user asks for a key with a callback.  When the key is known, with a   *)
(* value or as a hole, the callback is run for it; otherwise it waits, and *)
(* the first to wait has the provider asked.  The provider answers when it *)
(* likes, with the methods set and unset, which users may call as well to  *)
(* fill the cache beforehand.  Questions and callbacks go through the idle *)
(* queue of the event loop, except for the callback of a known key in a    *)
(* cache that is not fully asynchronous, which is run at once.             *)
(***************************************************************************)
EXTENDS Integers, Sequences

CONSTANTS
  Key,      \* keys
  Value,    \* values
  Hole,     \* known to have no value
  Unknown,  \* not known to the cache
  MaxReq    \* bound: calls of the method get

ASSUME MaxReqAssumption == MaxReq \in Nat
ASSUME ValueAssumption  == Hole \notin Value /\ Unknown \notin Value \cup {Hole}

Req == 1 .. MaxReq

Question(k)  == [type |-> "question", key |-> k]
Done(r, k, v) == [type |-> "done", req |-> r, key |-> k, value |-> v]
Event == [type : {"question"}, key : Key]
         \cup [type : {"done"}, req : Req, key : Key, value : Value \cup {Hole}]

VARIABLES
  full,     \* the option -full-async-results
  waiting,  \* k -> mywaiting: the requests whose callbacks wait for k
  hit,      \* k -> myhit: the value, or Unknown
  miss,     \* mymiss: the keys known as holes
  idle,     \* the 'after idle' queue: questions and callbacks
  asked,    \* k -> the questions the provider has and did not answer yet
  \* history
  made,     \* r -> the key of the r-th get
  latest,   \* k -> what the cache was last told of k, Unknown after a clear
  seen,     \* r -> what the cache was told of r's key since r was made
  answers,  \* r -> what its callback was run with
  prefilled \* the keys that were set or unset without a question

tables == <<waiting, hit, miss>>
vars == <<full, tables, idle, asked, made, latest, seen, answers, prefilled>>

Init ==
  /\ full \in BOOLEAN
  /\ waiting   = [k \in Key |-> <<>>]
  /\ hit       = [k \in Key |-> Unknown]
  /\ miss      = {}
  /\ idle      = <<>>
  /\ asked     = [k \in Key |-> 0]
  /\ made      = <<>>
  /\ latest    = [k \in Key |-> Unknown]
  /\ seen      = [r \in Req |-> {}]
  /\ answers   = [r \in Req |-> <<>>]
  /\ prefilled = {}

---------------------------------------------------------------------------

Known(k) == IF k \in miss THEN Hole ELSE hit[k]

\* Mutant of Direct: the option is not looked at.
DirectAlways == TRUE

\* The callback of a known key is run at once.
Direct == ~full

\* Mutant of FirstToWait: everyone who waits has the provider asked.
FirstToWaitAll(k) == TRUE

\* No question for k is on its way on behalf of others.
FirstToWait(k) == waiting[k] = <<>>

\* get key donecmd
Get(k) ==
  LET r == Len(made) + 1
  IN /\ r \in Req
     /\ made' = Append(made, k)
     /\ seen' = [seen EXCEPT ![r] = {latest[k]}]
     /\ \/ /\ Known(k) # Unknown /\ Direct
           /\ answers' = [answers EXCEPT ![r] = Append(@, Known(k))]
           /\ UNCHANGED <<waiting, idle>>
        \/ /\ Known(k) # Unknown /\ ~Direct
           /\ idle' = Append(idle, Done(r, k, Known(k)))
           /\ UNCHANGED <<waiting, answers>>
        \/ /\ Known(k) = Unknown
           /\ waiting' = [waiting EXCEPT ![k] = Append(@, r)]
           /\ idle' = IF FirstToWait(k) THEN Append(idle, Question(k)) ELSE idle
           /\ UNCHANGED answers
     /\ UNCHANGED <<full, hit, miss, asked, latest, prefilled>>

\* clear, of one key or of all
Clear(K) ==
  /\ hit'    = [k \in Key |-> IF k \in K THEN Unknown ELSE hit[k]]
  /\ miss'   = miss \ K
  /\ latest' = [k \in Key |-> IF k \in K THEN Unknown ELSE latest[k]]
  /\ UNCHANGED <<full, waiting, idle, asked, made, seen, answers, prefilled>>

\* Mutants of Notify: the callbacks stay registered; only the first is run.
NotifyKeeps(k, v) ==
  /\ idle' = idle \o [i \in 1 .. Len(waiting[k]) |-> Done(waiting[k][i], k, v)]
  /\ UNCHANGED waiting

NotifyFirst(k, v) ==
  /\ idle' = idle \o [i \in 1 .. Len(waiting[k]) \cap {1} |-> Done(waiting[k][i], k, v)]
  /\ waiting' = [waiting EXCEPT ![k] = IF @ = <<>> THEN @ ELSE Tail(@)]

\* NotifySet and NotifyUnset: everyone who waits for k is told.
Notify(k, v) ==
  /\ idle' = idle \o [i \in 1 .. Len(waiting[k]) |-> Done(waiting[k][i], k, v)]
  /\ waiting' = [waiting EXCEPT ![k] = <<>>]

Told(k, v) ==
  /\ latest' = [latest EXCEPT ![k] = v]
  /\ seen' = [r \in Req |-> IF r \in DOMAIN made /\ made[r] = k
                              THEN seen[r] \cup {v} ELSE seen[r]]

\* Mutant of SetMethod: the mark for a hole is kept.
SetKeepsMiss(k, v) ==
  /\ Told(k, v)
  /\ IF hit[k] = v
       THEN UNCHANGED tables /\ UNCHANGED idle
       ELSE /\ hit' = [hit EXCEPT ![k] = v]
            /\ UNCHANGED miss
            /\ Notify(k, v)

\* set key value: nothing is done if the value is the same.
SetMethod(k, v) ==
  /\ Told(k, v)
  /\ IF hit[k] = v
       THEN UNCHANGED tables /\ UNCHANGED idle
       ELSE /\ hit' = [hit EXCEPT ![k] = v]
            /\ miss' = miss \ {k}
            /\ Notify(k, v)

\* unset key
UnsetMethod(k) ==
  /\ Told(k, Hole)
  /\ hit' = [hit EXCEPT ![k] = Unknown]
  /\ miss' = miss \cup {k}
  /\ Notify(k, Hole)

\* What the cache is told of k.
Tell(k) == (\E v \in Value : SetMethod(k, v)) \/ UnsetMethod(k)

\* A user fills the cache.
Fill(k) ==
  /\ Tell(k)
  /\ prefilled' = prefilled \cup {k}
  /\ UNCHANGED <<full, asked, made, answers>>

\* The provider answers a question.
Answer(k) ==
  /\ asked[k] > 0
  /\ asked' = [asked EXCEPT ![k] = @ - 1]
  /\ Tell(k)
  /\ UNCHANGED <<full, made, answers, prefilled>>

\* The event loop is idle: a question reaches the provider, a callback is run.
Idle ==
  /\ idle # <<>>
  /\ idle' = Tail(idle)
  /\ LET e == Head(idle)
     IN \/ /\ e.type = "question"
           /\ asked' = [asked EXCEPT ![e.key] = @ + 1]
           /\ UNCHANGED answers
        \/ /\ e.type = "done"
           /\ answers' = [answers EXCEPT ![e.req] = Append(@, e.value)]
           /\ UNCHANGED asked
  /\ UNCHANGED <<full, tables, made, latest, seen, prefilled>>

Next ==
  \/ Idle
  \/ Clear(Key)
  \/ \E k \in Key : Get(k) \/ Clear({k}) \/ Fill(k) \/ Answer(k)

Spec == Init /\ [][Next]_vars

\* The event loop runs, and the provider answers what it is asked.
Fairness == WF_vars(Idle) /\ \A k \in Key : WF_vars(Answer(k))
FairSpec == Spec /\ Fairness

---------------------------------------------------------------------------
(***************************************************************************)
(* Properties.                                                             *)
(***************************************************************************)

\* The shape of the state.
TypeOK ==
  /\ full \in BOOLEAN
  /\ waiting \in [Key -> Seq(Req)]
  /\ hit \in [Key -> Value \cup {Unknown}]
  /\ miss \subseteq Key
  /\ idle \in Seq(Event)
  /\ asked \in [Key -> Nat]
  /\ made \in Seq(Key) /\ Len(made) <= MaxReq
  /\ latest \in [Key -> Value \cup {Hole, Unknown}]
  /\ seen \in [Req -> SUBSET (Value \cup {Hole, Unknown})]
  /\ answers \in [Req -> Seq(Value \cup {Hole})]
  /\ prefilled \subseteq Key

Queued(e) == \E i \in DOMAIN idle : idle[i] = e

\* Nobody is forgotten: whoever waits for a key waits for one the cache does not
\* know, and a question for it is queued or with the provider, also when the
\* key was filled or cleared, or asked for again, in the meantime.
NoForgottenRequest ==
  \A k \in Key : waiting[k] # <<>> =>
    /\ Known(k) = Unknown
    /\ Queued(Question(k)) \/ asked[k] > 0

\* Every get is answered at most once.
AnsweredOnce == \A r \in Req : Len(answers[r]) <= 1

\* The answer is something the cache was told of the key since the get, or held
\* when it was made: never what a later clear, set or unset replaced before.
AnswerWasKnown ==
  \A r \in Req : \A i \in DOMAIN answers[r] : answers[r][i] \in seen[r]

\* In a fully asynchronous cache the gets of a key are answered in their order,
\* those that waited and those that found it known alike.
AnsweredInOrder ==
  full => \A r, s \in DOMAIN made :
    r < s /\ made[r] = made[s] /\ answers[s] # <<>> => answers[r] # <<>>

\* However many ask for a key before it is known, the provider is asked once,
\* unless someone else fills the key while the question is on its way.
AskedOnce ==
  \A k \in Key \ prefilled :
    /\ asked[k] <= 1
    /\ asked[k] = 1 => ~Queued(Question(k))
    /\ \A i, j \in DOMAIN idle :
         idle[i] = Question(k) /\ idle[j] = Question(k) => i = j

\* Every get is answered.
GetsAnswered ==
  \A r \in Req : r \in DOMAIN made ~> answers[r] # <<>>
=============================================================================

---------------------------- MODULE StructQueue ----------------------------
(***************************************************************************)
(* struct::queue, the implementation in C (modules/struct/queue/m.c, q.c,  *)
(* ms.c).  A queue is kept in three lists and an index: `unget`, a stack   *)
(* of the items put back; `queue`, the buffer items are read from, of      *)
(* which the first `at` are gone; `append`, where items are put.  When the *)
(* buffer is used up `append` becomes the buffer.                          *)
(*                                                                         *)
(* An item is an element of Item.  The number of arguments and the text of *)
(* errors are left out; a count that is no positive integer is 0 here.     *)
(***************************************************************************)
EXTENDS TclList

CONSTANTS NoQueue,   \* there is no queue command
          MaxItems,  \* bound: items in the queue
          MaxUnget   \* bound: items on the unget stack

ASSUME QueueAssumption == /\ MaxItems \in Nat
                          /\ MaxUnget \in Nat
                          /\ NoQueue \notin [unget : Seq(Item), queue : Seq(Item),
                                             append : Seq(Item), at : Nat]
                          /\ NoQueue \notin Seq(Item)

VARIABLES q,          \* the queue: [unget, queue, append, at], or NoQueue
          qAnswer     \* [call, ok, value]: the last method and what it answered

qVars == <<q, qAnswer>>

qOk(call, value) == [call |-> call, ok |-> TRUE, value |-> value]
qError(call)     == [call |-> call, ok |-> FALSE, value |-> <<>>]

qEmpty == [unget |-> <<>>, queue |-> <<>>, append |-> <<>>, at |-> 0]

-----------------------------------------------------------------------------
(* Helpers *)

qsize(s) == Len(s.unget) + Len(s.queue) + Len(s.append) - s.at

\* Mutant: swaps although the buffer is not used up.
SwapsEarly(s) == IF s.append /= <<>>
                 THEN [s EXCEPT !.at = 0, !.queue = s.append, !.append = <<>>]
                 ELSE s

\* The buffer is used up and there is something to read: swap.
qshift(s) == IF s.at >= Len(s.queue) /\ s.append /= <<>>
             THEN [s EXCEPT !.at = 0, !.queue = s.append, !.append = <<>>]
             ELSE s

\* At most n items of the buffer, from where reading stands.
FromBuffer(s, n) == SubSeq(s.queue, s.at + 1, Min({s.at + n, Len(s.queue)}))

\* One pull of get from the buffer: shift, read, move the index, shift.
Pull(s, n) ==
  LET t == qshift(s)
      r == FromBuffer(t, n)
  IN  [value |-> r, q |-> qshift([t EXCEPT !.at = @ + Len(r)])]

\* The request for one item.
PeekOne(s, get) ==
  IF s.unget /= <<>>
  THEN [value |-> <<Last(s.unget)>>,
        q     |-> IF get THEN [s EXCEPT !.unget = Front(@)] ELSE s]
  ELSE LET t == qshift(s)
       IN  [value |-> <<t.queue[t.at + 1]>>,
            q     |-> IF get THEN qshift([t EXCEPT !.at = @ + 1]) ELSE t]

\* The request for several: the unget stack from its top, then the buffer,
\* then what was appended.  `j` is where the loop over the stack stopped.
PeekMany(s, n, get) ==
  LET u == SubSeq(Reverse(s.unget), 1, Min({n, Len(s.unget)}))
      j == Len(s.unget) - 1 - Len(u)
      t == IF get THEN [s EXCEPT !.unget = ListDrop(@, j, Len(u))] ELSE s
      a == Pull(t, n - Len(u))
      b == IF Len(u) + Len(a.value) < n
           THEN Pull(a.q, n - Len(u) - Len(a.value))
           ELSE [value |-> <<>>, q |-> a.q]
      p == qshift(s)
      f == FromBuffer(p, n - Len(u))
  IN  IF Len(u) = n THEN [value |-> u, q |-> t]
      ELSE IF get   THEN [value |-> u \o a.value \o b.value, q |-> b.q]
      ELSE [value |-> u \o f \o SubSeq(p.append, 1, n - Len(u) - Len(f)), q |-> p]

-----------------------------------------------------------------------------
(* The methods *)

QueueInit == q = NoQueue /\ qAnswer = qOk(<<"new">>, <<>>)

qu_new == /\ q = NoQueue
          /\ q' = qEmpty
          /\ qAnswer' = qOk(<<"new">>, <<>>)

qum_CLEAR == /\ q /= NoQueue
             /\ q' = qEmpty
             /\ qAnswer' = qOk(<<"clear">>, <<>>)

\* The command goes, and its deletion frees the queue.
qum_DESTROY == /\ q /= NoQueue
               /\ q' = NoQueue
               /\ qAnswer' = qOk(<<"destroy">>, <<>>)

qum_PEEK(n, get) ==
  LET call == <<IF get THEN "get" ELSE "peek", n>>
  IN  /\ q /= NoQueue
      /\ IF n < 1 \/ n > qsize(q)
         THEN qAnswer' = qError(call) /\ UNCHANGED q
         ELSE LET r == IF n = 1 THEN PeekOne(q, get) ELSE PeekMany(q, n, get)
              IN  qAnswer' = qOk(call, r.value) /\ q' = r.q

qum_PUT(new) ==
  /\ q /= NoQueue
  /\ qsize(q) + Len(new) <= MaxItems
  /\ q' = [q EXCEPT !.append = @ \o new]
  /\ qAnswer' = qOk(<<"put">> \o new, <<>>)

\* Room in front of the buffer is used before the stack is.
qum_UNGET(item) ==
  /\ q /= NoQueue
  /\ qsize(q) < MaxItems
  /\ \/ /\ q.at = 0
        /\ Len(q.unget) < MaxUnget
        /\ q' = [q EXCEPT !.unget = Append(@, item)]
     \/ /\ q.at > 0
        /\ q' = [q EXCEPT !.at = @ - 1, !.queue[q.at] = item]
  /\ qAnswer' = qOk(<<"unget", item>>, <<>>)

qum_SIZE == /\ q /= NoQueue
            /\ qAnswer' = qOk(<<"size">>, <<qsize(q)>>)
            /\ UNCHANGED q

\* The dispatch on the name of the method.
qums_objcmd ==
  \/ qum_CLEAR
  \/ qum_DESTROY
  \/ \E n \in 0 .. MaxItems + 1, get \in BOOLEAN : qum_PEEK(n, get)
  \/ \E x \in Item : qum_PUT(<<x>>)
  \/ \E x, y \in Item : qum_PUT(<<x, y>>)
  \/ \E x \in Item : qum_UNGET(x)
  \/ qum_SIZE

QueueNext == qu_new \/ qums_objcmd

QueueSpec == QueueInit /\ [][QueueNext]_qVars

-----------------------------------------------------------------------------
(* Properties *)

Queue == [unget : Seq(Item), queue : Seq(Item), append : Seq(Item), at : Nat]

QueueTypeOK == q \in Queue \cup {NoQueue}

\* What the three lists hold, the front first.
QueueItems == IF q = NoQueue THEN NoQueue
              ELSE Reverse(q.unget) \o SubSeq(q.queue, q.at + 1, Len(q.queue))
                     \o q.append

\* Reading never leaves the buffer, and while items are on the unget stack the
\* buffer is untouched: unget fills the room in front of the buffer first, and
\* get empties the stack before it reads the buffer.
BufferOrder == q /= NoQueue => /\ q.at <= Len(q.queue)
                               /\ q.unget /= <<>> => q.at = 0

\* The methods behave as those of one sequence of items: every get and peek
\* answers the items in order, whichever of the lists they are spread over,
\* and nothing is lost, repeated or reordered by swaps and ungets.
ItemQueueSpec == INSTANCE ItemQueue WITH items <- QueueItems, answered <- qAnswer
QueueIsASequence == ItemQueueSpec!Spec

\* "Return the front count items of the queue and remove them" (queue.man):
\* a get that answers leaves exactly the items it did not answer.
GetRemovesFront ==
  [][\A n \in 1 .. MaxItems :
       q /= NoQueue /\ q' /= NoQueue /\ qum_PEEK(n, TRUE) /\ qAnswer'.ok
         => QueueItems = qAnswer'.value \o QueueItems']_qVars
=============================================================================

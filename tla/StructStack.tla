---------------------------- MODULE StructStack ----------------------------
(***************************************************************************)
(* struct::stack, the implementation in C (modules/struct/stack/s.c, m.c,  *)
(* ms.c).  The items are one list with the top at its end; `max` is kept   *)
(* beside it to decide when a pop gives the memory of the list back.       *)
(*                                                                         *)
(* A count that is no positive integer is 0 here, a new size that is no    *)
(* natural number is -1.  Rotating no items divides by zero in the code    *)
(* and has no defined outcome; stm_ROTATE leaves that call out.            *)
(***************************************************************************)
EXTENDS TclList

CONSTANTS NoStack,   \* there is no stack command
          MaxDepth,  \* bound: items on the stack
          MaxSteps   \* bound: steps of a rotation, either way

ASSUME StackAssumption == /\ MaxDepth \in Nat
                          /\ MaxSteps \in Nat
                          /\ NoStack \notin [stack : Seq(Item), max : Nat]
                          /\ NoStack \notin Seq(Item)

VARIABLES st,         \* the stack: [stack, max], or NoStack
          stAnswer    \* [call, ok, value]: the last method and what it answered

stVars == <<st, stAnswer>>

stOk(call, value) == [call |-> call, ok |-> TRUE, value |-> value]
stError(call)     == [call |-> call, ok |-> FALSE, value |-> <<>>]

stEmpty == [stack |-> <<>>, max |-> 0]

depth == Len(st.stack)

\* What st_peek leaves behind when it pops n items: nothing at all, a new list
\* of the right size when less than half of `max` is left, or the list cut short.
Popped(n) ==
  LET rest == SubSeq(st.stack, 1, depth - n)
  IN  IF n = depth THEN stEmpty
      ELSE IF depth - n < st.max \div 2 THEN [stack |-> rest, max |-> depth - n]
      ELSE [st EXCEPT !.stack = rest]

\* The top n items, the topmost first unless reversed.
TopItems(n, revers) ==
  LET top == SubSeq(st.stack, depth - n + 1, depth)
  IN  IF revers THEN top ELSE Reverse(top)

\* st_peek, shared by get, peek, pop and trim; ret: the items are answered.
st_peek(call, n, pop, revers, ret) ==
  IF n > depth
  THEN stAnswer' = stError(call) /\ UNCHANGED st
  ELSE /\ stAnswer' = stOk(call, IF ret THEN TopItems(n, revers) ELSE <<>>)
       /\ st' = IF pop THEN Popped(n) ELSE st

-----------------------------------------------------------------------------
(* The methods *)

StackInit == st = NoStack /\ stAnswer = stOk(<<"new">>, <<>>)

st_new == st = NoStack /\ st' = stEmpty /\ stAnswer' = stOk(<<"new">>, <<>>)

stm_CLEAR == st /= NoStack /\ st' = stEmpty /\ stAnswer' = stOk(<<"clear">>, <<>>)

stm_DESTROY == st /= NoStack /\ st' = NoStack /\ stAnswer' = stOk(<<"destroy">>, <<>>)

stm_GET(revers) ==
  LET call == IF revers THEN <<"getr">> ELSE <<"get">>
  IN  /\ st /= NoStack
      /\ IF depth > 0 THEN st_peek(call, depth, FALSE, revers, TRUE)
                      ELSE stAnswer' = stOk(call, <<>>) /\ UNCHANGED st

stm_TRIM(n, ret) ==
  LET call == <<IF ret THEN "trim" ELSE "trim*", n>>
  IN  /\ st /= NoStack
      /\ IF n < 0 THEN stAnswer' = stError(call) /\ UNCHANGED st
         ELSE IF depth > n THEN st_peek(call, depth - n, TRUE, FALSE, ret)
         ELSE stAnswer' = stOk(call, <<>>) /\ UNCHANGED st

stm_PEEK(n, pop, revers) ==
  LET call == <<IF pop THEN "pop" ELSE IF revers THEN "peekr" ELSE "peek", n>>
  IN  /\ st /= NoStack
      /\ IF n < 1 THEN stAnswer' = stError(call) /\ UNCHANGED st
                  ELSE st_peek(call, n, pop, revers, TRUE)

stm_PUSH(new) ==
  /\ st /= NoStack
  /\ depth + Len(new) <= MaxDepth
  /\ st' = [st EXCEPT !.stack = @ \o new]
  /\ stAnswer' = stOk(<<"push">> \o new, <<>>)

\* Mutant: rotates the other way.
RotatesBack(n, steps) ==
  /\ st /= NoStack
  /\ n >= 1
  /\ IF n > depth
     THEN stAnswer' = stError(<<"rotate", n, steps>>) /\ UNCHANGED st
     ELSE LET start   == depth - n
              from(i) == start + ((i + (steps % n)) % n) + 1
          IN  /\ st' = [st EXCEPT !.stack =
                          [p \in 1 .. depth |-> IF p <= start THEN @[p]
                                                ELSE @[from(p - start - 1)]]]
              /\ stAnswer' = stOk(<<"rotate", n, steps>>, <<>>)

\* Each of the top n places takes the item `n - steps` places above it, in a
\* circle; the places are counted from 0, as the code counts them.
stm_ROTATE(n, steps) ==
  /\ st /= NoStack
  /\ n >= 1
  /\ IF n > depth
     THEN stAnswer' = stError(<<"rotate", n, steps>>) /\ UNCHANGED st
     ELSE LET start  == depth - n
              offset == n - (steps % n)
              from(i) == start + ((i + offset) % n) + 1
          IN  /\ st' = [st EXCEPT !.stack =
                          [p \in 1 .. depth |-> IF p <= start THEN @[p]
                                                ELSE @[from(p - start - 1)]]]
              /\ stAnswer' = stOk(<<"rotate", n, steps>>, <<>>)

stm_SIZE == st /= NoStack /\ stAnswer' = stOk(<<"size">>, <<depth>>) /\ UNCHANGED st

\* The dispatch on the name of the method.
stms_objcmd ==
  \/ stm_CLEAR
  \/ stm_DESTROY
  \/ \E revers \in BOOLEAN : stm_GET(revers)
  \/ \E n \in 0 .. MaxDepth + 1 : \/ stm_PEEK(n, FALSE, FALSE)
                                  \/ stm_PEEK(n, FALSE, TRUE)
                                  \/ stm_PEEK(n, TRUE, FALSE)
  \/ \E x \in Item : stm_PUSH(<<x>>)
  \/ \E x, y \in Item : stm_PUSH(<<x, y>>)
  \/ \E n \in 1 .. MaxDepth + 1, steps \in -MaxSteps .. MaxSteps : stm_ROTATE(n, steps)
  \/ stm_SIZE
  \/ \E n \in -1 .. MaxDepth, ret \in BOOLEAN : stm_TRIM(n, ret)

StackNext == st_new \/ stms_objcmd

StackSpec == StackInit /\ [][StackNext]_stVars

-----------------------------------------------------------------------------
(* Properties *)

StackTypeOK == st \in [stack : Seq(Item), max : Nat] \cup {NoStack}

\* The items, the top first.
Pile == IF st = NoStack THEN NoStack ELSE Reverse(st.stack)

\* The methods behave as those of one pile of items: pop, peek, get and trim
\* answer from the top in the order asked for, and a rotation of any sign
\* turns exactly the items it names.
ItemStackSpec == INSTANCE ItemStack WITH pile <- Pile, answered <- stAnswer
StackIsAPile == ItemStackSpec!Spec
=============================================================================

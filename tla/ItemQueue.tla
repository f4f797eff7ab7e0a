----------------------------- MODULE ItemQueue -----------------------------
(***************************************************************************)
(* What a queue promises its callers (the documentation of struct::queue): *)
(* one sequence of items, put at its end, got and ungot at its front.  An  *)
(* answer is the value of the method, or the error it throws; a method     *)
(* that throws changes nothing.                                            *)
(***************************************************************************)
EXTENDS Naturals, Sequences

CONSTANTS Item, NoQueue, MaxItems

VARIABLES items,    \* the items, the front first, or NoQueue: no such command
          answered  \* [call, ok, value]: the last method and its answer

\* A call is the name of the method and its arguments.
Answers(call, value) == answered' = [call |-> call, ok |-> TRUE, value |-> value]
Fails(call)          == answered' = [call |-> call, ok |-> FALSE, value |-> <<>>]

Init == items = NoQueue /\ answered = [call |-> <<"new">>, ok |-> TRUE, value |-> <<>>]

Create  == items = NoQueue /\ items' = <<>> /\ Answers(<<"new">>, <<>>)
Destroy == items /= NoQueue /\ items' = NoQueue /\ Answers(<<"destroy">>, <<>>)
Clear   == items /= NoQueue /\ items' = <<>> /\ Answers(<<"clear">>, <<>>)

\* One or two items are put.
Put == /\ items /= NoQueue
       /\ \E new \in {<<x>> : x \in Item} \cup (Item \X Item) :
            items' = items \o new /\ Answers(<<"put">> \o new, <<>>)

Unget == /\ items /= NoQueue
         /\ \E x \in Item : items' = <<x>> \o items /\ Answers(<<"unget", x>>, <<>>)

\* get and peek answer the first n items; only get takes them away.
Get  == items /= NoQueue /\ \E n \in 1 .. Len(items) :
          Answers(<<"get", n>>, SubSeq(items, 1, n)) /\ items' = SubSeq(items, n + 1, Len(items))
Peek == items /= NoQueue /\ \E n \in 1 .. Len(items) :
          Answers(<<"peek", n>>, SubSeq(items, 1, n)) /\ UNCHANGED items

Size == items /= NoQueue /\ Answers(<<"size">>, <<Len(items)>>) /\ UNCHANGED items

\* Counts of less than one item, or of more than there are.
Fail == /\ items /= NoQueue
        /\ \E m \in {"get", "peek"}, n \in 0 .. MaxItems + 1 :
             n \notin 1 .. Len(items) /\ Fails(<<m, n>>)
        /\ UNCHANGED items

Next == Create \/ Destroy \/ Clear \/ Put \/ Unget \/ Get \/ Peek \/ Size \/ Fail

Spec == Init /\ [][Next]_<<items, answered>>
=============================================================================

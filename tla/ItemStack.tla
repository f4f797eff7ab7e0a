----------------------------- MODULE ItemStack -----------------------------
(***************************************************************************)
(* What a stack promises its callers (the documentation of struct::stack   *)
(* and the tests of rotate): one pile of items.  An answer is the value of *)
(* the method, or the error it throws; a method that throws changes        *)
(* nothing.  Here the pile is written with its top first.                  *)
(***************************************************************************)
EXTENDS Integers, Sequences

CONSTANTS Item, NoStack, MaxDepth, MaxSteps

VARIABLES pile,     \* the items, the top first, or NoStack: no such command
          answered  \* [call, ok, value]: the last method and its answer

\* A call is the name of the method and its arguments.
Answers(call, value) == answered' = [call |-> call, ok |-> TRUE, value |-> value]
Fails(call)          == answered' = [call |-> call, ok |-> FALSE, value |-> <<>>]

Turned(s) == [i \in 1 .. Len(s) |-> s[Len(s) - i + 1]]
Top(n)    == SubSeq(pile, 1, n)
Below(n)  == SubSeq(pile, n + 1, Len(pile))

\* One step of a rotation: the top item goes below the others.
Step(s) == Tail(s) \o <<Head(s)>>
Stepped(k, s) == LET after[i \in 0 .. k] == IF i = 0 THEN s ELSE Step(after[i - 1])
                 IN  after[k]

Init == pile = NoStack /\ answered = [call |-> <<"new">>, ok |-> TRUE, value |-> <<>>]

Create  == pile = NoStack /\ pile' = <<>> /\ Answers(<<"new">>, <<>>)
Destroy == pile' = NoStack /\ Answers(<<"destroy">>, <<>>)
Clear   == pile' = <<>> /\ Answers(<<"clear">>, <<>>)
Push    == \E new \in {<<x>> : x \in Item} \cup (Item \X Item) :
             pile' = Turned(new) \o pile /\ Answers(<<"push">> \o new, <<>>)
Pop     == \E n \in 1 .. Len(pile) : Answers(<<"pop", n>>, Top(n)) /\ pile' = Below(n)
Peek    == /\ \/ \E n \in 1 .. Len(pile) : \/ Answers(<<"peek", n>>, Top(n))
                                           \/ Answers(<<"peekr", n>>, Turned(Top(n)))
              \/ Answers(<<"get">>, pile)
              \/ Answers(<<"getr">>, Turned(pile))
           /\ UNCHANGED pile
\* The pile is cut down to n items; trim answers the others.
Trim    == \E n \in 0 .. MaxDepth :
             LET gone == IF n < Len(pile) THEN Len(pile) - n ELSE 0
             IN  /\ pile' = Below(gone)
                 /\ Answers(<<"trim", n>>, Top(gone)) \/ Answers(<<"trim*", n>>, <<>>)
Rotate  == \E n \in 1 .. Len(pile), k \in -MaxSteps .. MaxSteps :
             /\ pile' = Stepped(k % n, Top(n)) \o Below(n)
             /\ Answers(<<"rotate", n, k>>, <<>>)
Size    == Answers(<<"size">>, <<Len(pile)>>) /\ UNCHANGED pile

\* Counts of less than one item, or of more than there are.
Fail == /\ \/ \E m \in {"pop", "peek", "peekr"}, n \in 0 .. MaxDepth + 1 :
                n \notin 1 .. Len(pile) /\ Fails(<<m, n>>)
           \/ \E n \in 1 .. MaxDepth + 1, k \in -MaxSteps .. MaxSteps :
                n > Len(pile) /\ Fails(<<"rotate", n, k>>)
           \/ Fails(<<"trim", -1>>) \/ Fails(<<"trim*", -1>>)
        /\ UNCHANGED pile

Next == \/ Create
        \/ /\ pile /= NoStack
           /\ Destroy \/ Clear \/ Push \/ Pop \/ Peek \/ Trim \/ Rotate \/ Size \/ Fail

Spec == Init /\ [][Next]_<<pile, answered>>
=============================================================================

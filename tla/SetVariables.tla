---------------------------- MODULE SetVariables ----------------------------
(***************************************************************************)
(* What the commands of struct::set promise (its documentation): every     *)
(* variable holds a set of its own, or a value that is no list, or is not  *)
(* set; a command computes the textbook operation of its arguments and     *)
(* changes no variable but the one it names.                               *)
(***************************************************************************)
EXTENDS Naturals, Sequences, FiniteSets, SequencesExt

CONSTANTS Var, Item, Unset, Malformed, MaxArgs

VARIABLES vals,     \* Var -> a set of items, Malformed or Unset
          answered  \* [call, ok, num, sets]: the last command and its answer

\* A call is the name of the command and its arguments.
Called(call) == answered'.call = call
Answers(num, sets) ==
  answered' = [call |-> answered'.call, ok |-> TRUE, num |-> num, sets |-> sets]
Fails ==
  answered' = [call |-> answered'.call, ok |-> FALSE, num |-> 0, sets |-> <<>>]
Truth(b)     == IF b THEN 1 ELSE 0

IsSet(x)   == vals[x] \notin {Unset, Malformed}
Put(x, S)  == vals' = [vals EXCEPT ![x] = S]
Fail       == Fails /\ UNCHANGED vals

Init == /\ vals = [x \in Var |-> Unset]
        /\ answered = [call |-> <<"set">>, ok |-> TRUE, num |-> 0, sets |-> <<>>]

Assign(x) == /\ Called(<<"set">>)
             /\ Answers(0, <<>>)
             /\ \E S \in (SUBSET Item) \cup {Malformed, Unset} : Put(x, S)

\* The commands that change the variable x; `old` is what it holds.
Change(call, x, makes, F(_)) ==
  LET old == IF vals[x] = Unset THEN {} ELSE vals[x]
  IN  /\ Called(call)
      /\ IF IsSet(x) \/ (makes /\ vals[x] = Unset)
         THEN Answers(0, <<>>) /\ Put(x, F(old))
         ELSE Fail

Include(x, i) == LET F(S) == S \cup {i} IN Change(<<"include", x, i>>, x, TRUE, F)
Exclude(x, i) == LET F(S) == S \ {i} IN Change(<<"exclude", x, i>>, x, FALSE, F)
Add(x, y) ==
  LET F(S) == S \cup vals[y]
  IN  /\ Called(<<"add", x, y>>)
      /\ IF IsSet(y) THEN Change(<<"add", x, y>>, x, TRUE, F) ELSE Fail
Subtract(x, y) ==
  LET F(S) == S \ vals[y]
  IN  /\ Called(<<"subtract", x, y>>)
      /\ IF IsSet(y) THEN Change(<<"subtract", x, y>>, x, FALSE, F) ELSE Fail

\* The commands that only answer.
Ask(call, xs, num, sets) ==
  /\ Called(call)
  /\ IF \A x \in xs : IsSet(x) THEN Answers(num, sets) /\ UNCHANGED vals ELSE Fail
Asks ==
  \/ \E x \in Var :
       \/ Ask(<<"size", x>>, {x}, Cardinality(vals[x]), <<>>)
       \/ Ask(<<"empty", x>>, {x}, Truth(vals[x] = {}), <<>>)
       \/ \E i \in Item : Ask(<<"contains", x, i>>, {x}, Truth(i \in vals[x]), <<>>)
  \/ \E x, y \in Var :
       \/ Ask(<<"equal", x, y>>, {x, y}, Truth(vals[x] = vals[y]), <<>>)
       \/ Ask(<<"subsetof", x, y>>, {x, y}, Truth(vals[x] \subseteq vals[y]), <<>>)
       \/ Ask(<<"intersect3", x, y>>, {x, y}, 0,
              <<vals[x] \cap vals[y], vals[x] \ vals[y], vals[y] \ vals[x]>>)

\* The commands whose answer the caller puts into the variable d.
Combine(call, d, xs, S) ==
  /\ Called(call)
  /\ IF \A x \in xs : IsSet(x) THEN Answers(0, <<S>>) /\ Put(d, S) ELSE Fail
Combines ==
  \E d \in Var :
    \/ \E xs \in BoundedSeq(Var, MaxArgs) :
         \/ Combine(<<"union">> \o xs, d, ToSet(xs), UNION {vals[x] : x \in ToSet(xs)})
         \/ Combine(<<"intersect">> \o xs, d, ToSet(xs),
                    {i \in Item : xs /= <<>> /\ \A x \in ToSet(xs) : i \in vals[x]})
    \/ \E x, y \in Var :
         \/ Combine(<<"difference", x, y>>, d, {x, y}, vals[x] \ vals[y])
         \/ Combine(<<"symdiff", x, y>>, d, {x, y},
                    (vals[x] \cup vals[y]) \ (vals[x] \cap vals[y]))

Next == \/ \E x \in Var : \/ Assign(x)
                          \/ \E i \in Item : Include(x, i) \/ Exclude(x, i)
                          \/ \E y \in Var : Add(x, y) \/ Subtract(x, y)
        \/ Asks
        \/ Combines

Spec == Init /\ [][Next]_<<vals, answered>>
=============================================================================

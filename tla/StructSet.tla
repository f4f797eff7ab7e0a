----------------------------- MODULE StructSet -----------------------------
(***************************************************************************)
(* struct::set, the implementation in C (modules/struct/sets/s.c and m.c). *)
(* A set is a value of Tcl: an object with a string, an internal           *)
(* representation (a list, or a hash table of the elements), or both.      *)
(* Variables share objects; a command converts the objects of its          *)
(* arguments in place, and must copy a shared object before it changes the *)
(* elements.                                                               *)
(*                                                                         *)
(* A string is the sequence of the elements it lists, or Malformed: it is  *)
(* no list.  Sharing is the point of the model, so objects have names: an  *)
(* object goes by the least of the variables that refer to it.             *)
(***************************************************************************)
EXTENDS TclList

CONSTANTS Var,        \* the variables that hold sets, numbered
          Unset,      \* the variable does not exist
          NoString,   \* the object has no string representation
          Malformed,  \* the string is no list
          Free,       \* no object goes by this name
          MaxLength,  \* bound: elements of a list the program writes
          MaxArgs     \* bound: arguments of union and intersect

\* An object of Tcl, with a string, a list or a table of elements.
Object == [str : Seq(Item) \cup {NoString, Malformed}, kind : {"string", "list", "set"},
           list : Seq(Item), set : SUBSET Item]

ASSUME SetAssumption == /\ Var \subseteq Nat \ {0} /\ IsFiniteSet(Var)
                        /\ MaxLength \in Nat
                        /\ MaxArgs \in Nat
                        /\ Unset \notin Nat /\ Free \notin Object
                        /\ Malformed \notin Seq(Item) /\ NoString \notin Seq(Item)
                        /\ Unset /= Malformed /\ NoString /= Malformed
                        /\ \A S \in SUBSET Item : S \notin {Unset, Malformed}

VARIABLES var,      \* Var -> the name of the object it refers to, or Unset
          heap,     \* name -> [str, kind, list, set], or Free
          sAnswer   \* the last command and what it answered

sVars == <<var, heap, sAnswer>>

-----------------------------------------------------------------------------
(* The objects of Tcl *)

Text(s)     == [str |-> s, kind |-> "string", list |-> <<>>, set |-> {}]
PureList(s) == [str |-> NoString, kind |-> "list", list |-> s, set |-> {}]

\* An object that is only its table of elements.
s_new(S) == [str |-> NoString, kind |-> "set", list |-> <<>>, set |-> S]

\* The table of an object is written out in any order.
string_rep(o) == {[o EXCEPT !.str = s] : s \in SetToSeqs(o.set)}

\* Tcl_GetString: the objects an object may become when its string is asked for.
WithString(o) ==
  IF o.str /= NoString THEN {o}
  ELSE IF o.kind = "set" THEN string_rep(o) ELSE {[o EXCEPT !.str = o.list]}

\* The string or list becomes a table.  The string is made first, when there is
\* none, so that the order of a list survives.
from_any(o) ==
  LET elements == IF o.kind = "list" THEN o.list ELSE o.str
  IN  [str |-> elements, kind |-> "set", list |-> <<>>, set |-> ToSet(elements)]

IsList(o) == o.kind /= "string" \/ o.str /= Malformed

\* s_get on an object whose value is a list.
s_get(o) == IF o.kind = "set" THEN o ELSE from_any(o)

\* The variables are bound as in v to the objects of h; objects are named anew,
\* and one that nothing refers to any more is freed.
Bind(v, h) ==
  LET name(x) == Min({y \in Var : v[y] = v[x]})
  IN  /\ var' = [x \in Var |-> IF v[x] = Unset THEN Unset ELSE name(x)]
      /\ heap' = [x \in Var |-> IF v[x] /= Unset /\ name(x) = x THEN h[v[x]] ELSE Free]

\* Tcl_ObjSetVar2 with a new object, 0.
SetVar(h, x, object) ==
  Bind([var EXCEPT ![x] = 0], [o \in Var \cup {0} |-> IF o = 0 THEN object ELSE h[o]])

\* Something else holds the object too: a variable, or an argument in args.
IsShared(o, args) == o \in args \/ Cardinality({x \in Var : var[x] = o}) > 1

-----------------------------------------------------------------------------
(* Sets, as the functions on hash tables compute them *)

Truth(b) == IF b THEN 1 ELSE 0

s_difference(a, b) == IF b = {} THEN a ELSE {k \in a : k \notin b}

\* The loop runs over the smaller of the two.
s_intersect(a, b) ==
  IF Cardinality(b) < Cardinality(a) THEN {k \in b : k \in a} ELSE {k \in a : k \in b}

s_add(a, b) == a \cup b

s_union(a, b) == s_add(s_add({}, a), b)

s_equal(a, b) == Cardinality(a) = Cardinality(b) /\ s_difference(a, b) = {}

\* Mutant: the arguments of the difference are exchanged.
SupersetOf(a, b) == Cardinality(a) <= Cardinality(b) /\ s_difference(b, a) = {}

s_subsetof(a, b) == Cardinality(a) <= Cardinality(b) /\ s_difference(a, b) = {}

-----------------------------------------------------------------------------
(* Answers, and the conversion of arguments *)

Answer(call, num, sets) ==
  sAnswer' = [call |-> call, ok |-> TRUE, num |-> num, sets |-> sets]
Fails(call) == sAnswer' = [call |-> call, ok |-> FALSE, num |-> 0, sets |-> <<>>]

\* The arguments are converted one after the other up to the first that is no
\* list; those before it stay converted.
Converted(objs) ==
  LET bad  == {i \in DOMAIN objs : ~ IsList(heap[objs[i]])}
      upto == IF bad = {} THEN Len(objs) ELSE Min(bad) - 1
      done == {objs[i] : i \in 1 .. upto}
  IN  [o \in Var |-> IF o \in done THEN s_get(heap[o]) ELSE heap[o]]

AllLists(objs) == \A i \in DOMAIN objs : IsList(heap[objs[i]])

\* The variables whose values the program passes must exist.
Given(xs) == \A i \in DOMAIN xs : var[xs[i]] /= Unset
Objects(xs) == [i \in DOMAIN xs |-> var[xs[i]]]

\* A command that only answers: a number and sets computed from the sets of the
\* variables xs.
Query(call, xs, num(_), sets(_)) ==
  LET h   == Converted(Objects(xs))
      arg == [i \in DOMAIN xs |-> h[var[xs[i]]].set]
  IN  /\ Given(xs)
      /\ Bind(var, h)
      /\ IF AllLists(Objects(xs)) THEN Answer(call, num(arg), sets(arg)) ELSE Fails(call)

\* The program puts the answer of a command into the variable d.
Into(call, d, xs, F(_)) ==
  LET h   == Converted(Objects(xs))
      arg == [i \in DOMAIN xs |-> h[var[xs[i]]].set]
  IN  /\ Given(xs)
      /\ IF AllLists(Objects(xs))
         THEN SetVar(h, d, s_new(F(arg))) /\ Answer(call, 0, <<F(arg)>>)
         ELSE Bind(var, h) /\ Fails(call)

\* Mutant: the string stays when the table changes.
KeepsString(h, x, args, S) ==
  IF IsShared(var[x], args) THEN SetVar(h, x, s_new(S))
  ELSE Bind(var, [h EXCEPT ![var[x]].set = S])

\* The variable x, whose object is o in h, gets the elements S: in place when
\* the object is its own, in a copy when it is shared; the string goes.
Change(h, x, args, S) ==
  IF IsShared(var[x], args) THEN SetVar(h, x, s_new(S))
  ELSE Bind(var, [h EXCEPT ![var[x]] = s_new(S)])

-----------------------------------------------------------------------------
(* The commands *)

\* B is converted first; a variable that does not exist is made, empty, even
\* when there is nothing to add.
sm_ADD(x, y) ==
  LET objs == IF var[x] = Unset THEN <<var[y]>> ELSE <<var[y], var[x]>>
      h    == Converted(objs)
      B    == h[var[y]].set
      A    == h[var[x]].set
  IN  /\ Given(<<y>>)
      /\ IF ~ AllLists(objs) THEN Bind(var, h) /\ Fails(<<"add", x, y>>)
         ELSE /\ Answer(<<"add", x, y>>, 0, <<>>)
              /\ IF var[x] = Unset THEN SetVar(h, x, s_new(B))
                 ELSE IF B \subseteq A THEN Bind(var, h)
                 ELSE Change(h, x, {var[y]}, s_add(A, B))

sm_INCLUDE(x, item) ==
  LET h == Converted(<<var[x]>>)
      A == h[var[x]].set
  IN  IF var[x] = Unset
      THEN SetVar(heap, x, s_new({item})) /\ Answer(<<"include", x, item>>, 0, <<>>)
      ELSE IF ~ IsList(heap[var[x]]) THEN UNCHANGED <<var, heap>> /\ Fails(<<"include", x, item>>)
      ELSE /\ Answer(<<"include", x, item>>, 0, <<>>)
           /\ IF item \in A THEN Bind(var, h) ELSE Change(h, x, {}, A \cup {item})

sm_EXCLUDE(x, item) ==
  LET h == Converted(<<var[x]>>)
      A == h[var[x]].set
  IN  IF var[x] = Unset THEN UNCHANGED <<var, heap>> /\ Fails(<<"exclude", x, item>>)
      ELSE IF ~ IsList(heap[var[x]]) THEN UNCHANGED <<var, heap>> /\ Fails(<<"exclude", x, item>>)
      ELSE /\ Answer(<<"exclude", x, item>>, 0, <<>>)
           /\ IF item \in A THEN Change(h, x, {}, A \ {item}) ELSE Bind(var, h)

\* The value of the variable is converted before the other argument.
sm_SUBTRACT(x, y) ==
  LET objs == <<var[x], var[y]>>
      h    == Converted(objs)
      A    == h[var[x]].set
      B    == h[var[y]].set
  IN  /\ Given(<<y>>)
      /\ IF var[x] = Unset THEN UNCHANGED <<var, heap>> /\ Fails(<<"subtract", x, y>>)
         ELSE IF ~ AllLists(objs) THEN Bind(var, h) /\ Fails(<<"subtract", x, y>>)
         ELSE /\ Answer(<<"subtract", x, y>>, 0, <<>>)
              /\ IF A \cap B = {} THEN Bind(var, h)
                 ELSE Change(h, x, {var[y]}, A \ B)

sm_SIZE(x) == LET num(s) == Cardinality(s[1])  sets(s) == <<>>
              IN  Query(<<"size", x>>, <<x>>, num, sets)

\* A list is not converted: its length tells.
sm_EMPTY(x) ==
  LET num(s) == Truth(s[1] = {})  sets(s) == <<>>
  IN  /\ Given(<<x>>)
      /\ IF heap[var[x]].kind = "list"
         THEN /\ Answer(<<"empty", x>>, Truth(heap[var[x]].list = <<>>), <<>>)
              /\ UNCHANGED <<var, heap>>
         ELSE Query(<<"empty", x>>, <<x>>, num, sets)

sm_CONTAINS(x, item) == LET num(s) == Truth(item \in s[1])  sets(s) == <<>>
                        IN  Query(<<"contains", x, item>>, <<x>>, num, sets)

sm_EQUAL(x, y) == LET num(s) == Truth(s_equal(s[1], s[2]))  sets(s) == <<>>
                  IN  Query(<<"equal", x, y>>, <<x, y>>, num, sets)

sm_SUBSETOF(x, y) == LET num(s) == Truth(s_subsetof(s[1], s[2]))  sets(s) == <<>>
                     IN  Query(<<"subsetof", x, y>>, <<x, y>>, num, sets)

sm_INTERSECT3(x, y) ==
  LET num(s)  == 0
      sets(s) == <<s_intersect(s[1], s[2]), s_difference(s[1], s[2]),
                   s_difference(s[2], s[1])>>
  IN  Query(<<"intersect3", x, y>>, <<x, y>>, num, sets)

sm_UNION(d, xs) == LET F(s) == FoldLeft(s_add, {}, s) IN Into(<<"union">> \o xs, d, xs, F)

sm_INTERSECT(d, xs) ==
  LET F(s) == IF s = <<>> THEN {} ELSE FoldLeft(s_intersect, Head(s), Tail(s))
  IN  Into(<<"intersect">> \o xs, d, xs, F)

sm_DIFFERENCE(d, x, y) == LET F(s) == s_difference(s[1], s[2])
                          IN  Into(<<"difference", x, y>>, d, <<x, y>>, F)

sm_SYMDIFF(d, x, y) ==
  LET F(s) == s_union(s_difference(s[1], s[2]), s_difference(s[2], s[1]))
  IN  Into(<<"symdiff", x, y>>, d, <<x, y>>, F)

-----------------------------------------------------------------------------
(* What else the program does with its variables *)

\* set x <text>, set x [list ...]
Write(x) == /\ \E object \in {Text(s) : s \in BoundedSeq(Item, MaxLength) \cup {Malformed}}
                             \cup {PureList(s) : s \in BoundedSeq(Item, MaxLength)} :
                 SetVar(heap, x, object)
            /\ Answer(<<"set">>, 0, <<>>)

\* set x $y: both refer to one object.
Copy(x, y) == /\ Given(<<y>>)
              /\ Bind([var EXCEPT ![x] = var[y]], heap)
              /\ Answer(<<"set">>, 0, <<>>)

Unbind(x) == /\ Given(<<x>>)
             /\ Bind([var EXCEPT ![x] = Unset], heap)
             /\ Answer(<<"set">>, 0, <<>>)

\* The string of $x is looked at; or it is used as a list, which makes the
\* string first and then drops the table.
Look(x) ==
  /\ Given(<<x>>)
  /\ \E o \in WithString(heap[var[x]]) :
       \/ heap' = [heap EXCEPT ![var[x]] = o]
       \/ /\ o.str /= Malformed
          /\ heap' = [heap EXCEPT ![var[x]] =
                        [str |-> o.str, kind |-> "list", list |-> o.str, set |-> {}]]
  /\ UNCHANGED <<var, sAnswer>>

SetInit == /\ var = [x \in Var |-> Unset]
           /\ heap = [x \in Var |-> Free]
           /\ sAnswer = [call |-> <<"set">>, ok |-> TRUE, num |-> 0, sets |-> <<>>]

SetNext ==
  \/ \E x \in Var, item \in Item :
       sm_INCLUDE(x, item) \/ sm_EXCLUDE(x, item) \/ sm_CONTAINS(x, item)
  \/ \E x \in Var : sm_SIZE(x) \/ sm_EMPTY(x) \/ Write(x) \/ Unbind(x) \/ Look(x)
  \/ \E x, y \in Var : \/ sm_ADD(x, y) \/ sm_SUBTRACT(x, y) \/ sm_EQUAL(x, y)
                       \/ sm_SUBSETOF(x, y) \/ sm_INTERSECT3(x, y) \/ Copy(x, y)
  \/ \E d \in Var, xs \in BoundedSeq(Var, MaxArgs) : sm_UNION(d, xs) \/ sm_INTERSECT(d, xs)
  \/ \E d, x, y \in Var : sm_DIFFERENCE(d, x, y) \/ sm_SYMDIFF(d, x, y)

SetSpec == SetInit /\ [][SetNext]_sVars

-----------------------------------------------------------------------------
(* Properties *)

SetTypeOK == /\ var \in [Var -> Var \cup {Unset}]
             /\ heap \in [Var -> Object \cup {Free}]
             /\ \A o \in Var : heap[o] = Free <=> \A x \in Var : var[x] /= o

\* The two representations of an object say the same: a change of the table
\* takes a string made before it away, and a list keeps its order and its
\* repetitions in the string.
RepsAgree ==
  \A o \in Var : heap[o] /= Free =>
    LET b == heap[o]
    IN  /\ b.kind = "string" => b.str /= NoString
        /\ b.kind /= "string" => b.str /= Malformed
        /\ b.str /= NoString /\ b.kind = "list" => b.str = b.list
        /\ b.str /= NoString /\ b.kind = "set" => ToSet(b.str) = b.set

\* Every command computes the operation of its name on sets, whatever
\* representations its arguments have and whatever they share.
ValueOf(x) ==
  IF var[x] = Unset THEN Unset
  ELSE LET o == heap[var[x]]
       IN  CASE o.kind = "set"    -> o.set
             [] o.kind = "list"   -> ToSet(o.list)
             [] o.kind = "string" -> IF o.str = Malformed THEN Malformed ELSE ToSet(o.str)
SetVariablesSpec == INSTANCE SetVariables
                      WITH vals <- [x \in Var |-> ValueOf(x)], answered <- sAnswer
CommandsAreSetOperations == SetVariablesSpec!Spec
=============================================================================

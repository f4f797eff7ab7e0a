---------------------------- MODULE OrderedTree ----------------------------
(***************************************************************************)
(* What struct::tree promises its callers (the documentation): an ordered  *)
(* tree of names with a value at each, and the operations on it.  A tree   *)
(* is [top, kids, vals]: the name of the root, the names of the children   *)
(* of every name, in order, and the value of every name.                   *)
(***************************************************************************)
EXTENDS Integers, Sequences, FiniteSetsExt, SequencesExt

Names(o) == DOMAIN o.kids

\* The sequence without the members of X, and with xs put in at the index i,
\* counted from 0; indices outside of the sequence mean its ends.
Without(s, X) == SelectSeq(s, LAMBDA x : x \notin X)
PutIn(s, i, xs) == LET j == Min({Len(s), Max({0, i})})
                   IN  SubSeq(s, 1, j) \o xs \o SubSeq(s, j + 1, Len(s))

ParentOf(o, x) == {p \in Names(o) : x \in ToSet(o.kids[p])}

\* x and every name below it.
Under(o, x) ==
  LET down[k \in Nat] == IF k = 0 THEN {x}
                         ELSE down[k - 1] \cup UNION {ToSet(o.kids[y]) : y \in down[k - 1]}
  IN  down[Cardinality(Names(o))]

\* The parents of x up to the root.
Chain(o, x) ==
  LET up[k \in Nat] == IF k = 0 THEN <<>>
                       ELSE LET s == up[k - 1]
                                y == IF s = <<>> THEN x ELSE Last(s)
                            IN  IF ParentOf(o, y) = {} THEN s
                                ELSE Append(s, CHOOSE p \in ParentOf(o, y) : TRUE)
  IN  up[Cardinality(Names(o))]

\* A tree: one root, every other name below it and under one parent only.
IsTree(o) ==
  /\ o.top \in Names(o)
  /\ DOMAIN o.vals = Names(o)
  /\ Under(o, o.top) = Names(o)
  /\ ParentOf(o, o.top) = {}
  /\ \A x \in Names(o) : /\ IsInjective(o.kids[x])
                         /\ Cardinality(ParentOf(o, x)) <= 1

\* The names xs, all of them below other parents or new, as children of p.
Placed(o, p, i, xs, noValue) ==
  LET all == Names(o) \cup ToSet(xs)
      out == [x \in all |-> IF x \in Names(o) THEN Without(o.kids[x], ToSet(xs)) ELSE <<>>]
  IN  [o EXCEPT !.kids = [out EXCEPT ![p] = PutIn(@, i, xs)],
                !.vals = [x \in all |-> IF x \in Names(o) THEN o.vals[x] ELSE noValue]]

\* insert: the index names a place between the children as they are now.
Insert(o, p, i, xs, noValue) ==
  LET before == SubSeq(o.kids[p], 1, Min({Len(o.kids[p]), Max({0, i})}))
  IN  Placed(o, p, Len(Without(before, ToSet(xs))), xs, noValue)

\* move: the index names a place between the children that stay.
Move(o, p, i, xs) == Placed(o, p, i, xs, 0)

Only(o, X) == [o EXCEPT !.kids = [x \in X |-> Without(@[x], Names(o) \ X)],
                        !.vals = [x \in X |-> @[x]]]

Delete(o, x) == Only(o, Names(o) \ Under(o, x))

\* The children of x stand where x stood.
CutOut(o, x) ==
  LET p == CHOOSE q \in ParentOf(o, x) : TRUE
      i == CHOOSE k \in DOMAIN o.kids[p] : o.kids[p][k] = x
      k == [o.kids EXCEPT ![p] = SubSeq(@, 1, i - 1) \o o.kids[x] \o SubSeq(@, i + 1, Len(@)),
                          ![x] = <<>>]
  IN  Only([o EXCEPT !.kids = k], Names(o) \ {x})

\* splice: the new name x takes the children of p from one index to another.
Splice(o, p, from, to, x, noValue) ==
  LET taken == SubSeq(o.kids[p], Max({from, 0}) + 1, Min({to + 1, Len(o.kids[p])}))
      a     == Placed(o, p, Max({from, 0}), <<x>>, noValue)
  IN  [a EXCEPT !.kids = [y \in Names(a) |-> CASE y = p -> Without(@[y], ToSet(taken))
                                               [] y = x -> taken
                                               [] y \notin {p, x} -> @[y]]]

\* The names change places, or a name is changed; turn is a one-to-one mapping.
Renamed(o, turn) ==
  [o EXCEPT !.top  = turn[@],
            !.kids = [y \in {turn[x] : x \in Names(o)} |->
                        LET x == CHOOSE z \in Names(o) : turn[z] = y
                        IN  [k \in DOMAIN @[x] |-> turn[@[x][k]]]]]
Swap(o, a, b) ==
  Renamed(o, [x \in Names(o) |-> IF x = a THEN b ELSE IF x = b THEN a ELSE x])
Rename(o, a, b) ==
  LET r == Renamed(o, [x \in Names(o) |-> IF x = a THEN b ELSE x])
  IN  [r EXCEPT !.vals = [y \in Names(r) |-> IF y = b THEN @[a] ELSE @[y]]]

\* The tree a serialization describes: records [name, parent, attr], the parent
\* by its place in the list, 0 for the root.
Described(serial) ==
  LET names == {serial[i].name : i \in DOMAIN serial}
      entry(x) == CHOOSE i \in DOMAIN serial : serial[i].name = x
      below(x) == SelectSeq(serial, LAMBDA e : e.parent = entry(x))
  IN  [top  |-> (CHOOSE e \in ToSet(serial) : e.parent = 0).name,
       kids |-> [x \in names |-> [k \in DOMAIN below(x) |-> below(x)[k].name]],
       vals |-> [x \in names |-> serial[entry(x)].attr]]

\* It describes one.
Describes(serial) ==
  /\ \E i \in DOMAIN serial : serial[i].parent = 0
  /\ \A i, j \in DOMAIN serial :
       i /= j => serial[i].name /= serial[j].name /\ serial[i].parent + serial[j].parent > 0
  /\ \A i \in DOMAIN serial : serial[i].parent \in 0 .. Len(serial)
  /\ IsTree(Described(serial))
=============================================================================

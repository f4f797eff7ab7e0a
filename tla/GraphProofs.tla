---------------------------- MODULE GraphProofs ----------------------------
(***************************************************************************)
(* Proof that the lists, tables and interlinks of struct::graph agree in   *)
(* every state (LinksAgree), for stores of any size, any names, any lists  *)
(* the program reads and any number of edits and copies, as long as the    *)
(* program makes none of the calls the code gets wrong.  Of the graphs     *)
(* that dup has copied since their nodes were made (copied), LinksAgree    *)
(* says nothing about the links back of nodes: dup leaves one of them on   *)
(* the copy (NodesLinkedBack).                                             *)
(*                                                                         *)
(* The invariant is Inv: the store is Fit for the graphs the program has.  *)
(* Base says of each list that it is a sequence S[g][k] of structures, of  *)
(* which the links forward and the count are read off, and that names lead *)
(* to structures and back; Knit adds the interlinks, and the links back of *)
(* arcs; Fit, that the first node of a list has none before it, that the   *)
(* nodes of the graphs W, the ones that were not copied, are linked back,  *)
(* and that no other graph has anything.  Chain, the recursive function    *)
(* along `next`, is replaced by S for good (ChainIs); loops of the code    *)
(* are folds, of which only the states between two rounds are used (the    *)
(* lemmas named Fold...).                                                  *)
(*                                                                         *)
(* The parameter D of Knit are nodes that are being deleted: they are in   *)
(* no list, and their arcs have not gone yet.                              *)
(***************************************************************************)
EXTENDS GraphProperties, FiniteSetTheorems, SequenceTheorems, WellFoundedInduction, TLAPS

-----------------------------------------------------------------------------
(* Numbers and sequences *)

\* Numbers are well-ordered.
LEMMA LeastOfNat ==
  ASSUME NEW T, T \subseteq Nat, T # {}
  PROVE  \E x \in T : \A y \in T : x <= y
<1>1. \E x \in T : \A y \in T : ~ (<<y, x>> \in OpToRel(<, Nat))
  BY NatLessThanWellFounded, WFMin
<1>2. \A x \in T, y \in T : y < x => <<y, x>> \in OpToRel(<, Nat)
  BY DEF OpToRel
<1>3. \A x \in T, y \in T : ~ (y < x) => x <= y
  OBVIOUS
<1>4. PICK x \in T : \A y \in T : ~ (<<y, x>> \in OpToRel(<, Nat))
  BY <1>1
<1>5. \A y \in T : x <= y
  BY <1>2, <1>3, <1>4
<1> QED BY <1>5

\* The least of a set of numbers.
LEMMA MinIs ==
  ASSUME NEW T, T \subseteq Nat, T # {}
  PROVE  Min(T) \in T /\ \A y \in T : Min(T) <= y
BY LeastOfNat DEF Min

\* The greatest of the first k numbers.
LEMMA MaxSegment ==
  ASSUME NEW k \in Nat \ {0}
  PROVE  Max(1 .. k) = k
<1>1. k \in 1 .. k /\ \A y \in 1 .. k : k >= y
  OBVIOUS
<1>2. \A x \in 1 .. k : (\A y \in 1 .. k : x >= y) => x = k
  <2>1. TAKE x \in 1 .. k
  <2>2. x >= k => x = k
    OBVIOUS
  <2> QED BY <2>2, <1>1
<1> QED BY <1>1, <1>2 DEF Max

\* An element in front of a sequence.
LEMMA ConsIs ==
  ASSUME NEW X, NEW q \in Seq(X), NEW c \in X
  PROVE  LET r == <<c>> \o q IN
         /\ r \in Seq(X) /\ Len(r) = Len(q) + 1 /\ r # <<>>
         /\ r[1] = c /\ \A i \in 1 .. Len(q) : r[i + 1] = q[i]
         /\ \A i \in 1 .. Len(r) : r[i] = IF i = 1 THEN c ELSE q[i - 1]
         /\ ToSet(r) = ToSet(q) \cup {c}
         /\ IsInjective(q) /\ c \notin ToSet(q) => IsInjective(r)
<1> DEFINE r == <<c>> \o q
<1>1. r \in Seq(X) /\ Len(r) = Len(q) + 1 /\ r # <<>>
  OBVIOUS
<1>2. r[1] = c /\ \A i \in 1 .. Len(q) : r[i + 1] = q[i]
  OBVIOUS
<1>3. \A i \in 1 .. Len(r) : r[i] = IF i = 1 THEN c ELSE q[i - 1]
  OBVIOUS
<1> HIDE DEF r
<1>4. ToSet(r) = ToSet(q) \cup {c}
  <2>1. DOMAIN r = 1 .. Len(q) + 1 /\ DOMAIN q = 1 .. Len(q)
    BY <1>1
  <2>2. ToSet(r) \subseteq ToSet(q) \cup {c}
    BY <2>1, <1>1, <1>3 DEF ToSet
  <2>3. c \in ToSet(r)
    BY <2>1, <1>2 DEF ToSet
  <2>4. ToSet(q) \subseteq ToSet(r)
    <3>1. \A i \in DOMAIN q : i + 1 \in DOMAIN r
      BY <2>1
    <3> QED BY <2>1, <3>1, <1>2 DEF ToSet
  <2> QED BY <2>2, <2>3, <2>4
<1>5. IsInjective(q) /\ c \notin ToSet(q) => IsInjective(r)
  <2>1. SUFFICES ASSUME IsInjective(q), c \notin ToSet(q) PROVE IsInjective(r)
    OBVIOUS
  <2>2. SUFFICES ASSUME NEW i \in DOMAIN r, NEW j \in DOMAIN r, r[i] = r[j] PROVE i = j
    BY DEF IsInjective
  <2>3. i \in 1 .. Len(q) + 1 /\ j \in 1 .. Len(q) + 1 /\ DOMAIN q = 1 .. Len(q)
    BY <1>1
  <2>4. \A m \in 1 .. Len(q) : q[m] # c
    BY <2>1, <2>3 DEF ToSet
  <2>5. i # 1 => i - 1 \in 1 .. Len(q) /\ r[i] = q[i - 1]
    BY <2>3, <1>1, <1>3
  <2>6. j # 1 => j - 1 \in 1 .. Len(q) /\ r[j] = q[j - 1]
    BY <2>3, <1>1, <1>3
  <2>7. CASE i = 1
    BY <2>7, <2>4, <2>6, <2>2, <1>2
  <2>8. CASE j = 1
    BY <2>8, <2>4, <2>5, <2>2, <1>2
  <2>9. CASE i # 1 /\ j # 1
    <3>1. i - 1 = j - 1
      BY <2>9, <2>5, <2>6, <2>1, <2>2, <2>3 DEF IsInjective
    <3> QED BY <3>1, <2>3
  <2> QED BY <2>7, <2>8, <2>9
<1> QED BY <1>1, <1>2, <1>3, <1>4, <1>5 DEF r

\* A sequence without one of its elements.
LEMMA DropIs ==
  ASSUME NEW X, NEW q \in Seq(X), NEW i \in 1 .. Len(q)
  PROVE  LET r == RemoveAt(q, i) IN
         /\ r \in Seq(X) /\ Len(r) = Len(q) - 1
         /\ \A j \in 1 .. Len(r) : r[j] = IF j < i THEN q[j] ELSE q[j + 1]
         /\ IsInjective(q) => IsInjective(r) /\ ToSet(r) = ToSet(q) \ {q[i]}
<1> DEFINE r == RemoveAt(q, i)
<1> DEFINE u == SubSeq(q, 1, i - 1)
           v == SubSeq(q, i + 1, Len(q))
<1>a. u \in Seq(X) /\ Len(u) = i - 1 /\ \A j \in 1 .. i - 1 : u[j] = q[j]
  OBVIOUS
<1>b. v \in Seq(X) /\ Len(v) = Len(q) - i /\ \A j \in 1 .. Len(q) - i : v[j] = q[i + j]
  OBVIOUS
<1>c. r = u \o v
  BY DEF RemoveAt
<1> HIDE DEF u, v, r
<1>1. r \in Seq(X) /\ Len(r) = Len(q) - 1
  <2>1. u \in Seq(X) /\ v \in Seq(X)
    BY <1>a, <1>b
  <2>2. u \o v \in Seq(X) /\ Len(u \o v) = Len(u) + Len(v)
    BY <2>1
  <2>3. Len(u) + Len(v) = Len(q) - 1
    BY <1>a, <1>b
  <2> QED BY <1>c, <2>2, <2>3
<1>2. \A j \in 1 .. Len(r) : r[j] = IF j < i THEN q[j] ELSE q[j + 1]
  <2>1. TAKE j \in 1 .. Len(r)
  <2>2. CASE j < i
    BY <2>2, <1>1, <1>a, <1>b, <1>c
  <2>3. CASE ~ (j < i)
    <3>1. j - (i - 1) \in 1 .. Len(q) - i /\ j > Len(u)
      BY <2>3, <1>1, <1>a
    <3>2. r[j] = v[j - (i - 1)]
      BY <3>1, <1>a, <1>b, <1>c
    <3>3. v[j - (i - 1)] = q[i + (j - (i - 1))]
      BY <3>1, <1>b
    <3>4. i + (j - (i - 1)) = j + 1
      BY <1>1
    <3> QED BY <2>3, <3>2, <3>3, <3>4
  <2> QED BY <2>2, <2>3
<1> HIDE DEF r
<1> DEFINE at(j) == IF j < i THEN j ELSE j + 1
<1>3. \A j \in 1 .. Len(r) : at(j) \in 1 .. Len(q) /\ at(j) # i /\ r[j] = q[at(j)]
  BY <1>1, <1>2
<1>4. \A j, m \in 1 .. Len(r) : at(j) = at(m) => j = m
  BY <1>1
<1>5. \A m \in 1 .. Len(q) : m # i => \E j \in 1 .. Len(r) : at(j) = m
  <2>1. TAKE m \in 1 .. Len(q)
  <2>2. CASE m < i
    <3>1. m \in 1 .. Len(r) /\ at(m) = m
      BY <2>2, <1>1
    <3> QED BY <3>1
  <2>3. CASE m > i
    <3>1. m - 1 \in 1 .. Len(r) /\ at(m - 1) = m
      BY <2>3, <1>1
    <3> QED BY <3>1
  <2> QED BY <2>2, <2>3
<1> HIDE DEF at
<1>6. DOMAIN q = 1 .. Len(q) /\ DOMAIN r = 1 .. Len(r)
  BY <1>1
<1>7. IsInjective(q) => IsInjective(r)
  BY <1>3, <1>4, <1>6 DEF IsInjective
<1>8. IsInjective(q) => ToSet(r) = ToSet(q) \ {q[i]}
  <2>1. SUFFICES ASSUME IsInjective(q) PROVE ToSet(r) = ToSet(q) \ {q[i]}
    OBVIOUS
  <2>2. \A m \in 1 .. Len(q) : q[m] = q[i] => m = i
    BY <2>1, <1>6 DEF IsInjective
  <2>3. ToSet(r) \subseteq ToSet(q) \ {q[i]}
    BY <2>2, <1>3, <1>6 DEF ToSet
  <2>4. ToSet(q) \ {q[i]} \subseteq ToSet(r)
    BY <1>5, <1>3, <1>6 DEF ToSet
  <2> QED BY <2>3, <2>4
<1> QED BY <1>1, <1>2, <1>7, <1>8 DEF r

\* What gla_unlink leaves of the interlinks of a node.
LEMMA UnlinkIs ==
  ASSUME NEW X, NEW q \in Seq(X), NEW a, IsInjective(q)
  PROVE  LET r == gla_unlink(q, a) IN
         r \in Seq(X) /\ IsInjective(r) /\ ToSet(r) = ToSet(q) \ {a}
<1> DEFINE I == {i \in 1 .. Len(q) : q[i] = a}
<1>1. CASE I = {}
  <2>1. gla_unlink(q, a) = q
    BY <1>1 DEF gla_unlink, RemoveFirst
  <2>2. a \notin ToSet(q)
    BY <1>1 DEF ToSet
  <2> QED BY <2>1, <2>2
<1>2. CASE I # {}
  <2>1. I \subseteq Nat
    OBVIOUS
  <2>2. Min(I) \in I
    BY <1>2, <2>1, MinIs
  <2> DEFINE m == Min(I)
  <2>3. gla_unlink(q, a) = RemoveAt(q, m)
    BY <1>2 DEF gla_unlink, RemoveFirst, SelectInSeq
  <2>4. m \in 1 .. Len(q) /\ q[m] = a
    BY <2>2
  <2> HIDE DEF m, I
  <2> QED BY <2>3, <2>4, DropIs
<1> QED BY <1>1, <1>2

-----------------------------------------------------------------------------
(* The invariant of the store *)

Gs     == Graph \cup {0}
Fields == {"name", "next", "prev", "attr", "owner", "in", "out", "start", "end", "weight",
           "first", "n", "map", "counter", "gattr"}

\* Types, as far as something depends on them.
LinksType(next, prev)    == next \in [GC -> GC \cup {0}] /\ prev \in [GC -> GC \cup {0}]
BasicType(name, attr, owner) == DOMAIN name = GC /\ DOMAIN attr = GC /\ owner \in [GC -> Gs]
NodeType(in, out)        == in \in [GN -> Seq(GA)] /\ out \in [GN -> Seq(GA)]
ArcType(start, end, weight) ==
  start \in [GA -> GN \cup {0}] /\ end \in [GA -> GN \cup {0}] /\ DOMAIN weight = GA
ListType(first, n)       == first \in [Gs -> [Kinds -> GC \cup {0}]] /\ n \in [Gs -> [Kinds -> Int]]
TableType(map)           == DOMAIN map = Gs /\ \A g \in Gs : DOMAIN map[g] = Kinds
RestType(counter, gattr) == counter \in [Gs -> [Kinds -> Nat]] /\ DOMAIN gattr = Gs
Shape(s) ==
  /\ DOMAIN s = Fields
  /\ LinksType(s.next, s.prev)
  /\ BasicType(s.name, s.attr, s.owner)
  /\ NodeType(s.in, s.out)
  /\ ArcType(s.start, s.end, s.weight)
  /\ ListType(s.first, s.n)
  /\ TableType(s.map)
  /\ RestType(s.counter, s.gattr)

\* The structures of graph g, and the sequence q that is their list.
Own(s, g, k) == {c \in Live(s, k) : s.owner[c] = g}
ListOf(s, g, k, q) ==
  /\ q \in Seq(GC) /\ IsInjective(q) /\ ToSet(q) = Own(s, g, k)
  /\ s.n[g][k] = Len(q)
  /\ s.first[g][k] = IF q = <<>> THEN 0 ELSE q[1]
  /\ \A i \in 1 .. Len(q) : s.next[q[i]] = IF i = Len(q) THEN 0 ELSE q[i + 1]

\* S has the lists of all graphs; what is free is in none.
Chained(s, S) ==
  /\ S \in [Gs -> [Kinds -> Seq(GC)]]
  /\ \A g \in Gs, k \in Kinds : ListOf(s, g, k, S[g][k])
  /\ \A c \in GC : s.name[c] = NoName => s.next[c] = 0 /\ s.owner[c] = 0

\* The table of names of a graph.
TableOf(s, g, k) ==
  /\ s.map[g][k] \in [{s.name[c] : c \in Own(s, g, k)} -> Own(s, g, k)]
  /\ \A c \in Own(s, g, k) : s.map[g][k][s.name[c]] = c
Tables(s) == \A g \in Gs, k \in Kinds : TableOf(s, g, k)

\* The link back of c, and those of all.
BackAt(s, q, c) == \A i \in 1 .. Len(q) : q[i] = c => s.prev[c] = IF i = 1 THEN 0 ELSE q[i - 1]
Headed(s, q)      == q # <<>> => s.prev[q[1]] = 0
Back(s, q)      == \A i \in 1 .. Len(q) : s.prev[q[i]] = IF i = 1 THEN 0 ELSE q[i - 1]

-----------------------------------------------------------------------------
(* The fields after the functions of the store *)

Setup(s, c, g, k, x) == gc_add(gc_setup(s, c, g, k, x), c, g, k)
Gone(s, c, k)        == gc_delete(gc_remove(s, c, s.owner[c], k), c, k)

\* r is s with c as the first structure of its kind in graph g, named x.
SetupStep(s, c, g, k, x, r) ==
  /\ DOMAIN r = Fields
  /\ r.in = s.in /\ r.out = s.out /\ r.start = s.start /\ r.end = s.end
  /\ r.weight = s.weight /\ r.counter = s.counter /\ r.gattr = s.gattr
  /\ r.name = [s.name EXCEPT ![c] = x]
  /\ r.attr = [s.attr EXCEPT ![c] = NoAttr]
  /\ r.owner = [s.owner EXCEPT ![c] = g]
  /\ r.map = [s.map EXCEPT ![g][k] = Entered(@, x, c)]
  /\ r.n = [s.n EXCEPT ![g][k] = @ + 1]
  /\ r.first = [s.first EXCEPT ![g][k] = c]
  /\ r.next = [s.next EXCEPT ![c] = s.first[g][k]]
  /\ r.prev = [Linked(s.prev, s.first[g][k], c) EXCEPT ![c] = 0]

\* What ga_new and gn_new have in common does so.
LEMMA SetupFields ==
  ASSUME NEW s, Shape(s), NEW c \in GC, NEW g \in Gs, NEW k \in Kinds, NEW x
  PROVE  SetupStep(s, c, g, k, x, Setup(s, c, g, k, x))
<1> DEFINE m == gc_setup(s, c, g, k, x)
<1>1. /\ DOMAIN m = Fields
      /\ m.in = s.in /\ m.out = s.out /\ m.start = s.start /\ m.end = s.end
      /\ m.weight = s.weight /\ m.counter = s.counter /\ m.gattr = s.gattr
      /\ m.name = [s.name EXCEPT ![c] = x]
      /\ m.attr = [s.attr EXCEPT ![c] = NoAttr]
      /\ m.owner = [s.owner EXCEPT ![c] = g]
      /\ m.map = [s.map EXCEPT ![g][k] = Entered(@, x, c)]
      /\ m.n = s.n /\ m.first = s.first /\ m.next = s.next /\ m.prev = s.prev
  BY DEF gc_setup, Shape, Fields
<1> DEFINE r == gc_add(m, c, g, k)
<1> HIDE DEF m
<1>2. /\ DOMAIN r = Fields
      /\ r.in = m.in /\ r.out = m.out /\ r.start = m.start /\ r.end = m.end
      /\ r.weight = m.weight /\ r.counter = m.counter /\ r.gattr = m.gattr
      /\ r.name = m.name /\ r.attr = m.attr /\ r.owner = m.owner /\ r.map = m.map
      /\ r.n = [m.n EXCEPT ![g][k] = @ + 1]
      /\ r.first = [m.first EXCEPT ![g][k] = c]
      /\ r.next = [m.next EXCEPT ![c] = m.first[g][k]]
      /\ r.prev = [Linked(m.prev, m.first[g][k], c) EXCEPT ![c] = 0]
  BY <1>1 DEF gc_add, Fields
<1> HIDE DEF r
<1>3. Setup(s, c, g, k, x) = r
  BY DEF Setup, r, m
<1> QED BY <1>1, <1>2, <1>3 DEF SetupStep

\* r is s without c, which was in graph g.
GoneStep(s, c, g, k, r) ==
  /\ DOMAIN r = Fields
  /\ r.in = s.in /\ r.out = s.out /\ r.start = s.start /\ r.end = s.end
  /\ r.weight = s.weight /\ r.counter = s.counter /\ r.gattr = s.gattr
  /\ r.name = [s.name EXCEPT ![c] = NoName]
  /\ r.attr = [s.attr EXCEPT ![c] = NoAttr]
  /\ r.owner = [s.owner EXCEPT ![c] = 0]
  /\ r.map = [s.map EXCEPT ![g][k] = Without(@, s.name[c])]
  /\ r.n = [s.n EXCEPT ![g][k] = @ - 1]
  /\ r.first = [s.first EXCEPT ![g][k] = IF @ = c THEN s.next[c] ELSE @]
  /\ r.next = [Linked(s.next, s.prev[c], s.next[c]) EXCEPT ![c] = 0]
  /\ r.prev = [Linked(s.prev, s.next[c], s.prev[c]) EXCEPT ![c] = 0]

\* What ga_delete and gn_delete have in common does so, for a structure that is in a list.
LEMMA GoneFields ==
  ASSUME NEW s, Shape(s), NEW c \in GC, NEW k \in Kinds,
         s.first[s.owner[c]][k] = c \/ s.prev[c] # 0 \/ s.next[c] # 0
  PROVE  GoneStep(s, c, s.owner[c], k, Gone(s, c, k))
<1> DEFINE g == s.owner[c]
           t == gc_remove(s, c, g, k)
<1>1. /\ DOMAIN t = Fields
      /\ t.in = s.in /\ t.out = s.out /\ t.start = s.start /\ t.end = s.end
      /\ t.weight = s.weight /\ t.counter = s.counter /\ t.gattr = s.gattr
      /\ t.name = s.name /\ t.attr = s.attr /\ t.owner = s.owner /\ t.map = s.map
      /\ t.n = [s.n EXCEPT ![g][k] = @ - 1]
      /\ t.first = [s.first EXCEPT ![g][k] = IF @ = c THEN s.next[c] ELSE @]
      /\ t.next = [Linked(s.next, s.prev[c], s.next[c]) EXCEPT ![c] = 0]
      /\ t.prev = [Linked(s.prev, s.next[c], s.prev[c]) EXCEPT ![c] = 0]
  <2>1. t = [s EXCEPT !.first[g][k] = IF @ = c THEN s.next[c] ELSE @,
                     !.next = [Linked(@, s.prev[c], s.next[c]) EXCEPT ![c] = 0],
                     !.prev = [Linked(@, s.next[c], s.prev[c]) EXCEPT ![c] = 0],
                     !.n[g][k] = @ - 1]
    BY DEF gc_remove
  <2>2. DOMAIN s = Fields
    BY DEF Shape
  <2> HIDE DEF t, g
  <2> QED BY <2>1, <2>2 DEF Fields
<1>2. Gone(s, c, k) = gc_delete(t, c, k)
  BY DEF Gone
<1> HIDE DEF t
<1> DEFINE r == gc_delete(t, c, k)
<1>3. /\ DOMAIN r = Fields
      /\ r.in = t.in /\ r.out = t.out /\ r.start = t.start /\ r.end = t.end
      /\ r.weight = t.weight /\ r.counter = t.counter /\ r.gattr = t.gattr
      /\ r.name = [t.name EXCEPT ![c] = NoName]
      /\ r.attr = [t.attr EXCEPT ![c] = NoAttr]
      /\ r.owner = [t.owner EXCEPT ![c] = 0]
      /\ r.map = [t.map EXCEPT ![t.owner[c]][k] = Without(@, t.name[c])]
      /\ r.n = t.n /\ r.first = t.first /\ r.next = t.next /\ r.prev = t.prev
  BY <1>1 DEF gc_delete, Fields
<1> HIDE DEF r, g
<1>4. t.owner[c] = g
  BY <1>1 DEF g
<1>5. /\ DOMAIN r = Fields
      /\ r.in = s.in /\ r.out = s.out /\ r.start = s.start /\ r.end = s.end
      /\ r.weight = s.weight /\ r.counter = s.counter /\ r.gattr = s.gattr
      /\ r.name = [s.name EXCEPT ![c] = NoName]
      /\ r.attr = [s.attr EXCEPT ![c] = NoAttr]
      /\ r.owner = [s.owner EXCEPT ![c] = 0]
      /\ r.map = [s.map EXCEPT ![g][k] = Without(@, s.name[c])]
      /\ r.n = [s.n EXCEPT ![g][k] = @ - 1]
      /\ r.first = [s.first EXCEPT ![g][k] = IF @ = c THEN s.next[c] ELSE @]
      /\ r.next = [Linked(s.next, s.prev[c], s.next[c]) EXCEPT ![c] = 0]
      /\ r.prev = [Linked(s.prev, s.next[c], s.prev[c]) EXCEPT ![c] = 0]
  BY <1>1, <1>3, <1>4
<1> QED BY <1>2, <1>5 DEF r, g, GoneStep

-----------------------------------------------------------------------------
(* Structures that come and go *)

\* What a table of links is with one more link.
Links == [GC -> GC \cup {0}]
Ends  == GC \cup {0}
LinkedTo(link, c, to, m) ==
  m \in Links /\ \A d \in GC : m[d] = IF c # 0 /\ d = c THEN to ELSE link[d]

\* Linked is that.
LEMMA LinkedIs ==
  ASSUME NEW link \in Links, NEW c \in Ends, NEW to \in Ends
  PROVE  LinkedTo(link, c, to, Linked(link, c, to))
BY DEF Linked, LinkedTo, Links, Ends

\* Nodes and arcs.
LEMMA Pools ==
  /\ Kinds = {"nodes", "arcs"} /\ Pool("nodes") = GN /\ Pool("arcs") = GA
  /\ GC \subseteq Nat /\ 0 \notin GC /\ GN \cap GA = {} /\ GC = GN \cup GA
  /\ \A k \in Kinds : Pool(k) \subseteq GC
  /\ \A k, j \in Kinds : k # j => Pool(k) \cap Pool(j) = {}
  /\ IsFiniteSet(GN) /\ IsFiniteSet(GA)
<1>1. Kinds = {"nodes", "arcs"} /\ Pool("nodes") = GN /\ Pool("arcs") = GA /\ GC = GN \cup GA
  BY DEF Kinds, Pool, GC
<1>2. MaxNode \in Nat /\ MaxArc \in Nat
  BY StoreAssumption
<1>3. GN \subseteq Nat /\ 0 \notin GN /\ GA \subseteq Nat /\ 0 \notin GA
  BY <1>2 DEF GN, GA
<1>4. GN \cap GA = {}
  BY <1>2 DEF GN, GA
<1>5. IsFiniteSet(GN) /\ IsFiniteSet(GA)
  BY <1>2, FS_Interval DEF GN, GA
<1>6. GC \subseteq Nat /\ 0 \notin GC
  BY <1>1, <1>3
<1>7. \A k \in Kinds : Pool(k) \subseteq GC
  BY <1>1
<1>8. \A k, j \in Kinds : k # j => Pool(k) \cap Pool(j) = {}
  BY <1>1, <1>4
<1> QED BY <1>1, <1>4, <1>5, <1>6, <1>7, <1>8

\* What is in the lists of S.
LEMMA Members ==
  ASSUME NEW s, NEW S, Chained(s, S), NEW g \in Gs, NEW k \in Kinds
  PROVE  LET q == S[g][k] IN
         /\ q \in Seq(GC) /\ IsInjective(q) /\ ToSet(q) = Own(s, g, k)
         /\ \A i \in 1 .. Len(q) : q[i] \in Own(s, g, k)
         /\ \A i, j \in 1 .. Len(q) : q[i] = q[j] => i = j
         /\ \A c \in Own(s, g, k) : \E i \in 1 .. Len(q) : q[i] = c
         /\ \A c \in Own(s, g, k) : c \in Pool(k) /\ c \in GC /\ s.name[c] # NoName /\ s.owner[c] = g
<1> DEFINE q == S[g][k]
<1>1. q \in Seq(GC) /\ IsInjective(q) /\ ToSet(q) = Own(s, g, k)
  BY DEF Chained, ListOf
<1>2. DOMAIN q = 1 .. Len(q)
  BY <1>1
<1> HIDE DEF q
<1>3. \A i \in 1 .. Len(q) : q[i] \in Own(s, g, k)
  BY <1>1, <1>2 DEF ToSet
<1>4. \A i, j \in 1 .. Len(q) : q[i] = q[j] => i = j
  BY <1>1, <1>2 DEF IsInjective
<1>5. \A c \in Own(s, g, k) : \E i \in 1 .. Len(q) : q[i] = c
  BY <1>1, <1>2 DEF ToSet
<1>6. \A c \in Own(s, g, k) : c \in Pool(k) /\ c \in GC /\ s.name[c] # NoName /\ s.owner[c] = g
  BY Pools DEF Own, Live
<1> QED BY <1>1, <1>3, <1>4, <1>5, <1>6 DEF q

\* Whose list c is in.
LEMMA OneOwner ==
  ASSUME NEW s, NEW g \in Gs, NEW k \in Kinds, NEW g2 \in Gs, NEW k2 \in Kinds,
         NEW c \in Own(s, g, k), c \in Own(s, g2, k2)
  PROVE  g = g2 /\ k = k2
BY Pools DEF Own, Live

\* What is in which graph after a structure came.
LEMMA SetupSets ==
  ASSUME NEW s, Shape(s), NEW g \in Gs, NEW k \in Kinds, NEW c \in Pool(k), s.name[c] = NoName,
         NEW x, x # NoName
  PROVE  LET r == Setup(s, c, g, k, x) IN
         /\ Live(r, k) = Live(s, k) \cup {c}
         /\ Own(r, g, k) = Own(s, g, k) \cup {c}
         /\ \A k2 \in Kinds : k2 # k => Live(r, k2) = Live(s, k2)
         /\ \A g2 \in Gs, k2 \in Kinds : g2 # g \/ k2 # k => Own(r, g2, k2) = Own(s, g2, k2)
<1> DEFINE r == Setup(s, c, g, k, x)
<1>0. c \in GC
  BY Pools
<1>1. r.name = [s.name EXCEPT ![c] = x] /\ r.owner = [s.owner EXCEPT ![c] = g]
  <2>1. SetupStep(s, c, g, k, x, r)
    BY <1>0, SetupFields
  <2> HIDE DEF r
  <2> QED BY <2>1 DEF SetupStep
<1>2. DOMAIN s.name = GC /\ DOMAIN s.owner = GC
  BY DEF Shape, BasicType
<1> HIDE DEF r
<1>3. r.name[c] = x /\ r.owner[c] = g /\ \A d \in GC : d # c => r.name[d] = s.name[d] /\ r.owner[d] = s.owner[d]
  BY <1>0, <1>1, <1>2
<1>4. Live(r, k) = Live(s, k) \cup {c}
  BY <1>3, Pools DEF Live
<1>5. \A k2 \in Kinds : k2 # k => Live(r, k2) = Live(s, k2)
  BY <1>3, Pools DEF Live
<1>6. Own(r, g, k) = Own(s, g, k) \cup {c}
  <2>1. \A d \in Live(s, k) : d # c /\ r.owner[d] = s.owner[d]
    BY <1>3, Pools DEF Live
  <2> QED BY <1>3, <1>4, <2>1 DEF Own
<1>7. \A g2 \in Gs, k2 \in Kinds : g2 # g \/ k2 # k => Own(r, g2, k2) = Own(s, g2, k2)
  <2>1. \A k2 \in Kinds : \A d \in Live(s, k2) : d # c /\ r.owner[d] = s.owner[d]
    BY <1>3, Pools DEF Live
  <2> QED BY <1>3, <1>4, <1>5, <2>1 DEF Own
<1> QED BY <1>4, <1>5, <1>6, <1>7 DEF r

\* Types after a structure came.
LEMMA SetupShape ==
  ASSUME NEW s, Shape(s), NEW g \in Gs, NEW k \in Kinds, NEW c \in Pool(k), NEW x
  PROVE  Shape(Setup(s, c, g, k, x))
<1> DEFINE r == Setup(s, c, g, k, x)
<1>0. c \in GC
  BY Pools
<1>1. SetupStep(s, c, g, k, x, r)
  BY <1>0, SetupFields
<1> HIDE DEF r
<1>2. BasicType(r.name, r.attr, r.owner)
  <2>1. BasicType(s.name, s.attr, s.owner)
    BY DEF Shape
  <2>2. /\ r.name = [s.name EXCEPT ![c] = x] /\ r.attr = [s.attr EXCEPT ![c] = NoAttr]
        /\ r.owner = [s.owner EXCEPT ![c] = g]
    BY <1>1 DEF SetupStep
  <2> QED BY <1>0, <2>1, <2>2 DEF BasicType
<1>3. LinksType(r.next, r.prev)
  <2>1. LinksType(s.next, s.prev) /\ ListType(s.first, s.n)
    BY DEF Shape
  <2>2. s.first[g][k] \in GC \cup {0}
    BY <2>1 DEF ListType
  <2>3. r.next = [s.next EXCEPT ![c] = s.first[g][k]]
    BY <1>1 DEF SetupStep
  <2>4. r.prev = [Linked(s.prev, s.first[g][k], c) EXCEPT ![c] = 0]
    BY <1>1 DEF SetupStep
  <2>a. s.prev \in Links /\ s.first[g][k] \in Ends /\ c \in Ends
    BY <1>0, <2>1, <2>2 DEF LinksType, Links, Ends
  <2>b. LinkedTo(s.prev, s.first[g][k], c, Linked(s.prev, s.first[g][k], c))
    BY <2>a, LinkedIs
  <2>5. Linked(s.prev, s.first[g][k], c) \in [GC -> GC \cup {0}]
    BY <2>b DEF LinkedTo, Links
  <2> QED BY <1>0, <2>1, <2>2, <2>3, <2>4, <2>5 DEF LinksType
<1>4. ListType(r.first, r.n)
  <2>1. ListType(s.first, s.n)
    BY DEF Shape
  <2>2. r.n = [s.n EXCEPT ![g][k] = @ + 1] /\ r.first = [s.first EXCEPT ![g][k] = c]
    BY <1>1 DEF SetupStep
  <2> QED BY <1>0, <2>1, <2>2 DEF ListType
<1>5. TableType(r.map)
  <2> DEFINE m == Entered(s.map[g][k], x, c)
  <2>1. r.map = [s.map EXCEPT ![g][k] = m]
    BY <1>1 DEF SetupStep
  <2>2. TableType(s.map)
    BY DEF Shape
  <2> HIDE DEF m
  <2> QED BY <2>1, <2>2 DEF TableType
<1>6. DOMAIN r = Fields /\ NodeType(r.in, r.out) /\ ArcType(r.start, r.end, r.weight) /\ RestType(r.counter, r.gattr)
  BY <1>1 DEF Shape, SetupStep
<1> QED BY <1>2, <1>3, <1>4, <1>5, <1>6 DEF Shape, r

\* Its list after a structure came, and the links back.
LEMMA SetupList ==
  ASSUME NEW s, Shape(s), NEW S, Chained(s, S),
         NEW g \in Gs, NEW k \in Kinds, NEW c \in Pool(k), s.name[c] = NoName, NEW x, x # NoName
  PROVE  LET r == Setup(s, c, g, k, x)
             q == <<c>> \o S[g][k] IN
         /\ ListOf(r, g, k, q)
         /\ Headed(r, q)
         /\ Back(s, S[g][k]) => Back(r, q)
         /\ \A i \in 2 .. Len(S[g][k]) : r.prev[S[g][k][i]] = s.prev[S[g][k][i]]
<1> DEFINE r == Setup(s, c, g, k, x)
           p == S[g][k]
           q == <<c>> \o p
<1>0. c \in GC
  BY Pools
<1>1. SetupStep(s, c, g, k, x, r)
  BY <1>0, SetupFields
<1>2. ListOf(s, g, k, p)
  BY DEF Chained
<1>3. Own(r, g, k) = Own(s, g, k) \cup {c}
  BY SetupSets
<1>4. /\ p \in Seq(GC) /\ IsInjective(p) /\ ToSet(p) = Own(s, g, k)
      /\ \A i \in 1 .. Len(p) : p[i] \in GC /\ p[i] # c
      /\ \A i, j \in 1 .. Len(p) : p[i] = p[j] => i = j
  BY Members
<1>5. c \notin Own(s, g, k)
  BY DEF Own, Live
<1>6. /\ q \in Seq(GC) /\ Len(q) = Len(p) + 1 /\ q # <<>>
      /\ \A i \in 1 .. Len(q) : q[i] = IF i = 1 THEN c ELSE p[i - 1]
      /\ ToSet(q) = ToSet(p) \cup {c} /\ IsInjective(q)
  <2> HIDE DEF p
  <2> QED BY <1>0, <1>4, <1>5, ConsIs
<1> HIDE DEF r, q, p
<1>7. LinksType(s.next, s.prev) /\ ListType(s.first, s.n)
  BY DEF Shape
<1> DEFINE f == s.first[g][k]
<1>8. f = IF p = <<>> THEN 0 ELSE p[1]
  BY <1>2 DEF ListOf
<1>9. p # <<>> => 1 \in 1 .. Len(p)
  BY <1>4
<1>10. f \in GC \cup {0} /\ f # c
  BY <1>0, <1>4, <1>8, <1>9, Pools
<1> HIDE DEF f
<1>11. \A d \in GC : r.next[d] = IF d = c THEN f ELSE s.next[d]
  <2>1. r.next = [s.next EXCEPT ![c] = f]
    BY <1>1 DEF SetupStep, f
  <2> QED BY <1>7, <2>1 DEF LinksType
<1>12. \A d \in GC : r.prev[d] = IF d = c THEN 0 ELSE IF d = f THEN c ELSE s.prev[d]
  <2>1. r.prev = [Linked(s.prev, f, c) EXCEPT ![c] = 0]
    BY <1>1 DEF SetupStep, f
  <2>2. s.prev \in Links /\ c \in Ends /\ f \in Ends
    BY <1>0, <1>7, <1>10 DEF LinksType, Links, Ends
  <2>3. LinkedTo(s.prev, f, c, Linked(s.prev, f, c))
    BY <2>2, LinkedIs
  <2> QED BY <1>0, <2>1, <2>3, Pools DEF LinkedTo, Links
<1>13. r.n[g][k] = Len(q) /\ r.first[g][k] = c
  <2>1. r.n = [s.n EXCEPT ![g][k] = @ + 1] /\ r.first = [s.first EXCEPT ![g][k] = c]
    BY <1>1 DEF SetupStep
  <2>2. s.n[g][k] = Len(p)
    BY <1>2 DEF ListOf
  <2> QED BY <1>6, <1>7, <2>1, <2>2 DEF ListType
<1>14. \A i \in 1 .. Len(p) : s.next[p[i]] = IF i = Len(p) THEN 0 ELSE p[i + 1]
  BY <1>2 DEF ListOf
<1>15. \A i \in 1 .. Len(q) : r.next[q[i]] = IF i = Len(q) THEN 0 ELSE q[i + 1]
  <2>1. TAKE i \in 1 .. Len(q)
  <2>2. CASE i = 1
    <3>1. r.next[q[i]] = f
      BY <2>2, <1>0, <1>6, <1>11
    <3>2. CASE p = <<>>
      BY <2>2, <3>1, <3>2, <1>6, <1>8
    <3>3. CASE p # <<>>
      <4>1. i + 1 \in 1 .. Len(q) /\ i # Len(q) /\ i + 1 - 1 = 1
        BY <2>2, <3>3, <1>9, <1>6, <1>4
      <4>2. q[i + 1] = p[1]
        BY <4>1, <1>6, <2>2
      <4> QED BY <3>1, <3>3, <4>1, <4>2, <1>8
    <3> QED BY <3>2, <3>3
  <2>3. CASE i # 1
    <3>1. i - 1 \in 1 .. Len(p) /\ q[i] = p[i - 1] /\ (i = Len(q) <=> i - 1 = Len(p))
      BY <2>3, <1>6, <1>4
    <3>2. r.next[q[i]] = IF i - 1 = Len(p) THEN 0 ELSE p[i - 1 + 1]
      BY <3>1, <1>4, <1>11, <1>14
    <3>3. i # Len(q) => i + 1 \in 1 .. Len(q) /\ q[i + 1] = p[i - 1 + 1]
      BY <2>3, <1>6, <1>4
    <3> QED BY <3>1, <3>2, <3>3
  <2> QED BY <2>2, <2>3
<1>16. ListOf(r, g, k, q)
  <2>1. 1 \in 1 .. Len(q) /\ q[1] = c
    BY <1>6, <1>4
  <2> QED BY <1>3, <1>4, <1>6, <1>13, <1>15, <2>1 DEF ListOf
<1>17. Headed(r, q)
  <2>1. 1 \in 1 .. Len(q) /\ q[1] = c
    BY <1>6, <1>4
  <2> QED BY <2>1, <1>0, <1>12 DEF Headed
<1>18. \A i \in 1 .. Len(p) : i # 1 => p[i] # f
  BY <1>4, <1>8, <1>9
<1>19. \A i \in 2 .. Len(p) : r.prev[p[i]] = s.prev[p[i]]
  <2>1. \A i \in 2 .. Len(p) : i \in 1 .. Len(p) /\ i # 1
    BY <1>4
  <2> QED BY <2>1, <1>4, <1>12, <1>18
<1>20. Back(s, p) => Back(r, q)
  <2>1. SUFFICES ASSUME Back(s, p), NEW i \in 1 .. Len(q)
                 PROVE  r.prev[q[i]] = IF i = 1 THEN 0 ELSE q[i - 1]
    BY DEF Back
  <2>2. CASE i = 1
    BY <2>2, <1>0, <1>6, <1>12
  <2>3. CASE i = 2
    <3>1. p # <<>> /\ q[2] = p[1] /\ q[1] = c /\ p[1] \in GC /\ p[1] # c /\ i - 1 = 1
      BY <2>3, <1>6, <1>4
    <3> QED BY <2>3, <3>1, <1>8, <1>12
  <2>4. CASE i > 2
    <3>1. i - 1 \in 2 .. Len(p) /\ q[i] = p[i - 1] /\ q[i - 1] = p[i - 1 - 1] /\ i - 1 \in 1 .. Len(p) /\ i - 1 # 1
      BY <2>4, <1>6, <1>4
    <3>2. s.prev[p[i - 1]] = p[i - 1 - 1]
      BY <3>1, <2>1 DEF Back
    <3> QED BY <2>4, <3>1, <3>2, <1>19
  <2> QED BY <2>2, <2>3, <2>4, <1>6, <1>4
<1> QED BY <1>16, <1>17, <1>19, <1>20 DEF r, q, p

\* A list of which nothing changed.
LEMMA ListSame ==
  ASSUME NEW s, NEW r, NEW g, NEW k, NEW q, ListOf(s, g, k, q), Own(r, g, k) = Own(s, g, k),
         r.n[g][k] = s.n[g][k], r.first[g][k] = s.first[g][k],
         \A d \in Own(s, g, k) : r.next[d] = s.next[d]
  PROVE  ListOf(r, g, k, q)
<1>1. \A i \in 1 .. Len(q) : q[i] \in Own(s, g, k)
  BY DEF ListOf, ToSet
<1> QED BY <1>1 DEF ListOf

\* A table of which nothing changed.
LEMMA TableSame ==
  ASSUME NEW s, NEW r, NEW g, NEW k, TableOf(s, g, k), Own(r, g, k) = Own(s, g, k),
         r.map[g][k] = s.map[g][k], \A d \in Own(s, g, k) : r.name[d] = s.name[d]
  PROVE  TableOf(r, g, k)
<1>1. {r.name[c] : c \in Own(r, g, k)} = {s.name[c] : c \in Own(s, g, k)}
  OBVIOUS
<1> QED BY <1>1 DEF TableOf

\* One list of S exchanged.
LEMMA Exchanged ==
  ASSUME NEW S \in [Gs -> [Kinds -> Seq(GC)]], NEW g \in Gs, NEW k \in Kinds, NEW q \in Seq(GC)
  PROVE  LET T == [S EXCEPT ![g][k] = q] IN
         /\ T \in [Gs -> [Kinds -> Seq(GC)]]
         /\ T[g][k] = q
         /\ \A g2 \in Gs, k2 \in Kinds : g2 # g \/ k2 # k => T[g2][k2] = S[g2][k2]
OBVIOUS

\* The tables after a structure came.
LEMMA SetupTables ==
  ASSUME NEW s, Shape(s), NEW S, Chained(s, S), Tables(s),
         NEW g \in Gs, NEW k \in Kinds, NEW c \in Pool(k), s.name[c] = NoName,
         NEW x, x # NoName, x \notin DOMAIN s.map[g][k]
  PROVE  Tables(Setup(s, c, g, k, x))
<1> DEFINE r == Setup(s, c, g, k, x)
           m == s.map[g][k]
           m2 == Entered(m, x, c)
<1>0. c \in GC
  BY Pools
<1>1. SetupStep(s, c, g, k, x, r)
  BY <1>0, SetupFields
<1>2. Own(r, g, k) = Own(s, g, k) \cup {c}
      /\ \A g2 \in Gs, k2 \in Kinds : g2 # g \/ k2 # k => Own(r, g2, k2) = Own(s, g2, k2)
  BY SetupSets
<1> HIDE DEF r
<1>3. TableType(s.map) /\ BasicType(s.name, s.attr, s.owner)
  BY DEF Shape
<1>4. r.map = [s.map EXCEPT ![g][k] = m2]
  BY <1>1 DEF SetupStep
<1>5. r.map[g][k] = m2 /\ \A g2 \in Gs, k2 \in Kinds : g2 # g \/ k2 # k => r.map[g2][k2] = s.map[g2][k2]
  <2> HIDE DEF m2
  <2> QED BY <1>3, <1>4 DEF TableType
<1>6. \A d \in GC : r.name[d] = IF d = c THEN x ELSE s.name[d]
  BY <1>1, <1>3 DEF SetupStep, BasicType
<1>7. \A g2 \in Gs, k2 \in Kinds : \A d \in Own(s, g2, k2) : d \in GC /\ d # c
  BY Pools DEF Own, Live
<1>8. \A g2 \in Gs, k2 \in Kinds : g2 # g \/ k2 # k => TableOf(r, g2, k2)
  <2>1. SUFFICES ASSUME NEW g2 \in Gs, NEW k2 \in Kinds, g2 # g \/ k2 # k
                 PROVE  TableOf(r, g2, k2)
    OBVIOUS
  <2>2. TableOf(s, g2, k2)
    BY DEF Tables
  <2>3. \A d \in Own(s, g2, k2) : r.name[d] = s.name[d]
    BY <1>6, <1>7
  <2> QED BY <1>2, <1>5, <2>1, <2>2, <2>3, TableSame
<1>9. TableOf(r, g, k)
  <2> DEFINE O == Own(s, g, k)
  <2>1. m \in [{s.name[d] : d \in O} -> O] /\ \A d \in O : m[s.name[d]] = d
    BY DEF Tables, TableOf
  <2>2. Own(r, g, k) = O \cup {c}
    BY <1>2
  <2>3. \A d \in O : r.name[d] = s.name[d]
    BY <1>6, <1>7
  <2>4. r.name[c] = x
    BY <1>0, <1>6
  <2>5. DOMAIN m = {s.name[d] : d \in O} /\ x \notin DOMAIN m
    BY <2>1
  <2>6. m2 = [y \in {x} \cup DOMAIN m |-> IF y = x THEN c ELSE m[y]]
    BY DEF Entered
  <2>7. {r.name[d] : d \in O \cup {c}} = {x} \cup DOMAIN m
    BY <2>3, <2>4, <2>5
  <2> HIDE DEF O, m, m2
  <2>8. m2 \in [{r.name[d] : d \in O \cup {c}} -> O \cup {c}]
    BY <2>1, <2>5, <2>6, <2>7
  <2>9. \A d \in O \cup {c} : m2[r.name[d]] = d
    <3>1. m2[x] = c
      BY <2>6
    <3>2. \A d \in O : m2[s.name[d]] = m[s.name[d]]
      BY <2>5, <2>6
    <3> QED BY <2>1, <2>3, <2>4, <3>1, <3>2
  <2> QED BY <1>5, <2>2, <2>8, <2>9 DEF TableOf
<1> QED BY <1>8, <1>9 DEF Tables, r

\* A new structure: what it does to the lists and tables of all graphs.
LEMMA SetupStore ==
  ASSUME NEW s, Shape(s), NEW S, Chained(s, S), Tables(s),
         NEW g \in Gs, NEW k \in Kinds, NEW c \in Pool(k), s.name[c] = NoName,
         NEW x, x # NoName, x \notin DOMAIN s.map[g][k]
  PROVE  LET r == Setup(s, c, g, k, x)
             T == [S EXCEPT ![g][k] = <<c>> \o S[g][k]] IN
         /\ Shape(r) /\ Chained(r, T) /\ Tables(r)
         /\ \A g2 \in Gs, k2 \in Kinds : g2 # g \/ k2 # k =>
              /\ T[g2][k2] = S[g2][k2]
              /\ \A d \in Own(s, g2, k2) : r.prev[d] = s.prev[d]
<1> DEFINE r == Setup(s, c, g, k, x)
           q == <<c>> \o S[g][k]
           T == [S EXCEPT ![g][k] = q]
<1>0. c \in GC
  BY Pools
<1>1. SetupStep(s, c, g, k, x, r)
  BY <1>0, SetupFields
<1>2. Shape(r) /\ Tables(r)
  BY SetupShape, SetupTables
<1>3. \A g2 \in Gs, k2 \in Kinds : g2 # g \/ k2 # k => Own(r, g2, k2) = Own(s, g2, k2)
  BY SetupSets
<1>4. ListOf(r, g, k, q)
  BY SetupList
<1> HIDE DEF r, q
<1>5. S \in [Gs -> [Kinds -> Seq(GC)]] /\ q \in Seq(GC)
  BY <1>4 DEF Chained, ListOf
<1>6. /\ T \in [Gs -> [Kinds -> Seq(GC)]] /\ T[g][k] = q
      /\ \A g2 \in Gs, k2 \in Kinds : g2 # g \/ k2 # k => T[g2][k2] = S[g2][k2]
  BY <1>5, Exchanged
<1> HIDE DEF T
<1> DEFINE f == s.first[g][k]
<1>7. LinksType(s.next, s.prev) /\ ListType(s.first, s.n) /\ BasicType(s.name, s.attr, s.owner)
  BY DEF Shape
<1>8. f \in GC \cup {0} /\ (f # 0 => f \in Own(s, g, k))
  <2>1. S[g][k] # <<>> => S[g][k][1] \in Own(s, g, k)
    <3>1. S[g][k] \in Seq(GC)
      BY <1>5
    <3>2. S[g][k] # <<>> => 1 \in 1 .. Len(S[g][k])
      BY <3>1
    <3> QED BY <3>2, Members
  <2>2. f = IF S[g][k] = <<>> THEN 0 ELSE S[g][k][1]
    BY DEF Chained, ListOf
  <2>3. Own(s, g, k) \subseteq GC
    BY Members
  <2> QED BY <2>1, <2>2, <2>3
<1> HIDE DEF f
<1>9. \A d \in GC : r.next[d] = IF d = c THEN f ELSE s.next[d]
  <2>1. r.next = [s.next EXCEPT ![c] = f]
    BY <1>1 DEF SetupStep, f
  <2> QED BY <1>7, <2>1 DEF LinksType
<1>10. \A d \in GC : r.prev[d] = IF d = c THEN 0 ELSE IF d = f THEN c ELSE s.prev[d]
  <2>1. r.prev = [Linked(s.prev, f, c) EXCEPT ![c] = 0]
    BY <1>1 DEF SetupStep, f
  <2>2. s.prev \in Links /\ c \in Ends /\ f \in Ends
    BY <1>0, <1>7, <1>8 DEF LinksType, Links, Ends
  <2>3. LinkedTo(s.prev, f, c, Linked(s.prev, f, c))
    BY <2>2, LinkedIs
  <2> QED BY <1>0, <2>1, <2>3, Pools DEF LinkedTo, Links
<1>11. \A g2 \in Gs, k2 \in Kinds : g2 # g \/ k2 # k =>
         \A d \in Own(s, g2, k2) : d \in GC /\ d # c /\ d # f
  <2>1. SUFFICES ASSUME NEW g2 \in Gs, NEW k2 \in Kinds, g2 # g \/ k2 # k, NEW d \in Own(s, g2, k2)
                 PROVE  d \in GC /\ d # c /\ d # f
    OBVIOUS
  <2>2. d \in GC /\ d # c
    BY Members
  <2>3. d # f
    BY <2>1, <2>2, <1>8, OneOwner, Pools
  <2> QED BY <2>2, <2>3
<1>12. \A g2 \in Gs, k2 \in Kinds : g2 # g \/ k2 # k => ListOf(r, g2, k2, S[g2][k2])
  <2>1. SUFFICES ASSUME NEW g2 \in Gs, NEW k2 \in Kinds, g2 # g \/ k2 # k
                 PROVE  ListOf(r, g2, k2, S[g2][k2])
    OBVIOUS
  <2>2. ListOf(s, g2, k2, S[g2][k2])
    BY DEF Chained
  <2>3. r.n = [s.n EXCEPT ![g][k] = @ + 1] /\ r.first = [s.first EXCEPT ![g][k] = c]
    BY <1>1 DEF SetupStep
  <2>4. r.n[g2][k2] = s.n[g2][k2] /\ r.first[g2][k2] = s.first[g2][k2]
    BY <1>7, <2>1, <2>3 DEF ListType
  <2>5. \A d \in Own(s, g2, k2) : r.next[d] = s.next[d]
    BY <1>9, <1>11, <2>1
  <2> QED BY <1>3, <2>1, <2>2, <2>4, <2>5, ListSame
<1>13. \A d \in GC : r.name[d] = NoName => r.next[d] = 0 /\ r.owner[d] = 0
  <2>1. \A d \in GC : d # c => r.name[d] = s.name[d] /\ r.owner[d] = s.owner[d]
    BY <1>0, <1>1, <1>7 DEF SetupStep, BasicType
  <2>2. r.name[c] = x
    BY <1>0, <1>1, <1>7 DEF SetupStep, BasicType
  <2>3. \A d \in GC : s.name[d] = NoName => s.next[d] = 0 /\ s.owner[d] = 0
    BY DEF Chained
  <2> QED BY <1>9, <2>1, <2>2, <2>3
<1>14. Chained(r, T)
  <2>1. \A g2 \in Gs, k2 \in Kinds : ListOf(r, g2, k2, T[g2][k2])
    BY <1>4, <1>6, <1>12
  <2> QED BY <1>6, <1>13, <2>1 DEF Chained
<1>15. \A g2 \in Gs, k2 \in Kinds : g2 # g \/ k2 # k => \A d \in Own(s, g2, k2) : r.prev[d] = s.prev[d]
  BY <1>10, <1>11
<1> QED BY <1>2, <1>6, <1>14, <1>15 DEF r, T, q

\* What is in which graph after a structure went.
LEMMA GoneSets ==
  ASSUME NEW s, Shape(s), NEW g \in Gs, NEW k \in Kinds, NEW c \in Own(s, g, k), NEW r,
         GoneStep(s, c, g, k, r)
  PROVE  /\ Live(r, k) = Live(s, k) \ {c}
         /\ Own(r, g, k) = Own(s, g, k) \ {c}
         /\ \A k2 \in Kinds : k2 # k => Live(r, k2) = Live(s, k2)
         /\ \A g2 \in Gs, k2 \in Kinds : g2 # g \/ k2 # k => Own(r, g2, k2) = Own(s, g2, k2)
<1>0. c \in GC /\ c \in Pool(k) /\ s.owner[c] = g
  BY Pools DEF Own, Live
<1>1. r.name = [s.name EXCEPT ![c] = NoName] /\ r.owner = [s.owner EXCEPT ![c] = 0]
  BY DEF GoneStep
<1>2. DOMAIN s.name = GC /\ DOMAIN s.owner = GC
  BY DEF Shape, BasicType
<1>3. r.name[c] = NoName /\ \A d \in GC : d # c => r.name[d] = s.name[d] /\ r.owner[d] = s.owner[d]
  BY <1>0, <1>1, <1>2
<1>4. Live(r, k) = Live(s, k) \ {c}
  BY <1>3, Pools DEF Live
<1>5. \A k2 \in Kinds : k2 # k => Live(r, k2) = Live(s, k2)
  BY <1>0, <1>3, Pools DEF Live
<1>6. Own(r, g, k) = Own(s, g, k) \ {c}
  <2>1. \A d \in Live(r, k) : d # c /\ r.owner[d] = s.owner[d]
    BY <1>3, <1>4, Pools DEF Live
  <2> QED BY <1>3, <1>4, <2>1 DEF Own
<1>7. \A g2 \in Gs, k2 \in Kinds : g2 # g \/ k2 # k => Own(r, g2, k2) = Own(s, g2, k2)
  <2>1. SUFFICES ASSUME NEW g2 \in Gs, NEW k2 \in Kinds, g2 # g \/ k2 # k
                 PROVE  Own(r, g2, k2) = Own(s, g2, k2)
    OBVIOUS
  <2>2. \A d \in Live(r, k2) : d # c /\ d \in GC /\ r.owner[d] = s.owner[d]
    BY <1>0, <1>3, <1>4, <1>5, Pools DEF Live
  <2>3. \A d \in Live(s, k2) : d # c => d \in Live(r, k2)
    BY <1>0, <1>4, <1>5
  <2>4. Live(r, k2) \subseteq Live(s, k2)
    BY <1>4, <1>5
  <2>5. c \notin Own(s, g2, k2)
    BY <2>1, <1>0, OneOwner
  <2> QED BY <2>2, <2>3, <2>4, <2>5 DEF Own
<1> QED BY <1>4, <1>5, <1>6, <1>7

GoneLinked(s, c, b, a, r) ==
  /\ \A d \in GC : r.next[d] = IF d = c THEN 0 ELSE IF b # 0 /\ d = b THEN a ELSE s.next[d]
  /\ \A d \in GC : r.prev[d] = IF d = c THEN 0 ELSE IF a # 0 /\ d = a THEN b ELSE s.prev[d]

\* The links after a structure went.
LEMMA GoneLinks ==
  ASSUME NEW s, Shape(s), NEW g, NEW k, NEW c \in GC, NEW r, GoneStep(s, c, g, k, r)
  PROVE  LinksType(r.next, r.prev) /\ GoneLinked(s, c, s.prev[c], s.next[c], r)
<1> DEFINE b == s.prev[c]
           a == s.next[c]
<1>1. s.next \in Links /\ s.prev \in Links /\ a \in Ends /\ b \in Ends
  BY DEF Shape, LinksType, Links, Ends
<1>2. LinkedTo(s.next, b, a, Linked(s.next, b, a))
  BY <1>1, LinkedIs
<1>3. LinkedTo(s.prev, a, b, Linked(s.prev, a, b))
  BY <1>1, LinkedIs
<1>4. r.next = [Linked(s.next, b, a) EXCEPT ![c] = 0] /\ r.prev = [Linked(s.prev, a, b) EXCEPT ![c] = 0]
  BY DEF GoneStep
<1> HIDE DEF a, b
<1>5. /\ r.next \in [GC -> GC \cup {0}]
      /\ \A d \in GC : r.next[d] = IF d = c THEN 0 ELSE IF b # 0 /\ d = b THEN a ELSE s.next[d]
  BY <1>2, <1>4 DEF LinkedTo, Links
<1>6. /\ r.prev \in [GC -> GC \cup {0}]
      /\ \A d \in GC : r.prev[d] = IF d = c THEN 0 ELSE IF a # 0 /\ d = a THEN b ELSE s.prev[d]
  BY <1>3, <1>4 DEF LinkedTo, Links
<1> QED BY <1>5, <1>6 DEF LinksType, GoneLinked, a, b

\* Types after a structure went.
LEMMA GoneShape ==
  ASSUME NEW s, Shape(s), NEW g \in Gs, NEW k \in Kinds, NEW c \in GC, NEW r, GoneStep(s, c, g, k, r)
  PROVE  Shape(r)
<1>1. BasicType(r.name, r.attr, r.owner)
  <2>1. BasicType(s.name, s.attr, s.owner)
    BY DEF Shape
  <2>2. /\ r.name = [s.name EXCEPT ![c] = NoName] /\ r.attr = [s.attr EXCEPT ![c] = NoAttr]
        /\ r.owner = [s.owner EXCEPT ![c] = 0]
    BY DEF GoneStep
  <2>3. 0 \in Gs
    BY DEF Gs
  <2> QED BY <2>1, <2>2, <2>3 DEF BasicType
<1>2. LinksType(r.next, r.prev)
  BY GoneLinks
<1>3. ListType(r.first, r.n)
  <2>1. ListType(s.first, s.n)
    BY DEF Shape
  <2>2. s.next[c] \in GC \cup {0}
    BY DEF Shape, LinksType
  <2>3. r.n = [s.n EXCEPT ![g][k] = @ - 1] /\ r.first = [s.first EXCEPT ![g][k] = IF @ = c THEN s.next[c] ELSE @]
    BY DEF GoneStep
  <2>4. r.n \in [Gs -> [Kinds -> Int]]
    BY <2>1, <2>3 DEF ListType
  <2> DEFINE f == IF s.first[g][k] = c THEN s.next[c] ELSE s.first[g][k]
  <2>5. f \in GC \cup {0}
    BY <2>1, <2>2 DEF ListType
  <2>6. r.first = [s.first EXCEPT ![g][k] = f]
    BY <2>3
  <2> HIDE DEF f
  <2>7. r.first \in [Gs -> [Kinds -> GC \cup {0}]]
    BY <2>1, <2>5, <2>6 DEF ListType
  <2> QED BY <2>4, <2>7 DEF ListType
<1>4. TableType(r.map)
  <2> DEFINE m == Without(s.map[g][k], s.name[c])
  <2>1. r.map = [s.map EXCEPT ![g][k] = m]
    BY DEF GoneStep
  <2>2. TableType(s.map)
    BY DEF Shape
  <2> HIDE DEF m
  <2> QED BY <2>1, <2>2 DEF TableType
<1>5. DOMAIN r = Fields /\ NodeType(r.in, r.out) /\ ArcType(r.start, r.end, r.weight) /\ RestType(r.counter, r.gattr)
  BY DEF Shape, GoneStep
<1> QED BY <1>1, <1>2, <1>3, <1>4, <1>5 DEF Shape

\* The tables after a structure went.
LEMMA GoneTables ==
  ASSUME NEW s, Shape(s), Tables(s), NEW g \in Gs, NEW k \in Kinds, NEW c \in Own(s, g, k), NEW r,
         GoneStep(s, c, g, k, r)
  PROVE  Tables(r)
<1> DEFINE m == s.map[g][k]
           x == s.name[c]
           m2 == Without(m, x)
<1>0. c \in GC /\ x # NoName
  BY Pools DEF Own, Live
<1>2. Own(r, g, k) = Own(s, g, k) \ {c}
      /\ \A g2 \in Gs, k2 \in Kinds : g2 # g \/ k2 # k => Own(r, g2, k2) = Own(s, g2, k2)
  BY GoneSets
<1>3. TableType(s.map) /\ BasicType(s.name, s.attr, s.owner)
  BY DEF Shape
<1>4. r.map = [s.map EXCEPT ![g][k] = m2]
  BY DEF GoneStep
<1>5. r.map[g][k] = m2 /\ \A g2 \in Gs, k2 \in Kinds : g2 # g \/ k2 # k => r.map[g2][k2] = s.map[g2][k2]
  <2> HIDE DEF m2
  <2> QED BY <1>3, <1>4 DEF TableType
<1>6. \A d \in GC : r.name[d] = IF d = c THEN NoName ELSE s.name[d]
  BY <1>3 DEF GoneStep, BasicType
<1>7. \A g2 \in Gs, k2 \in Kinds : \A d \in Own(s, g2, k2) : d \in GC
  BY Pools DEF Own, Live
<1>8. \A g2 \in Gs, k2 \in Kinds : g2 # g \/ k2 # k => TableOf(r, g2, k2)
  <2>1. SUFFICES ASSUME NEW g2 \in Gs, NEW k2 \in Kinds, g2 # g \/ k2 # k
                 PROVE  TableOf(r, g2, k2)
    OBVIOUS
  <2>2. TableOf(s, g2, k2)
    BY DEF Tables
  <2>3. c \notin Own(s, g2, k2)
    BY <2>1, OneOwner
  <2>4. \A d \in Own(s, g2, k2) : r.name[d] = s.name[d]
    BY <1>6, <1>7, <2>3
  <2> QED BY <1>2, <1>5, <2>1, <2>2, <2>4, TableSame
<1>9. TableOf(r, g, k)
  <2> DEFINE O == Own(s, g, k)
  <2>1. m \in [{s.name[d] : d \in O} -> O] /\ \A d \in O : m[s.name[d]] = d
    BY DEF Tables, TableOf
  <2>2. Own(r, g, k) = O \ {c} /\ c \in O
    BY <1>2
  <2>3. \A d \in O \ {c} : r.name[d] = s.name[d]
    BY <1>6, <1>7
  <2>5. DOMAIN m = {s.name[d] : d \in O} /\ m[x] = c
    BY <2>1, <2>2
  <2>6. m2 = [y \in DOMAIN m \ {x} |-> m[y]]
    BY DEF Without
  <2> HIDE DEF O, m, m2, x
  <2>7. \A d \in O \ {c} : s.name[d] # x
    BY <2>1, <2>5
  <2>8. {r.name[d] : d \in O \ {c}} = DOMAIN m \ {x}
    <3>1. {r.name[d] : d \in O \ {c}} = {s.name[d] : d \in O \ {c}}
      BY <2>3
    <3>2. {s.name[d] : d \in O \ {c}} = {s.name[d] : d \in O} \ {x}
      BY <2>7, <2>2 DEF x
    <3> QED BY <3>1, <3>2, <2>5
  <2>9. \A y \in DOMAIN m \ {x} : m[y] \in O \ {c}
    <3>1. TAKE y \in DOMAIN m \ {x}
    <3>2. PICK d \in O : y = s.name[d]
      BY <2>5
    <3>3. d # c
      BY <3>1, <3>2 DEF x
    <3> QED BY <2>1, <3>2, <3>3
  <2>10. m2 \in [{r.name[d] : d \in O \ {c}} -> O \ {c}]
    BY <2>6, <2>8, <2>9
  <2>11. \A d \in O \ {c} : m2[r.name[d]] = d
    <3>1. \A d \in O \ {c} : s.name[d] \in DOMAIN m \ {x}
      BY <2>5, <2>7
    <3> QED BY <2>1, <2>3, <2>6, <3>1
  <2> QED BY <1>5, <2>2, <2>10, <2>11 DEF TableOf
<1> QED BY <1>8, <1>9 DEF Tables

\* One structure less in a list.
LEMMA GoneList ==
  ASSUME NEW s, Shape(s), NEW S, Chained(s, S), NEW g \in Gs, NEW k \in Kinds,
         NEW i \in 1 .. Len(S[g][k]), BackAt(s, S[g][k], S[g][k][i]),
         NEW r, GoneStep(s, S[g][k][i], g, k, r)
  PROVE  LET p == S[g][k]
             q == RemoveAt(p, i) IN
         /\ ListOf(r, g, k, q)
         /\ Headed(s, p) => Headed(r, q)
         /\ Back(s, p) => Back(r, q)
         /\ \A d : d # p[i] /\ BackAt(s, p, d) => BackAt(r, q, d)
<1> DEFINE p == S[g][k]
           q == RemoveAt(p, i)
           c == p[i]
           b == IF i = 1 THEN 0 ELSE p[i - 1]
           a == IF i = Len(p) THEN 0 ELSE p[i + 1]
<1>1. /\ p \in Seq(GC) /\ IsInjective(p) /\ ToSet(p) = Own(s, g, k)
      /\ \A j \in 1 .. Len(p) : p[j] \in GC
      /\ \A j, m \in 1 .. Len(p) : p[j] = p[m] => j = m
  BY Members
<1>2. c \in Own(s, g, k) /\ c \in GC
  BY <1>1, Members
<1>3. ListOf(s, g, k, p)
  BY DEF Chained
<1>4. s.prev[c] = b /\ s.next[c] = a
  BY <1>3 DEF BackAt, ListOf
<1>5. Own(r, g, k) = Own(s, g, k) \ {c}
  BY <1>2, GoneSets
<1>6. /\ q \in Seq(GC) /\ Len(q) = Len(p) - 1
      /\ \A j \in 1 .. Len(q) : q[j] = IF j < i THEN p[j] ELSE p[j + 1]
      /\ IsInjective(q) /\ ToSet(q) = ToSet(p) \ {c}
  <2>1. i \in 1 .. Len(p)
    OBVIOUS
  <2> HIDE DEF p
  <2> QED BY <1>1, <2>1, DropIs
<1>7. GoneLinked(s, c, b, a, r)
  <2>1. GoneStep(s, c, g, k, r)
    OBVIOUS
  <2> HIDE DEF a, b, c
  <2> QED BY <1>2, <1>4, <2>1, GoneLinks
<1>8. r.n = [s.n EXCEPT ![g][k] = @ - 1] /\ r.first = [s.first EXCEPT ![g][k] = IF @ = c THEN s.next[c] ELSE @]
  BY DEF GoneStep
<1>9. ListType(s.first, s.n)
  BY DEF Shape
<1>10. /\ s.n[g][k] = Len(p) /\ s.first[g][k] = IF p = <<>> THEN 0 ELSE p[1]
       /\ \A j \in 1 .. Len(p) : s.next[p[j]] = IF j = Len(p) THEN 0 ELSE p[j + 1]
  BY <1>3 DEF ListOf
<1>11. \A j \in 1 .. Len(p) : p[j] # 0
  BY <1>1, Pools
<1>c. i \in 1 .. Len(p) /\ p[i] = c
  OBVIOUS
<1>d. BackAt(s, p, c)
  OBVIOUS
<1> HIDE DEF p, q, c
<1>12. r.n[g][k] = Len(q) /\ r.first[g][k] = IF s.first[g][k] = c THEN a ELSE s.first[g][k]
  <2> HIDE DEF a, b
  <2> QED BY <1>4, <1>6, <1>8, <1>9, <1>10 DEF ListType
<1>13. i > 1 => i - 1 \in 1 .. Len(p) /\ b = p[i - 1] /\ b # 0
  BY <1>11, <1>c, <1>1
<1>14. i < Len(p) => i + 1 \in 1 .. Len(p) /\ a = p[i + 1] /\ a # 0
  BY <1>11, <1>c, <1>1
<1>15. r.first[g][k] = IF q = <<>> THEN 0 ELSE q[1]
  <2>0. p # <<>> /\ 1 \in 1 .. Len(p) /\ (q = <<>> <=> Len(p) = 1) /\ s.first[g][k] = p[1]
    BY <1>1, <1>6, <1>c, <1>10
  <2>1. CASE i = 1
    <3>1. s.first[g][k] = c
      BY <2>0, <2>1, <1>c
    <3>2. CASE Len(p) = 1
      BY <2>0, <2>1, <3>1, <3>2, <1>12
    <3>3. CASE Len(p) # 1
      <4>1. i < Len(p) /\ 1 \in 1 .. Len(q) /\ ~ (1 < i) /\ i = 1
        BY <3>3, <2>1, <1>c, <1>6, <1>1
      <4>2. q[1] = p[i + 1]
        BY <4>1, <1>6
      <4> QED BY <2>0, <3>1, <3>3, <4>1, <4>2, <1>12, <1>14
    <3> QED BY <3>2, <3>3
  <2>2. CASE i # 1
    <3>1. s.first[g][k] # c
      BY <2>0, <2>2, <1>c, <1>1
    <3>2. 1 \in 1 .. Len(q) /\ 1 < i /\ q # <<>>
      BY <2>2, <1>c, <1>6, <1>1
    <3>3. q[1] = p[1]
      BY <3>2, <1>6
    <3> QED BY <2>0, <3>1, <3>2, <3>3, <1>12
  <2> QED BY <2>1, <2>2
\* Where the places of q are in p.
<1>16. \A j \in 1 .. Len(q) : j < i => j \in 1 .. Len(p) /\ q[j] = p[j] /\ p[j] # c
  BY <1>1, <1>6, <1>c
<1>17. \A j \in 1 .. Len(q) : ~ (j < i) => j + 1 \in 1 .. Len(p) /\ q[j] = p[j + 1] /\ p[j + 1] # c
  <2>1. TAKE j \in 1 .. Len(q)
  <2>2. SUFFICES ASSUME ~ (j < i) PROVE j + 1 \in 1 .. Len(p) /\ q[j] = p[j + 1] /\ p[j + 1] # c
    OBVIOUS
  <2>3. j + 1 \in 1 .. Len(p) /\ j + 1 # i
    BY <2>2, <1>c, <1>6, <1>1
  <2> QED BY <2>2, <2>3, <1>1, <1>6, <1>c
<1>18. \A j \in 1 .. Len(q) : r.next[q[j]] = IF j = Len(q) THEN 0 ELSE q[j + 1]
  <2>1. TAKE j \in 1 .. Len(q)
  <2>2. CASE j < i - 1
    <3>1. j < i /\ j + 1 < i /\ j + 1 \in 1 .. Len(q) /\ j # Len(q) /\ j + 1 \in 1 .. Len(p) /\ j # Len(p)
      BY <2>2, <1>c, <1>6, <1>1
    <3>2. q[j] = p[j] /\ q[j + 1] = p[j + 1] /\ j \in 1 .. Len(p) /\ p[j] # c
      BY <3>1, <1>16
    <3>3. b # 0 => p[j] # b
      <4>1. b # 0 => i > 1
        BY <1>c, <1>1
      <4>2. j # i - 1
        BY <2>2
      <4> QED BY <4>1, <4>2, <3>2, <1>13, <1>1
    <3> QED BY <3>1, <3>2, <3>3, <1>7, <1>10, <1>1 DEF GoneLinked
  <2>3. CASE j = i - 1
    <3>1. i > 1 /\ j < i
      BY <2>3, <1>c
    <3>2. q[j] = b /\ b # 0 /\ b # c /\ b \in GC
      BY <2>3, <3>1, <1>13, <1>16, <1>1
    <3>3. r.next[q[j]] = a
      BY <3>2, <1>7 DEF GoneLinked
    <3>4. CASE i = Len(p)
      BY <2>3, <3>3, <3>4, <1>6
    <3>5. CASE i # Len(p)
      <4>1. i < Len(p) /\ j + 1 \in 1 .. Len(q) /\ ~ (j + 1 < i) /\ j # Len(q) /\ j + 1 = i
        BY <2>3, <3>5, <1>c, <1>6, <1>1
      <4>2. q[j + 1] = p[i + 1]
        BY <4>1, <1>17
      <4> QED BY <3>3, <4>1, <4>2, <1>14
    <3> QED BY <3>4, <3>5
  <2>4. CASE j >= i
    <3>1. ~ (j < i) /\ (j = Len(q) <=> j + 1 = Len(p)) /\ (j # Len(q) => j + 1 \in 1 .. Len(q) /\ ~ (j + 1 < i))
      BY <2>4, <1>c, <1>6, <1>1
    <3>2. j + 1 \in 1 .. Len(p) /\ q[j] = p[j + 1] /\ p[j + 1] # c
      BY <3>1, <1>17
    <3>3. j # Len(q) => q[j + 1] = p[j + 1 + 1]
      BY <3>1, <1>17
    <3>4. b # 0 => p[j + 1] # b
      <4>1. b # 0 => i > 1
        BY <1>c, <1>1
      <4>2. j + 1 # i - 1
        BY <2>4, <1>c
      <4> QED BY <4>1, <4>2, <3>2, <1>13, <1>1
    <3>5. r.next[q[j]] = s.next[p[j + 1]]
      BY <3>2, <3>4, <1>7, <1>1 DEF GoneLinked
    <3>6. s.next[p[j + 1]] = IF j + 1 = Len(p) THEN 0 ELSE p[j + 1 + 1]
      BY <3>2, <1>10
    <3> QED BY <3>1, <3>3, <3>5, <3>6
  <2> QED BY <2>2, <2>3, <2>4, <1>c
<1>19. ListOf(r, g, k, q)
  BY <1>1, <1>5, <1>6, <1>12, <1>15, <1>18 DEF ListOf
\* The links back.
<1>20. \A j \in 1 .. Len(q) : BackAt(s, p, q[j]) => r.prev[q[j]] = IF j = 1 THEN 0 ELSE q[j - 1]
  <2>1. TAKE j \in 1 .. Len(q)
  <2>2. SUFFICES ASSUME BackAt(s, p, q[j]) PROVE r.prev[q[j]] = IF j = 1 THEN 0 ELSE q[j - 1]
    OBVIOUS
  <2>3. CASE j < i
    <3>1. j \in 1 .. Len(p) /\ q[j] = p[j] /\ p[j] # c
      BY <2>3, <1>16
    <3>2. a # 0 => p[j] # a
      <4>1. a # 0 => i < Len(p)
        BY <1>c, <1>1
      <4>2. j # i + 1
        BY <2>3, <1>c
      <4> QED BY <4>1, <4>2, <3>1, <1>14, <1>1
    <3>3. r.prev[q[j]] = s.prev[p[j]]
      BY <3>1, <3>2, <1>7, <1>1 DEF GoneLinked
    <3>4. s.prev[p[j]] = IF j = 1 THEN 0 ELSE p[j - 1]
      BY <3>1, <2>2 DEF BackAt
    <3>5. j # 1 => j - 1 \in 1 .. Len(q) /\ j - 1 < i
      BY <2>3, <1>c
    <3>6. j # 1 => q[j - 1] = p[j - 1]
      BY <3>5, <1>16
    <3> QED BY <3>3, <3>4, <3>6
  <2>4. CASE j = i
    <3>1. i < Len(p) /\ ~ (j < i)
      BY <2>4, <1>c, <1>6, <1>1
    <3>2. q[j] = a /\ a # 0 /\ a # c /\ a \in GC
      <4>1. q[j] = p[i + 1]
        BY <2>4, <3>1, <1>17
      <4> QED BY <4>1, <3>1, <1>14, <1>17, <2>4, <1>1
    <3>3. r.prev[q[j]] = b
      BY <3>2, <1>7 DEF GoneLinked
    <3>4. j # 1 => j - 1 \in 1 .. Len(q) /\ j - 1 < i /\ i > 1
      BY <2>4, <1>c
    <3>5. j # 1 => q[j - 1] = p[i - 1]
      BY <2>4, <3>4, <1>16
    <3> QED BY <3>3, <3>4, <3>5, <2>4, <1>13
  <2>5. CASE j > i
    <3>1. ~ (j < i) /\ j # 1 /\ j - 1 \in 1 .. Len(q) /\ ~ (j - 1 < i) /\ j + 1 # 1 /\ j - 1 + 1 = j /\ j + 1 - 1 = j
      BY <2>5, <1>c
    <3>2. j + 1 \in 1 .. Len(p) /\ q[j] = p[j + 1] /\ p[j + 1] # c
      BY <3>1, <1>17
    <3>3. q[j - 1] = p[j]
      BY <3>1, <1>17
    <3>4. a # 0 => p[j + 1] # a
      <4>1. a # 0 => i < Len(p)
        BY <1>c, <1>1
      <4>2. j + 1 # i + 1
        BY <2>5, <1>c
      <4> QED BY <4>1, <4>2, <3>2, <1>14, <1>1
    <3>5. r.prev[q[j]] = s.prev[p[j + 1]]
      BY <3>2, <3>4, <1>7, <1>1 DEF GoneLinked
    <3>6. s.prev[p[j + 1]] = p[j]
      <4>1. s.prev[p[j + 1]] = IF j + 1 = 1 THEN 0 ELSE p[j + 1 - 1]
        BY <3>2, <2>2 DEF BackAt
      <4> QED BY <4>1, <3>1
    <3> QED BY <3>1, <3>3, <3>5, <3>6
  <2> QED BY <2>3, <2>4, <2>5, <1>c
<1> HIDE DEF a, b
<1>21. DOMAIN q = 1 .. Len(q) /\ \A j, m \in 1 .. Len(q) : q[j] = q[m] => j = m
  BY <1>6 DEF IsInjective
<1>22. \A d : d # c /\ BackAt(s, p, d) => BackAt(r, q, d)
  <2>1. TAKE d
  <2>2. SUFFICES ASSUME BackAt(s, p, d), NEW j \in 1 .. Len(q), q[j] = d
                 PROVE  r.prev[d] = IF j = 1 THEN 0 ELSE q[j - 1]
    BY DEF BackAt
  <2> QED BY <2>2, <1>20
<1>23. \A j \in 1 .. Len(q) : \E m \in 1 .. Len(p) : q[j] = p[m]
  BY <1>16, <1>17
<1>24. \A m \in 1 .. Len(p) : Back(s, p) => BackAt(s, p, p[m])
  BY <1>1 DEF Back, BackAt
<1>25. Back(s, p) => Back(r, q)
  <2>1. SUFFICES ASSUME Back(s, p), NEW j \in 1 .. Len(q)
                 PROVE  r.prev[q[j]] = IF j = 1 THEN 0 ELSE q[j - 1]
    BY DEF Back
  <2>2. BackAt(s, p, q[j])
    BY <2>1, <1>23, <1>24
  <2> QED BY <2>2, <1>20
<1>26. Headed(s, p) => Headed(r, q)
  <2>1. SUFFICES ASSUME Headed(s, p), q # <<>> PROVE r.prev[q[1]] = 0
    BY DEF Headed
  <2>2. 1 \in 1 .. Len(q) /\ p # <<>> /\ 1 \in 1 .. Len(p)
    BY <2>1, <1>6, <1>1, <1>c
  <2>3. CASE i = 1
    <3>1. 1 < Len(p)
      BY <2>2, <1>6, <1>1
    <3>2. q[1] = a /\ a # 0 /\ a \in GC /\ a # c
      <4>1. q[1] = p[i + 1] /\ p[i + 1] # c
        BY <2>2, <2>3, <1>17
      <4> QED BY <4>1, <2>3, <3>1, <1>14, <1>1
    <3>3. b = 0
      BY <2>3 DEF b
    <3> QED BY <3>2, <3>3, <1>7 DEF GoneLinked
  <2>4. CASE i # 1
    <3>1. q[1] = p[1] /\ p[1] # c /\ 1 < i
      BY <2>2, <2>4, <1>16, <1>c
    <3>2. a # 0 => i < Len(p)
      BY <1>c, <1>1 DEF a
    <3>3. a # 0 => p[1] # a
      <4>1. 1 # i + 1
        BY <1>c
      <4> QED BY <4>1, <3>2, <2>2, <1>14, <1>1
    <3>4. r.prev[p[1]] = s.prev[p[1]]
      BY <3>1, <3>3, <1>7, <1>1, <2>2 DEF GoneLinked
    <3> QED BY <3>1, <3>4, <2>1, <2>2 DEF Headed
  <2> QED BY <2>3, <2>4
<1> QED BY <1>19, <1>22, <1>25, <1>26 DEF p, q, c

\* A structure that goes is in its list, so gc_remove takes it out.
LEMMA GoneIs ==
  ASSUME NEW s, Shape(s), NEW S, Chained(s, S), NEW g \in Gs, NEW k \in Kinds,
         NEW i \in 1 .. Len(S[g][k]), BackAt(s, S[g][k], S[g][k][i])
  PROVE  GoneStep(s, S[g][k][i], g, k, Gone(s, S[g][k][i], k))
<1> DEFINE p == S[g][k]
           c == p[i]
<1>1. c \in Own(s, g, k) /\ c \in GC /\ s.owner[c] = g /\ p \in Seq(GC)
  BY Members
<1>2. s.first[g][k] = IF p = <<>> THEN 0 ELSE p[1]
  BY DEF Chained, ListOf
<1>3. s.prev[c] = IF i = 1 THEN 0 ELSE p[i - 1]
  BY DEF BackAt
<1>4. s.first[g][k] = c \/ s.prev[c] # 0
  <2>1. CASE i = 1
    <3>1. p # <<>>
      BY <1>1
    <3> QED BY <1>2, <2>1, <3>1
  <2>2. CASE i # 1
    <3>1. i - 1 \in 1 .. Len(p)
      BY <1>1, <2>2
    <3>2. p[i - 1] \in GC
      BY <1>1, <3>1
    <3> QED BY <1>3, <2>2, <3>2, Pools
  <2> QED BY <2>1, <2>2
<1> HIDE DEF c
<1>5. GoneStep(s, c, s.owner[c], k, Gone(s, c, k))
  BY <1>1, <1>4, GoneFields
<1>6. GoneStep(s, c, g, k, Gone(s, c, k))
  BY <1>1, <1>5
<1> QED BY <1>6 DEF c

\* A structure that goes: what it does to the lists and tables of all graphs.
LEMMA GoneStore ==
  ASSUME NEW s, Shape(s), NEW S, Chained(s, S), Tables(s),
         NEW g \in Gs, NEW k \in Kinds,
         NEW i \in 1 .. Len(S[g][k]), BackAt(s, S[g][k], S[g][k][i])
  PROVE  LET r == Gone(s, S[g][k][i], k)
             T == [S EXCEPT ![g][k] = RemoveAt(@, i)] IN
         /\ Shape(r) /\ Chained(r, T) /\ Tables(r)
         /\ T[g][k] = RemoveAt(S[g][k], i)
         /\ \A g2 \in Gs, k2 \in Kinds : g2 # g \/ k2 # k =>
              /\ T[g2][k2] = S[g2][k2]
              /\ \A d \in Own(s, g2, k2) : r.prev[d] = s.prev[d]
<1> DEFINE c == S[g][k][i]
           r == Gone(s, c, k)
           q == RemoveAt(S[g][k], i)
           T == [S EXCEPT ![g][k] = q]
<1>1. GoneStep(s, c, g, k, r)
  BY GoneIs
<1>2. c \in Own(s, g, k) /\ c \in GC
  BY Members
<1> HIDE DEF r
<1>3. ListOf(r, g, k, q)
  BY <1>1, GoneList
<1>4. ListOf(s, g, k, S[g][k])
  BY DEF Chained
\* Its neighbours are of the same list.
<1>5. s.next[c] # 0 => s.next[c] \in Own(s, g, k)
  <2>1. s.next[c] = IF i = Len(S[g][k]) THEN 0 ELSE S[g][k][i + 1]
    BY <1>4 DEF ListOf
  <2>2. i # Len(S[g][k]) => i + 1 \in 1 .. Len(S[g][k])
    BY <1>4 DEF ListOf
  <2> QED BY <2>1, <2>2, Members
<1>6. s.prev[c] # 0 => s.prev[c] \in Own(s, g, k)
  <2>1. s.prev[c] = IF i = 1 THEN 0 ELSE S[g][k][i - 1]
    BY DEF BackAt
  <2>2. i # 1 => i - 1 \in 1 .. Len(S[g][k])
    BY <1>4 DEF ListOf
  <2> QED BY <2>1, <2>2, Members
<1> HIDE DEF c, q
<1>7. Shape(r) /\ Tables(r)
  BY <1>1, <1>2, GoneShape, GoneTables
<1>8. \A g2 \in Gs, k2 \in Kinds : g2 # g \/ k2 # k => Own(r, g2, k2) = Own(s, g2, k2)
  BY <1>1, <1>2, GoneSets
<1>9. S \in [Gs -> [Kinds -> Seq(GC)]] /\ q \in Seq(GC)
  BY <1>3 DEF Chained, ListOf
<1>10. /\ T \in [Gs -> [Kinds -> Seq(GC)]] /\ T[g][k] = q
       /\ \A g2 \in Gs, k2 \in Kinds : g2 # g \/ k2 # k => T[g2][k2] = S[g2][k2]
  BY <1>9, Exchanged
<1> HIDE DEF T
<1>11. GoneLinked(s, c, s.prev[c], s.next[c], r)
  BY <1>1, <1>2, GoneLinks
<1>12. \A g2 \in Gs, k2 \in Kinds : g2 # g \/ k2 # k =>
         \A d \in Own(s, g2, k2) :
           /\ d \in GC /\ d # c
           /\ s.next[c] # 0 => d # s.next[c]
           /\ s.prev[c] # 0 => d # s.prev[c]
  <2>1. SUFFICES ASSUME NEW g2 \in Gs, NEW k2 \in Kinds, g2 # g \/ k2 # k, NEW d \in Own(s, g2, k2)
                 PROVE  d \in GC /\ d \notin Own(s, g, k)
    BY <1>2, <1>5, <1>6
  <2>2. d \in GC
    BY Members
  <2>3. d \notin Own(s, g, k)
    BY <2>1, OneOwner
  <2> QED BY <2>2, <2>3
<1>13. \A g2 \in Gs, k2 \in Kinds : g2 # g \/ k2 # k =>
         \A d \in Own(s, g2, k2) : r.next[d] = s.next[d] /\ r.prev[d] = s.prev[d]
  BY <1>11, <1>12 DEF GoneLinked
<1>14. \A g2 \in Gs, k2 \in Kinds : g2 # g \/ k2 # k => ListOf(r, g2, k2, S[g2][k2])
  <2>1. SUFFICES ASSUME NEW g2 \in Gs, NEW k2 \in Kinds, g2 # g \/ k2 # k
                 PROVE  ListOf(r, g2, k2, S[g2][k2])
    OBVIOUS
  <2>2. ListOf(s, g2, k2, S[g2][k2])
    BY DEF Chained
  <2>3. r.n = [s.n EXCEPT ![g][k] = @ - 1] /\ r.first = [s.first EXCEPT ![g][k] = IF @ = c THEN s.next[c] ELSE @]
    BY <1>1 DEF GoneStep
  <2>a. ListType(s.first, s.n)
    BY DEF Shape
  <2>4. r.n[g2][k2] = s.n[g2][k2] /\ r.first[g2][k2] = s.first[g2][k2]
    BY <2>a, <2>1, <2>3 DEF ListType
  <2>5. \A d \in Own(s, g2, k2) : r.next[d] = s.next[d]
    BY <1>13, <2>1
  <2> QED BY <1>8, <2>1, <2>2, <2>4, <2>5, ListSame
<1>15. \A d \in GC : r.name[d] = NoName => r.next[d] = 0 /\ r.owner[d] = 0
  <2>0. BasicType(s.name, s.attr, s.owner)
    BY DEF Shape
  <2>1. \A d \in GC : d # c => r.name[d] = s.name[d] /\ r.owner[d] = s.owner[d]
    BY <1>1, <1>2, <2>0 DEF GoneStep, BasicType
  <2>2. r.owner[c] = 0 /\ r.next[c] = 0
    BY <1>1, <1>2, <1>11, <2>0 DEF GoneStep, BasicType, GoneLinked
  <2>3. \A d \in GC : s.name[d] = NoName => s.next[d] = 0 /\ s.owner[d] = 0
    BY DEF Chained
  <2>4. s.prev[c] # 0 => s.name[s.prev[c]] # NoName
    BY <1>6 DEF Own, Live
  <2> QED BY <1>2, <1>11, <2>1, <2>2, <2>3, <2>4 DEF GoneLinked
<1>16. Chained(r, T)
  <2>1. \A g2 \in Gs, k2 \in Kinds : ListOf(r, g2, k2, T[g2][k2])
    BY <1>3, <1>10, <1>14
  <2> QED BY <1>10, <1>15, <2>1 DEF Chained
<1> QED BY <1>7, <1>10, <1>13, <1>16 DEF r, T, q, c

-----------------------------------------------------------------------------
(* The chains *)

\* The rest of a sequence from a place on.
LEMMA RestIs ==
  ASSUME NEW X, NEW q \in Seq(X)
  PROVE  /\ \A i \in 1 .. Len(q) : SubSeq(q, i, Len(q)) = <<q[i]>> \o SubSeq(q, i + 1, Len(q))
         /\ SubSeq(q, Len(q) + 1, Len(q)) = <<>>
         /\ SubSeq(q, 1, Len(q)) = q
<1>1. ASSUME NEW i \in 1 .. Len(q)
      PROVE  SubSeq(q, i, Len(q)) = <<q[i]>> \o SubSeq(q, i + 1, Len(q))
  <2> DEFINE e == q[i]
             u == SubSeq(q, i, Len(q))
             v == SubSeq(q, i + 1, Len(q))
             w == <<e>> \o v
  <2>1. u \in Seq(X) /\ Len(u) = Len(q) - i + 1 /\ \A j \in 1 .. Len(q) - i + 1 : u[j] = q[i + j - 1]
    OBVIOUS
  <2>2. v \in Seq(X) /\ Len(v) = Len(q) - i /\ \A j \in 1 .. Len(q) - i : v[j] = q[i + j]
    OBVIOUS
  <2> HIDE DEF u, v
  <2>3. w \in Seq(X) /\ Len(w) = Len(q) - i + 1 /\ \A j \in 1 .. Len(w) : w[j] = IF j = 1 THEN e ELSE v[j - 1]
    <3>1. e \in X
      OBVIOUS
    <3> HIDE DEF e
    <3>2. w \in Seq(X) /\ Len(w) = Len(v) + 1 /\ \A j \in 1 .. Len(w) : w[j] = IF j = 1 THEN e ELSE v[j - 1]
      BY <2>2, <3>1, ConsIs
    <3> HIDE DEF w
    <3>3. Len(v) + 1 = Len(q) - i + 1
      BY <2>2
    <3> QED BY <3>2, <3>3
  <2> HIDE DEF w
  <2>4. \A j \in 1 .. Len(u) : u[j] = w[j]
    <3>1. TAKE j \in 1 .. Len(u)
    <3>2. CASE j = 1
      BY <3>2, <2>1, <2>3
    <3>3. CASE j # 1
      <4>1. j - 1 \in 1 .. Len(q) - i /\ i + (j - 1) = i + j - 1
        BY <3>3, <2>1
      <4> QED BY <3>3, <4>1, <2>1, <2>2, <2>3
    <3> QED BY <3>2, <3>3
  <2>5. u = w
    <3>1. Len(u) = Len(w)
      BY <2>1, <2>3
    <3> QED BY <2>1, <2>3, <2>4, <3>1, SeqEqual
  <2> QED BY <2>5 DEF u, w, v
<1>2. SubSeq(q, Len(q) + 1, Len(q)) = <<>>
  OBVIOUS
<1>3. SubSeq(q, 1, Len(q)) = q
  OBVIOUS
<1> QED BY <1>1, <1>2, <1>3

\* What Chain goes through is the list.
LEMMA ChainIs ==
  ASSUME NEW s, Shape(s), NEW S, Chained(s, S), NEW g \in Gs, NEW k \in Kinds
  PROVE  Chain(s, g, k) = S[g][k]
<1> DEFINE step(f, c) == IF c = 0 THEN <<>> ELSE <<c>> \o f[s.next[c]]
           from == CHOOSE f : f = [c \in GC \cup {0} |-> step(f, c)]
           rest(q, i) == SubSeq(q, i, Len(q))
           at(q, c) == CHOOSE i \in 1 .. Len(q) : q[i] = c
           list(c) == S[s.owner[c]][IF c \in GN THEN "nodes" ELSE "arcs"]
           w == [c \in GC \cup {0} |-> IF c = 0 THEN <<>> ELSE IF s.name[c] = NoName THEN <<c>>
                                       ELSE rest(list(c), at(list(c), c))]
<1>0. Chain(s, g, k) = from[s.first[g][k]]
  BY DEF Chain
<1>1. \A g2 \in Gs, k2 \in Kinds : \A c \in Own(s, g2, k2) : list(c) = S[g2][k2] /\ c # 0 /\ c \in GC /\ s.name[c] # NoName
  BY Pools DEF Own, Live
<1>2. \A g2 \in Gs, k2 \in Kinds : \A i \in 1 .. Len(S[g2][k2]) :
        at(S[g2][k2], S[g2][k2][i]) = i
  <2>1. TAKE g2 \in Gs, k2 \in Kinds
  <2> HIDE DEF step, from, list, w, at, rest
  <2> DEFINE q == S[g2][k2]
  <2>1a. q \in Seq(GC) /\ IsInjective(q)
    BY DEF Chained, ListOf
  <2> HIDE DEF q
  <2>2. \A i, j \in 1 .. Len(q) : q[i] = q[j] => i = j
    BY <2>1a DEF IsInjective
  <2>3. \A i \in 1 .. Len(q) : at(q, q[i]) = i
    BY <2>2 DEF at
  <2> QED BY <2>3 DEF q
<1>3. \A g2 \in Gs, k2 \in Kinds : \A i \in 1 .. Len(S[g2][k2]) : w[S[g2][k2][i]] = rest(S[g2][k2], i)
  <2>1. TAKE g2 \in Gs, k2 \in Kinds
  <2>2. TAKE i \in 1 .. Len(S[g2][k2])
  <2> DEFINE c == S[g2][k2][i]
  <2>3. c \in Own(s, g2, k2)
    BY Members
  <2>4. list(c) = S[g2][k2] /\ c # 0 /\ c \in GC /\ s.name[c] # NoName /\ at(S[g2][k2], c) = i
    BY <1>1, <1>2, <2>3
  <2> HIDE DEF c, list, at, rest
  <2> QED BY <2>4 DEF c
<1>4. w[0] = <<>>
  OBVIOUS
<1>5. \A c \in GC : s.name[c] = NoName => w[c] = <<c>> /\ s.next[c] = 0
  <2>1. \A c \in GC : c # 0
    BY Pools
  <2>2. \A c \in GC : s.name[c] = NoName => s.next[c] = 0
    BY DEF Chained
  <2> HIDE DEF list, at, rest
  <2> QED BY <2>1, <2>2
<1>a. S \in [Gs -> [Kinds -> Seq(GC)]]
  BY DEF Chained
<1>b. DOMAIN w = GC \cup {0}
  OBVIOUS
<1> HIDE DEF w, list, at
<1>6. \A g2 \in Gs, k2 \in Kinds : \A i \in 1 .. Len(S[g2][k2]) :
        s.next[S[g2][k2][i]] = IF i = Len(S[g2][k2]) THEN 0 ELSE S[g2][k2][i + 1]
  BY DEF Chained, ListOf
<1>7. \A g2 \in Gs, k2 \in Kinds : \A i \in 1 .. Len(S[g2][k2]) :
        w[S[g2][k2][i]] = step(w, S[g2][k2][i])
  <2>1. TAKE g2 \in Gs, k2 \in Kinds
  <2>2. TAKE i \in 1 .. Len(S[g2][k2])
  <2> DEFINE q == S[g2][k2]
  <2>3. q \in Seq(GC)
    BY <1>a
  <2>4. q[i] \in GC /\ q[i] # 0
    BY <2>3, Pools
  <2>5. w[q[i]] = rest(q, i) /\ (i # Len(q) => i + 1 \in 1 .. Len(q) /\ w[q[i + 1]] = rest(q, i + 1))
    <3>1. \A j \in 1 .. Len(q) : w[q[j]] = rest(q, j)
      BY <1>3
    <3>2. i \in 1 .. Len(q)
      OBVIOUS
    <3> HIDE DEF q, rest
    <3>3. i # Len(q) => i + 1 \in 1 .. Len(q)
      BY <2>3, <3>2
    <3> QED BY <3>1, <3>2, <3>3
  <2>6. s.next[q[i]] = IF i = Len(q) THEN 0 ELSE q[i + 1]
    BY <1>6
  <2>i. i \in 1 .. Len(q)
    OBVIOUS
  <2> HIDE DEF q
  <2>7. rest(q, i) = <<q[i]>> \o rest(q, i + 1) /\ rest(q, Len(q) + 1) = <<>>
    BY <2>3, <2>i, RestIs
  <2> HIDE DEF rest
  <2>8. w[s.next[q[i]]] = rest(q, i + 1)
    BY <2>5, <2>6, <2>7, <1>4
  <2>9. w[q[i]] = step(w, q[i])
    BY <2>4, <2>5, <2>7, <2>8
  <2> QED BY <2>9 DEF q
<1>8. \A c \in GC \cup {0} : w[c] = step(w, c)
  <2>1. TAKE c \in GC \cup {0}
  <2>2. CASE c = 0
    BY <2>2, <1>4
  <2>3. CASE c # 0 /\ s.name[c] = NoName
    <3>1. <<c>> = <<c>> \o <<>>
      OBVIOUS
    <3> QED BY <2>3, <3>1, <1>4, <1>5
  <2>4. CASE c # 0 /\ s.name[c] # NoName
    <3>1. s.owner[c] \in Gs
      BY <2>4 DEF Shape, BasicType
    <3>2. \E k2 \in Kinds : c \in Pool(k2)
      BY <2>4, Pools
    <3>3. PICK k2 \in Kinds : c \in Own(s, s.owner[c], k2)
      BY <2>4, <3>2 DEF Own, Live
    <3>4. PICK i \in 1 .. Len(S[s.owner[c]][k2]) : S[s.owner[c]][k2][i] = c
      BY <3>1, <3>3, Members
    <3> HIDE DEF step
    <3> QED BY <3>1, <3>4, <1>7
  <2> QED BY <2>2, <2>3, <2>4
<1>9. w = [c \in GC \cup {0} |-> step(w, c)]
  <2> HIDE DEF step
  <2>1. DOMAIN w = DOMAIN [c \in GC \cup {0} |-> step(w, c)]
    BY <1>b
  <2>2. \A c \in GC \cup {0} : [e \in GC \cup {0} |-> step(w, e)][c] = step(w, c)
    OBVIOUS
  <2>3. \E dom : w = [c \in dom |-> w[c]]
    BY DEF w
  <2> QED BY <2>1, <2>2, <2>3, <1>8, <1>b
<1>10. from = [c \in GC \cup {0} |-> step(from, c)]
  <2> HIDE DEF step
  <2> QED BY <1>9
<1>11. from[0] = <<>> /\ \A c \in GC : from[c] = <<c>> \o from[s.next[c]]
  <2>1. \A c \in GC \cup {0} : from[c] = step(from, c)
    <3> HIDE DEF step, from
    <3> QED BY <1>10
  <2> HIDE DEF from
  <2> QED BY <2>1, Pools
<1> HIDE DEF from
<1> DEFINE q == S[g][k]
           Bad == {m \in 0 .. Len(q) : from[IF m = 0 THEN 0 ELSE q[Len(q) - m + 1]] # rest(q, Len(q) - m + 1)}
<1>c. q \in Seq(GC) /\ \A i \in 1 .. Len(q) : q[i] \in GC
  BY <1>a
<1>d. \A i \in 1 .. Len(q) : s.next[q[i]] = IF i = Len(q) THEN 0 ELSE q[i + 1]
  BY <1>6
<1>e. s.first[g][k] = IF q = <<>> THEN 0 ELSE q[1]
  BY DEF Chained, ListOf
<1> HIDE DEF q
<1>12. Bad = {}
  <2>1. SUFFICES ASSUME Bad # {} PROVE FALSE
    OBVIOUS
  <2>2. PICK m \in Bad : \A j \in Bad : m <= j
    <3>1. Bad \subseteq Nat
      BY <1>c
    <3> HIDE DEF Bad
    <3> QED BY <2>1, <3>1, LeastOfNat
  <2>3. m \in 0 .. Len(q) /\ from[IF m = 0 THEN 0 ELSE q[Len(q) - m + 1]] # rest(q, Len(q) - m + 1)
    BY <2>2
  <2>4. m # 0
    <3>1. rest(q, Len(q) + 1) = <<>>
      BY <1>c, RestIs
    <3>2. m = 0 => Len(q) - m + 1 = Len(q) + 1
      BY <1>c
    <3> HIDE DEF rest
    <3> QED BY <2>3, <3>1, <3>2, <1>11
  <2> DEFINE i == Len(q) - m + 1
  <2>5. i \in 1 .. Len(q) /\ m - 1 \in 0 .. Len(q) /\ m - 1 < m /\ Len(q) - (m - 1) + 1 = i + 1 /\ (m - 1 = 0 <=> i = Len(q))
    BY <2>3, <2>4, <1>c
  <2> HIDE DEF i
  <2>6. from[IF i = Len(q) THEN 0 ELSE q[i + 1]] = rest(q, i + 1)
    <3>1. m - 1 \notin Bad
      <4>1. m \in Int
        BY <2>3
      <4> HIDE DEF Bad
      <4> QED BY <2>2, <2>5, <4>1
    <3>2. from[IF m - 1 = 0 THEN 0 ELSE q[Len(q) - (m - 1) + 1]] = rest(q, Len(q) - (m - 1) + 1)
      <4> HIDE DEF rest
      <4> QED BY <3>1, <2>5
    <3> HIDE DEF rest
    <3> QED BY <3>2, <2>5
  <2>7. rest(q, i) = <<q[i]>> \o rest(q, i + 1)
    BY <2>5, <1>c, RestIs
  <2>8. from[q[i]] # rest(q, i)
    <3> HIDE DEF rest
    <3> QED BY <2>3, <2>4 DEF i
  <2> HIDE DEF rest
  <2>9. from[q[i]] = <<q[i]>> \o from[s.next[q[i]]]
    BY <2>5, <1>c, <1>11
  <2> QED BY <2>5, <2>6, <2>7, <2>8, <2>9, <1>d
<1>13. from[s.first[g][k]] = q
  <2>1. CASE q = <<>>
    BY <2>1, <1>11, <1>e
  <2>2. CASE q # <<>>
    <3>1. Len(q) \in 0 .. Len(q) /\ Len(q) # 0 /\ Len(q) - Len(q) + 1 = 1
      BY <2>2, <1>c
    <3>2. Len(q) \notin Bad
      BY <1>12
    <3>3. from[q[1]] = rest(q, 1)
      <4> HIDE DEF rest
      <4> QED BY <3>1, <3>2
    <3>4. rest(q, 1) = q
      BY <1>c, RestIs
    <3> HIDE DEF rest
    <3> QED BY <2>2, <3>3, <3>4, <1>e
  <2> QED BY <2>1, <2>2
<1> QED BY <1>0, <1>13 DEF q

Lists(s) == [g \in Gs |-> [k \in Kinds |-> Chain(s, g, k)]]

\* There is one such S, and it is made of the chains.
LEMMA ListsAre ==
  ASSUME NEW s, Shape(s), NEW S, Chained(s, S)
  PROVE  S = Lists(s) /\ Chained(s, Lists(s)) /\ \A g \in Gs, k \in Kinds : Lists(s)[g][k] = Chain(s, g, k)
<1>1. \A g \in Gs, k \in Kinds : Lists(s)[g][k] = S[g][k]
  BY ChainIs DEF Lists
<1>2. S \in [Gs -> [Kinds -> Seq(GC)]]
  BY DEF Chained
<1>3. S = [g \in Gs |-> [k \in Kinds |-> S[g][k]]]
  BY <1>2
<1>4. Lists(s) = [g \in Gs |-> [k \in Kinds |-> S[g][k]]]
  BY <1>1, ChainIs DEF Lists
<1>5. S = Lists(s)
  BY <1>3, <1>4
<1>6. \A g \in Gs, k \in Kinds : Lists(s)[g][k] = Chain(s, g, k)
  BY DEF Lists
<1> QED BY <1>5, <1>6

\* The lists and the tables of names are in order.
Base(s) == Shape(s) /\ Chained(s, Lists(s)) /\ Tables(s)

\* The list of g is as it was.
Still(s, r, g, k) ==
  /\ Chain(r, g, k) = Chain(s, g, k) /\ Own(r, g, k) = Own(s, g, k)
  /\ \A d \in Own(s, g, k) : r.prev[d] = s.prev[d] /\ r.name[d] = s.name[d]

\* The fields that lists and tables do not need.
Beside(s, r) == /\ r.in = s.in /\ r.out = s.out /\ r.start = s.start /\ r.end = s.end
                /\ r.weight = s.weight /\ r.counter = s.counter /\ r.gattr = s.gattr

\* The chain of a graph is its list.
LEMMA ChainList ==
  ASSUME NEW s, Base(s), NEW g \in Gs, NEW k \in Kinds
  PROVE  LET q == Chain(s, g, k) IN
         /\ ListOf(s, g, k, q) /\ Lists(s)[g][k] = q
         /\ q \in Seq(GC) /\ IsInjective(q) /\ ToSet(q) = Own(s, g, k) /\ Len(q) \in Nat
         /\ \A i \in 1 .. Len(q) : q[i] \in Own(s, g, k) /\ q[i] \in GC
         /\ \A i, j \in 1 .. Len(q) : q[i] = q[j] => i = j
         /\ \A c \in Own(s, g, k) : \E i \in 1 .. Len(q) : q[i] = c
<1> DEFINE q == Chain(s, g, k)
<1>1. Lists(s)[g][k] = q
  BY DEF Lists
<1>2. Chained(s, Lists(s))
  BY DEF Base
<1>3. ListOf(s, g, k, q)
  BY <1>1, <1>2 DEF Chained
<1> HIDE DEF q
<1>4. q \in Seq(GC) /\ IsInjective(q) /\ ToSet(q) = Own(s, g, k) /\ DOMAIN q = 1 .. Len(q) /\ Len(q) \in Nat
  BY <1>3 DEF ListOf
<1>5. \A i \in 1 .. Len(q) : q[i] \in Own(s, g, k) /\ q[i] \in GC
  BY <1>4 DEF ToSet
<1>6. \A i, j \in 1 .. Len(q) : q[i] = q[j] => i = j
  BY <1>4 DEF IsInjective
<1>7. \A c \in Own(s, g, k) : \E i \in 1 .. Len(q) : q[i] = c
  BY <1>4 DEF ToSet
<1> QED BY <1>1, <1>3, <1>4, <1>5, <1>6, <1>7 DEF q

\* Whatever has a name is in one graph.
LEMMA Owned ==
  ASSUME NEW s, Shape(s), NEW k \in Kinds
  PROVE  /\ \A g \in Gs : Own(s, g, k) \subseteq Live(s, k)
         /\ \A g \in Gs : \A c \in Own(s, g, k) : s.owner[c] = g /\ c \in GC /\ c # 0 /\ c \in Pool(k) /\ s.name[c] # NoName
         /\ \A c \in Live(s, k) : c \in GC /\ c # 0 /\ s.owner[c] \in Gs /\ c \in Own(s, s.owner[c], k)
<1>1. Pool(k) \subseteq GC /\ 0 \notin GC
  BY Pools
<1>2. s.owner \in [GC -> Gs]
  BY DEF Shape, BasicType
<1> QED BY <1>1, <1>2 DEF Own, Live

\* Names lead to structures and back.
LEMMA FoundIs ==
  ASSUME NEW s, Tables(s), NEW g \in Gs, NEW k \in Kinds
  PROVE  /\ DOMAIN s.map[g][k] = {s.name[c] : c \in Own(s, g, k)}
         /\ \A x : Found(s, g, k, x) # 0 => Found(s, g, k, x) \in Own(s, g, k) /\ s.name[Found(s, g, k, x)] = x
         /\ \A c \in Own(s, g, k) : Found(s, g, k, s.name[c]) = c
         /\ \A x : Found(s, g, k, x) = 0 => x \notin DOMAIN s.map[g][k]
         /\ \A c, d \in Own(s, g, k) : s.name[c] = s.name[d] => c = d
<1>1. /\ s.map[g][k] \in [{s.name[c] : c \in Own(s, g, k)} -> Own(s, g, k)]
      /\ \A c \in Own(s, g, k) : s.map[g][k][s.name[c]] = c
  BY DEF Tables, TableOf
<1>2. \A c \in Own(s, g, k) : c # 0
  BY Pools DEF Own, Live
<1>3. DOMAIN s.map[g][k] = {s.name[c] : c \in Own(s, g, k)}
  BY <1>1
<1>4. \A x \in DOMAIN s.map[g][k] : s.map[g][k][x] \in Own(s, g, k) /\ s.name[s.map[g][k][x]] = x
  BY <1>1, <1>3
<1>5. \A x : Found(s, g, k, x) # 0 => Found(s, g, k, x) \in Own(s, g, k) /\ s.name[Found(s, g, k, x)] = x
  BY <1>4 DEF Found
<1>6. \A c \in Own(s, g, k) : Found(s, g, k, s.name[c]) = c
  BY <1>1, <1>3 DEF Found
<1>7. \A x : Found(s, g, k, x) = 0 => x \notin DOMAIN s.map[g][k]
  BY <1>2, <1>4 DEF Found
<1>8. \A c, d \in Own(s, g, k) : s.name[c] = s.name[d] => c = d
  BY <1>1
<1> QED BY <1>3, <1>5, <1>6, <1>7, <1>8

\* r is s with c in graph g, named x.
Came(s, r, c, g, k, x) ==
  /\ Base(r) /\ Beside(s, r)
  /\ Live(r, k) = Live(s, k) \cup {c} /\ Own(r, g, k) = Own(s, g, k) \cup {c}
  /\ \A k2 \in Kinds : k2 # k => Live(r, k2) = Live(s, k2)
  /\ Chain(r, g, k) = <<c>> \o Chain(s, g, k)
  /\ Headed(r, Chain(r, g, k)) /\ (Back(s, Chain(s, g, k)) => Back(r, Chain(r, g, k)))
  /\ r.name[c] = x /\ r.owner[c] = g
  /\ \A d \in GC : d # c => r.name[d] = s.name[d] /\ r.owner[d] = s.owner[d]
  /\ \A g2 \in Gs, k2 \in Kinds : g2 # g \/ k2 # k => Still(s, r, g2, k2)

\* A structure that comes into a store in order leaves it in order.
LEMMA Comes ==
  ASSUME NEW s, Base(s), NEW g \in Gs, NEW k \in Kinds, NEW c \in Pool(k), s.name[c] = NoName,
         NEW x, x # NoName, x \notin DOMAIN s.map[g][k]
  PROVE  Came(s, Setup(s, c, g, k, x), c, g, k, x)
<1> DEFINE S == Lists(s)
           r == Setup(s, c, g, k, x)
           T == [S EXCEPT ![g][k] = <<c>> \o S[g][k]]
<1>0. c \in GC
  BY Pools
<1>1. Shape(s) /\ Chained(s, S) /\ Tables(s)
  BY DEF Base
<1>2. SetupStep(s, c, g, k, x, r)
  BY <1>0, <1>1, SetupFields
<1>3. S \in [Gs -> [Kinds -> Seq(GC)]] /\ \A g2 \in Gs, k2 \in Kinds : S[g2][k2] = Chain(s, g2, k2)
  BY <1>1, ListsAre DEF Chained
<1> HIDE DEF S
<1>4. /\ Shape(r) /\ Chained(r, T) /\ Tables(r)
      /\ \A g2 \in Gs, k2 \in Kinds : g2 # g \/ k2 # k =>
           /\ T[g2][k2] = S[g2][k2]
           /\ \A d \in Own(s, g2, k2) : r.prev[d] = s.prev[d]
  BY <1>1, SetupStore
<1>5. /\ Live(r, k) = Live(s, k) \cup {c} /\ Own(r, g, k) = Own(s, g, k) \cup {c}
      /\ \A k2 \in Kinds : k2 # k => Live(r, k2) = Live(s, k2)
      /\ \A g2 \in Gs, k2 \in Kinds : g2 # g \/ k2 # k => Own(r, g2, k2) = Own(s, g2, k2)
  BY <1>1, SetupSets
<1>6. /\ Headed(r, <<c>> \o S[g][k])
      /\ Back(s, S[g][k]) => Back(r, <<c>> \o S[g][k])
  BY <1>1, SetupList
<1>7. T[g][k] = <<c>> \o S[g][k]
  BY <1>3
<1> HIDE DEF r, T
<1>8. Base(r) /\ \A g2 \in Gs, k2 \in Kinds : T[g2][k2] = Chain(r, g2, k2)
  BY <1>4, ListsAre DEF Base
<1>9. BasicType(s.name, s.attr, s.owner)
  BY <1>1 DEF Shape
<1>10. /\ r.name[c] = x /\ r.owner[c] = g
       /\ \A d \in GC : d # c => r.name[d] = s.name[d] /\ r.owner[d] = s.owner[d]
  BY <1>0, <1>2, <1>9 DEF SetupStep, BasicType
<1>11. Beside(s, r)
  BY <1>2 DEF SetupStep, Beside
<1>12. \A g2 \in Gs, k2 \in Kinds : \A d \in Own(s, g2, k2) : d \in GC /\ d # c
  BY Pools DEF Own, Live
<1>13. \A g2 \in Gs, k2 \in Kinds : g2 # g \/ k2 # k => Still(s, r, g2, k2)
  <2>1. SUFFICES ASSUME NEW g2 \in Gs, NEW k2 \in Kinds, g2 # g \/ k2 # k
                 PROVE  Still(s, r, g2, k2)
    OBVIOUS
  <2>2. Chain(r, g2, k2) = Chain(s, g2, k2)
    <3>1. T[g2][k2] = S[g2][k2]
      BY <1>4, <2>1
    <3>2. T[g2][k2] = Chain(r, g2, k2)
      BY <1>8
    <3>3. S[g2][k2] = Chain(s, g2, k2)
      BY <1>3
    <3> QED BY <3>1, <3>2, <3>3
  <2>3. Own(r, g2, k2) = Own(s, g2, k2)
    BY <1>5, <2>1
  <2>4. \A e \in Own(s, g2, k2) : r.prev[e] = s.prev[e]
    BY <1>4, <2>1
  <2>5. \A e \in Own(s, g2, k2) : r.name[e] = s.name[e]
    BY <1>10, <1>12, <2>1
  <2> QED BY <2>2, <2>3, <2>4, <2>5 DEF Still
<1>14. Chain(r, g, k) = <<c>> \o Chain(s, g, k)
  BY <1>3, <1>7, <1>8
<1>15. Headed(r, Chain(r, g, k)) /\ (Back(s, Chain(s, g, k)) => Back(r, Chain(r, g, k)))
  BY <1>3, <1>6, <1>14
<1> QED BY <1>5, <1>8, <1>10, <1>11, <1>13, <1>14, <1>15 DEF Came, r

\* r is s without c, the structure at place i of its list.
Went(s, r, c, g, k, i) ==
  /\ Base(r) /\ Beside(s, r)
  /\ Live(r, k) = Live(s, k) \ {c} /\ Own(r, g, k) = Own(s, g, k) \ {c}
  /\ \A k2 \in Kinds : k2 # k => Live(r, k2) = Live(s, k2)
  /\ Chain(r, g, k) = RemoveAt(Chain(s, g, k), i)
  /\ Headed(s, Chain(s, g, k)) => Headed(r, Chain(r, g, k))
  /\ Back(s, Chain(s, g, k)) => Back(r, Chain(r, g, k))
  /\ \A d : d # c /\ BackAt(s, Chain(s, g, k), d) => BackAt(r, Chain(r, g, k), d)
  /\ \A d \in GC : d # c => r.name[d] = s.name[d] /\ r.owner[d] = s.owner[d]
  /\ \A g2 \in Gs, k2 \in Kinds : g2 # g \/ k2 # k => Still(s, r, g2, k2)

\* So does one that goes, when its own link back is right.
LEMMA Goes ==
  ASSUME NEW s, Base(s), NEW g \in Gs, NEW k \in Kinds, NEW i \in 1 .. Len(Chain(s, g, k)),
         NEW c, c = Chain(s, g, k)[i], BackAt(s, Chain(s, g, k), c)
  PROVE  Went(s, Gone(s, c, k), c, g, k, i)
<1> DEFINE S == Lists(s)
           r == Gone(s, c, k)
           T == [S EXCEPT ![g][k] = RemoveAt(@, i)]
<1>1. Shape(s) /\ Chained(s, S) /\ Tables(s)
  BY DEF Base
<1>2. S \in [Gs -> [Kinds -> Seq(GC)]] /\ \A g2 \in Gs, k2 \in Kinds : S[g2][k2] = Chain(s, g2, k2)
  BY <1>1, ListsAre DEF Chained
<1>3. c \in GC /\ c \in Own(s, g, k)
  BY ChainList
<1> HIDE DEF S
<1>4. i \in 1 .. Len(S[g][k]) /\ c = S[g][k][i] /\ BackAt(s, S[g][k], c)
  BY <1>2
<1>5. /\ Shape(r) /\ Chained(r, T) /\ Tables(r)
      /\ T[g][k] = RemoveAt(S[g][k], i)
      /\ \A g2 \in Gs, k2 \in Kinds : g2 # g \/ k2 # k =>
           /\ T[g2][k2] = S[g2][k2]
           /\ \A d \in Own(s, g2, k2) : r.prev[d] = s.prev[d]
  BY <1>1, <1>4, GoneStore
<1>6. GoneStep(s, c, g, k, r)
  BY <1>1, <1>4, GoneIs
<1> HIDE DEF r, T
<1>7. /\ Live(r, k) = Live(s, k) \ {c} /\ Own(r, g, k) = Own(s, g, k) \ {c}
      /\ \A k2 \in Kinds : k2 # k => Live(r, k2) = Live(s, k2)
      /\ \A g2 \in Gs, k2 \in Kinds : g2 # g \/ k2 # k => Own(r, g2, k2) = Own(s, g2, k2)
  BY <1>1, <1>3, <1>6, GoneSets
<1>8. /\ Headed(s, S[g][k]) => Headed(r, RemoveAt(S[g][k], i))
      /\ Back(s, S[g][k]) => Back(r, RemoveAt(S[g][k], i))
      /\ \A d : d # c /\ BackAt(s, S[g][k], d) => BackAt(r, RemoveAt(S[g][k], i), d)
  BY <1>1, <1>4, <1>6, GoneList
<1>9. Base(r) /\ \A g2 \in Gs, k2 \in Kinds : T[g2][k2] = Chain(r, g2, k2)
  BY <1>5, ListsAre DEF Base
<1>10. BasicType(s.name, s.attr, s.owner)
  BY <1>1 DEF Shape
<1>11. \A d \in GC : d # c => r.name[d] = s.name[d] /\ r.owner[d] = s.owner[d]
  BY <1>3, <1>6, <1>10 DEF GoneStep, BasicType
<1>12. Beside(s, r)
  BY <1>6 DEF GoneStep, Beside
<1>13. \A g2 \in Gs, k2 \in Kinds : g2 # g \/ k2 # k => \A d \in Own(s, g2, k2) : d \in GC /\ d # c
  <2>1. \A g2 \in Gs, k2 \in Kinds : \A d \in Own(s, g2, k2) : d \in GC
    BY Pools DEF Own, Live
  <2>2. \A g2 \in Gs, k2 \in Kinds : c \in Own(s, g2, k2) => g2 = g /\ k2 = k
    BY <1>3, OneOwner
  <2> QED BY <2>1, <2>2
<1>14. \A g2 \in Gs, k2 \in Kinds : g2 # g \/ k2 # k => Still(s, r, g2, k2)
  <2>1. SUFFICES ASSUME NEW g2 \in Gs, NEW k2 \in Kinds, g2 # g \/ k2 # k
                 PROVE  Still(s, r, g2, k2)
    OBVIOUS
  <2>2. Chain(r, g2, k2) = Chain(s, g2, k2)
    <3>1. T[g2][k2] = S[g2][k2]
      BY <1>5, <2>1
    <3>2. T[g2][k2] = Chain(r, g2, k2)
      BY <1>9
    <3>3. S[g2][k2] = Chain(s, g2, k2)
      BY <1>2
    <3> QED BY <3>1, <3>2, <3>3
  <2>3. Own(r, g2, k2) = Own(s, g2, k2)
    BY <1>7, <2>1
  <2>4. \A e \in Own(s, g2, k2) : r.prev[e] = s.prev[e]
    BY <1>5, <2>1
  <2>5. \A e \in Own(s, g2, k2) : r.name[e] = s.name[e]
    BY <1>11, <1>13, <2>1
  <2> QED BY <2>2, <2>3, <2>4, <2>5 DEF Still
<1>15. Chain(r, g, k) = RemoveAt(Chain(s, g, k), i)
  BY <1>2, <1>5, <1>9
<1>16. /\ Headed(s, Chain(s, g, k)) => Headed(r, Chain(r, g, k))
       /\ Back(s, Chain(s, g, k)) => Back(r, Chain(r, g, k))
       /\ \A d : d # c /\ BackAt(s, Chain(s, g, k), d) => BackAt(r, Chain(r, g, k), d)
  BY <1>2, <1>8, <1>15
<1> QED BY <1>7, <1>9, <1>11, <1>12, <1>14, <1>15, <1>16 DEF Went, r

\* What lists and tables are made of.
Kept(s, r) == /\ r.name = s.name /\ r.owner = s.owner /\ r.next = s.next
              /\ r.first = s.first /\ r.n = s.n /\ r.map = s.map

\* What lists and tables are made of is all they need.
LEMMA KeptLists ==
  ASSUME NEW s, Base(s), NEW r, Shape(r), Kept(s, r)
  PROVE  /\ Base(r) /\ \A k \in Kinds : Live(r, k) = Live(s, k)
         /\ \A g \in Gs, k \in Kinds : Own(r, g, k) = Own(s, g, k) /\ Chain(r, g, k) = Chain(s, g, k)
<1>1. \A k : Live(r, k) = Live(s, k)
  BY DEF Live, Kept
<1>2. \A g, k : Own(r, g, k) = Own(s, g, k)
  BY <1>1 DEF Own, Kept
<1> DEFINE S == Lists(s)
<1>3. Chained(s, S) /\ Tables(s) /\ Shape(s)
  BY DEF Base
<1>4. \A g \in Gs, k \in Kinds : S[g][k] = Chain(s, g, k)
  BY DEF Lists
<1> HIDE DEF S
<1>5. Chained(r, S)
  <2>1. \A g \in Gs, k \in Kinds : ListOf(r, g, k, S[g][k])
    <3>1. SUFFICES ASSUME NEW g \in Gs, NEW k \in Kinds PROVE ListOf(r, g, k, S[g][k])
      OBVIOUS
    <3>2. ListOf(s, g, k, S[g][k])
      BY <1>3 DEF Chained
    <3> QED BY <3>2, <1>2 DEF ListOf, Kept
  <2> QED BY <2>1, <1>3 DEF Chained, Kept
<1>6. Tables(r)
  <2>1. \A g \in Gs, k \in Kinds : TableOf(s, g, k)
    BY <1>3 DEF Tables
  <2>2. \A g \in Gs, k \in Kinds : TableOf(r, g, k)
    BY <2>1, <1>2, TableSame DEF Kept
  <2> QED BY <2>2 DEF Tables
<1>7. Chained(r, Lists(r)) /\ S = Lists(r) /\ \A g \in Gs, k \in Kinds : Lists(r)[g][k] = Chain(r, g, k)
  BY <1>5, ListsAre
<1>8. \A g \in Gs, k \in Kinds : Chain(r, g, k) = Chain(s, g, k)
  BY <1>4, <1>7
<1> QED BY <1>1, <1>2, <1>6, <1>7, <1>8 DEF Base

-----------------------------------------------------------------------------
(* Arcs and nodes *)

\* n is a node an arc may have, one that is about to go too.
EndOf(s, D, a, n) == (n \in Live(s, "nodes") /\ s.owner[n] = s.owner[a]) \/ n \in D
ArcEnds(s, D) == \A a \in Live(s, "arcs") : EndOf(s, D, a, s.start[a]) /\ EndOf(s, D, a, s.end[a])
Inlinks(s, n)  == IsInjective(s.in[n])  /\ ToSet(s.in[n])  = {a \in Live(s, "arcs") : s.end[a] = n}
Outlinks(s, n) == IsInjective(s.out[n]) /\ ToSet(s.out[n]) = {a \in Live(s, "arcs") : s.start[a] = n}

\* The interlinks, with those of the nodes of D, which are about to go.
Joined(s, D) == /\ D \subseteq GN /\ ArcEnds(s, D)
                /\ \A n \in Live(s, "nodes") \cup D : Inlinks(s, n) /\ Outlinks(s, n)
Knit(s, D)   == Base(s) /\ Joined(s, D) /\ \A g \in Gs : Back(s, Chain(s, g, "arcs"))

\* r is s without the arcs of A.
ArcsWent(s, r, A) ==
  /\ Live(r, "arcs") = Live(s, "arcs") \ A /\ Live(r, "nodes") = Live(s, "nodes")
  /\ \A g \in Gs : Still(s, r, g, "nodes") /\ Own(r, g, "arcs") = Own(s, g, "arcs") \ A
  /\ \A d \in GC \ A : r.name[d] = s.name[d] /\ r.owner[d] = s.owner[d]
  /\ \A b \in GA \ A : r.start[b] = s.start[b] /\ r.end[b] = s.end[b]

\* Links back of a list that is as it was.
LEMMA BackStill ==
  ASSUME NEW s, Base(s), NEW g \in Gs, NEW k \in Kinds, NEW r, Still(s, r, g, k)
  PROVE  /\ Back(s, Chain(s, g, k)) => Back(r, Chain(r, g, k))
         /\ Headed(s, Chain(s, g, k)) => Headed(r, Chain(r, g, k))
         /\ \A d : BackAt(s, Chain(s, g, k), d) => BackAt(r, Chain(r, g, k), d)
<1> DEFINE q == Chain(s, g, k)
<1>1. q \in Seq(GC) /\ \A i \in 1 .. Len(q) : q[i] \in Own(s, g, k)
  BY ChainList
<1>2. Chain(r, g, k) = q /\ \A d \in Own(s, g, k) : r.prev[d] = s.prev[d]
  BY DEF Still
<1> HIDE DEF q
<1>3. \A i \in 1 .. Len(q) : r.prev[q[i]] = s.prev[q[i]]
  BY <1>1, <1>2
<1>4. Back(s, q) => Back(r, q)
  BY <1>3 DEF Back
<1>5. Headed(s, q) => Headed(r, q)
  <2>1. q # <<>> => 1 \in 1 .. Len(q)
    BY <1>1
  <2> QED BY <2>1, <1>3 DEF Headed
<1>6. \A d : BackAt(s, q, d) => BackAt(r, q, d)
  BY <1>3 DEF BackAt
<1> QED BY <1>2, <1>4, <1>5, <1>6 DEF q

\* The link back of one structure.
LEMMA BackAll ==
  ASSUME NEW s, NEW q, NEW c, Back(s, q)
  PROVE  BackAt(s, q, c)
BY DEF Back, BackAt

\* The fields after ga_delete.
ArcGone(r0, a, n, m, r) ==
  /\ DOMAIN r = Fields /\ Kept(r0, r) /\ r.prev = r0.prev /\ r.attr = r0.attr
  /\ r.counter = r0.counter /\ r.gattr = r0.gattr
  /\ r.out = [r0.out EXCEPT ![n] = gla_unlink(@, a)] /\ r.in = [r0.in EXCEPT ![m] = gla_unlink(@, a)]
  /\ r.start = [r0.start EXCEPT ![a] = 0] /\ r.end = [r0.end EXCEPT ![a] = 0]
  /\ r.weight = [r0.weight EXCEPT ![a] = NoWeight]

\* ga_delete is that.
LEMMA ArcGoneIs ==
  ASSUME NEW s, NEW a, Shape(Gone(s, a, "arcs"))
  PROVE  ArcGone(Gone(s, a, "arcs"), a, s.start[a], s.end[a], ga_delete(s, a))
<1> DEFINE r0 == Gone(s, a, "arcs")
           r == [r0 EXCEPT !.out[s.start[a]] = gla_unlink(@, a), !.in[s.end[a]] = gla_unlink(@, a),
                           !.start[a] = 0, !.end[a] = 0, !.weight[a] = NoWeight]
<1>1. ga_delete(s, a) = r
  BY DEF ga_delete, Gone
<1>2. DOMAIN r0 = Fields
  BY DEF Shape
<1> HIDE DEF r0
<1>3. ArcGone(r0, a, s.start[a], s.end[a], r)
  BY <1>2 DEF ArcGone, Kept, Fields
<1> QED BY <1>1, <1>3 DEF r0

\* Types after an arc went.
LEMMA ArcGoneShape ==
  ASSUME NEW r0, Shape(r0), NEW a \in GA, NEW n \in GN, NEW m \in GN, NEW r, ArcGone(r0, a, n, m, r),
         IsInjective(r0.out[n]), IsInjective(r0.in[m])
  PROVE  Shape(r)
<1>1. NodeType(r0.in, r0.out) /\ ArcType(r0.start, r0.end, r0.weight)
  BY DEF Shape
<1>2. gla_unlink(r0.out[n], a) \in Seq(GA) /\ gla_unlink(r0.in[m], a) \in Seq(GA)
  BY <1>1, UnlinkIs DEF NodeType
<1>3. NodeType(r.in, r.out)
  BY <1>1, <1>2 DEF NodeType, ArcGone
<1>4. ArcType(r.start, r.end, r.weight)
  BY <1>1 DEF ArcType, ArcGone
<1> QED BY <1>3, <1>4 DEF Shape, ArcGone, Kept

\* An arc that goes leaves the interlinks in order.
LEMMA ArcGoes ==
  ASSUME NEW s, NEW D, Knit(s, D), NEW a \in Live(s, "arcs")
  PROVE  Knit(ga_delete(s, a), D) /\ ArcsWent(s, ga_delete(s, a), {a})
<1> DEFINE g == s.owner[a]
           r0 == Gone(s, a, "arcs")
           r == ga_delete(s, a)
           n == s.start[a]
           m == s.end[a]
<1>1. Base(s) /\ Joined(s, D) /\ Shape(s) /\ \A g2 \in Gs : Back(s, Chain(s, g2, "arcs"))
  BY DEF Knit, Base
<1>k. "arcs" \in Kinds /\ "nodes" \in Kinds /\ "arcs" # "nodes"
  BY DEF Kinds
<1>2. g \in Gs /\ a \in Own(s, g, "arcs") /\ a \in GC /\ a \in GA
  BY <1>1, <1>k, Owned, Pools DEF Live
<1>3. PICK i \in 1 .. Len(Chain(s, g, "arcs")) : Chain(s, g, "arcs")[i] = a
  BY <1>1, <1>2, <1>k, ChainList
<1>4. BackAt(s, Chain(s, g, "arcs"), a)
  BY <1>1, <1>2, BackAll
<1> HIDE DEF g
<1>5. Went(s, r0, a, g, "arcs", i)
  BY <1>1, <1>2, <1>3, <1>4, <1>k, Goes
<1>6. ArcGone(r0, a, n, m, r)
  <2>1. Shape(r0)
    BY <1>5 DEF Went, Base
  <2> QED BY <2>1, ArcGoneIs
<1> HIDE DEF r0, r
<1>7. Beside(s, r0) /\ Base(r0)
  BY <1>5 DEF Went
<1>8. EndOf(s, D, a, n) /\ EndOf(s, D, a, m) /\ D \subseteq GN
  BY <1>1 DEF Joined, ArcEnds
<1>9. n \in Live(s, "nodes") \cup D /\ m \in Live(s, "nodes") \cup D /\ Live(s, "nodes") \cup D \subseteq GN
  BY <1>8, Pools DEF EndOf, Live
<1>10. \A x \in Live(s, "nodes") \cup D : Inlinks(s, x) /\ Outlinks(s, x)
  BY <1>1 DEF Joined
<1>11. Shape(r)
  <2>1. IsInjective(r0.out[n]) /\ IsInjective(r0.in[m]) /\ Shape(r0)
    BY <1>7, <1>9, <1>10 DEF Inlinks, Outlinks, Beside, Base
  <2> HIDE DEF n, m
  <2> QED BY <2>1, <1>2, <1>6, <1>9, ArcGoneShape
<1>12. /\ Base(r) /\ \A k \in Kinds : Live(r, k) = Live(r0, k)
       /\ \A g2 \in Gs, k \in Kinds : Own(r, g2, k) = Own(r0, g2, k) /\ Chain(r, g2, k) = Chain(r0, g2, k)
  BY <1>6, <1>7, <1>11, KeptLists DEF ArcGone
<1>13. Live(r, "arcs") = Live(s, "arcs") \ {a} /\ Live(r, "nodes") = Live(s, "nodes")
  BY <1>5, <1>12, <1>k DEF Went
<1>14. /\ \A d \in GC \ {a} : r.name[d] = s.name[d] /\ r.owner[d] = s.owner[d]
       /\ \A b \in GA \ {a} : r.start[b] = s.start[b] /\ r.end[b] = s.end[b]
  <2>1. \A d \in GC \ {a} : r.name[d] = s.name[d] /\ r.owner[d] = s.owner[d]
    BY <1>5, <1>6 DEF Went, ArcGone, Kept
  <2>2. r.start = [s.start EXCEPT ![a] = 0] /\ r.end = [s.end EXCEPT ![a] = 0]
    BY <1>6, <1>7 DEF ArcGone, Beside
  <2>3. ArcType(s.start, s.end, s.weight)
    BY <1>1 DEF Shape
  <2> QED BY <2>1, <2>2, <2>3 DEF ArcType
<1>15. \A g2 \in Gs : Still(s, r, g2, "nodes") /\ Own(r, g2, "arcs") = Own(s, g2, "arcs") \ {a}
  <2>1. SUFFICES ASSUME NEW g2 \in Gs
                 PROVE  Still(s, r, g2, "nodes") /\ Own(r, g2, "arcs") = Own(s, g2, "arcs") \ {a}
    OBVIOUS
  <2>2. Still(s, r0, g2, "nodes")
    BY <1>5, <1>k DEF Went
  <2>3. Still(s, r, g2, "nodes")
    <3>1. Chain(r, g2, "nodes") = Chain(r0, g2, "nodes") /\ Own(r, g2, "nodes") = Own(r0, g2, "nodes")
      BY <1>12, <1>k
    <3>2. r.prev = r0.prev /\ r.name = r0.name
      BY <1>6 DEF ArcGone, Kept
    <3> QED BY <2>2, <3>1, <3>2 DEF Still
  <2>4. Own(r, g2, "arcs") = Own(r0, g2, "arcs")
    BY <1>12, <1>k
  <2>5. g2 = g => Own(r0, g2, "arcs") = Own(s, g2, "arcs") \ {a}
    BY <1>5 DEF Went
  <2>6. g2 # g => Own(r0, g2, "arcs") = Own(s, g2, "arcs")
    BY <1>5, <1>k DEF Went, Still
  <2>7. g2 # g => a \notin Own(s, g2, "arcs")
    BY <1>2, <1>k, OneOwner
  <2> QED BY <2>3, <2>4, <2>5, <2>6, <2>7
<1>16. ArcsWent(s, r, {a})
  BY <1>13, <1>14, <1>15 DEF ArcsWent
<1>17. \A g2 \in Gs : Back(r, Chain(r, g2, "arcs"))
  <2>1. SUFFICES ASSUME NEW g2 \in Gs PROVE Back(r, Chain(r, g2, "arcs"))
    OBVIOUS
  <2>2. Back(s, Chain(s, g2, "arcs"))
    BY <1>1
  <2>3. Back(r0, Chain(r0, g2, "arcs"))
    <3>1. CASE g2 = g
      BY <2>2, <3>1, <1>5 DEF Went
    <3>2. CASE g2 # g
      <4>1. Still(s, r0, g2, "arcs")
        BY <3>2, <1>5, <1>k DEF Went
      <4> QED BY <4>1, <2>2, <1>1, <1>k, BackStill
    <3> QED BY <3>1, <3>2
  <2>4. Chain(r, g2, "arcs") = Chain(r0, g2, "arcs") /\ r.prev = r0.prev
    BY <1>6, <1>12, <1>k DEF ArcGone
  <2> QED BY <2>3, <2>4 DEF Back
<1>18. ArcEnds(r, D)
  <2>1. SUFFICES ASSUME NEW b \in Live(r, "arcs") PROVE EndOf(r, D, b, r.start[b]) /\ EndOf(r, D, b, r.end[b])
    BY DEF ArcEnds
  <2>2. b \in Live(s, "arcs") /\ b \in GA /\ b \in GC /\ b # a
    BY <1>13, Pools DEF Live
  <2>3. EndOf(s, D, b, s.start[b]) /\ EndOf(s, D, b, s.end[b])
    BY <1>1, <2>2 DEF Joined, ArcEnds
  <2>4. r.start[b] = s.start[b] /\ r.end[b] = s.end[b] /\ r.owner[b] = s.owner[b]
    BY <2>2, <1>14
  <2>5. \A x \in Live(s, "nodes") : r.owner[x] = s.owner[x]
    <3>1. \A x \in Live(s, "nodes") : x \in GC /\ x # a
      BY <1>2, Pools DEF Live
    <3> QED BY <3>1, <1>14
  <2> QED BY <2>3, <2>4, <2>5, <1>13 DEF EndOf
<1>19. NodeType(s.in, s.out)
  BY <1>1 DEF Shape
<1>20. \A x \in Live(s, "nodes") \cup D : Inlinks(r, x)
  <2>1. SUFFICES ASSUME NEW x \in Live(s, "nodes") \cup D PROVE Inlinks(r, x)
    OBVIOUS
  <2>2. Inlinks(s, x) /\ x \in GN
    BY <1>9, <1>10
  <2>3. r.in = [s.in EXCEPT ![m] = gla_unlink(@, a)]
    BY <1>6, <1>7 DEF ArcGone, Beside
  <2>4. {b \in Live(r, "arcs") : r.end[b] = x} = {b \in Live(s, "arcs") : s.end[b] = x} \ {a}
    BY <1>13, <1>14, Pools DEF Live
  <2>5. CASE x = m
    <3>1. r.in[x] = gla_unlink(s.in[x], a)
      BY <2>2, <2>3, <2>5, <1>19 DEF NodeType
    <3>2. IsInjective(r.in[x]) /\ ToSet(r.in[x]) = ToSet(s.in[x]) \ {a}
      <4>1. s.in[x] \in Seq(GA) /\ IsInjective(s.in[x])
        BY <2>2, <1>19 DEF NodeType, Inlinks
      <4> QED BY <3>1, <4>1, UnlinkIs
    <3> QED BY <3>2, <2>2, <2>4 DEF Inlinks
  <2>6. CASE x # m
    <3>1. r.in[x] = s.in[x]
      BY <2>2, <2>3, <2>6, <1>19 DEF NodeType
    <3>2. a \notin {b \in Live(s, "arcs") : s.end[b] = x}
      BY <2>6
    <3> QED BY <3>1, <3>2, <2>2, <2>4 DEF Inlinks
  <2> QED BY <2>5, <2>6
<1>21. \A x \in Live(s, "nodes") \cup D : Outlinks(r, x)
  <2>1. SUFFICES ASSUME NEW x \in Live(s, "nodes") \cup D PROVE Outlinks(r, x)
    OBVIOUS
  <2>2. Outlinks(s, x) /\ x \in GN
    BY <1>9, <1>10
  <2>3. r.out = [s.out EXCEPT ![n] = gla_unlink(@, a)]
    BY <1>6, <1>7 DEF ArcGone, Beside
  <2>4. {b \in Live(r, "arcs") : r.start[b] = x} = {b \in Live(s, "arcs") : s.start[b] = x} \ {a}
    BY <1>13, <1>14, Pools DEF Live
  <2>5. CASE x = n
    <3>1. r.out[x] = gla_unlink(s.out[x], a)
      BY <2>2, <2>3, <2>5, <1>19 DEF NodeType
    <3>2. IsInjective(r.out[x]) /\ ToSet(r.out[x]) = ToSet(s.out[x]) \ {a}
      <4>1. s.out[x] \in Seq(GA) /\ IsInjective(s.out[x])
        BY <2>2, <1>19 DEF NodeType, Outlinks
      <4> QED BY <3>1, <4>1, UnlinkIs
    <3> QED BY <3>2, <2>2, <2>4 DEF Outlinks
  <2>6. CASE x # n
    <3>1. r.out[x] = s.out[x]
      BY <2>2, <2>3, <2>6, <1>19 DEF NodeType
    <3>2. a \notin {b \in Live(s, "arcs") : s.start[b] = x}
      BY <2>6
    <3> QED BY <3>1, <3>2, <2>2, <2>4 DEF Outlinks
  <2> QED BY <2>5, <2>6
<1>22. Joined(r, D)
  BY <1>8, <1>13, <1>18, <1>20, <1>21 DEF Joined
<1>23. Knit(r, D)
  BY <1>12, <1>17, <1>22 DEF Knit
<1> QED BY <1>16, <1>23 DEF r

-----------------------------------------------------------------------------
(* One after the other *)

\* The greatest of a set of numbers, when it is known.
LEMMA MaxIs ==
  ASSUME NEW k \in Nat, NEW T, T \subseteq 0 .. k, k \in T
  PROVE  Max(T) = k
<1>1. \A y \in T : k >= y
  OBVIOUS
<1>2. \A x \in T : (\A y \in T : x >= y) => x = k
  <2>1. TAKE x \in T
  <2>2. x >= k => x = k
    OBVIOUS
  <2> QED BY <2>2
<1> QED BY <1>1, <1>2 DEF Max

\* What holds at first and stays with every step holds at the end.
LEMMA Stepwise ==
  ASSUME NEW n \in Nat, NEW T, 0 \in T, \A k \in 1 .. n : k - 1 \in T => k \in T
  PROVE  \A k \in 0 .. n : k \in T
<1> DEFINE Bad == {k \in 0 .. n : k \notin T}
<1>1. SUFFICES ASSUME Bad # {} PROVE FALSE
  OBVIOUS
<1>2. PICK k \in Bad : \A j \in Bad : k <= j
  <2>1. Bad \subseteq Nat
    OBVIOUS
  <2> HIDE DEF Bad
  <2> QED BY <1>1, <2>1, LeastOfNat
<1>3. k \in 0 .. n /\ k \notin T /\ k # 0
  BY <1>2
<1>4. k - 1 \in 0 .. n /\ k \in 1 .. n /\ ~ (k <= k - 1)
  BY <1>3
<1>5. k - 1 \in T
  BY <1>2, <1>4
<1> QED BY <1>3, <1>4, <1>5

\* Arcs deleted one after the other.
ArcsDeleted(s, q) == FoldLeft(ga_delete, s, q)

\* The states between two deletions.
LEMMA FoldArcs ==
  ASSUME NEW base, NEW q, NEW n \in Nat, DOMAIN q = 1 .. n
  PROVE  \E f : /\ f[0] = base /\ f[n] = ArcsDeleted(base, q)
                /\ \A k \in 1 .. n : f[k] = ga_delete(f[k - 1], q[k])
<1> DEFINE apply(s, x) == ga_delete(s, x)
           step(f, T) == IF T = {} THEN base ELSE apply(f[T \ {Max(T)}], q[Max(T)])
           fold == CHOOSE f : f = [T \in SUBSET (1 .. n) |-> step(f, T)]
           Bad == {k \in 0 .. n : ~ \E f : f = [T \in SUBSET (1 .. k) |-> step(f, T)]}
<1>1. ArcsDeleted(base, q) = fold[1 .. n]
  BY DEF ArcsDeleted, FoldLeft, MapThenFoldSet
<1> HIDE DEF apply
<1>2. Bad = {}
  <2>1. SUFFICES ASSUME Bad # {} PROVE FALSE
    OBVIOUS
  <2>2. PICK k \in Bad : \A j \in Bad : k <= j
    <3>1. Bad \subseteq Nat
      OBVIOUS
    <3> HIDE DEF Bad
    <3> QED BY <2>1, <3>1, LeastOfNat
  <2>3. k \in 0 .. n /\ (~ \E f : f = [T \in SUBSET (1 .. k) |-> step(f, T)])
    BY <2>2
  <2>4. k # 0
    <3> DEFINE e == [T \in SUBSET (1 .. 0) |-> base]
    <3>1. \A T \in SUBSET (1 .. 0) : T = {}
      OBVIOUS
    <3>2. e = [T \in SUBSET (1 .. 0) |-> step(e, T)]
      BY <3>1
    <3> QED BY <2>3, <3>2
  <2>5. k - 1 \in 0 .. n /\ k - 1 \notin Bad
    <3>1. k - 1 \in 0 .. n /\ ~ (k <= k - 1)
      BY <2>3, <2>4
    <3> HIDE DEF Bad
    <3> QED BY <2>2, <3>1
  <2>6. PICK f : f = [T \in SUBSET (1 .. (k - 1)) |-> step(f, T)]
    BY <2>5
  <2> DEFINE m == [T \in SUBSET (1 .. k) |-> IF k \in T THEN apply(f[T \ {k}], q[k]) ELSE f[T]]
  <2>7. ASSUME NEW T \in SUBSET (1 .. k)
        PROVE  m[T] = step(m, T)
    <3>0. T \in SUBSET Nat /\ k \in Nat \ {0} /\ T \subseteq 0 .. k
      BY <2>3, <2>4
    <3>1. CASE k \in T
      <4>1. Max(T) = k
        BY <3>0, <3>1, MaxIs
      <4>2. T \ {k} \in SUBSET (1 .. k) /\ k \notin T \ {k} /\ T # {}
        BY <3>1
      <4> QED BY <3>1, <4>1, <4>2
    <3>2. CASE k \notin T
      <4>1. T \in SUBSET (1 .. (k - 1))
        BY <3>0, <3>2
      <4>2. m[T] = f[T]
        BY <3>2
      <4>3. f[T] = step(f, T)
        <5> HIDE DEF step
        <5> QED BY <4>1, <2>6
      <4>4. T # {} => T \ {Max(T)} \in SUBSET (1 .. k) /\ k \notin T \ {Max(T)}
        BY <3>2
      <4> QED BY <4>2, <4>3, <4>4
    <3> QED BY <3>1, <3>2
  <2>8. m = [T \in SUBSET (1 .. k) |-> step(m, T)]
    <3> HIDE DEF step
    <3> QED BY <2>7
  <2> QED BY <2>3, <2>8
<1>3. n \in 0 .. n
  OBVIOUS
<1>4. \E f : f = [T \in SUBSET (1 .. n) |-> step(f, T)]
  <2> HIDE DEF step
  <2> QED BY <1>2, <1>3
<1>5. fold = [T \in SUBSET (1 .. n) |-> step(fold, T)]
  <2> HIDE DEF step
  <2> QED BY <1>4
<1>6. \A T \in SUBSET (1 .. n) : fold[T] = step(fold, T)
  <2> HIDE DEF fold, step
  <2> QED BY <1>5
<1> HIDE DEF fold
<1> DEFINE r == [k \in 0 .. n |-> fold[1 .. k]]
<1>7. r[0] = base
  <2>1. 1 .. 0 = {} /\ 0 \in 0 .. n
    OBVIOUS
  <2> QED BY <2>1, <1>6
<1>8. ASSUME NEW k \in 1 .. n
      PROVE  r[k] = apply(r[k - 1], q[k])
  <2>1. Max(1 .. k) = k
    BY MaxSegment
  <2>2. (1 .. k) \ {k} = 1 .. (k - 1) /\ 1 .. k \in SUBSET (1 .. n) /\ 1 .. k # {} /\ k \in 0 .. n /\ k - 1 \in 0 .. n
    OBVIOUS
  <2>3. fold[1 .. k] = apply(fold[1 .. (k - 1)], q[k])
    BY <2>1, <2>2, <1>6
  <2> QED BY <2>2, <2>3
<1>9. r[n] = fold[1 .. n]
  OBVIOUS
<1> HIDE DEF r
<1>10. \A k \in 1 .. n : r[k] = apply(r[k - 1], q[k])
  BY <1>8
<1> QED BY <1>1, <1>7, <1>9, <1>10 DEF apply

\* What is as it was twice is as it was.
LEMMA StillMore ==
  ASSUME NEW s, NEW r, NEW t, NEW g, NEW k, Still(s, r, g, k), Still(r, t, g, k)
  PROVE  Still(s, t, g, k)
BY DEF Still

\* Some arcs went, then others.
LEMMA ArcsMore ==
  ASSUME NEW s, NEW r, NEW t, NEW A, NEW B, ArcsWent(s, r, A), ArcsWent(r, t, B)
  PROVE  ArcsWent(s, t, A \cup B)
<1>1. \A g \in Gs : Still(s, t, g, "nodes")
  BY StillMore DEF ArcsWent
<1>2. \A g \in Gs : Own(t, g, "arcs") = Own(s, g, "arcs") \ (A \cup B)
  BY DEF ArcsWent
<1>3. Live(t, "arcs") = Live(s, "arcs") \ (A \cup B) /\ Live(t, "nodes") = Live(s, "nodes")
  BY DEF ArcsWent
<1>4. \A d \in GC \ (A \cup B) : t.name[d] = s.name[d] /\ t.owner[d] = s.owner[d]
  BY DEF ArcsWent
<1>5. \A b \in GA \ (A \cup B) : t.start[b] = s.start[b] /\ t.end[b] = s.end[b]
  BY DEF ArcsWent
<1> QED BY <1>1, <1>2, <1>3, <1>4, <1>5 DEF ArcsWent

\* None went.
LEMMA NoArcsWent ==
  ASSUME NEW s
  PROVE  ArcsWent(s, s, {})
BY DEF ArcsWent, Still

\* All arcs of q go.
LEMMA ArcsGo ==
  ASSUME NEW s, NEW D, Knit(s, D), NEW q \in Seq(GA), IsInjective(q), ToSet(q) \subseteq Live(s, "arcs")
  PROVE  LET r == ArcsDeleted(s, q) IN Knit(r, D) /\ ArcsWent(s, r, ToSet(q))
<1> DEFINE n == Len(q)
           till(k) == {q[i] : i \in 1 .. k}
<1>1. n \in Nat /\ DOMAIN q = 1 .. n
  OBVIOUS
<1>2. PICK f : /\ f[0] = s /\ f[n] = ArcsDeleted(s, q)
               /\ \A k \in 1 .. n : f[k] = ga_delete(f[k - 1], q[k])
  <2> HIDE DEF n
  <2> QED BY <1>1, FoldArcs
<1> HIDE DEF n
<1> DEFINE T == {k \in 0 .. n : Knit(f[k], D) /\ ArcsWent(s, f[k], till(k))}
<1>3. 0 \in T
  <2>1. till(0) = {}
    OBVIOUS
  <2>2. Knit(f[0], D) /\ ArcsWent(s, f[0], till(0))
    BY <1>2, <2>1, NoArcsWent
  <2> QED BY <1>1, <2>2
<1>4. ASSUME NEW k \in 1 .. n, k - 1 \in T
      PROVE  k \in T
  <2>1. Knit(f[k - 1], D) /\ ArcsWent(s, f[k - 1], till(k - 1))
    BY <1>4
  <2>2. q[k] \notin till(k - 1)
    BY <1>1 DEF IsInjective
  <2>3. till(k) = till(k - 1) \cup {q[k]}
    <3>1. 1 .. k = (1 .. (k - 1)) \cup {k}
      BY <1>1
    <3> QED BY <3>1
  <2>4. q[k] \in Live(s, "arcs")
    BY <1>1 DEF ToSet
  <2> HIDE DEF till
  <2>5. q[k] \in Live(f[k - 1], "arcs")
    BY <2>1, <2>2, <2>4 DEF ArcsWent
  <2>6. Knit(f[k], D) /\ ArcsWent(f[k - 1], f[k], {q[k]})
    <3>1. Knit(ga_delete(f[k - 1], q[k]), D) /\ ArcsWent(f[k - 1], ga_delete(f[k - 1], q[k]), {q[k]})
      BY <2>1, <2>5, ArcGoes
    <3> QED BY <3>1, <1>2
  <2>7. ArcsWent(s, f[k], till(k))
    BY <2>1, <2>3, <2>6, ArcsMore
  <2> QED BY <1>1, <2>6, <2>7
<1>5. \A k \in 0 .. n : k \in T
  <2> HIDE DEF T
  <2> QED BY <1>1, <1>3, <1>4, Stepwise
<1>6. n \in T
  <2>1. n \in 0 .. n
    BY <1>1
  <2> HIDE DEF T
  <2> QED BY <1>5, <2>1
<1>7. Knit(f[n], D) /\ ArcsWent(s, f[n], till(n))
  BY <1>6
<1>8. till(n) = ToSet(q)
  BY <1>1 DEF ToSet
<1> HIDE DEF till, T
<1> QED BY <1>2, <1>7, <1>8

\* r is s without n, the node at place i of its list, and some arcs.
NodeWent(s, r, n, g, i) ==
  /\ Live(r, "nodes") = Live(s, "nodes") \ {n} /\ Own(r, g, "nodes") = Own(s, g, "nodes") \ {n}
  /\ Chain(r, g, "nodes") = RemoveAt(Chain(s, g, "nodes"), i)
  /\ Headed(s, Chain(s, g, "nodes")) => Headed(r, Chain(r, g, "nodes"))
  /\ Back(s, Chain(s, g, "nodes")) => Back(r, Chain(r, g, "nodes"))
  /\ \A d : d # n /\ BackAt(s, Chain(s, g, "nodes"), d) => BackAt(r, Chain(r, g, "nodes"), d)
  /\ \A d \in GN : d # n => r.name[d] = s.name[d] /\ r.owner[d] = s.owner[d]
  /\ \A g2 \in Gs : g2 # g => Still(s, r, g2, "nodes")
  /\ \A g2 \in Gs : Own(r, g2, "arcs") \subseteq Own(s, g2, "arcs")

\* A node out of its list, whose arcs are there yet.
LEMMA AloneKnit ==
  ASSUME NEW s, Knit(s, {}), NEW g \in Gs, NEW n \in Own(s, g, "nodes"), NEW i, NEW r, Went(s, r, n, g, "nodes", i)
  PROVE  Knit(r, {n})
<1>k. "arcs" \in Kinds /\ "nodes" \in Kinds /\ "arcs" # "nodes"
  BY DEF Kinds
<1>1. Base(s) /\ Shape(s) /\ Joined(s, {}) /\ \A g2 \in Gs : Back(s, Chain(s, g2, "arcs"))
  BY DEF Knit, Base
<1>2. n \in Live(s, "nodes") /\ n \in GN
  BY Pools DEF Own, Live
<1>3. Live(r, "arcs") = Live(s, "arcs") /\ Live(r, "nodes") = Live(s, "nodes") \ {n} /\ Base(r) /\ Beside(s, r)
  BY <1>k DEF Went
<1>4. \A g2 \in Gs : Back(r, Chain(r, g2, "arcs"))
  <2>1. \A g2 \in Gs : Still(s, r, g2, "arcs")
    BY <1>k DEF Went
  <2> QED BY <2>1, <1>1, <1>k, BackStill
<1>5. \A d \in GC : d # n => r.owner[d] = s.owner[d]
  BY DEF Went
<1>6. ArcEnds(r, {n})
  <2>1. SUFFICES ASSUME NEW a \in Live(r, "arcs") PROVE EndOf(r, {n}, a, r.start[a]) /\ EndOf(r, {n}, a, r.end[a])
    BY DEF ArcEnds
  <2>2. EndOf(s, {}, a, s.start[a]) /\ EndOf(s, {}, a, s.end[a])
    BY <1>1, <1>3 DEF Joined, ArcEnds
  <2>3. r.start[a] = s.start[a] /\ r.end[a] = s.end[a] /\ r.owner[a] = s.owner[a]
    <3>1. a \in GC /\ a # n
      BY <1>2, Pools DEF Live
    <3> QED BY <3>1, <1>3, <1>5 DEF Beside
  <2>4. \A x \in Live(s, "nodes") \ {n} : r.owner[x] = s.owner[x]
    <3>1. \A x \in Live(s, "nodes") : x \in GC
      BY Pools DEF Live
    <3> QED BY <3>1, <1>5
  <2> QED BY <2>2, <2>3, <2>4, <1>3 DEF EndOf
<1>7. \A x \in Live(r, "nodes") \cup {n} : Inlinks(r, x) /\ Outlinks(r, x)
  <2>1. \A x \in Live(s, "nodes") : Inlinks(s, x) /\ Outlinks(s, x)
    BY <1>1 DEF Joined
  <2>2. Live(r, "nodes") \cup {n} = Live(s, "nodes")
    BY <1>2, <1>3
  <2> QED BY <2>1, <2>2, <1>3 DEF Inlinks, Outlinks, Beside
<1> QED BY <1>2, <1>3, <1>4, <1>6, <1>7 DEF Knit, Joined

\* A node that goes with its arcs leaves the interlinks in order.
LEMMA NodeGoes ==
  ASSUME NEW s, Knit(s, {}), NEW g \in Gs, NEW i \in 1 .. Len(Chain(s, g, "nodes")),
         NEW n, n = Chain(s, g, "nodes")[i], BackAt(s, Chain(s, g, "nodes"), n)
  PROVE  Knit(gn_delete(s, n), {}) /\ NodeWent(s, gn_delete(s, n), n, g, i)
<1>k. "arcs" \in Kinds /\ "nodes" \in Kinds /\ "arcs" # "nodes"
  BY DEF Kinds
<1>1. Base(s) /\ Shape(s)
  BY DEF Knit, Base
<1>2. n \in Own(s, g, "nodes") /\ n \in GC
  BY <1>1, <1>k, ChainList
<1>3. n \in GN /\ n \notin GA /\ s.owner[n] = g
  BY <1>2, Pools DEF Own, Live
<1> DEFINE alone == Gone(s, n, "nodes")
           ended == ArcsDeleted(alone, alone.in[n])
           done  == ArcsDeleted(ended, ended.out[n])
<1>4. gn_delete(s, n) = done
  BY DEF gn_delete, Gone, ArcsDeleted
<1>5. Went(s, alone, n, g, "nodes", i)
  BY <1>1, <1>k, Goes
<1> HIDE DEF alone
<1>6. Knit(alone, {n})
  BY <1>2, <1>5, AloneKnit
<1>7. /\ alone.in[n] \in Seq(GA) /\ IsInjective(alone.in[n])
      /\ ToSet(alone.in[n]) = {a \in Live(alone, "arcs") : alone.end[a] = n}
  BY <1>3, <1>6 DEF Knit, Joined, Inlinks, Base, Shape, NodeType
<1>8. Knit(ended, {n}) /\ ArcsWent(alone, ended, ToSet(alone.in[n]))
  BY <1>6, <1>7, ArcsGo
<1> HIDE DEF ended
<1>9. /\ ended.out[n] \in Seq(GA) /\ IsInjective(ended.out[n])
      /\ ToSet(ended.out[n]) = {a \in Live(ended, "arcs") : ended.start[a] = n}
  BY <1>3, <1>8 DEF Knit, Joined, Outlinks, Base, Shape, NodeType
<1>10. Knit(done, {n}) /\ ArcsWent(ended, done, ToSet(ended.out[n]))
  BY <1>8, <1>9, ArcsGo
<1> HIDE DEF done
<1>11. \A a \in Live(done, "arcs") : done.start[a] # n /\ done.end[a] # n
  <2>1. SUFFICES ASSUME NEW a \in Live(done, "arcs") PROVE done.start[a] # n /\ done.end[a] # n
    OBVIOUS
  <2>2. a \in Live(ended, "arcs") /\ a \notin ToSet(ended.out[n]) /\ a \in GA
    BY <1>10, Pools DEF ArcsWent, Live
  <2>3. a \in Live(alone, "arcs") /\ a \notin ToSet(alone.in[n])
    BY <1>8, <2>2 DEF ArcsWent
  <2>4. done.start[a] = ended.start[a] /\ done.end[a] = ended.end[a] /\ ended.end[a] = alone.end[a]
    BY <1>8, <1>10, <2>2, <2>3 DEF ArcsWent
  <2> QED BY <1>7, <1>9, <2>2, <2>3, <2>4
<1>12. Knit(done, {})
  <2>1. ArcEnds(done, {})
    BY <1>10, <1>11 DEF Knit, Joined, ArcEnds, EndOf
  <2> QED BY <1>10, <2>1 DEF Knit, Joined
<1> DEFINE A == ToSet(alone.in[n]) \cup ToSet(ended.out[n])
<1>13. ArcsWent(alone, done, A)
  BY <1>8, <1>10, ArcsMore
<1>14. A \subseteq GA
  BY <1>7, <1>9, Pools DEF Live
<1> HIDE DEF A
<1>15. \A g2 \in Gs : Still(alone, done, g2, "nodes")
  BY <1>13 DEF ArcsWent
<1>16. Chain(done, g, "nodes") = Chain(alone, g, "nodes") /\ Own(done, g, "nodes") = Own(alone, g, "nodes")
  BY <1>15 DEF Still
<1>17. Base(alone)
  BY <1>5 DEF Went
<1>18. /\ Live(done, "nodes") = Live(s, "nodes") \ {n} /\ Own(done, g, "nodes") = Own(s, g, "nodes") \ {n}
       /\ Chain(done, g, "nodes") = RemoveAt(Chain(s, g, "nodes"), i)
  BY <1>5, <1>13, <1>16 DEF Went, ArcsWent
<1>19. Headed(s, Chain(s, g, "nodes")) => Headed(done, Chain(done, g, "nodes"))
  <2>1. Headed(s, Chain(s, g, "nodes")) => Headed(alone, Chain(alone, g, "nodes"))
    BY <1>5 DEF Went
  <2>2. Headed(alone, Chain(alone, g, "nodes")) => Headed(done, Chain(done, g, "nodes"))
    BY <1>15, <1>17, <1>k, BackStill
  <2> QED BY <2>1, <2>2
<1>20. \A d : d # n /\ BackAt(s, Chain(s, g, "nodes"), d) => BackAt(done, Chain(done, g, "nodes"), d)
  <2>1. \A d : d # n /\ BackAt(s, Chain(s, g, "nodes"), d) => BackAt(alone, Chain(alone, g, "nodes"), d)
    BY <1>5 DEF Went
  <2>2. \A d : BackAt(alone, Chain(alone, g, "nodes"), d) => BackAt(done, Chain(done, g, "nodes"), d)
    BY <1>15, <1>17, <1>k, BackStill
  <2> QED BY <2>1, <2>2
<1>21. \A d \in GN : d # n => done.name[d] = s.name[d] /\ done.owner[d] = s.owner[d]
  <2>1. \A d \in GN : d \in GC /\ d \notin A
    BY <1>14, Pools
  <2> QED BY <2>1, <1>5, <1>13 DEF Went, ArcsWent
<1>22. \A g2 \in Gs : g2 # g => Still(s, done, g2, "nodes")
  <2>1. \A g2 \in Gs : g2 # g => Still(s, alone, g2, "nodes")
    BY <1>5, <1>k DEF Went
  <2> QED BY <2>1, <1>15, StillMore
<1>23. \A g2 \in Gs : Own(done, g2, "arcs") \subseteq Own(s, g2, "arcs")
  <2>1. \A g2 \in Gs : Own(alone, g2, "arcs") = Own(s, g2, "arcs")
    BY <1>5, <1>k DEF Went, Still
  <2> QED BY <2>1, <1>13 DEF ArcsWent
<1>24. Back(s, Chain(s, g, "nodes")) => Back(done, Chain(done, g, "nodes"))
  <2>1. Back(s, Chain(s, g, "nodes")) => Back(alone, Chain(alone, g, "nodes"))
    BY <1>5 DEF Went
  <2>2. Back(alone, Chain(alone, g, "nodes")) => Back(done, Chain(done, g, "nodes"))
    BY <1>15, <1>17, <1>k, BackStill
  <2> QED BY <2>1, <2>2
<1> QED BY <1>4, <1>12, <1>18, <1>19, <1>20, <1>21, <1>22, <1>23, <1>24 DEF NodeWent

-----------------------------------------------------------------------------
(* New nodes and arcs *)

\* While there is room, there is a free structure.
LEMMA FreshIs ==
  ASSUME NEW s, NEW k \in Kinds, NEW i \in Nat \ {0}, HasRoom(s, k, i)
  PROVE  Fresh(s, k) \in Pool(k) /\ Fresh(s, k) \notin Live(s, k) /\ s.name[Fresh(s, k)] = NoName
<1>1. IsFiniteSet(Pool(k)) /\ Pool(k) \subseteq Nat
  BY Pools
<1>2. Live(s, k) \subseteq Pool(k)
  BY DEF Live
<1>3. Cardinality(Pool(k)) \in Nat /\ Cardinality(Live(s, k)) \in Nat
  BY <1>1, <1>2, FS_Subset, FS_CardinalityType
<1>4. Live(s, k) # Pool(k)
  BY <1>3 DEF HasRoom
<1>5. Pool(k) \ Live(s, k) # {} /\ Pool(k) \ Live(s, k) \subseteq Nat
  BY <1>1, <1>2, <1>4
<1>6. Fresh(s, k) \in Pool(k) \ Live(s, k)
  BY <1>5, MinIs DEF Fresh
<1> QED BY <1>6 DEF Live

\* There is room for one less.
LEMMA RoomLeft ==
  ASSUME NEW s, NEW r, NEW k \in Kinds, NEW i \in Nat \ {0}, HasRoom(s, k, i),
         NEW c \in Pool(k), c \notin Live(s, k), Live(r, k) = Live(s, k) \cup {c}
  PROVE  HasRoom(r, k, i - 1)
<1>1. IsFiniteSet(Pool(k)) /\ Live(s, k) \subseteq Pool(k)
  BY Pools DEF Live
<1>2. IsFiniteSet(Live(s, k)) /\ Cardinality(Pool(k)) \in Nat /\ Cardinality(Live(s, k)) \in Nat
  BY <1>1, FS_Subset, FS_CardinalityType
<1>3. Cardinality(Live(r, k)) = Cardinality(Live(s, k)) + 1
  BY <1>2, FS_AddElement
<1> QED BY <1>2, <1>3 DEF HasRoom

\* r is s with the arc a in graph g, named x.
ArcCame(s, r, a, g, x) ==
  /\ a \in GA /\ a \notin Live(s, "arcs")
  /\ Live(r, "arcs") = Live(s, "arcs") \cup {a} /\ Live(r, "nodes") = Live(s, "nodes")
  /\ Own(r, g, "arcs") = Own(s, g, "arcs") \cup {a}
  /\ \A g2 \in Gs : Still(s, r, g2, "nodes") /\ (g2 # g => Still(s, r, g2, "arcs"))
  /\ r.name[a] = x /\ \A d \in GC : d # a => r.name[d] = s.name[d] /\ r.owner[d] = s.owner[d]
  /\ \A b \in GA : b # a => r.start[b] = s.start[b] /\ r.end[b] = s.end[b]

\* The fields after ga_new.
ArcMade(r0, a, n, m, r) ==
  /\ DOMAIN r = Fields /\ Kept(r0, r) /\ r.prev = r0.prev /\ r.attr = r0.attr
  /\ r.counter = r0.counter /\ r.gattr = r0.gattr
  /\ r.out = [r0.out EXCEPT ![n] = gla_link(@, a)] /\ r.in = [r0.in EXCEPT ![m] = gla_link(@, a)]
  /\ r.start = [r0.start EXCEPT ![a] = n] /\ r.end = [r0.end EXCEPT ![a] = m]
  /\ r.weight = [r0.weight EXCEPT ![a] = NoWeight]

\* ga_new is that.
LEMMA ArcMadeIs ==
  ASSUME NEW s, NEW g, NEW x, NEW n, NEW m, m # 0, NEW a, a = Fresh(s, "arcs"),
         NEW r0, r0 = Setup(s, a, g, "arcs", x), Shape(r0), r0.in = s.in
  PROVE  ArcMade(r0, a, n, m, ga_new(s, g, x, n, m))
<1> DEFINE r == [r0 EXCEPT !.start[a] = n, !.end[a] = m, !.weight[a] = NoWeight,
                           !.out[n] = gla_link(@, a), !.in = Linked(@, m, gla_link(s.in[m], a))]
<1>1. ga_new(s, g, x, n, m) = r
  BY DEF ga_new, Setup
<1>2. DOMAIN r0 = Fields
  BY DEF Shape
<1>3. r.in = [r0.in EXCEPT ![m] = gla_link(@, a)]
  <2>1. r.in = Linked(r0.in, m, gla_link(s.in[m], a))
    BY <1>2 DEF Fields
  <2> HIDE DEF r
  <2> QED BY <2>1 DEF Linked
<1>4. /\ DOMAIN r = Fields /\ Kept(r0, r) /\ r.prev = r0.prev /\ r.attr = r0.attr
      /\ r.counter = r0.counter /\ r.gattr = r0.gattr
      /\ r.out = [r0.out EXCEPT ![n] = gla_link(@, a)]
      /\ r.start = [r0.start EXCEPT ![a] = n] /\ r.end = [r0.end EXCEPT ![a] = m]
      /\ r.weight = [r0.weight EXCEPT ![a] = NoWeight]
  BY <1>2 DEF Kept, Fields
<1> HIDE DEF r
<1> QED BY <1>1, <1>3, <1>4 DEF ArcMade

\* What gla_link makes of the interlinks of a node.
LEMMA LinkIs ==
  ASSUME NEW X, NEW q \in Seq(X), NEW a \in X
  PROVE  /\ gla_link(q, a) \in Seq(X) /\ ToSet(gla_link(q, a)) = ToSet(q) \cup {a}
         /\ IsInjective(q) /\ a \notin ToSet(q) => IsInjective(gla_link(q, a))
<1> DEFINE r == <<a>> \o q
<1>1. r \in Seq(X) /\ ToSet(r) = ToSet(q) \cup {a} /\ (IsInjective(q) /\ a \notin ToSet(q) => IsInjective(r))
  BY ConsIs
<1>2. gla_link(q, a) = r
  BY DEF gla_link
<1> HIDE DEF r
<1> QED BY <1>1, <1>2

\* Types after an arc came.
LEMMA ArcMadeShape ==
  ASSUME NEW r0, Shape(r0), NEW a \in GA, NEW n \in GN, NEW m \in GN, NEW r, ArcMade(r0, a, n, m, r)
  PROVE  Shape(r)
<1>1. NodeType(r0.in, r0.out) /\ ArcType(r0.start, r0.end, r0.weight)
  BY DEF Shape
<1>2. gla_link(r0.out[n], a) \in Seq(GA) /\ gla_link(r0.in[m], a) \in Seq(GA)
  BY <1>1, LinkIs DEF NodeType
<1>3. NodeType(r.in, r.out)
  BY <1>1, <1>2 DEF NodeType, ArcMade
<1>4. ArcType(r.start, r.end, r.weight)
  BY <1>1 DEF ArcType, ArcMade
<1> QED BY <1>3, <1>4 DEF Shape, ArcMade, Kept

\* An arc that comes between two nodes of its graph leaves the interlinks in order.
LEMMA ArcComes ==
  ASSUME NEW s, Knit(s, {}), NEW g \in Gs, NEW i \in Nat \ {0}, HasRoom(s, "arcs", i),
         NEW n \in Own(s, g, "nodes"), NEW m \in Own(s, g, "nodes"),
         NEW x, x # NoName, x \notin DOMAIN s.map[g]["arcs"]
  PROVE  LET r == ga_new(s, g, x, n, m) IN
         Knit(r, {}) /\ ArcCame(s, r, Fresh(s, "arcs"), g, x) /\ HasRoom(r, "arcs", i - 1)
<1> DEFINE a == Fresh(s, "arcs")
           r0 == Setup(s, a, g, "arcs", x)
           r == ga_new(s, g, x, n, m)
<1>k. "arcs" \in Kinds /\ "nodes" \in Kinds /\ "arcs" # "nodes" /\ Pool("arcs") = GA
  BY Pools
<1>1. Base(s) /\ Shape(s) /\ Joined(s, {}) /\ \A g2 \in Gs : Back(s, Chain(s, g2, "arcs"))
  BY DEF Knit, Base
<1>2. a \in GA /\ a \in GC /\ a \notin GN /\ a \notin Live(s, "arcs") /\ s.name[a] = NoName
  BY <1>k, FreshIs, Pools
<1> HIDE DEF a
<1>3. Came(s, r0, a, g, "arcs", x)
  BY <1>1, <1>2, <1>k, Comes
<1> HIDE DEF r0
<1>4. n \in GN /\ m \in GN /\ m # 0 /\ n \in Live(s, "nodes") /\ m \in Live(s, "nodes") /\ s.owner[n] = g /\ s.owner[m] = g
  BY Pools DEF Own, Live
<1>5. Base(r0) /\ Shape(r0) /\ Beside(s, r0)
  BY <1>3 DEF Came, Base
<1>6. ArcMade(r0, a, n, m, r)
  BY <1>4, <1>5, ArcMadeIs DEF r0, a, Beside
<1> HIDE DEF r
<1>7. Shape(r)
  BY <1>2, <1>4, <1>5, <1>6, ArcMadeShape
<1>8. /\ Base(r) /\ \A k \in Kinds : Live(r, k) = Live(r0, k)
      /\ \A g2 \in Gs, k \in Kinds : Own(r, g2, k) = Own(r0, g2, k) /\ Chain(r, g2, k) = Chain(r0, g2, k)
  BY <1>5, <1>6, <1>7, KeptLists DEF ArcMade
<1>9. Live(r, "arcs") = Live(s, "arcs") \cup {a} /\ Live(r, "nodes") = Live(s, "nodes")
  BY <1>3, <1>8, <1>k DEF Came
<1>10. /\ r.name[a] = x /\ r.owner[a] = g
       /\ \A d \in GC : d # a => r.name[d] = s.name[d] /\ r.owner[d] = s.owner[d]
  BY <1>3, <1>6 DEF Came, ArcMade, Kept
<1>11. ArcType(s.start, s.end, s.weight) /\ NodeType(s.in, s.out)
  BY <1>1 DEF Shape
<1>12. /\ \A b \in GA : b # a => r.start[b] = s.start[b] /\ r.end[b] = s.end[b]
       /\ r.start[a] = n /\ r.end[a] = m
  <2>1. r.start = [s.start EXCEPT ![a] = n] /\ r.end = [s.end EXCEPT ![a] = m]
    BY <1>5, <1>6 DEF ArcMade, Beside
  <2> QED BY <2>1, <1>2, <1>11 DEF ArcType
<1>13. \A g2 \in Gs : Still(s, r, g2, "nodes") /\ (g2 # g => Still(s, r, g2, "arcs"))
  <2>1. SUFFICES ASSUME NEW g2 \in Gs, NEW k \in Kinds, k = "nodes" \/ g2 # g PROVE Still(s, r, g2, k)
    BY <1>k
  <2>2. Still(s, r0, g2, k)
    BY <2>1, <1>3, <1>k DEF Came
  <2>3. Chain(r, g2, k) = Chain(r0, g2, k) /\ Own(r, g2, k) = Own(r0, g2, k)
    BY <1>8
  <2>4. r.prev = r0.prev /\ r.name = r0.name
    BY <1>6 DEF ArcMade, Kept
  <2> QED BY <2>2, <2>3, <2>4 DEF Still
<1>14. Own(r, g, "arcs") = Own(s, g, "arcs") \cup {a}
  BY <1>3, <1>8, <1>k DEF Came
<1>15. ArcCame(s, r, a, g, x)
  BY <1>2, <1>9, <1>10, <1>12, <1>13, <1>14 DEF ArcCame
<1>16. HasRoom(r, "arcs", i - 1)
  BY <1>2, <1>9, <1>k, RoomLeft
<1>17. \A g2 \in Gs : Back(r, Chain(r, g2, "arcs"))
  <2>1. SUFFICES ASSUME NEW g2 \in Gs PROVE Back(r, Chain(r, g2, "arcs"))
    OBVIOUS
  <2>2. Back(s, Chain(s, g2, "arcs"))
    BY <1>1
  <2>3. CASE g2 = g
    <3>1. Back(r0, Chain(r0, g2, "arcs"))
      BY <2>2, <2>3, <1>3 DEF Came
    <3>2. Chain(r, g2, "arcs") = Chain(r0, g2, "arcs") /\ r.prev = r0.prev
      BY <1>6, <1>8, <1>k DEF ArcMade
    <3> QED BY <3>1, <3>2 DEF Back
  <2>4. CASE g2 # g
    BY <2>2, <2>4, <1>1, <1>13, <1>k, BackStill
  <2> QED BY <2>3, <2>4
<1>18. ArcEnds(r, {})
  <2>1. SUFFICES ASSUME NEW b \in Live(r, "arcs") PROVE EndOf(r, {}, b, r.start[b]) /\ EndOf(r, {}, b, r.end[b])
    BY DEF ArcEnds
  <2>2. \A y \in Live(s, "nodes") : r.owner[y] = s.owner[y]
    <3>1. \A y \in Live(s, "nodes") : y \in GC /\ y # a
      BY <1>2, Pools DEF Live
    <3> QED BY <3>1, <1>10
  <2>3. CASE b = a
    BY <2>2, <2>3, <1>4, <1>9, <1>10, <1>12 DEF EndOf
  <2>4. CASE b # a
    <3>1. b \in Live(s, "arcs") /\ b \in GA /\ b \in GC
      BY <2>4, <1>9, Pools DEF Live
    <3>2. EndOf(s, {}, b, s.start[b]) /\ EndOf(s, {}, b, s.end[b])
      BY <3>1, <1>1 DEF Joined, ArcEnds
    <3>3. r.start[b] = s.start[b] /\ r.end[b] = s.end[b] /\ r.owner[b] = s.owner[b]
      BY <2>4, <3>1, <1>10, <1>12
    <3> QED BY <3>2, <3>3, <2>2, <1>9 DEF EndOf
  <2> QED BY <2>3, <2>4
<1>19. \A y \in Live(s, "nodes") : Inlinks(r, y)
  <2>1. SUFFICES ASSUME NEW y \in Live(s, "nodes") PROVE Inlinks(r, y)
    OBVIOUS
  <2>2. Inlinks(s, y) /\ y \in GN
    BY <1>1, Pools DEF Joined, Live
  <2>3. r.in = [s.in EXCEPT ![m] = gla_link(@, a)]
    BY <1>5, <1>6 DEF ArcMade, Beside
  <2>4. {b \in Live(r, "arcs") : r.end[b] = y} = {b \in Live(s, "arcs") : s.end[b] = y} \cup (IF y = m THEN {a} ELSE {})
    <3>1. \A b \in Live(s, "arcs") : b \in GA /\ b # a
      BY <1>2, Pools DEF Live
    <3> QED BY <3>1, <1>9, <1>12
  <2>5. CASE y = m
    <3>1. r.in[y] = gla_link(s.in[y], a)
      BY <2>2, <2>3, <2>5, <1>11 DEF NodeType
    <3>2. a \notin ToSet(s.in[y])
      BY <1>2, <2>2 DEF Inlinks
    <3>3. IsInjective(r.in[y]) /\ ToSet(r.in[y]) = ToSet(s.in[y]) \cup {a}
      <4>1. s.in[y] \in Seq(GA) /\ IsInjective(s.in[y])
        BY <2>2, <1>11 DEF NodeType, Inlinks
      <4> QED BY <3>1, <3>2, <4>1, <1>2, LinkIs
    <3> QED BY <3>3, <2>2, <2>4, <2>5 DEF Inlinks
  <2>6. CASE y # m
    <3>1. r.in[y] = s.in[y]
      BY <2>2, <2>3, <2>6, <1>11 DEF NodeType
    <3> QED BY <3>1, <2>2, <2>4, <2>6 DEF Inlinks
  <2> QED BY <2>5, <2>6
<1>20. \A y \in Live(s, "nodes") : Outlinks(r, y)
  <2>1. SUFFICES ASSUME NEW y \in Live(s, "nodes") PROVE Outlinks(r, y)
    OBVIOUS
  <2>2. Outlinks(s, y) /\ y \in GN
    BY <1>1, Pools DEF Joined, Live
  <2>3. r.out = [s.out EXCEPT ![n] = gla_link(@, a)]
    BY <1>5, <1>6 DEF ArcMade, Beside
  <2>4. {b \in Live(r, "arcs") : r.start[b] = y} = {b \in Live(s, "arcs") : s.start[b] = y} \cup (IF y = n THEN {a} ELSE {})
    <3>1. \A b \in Live(s, "arcs") : b \in GA /\ b # a
      BY <1>2, Pools DEF Live
    <3> QED BY <3>1, <1>9, <1>12
  <2>5. CASE y = n
    <3>1. r.out[y] = gla_link(s.out[y], a)
      BY <2>2, <2>3, <2>5, <1>11 DEF NodeType
    <3>2. a \notin ToSet(s.out[y])
      BY <1>2, <2>2 DEF Outlinks
    <3>3. IsInjective(r.out[y]) /\ ToSet(r.out[y]) = ToSet(s.out[y]) \cup {a}
      <4>1. s.out[y] \in Seq(GA) /\ IsInjective(s.out[y])
        BY <2>2, <1>11 DEF NodeType, Outlinks
      <4> QED BY <3>1, <3>2, <4>1, <1>2, LinkIs
    <3> QED BY <3>3, <2>2, <2>4, <2>5 DEF Outlinks
  <2>6. CASE y # n
    <3>1. r.out[y] = s.out[y]
      BY <2>2, <2>3, <2>6, <1>11 DEF NodeType
    <3> QED BY <3>1, <2>2, <2>4, <2>6 DEF Outlinks
  <2> QED BY <2>5, <2>6
<1>21. Knit(r, {})
  <2>1. Joined(r, {})
    BY <1>9, <1>18, <1>19, <1>20 DEF Joined
  <2> QED BY <2>1, <1>8, <1>17 DEF Knit
<1> QED BY <1>15, <1>16, <1>21 DEF r, a

\* r is s with the node n in graph g, named x.
NodeCame(s, r, n, g, x) ==
  /\ n \in GN /\ n \notin Live(s, "nodes")
  /\ Live(r, "nodes") = Live(s, "nodes") \cup {n} /\ Live(r, "arcs") = Live(s, "arcs")
  /\ Own(r, g, "nodes") = Own(s, g, "nodes") \cup {n}
  /\ Chain(r, g, "nodes") = <<n>> \o Chain(s, g, "nodes")
  /\ Headed(r, Chain(r, g, "nodes"))
  /\ Back(s, Chain(s, g, "nodes")) => Back(r, Chain(r, g, "nodes"))
  /\ \A g2 \in Gs : Still(s, r, g2, "arcs") /\ (g2 # g => Still(s, r, g2, "nodes"))
  /\ r.name[n] = x /\ \A d \in GC : d # n => r.name[d] = s.name[d] /\ r.owner[d] = s.owner[d]
  /\ r.start = s.start /\ r.end = s.end

\* The fields after gn_new.
NodeMade(r0, n, r) ==
  /\ DOMAIN r = Fields /\ Kept(r0, r) /\ r.prev = r0.prev /\ r.attr = r0.attr
  /\ r.counter = r0.counter /\ r.gattr = r0.gattr /\ r.start = r0.start /\ r.end = r0.end
  /\ r.weight = r0.weight
  /\ r.in = [r0.in EXCEPT ![n] = <<>>] /\ r.out = [r0.out EXCEPT ![n] = <<>>]

\* gn_new is that.
LEMMA NodeMadeIs ==
  ASSUME NEW s, NEW g, NEW x, NEW n, n = Fresh(s, "nodes"),
         NEW r0, r0 = Setup(s, n, g, "nodes", x), Shape(r0)
  PROVE  NodeMade(r0, n, gn_new(s, g, x))
<1> DEFINE r == [r0 EXCEPT !.in[n] = <<>>, !.out[n] = <<>>]
<1>1. gn_new(s, g, x) = r
  BY DEF gn_new, Setup
<1>2. DOMAIN r0 = Fields
  BY DEF Shape
<1>3. NodeMade(r0, n, r)
  BY <1>2 DEF NodeMade, Kept, Fields
<1> HIDE DEF r
<1> QED BY <1>1, <1>3

\* Types after a node came.
LEMMA NodeMadeShape ==
  ASSUME NEW r0, Shape(r0), NEW n \in GN, NEW r, NodeMade(r0, n, r)
  PROVE  Shape(r)
<1>1. NodeType(r0.in, r0.out)
  BY DEF Shape
<1>2. NodeType(r.in, r.out)
  BY <1>1 DEF NodeType, NodeMade
<1> QED BY <1>2 DEF Shape, NodeMade, Kept

\* A node that comes leaves the interlinks in order.
LEMMA NodeComes ==
  ASSUME NEW s, Knit(s, {}), NEW g \in Gs, NEW i \in Nat \ {0}, HasRoom(s, "nodes", i),
         NEW x, x # NoName, x \notin DOMAIN s.map[g]["nodes"]
  PROVE  LET r == gn_new(s, g, x) IN
         Knit(r, {}) /\ NodeCame(s, r, Fresh(s, "nodes"), g, x) /\ HasRoom(r, "nodes", i - 1)
<1> DEFINE n == Fresh(s, "nodes")
           r0 == Setup(s, n, g, "nodes", x)
           r == gn_new(s, g, x)
<1>k. "arcs" \in Kinds /\ "nodes" \in Kinds /\ "arcs" # "nodes" /\ Pool("nodes") = GN
  BY Pools
<1>1. Base(s) /\ Shape(s) /\ Joined(s, {}) /\ \A g2 \in Gs : Back(s, Chain(s, g2, "arcs"))
  BY DEF Knit, Base
<1>2. n \in GN /\ n \in GC /\ n \notin GA /\ n \notin Live(s, "nodes") /\ s.name[n] = NoName
  BY <1>k, FreshIs, Pools
<1> HIDE DEF n
<1>3. Came(s, r0, n, g, "nodes", x)
  BY <1>1, <1>2, <1>k, Comes
<1> HIDE DEF r0
<1>5. Base(r0) /\ Shape(r0) /\ Beside(s, r0)
  BY <1>3 DEF Came, Base
<1>6. NodeMade(r0, n, r)
  BY <1>5, NodeMadeIs DEF r0, n
<1> HIDE DEF r
<1>7. Shape(r)
  BY <1>2, <1>5, <1>6, NodeMadeShape
<1>8. /\ Base(r) /\ \A k \in Kinds : Live(r, k) = Live(r0, k)
      /\ \A g2 \in Gs, k \in Kinds : Own(r, g2, k) = Own(r0, g2, k) /\ Chain(r, g2, k) = Chain(r0, g2, k)
  BY <1>5, <1>6, <1>7, KeptLists DEF NodeMade
<1>9. Live(r, "nodes") = Live(s, "nodes") \cup {n} /\ Live(r, "arcs") = Live(s, "arcs")
  BY <1>3, <1>8, <1>k DEF Came
<1>10. /\ r.name[n] = x /\ r.owner[n] = g
       /\ \A d \in GC : d # n => r.name[d] = s.name[d] /\ r.owner[d] = s.owner[d]
  BY <1>3, <1>6 DEF Came, NodeMade, Kept
<1>12. r.start = s.start /\ r.end = s.end
  BY <1>5, <1>6 DEF NodeMade, Beside
<1>13. \A g2 \in Gs : Still(s, r, g2, "arcs") /\ (g2 # g => Still(s, r, g2, "nodes"))
  <2>1. SUFFICES ASSUME NEW g2 \in Gs, NEW k \in Kinds, k = "arcs" \/ g2 # g PROVE Still(s, r, g2, k)
    BY <1>k
  <2>2. Still(s, r0, g2, k)
    BY <2>1, <1>3, <1>k DEF Came
  <2>3. Chain(r, g2, k) = Chain(r0, g2, k) /\ Own(r, g2, k) = Own(r0, g2, k)
    BY <1>8
  <2>4. r.prev = r0.prev /\ r.name = r0.name
    BY <1>6 DEF NodeMade, Kept
  <2> QED BY <2>2, <2>3, <2>4 DEF Still
<1>14. Own(r, g, "nodes") = Own(s, g, "nodes") \cup {n} /\ Chain(r, g, "nodes") = <<n>> \o Chain(s, g, "nodes")
  BY <1>3, <1>8, <1>k DEF Came
<1>15. Headed(r, Chain(r, g, "nodes"))
  <2>1. Headed(r0, Chain(r0, g, "nodes"))
    BY <1>3 DEF Came
  <2>2. Chain(r, g, "nodes") = Chain(r0, g, "nodes") /\ r.prev = r0.prev
    BY <1>6, <1>8, <1>k DEF NodeMade
  <2> QED BY <2>1, <2>2 DEF Headed
<1>b. Back(s, Chain(s, g, "nodes")) => Back(r, Chain(r, g, "nodes"))
  <2>1. Back(s, Chain(s, g, "nodes")) => Back(r0, Chain(r0, g, "nodes"))
    BY <1>3 DEF Came
  <2>2. Chain(r, g, "nodes") = Chain(r0, g, "nodes") /\ r.prev = r0.prev
    BY <1>6, <1>8, <1>k DEF NodeMade
  <2> QED BY <2>1, <2>2 DEF Back
<1>16. HasRoom(r, "nodes", i - 1)
  BY <1>2, <1>9, <1>k, RoomLeft
<1>17. NodeCame(s, r, n, g, x)
  BY <1>2, <1>9, <1>10, <1>12, <1>13, <1>14, <1>15, <1>b DEF NodeCame
<1>18. \A g2 \in Gs : Back(r, Chain(r, g2, "arcs"))
  <2>1. SUFFICES ASSUME NEW g2 \in Gs PROVE Back(r, Chain(r, g2, "arcs"))
    OBVIOUS
  <2> QED BY <1>1, <1>13, <1>k, BackStill
<1>19. \A b \in Live(s, "arcs") : /\ b \in GA /\ b \in GC /\ b # n
                                  /\ s.start[b] \in Live(s, "nodes") /\ s.end[b] \in Live(s, "nodes")
                                  /\ s.owner[s.start[b]] = s.owner[b] /\ s.owner[s.end[b]] = s.owner[b]
  <2>1. \A b \in Live(s, "arcs") : b \in GA /\ b \in GC /\ b # n
    BY <1>2, Pools DEF Live
  <2>2. ArcEnds(s, {})
    BY <1>1 DEF Joined
  <2> QED BY <2>1, <2>2 DEF ArcEnds, EndOf
<1>20. \A y \in Live(s, "nodes") : y \in GN /\ y \in GC /\ y # n
  BY <1>2, Pools DEF Live
<1>21. ArcEnds(r, {})
  <2>1. SUFFICES ASSUME NEW b \in Live(r, "arcs") PROVE EndOf(r, {}, b, r.start[b]) /\ EndOf(r, {}, b, r.end[b])
    BY DEF ArcEnds
  <2>2. b \in Live(s, "arcs")
    BY <1>9
  <2>3. r.owner[b] = s.owner[b] /\ r.start[b] = s.start[b] /\ r.end[b] = s.end[b]
    BY <2>2, <1>10, <1>12, <1>19
  <2>4. r.owner[s.start[b]] = s.owner[s.start[b]] /\ r.owner[s.end[b]] = s.owner[s.end[b]]
    BY <2>2, <1>10, <1>19, <1>20
  <2> QED BY <2>2, <2>3, <2>4, <1>9, <1>19 DEF EndOf
<1>22. NodeType(s.in, s.out)
  BY <1>1 DEF Shape
<1>23. r.in = [s.in EXCEPT ![n] = <<>>] /\ r.out = [s.out EXCEPT ![n] = <<>>]
  BY <1>5, <1>6 DEF NodeMade, Beside
<1>24. \A y \in Live(s, "nodes") : Inlinks(r, y) /\ Outlinks(r, y)
  <2>1. SUFFICES ASSUME NEW y \in Live(s, "nodes") PROVE Inlinks(r, y) /\ Outlinks(r, y)
    OBVIOUS
  <2>2. Inlinks(s, y) /\ Outlinks(s, y)
    BY <1>1 DEF Joined
  <2>3. r.in[y] = s.in[y] /\ r.out[y] = s.out[y]
    BY <1>20, <1>22, <1>23 DEF NodeType
  <2> QED BY <2>2, <2>3, <1>9, <1>12 DEF Inlinks, Outlinks
<1>25. Inlinks(r, n) /\ Outlinks(r, n)
  <2>1. r.in[n] = <<>> /\ r.out[n] = <<>>
    BY <1>2, <1>22, <1>23 DEF NodeType
  <2>2. ToSet(<<>>) = {} /\ IsInjective(<<>>)
    BY DEF ToSet, IsInjective
  <2>3. {b \in Live(r, "arcs") : r.end[b] = n} = {} /\ {b \in Live(r, "arcs") : r.start[b] = n} = {}
    BY <1>9, <1>12, <1>19, <1>20
  <2> QED BY <2>1, <2>2, <2>3 DEF Inlinks, Outlinks
<1>26. Joined(r, {})
  BY <1>9, <1>21, <1>24, <1>25 DEF Joined
<1> QED BY <1>8, <1>16, <1>17, <1>18, <1>26 DEF r, n, Knit

-----------------------------------------------------------------------------
(* What changes no list *)

\* With the links back, everything is as it was.
LEMMA SameLists ==
  ASSUME NEW s, Base(s), NEW r, Shape(r), Kept(s, r), r.prev = s.prev
  PROVE  /\ Base(r) /\ \A k \in Kinds : Live(r, k) = Live(s, k)
         /\ \A g \in Gs, k \in Kinds : Still(s, r, g, k)
<1>1. /\ Base(r) /\ \A k \in Kinds : Live(r, k) = Live(s, k)
      /\ \A g \in Gs, k \in Kinds : Own(r, g, k) = Own(s, g, k) /\ Chain(r, g, k) = Chain(s, g, k)
  BY KeptLists
<1>2. \A g \in Gs, k \in Kinds : Still(s, r, g, k)
  BY <1>1 DEF Still, Kept
<1> QED BY <1>1, <1>2

\* r is s but for attributes, weights and counters.
Apart(s, r) == /\ Kept(s, r) /\ r.prev = s.prev /\ r.in = s.in /\ r.out = s.out
               /\ r.start = s.start /\ r.end = s.end

\* r has the graphs of s with other interlinks.
AsLinked(s, r) == /\ Knit(r, {}) /\ \A k \in Kinds : Live(r, k) = Live(s, k)
                  /\ \A g \in Gs, k \in Kinds : Still(s, r, g, k)
                  /\ r.owner = s.owner /\ r.name = s.name

\* Attributes, weights and counters are in nothing else.
LEMMA ApartKnit ==
  ASSUME NEW s, Knit(s, {}), NEW r, Shape(r), Apart(s, r)
  PROVE  AsLinked(s, r)
<1>1. Base(s) /\ Joined(s, {}) /\ \A g \in Gs : Back(s, Chain(s, g, "arcs"))
  BY DEF Knit
<1>2. /\ Base(r) /\ \A k \in Kinds : Live(r, k) = Live(s, k)
      /\ \A g \in Gs, k \in Kinds : Still(s, r, g, k)
  BY <1>1, SameLists DEF Apart
<1>3. "arcs" \in Kinds /\ "nodes" \in Kinds
  BY Pools
<1>4. \A g \in Gs : Back(r, Chain(r, g, "arcs"))
  BY <1>1, <1>2, <1>3, BackStill
<1>5. Live(r, "arcs") = Live(s, "arcs") /\ Live(r, "nodes") = Live(s, "nodes") /\ r.owner = s.owner
  BY <1>2, <1>3 DEF Apart, Kept
<1>6. ArcEnds(r, {})
  BY <1>1, <1>5 DEF Joined, ArcEnds, EndOf, Apart
<1>7. \A n \in Live(s, "nodes") : Inlinks(r, n) /\ Outlinks(r, n)
  BY <1>1, <1>5 DEF Joined, Inlinks, Outlinks, Apart
<1>8. Joined(r, {})
  BY <1>5, <1>6, <1>7 DEF Joined
<1> QED BY <1>2, <1>4, <1>8 DEF Knit, AsLinked, Apart, Kept

\* The arc a starts at another node of its graph.
LEMMA ArcStarts ==
  ASSUME NEW s, Knit(s, {}), NEW a \in Live(s, "arcs"), NEW n \in Live(s, "nodes"), s.owner[n] = s.owner[a]
  PROVE  LET r == ga_mv_src(s, a, n) IN AsLinked(s, r) /\ r.end = s.end
<1>k. "arcs" \in Kinds /\ "nodes" \in Kinds
  BY Pools
<1>1. Base(s) /\ Shape(s) /\ Joined(s, {}) /\ \A g \in Gs : Back(s, Chain(s, g, "arcs"))
  BY DEF Knit, Base
<1>2. a \in GA /\ a \in GC /\ n \in GN
  BY Pools DEF Live
<1>3. CASE s.start[a] = n
  <2>1. ga_mv_src(s, a, n) = s
    BY <1>3 DEF ga_mv_src
  <2>2. AsLinked(s, s)
    BY <1>1, ApartKnit DEF Apart, Kept
  <2> QED BY <2>1, <2>2
<1>4. CASE s.start[a] # n
  <2> DEFINE m == s.start[a]
             r == [s EXCEPT !.start[a] = n, !.out = Relinked(@, a, s.start[a], n)]
  <2>1. ga_mv_src(s, a, n) = r
    BY <1>4 DEF ga_mv_src
  <2>2. DOMAIN s = Fields /\ ArcType(s.start, s.end, s.weight) /\ NodeType(s.in, s.out)
    BY <1>1 DEF Shape
  <2>3. m \in Live(s, "nodes") /\ m \in GN /\ m # n
    <3>1. EndOf(s, {}, a, m)
      BY <1>1 DEF Joined, ArcEnds
    <3> QED BY <3>1, <1>4, Pools DEF EndOf, Live
  <2>4. /\ Kept(s, r) /\ r.prev = s.prev /\ r.in = s.in /\ r.end = s.end /\ DOMAIN r = Fields
        /\ r.weight = s.weight /\ r.attr = s.attr /\ r.counter = s.counter /\ r.gattr = s.gattr
        /\ r.start = [s.start EXCEPT ![a] = n]
        /\ r.out = [s.out EXCEPT ![m] = gla_unlink(@, a), ![n] = gla_link(@, a)]
    BY <2>2 DEF Kept, Fields, Relinked
  <2> HIDE DEF r, m
  <2>5. /\ r.out[n] = gla_link(s.out[n], a) /\ r.out[m] = gla_unlink(s.out[m], a)
        /\ \A y \in GN : y # n /\ y # m => r.out[y] = s.out[y]
    BY <2>2, <2>3, <2>4, <1>2 DEF NodeType
  <2>6. Outlinks(s, n) /\ Outlinks(s, m)
    BY <1>1, <2>3 DEF Joined
  <2>7. a \notin ToSet(s.out[n])
    BY <1>4, <2>6 DEF Outlinks
  <2>8. s.out[n] \in Seq(GA) /\ s.out[m] \in Seq(GA) /\ IsInjective(s.out[n]) /\ IsInjective(s.out[m])
    BY <1>2, <2>2, <2>3, <2>6 DEF NodeType, Outlinks
  <2>9. r.out[n] \in Seq(GA) /\ IsInjective(r.out[n]) /\ ToSet(r.out[n]) = ToSet(s.out[n]) \cup {a}
    BY <1>2, <2>5, <2>7, <2>8, LinkIs
  <2>10. r.out[m] \in Seq(GA) /\ IsInjective(r.out[m]) /\ ToSet(r.out[m]) = ToSet(s.out[m]) \ {a}
    BY <1>2, <2>5, <2>8, UnlinkIs
  <2>11. NodeType(r.in, r.out)
    <3>1. DOMAIN r.out = GN
      BY <2>2, <2>4 DEF NodeType
    <3>2. \A y \in GN : r.out[y] \in Seq(GA)
      BY <2>2, <2>5, <2>9, <2>10 DEF NodeType
    <3>3. \E S, f : r.out = [y \in S |-> f[y]]
      <4>1. r.out = [y \in DOMAIN r.out |-> r.out[y]]
        BY <2>2, <2>4 DEF NodeType
      <4> QED BY <4>1
    <3> QED BY <3>1, <3>2, <3>3, <2>2, <2>4 DEF NodeType
  <2>12. ArcType(r.start, r.end, r.weight)
    BY <2>2, <2>4, <1>2 DEF ArcType
  <2>13. Shape(r)
    BY <1>1, <2>4, <2>11, <2>12 DEF Shape, Kept
  <2>14. /\ Base(r) /\ \A k \in Kinds : Live(r, k) = Live(s, k)
         /\ \A g \in Gs, k \in Kinds : Still(s, r, g, k)
    BY <1>1, <2>4, <2>13, SameLists
  <2>15. \A g \in Gs : Back(r, Chain(r, g, "arcs"))
    BY <1>1, <1>k, <2>14, BackStill
  <2>16. Live(r, "arcs") = Live(s, "arcs") /\ Live(r, "nodes") = Live(s, "nodes") /\ r.owner = s.owner /\ r.name = s.name
    BY <1>k, <2>4, <2>14 DEF Kept
  <2>17. r.start[a] = n /\ \A b \in GA : b # a => r.start[b] = s.start[b]
    BY <1>2, <2>2, <2>4 DEF ArcType
  <2>18. \A b \in Live(s, "arcs") : b \in GA
    BY Pools DEF Live
  <2>19. ArcEnds(r, {})
    BY <1>1, <2>4, <2>16, <2>17, <2>18 DEF Joined, ArcEnds, EndOf
  <2>20. ASSUME NEW y \in Live(s, "nodes") PROVE Inlinks(r, y) /\ Outlinks(r, y)
    <3>1. Inlinks(s, y) /\ Outlinks(s, y) /\ y \in GN
      BY <1>1, Pools DEF Joined, Live
    <3>2. Inlinks(r, y)
      BY <3>1, <2>4, <2>16 DEF Inlinks
    <3>3. Outlinks(r, y)
      <4>1. CASE y = n
        <5>1. {b \in Live(r, "arcs") : r.start[b] = y} = {b \in Live(s, "arcs") : s.start[b] = y} \cup {a}
          BY <4>1, <2>16, <2>17, <2>18
        <5> QED BY <4>1, <5>1, <3>1, <2>9 DEF Outlinks
      <4>2. CASE y = m
        <5>1. {b \in Live(r, "arcs") : r.start[b] = y} = {b \in Live(s, "arcs") : s.start[b] = y} \ {a}
          BY <4>2, <2>3, <2>16, <2>17, <2>18
        <5> QED BY <4>2, <5>1, <3>1, <2>10 DEF Outlinks
      <4>3. CASE y # n /\ y # m
        <5>1. {b \in Live(r, "arcs") : r.start[b] = y} = {b \in Live(s, "arcs") : s.start[b] = y}
          BY <4>3, <2>16, <2>17, <2>18 DEF m
        <5> QED BY <4>3, <5>1, <3>1, <2>5 DEF Outlinks
      <4> QED BY <4>1, <4>2, <4>3
    <3> QED BY <3>2, <3>3
  <2>21. Joined(r, {})
    BY <2>16, <2>19, <2>20 DEF Joined
  <2> QED BY <2>1, <2>4, <2>14, <2>15, <2>16, <2>21 DEF Knit, AsLinked
<1> QED BY <1>3, <1>4

\* The arc a ends at another node of its graph.
LEMMA ArcEndsAt ==
  ASSUME NEW s, Knit(s, {}), NEW a \in Live(s, "arcs"), NEW n \in Live(s, "nodes"), s.owner[n] = s.owner[a]
  PROVE  LET r == ga_mv_dst(s, a, n) IN AsLinked(s, r) /\ r.start = s.start
<1>k. "arcs" \in Kinds /\ "nodes" \in Kinds
  BY Pools
<1>1. Base(s) /\ Shape(s) /\ Joined(s, {}) /\ \A g \in Gs : Back(s, Chain(s, g, "arcs"))
  BY DEF Knit, Base
<1>2. a \in GA /\ a \in GC /\ n \in GN
  BY Pools DEF Live
<1>3. CASE s.end[a] = n
  <2>1. ga_mv_dst(s, a, n) = s
    BY <1>3 DEF ga_mv_dst
  <2>2. AsLinked(s, s)
    BY <1>1, ApartKnit DEF Apart, Kept
  <2> QED BY <2>1, <2>2
<1>4. CASE s.end[a] # n
  <2> DEFINE m == s.end[a]
             r == [s EXCEPT !.end[a] = n, !.in = Relinked(@, a, s.end[a], n)]
  <2>1. ga_mv_dst(s, a, n) = r
    BY <1>4 DEF ga_mv_dst
  <2>2. DOMAIN s = Fields /\ ArcType(s.start, s.end, s.weight) /\ NodeType(s.in, s.out)
    BY <1>1 DEF Shape
  <2>3. m \in Live(s, "nodes") /\ m \in GN /\ m # n
    <3>1. EndOf(s, {}, a, m)
      BY <1>1 DEF Joined, ArcEnds
    <3> QED BY <3>1, <1>4, Pools DEF EndOf, Live
  <2>4. /\ Kept(s, r) /\ r.prev = s.prev /\ r.out = s.out /\ r.start = s.start /\ DOMAIN r = Fields
        /\ r.weight = s.weight /\ r.attr = s.attr /\ r.counter = s.counter /\ r.gattr = s.gattr
        /\ r.end = [s.end EXCEPT ![a] = n]
        /\ r.in = [s.in EXCEPT ![m] = gla_unlink(@, a), ![n] = gla_link(@, a)]
    BY <2>2 DEF Kept, Fields, Relinked
  <2> HIDE DEF r, m
  <2>5. /\ r.in[n] = gla_link(s.in[n], a) /\ r.in[m] = gla_unlink(s.in[m], a)
        /\ \A y \in GN : y # n /\ y # m => r.in[y] = s.in[y]
    BY <2>2, <2>3, <2>4, <1>2 DEF NodeType
  <2>6. Inlinks(s, n) /\ Inlinks(s, m)
    BY <1>1, <2>3 DEF Joined
  <2>7. a \notin ToSet(s.in[n])
    BY <1>4, <2>6 DEF Inlinks
  <2>8. s.in[n] \in Seq(GA) /\ s.in[m] \in Seq(GA) /\ IsInjective(s.in[n]) /\ IsInjective(s.in[m])
    BY <1>2, <2>2, <2>3, <2>6 DEF NodeType, Inlinks
  <2>9. r.in[n] \in Seq(GA) /\ IsInjective(r.in[n]) /\ ToSet(r.in[n]) = ToSet(s.in[n]) \cup {a}
    BY <1>2, <2>5, <2>7, <2>8, LinkIs
  <2>10. r.in[m] \in Seq(GA) /\ IsInjective(r.in[m]) /\ ToSet(r.in[m]) = ToSet(s.in[m]) \ {a}
    BY <1>2, <2>5, <2>8, UnlinkIs
  <2>11. NodeType(r.in, r.out)
    <3>1. DOMAIN r.in = GN
      BY <2>2, <2>4 DEF NodeType
    <3>2. \A y \in GN : r.in[y] \in Seq(GA)
      BY <2>2, <2>5, <2>9, <2>10 DEF NodeType
    <3>3. \E S, f : r.in = [y \in S |-> f[y]]
      <4>1. r.in = [y \in DOMAIN r.in |-> r.in[y]]
        BY <2>2, <2>4 DEF NodeType
      <4> QED BY <4>1
    <3> QED BY <3>1, <3>2, <3>3, <2>2, <2>4 DEF NodeType
  <2>12. ArcType(r.start, r.end, r.weight)
    BY <2>2, <2>4, <1>2 DEF ArcType
  <2>13. Shape(r)
    BY <1>1, <2>4, <2>11, <2>12 DEF Shape, Kept
  <2>14. /\ Base(r) /\ \A k \in Kinds : Live(r, k) = Live(s, k)
         /\ \A g \in Gs, k \in Kinds : Still(s, r, g, k)
    BY <1>1, <2>4, <2>13, SameLists
  <2>15. \A g \in Gs : Back(r, Chain(r, g, "arcs"))
    BY <1>1, <1>k, <2>14, BackStill
  <2>16. Live(r, "arcs") = Live(s, "arcs") /\ Live(r, "nodes") = Live(s, "nodes") /\ r.owner = s.owner /\ r.name = s.name
    BY <1>k, <2>4, <2>14 DEF Kept
  <2>17. r.end[a] = n /\ \A b \in GA : b # a => r.end[b] = s.end[b]
    BY <1>2, <2>2, <2>4 DEF ArcType
  <2>18. \A b \in Live(s, "arcs") : b \in GA
    BY Pools DEF Live
  <2>19. ArcEnds(r, {})
    BY <1>1, <2>4, <2>16, <2>17, <2>18 DEF Joined, ArcEnds, EndOf
  <2>20. ASSUME NEW y \in Live(s, "nodes") PROVE Outlinks(r, y) /\ Inlinks(r, y)
    <3>1. Outlinks(s, y) /\ Inlinks(s, y) /\ y \in GN
      BY <1>1, Pools DEF Joined, Live
    <3>2. Outlinks(r, y)
      BY <3>1, <2>4, <2>16 DEF Outlinks
    <3>3. Inlinks(r, y)
      <4>1. CASE y = n
        <5>1. {b \in Live(r, "arcs") : r.end[b] = y} = {b \in Live(s, "arcs") : s.end[b] = y} \cup {a}
          BY <4>1, <2>16, <2>17, <2>18
        <5> QED BY <4>1, <5>1, <3>1, <2>9 DEF Inlinks
      <4>2. CASE y = m
        <5>1. {b \in Live(r, "arcs") : r.end[b] = y} = {b \in Live(s, "arcs") : s.end[b] = y} \ {a}
          BY <4>2, <2>3, <2>16, <2>17, <2>18
        <5> QED BY <4>2, <5>1, <3>1, <2>10 DEF Inlinks
      <4>3. CASE y # n /\ y # m
        <5>1. {b \in Live(r, "arcs") : r.end[b] = y} = {b \in Live(s, "arcs") : s.end[b] = y}
          BY <4>3, <2>16, <2>17, <2>18 DEF m
        <5> QED BY <4>3, <5>1, <3>1, <2>5 DEF Inlinks
      <4> QED BY <4>1, <4>2, <4>3
    <3> QED BY <3>2, <3>3
  <2>21. Joined(r, {})
    BY <2>16, <2>19, <2>20 DEF Joined
  <2> QED BY <2>1, <2>4, <2>14, <2>15, <2>16, <2>21 DEF Knit, AsLinked
<1> QED BY <1>3, <1>4

-----------------------------------------------------------------------------
(* What holds between the methods: besides, the first node of a list has no *)
(* node before it, the nodes of the graphs W are linked back, and only the  *)
(* graphs of A have anything                                                *)

Tied(s, W, g) == LET q == Chain(s, g, "nodes")
                 IN  Headed(s, q) /\ (g \in W => Back(s, q))
Fit(s, A, W) == /\ Knit(s, {}) /\ \A g \in Gs : Tied(s, W, g)
             /\ \A g \in Gs \ A, k \in Kinds : Own(s, g, k) = {}

\* The parts of it.
LEMMA FitBase ==
  ASSUME NEW s, NEW A, NEW W, Fit(s, A, W)
  PROVE  Knit(s, {}) /\ Base(s) /\ Shape(s) /\ Tables(s) /\ Joined(s, {})
BY DEF Fit, Knit, Base

\* It stays when all lists are as they were,
LEMMA FitStill ==
  ASSUME NEW s, NEW A, NEW W, Fit(s, A, W), NEW r, Knit(r, {}), \A g \in Gs, k \in Kinds : Still(s, r, g, k)
  PROVE  Fit(r, A, W)
<1>1. "nodes" \in Kinds
  BY Pools
<1>2. \A g \in Gs : Tied(r, W, g)
  BY <1>1, FitBase, BackStill DEF Fit, Tied
<1>3. \A g \in Gs \ A, k \in Kinds : Own(r, g, k) = {}
  BY DEF Fit, Still
<1> QED BY <1>2, <1>3 DEF Fit

\* when interlinks change,
LEMMA FitLinked ==
  ASSUME NEW s, NEW A, NEW W, Fit(s, A, W), NEW r, AsLinked(s, r)
  PROVE  Fit(r, A, W)
BY FitStill DEF AsLinked

\* and when attributes, weights or counters do.
LEMMA FitApart ==
  ASSUME NEW s, NEW A, NEW W, Fit(s, A, W), NEW r, Shape(r), Apart(s, r)
  PROVE  Fit(r, A, W)
BY FitBase, FitLinked, ApartKnit

\* What a name of a graph leads to.
LEMMA NodeFound ==
  ASSUME NEW s, Knit(s, {}), NEW g \in Gs, NEW x, gn_get_node(s, g, x) # 0
  PROVE  LET n == gn_get_node(s, g, x) IN
         /\ n \in Own(s, g, "nodes") /\ n \in Live(s, "nodes") /\ n \in GN /\ n \in GC
         /\ s.owner[n] = g /\ s.name[n] = x
<1>1. Tables(s) /\ Shape(s) /\ "nodes" \in Kinds
  BY Pools DEF Knit, Base
<1> DEFINE n == Found(s, g, "nodes", x)
<1>2. n \in Own(s, g, "nodes") /\ s.name[n] = x
  BY <1>1, FoundIs DEF gn_get_node
<1> HIDE DEF n
<1>3. n \in Live(s, "nodes") /\ s.owner[n] = g /\ n \in GN /\ n \in GC
  BY <1>2, Pools DEF Own, Live
<1> QED BY <1>2, <1>3 DEF n, gn_get_node

\* The same for an arc.
LEMMA ArcFound ==
  ASSUME NEW s, Knit(s, {}), NEW g \in Gs, NEW x, ga_get_arc(s, g, x) # 0
  PROVE  LET a == ga_get_arc(s, g, x) IN
         /\ a \in Own(s, g, "arcs") /\ a \in Live(s, "arcs") /\ a \in GA /\ a \in GC
         /\ s.owner[a] = g /\ s.name[a] = x
<1>1. Tables(s) /\ Shape(s) /\ "arcs" \in Kinds
  BY Pools DEF Knit, Base
<1> DEFINE a == Found(s, g, "arcs", x)
<1>2. a \in Own(s, g, "arcs") /\ s.name[a] = x
  BY <1>1, FoundIs DEF ga_get_arc
<1> HIDE DEF a
<1>3. a \in Live(s, "arcs") /\ s.owner[a] = g /\ a \in GA /\ a \in GC
  BY <1>2, Pools DEF Own, Live
<1> QED BY <1>2, <1>3 DEF a, ga_get_arc

\* A name that leads nowhere is free.
LEMMA NotFound ==
  ASSUME NEW s, Knit(s, {}), NEW g \in Gs, NEW k \in Kinds, NEW x, Found(s, g, k, x) = 0
  PROVE  x \notin DOMAIN s.map[g][k]
BY FoundIs DEF Knit, Base

\* Attributes.
LEMMA SetAttrFit ==
  ASSUME NEW s, NEW A, NEW W, Fit(s, A, W), NEW c, NEW at
  PROVE  Fit(SetAttr(s, c, at), A, W)
<1> DEFINE r == [s EXCEPT !.attr[c] = at]
<1>1. Shape(s) /\ DOMAIN s = Fields
  BY FitBase DEF Shape
<1>2. DOMAIN r = Fields /\ Apart(s, r) /\ DOMAIN r.attr = DOMAIN s.attr /\ r.weight = s.weight
      /\ r.counter = s.counter /\ r.gattr = s.gattr
  BY <1>1 DEF Apart, Kept, Fields
<1> HIDE DEF r
<1>3. Shape(r)
  BY <1>1, <1>2 DEF Shape, Apart, Kept, BasicType
<1>4. Fit(r, A, W)
  BY <1>2, <1>3, FitApart
<1> QED BY <1>4 DEF SetAttr, r

\* Attributes of a graph.
LEMMA GraphAttrFit ==
  ASSUME NEW s, NEW A, NEW W, Fit(s, A, W), NEW g, NEW at
  PROVE  Fit([s EXCEPT !.gattr[g] = at], A, W)
<1> DEFINE r == [s EXCEPT !.gattr[g] = at]
<1>1. Shape(s) /\ DOMAIN s = Fields
  BY FitBase DEF Shape
<1>2. DOMAIN r = Fields /\ Apart(s, r) /\ DOMAIN r.gattr = DOMAIN s.gattr /\ r.weight = s.weight
      /\ r.counter = s.counter /\ r.attr = s.attr
  BY <1>1 DEF Apart, Kept, Fields
<1> HIDE DEF r
<1>3. Shape(r)
  BY <1>1, <1>2 DEF Shape, Apart, Kept, RestType
<1>4. Fit(r, A, W)
  BY <1>2, <1>3, FitApart
<1> QED BY <1>4 DEF r

\* Weights.
LEMMA WeightFit ==
  ASSUME NEW s, NEW A, NEW W, Fit(s, A, W), NEW w, DOMAIN w = GA
  PROVE  Fit([s EXCEPT !.weight = w], A, W)
<1> DEFINE r == [s EXCEPT !.weight = w]
<1>1. Shape(s) /\ DOMAIN s = Fields
  BY FitBase DEF Shape
<1>2. DOMAIN r = Fields /\ Apart(s, r) /\ r.gattr = s.gattr /\ r.weight = w
      /\ r.counter = s.counter /\ r.attr = s.attr
  BY <1>1 DEF Apart, Kept, Fields
<1> HIDE DEF r
<1>3. Shape(r)
  BY <1>1, <1>2 DEF Shape, Apart, Kept, ArcType
<1>4. Fit(r, A, W)
  BY <1>2, <1>3, FitApart
<1> QED BY <1>4 DEF r

\* The number of a name.
LEMMA CounterFit ==
  ASSUME NEW s, NEW A, NEW W, Fit(s, A, W), NEW g \in Gs, NEW k \in Kinds, NEW i \in Nat
  PROVE  Fit([s EXCEPT !.counter[g][k] = i], A, W)
<1> DEFINE r == [s EXCEPT !.counter[g][k] = i]
<1>1. Shape(s) /\ DOMAIN s = Fields
  BY FitBase DEF Shape
<1>2. DOMAIN r = Fields /\ Apart(s, r) /\ r.gattr = s.gattr /\ r.weight = s.weight
      /\ r.counter = [s.counter EXCEPT ![g][k] = i] /\ r.attr = s.attr
  BY <1>1 DEF Apart, Kept, Fields
<1> HIDE DEF r
<1>3. Shape(r)
  <2>1. RestType(s.counter, s.gattr)
    BY <1>1 DEF Shape
  <2>2. r.counter \in [Gs -> [Kinds -> Nat]]
    BY <2>1, <1>2 DEF RestType
  <2>3. RestType(r.counter, r.gattr)
    BY <2>1, <2>2, <1>2 DEF RestType
  <2> QED BY <1>1, <1>2, <2>3 DEF Shape, Apart, Kept
<1>4. Fit(r, A, W)
  BY <1>2, <1>3, FitApart
<1> QED BY <1>4 DEF r

-----------------------------------------------------------------------------
(* Names that change *)

\* r is s but for names, attributes, weights and counters.
Relabelled(s, r) ==
  /\ r.owner = s.owner /\ r.next = s.next /\ r.prev = s.prev /\ r.first = s.first /\ r.n = s.n
  /\ r.in = s.in /\ r.out = s.out /\ r.start = s.start /\ r.end = s.end
  /\ \A c \in GC : r.name[c] = NoName <=> s.name[c] = NoName

\* It stays when names change and the tables with them.
LEMMA RelabelFit ==
  ASSUME NEW s, NEW A, NEW W, Fit(s, A, W), NEW r, Shape(r), Relabelled(s, r), Tables(r)
  PROVE  /\ Fit(r, A, W)
         /\ \A g \in Gs, k \in Kinds : Chain(r, g, k) = Chain(s, g, k) /\ Own(r, g, k) = Own(s, g, k)
<1>k. "arcs" \in Kinds /\ "nodes" \in Kinds
  BY Pools
<1>1. Base(s) /\ Shape(s) /\ Joined(s, {}) /\ Chained(s, Lists(s)) /\ \A g \in Gs : Back(s, Chain(s, g, "arcs"))
  BY DEF Fit, Knit, Base
<1>2. \A k \in Kinds : Live(r, k) = Live(s, k)
  BY Pools DEF Live, Relabelled
<1>3. \A g \in Gs, k \in Kinds : Own(r, g, k) = Own(s, g, k)
  BY <1>2 DEF Own, Relabelled
<1>4. Chained(r, Lists(s))
  <2>1. ASSUME NEW g \in Gs, NEW k \in Kinds PROVE ListOf(r, g, k, Lists(s)[g][k])
    <3>1. ListOf(s, g, k, Lists(s)[g][k])
      BY <1>1 DEF Chained
    <3> QED BY <3>1, <1>3, ListSame DEF Relabelled
  <2>2. \A c \in GC : r.name[c] = NoName => r.next[c] = 0 /\ r.owner[c] = 0
    BY <1>1 DEF Chained, Relabelled
  <2> QED BY <1>1, <2>1, <2>2 DEF Chained
<1>5. Lists(s) = Lists(r) /\ Base(r)
  BY <1>4, ListsAre DEF Base
<1>6. ASSUME NEW g \in Gs, NEW k \in Kinds PROVE Chain(r, g, k) = Chain(s, g, k)
  BY <1>1, <1>5, ChainList
<1>7. \A g \in Gs : Back(r, Chain(r, g, "arcs"))
  BY <1>1, <1>6, <1>k DEF Back, Relabelled
<1>8. \A g \in Gs : Tied(r, W, g)
  BY <1>6, <1>k DEF Headed, Back, Tied, Fit, Relabelled
<1>9. Live(r, "arcs") = Live(s, "arcs") /\ Live(r, "nodes") = Live(s, "nodes")
  BY <1>2, <1>k
<1>10. ArcEnds(r, {})
  BY <1>1, <1>9 DEF Joined, ArcEnds, EndOf, Relabelled
<1>11. \A n \in Live(s, "nodes") : Inlinks(r, n) /\ Outlinks(r, n)
  BY <1>1, <1>9 DEF Joined, Inlinks, Outlinks, Relabelled
<1>12. Joined(r, {})
  BY <1>9, <1>10, <1>11 DEF Joined
<1>13. \A g \in Gs \ A, k \in Kinds : Own(r, g, k) = {}
  BY <1>3 DEF Fit
<1>14. Fit(r, A, W)
  BY <1>5, <1>7, <1>8, <1>12, <1>13 DEF Fit, Knit
<1> QED BY <1>3, <1>6, <1>14

\* The table of a list of which names change.
IsTable(r, g, k, f) == /\ f = [x \in DOMAIN f |-> f[x]]
                       /\ DOMAIN f = {r.name[c] : c \in Own(r, g, k)}
                       /\ \A c \in Own(r, g, k) : f[r.name[c]] = c

\* That is a table.
LEMMA TableIs ==
  ASSUME NEW r, NEW g, NEW k, IsTable(r, g, k, r.map[g][k])
  PROVE  TableOf(r, g, k)
<1> DEFINE f == r.map[g][k]
           D == {r.name[c] : c \in Own(r, g, k)}
<1>1. f = [x \in DOMAIN f |-> f[x]] /\ DOMAIN f = D /\ \A c \in Own(r, g, k) : f[r.name[c]] = c
  BY DEF IsTable
<1> HIDE DEF f
<1>2. \A x \in D : f[x] \in Own(r, g, k)
  BY <1>1
<1> HIDE DEF D
<1>3. f \in [D -> Own(r, g, k)]
  BY <1>1, <1>2
<1> QED BY <1>1, <1>3 DEF TableOf, f, D

\* r is s with c, which was in graph g, named y.
Renamed(s, r, c, g, k, y) ==
  /\ Own(r, g, k) = Own(s, g, k) /\ r.name = [s.name EXCEPT ![c] = y]
  /\ r.map[g][k] = Entered(Without(s.map[g][k], s.name[c]), y, c)

\* The table after a structure was renamed.
LEMMA RenameTable ==
  ASSUME NEW s, NEW A, NEW W, Fit(s, A, W), NEW g \in Gs, NEW k \in Kinds, NEW c \in Own(s, g, k),
         NEW y, y \notin DOMAIN s.map[g][k],
         NEW r, Renamed(s, r, c, g, k, y)
  PROVE  TableOf(r, g, k)
<1> DEFINE m == s.map[g][k]
           x == s.name[c]
           f == Entered(Without(m, x), y, c)
<1>1. Shape(s) /\ Tables(s)
  BY FitBase
<1>2. /\ DOMAIN m = {s.name[d] : d \in Own(s, g, k)}
      /\ \A d, e \in Own(s, g, k) : s.name[d] = s.name[e] => d = e
  BY <1>1, FoundIs
<1>3. \A d \in Own(s, g, k) : m[s.name[d]] = d
  BY <1>1 DEF Tables, TableOf
<1>4. \A d \in Own(s, g, k) : d \in GC
  BY Pools DEF Own, Live
<1>5. DOMAIN s.name = GC
  BY <1>1 DEF Shape, BasicType
<1>6. r.name[c] = y /\ \A d \in Own(s, g, k) : d # c => r.name[d] = s.name[d]
  BY <1>4, <1>5 DEF Renamed
<1>11. r.map[g][k] = f /\ Own(r, g, k) = Own(s, g, k)
  BY DEF Renamed
<1> HIDE DEF m, x
<1>7. DOMAIN f = (DOMAIN m \ {x}) \cup {y} /\ f = [z \in DOMAIN f |-> f[z]]
      /\ f[y] = c /\ \A z \in DOMAIN m \ {x} : z # y => f[z] = m[z]
  BY DEF Entered, Without
<1> HIDE DEF f
<1>8. {r.name[d] : d \in Own(r, g, k)} = (DOMAIN m \ {x}) \cup {y}
  BY <1>2, <1>6, <1>11 DEF x
<1>9. ASSUME NEW d \in Own(r, g, k) PROVE f[r.name[d]] = d
  <2>1. CASE d = c
    BY <2>1, <1>6, <1>7
  <2>2. CASE d # c
    <3>1. r.name[d] = s.name[d] /\ d \in Own(s, g, k)
      BY <2>2, <1>6, <1>11
    <3>2. s.name[d] \in DOMAIN m \ {x} /\ s.name[d] # y
      BY <2>2, <3>1, <1>2 DEF x, m
    <3> QED BY <3>1, <3>2, <1>3, <1>7
  <2> QED BY <2>1, <2>2
<1>10. IsTable(r, g, k, f)
  BY <1>7, <1>8, <1>9 DEF IsTable
<1> QED BY <1>10, <1>11, TableIs

\* It stays when a structure takes a free name.
LEMMA RenameFit ==
  ASSUME NEW s, NEW A, NEW W, Fit(s, A, W), NEW g \in Gs, NEW k \in Kinds, NEW c \in Own(s, g, k),
         NEW y, y # NoName, y \notin DOMAIN s.map[g][k]
  PROVE  Fit(gc_rename(s, c, k, y), A, W)
<1> DEFINE r == gc_rename(s, c, k, y)
<1>1. Shape(s) /\ Tables(s) /\ DOMAIN s = Fields
  BY FitBase DEF Shape
<1>2. c \in GC /\ s.owner[c] = g /\ s.name[c] # NoName
  BY <1>1, Owned
<1>3. /\ DOMAIN r = Fields /\ r.attr = s.attr /\ r.weight = s.weight /\ r.counter = s.counter /\ r.gattr = s.gattr
      /\ r.owner = s.owner /\ r.next = s.next /\ r.prev = s.prev /\ r.first = s.first /\ r.n = s.n
      /\ r.in = s.in /\ r.out = s.out /\ r.start = s.start /\ r.end = s.end
      /\ r.name = [s.name EXCEPT ![c] = y]
      /\ r.map = [s.map EXCEPT ![g][k] = Entered(Without(@, s.name[c]), y, c)]
  BY <1>1, <1>2 DEF gc_rename, Fields
<1> HIDE DEF r
<1>4. BasicType(s.name, s.attr, s.owner) /\ TableType(s.map)
  BY <1>1 DEF Shape
<1>5. r.name[c] = y /\ \A d \in GC : d # c => r.name[d] = s.name[d]
  BY <1>2, <1>3, <1>4 DEF BasicType
<1>6. Relabelled(s, r)
  BY <1>2, <1>3, <1>5 DEF Relabelled
<1>7. BasicType(r.name, r.attr, r.owner) /\ TableType(r.map)
  BY <1>3, <1>4 DEF BasicType, TableType
<1>8. Shape(r)
  BY <1>1, <1>3, <1>7 DEF Shape
<1>9. r.map[g][k] = Entered(Without(s.map[g][k], s.name[c]), y, c)
      /\ \A g2 \in Gs, k2 \in Kinds : g2 # g \/ k2 # k => r.map[g2][k2] = s.map[g2][k2]
  BY <1>3, <1>4 DEF TableType
<1>10. ASSUME NEW g2 \in Gs, NEW k2 \in Kinds PROVE Own(r, g2, k2) = Own(s, g2, k2)
  BY <1>6, Pools DEF Own, Live, Relabelled
<1>11. ASSUME NEW g2 \in Gs, NEW k2 \in Kinds PROVE TableOf(r, g2, k2)
  <2>1. CASE g2 = g /\ k2 = k
    <3>1. Own(r, g, k) = Own(s, g, k)
      BY <1>10
    <3>3. Renamed(s, r, c, g, k, y)
      BY <3>1, <1>3, <1>9 DEF Renamed
    <3>2. TableOf(r, g, k)
      BY <3>3, RenameTable
    <3> QED BY <2>1, <3>2
  <2>2. CASE g2 # g \/ k2 # k
    <3>1. c \notin Own(s, g2, k2)
      BY <2>2, OneOwner
    <3>2. \A d \in Own(s, g2, k2) : d \in GC
      BY Pools DEF Own, Live
    <3>3. \A d \in Own(s, g2, k2) : r.name[d] = s.name[d]
      BY <3>1, <3>2, <1>5
    <3> QED BY <2>2, <3>3, <1>1, <1>9, <1>10, TableSame DEF Tables
  <2> QED BY <2>1, <2>2
<1>12. Tables(r)
  BY <1>11 DEF Tables
<1> QED BY <1>6, <1>8, <1>12, RelabelFit DEF r

\* r is s with the names of m and n, nodes of graph g, exchanged.
Swapped(s, r, m, n, g) ==
  /\ r.name = [s.name EXCEPT ![m] = s.name[n], ![n] = s.name[m]]
  /\ r.map = [s.map EXCEPT ![g]["nodes"] = [@ EXCEPT ![s.name[m]] = n, ![s.name[n]] = m]]

\* The table after two names were exchanged.
LEMMA SwapTable ==
  ASSUME NEW s, NEW A, NEW W, Fit(s, A, W), NEW g \in Gs, NEW m \in Own(s, g, "nodes"), NEW n \in Own(s, g, "nodes"), m # n,
         NEW r, Swapped(s, r, m, n, g), Own(r, g, "nodes") = Own(s, g, "nodes")
  PROVE  TableOf(r, g, "nodes")
<1> DEFINE t == s.map[g]["nodes"]
           x == s.name[m]
           y == s.name[n]
           f == [t EXCEPT ![x] = n, ![y] = m]
<1>1. Shape(s) /\ Tables(s) /\ "nodes" \in Kinds
  BY FitBase, Pools
<1>2. /\ DOMAIN t = {s.name[d] : d \in Own(s, g, "nodes")}
      /\ \A d, e \in Own(s, g, "nodes") : s.name[d] = s.name[e] => d = e
  BY <1>1, FoundIs
<1>3. \A d \in Own(s, g, "nodes") : t[s.name[d]] = d
  BY <1>1 DEF Tables, TableOf
<1>4. \A d \in Own(s, g, "nodes") : d \in GC
  BY Pools DEF Own, Live
<1>5. DOMAIN s.name = GC /\ DOMAIN s.map = Gs /\ DOMAIN s.map[g] = Kinds
  BY <1>1 DEF Shape, BasicType, TableType
<1>6. r.name[m] = y /\ r.name[n] = x /\ \A d \in Own(s, g, "nodes") : d # m /\ d # n => r.name[d] = s.name[d]
  BY <1>4, <1>5 DEF Swapped
<1>7. r.map[g]["nodes"] = f
  BY <1>1, <1>5 DEF Swapped
<1>8. x # y /\ x \in DOMAIN t /\ y \in DOMAIN t
  BY <1>2
<1> HIDE DEF t, x, y
<1>9. DOMAIN f = DOMAIN t /\ f = [z \in DOMAIN f |-> f[z]] /\ f[x] = n /\ f[y] = m
      /\ \A z \in DOMAIN t : z # x /\ z # y => f[z] = t[z]
  BY <1>8
<1> HIDE DEF f
<1>10. {r.name[d] : d \in Own(r, g, "nodes")} = DOMAIN t
  <2>1. \A d \in Own(s, g, "nodes") : \E e \in Own(s, g, "nodes") : r.name[e] = s.name[d]
    BY <1>6 DEF x, y
  <2>2. \A d \in Own(s, g, "nodes") : \E e \in Own(s, g, "nodes") : r.name[d] = s.name[e]
    BY <1>6 DEF x, y
  <2> DEFINE O == Own(s, g, "nodes")
  <2>3. Own(r, g, "nodes") = O /\ DOMAIN t = {s.name[d] : d \in O}
    BY <1>2
  <2> HIDE DEF O
  <2>4. (\A d \in O : \E e \in O : r.name[e] = s.name[d]) /\ (\A d \in O : \E e \in O : r.name[d] = s.name[e])
    BY <2>1, <2>2 DEF O
  <2>5. {r.name[d] : d \in O} = {s.name[d] : d \in O}
    BY <2>4
  <2> QED BY <2>3, <2>5
<1>11. ASSUME NEW d \in Own(r, g, "nodes") PROVE f[r.name[d]] = d
  <2>1. CASE d = m \/ d = n
    BY <2>1, <1>6, <1>9
  <2>2. CASE d # m /\ d # n
    <3>1. r.name[d] = s.name[d] /\ d \in Own(s, g, "nodes")
      BY <2>2, <1>6
    <3>2. s.name[d] \in DOMAIN t /\ s.name[d] # x /\ s.name[d] # y
      BY <2>2, <3>1, <1>2 DEF x, y
    <3> QED BY <3>1, <3>2, <1>3, <1>9
  <2> QED BY <2>1, <2>2
<1>12. IsTable(r, g, "nodes", f)
  BY <1>9, <1>10, <1>11 DEF IsTable
<1> QED BY <1>7, <1>12, TableIs

\* It stays when two nodes change names.
LEMMA SwapFit ==
  ASSUME NEW s, NEW A, NEW W, Fit(s, A, W), NEW g \in Gs, NEW x, NEW y
  PROVE  Fit(gm_SWAP(s, g, x, y), A, W)
<1> DEFINE m == gn_get_node(s, g, x)
           n == gn_get_node(s, g, y)
<1>1. CASE m = 0 \/ n = 0 \/ m = n
  BY <1>1 DEF gm_SWAP
<1>2. CASE ~ (m = 0 \/ n = 0 \/ m = n)
  <2> DEFINE r == [s EXCEPT !.name = [@ EXCEPT ![m] = y, ![n] = x],
                            !.attr = [@ EXCEPT ![m] = s.attr[n], ![n] = s.attr[m]],
                            !.map[g].nodes = [@ EXCEPT ![x] = n, ![y] = m]]
  <2>1. gm_SWAP(s, g, x, y) = r
    BY <1>2 DEF gm_SWAP
  <2>2. /\ m \in Own(s, g, "nodes") /\ m \in GC /\ s.name[m] = x
        /\ n \in Own(s, g, "nodes") /\ n \in GC /\ s.name[n] = y
    BY <1>2, FitBase, NodeFound
  <2>3. m # n
    BY <1>2
  <2> HIDE DEF m, n
  <2>4. Shape(s) /\ Tables(s) /\ DOMAIN s = Fields
    BY FitBase DEF Shape
  <2>5. BasicType(s.name, s.attr, s.owner) /\ TableType(s.map)
    BY <2>4 DEF Shape
  <2>6. /\ DOMAIN r = Fields /\ r.weight = s.weight /\ r.counter = s.counter /\ r.gattr = s.gattr
        /\ r.owner = s.owner /\ r.next = s.next /\ r.prev = s.prev /\ r.first = s.first /\ r.n = s.n
        /\ r.in = s.in /\ r.out = s.out /\ r.start = s.start /\ r.end = s.end
        /\ DOMAIN r.attr = DOMAIN s.attr
    BY <2>4 DEF Fields
  <2>7. Swapped(s, r, m, n, g)
    BY <2>2, <2>4 DEF Fields, Swapped
  <2> HIDE DEF r
  <2>8. s.name[m] # NoName /\ s.name[n] # NoName /\ "nodes" \in Kinds
    BY <2>2, Pools DEF Own, Live
  <2>9. r.name[m] = s.name[n] /\ r.name[n] = s.name[m] /\ \A d \in GC : d # m /\ d # n => r.name[d] = s.name[d]
    BY <2>2, <2>3, <2>5, <2>7 DEF BasicType, Swapped
  <2>10. Relabelled(s, r)
    BY <2>6, <2>8, <2>9 DEF Relabelled
  <2>11. BasicType(r.name, r.attr, r.owner)
    BY <2>5, <2>6, <2>7 DEF BasicType, Swapped
  <2>12. TableType(r.map) /\ \A g2 \in Gs, k2 \in Kinds : g2 # g \/ k2 # "nodes" => r.map[g2][k2] = s.map[g2][k2]
    BY <2>5, <2>7, <2>8 DEF TableType, Swapped
  <2>13. Shape(r)
    BY <2>4, <2>6, <2>11, <2>12 DEF Shape
  <2>14. ASSUME NEW g2 \in Gs, NEW k2 \in Kinds PROVE Own(r, g2, k2) = Own(s, g2, k2)
    BY <2>10, Pools DEF Own, Live, Relabelled
  <2>15. ASSUME NEW g2 \in Gs, NEW k2 \in Kinds PROVE TableOf(r, g2, k2)
    <3>1. CASE g2 = g /\ k2 = "nodes"
      BY <3>1, <2>2, <2>3, <2>7, <2>14, SwapTable
    <3>2. CASE g2 # g \/ k2 # "nodes"
      <4>1. m \notin Own(s, g2, k2) /\ n \notin Own(s, g2, k2)
        BY <3>2, <2>2, <2>8, OneOwner
      <4>2. \A d \in Own(s, g2, k2) : d \in GC
        BY Pools DEF Own, Live
      <4>3. \A d \in Own(s, g2, k2) : r.name[d] = s.name[d]
        BY <4>1, <4>2, <2>9
      <4> QED BY <3>2, <4>3, <2>4, <2>12, <2>14, TableSame DEF Tables
    <3> QED BY <3>1, <3>2
  <2>16. Tables(r)
    BY <2>15 DEF Tables
  <2> QED BY <2>1, <2>10, <2>13, <2>16, RelabelFit
<1> QED BY <1>1, <1>2

-----------------------------------------------------------------------------
(* The methods on an arc *)

\* It stays when an arc starts at another node of its graph,
LEMMA StartFit ==
  ASSUME NEW s, NEW A, NEW W, Fit(s, A, W), NEW g \in Gs, NEW a \in Own(s, g, "arcs"), NEW n \in Own(s, g, "nodes")
  PROVE  LET r == ga_mv_src(s, a, n) IN
         Fit(r, A, W) /\ a \in Own(r, g, "arcs") /\ r.end = s.end /\ \A k \in Kinds : Own(r, g, k) = Own(s, g, k)
<1> DEFINE r == ga_mv_src(s, a, n)
<1>1. "nodes" \in Kinds /\ "arcs" \in Kinds
  BY Pools
<1>2. a \in Live(s, "arcs") /\ n \in Live(s, "nodes") /\ s.owner[n] = s.owner[a]
  BY DEF Own
<1>3. AsLinked(s, r) /\ r.end = s.end
  BY <1>2, FitBase, ArcStarts
<1> HIDE DEF r
<1>4. Fit(r, A, W)
  BY <1>3, FitLinked
<1>5. \A k \in Kinds : Own(r, g, k) = Own(s, g, k)
  BY <1>3 DEF AsLinked, Still
<1> QED BY <1>1, <1>3, <1>4, <1>5 DEF r

\* and when it ends at one.
LEMMA EndFit ==
  ASSUME NEW s, NEW A, NEW W, Fit(s, A, W), NEW g \in Gs, NEW a \in Own(s, g, "arcs"), NEW n \in Own(s, g, "nodes")
  PROVE  Fit(ga_mv_dst(s, a, n), A, W)
<1> DEFINE r == ga_mv_dst(s, a, n)
<1>2. a \in Live(s, "arcs") /\ n \in Live(s, "nodes") /\ s.owner[n] = s.owner[a]
  BY DEF Own
<1>3. AsLinked(s, r)
  BY <1>2, FitBase, ArcEndsAt
<1> HIDE DEF r
<1>4. Fit(r, A, W)
  BY <1>3, FitLinked
<1> QED BY <1>4 DEF r

\* An arc moved to other nodes of its graph.
LEMMA MoveFit ==
  ASSUME NEW s, NEW A, NEW W, Fit(s, A, W), NEW g \in Gs, NEW a \in Own(s, g, "arcs"),
         NEW m \in Own(s, g, "nodes"), NEW n \in Own(s, g, "nodes")
  PROVE  Fit(ga_mv_dst(ga_mv_src(s, a, m), a, n), A, W)
<1> DEFINE r == ga_mv_src(s, a, m)
<1>1. Fit(r, A, W) /\ a \in Own(r, g, "arcs") /\ \A k \in Kinds : Own(r, g, k) = Own(s, g, k)
  BY StartFit
<1> HIDE DEF r
<1>2. Fit(ga_mv_dst(r, a, n), A, W)
  BY <1>1, EndFit, Pools
<1> QED BY <1>2 DEF r

\* move, move-source, move-target and flip, with any names.
LEMMA ArcMethodsFit ==
  ASSUME NEW s, NEW A, NEW W, Fit(s, A, W), NEW g \in Gs, NEW x, NEW y, NEW z
  PROVE  /\ Fit(gm_arc_MOVE(s, g, x, y, z), A, W) /\ Fit(gm_arc_MOVE_SRC(s, g, x, y), A, W)
         /\ Fit(gm_arc_MOVE_TARG(s, g, x, y), A, W) /\ Fit(gm_arc_FLIP(s, g, x), A, W)
<1> DEFINE a == ga_get_arc(s, g, x)
           m == gn_get_node(s, g, y)
           n == gn_get_node(s, g, z)
<1>0. Knit(s, {}) /\ Joined(s, {})
  BY FitBase
<1>1. a # 0 => a \in Own(s, g, "arcs") /\ a \in Live(s, "arcs") /\ s.owner[a] = g
  BY <1>0, ArcFound
<1>2. m # 0 => m \in Own(s, g, "nodes")
  BY <1>0, NodeFound
<1>3. n # 0 => n \in Own(s, g, "nodes")
  BY <1>0, NodeFound
<1>4. /\ gm_arc_MOVE(s, g, x, y, z) = IF a = 0 \/ m = 0 \/ n = 0 THEN s ELSE ga_mv_dst(ga_mv_src(s, a, m), a, n)
      /\ gm_arc_MOVE_SRC(s, g, x, y) = IF a = 0 \/ m = 0 THEN s ELSE ga_mv_src(s, a, m)
      /\ gm_arc_MOVE_TARG(s, g, x, y) = IF a = 0 \/ m = 0 THEN s ELSE ga_mv_dst(s, a, m)
      /\ gm_arc_FLIP(s, g, x) = IF a = 0 THEN s ELSE IF s.start[a] = s.end[a] THEN s
                                ELSE ga_mv_dst(ga_mv_src(s, a, s.end[a]), a, s.start[a])
  BY DEF gm_arc_MOVE, gm_arc_MOVE_SRC, gm_arc_MOVE_TARG, gm_arc_FLIP
<1> HIDE DEF a, m, n
<1>5. Fit(gm_arc_MOVE(s, g, x, y, z), A, W)
  <2>1. a # 0 /\ m # 0 /\ n # 0 => Fit(ga_mv_dst(ga_mv_src(s, a, m), a, n), A, W)
    BY <1>1, <1>2, <1>3, MoveFit
  <2> QED BY <2>1, <1>4
<1>6. Fit(gm_arc_MOVE_SRC(s, g, x, y), A, W)
  <2>1. a # 0 /\ m # 0 => Fit(ga_mv_src(s, a, m), A, W)
    BY <1>1, <1>2, StartFit
  <2> QED BY <2>1, <1>4
<1>7. Fit(gm_arc_MOVE_TARG(s, g, x, y), A, W)
  <2>1. a # 0 /\ m # 0 => Fit(ga_mv_dst(s, a, m), A, W)
    BY <1>1, <1>2, EndFit
  <2> QED BY <2>1, <1>4
<1>8. Fit(gm_arc_FLIP(s, g, x), A, W)
  <2>1. CASE a = 0
    BY <2>1, <1>4
  <2>2. CASE a # 0
    <3>1. EndOf(s, {}, a, s.start[a]) /\ EndOf(s, {}, a, s.end[a])
      BY <2>2, <1>0, <1>1 DEF Joined, ArcEnds
    <3>2. s.start[a] \in Own(s, g, "nodes") /\ s.end[a] \in Own(s, g, "nodes")
      BY <3>1, <2>2, <1>1 DEF EndOf, Own
    <3>3. Fit(ga_mv_dst(ga_mv_src(s, a, s.end[a]), a, s.start[a]), A, W)
      BY <3>2, <2>2, <1>1, MoveFit
    <3> QED BY <3>3, <1>4
  <2> QED BY <2>1, <2>2
<1> QED BY <1>5, <1>6, <1>7, <1>8

\* setweight, unsetweight and setunweighted, with any names.
LEMMA WeightMethodsFit ==
  ASSUME NEW s, NEW A, NEW W, Fit(s, A, W), NEW g \in Gs, NEW x, NEW w
  PROVE  Fit(gm_arc_SETWEIGHT(s, g, x, w), A, W) /\ Fit(gm_arc_UNSETWEIGH(s, g, x), A, W) /\ Fit(gm_arc_SETUNWEIGH(s, g, w), A, W)
<1>1. Shape(s) /\ DOMAIN s = Fields /\ DOMAIN s.weight = GA
  BY FitBase DEF Shape, ArcType
<1>2. ASSUME NEW v PROVE Fit(gm_arc_SETWEIGHT(s, g, x, v), A, W)
  <2> DEFINE a == ga_get_arc(s, g, x)
             r == [s EXCEPT !.weight[a] = v]
             u == [s.weight EXCEPT ![a] = v]
  <2>1. r = [s EXCEPT !.weight = u]
    BY <1>1 DEF Fields
  <2>2. DOMAIN u = GA
    BY <1>1
  <2> HIDE DEF u, r
  <2>3. Fit(r, A, W)
    BY <2>1, <2>2, WeightFit
  <2> QED BY <2>3 DEF gm_arc_SETWEIGHT, r
<1>3. Fit(gm_arc_SETUNWEIGH(s, g, w), A, W)
  <2> DEFINE u == [a \in GA |-> IF a \in ToSet(Chain(s, g, "arcs")) /\ s.weight[a] = NoWeight
                                THEN w ELSE s.weight[a]]
  <2>1. gm_arc_SETUNWEIGH(s, g, w) = [s EXCEPT !.weight = u]
    BY DEF gm_arc_SETUNWEIGH
  <2>2. DOMAIN u = GA
    OBVIOUS
  <2> HIDE DEF u
  <2> QED BY <2>1, <2>2, WeightFit
<1> QED BY <1>2, <1>3 DEF gm_arc_UNSETWEIGH

-----------------------------------------------------------------------------
(* The methods that insert *)

\* A graph of which nothing changed has its table.
LEMMA StillTable ==
  ASSUME NEW s, Tables(s), NEW r, Tables(r), NEW g \in Gs, NEW k \in Kinds, Still(s, r, g, k)
  PROVE  r.map[g][k] = s.map[g][k]
<1> DEFINE D == {s.name[c] : c \in Own(s, g, k)}
           e == {r.name[c] : c \in Own(r, g, k)}
           m == s.map[g][k]
           l == r.map[g][k]
<1>1. Own(r, g, k) = Own(s, g, k) /\ \A c \in Own(s, g, k) : r.name[c] = s.name[c]
  BY DEF Still
<1>2. D = e
  BY <1>1
<1>3. m \in [D -> Own(s, g, k)] /\ \A c \in Own(s, g, k) : m[s.name[c]] = c
  BY DEF Tables, TableOf
<1>4. l \in [e -> Own(r, g, k)] /\ \A c \in Own(r, g, k) : l[r.name[c]] = c
  BY DEF Tables, TableOf
<1> HIDE DEF m, l
<1>5. \A x \in D : l[x] = m[x]
  BY <1>1, <1>3, <1>4
<1> HIDE DEF D, e
<1>6. l = m
  BY <1>2, <1>3, <1>4, <1>5
<1> QED BY <1>6 DEF l, m

\* The names after one more.
LEMMA NamesMore ==
  ASSUME NEW s, Tables(s), NEW r, Tables(r), NEW g \in Gs, NEW k \in Kinds, NEW c, NEW x,
         Own(r, g, k) = Own(s, g, k) \cup {c}, r.name[c] = x,
         \A d \in Own(s, g, k) : r.name[d] = s.name[d]
  PROVE  DOMAIN r.map[g][k] = DOMAIN s.map[g][k] \cup {x}
<1>1. DOMAIN s.map[g][k] = {s.name[d] : d \in Own(s, g, k)} /\ DOMAIN r.map[g][k] = {r.name[d] : d \in Own(r, g, k)}
  BY FoundIs
<1>2. {r.name[d] : d \in Own(r, g, k)} = {s.name[d] : d \in Own(s, g, k)} \cup {x}
  OBVIOUS
<1> QED BY <1>1, <1>2

\* The names after a node came.
LEMMA NodeNames ==
  ASSUME NEW s, Knit(s, {}), NEW r, Knit(r, {}), NEW n, NEW g \in Gs, NEW x, NodeCame(s, r, n, g, x)
  PROVE  DOMAIN r.map[g]["nodes"] = DOMAIN s.map[g]["nodes"] \cup {x}
<1>1. Tables(s) /\ Tables(r) /\ "nodes" \in Kinds
  BY Pools DEF Knit, Base
<1>2. \A d \in Own(s, g, "nodes") : d \in GC /\ d # n
  BY Pools DEF Own, Live, NodeCame
<1>3. \A d \in Own(s, g, "nodes") : r.name[d] = s.name[d]
  BY <1>2 DEF NodeCame
<1> QED BY <1>1, <1>3, NamesMore DEF NodeCame

\* The names after an arc came.
LEMMA ArcNames ==
  ASSUME NEW s, Knit(s, {}), NEW r, Knit(r, {}), NEW a, NEW g \in Gs, NEW x, ArcCame(s, r, a, g, x)
  PROVE  DOMAIN r.map[g]["arcs"] = DOMAIN s.map[g]["arcs"] \cup {x}
<1>1. Tables(s) /\ Tables(r) /\ "arcs" \in Kinds
  BY Pools DEF Knit, Base
<1>2. \A d \in Own(s, g, "arcs") : d \in GC /\ d # a
  BY Pools DEF Own, Live, ArcCame
<1>3. \A d \in Own(s, g, "arcs") : r.name[d] = s.name[d]
  BY <1>2 DEF ArcCame
<1> QED BY <1>1, <1>3, NamesMore DEF ArcCame

\* It stays when a node comes into a graph the program has,
LEMMA NodeFit ==
  ASSUME NEW s, NEW A, NEW W, Fit(s, A, W), NEW g \in Gs, g \in A, NEW i \in Nat \ {0}, HasRoom(s, "nodes", i),
         NEW x, x # NoName, x \notin DOMAIN s.map[g]["nodes"]
  PROVE  LET r == gn_new(s, g, x) IN
         /\ Fit(r, A, W) /\ HasRoom(r, "nodes", i - 1) /\ NodeCame(s, r, Fresh(s, "nodes"), g, x)
         /\ DOMAIN r.map[g]["nodes"] = DOMAIN s.map[g]["nodes"] \cup {x}
<1> DEFINE r == gn_new(s, g, x)
           n == Fresh(s, "nodes")
<1>k. "nodes" \in Kinds /\ "arcs" \in Kinds /\ Kinds = {"nodes", "arcs"}
  BY Pools
<1>1. Knit(r, {}) /\ NodeCame(s, r, n, g, x) /\ HasRoom(r, "nodes", i - 1)
  BY FitBase, NodeComes
<1> HIDE DEF r, n
<1>2. \A g2 \in Gs : Tied(r, W, g2)
  <2>1. SUFFICES ASSUME NEW g2 \in Gs PROVE Tied(r, W, g2)
    OBVIOUS
  <2>2. CASE g2 = g
    BY <2>2, <1>1 DEF NodeCame, Fit, Tied
  <2>3. CASE g2 # g
    BY <2>3, <1>1, <1>k, FitBase, BackStill DEF NodeCame, Fit, Tied
  <2> QED BY <2>2, <2>3
<1>3. \A g2 \in Gs \ A, k \in Kinds : Own(r, g2, k) = {}
  <2>1. SUFFICES ASSUME NEW g2 \in Gs \ A, NEW k \in Kinds PROVE Own(r, g2, k) = {}
    OBVIOUS
  <2>2. Still(s, r, g2, k)
    BY <1>1, <1>k DEF NodeCame
  <2> QED BY <2>2 DEF Still, Fit
<1>4. DOMAIN r.map[g]["nodes"] = DOMAIN s.map[g]["nodes"] \cup {x}
  BY <1>1, FitBase, NodeNames
<1> QED BY <1>1, <1>2, <1>3, <1>4 DEF Fit, r, n

\* and when an arc does.
LEMMA ArcFit ==
  ASSUME NEW s, NEW A, NEW W, Fit(s, A, W), NEW g \in Gs, g \in A, NEW i \in Nat \ {0}, HasRoom(s, "arcs", i),
         NEW n \in Own(s, g, "nodes"), NEW m \in Own(s, g, "nodes"),
         NEW x, x # NoName, x \notin DOMAIN s.map[g]["arcs"]
  PROVE  LET r == ga_new(s, g, x, n, m) IN
         /\ Fit(r, A, W) /\ HasRoom(r, "arcs", i - 1) /\ ArcCame(s, r, Fresh(s, "arcs"), g, x)
         /\ DOMAIN r.map[g]["arcs"] = DOMAIN s.map[g]["arcs"] \cup {x}
<1> DEFINE r == ga_new(s, g, x, n, m)
           a == Fresh(s, "arcs")
<1>k. "nodes" \in Kinds /\ "arcs" \in Kinds /\ Kinds = {"nodes", "arcs"}
  BY Pools
<1>1. Knit(r, {}) /\ ArcCame(s, r, a, g, x) /\ HasRoom(r, "arcs", i - 1)
  BY FitBase, ArcComes
<1> HIDE DEF r, a
<1>2. \A g2 \in Gs : Tied(r, W, g2)
  BY <1>1, <1>k, FitBase, BackStill DEF ArcCame, Fit, Tied
<1>3. \A g2 \in Gs \ A, k \in Kinds : Own(r, g2, k) = {}
  <2>1. SUFFICES ASSUME NEW g2 \in Gs \ A, NEW k \in Kinds PROVE Own(r, g2, k) = {}
    OBVIOUS
  <2>2. Still(s, r, g2, k)
    BY <1>1, <1>k DEF ArcCame
  <2> QED BY <2>2 DEF Still, Fit
<1>4. DOMAIN r.map[g]["arcs"] = DOMAIN s.map[g]["arcs"] \cup {x}
  BY <1>1, FitBase, ArcNames
<1> QED BY <1>1, <1>2, <1>3, <1>4 DEF Fit, r, a

\* The number a generator stops at.
LEMMA NextIs ==
  ASSUME NEW s, Shape(s), NEW g \in Gs, NEW k \in Kinds
  PROVE  /\ NextNumber(s, g, k) \in Nat \ {0}
         /\ NextNumber(s, g, k) <= Len(Generated[k]) =>
              Generated[k][NextNumber(s, g, k)] \notin DOMAIN s.map[g][k]
<1> DEFINE l == Len(Generated[k])
           c == s.counter[g][k]
           u == Max({l, c})
           free(i) == i > l \/ Generated[k][i] \notin DOMAIN s.map[g][k]
           T == {i \in c + 1 .. u + 1 : free(i)}
<1>1. l \in Nat
  BY StoreAssumption DEF Kinds
<1>2. c \in Nat
  BY DEF Shape, RestType
<1> HIDE DEF l, c
<1>3. u \in Nat /\ u >= l /\ u >= c
  <2>1. \E x \in {l, c} : \A y \in {l, c} : x >= y
    BY <1>1, <1>2
  <2>2. u \in {l, c} /\ \A y \in {l, c} : u >= y
    BY <2>1 DEF Max
  <2> QED BY <2>2, <1>1, <1>2
<1> HIDE DEF u
<1>4. u + 1 \in c + 1 .. u + 1 /\ u + 1 > l
  BY <1>1, <1>2, <1>3
<1>5. T \subseteq Nat /\ T # {}
  BY <1>2, <1>3, <1>4
<1>6. Min(T) \in T
  BY <1>5, MinIs
<1>7. NextNumber(s, g, k) = Min(T)
  BY DEF NextNumber, l, c, u
<1>8. \A i \in T : i \in Nat \ {0} /\ (i <= l => Generated[k][i] \notin DOMAIN s.map[g][k])
  BY <1>1, <1>2, <1>3
<1> HIDE DEF T
<1> QED BY <1>6, <1>7, <1>8 DEF l

\* r is s with the number of a free name.
Numbered(s, r, A, W, g, k, x) ==
  /\ Fit(r, A, W) /\ x # NoName /\ x \notin DOMAIN r.map[g][k]
  /\ \A g2 \in Gs, k2 \in Kinds : Own(r, g2, k2) = Own(s, g2, k2)
  /\ \A k2 \in Kinds, i \in Nat : HasRoom(s, k2, i) => HasRoom(r, k2, i)

\* A name is made up.
LEMMA NewNumber ==
  ASSUME NEW s, NEW A, NEW W, Fit(s, A, W), NEW g \in Gs, NEW k \in Kinds, CanGenerate(s, g, k),
         NEW r, r = [s EXCEPT !.counter[g][k] = NextNumber(s, g, k)]
  PROVE  Numbered(s, r, A, W, g, k, Generated[k][r.counter[g][k]])
<1>1. Shape(s) /\ DOMAIN s = Fields
  BY FitBase DEF Shape
<1> DEFINE i == NextNumber(s, g, k)
<1>2. i \in Nat \ {0} /\ i <= Len(Generated[k]) /\ Generated[k][i] \notin DOMAIN s.map[g][k]
  BY <1>1, NextIs DEF CanGenerate
<1> HIDE DEF i
<1>3. r = [s EXCEPT !.counter[g][k] = i]
  BY DEF i
<1>4. Fit(r, A, W)
  BY <1>2, <1>3, CounterFit
<1>5. RestType(s.counter, s.gattr)
  BY <1>1 DEF Shape
<1>6. r.counter[g][k] = i /\ r.name = s.name /\ r.owner = s.owner /\ r.map = s.map
  BY <1>1, <1>3, <1>5 DEF RestType, Fields
<1>7. Generated[k][i] \in NodeName \cup ArcName
  BY <1>2, StoreAssumption DEF Kinds
<1>8. Generated[k][i] # NoName
  BY <1>7, StoreAssumption
<1>9. \A g2 \in Gs, k2 \in Kinds : Own(r, g2, k2) = Own(s, g2, k2)
  BY <1>6 DEF Own, Live
<1>10. \A k2 \in Kinds, j \in Nat : HasRoom(s, k2, j) => HasRoom(r, k2, j)
  BY <1>6 DEF HasRoom, Live
<1> QED BY <1>2, <1>4, <1>6, <1>8, <1>9, <1>10 DEF Numbered

\* arc insert, with a name or without.
LEMMA ArcInsertFit ==
  ASSUME NEW s, NEW A, NEW W, Fit(s, A, W), NEW g \in Gs, g \in A, HasRoom(s, "arcs", 1), NEW x, NEW y,
         NEW q \in {<<>>} \cup ArcLists, q = <<>> => CanGenerate(s, g, "arcs")
  PROVE  Fit(gm_arc_INSERT(s, g, x, y, q), A, W)
<1> DEFINE n == gn_get_node(s, g, x)
           m == gn_get_node(s, g, y)
           made == g_newarcname(s, g)
           z == Generated["arcs"][made.counter[g]["arcs"]]
<1>0. Knit(s, {}) /\ "arcs" \in Kinds /\ "nodes" \in Kinds
  BY FitBase, Pools
<1>1. n # 0 => n \in Own(s, g, "nodes")
  BY <1>0, NodeFound
<1>2. m # 0 => m \in Own(s, g, "nodes")
  BY <1>0, NodeFound
<1>3. gm_arc_INSERT(s, g, x, y, q) =
        IF n = 0 \/ m = 0 THEN s
        ELSE IF q = <<>> THEN ga_new(made, g, z, n, m)
        ELSE IF ga_get_arc(s, g, q[1]) # 0 THEN s ELSE ga_new(s, g, q[1], n, m)
  BY DEF gm_arc_INSERT
<1> HIDE DEF n, m
<1>4. CASE n = 0 \/ m = 0
  BY <1>3, <1>4
<1>5. CASE n # 0 /\ m # 0 /\ q = <<>>
  <2>1. made = [s EXCEPT !.counter[g]["arcs"] = NextNumber(s, g, "arcs")]
    BY DEF g_newarcname
  <2> HIDE DEF made
  <2>4. CanGenerate(s, g, "arcs")
    BY <1>5
  <2>5. Numbered(s, made, A, W, g, "arcs", z)
    BY <2>1, <2>4, <1>0, NewNumber
  <2> HIDE DEF z
  <2>2. /\ Fit(made, A, W) /\ z # NoName /\ z \notin DOMAIN made.map[g]["arcs"]
        /\ Own(made, g, "nodes") = Own(s, g, "nodes") /\ HasRoom(made, "arcs", 1)
    BY <2>5, <1>0 DEF Numbered
  <2>3. Fit(ga_new(made, g, z, n, m), A, W)
    BY <2>2, <1>1, <1>2, <1>5, ArcFit
  <2> QED BY <2>3, <1>3, <1>5
<1>6. CASE n # 0 /\ m # 0 /\ q # <<>>
  <2>1. q \in ArcLists
    BY <1>6
  <2>2. q[1] \in ArcName
    BY <2>1 DEF ArcLists
  <2>3. q[1] # NoName
    BY <2>2, StoreAssumption
  <2> DEFINE w == q[1]
  <2> HIDE DEF w
  <2>4. ga_get_arc(s, g, w) = 0 => w \notin DOMAIN s.map[g]["arcs"]
    BY <1>0, NotFound DEF ga_get_arc
  <2>5. ga_get_arc(s, g, w) = 0 => Fit(ga_new(s, g, w, n, m), A, W)
    BY <2>3, <2>4, <1>1, <1>2, <1>6, ArcFit DEF w
  <2> QED BY <2>5, <1>3, <1>6 DEF w
<1> QED BY <1>4, <1>5, <1>6

\* Nodes made one after the other.
NodesMade(s, q, g) == FoldLeft(LAMBDA r, x : gn_new(r, g, x), s, q)

\* The states between two nodes made.
LEMMA FoldNodes ==
  ASSUME NEW base, NEW q, NEW n \in Nat, DOMAIN q = 1 .. n, NEW g
  PROVE  \E f : /\ f[0] = base /\ f[n] = NodesMade(base, q, g)
                /\ \A k \in 1 .. n : f[k] = gn_new(f[k - 1], g, q[k])
<1> DEFINE apply(s, x) == gn_new(s, g, x)
           step(f, T) == IF T = {} THEN base ELSE apply(f[T \ {Max(T)}], q[Max(T)])
           fold == CHOOSE f : f = [T \in SUBSET (1 .. n) |-> step(f, T)]
           Bad == {k \in 0 .. n : ~ \E f : f = [T \in SUBSET (1 .. k) |-> step(f, T)]}
<1>1. NodesMade(base, q, g) = fold[1 .. n]
  BY DEF NodesMade, FoldLeft, MapThenFoldSet
<1> HIDE DEF apply
<1>2. Bad = {}
  <2>1. SUFFICES ASSUME Bad # {} PROVE FALSE
    OBVIOUS
  <2>2. PICK k \in Bad : \A j \in Bad : k <= j
    <3>1. Bad \subseteq Nat
      OBVIOUS
    <3> HIDE DEF Bad
    <3> QED BY <2>1, <3>1, LeastOfNat
  <2>3. k \in 0 .. n /\ (~ \E f : f = [T \in SUBSET (1 .. k) |-> step(f, T)])
    BY <2>2
  <2>4. k # 0
    <3> DEFINE e == [T \in SUBSET (1 .. 0) |-> base]
    <3>1. \A T \in SUBSET (1 .. 0) : T = {}
      OBVIOUS
    <3>2. e = [T \in SUBSET (1 .. 0) |-> step(e, T)]
      BY <3>1
    <3> QED BY <2>3, <3>2
  <2>5. k - 1 \in 0 .. n /\ k - 1 \notin Bad
    <3>1. k - 1 \in 0 .. n /\ ~ (k <= k - 1)
      BY <2>3, <2>4
    <3> HIDE DEF Bad
    <3> QED BY <2>2, <3>1
  <2>6. PICK f : f = [T \in SUBSET (1 .. (k - 1)) |-> step(f, T)]
    BY <2>5
  <2> DEFINE m == [T \in SUBSET (1 .. k) |-> IF k \in T THEN apply(f[T \ {k}], q[k]) ELSE f[T]]
  <2>7. ASSUME NEW T \in SUBSET (1 .. k)
        PROVE  m[T] = step(m, T)
    <3>0. T \in SUBSET Nat /\ k \in Nat \ {0} /\ T \subseteq 0 .. k
      BY <2>3, <2>4
    <3>1. CASE k \in T
      <4>1. Max(T) = k
        BY <3>0, <3>1, MaxIs
      <4>2. T \ {k} \in SUBSET (1 .. k) /\ k \notin T \ {k} /\ T # {}
        BY <3>1
      <4> QED BY <3>1, <4>1, <4>2
    <3>2. CASE k \notin T
      <4>1. T \in SUBSET (1 .. (k - 1))
        BY <3>0, <3>2
      <4>2. m[T] = f[T]
        BY <3>2
      <4>3. f[T] = step(f, T)
        <5> HIDE DEF step
        <5> QED BY <4>1, <2>6
      <4>4. T # {} => T \ {Max(T)} \in SUBSET (1 .. k) /\ k \notin T \ {Max(T)}
        BY <3>2
      <4> QED BY <4>2, <4>3, <4>4
    <3> QED BY <3>1, <3>2
  <2>8. m = [T \in SUBSET (1 .. k) |-> step(m, T)]
    <3> HIDE DEF step
    <3> QED BY <2>7
  <2> QED BY <2>3, <2>8
<1>3. n \in 0 .. n
  OBVIOUS
<1>4. \E f : f = [T \in SUBSET (1 .. n) |-> step(f, T)]
  <2> HIDE DEF step
  <2> QED BY <1>2, <1>3
<1>5. fold = [T \in SUBSET (1 .. n) |-> step(fold, T)]
  <2> HIDE DEF step
  <2> QED BY <1>4
<1>6. \A T \in SUBSET (1 .. n) : fold[T] = step(fold, T)
  <2> HIDE DEF fold, step
  <2> QED BY <1>5
<1> HIDE DEF fold
<1> DEFINE r == [k \in 0 .. n |-> fold[1 .. k]]
<1>7. r[0] = base
  <2>1. 1 .. 0 = {} /\ 0 \in 0 .. n
    OBVIOUS
  <2> QED BY <2>1, <1>6
<1>8. ASSUME NEW k \in 1 .. n
      PROVE  r[k] = apply(r[k - 1], q[k])
  <2>1. Max(1 .. k) = k
    BY MaxSegment
  <2>2. (1 .. k) \ {k} = 1 .. (k - 1) /\ 1 .. k \in SUBSET (1 .. n) /\ 1 .. k # {} /\ k \in 0 .. n /\ k - 1 \in 0 .. n
    OBVIOUS
  <2>3. fold[1 .. k] = apply(fold[1 .. (k - 1)], q[k])
    BY <2>1, <2>2, <1>6
  <2> QED BY <2>2, <2>3
<1>9. r[n] = fold[1 .. n]
  OBVIOUS
<1> HIDE DEF r
<1>10. \A k \in 1 .. n : r[k] = apply(r[k - 1], q[k])
  BY <1>8
<1> QED BY <1>1, <1>7, <1>9, <1>10 DEF apply


\* r is s with nodes named as in X in graph g.
NodesCame(s, r, A, W, g, X) ==
  /\ Fit(r, A, W) /\ DOMAIN r.map[g]["nodes"] = DOMAIN s.map[g]["nodes"] \cup X
  /\ Live(r, "arcs") = Live(s, "arcs")
  /\ \A g2 \in Gs : Still(s, r, g2, "arcs") /\ (g2 # g => Still(s, r, g2, "nodes"))

\* One node more.
LEMMA NodesMore ==
  ASSUME NEW s, NEW r, NEW A, NEW W, NEW g \in Gs, g \in A, NEW X, NodesCame(s, r, A, W, g, X), NEW i \in Nat \ {0},
         HasRoom(r, "nodes", i), NEW x, x # NoName, x \notin DOMAIN s.map[g]["nodes"], x \notin X
  PROVE  LET t == gn_new(r, g, x) IN NodesCame(s, t, A, W, g, X \cup {x}) /\ HasRoom(t, "nodes", i - 1)
<1> DEFINE t == gn_new(r, g, x)
           n == Fresh(r, "nodes")
<1>1. Fit(r, A, W) /\ x \notin DOMAIN r.map[g]["nodes"]
  BY DEF NodesCame
<1>2. /\ Fit(t, A, W) /\ HasRoom(t, "nodes", i - 1) /\ NodeCame(r, t, n, g, x)
      /\ DOMAIN t.map[g]["nodes"] = DOMAIN r.map[g]["nodes"] \cup {x}
  BY <1>1, NodeFit
<1> HIDE DEF t, n
<1>3. Live(t, "arcs") = Live(s, "arcs")
  BY <1>2 DEF NodeCame, NodesCame
<1>4. \A g2 \in Gs : Still(s, t, g2, "arcs") /\ (g2 # g => Still(s, t, g2, "nodes"))
  BY <1>2, StillMore DEF NodeCame, NodesCame
<1>5. DOMAIN t.map[g]["nodes"] = DOMAIN s.map[g]["nodes"] \cup (X \cup {x})
  BY <1>2 DEF NodesCame
<1>6. NodesCame(s, t, A, W, g, X \cup {x})
  BY <1>2, <1>3, <1>4, <1>5 DEF NodesCame
<1> QED BY <1>2, <1>6 DEF t

\* All of them.
LEMMA NodesCome ==
  ASSUME NEW s, NEW A, NEW W, Fit(s, A, W), NEW g \in Gs, g \in A, NEW Y, NEW q \in Seq(Y), IsInjective(q),
         HasRoom(s, "nodes", Len(q)),
         \A i \in 1 .. Len(q) : q[i] # NoName /\ q[i] \notin DOMAIN s.map[g]["nodes"]
  PROVE  NodesCame(s, NodesMade(s, q, g), A, W, g, ToSet(q))
<1> DEFINE n == Len(q)
<1>1. n \in Nat /\ DOMAIN q = 1 .. n
  OBVIOUS
<1>2. PICK f : /\ f[0] = s /\ f[n] = NodesMade(s, q, g)
               /\ \A k \in 1 .. n : f[k] = gn_new(f[k - 1], g, q[k])
  BY <1>1, FoldNodes
<1> DEFINE X(k) == {q[j] : j \in 1 .. k}
           T == {k \in 0 .. n : NodesCame(s, f[k], A, W, g, X(k)) /\ HasRoom(f[k], "nodes", n - k)}
<1> HIDE DEF n
<1>3. 0 \in T
  <2>1. X(0) = {}
    OBVIOUS
  <2>2. \A g2 \in Gs : Still(s, s, g2, "arcs") /\ Still(s, s, g2, "nodes")
    BY DEF Still
  <2>3. NodesCame(s, s, A, W, g, {})
    BY <2>2 DEF NodesCame
  <2>4. HasRoom(s, "nodes", n - 0)
    <3>1. n - 0 = n
      BY <1>1
    <3> QED BY <3>1 DEF n
  <2>5. 0 \in 0 .. n
    BY <1>1
  <2> HIDE DEF X
  <2> QED BY <2>1, <2>3, <2>4, <2>5, <1>2
<1>4. ASSUME NEW k \in 1 .. n, k - 1 \in T PROVE k \in T
  <2>1. NodesCame(s, f[k - 1], A, W, g, X(k - 1)) /\ HasRoom(f[k - 1], "nodes", n - (k - 1))
    BY <1>4
  <2>2. n - (k - 1) \in Nat \ {0} /\ (n - (k - 1)) - 1 = n - k /\ k \in 0 .. n
    BY <1>1
  <2>3. q[k] # NoName /\ q[k] \notin DOMAIN s.map[g]["nodes"]
    BY DEF n
  <2>4. q[k] \notin X(k - 1)
    BY <1>1 DEF IsInjective
  <2>5. X(k) = X(k - 1) \cup {q[k]}
    <3>1. 1 .. k = (1 .. (k - 1)) \cup {k}
      BY <1>1
    <3> QED BY <3>1
  <2> DEFINE x == q[k]
             r == f[k - 1]
             i == n - (k - 1)
             Z == X(k - 1)
  <2>6. f[k] = gn_new(r, g, x)
    BY <1>2
  <2>7. NodesCame(s, r, A, W, g, Z) /\ HasRoom(r, "nodes", i) /\ i \in Nat \ {0} /\ x # NoName
        /\ x \notin DOMAIN s.map[g]["nodes"] /\ x \notin Z /\ X(k) = Z \cup {x} /\ i - 1 = n - k
    BY <2>1, <2>2, <2>3, <2>4, <2>5
  <2> HIDE DEF x, r, i, Z, X
  <2>8. NodesCame(s, gn_new(r, g, x), A, W, g, Z \cup {x}) /\ HasRoom(gn_new(r, g, x), "nodes", i - 1)
    BY <2>7, NodesMore
  <2> QED BY <2>2, <2>6, <2>7, <2>8
<1>5. \A k \in 0 .. n : k \in T
  <2> HIDE DEF T
  <2> QED BY <1>1, <1>3, <1>4, Stepwise
<1>6. n \in T
  <2>1. n \in 0 .. n
    BY <1>1
  <2> HIDE DEF T
  <2> QED BY <2>1, <1>5
<1>7. X(n) = ToSet(q)
  BY <1>1 DEF ToSet
<1> HIDE DEF X
<1> QED BY <1>2, <1>6, <1>7

\* node insert, with names or without.
LEMMA NodeInsertFit ==
  ASSUME NEW s, NEW A, NEW W, Fit(s, A, W), NEW g \in Gs, g \in A, NEW q \in NodeLists,
         HasRoom(s, "nodes", Max({1, Len(q)})), q = <<>> => CanGenerate(s, g, "nodes")
  PROVE  Fit(gm_node_INSERT(s, g, q), A, W)
<1>0. Knit(s, {}) /\ "nodes" \in Kinds
  BY FitBase, Pools
<1>1. q \in Seq(NodeName)
  <2>1. CASE q = <<>>
    BY <2>1
  <2>2. CASE \E x \in NodeName : q = <<x>>
    BY <2>2
  <2>3. CASE \E x, y \in NodeName : q = <<x, y>>
    BY <2>3
  <2> QED BY <2>1, <2>2, <2>3 DEF NodeLists
<1>2. CASE q = <<>>
  <2> DEFINE made == g_newnodename(s, g)
             z == Generated["nodes"][made.counter[g]["nodes"]]
  <2>1. made = [s EXCEPT !.counter[g]["nodes"] = NextNumber(s, g, "nodes")]
    BY DEF g_newnodename
  <2>2. gm_node_INSERT(s, g, q) = gn_new(made, g, z)
    BY <1>2 DEF gm_node_INSERT
  <2> HIDE DEF made
  <2>3. CanGenerate(s, g, "nodes")
    BY <1>2
  <2>4. Numbered(s, made, A, W, g, "nodes", z)
    BY <2>1, <2>3, <1>0, NewNumber
  <2> HIDE DEF z
  <2>5. Max({1, Len(q)}) = 1
    <3>1. \E x \in {1, 0} : \A y \in {1, 0} : x >= y
      OBVIOUS
    <3>2. Max({1, 0}) \in {1, 0} /\ \A y \in {1, 0} : Max({1, 0}) >= y
      BY <3>1 DEF Max
    <3>3. Max({1, 0}) = 1
      BY <3>2
    <3> QED BY <3>3, <1>2
  <2>6. Fit(made, A, W) /\ z # NoName /\ z \notin DOMAIN made.map[g]["nodes"] /\ HasRoom(made, "nodes", 1)
    BY <2>4, <2>5, <1>0 DEF Numbered
  <2>7. Fit(gn_new(made, g, z), A, W)
    BY <2>6, NodeFit
  <2> QED BY <2>2, <2>7
<1>3. CASE q # <<>>
  <2>1. CASE ~ IsInjective(q) \/ \E x \in ToSet(q) : gn_get_node(s, g, x) # 0
    BY <1>3, <2>1 DEF gm_node_INSERT
  <2>2. CASE ~ (~ IsInjective(q) \/ \E x \in ToSet(q) : gn_get_node(s, g, x) # 0)
    <3>1. gm_node_INSERT(s, g, q) = NodesMade(s, q, g)
      BY <1>3, <2>2 DEF gm_node_INSERT, NodesMade
    <3>2. ASSUME NEW i \in 1 .. Len(q) PROVE q[i] # NoName /\ q[i] \notin DOMAIN s.map[g]["nodes"]
      <4>1. q[i] \in NodeName /\ q[i] \in ToSet(q)
        BY <1>1 DEF ToSet
      <4>2. q[i] # NoName
        BY <4>1, StoreAssumption
      <4> DEFINE x == q[i]
      <4>3. Found(s, g, "nodes", x) = 0
        BY <4>1, <2>2 DEF gn_get_node
      <4> HIDE DEF x
      <4>4. x \notin DOMAIN s.map[g]["nodes"]
        BY <4>3, <1>0, NotFound
      <4> QED BY <4>2, <4>4 DEF x
    <3>3. HasRoom(s, "nodes", Len(q))
      <4> DEFINE l == Len(q)
      <4>1. l \in Nat \ {0}
        BY <1>1, <1>3
      <4>2. HasRoom(s, "nodes", Max({1, l}))
        OBVIOUS
      <4> HIDE DEF l
      <4>3. \E x \in {1, l} : \A y \in {1, l} : x >= y
        BY <4>1
      <4>4. Max({1, l}) \in {1, l} /\ \A y \in {1, l} : Max({1, l}) >= y
        BY <4>3 DEF Max
      <4>5. Max({1, l}) = l
        BY <4>1, <4>4
      <4> QED BY <4>2, <4>5 DEF l
    <3>4. NodesCame(s, NodesMade(s, q, g), A, W, g, ToSet(q))
      BY <1>1, <2>2, <3>2, <3>3, NodesCome
    <3> QED BY <3>1, <3>4 DEF NodesCame
  <2> QED BY <2>1, <2>2
<1> QED BY <1>2, <1>3

-----------------------------------------------------------------------------
(* The methods that delete *)

\* Arcs deleted by name.
ArcsNamedGone(s, q, g) == FoldLeft(LAMBDA r, x : ga_delete(r, ga_get_arc(r, g, x)), s, q)
ArcsNamedGoneRun(f, base, q, g, n) ==
  /\ f[0] = base /\ f[n] = ArcsNamedGone(base, q, g)
  /\ \A k \in 1 .. n : f[k] = ga_delete(f[k - 1], ga_get_arc(f[k - 1], g, q[k]))

\* The states between two deletions.
LEMMA FoldArcNames ==
  ASSUME NEW base, NEW q, NEW n \in Nat, DOMAIN q = 1 .. n, NEW g
  PROVE  \E f : ArcsNamedGoneRun(f, base, q, g, n)
<1> DEFINE apply(s, x) == ga_delete(s, ga_get_arc(s, g, x))
           step(f, T) == IF T = {} THEN base ELSE apply(f[T \ {Max(T)}], q[Max(T)])
           fold == CHOOSE f : f = [T \in SUBSET (1 .. n) |-> step(f, T)]
           Bad == {k \in 0 .. n : ~ \E f : f = [T \in SUBSET (1 .. k) |-> step(f, T)]}
<1>1. ArcsNamedGone(base, q, g) = fold[1 .. n]
  BY DEF ArcsNamedGone, FoldLeft, MapThenFoldSet
<1> HIDE DEF apply
<1>2. Bad = {}
  <2>1. SUFFICES ASSUME Bad # {} PROVE FALSE
    OBVIOUS
  <2>2. PICK k \in Bad : \A j \in Bad : k <= j
    <3>1. Bad \subseteq Nat
      OBVIOUS
    <3> HIDE DEF Bad
    <3> QED BY <2>1, <3>1, LeastOfNat
  <2>3. k \in 0 .. n /\ (~ \E f : f = [T \in SUBSET (1 .. k) |-> step(f, T)])
    BY <2>2
  <2>4. k # 0
    <3> DEFINE e == [T \in SUBSET (1 .. 0) |-> base]
    <3>1. \A T \in SUBSET (1 .. 0) : T = {}
      OBVIOUS
    <3>2. e = [T \in SUBSET (1 .. 0) |-> step(e, T)]
      BY <3>1
    <3> QED BY <2>3, <3>2
  <2>5. k - 1 \in 0 .. n /\ k - 1 \notin Bad
    <3>1. k - 1 \in 0 .. n /\ ~ (k <= k - 1)
      BY <2>3, <2>4
    <3> HIDE DEF Bad
    <3> QED BY <2>2, <3>1
  <2>6. PICK f : f = [T \in SUBSET (1 .. (k - 1)) |-> step(f, T)]
    BY <2>5
  <2> DEFINE m == [T \in SUBSET (1 .. k) |-> IF k \in T THEN apply(f[T \ {k}], q[k]) ELSE f[T]]
  <2>7. ASSUME NEW T \in SUBSET (1 .. k)
        PROVE  m[T] = step(m, T)
    <3>0. T \in SUBSET Nat /\ k \in Nat \ {0} /\ T \subseteq 0 .. k
      BY <2>3, <2>4
    <3>1. CASE k \in T
      <4>1. Max(T) = k
        BY <3>0, <3>1, MaxIs
      <4>2. T \ {k} \in SUBSET (1 .. k) /\ k \notin T \ {k} /\ T # {}
        BY <3>1
      <4> QED BY <3>1, <4>1, <4>2
    <3>2. CASE k \notin T
      <4>1. T \in SUBSET (1 .. (k - 1))
        BY <3>0, <3>2
      <4>2. m[T] = f[T]
        BY <3>2
      <4>3. f[T] = step(f, T)
        <5> HIDE DEF step
        <5> QED BY <4>1, <2>6
      <4>4. T # {} => T \ {Max(T)} \in SUBSET (1 .. k) /\ k \notin T \ {Max(T)}
        BY <3>2
      <4> QED BY <4>2, <4>3, <4>4
    <3> QED BY <3>1, <3>2
  <2>8. m = [T \in SUBSET (1 .. k) |-> step(m, T)]
    <3> HIDE DEF step
    <3> QED BY <2>7
  <2> QED BY <2>3, <2>8
<1>3. n \in 0 .. n
  OBVIOUS
<1>4. \E f : f = [T \in SUBSET (1 .. n) |-> step(f, T)]
  <2> HIDE DEF step
  <2> QED BY <1>2, <1>3
<1>5. fold = [T \in SUBSET (1 .. n) |-> step(fold, T)]
  <2> HIDE DEF step
  <2> QED BY <1>4
<1>6. \A T \in SUBSET (1 .. n) : fold[T] = step(fold, T)
  <2> HIDE DEF fold, step
  <2> QED BY <1>5
<1> HIDE DEF fold
<1> DEFINE r == [k \in 0 .. n |-> fold[1 .. k]]
<1>7. r[0] = base
  <2>1. 1 .. 0 = {} /\ 0 \in 0 .. n
    OBVIOUS
  <2> QED BY <2>1, <1>6
<1>8. ASSUME NEW k \in 1 .. n
      PROVE  r[k] = apply(r[k - 1], q[k])
  <2>1. Max(1 .. k) = k
    BY MaxSegment
  <2>2. (1 .. k) \ {k} = 1 .. (k - 1) /\ 1 .. k \in SUBSET (1 .. n) /\ 1 .. k # {} /\ k \in 0 .. n /\ k - 1 \in 0 .. n
    OBVIOUS
  <2>3. fold[1 .. k] = apply(fold[1 .. (k - 1)], q[k])
    BY <2>1, <2>2, <1>6
  <2> QED BY <2>2, <2>3
<1>9. r[n] = fold[1 .. n]
  OBVIOUS
<1> HIDE DEF r
<1>10. \A k \in 1 .. n : r[k] = apply(r[k - 1], q[k])
  BY <1>8
<1> QED BY <1>1, <1>7, <1>9, <1>10 DEF apply, ArcsNamedGoneRun

\* Nodes deleted by name.
NodesNamedGone(s, q, g) == FoldLeft(LAMBDA r, x : gn_delete(r, gn_get_node(r, g, x)), s, q)
NodesNamedGoneRun(f, base, q, g, n) ==
  /\ f[0] = base /\ f[n] = NodesNamedGone(base, q, g)
  /\ \A k \in 1 .. n : f[k] = gn_delete(f[k - 1], gn_get_node(f[k - 1], g, q[k]))

\* The states between two deletions.
LEMMA FoldNodeNames ==
  ASSUME NEW base, NEW q, NEW n \in Nat, DOMAIN q = 1 .. n, NEW g
  PROVE  \E f : NodesNamedGoneRun(f, base, q, g, n)
<1> DEFINE apply(s, x) == gn_delete(s, gn_get_node(s, g, x))
           step(f, T) == IF T = {} THEN base ELSE apply(f[T \ {Max(T)}], q[Max(T)])
           fold == CHOOSE f : f = [T \in SUBSET (1 .. n) |-> step(f, T)]
           Bad == {k \in 0 .. n : ~ \E f : f = [T \in SUBSET (1 .. k) |-> step(f, T)]}
<1>1. NodesNamedGone(base, q, g) = fold[1 .. n]
  BY DEF NodesNamedGone, FoldLeft, MapThenFoldSet
<1> HIDE DEF apply
<1>2. Bad = {}
  <2>1. SUFFICES ASSUME Bad # {} PROVE FALSE
    OBVIOUS
  <2>2. PICK k \in Bad : \A j \in Bad : k <= j
    <3>1. Bad \subseteq Nat
      OBVIOUS
    <3> HIDE DEF Bad
    <3> QED BY <2>1, <3>1, LeastOfNat
  <2>3. k \in 0 .. n /\ (~ \E f : f = [T \in SUBSET (1 .. k) |-> step(f, T)])
    BY <2>2
  <2>4. k # 0
    <3> DEFINE e == [T \in SUBSET (1 .. 0) |-> base]
    <3>1. \A T \in SUBSET (1 .. 0) : T = {}
      OBVIOUS
    <3>2. e = [T \in SUBSET (1 .. 0) |-> step(e, T)]
      BY <3>1
    <3> QED BY <2>3, <3>2
  <2>5. k - 1 \in 0 .. n /\ k - 1 \notin Bad
    <3>1. k - 1 \in 0 .. n /\ ~ (k <= k - 1)
      BY <2>3, <2>4
    <3> HIDE DEF Bad
    <3> QED BY <2>2, <3>1
  <2>6. PICK f : f = [T \in SUBSET (1 .. (k - 1)) |-> step(f, T)]
    BY <2>5
  <2> DEFINE m == [T \in SUBSET (1 .. k) |-> IF k \in T THEN apply(f[T \ {k}], q[k]) ELSE f[T]]
  <2>7. ASSUME NEW T \in SUBSET (1 .. k)
        PROVE  m[T] = step(m, T)
    <3>0. T \in SUBSET Nat /\ k \in Nat \ {0} /\ T \subseteq 0 .. k
      BY <2>3, <2>4
    <3>1. CASE k \in T
      <4>1. Max(T) = k
        BY <3>0, <3>1, MaxIs
      <4>2. T \ {k} \in SUBSET (1 .. k) /\ k \notin T \ {k} /\ T # {}
        BY <3>1
      <4> QED BY <3>1, <4>1, <4>2
    <3>2. CASE k \notin T
      <4>1. T \in SUBSET (1 .. (k - 1))
        BY <3>0, <3>2
      <4>2. m[T] = f[T]
        BY <3>2
      <4>3. f[T] = step(f, T)
        <5> HIDE DEF step
        <5> QED BY <4>1, <2>6
      <4>4. T # {} => T \ {Max(T)} \in SUBSET (1 .. k) /\ k \notin T \ {Max(T)}
        BY <3>2
      <4> QED BY <4>2, <4>3, <4>4
    <3> QED BY <3>1, <3>2
  <2>8. m = [T \in SUBSET (1 .. k) |-> step(m, T)]
    <3> HIDE DEF step
    <3> QED BY <2>7
  <2> QED BY <2>3, <2>8
<1>3. n \in 0 .. n
  OBVIOUS
<1>4. \E f : f = [T \in SUBSET (1 .. n) |-> step(f, T)]
  <2> HIDE DEF step
  <2> QED BY <1>2, <1>3
<1>5. fold = [T \in SUBSET (1 .. n) |-> step(fold, T)]
  <2> HIDE DEF step
  <2> QED BY <1>4
<1>6. \A T \in SUBSET (1 .. n) : fold[T] = step(fold, T)
  <2> HIDE DEF fold, step
  <2> QED BY <1>5
<1> HIDE DEF fold
<1> DEFINE r == [k \in 0 .. n |-> fold[1 .. k]]
<1>7. r[0] = base
  <2>1. 1 .. 0 = {} /\ 0 \in 0 .. n
    OBVIOUS
  <2> QED BY <2>1, <1>6
<1>8. ASSUME NEW k \in 1 .. n
      PROVE  r[k] = apply(r[k - 1], q[k])
  <2>1. Max(1 .. k) = k
    BY MaxSegment
  <2>2. (1 .. k) \ {k} = 1 .. (k - 1) /\ 1 .. k \in SUBSET (1 .. n) /\ 1 .. k # {} /\ k \in 0 .. n /\ k - 1 \in 0 .. n
    OBVIOUS
  <2>3. fold[1 .. k] = apply(fold[1 .. (k - 1)], q[k])
    BY <2>1, <2>2, <1>6
  <2> QED BY <2>2, <2>3
<1>9. r[n] = fold[1 .. n]
  OBVIOUS
<1> HIDE DEF r
<1>10. \A k \in 1 .. n : r[k] = apply(r[k - 1], q[k])
  BY <1>8
<1> QED BY <1>1, <1>7, <1>9, <1>10 DEF apply, NodesNamedGoneRun

\* The structures c, named as in q, are there yet from place k on.
Due(r, g, K, c, q, k, n) == \A j \in k + 1 .. n : c[j] \in Own(r, g, K) /\ r.name[c[j]] = q[j]
Backed(r, g, c, k, n)    == \A j \in k + 1 .. n : BackAt(r, Chain(r, g, "nodes"), c[j])

\* One arc goes.
LEMMA ArcNamedGoes ==
  ASSUME NEW r, NEW A, NEW W, Fit(r, A, W), NEW g \in Gs, NEW n \in Nat, NEW k \in 1 .. n, NEW c, NEW q,
         Due(r, g, "arcs", c, q, k - 1, n), \A i, j \in 1 .. n : c[i] = c[j] => i = j
  PROVE  LET t == ga_delete(r, ga_get_arc(r, g, q[k])) IN Fit(t, A, W) /\ Due(t, g, "arcs", c, q, k, n)
<1> DEFINE a == c[k]
           t == ga_delete(r, a)
<1>k. "nodes" \in Kinds /\ "arcs" \in Kinds /\ Kinds = {"nodes", "arcs"}
  BY Pools
<1>1. Knit(r, {}) /\ Tables(r) /\ Base(r)
  BY FitBase
<1>2. a \in Own(r, g, "arcs") /\ r.name[a] = q[k]
  <2>1. k \in (k - 1) + 1 .. n
    OBVIOUS
  <2> QED BY <2>1 DEF Due
<1>3. ga_get_arc(r, g, q[k]) = a
  <2> HIDE DEF a
  <2> QED BY <1>1, <1>2, <1>k, FoundIs DEF ga_get_arc
<1>4. a \in Live(r, "arcs")
  BY <1>2 DEF Own
<1>5. Knit(t, {}) /\ ArcsWent(r, t, {a})
  <2> HIDE DEF a
  <2> QED BY <1>1, <1>4, ArcGoes
<1> HIDE DEF t
<1>6. \A g2 \in Gs : Tied(t, W, g2)
  BY <1>1, <1>5, <1>k, BackStill DEF ArcsWent, Fit, Tied
<1>7. \A g2 \in Gs \ A, K \in Kinds : Own(t, g2, K) = {}
  <2>1. SUFFICES ASSUME NEW g2 \in Gs \ A, NEW K \in Kinds PROVE Own(t, g2, K) = {}
    OBVIOUS
  <2>2. Own(r, g2, K) = {}
    BY DEF Fit
  <2>3. Own(t, g2, "arcs") \subseteq Own(r, g2, "arcs") /\ Own(t, g2, "nodes") = Own(r, g2, "nodes")
    BY <1>5 DEF ArcsWent, Still
  <2> QED BY <2>2, <2>3, <1>k
<1>8. Due(t, g, "arcs", c, q, k, n)
  <2>1. SUFFICES ASSUME NEW j \in k + 1 .. n PROVE c[j] \in Own(t, g, "arcs") /\ t.name[c[j]] = q[j]
    BY DEF Due
  <2>2. j \in (k - 1) + 1 .. n /\ j \in 1 .. n /\ j # k
    OBVIOUS
  <2>3. c[j] \in Own(r, g, "arcs") /\ r.name[c[j]] = q[j] /\ c[j] # a
    BY <2>2 DEF Due
  <2>4. c[j] \in GC
    BY <2>3, Pools DEF Own, Live
  <2> QED BY <2>3, <2>4, <1>5 DEF ArcsWent
<1>9. Fit(t, A, W)
  BY <1>5, <1>6, <1>7 DEF Fit
<1> QED BY <1>3, <1>8, <1>9 DEF t

\* One node goes: the others are where they were, with their links back.
LEMMA NodeNamedGoes ==
  ASSUME NEW r, NEW A, NEW W, Fit(r, A, W), NEW g \in Gs, g \in A, NEW n \in Nat, NEW k \in 1 .. n, NEW c, NEW q,
         Due(r, g, "nodes", c, q, k - 1, n), Backed(r, g, c, k - 1, n),
         \A i, j \in 1 .. n : c[i] = c[j] => i = j
  PROVE  LET t == gn_delete(r, gn_get_node(r, g, q[k])) IN
         Fit(t, A, W) /\ Due(t, g, "nodes", c, q, k, n) /\ Backed(t, g, c, k, n)
<1> DEFINE m == c[k]
           t == gn_delete(r, m)
<1>k. "nodes" \in Kinds /\ "arcs" \in Kinds /\ Kinds = {"nodes", "arcs"}
  BY Pools
<1>1. Knit(r, {}) /\ Tables(r) /\ Base(r)
  BY FitBase
<1>2. m \in Own(r, g, "nodes") /\ r.name[m] = q[k] /\ BackAt(r, Chain(r, g, "nodes"), m)
  <2>1. k \in (k - 1) + 1 .. n
    OBVIOUS
  <2> QED BY <2>1 DEF Due, Backed
<1>3. gn_get_node(r, g, q[k]) = m
  <2> HIDE DEF m
  <2> QED BY <1>1, <1>2, <1>k, FoundIs DEF gn_get_node
<1> HIDE DEF m
<1>4. PICK i \in 1 .. Len(Chain(r, g, "nodes")) : m = Chain(r, g, "nodes")[i]
  BY <1>1, <1>2, <1>k, ChainList
<1>5. Knit(t, {}) /\ NodeWent(r, t, m, g, i)
  BY <1>1, <1>2, <1>4, NodeGoes
<1> HIDE DEF t
<1>6. \A g2 \in Gs : Tied(t, W, g2)
  <2>1. SUFFICES ASSUME NEW g2 \in Gs PROVE Tied(t, W, g2)
    OBVIOUS
  <2>2. Tied(r, W, g2)
    BY DEF Fit
  <2>3. CASE g2 = g
    BY <2>2, <2>3, <1>5 DEF NodeWent, Tied
  <2>4. CASE g2 # g
    BY <2>2, <2>4, <1>1, <1>5, <1>k, BackStill DEF NodeWent, Tied
  <2> QED BY <2>3, <2>4
<1>7. \A g2 \in Gs \ A, K \in Kinds : Own(t, g2, K) = {}
  <2>1. SUFFICES ASSUME NEW g2 \in Gs \ A, NEW K \in Kinds PROVE Own(t, g2, K) = {}
    OBVIOUS
  <2>2. Own(r, g2, K) = {} /\ g2 # g
    BY DEF Fit
  <2>3. Own(t, g2, "arcs") \subseteq Own(r, g2, "arcs") /\ Own(t, g2, "nodes") = Own(r, g2, "nodes")
    BY <2>2, <1>5 DEF NodeWent, Still
  <2> QED BY <2>2, <2>3, <1>k
<1>8. ASSUME NEW j \in k + 1 .. n
      PROVE  c[j] \in Own(t, g, "nodes") /\ t.name[c[j]] = q[j] /\ BackAt(t, Chain(t, g, "nodes"), c[j])
  <2>2. j \in (k - 1) + 1 .. n /\ j \in 1 .. n /\ j # k
    OBVIOUS
  <2>3. c[j] \in Own(r, g, "nodes") /\ r.name[c[j]] = q[j] /\ BackAt(r, Chain(r, g, "nodes"), c[j])
    BY <2>2 DEF Due, Backed
  <2>4. c[j] \in GN /\ c[j] # m
    BY <2>2, <2>3, Pools DEF Own, Live, m
  <2> QED BY <2>3, <2>4, <1>5 DEF NodeWent
<1>9. Fit(t, A, W)
  BY <1>5, <1>6, <1>7 DEF Fit
<1>10. Due(t, g, "nodes", c, q, k, n) /\ Backed(t, g, c, k, n)
  BY <1>8 DEF Due, Backed
<1> QED BY <1>3, <1>9, <1>10 DEF t

\* The structures of names that are there.
LEMMA AllFound ==
  ASSUME NEW s, NEW A, NEW W, Fit(s, A, W), NEW g \in Gs, NEW K \in Kinds, NEW Y, NEW q \in Seq(Y), AllThere(s, g, K, q),
         NEW c, c = [j \in 1 .. Len(q) |-> Found(s, g, K, q[j])]
  PROVE  /\ Due(s, g, K, c, q, 0, Len(q))
         /\ \A i, j \in 1 .. Len(q) : c[i] = c[j] => i = j
<1> DEFINE n == Len(q)
<1>1. n \in Nat /\ DOMAIN q = 1 .. n
  OBVIOUS
<1>2. Tables(s)
  BY FitBase
<1> HIDE DEF n
<1>3. ASSUME NEW j \in 1 .. n PROVE c[j] \in Own(s, g, K) /\ s.name[c[j]] = q[j]
  <2>1. q[j] \in ToSet(q)
    BY <1>1 DEF ToSet
  <2> DEFINE x == q[j]
  <2> HIDE DEF x
  <2>2. Found(s, g, K, x) # 0
    BY <2>1 DEF AllThere, x
  <2>3. Found(s, g, K, x) \in Own(s, g, K) /\ s.name[Found(s, g, K, x)] = x
    BY <2>2, <1>2, FoundIs
  <2>4. c[j] = Found(s, g, K, x)
    BY DEF x, n
  <2> QED BY <2>3, <2>4 DEF x
<1>4. \A i, j \in 1 .. n : q[i] = q[j] => i = j
  BY <1>1 DEF AllThere, IsInjective
<1>5. 0 + 1 = 1
  OBVIOUS
<1> QED BY <1>3, <1>4, <1>5 DEF Due, n

\* arc delete, with any names.
LEMMA ArcDeleteFit ==
  ASSUME NEW s, NEW A, NEW W, Fit(s, A, W), NEW g \in Gs, NEW Y, NEW q \in Seq(Y)
  PROVE  Fit(gm_arc_DELETE(s, g, q), A, W)
<1>1. CASE ~ AllThere(s, g, "arcs", q)
  BY <1>1 DEF gm_arc_DELETE
<1>2. CASE AllThere(s, g, "arcs", q)
  <2> DEFINE n == Len(q)
             c == [j \in 1 .. Len(q) |-> Found(s, g, "arcs", q[j])]
  <2>1. gm_arc_DELETE(s, g, q) = ArcsNamedGone(s, q, g)
    BY <1>2 DEF gm_arc_DELETE, ArcsNamedGone
  <2>2. n \in Nat /\ DOMAIN q = 1 .. n /\ "arcs" \in Kinds
    BY Pools
  <2> HIDE DEF c
  <2>3. Due(s, g, "arcs", c, q, 0, n) /\ \A i, j \in 1 .. n : c[i] = c[j] => i = j
    BY <1>2, <2>2, AllFound DEF c
  <2> HIDE DEF n
  <2>9. PICK f : ArcsNamedGoneRun(f, s, q, g, n)
    BY <2>2, FoldArcNames
  <2>4. /\ f[0] = s /\ f[n] = ArcsNamedGone(s, q, g)
        /\ \A k \in 1 .. n : f[k] = ga_delete(f[k - 1], ga_get_arc(f[k - 1], g, q[k]))
    BY <2>9 DEF ArcsNamedGoneRun
  <2> DEFINE T == {k \in 0 .. n : Fit(f[k], A, W) /\ Due(f[k], g, "arcs", c, q, k, n)}
  <2>5. 0 \in T
    BY <2>2, <2>3, <2>4
  <2>6. ASSUME NEW k \in 1 .. n, k - 1 \in T PROVE k \in T
    <3> DEFINE r == f[k - 1]
    <3>1. Fit(r, A, W) /\ Due(r, g, "arcs", c, q, k - 1, n)
      BY <2>6
    <3>2. f[k] = ga_delete(r, ga_get_arc(r, g, q[k])) /\ k \in 0 .. n
      BY <2>2, <2>4
    <3> HIDE DEF r
    <3>3. Fit(f[k], A, W) /\ Due(f[k], g, "arcs", c, q, k, n)
      BY <3>1, <3>2, <2>2, <2>3, ArcNamedGoes
    <3> QED BY <3>2, <3>3
  <2>7. n \in T
    <3>1. n \in 0 .. n
      BY <2>2
    <3> HIDE DEF T
    <3> QED BY <3>1, <2>2, <2>5, <2>6, Stepwise
  <2> QED BY <2>1, <2>4, <2>7
<1> QED BY <1>1, <1>2

\* node delete, with names of nodes whose links back are right.
LEMMA NodeDeleteFit ==
  ASSUME NEW s, NEW A, NEW W, Fit(s, A, W), NEW g \in Gs, g \in A, NEW Y, NEW q \in Seq(Y), MayDelete(s, g, q), Defects = {}
  PROVE  Fit(gm_node_DELETE(s, g, q), A, W)
<1>1. CASE ~ AllThere(s, g, "nodes", q)
  BY <1>1 DEF gm_node_DELETE
<1>2. CASE AllThere(s, g, "nodes", q)
  <2> DEFINE n == Len(q)
             c == [j \in 1 .. Len(q) |-> Found(s, g, "nodes", q[j])]
  <2>1. gm_node_DELETE(s, g, q) = NodesNamedGone(s, q, g)
    BY <1>2 DEF gm_node_DELETE, NodesNamedGone
  <2>2. n \in Nat /\ DOMAIN q = 1 .. n /\ "nodes" \in Kinds
    BY Pools
  <2> HIDE DEF c
  <2>3. Due(s, g, "nodes", c, q, 0, n) /\ \A i, j \in 1 .. n : c[i] = c[j] => i = j
    BY <1>2, <2>2, AllFound DEF c
  <2> HIDE DEF n
  <2>9. PICK f : NodesNamedGoneRun(f, s, q, g, n)
    BY <2>2, FoldNodeNames
  <2>4. /\ f[0] = s /\ f[n] = NodesNamedGone(s, q, g)
        /\ \A k \in 1 .. n : f[k] = gn_delete(f[k - 1], gn_get_node(f[k - 1], g, q[k]))
    BY <2>9 DEF NodesNamedGoneRun
  <2>8. Backed(s, g, c, 0, n)
    <3>1. SUFFICES ASSUME NEW j \in 1 .. n PROVE BackAt(s, Chain(s, g, "nodes"), c[j])
      BY DEF Backed
    <3>2. q[j] \in ToSet(q)
      BY <2>2 DEF ToSet
    <3> DEFINE x == q[j]
    <3> HIDE DEF x
    <3>3. Found(s, g, "nodes", x) # 0
      BY <3>2, <1>2 DEF AllThere, x
    <3>4. InPlace(s, g, Found(s, g, "nodes", x))
      BY <3>2, <3>3 DEF MayDelete, gn_get_node, x
    <3>5. c[j] = Found(s, g, "nodes", x)
      BY DEF c, x, n
    <3>6. DOMAIN Chain(s, g, "nodes") = 1 .. Len(Chain(s, g, "nodes"))
      BY <2>2, FitBase, ChainList
    <3> QED BY <3>4, <3>5, <3>6 DEF InPlace, BackAt
  <2> DEFINE T == {k \in 0 .. n : Fit(f[k], A, W) /\ Due(f[k], g, "nodes", c, q, k, n) /\ Backed(f[k], g, c, k, n)}
  <2>5. 0 \in T
    BY <2>2, <2>3, <2>4, <2>8
  <2>6. ASSUME NEW k \in 1 .. n, k - 1 \in T PROVE k \in T
    <3> DEFINE r == f[k - 1]
    <3>1. Fit(r, A, W) /\ Due(r, g, "nodes", c, q, k - 1, n) /\ Backed(r, g, c, k - 1, n)
      BY <2>6
    <3>2. f[k] = gn_delete(r, gn_get_node(r, g, q[k])) /\ k \in 0 .. n
      BY <2>2, <2>4
    <3> HIDE DEF r
    <3>3. Fit(f[k], A, W) /\ Due(f[k], g, "nodes", c, q, k, n) /\ Backed(f[k], g, c, k, n)
      BY <3>1, <3>2, <2>2, <2>3, NodeNamedGoes
    <3> QED BY <3>2, <3>3
  <2>7. n \in T
    <3>1. n \in 0 .. n
      BY <2>2
    <3> HIDE DEF T
    <3> QED BY <3>1, <2>2, <2>5, <2>6, Stepwise
  <2> QED BY <2>1, <2>4, <2>7
<1> QED BY <1>1, <1>2

-----------------------------------------------------------------------------
(* Graphs that come and go *)

\* A sequence of members of Y.
LEMMA InSeq ==
  ASSUME NEW X, NEW q \in Seq(X), NEW Y, \A i \in 1 .. Len(q) : q[i] \in Y
  PROVE  q \in Seq(Y)
<1>1. Len(q) \in Nat /\ q = [i \in 1 .. Len(q) |-> q[i]]
  OBVIOUS
<1>2. q \in [1 .. Len(q) -> Y]
  BY <1>1
<1> QED BY <1>1, <1>2

\* A value put where it is.
LEMMA PutSame ==
  ASSUME NEW X, NEW Y, NEW f \in [X -> Y], NEW x, NEW y, f[x] = y
  PROVE  [f EXCEPT ![x] = y] = f
OBVIOUS

\* It stays when the program has more graphs.
LEMMA FitMore ==
  ASSUME NEW s, NEW A, NEW W, Fit(s, A, W), NEW B, A \subseteq B
  PROVE  Fit(s, B, W)
BY DEF Fit

\* A list of nothing.
LEMMA EmptyList ==
  ASSUME NEW s, Base(s), NEW g \in Gs, NEW k \in Kinds, Own(s, g, k) = {}
  PROVE  Chain(s, g, k) = <<>> /\ s.first[g][k] = 0 /\ s.n[g][k] = 0
<1> DEFINE q == Chain(s, g, k)
<1>1. ListOf(s, g, k, q) /\ q \in Seq(GC) /\ \A i \in 1 .. Len(q) : q[i] \in Own(s, g, k)
  BY ChainList
<1> HIDE DEF q
<1>2. q = <<>>
  <2>1. Len(q) = 0
    BY <1>1
  <2> QED BY <2>1, <1>1
<1>3. s.first[g][k] = 0 /\ s.n[g][k] = 0
  BY <1>1, <1>2 DEF ListOf
<1> QED BY <1>2, <1>3 DEF q

\* A graph that has nothing has its nodes linked back.
LEMMA FitWider ==
  ASSUME NEW s, NEW A, NEW W, Fit(s, A, W), NEW V, \A g \in Gs : g \in V => g \in W \/ g \notin A
  PROVE  Fit(s, A, V)
<1>1. ASSUME NEW g \in Gs PROVE Tied(s, V, g)
  <2>1. Tied(s, W, g)
    BY DEF Fit
  <2>2. g \notin A => Chain(s, g, "nodes") = <<>>
    <3>1. "nodes" \in Kinds /\ Base(s)
      BY Pools, FitBase
    <3>2. g \notin A => Own(s, g, "nodes") = {}
      BY <3>1 DEF Fit
    <3> QED BY <3>1, <3>2, EmptyList
  <2> QED BY <2>1, <2>2 DEF Tied, Back
<1> QED BY <1>1 DEF Fit

\* What g_new does to a graph that has nothing.
LEMMA NewFit ==
  ASSUME NEW s, NEW A, NEW W, Fit(s, A, W), NEW g \in Gs, \A k \in Kinds : Own(s, g, k) = {}
  PROVE  LET r == g_new(s, g) IN
         /\ Fit(r, A, W) /\ r.name = s.name /\ r.start = s.start /\ r.end = s.end /\ r.prev = s.prev /\ r.owner = s.owner
         /\ \A g2 \in Gs, k \in Kinds : Chain(r, g2, k) = Chain(s, g2, k) /\ Own(r, g2, k) = Own(s, g2, k)
         /\ \A k \in Kinds : DOMAIN r.map[g][k] = {}
<1> DEFINE r == g_new(s, g)
<1>1. Shape(s) /\ Base(s) /\ Tables(s) /\ DOMAIN s = Fields
  BY FitBase DEF Shape
<1>2. ListType(s.first, s.n) /\ RestType(s.counter, s.gattr) /\ TableType(s.map)
  BY <1>1 DEF Shape
<1>3. /\ DOMAIN r = Fields /\ r.name = s.name /\ r.attr = s.attr /\ r.weight = s.weight
      /\ r.owner = s.owner /\ r.next = s.next /\ r.prev = s.prev
      /\ r.in = s.in /\ r.out = s.out /\ r.start = s.start /\ r.end = s.end
      /\ r.first = [s.first EXCEPT ![g] = NothingOf(0)] /\ r.n = [s.n EXCEPT ![g] = NothingOf(0)]
      /\ r.map = [s.map EXCEPT ![g] = NothingOf(<<>>)] /\ r.counter = [s.counter EXCEPT ![g] = NothingOf(0)]
      /\ r.gattr = [s.gattr EXCEPT ![g] = NoAttr]
  BY <1>1 DEF g_new, Fields
<1> HIDE DEF r
<1>4. s.first[g] = NothingOf(0) /\ s.n[g] = NothingOf(0)
  <2>1. \A k \in Kinds : s.first[g][k] = 0 /\ s.n[g][k] = 0
    BY <1>1, EmptyList
  <2>2. s.first[g] \in [Kinds -> GC \cup {0}] /\ s.n[g] \in [Kinds -> Int]
    BY <1>2 DEF ListType
  <2> QED BY <2>1, <2>2 DEF NothingOf
<1>5. r.first = s.first /\ r.n = s.n
  <2> DEFINE z == NothingOf(0)
  <2> HIDE DEF z
  <2>1. s.first[g] = z /\ s.n[g] = z /\ r.first = [s.first EXCEPT ![g] = z] /\ r.n = [s.n EXCEPT ![g] = z]
    BY <1>3, <1>4 DEF z
  <2>2. s.first \in [Gs -> [Kinds -> GC \cup {0}]] /\ s.n \in [Gs -> [Kinds -> Int]]
    BY <1>2 DEF ListType
  <2>3. [s.first EXCEPT ![g] = z] = s.first
    BY <2>1, <2>2, PutSame
  <2>4. [s.n EXCEPT ![g] = z] = s.n
    BY <2>1, <2>2, PutSame
  <2> QED BY <2>1, <2>3, <2>4
<1>6. r.map[g] = NothingOf(<<>>) /\ DOMAIN r.map = Gs /\ \A g2 \in Gs : g2 # g => r.map[g2] = s.map[g2]
  BY <1>2, <1>3 DEF TableType
<1>7. TableType(r.map)
  BY <1>2, <1>6 DEF TableType, NothingOf
<1>8. RestType(r.counter, r.gattr)
  BY <1>2, <1>3 DEF RestType, NothingOf
<1>9. Shape(r)
  BY <1>1, <1>3, <1>5, <1>7, <1>8 DEF Shape
<1>10. Relabelled(s, r)
  BY <1>3, <1>5 DEF Relabelled
<1>11. ASSUME NEW g2 \in Gs, NEW k \in Kinds PROVE Own(r, g2, k) = Own(s, g2, k)
  BY <1>3 DEF Own, Live
<1>12. ASSUME NEW g2 \in Gs, NEW k \in Kinds PROVE TableOf(r, g2, k)
  <2>1. CASE g2 = g
    <3>1. Own(r, g2, k) = {} /\ r.map[g2][k] = <<>>
      BY <2>1, <1>6, <1>11 DEF NothingOf
    <3>2. <<>> \in [{} -> {}]
      OBVIOUS
    <3>3. {r.name[c] : c \in {}} = {}
      OBVIOUS
    <3> QED BY <3>1, <3>2, <3>3 DEF TableOf
  <2>2. CASE g2 # g
    BY <2>2, <1>1, <1>3, <1>6, <1>11, TableSame DEF Tables
  <2> QED BY <2>1, <2>2
<1>13. Tables(r)
  BY <1>12 DEF Tables
<1>14. /\ Fit(r, A, W)
       /\ \A g2 \in Gs, k \in Kinds : Chain(r, g2, k) = Chain(s, g2, k) /\ Own(r, g2, k) = Own(s, g2, k)
  BY <1>9, <1>10, <1>13, RelabelFit
<1>15. \A k \in Kinds : DOMAIN r.map[g][k] = {}
  BY <1>6 DEF NothingOf
<1> QED BY <1>3, <1>14, <1>15 DEF r

\* Nodes deleted one after the other.
NodesDeleted(s, q) == FoldLeft(gn_delete, s, q)
NodesDeletedRun(f, base, q, n) ==
  /\ f[0] = base /\ f[n] = NodesDeleted(base, q)
  /\ \A k \in 1 .. n : f[k] = gn_delete(f[k - 1], q[k])

\* The states between two deletions.
LEMMA FoldNodeDeletes ==
  ASSUME NEW base, NEW q, NEW n \in Nat, DOMAIN q = 1 .. n
  PROVE  \E f : NodesDeletedRun(f, base, q, n)
<1> DEFINE apply(s, x) == gn_delete(s, x)
           step(f, T) == IF T = {} THEN base ELSE apply(f[T \ {Max(T)}], q[Max(T)])
           fold == CHOOSE f : f = [T \in SUBSET (1 .. n) |-> step(f, T)]
           Bad == {k \in 0 .. n : ~ \E f : f = [T \in SUBSET (1 .. k) |-> step(f, T)]}
<1>1. NodesDeleted(base, q) = fold[1 .. n]
  BY DEF NodesDeleted, FoldLeft, MapThenFoldSet
<1> HIDE DEF apply
<1>2. Bad = {}
  <2>1. SUFFICES ASSUME Bad # {} PROVE FALSE
    OBVIOUS
  <2>2. PICK k \in Bad : \A j \in Bad : k <= j
    <3>1. Bad \subseteq Nat
      OBVIOUS
    <3> HIDE DEF Bad
    <3> QED BY <2>1, <3>1, LeastOfNat
  <2>3. k \in 0 .. n /\ (~ \E f : f = [T \in SUBSET (1 .. k) |-> step(f, T)])
    BY <2>2
  <2>4. k # 0
    <3> DEFINE e == [T \in SUBSET (1 .. 0) |-> base]
    <3>1. \A T \in SUBSET (1 .. 0) : T = {}
      OBVIOUS
    <3>2. e = [T \in SUBSET (1 .. 0) |-> step(e, T)]
      BY <3>1
    <3> QED BY <2>3, <3>2
  <2>5. k - 1 \in 0 .. n /\ k - 1 \notin Bad
    <3>1. k - 1 \in 0 .. n /\ ~ (k <= k - 1)
      BY <2>3, <2>4
    <3> HIDE DEF Bad
    <3> QED BY <2>2, <3>1
  <2>6. PICK f : f = [T \in SUBSET (1 .. (k - 1)) |-> step(f, T)]
    BY <2>5
  <2> DEFINE m == [T \in SUBSET (1 .. k) |-> IF k \in T THEN apply(f[T \ {k}], q[k]) ELSE f[T]]
  <2>7. ASSUME NEW T \in SUBSET (1 .. k)
        PROVE  m[T] = step(m, T)
    <3>0. T \in SUBSET Nat /\ k \in Nat \ {0} /\ T \subseteq 0 .. k
      BY <2>3, <2>4
    <3>1. CASE k \in T
      <4>1. Max(T) = k
        BY <3>0, <3>1, MaxIs
      <4>2. T \ {k} \in SUBSET (1 .. k) /\ k \notin T \ {k} /\ T # {}
        BY <3>1
      <4> QED BY <3>1, <4>1, <4>2
    <3>2. CASE k \notin T
      <4>1. T \in SUBSET (1 .. (k - 1))
        BY <3>0, <3>2
      <4>2. m[T] = f[T]
        BY <3>2
      <4>3. f[T] = step(f, T)
        <5> HIDE DEF step
        <5> QED BY <4>1, <2>6
      <4>4. T # {} => T \ {Max(T)} \in SUBSET (1 .. k) /\ k \notin T \ {Max(T)}
        BY <3>2
      <4> QED BY <4>2, <4>3, <4>4
    <3> QED BY <3>1, <3>2
  <2>8. m = [T \in SUBSET (1 .. k) |-> step(m, T)]
    <3> HIDE DEF step
    <3> QED BY <2>7
  <2> QED BY <2>3, <2>8
<1>3. n \in 0 .. n
  OBVIOUS
<1>4. \E f : f = [T \in SUBSET (1 .. n) |-> step(f, T)]
  <2> HIDE DEF step
  <2> QED BY <1>2, <1>3
<1>5. fold = [T \in SUBSET (1 .. n) |-> step(fold, T)]
  <2> HIDE DEF step
  <2> QED BY <1>4
<1>6. \A T \in SUBSET (1 .. n) : fold[T] = step(fold, T)
  <2> HIDE DEF fold, step
  <2> QED BY <1>5
<1> HIDE DEF fold
<1> DEFINE r == [k \in 0 .. n |-> fold[1 .. k]]
<1>7. r[0] = base
  <2>1. 1 .. 0 = {} /\ 0 \in 0 .. n
    OBVIOUS
  <2> QED BY <2>1, <1>6
<1>8. ASSUME NEW k \in 1 .. n
      PROVE  r[k] = apply(r[k - 1], q[k])
  <2>1. Max(1 .. k) = k
    BY MaxSegment
  <2>2. (1 .. k) \ {k} = 1 .. (k - 1) /\ 1 .. k \in SUBSET (1 .. n) /\ 1 .. k # {} /\ k \in 0 .. n /\ k - 1 \in 0 .. n
    OBVIOUS
  <2>3. fold[1 .. k] = apply(fold[1 .. (k - 1)], q[k])
    BY <2>1, <2>2, <1>6
  <2> QED BY <2>2, <2>3
<1>9. r[n] = fold[1 .. n]
  OBVIOUS
<1> HIDE DEF r
<1>10. \A k \in 1 .. n : r[k] = apply(r[k - 1], q[k])
  BY <1>8
<1> QED BY <1>1, <1>7, <1>9, <1>10 DEF apply, NodesDeletedRun

\* r is s with but the nodes of q in graph g.
NodesLeft(s, r, g, q) ==
  /\ Knit(r, {}) /\ Chain(r, g, "nodes") = q /\ Headed(r, Chain(r, g, "nodes"))
  /\ \A g2 \in Gs : (g2 # g => Still(s, r, g2, "nodes")) /\ Own(r, g2, "arcs") \subseteq Own(s, g2, "arcs")

\* The first node of the list goes.
LEMMA FirstNodeGoes ==
  ASSUME NEW s, NEW r, NEW g \in Gs, NEW q, NodesLeft(s, r, g, q), q # <<>>
  PROVE  NodesLeft(s, gn_delete(r, q[1]), g, RemoveAt(q, 1))
<1> DEFINE c == q[1]
           t == gn_delete(r, c)
<1>k. "nodes" \in Kinds /\ "arcs" \in Kinds
  BY Pools
<1>1. Knit(r, {}) /\ Base(r) /\ Chain(r, g, "nodes") = q /\ Headed(r, q)
  BY DEF NodesLeft, Knit
<1>2. q \in Seq(GC) /\ \A i, j \in 1 .. Len(q) : q[i] = q[j] => i = j
  BY <1>1, <1>k, ChainList
<1>3. 1 \in 1 .. Len(q)
  BY <1>2
<1>4. BackAt(r, q, c)
  BY <1>1, <1>2, <1>3 DEF BackAt, Headed
<1>5. Knit(t, {}) /\ NodeWent(r, t, c, g, 1)
  <2>1. 1 \in 1 .. Len(Chain(r, g, "nodes")) /\ c = Chain(r, g, "nodes")[1] /\ BackAt(r, Chain(r, g, "nodes"), c)
    BY <1>1, <1>3, <1>4
  <2> HIDE DEF c
  <2> QED BY <2>1, <1>1, NodeGoes
<1> HIDE DEF t
<1>6. Chain(t, g, "nodes") = RemoveAt(q, 1) /\ Headed(t, Chain(t, g, "nodes"))
  BY <1>1, <1>5 DEF NodeWent
<1>7. \A g2 \in Gs : (g2 # g => Still(s, t, g2, "nodes")) /\ Own(t, g2, "arcs") \subseteq Own(s, g2, "arcs")
  BY <1>5, StillMore DEF NodeWent, NodesLeft
<1> QED BY <1>5, <1>6, <1>7 DEF NodesLeft, t

\* The rest after the first of a rest.
LEMMA RestOfRest ==
  ASSUME NEW X, NEW q \in Seq(X), NEW k \in 1 .. Len(q)
  PROVE  LET p == SubSeq(q, k, Len(q)) IN
         p # <<>> /\ p[1] = q[k] /\ RemoveAt(p, 1) = SubSeq(q, k + 1, Len(q))
<1> DEFINE n == Len(q)
           p == SubSeq(q, k, n)
           r == RemoveAt(p, 1)
           t == SubSeq(q, k + 1, n)
<1>1. n \in Nat /\ k \in 1 .. n /\ DOMAIN q = 1 .. n
  OBVIOUS
<1>2. p \in Seq(X) /\ Len(p) = n - k + 1 /\ \A i \in 1 .. n - k + 1 : p[i] = q[k + i - 1]
  OBVIOUS
<1>3. t \in Seq(X) /\ Len(t) = n - k /\ \A i \in 1 .. n - k : t[i] = q[k + i]
  OBVIOUS
<1> HIDE DEF n, p, t
<1>4. 1 \in 1 .. Len(p)
  BY <1>1, <1>2
<1>5. r \in Seq(X) /\ Len(r) = Len(p) - 1 /\ \A j \in 1 .. Len(r) : r[j] = IF j < 1 THEN p[j] ELSE p[j + 1]
  BY <1>2, <1>4, DropIs
<1> HIDE DEF r
<1>6. Len(r) = Len(t)
  BY <1>1, <1>2, <1>3, <1>5
<1>7. \A i \in 1 .. Len(r) : r[i] = t[i]
  <2>1. SUFFICES ASSUME NEW i \in 1 .. Len(r) PROVE r[i] = t[i]
    OBVIOUS
  <2>2. i \in 1 .. n - k /\ i + 1 \in 1 .. n - k + 1
    BY <1>1, <1>3, <1>6
  <2>3. r[i] = p[i + 1]
    BY <2>2, <1>1, <1>5
  <2>4. p[i + 1] = q[k + (i + 1) - 1] /\ t[i] = q[k + i]
    BY <2>2, <1>2, <1>3
  <2>5. k + (i + 1) - 1 = k + i
    BY <2>2, <1>1
  <2> QED BY <2>3, <2>4, <2>5
<1>8. r = t
  BY <1>3, <1>5, <1>6, <1>7, SeqEqual
<1>9. p # <<>> /\ p[1] = q[k]
  BY <1>1, <1>2, <1>4
<1> QED BY <1>8, <1>9 DEF r, p, t, n

\* All nodes of a graph, from the first on.
LEMMA NodesGo ==
  ASSUME NEW s, Knit(s, {}), NEW g \in Gs, Headed(s, Chain(s, g, "nodes"))
  PROVE  NodesLeft(s, NodesDeleted(s, Chain(s, g, "nodes")), g, <<>>)
<1> DEFINE q == Chain(s, g, "nodes")
           n == Len(q)
<1>1. q \in Seq(GC)
  BY ChainList, Pools DEF Knit
<1> HIDE DEF q
<1>2. n \in Nat /\ DOMAIN q = 1 .. n
  BY <1>1
<1> HIDE DEF n
<1>3. PICK f : NodesDeletedRun(f, s, q, n)
  BY <1>2, FoldNodeDeletes
<1>4. /\ f[0] = s /\ f[n] = NodesDeleted(s, q)
      /\ \A k \in 1 .. n : f[k] = gn_delete(f[k - 1], q[k])
  BY <1>3 DEF NodesDeletedRun
<1> DEFINE rest(k) == SubSeq(q, k + 1, n)
           T == {k \in 0 .. n : NodesLeft(s, f[k], g, rest(k))}
<1>5. 0 \in T
  <2>1. SubSeq(q, 1, Len(q)) = q /\ 0 + 1 = 1
    BY <1>1, RestIs
  <2>2. \A g2 \in Gs : Still(s, s, g2, "nodes")
    BY DEF Still
  <2>3. NodesLeft(s, s, g, q)
    BY <2>2 DEF NodesLeft, q
  <2>4. rest(0) = q
    BY <2>1 DEF n
  <2>6. 0 \in 0 .. n
    BY <1>2
  <2> HIDE DEF rest
  <2>5. NodesLeft(s, f[0], g, rest(0))
    BY <2>3, <2>4, <1>4
  <2> QED BY <2>5, <2>6
<1>6. ASSUME NEW k \in 1 .. n, k - 1 \in T PROVE k \in T
  <2> DEFINE r == f[k - 1]
             p == SubSeq(q, k, n)
  <2>1. NodesLeft(s, r, g, p) /\ k \in 0 .. n
    <3>1. (k - 1) + 1 = k /\ k \in 0 .. n
      BY <1>2
    <3> QED BY <3>1, <1>6
  <2>2. p # <<>> /\ p[1] = q[k] /\ RemoveAt(p, 1) = SubSeq(q, k + 1, n)
    BY <1>1, RestOfRest DEF n
  <2>3. f[k] = gn_delete(r, p[1])
    BY <2>2, <1>4
  <2> HIDE DEF r, p
  <2>4. NodesLeft(s, gn_delete(r, p[1]), g, RemoveAt(p, 1))
    BY <2>1, <2>2, FirstNodeGoes
  <2> QED BY <2>1, <2>2, <2>3, <2>4
<1>7. n \in T
  <2>1. n \in 0 .. n
    BY <1>2
  <2> HIDE DEF T
  <2> QED BY <2>1, <1>2, <1>5, <1>6, Stepwise
<1>8. SubSeq(q, n + 1, n) = <<>>
  BY <1>1, RestIs DEF n
<1> QED BY <1>4, <1>7, <1>8 DEF q

\* g_delete leaves nothing in its graph.
LEMMA DeleteFit ==
  ASSUME NEW s, NEW A, NEW W, Fit(s, A, W), NEW g \in Gs
  PROVE  Fit(g_delete(s, g), A \ {g}, W)
<1> DEFINE as == Chain(s, g, "arcs")
           r == ArcsDeleted(s, as)
           ns == Chain(s, g, "nodes")
           t == NodesDeleted(r, ns)
<1>k. "nodes" \in Kinds /\ "arcs" \in Kinds /\ Kinds = {"nodes", "arcs"}
  BY Pools
<1>1. g_delete(s, g) = g_new(t, g)
  BY DEF g_delete, ArcsDeleted, NodesDeleted
<1>2. Knit(s, {}) /\ Base(s)
  BY FitBase
<1>3. /\ as \in Seq(GC) /\ IsInjective(as) /\ ToSet(as) = Own(s, g, "arcs")
      /\ \A i \in 1 .. Len(as) : as[i] \in Own(s, g, "arcs")
  BY <1>2, <1>k, ChainList
<1> HIDE DEF as
<1>4. as \in Seq(GA) /\ ToSet(as) \subseteq Live(s, "arcs")
  <2>1. \A c \in Own(s, g, "arcs") : c \in GA /\ c \in Live(s, "arcs")
    BY Pools DEF Own, Live
  <2>2. \A i \in 1 .. Len(as) : as[i] \in GA
    BY <2>1, <1>3
  <2>3. as \in Seq(GA)
    BY <2>2, <1>3, InSeq
  <2> QED BY <2>1, <2>3, <1>3
<1>5. Knit(r, {}) /\ ArcsWent(s, r, ToSet(as))
  BY <1>2, <1>3, <1>4, ArcsGo
<1> HIDE DEF r
<1>6. Chain(r, g, "nodes") = ns
  BY <1>5 DEF ArcsWent, Still
<1>7. \A g2 \in Gs : Tied(r, W, g2)
  BY <1>2, <1>5, <1>k, BackStill DEF ArcsWent, Fit, Tied
<1>8. NodesLeft(r, t, g, <<>>)
  BY <1>5, <1>6, <1>7, NodesGo DEF Tied
<1> HIDE DEF t, ns
<1>9. Knit(t, {}) /\ Base(t) /\ Base(r)
  BY <1>5, <1>8 DEF NodesLeft, Knit
<1>10. \A g2 \in Gs : Tied(t, W, g2)
  <2>1. SUFFICES ASSUME NEW g2 \in Gs PROVE Tied(t, W, g2)
    OBVIOUS
  <2>2. CASE g2 = g
    BY <2>2, <1>8 DEF NodesLeft, Tied, Back
  <2>3. CASE g2 # g
    BY <2>3, <1>7, <1>8, <1>9, <1>k, BackStill DEF NodesLeft, Tied
  <2> QED BY <2>2, <2>3
<1>11. Own(t, g, "arcs") = {} /\ Own(t, g, "nodes") = {}
  <2>1. Own(r, g, "arcs") = {}
    BY <1>3, <1>5 DEF ArcsWent
  <2>2. Own(t, g, "arcs") = {}
    BY <2>1, <1>8 DEF NodesLeft
  <2>3. Chain(t, g, "nodes") = <<>> /\ ToSet(Chain(t, g, "nodes")) = Own(t, g, "nodes")
    BY <1>8, <1>9, <1>k, ChainList DEF NodesLeft
  <2>4. Own(t, g, "nodes") = {}
    BY <2>3 DEF ToSet
  <2> QED BY <2>2, <2>4
<1>12. \A g2 \in Gs \ (A \ {g}), k \in Kinds : Own(t, g2, k) = {}
  <2>1. SUFFICES ASSUME NEW g2 \in Gs \ (A \ {g}), NEW k \in Kinds PROVE Own(t, g2, k) = {}
    OBVIOUS
  <2>2. CASE g2 = g
    BY <2>2, <1>11, <1>k
  <2>3. CASE g2 # g
    <3>1. Own(s, g2, k) = {}
      BY <2>3 DEF Fit
    <3>2. Own(t, g2, "arcs") \subseteq Own(s, g2, "arcs")
      BY <1>5, <1>8 DEF NodesLeft, ArcsWent
    <3>3. Own(t, g2, "nodes") = Own(s, g2, "nodes")
      BY <2>3, <1>5, <1>8 DEF NodesLeft, ArcsWent, Still
    <3> QED BY <3>1, <3>2, <3>3, <1>k
  <2> QED BY <2>2, <2>3
<1>13. Fit(t, A \ {g}, W)
  BY <1>9, <1>10, <1>12 DEF Fit
<1>14. \A k \in Kinds : Own(t, g, k) = {}
  BY <1>11, <1>k
<1>15. Fit(g_new(t, g), A \ {g}, W)
  BY <1>13, <1>14, NewFit
<1> QED BY <1>1, <1>15

-----------------------------------------------------------------------------
(* Graphs that are exchanged *)

Other(g, d) == IF g = d THEN 0 ELSE IF g = 0 THEN d ELSE g

\* The table f of graphs with those of 0 and d exchanged is m.
ExchangedIn(f, d, m) == DOMAIN m = DOMAIN f /\ \A g \in Gs : m[g] = f[Other(g, d)]

\* A table exchanged twice over is that.
LEMMA ExchangeIs ==
  ASSUME NEW d \in Graph, NEW f, DOMAIN f = Gs
  PROVE  ExchangedIn(f, d, [f EXCEPT ![d] = f[0], ![0] = f[d]])
<1>1. d # 0 /\ 0 \in Gs /\ d \in Gs
  BY DEF Graph, Gs
<1> QED BY <1>1 DEF ExchangedIn, Other

\* Its type.
LEMMA ExchangeType ==
  ASSUME NEW d \in Graph, NEW Y, NEW f \in [Gs -> Y]
  PROVE  [f EXCEPT ![d] = f[0], ![0] = f[d]] \in [Gs -> Y]
BY DEF Graph, Gs

\* Who is exchanged with whom.
LEMMA OtherIs ==
  ASSUME NEW d \in Graph
  PROVE  /\ \A g \in Gs : Other(g, d) \in Gs /\ Other(Other(g, d), d) = g
         /\ \A g, g2 \in Gs : Other(g, d) = Other(g2, d) => g = g2
BY DEF Graph, Gs, Other

\* r is s with graph d and graph 0 exchanged.
SwapStep(s, r, d) ==
  /\ DOMAIN r = Fields
  /\ r.name = s.name /\ r.next = s.next /\ r.prev = s.prev /\ r.attr = s.attr
  /\ r.in = s.in /\ r.out = s.out /\ r.start = s.start /\ r.end = s.end
  /\ r.weight = s.weight
  /\ ExchangedIn(s.first, d, r.first) /\ ExchangedIn(s.n, d, r.n) /\ ExchangedIn(s.map, d, r.map)
  /\ ListType(r.first, r.n) /\ RestType(r.counter, r.gattr)
  /\ r.owner \in [GC -> Gs]
  /\ \A k \in Kinds : \A c \in Live(s, k) : r.owner[c] = Other(s.owner[c], d)
  /\ \A c \in GC : s.name[c] = NoName => r.owner[c] = 0

\* swap is that.
LEMMA SwapStepIs ==
  ASSUME NEW s, Base(s), NEW d \in Graph
  PROVE  SwapStep(s, swap(s, d), d)
<1> DEFINE of(g) == ToSet(Chain(s, g, "nodes") \o Chain(s, g, "arcs"))
           ex(f) == [f EXCEPT ![d] = f[0], ![0] = f[d]]
           r == swap(s, d)
<1>1. Shape(s) /\ DOMAIN s = Fields /\ ListType(s.first, s.n) /\ RestType(s.counter, s.gattr) /\ TableType(s.map)
      /\ BasicType(s.name, s.attr, s.owner) /\ Chained(s, Lists(s))
  BY DEF Base, Shape
<1>2. d # 0 /\ d \in Gs /\ 0 \in Gs
  BY DEF Graph, Gs
<1>3. /\ DOMAIN r = Fields
      /\ r.name = s.name /\ r.next = s.next /\ r.prev = s.prev /\ r.attr = s.attr
      /\ r.in = s.in /\ r.out = s.out /\ r.start = s.start /\ r.end = s.end
      /\ r.weight = s.weight /\ r.gattr = ex(s.gattr)
      /\ r.first = ex(s.first) /\ r.n = ex(s.n) /\ r.map = ex(s.map) /\ r.counter = ex(s.counter)
      /\ r.owner = [c \in GC |-> IF c \in of(0) THEN d ELSE IF c \in of(d) THEN 0 ELSE s.owner[c]]
  <2> DEFINE w == [c \in GC |-> IF c \in of(0) THEN d ELSE IF c \in of(d) THEN 0 ELSE s.owner[c]]
             f == ex(s.first)
             m == ex(s.map)
             n == ex(s.n)
             i == ex(s.counter)
             e == ex(s.gattr)
             t == [s EXCEPT !.first = f, !.n = n, !.map = m, !.counter = i, !.gattr = e, !.owner = w]
  <2>1. r = t
    BY DEF swap
  <2> HIDE DEF w, f, m, n, i, e, r
  <2>2. /\ DOMAIN t = Fields
        /\ t.name = s.name /\ t.next = s.next /\ t.prev = s.prev /\ t.attr = s.attr
        /\ t.in = s.in /\ t.out = s.out /\ t.start = s.start /\ t.end = s.end
        /\ t.weight = s.weight /\ t.gattr = e
        /\ t.first = f /\ t.n = n /\ t.map = m /\ t.counter = i /\ t.owner = w
    BY <1>1 DEF Fields
  <2> HIDE DEF t
  <2> QED BY <2>1, <2>2 DEF w, f, m, n, i, e
<1>4. ASSUME NEW g \in Gs PROVE of(g) = Own(s, g, "nodes") \cup Own(s, g, "arcs")
  <2> DEFINE p == Chain(s, g, "nodes")
             q == Chain(s, g, "arcs")
  <2>1. p \in Seq(GC) /\ q \in Seq(GC) /\ ToSet(p) = Own(s, g, "nodes") /\ ToSet(q) = Own(s, g, "arcs")
    BY ChainList, Pools
  <2> HIDE DEF p, q
  <2>2. ToSet(p \o q) = ToSet(p) \cup ToSet(q)
    <3>1. DOMAIN p = 1 .. Len(p) /\ DOMAIN q = 1 .. Len(q) /\ Len(p) \in Nat /\ Len(q) \in Nat
      BY <2>1
    <3>2. DOMAIN (p \o q) = 1 .. Len(p) + Len(q)
      BY <2>1, <3>1
    <3>3. \A i \in 1 .. Len(p) : (p \o q)[i] = p[i] /\ i \in 1 .. Len(p) + Len(q)
      BY <2>1, <3>1
    <3>4. \A i \in 1 .. Len(q) : (p \o q)[Len(p) + i] = q[i] /\ Len(p) + i \in 1 .. Len(p) + Len(q)
      BY <2>1, <3>1
    <3>5. \A i \in 1 .. Len(p) + Len(q) : (p \o q)[i] \in ToSet(p) \cup ToSet(q)
      <4>1. SUFFICES ASSUME NEW i \in 1 .. Len(p) + Len(q) PROVE (p \o q)[i] \in ToSet(p) \cup ToSet(q)
        OBVIOUS
      <4>2. CASE i <= Len(p)
        BY <4>2, <3>1, <3>3 DEF ToSet
      <4>3. CASE ~ (i <= Len(p))
        <5> DEFINE j == i - Len(p)
        <5>1. j \in 1 .. Len(q) /\ Len(p) + j = i
          BY <4>3, <3>1
        <5> HIDE DEF j
        <5> QED BY <5>1, <3>1, <3>4 DEF ToSet
      <4> QED BY <4>2, <4>3
    <3>6. ToSet(p) \subseteq ToSet(p \o q)
      BY <3>1, <3>2, <3>3 DEF ToSet
    <3>7. ToSet(q) \subseteq ToSet(p \o q)
      BY <3>1, <3>2, <3>4 DEF ToSet
    <3>8. ToSet(p \o q) \subseteq ToSet(p) \cup ToSet(q)
      <4> DEFINE Z == ToSet(p) \cup ToSet(q)
      <4> HIDE DEF Z
      <4> QED BY <3>2, <3>5 DEF ToSet, Z
    <3> QED BY <3>6, <3>7, <3>8
  <2> QED BY <2>1, <2>2 DEF p, q
<1>5. /\ ExchangedIn(s.first, d, r.first) /\ ExchangedIn(s.n, d, r.n) /\ ExchangedIn(s.map, d, r.map)
  <2>1. DOMAIN s.first = Gs /\ DOMAIN s.n = Gs /\ DOMAIN s.map = Gs
    BY <1>1 DEF ListType, TableType
  <2> QED BY <2>1, <1>3, ExchangeIs
<1>6. ListType(r.first, r.n)
  <2>1. s.first \in [Gs -> [Kinds -> GC \cup {0}]] /\ s.n \in [Gs -> [Kinds -> Int]]
    BY <1>1 DEF ListType
  <2>2. ex(s.first) \in [Gs -> [Kinds -> GC \cup {0}]]
    BY <2>1, ExchangeType
  <2>3. ex(s.n) \in [Gs -> [Kinds -> Int]]
    BY <2>1, ExchangeType
  <2> HIDE DEF ex, r
  <2> QED BY <2>2, <2>3, <1>3 DEF ListType
<1>7. RestType(r.counter, r.gattr)
  <2>1. s.counter \in [Gs -> [Kinds -> Nat]] /\ DOMAIN s.gattr = Gs
    BY <1>1 DEF RestType
  <2>2. ex(s.counter) \in [Gs -> [Kinds -> Nat]]
    BY <2>1, ExchangeType
  <2>3. DOMAIN ex(s.gattr) = Gs
    BY <2>1
  <2> HIDE DEF ex, r
  <2> QED BY <2>2, <2>3, <1>3 DEF RestType
<1>8. s.owner \in [GC -> Gs]
  BY <1>1 DEF BasicType
<1>9. r.owner = [c \in GC |-> IF c \in of(0) THEN d ELSE IF c \in of(d) THEN 0 ELSE s.owner[c]]
  BY <1>3
<1>10. of(0) = Own(s, 0, "nodes") \cup Own(s, 0, "arcs") /\ of(d) = Own(s, d, "nodes") \cup Own(s, d, "arcs")
  BY <1>2, <1>4
<1> HIDE DEF of, r
<1>11. r.owner \in [GC -> Gs]
  BY <1>2, <1>8, <1>9
<1>12. ASSUME NEW k \in Kinds, NEW c \in Live(s, k) PROVE r.owner[c] = Other(s.owner[c], d)
  <2>1. c \in GC /\ c \in Own(s, s.owner[c], k) /\ s.owner[c] \in Gs
    BY <1>1, Owned
  <2>2. c \in of(0) <=> s.owner[c] = 0
    BY <2>1, <1>10, Pools DEF Own
  <2>3. c \in of(d) <=> s.owner[c] = d
    BY <2>1, <1>10, Pools DEF Own
  <2> QED BY <2>1, <2>2, <2>3, <1>2, <1>9 DEF Other
<1>13. ASSUME NEW c \in GC, s.name[c] = NoName PROVE r.owner[c] = 0
  <2>1. c \notin of(0) /\ c \notin of(d) /\ s.owner[c] = 0
    BY <1>1, <1>10, <1>13 DEF Own, Live, Chained
  <2> QED BY <2>1, <1>9
<1> QED BY <1>3, <1>5, <1>6, <1>7, <1>11, <1>12, <1>13 DEF SwapStep, r

\* It stays when graphs are exchanged.
LEMMA SwapOver ==
  ASSUME NEW s, NEW A, NEW W, Fit(s, A, W), NEW d \in Graph, d \in A, 0 \in A
  PROVE  Fit(swap(s, d), A, {g \in Gs : Other(g, d) \in W})
<1> DEFINE r == swap(s, d)
           V == {g \in Gs : Other(g, d) \in W}
<1>1. Base(s) /\ Shape(s) /\ Tables(s) /\ Joined(s, {}) /\ Chained(s, Lists(s))
  BY FitBase DEF Base
<1>2. SwapStep(s, r, d)
  BY <1>1, SwapStepIs
<1> HIDE DEF r
<1>k. "nodes" \in Kinds /\ "arcs" \in Kinds /\ Kinds = {"nodes", "arcs"}
  BY Pools
<1>3. \A k \in Kinds : Live(r, k) = Live(s, k)
  BY <1>2 DEF Live, SwapStep
<1>4. ASSUME NEW g \in Gs PROVE Other(g, d) \in Gs /\ \A k \in Kinds : Own(r, g, k) = Own(s, Other(g, d), k)
  <2>1. Other(g, d) \in Gs /\ Other(Other(g, d), d) = g
    BY OtherIs
  <2>2. ASSUME NEW k \in Kinds PROVE Own(r, g, k) = Own(s, Other(g, d), k)
    <3>1. \A c \in Live(s, k) : s.owner[c] \in Gs /\ r.owner[c] = Other(s.owner[c], d)
      BY <1>1, <1>2, Owned DEF SwapStep
    <3>2. \A c \in Live(s, k) : r.owner[c] = g <=> s.owner[c] = Other(g, d)
      BY <3>1, <2>1, OtherIs
    <3> QED BY <3>2, <1>3 DEF Own
  <2> QED BY <2>1, <2>2
<1>5. Shape(r)
  <2>1. DOMAIN r.map = Gs /\ \A g \in Gs : DOMAIN r.map[g] = Kinds
    BY <1>1, <1>2, <1>4 DEF Shape, TableType, SwapStep, ExchangedIn
  <2>2. BasicType(r.name, r.attr, r.owner)
    BY <1>1, <1>2 DEF Shape, BasicType, SwapStep
  <2> QED BY <2>1, <2>2, <1>1, <1>2 DEF Shape, TableType, SwapStep
<1> DEFINE S == [g \in Gs |-> Lists(s)[Other(g, d)]]
<1>6. ASSUME NEW g \in Gs PROVE S[g] = Lists(s)[Other(g, d)]
  OBVIOUS
<1>7. S \in [Gs -> [Kinds -> Seq(GC)]]
  <2>1. Lists(s) \in [Gs -> [Kinds -> Seq(GC)]]
    BY <1>1 DEF Chained
  <2> QED BY <2>1, <1>4
<1> HIDE DEF S
<1>8. ASSUME NEW g \in Gs, NEW k \in Kinds PROVE ListOf(r, g, k, S[g][k])
  <2> DEFINE o == Other(g, d)
             q == Lists(s)[o][k]
  <2>1. o \in Gs /\ Own(r, g, k) = Own(s, o, k)
    BY <1>4
  <2>2. r.n[g] = s.n[o] /\ r.first[g] = s.first[o] /\ r.next = s.next
    BY <1>2 DEF SwapStep, ExchangedIn
  <2>3. S[g][k] = q
    BY <1>6
  <2> HIDE DEF o
  <2>4. ListOf(s, o, k, q)
    BY <1>1, <2>1 DEF Chained
  <2> HIDE DEF q
  <2>5. ListOf(r, g, k, q)
    BY <2>1, <2>2, <2>4 DEF ListOf
  <2> QED BY <2>3, <2>5
<1>9. Chained(r, S)
  <2>1. \A c \in GC : r.name[c] = NoName => r.next[c] = 0 /\ r.owner[c] = 0
    BY <1>1, <1>2 DEF Chained, SwapStep
  <2> QED BY <2>1, <1>7, <1>8 DEF Chained
<1>10. ASSUME NEW g \in Gs, NEW k \in Kinds PROVE TableOf(r, g, k)
  <2> DEFINE o == Other(g, d)
  <2>1. o \in Gs /\ Own(r, g, k) = Own(s, o, k)
    BY <1>4
  <2>2. r.map[g] = s.map[o] /\ r.name = s.name
    BY <1>2 DEF SwapStep, ExchangedIn
  <2> HIDE DEF o
  <2>3. TableOf(s, o, k)
    BY <2>1, <1>1 DEF Tables
  <2> QED BY <2>1, <2>2, <2>3 DEF TableOf
<1>11. Base(r) /\ S = Lists(r)
  <2>1. S = Lists(r) /\ Chained(r, Lists(r))
    BY <1>5, <1>9, ListsAre
  <2> QED BY <2>1, <1>5, <1>10 DEF Base, Tables
<1>12. ASSUME NEW g \in Gs, NEW k \in Kinds PROVE Chain(r, g, k) = Chain(s, Other(g, d), k) /\ Other(g, d) \in Gs
  <2>1. Lists(r)[g][k] = Chain(r, g, k) /\ Lists(s)[Other(g, d)][k] = Chain(s, Other(g, d), k)
    BY <1>1, <1>4, <1>11, ChainList
  <2> QED BY <2>1, <1>4, <1>6, <1>11
<1>13. \A g \in Gs : Back(r, Chain(r, g, "arcs")) /\ Tied(r, V, g)
  <2>1. SUFFICES ASSUME NEW g \in Gs PROVE Back(r, Chain(r, g, "arcs")) /\ Tied(r, V, g)
    OBVIOUS
  <2>2. Back(s, Chain(s, Other(g, d), "arcs")) /\ Tied(s, W, Other(g, d))
    BY <1>4 DEF Fit, Knit
  <2>3. r.prev = s.prev
    BY <1>2 DEF SwapStep
  <2> QED BY <2>2, <2>3, <1>12, <1>k DEF Back, Headed, Tied
<1>14. ArcEnds(r, {})
  <2>1. SUFFICES ASSUME NEW a \in Live(r, "arcs") PROVE EndOf(r, {}, a, r.start[a]) /\ EndOf(r, {}, a, r.end[a])
    BY DEF ArcEnds
  <2>2. a \in Live(s, "arcs") /\ Live(r, "nodes") = Live(s, "nodes") /\ r.start = s.start /\ r.end = s.end
    BY <1>2, <1>3, <1>k DEF SwapStep
  <2>3. EndOf(s, {}, a, s.start[a]) /\ EndOf(s, {}, a, s.end[a])
    BY <2>2, <1>1 DEF Joined, ArcEnds
  <2>4. \A n \in Live(s, "nodes") : r.owner[n] = Other(s.owner[n], d)
    BY <1>2, <1>k DEF SwapStep
  <2>5. r.owner[a] = Other(s.owner[a], d)
    BY <2>2, <1>2, <1>k DEF SwapStep
  <2> QED BY <2>2, <2>3, <2>4, <2>5 DEF EndOf
<1>15. \A n \in Live(r, "nodes") : Inlinks(r, n) /\ Outlinks(r, n)
  <2>1. Live(r, "nodes") = Live(s, "nodes") /\ Live(r, "arcs") = Live(s, "arcs")
    BY <1>3, <1>k
  <2>2. r.start = s.start /\ r.end = s.end /\ r.in = s.in /\ r.out = s.out
    BY <1>2 DEF SwapStep
  <2> QED BY <2>1, <2>2, <1>1 DEF Joined, Inlinks, Outlinks
<1>16. Joined(r, {})
  BY <1>14, <1>15 DEF Joined
<1>17. \A g \in Gs \ A, k \in Kinds : Own(r, g, k) = {}
  <2>1. SUFFICES ASSUME NEW g \in Gs \ A, NEW k \in Kinds PROVE Own(r, g, k) = {}
    OBVIOUS
  <2>2. Other(g, d) = g
    BY DEF Other
  <2> QED BY <2>2, <1>4 DEF Fit
<1> QED BY <1>11, <1>13, <1>16, <1>17 DEF Fit, Knit, r

\* What was made in graph 0, and linked back there, becomes graph d: what g_assign
\* and g_deserialize end with.
LEMMA TakenOver ==
  ASSUME NEW s, NEW A, NEW W, Fit(s, A \cup {0}, W), 0 \in W, 0 \notin A, NEW d \in Graph, d \in A
  PROVE  Fit(g_delete(swap(s, d), 0), A, W \cup {d})
<1> DEFINE r == swap(s, d)
           V == {g \in Gs : Other(g, d) \in W}
<1>1. Fit(r, A \cup {0}, V)
  BY SwapOver
<1> HIDE DEF r
<1>2. Fit(g_delete(r, 0), (A \cup {0}) \ {0}, V)
  BY <1>1, DeleteFit DEF Gs
<1>3. (A \cup {0}) \ {0} = A
  OBVIOUS
<1>4. \A g \in Gs : g \in W \cup {d} => g \in V \/ g \notin A
  BY DEF Other
<1> HIDE DEF V
<1>5. Fit(g_delete(r, 0), A, W \cup {d})
  BY <1>2, <1>3, <1>4, FitWider
<1> QED BY <1>5 DEF r

-----------------------------------------------------------------------------
(* Copies *)

\* r is s but for attributes, counters and the links back of nodes.
Repointed(s, r) == /\ Kept(s, r) /\ r.in = s.in /\ r.out = s.out
                   /\ r.start = s.start /\ r.end = s.end
                   /\ \A a \in GA : r.prev[a] = s.prev[a]

\* The links back of nodes are in nothing else.
LEMMA RepointedKnit ==
  ASSUME NEW s, Knit(s, {}), NEW r, Shape(r), Repointed(s, r)
  PROVE  /\ Knit(r, {}) /\ \A k \in Kinds : Live(r, k) = Live(s, k)
         /\ \A g \in Gs, k \in Kinds : Chain(r, g, k) = Chain(s, g, k) /\ Own(r, g, k) = Own(s, g, k)
         /\ \A g \in Gs : Still(s, r, g, "arcs")
<1>1. Base(s) /\ Joined(s, {}) /\ \A g \in Gs : Back(s, Chain(s, g, "arcs"))
  BY DEF Knit
<1>2. /\ Base(r) /\ \A k \in Kinds : Live(r, k) = Live(s, k)
      /\ \A g \in Gs, k \in Kinds : Own(r, g, k) = Own(s, g, k) /\ Chain(r, g, k) = Chain(s, g, k)
  BY <1>1, KeptLists DEF Repointed
<1>3. "arcs" \in Kinds /\ "nodes" \in Kinds /\ Pool("arcs") = GA
  BY Pools
<1>4. \A g \in Gs : Still(s, r, g, "arcs")
  <2>1. \A g \in Gs : \A d \in Own(s, g, "arcs") : r.prev[d] = s.prev[d] /\ r.name[d] = s.name[d]
    BY <1>3 DEF Own, Live, Repointed, Kept
  <2> QED BY <1>2, <1>3, <2>1 DEF Still
<1>5. \A g \in Gs : Back(r, Chain(r, g, "arcs"))
  BY <1>1, <1>3, <1>4, BackStill
<1>6. Live(r, "arcs") = Live(s, "arcs") /\ Live(r, "nodes") = Live(s, "nodes") /\ r.owner = s.owner
  BY <1>2, <1>3 DEF Repointed, Kept
<1>7. ArcEnds(r, {})
  BY <1>1, <1>6 DEF Joined, ArcEnds, EndOf, Repointed
<1>8. \A n \in Live(s, "nodes") : Inlinks(r, n) /\ Outlinks(r, n)
  BY <1>1, <1>6 DEF Joined, Inlinks, Outlinks, Repointed
<1>9. Joined(r, {})
  BY <1>6, <1>7, <1>8 DEF Joined
<1> QED BY <1>2, <1>4, <1>5, <1>9 DEF Knit

\* r is s with n, a copy of the node c of another graph, in graph 0.
NodeCopied(s, r, c, n) ==
  /\ Knit(r, {}) /\ Headed(r, Chain(r, 0, "nodes"))
  /\ Back(s, Chain(s, 0, "nodes")) => Back(r, Chain(r, 0, "nodes"))
  /\ Live(r, "arcs") = Live(s, "arcs") /\ r.start = s.start /\ r.end = s.end
  /\ \A g \in Gs : Still(s, r, g, "arcs")
  /\ \A g \in Gs \ {0} : Chain(r, g, "nodes") = Chain(s, g, "nodes") /\ Own(r, g, "nodes") = Own(s, g, "nodes")
  /\ \A g \in Gs \ {0} : \A d \in Own(s, g, "nodes") : r.name[d] = s.name[d] /\ (d # c => r.prev[d] = s.prev[d])
  /\ Own(r, 0, "nodes") = Own(s, 0, "nodes") \cup {n} /\ r.prev[c] = n
  /\ DOMAIN r.map[0]["nodes"] = DOMAIN s.map[0]["nodes"] \cup {s.name[c]}

\* DupNode is that.
LEMMA DupNodeIs ==
  ASSUME NEW s, Knit(s, {}), NEW i \in Nat \ {0}, HasRoom(s, "nodes", i), NEW g \in Graph,
         NEW c \in Own(s, g, "nodes"), s.name[c] \notin DOMAIN s.map[0]["nodes"]
  PROVE  LET r == DupNode(s, c) IN NodeCopied(s, r, c, Fresh(s, "nodes")) /\ HasRoom(r, "nodes", i - 1)
<1> DEFINE n == Fresh(s, "nodes")
           x == s.name[c]
           t == gn_new(s, 0, x)
           at == g_attr_dup(s.attr[c])
           r == [t EXCEPT !.prev[c] = n, !.attr[n] = at]
<1>0. DupNode(s, c) = r
  BY DEF DupNode
<1>k. "arcs" \in Kinds /\ "nodes" \in Kinds /\ 0 \in Gs /\ g \in Gs /\ g # 0
  BY Pools DEF Gs, Graph
<1>1. Base(s) /\ Shape(s)
  BY DEF Knit, Base
<1>2. c \in GN /\ c \in GC /\ x # NoName /\ c \in Live(s, "nodes") /\ s.owner[c] = g
  BY <1>1, <1>k, Owned, Pools
<1>3. Knit(t, {}) /\ NodeCame(s, t, n, 0, x) /\ HasRoom(t, "nodes", i - 1)
  BY <1>k, <1>2, NodeComes
<1>4. n \in GN /\ n \in GC /\ n # c
  BY <1>2, <1>3, Pools DEF NodeCame
<1>5. Shape(t) /\ DOMAIN t = Fields
  BY <1>3 DEF Knit, Base, Shape
<1>6. DOMAIN t.map[0]["nodes"] = DOMAIN s.map[0]["nodes"] \cup {x}
  BY <1>3, <1>k, NodeNames
<1> HIDE DEF t, n, at, x
<1>7. /\ DOMAIN r = Fields /\ Kept(t, r) /\ r.in = t.in /\ r.out = t.out /\ r.start = t.start /\ r.end = t.end
      /\ r.weight = t.weight /\ r.counter = t.counter /\ r.gattr = t.gattr
      /\ r.prev = [t.prev EXCEPT ![c] = n] /\ r.attr = [t.attr EXCEPT ![n] = at]
  BY <1>5 DEF Fields, Kept
<1> HIDE DEF r
<1>8. LinksType(t.next, t.prev) /\ BasicType(t.name, t.attr, t.owner)
  BY <1>5 DEF Shape
<1>9. LinksType(r.next, r.prev) /\ \A d \in GC : r.prev[d] = IF d = c THEN n ELSE t.prev[d]
  BY <1>2, <1>4, <1>7, <1>8 DEF LinksType, Kept
<1>10. BasicType(r.name, r.attr, r.owner)
  BY <1>7, <1>8 DEF BasicType, Kept
<1>11. Shape(r)
  BY <1>5, <1>7, <1>9, <1>10 DEF Shape, Kept
<1>12. \A a \in GA : a \in GC /\ a # c
  BY <1>2, Pools
<1>13. Repointed(t, r)
  BY <1>7, <1>9, <1>12 DEF Repointed
<1>14. /\ Knit(r, {}) /\ \A k \in Kinds : Live(r, k) = Live(t, k)
       /\ \A g2 \in Gs, k \in Kinds : Chain(r, g2, k) = Chain(t, g2, k) /\ Own(r, g2, k) = Own(t, g2, k)
       /\ \A g2 \in Gs : Still(t, r, g2, "arcs")
  BY <1>3, <1>11, <1>13, RepointedKnit
<1>15. Chain(r, 0, "nodes") = <<n>> \o Chain(s, 0, "nodes") /\ Headed(t, Chain(t, 0, "nodes")) /\ Chain(r, 0, "nodes") = Chain(t, 0, "nodes")
  BY <1>3, <1>14, <1>k DEF NodeCame
<1>16. Headed(r, Chain(r, 0, "nodes"))
  <2>1. Chain(s, 0, "nodes") \in Seq(GC)
    BY <1>1, <1>k, ChainList
  <2>2. Chain(r, 0, "nodes")[1] = n /\ Chain(r, 0, "nodes") # <<>>
    BY <2>1, <1>15, <1>4, ConsIs
  <2>3. t.prev[n] = 0
    BY <2>2, <1>15 DEF Headed
  <2>4. r.prev[n] = 0
    BY <2>3, <1>9, <1>4
  <2> QED BY <2>2, <2>4 DEF Headed
<1>17. Live(r, "arcs") = Live(s, "arcs") /\ r.start = s.start /\ r.end = s.end
  BY <1>3, <1>7, <1>14, <1>k DEF NodeCame
<1>18. \A g2 \in Gs : Still(s, r, g2, "arcs")
  BY <1>3, <1>14, StillMore DEF NodeCame
<1>19. \A g2 \in Gs \ {0} : Still(s, t, g2, "nodes")
  BY <1>3 DEF NodeCame
<1>20. \A g2 \in Gs \ {0} : Chain(r, g2, "nodes") = Chain(s, g2, "nodes") /\ Own(r, g2, "nodes") = Own(s, g2, "nodes")
  BY <1>14, <1>19, <1>k DEF Still
<1>21. ASSUME NEW g2 \in Gs \ {0}, NEW d \in Own(s, g2, "nodes")
       PROVE  r.name[d] = s.name[d] /\ (d # c => r.prev[d] = s.prev[d])
  <2>1. d \in GC
    BY <1>1, <1>k, Owned
  <2>2. t.name[d] = s.name[d] /\ t.prev[d] = s.prev[d]
    BY <1>19 DEF Still
  <2> QED BY <2>1, <2>2, <1>7, <1>9 DEF Kept
<1>22. Own(r, 0, "nodes") = Own(s, 0, "nodes") \cup {n} /\ r.prev[c] = n
  BY <1>2, <1>3, <1>9, <1>14, <1>k DEF NodeCame
<1>23. DOMAIN r.map[0]["nodes"] = DOMAIN s.map[0]["nodes"] \cup {s.name[c]}
  BY <1>6, <1>7 DEF Kept, x
<1>26. ASSUME Back(s, Chain(s, 0, "nodes")) PROVE Back(r, Chain(r, 0, "nodes"))
  <2> DEFINE q == Chain(t, 0, "nodes")
  <2>1. Back(t, q)
    BY <1>3, <1>26 DEF NodeCame
  <2>2. \A l \in 1 .. Len(q) : q[l] \in Own(t, 0, "nodes") /\ q[l] \in GC
    <3>1. Base(t)
      BY <1>3 DEF Knit
    <3> QED BY <3>1, <1>k, ChainList
  <2>3. t.owner[c] = g
    BY <1>2, <1>3, <1>4 DEF NodeCame
  <2> HIDE DEF q
  <2>4. \A l \in 1 .. Len(q) : r.prev[q[l]] = t.prev[q[l]]
    BY <2>2, <2>3, <1>9, <1>k DEF Own
  <2>5. Back(r, q)
    BY <2>1, <2>4 DEF Back
  <2> QED BY <2>5, <1>15 DEF q
<1>24. NodeCopied(s, r, c, n)
  BY <1>14, <1>16, <1>17, <1>18, <1>20, <1>21, <1>22, <1>23, <1>26 DEF NodeCopied
<1>25. HasRoom(r, "nodes", i - 1)
  BY <1>3, <1>14, <1>k DEF HasRoom
<1> QED BY <1>0, <1>24, <1>25 DEF n

\* Nodes copied one after the other.
NodesCopied(s, q) == FoldLeft(DupNode, s, q)
NodesCopiedRun(f, base, q, n) ==
  /\ f[0] = base /\ f[n] = NodesCopied(base, q)
  /\ \A k \in 1 .. n : f[k] = DupNode(f[k - 1], q[k])

\* The states between two copies.
LEMMA FoldNodeCopies ==
  ASSUME NEW base, NEW q, NEW n \in Nat, DOMAIN q = 1 .. n
  PROVE  \E f : NodesCopiedRun(f, base, q, n)
<1> DEFINE apply(s, x) == DupNode(s, x)
           step(f, T) == IF T = {} THEN base ELSE apply(f[T \ {Max(T)}], q[Max(T)])
           fold == CHOOSE f : f = [T \in SUBSET (1 .. n) |-> step(f, T)]
           Bad == {k \in 0 .. n : ~ \E f : f = [T \in SUBSET (1 .. k) |-> step(f, T)]}
<1>1. NodesCopied(base, q) = fold[1 .. n]
  BY DEF NodesCopied, FoldLeft, MapThenFoldSet
<1> HIDE DEF apply
<1>2. Bad = {}
  <2>1. SUFFICES ASSUME Bad # {} PROVE FALSE
    OBVIOUS
  <2>2. PICK k \in Bad : \A j \in Bad : k <= j
    <3>1. Bad \subseteq Nat
      OBVIOUS
    <3> HIDE DEF Bad
    <3> QED BY <2>1, <3>1, LeastOfNat
  <2>3. k \in 0 .. n /\ (~ \E f : f = [T \in SUBSET (1 .. k) |-> step(f, T)])
    BY <2>2
  <2>4. k # 0
    <3> DEFINE e == [T \in SUBSET (1 .. 0) |-> base]
    <3>1. \A T \in SUBSET (1 .. 0) : T = {}
      OBVIOUS
    <3>2. e = [T \in SUBSET (1 .. 0) |-> step(e, T)]
      BY <3>1
    <3> QED BY <2>3, <3>2
  <2>5. k - 1 \in 0 .. n /\ k - 1 \notin Bad
    <3>1. k - 1 \in 0 .. n /\ ~ (k <= k - 1)
      BY <2>3, <2>4
    <3> HIDE DEF Bad
    <3> QED BY <2>2, <3>1
  <2>6. PICK f : f = [T \in SUBSET (1 .. (k - 1)) |-> step(f, T)]
    BY <2>5
  <2> DEFINE m == [T \in SUBSET (1 .. k) |-> IF k \in T THEN apply(f[T \ {k}], q[k]) ELSE f[T]]
  <2>7. ASSUME NEW T \in SUBSET (1 .. k)
        PROVE  m[T] = step(m, T)
    <3>0. T \in SUBSET Nat /\ k \in Nat \ {0} /\ T \subseteq 0 .. k
      BY <2>3, <2>4
    <3>1. CASE k \in T
      <4>1. Max(T) = k
        BY <3>0, <3>1, MaxIs
      <4>2. T \ {k} \in SUBSET (1 .. k) /\ k \notin T \ {k} /\ T # {}
        BY <3>1
      <4> QED BY <3>1, <4>1, <4>2
    <3>2. CASE k \notin T
      <4>1. T \in SUBSET (1 .. (k - 1))
        BY <3>0, <3>2
      <4>2. m[T] = f[T]
        BY <3>2
      <4>3. f[T] = step(f, T)
        <5> HIDE DEF step
        <5> QED BY <4>1, <2>6
      <4>4. T # {} => T \ {Max(T)} \in SUBSET (1 .. k) /\ k \notin T \ {Max(T)}
        BY <3>2
      <4> QED BY <4>2, <4>3, <4>4
    <3> QED BY <3>1, <3>2
  <2>8. m = [T \in SUBSET (1 .. k) |-> step(m, T)]
    <3> HIDE DEF step
    <3> QED BY <2>7
  <2> QED BY <2>3, <2>8
<1>3. n \in 0 .. n
  OBVIOUS
<1>4. \E f : f = [T \in SUBSET (1 .. n) |-> step(f, T)]
  <2> HIDE DEF step
  <2> QED BY <1>2, <1>3
<1>5. fold = [T \in SUBSET (1 .. n) |-> step(fold, T)]
  <2> HIDE DEF step
  <2> QED BY <1>4
<1>6. \A T \in SUBSET (1 .. n) : fold[T] = step(fold, T)
  <2> HIDE DEF fold, step
  <2> QED BY <1>5
<1> HIDE DEF fold
<1> DEFINE r == [k \in 0 .. n |-> fold[1 .. k]]
<1>7. r[0] = base
  <2>1. 1 .. 0 = {} /\ 0 \in 0 .. n
    OBVIOUS
  <2> QED BY <2>1, <1>6
<1>8. ASSUME NEW k \in 1 .. n
      PROVE  r[k] = apply(r[k - 1], q[k])
  <2>1. Max(1 .. k) = k
    BY MaxSegment
  <2>2. (1 .. k) \ {k} = 1 .. (k - 1) /\ 1 .. k \in SUBSET (1 .. n) /\ 1 .. k # {} /\ k \in 0 .. n /\ k - 1 \in 0 .. n
    OBVIOUS
  <2>3. fold[1 .. k] = apply(fold[1 .. (k - 1)], q[k])
    BY <2>1, <2>2, <1>6
  <2> QED BY <2>2, <2>3
<1>9. r[n] = fold[1 .. n]
  OBVIOUS
<1> HIDE DEF r
<1>10. \A k \in 1 .. n : r[k] = apply(r[k - 1], q[k])
  BY <1>8
<1> QED BY <1>1, <1>7, <1>9, <1>10 DEF apply, NodesCopiedRun

\* Arcs copied one after the other.
ArcsCopied(s, q) == FoldLeft(DupArc, s, q)
ArcsCopiedRun(f, base, q, n) ==
  /\ f[0] = base /\ f[n] = ArcsCopied(base, q)
  /\ \A k \in 1 .. n : f[k] = DupArc(f[k - 1], q[k])

\* The states between two copies.
LEMMA FoldArcCopies ==
  ASSUME NEW base, NEW q, NEW n \in Nat, DOMAIN q = 1 .. n
  PROVE  \E f : ArcsCopiedRun(f, base, q, n)
<1> DEFINE apply(s, x) == DupArc(s, x)
           step(f, T) == IF T = {} THEN base ELSE apply(f[T \ {Max(T)}], q[Max(T)])
           fold == CHOOSE f : f = [T \in SUBSET (1 .. n) |-> step(f, T)]
           Bad == {k \in 0 .. n : ~ \E f : f = [T \in SUBSET (1 .. k) |-> step(f, T)]}
<1>1. ArcsCopied(base, q) = fold[1 .. n]
  BY DEF ArcsCopied, FoldLeft, MapThenFoldSet
<1> HIDE DEF apply
<1>2. Bad = {}
  <2>1. SUFFICES ASSUME Bad # {} PROVE FALSE
    OBVIOUS
  <2>2. PICK k \in Bad : \A j \in Bad : k <= j
    <3>1. Bad \subseteq Nat
      OBVIOUS
    <3> HIDE DEF Bad
    <3> QED BY <2>1, <3>1, LeastOfNat
  <2>3. k \in 0 .. n /\ (~ \E f : f = [T \in SUBSET (1 .. k) |-> step(f, T)])
    BY <2>2
  <2>4. k # 0
    <3> DEFINE e == [T \in SUBSET (1 .. 0) |-> base]
    <3>1. \A T \in SUBSET (1 .. 0) : T = {}
      OBVIOUS
    <3>2. e = [T \in SUBSET (1 .. 0) |-> step(e, T)]
      BY <3>1
    <3> QED BY <2>3, <3>2
  <2>5. k - 1 \in 0 .. n /\ k - 1 \notin Bad
    <3>1. k - 1 \in 0 .. n /\ ~ (k <= k - 1)
      BY <2>3, <2>4
    <3> HIDE DEF Bad
    <3> QED BY <2>2, <3>1
  <2>6. PICK f : f = [T \in SUBSET (1 .. (k - 1)) |-> step(f, T)]
    BY <2>5
  <2> DEFINE m == [T \in SUBSET (1 .. k) |-> IF k \in T THEN apply(f[T \ {k}], q[k]) ELSE f[T]]
  <2>7. ASSUME NEW T \in SUBSET (1 .. k)
        PROVE  m[T] = step(m, T)
    <3>0. T \in SUBSET Nat /\ k \in Nat \ {0} /\ T \subseteq 0 .. k
      BY <2>3, <2>4
    <3>1. CASE k \in T
      <4>1. Max(T) = k
        BY <3>0, <3>1, MaxIs
      <4>2. T \ {k} \in SUBSET (1 .. k) /\ k \notin T \ {k} /\ T # {}
        BY <3>1
      <4> QED BY <3>1, <4>1, <4>2
    <3>2. CASE k \notin T
      <4>1. T \in SUBSET (1 .. (k - 1))
        BY <3>0, <3>2
      <4>2. m[T] = f[T]
        BY <3>2
      <4>3. f[T] = step(f, T)
        <5> HIDE DEF step
        <5> QED BY <4>1, <2>6
      <4>4. T # {} => T \ {Max(T)} \in SUBSET (1 .. k) /\ k \notin T \ {Max(T)}
        BY <3>2
      <4> QED BY <4>2, <4>3, <4>4
    <3> QED BY <3>1, <3>2
  <2>8. m = [T \in SUBSET (1 .. k) |-> step(m, T)]
    <3> HIDE DEF step
    <3> QED BY <2>7
  <2> QED BY <2>3, <2>8
<1>3. n \in 0 .. n
  OBVIOUS
<1>4. \E f : f = [T \in SUBSET (1 .. n) |-> step(f, T)]
  <2> HIDE DEF step
  <2> QED BY <1>2, <1>3
<1>5. fold = [T \in SUBSET (1 .. n) |-> step(fold, T)]
  <2> HIDE DEF step
  <2> QED BY <1>4
<1>6. \A T \in SUBSET (1 .. n) : fold[T] = step(fold, T)
  <2> HIDE DEF fold, step
  <2> QED BY <1>5
<1> HIDE DEF fold
<1> DEFINE r == [k \in 0 .. n |-> fold[1 .. k]]
<1>7. r[0] = base
  <2>1. 1 .. 0 = {} /\ 0 \in 0 .. n
    OBVIOUS
  <2> QED BY <2>1, <1>6
<1>8. ASSUME NEW k \in 1 .. n
      PROVE  r[k] = apply(r[k - 1], q[k])
  <2>1. Max(1 .. k) = k
    BY MaxSegment
  <2>2. (1 .. k) \ {k} = 1 .. (k - 1) /\ 1 .. k \in SUBSET (1 .. n) /\ 1 .. k # {} /\ k \in 0 .. n /\ k - 1 \in 0 .. n
    OBVIOUS
  <2>3. fold[1 .. k] = apply(fold[1 .. (k - 1)], q[k])
    BY <2>1, <2>2, <1>6
  <2> QED BY <2>2, <2>3
<1>9. r[n] = fold[1 .. n]
  OBVIOUS
<1> HIDE DEF r
<1>10. \A k \in 1 .. n : r[k] = apply(r[k - 1], q[k])
  BY <1>8
<1> QED BY <1>1, <1>7, <1>9, <1>10 DEF apply, ArcsCopiedRun

\* s is b with copies of the first i of the nodes q, the list of g, in graph 0.
Copying(b, s, g, q, i) ==
  /\ Knit(s, {}) /\ Headed(s, Chain(s, 0, "nodes")) /\ Back(s, Chain(s, 0, "nodes"))
  /\ Live(s, "arcs") = Live(b, "arcs") /\ s.start = b.start /\ s.end = b.end
  /\ \A g2 \in Gs : Still(b, s, g2, "arcs") /\ (g2 \notin {0, g} => Still(b, s, g2, "nodes"))
  /\ Chain(s, g, "nodes") = q /\ Own(s, g, "nodes") = Own(b, g, "nodes")
  /\ \A d \in Own(b, g, "nodes") : s.name[d] = b.name[d]
  /\ DOMAIN s.map[0]["nodes"] = {b.name[q[j]] : j \in 1 .. i}
  /\ \A j \in 1 .. i : s.prev[q[j]] \in Own(s, 0, "nodes")

\* One node more.
LEMMA CopyingMore ==
  ASSUME NEW b, Base(b), NEW g \in Graph, NEW q, q = Chain(b, g, "nodes"), NEW i \in 1 .. Len(q),
         NEW s, Copying(b, s, g, q, i - 1), NEW j \in Nat \ {0}, HasRoom(s, "nodes", j)
  PROVE  LET r == DupNode(s, q[i]) IN Copying(b, r, g, q, i) /\ HasRoom(r, "nodes", j - 1)
<1>k. "arcs" \in Kinds /\ "nodes" \in Kinds /\ 0 \in Gs /\ g \in Gs /\ g # 0
  BY Pools DEF Gs, Graph
<1> DEFINE c == q[i]
           n == Fresh(s, "nodes")
           r == DupNode(s, c)
<1>1. /\ Len(q) \in Nat /\ \A l \in 1 .. Len(q) : q[l] \in Own(b, g, "nodes") /\ q[l] \in GC
      /\ \A l, m \in 1 .. Len(q) : q[l] = q[m] => l = m
  BY <1>k, ChainList
<1>2. Tables(b)
  BY DEF Base
<1>3. c \in Own(s, g, "nodes") /\ s.name[c] = b.name[c] /\ c \in Own(b, g, "nodes")
  BY <1>1 DEF Copying
<1>4. \A l \in 1 .. (i - 1) : q[l] \in Own(b, g, "nodes") /\ q[l] # c
  BY <1>1
<1>5. s.name[c] \notin DOMAIN s.map[0]["nodes"]
  <2>1. \A l \in 1 .. (i - 1) : b.name[q[l]] # b.name[c]
    BY <1>2, <1>3, <1>4, <1>k, FoundIs
  <2> QED BY <2>1, <1>3 DEF Copying
<1>6. Knit(s, {})
  BY DEF Copying
<1>7. NodeCopied(s, r, c, n) /\ HasRoom(r, "nodes", j - 1)
  BY <1>3, <1>5, <1>6, DupNodeIs
<1> HIDE DEF r, n, c
<1>8. Knit(r, {}) /\ Headed(r, Chain(r, 0, "nodes")) /\ Back(r, Chain(r, 0, "nodes"))
  BY <1>7 DEF NodeCopied, Copying
<1>9. Live(r, "arcs") = Live(b, "arcs") /\ r.start = b.start /\ r.end = b.end
  BY <1>7 DEF NodeCopied, Copying
<1>10. \A g2 \in Gs : Still(b, r, g2, "arcs")
  BY <1>7, StillMore DEF NodeCopied, Copying
<1>11. ASSUME NEW g2 \in Gs, g2 \notin {0, g} PROVE Still(b, r, g2, "nodes")
  <2>1. Still(b, s, g2, "nodes")
    BY <1>11 DEF Copying
  <2>2. \A d \in Own(s, g2, "nodes") : d # c
    BY <1>3, <1>11 DEF Own
  <2>3. Still(s, r, g2, "nodes")
    BY <2>2, <1>7, <1>11 DEF NodeCopied, Still
  <2> QED BY <2>1, <2>3, StillMore
<1>12. Chain(r, g, "nodes") = q /\ Own(r, g, "nodes") = Own(b, g, "nodes")
  BY <1>7, <1>k DEF NodeCopied, Copying
<1>13. \A d \in Own(b, g, "nodes") : r.name[d] = b.name[d]
  BY <1>7, <1>k DEF NodeCopied, Copying
<1>14. 1 .. i = (1 .. (i - 1)) \cup {i}
  BY <1>1
<1>15. DOMAIN r.map[0]["nodes"] = {b.name[q[l]] : l \in 1 .. i}
  <2>1. DOMAIN r.map[0]["nodes"] = {b.name[q[l]] : l \in 1 .. (i - 1)} \cup {b.name[c]}
    BY <1>3, <1>7 DEF NodeCopied, Copying
  <2> QED BY <2>1, <1>14 DEF c
<1>16. ASSUME NEW l \in 1 .. i PROVE r.prev[q[l]] \in Own(r, 0, "nodes")
  <2>1. CASE l = i
    BY <2>1, <1>7 DEF NodeCopied, c
  <2>2. CASE l # i
    <3>1. l \in 1 .. (i - 1)
      BY <2>2, <1>14
    <3>2. q[l] # c /\ q[l] \in Own(s, g, "nodes") /\ s.prev[q[l]] \in Own(s, 0, "nodes")
      BY <3>1, <1>4 DEF Copying
    <3>3. r.prev[q[l]] = s.prev[q[l]]
      BY <3>2, <1>7, <1>k DEF NodeCopied
    <3> QED BY <3>2, <3>3, <1>7 DEF NodeCopied
  <2> QED BY <2>1, <2>2
<1>17. Copying(b, r, g, q, i)
  BY <1>8, <1>9, <1>10, <1>11, <1>12, <1>13, <1>15, <1>16 DEF Copying
<1> QED BY <1>7, <1>17 DEF r, c

\* All nodes of g.
LEMMA NodesCopiedIs ==
  ASSUME NEW b, NEW A, NEW W, Fit(b, A, W), 0 \in W, NEW g \in Graph, NEW q, q = Chain(b, g, "nodes"),
         HasRoom(b, "nodes", Len(q)), \A k \in Kinds : DOMAIN b.map[0][k] = {}
  PROVE  Copying(b, NodesCopied(b, q), g, q, Len(q))
<1>k. "arcs" \in Kinds /\ "nodes" \in Kinds /\ 0 \in Gs /\ g \in Gs /\ g # 0
  BY Pools DEF Gs, Graph
<1>1. Knit(b, {}) /\ Base(b) /\ Headed(b, Chain(b, 0, "nodes")) /\ Back(b, Chain(b, 0, "nodes"))
  BY <1>k, FitBase DEF Fit, Tied
<1> DEFINE n == Len(q)
<1>2. n \in Nat /\ DOMAIN q = 1 .. n
  BY <1>1, <1>k, ChainList
<1>3. HasRoom(b, "nodes", n)
  OBVIOUS
<1>4. n = Len(q)
  OBVIOUS
<1> HIDE DEF n
<1>5. PICK f : NodesCopiedRun(f, b, q, n)
  BY <1>2, FoldNodeCopies
<1>6. f[0] = b /\ f[n] = NodesCopied(b, q) /\ \A k \in 1 .. n : f[k] = DupNode(f[k - 1], q[k])
  BY <1>5 DEF NodesCopiedRun
<1> DEFINE T == {k \in 0 .. n : Copying(b, f[k], g, q, k) /\ HasRoom(f[k], "nodes", n - k)}
<1>7. 0 \in T
  <2>1. {b.name[q[j]] : j \in 1 .. 0} = {} /\ \A j \in 1 .. 0 : FALSE
    OBVIOUS
  <2>2. \A g2 \in Gs : Still(b, b, g2, "arcs") /\ Still(b, b, g2, "nodes")
    BY DEF Still
  <2>3. Copying(b, b, g, q, 0)
    BY <2>1, <2>2, <1>1, <1>k DEF Copying
  <2>4. n - 0 = n /\ 0 \in 0 .. n
    BY <1>2
  <2> QED BY <2>3, <2>4, <1>3, <1>6
<1>8. ASSUME NEW k \in 1 .. n, k - 1 \in T PROVE k \in T
  <2> DEFINE s == f[k - 1]
             j == n - (k - 1)
  <2>1. Copying(b, s, g, q, k - 1) /\ HasRoom(s, "nodes", j)
    BY <1>8
  <2>2. j \in Nat \ {0} /\ j - 1 = n - k /\ k \in 0 .. n /\ k \in 1 .. Len(q)
    BY <1>2, <1>4
  <2>3. f[k] = DupNode(s, q[k])
    BY <1>6
  <2> HIDE DEF s, j
  <2>4. Copying(b, DupNode(s, q[k]), g, q, k) /\ HasRoom(DupNode(s, q[k]), "nodes", j - 1)
    BY <2>1, <2>2, <1>1, CopyingMore
  <2> QED BY <2>2, <2>3, <2>4
<1>9. \A k \in 0 .. n : k \in T
  <2> HIDE DEF T
  <2> QED BY <1>2, <1>7, <1>8, Stepwise
<1>10. n \in 0 .. n
  BY <1>2
<1>11. n \in T
  <2> HIDE DEF T
  <2> QED BY <1>9, <1>10
<1> QED BY <1>4, <1>6, <1>11

\* s is b with copies of the first i of the arcs q, the list of g, in graph 0.
ArcsCopying(b, s, g, q, i) ==
  /\ Knit(s, {})
  /\ \A g2 \in Gs : Still(b, s, g2, "nodes") /\ (g2 # 0 => Still(b, s, g2, "arcs"))
  /\ \A j \in 1 .. Len(q) : s.start[q[j]] = b.start[q[j]] /\ s.end[q[j]] = b.end[q[j]]
  /\ DOMAIN s.map[0]["arcs"] = {b.name[q[j]] : j \in 1 .. i}

\* A copy of an arc, between nodes of graph 0.
LEMMA DupArcIs ==
  ASSUME NEW s, Knit(s, {}), NEW i \in Nat \ {0}, HasRoom(s, "arcs", i), NEW c \in Live(s, "arcs"),
         s.prev[s.start[c]] \in Own(s, 0, "nodes"), s.prev[s.end[c]] \in Own(s, 0, "nodes"),
         s.name[c] \notin DOMAIN s.map[0]["arcs"]
  PROVE  LET r == DupArc(s, c) IN
         /\ Knit(r, {}) /\ HasRoom(r, "arcs", i - 1)
         /\ \A g2 \in Gs : Still(s, r, g2, "nodes") /\ (g2 # 0 => Still(s, r, g2, "arcs"))
         /\ \A a \in Live(s, "arcs") : r.start[a] = s.start[a] /\ r.end[a] = s.end[a]
         /\ DOMAIN r.map[0]["arcs"] = DOMAIN s.map[0]["arcs"] \cup {s.name[c]}
<1>k. "arcs" \in Kinds /\ "nodes" \in Kinds /\ 0 \in Gs /\ Pool("arcs") = GA
  BY Pools DEF Gs
<1> DEFINE a == Fresh(s, "arcs")
           x == s.name[c]
           m == s.prev[s.start[c]]
           n == s.prev[s.end[c]]
           t == ga_new(s, 0, x, m, n)
           w == s.weight[c]
           at == g_attr_dup(s.attr[c])
           r == [t EXCEPT !.weight[a] = w, !.attr[a] = at]
<1>0. DupArc(s, c) = r
  BY DEF DupArc
<1>1. x # NoName /\ x \notin DOMAIN s.map[0]["arcs"] /\ m \in Own(s, 0, "nodes") /\ n \in Own(s, 0, "nodes")
  BY DEF Live
<1> HIDE DEF x, m, n
<1>2. Knit(t, {}) /\ ArcCame(s, t, a, 0, x) /\ HasRoom(t, "arcs", i - 1)
  BY <1>k, <1>1, ArcComes
<1>3. Shape(t) /\ DOMAIN t = Fields
  BY <1>2 DEF Knit, Base, Shape
<1>4. DOMAIN t.map[0]["arcs"] = DOMAIN s.map[0]["arcs"] \cup {x}
  BY <1>2, <1>k, ArcNames
<1> HIDE DEF t, a, w, at
<1>5. /\ DOMAIN r = Fields /\ Kept(t, r) /\ r.in = t.in /\ r.out = t.out /\ r.start = t.start /\ r.end = t.end
      /\ r.counter = t.counter /\ r.gattr = t.gattr /\ r.prev = t.prev
      /\ r.weight = [t.weight EXCEPT ![a] = w] /\ r.attr = [t.attr EXCEPT ![a] = at]
  BY <1>3 DEF Fields, Kept
<1> HIDE DEF r
<1>6. BasicType(r.name, r.attr, r.owner) /\ ArcType(r.start, r.end, r.weight)
  BY <1>3, <1>5 DEF Shape, BasicType, ArcType, Kept
<1>7. Shape(r)
  BY <1>3, <1>5, <1>6 DEF Shape, Kept
<1>8. AsLinked(t, r)
  BY <1>2, <1>5, <1>7, ApartKnit DEF Apart
<1>9. \A g2 \in Gs : Still(s, r, g2, "nodes") /\ (g2 # 0 => Still(s, r, g2, "arcs"))
  BY <1>2, <1>8, <1>k, StillMore DEF ArcCame, AsLinked
<1>10. \A b \in Live(s, "arcs") : r.start[b] = s.start[b] /\ r.end[b] = s.end[b]
  <2>1. \A b \in Live(s, "arcs") : b \in GA /\ b # a
    BY <1>2, <1>k DEF Live, ArcCame
  <2> QED BY <2>1, <1>2, <1>5 DEF ArcCame
<1>11. HasRoom(r, "arcs", i - 1)
  BY <1>2, <1>8, <1>k DEF HasRoom, AsLinked
<1>12. DOMAIN r.map[0]["arcs"] = DOMAIN s.map[0]["arcs"] \cup {s.name[c]}
  BY <1>4, <1>5 DEF Kept, x
<1>13. Knit(r, {})
  BY <1>8 DEF AsLinked
<1> QED BY <1>0, <1>9, <1>10, <1>11, <1>12, <1>13

\* The links back of the nodes of g lead to their copies.
PointsAt(b, g) == \A m \in Own(b, g, "nodes") : b.prev[m] \in Own(b, 0, "nodes")

\* One arc more.
LEMMA ArcsCopyingMore ==
  ASSUME NEW b, Knit(b, {}), NEW g \in Graph, PointsAt(b, g), NEW q, q = Chain(b, g, "arcs"),
         NEW i \in 1 .. Len(q), NEW s, ArcsCopying(b, s, g, q, i - 1),
         NEW j \in Nat \ {0}, HasRoom(s, "arcs", j)
  PROVE  LET r == DupArc(s, q[i]) IN ArcsCopying(b, r, g, q, i) /\ HasRoom(r, "arcs", j - 1)
<1>k. "arcs" \in Kinds /\ "nodes" \in Kinds /\ 0 \in Gs /\ g \in Gs /\ g # 0
  BY Pools DEF Gs, Graph
<1> DEFINE c == q[i]
           r == DupArc(s, c)
<1>b. Base(b) /\ Shape(b) /\ Tables(b) /\ Joined(b, {}) /\ Knit(s, {}) /\ Shape(s)
  BY DEF Knit, Base, ArcsCopying
<1>1. /\ Len(q) \in Nat /\ \A l \in 1 .. Len(q) : q[l] \in Own(b, g, "arcs") /\ q[l] \in GC
      /\ \A l, m \in 1 .. Len(q) : q[l] = q[m] => l = m
  BY <1>k, <1>b, ChainList
<1>2. c \in Own(b, g, "arcs") /\ \A l \in 1 .. (i - 1) : q[l] \in Own(b, g, "arcs") /\ q[l] # c
  BY <1>1
<1>3. Still(b, s, g, "arcs") /\ Still(b, s, g, "nodes") /\ Still(b, s, 0, "nodes")
  BY <1>k DEF ArcsCopying
<1>4. c \in Live(s, "arcs") /\ c \in Live(b, "arcs") /\ s.name[c] = b.name[c] /\ b.owner[c] = g
  BY <1>2, <1>3, <1>k, <1>b, Owned DEF Still
<1>5. s.start[c] = b.start[c] /\ s.end[c] = b.end[c]
  BY DEF ArcsCopying
<1>6. b.start[c] \in Own(b, g, "nodes") /\ b.end[c] \in Own(b, g, "nodes")
  BY <1>b, <1>4 DEF Joined, ArcEnds, EndOf, Own
<1>7. s.prev[s.start[c]] \in Own(s, 0, "nodes") /\ s.prev[s.end[c]] \in Own(s, 0, "nodes")
  BY <1>3, <1>5, <1>6 DEF PointsAt, Still
<1>8. s.name[c] \notin DOMAIN s.map[0]["arcs"]
  <2>1. \A l \in 1 .. (i - 1) : b.name[q[l]] # b.name[c]
    BY <1>2, <1>b, <1>k, FoundIs
  <2> QED BY <2>1, <1>4 DEF ArcsCopying
<1> HIDE DEF c
<1>9. /\ Knit(r, {}) /\ HasRoom(r, "arcs", j - 1)
      /\ \A g2 \in Gs : Still(s, r, g2, "nodes") /\ (g2 # 0 => Still(s, r, g2, "arcs"))
      /\ \A a \in Live(s, "arcs") : r.start[a] = s.start[a] /\ r.end[a] = s.end[a]
      /\ DOMAIN r.map[0]["arcs"] = DOMAIN s.map[0]["arcs"] \cup {s.name[c]}
  BY <1>b, <1>4, <1>7, <1>8, DupArcIs
<1> HIDE DEF r
<1>10. \A g2 \in Gs : Still(b, r, g2, "nodes") /\ (g2 # 0 => Still(b, r, g2, "arcs"))
  BY <1>9, StillMore DEF ArcsCopying
<1>11. ASSUME NEW l \in 1 .. Len(q) PROVE r.start[q[l]] = b.start[q[l]] /\ r.end[q[l]] = b.end[q[l]]
  <2>1. q[l] \in Live(s, "arcs")
    BY <1>1, <1>3, <1>k, <1>b, Owned DEF Still
  <2> QED BY <2>1, <1>9 DEF ArcsCopying
<1>12. 1 .. i = (1 .. (i - 1)) \cup {i}
  BY <1>1
<1>13. DOMAIN r.map[0]["arcs"] = {b.name[q[l]] : l \in 1 .. i}
  <2>1. DOMAIN r.map[0]["arcs"] = {b.name[q[l]] : l \in 1 .. (i - 1)} \cup {b.name[c]}
    BY <1>4, <1>9 DEF ArcsCopying
  <2> QED BY <2>1, <1>12 DEF c
<1>14. ArcsCopying(b, r, g, q, i)
  BY <1>9, <1>10, <1>11, <1>13 DEF ArcsCopying
<1> QED BY <1>9, <1>14 DEF r, c

\* All arcs of g.
LEMMA ArcsCopiedIs ==
  ASSUME NEW b, Knit(b, {}), NEW g \in Graph, PointsAt(b, g), NEW q, q = Chain(b, g, "arcs"),
         HasRoom(b, "arcs", Len(q)), DOMAIN b.map[0]["arcs"] = {}
  PROVE  ArcsCopying(b, ArcsCopied(b, q), g, q, Len(q))
<1>k. "arcs" \in Kinds /\ "nodes" \in Kinds /\ 0 \in Gs /\ g \in Gs /\ g # 0
  BY Pools DEF Gs, Graph
<1>1. Base(b)
  BY DEF Knit
<1> DEFINE n == Len(q)
<1>2. n \in Nat /\ DOMAIN q = 1 .. n
  BY <1>1, <1>k, ChainList
<1>3. HasRoom(b, "arcs", n)
  OBVIOUS
<1>4. n = Len(q)
  OBVIOUS
<1> HIDE DEF n
<1>5. PICK f : ArcsCopiedRun(f, b, q, n)
  BY <1>2, FoldArcCopies
<1>6. f[0] = b /\ f[n] = ArcsCopied(b, q) /\ \A k \in 1 .. n : f[k] = DupArc(f[k - 1], q[k])
  BY <1>5 DEF ArcsCopiedRun
<1> DEFINE T == {k \in 0 .. n : ArcsCopying(b, f[k], g, q, k) /\ HasRoom(f[k], "arcs", n - k)}
<1>7. 0 \in T
  <2>1. {b.name[q[j]] : j \in 1 .. 0} = {}
    OBVIOUS
  <2>2. \A g2 \in Gs : Still(b, b, g2, "arcs") /\ Still(b, b, g2, "nodes")
    BY DEF Still
  <2>3. ArcsCopying(b, b, g, q, 0)
    BY <2>1, <2>2 DEF ArcsCopying
  <2>4. n - 0 = n /\ 0 \in 0 .. n
    BY <1>2
  <2> QED BY <2>3, <2>4, <1>3, <1>6
<1>8. ASSUME NEW k \in 1 .. n, k - 1 \in T PROVE k \in T
  <2> DEFINE s == f[k - 1]
             j == n - (k - 1)
  <2>1. ArcsCopying(b, s, g, q, k - 1) /\ HasRoom(s, "arcs", j)
    BY <1>8
  <2>2. j \in Nat \ {0} /\ j - 1 = n - k /\ k \in 0 .. n /\ k \in 1 .. Len(q)
    BY <1>2, <1>4
  <2>3. f[k] = DupArc(s, q[k])
    BY <1>6
  <2> HIDE DEF s, j
  <2>4. ArcsCopying(b, DupArc(s, q[k]), g, q, k) /\ HasRoom(DupArc(s, q[k]), "arcs", j - 1)
    BY <2>1, <2>2, ArcsCopyingMore
  <2> QED BY <2>2, <2>3, <2>4
<1>9. \A k \in 0 .. n : k \in T
  <2> HIDE DEF T
  <2> QED BY <1>2, <1>7, <1>8, Stepwise
<1>10. n \in 0 .. n
  BY <1>2
<1>11. n \in T
  <2> HIDE DEF T
  <2> QED BY <1>9, <1>10
<1> QED BY <1>4, <1>6, <1>11

\* The links back that the end of dup restores; the one of the second node stays.
Restored(s, q, r) ==
  LET place(c) == CHOOSE i \in DOMAIN q : q[i] = c
  IN  r = [c \in GC |-> IF c \notin ToSet(q) \/ place(c) = 2 THEN s.prev[c]
                        ELSE IF place(c) = 1 THEN 0 ELSE q[place(c) - 1]]

\* They lead to structures, and from the first node to none.
LEMMA RestoredIs ==
  ASSUME NEW s, LinksType(s.next, s.prev), NEW q \in Seq(GC), IsInjective(q), NEW p, Restored(s, q, p)
  PROVE  /\ p \in [GC -> GC \cup {0}]
         /\ \A c \in GC : c \notin ToSet(q) => p[c] = s.prev[c]
         /\ q # <<>> => p[q[1]] = 0
<1> DEFINE place(c) == CHOOSE i \in DOMAIN q : q[i] = c
<1>1. p = [c \in GC |-> IF c \notin ToSet(q) \/ place(c) = 2 THEN s.prev[c]
                        ELSE IF place(c) = 1 THEN 0 ELSE q[place(c) - 1]]
  BY DEF Restored
<1>2. ASSUME NEW c \in ToSet(q) PROVE place(c) \in 1 .. Len(q) /\ q[place(c)] = c
  <2>1. \E i \in DOMAIN q : q[i] = c
    BY DEF ToSet
  <2> QED BY <2>1
<1>3. q # <<>> => place(q[1]) = 1 /\ q[1] \in ToSet(q) /\ q[1] \in GC
  <2>1. SUFFICES ASSUME q # <<>> PROVE place(q[1]) = 1 /\ q[1] \in ToSet(q) /\ q[1] \in GC
    OBVIOUS
  <2>2. 1 \in DOMAIN q /\ q[1] \in ToSet(q) /\ q[1] \in GC
    BY <2>1 DEF ToSet
  <2>3. place(q[1]) \in DOMAIN q /\ q[place(q[1])] = q[1]
    BY <2>2, <1>2
  <2> QED BY <2>2, <2>3 DEF IsInjective
<1> HIDE DEF place
<1>4. ASSUME NEW c \in GC PROVE p[c] \in GC \cup {0}
  <2>1. CASE c \notin ToSet(q) \/ place(c) = 2
    BY <2>1, <1>1 DEF LinksType
  <2>2. CASE c \in ToSet(q) /\ place(c) # 2 /\ place(c) = 1
    BY <2>2, <1>1
  <2>3. CASE c \in ToSet(q) /\ place(c) # 2 /\ place(c) # 1
    <3>1. place(c) - 1 \in 1 .. Len(q)
      BY <2>3, <1>2
    <3>2. q[place(c) - 1] \in GC
      BY <3>1
    <3> QED BY <3>2, <2>3, <1>1
  <2> QED BY <2>1, <2>2, <2>3
<1> QED BY <1>1, <1>3, <1>4

\* The structures of graph 0 are a copy of g's; whose graph has what.  The copy is
\* linked back, and g, perhaps, no longer.
LEMMA DupFit ==
  ASSUME NEW s, NEW A, NEW W, Fit(s, A, W), 0 \notin A, NEW g \in Graph, FitsCopy(s, g)
  PROVE  Fit(dup(s, g), A \cup {0}, (W \ {g}) \cup {0})
<1>k. "arcs" \in Kinds /\ "nodes" \in Kinds /\ 0 \in Gs /\ g \in Gs /\ g # 0
  BY Pools DEF Gs, Graph
<1> DEFINE b == g_new(s, 0)
           q == Chain(s, g, "nodes")
           as == Chain(s, g, "arcs")
           c == NodesCopied(b, q)
           d == ArcsCopied(c, as)
           ga == g_attr_dup(s.gattr[g])
           place(x) == CHOOSE i \in DOMAIN q : q[i] = x
           r == dup(s, g)
<1>1. Base(s) /\ \A k \in Kinds : Own(s, 0, k) = {}
  BY <1>k, FitBase DEF Fit
<1> DEFINE U == W \cup {0}
           V == (W \ {g}) \cup {0}
<1>w. Fit(s, A, U) /\ 0 \in U /\ g \notin V /\ V \subseteq U
  BY FitWider, <1>k
<1> HIDE DEF U, V
<1>2. /\ Fit(b, A, U) /\ b.name = s.name
      /\ \A g2 \in Gs, k \in Kinds : Chain(b, g2, k) = Chain(s, g2, k) /\ Own(b, g2, k) = Own(s, g2, k)
      /\ \A k \in Kinds : DOMAIN b.map[0][k] = {}
  BY <1>1, <1>w, <1>k, NewFit
<1>r. /\ r = [d EXCEPT !.gattr[0] = ga,
                       !.prev = [x \in GC |-> IF x \notin ToSet(q) \/ place(x) = 2 THEN @[x]
                                              ELSE IF place(x) = 1 THEN 0 ELSE q[place(x) - 1]]]
  BY DEF dup, NodesCopied, ArcsCopied
<1>3. q = Chain(b, g, "nodes") /\ as = Chain(b, g, "arcs") /\ HasRoom(b, "nodes", Len(q)) /\ HasRoom(b, "arcs", Len(as))
  BY <1>2, <1>k DEF FitsCopy, Count, HasRoom, Live
<1>4. /\ q \in Seq(GC) /\ IsInjective(q) /\ ToSet(q) = Own(s, g, "nodes") /\ Len(q) \in Nat
      /\ \A i \in 1 .. Len(q) : q[i] \in Own(s, g, "nodes")
      /\ \A m \in Own(s, g, "nodes") : \E i \in 1 .. Len(q) : q[i] = m
  BY <1>1, <1>k, ChainList
<1> HIDE DEF b, q, as
<1>5. Copying(b, c, g, q, Len(q))
  BY <1>2, <1>3, <1>w, NodesCopiedIs
<1>6. Knit(b, {}) /\ Base(b) /\ Tables(b)
  BY <1>2, FitBase
<1> HIDE DEF c
<1>7. Knit(c, {}) /\ Tables(c) /\ Base(c)
  BY <1>5 DEF Copying, Knit, Base
<1>8. PointsAt(c, g)
  <2>0. Own(b, g, "nodes") = Own(s, g, "nodes")
    BY <1>2, <1>k
  <2>1. \A m \in Own(c, g, "nodes") : \E i \in 1 .. Len(q) : q[i] = m
    <3>1. Own(c, g, "nodes") = Own(b, g, "nodes")
      BY <1>5 DEF Copying
    <3>2. \A m \in Own(s, g, "nodes") : \E i \in 1 .. Len(q) : q[i] = m
      BY <1>4
    <3> QED BY <2>0, <3>1, <3>2
  <2> QED BY <2>1, <1>5 DEF Copying, PointsAt
<1>9. as = Chain(c, g, "arcs")
  BY <1>3, <1>5, <1>k DEF Copying, Still
<1>10. DOMAIN c.map[0]["arcs"] = {}
  <2>1. Still(b, c, 0, "arcs")
    BY <1>5, <1>k DEF Copying
  <2>2. c.map[0]["arcs"] = b.map[0]["arcs"]
    BY <2>1, <1>6, <1>7, <1>k, StillTable
  <2> QED BY <2>2, <1>2, <1>k
<1>11. HasRoom(c, "arcs", Len(as))
  BY <1>3, <1>5 DEF HasRoom, Copying
<1>12. ArcsCopying(c, d, g, as, Len(as))
  BY <1>7, <1>8, <1>9, <1>10, <1>11, ArcsCopiedIs
<1> HIDE DEF d, ga
<1>13. Knit(d, {}) /\ Shape(d) /\ DOMAIN d = Fields
  BY <1>12 DEF ArcsCopying, Knit, Base, Shape
<1>14. PICK p : p = [x \in GC |-> IF x \notin ToSet(q) \/ place(x) = 2 THEN d.prev[x]
                                  ELSE IF place(x) = 1 THEN 0 ELSE q[place(x) - 1]]
  OBVIOUS
<1>15. r = [d EXCEPT !.gattr[0] = ga, !.prev = p]
  BY <1>r, <1>14
<1>16. Restored(d, q, p)
  BY <1>14 DEF Restored
<1>17. LinksType(d.next, d.prev) /\ RestType(d.counter, d.gattr)
  BY <1>13 DEF Shape
<1>18. /\ p \in [GC -> GC \cup {0}] /\ \A x \in GC : x \notin ToSet(q) => p[x] = d.prev[x]
       /\ q # <<>> => p[q[1]] = 0
  BY <1>4, <1>16, <1>17, RestoredIs
<1> HIDE DEF r, place
<1>19. /\ DOMAIN r = Fields /\ Kept(d, r) /\ r.in = d.in /\ r.out = d.out /\ r.start = d.start /\ r.end = d.end
       /\ r.weight = d.weight /\ r.attr = d.attr /\ r.counter = d.counter
       /\ r.prev = p /\ r.gattr = [d.gattr EXCEPT ![0] = ga]
  BY <1>13, <1>15 DEF Fields, Kept
<1>20. RestType(r.counter, r.gattr) /\ LinksType(r.next, r.prev)
  BY <1>17, <1>18, <1>19 DEF RestType, LinksType, Kept
<1>21. Shape(r)
  BY <1>13, <1>19, <1>20 DEF Shape, Kept
<1>22. \A a \in GA : a \in GC /\ a \notin ToSet(q)
  BY <1>4, Pools DEF Own, Live
<1>23. Repointed(d, r)
  BY <1>18, <1>19, <1>22 DEF Repointed
<1>24. /\ Knit(r, {})
       /\ \A g2 \in Gs, k \in Kinds : Chain(r, g2, k) = Chain(d, g2, k) /\ Own(r, g2, k) = Own(d, g2, k)
  BY <1>13, <1>21, <1>23, RepointedKnit
<1>25. ASSUME NEW g2 \in Gs PROVE Tied(r, V, g2)
  <2>0. Chain(r, g2, "nodes") = Chain(c, g2, "nodes") /\ Still(c, d, g2, "nodes")
    BY <1>12, <1>24, <1>k DEF ArcsCopying, Still
  <2>1. CASE g2 = g
    <3>1. Chain(r, g2, "nodes") = q
      BY <2>0, <2>1, <1>5 DEF Copying
    <3> QED BY <3>1, <2>1, <1>18, <1>19, <1>w DEF Headed, Tied
  <2>2. CASE g2 # g
    <3>1. Tied(c, U, g2)
      <4>1. CASE g2 = 0
        BY <4>1, <1>5 DEF Copying, Tied
      <4>2. CASE g2 # 0
        <5>1. Still(b, c, g2, "nodes")
          BY <4>2, <2>2, <1>5 DEF Copying
        <5>2. Tied(b, U, g2)
          BY <1>2 DEF Fit
        <5> QED BY <5>1, <5>2, <1>6, <1>k, BackStill DEF Tied
      <4> QED BY <4>1, <4>2
    <3>2. Tied(d, U, g2)
      BY <3>1, <2>0, <1>7, <1>k, BackStill DEF Tied
    <3> DEFINE w == Chain(d, g2, "nodes")
    <3>3. w = Chain(r, g2, "nodes") /\ Base(d)
      BY <1>24, <1>13, <1>k DEF Knit
    <3>4. w \in Seq(GC) /\ \A i \in 1 .. Len(w) : w[i] \in Own(d, g2, "nodes") /\ w[i] \in GC
      BY <3>3, <1>k, ChainList
    <3>5. Own(d, g, "nodes") = Own(s, g, "nodes")
      BY <1>2, <1>5, <1>12, <1>k DEF Copying, ArcsCopying, Still
    <3>6. Headed(d, w) /\ (g2 \in U => Back(d, w))
      BY <3>2 DEF Tied
    <3> HIDE DEF w
    <3>7. ASSUME NEW i \in 1 .. Len(w) PROVE r.prev[w[i]] = d.prev[w[i]]
      <4>1. w[i] \in Own(d, g2, "nodes") /\ w[i] \in GC
        BY <3>4
      <4>2. w[i] \notin ToSet(q)
        BY <4>1, <3>5, <2>2, <1>4 DEF Own
      <4> QED BY <4>1, <4>2, <1>18, <1>19
    <3>8. w # <<>> => 1 \in 1 .. Len(w)
      BY <3>4
    <3>9. Headed(r, w) /\ (g2 \in U => Back(r, w))
      BY <3>6, <3>7, <3>8 DEF Headed, Back
    <3> QED BY <3>3, <3>9, <1>w DEF Tied
  <2> QED BY <2>1, <2>2
<1>26. ASSUME NEW g2 \in Gs \ (A \cup {0}), NEW k \in Kinds PROVE Own(r, g2, k) = {}
  <2>1. Own(b, g2, k) = {}
    BY <1>2 DEF Fit
  <2>2. Own(c, g2, k) = Own(b, g2, k)
    BY <1>5, Pools DEF Copying, Still
  <2>3. Own(d, g2, k) = Own(c, g2, k)
    BY <1>12, Pools DEF ArcsCopying, Still
  <2> QED BY <2>1, <2>2, <2>3, <1>24
<1>27. Fit(r, A \cup {0}, V)
  BY <1>24, <1>25, <1>26 DEF Fit
<1> QED BY <1>27 DEF r, V

\* A graph takes what another has.
LEMMA AssignFit ==
  ASSUME NEW s, NEW A, NEW W, Fit(s, A, W), 0 \notin A, NEW src \in Graph, FitsCopy(s, src), NEW dst \in Graph, dst \in A
  PROVE  Fit(g_assign(s, dst, src), A, (W \ {src}) \cup {dst})
<1> DEFINE d == dup(s, src)
           U == (W \ {src}) \cup {0}
           V == (W \ {src}) \cup {dst}
<1>1. Fit(d, A \cup {0}, U) /\ 0 \in U /\ V \subseteq U \cup {dst}
  BY DupFit
<1> HIDE DEF d, U, V
<1>2. Fit(g_delete(swap(d, dst), 0), A, U \cup {dst})
  BY <1>1, TakenOver
<1>3. Fit(g_delete(swap(d, dst), 0), A, V)
  BY <1>1, <1>2, FitWider
<1> QED BY <1>3 DEF g_assign, d, V

-----------------------------------------------------------------------------
(* Graphs that are read *)

\* What comes of sequences put together.
LEMMA FlattenIs ==
  ASSUME NEW X, NEW qq \in Seq(Seq(X))
  PROVE  FlattenSeq(qq) \in Seq(X)
<1> DEFINE n == Len(qq)
           step(f, i) == IF i = 1 THEN qq[i] ELSE f[i - 1] \o qq[i]
           flatten == CHOOSE f : f = [i \in 1 .. n |-> step(f, i)]
           Bad == {k \in 0 .. n : ~ \E f : f = [i \in 1 .. k |-> step(f, i)]}
<1>1. CASE n = 0
  BY <1>1 DEF FlattenSeq
<1>2. CASE n # 0
  <2>0. n \in Nat /\ \A i \in 1 .. n : qq[i] \in Seq(X)
    OBVIOUS
  <2>1. FlattenSeq(qq) = flatten[n]
    BY <1>2 DEF FlattenSeq
  <2> HIDE DEF n
  <2>2. Bad = {}
    <3>1. SUFFICES ASSUME Bad # {} PROVE FALSE
      OBVIOUS
    <3>2. PICK k \in Bad : \A j \in Bad : k <= j
      <4>1. Bad \subseteq 0 .. n
        <5> HIDE DEF step
        <5> QED OBVIOUS
      <4> HIDE DEF Bad
      <4>2. Bad \subseteq Nat
        BY <2>0, <4>1
      <4> QED BY <3>1, <4>2, LeastOfNat
    <3>3. k \in 0 .. n /\ (~ \E f : f = [i \in 1 .. k |-> step(f, i)])
      BY <3>2
    <3>4. k # 0
      <4> DEFINE e == [i \in 1 .. 0 |-> <<>>]
      <4>1. e = [i \in 1 .. 0 |-> step(e, i)]
        OBVIOUS
      <4> QED BY <3>3, <4>1
    <3>5. k - 1 \in 0 .. n /\ k - 1 \notin Bad
      <4>1. k - 1 \in 0 .. n /\ ~ (k <= k - 1)
        BY <2>0, <3>3, <3>4
      <4> HIDE DEF Bad
      <4> QED BY <3>2, <4>1
    <3>6. PICK f : f = [i \in 1 .. (k - 1) |-> step(f, i)]
      BY <3>5
    <3> DEFINE m == [i \in 1 .. k |-> IF i = k THEN step(f, k) ELSE f[i]]
    <3>7. ASSUME NEW i \in 1 .. k PROVE m[i] = step(m, i)
      <4>0. k \in Nat /\ i \in 1 .. k /\ 1 .. (k - 1) \subseteq 1 .. k
        BY <2>0, <3>3
      <4>1. i # 1 => i - 1 \in 1 .. (k - 1) /\ i - 1 # k
        BY <4>0
      <4>2. i # 1 => m[i - 1] = f[i - 1]
        BY <4>0, <4>1
      <4>3. step(f, i) = step(m, i)
        <5> HIDE DEF m
        <5> QED BY <4>2
      <4>4. m[i] = step(f, i)
        <5>1. CASE i = k
          <6> HIDE DEF step
          <6> QED BY <5>1
        <5>2. CASE i # k
          <6>1. i \in 1 .. (k - 1)
            BY <4>0, <5>2
          <6>2. f[i] = step(f, i)
            <7> HIDE DEF step
            <7> QED BY <3>6, <6>1
          <6> HIDE DEF step
          <6> QED BY <5>2, <6>2
        <5> QED BY <5>1, <5>2
      <4> HIDE DEF m, step
      <4> QED BY <4>3, <4>4
    <3>8. m = [i \in 1 .. k |-> step(m, i)]
      <4>1. m = [i \in 1 .. k |-> m[i]]
        OBVIOUS
      <4> HIDE DEF m, step
      <4> QED BY <3>7, <4>1
    <3> QED BY <3>3, <3>8
  <2>3. n \in 0 .. n
    BY <2>0
  <2>4. flatten = [i \in 1 .. n |-> step(flatten, i)]
    <3> HIDE DEF step
    <3> QED BY <2>2, <2>3
  <2>5. \A i \in 1 .. n : flatten[i] = step(flatten, i)
    <3> HIDE DEF flatten, step
    <3> QED BY <2>4
  <2> HIDE DEF flatten
  <2> DEFINE T == {k \in 0 .. n : k = 0 \/ flatten[k] \in Seq(X)}
  <2>6. 0 \in T
    BY <2>0
  <2>7. ASSUME NEW k \in 1 .. n, k - 1 \in T PROVE k \in T
    <3>1. k \in 0 .. n /\ qq[k] \in Seq(X) /\ flatten[k] = step(flatten, k)
      BY <2>0, <2>5
    <3>2. CASE k = 1
      BY <3>1, <3>2
    <3>3. CASE k # 1
      <4>1. flatten[k - 1] \in Seq(X)
        BY <2>7, <3>3
      <4>2. flatten[k - 1] \o qq[k] \in Seq(X)
        BY <3>1, <4>1
      <4> QED BY <3>1, <3>3, <4>2
    <3> QED BY <3>2, <3>3
  <2>8. \A k \in 0 .. n : k \in T
    <3> HIDE DEF T
    <3> QED BY <2>0, <2>6, <2>7, Stepwise
  <2>9. flatten[n] \in Seq(X)
    <3>1. n \in T
      <4> HIDE DEF T
      <4> QED BY <2>3, <2>8
    <3> QED BY <3>1, <1>2
  <2> QED BY <2>1, <2>9
<1> QED BY <1>1, <1>2

\* A list of N nodes of the form that the first pass lets through, and one of which
\* no reference is to the graph attributes: what is in it.
ReadableArc(e, N) == /\ e.name # NoName
                     /\ e.ref \in Nat /\ \E p \in 1 .. N : e.ref = 3 * (p - 1)
Listed(serial, N) ==
  /\ N \in Nat /\ DOMAIN serial.nodes = 1 .. N /\ Length(serial) = 3 * N + 1
  /\ NamesIn(serial) \in Seq({serial.nodes[i].name : i \in 1 .. N}) /\ Len(NamesIn(serial)) = N
  /\ \A i \in 1 .. N : serial.nodes[i].name # NoName
  /\ \E Y : \A i \in 1 .. N : serial.nodes[i].arcs \in Seq(Y)
Readable(serial, N) ==
  /\ Listed(serial, N)
  /\ \A l \in DOMAIN ArcsIn(serial) : ReadableArc(ArcsIn(serial)[l].arc, N)

\* An arc of a node of the list.
ListedArc(e, serial, N) ==
  \E i \in 1 .. N : \E j \in DOMAIN serial.nodes[i].arcs :
    e = [from |-> serial.nodes[i].name, arc |-> serial.nodes[i].arcs[j]]

\* One that leads from a node of the list to another.
ReadFrom(e, serial, N) == /\ \E i \in 1 .. N : e.from = serial.nodes[i].name
                          /\ ReadableArc(e.arc, N)

\* The arcs of a list are arcs of its nodes.
LEMMA ArcsInAre ==
  ASSUME NEW serial, NEW N, Listed(serial, N)
  PROVE  LET q == ArcsIn(serial) IN
         /\ q \in Seq({q[l] : l \in DOMAIN q})
         /\ \A l \in DOMAIN q : ListedArc(q[l], serial, N)
<1> DEFINE E(i) == {[from |-> serial.nodes[i].name, arc |-> serial.nodes[i].arcs[j]] : j \in DOMAIN serial.nodes[i].arcs}
           X == UNION {E(i) : i \in 1 .. N}
           ss == [i \in 1 .. N |-> ArcsOf(serial.nodes[i])]
           q == ArcsIn(serial)
<1>1. N \in Nat /\ DOMAIN serial.nodes = 1 .. N
  BY DEF Listed
<1>2. PICK Y : \A i \in 1 .. N : serial.nodes[i].arcs \in Seq(Y)
  BY DEF Listed
<1>3. ASSUME NEW i \in 1 .. N PROVE ArcsOf(serial.nodes[i]) \in Seq(X)
  <2> DEFINE d == serial.nodes[i]
             as == d.arcs
             r == ArcsOf(d)
  <2>1. as \in Seq(Y)
    BY <1>2
  <2>2. r = [j \in 1 .. Len(as) |-> [from |-> d.name, arc |-> as[j]]]
    BY <2>1 DEF ArcsOf
  <2>3. DOMAIN as = 1 .. Len(as) /\ Len(as) \in Nat
    BY <2>1
  <2>4. \A j \in 1 .. Len(as) : [from |-> d.name, arc |-> as[j]] \in E(i)
    BY <2>3
  <2>5. \A j \in 1 .. Len(as) : [from |-> d.name, arc |-> as[j]] \in X
    BY <2>4
  <2>a. PICK m \in Nat : m = Len(as)
    BY <2>3
  <2> HIDE DEF as, X, E, d
  <2>6. r \in [1 .. m -> X]
    BY <2>2, <2>5, <2>a
  <2> HIDE DEF r
  <2>7. r \in Seq(X)
    BY <2>6
  <2> QED BY <2>7 DEF r, d
<1> HIDE DEF X, E
<1>4. ss \in Seq(Seq(X))
  <2>1. ss \in [1 .. N -> Seq(X)]
    BY <1>3
  <2> HIDE DEF ss
  <2> QED BY <2>1, <1>1
<1>5. q = FlattenSeq(ss)
  BY <1>1 DEF ArcsIn
<1> HIDE DEF ss, q
<1>6. q \in Seq(X)
  BY <1>4, <1>5, FlattenIs
<1>7. q \in Seq({q[l] : l \in DOMAIN q})
  BY <1>6, InSeq
<1>8. ASSUME NEW l \in DOMAIN q
      PROVE  ListedArc(q[l], serial, N)
  <2>1. q[l] \in X
    BY <1>6
  <2> QED BY <2>1 DEF X, E, ListedArc
<1> QED BY <1>7, <1>8 DEF q

\* They lead from a node of the list to another.
LEMMA ReadFromIs ==
  ASSUME NEW serial, NEW N, Readable(serial, N), NEW q, q = ArcsIn(serial), NEW l \in DOMAIN q
  PROVE  ReadFrom(q[l], serial, N)
<1>1. Listed(serial, N) /\ ReadableArc(q[l].arc, N)
  BY DEF Readable
<1>2. ListedArc(q[l], serial, N)
  BY <1>1, ArcsInAre
<1>3. \E i \in 1 .. N : q[l].from = serial.nodes[i].name
  BY <1>2 DEF ListedArc
<1> QED BY <1>1, <1>3 DEF ReadFrom

\* Arcs read one after the other.
ArcsRead(s, q, serial) == FoldLeft(LAMBDA r, e : ReadArc(r, e, serial), s, q)
ArcsReadRun(f, base, q, serial, n) ==
  /\ f[0] = base /\ f[n] = ArcsRead(base, q, serial)
  /\ \A k \in 1 .. n : f[k] = ReadArc(f[k - 1], q[k], serial)

\* The states between two arcs.
LEMMA FoldReadArcs ==
  ASSUME NEW base, NEW q, NEW n \in Nat, DOMAIN q = 1 .. n, NEW serial
  PROVE  \E f : ArcsReadRun(f, base, q, serial, n)
<1> DEFINE apply(s, x) == ReadArc(s, x, serial)
           step(f, T) == IF T = {} THEN base ELSE apply(f[T \ {Max(T)}], q[Max(T)])
           fold == CHOOSE f : f = [T \in SUBSET (1 .. n) |-> step(f, T)]
           Bad == {k \in 0 .. n : ~ \E f : f = [T \in SUBSET (1 .. k) |-> step(f, T)]}
<1>1. ArcsRead(base, q, serial) = fold[1 .. n]
  BY DEF ArcsRead, FoldLeft, MapThenFoldSet
<1> HIDE DEF apply
<1>2. Bad = {}
  <2>1. SUFFICES ASSUME Bad # {} PROVE FALSE
    OBVIOUS
  <2>2. PICK k \in Bad : \A j \in Bad : k <= j
    <3>1. Bad \subseteq Nat
      OBVIOUS
    <3> HIDE DEF Bad
    <3> QED BY <2>1, <3>1, LeastOfNat
  <2>3. k \in 0 .. n /\ (~ \E f : f = [T \in SUBSET (1 .. k) |-> step(f, T)])
    BY <2>2
  <2>4. k # 0
    <3> DEFINE e == [T \in SUBSET (1 .. 0) |-> base]
    <3>1. \A T \in SUBSET (1 .. 0) : T = {}
      OBVIOUS
    <3>2. e = [T \in SUBSET (1 .. 0) |-> step(e, T)]
      BY <3>1
    <3> QED BY <2>3, <3>2
  <2>5. k - 1 \in 0 .. n /\ k - 1 \notin Bad
    <3>1. k - 1 \in 0 .. n /\ ~ (k <= k - 1)
      BY <2>3, <2>4
    <3> HIDE DEF Bad
    <3> QED BY <2>2, <3>1
  <2>6. PICK f : f = [T \in SUBSET (1 .. (k - 1)) |-> step(f, T)]
    BY <2>5
  <2> DEFINE m == [T \in SUBSET (1 .. k) |-> IF k \in T THEN apply(f[T \ {k}], q[k]) ELSE f[T]]
  <2>7. ASSUME NEW T \in SUBSET (1 .. k)
        PROVE  m[T] = step(m, T)
    <3>0. T \in SUBSET Nat /\ k \in Nat \ {0} /\ T \subseteq 0 .. k
      BY <2>3, <2>4
    <3>1. CASE k \in T
      <4>1. Max(T) = k
        BY <3>0, <3>1, MaxIs
      <4>2. T \ {k} \in SUBSET (1 .. k) /\ k \notin T \ {k} /\ T # {}
        BY <3>1
      <4> QED BY <3>1, <4>1, <4>2
    <3>2. CASE k \notin T
      <4>1. T \in SUBSET (1 .. (k - 1))
        BY <3>0, <3>2
      <4>2. m[T] = f[T]
        BY <3>2
      <4>3. f[T] = step(f, T)
        <5> HIDE DEF step
        <5> QED BY <4>1, <2>6
      <4>4. T # {} => T \ {Max(T)} \in SUBSET (1 .. k) /\ k \notin T \ {Max(T)}
        BY <3>2
      <4> QED BY <4>2, <4>3, <4>4
    <3> QED BY <3>1, <3>2
  <2>8. m = [T \in SUBSET (1 .. k) |-> step(m, T)]
    <3> HIDE DEF step
    <3> QED BY <2>7
  <2> QED BY <2>3, <2>8
<1>3. n \in 0 .. n
  OBVIOUS
<1>4. \E f : f = [T \in SUBSET (1 .. n) |-> step(f, T)]
  <2> HIDE DEF step
  <2> QED BY <1>2, <1>3
<1>5. fold = [T \in SUBSET (1 .. n) |-> step(fold, T)]
  <2> HIDE DEF step
  <2> QED BY <1>4
<1>6. \A T \in SUBSET (1 .. n) : fold[T] = step(fold, T)
  <2> HIDE DEF fold, step
  <2> QED BY <1>5
<1> HIDE DEF fold
<1> DEFINE r == [k \in 0 .. n |-> fold[1 .. k]]
<1>7. r[0] = base
  <2>1. 1 .. 0 = {} /\ 0 \in 0 .. n
    OBVIOUS
  <2> QED BY <2>1, <1>6
<1>8. ASSUME NEW k \in 1 .. n
      PROVE  r[k] = apply(r[k - 1], q[k])
  <2>1. Max(1 .. k) = k
    BY MaxSegment
  <2>2. (1 .. k) \ {k} = 1 .. (k - 1) /\ 1 .. k \in SUBSET (1 .. n) /\ 1 .. k # {} /\ k \in 0 .. n /\ k - 1 \in 0 .. n
    OBVIOUS
  <2>3. fold[1 .. k] = apply(fold[1 .. (k - 1)], q[k])
    BY <2>1, <2>2, <1>6
  <2> QED BY <2>2, <2>3
<1>9. r[n] = fold[1 .. n]
  OBVIOUS
<1> HIDE DEF r
<1>10. \A k \in 1 .. n : r[k] = apply(r[k - 1], q[k])
  BY <1>8
<1> QED BY <1>1, <1>7, <1>9, <1>10 DEF apply, ArcsReadRun

\* Attributes read one node after the other.
AttrsRead(s, q) == FoldLeft(ReadAttr, s, q)
AttrsReadRun(f, base, q, n) ==
  /\ f[0] = base /\ f[n] = AttrsRead(base, q)
  /\ \A k \in 1 .. n : f[k] = ReadAttr(f[k - 1], q[k])

\* The states between two nodes.
LEMMA FoldReadAttrs ==
  ASSUME NEW base, NEW q, NEW n \in Nat, DOMAIN q = 1 .. n
  PROVE  \E f : AttrsReadRun(f, base, q, n)
<1> DEFINE apply(s, x) == ReadAttr(s, x)
           step(f, T) == IF T = {} THEN base ELSE apply(f[T \ {Max(T)}], q[Max(T)])
           fold == CHOOSE f : f = [T \in SUBSET (1 .. n) |-> step(f, T)]
           Bad == {k \in 0 .. n : ~ \E f : f = [T \in SUBSET (1 .. k) |-> step(f, T)]}
<1>1. AttrsRead(base, q) = fold[1 .. n]
  BY DEF AttrsRead, FoldLeft, MapThenFoldSet
<1> HIDE DEF apply
<1>2. Bad = {}
  <2>1. SUFFICES ASSUME Bad # {} PROVE FALSE
    OBVIOUS
  <2>2. PICK k \in Bad : \A j \in Bad : k <= j
    <3>1. Bad \subseteq Nat
      OBVIOUS
    <3> HIDE DEF Bad
    <3> QED BY <2>1, <3>1, LeastOfNat
  <2>3. k \in 0 .. n /\ (~ \E f : f = [T \in SUBSET (1 .. k) |-> step(f, T)])
    BY <2>2
  <2>4. k # 0
    <3> DEFINE e == [T \in SUBSET (1 .. 0) |-> base]
    <3>1. \A T \in SUBSET (1 .. 0) : T = {}
      OBVIOUS
    <3>2. e = [T \in SUBSET (1 .. 0) |-> step(e, T)]
      BY <3>1
    <3> QED BY <2>3, <3>2
  <2>5. k - 1 \in 0 .. n /\ k - 1 \notin Bad
    <3>1. k - 1 \in 0 .. n /\ ~ (k <= k - 1)
      BY <2>3, <2>4
    <3> HIDE DEF Bad
    <3> QED BY <2>2, <3>1
  <2>6. PICK f : f = [T \in SUBSET (1 .. (k - 1)) |-> step(f, T)]
    BY <2>5
  <2> DEFINE m == [T \in SUBSET (1 .. k) |-> IF k \in T THEN apply(f[T \ {k}], q[k]) ELSE f[T]]
  <2>7. ASSUME NEW T \in SUBSET (1 .. k)
        PROVE  m[T] = step(m, T)
    <3>0. T \in SUBSET Nat /\ k \in Nat \ {0} /\ T \subseteq 0 .. k
      BY <2>3, <2>4
    <3>1. CASE k \in T
      <4>1. Max(T) = k
        BY <3>0, <3>1, MaxIs
      <4>2. T \ {k} \in SUBSET (1 .. k) /\ k \notin T \ {k} /\ T # {}
        BY <3>1
      <4> QED BY <3>1, <4>1, <4>2
    <3>2. CASE k \notin T
      <4>1. T \in SUBSET (1 .. (k - 1))
        BY <3>0, <3>2
      <4>2. m[T] = f[T]
        BY <3>2
      <4>3. f[T] = step(f, T)
        <5> HIDE DEF step
        <5> QED BY <4>1, <2>6
      <4>4. T # {} => T \ {Max(T)} \in SUBSET (1 .. k) /\ k \notin T \ {Max(T)}
        BY <3>2
      <4> QED BY <4>2, <4>3, <4>4
    <3> QED BY <3>1, <3>2
  <2>8. m = [T \in SUBSET (1 .. k) |-> step(m, T)]
    <3> HIDE DEF step
    <3> QED BY <2>7
  <2> QED BY <2>3, <2>8
<1>3. n \in 0 .. n
  OBVIOUS
<1>4. \E f : f = [T \in SUBSET (1 .. n) |-> step(f, T)]
  <2> HIDE DEF step
  <2> QED BY <1>2, <1>3
<1>5. fold = [T \in SUBSET (1 .. n) |-> step(fold, T)]
  <2> HIDE DEF step
  <2> QED BY <1>4
<1>6. \A T \in SUBSET (1 .. n) : fold[T] = step(fold, T)
  <2> HIDE DEF fold, step
  <2> QED BY <1>5
<1> HIDE DEF fold
<1> DEFINE r == [k \in 0 .. n |-> fold[1 .. k]]
<1>7. r[0] = base
  <2>1. 1 .. 0 = {} /\ 0 \in 0 .. n
    OBVIOUS
  <2> QED BY <2>1, <1>6
<1>8. ASSUME NEW k \in 1 .. n
      PROVE  r[k] = apply(r[k - 1], q[k])
  <2>1. Max(1 .. k) = k
    BY MaxSegment
  <2>2. (1 .. k) \ {k} = 1 .. (k - 1) /\ 1 .. k \in SUBSET (1 .. n) /\ 1 .. k # {} /\ k \in 0 .. n /\ k - 1 \in 0 .. n
    OBVIOUS
  <2>3. fold[1 .. k] = apply(fold[1 .. (k - 1)], q[k])
    BY <2>1, <2>2, <1>6
  <2> QED BY <2>2, <2>3
<1>9. r[n] = fold[1 .. n]
  OBVIOUS
<1> HIDE DEF r
<1>10. \A k \in 1 .. n : r[k] = apply(r[k - 1], q[k])
  BY <1>8
<1> QED BY <1>1, <1>7, <1>9, <1>10 DEF apply, AttrsReadRun

\* The place of a reference.
LEMMA PlaceOf ==
  ASSUME NEW p \in Nat \ {0}
  PROVE  (3 * (p - 1)) \div 3 + 1 = p
<1> DEFINE i == p - 1
<1>1. i \in Nat /\ p = i + 1
  OBVIOUS
<1> HIDE DEF i
<1>2. (3 * i) \div 3 = i
  BY <1>1
<1> QED BY <1>1, <1>2 DEF i

\* s has the nodes of the list in graph 0, and the first i of its arcs q.
Reading(s, A, W, serial, N, q, i) ==
  /\ Fit(s, A, W) /\ DOMAIN s.map[0]["nodes"] = {serial.nodes[j].name : j \in 1 .. N}
  /\ DOMAIN s.map[0]["arcs"] = {q[l].arc.name : l \in 1 .. i}

\* One arc more.
LEMMA ReadArcIs ==
  ASSUME NEW A, NEW W, 0 \in A, NEW serial, NEW N, Readable(serial, N), NEW n \in Nat, NEW q,
         \A l \in 1 .. n : ReadFrom(q[l], serial, N),
         \A l, m \in 1 .. n : q[l].arc.name = q[m].arc.name => l = m,
         NEW i \in 1 .. n, NEW s, Reading(s, A, W, serial, N, q, i - 1), NEW j \in Nat \ {0}, HasRoom(s, "arcs", j)
  PROVE  LET r == ReadArc(s, q[i], serial) IN Reading(r, A, W, serial, N, q, i) /\ HasRoom(r, "arcs", j - 1)
<1>k. "arcs" \in Kinds /\ "nodes" \in Kinds /\ 0 \in Gs
  BY Pools DEF Gs
<1> DEFINE e == q[i]
           a == Fresh(s, "arcs")
           x == e.arc.name
           m == gn_get_node(s, 0, e.from)
           z == Referred(s, serial, e.arc.ref)
           t == ga_new(s, 0, x, m, z)
           w == e.arc.weight
           at == g_attr_deserial(NoAttr, e.arc.attr)
           r == [t EXCEPT !.weight[a] = w, !.attr[a] = at]
<1>0. ReadArc(s, e, serial) = r
  BY DEF ReadArc
<1>1. Fit(s, A, W) /\ Knit(s, {}) /\ Tables(s)
  BY FitBase DEF Reading
<1>2. ReadFrom(e, serial, N)
  OBVIOUS
<1>3. PICK p \in 1 .. N : e.arc.ref = 3 * (p - 1)
  BY <1>2 DEF ReadFrom, ReadableArc
<1>4. N \in Nat /\ Length(serial) = 3 * N + 1
  BY DEF Readable, Listed
<1>5. z = gn_get_node(s, 0, serial.nodes[p].name)
  <2>1. e.arc.ref + 1 # Length(serial)
    BY <1>3, <1>4
  <2>2. p \in Nat \ {0}
    BY <1>4
  <2>3. e.arc.ref \div 3 + 1 = p
    BY <2>2, <1>3, PlaceOf
  <2> QED BY <2>1, <2>3 DEF Referred
<1>6. z \in Own(s, 0, "nodes")
  <2>1. serial.nodes[p].name \in DOMAIN s.map[0]["nodes"]
    BY DEF Reading
  <2>2. z # 0
    BY <2>1, <1>1, <1>5, <1>k, FoundIs DEF gn_get_node
  <2> QED BY <2>2, <1>1, <1>5, <1>k, NodeFound
<1>7. m \in Own(s, 0, "nodes")
  <2>1. e.from \in DOMAIN s.map[0]["nodes"]
    BY <1>2 DEF Reading, ReadFrom
  <2>2. m # 0
    BY <2>1, <1>1, <1>k, FoundIs DEF gn_get_node
  <2> QED BY <2>2, <1>1, <1>k, NodeFound
<1>8. x # NoName /\ x \notin DOMAIN s.map[0]["arcs"]
  <2>1. \A l \in 1 .. (i - 1) : q[l].arc.name # x
    <3>1. TAKE l \in 1 .. (i - 1)
    <3>2. l \in 1 .. n /\ l # i
      OBVIOUS
    <3> QED BY <3>2
  <2>2. x \notin DOMAIN s.map[0]["arcs"]
    BY <2>1 DEF Reading
  <2> QED BY <2>2, <1>2 DEF ReadFrom, ReadableArc
<1>b. x = q[i].arc.name
  OBVIOUS
<1> HIDE DEF x, m, z
<1>9. /\ Fit(t, A, W) /\ HasRoom(t, "arcs", j - 1) /\ ArcCame(s, t, a, 0, x)
      /\ DOMAIN t.map[0]["arcs"] = DOMAIN s.map[0]["arcs"] \cup {x}
  BY <1>1, <1>6, <1>7, <1>8, <1>k, ArcFit
<1>10. Shape(t) /\ DOMAIN t = Fields /\ Tables(t)
  BY <1>9, FitBase DEF Shape
<1> HIDE DEF t, a, w, at
<1>11. /\ DOMAIN r = Fields /\ Kept(t, r) /\ r.in = t.in /\ r.out = t.out /\ r.start = t.start /\ r.end = t.end
       /\ r.counter = t.counter /\ r.gattr = t.gattr /\ r.prev = t.prev
       /\ r.weight = [t.weight EXCEPT ![a] = w] /\ r.attr = [t.attr EXCEPT ![a] = at]
  BY <1>10 DEF Fields, Kept
<1> HIDE DEF r
<1>12. BasicType(r.name, r.attr, r.owner) /\ ArcType(r.start, r.end, r.weight)
  BY <1>10, <1>11 DEF Shape, BasicType, ArcType, Kept
<1>13. Shape(r)
  BY <1>10, <1>11, <1>12 DEF Shape, Kept
<1>14. Apart(t, r)
  BY <1>11 DEF Apart
<1>15. Fit(r, A, W)
  BY <1>9, <1>13, <1>14, FitApart
<1>16. HasRoom(r, "arcs", j - 1)
  BY <1>9, <1>11 DEF HasRoom, Live, Kept
<1>17. DOMAIN r.map[0]["nodes"] = {serial.nodes[l].name : l \in 1 .. N}
  <2>1. Still(s, t, 0, "nodes")
    BY <1>9, <1>k DEF ArcCame
  <2>2. t.map[0]["nodes"] = s.map[0]["nodes"]
    BY <2>1, <1>1, <1>10, <1>k, StillTable
  <2> QED BY <2>2, <1>11 DEF Reading, Kept
<1>18. DOMAIN r.map[0]["arcs"] = {q[l].arc.name : l \in 1 .. i}
  <2>1. 1 .. i = (1 .. (i - 1)) \cup {i}
    OBVIOUS
  <2>2. DOMAIN r.map[0]["arcs"] = {q[l].arc.name : l \in 1 .. (i - 1)} \cup {q[i].arc.name}
    BY <1>9, <1>11, <1>b DEF Reading, Kept
  <2> QED BY <2>1, <2>2
<1>19. Reading(r, A, W, serial, N, q, i)
  BY <1>15, <1>17, <1>18 DEF Reading
<1> QED BY <1>0, <1>16, <1>19

\* All arcs of the list.
LEMMA ArcsReadIs ==
  ASSUME NEW A, NEW W, 0 \in A, NEW serial, NEW N, Readable(serial, N), NEW n \in Nat, NEW q, DOMAIN q = 1 .. n,
         \A l \in 1 .. n : ReadFrom(q[l], serial, N),
         \A l, m \in 1 .. n : q[l].arc.name = q[m].arc.name => l = m,
         NEW s, Reading(s, A, W, serial, N, q, 0), HasRoom(s, "arcs", n)
  PROVE  Fit(ArcsRead(s, q, serial), A, W)
<1>1. PICK f : ArcsReadRun(f, s, q, serial, n)
  BY FoldReadArcs
<1>2. f[0] = s /\ f[n] = ArcsRead(s, q, serial) /\ \A k \in 1 .. n : f[k] = ReadArc(f[k - 1], q[k], serial)
  BY <1>1 DEF ArcsReadRun
<1> DEFINE T == {k \in 0 .. n : Reading(f[k], A, W, serial, N, q, k) /\ HasRoom(f[k], "arcs", n - k)}
<1>3. 0 \in T
  <2>1. n - 0 = n /\ 0 \in 0 .. n
    OBVIOUS
  <2> QED BY <2>1, <1>2
<1>4. ASSUME NEW k \in 1 .. n, k - 1 \in T PROVE k \in T
  <2> DEFINE r == f[k - 1]
             j == n - (k - 1)
  <2>1. Reading(r, A, W, serial, N, q, k - 1) /\ HasRoom(r, "arcs", j)
    BY <1>4
  <2>2. j \in Nat \ {0} /\ j - 1 = n - k /\ k \in 0 .. n
    OBVIOUS
  <2>3. f[k] = ReadArc(r, q[k], serial)
    BY <1>2
  <2> HIDE DEF r, j
  <2>4. Reading(ReadArc(r, q[k], serial), A, W, serial, N, q, k) /\ HasRoom(ReadArc(r, q[k], serial), "arcs", j - 1)
    BY <2>1, <2>2, ReadArcIs
  <2> QED BY <2>2, <2>3, <2>4
<1>5. \A k \in 0 .. n : k \in T
  <2> HIDE DEF T
  <2> QED BY <1>3, <1>4, Stepwise
<1>6. n \in 0 .. n
  OBVIOUS
<1>7. n \in T
  <2> HIDE DEF T
  <2> QED BY <1>5, <1>6
<1> QED BY <1>2, <1>7 DEF Reading

\* The attributes of all nodes.
LEMMA ReadAttrFit ==
  ASSUME NEW s, NEW A, NEW W, Fit(s, A, W), NEW e
  PROVE  Fit(ReadAttr(s, e), A, W)
<1> DEFINE c == gn_get_node(s, 0, e.name)
           at == g_attr_deserial(s.attr[c], e.attr)
           r == [s EXCEPT !.attr[c] = at]
<1>0. ReadAttr(s, e) = r
  BY DEF ReadAttr
<1>1. Shape(s) /\ DOMAIN s = Fields
  BY FitBase DEF Shape
<1> HIDE DEF c, at
<1>2. /\ DOMAIN r = Fields /\ Kept(s, r) /\ r.in = s.in /\ r.out = s.out /\ r.start = s.start /\ r.end = s.end
      /\ r.counter = s.counter /\ r.gattr = s.gattr /\ r.prev = s.prev
      /\ r.weight = s.weight /\ r.attr = [s.attr EXCEPT ![c] = at]
  BY <1>1 DEF Fields, Kept
<1> HIDE DEF r
<1>3. BasicType(r.name, r.attr, r.owner)
  BY <1>1, <1>2 DEF Shape, BasicType, Kept
<1>4. Shape(r)
  BY <1>1, <1>2, <1>3 DEF Shape, Kept
<1>5. Apart(s, r)
  BY <1>2 DEF Apart
<1> QED BY <1>0, <1>4, <1>5, FitApart

\* All of them.
LEMMA AttrsReadFit ==
  ASSUME NEW s, NEW A, NEW W, Fit(s, A, W), NEW q, NEW n \in Nat, DOMAIN q = 1 .. n
  PROVE  Fit(AttrsRead(s, q), A, W)
<1>1. PICK f : AttrsReadRun(f, s, q, n)
  BY FoldReadAttrs
<1>2. f[0] = s /\ f[n] = AttrsRead(s, q) /\ \A k \in 1 .. n : f[k] = ReadAttr(f[k - 1], q[k])
  BY <1>1 DEF AttrsReadRun
<1> DEFINE T == {k \in 0 .. n : Fit(f[k], A, W)}
<1>3. 0 \in T
  BY <1>2
<1>4. ASSUME NEW k \in 1 .. n, k - 1 \in T PROVE k \in T
  <2>1. Fit(f[k - 1], A, W) /\ f[k] = ReadAttr(f[k - 1], q[k]) /\ k \in 0 .. n
    BY <1>2, <1>4
  <2> QED BY <2>1, ReadAttrFit
<1>5. \A k \in 0 .. n : k \in T
  <2> HIDE DEF T
  <2> QED BY <1>3, <1>4, Stepwise
<1>6. n \in 0 .. n
  OBVIOUS
<1>7. n \in T
  <2> HIDE DEF T
  <2> QED BY <1>5, <1>6
<1> QED BY <1>2, <1>7

\* A list read into graph 0.
LEMMA ImportFit ==
  ASSUME NEW s, NEW A, NEW W, Fit(s, A, W), 0 \notin A, NEW serial, NEW N, Readable(serial, N), NamedOnce(serial),
         HasRoom(s, "nodes", N), HasRoom(s, "arcs", Len(ArcsIn(serial)))
  PROVE  Fit(Imported(s, serial), A \cup {0}, W)
<1>k. "arcs" \in Kinds /\ "nodes" \in Kinds /\ 0 \in Gs
  BY Pools DEF Gs
<1> DEFINE b == g_new(s, 0)
           B == A \cup {0}
           xs == NamesIn(serial)
           q == ArcsIn(serial)
           c == NodesMade(b, xs, 0)
           d == ArcsRead(c, q, serial)
           e == AttrsRead(d, serial.nodes)
           at == g_attr_deserial(e.gattr[0], serial.attr)
<1>0. Imported(s, serial) = [e EXCEPT !.gattr[0] = at]
  BY DEF Imported, NodesMade, ArcsRead, AttrsRead
<1>1. \A k \in Kinds : Own(s, 0, k) = {}
  BY <1>k DEF Fit
<1>2. /\ Fit(b, A, W) /\ b.name = s.name /\ \A k \in Kinds : DOMAIN b.map[0][k] = {}
  BY <1>1, <1>k, NewFit
<1>3. Fit(b, B, W) /\ 0 \in B
  BY <1>2, FitMore
<1>4. Listed(serial, N)
  BY DEF Readable
<1>5. /\ N \in Nat /\ DOMAIN serial.nodes = 1 .. N /\ xs = [i \in 1 .. N |-> serial.nodes[i].name]
      /\ xs \in Seq({serial.nodes[i].name : i \in 1 .. N}) /\ Len(xs) = N
      /\ \A i \in 1 .. N : serial.nodes[i].name # NoName
  BY <1>4 DEF Listed, NamesIn
<1>6. IsInjective(xs) /\ IsInjective(ArcNamesIn(serial))
  BY DEF NamedOnce
<1>7. HasRoom(b, "nodes", Len(xs)) /\ HasRoom(b, "arcs", Len(q))
  BY <1>2, <1>5 DEF HasRoom, Live
<1>8. \A i \in 1 .. Len(xs) : xs[i] # NoName /\ xs[i] \notin DOMAIN b.map[0]["nodes"]
  BY <1>2, <1>5, <1>k
<1>9. ToSet(xs) = {serial.nodes[i].name : i \in 1 .. N}
  BY <1>5 DEF ToSet
<1> HIDE DEF b, B, xs
<1>10. NodesCame(b, c, B, W, 0, ToSet(xs))
  BY <1>3, <1>5, <1>6, <1>7, <1>8, <1>k, NodesCome
<1>11. Tables(b)
  BY <1>3, FitBase
<1> HIDE DEF c
<1>12. Fit(c, B, W) /\ Tables(c) /\ HasRoom(c, "arcs", Len(q))
  BY <1>7, <1>10, FitBase DEF NodesCame, HasRoom
<1>13. DOMAIN c.map[0]["nodes"] = {serial.nodes[i].name : i \in 1 .. N}
  BY <1>2, <1>9, <1>10, <1>k DEF NodesCame
<1>14. DOMAIN c.map[0]["arcs"] = {}
  <2>1. Still(b, c, 0, "arcs")
    BY <1>10, <1>k DEF NodesCame
  <2>2. c.map[0]["arcs"] = b.map[0]["arcs"]
    BY <2>1, <1>11, <1>12, <1>k, StillTable
  <2> QED BY <2>2, <1>2, <1>k
<1>15. Reading(c, B, W, serial, N, q, 0)
  <2>1. {q[l].arc.name : l \in 1 .. 0} = {}
    OBVIOUS
  <2> QED BY <2>1, <1>12, <1>13, <1>14 DEF Reading
<1>16. q \in Seq({q[l] : l \in DOMAIN q})
  BY <1>4, ArcsInAre
<1>17. PICK n \in Nat : n = Len(q) /\ DOMAIN q = 1 .. n
  BY <1>16
<1>18. \A l \in 1 .. n : ReadFrom(q[l], serial, N)
  BY <1>17, ReadFromIs
<1>19. \A l, m \in 1 .. n : q[l].arc.name = q[m].arc.name => l = m
  <2>1. ArcNamesIn(serial) = [i \in 1 .. n |-> q[i].arc.name]
    BY <1>17 DEF ArcNamesIn
  <2> HIDE DEF q
  <2> QED BY <2>1, <1>6 DEF IsInjective
<1> HIDE DEF q
<1>20. Fit(d, B, W)
  BY <1>3, <1>12, <1>15, <1>17, <1>18, <1>19, ArcsReadIs
<1> HIDE DEF d
<1>21. Fit(e, B, W)
  BY <1>5, <1>20, AttrsReadFit
<1> HIDE DEF e, at
<1>22. Fit([e EXCEPT !.gattr[0] = at], B, W)
  BY <1>21, GraphAttrFit
<1> QED BY <1>0, <1>22 DEF B

\* The graphs that are linked back when the input for graph g was read into s, or refused.
Anew(s, r, W, g) == IF r = s THEN W ELSE W \cup {g}

\* A list that is read, or refused.
LEMMA DeserializeFit ==
  ASSUME NEW s, NEW A, NEW W, Fit(s, A, W), 0 \notin A, NEW dst \in Graph, dst \in A, NEW serial,
         Sound(serial) /\ NamedOnce(serial) =>
           \E N : Readable(serial, N) /\ HasRoom(s, "nodes", N) /\ HasRoom(s, "arcs", Len(ArcsIn(serial)))
  PROVE  LET r == g_deserialize(s, dst, serial) IN Fit(r, A, Anew(s, r, W, dst))
<1> DEFINE d == Imported(s, serial)
           r == g_deserialize(s, dst, serial)
           U == W \cup {0}
<1>1. CASE Sound(serial) /\ NamedOnce(serial)
  <2>1. r = g_delete(swap(d, dst), 0)
    BY <1>1 DEF g_deserialize
  <2>2. PICK N : Readable(serial, N) /\ HasRoom(s, "nodes", N) /\ HasRoom(s, "arcs", Len(ArcsIn(serial)))
    BY <1>1
  <2>3. Fit(s, A, U) /\ 0 \in U /\ Anew(s, r, W, dst) \subseteq U \cup {dst}
    BY FitWider DEF Anew
  <2> HIDE DEF U, r
  <2>4. Fit(d, A \cup {0}, U)
    BY <1>1, <2>2, <2>3, ImportFit
  <2> HIDE DEF d
  <2>5. Fit(r, A, U \cup {dst})
    BY <2>1, <2>3, <2>4, TakenOver
  <2>6. Fit(r, A, Anew(s, r, W, dst))
    BY <2>3, <2>5, FitWider
  <2> QED BY <2>6 DEF r
<1>2. CASE ~ (Sound(serial) /\ NamedOnce(serial))
  BY <1>2 DEF g_deserialize, Anew
<1> QED BY <1>1, <1>2

\* The arcs of q to nodes of ns.
ArcsWithin(s, q, u, ns) == FoldLeft(LAMBDA as, a : IF u.end[a] \in ToSet(ns) THEN Append(as, a) ELSE as, s, q)
ArcsWithinRun(f, base, q, u, ns, n) ==
  /\ f[0] = base /\ f[n] = ArcsWithin(base, q, u, ns)
  /\ \A k \in 1 .. n : f[k] = IF u.end[q[k]] \in ToSet(ns) THEN Append(f[k - 1], q[k]) ELSE f[k - 1]

\* The states between two arcs.
LEMMA FoldWithin ==
  ASSUME NEW base, NEW q, NEW n \in Nat, DOMAIN q = 1 .. n, NEW u, NEW ns
  PROVE  \E f : ArcsWithinRun(f, base, q, u, ns, n)
<1> DEFINE apply(s, x) == IF u.end[x] \in ToSet(ns) THEN Append(s, x) ELSE s
           step(f, T) == IF T = {} THEN base ELSE apply(f[T \ {Max(T)}], q[Max(T)])
           fold == CHOOSE f : f = [T \in SUBSET (1 .. n) |-> step(f, T)]
           Bad == {k \in 0 .. n : ~ \E f : f = [T \in SUBSET (1 .. k) |-> step(f, T)]}
<1>1. ArcsWithin(base, q, u, ns) = fold[1 .. n]
  BY DEF ArcsWithin, FoldLeft, MapThenFoldSet
<1> HIDE DEF apply
<1>2. Bad = {}
  <2>1. SUFFICES ASSUME Bad # {} PROVE FALSE
    OBVIOUS
  <2>2. PICK k \in Bad : \A j \in Bad : k <= j
    <3>1. Bad \subseteq Nat
      OBVIOUS
    <3> HIDE DEF Bad
    <3> QED BY <2>1, <3>1, LeastOfNat
  <2>3. k \in 0 .. n /\ (~ \E f : f = [T \in SUBSET (1 .. k) |-> step(f, T)])
    BY <2>2
  <2>4. k # 0
    <3> DEFINE e == [T \in SUBSET (1 .. 0) |-> base]
    <3>1. \A T \in SUBSET (1 .. 0) : T = {}
      OBVIOUS
    <3>2. e = [T \in SUBSET (1 .. 0) |-> step(e, T)]
      BY <3>1
    <3> QED BY <2>3, <3>2
  <2>5. k - 1 \in 0 .. n /\ k - 1 \notin Bad
    <3>1. k - 1 \in 0 .. n /\ ~ (k <= k - 1)
      BY <2>3, <2>4
    <3> HIDE DEF Bad
    <3> QED BY <2>2, <3>1
  <2>6. PICK f : f = [T \in SUBSET (1 .. (k - 1)) |-> step(f, T)]
    BY <2>5
  <2> DEFINE m == [T \in SUBSET (1 .. k) |-> IF k \in T THEN apply(f[T \ {k}], q[k]) ELSE f[T]]
  <2>7. ASSUME NEW T \in SUBSET (1 .. k)
        PROVE  m[T] = step(m, T)
    <3>0. T \in SUBSET Nat /\ k \in Nat \ {0} /\ T \subseteq 0 .. k
      BY <2>3, <2>4
    <3>1. CASE k \in T
      <4>1. Max(T) = k
        BY <3>0, <3>1, MaxIs
      <4>2. T \ {k} \in SUBSET (1 .. k) /\ k \notin T \ {k} /\ T # {}
        BY <3>1
      <4> QED BY <3>1, <4>1, <4>2
    <3>2. CASE k \notin T
      <4>1. T \in SUBSET (1 .. (k - 1))
        BY <3>0, <3>2
      <4>2. m[T] = f[T]
        BY <3>2
      <4>3. f[T] = step(f, T)
        <5> HIDE DEF step
        <5> QED BY <4>1, <2>6
      <4>4. T # {} => T \ {Max(T)} \in SUBSET (1 .. k) /\ k \notin T \ {Max(T)}
        BY <3>2
      <4> QED BY <4>2, <4>3, <4>4
    <3> QED BY <3>1, <3>2
  <2>8. m = [T \in SUBSET (1 .. k) |-> step(m, T)]
    <3> HIDE DEF step
    <3> QED BY <2>7
  <2> QED BY <2>3, <2>8
<1>3. n \in 0 .. n
  OBVIOUS
<1>4. \E f : f = [T \in SUBSET (1 .. n) |-> step(f, T)]
  <2> HIDE DEF step
  <2> QED BY <1>2, <1>3
<1>5. fold = [T \in SUBSET (1 .. n) |-> step(fold, T)]
  <2> HIDE DEF step
  <2> QED BY <1>4
<1>6. \A T \in SUBSET (1 .. n) : fold[T] = step(fold, T)
  <2> HIDE DEF fold, step
  <2> QED BY <1>5
<1> HIDE DEF fold
<1> DEFINE r == [k \in 0 .. n |-> fold[1 .. k]]
<1>7. r[0] = base
  <2>1. 1 .. 0 = {} /\ 0 \in 0 .. n
    OBVIOUS
  <2> QED BY <2>1, <1>6
<1>8. ASSUME NEW k \in 1 .. n
      PROVE  r[k] = apply(r[k - 1], q[k])
  <2>1. Max(1 .. k) = k
    BY MaxSegment
  <2>2. (1 .. k) \ {k} = 1 .. (k - 1) /\ 1 .. k \in SUBSET (1 .. n) /\ 1 .. k # {} /\ k \in 0 .. n /\ k - 1 \in 0 .. n
    OBVIOUS
  <2>3. fold[1 .. k] = apply(fold[1 .. (k - 1)], q[k])
    BY <2>1, <2>2, <1>6
  <2> QED BY <2>2, <2>3
<1>9. r[n] = fold[1 .. n]
  OBVIOUS
<1> HIDE DEF r
<1>10. \A k \in 1 .. n : r[k] = apply(r[k - 1], q[k])
  BY <1>8
<1> QED BY <1>1, <1>7, <1>9, <1>10 DEF apply, ArcsWithinRun

\* They are arcs of the node, to nodes of ns.
LEMMA WithinIs ==
  ASSUME NEW s, NEW n, NEW ns, s.out[n] \in Seq(GA)
  PROVE  Within(s, n, ns) \in Seq({a \in ToSet(s.out[n]) : s.end[a] \in ToSet(ns)})
<1> DEFINE q == s.out[n]
           X == {a \in ToSet(q) : s.end[a] \in ToSet(ns)}
<1>1. Within(s, n, ns) = ArcsWithin(<<>>, q, s, ns)
  BY DEF Within, ArcsWithin
<1>2. q \in Seq(GA)
  OBVIOUS
<1> HIDE DEF q
<1>3. PICK m \in Nat : m = Len(q) /\ DOMAIN q = 1 .. m
  BY <1>2
<1>4. PICK f : ArcsWithinRun(f, <<>>, q, s, ns, m)
  BY <1>3, FoldWithin
<1>5. /\ f[0] = <<>> /\ f[m] = ArcsWithin(<<>>, q, s, ns)
      /\ \A k \in 1 .. m : f[k] = IF s.end[q[k]] \in ToSet(ns) THEN Append(f[k - 1], q[k]) ELSE f[k - 1]
  BY <1>4 DEF ArcsWithinRun
<1>6. \A k \in 1 .. m : q[k] \in ToSet(q)
  BY <1>3 DEF ToSet
<1> DEFINE T == {k \in 0 .. m : f[k] \in Seq(X)}
<1>7. 0 \in T
  <2>1. <<>> \in Seq(X) /\ 0 \in 0 .. m
    OBVIOUS
  <2> HIDE DEF X
  <2> QED BY <2>1, <1>5
<1>8. ASSUME NEW k \in 1 .. m, k - 1 \in T PROVE k \in T
  <2>1. f[k - 1] \in Seq(X) /\ k \in 0 .. m
    BY <1>8
  <2>2. s.end[q[k]] \in ToSet(ns) => q[k] \in X
    BY <1>6
  <2> HIDE DEF X
  <2>3. s.end[q[k]] \in ToSet(ns) => Append(f[k - 1], q[k]) \in Seq(X)
    BY <2>1, <2>2
  <2> QED BY <2>1, <2>3, <1>5
<1>9. \A k \in 0 .. m : k \in T
  <2> HIDE DEF T
  <2> QED BY <1>7, <1>8, Stepwise
<1>10. m \in 0 .. m
  OBVIOUS
<1>11. m \in T
  <2> HIDE DEF T
  <2> QED BY <1>9, <1>10
<1> QED BY <1>1, <1>5, <1>11 DEF q

\* Room for less.
LEMMA RoomLess ==
  ASSUME NEW s, NEW k \in Kinds, NEW i \in Nat, HasRoom(s, k, i), NEW j \in Nat, j <= i
  PROVE  HasRoom(s, k, j)
<1>1. IsFiniteSet(Pool(k)) /\ Live(s, k) \subseteq Pool(k)
  BY Pools DEF Live
<1>2. IsFiniteSet(Live(s, k))
  BY <1>1, FS_Subset
<1>3. Cardinality(Pool(k)) \in Nat /\ Cardinality(Live(s, k)) \in Nat
  BY <1>1, <1>2, FS_CardinalityType
<1> QED BY <1>3 DEF HasRoom

\* The places of a sequence.
LEMMA SeqDomain ==
  ASSUME NEW X, NEW q \in Seq(X)
  PROVE  Len(q) \in Nat /\ DOMAIN q = 1 .. Len(q)
OBVIOUS

\* Different names of the structures of q are no more than q is long.
NamesOf(name, q) == {name[q[i]] : i \in 1 .. Len(q)}

\* There is no longer list of them without one twice.
LEMMA NamesAtMost ==
  ASSUME NEW X, NEW q \in Seq(X), NEW name,
         NEW n \in Nat, NEW f \in [1 .. n -> NamesOf(name, q)], IsInjective(f)
  PROVE  n <= Len(q)
<1> DEFINE g == [i \in 1 .. Len(q) |-> name[q[i]]]
           N == NamesOf(name, q)
<1>1. Len(q) \in Nat
  OBVIOUS
<1>2. IsFiniteSet(1 .. Len(q)) /\ Cardinality(1 .. Len(q)) = Len(q)
  <2>1. PICK l \in Nat : l = Len(q)
    BY <1>1
  <2>2. IsFiniteSet(1 .. l) /\ Cardinality(1 .. l) = IF 1 > l THEN 0 ELSE l - 1 + 1
    BY FS_Interval
  <2> QED BY <2>1, <2>2
<1>3. Cardinality(1 .. n) = n
  <2>1. Cardinality(1 .. n) = IF 1 > n THEN 0 ELSE n - 1 + 1
    BY FS_Interval
  <2> QED BY <2>1
<1>4. g \in Surjection(1 .. Len(q), N)
  BY DEF Surjection, NamesOf
<1> HIDE DEF g, N
<1>5. IsFiniteSet(N) /\ Cardinality(N) <= Cardinality(1 .. Len(q))
  BY <1>2, <1>4, FS_Surjection
<1>6. f \in Injection(1 .. n, N)
  BY DEF Injection, N
<1>7. Cardinality(1 .. n) <= Cardinality(N)
  BY <1>5, <1>6, FS_Injection
<1>8. Cardinality(N) \in Nat
  BY <1>5, FS_CardinalityType
<1> QED BY <1>1, <1>2, <1>3, <1>5, <1>7, <1>8

\* The entry of an arc between nodes of ns.
EntryOf(s, src, e, ns) ==
  /\ \E a \in Own(s, src, "arcs") : e.name = s.name[a]
  /\ \E p \in 1 .. Len(ns) : e.ref = 3 * (p - 1)

\* So are the entries of a node.
LEMMA EntriesAre ==
  ASSUME NEW s, Knit(s, {}), NEW src \in Gs, NEW ns \in Seq(GC), ToSet(ns) = Own(s, src, "nodes"),
         NEW n \in Own(s, src, "nodes"), NEW q, q = gn_serial_arcs(s, n, ns)
  PROVE  /\ q \in Seq({q[j] : j \in DOMAIN q})
         /\ \A j \in DOMAIN q : EntryOf(s, src, q[j], ns)
<1>k. "arcs" \in Kinds /\ "nodes" \in Kinds
  BY Pools
<1>1. Shape(s) /\ Joined(s, {})
  BY DEF Knit, Base
<1>2. n \in Live(s, "nodes") /\ n \in GN /\ s.owner[n] = src
  BY <1>1, <1>k, Owned, Pools
<1>3. s.out[n] \in Seq(GA)
  BY <1>1, <1>2 DEF Shape, NodeType
<1>4. ToSet(s.out[n]) = {a \in Live(s, "arcs") : s.start[a] = n}
  BY <1>1, <1>2 DEF Joined, Outlinks
<1> DEFINE w == Within(s, n, ns)
           X == {a \in ToSet(s.out[n]) : s.end[a] \in ToSet(ns)}
           place(m) == CHOOSE i \in DOMAIN ns : ns[i] = m
           entry(a) == ga_serial(s, a, 3 * (place(s.end[a]) - 1))
<1>5. w \in Seq(X)
  BY <1>3, WithinIs
<1>6. q = [i \in DOMAIN w |-> entry(w[i])]
  BY DEF gn_serial_arcs
<1>7. ASSUME NEW a \in X PROVE EntryOf(s, src, entry(a), ns)
  <2>1. a \in Live(s, "arcs") /\ s.start[a] = n /\ s.end[a] \in ToSet(ns)
    BY <1>4
  <2>2. s.owner[a] = src
    BY <2>1, <1>1, <1>2 DEF Joined, ArcEnds, EndOf
  <2>3. a \in Own(s, src, "arcs")
    BY <2>1, <2>2 DEF Own
  <2>4. place(s.end[a]) \in 1 .. Len(ns)
    <3>1. \E i \in DOMAIN ns : ns[i] = s.end[a]
      BY <2>1 DEF ToSet
    <3> QED BY <3>1
  <2> HIDE DEF place
  <2>5. entry(a).name = s.name[a] /\ entry(a).ref = 3 * (place(s.end[a]) - 1)
    BY DEF ga_serial
  <2> HIDE DEF entry
  <2> QED BY <2>3, <2>4, <2>5 DEF EntryOf
<1> HIDE DEF w, X, entry
<1>8. PICK m \in Nat : m = Len(w) /\ DOMAIN w = 1 .. m
  BY <1>5
<1>9. \A j \in 1 .. m : w[j] \in X
  BY <1>5, <1>8
<1>10. DOMAIN q = 1 .. m /\ \A j \in 1 .. m : EntryOf(s, src, q[j], ns)
  BY <1>6, <1>7, <1>8, <1>9
<1>11. q \in [1 .. m -> {q[j] : j \in DOMAIN q}]
  <2>1. q = [j \in 1 .. m |-> entry(w[j])]
    BY <1>6, <1>8
  <2>2. q = [j \in 1 .. m |-> q[j]]
    BY <2>1
  <2> QED BY <2>2, <1>10
<1>12. q \in Seq({q[j] : j \in DOMAIN q})
  BY <1>11
<1> QED BY <1>10, <1>12

\* A function of places is a sequence.
LEMMA PlacesAre ==
  ASSUME NEW N \in Nat, NEW f, f = [i \in 1 .. N |-> f[i]]
  PROVE  f \in Seq({f[i] : i \in 1 .. N}) /\ Len(f) = N /\ DOMAIN f = 1 .. N
<1> DEFINE V == {f[i] : i \in 1 .. N}
<1>1. \A i \in 1 .. N : f[i] \in V
  OBVIOUS
<1> HIDE DEF V
<1>2. f \in [1 .. N -> V]
  BY <1>1
<1>3. f \in Seq(V) /\ Len(f) = N
  BY <1>2
<1> QED BY <1>2, <1>3 DEF V

\* What is written of graph src, whole.
Written(s, src, serial, ns, N) ==
  /\ DOMAIN serial.nodes = 1 .. N /\ Len(serial.nodes) = N
  /\ \A i \in 1 .. N : /\ serial.nodes[i].name = s.name[ns[i]]
                       /\ serial.nodes[i].arcs = gn_serial_arcs(s, ns[i], ns)

\* g_ms_serialize is that.
LEMMA WrittenIs ==
  ASSUME NEW s, Base(s), NEW src \in Gs, NEW ns, ns = Chain(s, src, "nodes"),
         NEW serial, serial = g_ms_serialize(s, src, <<>>)
  PROVE  Written(s, src, serial, ns, Len(ns))
<1>k. "nodes" \in Kinds
  BY Pools
<1>1. ns \in Seq(GC) /\ Len(ns) \in Nat /\ 0 \notin ToSet(ns)
  BY <1>k, ChainList, Pools DEF Own, Live
<1>2. PICK N \in Nat : N = Len(ns) /\ DOMAIN ns = 1 .. N
  BY <1>1
<1> DEFINE node(i) == [name |-> s.name[ns[i]], attr |-> g_attr_serial(s.attr[ns[i]]), arcs |-> gn_serial_arcs(s, ns[i], ns)]
           f == [i \in DOMAIN ns |-> node(i)]
<1>3. serial = [nodes |-> f, attr |-> g_attr_serial(s.gattr[src])]
  BY <1>1 DEF g_ms_serialize
<1>4. serial.nodes = f
  BY <1>3
<1>5. \A i \in 1 .. N : node(i).name = s.name[ns[i]] /\ node(i).arcs = gn_serial_arcs(s, ns[i], ns)
  OBVIOUS
<1> HIDE DEF node
<1>6. f = [i \in 1 .. N |-> f[i]] /\ \A i \in 1 .. N : f[i] = node(i)
  BY <1>2
<1> HIDE DEF f
<1>7. DOMAIN f = 1 .. N /\ Len(f) = N
  BY <1>6, PlacesAre
<1> QED BY <1>2, <1>4, <1>5, <1>6, <1>7 DEF Written

\* What is written can be read, and is no larger than what it was written of.
LEMMA WrittenReadable ==
  ASSUME NEW s, NEW A, NEW W, Fit(s, A, W), NEW src \in Graph, NEW serial, serial = g_ms_serialize(s, src, <<>>)
  PROVE  /\ Readable(serial, Len(Chain(s, src, "nodes")))
         /\ NamedOnce(serial) => Len(ArcsIn(serial)) \in Nat /\ Len(ArcsIn(serial)) <= Len(Chain(s, src, "arcs"))
<1>k. "arcs" \in Kinds /\ "nodes" \in Kinds /\ src \in Gs
  BY Pools DEF Gs
<1> DEFINE ns == Chain(s, src, "nodes")
           q == Chain(s, src, "arcs")
           as == ArcsIn(serial)
<1>1. Base(s) /\ Knit(s, {}) /\ Shape(s)
  BY FitBase
<1>2. ns \in Seq(GC) /\ ToSet(ns) = Own(s, src, "nodes") /\ \A i \in 1 .. Len(ns) : ns[i] \in Own(s, src, "nodes")
  BY <1>1, <1>k, ChainList
<1>3. /\ q \in Seq(GC) /\ \A i \in 1 .. Len(q) : q[i] \in Own(s, src, "arcs")
      /\ \A a \in Own(s, src, "arcs") : \E i \in 1 .. Len(q) : q[i] = a
  BY <1>1, <1>k, ChainList
<1>4. \A k \in Kinds : \A c \in Own(s, src, k) : s.name[c] # NoName
  BY <1>1, <1>k, Owned
<1>5. Written(s, src, serial, ns, Len(ns))
  BY <1>1, <1>k, WrittenIs
<1> HIDE DEF ns, q
<1>6. PICK N \in Nat : N = Len(ns)
  BY <1>2
<1>7. /\ DOMAIN serial.nodes = 1 .. N /\ Len(serial.nodes) = N
      /\ \A i \in 1 .. N : /\ serial.nodes[i].name = s.name[ns[i]]
                           /\ serial.nodes[i].arcs = gn_serial_arcs(s, ns[i], ns)
  BY <1>5, <1>6 DEF Written
<1> DEFINE E(i) == {serial.nodes[i].arcs[j] : j \in DOMAIN serial.nodes[i].arcs}
           Y == UNION {E(i) : i \in 1 .. N}
<1>8. ASSUME NEW i \in 1 .. N
      PROVE  /\ serial.nodes[i].arcs \in Seq(E(i))
             /\ \A j \in DOMAIN serial.nodes[i].arcs : EntryOf(s, src, serial.nodes[i].arcs[j], ns)
  <2> DEFINE n == ns[i]
             r == serial.nodes[i].arcs
  <2>1. n \in Own(s, src, "nodes") /\ r = gn_serial_arcs(s, n, ns)
    BY <1>2, <1>6, <1>7
  <2> HIDE DEF n, r
  <2>2. r \in Seq({r[j] : j \in DOMAIN r}) /\ \A j \in DOMAIN r : EntryOf(s, src, r[j], ns)
    BY <2>1, <1>1, <1>2, <1>k, EntriesAre
  <2> QED BY <2>2 DEF r
<1>9. ASSUME NEW i \in 1 .. N PROVE serial.nodes[i].arcs \in Seq(Y)
  <2> DEFINE r == serial.nodes[i].arcs
  <2>1. r \in Seq(E(i))
    BY <1>8
  <2>2. E(i) \subseteq Y
    OBVIOUS
  <2>3. \A j \in 1 .. Len(r) : r[j] \in E(i)
    <3> HIDE DEF r, E
    <3> QED BY <2>1
  <2>4. \A j \in 1 .. Len(r) : r[j] \in Y
    <3> HIDE DEF r, E, Y
    <3> QED BY <2>2, <2>3
  <2> HIDE DEF r, E, Y
  <2>5. r \in Seq(Y)
    BY <2>1, <2>4, InSeq
  <2> QED BY <2>5 DEF r
<1> HIDE DEF Y
<1>10. NamesIn(serial) \in Seq({serial.nodes[i].name : i \in 1 .. N}) /\ Len(NamesIn(serial)) = N
  <2> DEFINE f == NamesIn(serial)
  <2>1. f = [i \in 1 .. N |-> serial.nodes[i].name]
    BY <1>7 DEF NamesIn
  <2> HIDE DEF f
  <2>2. f = [i \in 1 .. N |-> f[i]] /\ {f[i] : i \in 1 .. N} = {serial.nodes[i].name : i \in 1 .. N}
    BY <2>1
  <2>3. f \in Seq({f[i] : i \in 1 .. N}) /\ Len(f) = N
    BY <2>2, PlacesAre
  <2> QED BY <2>2, <2>3 DEF f
<1>11. \A i \in 1 .. N : serial.nodes[i].name # NoName
  BY <1>2, <1>4, <1>6, <1>7, <1>k
<1>12. Listed(serial, N)
  BY <1>7, <1>9, <1>10, <1>11 DEF Listed, Length
<1>13. /\ as \in Seq({as[l] : l \in DOMAIN as})
       /\ \A l \in DOMAIN as : ListedArc(as[l], serial, N)
  BY <1>12, ArcsInAre
<1>14. ASSUME NEW l \in DOMAIN as PROVE EntryOf(s, src, as[l].arc, ns)
  <2>1. ListedArc(as[l], serial, N)
    BY <1>13
  <2> HIDE DEF as
  <2>2. PICK i \in 1 .. N : \E j \in DOMAIN serial.nodes[i].arcs :
               as[l] = [from |-> serial.nodes[i].name, arc |-> serial.nodes[i].arcs[j]]
    BY <2>1 DEF ListedArc
  <2>3. PICK j \in DOMAIN serial.nodes[i].arcs :
               as[l] = [from |-> serial.nodes[i].name, arc |-> serial.nodes[i].arcs[j]]
    BY <2>2
  <2>4. as[l].arc = serial.nodes[i].arcs[j]
    BY <2>3
  <2>5. EntryOf(s, src, serial.nodes[i].arcs[j], ns)
    BY <1>8
  <2> QED BY <2>4, <2>5
<1>15. ASSUME NEW l \in DOMAIN as PROVE ReadableArc(as[l].arc, N)
  <2> DEFINE e == as[l].arc
  <2>1. EntryOf(s, src, e, ns)
    BY <1>14
  <2> HIDE DEF e
  <2>2. e.name # NoName
    BY <2>1, <1>4, <1>k DEF EntryOf
  <2>3. PICK p \in 1 .. N : e.ref = 3 * (p - 1)
    BY <2>1, <1>6 DEF EntryOf
  <2>4. e.ref \in Nat
    BY <2>3
  <2>5. ReadableArc(e, N)
    BY <2>2, <2>3, <2>4 DEF ReadableArc
  <2> QED BY <2>5 DEF e
<1>16. Readable(serial, N)
  BY <1>12, <1>15 DEF Readable
<1>17. ASSUME NamedOnce(serial) PROVE Len(as) \in Nat /\ Len(as) <= Len(q)
  <2> DEFINE f == ArcNamesIn(serial)
             S == NamesOf(s.name, q)
  <2>1. IsInjective(f)
    BY <1>17 DEF NamedOnce
  <2>0. as \in Seq({as[l] : l \in DOMAIN as})
    BY <1>13
  <2>n. Len(as) \in Nat /\ DOMAIN as = 1 .. Len(as)
    BY <2>0, SeqDomain
  <2> HIDE DEF as
  <2>2. PICK n \in Nat : n = Len(as) /\ DOMAIN as = 1 .. n
    BY <2>n
  <2>3. f = [l \in 1 .. n |-> as[l].arc.name]
    BY <2>2 DEF ArcNamesIn, as
  <2>4. \A l \in 1 .. n : as[l].arc.name \in S
    <3>1. TAKE l \in 1 .. n
    <3>2. PICK a \in Own(s, src, "arcs") : as[l].arc.name = s.name[a]
      BY <1>14, <2>2 DEF EntryOf
    <3>3. PICK i \in 1 .. Len(q) : q[i] = a
      BY <1>3
    <3> QED BY <3>2, <3>3 DEF NamesOf
  <2>5. f \in [1 .. n -> S]
    <3> HIDE DEF S, f
    <3> QED BY <2>3, <2>4
  <2> HIDE DEF f
  <2>6. q \in Seq(GC)
    BY <1>3
  <2>7. n <= Len(q)
    BY <2>1, <2>5, <2>6, NamesAtMost
  <2> QED BY <2>2, <2>7
<1> QED BY <1>6, <1>16, <1>17 DEF ns, q

\* What = and --> do with a graph of another package.
LEMMA RewriteFit ==
  ASSUME NEW s, NEW A, NEW W, Fit(s, A, W), 0 \notin A, NEW src \in Graph, FitsCopy(s, src), NEW dst \in Graph, dst \in A
  PROVE  LET r == g_deserialize(s, dst, g_ms_serialize(s, src, <<>>)) IN Fit(r, A, Anew(s, r, W, dst))
<1>k. "arcs" \in Kinds /\ "nodes" \in Kinds /\ src \in Gs
  BY Pools DEF Gs
<1> DEFINE serial == g_ms_serialize(s, src, <<>>)
           N == Len(Chain(s, src, "nodes"))
           M == Len(Chain(s, src, "arcs"))
           L == Len(ArcsIn(serial))
<1>1. Readable(serial, N) /\ (NamedOnce(serial) => L \in Nat /\ L <= M)
  BY WrittenReadable
<1>2. HasRoom(s, "nodes", N) /\ HasRoom(s, "arcs", M)
  BY <1>k DEF FitsCopy, Count
<1>3. Base(s)
  BY FitBase
<1>4. M \in Nat
  BY <1>3, <1>k, ChainList
<1> HIDE DEF N, M, L, serial
<1>5. NamedOnce(serial) => HasRoom(s, "arcs", L)
  BY <1>1, <1>2, <1>4, <1>k, RoomLess
<1>6. Sound(serial) /\ NamedOnce(serial) =>
        \E n : Readable(serial, n) /\ HasRoom(s, "nodes", n) /\ HasRoom(s, "arcs", Len(ArcsIn(serial)))
  BY <1>1, <1>2, <1>5 DEF L
<1> DEFINE r == g_deserialize(s, dst, serial)
<1>7. Fit(r, A, Anew(s, r, W, dst))
  BY <1>6, DeserializeFit
<1> QED BY <1>7 DEF serial

\* A reference that is a multiple of three, and not to the graph attributes, is to a node.
LEMMA PlaceOfRef ==
  ASSUME NEW N \in Nat, NEW ref \in Int, ref % 3 = 0, ref >= 0, ref < 3 * N + 1, ref # 3 * N
  PROVE  ref \in Nat /\ \E p \in 1 .. N : ref = 3 * (p - 1)
<1>1. PICK m \in Int : m = ref \div 3
  OBVIOUS
<1>2. ref = 3 * m
  BY <1>1
<1>3. m + 1 \in 1 .. N /\ ref = 3 * ((m + 1) - 1)
  BY <1>2
<1>4. QED BY <1>3

\* A list of the program that the first pass lets through.
LEMMA ReadableSerial ==
  ASSUME NEW serial \in Serials, Sound(serial), MayRead(serial), Defects = {}
  PROVE  Readable(serial, Len(serial.nodes))
<1> DEFINE N == Len(serial.nodes)
<1>1. serial # Malformed
  BY DEF Sound
<1>2. serial \in [nodes : Seq(SerialNodes), attr : Dictionaries]
  BY <1>1, SerialsAssumption
<1>3. serial.nodes \in Seq(SerialNodes)
  BY <1>2
<1>4. N \in Nat /\ DOMAIN serial.nodes = 1 .. N
  BY <1>3, SeqDomain
<1>5. ASSUME NEW i \in 1 .. N
      PROVE  /\ serial.nodes[i] \in SerialNodes /\ serial.nodes[i].name # NoName
             /\ serial.nodes[i].arcs \in Seq(SerialArcs)
  <2>1. serial.nodes[i] \in SerialNodes
    BY <1>3, <1>4
  <2>2. serial.nodes[i].name \in NodeName /\ serial.nodes[i].arcs \in Seq(SerialArcs)
    BY <2>1 DEF SerialNodes
  <2>3. QED BY <2>1, <2>2, StoreAssumption
<1> DEFINE f == NamesIn(serial)
<1>6. f = [i \in 1 .. N |-> f[i]] /\ \A i \in 1 .. N : f[i] = serial.nodes[i].name
  BY <1>4 DEF NamesIn
<1>7. f \in Seq({f[i] : i \in 1 .. N}) /\ Len(f) = N
  <2> HIDE DEF f, N
  <2>1. QED BY <1>4, <1>6, PlacesAre
<1>8. {f[i] : i \in 1 .. N} = {serial.nodes[i].name : i \in 1 .. N}
  BY <1>6
<1>9. Listed(serial, N)
  <2>1. f \in Seq({serial.nodes[i].name : i \in 1 .. N})
    BY <1>7, <1>8
  <2>2. Length(serial) = 3 * N + 1
    BY DEF Length
  <2>3. \E Y : \A i \in 1 .. N : serial.nodes[i].arcs \in Seq(Y)
    BY <1>5
  <2>4. QED BY <1>4, <1>5, <1>7, <2>1, <2>2, <2>3 DEF Listed
<1>10. ASSUME NEW l \in DOMAIN ArcsIn(serial)
       PROVE  ReadableArc(ArcsIn(serial)[l].arc, N)
  <2> DEFINE q == ArcsIn(serial)
  <2>1. /\ q \in Seq({q[m] : m \in DOMAIN q})
        /\ ListedArc(q[l], serial, N)
    <3> HIDE DEF N
    <3>1. QED BY <1>9, ArcsInAre
  <2>2a. PICK i \in 1 .. N : \E j \in DOMAIN serial.nodes[i].arcs :
          q[l] = [from |-> serial.nodes[i].name, arc |-> serial.nodes[i].arcs[j]]
    BY <2>1 DEF ListedArc
  <2>2. PICK j \in DOMAIN serial.nodes[i].arcs :
          q[l] = [from |-> serial.nodes[i].name, arc |-> serial.nodes[i].arcs[j]]
    BY <2>2a
  <2> DEFINE e == serial.nodes[i].arcs[j]
  <2>3. q[l].arc = e
    BY <2>2
  <2>4. SoundArc(serial, e)
    BY <1>4 DEF Sound
  <2>5. e \in SerialArcs
    BY <1>5
  <2>6. e # Malformed
    BY <2>4 DEF SoundArc
  <2>7. e.name \in ArcName /\ e.ref \in Int
    BY <2>5, <2>6 DEF SerialArcs
  <2>8. e.ref % 3 = 0 /\ e.ref >= 0 /\ e.ref < 3 * N + 1
    BY <2>4 DEF SoundArc, Length
  <2>9. e.ref # 3 * N
    <3>1. q[l] \in ToSet(q)
      BY DEF ToSet
    <3>2. e.ref # Length(serial) - 1
      BY <1>1, <2>3, <2>6, <3>1 DEF MayRead
    <3>3. QED BY <1>4, <3>2 DEF Length
  <2>10. e.name # NoName
    BY <2>7, StoreAssumption
  <2>11. e.ref \in Nat /\ \E p \in 1 .. N : e.ref = 3 * (p - 1)
    <3> HIDE DEF e, N
    <3>1. QED BY <1>4, <2>7, <2>8, <2>9, PlaceOfRef
  <2>12. QED BY <2>3, <2>10, <2>11 DEF ReadableArc
<1>11. QED BY <1>9, <1>10 DEF Readable

\* A list of the program that is read, or refused.
LEMMA ReadFit ==
  ASSUME NEW s, NEW A, NEW W, Fit(s, A, W), 0 \notin A, NEW dst \in Graph, dst \in A, NEW serial \in Serials,
         Fits(s, serial), MayRead(serial), Defects = {}
  PROVE  LET r == gm_DESERIALIZE(s, dst, serial) IN Fit(r, A, Anew(s, r, W, dst))
<1>1. ASSUME Sound(serial)
      PROVE  \E N : Readable(serial, N) /\ HasRoom(s, "nodes", N) /\ HasRoom(s, "arcs", Len(ArcsIn(serial)))
  <2>1. Readable(serial, Len(serial.nodes))
    BY <1>1, ReadableSerial
  <2>2. HasRoom(s, "nodes", Len(serial.nodes)) /\ HasRoom(s, "arcs", Len(ArcsIn(serial)))
    BY <1>1 DEF Fits, Sound
  <2>3. QED BY <2>1, <2>2
<1> DEFINE r == g_deserialize(s, dst, serial)
<1>2. Fit(r, A, Anew(s, r, W, dst))
  BY <1>1, DeserializeFit
<1>3. QED BY <1>2 DEF gm_DESERIALIZE

-----------------------------------------------------------------------------
(* The commands *)

\* What holds between the commands: the store is fit, what is in it is of the graphs
\* the program has, and the nodes of those that dup has not copied are linked back.
Inv == Fit(h, alive, Graph \ copied) /\ alive \subseteq Graph

\* The parts of it.
LEMMA InvParts ==
  ASSUME Inv
  PROVE  /\ Fit(h, alive, Graph \ copied) /\ Knit(h, {}) /\ alive \subseteq Graph /\ 0 \notin alive
         /\ \A g \in Graph : g \in Gs
BY FitBase DEF Inv, Graph, Gs

\* An edit keeps it when its store is fit.
LEMMA BecomesInv ==
  ASSUME NEW g, NEW s, Becomes(s), Fit(s, alive, Graph \ copied), alive \subseteq Graph
  PROVE  Inv'
BY DEF Becomes, Inv

\* The store before any graph.
LEMMA StoreFit ==
  ASSUME NEW W
  PROVE  Fit(Store, {}, W)
<1>1. PICK s : s = Store
  OBVIOUS
<1>2. /\ DOMAIN s = Fields
      /\ s.name = [c \in GC |-> NoName] /\ s.next = [c \in GC |-> 0] /\ s.prev = [c \in GC |-> 0]
      /\ s.attr = [c \in GC |-> NoAttr] /\ s.owner = [c \in GC |-> 0]
  BY <1>1 DEF Store, Fields
<1>3. /\ s.in = [n \in GN |-> <<>>] /\ s.out = [n \in GN |-> <<>>]
      /\ s.start = [a \in GA |-> 0] /\ s.end = [a \in GA |-> 0] /\ s.weight = [a \in GA |-> NoWeight]
  BY <1>1 DEF Store
<1>4. /\ s.first = [g \in Gs |-> [k \in Kinds |-> 0]] /\ s.n = [g \in Gs |-> [k \in Kinds |-> 0]]
      /\ s.map = [g \in Gs |-> [k \in Kinds |-> <<>>]]
      /\ s.counter = [g \in Gs |-> [k \in Kinds |-> 0]] /\ s.gattr = [g \in Gs |-> NoAttr]
  BY <1>1 DEF Store, NothingOf, Gs
<1>5. Shape(s)
  <2>1. LinksType(s.next, s.prev)
    BY <1>2 DEF LinksType
  <2>2. BasicType(s.name, s.attr, s.owner)
    <3>1. 0 \in Gs
      BY DEF Gs
    <3>2. s.owner \in [GC -> Gs]
      BY <1>2, <3>1
    <3>3. DOMAIN s.name = GC /\ DOMAIN s.attr = GC
      BY <1>2
    <3>4. QED BY <3>2, <3>3 DEF BasicType
  <2>3. NodeType(s.in, s.out)
    <3>1. <<>> \in Seq(GA)
      OBVIOUS
    <3>2. QED BY <1>3, <3>1 DEF NodeType
  <2>4. ArcType(s.start, s.end, s.weight)
    BY <1>3 DEF ArcType
  <2>5. ListType(s.first, s.n)
    BY <1>4 DEF ListType
  <2>6. TableType(s.map)
    BY <1>4 DEF TableType
  <2>7. RestType(s.counter, s.gattr)
    BY <1>4 DEF RestType
  <2>8. QED BY <1>2, <2>1, <2>2, <2>3, <2>4, <2>5, <2>6, <2>7 DEF Shape
<1>6. \A k \in Kinds : Live(s, k) = {}
  BY <1>2, Pools DEF Live
<1>7. \A g \in Gs, k \in Kinds : Own(s, g, k) = {}
  BY <1>6 DEF Own
<1> DEFINE S == [g \in Gs |-> [k \in Kinds |-> <<>>]]
<1>8. S \in [Gs -> [Kinds -> Seq(GC)]] /\ \A g \in Gs, k \in Kinds : S[g][k] = <<>>
  <2>1. <<>> \in Seq(GC)
    OBVIOUS
  <2>2. QED BY <2>1
<1>9. Chained(s, S)
  <2>1. ASSUME NEW g \in Gs, NEW k \in Kinds
        PROVE  ListOf(s, g, k, <<>>)
    <3>1. s.n[g][k] = 0 /\ s.first[g][k] = 0
      BY <1>4
    <3>2. ToSet(<<>>) = {} /\ IsInjective(<<>>)
      BY DEF ToSet, IsInjective
    <3>3. <<>> \in Seq(GC) /\ Len(<<>>) = 0
      OBVIOUS
    <3>4. PICK q : q = <<>>
      OBVIOUS
    <3>5. /\ q \in Seq(GC) /\ IsInjective(q) /\ ToSet(q) = Own(s, g, k) /\ Len(q) = 0
          /\ s.n[g][k] = 0 /\ s.first[g][k] = 0
      BY <1>7, <3>1, <3>2, <3>3, <3>4
    <3>6. ListOf(s, g, k, q)
      BY <3>4, <3>5 DEF ListOf
    <3>7. QED BY <3>4, <3>6
  <2>2. \A c \in GC : s.next[c] = 0 /\ s.owner[c] = 0
    BY <1>2
  <2> HIDE DEF S
  <2>3. QED BY <1>8, <2>1, <2>2 DEF Chained
<1>10. Tables(s)
  <2>1. ASSUME NEW g \in Gs, NEW k \in Kinds
        PROVE  TableOf(s, g, k)
    <3>1. s.map[g][k] = <<>>
      BY <1>4
    <3>2. <<>> \in [{} -> {}]
      OBVIOUS
    <3>3. {s.name[c] : c \in {}} = {}
      OBVIOUS
    <3>4. QED BY <1>7, <3>1, <3>2, <3>3 DEF TableOf
  <2>2. QED BY <2>1 DEF Tables
<1>11. Base(s) /\ \A g \in Gs, k \in Kinds : Chain(s, g, k) = <<>>
  <2>1. Chained(s, Lists(s)) /\ S = Lists(s) /\ \A g \in Gs, k \in Kinds : Lists(s)[g][k] = Chain(s, g, k)
    <3> HIDE DEF S
    <3>1. QED BY <1>5, <1>9, ListsAre
  <2>2. QED BY <1>5, <1>8, <1>10, <2>1 DEF Base
<1>12. Joined(s, {})
  BY <1>6, Pools DEF Joined, ArcEnds
<1>13. Knit(s, {})
  <2>1. \A g \in Gs : Back(s, Chain(s, g, "arcs"))
    BY <1>11, Pools DEF Back
  <2>2. QED BY <1>11, <1>12, <2>1 DEF Knit
<1>14. \A g \in Gs : Tied(s, W, g)
  BY <1>11, Pools DEF Tied, Headed, Back
<1>15. Fit(s, {}, W)
  BY <1>7, <1>13, <1>14 DEF Fit
<1>16. QED BY <1>1, <1>15

\* It holds at first.
LEMMA InvInit ==
  GraphInit => Inv
BY StoreFit DEF GraphInit, Inv

\* Every command keeps it: a new graph,
LEMMA NewInv ==
  ASSUME Inv, NEW g \in Graph, gms_new(g)
  PROVE  Inv'
<1> USE InvParts
<1>1. \A k \in Kinds : Own(h, g, k) = {}
  BY DEF gms_new, Fit, Gs
<1> DEFINE W == Graph \ copied
           V == Graph \ (copied \ {g})
<1>2. Fit(h, alive, V)
  <2>1. g \notin alive /\ \A g2 \in Gs : g2 \in V => g2 \in W \/ g2 \notin alive
    BY DEF gms_new
  <2>2. Fit(h, alive, W)
    OBVIOUS
  <2> HIDE DEF V, W
  <2>3. QED BY <2>1, <2>2, FitWider
<1> HIDE DEF V
<1>3. Fit(g_new(h, g), alive \cup {g}, V)
  <2>1. Fit(g_new(h, g), alive, V)
    BY <1>1, <1>2, NewFit
  <2>2. QED BY <2>1, FitMore
<1>4. QED BY <1>3 DEF gms_new, Inv, V

\* a graph that is destroyed,
LEMMA DestroyInv ==
  ASSUME Inv, NEW g \in Graph, gm_DESTROY(g)
  PROVE  Inv'
<1> USE InvParts
<1> DEFINE V == Graph \ (copied \ {g})
<1>1. Fit(g_delete(h, g), alive \ {g}, Graph \ copied)
  BY DeleteFit
<1>2. \A g2 \in Gs : g2 \in V => g2 \in Graph \ copied \/ g2 \notin alive \ {g}
  OBVIOUS
<1> HIDE DEF V
<1>3. Fit(g_delete(h, g), alive \ {g}, V)
  BY <1>1, <1>2, FitWider
<1>4. QED BY <1>3 DEF gm_DESTROY, Inv, V

\* (rename leaves a fit store)
LEMMA RenameMethodsFit ==
  ASSUME NEW s, NEW A, NEW W, Fit(s, A, W), NEW g \in Gs, NEW x, NEW y, y # NoName
  PROVE  Fit(gm_node_RENAME(s, g, x, y), A, W) /\ Fit(gm_arc_RENAME(s, g, x, y), A, W)
<1>1. Knit(s, {})
  BY FitBase
<1>2. ASSUME gn_get_node(s, g, x) # 0, gn_get_node(s, g, y) = 0
      PROVE  Fit(gc_rename(s, gn_get_node(s, g, x), "nodes", y), A, W)
  <2>1. gn_get_node(s, g, x) \in Own(s, g, "nodes") /\ "nodes" \in Kinds
    BY <1>1, <1>2, NodeFound DEF Kinds
  <2>2. y \notin DOMAIN s.map[g]["nodes"]
    BY <1>1, <1>2, <2>1, NotFound DEF gn_get_node
  <2>3. QED BY <2>1, <2>2, RenameFit
<1>3. ASSUME ga_get_arc(s, g, x) # 0, ga_get_arc(s, g, y) = 0
      PROVE  Fit(gc_rename(s, ga_get_arc(s, g, x), "arcs", y), A, W)
  <2>1. ga_get_arc(s, g, x) \in Own(s, g, "arcs") /\ "arcs" \in Kinds
    BY <1>1, <1>3, ArcFound DEF Kinds
  <2>2. y \notin DOMAIN s.map[g]["arcs"]
    BY <1>1, <1>3, <2>1, NotFound DEF ga_get_arc
  <2>3. QED BY <2>1, <2>2, RenameFit
<1>4. QED BY <1>2, <1>3 DEF gm_node_RENAME, gm_arc_RENAME

\* edits of nodes,
LEMMA NodesInv ==
  ASSUME Inv, NEW g \in Graph, EditNodes(g), Defects = {}
  PROVE  Inv'
<1> USE InvParts
<1>1. g \in alive /\ g \in Gs
  BY DEF EditNodes, CanEdit
<1>2. ASSUME NEW xs \in NodeLists, HasRoom(h, "nodes", Max({1, Len(xs)})),
             xs = <<>> => CanGenerate(h, g, "nodes"), Becomes(gm_node_INSERT(h, g, xs))
      PROVE  Inv'
  BY <1>1, <1>2, NodeInsertFit, BecomesInv
<1>3. ASSUME NEW xs \in NodeLists, MayDelete(h, g, xs), Becomes(gm_node_DELETE(h, g, xs))
      PROVE  Inv'
  <2>1. xs \in Seq(NodeName)
    <3>1. CASE xs = <<>>
      BY <3>1
    <3>2. CASE \E x \in NodeName : xs = <<x>>
      BY <3>2
    <3>3. CASE \E x, y \in NodeName : xs = <<x, y>>
      BY <3>3
    <3>4. QED BY <3>1, <3>2, <3>3 DEF NodeLists
  <2>2. QED BY <1>1, <1>3, <2>1, NodeDeleteFit, BecomesInv
<1>4. ASSUME NEW x \in NodeName, NEW y \in NodeName, Becomes(gm_node_RENAME(h, g, x, y))
      PROVE  Inv'
  <2>1. y # NoName
    BY StoreAssumption
  <2>2. QED BY <1>1, <1>4, <2>1, RenameMethodsFit, BecomesInv
<1>5. ASSUME NEW x \in NodeName, NEW y \in NodeName, Becomes(gm_SWAP(h, g, x, y))
      PROVE  Inv'
  BY <1>1, <1>5, SwapFit, BecomesInv
<1>6. QED BY <1>2, <1>3, <1>4, <1>5 DEF EditNodes

\* (lists of names)
LEMMA ArcListsAre ==
  ArcLists \subseteq Seq(ArcName)
<1> SUFFICES ASSUME NEW q \in ArcLists PROVE q \in Seq(ArcName)
  OBVIOUS
<1> DEFINE one == {<<x>> : x \in ArcName}
           two == {<<x, y>> : x, y \in ArcName}
<1>1. q \in one \/ q \in two
  BY DEF ArcLists
<1>2. ASSUME NEW x \in ArcName PROVE <<x>> \in Seq(ArcName)
  OBVIOUS
<1>3. ASSUME NEW x \in ArcName, NEW y \in ArcName PROVE <<x, y>> \in Seq(ArcName)
  OBVIOUS
<1>4. CASE q \in one
  <2>1. PICK x \in ArcName : q = <<x>>
    BY <1>4
  <2>2. QED BY <1>2, <2>1
<1>5. CASE q \in two
  <2>1. PICK x \in ArcName, y \in ArcName : q = <<x, y>>
    BY <1>5
  <2>2. QED BY <1>3, <2>1
<1>6. QED BY <1>1, <1>4, <1>5

\* edits of arcs,
LEMMA ArcsInv ==
  ASSUME Inv, NEW g \in Graph, EditArcs(g)
  PROVE  Inv'
<1> USE InvParts
<1>1. g \in alive /\ g \in Gs
  BY DEF EditArcs, CanEdit
<1>2. ASSUME NEW x \in NodeName, NEW y \in NodeName, NEW as \in {<<>>} \cup ArcLists, HasRoom(h, "arcs", 1),
             as = <<>> => CanGenerate(h, g, "arcs"), Becomes(gm_arc_INSERT(h, g, x, y, as))
      PROVE  Inv'
  BY <1>1, <1>2, ArcInsertFit, BecomesInv
<1>3. ASSUME NEW as \in ArcLists, Becomes(gm_arc_DELETE(h, g, as))
      PROVE  Inv'
  <2>1. as \in Seq(ArcName)
    BY ArcListsAre
  <2>2. QED BY <1>1, <1>3, <2>1, ArcDeleteFit, BecomesInv
<1>4. ASSUME NEW a \in ArcName, NEW b \in ArcName, Becomes(gm_arc_RENAME(h, g, a, b))
      PROVE  Inv'
  <2>1. b # NoName
    BY StoreAssumption
  <2>2. QED BY <1>1, <1>4, <2>1, RenameMethodsFit, BecomesInv
<1>5. ASSUME NEW a \in ArcName, Becomes(gm_arc_FLIP(h, g, a))
      PROVE  Inv'
  BY <1>1, <1>5, ArcMethodsFit, BecomesInv
<1>6. ASSUME NEW a \in ArcName, NEW x \in NodeName, NEW y \in NodeName,
             \/ Becomes(gm_arc_MOVE(h, g, a, x, y))
             \/ Becomes(gm_arc_MOVE_SRC(h, g, a, x))
             \/ Becomes(gm_arc_MOVE_TARG(h, g, a, x))
      PROVE  Inv'
  <2>1. /\ Fit(gm_arc_MOVE(h, g, a, x, y), alive, Graph \ copied) /\ Fit(gm_arc_MOVE_SRC(h, g, a, x), alive, Graph \ copied)
        /\ Fit(gm_arc_MOVE_TARG(h, g, a, x), alive, Graph \ copied)
    BY <1>1, ArcMethodsFit
  <2>2. QED BY <1>6, <2>1, BecomesInv
<1>7. QED BY <1>2, <1>3, <1>4, <1>5, <1>6 DEF EditArcs

\* of weights,
LEMMA WeightsInv ==
  ASSUME Inv, NEW g \in Graph, EditWeights(g)
  PROVE  Inv'
<1> USE InvParts
<1>1. g \in Gs
  OBVIOUS
<1>2. \A x, w : /\ Fit(gm_arc_SETWEIGHT(h, g, x, w), alive, Graph \ copied) /\ Fit(gm_arc_UNSETWEIGH(h, g, x), alive, Graph \ copied)
                /\ Fit(gm_arc_SETUNWEIGH(h, g, w), alive, Graph \ copied)
  BY <1>1, WeightMethodsFit
<1>3. QED BY <1>2, BecomesInv DEF EditWeights

\* (attributes: every method leaves a fit store)
LEMMA AttributeMethodsFit ==
  ASSUME NEW s, NEW A, NEW W, Fit(s, A, W), NEW g, NEW x, NEW k, NEW v
  PROVE  /\ Fit(gm_node_SET(s, g, x, k, v), A, W) /\ Fit(gm_node_UNSET(s, g, x, k), A, W)
         /\ Fit(gm_node_APPEND(s, g, x, k, v), A, W) /\ Fit(gm_node_LAPPEND(s, g, x, k, v), A, W)
         /\ Fit(gm_arc_SET(s, g, x, k, v), A, W) /\ Fit(gm_arc_UNSET(s, g, x, k), A, W)
         /\ Fit(gm_arc_APPEND(s, g, x, k, v), A, W) /\ Fit(gm_arc_LAPPEND(s, g, x, k, v), A, W)
         /\ Fit(gm_SET(s, g, k, v), A, W) /\ Fit(gm_UNSET(s, g, k), A, W)
         /\ Fit(gm_APPEND(s, g, k, v), A, W) /\ Fit(gm_LAPPEND(s, g, k, v), A, W)
<1>1. \A c, at : Fit(SetAttr(s, c, at), A, W)
  BY SetAttrFit
<1>2. \A at : Fit([s EXCEPT !.gattr[g] = at], A, W)
  BY GraphAttrFit
<1>3. /\ Fit(gm_node_SET(s, g, x, k, v), A, W) /\ Fit(gm_node_UNSET(s, g, x, k), A, W)
      /\ Fit(gm_node_APPEND(s, g, x, k, v), A, W) /\ Fit(gm_node_LAPPEND(s, g, x, k, v), A, W)
  BY <1>1 DEF gm_node_SET, gm_node_UNSET, gm_node_APPEND, gm_node_LAPPEND
<1>4. /\ Fit(gm_arc_SET(s, g, x, k, v), A, W) /\ Fit(gm_arc_UNSET(s, g, x, k), A, W)
      /\ Fit(gm_arc_APPEND(s, g, x, k, v), A, W) /\ Fit(gm_arc_LAPPEND(s, g, x, k, v), A, W)
  BY <1>1 DEF gm_arc_SET, gm_arc_UNSET, gm_arc_APPEND, gm_arc_LAPPEND
<1>5. /\ Fit(gm_SET(s, g, k, v), A, W) /\ Fit(gm_UNSET(s, g, k), A, W)
      /\ Fit(gm_APPEND(s, g, k, v), A, W) /\ Fit(gm_LAPPEND(s, g, k, v), A, W)
  BY <1>2 DEF gm_SET, gm_UNSET, gm_APPEND, gm_LAPPEND
<1>6. QED BY <1>3, <1>4, <1>5

\* of attributes,
LEMMA AttributesInv ==
  ASSUME Inv, NEW g \in Graph, EditAttributes(g)
  PROVE  Inv'
<1> USE InvParts
<1> DEFINE W == Graph \ copied
<1>1. Fit(h, alive, W)
  OBVIOUS
<1> HIDE DEF W
<1> DEFINE StaysFit(s) == Fit(s, alive, W)
<1>2. \A x, k, v :
        /\ StaysFit(gm_node_SET(h, g, x, k, v)) /\ StaysFit(gm_node_UNSET(h, g, x, k))
        /\ StaysFit(gm_node_APPEND(h, g, x, k, v)) /\ StaysFit(gm_node_LAPPEND(h, g, x, k, v))
        /\ StaysFit(gm_arc_SET(h, g, x, k, v)) /\ StaysFit(gm_arc_UNSET(h, g, x, k))
        /\ StaysFit(gm_arc_APPEND(h, g, x, k, v)) /\ StaysFit(gm_arc_LAPPEND(h, g, x, k, v))
        /\ StaysFit(gm_SET(h, g, k, v)) /\ StaysFit(gm_UNSET(h, g, k))
        /\ StaysFit(gm_APPEND(h, g, k, v)) /\ StaysFit(gm_LAPPEND(h, g, k, v))
  BY <1>1, AttributeMethodsFit
<1> HIDE DEF StaysFit
<1>3. \E s : Becomes(s) /\ StaysFit(s)
  BY <1>2 DEF EditAttributes
<1>4. QED BY <1>3, BecomesInv DEF W, StaysFit

\* a list that is read,
LEMMA ReadInv ==
  ASSUME Inv, Read, Defects = {}
  PROVE  Inv'
<1> USE InvParts
<1>1. PICK serial \in Serials : /\ 1 \in alive /\ Fits(h, serial) /\ MayRead(serial)
                                /\ h' = gm_DESERIALIZE(h, 1, serial) /\ alive' = alive
                                /\ copied' = Afresh(h', 1)
  BY DEF Read
<1>2. Fit(h', alive, Anew(h, h', Graph \ copied, 1)) /\ 1 \in Graph
  BY <1>1, ReadFit DEF Graph
<1>3. Anew(h, h', Graph \ copied, 1) = Graph \ copied'
  BY <1>1, <1>2 DEF Anew, Afresh
<1>4. QED BY <1>1, <1>2, <1>3 DEF Inv

\* a copy.
LEMMA CopyInv ==
  ASSUME Inv, NEW g \in Graph, CopyOver(g)
  PROVE  Inv'
<1> USE InvParts
<1> DEFINE W == Graph \ copied
<1>1. PICK src \in alive : /\ g \in alive /\ FitsCopy(h, src) /\ alive' = alive
                           /\ \E own \in BOOLEAN : /\ h' = gm_GASSIGN(h, g, src, own) \/ h' = gm_GSET(h, src, g, own)
                                                   /\ copied' = CopiedBy(h', src, g, own)
  BY DEF CopyOver
<1>2. PICK own \in BOOLEAN : /\ h' = gm_GASSIGN(h, g, src, own) \/ h' = gm_GSET(h, src, g, own)
                             /\ copied' = CopiedBy(h', src, g, own)
  BY <1>1
<1>3. CASE own
  <2>1. h' = g_assign(h, g, src)
    BY <1>2, <1>3 DEF gm_GASSIGN, gm_GSET, g_ms_assign, g_ms_set
  <2>2. Fit(h', alive, (W \ {src}) \cup {g})
    BY <1>1, <2>1, AssignFit
  <2>3. (W \ {src}) \cup {g} = Graph \ copied'
    BY <1>2, <1>3 DEF CopiedBy
  <2>4. QED BY <1>1, <2>2, <2>3 DEF Inv
<1>4. CASE ~ own
  <2>1. h' = g_deserialize(h, g, g_ms_serialize(h, src, <<>>))
    BY <1>2, <1>4 DEF gm_GASSIGN, gm_GSET, g_ms_assign, g_ms_set
  <2>2. Fit(h', alive, Anew(h, h', W, g))
    BY <1>1, <2>1, RewriteFit
  <2>3. Anew(h, h', W, g) = Graph \ copied'
    BY <1>2, <1>4 DEF Anew, Afresh, CopiedBy
  <2>4. QED BY <1>1, <2>2, <2>3 DEF Inv
<1>5. QED BY <1>3, <1>4

\* So every step keeps it.
LEMMA InvNext ==
  ASSUME Defects = {}, Inv, [GraphNext]_gVars
  PROVE  Inv'
<1>1. CASE Read
  BY <1>1, ReadInv
<1>2. ASSUME NEW g \in Graph, gms_new(g)
      PROVE  Inv'
  BY <1>2, NewInv
<1>3. ASSUME NEW g \in Graph, gm_DESTROY(g)
      PROVE  Inv'
  BY <1>3, DestroyInv
<1>4. ASSUME NEW g \in Graph, EditNodes(g)
      PROVE  Inv'
  BY <1>4, NodesInv
<1>5. ASSUME NEW g \in Graph, EditArcs(g)
      PROVE  Inv'
  BY <1>5, ArcsInv
<1>6. ASSUME NEW g \in Graph, EditWeights(g)
      PROVE  Inv'
  BY <1>6, WeightsInv
<1>7. ASSUME NEW g \in Graph, EditAttributes(g)
      PROVE  Inv'
  BY <1>7, AttributesInv
<1>8. ASSUME NEW g \in Graph, CopyOver(g)
      PROVE  Inv'
  BY <1>8, CopyInv
<1>9. CASE UNCHANGED gVars
  BY <1>9 DEF Inv, gVars
<1>10. QED BY <1>1, <1>2, <1>3, <1>4, <1>5, <1>6, <1>7, <1>8, <1>9 DEF GraphNext

\* The structures of a list have as many names as it is long.
LEMMA NamesAsMany ==
  ASSUME NEW X, NEW q \in Seq(X), IsInjective(q), NEW name,
         \A c, d \in ToSet(q) : name[c] = name[d] => c = d
  PROVE  Cardinality({name[c] : c \in ToSet(q)}) = Len(q)
<1> DEFINE n == Len(q)
           T == {name[c] : c \in ToSet(q)}
           f == [i \in 1 .. n |-> name[q[i]]]
<1>1. n \in Nat /\ DOMAIN q = 1 .. n
  BY SeqDomain
<1>2. \A i \in 1 .. n : q[i] \in ToSet(q)
  BY <1>1 DEF ToSet
<1>3. f \in [1 .. n -> T]
  BY <1>2
<1>4. \A i, j \in 1 .. n : f[i] = f[j] => i = j
  <2>1. \A i, j \in 1 .. n : q[i] = q[j] => i = j
    BY <1>1 DEF IsInjective
  <2>2. QED BY <1>2, <2>1
<1>5. \A t \in T : \E i \in 1 .. n : f[i] = t
  BY <1>1 DEF ToSet
<1>6. f \in Bijection(1 .. n, T)
  <2>1. f \in Injection(1 .. n, T)
    BY <1>3, <1>4 DEF Injection, IsInjective
  <2>2. f \in Surjection(1 .. n, T)
    <3> HIDE DEF f, T
    <3>1. QED BY <1>3, <1>5 DEF Surjection
  <2>3. QED BY <2>1, <2>2 DEF Bijection
<1>7. ExistsBijection(1 .. n, T)
  BY <1>6 DEF ExistsBijection
<1>8. QED BY <1>1, <1>7, FS_CountingElements

\* A graph of a fit store: its list, and the table and the number that go with it.
ListAgrees(s, C, g, k) ==
  LET c == Chain(s, g, k)
  IN  /\ IsInjective(c) /\ Len(c) = s.n[g][k]
      /\ ToSet(c) = {x \in Live(s, k) : s.owner[x] = g}
      /\ s.map[g][k] = [x \in {s.name[e] : e \in ToSet(c)} |->
                          CHOOSE e \in ToSet(c) : s.name[e] = x]
      /\ Cardinality(DOMAIN s.map[g][k]) = Len(c)
      /\ k = "arcs" \/ g \notin C => LinkedBack(s, g, k)

\* They agree in a fit store.
LEMMA ListAgreesIs ==
  ASSUME NEW s, NEW A, NEW C, Fit(s, A, Graph \ C), NEW g \in Graph, NEW k \in Kinds
  PROVE  ListAgrees(s, C, g, k)
<1> DEFINE c == Chain(s, g, k)
<1>1. Base(s) /\ Knit(s, {}) /\ g \in Gs
  BY FitBase DEF Graph, Gs
<1>2. /\ ListOf(s, g, k, c)
      /\ c \in Seq(GC) /\ IsInjective(c) /\ ToSet(c) = Own(s, g, k) /\ Len(c) \in Nat
  BY <1>1, ChainList
<1>3. Len(c) = s.n[g][k]
  BY <1>2 DEF ListOf
<1>4. ToSet(c) = {x \in Live(s, k) : s.owner[x] = g}
  BY <1>2 DEF Own
<1>5. TableOf(s, g, k)
  BY <1>1 DEF Base, Tables
<1>6. \A d, e \in ToSet(c) : s.name[d] = s.name[e] => d = e
  <2>1. Tables(s)
    BY <1>1 DEF Base
  <2>2. \A d, e \in Own(s, g, k) : s.name[d] = s.name[e] => d = e
    BY <1>1, <2>1, FoundIs
  <2> HIDE DEF c
  <2>3. QED BY <1>2, <2>2
<1>7. s.map[g][k] = [x \in {s.name[e] : e \in ToSet(c)} |-> CHOOSE e \in ToSet(c) : s.name[e] = x]
  <2> DEFINE O == Own(s, g, k)
             m == s.map[g][k]
  <2>1. m \in [{s.name[d] : d \in O} -> O] /\ \A d \in O : m[s.name[d]] = d
    BY <1>5 DEF TableOf
  <2>2. \A d, e \in O : s.name[d] = s.name[e] => d = e
    BY <1>2, <1>6
  <2> HIDE DEF O, m
  <2>3. ASSUME NEW x \in {s.name[d] : d \in O}
        PROVE  m[x] = CHOOSE e \in O : s.name[e] = x
    <3>1. PICK d \in O : s.name[d] = x
      OBVIOUS
    <3>2. (CHOOSE e \in O : s.name[e] = x) \in O /\ s.name[CHOOSE e \in O : s.name[e] = x] = x
      BY <3>1
    <3>3. QED BY <2>1, <2>2, <3>1, <3>2
  <2>4. m = [x \in {s.name[d] : d \in O} |-> CHOOSE e \in O : s.name[e] = x]
    BY <2>1, <2>3
  <2>5. QED BY <1>2, <2>4 DEF O, m
<1>8. Cardinality(DOMAIN s.map[g][k]) = Len(c)
  <2>1. DOMAIN s.map[g][k] = {s.name[e] : e \in ToSet(c)}
    BY <1>7
  <2> HIDE DEF c
  <2>2. Cardinality({s.name[e] : e \in ToSet(c)}) = Len(c)
    BY <1>2, <1>6, NamesAsMany
  <2>3. QED BY <2>1, <2>2
<1>9. ASSUME k = "arcs" \/ g \notin C
      PROVE  LinkedBack(s, g, k)
  <2> SUFFICES Back(s, c)
    <3>1. DOMAIN c = 1 .. Len(c)
      BY <1>2
    <3>2. QED BY <3>1 DEF Back, LinkedBack
  <2>1. CASE k = "arcs"
    BY <2>1, <1>1 DEF Knit
  <2>2. CASE k = "nodes" /\ g \notin C
    BY <2>2, <1>1 DEF Fit, Tied
  <2>3. QED BY <2>1, <2>2, <1>9, Pools
<1>10. QED BY <1>2, <1>3, <1>4, <1>7, <1>8, <1>9 DEF ListAgrees

\* A fit store is well linked.
LEMMA InvLinks ==
  Inv => LinksAgree
<1> SUFFICES ASSUME Inv PROVE LinksAgree
  OBVIOUS
<1> USE InvParts
<1>1. \A g \in Graph, k \in Kinds : ListAgrees(h, copied, g, k)
  BY ListAgreesIs
<1>2. Base(h) /\ Shape(h) /\ Joined(h, {})
  BY FitBase
<1>3. ASSUME NEW c \in GN \cup GA, h.name[c] # NoName
      PROVE  h.owner[c] \in alive
  <2>1. PICK k \in Kinds : c \in Live(h, k)
    BY <1>3, Pools DEF Live
  <2>2. h.owner[c] \in Gs /\ c \in Own(h, h.owner[c], k)
    BY <1>2, <2>1, Owned
  <2>3. QED BY <2>2 DEF Fit
<1>4. ASSUME NEW a \in Live(h, "arcs")
      PROVE  {h.start[a], h.end[a]} \subseteq {n \in Live(h, "nodes") : h.owner[n] = h.owner[a]}
  BY <1>2 DEF Joined, ArcEnds, EndOf
<1>5. ASSUME NEW n \in Live(h, "nodes")
      PROVE  Inlinks(h, n) /\ Outlinks(h, n)
  BY <1>2 DEF Joined
<1>6. WellLinked(h, copied)
  BY <1>1, <1>3, <1>4, <1>5 DEF WellLinked, ListAgrees, Inlinks, Outlinks
<1>7. QED BY <1>6 DEF LinksAgree

\* While the program makes none of the calls the code gets wrong, lists, tables
\* and interlinks agree in every state, however many nodes, arcs and names there are;
\* arcs are linked back, and nodes of the graphs that dup has not copied.
THEOREM LinksAgreeAlways ==
  ASSUME Defects = {}
  PROVE  GraphSpec => []LinksAgree
<1>1. GraphInit => Inv
  BY InvInit
<1>2. Inv /\ [GraphNext]_gVars => Inv'
  BY InvNext
<1>3. Inv => LinksAgree
  BY InvLinks
<1>4. QED BY <1>1, <1>2, <1>3, PTL DEF GraphSpec
=============================================================================

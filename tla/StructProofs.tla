----------------------------- MODULE StructProofs -----------------------------
(***************************************************************************)
(* Proofs about StructSet, StructQueue and StructStack, for any items.     *)
(*                                                                         *)
(* Sets, with any finite set of variables and arguments of any number: the *)
(* representations of an object never differ, and the commands are the     *)
(* operations on sets they are named for.  The invariant is SetInv: types, *)
(* and every object on the heap Fit.  What a folding command computes is   *)
(* proved by a least counterexample: the recursive function exists because *)
(* its closed form satisfies its equation, and the shortest part of the    *)
(* arguments on which it differs from that form cannot exist.              *)
(*                                                                         *)
(* Queues and stacks, of any number of items: the shape of the lists and   *)
(* the index of a queue; that a queue is one sequence of items, when no    *)
(* more than two items are put back at a time (with three it is not: the   *)
(* run that checks GetRemovesFront); and that a stack is one pile of items.*)
(***************************************************************************)
EXTENDS StructSet, StructQueue, StructStack,
        FiniteSetTheorems, SequenceTheorems, WellFoundedInduction, TLAPS


-----------------------------------------------------------------------------
(* Numbers and folds *)

LEMMA LeastOfNat ==
  ASSUME NEW T, T \subseteq Nat, T # {}
  PROVE  \E x \in T : \A y \in T : x <= y
<1>1. \E x \in T : \A y \in T : ~ (<<y, x>> \in OpToRel(<, Nat))
  BY NatLessThanWellFounded, WFMin
<1>2. \A x \in T, y \in T : y < x => <<y, x>> \in OpToRel(<, Nat)
  BY DEF OpToRel
<1>3. \A x \in T, y \in T : ~ (y < x) => x <= y
  OBVIOUS
<1>4. PICK x \in T : \A y \in T : ~ (<<y, x>> \in OpToRel(<, Nat))
  BY <1>1
<1>5. \A y \in T : x <= y
  BY <1>2, <1>3, <1>4
<1> QED BY <1>5

LEMMA GreatestOfNat ==
  ASSUME NEW n \in Nat, NEW T, T \subseteq 0 .. n, T # {}
  PROVE  \E x \in T : \A y \in T : y <= x
<1> DEFINE U == {k \in 0 .. n : n - k \in T}
<1>1. PICK t \in T : t \in 0 .. n
  OBVIOUS
<1>2. n - t \in U
  BY <1>1
<1>3. U \subseteq Nat
  OBVIOUS
<1>4. PICK k \in U : \A m \in U : k <= m
  <2> HIDE DEF U
  <2> QED BY <1>2, <1>3, LeastOfNat
<1>5. \A y \in T : n - y \in U /\ y \in 0 .. n
  OBVIOUS
<1>6. n - k \in T /\ k \in 0 .. n
  OBVIOUS
<1>7. \A y \in T : k <= n - y
  <2> HIDE DEF U
  <2> QED BY <1>4, <1>5
<1>8. \A y \in T : y <= n - k
  BY <1>5, <1>6, <1>7
<1> QED BY <1>6, <1>8

LEMMA MaxIs ==
  ASSUME NEW n \in Nat, NEW T, T \subseteq 0 .. n, T # {}
  PROVE  Max(T) \in T /\ \A y \in T : y <= Max(T)
<1>1. \E x \in T : \A y \in T : x >= y
  <2>1. PICK x \in T : \A y \in T : y <= x
    BY GreatestOfNat
  <2>2. \A y \in T : x >= y
    BY <2>1
  <2> QED BY <2>2
<1>2. Max(T) \in T /\ \A y \in T : Max(T) >= y
  BY <1>1 DEF Max
<1> QED BY <1>2

LEMMA MaxSegment ==
  ASSUME NEW k \in Nat \ {0}
  PROVE  Max(1 .. k) = k
<1>1. 1 .. k \subseteq 0 .. k /\ k \in 1 .. k /\ \A y \in 1 .. k : k <= y => y = k
  OBVIOUS
<1>2. Max(1 .. k) \in 1 .. k /\ k <= Max(1 .. k)
  BY <1>1, MaxIs
<1> QED BY <1>1, <1>2

\* The elements of several sets, added one set after the other.
LEMMA FoldAdd ==
  ASSUME NEW s, NEW n \in Nat, DOMAIN s = 1 .. n
  PROVE  FoldLeft(s_add, {}, s) = UNION {s[i] : i \in 1 .. n}
<1> DEFINE D == 1 .. n
           step(f, S) == IF S = {} THEN {} ELSE s_add(f[S \ {Max(S)}], s[Max(S)])
           fold == CHOOSE f : f = [S \in SUBSET D |-> step(f, S)]
           g == [S \in SUBSET D |-> UNION {s[i] : i \in S}]
<1>1. FoldLeft(s_add, {}, s) = fold[D]
  BY DEF FoldLeft, MapThenFoldSet
<1>2. g = [S \in SUBSET D |-> step(g, S)]
  <2>1. ASSUME NEW S \in SUBSET D
        PROVE  g[S] = step(g, S)
    <3>1. CASE S = {}
      BY <3>1
    <3>2. CASE S # {}
      <4> DEFINE m == Max(S)
      <4>1. m \in S
        <5>1. S \subseteq 0 .. n
          OBVIOUS
        <5> QED BY <3>2, <5>1, MaxIs
      <4>2. S \ {m} \in SUBSET D
        OBVIOUS
      <4> HIDE DEF m
      <4>3. UNION {s[i] : i \in S} = (UNION {s[i] : i \in S \ {m}}) \cup s[m]
        BY <4>1
      <4>4. g[S \ {m}] = UNION {s[i] : i \in S \ {m}} /\ g[S] = UNION {s[i] : i \in S}
        BY <4>2
      <4>5. step(g, S) = g[S \ {m}] \cup s[m]
        BY <3>2 DEF s_add, m
      <4> HIDE DEF step, g
      <4> QED BY <4>3, <4>4, <4>5
    <3> QED BY <3>1, <3>2
  <2> HIDE DEF step
  <2> QED BY <2>1
<1>3. fold = [S \in SUBSET D |-> step(fold, S)]
  <2> HIDE DEF g, step
  <2> QED BY <1>2
<1>4. \A S \in SUBSET D : fold[S] = step(fold, S)
  <2> HIDE DEF fold, step
  <2> QED BY <1>3
<1> HIDE DEF fold, g
<1> DEFINE sum(k) == UNION {s[i] : i \in 1 .. k}
           Bad == {k \in 0 .. n : fold[1 .. k] # sum(k)}
<1>5. Bad = {}
  <2>1. SUFFICES ASSUME Bad # {} PROVE FALSE
    OBVIOUS
  <2>2. PICK k \in Bad : \A j \in Bad : k <= j
    <3>1. Bad \subseteq Nat
      OBVIOUS
    <3> HIDE DEF Bad
    <3> QED BY <2>1, <3>1, LeastOfNat
  <2>3. k \in 0 .. n /\ fold[1 .. k] # sum(k) /\ \A j \in 0 .. n : j < k => fold[1 .. j] = sum(j)
    BY <2>2
  <2>4. k # 0
    <3>1. 1 .. 0 = {} /\ {} \in SUBSET D
      OBVIOUS
    <3>2. fold[{}] = {}
      BY <3>1, <1>4
    <3>3. sum(0) = {}
      BY <3>1
    <3> QED BY <3>1, <3>2, <3>3, <2>3
  <2>5. Max(1 .. k) = k /\ (1 .. k) \ {k} = 1 .. (k - 1) /\ 1 .. k \in SUBSET D /\ 1 .. k # {}
        /\ k - 1 \in 0 .. n /\ k - 1 < k
    <3>1. k \in Nat \ {0} /\ k <= n
      BY <2>3, <2>4
    <3>2. Max(1 .. k) = k
      BY <3>1, MaxSegment
    <3>3. (1 .. k) \ {k} = 1 .. (k - 1)
      BY <3>1
    <3>4. 1 .. k \in SUBSET D /\ 1 .. k # {} /\ k - 1 \in 0 .. n /\ k - 1 < k
      BY <3>1
    <3> QED BY <3>2, <3>3, <3>4
  <2>6. fold[1 .. k] = fold[1 .. (k - 1)] \cup s[k]
    BY <2>5, <1>4 DEF s_add
  <2>7. fold[1 .. (k - 1)] = sum(k - 1)
    BY <2>3, <2>5
  <2>8. sum(k) = sum(k - 1) \cup s[k]
    <3>1. 1 .. k = (1 .. (k - 1)) \cup {k}
      BY <2>3, <2>4
    <3> QED BY <3>1
  <2> QED BY <2>3, <2>6, <2>7, <2>8
<1>6. n \in 0 .. n
  OBVIOUS
<1>7. fold[1 .. n] = sum(n)
  BY <1>5, <1>6
<1> QED BY <1>1, <1>7
\* The elements that are in all of several sets, one set taken after the other.
LEMMA FoldIntersect ==
  ASSUME NEW b, NEW t, NEW n \in Nat, DOMAIN t = 1 .. n
  PROVE  FoldLeft(s_intersect, b, t) = {x \in b : \A i \in 1 .. n : x \in t[i]}
<1> DEFINE D == 1 .. n
           common(S) == {x \in b : \A i \in S : x \in t[i]}
           step(f, S) == IF S = {} THEN b ELSE s_intersect(f[S \ {Max(S)}], t[Max(S)])
           fold == CHOOSE f : f = [S \in SUBSET D |-> step(f, S)]
           g == [S \in SUBSET D |-> common(S)]
<1>0. \A X, Y : s_intersect(X, Y) = X \cap Y
  BY DEF s_intersect
<1>1. FoldLeft(s_intersect, b, t) = fold[D]
  BY DEF FoldLeft, MapThenFoldSet
<1>2. g = [S \in SUBSET D |-> step(g, S)]
  <2>1. ASSUME NEW S \in SUBSET D
        PROVE  g[S] = step(g, S)
    <3>1. CASE S = {}
      BY <3>1
    <3>2. CASE S # {}
      <4> DEFINE m == Max(S)
      <4>1. m \in S
        <5>1. S \subseteq 0 .. n
          OBVIOUS
        <5> QED BY <3>2, <5>1, MaxIs
      <4>2. S \ {m} \in SUBSET D
        OBVIOUS
      <4> HIDE DEF m
      <4>3. common(S) = common(S \ {m}) \cap t[m]
        BY <4>1
      <4>4. g[S \ {m}] = common(S \ {m}) /\ g[S] = common(S)
        BY <4>2
      <4>5. step(g, S) = g[S \ {m}] \cap t[m]
        BY <1>0, <3>2 DEF m
      <4> HIDE DEF step, g, common
      <4> QED BY <4>3, <4>4, <4>5
    <3> QED BY <3>1, <3>2
  <2> HIDE DEF step
  <2> QED BY <2>1
<1>3. fold = [S \in SUBSET D |-> step(fold, S)]
  <2> HIDE DEF g, step
  <2> QED BY <1>2
<1>4. \A S \in SUBSET D : fold[S] = step(fold, S)
  <2> HIDE DEF fold, step
  <2> QED BY <1>3
<1> HIDE DEF fold, g
<1> DEFINE Bad == {k \in 0 .. n : fold[1 .. k] # common(1 .. k)}
<1>5. Bad = {}
  <2>1. SUFFICES ASSUME Bad # {} PROVE FALSE
    OBVIOUS
  <2>2. PICK k \in Bad : \A j \in Bad : k <= j
    <3>1. Bad \subseteq Nat
      OBVIOUS
    <3> HIDE DEF Bad
    <3> QED BY <2>1, <3>1, LeastOfNat
  <2>3. /\ k \in 0 .. n /\ fold[1 .. k] # common(1 .. k)
        /\ \A j \in 0 .. n : j < k => fold[1 .. j] = common(1 .. j)
    <3> HIDE DEF common
    <3> QED BY <2>2
  <2>4. k # 0
    <3>1. 1 .. 0 = {} /\ {} \in SUBSET D
      OBVIOUS
    <3>2. fold[{}] = b
      BY <3>1, <1>4
    <3>3. common(1 .. 0) = b
      BY <3>1
    <3> QED BY <3>1, <3>2, <3>3, <2>3
  <2>5. /\ Max(1 .. k) = k /\ (1 .. k) \ {k} = 1 .. (k - 1) /\ 1 .. k \in SUBSET D
        /\ 1 .. k # {} /\ k - 1 \in 0 .. n /\ k - 1 < k
    <3>1. k \in Nat \ {0} /\ k <= n
      BY <2>3, <2>4
    <3>2. Max(1 .. k) = k
      BY <3>1, MaxSegment
    <3>3. (1 .. k) \ {k} = 1 .. (k - 1)
      BY <3>1
    <3>4. 1 .. k \in SUBSET D /\ 1 .. k # {} /\ k - 1 \in 0 .. n /\ k - 1 < k
      BY <3>1
    <3> QED BY <3>2, <3>3, <3>4
  <2>6. fold[1 .. k] = fold[1 .. (k - 1)] \cap t[k]
    BY <2>5, <1>4, <1>0
  <2>7. fold[1 .. (k - 1)] = common(1 .. (k - 1))
    BY <2>3, <2>5
  <2>8. common(1 .. k) = common(1 .. (k - 1)) \cap t[k]
    <3>1. 1 .. k = (1 .. (k - 1)) \cup {k}
      BY <2>3, <2>4
    <3> QED BY <3>1
  <2> QED BY <2>3, <2>6, <2>7, <2>8
<1>6. n \in 0 .. n
  OBVIOUS
<1>7. fold[1 .. n] = common(1 .. n)
  BY <1>5, <1>6
<1> QED BY <1>1, <1>7

-----------------------------------------------------------------------------
(* Objects *)

\* What the value of an object is: the set, or Malformed.
Val(o) ==
  CASE o.kind = "set"    -> o.set
    [] o.kind = "list"   -> ToSet(o.list)
    [] o.kind = "string" -> IF o.str = Malformed THEN Malformed ELSE ToSet(o.str)

\* An object whose representations agree.
Fit(o) ==
  /\ o \in Object /\ IsFiniteSet(o.set)
  /\ o.kind = "string" => o.str # NoString
  /\ o.kind # "string" => o.str # Malformed
  /\ o.str # NoString /\ o.kind = "list" => o.str = o.list
  /\ o.str # NoString /\ o.kind = "set" => ToSet(o.str) = o.set

LEMMA ElementsOfList ==
  ASSUME NEW s \in Seq(Item)
  PROVE  ToSet(s) \in SUBSET Item /\ IsFiniteSet(ToSet(s))
<1>1. DOMAIN s = 1 .. Len(s) /\ Len(s) \in Nat /\ \A i \in 1 .. Len(s) : s[i] \in Item
  OBVIOUS
<1>2. ToSet(s) \in SUBSET Item
  BY <1>1 DEF ToSet
<1>3. s \in Surjection(1 .. Len(s), ToSet(s))
  <2>1. s = [i \in 1 .. Len(s) |-> s[i]]
    BY <1>1
  <2>2. \A i \in 1 .. Len(s) : s[i] \in ToSet(s)
    BY <1>1 DEF ToSet
  <2>3. s \in [1 .. Len(s) -> ToSet(s)]
    BY <2>1, <2>2
  <2>4. \A t \in ToSet(s) : \E i \in 1 .. Len(s) : s[i] = t
    BY <1>1 DEF ToSet
  <2> QED BY <2>3, <2>4 DEF Surjection
<1>4. IsFiniteSet(1 .. Len(s))
  BY <1>1, FS_Interval
<1> QED BY <1>2, <1>3, <1>4, FS_Surjection

\* An order of the elements of a finite set lists all of them.
LEMMA OrderOfSet ==
  ASSUME NEW S \in SUBSET Item, IsFiniteSet(S), NEW s \in SetToSeqs(S)
  PROVE  s \in Seq(Item) /\ ToSet(s) = S
<1> DEFINE n == Cardinality(S)
<1>1. n \in Nat
  BY FS_CardinalityType
<1>2. s \in [1 .. n -> S] /\ \A i, j \in 1 .. n : i # j => s[i] # s[j]
  BY DEF SetToSeqs
<1>3. s \in Injection(1 .. n, S)
  BY <1>2 DEF Injection, IsInjective
<1>4. IsFiniteSet(1 .. n) /\ Cardinality(1 .. n) = n
  BY <1>1, FS_Interval
<1>5. s \in Surjection(1 .. n, S)
  BY <1>3, <1>4, FS_Injection
<1>6. \A x \in S : \E i \in 1 .. n : s[i] = x
  BY <1>5 DEF Surjection
<1>7. ToSet(s) = S
  BY <1>2, <1>6 DEF ToSet
<1> HIDE DEF n
<1>8. s \in Seq(Item)
  BY <1>1, <1>2
<1> QED BY <1>7, <1>8

\* A value that is a list becomes a table of the same elements.
LEMMA Converts ==
  ASSUME NEW o, Fit(o), IsList(o)
  PROVE  /\ Fit(s_get(o)) /\ s_get(o).kind = "set" /\ s_get(o).set = Val(o)
         /\ Val(s_get(o)) = Val(o) /\ Val(o) \in SUBSET Item /\ IsFiniteSet(Val(o))
<1>1. CASE o.kind = "set"
  BY <1>1 DEF s_get, Val, Fit, Object
<1>2. CASE o.kind # "set"
  <2> DEFINE e == IF o.kind = "list" THEN o.list ELSE o.str
  <2>1. e \in Seq(Item) /\ Val(o) = ToSet(e)
    BY <1>2 DEF Fit, IsList, Val, Object
  <2>2. s_get(o) = [str |-> e, kind |-> "set", list |-> <<>>, set |-> ToSet(e)]
    BY <1>2 DEF s_get, from_any
  <2> HIDE DEF e
  <2>3. ToSet(e) \in SUBSET Item /\ IsFiniteSet(ToSet(e))
    BY <2>1, ElementsOfList
  <2>4. e # Malformed
    BY <2>1, SetAssumption
  <2>5. <<>> \in Seq(Item)
    OBVIOUS
  <2>6. s_get(o) \in Object
    BY <2>1, <2>2, <2>3, <2>5 DEF Object
  <2>7. Fit(s_get(o))
    BY <2>2, <2>3, <2>4, <2>6 DEF Fit
  <2> DEFINE t == s_get(o)
  <2>8. t.kind = "set" /\ t.set = ToSet(e)
    BY <2>2
  <2> HIDE DEF t
  <2>9. Val(t) = t.set
    BY <2>8 DEF Val
  <2> QED BY <2>1, <2>3, <2>7, <2>8, <2>9 DEF t
<1> QED BY <1>1, <1>2

LEMMA NoList ==
  ASSUME NEW o, Fit(o), ~ IsList(o)
  PROVE  Val(o) = Malformed
BY DEF IsList, Val, Fit, Object

LEMMA NewSet ==
  ASSUME NEW S \in SUBSET Item, IsFiniteSet(S)
  PROVE  Fit(s_new(S)) /\ Val(s_new(S)) = S
<1>1. <<>> \in Seq(Item)
  OBVIOUS
<1>2. s_new(S) \in Object
  BY <1>1 DEF s_new, Object
<1> QED BY <1>2, SetAssumption DEF s_new, Fit, Val

LEMMA Written ==
  ASSUME NEW s \in Seq(Item)
  PROVE  /\ Fit(Text(s)) /\ Val(Text(s)) = ToSet(s)
         /\ Fit(PureList(s)) /\ Val(PureList(s)) = ToSet(s)
         /\ Fit(Text(Malformed)) /\ Val(Text(Malformed)) = Malformed
<1>1. <<>> \in Seq(Item) /\ {} \in SUBSET Item /\ IsFiniteSet({})
  BY FS_EmptySet
<1>2. Text(s) \in Object /\ PureList(s) \in Object /\ Text(Malformed) \in Object
  BY <1>1 DEF Text, PureList, Object
<1>3. s # NoString /\ s # Malformed /\ NoString # Malformed
  BY SetAssumption
<1>4. Fit(Text(s)) /\ Val(Text(s)) = ToSet(s)
  BY <1>1, <1>2, <1>3 DEF Text, Fit, Val
<1>5. Fit(PureList(s)) /\ Val(PureList(s)) = ToSet(s)
  BY <1>1, <1>2, <1>3 DEF PureList, Fit, Val
<1>6. Fit(Text(Malformed)) /\ Val(Text(Malformed)) = Malformed
  BY <1>1, <1>2, <1>3 DEF Text, Fit, Val
<1> QED BY <1>4, <1>5, <1>6

\* An object stays what it is when its string is made.
LEMMA StringMade ==
  ASSUME NEW b, Fit(b), NEW o \in WithString(b)
  PROVE  /\ Fit(o) /\ Val(o) = Val(b) /\ o.str \in Seq(Item) \cup {Malformed}
         /\ o.str # Malformed => Val(o) = ToSet(o.str)
<1>1. CASE b.str # NoString
  BY <1>1 DEF WithString, Fit, Val, Object
<1>2. CASE b.str = NoString /\ b.kind = "set"
  <2>1. PICK s \in SetToSeqs(b.set) : o = [b EXCEPT !.str = s]
    BY <1>2 DEF WithString, string_rep
  <2>2. s \in Seq(Item) /\ ToSet(s) = b.set
    BY OrderOfSet DEF Fit, Object
  <2>3. s # Malformed
    BY <2>2, SetAssumption
  <2>4. o \in Object /\ o.str = s /\ o.kind = "set" /\ o.set = b.set
    BY <1>2, <2>1, <2>2 DEF Fit, Object
  <2> QED BY <1>2, <2>2, <2>3, <2>4 DEF Fit, Val
<1>3. CASE b.str = NoString /\ b.kind # "set"
  <2>1. o = [b EXCEPT !.str = b.list] /\ b.kind = "list"
    BY <1>3 DEF WithString, Fit, Object
  <2>2. b.list \in Seq(Item)
    BY DEF Fit, Object
  <2>3. b.list # Malformed
    BY <2>2, SetAssumption
  <2>4. o \in Object /\ o.str = b.list /\ o.kind = "list" /\ o.list = b.list /\ o.set = b.set
    BY <2>1, <2>2 DEF Fit, Object
  <2> QED BY <2>1, <2>2, <2>3, <2>4 DEF Fit, Val
<1> QED BY <1>1, <1>2, <1>3

-----------------------------------------------------------------------------
(* The heap *)

\* The invariant: types, and every object has representations that agree.
SetInv == SetTypeOK /\ \A o \in Var : heap[o] # Free => Fit(heap[o])

\* The heap h holds the objects of the heap, with other representations perhaps.
Same(h) ==
  /\ DOMAIN h = Var
  /\ \A o \in Var : heap[o] # Free => Fit(h[o]) /\ Val(h[o]) = Val(heap[o])

\* What the commands do to the values: the variable x gets the value w, or no
\* variable changes.
Becomes(x, w) == \A y \in Var : ValueOf(y)' = IF y = x THEN w ELSE ValueOf(y)
Stays == \A y \in Var : ValueOf(y)' = ValueOf(y)

LEMMA Values ==
  ASSUME SetInv, NEW x \in Var
  PROVE  /\ var[x] = Unset => ValueOf(x) = Unset
         /\ var[x] # Unset => /\ var[x] \in Var /\ heap[var[x]] # Free /\ Fit(heap[var[x]])
                              /\ ValueOf(x) = Val(heap[var[x]])
<1>1. ASSUME var[x] # Unset
      PROVE  var[x] \in Var /\ heap[var[x]] # Free /\ Fit(heap[var[x]])
  BY <1>1 DEF SetInv, SetTypeOK
<1>2. var[x] # Unset => ValueOf(x) = Val(heap[var[x]])
  BY DEF ValueOf, Val
<1>3. var[x] = Unset => ValueOf(x) = Unset
  BY DEF ValueOf
<1> QED BY <1>1, <1>2, <1>3

LEMMA HeapIsSame ==
  ASSUME SetInv
  PROVE  Same(heap)
BY DEF SetInv, SetTypeOK, Same

\* Objects named anew: every variable has the value of the object it is bound to.
LEMMA Rebound ==
  ASSUME NEW v, NEW h, Bind(v, h),
         \A x \in Var : v[x] # Unset => Fit(h[v[x]])
  PROVE  /\ SetInv'
         /\ \A x \in Var : ValueOf(x)' = IF v[x] = Unset THEN Unset ELSE Val(h[v[x]])
<1> DEFINE alike(x) == {y \in Var : v[y] = v[x]}
           name(x) == Min(alike(x))
<1>1. \A x \in Var : name(x) \in Var /\ v[name(x)] = v[x]
  <2> SUFFICES ASSUME NEW x \in Var PROVE name(x) \in Var /\ v[name(x)] = v[x]
    OBVIOUS
  <2>1. alike(x) \subseteq Nat /\ alike(x) # {}
    BY SetAssumption
  <2>2. \E m \in alike(x) : \A y \in alike(x) : m <= y
    <3> HIDE DEF alike
    <3> QED BY <2>1, LeastOfNat
  <2>3. name(x) \in alike(x)
    BY <2>2 DEF Min
  <2> QED BY <2>3
<1>2. \A x, y \in Var : v[x] = v[y] => name(x) = name(y)
  OBVIOUS
<1>3. /\ var' = [x \in Var |-> IF v[x] = Unset THEN Unset ELSE name(x)]
      /\ heap' = [x \in Var |-> IF v[x] # Unset /\ name(x) = x THEN h[v[x]] ELSE Free]
  BY DEF Bind
<1> HIDE DEF name
<1>4. \A x \in Var : v[x] # Unset => name(name(x)) = name(x)
  BY <1>1, <1>2
<1>5. Unset \notin Var /\ \A o : Fit(o) => o \in Object /\ o # Free
  BY SetAssumption DEF Fit
<1>6. \A x \in Var : v[x] # Unset => var'[x] = name(x) /\ heap'[name(x)] = h[v[x]]
  BY <1>1, <1>3, <1>4
<1>7. \A x \in Var : v[x] = Unset => var'[x] = Unset
  BY <1>3
<1>8. \A o \in Var : heap'[o] # Free => v[o] # Unset /\ name(o) = o /\ heap'[o] = h[v[o]]
  BY <1>3
<1>9. var' \in [Var -> Var \cup {Unset}]
  BY <1>1, <1>3
<1>10. heap' \in [Var -> Object \cup {Free}]
  BY <1>3, <1>5
<1>11. ASSUME NEW o \in Var
       PROVE  heap'[o] = Free <=> \A x \in Var : var'[x] # o
  <2>1. ASSUME heap'[o] = Free, NEW x \in Var, var'[x] = o
        PROVE  FALSE
    <3>1. v[x] # Unset
      BY <2>1, <1>5, <1>7
    <3>2. heap'[o] = h[v[x]]
      BY <2>1, <3>1, <1>6
    <3> QED BY <2>1, <3>1, <3>2, <1>5
  <2>2. ASSUME heap'[o] # Free
        PROVE  var'[o] = o
    BY <2>2, <1>6, <1>8
  <2> QED BY <2>1, <2>2
<1>12. \A o \in Var : heap'[o] # Free => Fit(heap'[o])
  BY <1>8
<1>13. SetInv'
  BY <1>9, <1>10, <1>11, <1>12 DEF SetInv, SetTypeOK
<1>14. ASSUME NEW x \in Var
       PROVE  ValueOf(x)' = IF v[x] = Unset THEN Unset ELSE Val(h[v[x]])
  <2>1. CASE v[x] = Unset
    BY <2>1, <1>7 DEF ValueOf
  <2>2. CASE v[x] # Unset
    <3>1. var'[x] # Unset
      BY <2>2, <1>1, <1>5, <1>6
    <3>2. heap'[var'[x]] = h[v[x]]
      BY <2>2, <1>6
    <3>3. ValueOf(x)' = Val(heap'[var'[x]])
      BY <3>1 DEF ValueOf, Val
    <3> QED BY <2>2, <3>2, <3>3
  <2> QED BY <2>1, <2>2
<1> QED BY <1>13, <1>14

\* The variables keep their objects.
LEMMA BoundAsBefore ==
  ASSUME SetInv, NEW h, Same(h), Bind(var, h)
  PROVE  SetInv' /\ Stays
<1>1. \A x \in Var : var[x] # Unset => Fit(h[var[x]]) /\ Val(h[var[x]]) = ValueOf(x)
  BY Values DEF Same
<1>2. /\ SetInv'
      /\ \A x \in Var : ValueOf(x)' = IF var[x] = Unset THEN Unset ELSE Val(h[var[x]])
  BY <1>1, Rebound
<1>3. \A x \in Var : var[x] = Unset => ValueOf(x) = Unset
  BY Values
<1> QED BY <1>1, <1>2, <1>3 DEF Stays

\* A variable gets a new object.
LEMMA NewObject ==
  ASSUME SetInv, NEW h, Same(h), NEW x \in Var, NEW object, Fit(object), SetVar(h, x, object)
  PROVE  SetInv' /\ Becomes(x, Val(object))
<1> DEFINE v == [var EXCEPT ![x] = 0]
           g == [o \in Var \cup {0} |-> IF o = 0 THEN object ELSE h[o]]
<1>1. Bind(v, g)
  BY DEF SetVar
<1>2. 0 \notin Var /\ Unset # 0
  BY SetAssumption
<1>3. \A y \in Var : v[y] = IF y = x THEN 0 ELSE var[y]
  BY DEF SetInv, SetTypeOK
<1>4. g[0] = object /\ \A o \in Var : g[o] = h[o]
  BY <1>2
<1> HIDE DEF v, g
<1>5. \A y \in Var : var[y] # Unset => /\ var[y] \in Var /\ Fit(h[var[y]])
                                       /\ Val(h[var[y]]) = ValueOf(y)
  BY Values DEF Same
<1>6. \A y \in Var : v[y] # Unset => Fit(g[v[y]])
  BY <1>3, <1>4, <1>5
<1>7. /\ SetInv'
      /\ \A y \in Var : ValueOf(y)' = IF v[y] = Unset THEN Unset ELSE Val(g[v[y]])
  BY <1>1, <1>6, Rebound
<1>8. \A y \in Var : var[y] = Unset => ValueOf(y) = Unset
  BY Values
<1>9. \A y \in Var : ValueOf(y)' = IF y = x THEN Val(object) ELSE ValueOf(y)
  BY <1>2, <1>3, <1>4, <1>5, <1>7, <1>8
<1> QED BY <1>7, <1>9 DEF Becomes

\* The elements of a variable change, in place or in a copy.
LEMMA Changed ==
  ASSUME SetInv, NEW h, Same(h), NEW x \in Var, var[x] # Unset, NEW args,
         NEW S \in SUBSET Item, IsFiniteSet(S), Change(h, x, args, S)
  PROVE  SetInv' /\ Becomes(x, S)
<1>1. Fit(s_new(S)) /\ Val(s_new(S)) = S
  BY NewSet
<1>2. CASE IsShared(var[x], args)
  <2>1. SetVar(h, x, s_new(S))
    BY <1>2 DEF Change
  <2>2. SetInv' /\ Becomes(x, Val(s_new(S)))
    BY <2>1, <1>1, NewObject
  <2> QED BY <2>2, <1>1
<1>3. CASE ~ IsShared(var[x], args)
  <2> DEFINE g == [h EXCEPT ![var[x]] = s_new(S)]
  <2>1. Bind(var, g)
    BY <1>3 DEF Change
  <2>2. var[x] \in Var
    BY Values
  <2>3. g[var[x]] = s_new(S) /\ \A o \in Var : o # var[x] => g[o] = h[o]
    BY <2>2 DEF Same
  <2> HIDE DEF g
  <2>4. \A y \in Var : var[y] = var[x] => y = x
    <3> DEFINE T == {y \in Var : var[y] = var[x]}
    <3>1. ~ (Cardinality(T) > 1)
      BY <1>3 DEF IsShared
    <3>2. IsFiniteSet(T)
      <4>1. T \in SUBSET Var
        OBVIOUS
      <4> QED BY <4>1, FS_Subset, SetAssumption
    <3>3. x \in T
      OBVIOUS
    <3> HIDE DEF T
    <3>4. Cardinality(T) \in Nat /\ Cardinality(T) # 0
      BY <3>2, <3>3, FS_CardinalityType, FS_EmptySet
    <3>5. Cardinality(T) = 1
      BY <3>1, <3>4
    <3>6. PICK z : T = {z}
      BY <3>2, <3>5, FS_Singleton
    <3>7. \A y \in T : y = x
      BY <3>3, <3>6
    <3> QED BY <3>7 DEF T
  <2>5. \A y \in Var : var[y] # Unset => /\ var[y] \in Var /\ Fit(h[var[y]])
                                         /\ Val(h[var[y]]) = ValueOf(y)
    BY Values DEF Same
  <2>6. \A y \in Var : var[y] # Unset => g[var[y]] = IF y = x THEN s_new(S) ELSE h[var[y]]
    BY <2>3, <2>4, <2>5
  <2>7. \A y \in Var : var[y] # Unset => Fit(g[var[y]])
    BY <1>1, <2>5, <2>6
  <2>8. /\ SetInv'
        /\ \A y \in Var : ValueOf(y)' = IF var[y] = Unset THEN Unset ELSE Val(g[var[y]])
    BY <2>1, <2>7, Rebound
  <2>9. \A y \in Var : var[y] = Unset => ValueOf(y) = Unset
    BY Values
  <2>10. \A y \in Var : ValueOf(y)' = IF y = x THEN S ELSE ValueOf(y)
    BY <1>1, <2>5, <2>6, <2>8, <2>9
  <2> QED BY <2>8, <2>10 DEF Becomes
<1> QED BY <1>2, <1>3

-----------------------------------------------------------------------------
(* Arguments *)

\* What the conversion of arguments comes to.
Gathered(objs, h) ==
  /\ Same(h)
  /\ AllLists(objs) => \A i \in DOMAIN objs :
       /\ h[objs[i]].set = Val(heap[objs[i]])
       /\ Val(heap[objs[i]]) \in SUBSET Item /\ IsFiniteSet(Val(heap[objs[i]]))
  /\ ~ AllLists(objs) => \E i \in DOMAIN objs : Val(heap[objs[i]]) = Malformed

LEMMA Conversion ==
  ASSUME SetInv, NEW n \in Nat, NEW objs, DOMAIN objs = 1 .. n, Len(objs) = n,
         \A i \in 1 .. n : objs[i] \in Var /\ heap[objs[i]] # Free
  PROVE  Gathered(objs, Converted(objs))
<1> DEFINE bad == {i \in DOMAIN objs : ~ IsList(heap[objs[i]])}
           upto == IF bad = {} THEN Len(objs) ELSE Min(bad) - 1
           done == {objs[i] : i \in 1 .. upto}
           h == Converted(objs)
<1>1. upto \in 0 .. n /\ \A i \in 1 .. upto : i \in 1 .. n /\ i \notin bad
  <2>1. CASE bad = {}
    BY <2>1
  <2>2. CASE bad # {}
    <3>1. bad \subseteq Nat /\ \A i \in bad : i \in 1 .. n
      OBVIOUS
    <3> HIDE DEF bad
    <3>2. \E m \in bad : \A i \in bad : m <= i
      BY <2>2, <3>1, LeastOfNat
    <3>3. Min(bad) \in bad /\ \A i \in bad : Min(bad) <= i
      BY <3>2 DEF Min
    <3> DEFINE m == Min(bad)
    <3>4. m \in 1 .. n /\ \A i \in bad : m <= i
      BY <3>1, <3>3
    <3>5. upto = m - 1
      BY <2>2
    <3> HIDE DEF m, upto
    <3> QED BY <3>4, <3>5
  <2> QED BY <2>1, <2>2
<1>2. h = [o \in Var |-> IF o \in done THEN s_get(heap[o]) ELSE heap[o]]
  BY DEF Converted
<1>3. \A o \in done : o \in Var /\ heap[o] # Free /\ IsList(heap[o])
  <2> HIDE DEF upto
  <2> QED BY <1>1
<1>4. \A o \in Var : heap[o] # Free => Fit(heap[o])
  BY DEF SetInv
<1>5. AllLists(objs) => bad = {} /\ upto = n
  BY DEF AllLists
<1>6. AllLists(objs) => \A i \in 1 .. n : objs[i] \in done /\ IsList(heap[objs[i]])
  BY <1>5 DEF AllLists
<1>7. ~ AllLists(objs) => \E i \in 1 .. n : ~ IsList(heap[objs[i]])
  BY DEF AllLists
<1> HIDE DEF h, done
<1>8. Same(h)
  <2>1. ASSUME NEW o \in Var, heap[o] # Free
        PROVE  Fit(h[o]) /\ Val(h[o]) = Val(heap[o])
    <3>1. CASE o \in done
      BY <2>1, <3>1, <1>2, <1>3, <1>4, Converts
    <3>2. CASE o \notin done
      BY <2>1, <3>2, <1>2, <1>4
    <3> QED BY <3>1, <3>2
  <2>2. DOMAIN h = Var
    BY <1>2
  <2> QED BY <2>1, <2>2 DEF Same
<1>9. ASSUME AllLists(objs), NEW i \in 1 .. n
      PROVE  /\ h[objs[i]].set = Val(heap[objs[i]])
             /\ Val(heap[objs[i]]) \in SUBSET Item /\ IsFiniteSet(Val(heap[objs[i]]))
  <2>1. h[objs[i]] = s_get(heap[objs[i]]) /\ Fit(heap[objs[i]]) /\ IsList(heap[objs[i]])
    BY <1>9, <1>2, <1>4, <1>6
  <2> QED BY <2>1, Converts
<1>10. ASSUME ~ AllLists(objs)
       PROVE  \E i \in 1 .. n : Val(heap[objs[i]]) = Malformed
  BY <1>10, <1>4, <1>7, NoList
<1> QED BY <1>8, <1>9, <1>10 DEF Gathered, h

LEMMA LengthOfDomain ==
  ASSUME NEW X, NEW s \in Seq(X), NEW n \in Nat, DOMAIN s = 1 .. n
  PROVE  Len(s) = n
<1>1. DOMAIN s = 1 .. Len(s) /\ Len(s) \in Nat
  OBVIOUS
<1>2. Len(s) # 0 => Len(s) \in 1 .. n
  BY <1>1
<1>3. n # 0 => n \in 1 .. Len(s)
  BY <1>1
<1> QED BY <1>1, <1>2, <1>3

\* A set of items, finitely many.
IsValue(w) == w \in SUBSET Item /\ IsFiniteSet(w)

\* The arguments of a command, the variables xs, are converted.
Taken(xs) ==
  LET h == Converted(Objects(xs))
  IN  /\ Same(h)
      /\ AllLists(Objects(xs)) =>
           \A i \in DOMAIN xs : h[var[xs[i]]].set = ValueOf(xs[i]) /\ IsValue(ValueOf(xs[i]))
      /\ ~ AllLists(Objects(xs)) => \E i \in DOMAIN xs : ValueOf(xs[i]) = Malformed

LEMMA ArgumentsTaken ==
  ASSUME SetInv, NEW n \in Nat, NEW xs \in [1 .. n -> Var], Given(xs)
  PROVE  Taken(xs)
<1> DEFINE objs == Objects(xs)
<1>1. objs = [i \in 1 .. n |-> var[xs[i]]]
  BY DEF Objects
<1>2. \A i \in 1 .. n : /\ objs[i] = var[xs[i]] /\ objs[i] \in Var /\ heap[objs[i]] # Free
                        /\ ValueOf(xs[i]) = Val(heap[objs[i]])
  BY <1>1, Values DEF Given
<1>3. DOMAIN objs = 1 .. n
  BY <1>1
<1> HIDE DEF objs
<1>4. objs \in Seq(Var) /\ Len(objs) = n
  <2>1. objs \in [1 .. n -> Var]
    BY <1>1, <1>2
  <2>2. objs \in Seq(Var)
    BY <2>1
  <2>4. Len(objs) = n
    BY <2>2, <1>3, LengthOfDomain
  <2> QED BY <2>2, <2>4
<1>5. Gathered(objs, Converted(objs))
  BY <1>2, <1>3, <1>4, Conversion
<1>6. DOMAIN xs = 1 .. n
  OBVIOUS
<1> QED BY <1>2, <1>3, <1>5, <1>6 DEF Taken, Gathered, IsValue, objs

LEMMA OneArgument ==
  ASSUME SetInv, NEW x \in Var, Given(<<x>>)
  PROVE  Taken(<<x>>)
<1>1. <<x>> \in [1 .. 1 -> Var]
  OBVIOUS
<1> QED BY <1>1, ArgumentsTaken

LEMMA TwoArguments ==
  ASSUME SetInv, NEW x \in Var, NEW y \in Var, Given(<<x, y>>)
  PROVE  Taken(<<x, y>>)
<1>1. <<x, y>> \in [1 .. 2 -> Var]
  OBVIOUS
<1> QED BY <1>1, ArgumentsTaken

-----------------------------------------------------------------------------
(* Every command is its step of SetVariables *)

Vals == [x \in Var |-> ValueOf(x)]

LEMMA SetsAreSets ==
  /\ \A w : IsValue(w) => w # Unset /\ w # Malformed
  /\ \A x \in Var : SetVariablesSpec!IsSet(x) <=> ValueOf(x) # Unset /\ ValueOf(x) # Malformed
BY SetAssumption DEF IsValue, SetVariablesSpec!IsSet

LEMMA PutVals ==
  /\ Stays => Vals' = Vals
  /\ \A x \in Var : \A w : Becomes(x, w) => SetVariablesSpec!Put(x, w)
BY DEF Stays, Becomes, Vals, SetVariablesSpec!Put

LEMMA CalledAndAnswered ==
  ASSUME NEW call, NEW num, NEW sets
  PROVE  /\ Answer(call, num, sets) =>
              SetVariablesSpec!Called(call) /\ SetVariablesSpec!Answers(num, sets)
         /\ Fails(call) => SetVariablesSpec!Called(call) /\ SetVariablesSpec!Fails
BY DEF Answer, Fails, SetVariablesSpec!Called, SetVariablesSpec!Answers, SetVariablesSpec!Fails

\* A command that only answers.
LEMMA Asked ==
  ASSUME SetInv, NEW xs, Taken(xs), Bind(var, Converted(Objects(xs))),
         \A i \in DOMAIN xs : xs[i] \in Var,
         NEW call, NEW num, NEW sets, NEW anum, NEW asets,
         AllLists(Objects(xs)) => Answer(call, num, sets) /\ num = anum /\ sets = asets,
         ~ AllLists(Objects(xs)) => Fails(call)
  PROVE  SetInv' /\ SetVariablesSpec!Ask(call, ToSet(xs), anum, asets)
<1>1. SetInv' /\ Stays
  BY BoundAsBefore DEF Taken
<1>2. Vals' = Vals
  BY <1>1, PutVals
<1>3. UNCHANGED Vals
  BY <1>2
<1>4. CASE AllLists(Objects(xs))
  <2>1. \A x \in ToSet(xs) : SetVariablesSpec!IsSet(x)
    BY <1>4, SetsAreSets DEF Taken, ToSet
  <2>2. SetVariablesSpec!Called(call) /\ SetVariablesSpec!Answers(anum, asets)
    BY <1>4, CalledAndAnswered
  <2> QED BY <1>1, <1>3, <2>1, <2>2 DEF SetVariablesSpec!Ask, Vals
<1>5. CASE ~ AllLists(Objects(xs))
  <2>1. ~ \A x \in ToSet(xs) : SetVariablesSpec!IsSet(x)
    BY <1>5, SetsAreSets DEF Taken, ToSet
  <2>2. SetVariablesSpec!Called(call) /\ SetVariablesSpec!Fails
    BY <1>5, CalledAndAnswered
  <2> QED BY <1>1, <1>3, <2>1, <2>2 DEF SetVariablesSpec!Ask, SetVariablesSpec!Fail, Vals
<1> QED BY <1>4, <1>5

LEMMA SizeSimulated ==
  ASSUME SetInv, NEW x \in Var, sm_SIZE(x)
  PROVE  SetInv' /\ SetVariablesSpec!Ask(<<"size", x>>, {x}, Cardinality(ValueOf(x)), <<>>)
<1> DEFINE xs == <<x>>
           h == Converted(Objects(xs))
           num == Cardinality(h[var[x]].set)
<1>1. Given(xs) /\ Bind(var, h)
  BY DEF sm_SIZE, Query
<1>2. xs \in [1 .. 1 -> Var] /\ DOMAIN xs = 1 .. 1 /\ xs[1] = x /\ ToSet(xs) = {x}
  BY DEF ToSet
<1>3. /\ AllLists(Objects(xs)) => Answer(<<"size", x>>, num, <<>>)
      /\ ~ AllLists(Objects(xs)) => Fails(<<"size", x>>)
  BY <1>2 DEF sm_SIZE, Query
<1> HIDE DEF xs
<1>4. Taken(xs)
  BY <1>1, <1>2, ArgumentsTaken
<1>5. AllLists(Objects(xs)) => num = Cardinality(ValueOf(x))
  BY <1>2, <1>4 DEF Taken
<1>6. \A i \in DOMAIN xs : xs[i] \in Var
  BY <1>2
<1> HIDE DEF h, num
<1> QED BY <1>1, <1>2, <1>3, <1>4, <1>5, <1>6, Asked DEF h

LEMMA SetFunctions ==
  ASSUME NEW A, NEW B
  PROVE  /\ s_difference(A, B) = A \ B
         /\ s_intersect(A, B) = A \cap B
         /\ s_add(A, B) = A \cup B
         /\ s_union(A, B) = A \cup B
BY DEF s_difference, s_intersect, s_add, s_union

LEMMA Comparisons ==
  ASSUME NEW A, NEW B, IsValue(A), IsValue(B)
  PROVE  /\ s_equal(A, B) <=> A = B
         /\ s_subsetof(A, B) <=> A \subseteq B
<1>1. Cardinality(A) \in Nat /\ Cardinality(B) \in Nat /\ IsFiniteSet(A) /\ IsFiniteSet(B)
  BY FS_CardinalityType DEF IsValue
<1>2. s_difference(A, B) = {} <=> A \subseteq B
  BY SetFunctions
<1>3. A \subseteq B => Cardinality(A) <= Cardinality(B)
  <2>1. A \subseteq B => A \in SUBSET B
    OBVIOUS
  <2> QED BY <1>1, <2>1, FS_Subset
<1>4. A \subseteq B /\ Cardinality(A) = Cardinality(B) => A = B
  <2>1. A \subseteq B => A \in SUBSET B
    OBVIOUS
  <2> QED BY <1>1, <2>1, FS_Subset
<1>5. s_equal(A, B) <=> A = B
  BY <1>2, <1>4 DEF s_equal
<1>6. s_subsetof(A, B) <=> A \subseteq B
  BY <1>2, <1>3 DEF s_subsetof
<1> QED BY <1>5, <1>6

LEMMA EqualSimulated ==
  ASSUME SetInv, NEW x \in Var, NEW y \in Var, sm_EQUAL(x, y)
  PROVE  SetInv' /\ SetVariablesSpec!Ask(<<"equal", x, y>>, {x, y},
                                         Truth(ValueOf(x) = ValueOf(y)),
                                         <<>>)
<1> DEFINE xs == <<x, y>>
           h == Converted(Objects(xs))
           a == h[var[x]].set
           b == h[var[y]].set
           num == Truth(s_equal(a, b))
           sets == <<>>
           anum == Truth(ValueOf(x) = ValueOf(y))
           asets == <<>>
<1>1. Given(xs) /\ Bind(var, h)
  BY DEF sm_EQUAL, Query
<1>2. /\ xs \in [1 .. 2 -> Var] /\ DOMAIN xs = 1 .. 2 /\ xs[1] = x /\ xs[2] = y
      /\ ToSet(xs) = {x, y}
  BY DEF ToSet
<1>3. /\ AllLists(Objects(xs)) => Answer(<<"equal", x, y>>, num, sets)
      /\ ~ AllLists(Objects(xs)) => Fails(<<"equal", x, y>>)
  BY <1>2 DEF sm_EQUAL, Query
<1> HIDE DEF xs
<1>4. Taken(xs)
  BY <1>1, <1>2, ArgumentsTaken
<1>5. AllLists(Objects(xs)) => /\ a = ValueOf(x) /\ IsValue(ValueOf(x))
                              /\ b = ValueOf(y) /\ IsValue(ValueOf(y))
  BY <1>2, <1>4 DEF Taken
<1> HIDE DEF a, b
<1>6. AllLists(Objects(xs)) => num = anum /\ sets = asets
  BY <1>5, Comparisons DEF Truth
<1>7. \A i \in DOMAIN xs : xs[i] \in Var
  BY <1>2
<1> HIDE DEF h, num, sets, anum, asets
<1>8. SetInv' /\ SetVariablesSpec!Ask(<<"equal", x, y>>, ToSet(xs), anum, asets)
  BY <1>1, <1>3, <1>4, <1>6, <1>7, Asked DEF h
<1> QED BY <1>2, <1>8 DEF anum, asets

LEMMA SubsetSimulated ==
  ASSUME SetInv, NEW x \in Var, NEW y \in Var, sm_SUBSETOF(x, y)
  PROVE  SetInv' /\ SetVariablesSpec!Ask(<<"subsetof", x, y>>, {x, y},
                                         Truth(ValueOf(x) \subseteq ValueOf(y)),
                                         <<>>)
<1> DEFINE xs == <<x, y>>
           h == Converted(Objects(xs))
           a == h[var[x]].set
           b == h[var[y]].set
           num == Truth(s_subsetof(a, b))
           sets == <<>>
           anum == Truth(ValueOf(x) \subseteq ValueOf(y))
           asets == <<>>
<1>1. Given(xs) /\ Bind(var, h)
  BY DEF sm_SUBSETOF, Query
<1>2. /\ xs \in [1 .. 2 -> Var] /\ DOMAIN xs = 1 .. 2 /\ xs[1] = x /\ xs[2] = y
      /\ ToSet(xs) = {x, y}
  BY DEF ToSet
<1>3. /\ AllLists(Objects(xs)) => Answer(<<"subsetof", x, y>>, num, sets)
      /\ ~ AllLists(Objects(xs)) => Fails(<<"subsetof", x, y>>)
  BY <1>2 DEF sm_SUBSETOF, Query
<1> HIDE DEF xs
<1>4. Taken(xs)
  BY <1>1, <1>2, ArgumentsTaken
<1>5. AllLists(Objects(xs)) => /\ a = ValueOf(x) /\ IsValue(ValueOf(x))
                              /\ b = ValueOf(y) /\ IsValue(ValueOf(y))
  BY <1>2, <1>4 DEF Taken
<1> HIDE DEF a, b
<1>6. AllLists(Objects(xs)) => num = anum /\ sets = asets
  BY <1>5, Comparisons DEF Truth
<1>7. \A i \in DOMAIN xs : xs[i] \in Var
  BY <1>2
<1> HIDE DEF h, num, sets, anum, asets
<1>8. SetInv' /\ SetVariablesSpec!Ask(<<"subsetof", x, y>>, ToSet(xs), anum, asets)
  BY <1>1, <1>3, <1>4, <1>6, <1>7, Asked DEF h
<1> QED BY <1>2, <1>8 DEF anum, asets

LEMMA Intersect3Simulated ==
  ASSUME SetInv, NEW x \in Var, NEW y \in Var, sm_INTERSECT3(x, y)
  PROVE  SetInv' /\ SetVariablesSpec!Ask(<<"intersect3", x, y>>, {x, y}, 0,
                                         <<ValueOf(x) \cap ValueOf(y), ValueOf(x) \ ValueOf(y),
                                           ValueOf(y) \ ValueOf(x)>>)
<1> DEFINE xs == <<x, y>>
           h == Converted(Objects(xs))
           a == h[var[x]].set
           b == h[var[y]].set
           num == 0
           sets == <<s_intersect(a, b), s_difference(a, b), s_difference(b, a)>>
           anum == 0
           asets == <<ValueOf(x) \cap ValueOf(y), ValueOf(x) \ ValueOf(y), ValueOf(y) \ ValueOf(x)>>
<1>1. Given(xs) /\ Bind(var, h)
  BY DEF sm_INTERSECT3, Query
<1>2. /\ xs \in [1 .. 2 -> Var] /\ DOMAIN xs = 1 .. 2 /\ xs[1] = x /\ xs[2] = y
      /\ ToSet(xs) = {x, y}
  BY DEF ToSet
<1>3. /\ AllLists(Objects(xs)) => Answer(<<"intersect3", x, y>>, num, sets)
      /\ ~ AllLists(Objects(xs)) => Fails(<<"intersect3", x, y>>)
  BY <1>2 DEF sm_INTERSECT3, Query
<1> HIDE DEF xs
<1>4. Taken(xs)
  BY <1>1, <1>2, ArgumentsTaken
<1>5. AllLists(Objects(xs)) => /\ a = ValueOf(x) /\ IsValue(ValueOf(x))
                              /\ b = ValueOf(y) /\ IsValue(ValueOf(y))
  BY <1>2, <1>4 DEF Taken
<1> HIDE DEF a, b
<1>6. AllLists(Objects(xs)) => num = anum /\ sets = asets
  BY <1>5, SetFunctions
<1>7. \A i \in DOMAIN xs : xs[i] \in Var
  BY <1>2
<1> HIDE DEF h, num, sets, anum, asets
<1>8. SetInv' /\ SetVariablesSpec!Ask(<<"intersect3", x, y>>, ToSet(xs), anum, asets)
  BY <1>1, <1>3, <1>4, <1>6, <1>7, Asked DEF h
<1> QED BY <1>2, <1>8 DEF anum, asets

LEMMA ContainsSimulated ==
  ASSUME SetInv, NEW x \in Var, NEW item \in Item, sm_CONTAINS(x, item)
  PROVE  SetInv' /\ SetVariablesSpec!Ask(<<"contains", x, item>>, {x}, Truth(item \in ValueOf(x)), <<>>)
<1> DEFINE xs == <<x>>
           h == Converted(Objects(xs))
           num == Truth(item \in h[var[x]].set)
<1>1. Given(xs) /\ Bind(var, h)
  BY DEF sm_CONTAINS, Query
<1>2. xs \in [1 .. 1 -> Var] /\ DOMAIN xs = 1 .. 1 /\ xs[1] = x /\ ToSet(xs) = {x}
  BY DEF ToSet
<1>3. /\ AllLists(Objects(xs)) => Answer(<<"contains", x, item>>, num, <<>>)
      /\ ~ AllLists(Objects(xs)) => Fails(<<"contains", x, item>>)
  BY <1>2 DEF sm_CONTAINS, Query
<1> HIDE DEF xs
<1>4. Taken(xs)
  BY <1>1, <1>2, ArgumentsTaken
<1>5. AllLists(Objects(xs)) => num = Truth(item \in ValueOf(x))
  BY <1>2, <1>4 DEF Taken
<1>6. \A i \in DOMAIN xs : xs[i] \in Var
  BY <1>2
<1> HIDE DEF h, num
<1> QED BY <1>1, <1>2, <1>3, <1>4, <1>5, <1>6, Asked DEF h

\* The length of a list tells whether it is empty.
LEMMA EmptySimulated ==
  ASSUME SetInv, NEW x \in Var, sm_EMPTY(x)
  PROVE  SetInv' /\ SetVariablesSpec!Ask(<<"empty", x>>, {x}, Truth(ValueOf(x) = {}), <<>>)
<1>1. CASE heap[var[x]].kind = "list"
  <2> DEFINE list == heap[var[x]].list
  <2>1. /\ var[x] # Unset /\ UNCHANGED <<var, heap>>
        /\ Answer(<<"empty", x>>, Truth(list = <<>>), <<>>)
    <3>1. Given(<<x>>)
      BY DEF sm_EMPTY
    <3>2. var[x] # Unset
      <4>1. 1 \in DOMAIN <<x>> /\ <<x>>[1] = x
        OBVIOUS
      <4> QED BY <3>1, <4>1 DEF Given
    <3> QED BY <1>1, <3>2 DEF sm_EMPTY
  <2>2. list \in Seq(Item) /\ ValueOf(x) = ToSet(list)
    BY <1>1, <2>1, Values DEF Fit, Object, Val
  <2> HIDE DEF list
  <2>3. ValueOf(x) = {} <=> list = <<>>
    <3>1. DOMAIN list = 1 .. Len(list) /\ Len(list) \in Nat
      BY <2>2
    <3>2. list # <<>> => list[1] \in ToSet(list)
      <4>1. list # <<>> => 1 \in DOMAIN list
        BY <2>2
      <4> QED BY <4>1 DEF ToSet
    <3>3. ToSet(<<>>) = {}
      BY DEF ToSet
    <3> QED BY <2>2, <3>2, <3>3
  <2>4. IsValue(ValueOf(x))
    BY <2>2, ElementsOfList DEF IsValue
  <2>5. SetVariablesSpec!IsSet(x)
    BY <2>4, SetsAreSets
  <2>6. /\ SetVariablesSpec!Called(<<"empty", x>>)
        /\ SetVariablesSpec!Answers(Truth(ValueOf(x) = {}), <<>>)
    BY <2>1, <2>3, CalledAndAnswered
  <2>7. SetInv'
    BY <2>1 DEF SetInv, SetTypeOK
  <2>8. UNCHANGED Vals
    BY <2>1 DEF Vals, ValueOf
  <2> QED BY <2>5, <2>6, <2>7, <2>8 DEF SetVariablesSpec!Ask, Vals
<1>2. CASE heap[var[x]].kind # "list"
  <2> DEFINE xs == <<x>>
             h == Converted(Objects(xs))
             num == Truth(h[var[x]].set = {})
             anum == Truth(ValueOf(x) = {})
  <2>1. Given(xs) /\ Bind(var, h)
    BY <1>2 DEF sm_EMPTY, Query
  <2>2. xs \in [1 .. 1 -> Var] /\ DOMAIN xs = 1 .. 1 /\ xs[1] = x /\ ToSet(xs) = {x}
    BY DEF ToSet
  <2>3. /\ AllLists(Objects(xs)) => Answer(<<"empty", x>>, num, <<>>)
        /\ ~ AllLists(Objects(xs)) => Fails(<<"empty", x>>)
    BY <1>2, <2>2 DEF sm_EMPTY, Query
  <2> HIDE DEF xs
  <2>4. Taken(xs)
    BY <2>1, <2>2, ArgumentsTaken
  <2>5. AllLists(Objects(xs)) => num = anum
    BY <2>2, <2>4 DEF Taken
  <2>6. \A i \in DOMAIN xs : xs[i] \in Var
    BY <2>2
  <2> HIDE DEF h, num, anum
  <2>7. SetInv' /\ SetVariablesSpec!Ask(<<"empty", x>>, ToSet(xs), anum, <<>>)
    BY <2>1, <2>3, <2>4, <2>5, <2>6, Asked DEF h
  <2> QED BY <2>2, <2>7 DEF anum
<1> QED BY <1>1, <1>2

\* A command whose answer goes into the variable d.
LEMMA Combined ==
  ASSUME SetInv, NEW xs, Taken(xs), \A i \in DOMAIN xs : xs[i] \in Var, NEW d \in Var,
         NEW call, NEW S, NEW T,
         AllLists(Objects(xs)) => /\ SetVar(Converted(Objects(xs)), d, s_new(S))
                                  /\ Answer(call, 0, <<S>>) /\ S = T /\ IsValue(T),
         ~ AllLists(Objects(xs)) => Bind(var, Converted(Objects(xs))) /\ Fails(call)
  PROVE  SetInv' /\ SetVariablesSpec!Combine(call, d, ToSet(xs), T)
<1> DEFINE h == Converted(Objects(xs))
<1>1. Same(h)
  BY DEF Taken
<1>2. CASE AllLists(Objects(xs))
  <2>1. /\ SetVar(h, d, s_new(T)) /\ Answer(call, 0, <<T>>)
        /\ T \in SUBSET Item /\ IsFiniteSet(T)
    BY <1>2 DEF IsValue
  <2> HIDE DEF h
  <2>2. Fit(s_new(T)) /\ Val(s_new(T)) = T
    BY <2>1, NewSet
  <2>3. SetInv' /\ Becomes(d, T)
    BY <1>1, <2>1, <2>2, NewObject
  <2>4. SetVariablesSpec!Put(d, T)
    BY <2>3, PutVals
  <2>5. \A x \in ToSet(xs) : SetVariablesSpec!IsSet(x)
    BY <1>2, SetsAreSets DEF Taken, ToSet
  <2>6. SetVariablesSpec!Called(call) /\ SetVariablesSpec!Answers(0, <<T>>)
    BY <2>1, CalledAndAnswered
  <2> QED BY <2>3, <2>4, <2>5, <2>6 DEF SetVariablesSpec!Combine
<1>3. CASE ~ AllLists(Objects(xs))
  <2>1. Bind(var, h) /\ Fails(call)
    BY <1>3
  <2> HIDE DEF h
  <2>2. SetInv' /\ Stays
    BY <1>1, <2>1, BoundAsBefore
  <2>3. Vals' = Vals
    BY <2>2, PutVals
  <2>4. UNCHANGED Vals
    BY <2>3
  <2>5. ~ \A x \in ToSet(xs) : SetVariablesSpec!IsSet(x)
    BY <1>3, SetsAreSets DEF Taken, ToSet
  <2>6. SetVariablesSpec!Called(call) /\ SetVariablesSpec!Fails
    BY <2>1, CalledAndAnswered
  <2> QED BY <2>2, <2>4, <2>5, <2>6
          DEF SetVariablesSpec!Combine, SetVariablesSpec!Fail, Vals
<1> QED BY <1>2, <1>3

LEMMA DifferenceSimulated ==
  ASSUME SetInv, NEW d \in Var, NEW x \in Var, NEW y \in Var, sm_DIFFERENCE(d, x, y)
  PROVE  SetInv' /\ SetVariablesSpec!Combine(<<"difference", x, y>>, d, {x, y},
                                             ValueOf(x) \ ValueOf(y))
<1> DEFINE xs == <<x, y>>
           h == Converted(Objects(xs))
           a == h[var[x]].set
           b == h[var[y]].set
           S == s_difference(a, b)
           T == ValueOf(x) \ ValueOf(y)
<1>1. Given(xs)
  BY DEF sm_DIFFERENCE, Into
<1>2. /\ xs \in [1 .. 2 -> Var] /\ DOMAIN xs = 1 .. 2 /\ xs[1] = x /\ xs[2] = y
      /\ ToSet(xs) = {x, y}
  BY DEF ToSet
<1>3. /\ AllLists(Objects(xs)) =>
           SetVar(h, d, s_new(S)) /\ Answer(<<"difference", x, y>>, 0, <<S>>)
      /\ ~ AllLists(Objects(xs)) => Bind(var, h) /\ Fails(<<"difference", x, y>>)
  BY <1>2 DEF sm_DIFFERENCE, Into
<1> HIDE DEF xs
<1>4. Taken(xs)
  BY <1>1, <1>2, ArgumentsTaken
<1>5. AllLists(Objects(xs)) => /\ a = ValueOf(x) /\ IsValue(ValueOf(x))
                              /\ b = ValueOf(y) /\ IsValue(ValueOf(y))
  BY <1>2, <1>4 DEF Taken
<1> HIDE DEF a, b
<1>6. AllLists(Objects(xs)) => S = T
  BY <1>5, SetFunctions
<1>7. AllLists(Objects(xs)) => IsValue(T)
  BY <1>5, FS_Difference DEF IsValue
<1>8. \A i \in DOMAIN xs : xs[i] \in Var
  BY <1>2
<1> HIDE DEF h, S, T
<1>9. SetInv' /\ SetVariablesSpec!Combine(<<"difference", x, y>>, d, ToSet(xs), T)
  BY <1>3, <1>4, <1>6, <1>7, <1>8, Combined DEF h
<1> QED BY <1>2, <1>9 DEF T

LEMMA SymdiffSimulated ==
  ASSUME SetInv, NEW d \in Var, NEW x \in Var, NEW y \in Var, sm_SYMDIFF(d, x, y)
  PROVE  SetInv' /\ SetVariablesSpec!Combine(<<"symdiff", x, y>>, d, {x, y},
             (ValueOf(x) \cup ValueOf(y)) \ (ValueOf(x) \cap ValueOf(y)))
<1> DEFINE xs == <<x, y>>
           h == Converted(Objects(xs))
           a == h[var[x]].set
           b == h[var[y]].set
           S == s_union(s_difference(a, b), s_difference(b, a))
           T == (ValueOf(x) \cup ValueOf(y)) \ (ValueOf(x) \cap ValueOf(y))
<1>1. Given(xs)
  BY DEF sm_SYMDIFF, Into
<1>2. /\ xs \in [1 .. 2 -> Var] /\ DOMAIN xs = 1 .. 2 /\ xs[1] = x /\ xs[2] = y
      /\ ToSet(xs) = {x, y}
  BY DEF ToSet
<1>3. /\ AllLists(Objects(xs)) =>
           SetVar(h, d, s_new(S)) /\ Answer(<<"symdiff", x, y>>, 0, <<S>>)
      /\ ~ AllLists(Objects(xs)) => Bind(var, h) /\ Fails(<<"symdiff", x, y>>)
  BY <1>2 DEF sm_SYMDIFF, Into
<1> HIDE DEF xs
<1>4. Taken(xs)
  BY <1>1, <1>2, ArgumentsTaken
<1>5. AllLists(Objects(xs)) => /\ a = ValueOf(x) /\ IsValue(ValueOf(x))
                              /\ b = ValueOf(y) /\ IsValue(ValueOf(y))
  BY <1>2, <1>4 DEF Taken
<1> HIDE DEF a, b
<1>6. AllLists(Objects(xs)) => S = T
  <2>1. S = (a \ b) \cup (b \ a)
    BY SetFunctions
  <2>2. (a \ b) \cup (b \ a) = (a \cup b) \ (a \cap b)
    OBVIOUS
  <2> QED BY <1>5, <2>1, <2>2
<1>7. AllLists(Objects(xs)) => IsValue(T)
  <2>1. AllLists(Objects(xs)) => IsFiniteSet(ValueOf(x) \cup ValueOf(y))
    BY <1>5, FS_Union DEF IsValue
  <2>2. AllLists(Objects(xs)) => IsFiniteSet(T)
    BY <2>1, FS_Difference
  <2>3. AllLists(Objects(xs)) => T \in SUBSET Item
    BY <1>5 DEF IsValue
  <2> QED BY <2>2, <2>3 DEF IsValue
<1>8. \A i \in DOMAIN xs : xs[i] \in Var
  BY <1>2
<1> HIDE DEF h, S, T
<1>9. SetInv' /\ SetVariablesSpec!Combine(<<"symdiff", x, y>>, d, ToSet(xs), T)
  BY <1>3, <1>4, <1>6, <1>7, <1>8, Combined DEF h
<1> QED BY <1>2, <1>9 DEF T

\* The values of several arguments.
LEMMA ValuesTaken ==
  ASSUME SetInv, NEW n \in Nat, NEW xs \in [1 .. n -> Var], Taken(xs), AllLists(Objects(xs))
  PROVE  LET h   == Converted(Objects(xs))
             arg == [i \in DOMAIN xs |-> h[var[xs[i]]].set]
         IN  /\ arg \in [1 .. n -> SUBSET Item]
             /\ \A i \in 1 .. n : arg[i] = ValueOf(xs[i]) /\ IsValue(arg[i])
<1> DEFINE h == Converted(Objects(xs))
           arg == [i \in DOMAIN xs |-> h[var[xs[i]]].set]
<1>1. \A i \in 1 .. n : h[var[xs[i]]].set = ValueOf(xs[i]) /\ IsValue(ValueOf(xs[i]))
  BY DEF Taken
<1> HIDE DEF h
<1>2. \A i \in 1 .. n : arg[i] = ValueOf(xs[i]) /\ IsValue(arg[i])
  BY <1>1
<1>3. arg = [i \in 1 .. n |-> arg[i]]
  OBVIOUS
<1>4. arg \in [1 .. n -> SUBSET Item]
  BY <1>2, <1>3 DEF IsValue
<1> QED BY <1>2, <1>4 DEF h

LEMMA UnionSimulated ==
  ASSUME SetInv, NEW d \in Var, NEW n \in Nat, NEW xs \in [1 .. n -> Var], sm_UNION(d, xs)
  PROVE  SetInv' /\ SetVariablesSpec!Combine(<<"union">> \o xs, d, ToSet(xs),
                                             UNION {Vals[x] : x \in ToSet(xs)})
<1> DEFINE h == Converted(Objects(xs))
           arg == [i \in DOMAIN xs |-> h[var[xs[i]]].set]
           S == FoldLeft(s_add, {}, arg)
           T == UNION {Vals[x] : x \in ToSet(xs)}
           call == <<"union">> \o xs
<1>1. Given(xs)
  BY DEF sm_UNION, Into
<1>2. /\ AllLists(Objects(xs)) => SetVar(h, d, s_new(S)) /\ Answer(call, 0, <<S>>)
      /\ ~ AllLists(Objects(xs)) => Bind(var, h) /\ Fails(call)
  BY DEF sm_UNION, Into
<1>3. Taken(xs)
  BY <1>1, ArgumentsTaken
<1>4. DOMAIN xs = 1 .. n /\ DOMAIN arg = 1 .. n /\ \A i \in DOMAIN xs : xs[i] \in Var
  OBVIOUS
<1>5. AllLists(Objects(xs)) =>
        /\ arg \in [1 .. n -> SUBSET Item]
        /\ \A i \in 1 .. n : arg[i] = ValueOf(xs[i]) /\ IsValue(arg[i])
  BY <1>3, ValuesTaken
<1> HIDE DEF arg
<1>6. S = UNION {arg[i] : i \in 1 .. n}
  BY <1>4, FoldAdd
<1>7. AllLists(Objects(xs)) => \A i \in 1 .. n : arg[i] = Vals[xs[i]]
  BY <1>4, <1>5 DEF Vals
<1>8. ToSet(xs) = {xs[i] : i \in 1 .. n}
  BY <1>4 DEF ToSet
<1>9. AllLists(Objects(xs)) => S = T
  BY <1>6, <1>7, <1>8
<1>10. AllLists(Objects(xs)) => IsValue(S)
  <2> SUFFICES ASSUME AllLists(Objects(xs)) PROVE IsValue(S)
    OBVIOUS
  <2> DEFINE parts == {arg[i] : i \in 1 .. n}
  <2>1. arg \in Surjection(1 .. n, parts)
    <3>1. arg \in [1 .. n -> parts]
      BY <1>5
    <3>2. \A p \in parts : \E i \in 1 .. n : arg[i] = p
      OBVIOUS
    <3> QED BY <3>1, <3>2 DEF Surjection
  <2>2. \A p \in parts : p \in SUBSET Item /\ IsFiniteSet(p)
    BY <1>5 DEF IsValue
  <2>3. S = UNION parts
    BY <1>6
  <2> HIDE DEF parts, S
  <2>4. IsFiniteSet(parts)
    BY <2>1, FS_Surjection, FS_Interval
  <2>5. IsFiniteSet(UNION parts)
    BY <2>2, <2>4, FS_UNION
  <2> QED BY <2>2, <2>3, <2>5 DEF IsValue
<1> HIDE DEF h, S, T, call
<1>11. SetInv' /\ SetVariablesSpec!Combine(call, d, ToSet(xs), T)
  BY <1>2, <1>3, <1>4, <1>9, <1>10, Combined DEF h
<1> QED BY <1>11 DEF T, call

LEMMA IntersectSimulated ==
  ASSUME SetInv, NEW d \in Var, NEW n \in Nat, NEW xs \in [1 .. n -> Var], sm_INTERSECT(d, xs)
  PROVE  SetInv' /\ SetVariablesSpec!Combine(<<"intersect">> \o xs, d, ToSet(xs),
           {i \in Item : xs # <<>> /\ \A x \in ToSet(xs) : i \in Vals[x]})
<1> DEFINE h == Converted(Objects(xs))
           arg == [i \in DOMAIN xs |-> h[var[xs[i]]].set]
           S == IF arg = <<>> THEN {} ELSE FoldLeft(s_intersect, Head(arg), Tail(arg))
           T == {i \in Item : xs # <<>> /\ \A x \in ToSet(xs) : i \in Vals[x]}
           call == <<"intersect">> \o xs
<1>1. Given(xs)
  BY DEF sm_INTERSECT, Into
<1>2. /\ AllLists(Objects(xs)) => SetVar(h, d, s_new(S)) /\ Answer(call, 0, <<S>>)
      /\ ~ AllLists(Objects(xs)) => Bind(var, h) /\ Fails(call)
  BY DEF sm_INTERSECT, Into
<1>3. Taken(xs)
  BY <1>1, ArgumentsTaken
<1>4. DOMAIN xs = 1 .. n /\ DOMAIN arg = 1 .. n /\ \A i \in DOMAIN xs : xs[i] \in Var
  OBVIOUS
<1>5. AllLists(Objects(xs)) =>
        /\ arg \in [1 .. n -> SUBSET Item]
        /\ \A i \in 1 .. n : arg[i] = ValueOf(xs[i]) /\ IsValue(arg[i])
  BY <1>3, ValuesTaken
<1> HIDE DEF arg
<1>6. AllLists(Objects(xs)) => \A i \in 1 .. n : arg[i] = Vals[xs[i]]
  BY <1>4, <1>5 DEF Vals
<1>7. ToSet(xs) = {xs[i] : i \in 1 .. n}
  BY <1>4 DEF ToSet
<1>8. xs = <<>> <=> n = 0
  BY <1>4
<1>9. ASSUME AllLists(Objects(xs))
      PROVE  S = T /\ IsValue(T)
  <2>1. CASE n = 0
    <3>1. arg = <<>>
      BY <2>1, <1>4, <1>5, <1>9
    <3>2. S = {} /\ T = {}
      BY <2>1, <3>1, <1>8
    <3> QED BY <3>2, FS_EmptySet DEF IsValue
  <2>2. CASE n # 0
    <3>1. /\ arg \in Seq(SUBSET Item) /\ arg # <<>> /\ Len(arg) = n
          /\ DOMAIN Tail(arg) = 1 .. (n - 1) /\ Head(arg) = arg[1]
          /\ \A i \in 1 .. (n - 1) : Tail(arg)[i] = arg[i + 1]
      <4>1. arg \in Seq(SUBSET Item)
        BY <1>5, <1>9
      <4>2. Len(arg) = n
        BY <4>1, <1>4, LengthOfDomain
      <4> QED BY <2>2, <4>1, <4>2
    <3>2. S = {x \in arg[1] : \A i \in 1 .. (n - 1) : x \in Tail(arg)[i]}
      <4>1. n - 1 \in Nat
        BY <2>2
      <4>2. FoldLeft(s_intersect, Head(arg), Tail(arg)) =
              {x \in Head(arg) : \A i \in 1 .. (n - 1) : x \in Tail(arg)[i]}
        <5> DEFINE hd == Head(arg)
                   tl == Tail(arg)
                   m == n - 1
        <5>1. m \in Nat /\ DOMAIN tl = 1 .. m
          BY <3>1, <4>1
        <5> HIDE DEF hd, tl, m
        <5>2. FoldLeft(s_intersect, hd, tl) = {x \in hd : \A i \in 1 .. m : x \in tl[i]}
          BY <5>1, FoldIntersect
        <5> QED BY <5>2 DEF hd, tl, m
      <4> QED BY <3>1, <4>2
    <3>3. S = {x \in arg[1] : \A i \in 1 .. n : x \in arg[i]}
      <4>1. \A i \in 1 .. n : i = 1 \/ (i - 1 \in 1 .. (n - 1) /\ arg[i] = Tail(arg)[i - 1])
        BY <3>1
      <4>2. \A i \in 1 .. (n - 1) : i + 1 \in 1 .. n /\ Tail(arg)[i] = arg[i + 1]
        BY <3>1
      <4>3. \A x \in arg[1] : (\A i \in 1 .. (n - 1) : x \in Tail(arg)[i])
                                <=> \A i \in 1 .. n : x \in arg[i]
        BY <4>1, <4>2
      <4> HIDE DEF S
      <4> QED BY <3>2, <4>3
    <3> HIDE DEF S
    <3>4. 1 \in 1 .. n /\ arg[1] \in SUBSET Item /\ IsFiniteSet(arg[1])
      BY <2>2, <1>5, <1>9 DEF IsValue
    <3>5. \A i \in Item : i \in T <=> \A j \in 1 .. n : i \in arg[j]
      BY <2>2, <1>6, <1>7, <1>8, <1>9
    <3>6. S = T
      BY <3>3, <3>4, <3>5
    <3>7. S \in SUBSET arg[1]
      BY <3>3
    <3>8. IsFiniteSet(S)
      BY <3>4, <3>7, FS_Subset
    <3> QED BY <3>4, <3>6, <3>7, <3>8 DEF IsValue
  <2> QED BY <2>1, <2>2
<1> HIDE DEF h, S, T, call
<1>10. SetInv' /\ SetVariablesSpec!Combine(call, d, ToSet(xs), T)
  BY <1>2, <1>3, <1>4, <1>9, Combined DEF h
<1> QED BY <1>10 DEF T, call

-----------------------------------------------------------------------------
(* The commands that change a variable *)

LEMMA OneObject ==
  ASSUME SetInv, NEW x \in Var, var[x] # Unset
  PROVE  LET h == Converted(<<var[x]>>)
         IN  /\ Same(h)
             /\ AllLists(<<var[x]>>) <=> IsList(heap[var[x]])
             /\ IsList(heap[var[x]]) => h[var[x]].set = ValueOf(x) /\ IsValue(ValueOf(x))
             /\ ~ IsList(heap[var[x]]) => ValueOf(x) = Malformed
<1> DEFINE objs == <<var[x]>>
<1>1. DOMAIN objs = 1 .. 1 /\ Len(objs) = 1 /\ objs[1] = var[x]
  OBVIOUS
<1>2. var[x] \in Var /\ heap[var[x]] # Free /\ ValueOf(x) = Val(heap[var[x]])
  BY Values
<1>3. AllLists(objs) <=> IsList(heap[var[x]])
  BY <1>1 DEF AllLists
<1> HIDE DEF objs
<1>4. \A i \in 1 .. 1 : objs[i] = var[x]
  BY <1>1
<1>5. Gathered(objs, Converted(objs))
  BY <1>1, <1>2, <1>4, Conversion
<1>6. IsList(heap[var[x]]) => Converted(objs)[var[x]].set = ValueOf(x) /\ IsValue(ValueOf(x))
  BY <1>1, <1>2, <1>3, <1>5 DEF Gathered, IsValue
<1>7. ~ IsList(heap[var[x]]) => ValueOf(x) = Malformed
  BY <1>1, <1>2, <1>3, <1>4, <1>5 DEF Gathered
<1> QED BY <1>3, <1>5, <1>6, <1>7 DEF Gathered, objs

LEMMA TwoObjects ==
  ASSUME SetInv, NEW x \in Var, NEW y \in Var, var[x] # Unset, var[y] # Unset
  PROVE  LET objs == <<var[x], var[y]>>
             h    == Converted(objs)
         IN  /\ Same(h)
             /\ AllLists(objs) => /\ h[var[x]].set = ValueOf(x) /\ IsValue(ValueOf(x))
                                  /\ h[var[y]].set = ValueOf(y) /\ IsValue(ValueOf(y))
             /\ ~ AllLists(objs) => ValueOf(x) = Malformed \/ ValueOf(y) = Malformed
<1> DEFINE objs == <<var[x], var[y]>>
<1>1. DOMAIN objs = 1 .. 2 /\ Len(objs) = 2 /\ objs[1] = var[x] /\ objs[2] = var[y]
  OBVIOUS
<1>2. /\ var[x] \in Var /\ heap[var[x]] # Free /\ ValueOf(x) = Val(heap[var[x]])
      /\ var[y] \in Var /\ heap[var[y]] # Free /\ ValueOf(y) = Val(heap[var[y]])
  BY Values
<1> HIDE DEF objs
<1>3. \A i \in 1 .. 2 : objs[i] = var[x] \/ objs[i] = var[y]
  BY <1>1
<1>4. Gathered(objs, Converted(objs))
  BY <1>1, <1>2, <1>3, Conversion
<1>5. AllLists(objs) => Converted(objs)[var[x]].set = ValueOf(x) /\ IsValue(ValueOf(x))
  BY <1>1, <1>2, <1>4 DEF Gathered, IsValue
<1>6. AllLists(objs) => Converted(objs)[var[y]].set = ValueOf(y) /\ IsValue(ValueOf(y))
  BY <1>1, <1>2, <1>4 DEF Gathered, IsValue
<1>7. ~ AllLists(objs) => ValueOf(x) = Malformed \/ ValueOf(y) = Malformed
  BY <1>1, <1>2, <1>3, <1>4 DEF Gathered
<1> QED BY <1>4, <1>5, <1>6, <1>7 DEF Gathered, objs

\* A command that leaves the values and fails, and one that gives x the set S.
LEMMA Failed ==
  ASSUME NEW call, Fails(call), Stays
  PROVE  SetVariablesSpec!Called(call) /\ SetVariablesSpec!Fail
<1>1. SetVariablesSpec!Called(call) /\ SetVariablesSpec!Fails
  BY CalledAndAnswered
<1>2. UNCHANGED Vals
  BY PutVals
<1> QED BY <1>1, <1>2 DEF SetVariablesSpec!Fail, Vals

LEMMA Succeeded ==
  ASSUME NEW x, NEW call, NEW S, Answer(call, 0, <<>>), x \in Var, Becomes(x, S)
  PROVE  /\ SetVariablesSpec!Called(call) /\ SetVariablesSpec!Answers(0, <<>>)
         /\ SetVariablesSpec!Put(x, S)
BY CalledAndAnswered, PutVals

LEMMA StaysAsItIs ==
  ASSUME NEW x \in Var, Stays, NEW S, S = ValueOf(x)
  PROVE  Becomes(x, S)
BY DEF Stays, Becomes

LEMMA Untouched ==
  ASSUME SetInv, UNCHANGED <<var, heap>>
  PROVE  SetInv' /\ Stays
<1>1. SetInv'
  BY DEF SetInv, SetTypeOK
<1>2. Stays
  BY DEF Stays, ValueOf
<1> QED BY <1>1, <1>2

\* What SetVariables says of the commands that change a variable, without the
\* functions they are put together from.
LEMMA IncludeIs ==
  ASSUME NEW x \in Var, NEW item \in Item,
         LET call == <<"include", x, item>>
         IN  /\ SetVariablesSpec!Called(call)
             /\ \/ /\ ValueOf(x) # Malformed /\ SetVariablesSpec!Answers(0, <<>>)
                   /\ SetVariablesSpec!Put(x, (IF ValueOf(x) = Unset THEN {} ELSE ValueOf(x))
                                                \cup {item})
                \/ ValueOf(x) = Malformed /\ SetVariablesSpec!Fail
  PROVE  SetVariablesSpec!Include(x, item)
<1>1. Unset # Malformed
  BY SetAssumption
<1> QED BY <1>1, SetsAreSets DEF SetVariablesSpec!Include, SetVariablesSpec!Change

LEMMA IncludeSimulated ==
  ASSUME SetInv, NEW x \in Var, NEW item \in Item, sm_INCLUDE(x, item)
  PROVE  SetInv' /\ SetVariablesSpec!Include(x, item)
<1> DEFINE call == <<"include", x, item>>
           h == Converted(<<var[x]>>)
           A == h[var[x]].set
<1>1. CASE var[x] = Unset
  <2>1. SetVar(heap, x, s_new({item})) /\ Answer(call, 0, <<>>)
    BY <1>1 DEF sm_INCLUDE
  <2> HIDE DEF call
  <2>2. {item} \in SUBSET Item /\ IsFiniteSet({item})
    BY FS_Singleton
  <2>3. Fit(s_new({item})) /\ Val(s_new({item})) = {item}
    BY <2>2, NewSet
  <2>4. SetInv' /\ Becomes(x, {item})
    BY <2>1, <2>3, HeapIsSame, NewObject
  <2>5. /\ SetVariablesSpec!Called(call) /\ SetVariablesSpec!Answers(0, <<>>)
        /\ SetVariablesSpec!Put(x, {item})
    BY <2>1, <2>4, Succeeded
  <2>6. ValueOf(x) = Unset /\ ValueOf(x) # Malformed
    BY <1>1, Values, SetAssumption
  <2>7. {item} = (IF ValueOf(x) = Unset THEN {} ELSE ValueOf(x)) \cup {item}
    BY <2>6
  <2>8. SetVariablesSpec!Put(x, (IF ValueOf(x) = Unset THEN {} ELSE ValueOf(x)) \cup {item})
    BY <2>5, <2>7
  <2> QED BY <2>4, <2>5, <2>6, <2>8, IncludeIs DEF call
<1>2. CASE var[x] # Unset /\ ~ IsList(heap[var[x]])
  <2>1. UNCHANGED <<var, heap>> /\ Fails(call)
    BY <1>2 DEF sm_INCLUDE
  <2> HIDE DEF call
  <2>2. SetInv' /\ Stays
    BY <2>1, Untouched
  <2>3. SetVariablesSpec!Called(call) /\ SetVariablesSpec!Fail
    BY <2>1, <2>2, Failed
  <2>4. ValueOf(x) = Malformed
    BY <1>2, OneObject
  <2> QED BY <2>2, <2>3, <2>4, IncludeIs DEF call
<1>3. CASE var[x] # Unset /\ IsList(heap[var[x]])
  <2>1. /\ Answer(call, 0, <<>>)
        /\ IF item \in A THEN Bind(var, h) ELSE Change(h, x, {}, A \cup {item})
    BY <1>3 DEF sm_INCLUDE
  <2>2. Same(h) /\ A = ValueOf(x) /\ IsValue(ValueOf(x))
    BY <1>3, OneObject
  <2> HIDE DEF call, h, A
  <2>3. SetInv' /\ Becomes(x, A \cup {item})
    <3>1. CASE item \in A
      <4>1. SetInv' /\ Stays
        BY <2>1, <2>2, <3>1, BoundAsBefore
      <4>2. A \cup {item} = ValueOf(x)
        BY <2>2, <3>1
      <4> QED BY <4>1, <4>2, StaysAsItIs
    <3>2. CASE item \notin A
      <4>1. A \cup {item} \in SUBSET Item /\ IsFiniteSet(A \cup {item})
        BY <2>2, FS_AddElement DEF IsValue
      <4>2. Change(h, x, {}, A \cup {item})
        BY <2>1, <3>2
      <4> QED BY <1>3, <2>2, <4>1, <4>2, Changed
    <3> QED BY <3>1, <3>2
  <2>4. /\ SetVariablesSpec!Called(call) /\ SetVariablesSpec!Answers(0, <<>>)
        /\ SetVariablesSpec!Put(x, A \cup {item})
    BY <2>1, <2>3, Succeeded
  <2>5. ValueOf(x) # Unset /\ ValueOf(x) # Malformed
    BY <2>2, SetsAreSets
  <2>6. A = (IF ValueOf(x) = Unset THEN {} ELSE ValueOf(x))
    BY <2>2, <2>5
  <2>7. SetVariablesSpec!Put(x, (IF ValueOf(x) = Unset THEN {} ELSE ValueOf(x)) \cup {item})
    BY <2>4, <2>6
  <2> QED BY <2>3, <2>4, <2>5, <2>7, IncludeIs DEF call
<1> QED BY <1>1, <1>2, <1>3

LEMMA ExcludeIs ==
  ASSUME NEW x \in Var, NEW item \in Item,
         LET call == <<"exclude", x, item>>
         IN  /\ SetVariablesSpec!Called(call)
             /\ \/ /\ IsValue(ValueOf(x)) /\ SetVariablesSpec!Answers(0, <<>>)
                   /\ SetVariablesSpec!Put(x, ValueOf(x) \ {item})
                \/ ValueOf(x) \in {Malformed, Unset} /\ SetVariablesSpec!Fail
  PROVE  SetVariablesSpec!Exclude(x, item)
<1>1. IsValue(ValueOf(x)) => ValueOf(x) # Unset /\ ValueOf(x) # Malformed
  BY SetsAreSets
<1> QED BY <1>1, SetsAreSets DEF SetVariablesSpec!Exclude, SetVariablesSpec!Change

LEMMA ExcludeSimulated ==
  ASSUME SetInv, NEW x \in Var, NEW item \in Item, sm_EXCLUDE(x, item)
  PROVE  SetInv' /\ SetVariablesSpec!Exclude(x, item)
<1> DEFINE call == <<"exclude", x, item>>
           h == Converted(<<var[x]>>)
           A == h[var[x]].set
<1>1. CASE var[x] = Unset \/ ~ IsList(heap[var[x]])
  <2>1. UNCHANGED <<var, heap>> /\ Fails(call)
    BY <1>1 DEF sm_EXCLUDE
  <2> HIDE DEF call
  <2>2. SetInv' /\ Stays
    BY <2>1, Untouched
  <2>3. SetVariablesSpec!Called(call) /\ SetVariablesSpec!Fail
    BY <2>1, <2>2, Failed
  <2>4. ValueOf(x) \in {Malformed, Unset}
    BY <1>1, OneObject, Values
  <2> QED BY <2>2, <2>3, <2>4, ExcludeIs DEF call
<1>2. CASE var[x] # Unset /\ IsList(heap[var[x]])
  <2>1. /\ Answer(call, 0, <<>>)
        /\ IF item \in A THEN Change(h, x, {}, A \ {item}) ELSE Bind(var, h)
    BY <1>2 DEF sm_EXCLUDE
  <2>2. Same(h) /\ A = ValueOf(x) /\ IsValue(ValueOf(x))
    BY <1>2, OneObject
  <2> HIDE DEF call, h, A
  <2>3. SetInv' /\ Becomes(x, A \ {item})
    <3>1. CASE item \notin A
      <4>1. SetInv' /\ Stays
        BY <2>1, <2>2, <3>1, BoundAsBefore
      <4>2. A \ {item} = ValueOf(x)
        BY <2>2, <3>1
      <4> QED BY <4>1, <4>2, StaysAsItIs
    <3>2. CASE item \in A
      <4>1. A \ {item} \in SUBSET Item /\ IsFiniteSet(A \ {item})
        BY <2>2, FS_RemoveElement DEF IsValue
      <4>2. Change(h, x, {}, A \ {item})
        BY <2>1, <3>2
      <4> QED BY <1>2, <2>2, <4>1, <4>2, Changed
    <3> QED BY <3>1, <3>2
  <2>4. /\ SetVariablesSpec!Called(call) /\ SetVariablesSpec!Answers(0, <<>>)
        /\ SetVariablesSpec!Put(x, ValueOf(x) \ {item})
    BY <2>1, <2>2, <2>3, Succeeded
  <2> QED BY <2>2, <2>3, <2>4, ExcludeIs DEF call
<1> QED BY <1>1, <1>2

LEMMA AddIs ==
  ASSUME NEW x \in Var, NEW y \in Var,
         LET call == <<"add", x, y>>
         IN  /\ SetVariablesSpec!Called(call)
             /\ \/ /\ IsValue(ValueOf(y)) /\ ValueOf(x) # Malformed
                   /\ SetVariablesSpec!Answers(0, <<>>)
                   /\ SetVariablesSpec!Put(x, (IF ValueOf(x) = Unset THEN {} ELSE ValueOf(x))
                                                \cup ValueOf(y))
                \/ /\ ValueOf(x) = Malformed \/ ValueOf(y) = Malformed
                   /\ SetVariablesSpec!Fail
  PROVE  SetVariablesSpec!Add(x, y)
<1>1. IsValue(ValueOf(y)) => ValueOf(y) # Unset /\ ValueOf(y) # Malformed
  BY SetsAreSets
<1>2. Unset # Malformed
  BY SetAssumption
<1> QED BY <1>1, <1>2, SetsAreSets DEF SetVariablesSpec!Add, SetVariablesSpec!Change

LEMMA AddSimulated ==
  ASSUME SetInv, NEW x \in Var, NEW y \in Var, sm_ADD(x, y)
  PROVE  SetInv' /\ SetVariablesSpec!Add(x, y)
<1> DEFINE call == <<"add", x, y>>
<1>1. var[y] # Unset
  <2>1. Given(<<y>>)
    BY DEF sm_ADD
  <2>2. 1 \in DOMAIN <<y>> /\ <<y>>[1] = y
    OBVIOUS
  <2> QED BY <2>1, <2>2 DEF Given
<1>2. CASE var[x] = Unset
  <2> DEFINE objs == <<var[y]>>
             h == Converted(objs)
             B == h[var[y]].set
  <2>1. IF ~ AllLists(objs) THEN Bind(var, h) /\ Fails(call)
        ELSE Answer(call, 0, <<>>) /\ SetVar(h, x, s_new(B))
    BY <1>2 DEF sm_ADD
  <2>2. /\ Same(h) /\ (AllLists(objs) <=> IsList(heap[var[y]]))
        /\ IsList(heap[var[y]]) => B = ValueOf(y) /\ IsValue(ValueOf(y))
        /\ ~ IsList(heap[var[y]]) => ValueOf(y) = Malformed
    BY <1>1, OneObject
  <2> HIDE DEF objs, h, B, call
  <2>3. CASE ~ AllLists(objs)
    <3>1. SetInv' /\ Stays
      BY <2>1, <2>2, <2>3, BoundAsBefore
    <3>2. SetVariablesSpec!Called(call) /\ SetVariablesSpec!Fail
      BY <2>1, <2>3, <3>1, Failed
    <3> QED BY <2>2, <2>3, <3>1, <3>2, AddIs DEF call
  <2>4. CASE AllLists(objs)
    <3>1. B = ValueOf(y) /\ IsValue(B)
      BY <2>2, <2>4
    <3>2. Fit(s_new(B)) /\ Val(s_new(B)) = B
      BY <3>1, NewSet DEF IsValue
    <3>3. SetInv' /\ Becomes(x, B)
      BY <2>1, <2>2, <2>4, <3>2, NewObject
    <3>4. ValueOf(x) = Unset /\ ValueOf(x) # Malformed
      BY <1>2, Values, SetAssumption
    <3>5. B = (IF ValueOf(x) = Unset THEN {} ELSE ValueOf(x)) \cup ValueOf(y)
      BY <3>1, <3>4
    <3>6. /\ SetVariablesSpec!Called(call) /\ SetVariablesSpec!Answers(0, <<>>)
          /\ SetVariablesSpec!Put(x, (IF ValueOf(x) = Unset THEN {} ELSE ValueOf(x))
                                        \cup ValueOf(y))
      BY <2>1, <2>4, <3>3, <3>5, Succeeded
    <3>7. IsValue(ValueOf(y))
      BY <3>1
    <3> QED BY <3>3, <3>4, <3>6, <3>7, AddIs DEF call
  <2> QED BY <2>3, <2>4
<1>3. CASE var[x] # Unset
  <2> DEFINE objs == <<var[y], var[x]>>
             h == Converted(objs)
             A == h[var[x]].set
             B == h[var[y]].set
  <2>1. IF ~ AllLists(objs) THEN Bind(var, h) /\ Fails(call)
        ELSE /\ Answer(call, 0, <<>>)
             /\ IF B \subseteq A THEN Bind(var, h) ELSE Change(h, x, {var[y]}, s_add(A, B))
    BY <1>3 DEF sm_ADD
  <2>2. /\ Same(h)
        /\ AllLists(objs) => /\ A = ValueOf(x) /\ IsValue(ValueOf(x))
                             /\ B = ValueOf(y) /\ IsValue(ValueOf(y))
        /\ ~ AllLists(objs) => ValueOf(x) = Malformed \/ ValueOf(y) = Malformed
    BY <1>1, <1>3, TwoObjects
  <2> HIDE DEF objs, h, A, B, call
  <2>3. CASE ~ AllLists(objs)
    <3>1. SetInv' /\ Stays
      BY <2>1, <2>2, <2>3, BoundAsBefore
    <3>2. SetVariablesSpec!Called(call) /\ SetVariablesSpec!Fail
      BY <2>1, <2>3, <3>1, Failed
    <3> QED BY <2>2, <2>3, <3>1, <3>2, AddIs DEF call
  <2>4. CASE AllLists(objs)
    <3>1. /\ A = ValueOf(x) /\ IsValue(A) /\ B = ValueOf(y) /\ IsValue(B)
          /\ Answer(call, 0, <<>>)
      BY <2>1, <2>2, <2>4
    <3>2. SetInv' /\ Becomes(x, A \cup B)
      <4>1. CASE B \subseteq A
        <5>1. SetInv' /\ Stays
          BY <2>1, <2>2, <2>4, <4>1, BoundAsBefore
        <5>2. A \cup B = ValueOf(x)
          BY <3>1, <4>1
        <5> QED BY <5>1, <5>2, StaysAsItIs
      <4>2. CASE ~ (B \subseteq A)
        <5>1. A \cup B \in SUBSET Item /\ IsFiniteSet(A \cup B)
          BY <3>1, FS_Union DEF IsValue
        <5>2. Change(h, x, {var[y]}, A \cup B)
          BY <2>1, <2>4, <4>2 DEF s_add
        <5> QED BY <1>3, <2>2, <5>1, <5>2, Changed
      <4> QED BY <4>1, <4>2
    <3>3. ValueOf(x) # Unset /\ ValueOf(x) # Malformed
      BY <3>1, SetsAreSets
    <3>4. A \cup B = (IF ValueOf(x) = Unset THEN {} ELSE ValueOf(x)) \cup ValueOf(y)
      BY <3>1, <3>3
    <3>5. /\ SetVariablesSpec!Called(call) /\ SetVariablesSpec!Answers(0, <<>>)
          /\ SetVariablesSpec!Put(x, (IF ValueOf(x) = Unset THEN {} ELSE ValueOf(x))
                                        \cup ValueOf(y))
      BY <3>1, <3>2, <3>4, Succeeded
    <3>6. IsValue(ValueOf(y))
      BY <3>1
    <3> QED BY <3>2, <3>3, <3>5, <3>6, AddIs DEF call
  <2> QED BY <2>3, <2>4
<1> QED BY <1>2, <1>3

LEMMA SubtractIs ==
  ASSUME NEW x \in Var, NEW y \in Var,
         LET call == <<"subtract", x, y>>
         IN  /\ SetVariablesSpec!Called(call)
             /\ \/ /\ IsValue(ValueOf(y)) /\ IsValue(ValueOf(x))
                   /\ SetVariablesSpec!Answers(0, <<>>)
                   /\ SetVariablesSpec!Put(x, ValueOf(x) \ ValueOf(y))
                \/ /\ ValueOf(x) \in {Malformed, Unset} \/ ValueOf(y) = Malformed
                   /\ SetVariablesSpec!Fail
  PROVE  SetVariablesSpec!Subtract(x, y)
<1>1. /\ IsValue(ValueOf(y)) => ValueOf(y) # Unset /\ ValueOf(y) # Malformed
      /\ IsValue(ValueOf(x)) => ValueOf(x) # Unset /\ ValueOf(x) # Malformed
  BY SetsAreSets
<1> QED BY <1>1, SetsAreSets DEF SetVariablesSpec!Subtract, SetVariablesSpec!Change

LEMMA SubtractSimulated ==
  ASSUME SetInv, NEW x \in Var, NEW y \in Var, sm_SUBTRACT(x, y)
  PROVE  SetInv' /\ SetVariablesSpec!Subtract(x, y)
<1> DEFINE call == <<"subtract", x, y>>
<1>1. var[y] # Unset
  <2>1. Given(<<y>>)
    BY DEF sm_SUBTRACT
  <2>2. 1 \in DOMAIN <<y>> /\ <<y>>[1] = y
    OBVIOUS
  <2> QED BY <2>1, <2>2 DEF Given
<1>2. CASE var[x] = Unset
  <2>1. UNCHANGED <<var, heap>> /\ Fails(call)
    BY <1>2 DEF sm_SUBTRACT
  <2> HIDE DEF call
  <2>2. SetInv' /\ Stays
    BY <2>1, Untouched
  <2>3. SetVariablesSpec!Called(call) /\ SetVariablesSpec!Fail
    BY <2>1, <2>2, Failed
  <2>4. ValueOf(x) \in {Malformed, Unset}
    BY <1>2, Values
  <2> QED BY <2>2, <2>3, <2>4, SubtractIs DEF call
<1>3. CASE var[x] # Unset
  <2> DEFINE objs == <<var[x], var[y]>>
             h == Converted(objs)
             A == h[var[x]].set
             B == h[var[y]].set
  <2>1. IF ~ AllLists(objs) THEN Bind(var, h) /\ Fails(call)
        ELSE /\ Answer(call, 0, <<>>)
             /\ IF A \cap B = {} THEN Bind(var, h) ELSE Change(h, x, {var[y]}, A \ B)
    BY <1>3 DEF sm_SUBTRACT
  <2>2. /\ Same(h)
        /\ AllLists(objs) => /\ A = ValueOf(x) /\ IsValue(ValueOf(x))
                             /\ B = ValueOf(y) /\ IsValue(ValueOf(y))
        /\ ~ AllLists(objs) => ValueOf(x) = Malformed \/ ValueOf(y) = Malformed
    BY <1>1, <1>3, TwoObjects
  <2> HIDE DEF objs, h, A, B, call
  <2>3. CASE ~ AllLists(objs)
    <3>1. SetInv' /\ Stays
      BY <2>1, <2>2, <2>3, BoundAsBefore
    <3>2. SetVariablesSpec!Called(call) /\ SetVariablesSpec!Fail
      BY <2>1, <2>3, <3>1, Failed
    <3> QED BY <2>2, <2>3, <3>1, <3>2, SubtractIs DEF call
  <2>4. CASE AllLists(objs)
    <3>1. /\ A = ValueOf(x) /\ IsValue(A) /\ B = ValueOf(y) /\ IsValue(B)
          /\ Answer(call, 0, <<>>)
      BY <2>1, <2>2, <2>4
    <3>2. SetInv' /\ Becomes(x, A \ B)
      <4>1. CASE A \cap B = {}
        <5>1. SetInv' /\ Stays
          BY <2>1, <2>2, <2>4, <4>1, BoundAsBefore
        <5>2. A \ B = ValueOf(x)
          BY <3>1, <4>1
        <5> QED BY <5>1, <5>2, StaysAsItIs
      <4>2. CASE A \cap B # {}
        <5>1. A \ B \in SUBSET Item /\ IsFiniteSet(A \ B)
          BY <3>1, FS_Difference DEF IsValue
        <5>2. Change(h, x, {var[y]}, A \ B)
          BY <2>1, <2>4, <4>2
        <5> QED BY <1>3, <2>2, <5>1, <5>2, Changed
      <4> QED BY <4>1, <4>2
    <3>3. /\ SetVariablesSpec!Called(call) /\ SetVariablesSpec!Answers(0, <<>>)
          /\ SetVariablesSpec!Put(x, ValueOf(x) \ ValueOf(y))
      BY <3>1, <3>2, Succeeded
    <3>4. IsValue(ValueOf(x)) /\ IsValue(ValueOf(y))
      BY <3>1
    <3> QED BY <3>2, <3>3, <3>4, SubtractIs DEF call
  <2> QED BY <2>3, <2>4
<1> QED BY <1>2, <1>3

-----------------------------------------------------------------------------
(* What else the program does *)

\* A variable is written, copied or unset.
LEMMA Assigned ==
  ASSUME NEW x \in Var, NEW w, Becomes(x, w), IsValue(w) \/ w = Malformed \/ w = Unset,
         Answer(<<"set">>, 0, <<>>)
  PROVE  SetVariablesSpec!Assign(x)
<1> DEFINE Sets == SUBSET Item
<1>1. w \in Sets \/ w = Malformed \/ w = Unset
  BY DEF IsValue
<1> HIDE DEF Sets
<1>2. w \in Sets \cup {Malformed, Unset}
  BY <1>1
<1>3. /\ SetVariablesSpec!Called(<<"set">>) /\ SetVariablesSpec!Answers(0, <<>>)
      /\ SetVariablesSpec!Put(x, w)
  BY Succeeded
<1> QED BY <1>2, <1>3 DEF SetVariablesSpec!Assign, Sets

LEMMA WriteSimulated ==
  ASSUME SetInv, NEW x \in Var, Write(x)
  PROVE  SetInv' /\ SetVariablesSpec!Assign(x)
<1> DEFINE lists == BoundedSeq(Item, MaxLength)
<1>1. PICK object \in {Text(s) : s \in lists \cup {Malformed}} \cup {PureList(s) : s \in lists} :
        SetVar(heap, x, object)
  BY DEF Write
<1>2. lists \subseteq Seq(Item)
  BY SetAssumption DEF BoundedSeq, SeqOf
<1> HIDE DEF lists
<1>3. Fit(object) /\ (IsValue(Val(object)) \/ Val(object) = Malformed)
  <2>1. CASE object = Text(Malformed)
    <3>1. Fit(Text(Malformed)) /\ Val(Text(Malformed)) = Malformed
      <4>1. <<>> \in Seq(Item)
        OBVIOUS
      <4> QED BY <4>1, Written
    <3> QED BY <2>1, <3>1
  <2>2. ASSUME NEW s \in lists, object = Text(s) \/ object = PureList(s)
        PROVE  Fit(object) /\ IsValue(Val(object))
    <3>1. s \in Seq(Item)
      BY <1>2
    <3>2. Fit(object) /\ Val(object) = ToSet(s)
      BY <2>2, <3>1, Written
    <3> QED BY <3>1, <3>2, ElementsOfList DEF IsValue
  <2>3. object = Text(Malformed) \/ \E s \in lists : object = Text(s) \/ object = PureList(s)
    BY <1>1
  <2> QED BY <2>1, <2>2, <2>3
<1>4. SetInv' /\ Becomes(x, Val(object))
  BY <1>1, <1>3, HeapIsSame, NewObject
<1>5. Answer(<<"set">>, 0, <<>>)
  BY DEF Write
<1> QED BY <1>3, <1>4, <1>5, Assigned

\* What a variable can hold.
LEMMA ValueRange ==
  ASSUME SetInv, NEW x \in Var
  PROVE  IsValue(ValueOf(x)) \/ ValueOf(x) = Malformed \/ ValueOf(x) = Unset
<1>1. CASE var[x] = Unset
  BY <1>1, Values
<1>2. CASE var[x] # Unset
  BY <1>2, OneObject
<1> QED BY <1>1, <1>2

LEMMA CopySimulated ==
  ASSUME SetInv, NEW x \in Var, NEW y \in Var, Copy(x, y)
  PROVE  SetInv' /\ SetVariablesSpec!Assign(x)
<1> DEFINE v == [var EXCEPT ![x] = var[y]]
<1>1. Bind(v, heap) /\ Answer(<<"set">>, 0, <<>>)
  BY DEF Copy
<1>2. \A z \in Var : v[z] = IF z = x THEN var[y] ELSE var[z]
  BY DEF SetInv, SetTypeOK
<1> HIDE DEF v
<1>3. \A z \in Var : v[z] # Unset => Fit(heap[v[z]])
  BY <1>2, Values
<1>4. /\ SetInv'
      /\ \A z \in Var : ValueOf(z)' = IF v[z] = Unset THEN Unset ELSE Val(heap[v[z]])
  BY <1>1, <1>3, Rebound
<1>5. Becomes(x, ValueOf(y))
  <2> SUFFICES ASSUME NEW z \in Var
               PROVE  ValueOf(z)' = IF z = x THEN ValueOf(y) ELSE ValueOf(z)
    BY DEF Becomes
  <2>1. ValueOf(z)' = IF v[z] = Unset THEN Unset ELSE Val(heap[v[z]])
    BY <1>4
  <2>2. CASE z = x
    BY <2>1, <2>2, <1>2, Values
  <2>3. CASE z # x
    BY <2>1, <2>3, <1>2, Values
  <2> QED BY <2>2, <2>3
<1>6. IsValue(ValueOf(y)) \/ ValueOf(y) = Malformed \/ ValueOf(y) = Unset
  BY ValueRange
<1> QED BY <1>1, <1>4, <1>5, <1>6, Assigned

LEMMA UnbindSimulated ==
  ASSUME SetInv, NEW x \in Var, Unbind(x)
  PROVE  SetInv' /\ SetVariablesSpec!Assign(x)
<1> DEFINE v == [var EXCEPT ![x] = Unset]
<1>1. Bind(v, heap) /\ Answer(<<"set">>, 0, <<>>)
  BY DEF Unbind
<1>2. \A z \in Var : v[z] = IF z = x THEN Unset ELSE var[z]
  BY DEF SetInv, SetTypeOK
<1> HIDE DEF v
<1>3. \A z \in Var : v[z] # Unset => Fit(heap[v[z]])
  BY <1>2, Values
<1>4. /\ SetInv'
      /\ \A z \in Var : ValueOf(z)' = IF v[z] = Unset THEN Unset ELSE Val(heap[v[z]])
  BY <1>1, <1>3, Rebound
<1>5. Becomes(x, Unset)
  <2> SUFFICES ASSUME NEW z \in Var
               PROVE  ValueOf(z)' = IF z = x THEN Unset ELSE ValueOf(z)
    BY DEF Becomes
  <2>1. ValueOf(z)' = IF v[z] = Unset THEN Unset ELSE Val(heap[v[z]])
    BY <1>4
  <2>2. CASE z = x
    BY <2>1, <2>2, <1>2
  <2>3. CASE z # x
    BY <2>1, <2>3, <1>2, Values
  <2> QED BY <2>2, <2>3
<1> QED BY <1>1, <1>4, <1>5, Assigned

\* Looking at a value changes no value: the string that is made lists the elements.
LEMMA LookSimulated ==
  ASSUME SetInv, NEW x \in Var, Look(x)
  PROVE  SetInv' /\ Stays /\ UNCHANGED sAnswer
<1>1. var[x] # Unset /\ UNCHANGED <<var, sAnswer>>
  <2>1. 1 \in DOMAIN <<x>> /\ <<x>>[1] = x
    OBVIOUS
  <2> QED BY <2>1 DEF Look, Given
<1>2. /\ var[x] \in Var /\ heap[var[x]] # Free /\ Fit(heap[var[x]])
  BY <1>1, Values
<1>3. PICK o \in WithString(heap[var[x]]) :
        \/ heap' = [heap EXCEPT ![var[x]] = o]
        \/ /\ o.str # Malformed
           /\ heap' = [heap EXCEPT ![var[x]] =
                         [str |-> o.str, kind |-> "list", list |-> o.str, set |-> {}]]
  BY DEF Look
<1>4. /\ Fit(o) /\ Val(o) = Val(heap[var[x]]) /\ o.str \in Seq(Item) \cup {Malformed}
      /\ o.str # Malformed => Val(o) = ToSet(o.str)
  BY <1>2, <1>3, StringMade
<1>5. PICK p : Fit(p) /\ Val(p) = Val(heap[var[x]]) /\ heap' = [heap EXCEPT ![var[x]] = p]
  <2>1. CASE heap' = [heap EXCEPT ![var[x]] = o]
    BY <2>1, <1>4
  <2>2. CASE /\ o.str # Malformed
             /\ heap' = [heap EXCEPT ![var[x]] =
                           [str |-> o.str, kind |-> "list", list |-> o.str, set |-> {}]]
    <3> DEFINE p == [str |-> o.str, kind |-> "list", list |-> o.str, set |-> {}]
    <3>1. o.str \in Seq(Item) /\ IsFiniteSet({})
      BY <2>2, <1>4, FS_EmptySet
    <3>2. p \in Object
      BY <3>1 DEF Object
    <3>3. Fit(p)
      BY <2>2, <3>1, <3>2 DEF Fit
    <3>4. Val(p) = ToSet(o.str)
      BY DEF Val
    <3>5. heap' = [heap EXCEPT ![var[x]] = p]
      BY <2>2
    <3> HIDE DEF p
    <3> QED BY <2>2, <1>4, <3>3, <3>4, <3>5
  <2> QED BY <1>3, <2>1, <2>2
<1>6. p # Free /\ p \in Object
  BY <1>5, SetAssumption DEF Fit
<1>7. \A o1 \in Var : heap'[o1] = IF o1 = var[x] THEN p ELSE heap[o1]
  BY <1>5 DEF SetInv, SetTypeOK
<1>8. SetInv'
  <2>1. var' \in [Var -> Var \cup {Unset}]
    BY <1>1 DEF SetInv, SetTypeOK
  <2>2. heap' \in [Var -> Object \cup {Free}]
    BY <1>5, <1>6 DEF SetInv, SetTypeOK
  <2>3. \A o1 \in Var : heap'[o1] = Free <=> heap[o1] = Free
    BY <1>2, <1>6, <1>7
  <2>4. \A o1 \in Var : heap'[o1] = Free <=> \A z \in Var : var'[z] # o1
    BY <1>1, <2>3 DEF SetInv, SetTypeOK
  <2>5. \A o1 \in Var : heap'[o1] # Free => Fit(heap'[o1])
    BY <1>5, <1>7 DEF SetInv
  <2> QED BY <2>1, <2>2, <2>4, <2>5 DEF SetInv, SetTypeOK
<1>9. Stays
  <2> SUFFICES ASSUME NEW z \in Var PROVE ValueOf(z)' = ValueOf(z)
    BY DEF Stays
  <2>1. CASE var[z] = Unset
    BY <2>1, <1>1 DEF ValueOf
  <2>2. CASE var[z] # Unset
    <3>1. ValueOf(z)' = Val(heap'[var[z]])
      BY <2>2, <1>1 DEF ValueOf, Val
    <3>2. var[z] \in Var /\ ValueOf(z) = Val(heap[var[z]])
      BY <2>2, Values
    <3> QED BY <1>5, <1>7, <3>1, <3>2
  <2> QED BY <2>1, <2>2
<1> QED BY <1>1, <1>8, <1>9

-----------------------------------------------------------------------------
(* The theorems *)

\* The library operators have one meaning in both modules.
LEMMA SameOperators ==
  /\ \A s : SetVariablesSpec!ToSet(s) = ToSet(s)
  /\ \A S : SetVariablesSpec!Cardinality(S) = Cardinality(S)
  /\ \A S, n : SetVariablesSpec!BoundedSeq(S, n) = BoundedSeq(S, n)
<1>1. \A s : SetVariablesSpec!ToSet(s) = ToSet(s)
  BY DEF SetVariablesSpec!ToSet, ToSet
<1>2. \A S : SetVariablesSpec!Cardinality(S) = Cardinality(S)
  BY DEF SetVariablesSpec!Cardinality, Cardinality
<1>3. \A S, n : SetVariablesSpec!BoundedSeq(S, n) = BoundedSeq(S, n)
  BY DEF SetVariablesSpec!BoundedSeq, SetVariablesSpec!SeqOf, BoundedSeq, SeqOf
<1> QED BY <1>1, <1>2, <1>3

LEMMA SetStarts ==
  ASSUME SetInit
  PROVE  SetInv /\ SetVariablesSpec!Init
<1>1. Unset \notin Var
  BY SetAssumption
<1>2. SetInv
  BY <1>1 DEF SetInit, SetInv, SetTypeOK
<1>3. \A x \in Var : ValueOf(x) = Unset
  BY DEF SetInit, ValueOf
<1> QED BY <1>2, <1>3 DEF SetInit, SetVariablesSpec!Init

LEMMA SetStep ==
  ASSUME SetInv, [SetNext]_sVars
  PROVE  SetInv' /\ (SetVariablesSpec!Next \/ UNCHANGED <<Vals, sAnswer>>)
<1>1. CASE UNCHANGED sVars
  <2>1. UNCHANGED <<var, heap, sAnswer>>
    BY <1>1 DEF sVars
  <2>2. SetInv' /\ Stays
    BY <2>1, Untouched
  <2> QED BY <2>1, <2>2, PutVals
<1>2. ASSUME NEW x \in Var, NEW item \in Item,
             sm_INCLUDE(x, item) \/ sm_EXCLUDE(x, item) \/ sm_CONTAINS(x, item)
      PROVE  SetInv' /\ SetVariablesSpec!Next
  <2>1. CASE sm_INCLUDE(x, item)
    BY <2>1, IncludeSimulated DEF SetVariablesSpec!Next
  <2>2. CASE sm_EXCLUDE(x, item)
    BY <2>2, ExcludeSimulated DEF SetVariablesSpec!Next
  <2>3. CASE sm_CONTAINS(x, item)
    <3>1. SetInv' /\ SetVariablesSpec!Ask(<<"contains", x, item>>, {x},
                                          Truth(item \in ValueOf(x)), <<>>)
      BY <2>3, ContainsSimulated
    <3> QED BY <3>1 DEF SetVariablesSpec!Next, SetVariablesSpec!Asks, SetVariablesSpec!Truth, Truth
  <2> QED BY <1>2, <2>1, <2>2, <2>3
<1>3. ASSUME NEW x \in Var, sm_SIZE(x) \/ sm_EMPTY(x) \/ Write(x) \/ Unbind(x)
      PROVE  SetInv' /\ SetVariablesSpec!Next
  <2>1. CASE sm_SIZE(x)
    <3>1. SetInv' /\ SetVariablesSpec!Ask(<<"size", x>>, {x}, Cardinality(ValueOf(x)), <<>>)
      BY <2>1, SizeSimulated
    <3> QED BY <3>1, SameOperators DEF SetVariablesSpec!Next, SetVariablesSpec!Asks
  <2>2. CASE sm_EMPTY(x)
    <3>1. SetInv' /\ SetVariablesSpec!Ask(<<"empty", x>>, {x}, Truth(ValueOf(x) = {}), <<>>)
      BY <2>2, EmptySimulated
    <3> QED BY <3>1 DEF SetVariablesSpec!Next, SetVariablesSpec!Asks, SetVariablesSpec!Truth, Truth
  <2>3. CASE Write(x)
    BY <2>3, WriteSimulated DEF SetVariablesSpec!Next
  <2>4. CASE Unbind(x)
    BY <2>4, UnbindSimulated DEF SetVariablesSpec!Next
  <2> QED BY <1>3, <2>1, <2>2, <2>3, <2>4
<1>4. ASSUME NEW x \in Var, Look(x)
      PROVE  SetInv' /\ UNCHANGED <<Vals, sAnswer>>
  BY <1>4, LookSimulated, PutVals
<1>5. ASSUME NEW x \in Var, NEW y \in Var,
             \/ sm_ADD(x, y) \/ sm_SUBTRACT(x, y) \/ sm_EQUAL(x, y)
             \/ sm_SUBSETOF(x, y) \/ sm_INTERSECT3(x, y) \/ Copy(x, y)
      PROVE  SetInv' /\ SetVariablesSpec!Next
  <2>1. CASE sm_ADD(x, y)
    BY <2>1, AddSimulated DEF SetVariablesSpec!Next
  <2>2. CASE sm_SUBTRACT(x, y)
    BY <2>2, SubtractSimulated DEF SetVariablesSpec!Next
  <2>3. CASE sm_EQUAL(x, y)
    <3>1. SetInv' /\ SetVariablesSpec!Ask(<<"equal", x, y>>, {x, y},
                                          Truth(ValueOf(x) = ValueOf(y)), <<>>)
      BY <2>3, EqualSimulated
    <3> QED BY <3>1 DEF SetVariablesSpec!Next, SetVariablesSpec!Asks, SetVariablesSpec!Truth, Truth
  <2>4. CASE sm_SUBSETOF(x, y)
    <3>1. SetInv' /\ SetVariablesSpec!Ask(<<"subsetof", x, y>>, {x, y},
                                          Truth(ValueOf(x) \subseteq ValueOf(y)), <<>>)
      BY <2>4, SubsetSimulated
    <3> QED BY <3>1 DEF SetVariablesSpec!Next, SetVariablesSpec!Asks, SetVariablesSpec!Truth, Truth
  <2>5. CASE sm_INTERSECT3(x, y)
    BY <2>5, Intersect3Simulated DEF SetVariablesSpec!Next, SetVariablesSpec!Asks
  <2>6. CASE Copy(x, y)
    BY <2>6, CopySimulated DEF SetVariablesSpec!Next
  <2> QED BY <1>5, <2>1, <2>2, <2>3, <2>4, <2>5, <2>6
<1>6. ASSUME NEW d \in Var, NEW xs \in BoundedSeq(Var, MaxArgs),
             sm_UNION(d, xs) \/ sm_INTERSECT(d, xs)
      PROVE  SetInv' /\ SetVariablesSpec!Next
  <2>1. PICK n \in 0 .. MaxArgs : xs \in [1 .. n -> Var]
    BY DEF BoundedSeq, SeqOf
  <2>2. n \in Nat
    BY <2>1, SetAssumption
  <2>3. CASE sm_UNION(d, xs)
    <3>1. SetInv' /\ SetVariablesSpec!Combine(<<"union">> \o xs, d, ToSet(xs),
                                              UNION {Vals[x] : x \in ToSet(xs)})
      BY <2>1, <2>2, <2>3, UnionSimulated
    <3> QED BY <3>1, SameOperators DEF SetVariablesSpec!Next, SetVariablesSpec!Combines, Vals
  <2>4. CASE sm_INTERSECT(d, xs)
    <3>1. SetInv' /\ SetVariablesSpec!Combine(<<"intersect">> \o xs, d, ToSet(xs),
             {i \in Item : xs # <<>> /\ \A x \in ToSet(xs) : i \in Vals[x]})
      BY <2>1, <2>2, <2>4, IntersectSimulated
    <3> QED BY <3>1, SameOperators DEF SetVariablesSpec!Next, SetVariablesSpec!Combines, Vals
  <2> QED BY <1>6, <2>3, <2>4
<1>7. ASSUME NEW d \in Var, NEW x \in Var, NEW y \in Var,
             sm_DIFFERENCE(d, x, y) \/ sm_SYMDIFF(d, x, y)
      PROVE  SetInv' /\ SetVariablesSpec!Next
  <2>1. CASE sm_DIFFERENCE(d, x, y)
    <3>1. SetInv' /\ SetVariablesSpec!Combine(<<"difference", x, y>>, d, {x, y},
                                              Vals[x] \ Vals[y])
      BY <2>1, DifferenceSimulated DEF Vals
    <3>2. SetVariablesSpec!Combines
      BY <3>1 DEF SetVariablesSpec!Combines, Vals
    <3> QED BY <3>1, <3>2 DEF SetVariablesSpec!Next
  <2>2. CASE sm_SYMDIFF(d, x, y)
    <3>1. SetInv' /\ SetVariablesSpec!Combine(<<"symdiff", x, y>>, d, {x, y},
             (Vals[x] \cup Vals[y]) \ (Vals[x] \cap Vals[y]))
      BY <2>2, SymdiffSimulated DEF Vals
    <3>2. SetVariablesSpec!Combines
      BY <3>1 DEF SetVariablesSpec!Combines, Vals
    <3> QED BY <3>1, <3>2 DEF SetVariablesSpec!Next
  <2> QED BY <1>7, <2>1, <2>2
<1> QED BY <1>1, <1>2, <1>3, <1>4, <1>5, <1>6, <1>7 DEF SetNext

LEMMA FitAgrees ==
  ASSUME SetInv
  PROVE  RepsAgree
BY DEF SetInv, RepsAgree, Fit

\* Variables refer to objects on the heap, and an object goes by the least of the
\* variables that refer to it, whatever is bound, copied and unbound.
THEOREM SetTypes == SetSpec => []SetTypeOK
<1>1. SetInit => SetInv
  BY SetStarts
<1>2. SetInv /\ [SetNext]_sVars => SetInv'
  BY SetStep
<1>3. SetInv => SetTypeOK
  BY DEF SetInv
<1> QED BY <1>1, <1>2, <1>3, PTL DEF SetSpec

\* The two representations of every object say the same, whatever the program does
\* with its variables and whatever they share.
THEOREM RepsAlwaysAgree == SetSpec => []RepsAgree
<1>1. SetInit => SetInv
  BY SetStarts
<1>2. SetInv /\ [SetNext]_sVars => SetInv'
  BY SetStep
<1>3. SetInv => RepsAgree
  BY FitAgrees
<1> QED BY <1>1, <1>2, <1>3, PTL DEF SetSpec

\* Every command computes the operation of its name on sets and changes no variable
\* but the one it names.
THEOREM SetCommandsAreOperations == SetSpec => CommandsAreSetOperations
<1>1. SetInit => SetInv /\ SetVariablesSpec!Init
  BY SetStarts
<1>2. SetInv /\ [SetNext]_sVars => SetInv'
  BY SetStep
<1>3. SetInv /\ [SetNext]_sVars =>
        [SetVariablesSpec!Next]_<<[x \in Var |-> ValueOf(x)], sAnswer>>
  BY SetStep DEF Vals
<1> QED BY <1>1, <1>2, <1>3, PTL DEF SetSpec, CommandsAreSetOperations, SetVariablesSpec!Spec


-----------------------------------------------------------------------------
(* Operators *)

LEMMA MaxZero ==
  ASSUME NEW x \in Int
  PROVE  Max({x, 0}) = IF x > 0 THEN x ELSE 0
BY DEF Max

LEMMA MinPair ==
  ASSUME NEW x \in Int, NEW y \in Int
  PROVE  Min({x, y}) = IF x < y THEN x ELSE y
BY DEF Min

\* A part of a sequence that lies inside of it.
LEMMA Part ==
  ASSUME NEW s \in Seq(Item), NEW m \in Nat \ {0}, NEW n \in Int, n <= Len(s)
  PROVE  /\ SubSeq(s, m, n) \in Seq(Item)
         /\ Len(SubSeq(s, m, n)) = IF m <= n THEN n - m + 1 ELSE 0
         /\ \A i \in 1 .. Len(SubSeq(s, m, n)) : SubSeq(s, m, n)[i] = s[m + i - 1]
OBVIOUS

LEMMA Reversed ==
  ASSUME NEW s \in Seq(Item)
  PROVE  /\ Reverse(s) \in Seq(Item)
         /\ Len(Reverse(s)) = Len(s)
         /\ \A i \in 1 .. Len(s) : Reverse(s)[i] = s[Len(s) - i + 1]
BY DEF Reverse

\* Dropping the last count items, when there are so many, or all of one or two.
LEMMA Drop ==
  ASSUME NEW s \in Seq(Item), NEW first \in Int, NEW count \in Nat,
         first < Len(s) \/ first <= 0, Max({first, 0}) + count <= Len(s)
  PROVE  /\ ListDrop(s, first, count) \in Seq(Item)
         /\ first <= 0 /\ count = Len(s) => ListDrop(s, first, count) = <<>>
<1>1. PICK f \in Nat : f = Max({first, 0}) /\ (first <= 0 => f = 0)
  <2>1. Max({first, 0}) = IF first > 0 THEN first ELSE 0
    BY MaxZero
  <2> QED BY <2>1
<1>2. f + count <= Len(s) /\ f <= Len(s) /\ f + count + 1 \in Nat \ {0}
  <2>1. f + count <= Len(s)
    BY <1>1
  <2> QED BY <2>1
<1>3. SubSeq(s, 1, f) \in Seq(Item) /\ Len(SubSeq(s, 1, f)) = IF 1 <= f THEN f - 1 + 1 ELSE 0
  <2>1. 1 \in Nat \ {0} /\ f \in Int
    OBVIOUS
  <2> QED BY <2>1, <1>2, Part
<1>4. /\ SubSeq(s, f + count + 1, Len(s)) \in Seq(Item)
      /\ Len(SubSeq(s, f + count + 1, Len(s))) =
           IF f + count + 1 <= Len(s) THEN Len(s) - (f + count + 1) + 1 ELSE 0
  <2>1. Len(s) \in Int /\ Len(s) <= Len(s)
    OBVIOUS
  <2> QED BY <2>1, <1>2, Part
<1>5. ListDrop(s, first, count) = SubSeq(s, 1, f) \o SubSeq(s, f + count + 1, Len(s))
  BY <1>1 DEF ListDrop
<1>6. SubSeq(s, 1, f) \o SubSeq(s, f + count + 1, Len(s)) \in Seq(Item)
  BY <1>3, <1>4
<1>7. ASSUME first <= 0, count = Len(s)
      PROVE  SubSeq(s, 1, f) \o SubSeq(s, f + count + 1, Len(s)) = <<>>
  <2>1. Len(SubSeq(s, 1, f)) = 0 /\ Len(SubSeq(s, f + count + 1, Len(s))) = 0
    <3>1. f = 0
      BY <1>1, <1>7
    <3> QED BY <1>3, <1>4, <1>7, <3>1
  <2> QED BY <2>1, <1>3, <1>4
<1> QED BY <1>5, <1>6, <1>7

-----------------------------------------------------------------------------
(* The lists and the index *)

Ordered(s) == /\ s \in Queue
              /\ s.at <= Len(s.queue)
              /\ s.unget /= <<>> => s.at = 0

LEMMA ShiftOrdered ==
  ASSUME NEW s, Ordered(s)
  PROVE  /\ Ordered(qshift(s)) /\ qshift(s).unget = s.unget
         /\ qsize(qshift(s)) = qsize(s)
         /\ qshift(s).at = Len(qshift(s).queue) => qshift(s).append = <<>>
<1>1. CASE s.at >= Len(s.queue) /\ s.append /= <<>>
  <2> DEFINE t == [unget |-> s.unget, queue |-> s.append, append |-> <<>>, at |-> 0]
  <2>1. s \in [unget : Seq(Item), queue : Seq(Item), append : Seq(Item), at : Nat]
    BY DEF Ordered, Queue
  <2>2. qshift(s) = t
    <3>1. qshift(s) = [s EXCEPT !.at = 0, !.queue = s.append, !.append = <<>>]
      BY <1>1 DEF qshift
    <3> QED BY <2>1, <3>1
  <2>3. t \in Queue
    BY <2>1 DEF Queue
  <2>4. /\ Len(s.append) # 0 /\ s.at = Len(s.queue)
        /\ Len(s.append) \in Nat /\ Len(s.unget) \in Nat /\ Len(s.queue) \in Nat
    BY <1>1 DEF Ordered, Queue
  <2>5. t.unget = s.unget /\ t.append = <<>> /\ t.at = 0 /\ t.queue = s.append
    OBVIOUS
  <2> HIDE DEF t
  <2>6. Ordered(t)
    BY <2>3, <2>4, <2>5 DEF Ordered
  <2>7. qsize(t) = qsize(s)
    <3>1. Len(<<>>) = 0
      OBVIOUS
    <3>2. qsize(t) = Len(s.unget) + Len(s.append) + 0 - 0
      BY <2>5, <3>1 DEF qsize
    <3>3. s.at \in Nat
      BY <2>4
    <3>4. qsize(s) = Len(s.unget) + Len(s.append)
      <4>1. ASSUME NEW a \in Nat, NEW b \in Nat, NEW c \in Nat, NEW d \in Nat, d = b
            PROVE  a + b + c - d = a + c
        BY <4>1
      <4> DEFINE a == Len(s.unget)
                 b == Len(s.queue)
                 c == Len(s.append)
                 d == s.at
      <4>2. a \in Nat /\ b \in Nat /\ c \in Nat /\ d \in Nat /\ d = b
        BY <2>4, <3>3
      <4>3. qsize(s) = a + b + c - d
        BY DEF qsize
      <4> HIDE DEF a, b, c, d
      <4>4. qsize(s) = a + c
        BY <4>2, <4>3
      <4> QED BY <4>4 DEF a, c
    <3> QED BY <2>4, <3>2, <3>4
  <2> QED BY <2>2, <2>5, <2>6, <2>7
<1>2. CASE ~ (s.at >= Len(s.queue) /\ s.append /= <<>>)
  BY <1>2 DEF Ordered, Queue, qshift
<1> QED BY <1>1, <1>2

LEMMA FrontPart ==
  ASSUME NEW b \in Seq(Item), NEW at \in Nat, at <= Len(b), NEW n \in Nat
  PROVE  LET r == SubSeq(b, at + 1, Min({at + n, Len(b)}))
         IN  /\ r \in Seq(Item)
             /\ Len(r) = IF at + n < Len(b) THEN n ELSE Len(b) - at
             /\ \A i \in 1 .. Len(r) : r[i] = b[at + i]
<1>1. PICK e \in Nat : /\ e = Min({at + n, Len(b)})
                       /\ e = IF at + n < Len(b) THEN at + n ELSE Len(b)
  BY MinPair
<1>2. at <= e /\ e <= Len(b)
  BY <1>1
<1>3. /\ SubSeq(b, at + 1, e) \in Seq(Item)
      /\ Len(SubSeq(b, at + 1, e)) = e - at
      /\ \A i \in 1 .. Len(SubSeq(b, at + 1, e)) : SubSeq(b, at + 1, e)[i] = b[at + i]
  <2>1. SubSeq(b, at + 1, e) \in Seq(Item)
    BY <1>2
  <2>2. Len(SubSeq(b, at + 1, e)) = e - at
    BY <1>2
  <2>3. ASSUME NEW i \in 1 .. e - at PROVE SubSeq(b, at + 1, e)[i] = b[at + i]
    BY <1>2
  <2> QED BY <2>1, <2>2, <2>3
<1>4. Len(SubSeq(b, at + 1, e)) = IF at + n < Len(b) THEN n ELSE Len(b) - at
  BY <1>1, <1>3
<1> QED BY <1>1, <1>3, <1>4

LEMMA BufferPart ==
  ASSUME NEW s, Ordered(s), NEW n \in Nat
  PROVE  /\ FromBuffer(s, n) \in Seq(Item)
         /\ Len(FromBuffer(s, n)) = IF s.at + n < Len(s.queue) THEN n ELSE Len(s.queue) - s.at
         /\ \A i \in 1 .. Len(FromBuffer(s, n)) : FromBuffer(s, n)[i] = s.queue[s.at + i]
<1>1. s.queue \in Seq(Item) /\ s.at \in Nat /\ s.at <= Len(s.queue)
  BY DEF Ordered, Queue
<1> QED BY <1>1, FrontPart DEF FromBuffer

\* Moving the index over what was read.
LEMMA MoveOrdered ==
  ASSUME NEW s, Ordered(s), s.unget = <<>>, NEW k \in Nat, s.at + k <= Len(s.queue)
  PROVE  /\ Ordered([s EXCEPT !.at = @ + k])
         /\ [s EXCEPT !.at = @ + k].unget = <<>>
BY DEF Ordered, Queue

\* Reading from the buffer when nothing is on the unget stack.
LEMMA PullOrdered ==
  ASSUME NEW s, Ordered(s), s.unget = <<>>, NEW n \in Nat
  PROVE  /\ Ordered(Pull(s, n).q) /\ Pull(s, n).q.unget = <<>>
         /\ Pull(s, n).value \in Seq(Item)
<1>1. PICK t : t = qshift(s) /\ Ordered(t) /\ t.unget = <<>>
  BY ShiftOrdered
<1>2. PICK r \in Seq(Item) : r = FromBuffer(t, n) /\ t.at + Len(r) <= Len(t.queue)
  <2>1. t.queue \in Seq(Item) /\ t.at \in Nat /\ t.at <= Len(t.queue)
    BY <1>1 DEF Ordered, Queue
  <2>2. /\ FromBuffer(t, n) \in Seq(Item)
        /\ Len(FromBuffer(t, n)) = IF t.at + n < Len(t.queue) THEN n ELSE Len(t.queue) - t.at
    BY <1>1, BufferPart
  <2> QED BY <2>1, <2>2
<1>3. PICK m : m = [t EXCEPT !.at = @ + Len(r)] /\ Ordered(m) /\ m.unget = <<>>
  <2>1. Len(r) \in Nat
    BY <1>2
  <2> QED BY <1>1, <1>2, <2>1, MoveOrdered
<1>4. Pull(s, n) = [value |-> r, q |-> qshift(m)]
  BY <1>1, <1>2, <1>3 DEF Pull
<1>5. Ordered(qshift(m)) /\ qshift(m).unget = <<>>
  BY <1>3, ShiftOrdered
<1> QED BY <1>2, <1>4, <1>5

\* The request for one item.
LEMMA PeekOneOrdered ==
  ASSUME NEW s, Ordered(s), NEW get \in BOOLEAN, qsize(s) >= 1
  PROVE  Ordered(PeekOne(s, get).q)
<1>1. CASE s.unget /= <<>>
  <2>1. CASE get
    <3>1. Front(s.unget) \in Seq(Item)
      BY <1>1 DEF Ordered, Queue, Front
    <3>2. Ordered([s EXCEPT !.unget = Front(@)])
      BY <1>1, <3>1 DEF Ordered, Queue
    <3> QED BY <1>1, <2>1, <3>2 DEF PeekOne
  <2>2. CASE ~ get
    BY <1>1, <2>2 DEF PeekOne
  <2> QED BY <2>1, <2>2
<1>2. CASE s.unget = <<>>
  <2>1. PICK t : t = qshift(s) /\ Ordered(t) /\ t.unget = <<>>
                 /\ (t.at = Len(t.queue) => t.append = <<>>) /\ qsize(t) = qsize(s)
    BY <1>2, ShiftOrdered
  <2>2. CASE get
    <3>1. t.at + 1 <= Len(t.queue)
      <4>1. /\ Len(t.queue) \in Nat /\ t.at \in Nat /\ t.at <= Len(t.queue)
            /\ Len(t.unget) = 0 /\ (t.append = <<>> => Len(t.append) = 0)
        BY <2>1 DEF Ordered, Queue
      <4>2. Len(t.unget) + Len(t.queue) + Len(t.append) - t.at >= 1
        BY <2>1 DEF qsize
      <4> QED BY <2>1, <4>1, <4>2
    <3>2. Ordered([t EXCEPT !.at = @ + 1]) /\ [t EXCEPT !.at = @ + 1].unget = <<>>
      BY <2>1, <3>1, MoveOrdered
    <3>3. Ordered(qshift([t EXCEPT !.at = @ + 1]))
      BY <3>2, ShiftOrdered
    <3>4. PeekOne(s, get).q = qshift([t EXCEPT !.at = @ + 1])
      BY <1>2, <2>1, <2>2 DEF PeekOne
    <3> QED BY <3>3, <3>4
  <2>3. CASE ~ get
    BY <1>2, <2>1, <2>3 DEF PeekOne
  <2> QED BY <2>2, <2>3
<1> QED BY <1>1, <1>2

\* What the stack gives to a request for several items, and what remains of it.
LEMMA FromStack ==
  ASSUME NEW s \in Seq(Item), NEW n \in Nat, n > 1
  PROVE  LET u == SubSeq(Reverse(s), 1, Min({n, Len(s)}))
             r == ListDrop(s, Len(s) - 1 - Len(u), Len(u))
         IN  /\ u \in Seq(Item)
             /\ Len(u) = IF n < Len(s) THEN n ELSE Len(s)
             /\ Len(u) < n => r = <<>>
             /\ s = <<>> => r = <<>>
             /\ r \in Seq(Item)
<1>1. PICK e \in Nat : e = Min({n, Len(s)}) /\ e = IF n < Len(s) THEN n ELSE Len(s)
  <2>1. Len(s) \in Nat
    OBVIOUS
  <2> QED BY <2>1, MinPair
<1>2. PICK u \in Seq(Item) : u = SubSeq(Reverse(s), 1, e) /\ Len(u) = e
  <2>1. 1 \in Nat \ {0} /\ e \in Int /\ e <= Len(Reverse(s)) /\ Reverse(s) \in Seq(Item)
    BY <1>1, Reversed
  <2>2. SubSeq(Reverse(s), 1, e) \in Seq(Item)
        /\ Len(SubSeq(Reverse(s), 1, e)) = IF 1 <= e THEN e - 1 + 1 ELSE 0
    BY <2>1, Part
  <2>3. Len(SubSeq(Reverse(s), 1, e)) = e
    BY <2>2
  <2> DEFINE v == SubSeq(Reverse(s), 1, e)
  <2>4. v \in Seq(Item) /\ Len(v) = e
    BY <2>2, <2>3
  <2> HIDE DEF v
  <2>5. \E u \in Seq(Item) : u = v /\ Len(u) = e
    BY <2>4
  <2> QED BY <2>5 DEF v
<1>3. PICK j \in Int : j = Len(s) - 1 - Len(u)
  <2>1. Len(s) \in Int /\ Len(u) \in Int
    BY <1>1, <1>2
  <2>2. Len(s) - 1 - Len(u) \in Int
    BY <2>1
  <2> QED BY <2>2
<1>4. Max({j, 0}) + Len(u) <= Len(s) /\ (j < Len(s) \/ j <= 0)
  <2>1. Max({j, 0}) = IF j > 0 THEN j ELSE 0
    BY <1>3, MaxZero
  <2>2. Len(s) \in Nat /\ Len(u) \in Nat /\ Len(u) <= Len(s) /\ (Len(u) = 0 => n < 1 \/ Len(s) = 0)
    BY <1>1, <1>2
  <2> QED BY <2>1, <2>2, <1>3
<1>5. /\ ListDrop(s, j, Len(u)) \in Seq(Item)
      /\ j <= 0 /\ Len(u) = Len(s) => ListDrop(s, j, Len(u)) = <<>>
  <2>1. Len(u) \in Nat
    BY <1>2
  <2> QED BY <1>3, <1>4, <2>1, Drop
<1>6. Len(u) < n => j <= 0 /\ Len(u) = Len(s)
  BY <1>1, <1>2, <1>3
<1>7. s = <<>> => Len(u) < n
  <2>1. s = <<>> => Len(s) = 0
    OBVIOUS
  <2> QED BY <1>1, <1>2, <2>1
<1> QED BY <1>1, <1>2, <1>3, <1>5, <1>6, <1>7

\* The request for several items.
LEMMA PeekManyOrdered ==
  ASSUME NEW s, Ordered(s), NEW n \in Nat, n > 1, NEW get \in BOOLEAN
  PROVE  Ordered(PeekMany(s, n, get).q)
<1>1. s.unget \in Seq(Item) /\ s \in Queue
  BY DEF Ordered, Queue
<1>2. PICK u \in Seq(Item) :
        /\ u = SubSeq(Reverse(s.unget), 1, Min({n, Len(s.unget)}))
        /\ Len(u) <= n
  <2> DEFINE v == SubSeq(Reverse(s.unget), 1, Min({n, Len(s.unget)}))
  <2>1. Len(s.unget) \in Nat
    BY <1>1
  <2>2. v \in Seq(Item) /\ Len(v) = IF n < Len(s.unget) THEN n ELSE Len(s.unget)
    BY <1>1, FromStack
  <2>3. Len(v) <= n
    BY <2>1, <2>2
  <2> HIDE DEF v
  <2>4. \E u \in Seq(Item) : u = v /\ Len(u) <= n
    BY <2>2, <2>3
  <2> QED BY <2>4 DEF v
<1>3. PICK r \in Seq(Item) :
        /\ r = ListDrop(s.unget, Len(s.unget) - 1 - Len(u), Len(u))
        /\ Len(u) < n => r = <<>>
        /\ s.unget = <<>> => r = <<>>
  BY <1>1, <1>2, FromStack
<1>4. PICK t : /\ t = IF get THEN [s EXCEPT !.unget = r] ELSE s
               /\ Ordered(t) /\ (get => t.unget = r)
  <2>1. Ordered([s EXCEPT !.unget = r]) /\ [s EXCEPT !.unget = r].unget = r
    BY <1>1, <1>3 DEF Ordered, Queue
  <2> QED BY <2>1
<1>5. t = IF get THEN [s EXCEPT !.unget =
                         ListDrop(@, Len(s.unget) - 1 - Len(u), Len(u))] ELSE s
  BY <1>1, <1>3, <1>4 DEF Queue
<1>6. CASE Len(u) = n
  <2>1. PeekMany(s, n, get).q = t
    BY <1>2, <1>5, <1>6 DEF PeekMany
  <2> QED BY <1>4, <2>1
<1>7. CASE Len(u) /= n /\ get
  <2>1. n - Len(u) \in Nat /\ t.unget = <<>>
    BY <1>2, <1>3, <1>4, <1>7
  <2>2. PICK a : /\ a = Pull(t, n - Len(u))
                 /\ Ordered(a.q) /\ a.q.unget = <<>> /\ a.value \in Seq(Item)
    BY <1>4, <2>1, PullOrdered
  <2>3. CASE Len(u) + Len(a.value) < n
    <3>1. n - Len(u) - Len(a.value) \in Nat
      BY <1>2, <2>1, <2>2, <2>3
    <3>2. Ordered(Pull(a.q, n - Len(u) - Len(a.value)).q)
      BY <2>2, <3>1, PullOrdered
    <3>3. PeekMany(s, n, get).q = Pull(a.q, n - Len(u) - Len(a.value)).q
      BY <1>2, <1>5, <1>7, <2>2, <2>3 DEF PeekMany
    <3> QED BY <3>2, <3>3
  <2>4. CASE ~ (Len(u) + Len(a.value) < n)
    <3>1. PeekMany(s, n, get).q = a.q
      BY <1>2, <1>5, <1>7, <2>2, <2>4 DEF PeekMany
    <3> QED BY <2>2, <3>1
  <2> QED BY <2>3, <2>4
<1>8. CASE Len(u) /= n /\ ~ get
  <2>1. PeekMany(s, n, get).q = qshift(s)
    BY <1>2, <1>8 DEF PeekMany
  <2> QED BY <2>1, ShiftOrdered
<1> QED BY <1>6, <1>7, <1>8

-----------------------------------------------------------------------------
(* Every method keeps the shape *)

\* The inductive invariant: there is no queue, or its lists are ordered.
QueueInv == q = NoQueue \/ Ordered(q)

LEMMA EmptyOrdered == Ordered(qEmpty)
BY DEF Ordered, Queue, qEmpty

LEMMA PutOrdered ==
  ASSUME NEW s, Ordered(s), NEW new \in Seq(Item)
  PROVE  Ordered([s EXCEPT !.append = @ \o new])
<1>1. s \in [unget : Seq(Item), queue : Seq(Item), append : Seq(Item), at : Nat]
  BY DEF Ordered, Queue
<1> DEFINE a == s.append \o new
<1>2. a \in Seq(Item)
  <2>1. \A v, w \in Seq(Item) : v \o w \in Seq(Item)
    OBVIOUS
  <2> QED BY <1>1, <2>1
<1> HIDE DEF a
<1> DEFINE t == [s EXCEPT !.append = a]
<1>3. t \in Queue /\ t.unget = s.unget /\ t.queue = s.queue /\ t.at = s.at
  BY <1>1, <1>2 DEF Queue
<1>4. t = [s EXCEPT !.append = @ \o new]
  BY <1>1 DEF a
<1> HIDE DEF t
<1>5. Ordered(t)
  BY <1>3 DEF Ordered
<1> QED BY <1>4, <1>5

LEMMA Replaced ==
  ASSUME NEW s, Ordered(s), NEW u \in Seq(Item), NEW b \in Seq(Item), NEW at \in Nat,
         at <= Len(b), u /= <<>> => at = 0
  PROVE  Ordered([s EXCEPT !.unget = u, !.queue = b, !.at = at])
<1> DEFINE t == [s EXCEPT !.unget = u, !.queue = b, !.at = at]
<1>1. s \in [unget : Seq(Item), queue : Seq(Item), append : Seq(Item), at : Nat]
  BY DEF Ordered, Queue
<1>2. t \in Queue /\ t.unget = u /\ t.queue = b /\ t.at = at
  BY <1>1 DEF Queue
<1> HIDE DEF t
<1>3. Ordered(t)
  BY <1>2 DEF Ordered
<1> QED BY <1>3 DEF t

LEMMA UngetOrdered ==
  ASSUME NEW s, Ordered(s), NEW item \in Item
  PROVE  /\ s.at = 0 => Ordered([s EXCEPT !.unget = Append(@, item)])
         /\ s.at > 0 => Ordered([s EXCEPT !.at = @ - 1, !.queue[s.at] = item])
<1>1. s \in [unget : Seq(Item), queue : Seq(Item), append : Seq(Item), at : Nat]
  BY DEF Ordered, Queue
<1>2. ASSUME s.at = 0
      PROVE  Ordered([s EXCEPT !.unget = Append(@, item)])
  <2> DEFINE u == Append(s.unget, item)
  <2>1. u \in Seq(Item)
    BY <1>1
  <2> HIDE DEF u
  <2>2. s.queue \in Seq(Item) /\ 0 <= Len(s.queue) /\ 0 \in Nat
    BY <1>1
  <2>3. Ordered([s EXCEPT !.unget = u, !.queue = s.queue, !.at = 0])
    BY <2>1, <2>2, Replaced
  <2>4. [s EXCEPT !.unget = u, !.queue = s.queue, !.at = 0] = [s EXCEPT !.unget = u]
    BY <1>1, <1>2
  <2>5. [s EXCEPT !.unget = u] = [s EXCEPT !.unget = Append(@, item)]
    BY <1>1 DEF u
  <2> QED BY <2>3, <2>4, <2>5
<1>3. ASSUME s.at > 0
      PROVE  Ordered([s EXCEPT !.at = @ - 1, !.queue[s.at] = item])
  <2>1. s.at \in 1 .. Len(s.queue)
    BY <1>1, <1>3 DEF Ordered
  <2>2. /\ [s.queue EXCEPT ![s.at] = item] \in Seq(Item)
        /\ Len([s.queue EXCEPT ![s.at] = item]) = Len(s.queue)
    BY <1>1, <2>1
  <2>3. PICK b \in Seq(Item) : b = [s.queue EXCEPT ![s.at] = item] /\ Len(b) = Len(s.queue)
    BY <2>2
  <2>4. PICK m \in Nat : m = s.at - 1 /\ m <= Len(b)
    BY <1>1, <2>1, <2>3
  <2>5. s.unget = <<>> /\ s.unget \in Seq(Item)
    BY <1>1, <1>3 DEF Ordered
  <2>6. Ordered([s EXCEPT !.unget = s.unget, !.queue = b, !.at = m])
    BY <2>4, <2>5, Replaced
  <2>7. [s EXCEPT !.unget = s.unget, !.queue = b, !.at = m] = [s EXCEPT !.at = m, !.queue = b]
    BY <1>1
  <2>8. [s EXCEPT !.at = m, !.queue = b] = [s EXCEPT !.at = @ - 1, !.queue[s.at] = item]
    BY <1>1, <2>3, <2>4
  <2> QED BY <2>6, <2>7, <2>8
<1> QED BY <1>2, <1>3

LEMMA QueueStep == QueueInv /\ [QueueNext]_qVars => QueueInv'
<1> SUFFICES ASSUME QueueInv, [QueueNext]_qVars PROVE QueueInv'
  OBVIOUS
<1>1. CASE qu_new \/ qum_CLEAR
  BY <1>1, EmptyOrdered DEF qu_new, qum_CLEAR, QueueInv
<1>2. CASE qum_DESTROY
  BY <1>2 DEF qum_DESTROY, QueueInv
<1>3. ASSUME NEW n \in 0 .. MaxItems + 1, NEW get \in BOOLEAN, qum_PEEK(n, get)
      PROVE  QueueInv'
  <2>1. Ordered(q)
    BY <1>3 DEF qum_PEEK, QueueInv
  <2>2. CASE n < 1 \/ n > qsize(q)
    BY <1>3, <2>1, <2>2 DEF qum_PEEK, QueueInv
  <2>3. CASE ~ (n < 1 \/ n > qsize(q))
    <3>1. n \in Nat
      BY QueueAssumption
    <3>2. CASE n = 1
      <4>1. q' = PeekOne(q, get).q
        BY <1>3, <2>3, <3>2 DEF qum_PEEK
      <4>2. qsize(q) >= 1
        <5>1. qsize(q) \in Int
          BY <2>1 DEF qsize, Ordered, Queue
        <5> QED BY <2>3, <3>2, <5>1
      <4> QED BY <2>1, <4>1, <4>2, PeekOneOrdered DEF QueueInv
    <3>3. CASE n /= 1
      <4>1. q' = PeekMany(q, n, get).q
        BY <1>3, <2>3, <3>3 DEF qum_PEEK
      <4>2. n > 1
        BY <2>3, <3>1, <3>3
      <4> QED BY <2>1, <3>1, <4>1, <4>2, PeekManyOrdered DEF QueueInv
    <3> QED BY <3>2, <3>3
  <2> QED BY <2>2, <2>3
<1>4. ASSUME NEW new \in Seq(Item), qum_PUT(new)
      PROVE  QueueInv'
  BY <1>4, PutOrdered DEF qum_PUT, QueueInv
<1>5. ASSUME NEW item \in Item, qum_UNGET(item)
      PROVE  QueueInv'
  <2>1. q # NoQueue /\ Ordered(q)
    BY <1>5 DEF qum_UNGET, QueueInv
  <2>2. \/ q.at = 0 /\ q' = [q EXCEPT !.unget = Append(@, item)]
        \/ q.at > 0 /\ q' = [q EXCEPT !.at = @ - 1, !.queue[q.at] = item]
    BY <1>5 DEF qum_UNGET
  <2>3. Ordered(q')
    <3>1. /\ q.at = 0 => Ordered([q EXCEPT !.unget = Append(@, item)])
          /\ q.at > 0 => Ordered([q EXCEPT !.at = @ - 1, !.queue[q.at] = item])
      BY <2>1, UngetOrdered
    <3> QED BY <2>2, <3>1
  <2> QED BY <2>3 DEF QueueInv
<1>6. CASE qum_SIZE \/ UNCHANGED qVars
  BY <1>6 DEF qum_SIZE, QueueInv, qVars
<1>7. \A x, y \in Item : <<x>> \in Seq(Item) /\ <<x, y>> \in Seq(Item)
  OBVIOUS
<1> QED BY <1>1, <1>2, <1>3, <1>4, <1>5, <1>6, <1>7 DEF QueueNext, qums_objcmd

\* In every reachable state there is no queue, or three lists of items and an
\* index into the buffer, with the buffer untouched while items are put back.
THEOREM QueueInvariant == QueueSpec => []QueueInv
<1>1. QueueInit => QueueInv
  BY DEF QueueInit, QueueInv
<1> QED BY <1>1, QueueStep, PTL DEF QueueSpec

\* The variables of a queue have their types: the lists hold items only, and
\* get, the swap of the buffers and unget keep the index a natural number.
THEOREM QueueTypes == QueueSpec => []QueueTypeOK
<1>1. QueueInv => QueueTypeOK
  BY DEF QueueInv, QueueTypeOK, Ordered
<1> QED BY <1>1, QueueInvariant, PTL

\* Reading never leaves the buffer, and unget uses the room in front of the
\* buffer first and get the unget stack: never both hold something.
THEOREM QueueOrder == QueueSpec => []BufferOrder
<1>1. QueueInv => BufferOrder
  BY DEF QueueInv, BufferOrder, Ordered
<1> QED BY <1>1, QueueInvariant, PTL

-----------------------------------------------------------------------------
(* Sequences *)

\* A sequence that begins with v is v and the rest.
LEMMA Split ==
  ASSUME NEW v \in Seq(Item), NEW r \in Seq(Item)
  PROVE  LET c == v \o r
         IN  v = SubSeq(c, 1, Len(v)) /\ r = SubSeq(c, Len(v) + 1, Len(c))
<1> DEFINE c == v \o r
<1>1. /\ c \in Seq(Item) /\ Len(c) = Len(v) + Len(r)
      /\ Len(v) \in Nat /\ Len(r) \in Nat
      /\ \A i \in 1 .. Len(v) + Len(r) : c[i] = IF i <= Len(v) THEN v[i] ELSE r[i - Len(v)]
  BY ConcatProperties
<1> HIDE DEF c
<1>2. v = SubSeq(c, 1, Len(v))
  <2>1. /\ SubSeq(c, 1, Len(v)) \in Seq(Item) /\ Len(SubSeq(c, 1, Len(v))) = Len(v)
        /\ \A i \in 1 .. Len(v) : SubSeq(c, 1, Len(v))[i] = c[i]
    BY <1>1
  <2>2. \A i \in 1 .. Len(v) : v[i] = SubSeq(c, 1, Len(v))[i]
    BY <1>1, <2>1
  <2> QED BY <2>1, <2>2, SeqEqual
<1>3. r = SubSeq(c, Len(v) + 1, Len(c))
  <2>1. /\ SubSeq(c, Len(v) + 1, Len(c)) \in Seq(Item)
        /\ Len(SubSeq(c, Len(v) + 1, Len(c))) = Len(r)
        /\ \A i \in 1 .. Len(r) : SubSeq(c, Len(v) + 1, Len(c))[i] = c[Len(v) + i]
    BY <1>1
  <2>2. ASSUME NEW i \in 1 .. Len(r) PROVE r[i] = SubSeq(c, Len(v) + 1, Len(c))[i]
    <3>1. /\ Len(v) + i \in 1 .. Len(v) + Len(r) /\ ~(Len(v) + i <= Len(v))
          /\ Len(v) + i - Len(v) = i
      BY <1>1
    <3>2. c[Len(v) + i] = r[Len(v) + i - Len(v)]
      BY <1>1, <3>1
    <3> QED BY <2>1, <3>1, <3>2
  <2> QED BY <2>1, <2>2, SeqEqual
<1> QED BY <1>2, <1>3 DEF c

\* A sequence, cut anywhere.
LEMMA Cut ==
  ASSUME NEW s \in Seq(Item), NEW k \in Nat, k <= Len(s)
  PROVE  /\ SubSeq(s, 1, k) \in Seq(Item) /\ Len(SubSeq(s, 1, k)) = k
         /\ SubSeq(s, k + 1, Len(s)) \in Seq(Item)
         /\ Len(SubSeq(s, k + 1, Len(s))) = Len(s) - k
         /\ s = SubSeq(s, 1, k) \o SubSeq(s, k + 1, Len(s))
<1>1. /\ SubSeq(s, 1, k) \in Seq(Item) /\ Len(SubSeq(s, 1, k)) = k
      /\ SubSeq(s, k + 1, Len(s)) \in Seq(Item)
      /\ Len(SubSeq(s, k + 1, Len(s))) = Len(s) - k
  OBVIOUS
<1>2. 1 \in 1 .. Len(s) + 1 /\ k \in 1 - 1 .. Len(s) /\ Len(s) \in k .. Len(s)
  OBVIOUS
<1>3. SubSeq(s, 1, k) \o SubSeq(s, k + 1, Len(s)) = SubSeq(s, 1, Len(s))
  BY <1>2, ConcatAdjacentSubSeq
<1> QED BY <1>1, <1>3, SubSeqFull

LEMMA Associative ==
  \A a, b, c \in Seq(Item) : /\ (a \o b) \o c = a \o (b \o c)
                             /\ a \o b \in Seq(Item) /\ Len(a \o b) = Len(a) + Len(b)
BY ConcatAssociative, ConcatProperties

\* Three parts and the rest.
Regrouped(u, v, w, i) == u \o ((v \o w) \o i) = ((u \o v) \o w) \o i
Sized(u, v, w) == /\ (u \o v) \o w \in Seq(Item)
                  /\ Len((u \o v) \o w) = Len(u) + (Len(v) + Len(w))

LEMMA ThreeParts ==
  \A u, v, w, i \in Seq(Item) : Regrouped(u, v, w, i) /\ Sized(u, v, w)
<1> TAKE u, v, w, i \in Seq(Item)
<1>1. v \o w \in Seq(Item) /\ Len(v \o w) = Len(v) + Len(w)
  BY Associative
<1>2. /\ (u \o v) \o w = u \o (v \o w)
      /\ u \o (v \o w) \in Seq(Item) /\ Len(u \o (v \o w)) = Len(u) + Len(v \o w)
  BY <1>1, Associative
<1>3. u \o ((v \o w) \o i) = (u \o (v \o w)) \o i
  <2> DEFINE x == v \o w
  <2>1. x \in Seq(Item)
    BY <1>1
  <2> HIDE DEF x
  <2>2. u \o (x \o i) = (u \o x) \o i
    BY <2>1, Associative, SMTT(20)
  <2> QED BY <2>2 DEF x
<1>4. Regrouped(u, v, w, i)
  <2>1. ((u \o v) \o w) \o i = (u \o (v \o w)) \o i
    BY <1>2
  <2> QED BY <1>3, <2>1 DEF Regrouped
<1>5. Sized(u, v, w)
  BY <1>1, <1>2 DEF Sized
<1> QED BY <1>4, <1>5

\* Writing an item before a rest.
LEMMA WrittenBefore ==
  ASSUME NEW b \in Seq(Item), NEW k \in 1 .. Len(b), NEW x \in Item
  PROVE  LET w == [b EXCEPT ![k] = x]
         IN  SubSeq(w, k, Len(w)) = <<x>> \o SubSeq(b, k + 1, Len(b))
<1> DEFINE w == [b EXCEPT ![k] = x]
<1>1. /\ w \in Seq(Item) /\ Len(w) = Len(b) /\ Len(b) \in Nat
      /\ \A j \in 1 .. Len(b) : w[j] = IF j = k THEN x ELSE b[j]
  BY ExceptSeq
<1> HIDE DEF w
<1>2. SubSeq(w, k, Len(w)) = <<w[k]>> \o SubSeq(w, k + 1, Len(w))
  <2>1. k \in 1 .. Len(w) /\ Len(w) \in k .. Len(w)
    BY <1>1
  <2> QED BY <1>1, <2>1, SubSeqRecursiveFirst
<1>3. SubSeq(w, k + 1, Len(w)) = SubSeq(b, k + 1, Len(b))
  <2>1. k \in Nat /\ k <= Len(b)
    BY <1>1
  <2>2. /\ SubSeq(w, k + 1, Len(b)) \in Seq(Item)
        /\ Len(SubSeq(w, k + 1, Len(b))) = Len(b) - k
        /\ \A i \in 1 .. Len(b) - k : SubSeq(w, k + 1, Len(b))[i] = w[k + i]
    BY <1>1, <2>1
  <2>3. /\ SubSeq(b, k + 1, Len(b)) \in Seq(Item)
        /\ Len(SubSeq(b, k + 1, Len(b))) = Len(b) - k
        /\ \A i \in 1 .. Len(b) - k : SubSeq(b, k + 1, Len(b))[i] = b[k + i]
    BY <1>1, <2>1
  <2>4. \A i \in 1 .. Len(b) - k : w[k + i] = b[k + i]
    BY <1>1, <2>1
  <2> HIDE DEF w
  <2>5. SubSeq(w, k + 1, Len(b)) = SubSeq(b, k + 1, Len(b))
    BY <2>2, <2>3, <2>4, SeqEqual
  <2> QED BY <1>1, <2>5
<1> QED BY <1>1, <1>2, <1>3 DEF w

LEMMA ReverseAppend ==
  ASSUME NEW s \in Seq(Item), NEW x \in Item
  PROVE  Reverse(Append(s, x)) = <<x>> \o Reverse(s)
<1> DEFINE a == Append(s, x)
           r == Reverse(s)
           c == <<x>> \o r
<1>1. /\ a \in Seq(Item) /\ Len(a) = Len(s) + 1 /\ Len(s) \in Nat
      /\ \A i \in 1 .. Len(s) : a[i] = s[i]
      /\ a[Len(s) + 1] = x
  BY AppendProperties
<1>2. /\ r \in Seq(Item) /\ Len(r) = Len(s)
      /\ \A i \in 1 .. Len(s) : r[i] = s[Len(s) - i + 1]
  BY Reversed
<1>3. <<x>> \in Seq(Item) /\ Len(<<x>>) = 1 /\ <<x>>[1] = x
  OBVIOUS
<1>4. /\ c \in Seq(Item) /\ Len(c) = 1 + Len(r)
      /\ \A i \in 1 .. 1 + Len(r) : c[i] = IF i <= 1 THEN <<x>>[i] ELSE r[i - 1]
  <2> HIDE DEF r
  <2> QED BY <1>2, <1>3, ConcatProperties
<1> HIDE DEF a, r, c
<1>5. /\ Reverse(a) \in Seq(Item) /\ Len(Reverse(a)) = Len(a)
      /\ \A i \in 1 .. Len(a) : Reverse(a)[i] = a[Len(a) - i + 1]
  BY <1>1, Reversed
<1>6. \A i \in 1 .. Len(a) : Reverse(a)[i] = c[i]
  <2> TAKE i \in 1 .. Len(a)
  <2>1. CASE i = 1
    BY <1>1, <1>2, <1>3, <1>4, <1>5, <2>1
  <2>2. CASE i > 1
    <3>1. i - 1 \in 1 .. Len(s) /\ Len(a) - i + 1 \in 1 .. Len(s)
      BY <1>1, <2>2
    <3>2. Reverse(a)[i] = s[Len(a) - i + 1]
      BY <1>1, <1>5, <3>1
    <3>3. c[i] = r[i - 1]
      BY <1>1, <1>2, <1>4, <2>2
    <3>4. r[i - 1] = s[Len(s) - (i - 1) + 1]
      BY <1>2, <3>1
    <3>5. Len(s) - (i - 1) + 1 = Len(a) - i + 1
      BY <1>1
    <3> QED BY <3>2, <3>3, <3>4, <3>5
  <2> QED BY <2>1, <2>2
<1>7. Len(Reverse(a)) = Len(a) /\ Len(Reverse(a)) = Len(c)
  BY <1>1, <1>2, <1>4, <1>5
<1>8. Reverse(a) = c
  BY <1>4, <1>5, <1>6, <1>7, SeqEqual
<1> QED BY <1>8 DEF a, c, r

LEMMA ReverseEmpty == Reverse(<<>>) = <<>>
<1> DEFINE e == Reverse(<<>>)
<1>1. <<>> \in Seq(Item) /\ Len(<<>>) = 0
  OBVIOUS
<1>2. e \in Seq(Item) /\ Len(e) = 0
  BY <1>1, Reversed
<1> HIDE DEF e
<1>3. e = <<>>
  BY <1>2, EmptySeq
<1> QED BY <1>3 DEF e

\* The last of a sequence that is not empty is the first of its reverse.
LEMMA ReverseFront ==
  ASSUME NEW s \in Seq(Item), s /= <<>>
  PROVE  /\ Last(s) \in Item /\ Front(s) \in Seq(Item)
         /\ Reverse(s) = <<Last(s)>> \o Reverse(Front(s))
<1>1. PICK f \in Seq(Item), x \in Item : s = Append(f, x)
  BY SequenceEmptyOrAppend
<1>2. /\ Len(s) = Len(f) + 1 /\ Len(f) \in Nat /\ s[Len(f) + 1] = x
      /\ \A i \in 1 .. Len(f) : s[i] = f[i]
  BY <1>1, AppendProperties
<1>3. Last(s) = x
  BY <1>2 DEF Last
<1>4. Front(s) = f
  <2>1. Front(s) = SubSeq(s, 1, Len(f))
    BY <1>2 DEF Front
  <2>2. /\ SubSeq(s, 1, Len(f)) \in Seq(Item) /\ Len(SubSeq(s, 1, Len(f))) = Len(f)
        /\ \A i \in 1 .. Len(f) : SubSeq(s, 1, Len(f))[i] = s[i]
    BY <1>2
  <2>3. \A i \in 1 .. Len(f) : SubSeq(s, 1, Len(f))[i] = f[i]
    BY <1>2, <2>2
  <2> QED BY <2>1, <2>2, <2>3, SeqEqual
<1> QED BY <1>1, <1>3, <1>4, ReverseAppend

-----------------------------------------------------------------------------
(* The items of three lists *)

Buffered(s) == SubSeq(s.queue, s.at + 1, Len(s.queue))
Items(s)    == Reverse(s.unget) \o Buffered(s) \o s.append

LEMMA Parts ==
  ASSUME NEW s, Ordered(s)
  PROVE  /\ Reverse(s.unget) \in Seq(Item) /\ Buffered(s) \in Seq(Item) /\ s.append \in Seq(Item)
         /\ Items(s) \in Seq(Item) /\ Len(Items(s)) = qsize(s)
         /\ Len(Reverse(s.unget)) = Len(s.unget)
         /\ Len(Buffered(s)) = Len(s.queue) - s.at
         /\ Len(s.unget) \in Nat /\ Len(s.queue) \in Nat /\ Len(s.append) \in Nat
         /\ s.at \in Nat /\ s.at <= Len(s.queue)
<1>1. /\ s.unget \in Seq(Item) /\ s.queue \in Seq(Item) /\ s.append \in Seq(Item)
      /\ s.at \in Nat /\ s.at <= Len(s.queue)
  BY DEF Ordered, Queue
<1>2. /\ Reverse(s.unget) \in Seq(Item) /\ Len(Reverse(s.unget)) = Len(s.unget)
      /\ Buffered(s) \in Seq(Item) /\ Len(Buffered(s)) = Len(s.queue) - s.at
  BY <1>1, Reversed, Cut DEF Buffered
<1>3. /\ Reverse(s.unget) \o Buffered(s) \in Seq(Item)
      /\ Len(Reverse(s.unget) \o Buffered(s)) = Len(s.unget) + (Len(s.queue) - s.at)
  BY <1>2, Associative
<1>4. /\ Items(s) \in Seq(Item)
      /\ Len(Items(s)) = Len(s.unget) + (Len(s.queue) - s.at) + Len(s.append)
  BY <1>1, <1>3, Associative DEF Items
<1>5. Len(s.unget) \in Nat /\ Len(s.queue) \in Nat /\ Len(s.append) \in Nat
  BY <1>1
<1>6. Len(Items(s)) = qsize(s)
  <2>1. \A a, b, c, d \in Nat : a + (b - d) + c = a + b + c - d
    OBVIOUS
  <2> DEFINE a == Len(s.unget)
             b == Len(s.queue)
             c == Len(s.append)
             d == s.at
  <2>2. a \in Nat /\ b \in Nat /\ c \in Nat /\ d \in Nat
    BY <1>1, <1>5
  <2>3. Len(Items(s)) = a + (b - d) + c /\ qsize(s) = a + b + c - d
    BY <1>4 DEF qsize
  <2> HIDE DEF a, b, c, d
  <2> QED BY <2>1, <2>2, <2>3
<1> QED BY <1>1, <1>2, <1>4, <1>5, <1>6

\* The swap of the buffers moves no item.
LEMMA ShiftItems ==
  ASSUME NEW s, Ordered(s)
  PROVE  Items(qshift(s)) = Items(s)
<1>1. CASE s.at >= Len(s.queue) /\ s.append /= <<>>
  <2> DEFINE t == qshift(s)
             u == Reverse(s.unget)
  <2>1. t.unget = s.unget /\ t.queue = s.append /\ t.append = <<>> /\ t.at = 0
    <3>1. t = [s EXCEPT !.at = 0, !.queue = s.append, !.append = <<>>]
      BY <1>1 DEF qshift
    <3>2. s \in [unget : Seq(Item), queue : Seq(Item), append : Seq(Item), at : Nat]
      BY DEF Ordered, Queue
    <3> HIDE DEF t
    <3> QED BY <3>1, <3>2
  <2> HIDE DEF t
  <2>2. u \in Seq(Item) /\ s.append \in Seq(Item) /\ Buffered(s) \in Seq(Item)
        /\ Len(Buffered(s)) = 0
    BY <1>1, Parts
  <2>3. Buffered(s) = <<>>
    BY <2>2, EmptySeq
  <2>4. Buffered(t) = s.append
    BY <2>1, <2>2, SubSeqFull DEF Buffered
  <2> HIDE DEF u
  <2>5. Items(t) = u \o s.append \o <<>>
    BY <2>1, <2>4 DEF Items, u
  <2>6. Items(s) = u \o <<>> \o s.append
    BY <2>3 DEF Items, u
  <2>7. u \o s.append \in Seq(Item)
    BY <2>2, ConcatProperties
  <2>8. u \o s.append \o <<>> = u \o s.append /\ u \o <<>> = u
    BY <2>2, <2>7, ConcatEmptySeq
  <2> QED BY <2>5, <2>6, <2>8 DEF t
<1>2. CASE ~ (s.at >= Len(s.queue) /\ s.append /= <<>>)
  BY <1>2 DEF qshift
<1> QED BY <1>1, <1>2

LEMMA EmptyItems == Items(qEmpty) = <<>>
<1>1. Len(Items(qEmpty)) = 0 /\ Items(qEmpty) \in Seq(Item)
  <2>1. qsize(qEmpty) = 0
    BY DEF qsize, qEmpty
  <2> QED BY EmptyOrdered, Parts, <2>1
<1> QED BY <1>1, EmptySeq

LEMMA PutItems ==
  ASSUME NEW s, Ordered(s), NEW new \in Seq(Item)
  PROVE  Items([s EXCEPT !.append = @ \o new]) = Items(s) \o new
<1> DEFINE t == [s EXCEPT !.append = @ \o new]
           l == Reverse(s.unget) \o Buffered(s)
<1>1. t.unget = s.unget /\ t.queue = s.queue /\ t.at = s.at /\ t.append = s.append \o new
  BY DEF Ordered, Queue
<1>2. l \in Seq(Item) /\ s.append \in Seq(Item)
  BY Parts, ConcatProperties
<1> HIDE DEF t
<1>3. Items(t) = l \o (s.append \o new)
  BY <1>1 DEF Items, Buffered
<1>4. Items(s) \o new = (l \o s.append) \o new
  BY DEF Items
<1> HIDE DEF l
<1>5. (l \o s.append) \o new = l \o (s.append \o new)
  BY <1>2, Associative
<1> QED BY <1>3, <1>4, <1>5 DEF t

\* What is put back comes first, wherever it is kept.
LEMMA UngetItems ==
  ASSUME NEW s, Ordered(s), NEW item \in Item
  PROVE  /\ s.at = 0 => Items([s EXCEPT !.unget = Append(@, item)]) = <<item>> \o Items(s)
         /\ s.at > 0 =>
              Items([s EXCEPT !.at = @ - 1, !.queue[s.at] = item]) = <<item>> \o Items(s)
<1> DEFINE u == Reverse(s.unget)
           b == Buffered(s)
           a == s.append
<1>1. u \in Seq(Item) /\ b \in Seq(Item) /\ a \in Seq(Item) /\ <<item>> \in Seq(Item)
  BY Parts
<1>2. Items(s) = u \o b \o a
  BY DEF Items
<1> HIDE DEF u, b, a
<1>3. <<item>> \o Items(s) = <<item>> \o u \o b \o a
  <2>1. u \o b \in Seq(Item)
    BY <1>1, ConcatProperties
  <2>2. <<item>> \o (u \o b \o a) = (<<item>> \o (u \o b)) \o a
    BY <1>1, <2>1, ConcatAssociative
  <2>3. <<item>> \o (u \o b) = <<item>> \o u \o b
    BY <1>1, ConcatAssociative
  <2> QED BY <1>2, <2>2, <2>3
<1>4. ASSUME s.at = 0
      PROVE  Items([s EXCEPT !.unget = Append(@, item)]) = <<item>> \o Items(s)
  <2> DEFINE t == [s EXCEPT !.unget = Append(@, item)]
  <2>1. /\ t.unget = Append(s.unget, item) /\ t.queue = s.queue /\ t.append = s.append
        /\ t.at = s.at /\ s.unget \in Seq(Item)
    BY DEF Ordered, Queue
  <2> HIDE DEF t
  <2>2. Reverse(t.unget) = <<item>> \o u
    BY <2>1, ReverseAppend DEF u
  <2>3. Items(t) = <<item>> \o u \o b \o a
    BY <2>1, <2>2 DEF Items, Buffered, a, b
  <2> QED BY <1>3, <2>3 DEF t
<1>5. ASSUME s.at > 0
      PROVE  Items([s EXCEPT !.at = @ - 1, !.queue[s.at] = item]) = <<item>> \o Items(s)
  <2> DEFINE t == [s EXCEPT !.at = @ - 1, !.queue[s.at] = item]
  <2>1. /\ t.unget = s.unget /\ t.queue = [s.queue EXCEPT ![s.at] = item]
        /\ t.append = s.append /\ t.at = s.at - 1
        /\ s.unget = <<>> /\ s.queue \in Seq(Item) /\ s.at \in 1 .. Len(s.queue)
    BY <1>5 DEF Ordered, Queue
  <2> HIDE DEF t
  <2>2. SubSeq(t.queue, s.at, Len(t.queue)) = <<item>> \o b
    <3>1. \A v \in Seq(Item) : \A k \in 1 .. Len(v) :
            SubSeq([v EXCEPT ![k] = item], k, Len([v EXCEPT ![k] = item]))
              = <<item>> \o SubSeq(v, k + 1, Len(v))
      BY WrittenBefore
    <3> QED BY <2>1, <3>1 DEF b, Buffered
  <2>3. t.at + 1 = s.at
    BY <2>1
  <2>5. Buffered(t) = <<item>> \o b
    BY <2>2, <2>3 DEF Buffered
  <2>7. u = <<>>
    <3>1. Len(u) = Len(s.unget)
      BY Parts DEF u
    <3> QED BY <1>1, <2>1, <3>1, EmptySeq
  <2>8. Items(t) = u \o (<<item>> \o b) \o a
    BY <2>1, <2>5 DEF Items, u, a
  <2>9. u \o (<<item>> \o b) = <<item>> \o u \o b
    <3>1. <<item>> \o b \in Seq(Item)
      BY <1>1, ConcatProperties
    <3> QED BY <1>1, <2>7, <3>1, ConcatEmptySeq
  <2> QED BY <1>3, <2>8, <2>9 DEF t
<1> QED BY <1>4, <1>5

-----------------------------------------------------------------------------
(* get and peek *)

\* What is left of the buffer, cut at any place.
LEMMA BufferCut ==
  ASSUME NEW b \in Seq(Item), NEW at \in Nat, NEW m \in Nat, at <= m, m <= Len(b)
  PROVE  /\ SubSeq(b, at + 1, m) \in Seq(Item) /\ Len(SubSeq(b, at + 1, m)) = m - at
         /\ SubSeq(b, m + 1, Len(b)) \in Seq(Item)
         /\ SubSeq(b, at + 1, Len(b)) = SubSeq(b, at + 1, m) \o SubSeq(b, m + 1, Len(b))
<1>1. at + 1 \in 1 .. Len(b) + 1 /\ m \in (at + 1) - 1 .. Len(b) /\ Len(b) \in m .. Len(b)
  OBVIOUS
<1>2. /\ SubSeq(b, at + 1, m) \in Seq(Item) /\ Len(SubSeq(b, at + 1, m)) = m - at
      /\ SubSeq(b, m + 1, Len(b)) \in Seq(Item)
  OBVIOUS
<1> QED BY <1>1, <1>2, ConcatAdjacentSubSeq

\* The same for the n items FromBuffer reads, or all when there are less.
LEMMA FrontCut ==
  ASSUME NEW b \in Seq(Item), NEW at \in Nat, at <= Len(b), NEW n \in Nat
  PROVE  LET f == SubSeq(b, at + 1, Min({at + n, Len(b)}))
         IN  /\ f \in Seq(Item) /\ Len(f) \in Nat /\ Len(f) <= n
             /\ at + Len(f) <= Len(b)
             /\ Len(f) < n => at + Len(f) = Len(b)
             /\ SubSeq(b, at + 1, Len(b)) = f \o SubSeq(b, at + Len(f) + 1, Len(b))
<1> DEFINE f == SubSeq(b, at + 1, Min({at + n, Len(b)}))
<1>1. PICK m \in Nat : m = Min({at + n, Len(b)}) /\ m = IF at + n < Len(b) THEN at + n ELSE Len(b)
  BY MinPair
<1>2. at <= m /\ m <= Len(b) /\ m - at <= n /\ (m - at < n => m = Len(b))
  BY <1>1
<1>3. /\ f \in Seq(Item) /\ Len(f) = m - at
      /\ SubSeq(b, at + 1, Len(b)) = f \o SubSeq(b, m + 1, Len(b))
  <2>1. f = SubSeq(b, at + 1, m)
    BY <1>1
  <2> HIDE DEF f
  <2> QED BY <1>2, <2>1, BufferCut
<1> HIDE DEF f
<1>4. Len(f) \in Nat /\ at + Len(f) = m
  BY <1>2, <1>3
<1> QED BY <1>2, <1>3, <1>4 DEF f

LEMMA PullItems ==
  ASSUME NEW s, Ordered(s), s.unget = <<>>, NEW n \in Nat
  PROVE  LET r == Pull(s, n)
         IN  /\ r.value \in Seq(Item) /\ Len(r.value) <= n
             /\ Items(s) = r.value \o Items(r.q)
             /\ Len(r.value) < n => r.q.append = <<>>
             /\ s.append = <<>> /\ n <= qsize(s) => Len(r.value) = n
<1>1. PICK t : /\ t = qshift(s) /\ Ordered(t) /\ t.unget = <<>> /\ Items(t) = Items(s)
               /\ qsize(t) = qsize(s) /\ (s.append = <<>> => t.append = <<>>)
  <2>1. s.append = <<>> => qshift(s).append = <<>>
    BY DEF qshift
  <2> QED BY <2>1, ShiftOrdered, ShiftItems
<1>2. /\ t \in [unget : Seq(Item), queue : Seq(Item), append : Seq(Item), at : Nat]
      /\ t.at <= Len(t.queue)
  BY <1>1 DEF Ordered, Queue
<1>3. PICK f \in Seq(Item) :
        /\ f = FromBuffer(t, n) /\ Len(f) \in Nat /\ Len(f) <= n
        /\ t.at + Len(f) <= Len(t.queue)
        /\ Len(f) < n => t.at + Len(f) = Len(t.queue)
        /\ Buffered(t) = f \o SubSeq(t.queue, t.at + Len(f) + 1, Len(t.queue))
  <2> DEFINE v == FromBuffer(t, n)
  <2>1. /\ v \in Seq(Item) /\ Len(v) \in Nat /\ Len(v) <= n
        /\ t.at + Len(v) <= Len(t.queue)
        /\ Len(v) < n => t.at + Len(v) = Len(t.queue)
        /\ Buffered(t) = v \o SubSeq(t.queue, t.at + Len(v) + 1, Len(t.queue))
    BY <1>2, FrontCut DEF FromBuffer, Buffered
  <2> HIDE DEF v
  <2>2. \E f \in Seq(Item) : f = v
    BY <2>1
  <2> QED BY <2>1, <2>2 DEF v
<1>4. PICK m : /\ m = [t EXCEPT !.at = @ + Len(f)]
               /\ Ordered(m) /\ m.unget = <<>>
               /\ m.queue = t.queue /\ m.append = t.append /\ m.at = t.at + Len(f)
  <2> DEFINE w == [t EXCEPT !.at = @ + Len(f)]
  <2>1. w.unget = <<>> /\ w.queue = t.queue /\ w.append = t.append /\ w.at = t.at + Len(f)
    BY <1>1, <1>2
  <2>2. Ordered(w)
    BY <1>1, <1>3, MoveOrdered
  <2> HIDE DEF w
  <2> QED BY <2>1, <2>2 DEF w
<1>5. Pull(s, n) = [value |-> f, q |-> qshift(m)]
  BY <1>1, <1>3, <1>4 DEF Pull
<1>6. Items(qshift(m)) = Items(m)
  BY <1>4, ShiftItems
<1>7. Items(t) = f \o Items(m)
  <2> DEFINE b == Buffered(m)
             a == t.append
             e == Reverse(<<>>)
  <2>1. Buffered(t) = f \o b /\ b \in Seq(Item) /\ a \in Seq(Item) /\ f \o b \in Seq(Item)
    BY <1>2, <1>3, <1>4, Parts, Associative DEF Buffered
  <2>2. e = <<>>
    BY ReverseEmpty
  <2>3. Items(t) = e \o (f \o b) \o a /\ Items(m) = e \o b \o a
    BY <1>1, <1>4, <2>1 DEF Items
  <2> HIDE DEF b, a, e
  <2>4. e \o (f \o b) = f \o b /\ e \o b = b
    BY <2>1, <2>2, ConcatEmptySeq
  <2>5. Items(t) = (f \o b) \o a /\ Items(m) = b \o a
    BY <2>3, <2>4
  <2>6. (f \o b) \o a = f \o (b \o a)
    BY <2>1, Associative
  <2> QED BY <2>5, <2>6
<1>8. Len(f) < n => qshift(m).append = <<>>
  <2>1. Len(f) < n => m.at = Len(m.queue)
    BY <1>3, <1>4
  <2>2. m.at = Len(m.queue) => m.at >= Len(m.queue)
    BY <1>2, <1>4
  <2>3. m \in [unget : Seq(Item), queue : Seq(Item), append : Seq(Item), at : Nat]
    BY <1>4 DEF Ordered, Queue
  <2> QED BY <2>1, <2>2, <2>3 DEF qshift
<1>9. s.append = <<>> /\ n <= qsize(s) => Len(f) = n
  <2>1. ASSUME s.append = <<>>, n <= qsize(s), Len(f) < n
        PROVE  FALSE
    <3>1. Len(t.append) = 0 /\ Len(t.unget) = 0
      BY <1>1, <2>1
    <3>2. qsize(t) = 0 + Len(t.queue) + 0 - t.at
      BY <3>1 DEF qsize
    <3>3. Len(t.queue) \in Nat /\ t.at \in Nat
      BY <1>2
    <3>4. n <= 0 + Len(t.queue) + 0 - t.at
      BY <1>1, <2>1, <3>2
    <3> QED BY <1>3, <2>1, <3>3, <3>4
  <2> QED BY <1>3, <2>1
<1> QED BY <1>1, <1>3, <1>5, <1>6, <1>7, <1>8, <1>9

\* One item: the first; get leaves the others.
LEMMA PeekOneItems ==
  ASSUME NEW s, Ordered(s), NEW get \in BOOLEAN, qsize(s) >= 1
  PROVE  LET r == PeekOne(s, get)
         IN  \E x \in Item, rest \in Seq(Item) :
               /\ r.value = <<x>> /\ Items(s) = <<x>> \o rest
               /\ Items(r.q) = IF get THEN rest ELSE Items(s)
<1>1. s \in [unget : Seq(Item), queue : Seq(Item), append : Seq(Item), at : Nat]
  BY DEF Ordered, Queue
<1>2. CASE s.unget /= <<>>
  <2> DEFINE x == Last(s.unget)
             f == Front(s.unget)
             b == Buffered(s)
             t == [s EXCEPT !.unget = f]
  <2>1. /\ x \in Item /\ f \in Seq(Item) /\ Reverse(s.unget) = <<x>> \o Reverse(f)
        /\ Reverse(f) \in Seq(Item) /\ <<x>> \in Seq(Item)
        /\ b \in Seq(Item) /\ s.append \in Seq(Item)
    <3>1. x \in Item /\ f \in Seq(Item) /\ Reverse(s.unget) = <<x>> \o Reverse(f)
      BY <1>1, <1>2, ReverseFront
    <3> HIDE DEF x, f
    <3>2. Reverse(f) \in Seq(Item)
      BY <3>1, Reversed, Zenon
    <3>3. b \in Seq(Item) /\ s.append \in Seq(Item)
      BY Parts
    <3>4. <<x>> \in Seq(Item)
      BY <3>1
    <3> QED BY <3>1, <3>2, <3>3, <3>4
  <2>2. PeekOne(s, get) = [value |-> <<x>>, q |-> IF get THEN t ELSE s]
    BY <1>1, <1>2 DEF PeekOne
  <2>3. t.unget = f /\ t.queue = s.queue /\ t.append = s.append /\ t.at = s.at
    BY <1>1
  <2> HIDE DEF t
  <2>4. Items(t) = Reverse(f) \o b \o s.append
    BY <2>3 DEF Items, Buffered
  <2>5. Items(s) = (<<x>> \o Reverse(f)) \o b \o s.append
    BY <2>1 DEF Items
  <2> HIDE DEF x, f, b
  <2>6. Items(s) = <<x>> \o Items(t) /\ Items(t) \in Seq(Item)
    <3> DEFINE y == <<x>>
               v == Reverse(f)
               a == s.append
    <3>1. y \in Seq(Item) /\ v \in Seq(Item) /\ a \in Seq(Item) /\ b \in Seq(Item)
      BY <2>1
    <3>2. Items(s) = (y \o v) \o b \o a /\ Items(t) = v \o b \o a
      BY <2>4, <2>5
    <3> HIDE DEF y, v, a
    <3>3. v \o b \in Seq(Item) /\ (y \o v) \o b = y \o (v \o b)
      BY <3>1, Associative
    <3>4. (y \o (v \o b)) \o a = y \o ((v \o b) \o a) /\ (v \o b) \o a \in Seq(Item)
      BY <3>1, <3>3, Associative, SMTT(20)
    <3> QED BY <3>2, <3>3, <3>4 DEF y
  <2> DEFINE rest == Items(t)
             r == PeekOne(s, get)
  <2>7. /\ r.value = <<x>> /\ Items(s) = <<x>> \o rest /\ x \in Item /\ rest \in Seq(Item)
        /\ Items(r.q) = IF get THEN rest ELSE Items(s)
    <3>1. r.value = <<x>> /\ (get => r.q = t) /\ (~ get => r.q = s)
      BY <2>2
    <3> HIDE DEF r
    <3>2. Items(r.q) = IF get THEN Items(t) ELSE Items(s)
      BY <3>1
    <3> QED BY <2>1, <2>6, <3>1, <3>2
  <2> HIDE DEF rest, r
  <2>8. \E y \in Item, o \in Seq(Item) : /\ r.value = <<y>> /\ Items(s) = <<y>> \o o
                                        /\ Items(r.q) = IF get THEN o ELSE Items(s)
    BY <2>7
  <2> QED BY <2>8 DEF r
<1>3. CASE s.unget = <<>>
  <2>1. PICK t : /\ t = qshift(s) /\ Ordered(t) /\ t.unget = <<>> /\ Items(t) = Items(s)
                 /\ (t.at = Len(t.queue) => t.append = <<>>) /\ qsize(t) = qsize(s)
    BY <1>3, ShiftOrdered, ShiftItems
  <2>2. /\ t \in [unget : Seq(Item), queue : Seq(Item), append : Seq(Item), at : Nat]
        /\ t.at <= Len(t.queue)
    BY <2>1 DEF Ordered, Queue
  <2>3. t.at + 1 \in 1 .. Len(t.queue)
    <3>1. /\ Len(t.queue) \in Nat /\ t.at \in Nat /\ t.at <= Len(t.queue)
          /\ Len(t.unget) = 0 /\ (t.append = <<>> => Len(t.append) = 0)
      BY <2>1, <2>2
    <3>2. Len(t.unget) + Len(t.queue) + Len(t.append) - t.at >= 1
      BY <2>1 DEF qsize
    <3> QED BY <2>1, <3>1, <3>2
  <2> DEFINE x == t.queue[t.at + 1]
             m == [t EXCEPT !.at = @ + 1]
  <2>4. x \in Item
    <3>1. t.queue \in Seq(Item)
      BY <2>2
    <3> QED BY <2>3, <3>1, ElementOfSeq
  <2>5. /\ m.unget = <<>> /\ m.queue = t.queue /\ m.append = t.append /\ m.at = t.at + 1
        /\ Ordered(m)
    <3>1. t.at + 1 <= Len(t.queue) /\ 1 \in Nat
      BY <2>3
    <3>2. Ordered(m)
      BY <2>1, <3>1, MoveOrdered
    <3> QED BY <2>1, <2>2, <3>2
  <2>6. PeekOne(s, get) = [value |-> <<x>>, q |-> IF get THEN qshift(m) ELSE t]
    BY <1>3, <2>1 DEF PeekOne
  <2> HIDE DEF m
  <2>7. Buffered(t) = <<x>> \o Buffered(m)
    <3>1. t.queue \in Seq(Item) /\ Len(t.queue) \in t.at + 1 .. Len(t.queue)
      BY <2>2, <2>3
    <3>2. SubSeq(t.queue, t.at + 1, Len(t.queue))
            = <<x>> \o SubSeq(t.queue, (t.at + 1) + 1, Len(t.queue))
      BY <2>3, <3>1, SubSeqRecursiveFirst
    <3> QED BY <2>5, <3>2 DEF Buffered
  <2> HIDE DEF x
  <2>8. Items(t) = <<x>> \o Items(m) /\ Items(m) \in Seq(Item)
    <3> DEFINE y == <<x>>
               b == Buffered(m)
               a == t.append
    <3>1. y \in Seq(Item) /\ a \in Seq(Item) /\ b \in Seq(Item) /\ y \o b \in Seq(Item)
      <4>1. y \in Seq(Item)
        BY <2>4
      <4>2. b \in Seq(Item) /\ a \in Seq(Item)
        BY <2>2, <2>5, Parts
      <4> HIDE DEF y, b, a
      <4> QED BY <4>1, <4>2, Associative
    <3>2. Items(t) = Reverse(<<>>) \o (y \o b) \o a /\ Items(m) = Reverse(<<>>) \o b \o a
      BY <2>1, <2>5, <2>7 DEF Items
    <3> HIDE DEF y, b, a
    <3>3. Reverse(<<>>) \o (y \o b) = y \o b /\ Reverse(<<>>) \o b = b
      BY <3>1, ReverseEmpty, ConcatEmptySeq
    <3>4. (y \o b) \o a = y \o (b \o a) /\ b \o a \in Seq(Item)
      BY <3>1, Associative
    <3> QED BY <3>2, <3>3, <3>4 DEF y
  <2>9. Items(qshift(m)) = Items(m)
    BY <2>5, ShiftItems
  <2> DEFINE rest == Items(m)
             r == PeekOne(s, get)
  <2>10. /\ r.value = <<x>> /\ Items(s) = <<x>> \o rest /\ x \in Item /\ rest \in Seq(Item)
         /\ Items(r.q) = IF get THEN rest ELSE Items(s)
    <3>1. r.value = <<x>> /\ (get => r.q = qshift(m)) /\ (~ get => r.q = t)
      BY <2>6
    <3> HIDE DEF r
    <3>2. Items(r.q) = IF get THEN Items(m) ELSE Items(s)
      BY <2>1, <2>9, <3>1
    <3> QED BY <2>1, <2>4, <2>8, <3>1, <3>2
  <2> HIDE DEF rest, r
  <2>11. \E y \in Item, o \in Seq(Item) : /\ r.value = <<y>> /\ Items(s) = <<y>> \o o
                                         /\ Items(r.q) = IF get THEN o ELSE Items(s)
    BY <2>10
  <2> QED BY <2>11 DEF r
<1> QED BY <1>2, <1>3

\* What is got from the unget stack when it has no more than two items.
LEMMA StackPart ==
  ASSUME NEW s \in Seq(Item), Len(s) <= 2, NEW n \in Nat, n > 1
  PROVE  LET u == SubSeq(Reverse(s), 1, Min({n, Len(s)}))
         IN  /\ u = Reverse(s) /\ Len(u) <= n
             /\ ListDrop(s, Len(s) - 1 - Len(u), Len(u)) = <<>>
<1>1. Len(s) \in Nat /\ Min({n, Len(s)}) = Len(s)
  <2>1. Len(s) \in Nat
    OBVIOUS
  <2> QED BY <2>1, MinPair
<1>2. Reverse(s) \in Seq(Item) /\ Len(Reverse(s)) = Len(s)
  BY Reversed
<1>3. SubSeq(Reverse(s), 1, Min({n, Len(s)})) = Reverse(s)
  BY <1>1, <1>2, SubSeqFull
<1>4. ListDrop(s, -1, Len(s)) = <<>>
  <2>1. Max({-1, 0}) = 0
    BY MaxZero
  <2> QED BY <1>1, <2>1, Drop
<1>5. Len(s) - 1 - Len(s) = -1
  BY <1>1
<1> QED BY <1>1, <1>2, <1>3, <1>4, <1>5

\* The queue without what is on its stack.
LEMMA OffStack ==
  ASSUME NEW s, Ordered(s)
  PROVE  LET t == [s EXCEPT !.unget = <<>>]
         IN  /\ Ordered(t) /\ t.unget = <<>>
             /\ Items(s) = Reverse(s.unget) \o Items(t)
             /\ Items(t) = Buffered(s) \o s.append
<1> DEFINE t == [s EXCEPT !.unget = <<>>]
<1>1. s \in [unget : Seq(Item), queue : Seq(Item), append : Seq(Item), at : Nat]
  BY DEF Ordered, Queue
<1>2. /\ t.unget = <<>> /\ t.queue = s.queue /\ t.append = s.append /\ t.at = s.at
      /\ t \in Queue
  <2>1. <<>> \in Seq(Item)
    OBVIOUS
  <2>2. \A e \in Seq(Item) :
          LET w == [s EXCEPT !.unget = e]
          IN  /\ w.unget = e /\ w.queue = s.queue /\ w.append = s.append /\ w.at = s.at
              /\ w \in Queue
    BY <1>1 DEF Queue
  <2> QED BY <2>1, <2>2
<1> HIDE DEF t
<1>3. Ordered(t)
  BY <1>2 DEF Ordered
<1> DEFINE u == Reverse(s.unget)
           b == Buffered(s)
           a == s.append
<1>4. u \in Seq(Item) /\ b \in Seq(Item) /\ a \in Seq(Item)
  BY Parts
<1>5. Items(t) = Reverse(<<>>) \o b \o a /\ Items(s) = u \o b \o a
  BY <1>2 DEF Items, Buffered
<1> HIDE DEF u, b, a
<1>6. Items(t) = b \o a
  <2>1. Reverse(<<>>) \o b = b
    BY <1>4, ReverseEmpty, ConcatEmptySeq
  <2> QED BY <1>5, <2>1
<1>7. Items(s) = u \o Items(t)
  <2>1. (u \o b) \o a = u \o (b \o a)
    BY <1>4, Associative
  <2> QED BY <1>5, <1>6, <2>1
<1> QED BY <1>2, <1>3, <1>6, <1>7 DEF t, u, b, a

LEMMA PullParts ==
  ASSUME NEW s, Ordered(s), s.unget = <<>>, NEW n \in Nat
  PROVE  \E v, p :
           /\ v \in Seq(Item)
           /\ v = Pull(s, n).value /\ p = Pull(s, n).q
           /\ Ordered(p) /\ p.unget = <<>>
           /\ Items(p) \in Seq(Item) /\ Items(s) = v \o Items(p)
           /\ Len(v) \in Nat /\ Len(v) <= n /\ qsize(p) \in Nat /\ qsize(s) = Len(v) + qsize(p)
           /\ Len(v) < n => p.append = <<>>
           /\ s.append = <<>> /\ n <= qsize(s) => Len(v) = n
<1> DEFINE v == Pull(s, n).value
           p == Pull(s, n).q
<1>1. /\ Ordered(p) /\ p.unget = <<>> /\ v \in Seq(Item)
      /\ Items(s) = v \o Items(p) /\ Len(v) <= n
      /\ Len(v) < n => p.append = <<>>
      /\ s.append = <<>> /\ n <= qsize(s) => Len(v) = n
  BY PullOrdered, PullItems
<1> HIDE DEF v, p
<1> DEFINE i == Items(p)
<1>2. /\ i \in Seq(Item) /\ Len(i) = qsize(p) /\ Len(Items(s)) = qsize(s)
      /\ Items(s) = v \o i
  BY <1>1, Parts
<1> HIDE DEF i
<1>3. Len(v \o i) = Len(v) + Len(i) /\ Len(v) \in Nat /\ Len(i) \in Nat
  BY <1>1, <1>2, Associative
<1>4. /\ Items(p) \in Seq(Item) /\ qsize(p) \in Nat /\ Len(v) \in Nat
      /\ qsize(s) = Len(v) + qsize(p)
  BY <1>2, <1>3 DEF i
<1> QED BY <1>1, <1>4 DEF v, p

SecondPull(s, k) == IF Len(Pull(s, k).value) < k
                    THEN Pull(Pull(s, k).q, k - Len(Pull(s, k).value))
                    ELSE [value |-> <<>>, q |-> Pull(s, k).q]
Collected(s, k, v, w, x) ==
  /\ v \in Seq(Item) /\ w \in Seq(Item)
  /\ v = Pull(s, k).value /\ w = SecondPull(s, k).value /\ x = SecondPull(s, k).q
  /\ Len(v) \in Nat /\ Len(w) \in Nat /\ Len(v) + Len(w) = k
  /\ Ordered(x) /\ x.unget = <<>> /\ Items(x) \in Seq(Item)
  /\ Items(s) = (v \o w) \o Items(x)

\* Two pulls get n items when there are so many.
LEMMA TwoPulls ==
  \A s, n : n \in Nat /\ Ordered(s) /\ s.unget = <<>> /\ n <= qsize(s)
              => \E v, w, x : Collected(s, n, v, w, x)
<1> SUFFICES ASSUME NEW s, Ordered(s), s.unget = <<>>, NEW n \in Nat, n <= qsize(s)
             PROVE  \E v, w, x : Collected(s, n, v, w, x)
  OBVIOUS
<1> DEFINE a == Pull(s, n)
           b == IF Len(a.value) < n THEN Pull(a.q, n - Len(a.value))
                                    ELSE [value |-> <<>>, q |-> a.q]
<1> HIDE DEF b
<1>1. PICK v, p :
           /\ v \in Seq(Item)
           /\ v = a.value /\ p = a.q
           /\ Ordered(p) /\ p.unget = <<>>
           /\ Items(p) \in Seq(Item) /\ Items(s) = v \o Items(p)
           /\ Len(v) \in Nat /\ Len(v) <= n /\ qsize(p) \in Nat /\ qsize(s) = Len(v) + qsize(p)
           /\ Len(v) < n => p.append = <<>>
  <2>1. \E v, p :
           /\ v \in Seq(Item)
           /\ v = Pull(s, n).value /\ p = Pull(s, n).q
           /\ Ordered(p) /\ p.unget = <<>>
           /\ Items(p) \in Seq(Item) /\ Items(s) = v \o Items(p)
           /\ Len(v) \in Nat /\ Len(v) <= n /\ qsize(p) \in Nat /\ qsize(s) = Len(v) + qsize(p)
           /\ Len(v) < n => p.append = <<>>
           /\ s.append = <<>> /\ n <= qsize(s) => Len(v) = n
    BY PullParts
  <2> QED BY <2>1
<1> HIDE DEF a
<1>2. n <= Len(v) + qsize(p) /\ (Len(v) < n => n - Len(v) \in Nat /\ n - Len(v) <= qsize(p))
  <2>1. n <= Len(v) + qsize(p) /\ Len(v) \in Nat /\ qsize(p) \in Nat
    BY <1>1
  <2>2. \A x, y, z \in Nat : x <= y + z /\ y < x => x - y \in Nat /\ x - y <= z
    OBVIOUS
  <2> QED BY <2>1, <2>2
<1>3. \E w, o :
        /\ w \in Seq(Item)
        /\ w = b.value /\ o = b.q
        /\ Ordered(o) /\ o.unget = <<>>
        /\ Items(o) \in Seq(Item) /\ Items(p) = w \o Items(o)
        /\ Len(w) \in Nat /\ Len(v) + Len(w) = n
  <2>1. CASE Len(v) = n
    <3>1. b.value = <<>> /\ b.q = p
      <4>1. ~ (Len(v) < n)
        BY <2>1
      <4> QED BY <1>1, <4>1 DEF b
    <3>2. <<>> \in Seq(Item) /\ Len(<<>>) = 0
      OBVIOUS
    <3>3. <<>> \o Items(p) = Items(p)
      <4>1. \A i \in Seq(Item) : <<>> \o i = i
        BY ConcatEmptySeq
      <4> QED BY <1>1, <4>1
    <3>4. Len(v) + 0 = n
      BY <2>1
    <3> DEFINE w == <<>>
    <3>5. /\ w \in Seq(Item) /\ w = b.value /\ Items(p) = w \o Items(p)
          /\ Len(w) \in Nat /\ Len(v) + Len(w) = n
      BY <3>1, <3>2, <3>3, <3>4
    <3> HIDE DEF w
    <3> QED BY <1>1, <3>1, <3>5
  <2>2. CASE Len(v) /= n
    <3>1. Len(v) < n
      <4>1. \A x, y \in Nat : x <= y /\ x /= y => x < y
        OBVIOUS
      <4> QED BY <1>1, <2>2, <4>1
    <3>2. PICK k \in Nat : k = n - Len(v) /\ k <= qsize(p)
      BY <1>2, <3>1
    <3>3. PICK w, o :
             /\ w \in Seq(Item)
             /\ w = Pull(p, k).value /\ o = Pull(p, k).q
             /\ Ordered(o) /\ o.unget = <<>>
             /\ Items(o) \in Seq(Item) /\ Items(p) = w \o Items(o)
             /\ Len(w) \in Nat /\ (p.append = <<>> /\ k <= qsize(p) => Len(w) = k)
      <4>1. Ordered(p) /\ p.unget = <<>>
        BY <1>1
      <4> QED BY <4>1, PullParts
    <3>4. b.value = w /\ b.q = o
      BY <1>1, <3>1, <3>2, <3>3 DEF b
    <3>5. Len(v) + Len(w) = n
      <4>1. \A x, y, z \in Nat : z = x - y => y + z = x
        OBVIOUS
      <4>2. Len(w) = n - Len(v)
        BY <1>1, <3>1, <3>2, <3>3
      <4> QED BY <1>1, <3>3, <4>1, <4>2
    <3> QED BY <3>3, <3>4, <3>5
  <2> QED BY <2>1, <2>2
<1>4. PICK w, o :
        /\ w \in Seq(Item)
        /\ w = b.value /\ o = b.q
        /\ Ordered(o) /\ o.unget = <<>>
        /\ Items(o) \in Seq(Item) /\ Items(p) = w \o Items(o)
        /\ Len(w) \in Nat /\ Len(v) + Len(w) = n
  BY <1>3
<1>5. Items(s) = (v \o w) \o Items(o)
  <2>1. \A x \in Seq(Item) : v \o (w \o x) = (v \o w) \o x
    BY Associative
  <2> QED BY <1>1, <1>4, <2>1
<1>6. /\ v = a.value /\ w = b.value /\ o = b.q
      /\ Len(v) \in Nat /\ Len(w) \in Nat /\ Len(v) + Len(w) = n
      /\ Ordered(o) /\ o.unget = <<>> /\ Items(o) \in Seq(Item)
      /\ Items(s) = (v \o w) \o Items(o)
  BY <1>1, <1>4, <1>5
<1>7. a = Pull(s, n) /\ b = SecondPull(s, n)
  BY DEF a, b, SecondPull
<1>8. Collected(s, n, v, w, o)
  <2>1. v \in Seq(Item) /\ w \in Seq(Item)
    BY <1>1, <1>4
  <2> HIDE DEF b
  <2> QED BY <1>6, <1>7, <2>1 DEF Collected
<1> QED BY <1>8

\* What peek answers beyond the unget stack: the buffer and the lists appended.
LEMMA PeekedPart ==
  ASSUME NEW s, Ordered(s), NEW k \in Nat, k <= Len(Buffered(s)) + Len(s.append)
  PROVE  LET f == FromBuffer(s, k)
             g == SubSeq(s.append, 1, k - Len(f))
         IN  \E v, rest \in Seq(Item) : /\ v = f \o g /\ Len(v) = k
                                        /\ f \in Seq(Item) /\ g \in Seq(Item)
                                        /\ Buffered(s) \o s.append = v \o rest
<1> DEFINE f == FromBuffer(s, k)
           g == SubSeq(s.append, 1, k - Len(f))
           a == s.append
           b == s.queue
           at == s.at
<1>1. a \in Seq(Item) /\ b \in Seq(Item) /\ at \in Nat /\ at <= Len(b)
  BY DEF Ordered, Queue
<1>2. f = SubSeq(b, at + 1, Min({at + k, Len(b)})) /\ Buffered(s) = SubSeq(b, at + 1, Len(b))
  BY DEF FromBuffer, Buffered
<1>3. g = SubSeq(a, 1, k - Len(f)) /\ Buffered(s) \o s.append = SubSeq(b, at + 1, Len(b)) \o a
  BY <1>2
<1>4. Len(SubSeq(b, at + 1, Len(b))) = Len(b) - at /\ k <= (Len(b) - at) + Len(a)
  <2>1. Len(Buffered(s)) = Len(b) - at
    BY Parts
  <2> QED BY <1>2, <2>1
<1> HIDE DEF f, g, a, b, at
<1>5. /\ f \in Seq(Item) /\ Len(f) \in Nat /\ Len(f) <= k
      /\ at + Len(f) <= Len(b)
      /\ Len(f) < k => at + Len(f) = Len(b)
      /\ SubSeq(b, at + 1, Len(b)) = f \o SubSeq(b, at + Len(f) + 1, Len(b))
  BY <1>1, <1>2, FrontCut
<1> DEFINE r == SubSeq(b, at + Len(f) + 1, Len(b))
<1>6. r \in Seq(Item) /\ Len(r) = Len(b) - (at + Len(f))
  BY <1>1, <1>5
<1>7. SubSeq(b, at + 1, Len(b)) = f \o r
  BY <1>5
<1> HIDE DEF r
<1>8. CASE Len(f) = k
  <2>1. g = <<>> /\ <<>> \in Seq(Item)
    <3>1. k - Len(f) = 0
      BY <1>8
    <3> QED BY <1>1, <1>3, <3>1
  <2>2. f \o g = f
    BY <1>5, <2>1, ConcatEmptySeq
  <2>3. (f \o r) \o a = f \o (r \o a) /\ r \o a \in Seq(Item)
    <3>1. f \in Seq(Item) /\ r \in Seq(Item) /\ a \in Seq(Item)
      BY <1>1, <1>5, <1>6
    <3> QED BY <3>1, Associative
  <2>4. /\ f = f \o g /\ Len(f) = k /\ f \in Seq(Item) /\ g \in Seq(Item)
        /\ Buffered(s) \o s.append = f \o (r \o a) /\ r \o a \in Seq(Item)
    BY <1>3, <1>5, <1>7, <1>8, <2>1, <2>2, <2>3
  <2>5. \E v, rest \in Seq(Item) : /\ v = f \o g /\ Len(v) = k
                                   /\ f \in Seq(Item) /\ g \in Seq(Item)
                                   /\ Buffered(s) \o s.append = v \o rest
    BY <2>4
  <2> QED BY <2>5 DEF f, g
<1>9. CASE Len(f) /= k
  <2>1. PICK m \in Nat : m = k - Len(f) /\ m <= Len(a) /\ Len(r) = 0
    <3>1. at + Len(f) = Len(b) /\ Len(f) < k
      BY <1>5, <1>9
    <3>2. Len(r) = 0 /\ Len(f) = Len(b) - at
      BY <1>1, <1>5, <1>6, <3>1
    <3>3. k - Len(f) \in Nat /\ k - Len(f) <= Len(a)
      <4>1. \A x, y, z \in Nat : x <= y + z /\ y < x => x - y \in Nat /\ x - y <= z
        OBVIOUS
      <4>2. Len(a) \in Nat /\ Len(f) \in Nat /\ k <= Len(f) + Len(a)
        BY <1>1, <1>4, <1>5, <3>2
      <4> QED BY <3>1, <4>1, <4>2
    <3> QED BY <3>2, <3>3
  <2>2. r = <<>>
    BY <1>6, <2>1, EmptySeq
  <2> DEFINE o == SubSeq(a, m + 1, Len(a))
  <2>3. g \in Seq(Item) /\ Len(g) = m /\ o \in Seq(Item) /\ a = g \o o
    BY <1>1, <1>3, <2>1, Cut
  <2> HIDE DEF o
  <2>4. f \o r = f
    BY <1>5, <2>2, ConcatEmptySeq
  <2>5. f \o (g \o o) = (f \o g) \o o /\ f \o g \in Seq(Item) /\ Len(f \o g) = Len(f) + Len(g)
    BY <1>5, <2>3, Associative
  <2>6. Len(f) + Len(g) = k
    BY <1>5, <2>1, <2>3
  <2> DEFINE v == f \o g
  <2>7. /\ v = f \o g /\ Len(v) = k /\ v \in Seq(Item) /\ f \in Seq(Item) /\ g \in Seq(Item)
        /\ Buffered(s) \o s.append = v \o o /\ o \in Seq(Item)
    BY <1>3, <1>5, <1>7, <2>3, <2>4, <2>5, <2>6
  <2> HIDE DEF v
  <2>8. \E w, rest \in Seq(Item) : /\ w = f \o g /\ Len(w) = k
                                   /\ f \in Seq(Item) /\ g \in Seq(Item)
                                   /\ Buffered(s) \o s.append = w \o rest
    BY <2>7
  <2> QED BY <2>8 DEF f, g
<1> QED BY <1>8, <1>9

\* Several items: the first n; get leaves the others.
LEMMA PeekManyItems ==
  ASSUME NEW s, Ordered(s), Len(s.unget) <= 2, NEW n \in Nat, n > 1, n <= qsize(s),
         NEW get \in BOOLEAN
  PROVE  LET r == PeekMany(s, n, get)
         IN  \E v, rest \in Seq(Item) :
               /\ r.value = v /\ Len(v) = n /\ Items(s) = v \o rest
               /\ Items(r.q) = IF get THEN rest ELSE Items(s)
<1> DEFINE r == PeekMany(s, n, get)
           u == Reverse(s.unget)
           o == [s EXCEPT !.unget = <<>>]
           t == IF get THEN o ELSE s
           c == Pull(t, n - Len(u))
           d == IF Len(u) + Len(c.value) < n
                THEN Pull(c.q, n - Len(u) - Len(c.value)) ELSE [value |-> <<>>, q |-> c.q]
           p == qshift(s)
           f == FromBuffer(p, n - Len(u))
           g == SubSeq(p.append, 1, n - Len(u) - Len(f))
<1>1. s \in [unget : Seq(Item), queue : Seq(Item), append : Seq(Item), at : Nat]
  BY DEF Ordered, Queue
<1>2. /\ SubSeq(Reverse(s.unget), 1, Min({n, Len(s.unget)})) = u /\ Len(u) <= n
      /\ ListDrop(s.unget, Len(s.unget) - 1 - Len(u), Len(u)) = <<>>
  <2>1. s.unget \in Seq(Item)
    BY <1>1
  <2> QED BY <2>1, StackPart
<1>3. u \in Seq(Item) /\ Len(u) \in Nat
  BY Parts
<1>4. (IF get THEN [s EXCEPT !.unget = ListDrop(@, Len(s.unget) - 1 - Len(u), Len(u))] ELSE s) = t
  <2>1. [s EXCEPT !.unget = ListDrop(@, Len(s.unget) - 1 - Len(u), Len(u))] = o
    <3> HIDE DEF u
    <3> QED BY <1>1, <1>2
  <2> QED BY <2>1
<1>5. r = IF Len(u) = n THEN [value |-> u, q |-> t]
          ELSE IF get THEN [value |-> u \o c.value \o d.value, q |-> d.q]
          ELSE [value |-> u \o f \o g, q |-> p]
  <2> HIDE DEF u, o
  <2>1. Reverse(s.unget) = u
    BY DEF u
  <2> QED BY <1>2, <1>4, <2>1 DEF PeekMany
<1>51. /\ get => t = o
       /\ Len(u) /= n /\ get => r.value = u \o c.value \o d.value /\ r.q = d.q
       /\ Len(u) /= n /\ ~ get => r.value = u \o f \o g /\ r.q = p
  <2>1. get => t = o
    OBVIOUS
  <2> HIDE DEF r, o, u, t, c, d, p, f, g
  <2> DEFINE x == u \o c.value \o d.value
             y == d.q
             z == u \o f \o g
  <2>2. Len(u) /= n /\ get => r = [value |-> x, q |-> y]
    BY <1>5
  <2>3. Len(u) /= n /\ ~ get => r = [value |-> z, q |-> p]
    BY <1>5
  <2> HIDE DEF x, y, z
  <2>4. Len(u) /= n /\ get => r.value = x /\ r.q = y
    BY <2>2
  <2>5. Len(u) /= n /\ ~ get => r.value = z /\ r.q = p
    BY <2>3
  <2> QED BY <2>1, <2>4, <2>5 DEF x, y, z
<1>6. /\ Ordered(o) /\ o.unget = <<>> /\ Items(s) = u \o Items(o)
      /\ Items(o) = Buffered(s) \o s.append /\ Items(o) \in Seq(Item)
      /\ qsize(o) = qsize(s) - Len(u) /\ qsize(o) \in Nat
  <2>1. /\ Ordered(o) /\ o.unget = <<>> /\ Items(s) = u \o Items(o)
        /\ Items(o) = Buffered(s) \o s.append
    BY OffStack
  <2> HIDE DEF o
  <2> DEFINE i == Items(o)
  <2>2. i \in Seq(Item) /\ Len(i) = qsize(o) /\ Len(Items(s)) = qsize(s)
    BY <2>1, Parts
  <2>3. Items(s) = u \o i
    BY <2>1
  <2> HIDE DEF i, u
  <2>4. Len(u \o i) = Len(u) + Len(i) /\ Len(i) \in Nat
    <3>1. u \in Seq(Item) /\ i \in Seq(Item)
      BY <1>3, <2>2
    <3> QED BY <3>1
  <2>5. qsize(s) = Len(u) + qsize(o) /\ qsize(o) \in Nat
    BY <2>2, <2>3, <2>4
  <2>6. qsize(o) = qsize(s) - Len(u)
    <3>1. \A x, y, z \in Nat : x = y + z => z = x - y
      OBVIOUS
    <3>2. qsize(s) \in Nat
      BY <1>3, <2>5
    <3> QED BY <1>3, <2>5, <3>1, <3>2
  <2> QED BY <2>1, <2>2, <2>5, <2>6 DEF i, u
<1>7. n - Len(u) \in Nat /\ n - Len(u) <= qsize(o)
  <2>1. \A x, y, z, w \in Nat : x <= y /\ z = y - w /\ w <= x => x - w \in Nat /\ x - w <= z
    OBVIOUS
  <2>2. qsize(s) \in Nat
    BY Parts, <1>3, LenProperties
  <2> HIDE DEF u, o
  <2> QED BY <1>2, <1>3, <1>6, <2>1, <2>2
<1> DEFINE Goal(val, after) == \E v, rest \in Seq(Item) :
                                  /\ val = v /\ Len(v) = n /\ Items(s) = v \o rest
                                  /\ after = IF get THEN rest ELSE Items(s)
<1>8. ASSUME Len(u) = n
      PROVE  Goal(r.value, Items(r.q))
  <2>1. r.value = u /\ (get => r.q = o) /\ (~ get => r.q = s)
    BY <1>5, <1>8
  <2> HIDE DEF r, o, u
  <2>2. Items(r.q) = IF get THEN Items(o) ELSE Items(s)
    BY <2>1
  <2> DEFINE i == Items(o)
  <2>3. i \in Seq(Item) /\ Items(s) = u \o i
    BY <1>6
  <2>4. Items(r.q) = IF get THEN i ELSE Items(s)
    BY <2>2
  <2> HIDE DEF i
  <2> QED BY <1>3, <1>8, <2>1, <2>3, <2>4
<1>9. ASSUME Len(u) /= n, get
      PROVE  Goal(r.value, Items(r.q))
  <2>1. PICK k \in Nat : k = n - Len(u) /\ k <= qsize(o)
    BY <1>7
  <2>2. t = o /\ r.value = u \o c.value \o d.value /\ r.q = d.q
    <3> HIDE DEF r, o, u, t, c, d
    <3> QED BY <1>51, <1>9
  <2>3. c = Pull(o, k)
    BY <2>1, <1>9
  <2> HIDE DEF r, o, u, t, c
  <2> DEFINE b == SecondPull(o, k)
  <2>4. PICK v, w, x :
               /\ v \in Seq(Item) /\ w \in Seq(Item)
               /\ v = Pull(o, k).value /\ w = b.value /\ x = b.q
               /\ Len(v) \in Nat /\ Len(w) \in Nat /\ Len(v) + Len(w) = k
               /\ Ordered(x) /\ x.unget = <<>> /\ Items(x) \in Seq(Item)
               /\ Items(o) = (v \o w) \o Items(x)
    <3>1. k \in Nat /\ Ordered(o) /\ o.unget = <<>> /\ k <= qsize(o)
      BY <1>6, <2>1
    <3> HIDE DEF Goal, d
    <3>2. \E v, w, x : Collected(o, k, v, w, x)
      BY <3>1, TwoPulls
    <3> QED BY <3>2 DEF Collected
  <2>5. d = b
    <3>1. \A x0, y, z, m \in Nat : z = x0 - y => (y + m < x0 <=> m < z) /\ x0 - y - m = z - m
      OBVIOUS
    <3>2. /\ (Len(u) + Len(v) < n <=> Len(v) < k)
          /\ n - Len(u) - Len(v) = k - Len(v)
      BY <1>3, <2>1, <2>4, <3>1
    <3>3. Pull(o, k).value = v /\ c = Pull(o, k) /\ c.value = v
      BY <2>3, <2>4
    <3> QED BY <3>2, <3>3 DEF SecondPull
  <2> HIDE DEF b, d
  <2> DEFINE i == Items(x)
             all == (u \o v) \o w
  <2>6. /\ r.value = all /\ Items(r.q) = i /\ i \in Seq(Item)
        /\ Items(s) = u \o ((v \o w) \o i)
    BY <1>6, <2>2, <2>3, <2>4, <2>5
  <2> HIDE DEF i
  <2>7. all \in Seq(Item) /\ Len(all) = Len(u) + (Len(v) + Len(w)) /\ Items(s) = all \o i
    <3>1. u \in Seq(Item) /\ v \in Seq(Item) /\ w \in Seq(Item) /\ i \in Seq(Item)
      BY <1>3, <2>4, <2>6
    <3>2. Regrouped(u, v, w, i) /\ Sized(u, v, w)
      BY <3>1, ThreeParts
    <3>3. /\ all \in Seq(Item) /\ Len(all) = Len(u) + (Len(v) + Len(w))
          /\ u \o ((v \o w) \o i) = all \o i
      BY <3>2 DEF Regrouped, Sized
    <3> HIDE DEF all
    <3> QED BY <2>6, <3>3
  <2>8. Len(u) + (Len(v) + Len(w)) = n
    <3>1. \A x0, y, z \in Nat : z = x0 - y => y + z = x0
      OBVIOUS
    <3>2. Len(u) \in Nat /\ n \in Nat /\ k \in Nat /\ k = n - Len(u)
      BY <1>3, <2>1
    <3>3. Len(u) + k = n
      BY <3>1, <3>2
    <3> QED BY <2>4, <3>3
  <2> HIDE DEF all
  <2>9. Len(all) = n /\ Items(r.q) = IF get THEN i ELSE Items(s)
    BY <1>9, <2>6, <2>7, <2>8
  <2> QED BY <2>6, <2>7, <2>9
<1>10. ASSUME Len(u) /= n, ~ get
       PROVE  Goal(r.value, Items(r.q))
  <2>1. PICK k \in Nat : k = n - Len(u)
    BY <1>7
  <2>2. r.value = u \o f \o g /\ r.q = p
    <3> HIDE DEF r, o, u, t, c, d, p, f, g
    <3> QED BY <1>51, <1>10
  <2>3. Ordered(p) /\ p.unget = s.unget /\ Items(p) = Items(s)
    BY ShiftOrdered, ShiftItems
  <2> DEFINE l == Buffered(p) \o p.append
             y == Len(Buffered(p)) + Len(p.append)
             a == FromBuffer(p, k)
             b == SubSeq(p.append, 1, k - Len(a))
  <2>4. f = a /\ g = b
    BY <2>1
  <2>5. Items(p) = u \o l /\ l \in Seq(Item) /\ Len(l) = y
    <3>1. Reverse(p.unget) = u
      BY <2>3
    <3>2. p.append \in Seq(Item) /\ Buffered(p) \in Seq(Item)
      BY <2>3, Parts
    <3> HIDE DEF u, p
    <3>3. Items(p) = u \o l
      BY <2>3, <3>1, OffStack
    <3> QED BY <3>2, <3>3, Associative
  <2> HIDE DEF r, o, t, c, d, p, f, g, u, Goal
  <2>6. k <= y
    <3> HIDE DEF l, y
    <3>0. u \in Seq(Item) /\ l \in Seq(Item)
      BY <1>3, <2>5
    <3>1. Len(u \o l) = Len(u) + Len(l) /\ Len(l) \in Nat
      BY <3>0, LenProperties
    <3>2. Len(Items(s)) = qsize(s)
      BY Parts
    <3>3. n <= Len(u) + Len(l)
      BY <2>3, <2>5, <3>1, <3>2
    <3>4. \A x, z, m, w \in Nat : x <= m + z /\ w = x - m => w <= z
      OBVIOUS
    <3>5. k <= Len(l)
      BY <1>3, <2>1, <3>1, <3>3, <3>4
    <3> QED BY <2>5, <3>5
  <2>7. PICK v, rest \in Seq(Item) : /\ v = a \o b /\ Len(v) = k
                                     /\ a \in Seq(Item) /\ b \in Seq(Item)
                                     /\ l = v \o rest
    BY <2>3, <2>6, PeekedPart
  <2> HIDE DEF a, b, l, y
  <2> DEFINE all == (u \o a) \o b
  <2>8. /\ all \in Seq(Item) /\ Len(all) = Len(u) + (Len(a) + Len(b))
        /\ u \o ((a \o b) \o rest) = all \o rest
    <3>1. u \in Seq(Item) /\ a \in Seq(Item) /\ b \in Seq(Item) /\ rest \in Seq(Item)
      BY <1>3, <2>7
    <3>2. Regrouped(u, a, b, rest) /\ Sized(u, a, b)
      BY <3>1, ThreeParts
    <3> QED BY <3>2 DEF Regrouped, Sized
  <2>9. Len(a) + Len(b) = k
    BY <2>7, Associative
  <2>10. Len(u) + k = n
    <3>1. \A x0, x, z \in Nat : z = x0 - x => x + z = x0
      OBVIOUS
    <3> QED BY <1>3, <2>1, <3>1
  <2>11. r.value = all /\ Len(all) = n /\ Items(s) = all \o rest
    BY <2>2, <2>3, <2>4, <2>5, <2>7, <2>8, <2>9, <2>10
  <2>12. Items(r.q) = IF get THEN rest ELSE Items(s)
    BY <1>10, <2>2, <2>3
  <2> HIDE DEF all
  <2> QED BY <2>7, <2>8, <2>11, <2>12 DEF Goal
<1>11. Goal(r.value, Items(r.q))
  <2> HIDE DEF Goal, r, o, t, c, d, p, f, g, u
  <2> QED BY <1>8, <1>9, <1>10
<1> QED BY <1>11
-----------------------------------------------------------------------------
(* What remains on the unget stack *)

LEMMA PeekOneUnget ==
  ASSUME NEW s, Ordered(s), Len(s.unget) <= 2, NEW get \in BOOLEAN
  PROVE  Len(PeekOne(s, get).q.unget) <= 2
<1>1. s \in [unget : Seq(Item), queue : Seq(Item), append : Seq(Item), at : Nat]
  BY DEF Ordered, Queue
<1>2. CASE s.unget /= <<>> /\ get
  <2> DEFINE f == Front(s.unget)
  <2>1. Len(f) <= 2
    <3>1. Len(s.unget) \in Nat \ {0} /\ f = SubSeq(s.unget, 1, Len(s.unget) - 1)
      BY <1>1, <1>2 DEF Front
    <3>2. PICK k \in Nat : k = Len(s.unget) - 1 /\ k <= 2 /\ k <= Len(s.unget)
      BY <3>1
    <3>3. s.unget \in Seq(Item) /\ f = SubSeq(s.unget, 1, k)
      BY <1>1, <3>1, <3>2
    <3> HIDE DEF f
    <3>4. Len(f) = k
      BY <3>2, <3>3, Cut
    <3> QED BY <3>2, <3>4
  <2>2. PeekOne(s, get).q = [s EXCEPT !.unget = f]
    BY <1>1, <1>2 DEF PeekOne
  <2> HIDE DEF f
  <2>3. [s EXCEPT !.unget = f].unget = f
    BY <1>1
  <2> QED BY <2>1, <2>2, <2>3
<1>3. CASE s.unget /= <<>> /\ ~ get
  BY <1>3 DEF PeekOne
<1>4. CASE s.unget = <<>>
  <2>1. PICK t : t = qshift(s) /\ Ordered(t) /\ t.unget = <<>>
    BY <1>4, ShiftOrdered
  <2>2. t \in [unget : Seq(Item), queue : Seq(Item), append : Seq(Item), at : Nat]
    BY <2>1 DEF Ordered, Queue
  <2> DEFINE m == [t EXCEPT !.at = @ + 1]
  <2>3. m.unget = <<>>
    BY <2>1, <2>2
  <2>4. qshift(m).unget = <<>>
    <3>1. m \in [unget : Seq(Item), queue : Seq(Item), append : Seq(Item), at : Nat]
      <4>1. t.at + 1 \in Nat
        BY <2>2
      <4> QED BY <2>2, <4>1
    <3> HIDE DEF m
    <3> QED BY <2>3, <3>1 DEF qshift
  <2>5. PeekOne(s, get).q = IF get THEN qshift(m) ELSE t
    BY <1>4, <2>1 DEF PeekOne
  <2> HIDE DEF m
  <2>6. PeekOne(s, get).q.unget = <<>>
    BY <2>1, <2>4, <2>5
  <2> QED BY <2>6
<1> QED BY <1>2, <1>3, <1>4

LEMMA PeekManyUnget ==
  ASSUME NEW s, Ordered(s), Len(s.unget) <= 2, NEW n \in Nat, n > 1, NEW get \in BOOLEAN
  PROVE  Len(PeekMany(s, n, get).q.unget) <= 2
<1>1. s \in [unget : Seq(Item), queue : Seq(Item), append : Seq(Item), at : Nat]
  BY DEF Ordered, Queue
<1> DEFINE u == SubSeq(Reverse(s.unget), 1, Min({n, Len(s.unget)}))
           x == ListDrop(s.unget, Len(s.unget) - 1 - Len(u), Len(u))
<1>2. Len(u) \in Nat /\ Len(u) <= n /\ x = <<>>
  <2>1. s.unget \in Seq(Item)
    BY <1>1
  <2>2. /\ u = Reverse(s.unget) /\ Len(u) <= n /\ x = <<>>
    BY <2>1, StackPart
  <2> HIDE DEF u
  <2>3. Len(u) \in Nat
    <3>1. Reverse(s.unget) \in Seq(Item)
      BY <2>1, Reversed
    <3> QED BY <2>2, <3>1
  <2> QED BY <2>2, <2>3
<1> DEFINE o == [s EXCEPT !.unget = <<>>]
<1>3. Ordered(o) /\ o.unget = <<>>
  BY OffStack
<1>4. get => [s EXCEPT !.unget = ListDrop(@, Len(s.unget) - 1 - Len(u), Len(u))] = o
  BY <1>1, <1>2
<1>5. Len(o.unget) <= 2
  BY <1>3
<1>6. CASE Len(u) = n
  <2>1. PeekMany(s, n, get).q = IF get THEN o ELSE s
    BY <1>4, <1>6 DEF PeekMany
  <2> HIDE DEF o
  <2> QED BY <1>5, <2>1
<1>7. CASE Len(u) /= n /\ get
  <2> DEFINE a == Pull(o, n - Len(u))
             b == Pull(a.q, n - Len(u) - Len(a.value))
  <2>1. PeekMany(s, n, get).q = IF Len(u) + Len(a.value) < n THEN b.q ELSE a.q
    BY <1>4, <1>7 DEF PeekMany
  <2>2. n - Len(u) \in Nat
    <3> HIDE DEF u
    <3> QED BY <1>2
  <2>3. Ordered(a.q) /\ a.q.unget = <<>> /\ a.value \in Seq(Item)
    <3> HIDE DEF o, u
    <3> QED BY <1>3, <2>2, PullOrdered
  <2> HIDE DEF a, o, u, x
  <2>4. ASSUME Len(u) + Len(a.value) < n
        PROVE  b.q.unget = <<>>
    <3>1. n - Len(u) - Len(a.value) \in Nat
      <4>1. Len(a.value) \in Nat
        BY <2>3
      <4> QED BY <1>2, <2>4, <4>1
    <3> QED BY <2>3, <3>1, PullOrdered
  <2> HIDE DEF b
  <2>5. PeekMany(s, n, get).q.unget = <<>>
    BY <2>1, <2>3, <2>4
  <2> QED BY <2>5
<1>8. CASE Len(u) /= n /\ ~ get
  <2>1. PeekMany(s, n, get).q = qshift(s)
    BY <1>8 DEF PeekMany
  <2>2. qshift(s).unget = s.unget
    BY ShiftOrdered
  <2> QED BY <2>1, <2>2
<1> QED BY <1>6, <1>7, <1>8
-----------------------------------------------------------------------------
(* Every method is a method of the sequence *)

\* The inductive invariant: the shape of the lists, and at most two items put
\* back.  What a get leaves of a larger stack is not what it did not answer.
SmallStack == QueueInv /\ (q /= NoQueue => Len(q.unget) <= 2)

LEMMA SmallEmpty == Len(qEmpty.unget) <= 2
BY DEF qEmpty

LEMMA SmallStep ==
  ASSUME MaxUnget <= 2, SmallStack, [QueueNext]_qVars
  PROVE  SmallStack'
<1>1. QueueInv'
  BY QueueStep DEF SmallStack
<1> DEFINE Small == q' /= NoQueue => Len(q'.unget) <= 2
<1>2. ASSUME qu_new \/ qum_CLEAR
      PROVE  Small
  BY <1>2, SmallEmpty DEF qu_new, qum_CLEAR
<1>3. ASSUME qum_DESTROY
      PROVE  Small
  BY <1>3 DEF qum_DESTROY
<1>4. ASSUME NEW n \in 0 .. MaxItems + 1, NEW get \in BOOLEAN, qum_PEEK(n, get)
      PROVE  Small
  <2>1. Ordered(q) /\ Len(q.unget) <= 2
    BY <1>4 DEF qum_PEEK, QueueInv, SmallStack
  <2>2. CASE n < 1 \/ n > qsize(q)
    BY <1>4, <2>1, <2>2 DEF qum_PEEK
  <2>3. CASE ~ (n < 1 \/ n > qsize(q))
    <3>1. n \in Nat
      BY QueueAssumption
    <3>2. CASE n = 1
      <4>1. q' = PeekOne(q, get).q
        BY <1>4, <2>3, <3>2 DEF qum_PEEK
      <4> QED BY <2>1, <4>1, PeekOneUnget
    <3>3. CASE n /= 1
      <4>1. q' = PeekMany(q, n, get).q
        BY <1>4, <2>3, <3>3 DEF qum_PEEK
      <4>2. n > 1
        BY <2>3, <3>1, <3>3
      <4> QED BY <2>1, <3>1, <4>1, <4>2, PeekManyUnget
    <3> QED BY <3>2, <3>3
  <2> QED BY <2>2, <2>3
<1>5. ASSUME NEW new \in Seq(Item), qum_PUT(new)
      PROVE  Small
  <2>1. q'.unget = q.unget /\ Len(q.unget) <= 2
    BY <1>5 DEF qum_PUT, SmallStack, QueueInv, Ordered, Queue
  <2> QED BY <2>1
<1>6. ASSUME NEW item \in Item, qum_UNGET(item)
      PROVE  Small
  <2>1. /\ q \in [unget : Seq(Item), queue : Seq(Item), append : Seq(Item), at : Nat]
        /\ Len(q.unget) <= 2
    BY <1>6 DEF qum_UNGET, SmallStack, QueueInv, Ordered, Queue
  <2>2. CASE /\ Len(q.unget) < MaxUnget
             /\ q' = [q EXCEPT !.unget = Append(@, item)]
    <3>1. q'.unget = Append(q.unget, item) /\ q.unget \in Seq(Item)
      BY <2>1, <2>2
    <3>2. Len(Append(q.unget, item)) = Len(q.unget) + 1 /\ Len(q.unget) \in Nat
      BY <3>1
    <3> QED BY <2>2, <3>1, <3>2, QueueAssumption
  <2>3. CASE q' = [q EXCEPT !.at = @ - 1, !.queue[q.at] = item]
    <3>1. q'.unget = q.unget
      BY <2>1, <2>3
    <3> QED BY <2>1, <3>1
  <2> QED BY <1>6, <2>2, <2>3 DEF qum_UNGET
<1>7. ASSUME qum_SIZE \/ UNCHANGED qVars
      PROVE  Small
  BY <1>7 DEF qum_SIZE, SmallStack, qVars
<1>8. \A x, y \in Item : <<x>> \in Seq(Item) /\ <<x, y>> \in Seq(Item)
  OBVIOUS
<1> HIDE DEF Small
<1>9. Small
  BY <1>2, <1>3, <1>4, <1>5, <1>6, <1>7, <1>8 DEF QueueNext, qums_objcmd
<1> QED BY <1>1, <1>9 DEF SmallStack, Small

\* The sequence a queue stands for.
LEMMA Stands ==
  ASSUME q /= NoQueue, QueueInv
  PROVE  /\ Ordered(q) /\ QueueItems = Items(q) /\ QueueItems \in Seq(Item)
         /\ QueueItems /= NoQueue /\ Len(QueueItems) = qsize(q) /\ qsize(q) \in Nat
<1>1. Ordered(q)
  BY DEF QueueInv
<1>2. Items(q) \in Seq(Item) /\ Len(Items(q)) = qsize(q)
  BY <1>1, Parts
<1>3. QueueItems = Items(q)
  BY DEF QueueItems, Items, Buffered
<1>4. Len(Items(q)) \in Nat
  BY <1>2
<1> QED BY <1>1, <1>2, <1>3, <1>4, QueueAssumption

LEMMA StandsNext ==
  ASSUME NEW s, q' = s, Ordered(s)
  PROVE  QueueItems' = Items(s)
<1>1. s /= NoQueue
  BY QueueAssumption DEF Ordered, Queue
<1> QED BY <1>1 DEF QueueItems, Items, Buffered

\* What a get or a peek that answers takes, and what it leaves.
LEMMA Answered ==
  ASSUME NEW s, Ordered(s), Len(s.unget) <= 2, NEW n \in Nat, n >= 1, n <= qsize(s),
         NEW get \in BOOLEAN,
         NEW r, r = IF n = 1 THEN PeekOne(s, get) ELSE PeekMany(s, n, get)
  PROVE  /\ r.value = SubSeq(Items(s), 1, n) /\ Ordered(r.q)
         /\ Items(r.q) = IF get THEN SubSeq(Items(s), n + 1, Len(Items(s))) ELSE Items(s)
<1>1. Ordered(r.q)
  <2>1. CASE n = 1
    BY <2>1, PeekOneOrdered
  <2>2. CASE n /= 1
    BY <2>2, PeekManyOrdered
  <2> QED BY <2>1, <2>2
<1>2. \E v, rest \in Seq(Item) : /\ r.value = v /\ Len(v) = n /\ Items(s) = v \o rest
                                 /\ Items(r.q) = IF get THEN rest ELSE Items(s)
  <2>1. CASE n = 1
    <3>1. PICK x \in Item, rest \in Seq(Item) :
            /\ r.value = <<x>> /\ Items(s) = <<x>> \o rest
            /\ Items(r.q) = IF get THEN rest ELSE Items(s)
      BY <2>1, PeekOneItems
    <3> DEFINE v == <<x>>
    <3>2. v \in Seq(Item) /\ Len(v) = n
      BY <2>1
    <3>3. r.value = v /\ Items(s) = v \o rest
      BY <3>1
    <3> HIDE DEF v
    <3> QED BY <3>1, <3>2, <3>3
  <2>2. CASE n /= 1
    <3>1. n > 1 /\ r = PeekMany(s, n, get)
      BY <2>2
    <3> DEFINE p == PeekMany(s, n, get)
    <3>2. \E v, rest \in Seq(Item) : /\ p.value = v /\ Len(v) = n /\ Items(s) = v \o rest
                                     /\ Items(p.q) = IF get THEN rest ELSE Items(s)
      BY <3>1, PeekManyItems
    <3>3. p = r
      BY <3>1
    <3> HIDE DEF p
    <3> QED BY <3>2, <3>3
  <2> QED BY <2>1, <2>2
<1>3. PICK v, rest \in Seq(Item) : /\ r.value = v /\ Len(v) = n /\ Items(s) = v \o rest
                                  /\ Items(r.q) = IF get THEN rest ELSE Items(s)
  BY <1>2
<1>4. v = SubSeq(Items(s), 1, n) /\ rest = SubSeq(Items(s), n + 1, Len(Items(s)))
  <2> DEFINE c == v \o rest
  <2>1. v = SubSeq(c, 1, Len(v)) /\ rest = SubSeq(c, Len(v) + 1, Len(c))
    BY Split
  <2>2. Items(s) = c
    BY <1>3
  <2> HIDE DEF c
  <2> QED BY <1>3, <2>1, <2>2
<1> QED BY <1>1, <1>3, <1>4

LEMMA PeekSimulates ==
  ASSUME SmallStack, NEW n \in 0 .. MaxItems + 1, NEW get \in BOOLEAN, qum_PEEK(n, get)
  PROVE  ItemQueueSpec!Next
<1>1. q /= NoQueue /\ n \in Nat
  BY QueueAssumption DEF qum_PEEK
<1>2. /\ Ordered(q) /\ QueueItems = Items(q) /\ QueueItems \in Seq(Item)
      /\ QueueItems /= NoQueue /\ Len(QueueItems) = qsize(q) /\ qsize(q) \in Nat
      /\ Len(q.unget) <= 2
  BY <1>1, Stands DEF SmallStack
<1> DEFINE m == IF get THEN "get" ELSE "peek"
           call == <<m, n>>
<1>3. CASE n < 1 \/ n > qsize(q)
  <2>1. qAnswer' = qError(call) /\ q' = q
    BY <1>3 DEF qum_PEEK
  <2>2. QueueItems' = QueueItems
    BY <2>1 DEF QueueItems
  <2>3. n \notin 1 .. Len(QueueItems)
    BY <1>1, <1>2, <1>3
  <2>4. m \in {"get", "peek"}
    OBVIOUS
  <2>5. ItemQueueSpec!Fails(<<m, n>>)
    BY <2>1 DEF qError, ItemQueueSpec!Fails
  <2> HIDE DEF m
  <2>6. ItemQueueSpec!Fail
    BY <1>2, <2>2, <2>3, <2>4, <2>5 DEF ItemQueueSpec!Fail
  <2> QED BY <2>6 DEF ItemQueueSpec!Next
<1>4. CASE ~ (n < 1 \/ n > qsize(q))
  <2> DEFINE r == IF n = 1 THEN PeekOne(q, get) ELSE PeekMany(q, n, get)
  <2>1. qAnswer' = qOk(call, r.value) /\ q' = r.q
    BY <1>4 DEF qum_PEEK
  <2>2. n >= 1 /\ n <= qsize(q) /\ n \in 1 .. Len(QueueItems)
    BY <1>1, <1>2, <1>4
  <2>3. /\ r.value = SubSeq(Items(q), 1, n) /\ Ordered(r.q)
        /\ Items(r.q) = IF get THEN SubSeq(Items(q), n + 1, Len(Items(q))) ELSE Items(q)
    BY <1>1, <1>2, <2>2, Answered
  <2> HIDE DEF r, call
  <2>4. QueueItems' = Items(r.q)
    BY <2>1, <2>3, StandsNext
  <2>5. qAnswer' = [call |-> call, ok |-> TRUE, value |-> SubSeq(QueueItems, 1, n)]
    BY <1>2, <2>1, <2>3 DEF qOk
  <2>6. CASE get
    <3>1. QueueItems' = SubSeq(QueueItems, n + 1, Len(QueueItems))
      BY <1>2, <2>3, <2>4, <2>6
    <3>2. call = <<"get", n>>
      BY <2>6 DEF call
    <3>3. ItemQueueSpec!Answers(<<"get", n>>, SubSeq(QueueItems, 1, n))
      BY <2>5, <3>2 DEF ItemQueueSpec!Answers
    <3>4. ItemQueueSpec!Get
      BY <1>2, <2>2, <3>1, <3>3 DEF ItemQueueSpec!Get
    <3> QED BY <3>4 DEF ItemQueueSpec!Next
  <2>7. CASE ~ get
    <3>1. QueueItems' = QueueItems
      BY <1>2, <2>3, <2>4, <2>7
    <3>2. call = <<"peek", n>>
      BY <2>7 DEF call
    <3>3. ItemQueueSpec!Answers(<<"peek", n>>, SubSeq(QueueItems, 1, n))
      BY <2>5, <3>2 DEF ItemQueueSpec!Answers
    <3>4. ItemQueueSpec!Peek
      BY <1>2, <2>2, <3>1, <3>3 DEF ItemQueueSpec!Peek
    <3> QED BY <3>4 DEF ItemQueueSpec!Next
  <2> QED BY <2>6, <2>7
<1> QED BY <1>3, <1>4

LEMMA PutSimulates ==
  ASSUME SmallStack, NEW new \in Seq(Item), qum_PUT(new)
  PROVE  /\ QueueItems /= NoQueue /\ QueueItems' = QueueItems \o new
         /\ qAnswer' = qOk(<<"put">> \o new, <<>>)
<1>1. /\ q /= NoQueue /\ q' = [q EXCEPT !.append = @ \o new]
      /\ qAnswer' = qOk(<<"put">> \o new, <<>>)
  BY DEF qum_PUT
<1>2. Ordered(q) /\ QueueItems = Items(q) /\ QueueItems /= NoQueue
  BY <1>1, Stands DEF SmallStack
<1> DEFINE t == [q EXCEPT !.append = @ \o new]
<1>3. Ordered(t) /\ Items(t) = Items(q) \o new
  BY <1>2, PutOrdered, PutItems
<1> HIDE DEF t
<1>4. q' = t
  BY <1>1 DEF t
<1> QED BY <1>1, <1>2, <1>3, <1>4, StandsNext

LEMMA UngetSimulates ==
  ASSUME SmallStack, NEW item \in Item, qum_UNGET(item)
  PROVE  ItemQueueSpec!Unget
<1>1. q /= NoQueue /\ qAnswer' = qOk(<<"unget", item>>, <<>>)
  BY DEF qum_UNGET
<1>2. Ordered(q) /\ QueueItems = Items(q) /\ QueueItems /= NoQueue
  BY <1>1, Stands DEF SmallStack
<1>3. QueueItems' = <<item>> \o QueueItems
  <2>1. CASE q.at = 0 /\ q' = [q EXCEPT !.unget = Append(@, item)]
    <3> DEFINE t == [q EXCEPT !.unget = Append(@, item)]
    <3>1. Ordered(t) /\ Items(t) = <<item>> \o Items(q)
      BY <1>2, <2>1, UngetOrdered, UngetItems
    <3>2. q' = t
      BY <2>1
    <3> HIDE DEF t
    <3> QED BY <1>2, <3>1, <3>2, StandsNext
  <2>2. CASE q.at > 0 /\ q' = [q EXCEPT !.at = @ - 1, !.queue[q.at] = item]
    <3> DEFINE t == [q EXCEPT !.at = @ - 1, !.queue[q.at] = item]
    <3>1. Ordered(t) /\ Items(t) = <<item>> \o Items(q)
      BY <1>2, <2>2, UngetOrdered, UngetItems
    <3>2. q' = t
      BY <2>2
    <3> HIDE DEF t
    <3> QED BY <1>2, <3>1, <3>2, StandsNext
  <2> QED BY <2>1, <2>2 DEF qum_UNGET
<1>4. ItemQueueSpec!Answers(<<"unget", item>>, <<>>)
  BY <1>1 DEF qOk, ItemQueueSpec!Answers
<1> QED BY <1>2, <1>3, <1>4 DEF ItemQueueSpec!Unget

LEMMA OtherSimulate ==
  ASSUME SmallStack
  PROVE  /\ qu_new => ItemQueueSpec!Create
         /\ qum_CLEAR => ItemQueueSpec!Clear
         /\ qum_DESTROY => ItemQueueSpec!Destroy
         /\ qum_SIZE => ItemQueueSpec!Size
<1>1. Ordered(qEmpty) /\ Items(qEmpty) = <<>>
  BY EmptyOrdered, EmptyItems
<1>2. q' = qEmpty => QueueItems' = <<>>
  BY <1>1, StandsNext
<1>3. ASSUME qu_new
      PROVE  ItemQueueSpec!Create
  <2>1. q = NoQueue /\ q' = qEmpty /\ qAnswer' = qOk(<<"new">>, <<>>)
    BY <1>3 DEF qu_new
  <2>2. QueueItems = NoQueue
    BY <2>1 DEF QueueItems
  <2> QED BY <1>2, <2>1, <2>2 DEF qOk, ItemQueueSpec!Create, ItemQueueSpec!Answers
<1>4. ASSUME qum_CLEAR
      PROVE  ItemQueueSpec!Clear
  <2>1. q /= NoQueue /\ q' = qEmpty /\ qAnswer' = qOk(<<"clear">>, <<>>)
    BY <1>4 DEF qum_CLEAR
  <2>2. QueueItems /= NoQueue
    BY <2>1, Stands DEF SmallStack
  <2> QED BY <1>2, <2>1, <2>2 DEF qOk, ItemQueueSpec!Clear, ItemQueueSpec!Answers
<1>5. ASSUME qum_DESTROY
      PROVE  ItemQueueSpec!Destroy
  <2>1. q /= NoQueue /\ q' = NoQueue /\ qAnswer' = qOk(<<"destroy">>, <<>>)
    BY <1>5 DEF qum_DESTROY
  <2>2. QueueItems /= NoQueue
    BY <2>1, Stands DEF SmallStack
  <2>3. QueueItems' = NoQueue
    BY <2>1 DEF QueueItems
  <2> QED BY <2>1, <2>2, <2>3 DEF qOk, ItemQueueSpec!Destroy, ItemQueueSpec!Answers
<1>6. ASSUME qum_SIZE
      PROVE  ItemQueueSpec!Size
  <2>1. q /= NoQueue /\ q' = q /\ qAnswer' = qOk(<<"size">>, <<qsize(q)>>)
    BY <1>6 DEF qum_SIZE
  <2>2. QueueItems /= NoQueue /\ Len(QueueItems) = qsize(q)
    BY <2>1, Stands DEF SmallStack
  <2>3. QueueItems' = QueueItems
    BY <2>1 DEF QueueItems
  <2> QED BY <2>1, <2>2, <2>3 DEF qOk, ItemQueueSpec!Size, ItemQueueSpec!Answers
<1> QED BY <1>3, <1>4, <1>5, <1>6

LEMMA QueueSimulates ==
  ASSUME SmallStack, [QueueNext]_qVars
  PROVE  [ItemQueueSpec!Next]_<<QueueItems, qAnswer>>
<1>1. CASE qu_new \/ qum_CLEAR \/ qum_DESTROY \/ qum_SIZE
  BY <1>1, OtherSimulate DEF ItemQueueSpec!Next
<1>2. CASE \E n \in 0 .. MaxItems + 1, get \in BOOLEAN : qum_PEEK(n, get)
  BY <1>2, PeekSimulates
<1> DEFINE Puts == {<<x>> : x \in Item} \cup (Item \X Item)
<1>3. ASSUME NEW new \in Puts, new \in Seq(Item), qum_PUT(new)
      PROVE  ItemQueueSpec!Next
  <2>1. new \in Seq(Item)
    BY <1>3
  <2>2. /\ QueueItems /= NoQueue /\ QueueItems' = QueueItems \o new
        /\ qAnswer' = qOk(<<"put">> \o new, <<>>)
    BY <1>3, <2>1, PutSimulates
  <2>3. ItemQueueSpec!Answers(<<"put">> \o new, <<>>)
    BY <2>2 DEF qOk, ItemQueueSpec!Answers
  <2>4. ItemQueueSpec!Put
    BY <2>2, <2>3 DEF ItemQueueSpec!Put
  <2> QED BY <2>4 DEF ItemQueueSpec!Next
<1>4. CASE (\E x \in Item : qum_PUT(<<x>>)) \/ (\E x, y \in Item : qum_PUT(<<x, y>>))
  <2>1. \A x, y \in Item : <<x>> \in Seq(Item) /\ <<x, y>> \in Seq(Item)
    OBVIOUS
  <2>2. \A x, y \in Item : <<x>> \in Puts /\ <<x, y>> \in Puts
    OBVIOUS
  <2> HIDE DEF Puts
  <2> QED BY <1>3, <1>4, <2>1, <2>2
<1>5. CASE \E x \in Item : qum_UNGET(x)
  BY <1>5, UngetSimulates DEF ItemQueueSpec!Next
<1>6. CASE UNCHANGED qVars
  BY <1>6 DEF qVars, QueueItems
<1> QED BY <1>1, <1>2, <1>4, <1>5, <1>6 DEF QueueNext, qums_objcmd

-----------------------------------------------------------------------------

\* The methods of a queue are those of one sequence, whichever lists its items
\* are spread over, for any items and any number of them: put, unget, get and
\* peek answer them in order, and the swaps of the lists lose and reorder
\* nothing, as long as no more than two items are put back at a time.
THEOREM QueueRefines == MaxUnget <= 2 => (QueueSpec => QueueIsASequence)
<1> SUFFICES ASSUME MaxUnget <= 2
             PROVE  QueueSpec => QueueIsASequence
  OBVIOUS
<1>1. QueueInit => SmallStack
  BY DEF QueueInit, SmallStack, QueueInv
<1>2. SmallStack /\ [QueueNext]_qVars => SmallStack'
  BY SmallStep
<1>3. QueueInit => ItemQueueSpec!Init
  BY DEF QueueInit, ItemQueueSpec!Init, QueueItems, qOk
<1>4. SmallStack /\ [QueueNext]_qVars => [ItemQueueSpec!Next]_<<QueueItems, qAnswer>>
  BY QueueSimulates
<1> QED BY <1>1, <1>2, <1>3, <1>4, PTL DEF QueueSpec, QueueIsASequence, ItemQueueSpec!Spec

-----------------------------------------------------------------------------
(* Piles *)

LEMMA ReverseConcat ==
  ASSUME NEW v \in Seq(Item), NEW w \in Seq(Item)
  PROVE  Reverse(v \o w) = Reverse(w) \o Reverse(v)
<1> DEFINE c == v \o w
           rc == Reverse(c)
           rv == Reverse(v)
           rw == Reverse(w)
           r == rw \o rv
           m == Len(v)
           n == Len(w)
           l == m + n
<1>1. m \in Nat /\ n \in Nat /\ l = m + n
  OBVIOUS
<1>2. /\ c \in Seq(Item) /\ Len(c) = l
      /\ \A i \in 1 .. l : c[i] = IF i <= m THEN v[i] ELSE w[i - m]
  BY ConcatProperties
<1>3. rv \in Seq(Item) /\ Len(rv) = m /\ \A i \in 1 .. m : rv[i] = v[m - i + 1]
  BY Reversed
<1>4. rw \in Seq(Item) /\ Len(rw) = n /\ \A i \in 1 .. n : rw[i] = w[n - i + 1]
  BY Reversed
<1> HIDE DEF c, rv, rw, m, n, l
<1>5. rc \in Seq(Item) /\ Len(rc) = l /\ \A i \in 1 .. l : rc[i] = c[l - i + 1]
  <2>1. rc \in Seq(Item) /\ Len(rc) = Len(c) /\ \A i \in 1 .. Len(c) : rc[i] = c[Len(c) - i + 1]
    BY <1>2, Reversed
  <2> HIDE DEF rc
  <2> QED BY <1>2, <2>1
<1>6. /\ r \in Seq(Item) /\ Len(r) = l
      /\ \A i \in 1 .. l : r[i] = IF i <= n THEN rw[i] ELSE rv[i - n]
  <2>1. /\ r \in Seq(Item) /\ Len(r) = Len(rw) + Len(rv)
        /\ \A i \in 1 .. Len(rw) + Len(rv) : r[i] = IF i <= Len(rw) THEN rw[i] ELSE rv[i - Len(rw)]
    BY <1>3, <1>4, ConcatProperties
  <2>2. n + m = l
    BY <1>1
  <2> HIDE DEF r
  <2> QED BY <1>3, <1>4, <2>1, <2>2
<1> HIDE DEF rc, r
<1>7. ASSUME NEW i \in 1 .. l PROVE rc[i] = r[i]
  <2>1. CASE i <= n
    <3>1. /\ i \in 1 .. n /\ l - i + 1 \in 1 .. l
          /\ ~(l - i + 1 <= m) /\ l - i + 1 - m = n - i + 1
      BY <1>1, <2>1
    <3> DEFINE j == l - i + 1
    <3>2. j \in 1 .. l /\ ~(j <= m) /\ j - m = n - i + 1
      BY <1>1, <2>1
    <3> HIDE DEF j
    <3>3. c[j] = w[n - i + 1]
      BY <1>2, <3>2
    <3> QED BY <1>4, <1>5, <1>6, <2>1, <3>1, <3>3 DEF j
  <2>2. CASE ~(i <= n)
    <3>1. /\ i - n \in 1 .. m /\ l - i + 1 \in 1 .. l
          /\ l - i + 1 <= m /\ m - (i - n) + 1 = l - i + 1
      BY <1>1, <2>2
    <3>2. rv[i - n] = v[m - (i - n) + 1]
      BY <1>3, <3>1
    <3>3. rv[i - n] = v[l - i + 1]
      BY <3>1, <3>2
    <3> QED BY <1>2, <1>5, <1>6, <2>2, <3>1, <3>3
  <2> QED BY <2>1, <2>2
<1>8. rc = r
  BY <1>5, <1>6, <1>7, SeqEqual
<1> QED BY <1>8 DEF rc, c, r, rv, rw

LEMMA ReverseTwice ==
  ASSUME NEW v \in Seq(Item)
  PROVE  Reverse(Reverse(v)) = v
<1> DEFINE r == Reverse(v)
           t == Reverse(r)
<1>1. /\ r \in Seq(Item) /\ Len(r) = Len(v) /\ Len(v) \in Nat
      /\ \A i \in 1 .. Len(v) : r[i] = v[Len(v) - i + 1]
  BY Reversed
<1> HIDE DEF r
<1>2. /\ t \in Seq(Item) /\ Len(t) = Len(v)
      /\ \A i \in 1 .. Len(v) : t[i] = r[Len(v) - i + 1]
  BY <1>1, Reversed
<1> HIDE DEF t
<1>3. ASSUME NEW i \in 1 .. Len(v) PROVE t[i] = v[i]
  <2>1. Len(v) - i + 1 \in 1 .. Len(v) /\ Len(v) - (Len(v) - i + 1) + 1 = i
    BY <1>1
  <2> QED BY <1>1, <1>2, <2>1
<1>4. t = v
  BY <1>1, <1>2, <1>3, SeqEqual
<1> QED BY <1>4 DEF r, t

\* The end of a list is the top of the pile, its beginning what lies below.
LEMMA ReversedParts ==
  ASSUME NEW v \in Seq(Item), NEW n \in 0 .. Len(v)
  PROVE  /\ SubSeq(v, Len(v) - n + 1, Len(v)) \in Seq(Item)
         /\ SubSeq(v, 1, Len(v) - n) \in Seq(Item)
         /\ Reverse(SubSeq(v, Len(v) - n + 1, Len(v))) = SubSeq(Reverse(v), 1, n)
         /\ Reverse(SubSeq(v, 1, Len(v) - n)) = SubSeq(Reverse(v), n + 1, Len(v))
<1> DEFINE r == Reverse(v)
           d == Len(v)
           a == SubSeq(v, d - n + 1, d)
           b == SubSeq(v, 1, d - n)
           ra == Reverse(a)
           rb == Reverse(b)
<1>1. /\ r \in Seq(Item) /\ Len(r) = d /\ d \in Nat /\ n \in 0 .. d
      /\ \A i \in 1 .. d : r[i] = v[d - i + 1]
  BY Reversed
<1>2. /\ a \in Seq(Item) /\ Len(a) = n
      /\ \A i \in 1 .. n : a[i] = v[d - n + i]
  OBVIOUS
<1>3. /\ b \in Seq(Item) /\ Len(b) = d - n
      /\ \A i \in 1 .. d - n : b[i] = v[i]
  OBVIOUS
<1> HIDE DEF r, d, a, b
<1>4. /\ ra \in Seq(Item) /\ Len(ra) = n
      /\ \A i \in 1 .. n : ra[i] = a[n - i + 1]
  BY <1>2, Reversed
<1>5. /\ rb \in Seq(Item) /\ Len(rb) = d - n
      /\ \A i \in 1 .. d - n : rb[i] = b[d - n - i + 1]
  <2>1. /\ rb \in Seq(Item) /\ Len(rb) = Len(b)
        /\ \A i \in 1 .. Len(b) : rb[i] = b[Len(b) - i + 1]
    BY <1>3, Reversed
  <2> HIDE DEF rb
  <2> QED BY <1>3, <2>1
<1> HIDE DEF ra, rb
<1>6. ra = SubSeq(r, 1, n)
  <2>1. /\ SubSeq(r, 1, n) \in Seq(Item) /\ Len(SubSeq(r, 1, n)) = n
        /\ \A i \in 1 .. n : SubSeq(r, 1, n)[i] = r[i]
    BY <1>1
  <2>2. ASSUME NEW i \in 1 .. n PROVE ra[i] = SubSeq(r, 1, n)[i]
    <3>1. /\ i \in 1 .. d /\ n - i + 1 \in 1 .. n
          /\ d - n + (n - i + 1) = d - i + 1
      BY <1>1
    <3>2. ra[i] = v[d - n + (n - i + 1)]
      BY <1>2, <1>4, <3>1
    <3>3. ra[i] = v[d - i + 1]
      BY <3>1, <3>2
    <3> QED BY <1>1, <2>1, <3>1, <3>3
  <2> QED BY <1>4, <2>1, <2>2, SeqEqual
<1>7. rb = SubSeq(r, n + 1, d)
  <2>1. /\ SubSeq(r, n + 1, d) \in Seq(Item) /\ Len(SubSeq(r, n + 1, d)) = d - n
        /\ \A i \in 1 .. d - n : SubSeq(r, n + 1, d)[i] = r[n + i]
    BY <1>1
  <2>2. ASSUME NEW i \in 1 .. d - n PROVE rb[i] = SubSeq(r, n + 1, d)[i]
    <3>1. /\ n + i \in 1 .. d /\ d - n - i + 1 \in 1 .. d - n
          /\ d - (n + i) + 1 = d - n - i + 1
      BY <1>1
    <3>2. rb[i] = v[d - n - i + 1]
      BY <1>3, <1>5, <3>1
    <3>3. r[n + i] = v[d - (n + i) + 1]
      BY <1>1, <3>1
    <3>4. r[n + i] = v[d - n - i + 1]
      BY <3>1, <3>3
    <3> QED BY <2>1, <3>2, <3>4
  <2> QED BY <1>5, <2>1, <2>2, SeqEqual
<1> QED BY <1>2, <1>3, <1>6, <1>7 DEF r, d, a, b, ra, rb

LEMMA TurnedIsReverse ==
  ASSUME NEW v \in Seq(Item)
  PROVE  ItemStackSpec!Turned(v) = Reverse(v)
<1> DEFINE t == ItemStackSpec!Turned(v)
           r == Reverse(v)
<1>1. /\ r \in Seq(Item) /\ Len(r) = Len(v) /\ Len(v) \in Nat
      /\ \A i \in 1 .. Len(v) : r[i] = v[Len(v) - i + 1]
  BY Reversed
<1>2. t = [i \in 1 .. Len(v) |-> v[Len(v) - i + 1]]
  BY DEF ItemStackSpec!Turned
<1> HIDE DEF r, t
<1>3. \A i \in 1 .. Len(v) : v[Len(v) - i + 1] \in Item
  OBVIOUS
<1>4. t \in Seq(Item) /\ Len(t) = Len(v) /\ \A i \in 1 .. Len(v) : t[i] = v[Len(v) - i + 1]
  BY <1>1, <1>2, <1>3
<1>5. t = r
  BY <1>1, <1>4, SeqEqual
<1> QED BY <1>5 DEF r, t

-----------------------------------------------------------------------------
(* Rotations *)

\* Some number of steps at once, no more than a whole turn.
Rotated(s, k) == [i \in 1 .. Len(s) |-> IF i + k <= Len(s) THEN s[i + k] ELSE s[i + k - Len(s)]]

LEMMA RotatedItems ==
  ASSUME NEW s \in Seq(Item), NEW k \in 0 .. Len(s)
  PROVE  /\ Rotated(s, k) \in Seq(Item) /\ Len(Rotated(s, k)) = Len(s)
         /\ \A i \in 1 .. Len(s) :
              Rotated(s, k)[i] = IF i + k <= Len(s) THEN s[i + k] ELSE s[i + k - Len(s)]
<1> DEFINE n == Len(s)
           at(i) == IF i + k <= n THEN s[i + k] ELSE s[i + k - n]
<1>1. n \in Nat /\ k \in 0 .. n /\ (\A i \in 1 .. n : s[i] \in Item)
  OBVIOUS
<1>2. ASSUME NEW i \in 1 .. n PROVE at(i) \in Item
  <2>1. i + k <= n => i + k \in 1 .. n
    BY <1>1
  <2>2. ~(i + k <= n) => i + k - n \in 1 .. n
    BY <1>1
  <2> QED BY <1>1, <2>1, <2>2
<1>3. Rotated(s, k) = [i \in 1 .. n |-> at(i)]
  BY DEF Rotated
<1> HIDE DEF at, n
<1>4. /\ [i \in 1 .. n |-> at(i)] \in Seq(Item) /\ Len([i \in 1 .. n |-> at(i)]) = n
      /\ \A i \in 1 .. n : [j \in 1 .. n |-> at(j)][i] = at(i)
  BY <1>1, <1>2
<1> QED BY <1>3, <1>4 DEF at, n

LEMMA RotatedNone ==
  ASSUME NEW s \in Seq(Item)
  PROVE  Rotated(s, 0) = s
<1>1. /\ 0 \in 0 .. Len(s) /\ Len(s) \in Nat
      /\ \A i \in 1 .. Len(s) : i + 0 <= Len(s) /\ i + 0 = i
  OBVIOUS
<1>2. /\ Rotated(s, 0) \in Seq(Item) /\ Len(Rotated(s, 0)) = Len(s)
      /\ \A i \in 1 .. Len(s) :
           Rotated(s, 0)[i] = IF i + 0 <= Len(s) THEN s[i + 0] ELSE s[i + 0 - Len(s)]
  BY <1>1, RotatedItems
<1>3. \A i \in 1 .. Len(s) : Rotated(s, 0)[i] = s[i]
  BY <1>1, <1>2
<1> QED BY <1>2, <1>3, SeqEqual

LEMMA RotatedStep ==
  ASSUME NEW s \in Seq(Item), NEW k \in Nat, k < Len(s)
  PROVE  ItemStackSpec!Step(Rotated(s, k)) = Rotated(s, k + 1)
<1> DEFINE n == Len(s)
           r == Rotated(s, k)
           t == Rotated(s, k + 1)
           u == ItemStackSpec!Step(r)
<1>1. n \in Nat /\ k < n /\ k \in 0 .. n /\ k + 1 \in 0 .. n
  OBVIOUS
<1>2. /\ r \in Seq(Item) /\ Len(r) = n
      /\ \A i \in 1 .. n : r[i] = IF i + k <= n THEN s[i + k] ELSE s[i + k - n]
  BY <1>1, RotatedItems
<1>3. /\ t \in Seq(Item) /\ Len(t) = n
      /\ \A i \in 1 .. n : t[i] = IF i + (k + 1) <= n THEN s[i + (k + 1)] ELSE s[i + (k + 1) - n]
  BY <1>1, RotatedItems
<1>4. u = Tail(r) \o <<Head(r)>>
  BY DEF ItemStackSpec!Step
<1> HIDE DEF n, r, t, u
<1>5. /\ u \in Seq(Item) /\ Len(u) = n
      /\ \A i \in 1 .. n : u[i] = IF i < n THEN r[i + 1] ELSE r[1]
  <2>1. r # <<>> /\ r[1] \in Item /\ Head(r) = r[1]
    BY <1>1, <1>2
  <2>2. Tail(r) \in Seq(Item) /\ Len(Tail(r)) = n - 1 /\ \A i \in 1 .. n - 1 : Tail(r)[i] = r[i + 1]
    BY <1>1, <1>2, <2>1
  <2> DEFINE a == Tail(r)
             x == Head(r)
  <2>3. a \in Seq(Item) /\ Len(a) = n - 1 /\ x \in Item /\ n \in Nat /\ n > 0
    BY <1>1, <2>1, <2>2
  <2> HIDE DEF a, x
  <2>4. /\ a \o <<x>> \in Seq(Item) /\ Len(a \o <<x>>) = n
        /\ \A i \in 1 .. n : (a \o <<x>>)[i] = IF i < n THEN a[i] ELSE x
    BY <2>3
  <2>5. \A i \in 1 .. n : i < n => i \in 1 .. n - 1
    BY <2>3
  <2>6. \A i \in 1 .. n : i < n => a[i] = r[i + 1]
    BY <2>2, <2>5 DEF a
  <2>7. x = r[1]
    BY <2>1 DEF x
  <2>8. u = a \o <<x>>
    BY <1>4 DEF a, x
  <2> QED BY <2>4, <2>6, <2>7, <2>8
<1>6. ASSUME NEW i \in 1 .. n PROVE u[i] = t[i]
  <2>1. CASE i < n
    <3>1. i + 1 \in 1 .. n /\ i + 1 + k = i + (k + 1)
      BY <1>1, <2>1
    <3>2. u[i] = r[i + 1]
      BY <1>5, <2>1
    <3>3. r[i + 1] = IF i + 1 + k <= n THEN s[i + 1 + k] ELSE s[i + 1 + k - n]
      BY <1>2, <3>1
    <3> QED BY <1>3, <3>1, <3>2, <3>3
  <2>2. CASE ~(i < n)
    <3>1. 1 \in 1 .. n /\ 1 + k <= n /\ ~(i + (k + 1) <= n) /\ i + (k + 1) - n = 1 + k
      BY <1>1, <2>2
    <3>2. u[i] = r[1] /\ r[1] = s[1 + k]
      BY <1>2, <1>5, <2>2, <3>1
    <3>3. t[i] = s[1 + k]
      BY <1>3, <3>1
    <3> QED BY <3>2, <3>3
  <2> QED BY <2>1, <2>2
<1>7. u = t
  BY <1>3, <1>5, <1>6, SeqEqual
<1> QED BY <1>7 DEF n, r, t, u

\* So many single steps are one rotation.  The recursive function exists because
\* its closed form satisfies its equation; it has no other value, or there were
\* a first step that went wrong.
LEMMA SteppedIsRotated ==
  ASSUME NEW s \in Seq(Item), NEW k \in 0 .. Len(s)
  PROVE  ItemStackSpec!Stepped(k, s) = Rotated(s, k)
<1> DEFINE Body(f) == [i \in 0 .. k |-> IF i = 0 THEN s ELSE ItemStackSpec!Step(f[i - 1])]
           closed == [i \in 0 .. k |-> Rotated(s, i)]
           after == CHOOSE f : f = Body(f)
<1>1. k \in Nat /\ Len(s) \in Nat /\ k <= Len(s)
  OBVIOUS
<1>2. ItemStackSpec!Stepped(k, s) = after[k]
  BY DEF ItemStackSpec!Stepped
<1>3. ASSUME NEW i \in 0 .. k, i # 0
      PROVE  Rotated(s, i) = ItemStackSpec!Step(Rotated(s, i - 1)) /\ i - 1 \in 0 .. k
  <2>1. i - 1 \in Nat /\ i - 1 < Len(s) /\ i - 1 \in 0 .. k /\ i - 1 + 1 = i
    BY <1>1, <1>3
  <2>2. ItemStackSpec!Step(Rotated(s, i - 1)) = Rotated(s, i - 1 + 1)
    BY <2>1, RotatedStep
  <2> QED BY <2>1, <2>2
<1>4. closed = Body(closed)
  <2>1. Rotated(s, 0) = s
    BY RotatedNone
  <2>2. ASSUME NEW i \in 0 .. k
        PROVE  Rotated(s, i) = IF i = 0 THEN s ELSE ItemStackSpec!Step(closed[i - 1])
    <3>1. CASE i = 0
      BY <2>1, <3>1
    <3>2. CASE i # 0
      BY <1>3, <3>2
    <3> QED BY <3>1, <3>2
  <2> QED BY <2>2
<1>5. after = Body(after)
  <2> HIDE DEF Body, closed
  <2>1. \E f : f = Body(f)
    BY <1>4
  <2> QED BY <2>1
<1>6. \A i \in 0 .. k : after[i] = IF i = 0 THEN s ELSE ItemStackSpec!Step(after[i - 1])
  <2> HIDE DEF after
  <2> QED BY <1>5
<1> HIDE DEF after, closed, Body
<1> DEFINE Wrong == {i \in 0 .. k : after[i] # Rotated(s, i)}
<1>7. Wrong = {}
  <2> SUFFICES ASSUME Wrong # {} PROVE FALSE
    OBVIOUS
  <2>1. PICK i \in Wrong : \A j \in Wrong : i <= j
    <3>1. Wrong \subseteq Nat
      OBVIOUS
    <3> QED BY <3>1, LeastOfNat
  <2>2. i \in 0 .. k /\ after[i] # Rotated(s, i)
    OBVIOUS
  <2>3. i # 0
    BY <1>6, <2>2, RotatedNone
  <2>4. /\ Rotated(s, i) = ItemStackSpec!Step(Rotated(s, i - 1))
        /\ i - 1 \in 0 .. k /\ ~(i <= i - 1)
    BY <1>3, <2>2, <2>3
  <2>5. after[i - 1] = Rotated(s, i - 1)
    BY <2>1, <2>4
  <2> QED BY <1>6, <2>2, <2>3, <2>4, <2>5
<1>8. after[k] = Rotated(s, k)
  BY <1>1, <1>7
<1> QED BY <1>2, <1>8

-----------------------------------------------------------------------------
(* The methods of a stack *)

Stacks == [stack : Seq(Item), max : Nat]

LEMMA PileNow ==
  ASSUME StackTypeOK, st /= NoStack
  PROVE  /\ st \in Stacks /\ st.stack \in Seq(Item) /\ depth \in Nat /\ depth = Len(st.stack)
         /\ Pile = Reverse(st.stack) /\ Pile \in Seq(Item) /\ Len(Pile) = depth
         /\ Pile /= NoStack
<1>1. st \in Stacks
  BY DEF StackTypeOK, Stacks
<1>2. st.stack \in Seq(Item)
  BY <1>1 DEF Stacks
<1>3. Reverse(st.stack) \in Seq(Item) /\ Len(Reverse(st.stack)) = Len(st.stack)
  BY <1>2, Reversed
<1>4. Pile = Reverse(st.stack)
  BY DEF Pile
<1>5. NoStack \notin Seq(Item)
  BY StackAssumption
<1>6. depth = Len(st.stack) /\ Len(st.stack) \in Nat
  BY <1>2 DEF depth
<1> QED BY <1>1, <1>2, <1>3, <1>4, <1>5, <1>6

LEMMA PileNext ==
  ASSUME st' \in Stacks
  PROVE  Pile' = Reverse(st'.stack) /\ StackTypeOK'
<1>1. NoStack \notin Stacks
  BY StackAssumption DEF Stacks
<1>2. st' /= NoStack
  BY <1>1
<1> QED BY <1>2 DEF Pile, StackTypeOK, Stacks

LEMMA EmptyPile ==
  ASSUME st' = stEmpty
  PROVE  Pile' = <<>> /\ StackTypeOK'
<1>1. stEmpty \in Stacks /\ stEmpty.stack = <<>>
  BY DEF stEmpty, Stacks
<1>2. Pile' = Reverse(st'.stack) /\ StackTypeOK'
  BY <1>1, PileNext
<1> QED BY <1>1, <1>2, ReverseEmpty

\* The part of a pile a peek answers, and what a pop leaves.
LEMMA PeekPile ==
  ASSUME StackTypeOK, st /= NoStack, NEW n \in 0 .. depth
  PROVE  /\ TopItems(n, FALSE) = SubSeq(Pile, 1, n)
         /\ TopItems(n, TRUE) = ItemStackSpec!Turned(SubSeq(Pile, 1, n))
         /\ Popped(n) \in Stacks
         /\ Reverse(Popped(n).stack) = SubSeq(Pile, n + 1, Len(Pile))
<1> DEFINE v == st.stack
           top == SubSeq(v, depth - n + 1, depth)
           rest == SubSeq(v, 1, depth - n)
<1>1. /\ st \in Stacks /\ v \in Seq(Item) /\ depth \in Nat /\ depth = Len(v)
      /\ Pile = Reverse(v) /\ Pile \in Seq(Item) /\ Len(Pile) = depth
  BY PileNow
<1>2. n \in 0 .. Len(v)
  BY <1>1
<1>3. /\ top \in Seq(Item) /\ rest \in Seq(Item)
      /\ Reverse(top) = SubSeq(Pile, 1, n) /\ Reverse(rest) = SubSeq(Pile, n + 1, Len(Pile))
  <2>1. /\ SubSeq(v, Len(v) - n + 1, Len(v)) \in Seq(Item)
        /\ SubSeq(v, 1, Len(v) - n) \in Seq(Item)
        /\ Reverse(SubSeq(v, Len(v) - n + 1, Len(v))) = SubSeq(Reverse(v), 1, n)
        /\ Reverse(SubSeq(v, 1, Len(v) - n)) = SubSeq(Reverse(v), n + 1, Len(v))
    <3> HIDE DEF v
    <3> QED BY <1>1, <1>2, ReversedParts
  <2> HIDE DEF v
  <2> QED BY <1>1, <2>1
<1>4. TopItems(n, FALSE) = Reverse(top) /\ TopItems(n, TRUE) = top
  BY DEF TopItems
<1>5. TopItems(n, TRUE) = ItemStackSpec!Turned(SubSeq(Pile, 1, n))
  <2> HIDE DEF top
  <2>1. Reverse(Reverse(top)) = top /\ Reverse(top) \in Seq(Item)
    BY <1>3, ReverseTwice, Reversed
  <2>2. ItemStackSpec!Turned(Reverse(top)) = Reverse(Reverse(top))
    BY <2>1, TurnedIsReverse
  <2> QED BY <1>3, <1>4, <2>1, <2>2
<1>6. Popped(n) \in Stacks /\ Popped(n).stack = rest
  <2>1. CASE n = depth
    <3>1. Popped(n) = stEmpty
      BY <2>1 DEF Popped
    <3>2. rest = <<>>
      <4>1. depth - n = 0
        BY <1>1, <2>1
      <4> QED BY <1>1, <4>1
    <3>3. stEmpty \in Stacks /\ stEmpty.stack = <<>>
      BY DEF stEmpty, Stacks
    <3> HIDE DEF rest
    <3> QED BY <3>1, <3>2, <3>3
  <2>2. CASE n # depth /\ depth - n < st.max \div 2
    <3>1. Popped(n) = [stack |-> rest, max |-> depth - n]
      BY <2>2 DEF Popped
    <3>2. depth - n \in Nat
      BY <1>1
    <3> HIDE DEF rest
    <3> QED BY <1>3, <3>1, <3>2 DEF Stacks
  <2>3. CASE n # depth /\ ~(depth - n < st.max \div 2)
    <3>1. Popped(n) = [st EXCEPT !.stack = rest]
      BY <2>3 DEF Popped
    <3> HIDE DEF rest
    <3> QED BY <1>1, <1>3, <3>1 DEF Stacks
  <2> QED BY <2>1, <2>2, <2>3
<1>7. Reverse(Popped(n).stack) = SubSeq(Pile, n + 1, Len(Pile))
  BY <1>3, <1>6
<1> QED BY <1>3, <1>4, <1>5, <1>6, <1>7

LEMMA PeekSteps ==
  ASSUME StackTypeOK, st /= NoStack, NEW call, NEW n \in Nat,
         NEW pop \in BOOLEAN, NEW revers \in BOOLEAN, NEW ret \in BOOLEAN,
         st_peek(call, n, pop, revers, ret)
  PROVE  /\ StackTypeOK'
         /\ n > Len(Pile) => stAnswer' = stError(call) /\ Pile' = Pile
         /\ n <= Len(Pile) =>
              /\ stAnswer' = stOk(call, IF ~ret THEN <<>>
                                        ELSE IF revers THEN ItemStackSpec!Turned(SubSeq(Pile, 1, n))
                                        ELSE SubSeq(Pile, 1, n))
              /\ Pile' = IF pop THEN SubSeq(Pile, n + 1, Len(Pile)) ELSE Pile
<1>1. depth \in Nat /\ Len(Pile) = depth /\ st \in Stacks
  BY PileNow
<1>2. ASSUME st' = st PROVE StackTypeOK' /\ Pile' = Pile
  BY <1>2 DEF StackTypeOK, Pile
<1>3. CASE n > depth
  <2>1. stAnswer' = stError(call) /\ st' = st
    BY <1>3 DEF st_peek
  <2>2. ~(n <= Len(Pile))
    BY <1>1, <1>3
  <2> QED BY <1>2, <2>1, <2>2
<1>4. CASE ~(n > depth)
  <2>1. n \in 0 .. depth /\ ~(n > Len(Pile))
    BY <1>1, <1>4
  <2>2. /\ stAnswer' = stOk(call, IF ret THEN TopItems(n, revers) ELSE <<>>)
        /\ st' = IF pop THEN Popped(n) ELSE st
    BY <1>4 DEF st_peek
  <2>3. /\ TopItems(n, FALSE) = SubSeq(Pile, 1, n)
        /\ TopItems(n, TRUE) = ItemStackSpec!Turned(SubSeq(Pile, 1, n))
        /\ Popped(n) \in Stacks
        /\ Reverse(Popped(n).stack) = SubSeq(Pile, n + 1, Len(Pile))
    BY <2>1, PeekPile
  <2>4. stAnswer' = stOk(call, IF ~ret THEN <<>>
                               ELSE IF revers THEN ItemStackSpec!Turned(SubSeq(Pile, 1, n))
                               ELSE SubSeq(Pile, 1, n))
    BY <2>2, <2>3
  <2>5. CASE pop
    <3>1. st' = Popped(n)
      BY <2>2, <2>5
    <3>2. Pile' = Reverse(st'.stack) /\ StackTypeOK'
      BY <2>3, <3>1, PileNext
    <3> QED BY <2>1, <2>3, <2>4, <2>5, <3>1, <3>2
  <2>6. CASE ~pop
    BY <1>2, <2>1, <2>2, <2>4, <2>6
  <2> QED BY <2>5, <2>6
<1> QED BY <1>3, <1>4

\* The place stm_ROTATE takes an item from: r steps further down in the circle.
LEMMA RotatedPlace ==
  ASSUME NEW n \in Nat \ {0}, NEW r \in 0 .. n - 1, NEW i \in 1 .. n
  PROVE  (((n - i) + (n - r)) % n) + 1 = IF i + r <= n THEN n - (i + r) + 1 ELSE n - (i + r - n) + 1
<1> DEFINE a == (n - i) + (n - r)
<1>1. a \in Int /\ a = 2 * n - (i + r)
  OBVIOUS
<1>2. CASE i + r <= n
  <2>1. n <= a /\ a < 2 * n
    BY <1>1, <1>2
  <2>2. a % n = a - n
    <3> HIDE DEF a
    <3>1. \A b \in Int : n <= b /\ b < 2 * n => b % n = b - n
      OBVIOUS
    <3> QED BY <1>1, <2>1, <3>1
  <2>3. a - n + 1 = n - (i + r) + 1
    BY <1>1
  <2> QED BY <1>2, <2>2, <2>3
<1>3. CASE ~(i + r <= n)
  <2>1. a \in 0 .. n - 1
    BY <1>1, <1>3
  <2>2. a % n = a
    <3> HIDE DEF a
    <3>1. \A b \in 0 .. n - 1 : b % n = b
      OBVIOUS
    <3> QED BY <2>1, <3>1
  <2>3. a + 1 = n - (i + r - n) + 1
    BY <1>1
  <2> QED BY <1>3, <2>2, <2>3
<1> QED BY <1>2, <1>3

LEMMA RotatedFrom ==
  ASSUME NEW n \in Nat \ {0}, NEW r \in 0 .. n - 1, NEW i \in 1 .. n, NEW d \in Nat
  PROVE  d - n + (((n - i) + (n - r)) % n) + 1
           = d - (IF i + r <= n THEN i + r ELSE i + r - n) + 1
<1> DEFINE x == ((n - i) + (n - r)) % n
<1>1. x + 1 = IF i + r <= n THEN n - (i + r) + 1 ELSE n - (i + r - n) + 1
  BY RotatedPlace
<1>2. x \in Int
  <2> DEFINE m == (n - i) + (n - r)
  <2>1. m \in Int
    OBVIOUS
  <2> HIDE DEF m
  <2>2. \A b \in Int : b % n \in 0 .. n - 1
    OBVIOUS
  <2>3. m % n \in Int
    BY <2>1, <2>2
  <2> QED BY <2>3 DEF m
<1>3. i \in Int /\ r \in Int /\ n \in Int
  OBVIOUS
<1> HIDE DEF x
<1>4. d - n + x + 1 = d - (IF i + r <= n THEN i + r ELSE i + r - n) + 1
  <2>1. CASE i + r <= n
    BY <1>1, <1>2, <1>3, <2>1
  <2>2. CASE ~(i + r <= n)
    BY <1>1, <1>2, <1>3, <2>2
  <2> QED BY <2>1, <2>2
<1> QED BY <1>4 DEF x

\* The list stm_ROTATE writes when it turns the top n items by r steps.
RotatedList(v, n, r) ==
  [p \in 1 .. Len(v) |->
     IF p <= Len(v) - n THEN v[p]
     ELSE v[Len(v) - n + (((p - (Len(v) - n) - 1) + (n - r)) % n) + 1]]

\* It is the pile with its top turned by so many steps.
LEMMA RotatePile ==
  ASSUME NEW v \in Seq(Item), NEW n \in 1 .. Len(v), NEW r \in 0 .. n - 1
  PROVE  /\ RotatedList(v, n, r) \in Seq(Item)
         /\ Reverse(RotatedList(v, n, r))
              = Rotated(SubSeq(Reverse(v), 1, n), r) \o SubSeq(Reverse(v), n + 1, Len(v))
<1> DEFINE w == RotatedList(v, n, r)
           d == Len(v)
           at(p) == IF p <= d - n THEN p ELSE d - n + (((p - (d - n) - 1) + (n - r)) % n) + 1
           rv == Reverse(v)
           top == SubSeq(rv, 1, n)
           below == SubSeq(rv, n + 1, d)
           turned == Rotated(top, r)
           all == turned \o below
           rw == Reverse(w)
<1>1. /\ d \in Nat /\ n \in Nat \ {0} /\ n <= d /\ r \in 0 .. n /\ r \in 0 .. n - 1
      /\ \A p \in 1 .. d : v[p] \in Item
  OBVIOUS
<1>2. \A i \in 1 .. n : d - n + (((n - i) + (n - r)) % n) + 1
                             = d - (IF i + r <= n THEN i + r ELSE i + r - n) + 1
  BY <1>1, RotatedFrom
<1>3. w = [p \in 1 .. d |-> v[at(p)]]
  <2>1. \A p \in 1 .. d : (IF p <= d - n THEN v[p]
                ELSE v[d - n + (((p - (d - n) - 1) + (n - r)) % n) + 1]) = v[at(p)]
    OBVIOUS
  <2> QED BY <2>1 DEF RotatedList
<1>4. /\ rv \in Seq(Item) /\ Len(rv) = d /\ \A i \in 1 .. d : rv[i] = v[d - i + 1]
  BY Reversed
<1>5. ASSUME NEW i \in 1 .. d PROVE at(d - i + 1) = IF i <= n
         THEN d - (IF i + r <= n THEN i + r ELSE i + r - n) + 1 ELSE d - i + 1
  <2> DEFINE p == d - i + 1
  <2>1. p \in 1 .. d
    BY <1>1
  <2>2. CASE i <= n
    <3>1. ~(p <= d - n) /\ p - (d - n) - 1 = n - i /\ i \in 1 .. n
      BY <1>1, <2>2
    <3>2. at(p) = d - n + (((n - i) + (n - r)) % n) + 1
      BY <3>1
    <3>3. d - n + (((n - i) + (n - r)) % n) + 1 = d - (IF i + r <= n THEN i + r ELSE i + r - n) + 1
      BY <1>2, <3>1
    <3>4. at(p) = d - (IF i + r <= n THEN i + r ELSE i + r - n) + 1
      BY <3>2, <3>3
    <3> QED BY <2>2, <3>4 DEF p
  <2>3. CASE ~(i <= n)
    <3>1. p <= d - n
      BY <1>1, <2>3
    <3>2. at(p) = p
      BY <3>1
    <3> QED BY <2>3, <3>2
  <2> QED BY <2>2, <2>3
<1> HIDE DEF at, w
<1>6. ASSUME NEW p \in 1 .. d PROVE at(p) \in 1 .. d
  <2> DEFINE i == d - p + 1
  <2>1. i \in 1 .. d /\ d - i + 1 = p
    BY <1>1
  <2> HIDE DEF i
  <2>2. at(p) = IF i <= n THEN d - (IF i + r <= n THEN i + r ELSE i + r - n) + 1 ELSE d - i + 1
    BY <1>5, <2>1
  <2>3. (IF i <= n THEN d - (IF i + r <= n THEN i + r ELSE i + r - n) + 1 ELSE d - i + 1) \in 1 .. d
    BY <1>1, <2>1
  <2> QED BY <2>2, <2>3
<1> HIDE DEF d, rv
<1>7. w \in Seq(Item) /\ Len(w) = d /\ \A p \in 1 .. d : w[p] = v[at(p)]
  <2>1. \A p \in 1 .. d : v[at(p)] \in Item
    BY <1>1, <1>6
  <2> QED BY <1>1, <1>3, <2>1
<1>8. rw \in Seq(Item) /\ Len(rw) = d /\ \A i \in 1 .. d : rw[i] = v[at(d - i + 1)]
  <2>1. rw \in Seq(Item) /\ Len(rw) = Len(w) /\ \A i \in 1 .. Len(w) : rw[i] = w[Len(w) - i + 1]
    BY <1>7, Reversed
  <2>2. \A i \in 1 .. d : d - i + 1 \in 1 .. d
    BY <1>1
  <2> HIDE DEF rw
  <2> QED BY <1>7, <2>1, <2>2
<1>9. /\ top \in Seq(Item) /\ Len(top) = n /\ \A i \in 1 .. n : top[i] = rv[i]
      /\ below \in Seq(Item) /\ Len(below) = d - n /\ \A i \in 1 .. d - n : below[i] = rv[n + i]
  <2>1. /\ top \in Seq(Item) /\ Len(top) = IF 1 <= n THEN n - 1 + 1 ELSE 0
        /\ \A i \in 1 .. Len(top) : top[i] = rv[1 + i - 1]
    <3>1. 1 \in Nat \ {0} /\ n \in Int /\ n <= Len(rv)
      BY <1>1, <1>4
    <3> QED BY <1>4, <3>1, Part
  <2>2. /\ below \in Seq(Item) /\ Len(below) = IF n + 1 <= d THEN d - (n + 1) + 1 ELSE 0
        /\ \A i \in 1 .. Len(below) : below[i] = rv[n + 1 + i - 1]
    <3>1. n + 1 \in Nat \ {0} /\ d \in Int /\ d <= Len(rv)
      BY <1>1, <1>4
    <3> QED BY <1>4, <3>1, Part
  <2>3. /\ n = (IF 1 <= n THEN n - 1 + 1 ELSE 0)
        /\ d - n = (IF n + 1 <= d THEN d - (n + 1) + 1 ELSE 0)
        /\ \A i \in 1 .. n : 1 + i - 1 = i
        /\ \A i \in 1 .. d - n : n + 1 + i - 1 = n + i
    BY <1>1
  <2> HIDE DEF top, below
  <2>4. Len(top) = n /\ Len(below) = d - n
    BY <2>1, <2>2, <2>3
  <2> QED BY <2>1, <2>2, <2>3, <2>4
<1> HIDE DEF top, below, rw
<1>10. /\ turned \in Seq(Item) /\ Len(turned) = n
       /\ \A i \in 1 .. n : turned[i] = IF i + r <= n THEN top[i + r] ELSE top[i + r - n]
  <2>1. r \in 0 .. Len(top)
    BY <1>1, <1>9
  <2>2. /\ turned \in Seq(Item) /\ Len(turned) = Len(top)
        /\ \A i \in 1 .. Len(top) : turned[i] = IF i + r <= Len(top) THEN top[i + r] ELSE top[i + r - Len(top)]
    BY <1>9, <2>1, RotatedItems
  <2> HIDE DEF turned
  <2> QED BY <1>9, <2>2
<1> HIDE DEF turned
<1>11. /\ all \in Seq(Item) /\ Len(all) = d
       /\ \A i \in 1 .. d : all[i] = IF i <= n THEN turned[i] ELSE below[i - n]
  <2>1. /\ all \in Seq(Item) /\ Len(all) = Len(turned) + Len(below)
        /\ \A i \in 1 .. Len(turned) + Len(below) :
             all[i] = IF i <= Len(turned) THEN turned[i] ELSE below[i - Len(turned)]
    BY <1>9, <1>10, ConcatProperties
  <2>2. n + (d - n) = d
    BY <1>1
  <2> HIDE DEF all
  <2> QED BY <1>9, <1>10, <2>1, <2>2
<1> HIDE DEF all
<1>12. ASSUME NEW i \in 1 .. d PROVE rw[i] = all[i]
  <2> DEFINE j == IF i + r <= n THEN i + r ELSE i + r - n
  <2>1. rw[i] = v[at(d - i + 1)]
    BY <1>8
  <2>2. CASE i <= n
    <3>1. i \in 1 .. n /\ j \in 1 .. n /\ j \in 1 .. d
      BY <1>1, <2>2
    <3>2. turned[i] = top[j]
      BY <1>10, <3>1
    <3>3. at(d - i + 1) = d - j + 1
      BY <1>5, <2>2
    <3> HIDE DEF j
    <3>4. top[j] = v[d - j + 1]
      BY <1>4, <1>9, <3>1
    <3> QED BY <1>11, <2>1, <2>2, <3>2, <3>3, <3>4
  <2>3. CASE ~(i <= n)
    <3>1. i - n \in 1 .. d - n /\ n + (i - n) = i
      BY <1>1, <2>3
    <3>2. below[i - n] = v[d - i + 1]
      BY <1>4, <1>9, <3>1
    <3>3. at(d - i + 1) = d - i + 1
      BY <1>5, <2>3
    <3> QED BY <1>11, <2>1, <2>3, <3>2, <3>3
  <2> QED BY <2>2, <2>3
<1>13. rw = all
  BY <1>8, <1>11, <1>12, SeqEqual
<1> QED BY <1>7, <1>13 DEF w, rw, all, turned, top, below, rv, d

\* What each method does, on the pile.
LEMMA PushSteps ==
  ASSUME StackTypeOK, NEW new \in Seq(Item), stm_PUSH(new)
  PROVE  /\ StackTypeOK' /\ Pile /= NoStack
         /\ Pile' = Reverse(st.stack \o new) /\ Pile = Reverse(st.stack) /\ st.stack \in Seq(Item)
         /\ stAnswer' = stOk(<<"push">> \o new, <<>>)
<1>1. st /= NoStack /\ st' = [st EXCEPT !.stack = st.stack \o new]
  BY DEF stm_PUSH
<1>2. st \in Stacks /\ st.stack \in Seq(Item) /\ Pile = Reverse(st.stack) /\ Pile /= NoStack
  BY <1>1, PileNow
<1>3. st.stack \o new \in Seq(Item)
  BY <1>2
<1>4. st' \in Stacks /\ st'.stack = st.stack \o new
  BY <1>1, <1>2, <1>3 DEF Stacks
<1>5. Pile' = Reverse(st'.stack) /\ StackTypeOK'
  BY <1>4, PileNext
<1>6. stAnswer' = stOk(<<"push">> \o new, <<>>)
  BY DEF stm_PUSH
<1> QED BY <1>2, <1>4, <1>5, <1>6

LEMMA PushSimulates ==
  ASSUME StackTypeOK,
         (\E x \in Item : stm_PUSH(<<x>>)) \/ (\E x, y \in Item : stm_PUSH(<<x, y>>))
  PROVE  StackTypeOK' /\ ItemStackSpec!Next
<1> DEFINE Pushes == {<<x>> : x \in Item} \cup (Item \X Item)
<1>1. PICK new \in Pushes : new \in Seq(Item) /\ stm_PUSH(new)
  <2>1. \A x, y \in Item : <<x>> \in Seq(Item) /\ <<x, y>> \in Seq(Item)
    OBVIOUS
  <2>2. \A x, y \in Item : <<x>> \in Pushes /\ <<x, y>> \in Pushes
    OBVIOUS
  <2> HIDE DEF Pushes
  <2> QED BY <2>1, <2>2
<1>2. /\ StackTypeOK' /\ Pile /= NoStack
      /\ Pile' = Reverse(st.stack \o new) /\ Pile = Reverse(st.stack) /\ st.stack \in Seq(Item)
      /\ stAnswer' = stOk(<<"push">> \o new, <<>>)
  BY <1>1, PushSteps
<1>3. Pile' = ItemStackSpec!Turned(new) \o Pile
  BY <1>1, <1>2, ReverseConcat, TurnedIsReverse
<1>4. ItemStackSpec!Answers(<<"push">> \o new, <<>>)
  BY <1>2 DEF ItemStackSpec!Answers, stOk
<1>5. ItemStackSpec!Push
  BY <1>3, <1>4 DEF ItemStackSpec!Push
<1> QED BY <1>2, <1>5 DEF ItemStackSpec!Next

LEMMA WholePile ==
  ASSUME StackTypeOK, st /= NoStack
  PROVE  SubSeq(Pile, 1, Len(Pile)) = Pile /\ SubSeq(Pile, 0 + 1, Len(Pile)) = Pile
         /\ SubSeq(Pile, 1, 0) = <<>>
<1>1. Pile \in Seq(Item)
  BY PileNow
<1> QED BY <1>1, SubSeqFull

LEMMA GetSimulates ==
  ASSUME StackTypeOK, NEW revers \in BOOLEAN, stm_GET(revers)
  PROVE  StackTypeOK' /\ ItemStackSpec!Next
<1> DEFINE call == IF revers THEN <<"getr">> ELSE <<"get">>
<1>1. /\ st /= NoStack
      /\ IF depth > 0 THEN st_peek(call, depth, FALSE, revers, TRUE)
                      ELSE stAnswer' = stOk(call, <<>>) /\ UNCHANGED st
  BY DEF stm_GET
<1>2. depth \in Nat /\ Len(Pile) = depth /\ Pile \in Seq(Item) /\ Pile /= NoStack
  BY <1>1, PileNow
<1>3. SubSeq(Pile, 1, Len(Pile)) = Pile
  BY <1>1, WholePile
<1>4. /\ StackTypeOK' /\ Pile' = Pile
      /\ stAnswer' = stOk(call, IF revers THEN ItemStackSpec!Turned(Pile) ELSE Pile)
  <2>1. CASE depth > 0
    <3>1. st_peek(call, depth, FALSE, revers, TRUE)
      BY <1>1, <2>1
    <3> HIDE DEF call
    <3>2. /\ StackTypeOK'
          /\ depth <= Len(Pile) =>
               /\ stAnswer' = stOk(call, IF ~TRUE THEN <<>>
                                         ELSE IF revers THEN ItemStackSpec!Turned(SubSeq(Pile, 1, depth))
                                         ELSE SubSeq(Pile, 1, depth))
               /\ Pile' = IF FALSE THEN SubSeq(Pile, depth + 1, Len(Pile)) ELSE Pile
      BY <1>1, <1>2, <3>1, PeekSteps
    <3>3. depth <= Len(Pile)
      BY <1>2
    <3> QED BY <1>2, <1>3, <3>2, <3>3
  <2>2. CASE ~(depth > 0)
    <3>1. stAnswer' = stOk(call, <<>>) /\ st' = st
      BY <1>1, <2>2
    <3>2. Pile = <<>>
      BY <1>2, <2>2, EmptySeq
    <3>3. ItemStackSpec!Turned(Pile) = Pile
      BY <1>2, <3>2, TurnedIsReverse, ReverseEmpty
    <3>4. StackTypeOK' /\ Pile' = Pile
      BY <3>1 DEF StackTypeOK, Pile
    <3> QED BY <3>1, <3>2, <3>3, <3>4
  <2> QED BY <2>1, <2>2
<1>5. ItemStackSpec!Peek
  BY <1>4 DEF ItemStackSpec!Peek, ItemStackSpec!Answers, stOk
<1> QED BY <1>2, <1>4, <1>5 DEF ItemStackSpec!Next

LEMMA TrimSimulates ==
  ASSUME StackTypeOK, NEW n \in -1 .. MaxDepth, NEW ret \in BOOLEAN, stm_TRIM(n, ret)
  PROVE  StackTypeOK' /\ ItemStackSpec!Next
<1> DEFINE call == <<IF ret THEN "trim" ELSE "trim*", n>>
<1>1. /\ st /= NoStack
      /\ IF n < 0 THEN stAnswer' = stError(call) /\ UNCHANGED st
         ELSE IF depth > n THEN st_peek(call, depth - n, TRUE, FALSE, ret)
         ELSE stAnswer' = stOk(call, <<>>) /\ UNCHANGED st
  BY DEF stm_TRIM
<1>2. depth \in Nat /\ Len(Pile) = depth /\ Pile \in Seq(Item) /\ Pile /= NoStack /\ MaxDepth \in Nat
  BY <1>1, PileNow, StackAssumption
<1>3. CASE n < 0
  <2>1. n = -1
    BY <1>2, <1>3
  <2>2. stAnswer' = stError(call) /\ st' = st
    BY <1>1, <1>3
  <2>3. StackTypeOK' /\ Pile' = Pile
    BY <2>2 DEF StackTypeOK, Pile
  <2>4. ItemStackSpec!Fails(<<"trim", -1>>) \/ ItemStackSpec!Fails(<<"trim*", -1>>)
    BY <2>1, <2>2 DEF ItemStackSpec!Fails, stError
  <2>5. ItemStackSpec!Fail
    BY <2>3, <2>4 DEF ItemStackSpec!Fail
  <2> QED BY <1>2, <2>3, <2>5 DEF ItemStackSpec!Next
<1>4. CASE ~(n < 0)
  <2> DEFINE gone == IF n < Len(Pile) THEN Len(Pile) - n ELSE 0
  <2>1. n \in 0 .. MaxDepth
    BY <1>2, <1>4
  <2>2. /\ StackTypeOK' /\ Pile' = SubSeq(Pile, gone + 1, Len(Pile))
        /\ stAnswer' = stOk(call, IF ret THEN SubSeq(Pile, 1, gone) ELSE <<>>)
    <3>1. CASE depth > n
      <4>1. gone = depth - n /\ gone \in Nat /\ gone <= Len(Pile)
        BY <1>2, <2>1, <3>1
      <4>2. st_peek(call, depth - n, TRUE, FALSE, ret)
        BY <1>1, <1>4, <3>1
      <4> HIDE DEF call, gone
      <4>3. st_peek(call, gone, TRUE, FALSE, ret)
        BY <4>1, <4>2
      <4>4. /\ StackTypeOK'
            /\ gone <= Len(Pile) =>
                 /\ stAnswer' = stOk(call, IF ~ret THEN <<>>
                                           ELSE IF FALSE THEN ItemStackSpec!Turned(SubSeq(Pile, 1, gone))
                                           ELSE SubSeq(Pile, 1, gone))
                 /\ Pile' = IF TRUE THEN SubSeq(Pile, gone + 1, Len(Pile)) ELSE Pile
        BY <1>1, <4>1, <4>3, PeekSteps
      <4> QED BY <4>1, <4>4
    <3>2. CASE ~(depth > n)
      <4>1. gone = 0
        BY <1>2, <2>1, <3>2
      <4>2. stAnswer' = stOk(call, <<>>) /\ st' = st
        BY <1>1, <1>4, <3>2
      <4>3. StackTypeOK' /\ Pile' = Pile
        BY <4>2 DEF StackTypeOK, Pile
      <4>4. SubSeq(Pile, 0 + 1, Len(Pile)) = Pile /\ SubSeq(Pile, 1, 0) = <<>>
        BY <1>1, WholePile
      <4> HIDE DEF gone, call
      <4> QED BY <4>1, <4>2, <4>3, <4>4
    <3> QED BY <3>1, <3>2
  <2>3. \/ ItemStackSpec!Answers(<<"trim", n>>, ItemStackSpec!Top(gone))
        \/ ItemStackSpec!Answers(<<"trim*", n>>, <<>>)
    <3> HIDE DEF gone
    <3> QED BY <2>2 DEF ItemStackSpec!Answers, ItemStackSpec!Top, stOk
  <2>4. Pile' = ItemStackSpec!Below(gone)
    BY <2>2 DEF ItemStackSpec!Below
  <2>5. ItemStackSpec!Trim
    BY <2>1, <2>3, <2>4 DEF ItemStackSpec!Trim
  <2> QED BY <1>2, <2>2, <2>5 DEF ItemStackSpec!Next
<1> QED BY <1>3, <1>4

LEMMA PopPeekSimulates ==
  ASSUME StackTypeOK, NEW n \in 0 .. MaxDepth + 1,
         NEW pop \in BOOLEAN, NEW revers \in BOOLEAN, ~(pop /\ revers), stm_PEEK(n, pop, revers)
  PROVE  StackTypeOK' /\ ItemStackSpec!Next
<1> DEFINE call == <<IF pop THEN "pop" ELSE IF revers THEN "peekr" ELSE "peek", n>>
<1>1. /\ st /= NoStack
      /\ IF n < 1 THEN stAnswer' = stError(call) /\ UNCHANGED st
                  ELSE st_peek(call, n, pop, revers, TRUE)
  BY DEF stm_PEEK
<1>2. /\ depth \in Nat /\ Len(Pile) = depth /\ Pile \in Seq(Item) /\ Pile /= NoStack
      /\ MaxDepth \in Nat /\ n \in Nat
  BY <1>1, PileNow, StackAssumption
<1>3. ASSUME stAnswer' = stError(call), Pile' = Pile, n \notin 1 .. Len(Pile)
      PROVE  ItemStackSpec!Next
  <2>1. ItemStackSpec!Fails(call)
    BY <1>3 DEF ItemStackSpec!Fails, stError
  <2>2. \E m \in {"pop", "peek", "peekr"} : call = <<m, n>>
    OBVIOUS
  <2> HIDE DEF call
  <2>3. ItemStackSpec!Fail
    BY <1>3, <2>1, <2>2 DEF ItemStackSpec!Fail
  <2> QED BY <1>2, <2>3 DEF ItemStackSpec!Next
<1>4. CASE n < 1
  <2>1. stAnswer' = stError(call) /\ st' = st /\ n \notin 1 .. Len(Pile)
    BY <1>1, <1>2, <1>4
  <2>2. StackTypeOK' /\ Pile' = Pile
    BY <2>1 DEF StackTypeOK, Pile
  <2> QED BY <1>3, <2>1, <2>2
<1>5. CASE ~(n < 1)
  <2> HIDE DEF call
  <2>1. st_peek(call, n, pop, revers, TRUE)
    BY <1>1, <1>5
  <2>2. /\ StackTypeOK'
        /\ n > Len(Pile) => stAnswer' = stError(call) /\ Pile' = Pile
        /\ n <= Len(Pile) =>
             /\ stAnswer' = stOk(call, IF ~TRUE THEN <<>>
                                       ELSE IF revers THEN ItemStackSpec!Turned(SubSeq(Pile, 1, n))
                                       ELSE SubSeq(Pile, 1, n))
             /\ Pile' = IF pop THEN SubSeq(Pile, n + 1, Len(Pile)) ELSE Pile
    BY <1>1, <1>2, <2>1, PeekSteps
  <2>3. CASE n > Len(Pile)
    <3>1. n \notin 1 .. Len(Pile)
      BY <1>2, <2>3
    <3> QED BY <1>3, <2>2, <2>3, <3>1
  <2>4. CASE ~(n > Len(Pile))
    <3>1. n \in 1 .. Len(Pile) /\ n <= Len(Pile)
      BY <1>2, <1>5, <2>4
    <3>2. /\ stAnswer' = stOk(call, IF revers THEN ItemStackSpec!Turned(ItemStackSpec!Top(n))
                                    ELSE ItemStackSpec!Top(n))
          /\ Pile' = IF pop THEN ItemStackSpec!Below(n) ELSE Pile
      BY <2>2, <3>1 DEF ItemStackSpec!Top, ItemStackSpec!Below
    <3>3. CASE pop
      <4>1. ItemStackSpec!Answers(<<"pop", n>>, ItemStackSpec!Top(n))
        BY <3>2, <3>3 DEF ItemStackSpec!Answers, stOk, call
      <4>2. ItemStackSpec!Pop
        BY <3>1, <3>2, <3>3, <4>1 DEF ItemStackSpec!Pop
      <4> QED BY <1>2, <2>2, <4>2 DEF ItemStackSpec!Next
    <3>4. CASE ~pop
      <4>1. \/ ItemStackSpec!Answers(<<"peek", n>>, ItemStackSpec!Top(n))
            \/ ItemStackSpec!Answers(<<"peekr", n>>, ItemStackSpec!Turned(ItemStackSpec!Top(n)))
        BY <3>2, <3>4 DEF ItemStackSpec!Answers, stOk, call
      <4>2. ItemStackSpec!Peek
        BY <3>1, <3>2, <3>4, <4>1 DEF ItemStackSpec!Peek
      <4> QED BY <1>2, <2>2, <4>2 DEF ItemStackSpec!Next
    <3> QED BY <3>3, <3>4
  <2> QED BY <2>3, <2>4
<1> QED BY <1>4, <1>5

LEMMA RotateSimulates ==
  ASSUME StackTypeOK, NEW n \in 1 .. MaxDepth + 1, NEW steps \in -MaxSteps .. MaxSteps,
         stm_ROTATE(n, steps)
  PROVE  StackTypeOK' /\ ItemStackSpec!Next
<1> DEFINE call == <<"rotate", n, steps>>
           v == st.stack
           r == steps % n
           w == RotatedList(v, n, r)
<1>1. st /= NoStack /\ n \in Nat \ {0} /\ MaxDepth \in Nat /\ MaxSteps \in Nat
  BY StackAssumption DEF stm_ROTATE
<1>2. /\ depth \in Nat /\ Len(Pile) = depth /\ Pile \in Seq(Item) /\ Pile /= NoStack
      /\ st \in Stacks /\ v \in Seq(Item) /\ depth = Len(v) /\ Pile = Reverse(v)
  BY <1>1, PileNow
<1>3. IF n > depth THEN stAnswer' = stError(call) /\ UNCHANGED st
      ELSE st' = [st EXCEPT !.stack = w] /\ stAnswer' = stOk(call, <<>>)
  BY DEF stm_ROTATE, RotatedList, depth
<1>4. CASE n > depth
  <2>1. stAnswer' = stError(call) /\ st' = st
    BY <1>3, <1>4
  <2>2. StackTypeOK' /\ Pile' = Pile
    BY <2>1 DEF StackTypeOK, Pile
  <2>3. ItemStackSpec!Fails(call)
    BY <2>1 DEF ItemStackSpec!Fails, stError
  <2>4. n > Len(Pile)
    BY <1>2, <1>4
  <2>5. ItemStackSpec!Fail
    BY <2>2, <2>3, <2>4 DEF ItemStackSpec!Fail
  <2> QED BY <1>2, <2>2, <2>5 DEF ItemStackSpec!Next
<1>5. CASE ~(n > depth)
  <2>1. r \in 0 .. n - 1
    <3>1. steps \in Int
      BY <1>1
    <3>2. \A b \in Int : b % n \in 0 .. n - 1
      BY <1>1
    <3> QED BY <3>1, <3>2
  <2>2. n \in 1 .. Len(v) /\ n <= Len(Pile)
    BY <1>1, <1>2, <1>5
  <2>3. /\ w \in Seq(Item)
        /\ Reverse(w) = Rotated(SubSeq(Reverse(v), 1, n), r) \o SubSeq(Reverse(v), n + 1, Len(v))
    <3> HIDE DEF v, r
    <3> QED BY <1>2, <2>1, <2>2, RotatePile
  <2> HIDE DEF r, w
  <2>4. Reverse(w) = Rotated(ItemStackSpec!Top(n), r) \o ItemStackSpec!Below(n)
    BY <1>2, <2>3 DEF ItemStackSpec!Top, ItemStackSpec!Below
  <2>5. Rotated(ItemStackSpec!Top(n), r) = ItemStackSpec!Stepped(r, ItemStackSpec!Top(n))
    <3>1. ItemStackSpec!Top(n) \in Seq(Item) /\ Len(ItemStackSpec!Top(n)) = n
      BY <1>1, <1>2, <2>2 DEF ItemStackSpec!Top
    <3>2. r \in 0 .. Len(ItemStackSpec!Top(n))
      BY <1>1, <2>1, <3>1
    <3> QED BY <3>1, <3>2, SteppedIsRotated
  <2>6. st' = [st EXCEPT !.stack = w] /\ stAnswer' = stOk(call, <<>>)
    BY <1>3, <1>5
  <2>7. st' \in Stacks /\ st'.stack = w
    BY <1>2, <2>3, <2>6 DEF Stacks
  <2>8. StackTypeOK' /\ Pile' = Reverse(w)
    BY <2>7, PileNext
  <2>9. Pile' = ItemStackSpec!Stepped(steps % n, ItemStackSpec!Top(n)) \o ItemStackSpec!Below(n)
    BY <2>4, <2>5, <2>8 DEF r
  <2>10. ItemStackSpec!Answers(<<"rotate", n, steps>>, <<>>)
    BY <2>6 DEF ItemStackSpec!Answers, stOk
  <2>11. n \in 1 .. Len(Pile)
    BY <1>1, <1>2, <2>2
  <2>12. ItemStackSpec!Rotate
    BY <2>9, <2>10, <2>11 DEF ItemStackSpec!Rotate
  <2> QED BY <1>2, <2>8, <2>12 DEF ItemStackSpec!Next
<1> QED BY <1>4, <1>5

LEMMA OtherStackSteps ==
  ASSUME StackTypeOK, st_new \/ stm_CLEAR \/ stm_DESTROY \/ stm_SIZE
  PROVE  StackTypeOK' /\ ItemStackSpec!Next
<1>1. CASE st_new
  <2>1. Pile = NoStack /\ st' = stEmpty /\ stAnswer' = stOk(<<"new">>, <<>>)
    BY <1>1 DEF st_new, Pile
  <2>2. Pile' = <<>> /\ StackTypeOK'
    BY <2>1, EmptyPile
  <2>3. ItemStackSpec!Create
    BY <2>1, <2>2 DEF ItemStackSpec!Create, ItemStackSpec!Answers, stOk
  <2> QED BY <2>2, <2>3 DEF ItemStackSpec!Next
<1>2. CASE stm_CLEAR
  <2>1. st /= NoStack /\ st' = stEmpty /\ stAnswer' = stOk(<<"clear">>, <<>>)
    BY <1>2 DEF stm_CLEAR
  <2>2. Pile' = <<>> /\ StackTypeOK' /\ Pile /= NoStack
    BY <2>1, EmptyPile, PileNow
  <2>3. ItemStackSpec!Clear
    BY <2>1, <2>2 DEF ItemStackSpec!Clear, ItemStackSpec!Answers, stOk
  <2> QED BY <2>2, <2>3 DEF ItemStackSpec!Next
<1>3. CASE stm_DESTROY
  <2>1. st /= NoStack /\ st' = NoStack /\ stAnswer' = stOk(<<"destroy">>, <<>>)
    BY <1>3 DEF stm_DESTROY
  <2>2. Pile' = NoStack /\ StackTypeOK' /\ Pile /= NoStack
    <3>1. Pile' = NoStack /\ StackTypeOK'
      BY <2>1 DEF Pile, StackTypeOK
    <3> QED BY <2>1, <3>1, PileNow
  <2>3. ItemStackSpec!Destroy
    BY <2>1, <2>2 DEF ItemStackSpec!Destroy, ItemStackSpec!Answers, stOk
  <2> QED BY <2>2, <2>3 DEF ItemStackSpec!Next
<1>4. CASE stm_SIZE
  <2>1. st /= NoStack /\ stAnswer' = stOk(<<"size">>, <<depth>>) /\ st' = st
    BY <1>4 DEF stm_SIZE
  <2>2. Pile' = Pile /\ StackTypeOK'
    BY <2>1 DEF Pile, StackTypeOK
  <2>3. Pile /= NoStack /\ Len(Pile) = depth
    BY <2>1, PileNow
  <2>4. ItemStackSpec!Size
    BY <2>1, <2>2, <2>3 DEF ItemStackSpec!Size, ItemStackSpec!Answers, stOk
  <2> QED BY <2>2, <2>3, <2>4 DEF ItemStackSpec!Next
<1> QED BY <1>1, <1>2, <1>3, <1>4

LEMMA StackSimulates ==
  ASSUME StackTypeOK, [StackNext]_stVars
  PROVE  StackTypeOK' /\ [ItemStackSpec!Next]_<<Pile, stAnswer>>
<1>1. CASE st_new \/ stm_CLEAR \/ stm_DESTROY \/ stm_SIZE
  BY <1>1, OtherStackSteps
<1>2. CASE \E revers \in BOOLEAN : stm_GET(revers)
  BY <1>2, GetSimulates
<1>3. CASE \E n \in 0 .. MaxDepth + 1 : \/ stm_PEEK(n, FALSE, FALSE)
                                        \/ stm_PEEK(n, FALSE, TRUE)
                                        \/ stm_PEEK(n, TRUE, FALSE)
  <2>1. PICK n \in 0 .. MaxDepth + 1 : \/ stm_PEEK(n, FALSE, FALSE)
                                       \/ stm_PEEK(n, FALSE, TRUE)
                                       \/ stm_PEEK(n, TRUE, FALSE)
    BY <1>3
  <2>2. CASE stm_PEEK(n, FALSE, FALSE)
    BY <2>2, PopPeekSimulates
  <2>3. CASE stm_PEEK(n, FALSE, TRUE)
    BY <2>3, PopPeekSimulates
  <2>4. CASE stm_PEEK(n, TRUE, FALSE)
    BY <2>4, PopPeekSimulates
  <2> QED BY <2>1, <2>2, <2>3, <2>4
<1>4. CASE (\E x \in Item : stm_PUSH(<<x>>)) \/ (\E x, y \in Item : stm_PUSH(<<x, y>>))
  BY <1>4, PushSimulates
<1>5. CASE \E n \in 1 .. MaxDepth + 1, steps \in -MaxSteps .. MaxSteps : stm_ROTATE(n, steps)
  BY <1>5, RotateSimulates
<1>6. CASE \E n \in -1 .. MaxDepth, ret \in BOOLEAN : stm_TRIM(n, ret)
  BY <1>6, TrimSimulates
<1>7. CASE UNCHANGED stVars
  BY <1>7 DEF stVars, StackTypeOK, Pile
<1> QED BY <1>1, <1>2, <1>3, <1>4, <1>5, <1>6, <1>7 DEF StackNext, stms_objcmd

\* The list of a stack and the depth kept beside it keep their types.
THEOREM StackTypes == StackSpec => []StackTypeOK
<1>1. StackInit => StackTypeOK
  BY DEF StackInit, StackTypeOK
<1>2. StackTypeOK /\ [StackNext]_stVars => StackTypeOK'
  BY StackSimulates
<1> QED BY <1>1, <1>2, PTL DEF StackSpec

\* The methods of a stack are those of one pile, for any items, any depth and
\* any steps: pop, peek, get and trim answer from the top in the order asked
\* for, and a rotation, whatever its sign, is so many single steps of exactly
\* the items it names (st_peek, stm_ROTATE: the index it computes is right).
THEOREM StackIsOnePile == StackSpec => StackIsAPile
<1>1. StackInit => StackTypeOK
  BY DEF StackInit, StackTypeOK
<1>2. StackTypeOK /\ [StackNext]_stVars => StackTypeOK'
  BY StackSimulates
<1>3. StackInit => ItemStackSpec!Init
  BY DEF StackInit, ItemStackSpec!Init, Pile, stOk
<1>4. StackTypeOK /\ [StackNext]_stVars => [ItemStackSpec!Next]_<<Pile, stAnswer>>
  BY StackSimulates
<1> QED BY <1>1, <1>2, <1>3, <1>4, PTL DEF StackSpec, StackIsAPile, ItemStackSpec!Spec
=============================================================================

---------------------------- MODULE UEventProofs ----------------------------
(***************************************************************************)
(* Theorems about user events.                                             *)
(***************************************************************************)
EXTENDS UEvent, FiniteSetTheorems, TLAPS

---------------------------------------------------------------------------
(***************************************************************************)
(* Stacks.                                                                 *)
(***************************************************************************)

\* What is on top of a stack changes.
LEMMA TopReplaced ==
  ASSUME NEW T, NEW s \in Seq(T), s # <<>>, NEW f \in T
  PROVE  LET r == [s EXCEPT ![Len(s)] = f]
         IN /\ r \in Seq(T) /\ Len(r) = Len(s) /\ DOMAIN r = DOMAIN s /\ r # <<>>
            /\ r[Len(s)] = f
            /\ \A i \in DOMAIN s : i # Len(s) => r[i] = s[i]
OBVIOUS

\* It is taken away.
LEMMA TopTaken ==
  ASSUME NEW T, NEW s \in Seq(T), s # <<>>
  PROVE  LET r == SubSeq(s, 1, Len(s) - 1)
         IN /\ r \in Seq(T) /\ Len(r) = Len(s) - 1 /\ DOMAIN r = DOMAIN s \ {Len(s)}
            /\ \A i \in DOMAIN r : r[i] = s[i] /\ i \in DOMAIN s
<1> DEFINE n == Len(s) - 1
           r == SubSeq(s, 1, n)
<1>1. n \in Nat /\ Len(s) = n + 1 /\ DOMAIN s = 1 .. n + 1
  OBVIOUS
<1> HIDE DEF n
<1>2. Len(r) = n /\ DOMAIN r = 1 .. n
  BY <1>1
<1>3. ASSUME NEW i \in 1 .. n
      PROVE  r[i] = s[i] /\ i \in DOMAIN s
  BY <1>1
<1>4. r \in Seq(T)
  BY <1>1
<1>5. DOMAIN r = DOMAIN s \ {Len(s)}
  BY <1>1, <1>2
<1> QED BY <1>1, <1>2, <1>3, <1>4, <1>5 DEF n

\* Something is put on it.
LEMMA TopPut ==
  ASSUME NEW T, NEW s \in Seq(T), NEW f \in T
  PROVE  LET r == Append(s, f)
         IN /\ r \in Seq(T) /\ Len(r) = Len(s) + 1 /\ DOMAIN r = DOMAIN s \cup {Len(s) + 1}
            /\ Len(s) + 1 \notin DOMAIN s
            /\ r[Len(s) + 1] = f
            /\ \A i \in DOMAIN s : r[i] = s[i]
OBVIOUS

---------------------------------------------------------------------------
(***************************************************************************)
(* Lists of tokens.                                                        *)
(***************************************************************************)

\* The second part of a concatenation.
LEMMA SecondPart ==
  ASSUME NEW T, NEW a \in Seq(T), NEW b \in Seq(T), NEW k \in Int,
         k > Len(a), k <= Len(a) + Len(b)
  PROVE  (a \o b)[k] = b[k - Len(a)]
OBVIOUS

\* An element is removed from a list.
LEMMA RemovedIs ==
  ASSUME NEW T, NEW s \in Seq(T), NEW i \in DOMAIN s
  PROVE  /\ RemoveAt(s, i) \in Seq(T)
         /\ Len(RemoveAt(s, i)) = Len(s) - 1
         /\ \A k \in 1 .. i - 1 : RemoveAt(s, i)[k] = s[k]
         /\ \A k \in i .. Len(s) - 1 : RemoveAt(s, i)[k] = s[k + 1]
<1> DEFINE a == SubSeq(s, 1, i - 1)
           b == SubSeq(s, i + 1, Len(s))
<1>1. i \in 1 .. Len(s) /\ Len(s) \in Nat
  OBVIOUS
<1>2. a \in Seq(T) /\ Len(a) = i - 1 /\ \A k \in 1 .. i - 1 : a[k] = s[k]
  BY <1>1
<1>3. b \in Seq(T) /\ Len(b) = Len(s) - i /\ \A k \in 1 .. Len(s) - i : b[k] = s[k + i]
  BY <1>1
<1>4. RemoveAt(s, i) = a \o b
  BY DEF RemoveAt
<1> HIDE DEF a, b
<1>5. RemoveAt(s, i) \in Seq(T) /\ Len(RemoveAt(s, i)) = Len(s) - 1
  BY <1>1, <1>2, <1>3, <1>4
<1>6. ASSUME NEW k \in 1 .. i - 1
      PROVE  RemoveAt(s, i)[k] = s[k]
  <2>1. k \in 1 .. Len(a)
    BY <1>2
  <2>2. (a \o b)[k] = a[k]
    BY <2>1, <1>2, <1>3
  <2> QED BY <2>2, <1>2, <1>4
<1>7. ASSUME NEW k \in i .. Len(s) - 1
      PROVE  RemoveAt(s, i)[k] = s[k + 1]
  <2>1. k - (i - 1) \in 1 .. Len(b) /\ k > Len(a) /\ k \in 1 .. Len(a) + Len(b)
    BY <1>1, <1>2, <1>3
  <2>2. (a \o b)[k] = b[k - (i - 1)]
    <3>1. k \in Int /\ k > Len(a) /\ k <= Len(a) + Len(b) /\ Len(a) = i - 1
      BY <2>1, <1>1, <1>2, <1>3
    <3>2. (a \o b)[k] = b[k - Len(a)]
      BY <3>1, <1>2, <1>3, SecondPart
    <3> QED BY <3>1, <3>2
  <2>3. k - (i - 1) + i = k + 1 /\ k - (i - 1) \in 1 .. Len(s) - i
    BY <1>1
  <2>4. b[k - (i - 1)] = s[k - (i - 1) + i]
    BY <2>3, <1>3
  <2> QED BY <2>2, <2>3, <2>4, <1>4
<1> QED BY <1>5, <1>6, <1>7

\* From a list without repetitions: only what was removed is missed.
LEMMA RemovedOnce ==
  ASSUME NEW T, NEW s \in Seq(T), IsInjective(s), NEW i \in DOMAIN s
  PROVE  /\ IsInjective(RemoveAt(s, i))
         /\ ToSet(RemoveAt(s, i)) = ToSet(s) \ {s[i]}
<1> DEFINE r == RemoveAt(s, i)
           at(k) == IF k < i THEN k ELSE k + 1
<1>1. i \in 1 .. Len(s) /\ Len(s) \in Nat /\ DOMAIN s = 1 .. Len(s)
  OBVIOUS
<1>2. r \in Seq(T) /\ Len(r) = Len(s) - 1 /\ DOMAIN r = 1 .. Len(s) - 1
  <2>1. r \in Seq(T) /\ Len(r) = Len(s) - 1
    BY RemovedIs
  <2> HIDE DEF r
  <2> QED BY <2>1
<1>3. ASSUME NEW k \in DOMAIN r
      PROVE  /\ at(k) \in DOMAIN s /\ at(k) # i /\ r[k] = s[at(k)]
  <2>1. k \in 1 .. Len(s) - 1
    BY <1>2
  <2>2. at(k) \in DOMAIN s /\ at(k) # i
    BY <2>1, <1>1
  <2>3. CASE k < i
    <3>1. k \in 1 .. i - 1
      BY <2>1, <2>3, <1>1
    <3> QED BY <3>1, <2>2, <2>3, RemovedIs
  <2>4. CASE ~(k < i)
    <3>1. k \in i .. Len(s) - 1
      BY <2>1, <2>4, <1>1
    <3> QED BY <3>1, <2>2, <2>4, RemovedIs
  <2> QED BY <2>3, <2>4
<1>4. ASSUME NEW k \in DOMAIN s, k # i
      PROVE  \E j \in DOMAIN r : at(j) = k
  <2> DEFINE j == IF k < i THEN k ELSE k - 1
  <2>1. j \in DOMAIN r /\ at(j) = k
    BY <1>1, <1>2, <1>4
  <2> QED BY <2>1
<1>5. ASSUME NEW k \in DOMAIN r, NEW j \in DOMAIN r, at(k) = at(j)
      PROVE  k = j
  BY <1>1, <1>2, <1>5
<1> HIDE DEF at, r
<1>6. \A k, j \in DOMAIN r : r[k] = r[j] => k = j
  <2> SUFFICES ASSUME NEW k \in DOMAIN r, NEW j \in DOMAIN r, r[k] = r[j]
               PROVE  k = j
    OBVIOUS
  <2>1. at(k) = at(j)
    BY <1>3 DEF IsInjective
  <2> QED BY <2>1, <1>5
<1>7. ToSet(r) = ToSet(s) \ {s[i]}
  <2>1. ASSUME NEW x \in ToSet(r)
        PROVE  x \in ToSet(s) \ {s[i]}
    <3>1. PICK k \in DOMAIN r : x = r[k]
      BY DEF ToSet
    <3>2. x = s[at(k)] /\ at(k) \in DOMAIN s /\ at(k) # i
      BY <3>1, <1>3
    <3> QED BY <3>2 DEF ToSet, IsInjective
  <2>2. ASSUME NEW x \in ToSet(s) \ {s[i]}
        PROVE  x \in ToSet(r)
    <3>1. PICK k \in DOMAIN s : x = s[k] /\ k # i
      BY DEF ToSet
    <3>2. PICK j \in DOMAIN r : at(j) = k
      BY <3>1, <1>4
    <3>3. x = r[j]
      BY <3>1, <3>2, <1>3
    <3> QED BY <3>3 DEF ToSet
  <2> QED BY <2>1, <2>2
<1> QED BY <1>6, <1>7 DEF IsInjective, r

\* A new element at the end of a list without repetitions.
LEMMA AppendedOnce ==
  ASSUME NEW T, NEW s \in Seq(T), IsInjective(s), NEW x \in T, x \notin ToSet(s)
  PROVE  /\ Append(s, x) \in Seq(T) /\ Len(Append(s, x)) = Len(s) + 1
         /\ IsInjective(Append(s, x))
         /\ ToSet(Append(s, x)) = ToSet(s) \cup {x}
<1> DEFINE r == Append(s, x)
<1>1. /\ r \in Seq(T) /\ Len(r) = Len(s) + 1 /\ DOMAIN r = DOMAIN s \cup {Len(s) + 1}
      /\ Len(s) + 1 \notin DOMAIN s
      /\ r[Len(s) + 1] = x
      /\ \A i \in DOMAIN s : r[i] = s[i]
  OBVIOUS
<1> HIDE DEF r
<1>2. \A i \in DOMAIN s : s[i] # x
  BY DEF ToSet
<1>3. IsInjective(r)
  BY <1>1, <1>2 DEF IsInjective
<1>4. ToSet(r) = ToSet(s) \cup {x}
  BY <1>1 DEF ToSet
<1> QED BY <1>1, <1>3, <1>4 DEF r

\* A list without repetitions is not longer than the set its elements are from.
LEMMA OnceFits ==
  ASSUME NEW S, IsFiniteSet(S), NEW s \in Seq(S), IsInjective(s)
  PROVE  Len(s) <= Cardinality(S)
<1>1. Len(s) \in Nat /\ DOMAIN s = 1 .. Len(s) /\ s \in [1 .. Len(s) -> S]
  OBVIOUS
<1>2. s \in Injection(1 .. Len(s), S)
  BY <1>1 DEF Injection, IsInjective
<1>3. IsFiniteSet(1 .. Len(s)) /\ Cardinality(1 .. Len(s)) = Len(s)
  <2>1. 1 \in Int /\ Len(s) \in Int
    BY <1>1
  <2> QED BY <2>1, <1>1, FS_Interval
<1> QED BY <1>2, <1>3, FS_Injection

---------------------------------------------------------------------------
(***************************************************************************)
(* The commands under way.                                                 *)
(***************************************************************************)

\* The command unbinds an event of the tag, and has not come to the tag.
IsUnbind(f, t) == f.op = "unbind" /\ f.stage = "event" /\ f.of[1] = t

\* A command under way: an unbind that lets scripts run was of the only binding.
GoodFrame(f) ==
  /\ f.op # "add" => f.of \in TagEvent /\ f.subjects = {}
  /\ f.op = "add" => f.of = NoBinding /\ f.patterns = {} /\ f.todo = <<>> /\ f.watcher \in Token
  /\ f.op = "unbind" /\ f.stage = "event" =>
       f.pos >= 1 /\ (f.pos = 1 \/ (f.patterns = {} /\ f.todo = <<>> /\ ~f.running))

\* All wait for a script, but the innermost.
FramesGood ==
  \A i \in DOMAIN stack : GoodFrame(stack[i]) /\ (i # Len(stack) => stack[i].running)

StackOK == stack \in Seq(WatchFrame) /\ FramesGood

LEMMA TopFrameIs ==
  ASSUME StackOK, stack # <<>>
  PROVE  /\ TopFrame \in WatchFrame /\ GoodFrame(TopFrame)
         /\ Len(stack) \in DOMAIN stack /\ TopFrame = stack[Len(stack)] /\ Len(stack) \in Nat
<1>1. Len(stack) \in DOMAIN stack /\ Len(stack) \in Nat
  BY DEF StackOK
<1>2. TopFrame = stack[Len(stack)]
  BY DEF TopFrame
<1> QED BY <1>1, <1>2 DEF StackOK, FramesGood

LEMMA StackPut ==
  ASSUME StackOK, NEW f \in WatchFrame, GoodFrame(f), stack # <<>> => TopFrame.running,
         stack' = Append(stack, f)
  PROVE  StackOK'
<1>1. /\ stack' \in Seq(WatchFrame) /\ Len(stack') = Len(stack) + 1
      /\ DOMAIN stack' = DOMAIN stack \cup {Len(stack) + 1}
      /\ stack'[Len(stack) + 1] = f
      /\ \A i \in DOMAIN stack : stack'[i] = stack[i]
  BY TopPut DEF StackOK
<1>2. ASSUME NEW i \in DOMAIN stack
      PROVE  GoodFrame(stack'[i]) /\ stack'[i].running
  <2>1. stack # <<>> /\ stack'[i] = stack[i]
    BY <1>1
  <2>2. CASE i = Len(stack)
    BY <2>1, <2>2, TopFrameIs
  <2>3. CASE i # Len(stack)
    BY <2>1, <2>3 DEF StackOK, FramesGood
  <2> QED BY <2>2, <2>3
<1> QED BY <1>1, <1>2 DEF StackOK, FramesGood

LEMMA StackTop ==
  ASSUME StackOK, stack # <<>>, NEW f \in WatchFrame, GoodFrame(f), stack' = WithTopFrame(f)
  PROVE  StackOK'
<1>1. /\ stack' \in Seq(WatchFrame) /\ Len(stack') = Len(stack) /\ DOMAIN stack' = DOMAIN stack
      /\ stack'[Len(stack)] = f
      /\ \A i \in DOMAIN stack : i # Len(stack) => stack'[i] = stack[i]
  BY TopReplaced DEF StackOK, WithTopFrame
<1>2. ASSUME NEW i \in DOMAIN stack
      PROVE  GoodFrame(stack'[i]) /\ (i # Len(stack) => stack'[i].running)
  <2>1. CASE i = Len(stack)
    BY <2>1, <1>1
  <2>2. CASE i # Len(stack)
    BY <2>2, <1>1 DEF StackOK, FramesGood
  <2> QED BY <2>1, <2>2
<1> QED BY <1>1, <1>2 DEF StackOK, FramesGood

LEMMA StackPop ==
  ASSUME StackOK, stack # <<>>, stack' = FramesBelow
  PROVE  StackOK'
<1>1. /\ stack' \in Seq(WatchFrame) /\ Len(stack') = Len(stack) - 1
      /\ DOMAIN stack' = DOMAIN stack \ {Len(stack)}
      /\ \A i \in DOMAIN stack' : stack'[i] = stack[i] /\ i \in DOMAIN stack
  BY TopTaken DEF StackOK, FramesBelow
<1>2. ASSUME NEW i \in DOMAIN stack'
      PROVE  GoodFrame(stack'[i]) /\ stack'[i].running
  BY <1>1 DEF StackOK, FramesGood
<1> QED BY <1>1, <1>2 DEF StackOK, FramesGood

---------------------------------------------------------------------------
(***************************************************************************)
(* How many unbinds have not come to the tag.                              *)
(***************************************************************************)

UnbindsOf(st, t) == {i \in DOMAIN st : IsUnbind(st[i], t)}
Count(st, t) == Cardinality(UnbindsOf(st, t))
One(f, t) == IF IsUnbind(f, t) THEN 1 ELSE 0

LEMMA UnbindingIs ==
  ASSUME NEW t
  PROVE  Unbinding(t) = UnbindsOf(stack, t)
BY DEF Unbinding, UnbindsOf, IsUnbind

LEMMA CountType ==
  ASSUME NEW st \in Seq(WatchFrame), NEW t
  PROVE  /\ IsFiniteSet(UnbindsOf(st, t)) /\ Count(st, t) \in Nat
         /\ \A i \in DOMAIN st : IsUnbind(st[i], t) => Count(st, t) >= 1
<1>1. IsFiniteSet(DOMAIN st)
  <2>1. Len(st) \in Nat /\ DOMAIN st = 1 .. Len(st)
    OBVIOUS
  <2>2. 1 \in Int /\ Len(st) \in Int
    BY <2>1
  <2> QED BY <2>1, <2>2, FS_Interval
<1>2. UnbindsOf(st, t) \in SUBSET DOMAIN st
  BY DEF UnbindsOf
<1>3. IsFiniteSet(UnbindsOf(st, t))
  BY <1>1, <1>2, FS_Subset
<1>4. Count(st, t) \in Nat
  BY <1>3, FS_CardinalityType DEF Count
<1>5. ASSUME NEW i \in DOMAIN st, IsUnbind(st[i], t)
      PROVE  Count(st, t) >= 1
  <2>1. UnbindsOf(st, t) # {}
    BY <1>5 DEF UnbindsOf
  <2>2. Count(st, t) # 0
    BY <2>1, <1>3, FS_EmptySet DEF Count
  <2> QED BY <1>4, <2>2
<1> QED BY <1>3, <1>4, <1>5

LEMMA CountPut ==
  ASSUME NEW st \in Seq(WatchFrame), NEW f \in WatchFrame, NEW t
  PROVE  Count(Append(st, f), t) = Count(st, t) + One(f, t)
<1> DEFINE r == Append(st, f)
           k == Len(st) + 1
<1>1. /\ DOMAIN r = DOMAIN st \cup {k} /\ k \notin DOMAIN st /\ r[k] = f
      /\ \A i \in DOMAIN st : r[i] = st[i]
  BY TopPut
<1> HIDE DEF r, k
<1>2. IsFiniteSet(UnbindsOf(st, t)) /\ k \notin UnbindsOf(st, t) /\ Count(st, t) \in Nat
  BY <1>1, CountType DEF UnbindsOf
<1>3. CASE IsUnbind(f, t)
  <2>1. UnbindsOf(r, t) = UnbindsOf(st, t) \cup {k}
    BY <1>1, <1>3 DEF UnbindsOf
  <2>2. Cardinality(UnbindsOf(st, t) \cup {k}) = Cardinality(UnbindsOf(st, t)) + 1
    BY <1>2, FS_AddElement
  <2> QED BY <1>3, <2>1, <2>2 DEF Count, One, r
<1>4. CASE ~IsUnbind(f, t)
  <2>1. UnbindsOf(r, t) = UnbindsOf(st, t)
    BY <1>1, <1>4 DEF UnbindsOf
  <2> QED BY <1>2, <1>4, <2>1 DEF Count, One, r
<1> QED BY <1>3, <1>4

LEMMA CountTaken ==
  ASSUME NEW st \in Seq(WatchFrame), st # <<>>, NEW t
  PROVE  Count(SubSeq(st, 1, Len(st) - 1), t) = Count(st, t) - One(st[Len(st)], t)
<1> DEFINE r == SubSeq(st, 1, Len(st) - 1)
           k == Len(st)
<1>1. /\ DOMAIN r = DOMAIN st \ {k}
      /\ \A i \in DOMAIN r : r[i] = st[i]
  BY TopTaken
<1>2. k \in DOMAIN st
  OBVIOUS
<1> HIDE DEF r
<1>3. IsFiniteSet(UnbindsOf(st, t)) /\ Count(st, t) \in Nat
  BY CountType
<1>4. UnbindsOf(r, t) = UnbindsOf(st, t) \ {k}
  BY <1>1 DEF UnbindsOf
<1>5. k \in UnbindsOf(st, t) <=> IsUnbind(st[k], t)
  BY <1>2 DEF UnbindsOf
<1>6. Cardinality(UnbindsOf(st, t) \ {k}) =
        IF k \in UnbindsOf(st, t) THEN Cardinality(UnbindsOf(st, t)) - 1
        ELSE Cardinality(UnbindsOf(st, t))
  BY <1>3, FS_RemoveElement
<1>7. CASE IsUnbind(st[k], t)
  BY <1>3, <1>4, <1>5, <1>6, <1>7 DEF Count, One, r
<1>8. CASE ~IsUnbind(st[k], t)
  <2>1. One(st[k], t) = 0
    BY <1>8 DEF One
  <2>2. Count(r, t) = Count(st, t)
    BY <1>4, <1>5, <1>6, <1>8 DEF Count
  <2>3. Count(r, t) = Count(st, t) - One(st[k], t)
    BY <2>1, <2>2, <1>3
  <2> QED BY <2>3 DEF r
<1> QED BY <1>7, <1>8

LEMMA CountReplaced ==
  ASSUME NEW st \in Seq(WatchFrame), st # <<>>, NEW f \in WatchFrame, NEW t
  PROVE  Count([st EXCEPT ![Len(st)] = f], t) = Count(st, t) - One(st[Len(st)], t) + One(f, t)
<1> DEFINE r == SubSeq(st, 1, Len(st) - 1)
           e == [st EXCEPT ![Len(st)] = f]
<1>1. r \in Seq(WatchFrame) /\ Len(r) = Len(st) - 1 /\ \A i \in DOMAIN r : r[i] = st[i]
  BY TopTaken
<1>2. /\ e \in Seq(WatchFrame) /\ Len(e) = Len(st) /\ e[Len(st)] = f
      /\ \A i \in DOMAIN st : i # Len(st) => e[i] = st[i]
  BY TopReplaced
<1>3. Len(st) \in Nat
  OBVIOUS
<1> HIDE DEF r, e
<1>4. e = Append(r, f)
  BY <1>1, <1>2, <1>3
<1>5. Count(e, t) = Count(r, t) + One(f, t)
  BY <1>1, <1>4, CountPut
<1>6. Count(r, t) = Count(st, t) - One(st[Len(st)], t)
  BY CountTaken DEF r
<1> QED BY <1>5, <1>6 DEF e

---------------------------------------------------------------------------
(***************************************************************************)
(* The tables of the bindings.                                             *)
(***************************************************************************)

TablesOK ==
  /\ tcounter \in 0 .. MaxToken
  /\ tk \in [Token -> Binding \cup {NoBinding}] /\ ex \in [Binding -> Token \cup {0}]
  /\ db \in [TagEvent -> Seq(Token)] /\ dt \in [Tag -> Seq(Token)]
  /\ stuck \in [Tag -> Nat]

\* Tokens that were not given out stand for nothing.
NotGiven == \A n \in Token : n > tcounter => tk[n] = NoBinding

\* A token and its binding know each other.
EachOther == \A n \in Token, b \in Binding : tk[n] = b <=> ex[b] = n

\* The lists of the events.
Listed ==
  \A te \in TagEvent : /\ IsInjective(db[te])
                       /\ ToSet(db[te]) = {n \in Token : tk[n] # NoBinding /\ tk[n][1] = te}

Counted == \A t \in Tag : Len(dt[t]) = Cardinality(Bindings(t)) + Count(stack, t) + stuck[t]

\* The position that unbind remembers is one of dt, when it comes to it.
PositionsFit ==
  \A i \in DOMAIN stack :
    stack[i].op = "unbind" /\ stack[i].stage = "event" =>
      stack[i].pos = 1 \/ stack[i].pos <= Len(dt[stack[i].of[1]])

TableInv == TablesOK /\ StackOK /\ NotGiven /\ EachOther /\ Listed /\ Counted /\ PositionsFit

\* The tokens of the bindings of a tag.
TokensOf(k, t) == {n \in Token : k[n] # NoBinding /\ k[n][1][1] = t}

LEMMA TokensFinite ==
  ASSUME NEW k, NEW t
  PROVE  IsFiniteSet(TokensOf(k, t)) /\ Cardinality(TokensOf(k, t)) \in Nat
<1>1. IsFiniteSet(Token)
  <2>1. 1 \in Int /\ MaxToken \in Int
    BY UEventBoundAssumption
  <2> QED BY <2>1, FS_Interval DEF Token
<1>2. TokensOf(k, t) \in SUBSET Token
  BY DEF TokensOf
<1>3. IsFiniteSet(TokensOf(k, t))
  BY <1>1, <1>2, FS_Subset
<1> QED BY <1>3, FS_CardinalityType

LEMMA BindingsAre ==
  ASSUME NEW t
  PROVE  Bindings(t) = TokensOf(tk, t)
BY DEF Bindings, TokensOf

\* A token gets a binding.
LEMMA TokensMore ==
  ASSUME NEW k, NEW n \in Token, k[n] = NoBinding, NEW b, b # NoBinding,
         NEW j, j[n] = b, \A m \in Token : m # n => j[m] = k[m], NEW t
  PROVE  /\ b[1][1] = t => Cardinality(TokensOf(j, t)) = Cardinality(TokensOf(k, t)) + 1
         /\ b[1][1] # t => Cardinality(TokensOf(j, t)) = Cardinality(TokensOf(k, t))
<1>2. IsFiniteSet(TokensOf(k, t))
  BY TokensFinite
<1>3. n \notin TokensOf(k, t)
  BY DEF TokensOf
<1>4. CASE b[1][1] = t
  <2>1. TokensOf(j, t) = TokensOf(k, t) \cup {n}
    BY <1>4 DEF TokensOf
  <2>2. Cardinality(TokensOf(k, t) \cup {n}) = Cardinality(TokensOf(k, t)) + 1
    BY <1>2, <1>3, FS_AddElement
  <2> QED BY <1>4, <2>1, <2>2
<1>5. CASE b[1][1] # t
  <2>1. TokensOf(j, t) = TokensOf(k, t)
    BY <1>5 DEF TokensOf
  <2> QED BY <1>5, <2>1
<1> QED BY <1>4, <1>5

\* A token loses it.
LEMMA TokensLess ==
  ASSUME NEW k, NEW n \in Token, k[n] # NoBinding,
         NEW j, j[n] = NoBinding, \A m \in Token : m # n => j[m] = k[m], NEW t
  PROVE  /\ k[n][1][1] = t => Cardinality(TokensOf(j, t)) = Cardinality(TokensOf(k, t)) - 1
         /\ k[n][1][1] # t => Cardinality(TokensOf(j, t)) = Cardinality(TokensOf(k, t))
<1>2. IsFiniteSet(TokensOf(k, t))
  BY TokensFinite
<1>4. n \in TokensOf(k, t) <=> k[n][1][1] = t
  BY DEF TokensOf
<1>3. TokensOf(j, t) = TokensOf(k, t) \ {n}
  BY DEF TokensOf
<1> QED BY <1>2, <1>3, <1>4, FS_RemoveElement

\* The list of an event is not longer than that of its tag.
LEMMA ListsFit ==
  ASSUME TableInv, NEW te \in TagEvent
  PROVE  Len(db[te]) <= Len(dt[te[1]])
<1>1. te[1] \in Tag
  BY DEF TagEvent
<1>2. db[te] \in Seq(Token) /\ IsInjective(db[te]) /\ Len(db[te]) \in Nat
  BY DEF TableInv, TablesOK, Listed
<1>3. \A i \in DOMAIN db[te] : db[te][i] \in TokensOf(tk, te[1])
  <2>1. ToSet(db[te]) \subseteq TokensOf(tk, te[1])
    BY DEF TableInv, Listed, TokensOf
  <2> QED BY <2>1 DEF ToSet
<1>4. db[te] \in Seq(TokensOf(tk, te[1]))
  BY <1>2, <1>3
<1>5. Len(db[te]) <= Cardinality(TokensOf(tk, te[1]))
  BY <1>2, <1>4, TokensFinite, OnceFits
<1>6. Len(dt[te[1]]) = Cardinality(TokensOf(tk, te[1])) + Count(stack, te[1]) + stuck[te[1]]
  BY <1>1, BindingsAre DEF TableInv, Counted
<1>7. /\ Cardinality(TokensOf(tk, te[1])) \in Nat /\ Count(stack, te[1]) \in Nat
      /\ stuck[te[1]] \in Nat
  BY <1>1, TokensFinite, CountType DEF TableInv, TablesOK, StackOK
<1> QED BY <1>2, <1>5, <1>6, <1>7

\* What is listed has a place.
LEMMA PositionIs ==
  ASSUME NEW s, NEW n \in ToSet(s)
  PROVE  Position(s, n) \in DOMAIN s /\ s[Position(s, n)] = n
<1>1. \E i \in DOMAIN s : s[i] = n
  BY DEF ToSet
<1> QED BY <1>1 DEF Position

LEMMA TableInvInit == UEventInit => TableInv
<1> SUFFICES ASSUME UEventInit PROVE TableInv
  OBVIOUS
<1>1. TablesOK
  <2>1. tcounter = 0 /\ 0 \in 0 .. MaxToken
    BY UEventBoundAssumption DEF UEventInit
  <2>2. <<>> \in Seq(Token)
    OBVIOUS
  <2> QED BY <2>1, <2>2 DEF UEventInit, TablesOK
<1>2. stack = <<>>
  BY DEF UEventInit
<1>3. StackOK /\ PositionsFit
  BY <1>2 DEF StackOK, FramesGood, PositionsFit
<1>4. NotGiven
  BY DEF UEventInit, NotGiven
<1>5. EachOther
  <2> SUFFICES ASSUME NEW n \in Token, NEW b \in Binding PROVE tk[n] # b /\ ex[b] # n
    BY DEF EachOther
  <2>1. tk[n] = NoBinding /\ ex[b] = 0 /\ n # 0
    BY UEventBoundAssumption DEF UEventInit, Token
  <2> QED BY <2>1, UEventNoneAssumption
<1>6. Listed
  BY DEF UEventInit, Listed, IsInjective, ToSet
<1>7. Counted
  <2> SUFFICES ASSUME NEW t \in Tag
               PROVE  Len(dt[t]) = Cardinality(Bindings(t)) + Count(stack, t) + stuck[t]
    BY DEF Counted
  <2>1. Bindings(t) = {}
    BY DEF Bindings, UEventInit
  <2>2. UnbindsOf(stack, t) = {}
    BY <1>2 DEF UnbindsOf
  <2>3. dt[t] = <<>> /\ stuck[t] = 0
    BY DEF UEventInit
  <2> QED BY <2>1, <2>2, <2>3, FS_EmptySet DEF Count
<1> QED BY <1>1, <1>3, <1>4, <1>5, <1>6, <1>7 DEF TableInv

\* Steps that leave the tables of the bindings as they are.
LEMMA QuietStep ==
  ASSUME TableInv, UNCHANGED <<tk, ex, db, dt>>, tcounter' \in 0 .. MaxToken, tcounter' >= tcounter,
         StackOK', stuck' \in [Tag -> Nat], PositionsFit',
         \A t \in Tag : Count(stack', t) + stuck'[t] = Count(stack, t) + stuck[t]
  PROVE  TableInv'
<1>1. TablesOK'
  BY DEF TableInv, TablesOK
<1>2. NotGiven'
  <2> SUFFICES ASSUME NEW n \in Token, n > tcounter' PROVE tk[n] = NoBinding
    BY DEF NotGiven
  <2>1. n > tcounter
    BY DEF TableInv, TablesOK, Token
  <2> QED BY <2>1 DEF TableInv, NotGiven
<1>3. EachOther' /\ Listed'
  BY DEF TableInv, EachOther, Listed
<1>4. Counted'
  <2> SUFFICES ASSUME NEW t \in Tag
               PROVE  Len(dt[t]) = Cardinality(Bindings(t)') + Count(stack', t) + stuck'[t]
    BY DEF Counted
  <2>1. Bindings(t)' = TokensOf(tk, t) /\ Bindings(t) = TokensOf(tk, t)
    BY DEF Bindings, TokensOf
  <2>2. Len(dt[t]) = Cardinality(TokensOf(tk, t)) + Count(stack, t) + stuck[t]
    BY <2>1 DEF TableInv, Counted
  <2>3. Cardinality(TokensOf(tk, t)) \in Nat /\ Count(stack, t) \in Nat /\ stuck[t] \in Nat
    BY TokensFinite, CountType DEF TableInv, TablesOK, StackOK
  <2>4. Count(stack', t) \in Nat /\ stuck'[t] \in Nat
    BY CountType DEF StackOK
  <2>5. Count(stack', t) + stuck'[t] = Count(stack, t) + stuck[t]
    OBVIOUS
  <2>6. Len(dt[t]) = Cardinality(TokensOf(tk, t)) + Count(stack', t) + stuck'[t]
    <3>1. \A a, c1, s1, c2, s2 \in Nat : c2 + s2 = c1 + s1 => a + c1 + s1 = a + c2 + s2
      OBVIOUS
    <3>2. Cardinality(TokensOf(tk, t)) + Count(stack, t) + stuck[t]
            = Cardinality(TokensOf(tk, t)) + Count(stack', t) + stuck'[t]
      BY <3>1, <2>3, <2>4, <2>5
    <3> QED BY <2>2, <3>2
  <2> QED BY <2>1, <2>6
<1> QED BY <1>1, <1>2, <1>3, <1>4 DEF TableInv

\* The innermost command goes on, in what the tables do not depend on.
LEMMA QuietTop ==
  ASSUME TableInv, UNCHANGED <<tcounter, tk, ex, db, dt, stuck>>, stack # <<>>,
         NEW f \in WatchFrame, GoodFrame(f), stack' = WithTopFrame(f),
         f.op = TopFrame.op, f.of = TopFrame.of, f.pos = TopFrame.pos,
         f.op = "unbind" => f.stage = TopFrame.stage
  PROVE  TableInv'
<1>1. StackOK /\ stack \in Seq(WatchFrame)
  BY DEF TableInv, StackOK
<1>2. StackOK'
  BY <1>1, StackTop
<1>3. /\ DOMAIN stack' = DOMAIN stack /\ stack'[Len(stack)] = f
      /\ \A i \in DOMAIN stack : i # Len(stack) => stack'[i] = stack[i]
  BY <1>1, TopReplaced DEF WithTopFrame
<1>4. TopFrame = stack[Len(stack)] /\ Len(stack) \in DOMAIN stack
  BY <1>1, TopFrameIs
<1>5. PositionsFit'
  <2> SUFFICES ASSUME NEW i \in DOMAIN stack, stack'[i].op = "unbind", stack'[i].stage = "event"
               PROVE  stack'[i].pos = 1 \/ stack'[i].pos <= Len(dt[stack'[i].of[1]])
    BY <1>3 DEF PositionsFit
  <2>1. /\ stack[i].op = "unbind" /\ stack[i].stage = "event"
        /\ stack'[i].pos = stack[i].pos /\ stack'[i].of = stack[i].of
    BY <1>3, <1>4
  <2> QED BY <2>1 DEF TableInv, PositionsFit
<1>6. ASSUME NEW t \in Tag
      PROVE  Count(stack', t) + stuck'[t] = Count(stack, t) + stuck[t]
  <2>1. One(f, t) = One(TopFrame, t) /\ One(f, t) \in Nat
    BY DEF One, IsUnbind
  <2>2. Count(stack', t) = Count(stack, t) - One(TopFrame, t) + One(f, t)
    BY <1>1, <1>4, CountReplaced DEF WithTopFrame
  <2>3. Count(stack, t) \in Nat
    BY <1>1, CountType
  <2>4. Count(stack', t) = Count(stack, t)
    BY <2>1, <2>2, <2>3
  <2> QED BY <2>4
<1>7. tcounter' \in 0 .. MaxToken /\ tcounter' >= tcounter /\ stuck' \in [Tag -> Nat]
  BY DEF TableInv, TablesOK
<1> QED BY <1>2, <1>5, <1>6, <1>7, QuietStep

\* A command leaves the stack; if it was an unbind before its tag, that is stuck.
LEMMA QuietPop ==
  ASSUME TableInv, UNCHANGED <<tcounter, tk, ex, db, dt>>, stack # <<>>, stack' = FramesBelow,
         stuck' = IF TopFrame.op = "unbind" /\ TopFrame.stage = "event"
                    THEN [stuck EXCEPT ![TopFrame.of[1]] = @ + 1] ELSE stuck
  PROVE  TableInv'
<1>1. StackOK /\ stack \in Seq(WatchFrame)
  BY DEF TableInv, StackOK
<1>2. StackOK'
  BY <1>1, StackPop
<1>3. \A i \in DOMAIN stack' : stack'[i] = stack[i] /\ i \in DOMAIN stack
  BY <1>1, TopTaken DEF FramesBelow
<1>4. TopFrame = stack[Len(stack)] /\ TopFrame \in WatchFrame /\ GoodFrame(TopFrame)
  BY <1>1, TopFrameIs
<1>5. PositionsFit'
  BY <1>3 DEF TableInv, PositionsFit
<1>6. stuck \in [Tag -> Nat]
  BY DEF TableInv, TablesOK
<1>7. ASSUME NEW t \in Tag
      PROVE  stuck'[t] = stuck[t] + One(TopFrame, t)
  <2>1. stuck[t] \in Nat
    BY <1>6
  <2>2. CASE TopFrame.op = "unbind" /\ TopFrame.stage = "event"
    BY <1>6, <2>1, <2>2 DEF One, IsUnbind
  <2>3. CASE ~(TopFrame.op = "unbind" /\ TopFrame.stage = "event")
    BY <2>1, <2>3 DEF One, IsUnbind
  <2> QED BY <2>2, <2>3
<1>8. ASSUME NEW t \in Tag
      PROVE  Count(stack', t) + stuck'[t] = Count(stack, t) + stuck[t]
  <2>1. Count(stack', t) = Count(stack, t) - One(TopFrame, t)
    BY <1>1, <1>4, CountTaken DEF FramesBelow
  <2>2. Count(stack, t) \in Nat /\ stuck[t] \in Nat /\ One(TopFrame, t) \in Nat
    BY <1>1, <1>6, CountType DEF One
  <2> QED BY <2>1, <2>2, <1>7
<1>9. stuck' \in [Tag -> Nat]
  <2>1. CASE TopFrame.op = "unbind" /\ TopFrame.stage = "event"
    <3>1. \A t \in Tag : stuck'[t] \in Nat
      BY <1>6, <1>7 DEF One
    <3>2. stuck' = [t \in Tag |-> stuck'[t]]
      BY <1>6, <2>1
    <3> QED BY <3>1, <3>2
  <2>2. CASE ~(TopFrame.op = "unbind" /\ TopFrame.stage = "event")
    BY <1>6, <2>2
  <2> QED BY <2>1, <2>2
<1>10. tcounter' \in 0 .. MaxToken /\ tcounter' >= tcounter
  BY DEF TableInv, TablesOK
<1> QED BY <1>2, <1>5, <1>8, <1>9, <1>10, QuietStep

\* A command is thrown out.
LEMMA ThrowTables ==
  ASSUME TableInv, stack # <<>>, Throw, UNCHANGED tcounter
  PROVE  TableInv'
<1>1. /\ UNCHANGED <<tk, ex, db, dt>> /\ stack' = FramesBelow
      /\ stuck' = IF TopFrame.op = "unbind" /\ TopFrame.stage = "event"
                    THEN [stuck EXCEPT ![TopFrame.of[1]] = @ + 1] ELSE stuck
  BY DEF Throw, bindingVars
<1> QED BY <1>1, QuietPop

---------------------------------------------------------------------------
(***************************************************************************)
(* The steps, one by one.                                                  *)
(***************************************************************************)

\* The shape of the tables of the watchers, and of what is remembered for the
\* properties.
WatchOK ==
  /\ wtk \in [Token -> (Pattern \X Watcher) \cup {NoBinding}] /\ wdb \in [Pattern -> Seq(Token)]
  /\ told \in [Token -> [Subject -> {"nothing", "bound", "unbound"}]]
  /\ muddled \subseteq Tag

LEMMA PatternTables ==
  ASSUME TableInv, WatchOK, NEW p, NextPattern(p), p \in Pattern
  PROVE  TableInv'
<1>1. stack # <<>> /\ ~TopFrame.running /\ TopFrame.todo = <<>> /\ p \in TopFrame.patterns
      /\ UNCHANGED tcounter
  BY DEF NextPattern, Continues
<1>2. TopFrame \in WatchFrame /\ GoodFrame(TopFrame)
  BY <1>1, TopFrameIs DEF TableInv
<1>3. CASE wdb[p] = <<>>
  BY <1>1, <1>3, ThrowTables DEF NextPattern
<1>4. CASE wdb[p] # <<>>
  <2> DEFINE f == [TopFrame EXCEPT !.patterns = @ \ {p}, !.todo = wdb[p]]
  <2>1. stack' = WithTopFrame(f) /\ UNCHANGED <<tk, ex, db, dt, stuck>>
    BY <1>4 DEF NextPattern, bindingVars, watchHistory
  <2>2. wdb[p] \in Seq(Token)
    BY DEF WatchOK
  <2>3. f \in WatchFrame
    BY <1>2, <2>2 DEF WatchFrame
  <2>4. /\ f.op = TopFrame.op /\ f.of = TopFrame.of /\ f.pos = TopFrame.pos
        /\ f.stage = TopFrame.stage /\ f.subjects = TopFrame.subjects
        /\ f.running = TopFrame.running /\ f.watcher = TopFrame.watcher
    BY <1>2 DEF WatchFrame
  <2> HIDE DEF f
  <2>5. GoodFrame(f)
    BY <1>1, <1>2, <2>4 DEF GoodFrame
  <2> QED BY <1>1, <2>1, <2>3, <2>4, <2>5, QuietTop
<1> QED BY <1>3, <1>4

LEMMA WatcherTables ==
  ASSUME TableInv, WatchOK, NextWatcher
  PROVE  TableInv'
<1>1. stack # <<>> /\ ~TopFrame.running /\ TopFrame.todo # <<>> /\ UNCHANGED tcounter
  BY DEF NextWatcher, Continues
<1>2. TopFrame \in WatchFrame /\ GoodFrame(TopFrame)
  BY <1>1, TopFrameIs DEF TableInv
<1>3. CASE wtk[Head(TopFrame.todo)] = NoBinding
  BY <1>1, <1>3, ThrowTables DEF NextWatcher
<1>4. CASE wtk[Head(TopFrame.todo)] # NoBinding
  <2> DEFINE f == [[TopFrame EXCEPT !.todo = Tail(@)] EXCEPT !.running = TRUE]
  <2>1. stack' = WithTopFrame(f) /\ UNCHANGED <<tk, ex, db, dt, stuck>>
    BY <1>4 DEF NextWatcher, TellWatcher, bindingVars
  <2>2. TopFrame.todo \in Seq(Token)
    BY <1>2 DEF WatchFrame
  <2>3. Tail(TopFrame.todo) \in Seq(Token)
    BY <1>1, <2>2
  <2>4. f \in WatchFrame
    BY <1>2, <2>3 DEF WatchFrame
  <2>5. /\ f.op = TopFrame.op /\ f.of = TopFrame.of /\ f.pos = TopFrame.pos
        /\ f.stage = TopFrame.stage /\ f.subjects = TopFrame.subjects
        /\ f.watcher = TopFrame.watcher /\ f.patterns = TopFrame.patterns
    BY <1>2 DEF WatchFrame
  <2> HIDE DEF f
  <2>6. GoodFrame(f)
    BY <1>1, <1>2, <2>5 DEF GoodFrame
  <2> QED BY <1>1, <2>1, <2>4, <2>5, <2>6, QuietTop
<1> QED BY <1>3, <1>4

LEMMA SubjectTables ==
  ASSUME TableInv, WatchOK, NEW x, NextSubject(x)
  PROVE  TableInv'
<1>1. stack # <<>> /\ ~TopFrame.running /\ TopFrame.op = "add" /\ UNCHANGED tcounter
  BY DEF NextSubject, Continues
<1>2. TopFrame \in WatchFrame /\ GoodFrame(TopFrame)
  BY <1>1, TopFrameIs DEF TableInv
<1> DEFINE f == [[TopFrame EXCEPT !.subjects = @ \ {x}] EXCEPT !.running = TRUE]
<1>3. stack' = WithTopFrame(f) /\ UNCHANGED <<tk, ex, db, dt, stuck>>
  BY DEF NextSubject, TellWatcher, bindingVars
<1>4. f \in WatchFrame
  BY <1>2 DEF WatchFrame
<1>5. /\ f.op = TopFrame.op /\ f.of = TopFrame.of /\ f.pos = TopFrame.pos
      /\ f.stage = TopFrame.stage /\ f.watcher = TopFrame.watcher
      /\ f.patterns = TopFrame.patterns /\ f.todo = TopFrame.todo
  BY <1>2 DEF WatchFrame
<1> HIDE DEF f
<1>6. GoodFrame(f)
  BY <1>1, <1>2, <1>5 DEF GoodFrame
<1> QED BY <1>1, <1>3, <1>4, <1>5, <1>6, QuietTop

LEMMA BindGoesTables ==
  ASSUME TableInv, WatchOK, BindGoesOn
  PROVE  TableInv'
<1>1. stack # <<>> /\ ~TopFrame.running /\ TopFrame.op = "bind" /\ UNCHANGED tcounter
  BY DEF BindGoesOn, AllCalled, Continues
<1>2. TopFrame \in WatchFrame /\ GoodFrame(TopFrame)
  BY <1>1, TopFrameIs DEF TableInv
<1>3. CASE db[TopFrame.of] = <<>>
  BY <1>1, <1>3, ThrowTables DEF BindGoesOn
<1>4. CASE db[TopFrame.of] # <<>>
  <2> DEFINE W == WatchersOf(TopFrame.of, Len(db[TopFrame.of]))
             f == [TopFrame EXCEPT !.stage = "event", !.patterns = W]
  <2>1. stack' = WithTopFrame(f) /\ UNCHANGED <<tk, ex, db, dt, stuck>>
    BY <1>4 DEF BindGoesOn, Proceed, watchHistory
  <2>2. W \subseteq Pattern
    BY DEF WatchersOf, Matching
  <2> HIDE DEF W
  <2>3. f \in WatchFrame
    BY <1>2, <2>2 DEF WatchFrame
  <2>4. /\ f.op = TopFrame.op /\ f.of = TopFrame.of /\ f.pos = TopFrame.pos
        /\ f.subjects = TopFrame.subjects
    BY <1>2 DEF WatchFrame
  <2> HIDE DEF f
  <2>5. GoodFrame(f)
    BY <1>1, <1>2, <2>4 DEF GoodFrame
  <2> QED BY <1>1, <2>1, <2>3, <2>4, <2>5, QuietTop
<1> QED BY <1>3, <1>4

LEMMA ScriptEndsTables ==
  ASSUME TableInv, WatchOK, ScriptEnds
  PROVE  TableInv'
<1>1. stack # <<>> /\ UNCHANGED tcounter
  BY DEF ScriptEnds
<1>2. TopFrame \in WatchFrame /\ GoodFrame(TopFrame)
  BY <1>1, TopFrameIs DEF TableInv
<1>3. CASE Throw
  BY <1>1, <1>3, ThrowTables
<1> DEFINE f == [TopFrame EXCEPT !.running = FALSE]
<1>4. CASE stack' = WithTopFrame(f) /\ UNCHANGED <<bindingVars, watchHistory>>
  <2>1. UNCHANGED <<tk, ex, db, dt, stuck>>
    BY <1>4 DEF bindingVars, watchHistory
  <2>2. f \in WatchFrame
    BY <1>2 DEF WatchFrame
  <2>3. /\ f.op = TopFrame.op /\ f.of = TopFrame.of /\ f.pos = TopFrame.pos
        /\ f.stage = TopFrame.stage /\ f.subjects = TopFrame.subjects
        /\ f.watcher = TopFrame.watcher /\ f.patterns = TopFrame.patterns /\ f.todo = TopFrame.todo
        /\ f.running = FALSE
    BY <1>2 DEF WatchFrame
  <2> HIDE DEF f
  <2>4. GoodFrame(f)
    BY <1>2, <2>3 DEF GoodFrame
  <2> QED BY <1>1, <1>4, <2>1, <2>2, <2>3, <2>4, QuietTop
<1> QED BY <1>3, <1>4 DEF ScriptEnds

LEMMA CommandEndsTables ==
  ASSUME TableInv, WatchOK, CommandEnds
  PROVE  TableInv'
<1>1. stack # <<>> /\ stack' = FramesBelow /\ UNCHANGED <<tcounter, tk, ex, db, dt, stuck>>
  BY DEF CommandEnds, AllCalled, Continues, Return, watchHistory
<1>2. ~(TopFrame.op = "unbind" /\ TopFrame.stage = "event")
  BY DEF CommandEnds
<1> QED BY <1>1, <1>2, QuietPop

\* A command begins that is no unbind.
LEMMA QuietPut ==
  ASSUME TableInv, UNCHANGED <<tk, ex, db, dt, stuck>>, tcounter' \in 0 .. MaxToken,
         tcounter' >= tcounter, stack # <<>> => TopFrame.running,
         NEW f \in WatchFrame, GoodFrame(f), f.op # "unbind", stack' = Append(stack, f)
  PROVE  TableInv'
<1>1. StackOK /\ stack \in Seq(WatchFrame)
  BY DEF TableInv, StackOK
<1>2. StackOK'
  BY <1>1, StackPut
<1>3. /\ DOMAIN stack' = DOMAIN stack \cup {Len(stack) + 1} /\ stack'[Len(stack) + 1] = f
      /\ \A i \in DOMAIN stack : stack'[i] = stack[i]
  BY <1>1, TopPut
<1>4. PositionsFit'
  BY <1>3 DEF TableInv, PositionsFit
<1>5. ASSUME NEW t \in Tag
      PROVE  Count(stack', t) + stuck'[t] = Count(stack, t) + stuck[t]
  <2>1. One(f, t) = 0
    BY DEF One, IsUnbind
  <2>2. Count(stack', t) = Count(stack, t) + One(f, t) /\ Count(stack, t) \in Nat
    BY <1>1, CountPut, CountType
  <2> QED BY <2>1, <2>2
<1>6. stuck' \in [Tag -> Nat]
  BY DEF TableInv, TablesOK
<1> QED BY <1>2, <1>4, <1>5, <1>6, QuietStep

\* The token that is given out.
LEMMA TokenIs ==
  ASSUME TablesOK, NewToken
  PROVE  /\ TokenGiven \in Token /\ tcounter' \in 0 .. MaxToken /\ tcounter' >= tcounter
         /\ TokenGiven > tcounter /\ tcounter' = TokenGiven
BY UEventBoundAssumption DEF TablesOK, NewToken, TokenGiven, Token

LEMMA AddTables ==
  ASSUME TableInv, WatchOK, NEW p \in Pattern, NEW c \in Watcher, WatchAdd(p, c)
  PROVE  TableInv'
<1> DEFINE S == {x \in p : HasObservers(x)}
           f == [op |-> "add", of |-> NoBinding, stage |-> "tag", pos |-> 0, patterns |-> {},
                 todo |-> <<>>, watcher |-> TokenGiven, subjects |-> S, running |-> FALSE]
<1>1. /\ stack' = Append(stack, f) /\ UNCHANGED <<tk, ex, db, dt, stuck>>
      /\ NewToken /\ (stack # <<>> => TopFrame.running)
  BY DEF WatchAdd, bindingVars, watchHistory, CanCall
<1>2. TokenGiven \in Token /\ tcounter' \in 0 .. MaxToken /\ tcounter' >= tcounter
  BY <1>1, TokenIs DEF TableInv
<1>3. S \subseteq Subject
  BY PatternAssumption DEF Subject
<1> HIDE DEF S
<1>4. f \in WatchFrame
  BY <1>2, <1>3 DEF WatchFrame
<1>5. GoodFrame(f) /\ f.op # "unbind"
  BY <1>2 DEF GoodFrame
<1> HIDE DEF f
<1> QED BY <1>1, <1>2, <1>4, <1>5, QuietPut

LEMMA RemoveTables ==
  ASSUME TableInv, WatchOK, NEW n, WatchRemove(n)
  PROVE  TableInv'
BY DEF WatchRemove, bindingVars, watchHistory, TableInv, TablesOK, StackOK, FramesGood, NotGiven,
       EachOther, Listed, Counted, Bindings, PositionsFit

\* bind: a token more.
LEMMA BindTables ==
  ASSUME TableInv, WatchOK, NEW te \in TagEvent, NEW c \in Command, BindEvent(te, c)
  PROVE  TableInv'
<1> DEFINE g == TokenGiven
           b == <<te, c>>
           t == te[1]
           W == WatchersOf(t, Len(dt'[t]))
           f == [op |-> "bind", of |-> te, stage |-> "tag", pos |-> 0, patterns |-> W,
                 todo |-> <<>>, watcher |-> 0, subjects |-> {}, running |-> FALSE]
<1>1. /\ tk' = [tk EXCEPT ![g] = b] /\ ex' = [ex EXCEPT ![b] = g]
      /\ db' = [db EXCEPT ![te] = Append(@, g)] /\ dt' = [dt EXCEPT ![t] = Append(@, g)]
      /\ stack' = Append(stack, f) /\ UNCHANGED stuck
      /\ ex[b] = 0 /\ NewToken /\ (stack # <<>> => TopFrame.running)
  BY DEF BindEvent, CanCall
<1>2. t \in Tag /\ b \in Binding
  BY DEF TagEvent, Binding
<1>3. TablesOK /\ StackOK
  BY DEF TableInv
<1>4. g \in Token /\ tcounter' \in 0 .. MaxToken /\ tcounter' = g /\ g > tcounter
  BY <1>1, <1>3, TokenIs
<1>5. tk[g] = NoBinding
  BY <1>4 DEF TableInv, NotGiven
<1>6. W \subseteq Pattern
  BY DEF WatchersOf, Matching
<1> HIDE DEF W
<1>7. f \in WatchFrame /\ GoodFrame(f)
  BY <1>6 DEF WatchFrame, GoodFrame
<1>8. f.op = "bind"
  OBVIOUS
<1> HIDE DEF f, g
<1>9. StackOK'
  BY <1>1, <1>3, <1>7, StackPut
<1>10. b # NoBinding /\ b[1] = te
  BY <1>2, UEventNoneAssumption
<1> HIDE DEF b
<1>11. TablesOK'
  <2>1. tk' \in [Token -> Binding \cup {NoBinding}]
    BY <1>1, <1>2, <1>3 DEF TablesOK
  <2>2. ex' \in [Binding -> Token \cup {0}]
    BY <1>1, <1>3, <1>4 DEF TablesOK
  <2>3. db' \in [TagEvent -> Seq(Token)]
    <3>1. Append(db[te], g) \in Seq(Token)
      BY <1>3, <1>4 DEF TablesOK
    <3> QED BY <3>1, <1>1, <1>3 DEF TablesOK
  <2>4. dt' \in [Tag -> Seq(Token)]
    <3>1. Append(dt[t], g) \in Seq(Token)
      BY <1>2, <1>3, <1>4 DEF TablesOK
    <3> QED BY <3>1, <1>1, <1>3 DEF TablesOK
  <2> QED BY <2>1, <2>2, <2>3, <2>4, <1>1, <1>3, <1>4 DEF TablesOK
<1>12. NotGiven'
  <2> SUFFICES ASSUME NEW n \in Token, n > tcounter' PROVE tk'[n] = NoBinding
    BY DEF NotGiven
  <2>1. n # g /\ n > tcounter
    BY <1>3, <1>4 DEF TablesOK, Token
  <2>2. tk[n] = NoBinding
    BY <2>1 DEF TableInv, NotGiven
  <2> QED BY <2>1, <2>2, <1>1, <1>3 DEF TablesOK
<1>13. EachOther'
  <2> SUFFICES ASSUME NEW n \in Token, NEW d \in Binding PROVE tk'[n] = d <=> ex'[d] = n
    BY DEF EachOther
  <2>1. tk[n] = d <=> ex[d] = n
    BY DEF TableInv, EachOther
  <2>2. n # 0 /\ d # NoBinding
    BY UEventNoneAssumption, UEventBoundAssumption DEF Token
  <2>3. tk'[n] = IF n = g THEN b ELSE tk[n]
    BY <1>1, <1>3 DEF TablesOK
  <2>4. ex'[d] = IF d = b THEN g ELSE ex[d]
    BY <1>1, <1>3 DEF TablesOK
  <2>5. ex[d] = g => FALSE
    <3>1. tk[g] = d <=> ex[d] = g
      BY <1>4 DEF TableInv, EachOther
    <3> QED BY <3>1, <1>5, <2>2
  <2> QED BY <2>1, <2>2, <2>3, <2>4, <2>5, <1>1
<1>14. Listed'
  <2> SUFFICES ASSUME NEW u \in TagEvent
               PROVE  /\ IsInjective(db'[u])
                      /\ ToSet(db'[u]) = {n \in Token : tk'[n] # NoBinding /\ tk'[n][1] = u}
    BY DEF Listed
  <2>1. /\ IsInjective(db[u])
        /\ ToSet(db[u]) = {n \in Token : tk[n] # NoBinding /\ tk[n][1] = u}
    BY DEF TableInv, Listed
  <2>2. \A n \in Token : tk'[n] = IF n = g THEN b ELSE tk[n]
    BY <1>1, <1>3 DEF TablesOK
  <2>3. g \notin ToSet(db[u])
    BY <2>1, <1>5
  <2>4. CASE u = te
    <3>1. db'[u] = Append(db[u], g) /\ db[u] \in Seq(Token)
      BY <2>4, <1>1, <1>3 DEF TablesOK
    <3>2. IsInjective(db'[u]) /\ ToSet(db'[u]) = ToSet(db[u]) \cup {g}
      BY <3>1, <2>1, <2>3, <1>4, AppendedOnce
    <3> QED BY <3>2, <2>1, <2>2, <2>4, <1>4, <1>10
  <2>5. CASE u # te
    <3>1. db'[u] = db[u]
      BY <2>5, <1>1, <1>3 DEF TablesOK
    <3> QED BY <3>1, <2>1, <2>2, <2>5, <1>5, <1>10
  <2> QED BY <2>4, <2>5
<1>15. ASSUME NEW u \in Tag
       PROVE  /\ dt[u] \in Seq(Token) /\ Len(dt[u]) \in Nat
              /\ Len(dt'[u]) = IF u = t THEN Len(dt[u]) + 1 ELSE Len(dt[u])
  <2>1. dt[u] \in Seq(Token) /\ Len(dt[u]) \in Nat
    BY <1>3 DEF TablesOK
  <2>2. dt'[u] = IF u = t THEN Append(dt[u], g) ELSE dt[u]
    BY <1>1, <1>2, <1>3 DEF TablesOK
  <2>3. Len(Append(dt[u], g)) = Len(dt[u]) + 1
    BY <2>1
  <2> QED BY <2>1, <2>2, <2>3
<1>16. Counted'
  <2> SUFFICES ASSUME NEW u \in Tag
               PROVE  Len(dt'[u]) = Cardinality(TokensOf(tk', u)) + Count(stack', u) + stuck'[u]
    BY DEF Counted, Bindings, TokensOf
  <2>1. Len(dt[u]) = Cardinality(TokensOf(tk, u)) + Count(stack, u) + stuck[u]
    BY BindingsAre DEF TableInv, Counted
  <2>2. Cardinality(TokensOf(tk', u)) =
          IF t = u THEN Cardinality(TokensOf(tk, u)) + 1 ELSE Cardinality(TokensOf(tk, u))
    <3>1. tk'[g] = b /\ \A m \in Token : m # g => tk'[m] = tk[m]
      BY <1>1, <1>3, <1>4 DEF TablesOK
    <3>2. /\ b[1][1] = u => Cardinality(TokensOf(tk', u)) = Cardinality(TokensOf(tk, u)) + 1
          /\ b[1][1] # u => Cardinality(TokensOf(tk', u)) = Cardinality(TokensOf(tk, u))
      BY <3>1, <1>4, <1>5, <1>10, TokensMore
    <3> QED BY <3>2, <1>10
  <2>3. Count(stack', u) = Count(stack, u) + One(f, u) /\ Count(stack, u) \in Nat
    BY <1>1, <1>3, <1>7, CountPut, CountType DEF StackOK
  <2>4. One(f, u) = 0
    BY <1>8 DEF One, IsUnbind
  <2>5. Cardinality(TokensOf(tk, u)) \in Nat /\ stuck[u] \in Nat /\ stuck'[u] = stuck[u]
    BY <1>1, <1>3, TokensFinite DEF TablesOK
  <2>6. Count(stack', u) = Count(stack, u)
    BY <2>3, <2>4
  <2>7. Len(dt'[u]) = IF t = u THEN Len(dt[u]) + 1 ELSE Len(dt[u])
    BY <1>15
  <2> HIDE DEF t
  <2>8. CASE t = u
    <3>1. Cardinality(TokensOf(tk', u)) = Cardinality(TokensOf(tk, u)) + 1 /\ Len(dt'[u]) = Len(dt[u]) + 1
      BY <2>2, <2>7, <2>8
    <3> QED BY <3>1, <2>1, <2>3, <2>5, <2>6
  <2>9. CASE t # u
    <3>1. Cardinality(TokensOf(tk', u)) = Cardinality(TokensOf(tk, u)) /\ Len(dt'[u]) = Len(dt[u])
      BY <2>2, <2>7, <2>9
    <3> QED BY <3>1, <2>1, <2>3, <2>5, <2>6
  <2> QED BY <2>8, <2>9
<1>17. PositionsFit'
  <2>1. /\ DOMAIN stack' = DOMAIN stack \cup {Len(stack) + 1} /\ stack'[Len(stack) + 1] = f
        /\ \A i \in DOMAIN stack : stack'[i] = stack[i]
    BY <1>1, <1>3, <1>7, TopPut DEF StackOK
  <2> SUFFICES ASSUME NEW i \in DOMAIN stack, stack[i].op = "unbind", stack[i].stage = "event"
               PROVE  stack[i].pos = 1 \/ stack[i].pos <= Len(dt'[stack[i].of[1]])
    BY <1>8, <2>1 DEF PositionsFit
  <2>2. stack[i] \in WatchFrame /\ GoodFrame(stack[i])
    BY <1>3 DEF StackOK, FramesGood
  <2>3. stack[i].of[1] \in Tag /\ stack[i].pos \in Nat
    BY <2>2 DEF GoodFrame, WatchFrame, TagEvent
  <2>4. stack[i].pos = 1 \/ stack[i].pos <= Len(dt[stack[i].of[1]])
    BY DEF TableInv, PositionsFit
  <2> QED BY <2>3, <2>4, <1>15
<1> QED BY <1>9, <1>11, <1>12, <1>13, <1>14, <1>16, <1>17 DEF TableInv

\* unbind: a token less, and a command that will come to the tag.
LEMMA UnbindTables ==
  ASSUME TableInv, WatchOK, NEW n \in Token, UnbindEvent(n)
  PROVE  TableInv'
<1> DEFINE b == tk[n]
           te == b[1]
           t == te[1]
           pos == Position(db[te], n)
           W == WatchersOf(te, Len(db[te]))
           f == [op |-> "unbind", of |-> te, stage |-> "event", pos |-> pos, patterns |-> W,
                 todo |-> <<>>, watcher |-> 0, subjects |-> {}, running |-> FALSE]
<1>1. /\ tk' = [tk EXCEPT ![n] = NoBinding] /\ ex' = [ex EXCEPT ![b] = 0]
      /\ db' = [db EXCEPT ![te] = RemoveAt(@, pos)]
      /\ stack' = Append(stack, f) /\ UNCHANGED <<tcounter, dt, stuck>>
      /\ b # NoBinding /\ (stack # <<>> => TopFrame.running)
  BY DEF UnbindEvent, CanCall
<1>2. TablesOK /\ StackOK
  BY DEF TableInv
<1>3. b \in Binding /\ te \in TagEvent /\ t \in Tag
  BY <1>1, <1>2 DEF TablesOK, Binding, TagEvent
<1>4. n \in ToSet(db[te])
  BY <1>1, <1>3 DEF TableInv, Listed
<1>5. pos \in DOMAIN db[te] /\ db[te][pos] = n
  BY <1>4, PositionIs
<1>6. db[te] \in Seq(Token) /\ Len(db[te]) \in Nat /\ IsInjective(db[te])
  BY <1>2, <1>3 DEF TablesOK, TableInv, Listed
<1>7. pos \in Nat /\ pos >= 1 /\ pos <= Len(db[te])
  BY <1>5, <1>6
<1>8. W \subseteq Pattern /\ (Len(db[te]) # 1 => W = {})
  BY DEF WatchersOf, Matching
<1> HIDE DEF W, pos
<1>9. f \in WatchFrame
  BY <1>3, <1>7, <1>8 DEF WatchFrame
<1>10. GoodFrame(f)
  <2>1. pos = 1 \/ W = {}
    <3>1. CASE Len(db[te]) = 1
      BY <3>1, <1>7
    <3>2. CASE Len(db[te]) # 1
      BY <3>2, <1>8
    <3> QED BY <3>1, <3>2
  <2> QED BY <2>1, <1>3, <1>7 DEF GoodFrame
<1>11. f.op = "unbind" /\ f.stage = "event" /\ f.of = te /\ f.pos = pos
  OBVIOUS
<1> HIDE DEF f, te, b
<1>12. StackOK'
  BY <1>1, <1>2, <1>9, <1>10, StackPut
<1>13. /\ RemoveAt(db[te], pos) \in Seq(Token) /\ IsInjective(RemoveAt(db[te], pos))
       /\ ToSet(RemoveAt(db[te], pos)) = ToSet(db[te]) \ {n}
  BY <1>5, <1>6, RemovedIs, RemovedOnce
<1>14. \A m \in Token : tk'[m] = IF m = n THEN NoBinding ELSE tk[m]
  BY <1>1, <1>2 DEF TablesOK
<1>15. TablesOK'
  <2>1. tk' \in [Token -> Binding \cup {NoBinding}]
    BY <1>1, <1>2 DEF TablesOK
  <2>2. ex' \in [Binding -> Token \cup {0}]
    BY <1>1, <1>2 DEF TablesOK
  <2>3. db' \in [TagEvent -> Seq(Token)]
    BY <1>1, <1>2, <1>13 DEF TablesOK
  <2> QED BY <2>1, <2>2, <2>3, <1>1, <1>2 DEF TablesOK
<1>16. NotGiven'
  BY <1>1, <1>14 DEF TableInv, NotGiven
<1>17. EachOther'
  <2> SUFFICES ASSUME NEW m \in Token, NEW d \in Binding PROVE tk'[m] = d <=> ex'[d] = m
    BY DEF EachOther
  <2>1. (tk[m] = d <=> ex[d] = m) /\ (tk[n] = d <=> ex[d] = n)
    BY DEF TableInv, EachOther
  <2>2. m # 0 /\ d # NoBinding
    BY UEventNoneAssumption, UEventBoundAssumption DEF Token
  <2>3. ex'[d] = IF d = b THEN 0 ELSE ex[d]
    BY <1>1, <1>2 DEF TablesOK
  <2>4. tk[n] = b
    BY DEF b
  <2> QED BY <2>1, <2>2, <2>3, <2>4, <1>14
<1>18. Listed'
  <2> SUFFICES ASSUME NEW u \in TagEvent
               PROVE  /\ IsInjective(db'[u])
                      /\ ToSet(db'[u]) = {m \in Token : tk'[m] # NoBinding /\ tk'[m][1] = u}
    BY DEF Listed
  <2>1. /\ IsInjective(db[u])
        /\ ToSet(db[u]) = {m \in Token : tk[m] # NoBinding /\ tk[m][1] = u}
    BY DEF TableInv, Listed
  <2>2. CASE u = te
    <3>1. db'[u] = RemoveAt(db[te], pos)
      BY <2>2, <1>1, <1>2 DEF TablesOK
    <3> QED BY <3>1, <2>1, <2>2, <1>13, <1>14
  <2>3. CASE u # te
    <3>1. db'[u] = db[u]
      BY <2>3, <1>1, <1>2 DEF TablesOK
    <3>2. tk[n][1] # u
      BY <2>3 DEF te, b
    <3> QED BY <3>1, <3>2, <2>1, <1>14
  <2> QED BY <2>2, <2>3
<1>19. Counted'
  <2> SUFFICES ASSUME NEW u \in Tag
               PROVE  Len(dt'[u]) = Cardinality(TokensOf(tk', u)) + Count(stack', u) + stuck'[u]
    BY DEF Counted, Bindings, TokensOf
  <2>1. Len(dt[u]) = Cardinality(TokensOf(tk, u)) + Count(stack, u) + stuck[u]
    BY BindingsAre DEF TableInv, Counted
  <2>2. /\ t = u => Cardinality(TokensOf(tk', u)) = Cardinality(TokensOf(tk, u)) - 1
        /\ t # u => Cardinality(TokensOf(tk', u)) = Cardinality(TokensOf(tk, u))
    <3>1. tk'[n] = NoBinding /\ \A m \in Token : m # n => tk'[m] = tk[m]
      BY <1>14
    <3>2. tk[n] # NoBinding /\ tk[n][1][1] = t
      BY <1>1 DEF b, te
    <3>3. /\ tk[n][1][1] = u => Cardinality(TokensOf(tk', u)) = Cardinality(TokensOf(tk, u)) - 1
          /\ tk[n][1][1] # u => Cardinality(TokensOf(tk', u)) = Cardinality(TokensOf(tk, u))
      BY <3>1, <3>2, TokensLess
    <3> QED BY <3>2, <3>3
  <2>3. Count(stack', u) = Count(stack, u) + One(f, u) /\ Count(stack, u) \in Nat
    BY <1>1, <1>2, <1>9, CountPut, CountType DEF StackOK
  <2>4. One(f, u) = IF t = u THEN 1 ELSE 0
    BY <1>11 DEF One, IsUnbind
  <2>5. Cardinality(TokensOf(tk, u)) \in Nat /\ stuck[u] \in Nat /\ stuck'[u] = stuck[u]
    BY <1>1, <1>2, TokensFinite DEF TablesOK
  <2>6. dt'[u] = dt[u]
    BY <1>1
  <2> HIDE DEF t
  <2>7. CASE t = u
    <3>1. /\ Cardinality(TokensOf(tk', u)) = Cardinality(TokensOf(tk, u)) - 1
          /\ Count(stack', u) = Count(stack, u) + 1
      BY <2>2, <2>3, <2>4, <2>7
    <3> QED BY <3>1, <2>1, <2>3, <2>5, <2>6
  <2>8. CASE t # u
    <3>1. /\ Cardinality(TokensOf(tk', u)) = Cardinality(TokensOf(tk, u))
          /\ Count(stack', u) = Count(stack, u)
      BY <2>2, <2>3, <2>4, <2>8
    <3> QED BY <3>1, <2>1, <2>3, <2>5, <2>6
  <2> QED BY <2>7, <2>8
<1>20. PositionsFit'
  <2>1. /\ DOMAIN stack' = DOMAIN stack \cup {Len(stack) + 1} /\ stack'[Len(stack) + 1] = f
        /\ \A i \in DOMAIN stack : stack'[i] = stack[i]
    BY <1>1, <1>2, <1>9, TopPut DEF StackOK
  <2>2. pos <= Len(dt[te[1]])
    <3>1. Len(db[te]) <= Len(dt[te[1]]) /\ Len(dt[te[1]]) \in Nat
      BY <1>2, <1>3, ListsFit DEF TablesOK
    <3> QED BY <3>1, <1>6, <1>7
  <2> QED BY <1>1, <1>11, <2>1, <2>2 DEF TableInv, PositionsFit
<1> QED BY <1>12, <1>15, <1>16, <1>17, <1>18, <1>19, <1>20 DEF TableInv

\* unbind comes to its tag: the list of the tag is a token shorter.
LEMMA ShrunkTables ==
  ASSUME TableInv, UNCHANGED <<tcounter, tk, ex, db, stuck>>, NEW t \in Tag,
         dt' \in [Tag -> Seq(Token)], Len(dt'[t]) = Len(dt[t]) - 1,
         \A u \in Tag : u # t => dt'[u] = dt[u],
         StackOK', Count(stack', t) = Count(stack, t) - 1,
         \A u \in Tag : u # t => Count(stack', u) = Count(stack, u),
         PositionsFit'
  PROVE  TableInv'
<1>1. TablesOK' /\ NotGiven' /\ EachOther' /\ Listed'
  BY DEF TableInv, TablesOK, NotGiven, EachOther, Listed
<1>2. Counted'
  <2> SUFFICES ASSUME NEW u \in Tag
               PROVE  Len(dt'[u]) = Cardinality(TokensOf(tk, u)) + Count(stack', u) + stuck[u]
    BY DEF Counted, Bindings, TokensOf
  <2>1. Len(dt[u]) = Cardinality(TokensOf(tk, u)) + Count(stack, u) + stuck[u]
    BY BindingsAre DEF TableInv, Counted
  <2>2. Cardinality(TokensOf(tk, u)) \in Nat /\ stuck[u] \in Nat /\ Count(stack, u) \in Nat
    BY TokensFinite, CountType DEF TableInv, TablesOK, StackOK
  <2>3. CASE u = t
    BY <2>1, <2>2, <2>3
  <2>4. CASE u # t
    BY <2>1, <2>2, <2>4
  <2> QED BY <2>3, <2>4
<1> QED BY <1>1, <1>2 DEF TableInv

LEMMA UnbindGoesTables ==
  ASSUME TableInv, WatchOK, UnbindGoesOn
  PROVE  TableInv'
<1> DEFINE t == TopFrame.of[1]
           k == Len(stack)
<1>1. /\ stack # <<>> /\ ~TopFrame.running /\ TopFrame.op = "unbind" /\ TopFrame.stage = "event"
      /\ UNCHANGED tcounter
  BY DEF UnbindGoesOn, AllCalled, Continues
<1>2. TablesOK /\ StackOK /\ stack \in Seq(WatchFrame)
  BY DEF TableInv, StackOK
<1>3. TopFrame \in WatchFrame /\ GoodFrame(TopFrame) /\ k \in DOMAIN stack /\ TopFrame = stack[k]
  BY <1>1, <1>2, TopFrameIs
<1>4. TopFrame.of \in TagEvent /\ t \in Tag /\ TopFrame.pos \in Nat /\ TopFrame.pos >= 1
  BY <1>1, <1>3 DEF GoodFrame, WatchFrame, TagEvent
<1>5. dt \in [Tag -> Seq(Token)] /\ dt[t] \in Seq(Token) /\ Len(dt[t]) \in Nat
  BY <1>2, <1>4 DEF TablesOK
<1>6. Len(dt[t]) >= 1
  <2>1. Len(dt[t]) = Cardinality(TokensOf(tk, t)) + Count(stack, t) + stuck[t]
    BY <1>4, BindingsAre DEF TableInv, Counted
  <2>2. IsUnbind(stack[k], t)
    BY <1>1, <1>3 DEF IsUnbind
  <2>3. Count(stack, t) >= 1 /\ Count(stack, t) \in Nat
    BY <2>2, <1>2, <1>3, CountType
  <2>4. Cardinality(TokensOf(tk, t)) \in Nat /\ stuck[t] \in Nat
    BY <1>2, <1>4, TokensFinite DEF TablesOK
  <2> QED BY <2>1, <2>3, <2>4
<1>7. TopFrame.pos \in DOMAIN dt[t]
  <2>1. TopFrame.pos = 1 \/ TopFrame.pos <= Len(dt[t])
    BY <1>1, <1>3 DEF TableInv, PositionsFit
  <2> QED BY <2>1, <1>4, <1>5, <1>6
<1>8. \A u \in Tag : One(TopFrame, u) = IF u = t THEN 1 ELSE 0
  BY <1>1 DEF One, IsUnbind
<1>9. \A u \in Tag : Count(stack, u) \in Nat
  BY <1>2, CountType
\* the commands below the innermost wait in a script, so that they have position 1
<1>10. \A i \in DOMAIN stack : i # k /\ stack[i].op = "unbind" /\ stack[i].stage = "event" => stack[i].pos = 1
  BY <1>2 DEF StackOK, FramesGood, GoodFrame
<1> HIDE DEF t
<1>11. CASE Len(dt[t]) = 1
  <2> DEFINE W == Matching(t)
             f == [TopFrame EXCEPT !.stage = "tag", !.patterns = W]
  <2>1. /\ dt' = [dt EXCEPT ![t] = <<>>] /\ stack' = WithTopFrame(f)
        /\ UNCHANGED <<tcounter, tk, ex, db, stuck>>
    BY <1>1, <1>11 DEF UnbindGoesOn, Proceed, watchHistory, t
  <2>2. W \subseteq Pattern
    BY DEF Matching
  <2> HIDE DEF W
  <2>3. f \in WatchFrame
    BY <1>3, <2>2 DEF WatchFrame
  <2>4. /\ f.op = TopFrame.op /\ f.of = TopFrame.of /\ f.stage = "tag"
        /\ f.subjects = TopFrame.subjects
    BY <1>3 DEF WatchFrame
  <2> HIDE DEF f
  <2>5. GoodFrame(f)
    BY <1>1, <1>3, <2>4 DEF GoodFrame
  <2>6. StackOK'
    BY <1>1, <1>2, <2>1, <2>3, <2>5, StackTop
  <2>7. /\ DOMAIN stack' = DOMAIN stack /\ stack'[k] = f
        /\ \A i \in DOMAIN stack : i # k => stack'[i] = stack[i]
    BY <1>1, <1>2, <2>1, <2>3, TopReplaced DEF WithTopFrame
  <2>8. PositionsFit'
    BY <1>10, <2>4, <2>7 DEF PositionsFit
  <2>9. \A u \in Tag : Count(stack', u) = Count(stack, u) - (IF u = t THEN 1 ELSE 0)
    <3> SUFFICES ASSUME NEW u \in Tag
                 PROVE  Count(stack', u) = Count(stack, u) - (IF u = t THEN 1 ELSE 0)
      OBVIOUS
    <3>1. Count(stack', u) = Count(stack, u) - One(TopFrame, u) + One(f, u)
      BY <1>1, <1>2, <1>3, <2>1, <2>3, CountReplaced DEF WithTopFrame
    <3>2. One(f, u) = 0
      BY <2>4 DEF One, IsUnbind
    <3> QED BY <3>1, <3>2, <1>8, <1>9
  <2>10. Count(stack', t) = Count(stack, t) - 1 /\ \A u \in Tag : u # t => Count(stack', u) = Count(stack, u)
    BY <2>9, <1>4, <1>9 DEF t
  <2>11. /\ dt' \in [Tag -> Seq(Token)] /\ dt'[t] = <<>>
         /\ \A u \in Tag : u # t => dt'[u] = dt[u]
    <3>1. <<>> \in Seq(Token)
      OBVIOUS
    <3>2. t \in Tag
      BY <1>4 DEF t
    <3> QED BY <3>1, <3>2, <1>5, <2>1
  <2>12. Len(dt'[t]) = Len(dt[t]) - 1
    BY <2>11, <1>11
  <2>13. t \in Tag
    BY <1>4 DEF t
  <2> QED BY <2>1, <2>6, <2>8, <2>10, <2>11, <2>12, <2>13, ShrunkTables
<1>12. CASE Len(dt[t]) # 1
  <2> DEFINE r == RemoveAt(dt[t], TopFrame.pos)
  <2>1. /\ dt' = [dt EXCEPT ![t] = r] /\ stack' = FramesBelow
        /\ UNCHANGED <<tcounter, tk, ex, db, stuck>>
    BY <1>1, <1>12 DEF UnbindGoesOn, Return, Shrunk, watchHistory, t
  <2>2. r \in Seq(Token) /\ Len(r) = Len(dt[t]) - 1
    BY <1>5, <1>7, RemovedIs DEF t
  <2> HIDE DEF r
  <2>3. t \in Tag
    BY <1>4 DEF t
  <2>4. /\ dt' \in [Tag -> Seq(Token)] /\ dt'[t] = r
        /\ \A u \in Tag : u # t => dt'[u] = dt[u]
    BY <2>1, <2>2, <2>3, <1>5
  <2>5. StackOK'
    BY <1>1, <1>2, <2>1, StackPop
  <2>6. /\ DOMAIN stack' = DOMAIN stack \ {k}
        /\ \A i \in DOMAIN stack' : stack'[i] = stack[i] /\ i \in DOMAIN stack
    BY <1>1, <1>2, <2>1, TopTaken DEF FramesBelow
  <2>7. PositionsFit'
    BY <1>10, <2>6 DEF PositionsFit
  <2>8. \A u \in Tag : Count(stack', u) = Count(stack, u) - (IF u = t THEN 1 ELSE 0)
    <3> SUFFICES ASSUME NEW u \in Tag
                 PROVE  Count(stack', u) = Count(stack, u) - (IF u = t THEN 1 ELSE 0)
      OBVIOUS
    <3>1. Count(stack', u) = Count(stack, u) - One(TopFrame, u)
      BY <1>1, <1>2, <1>3, <2>1, CountTaken DEF FramesBelow
    <3> QED BY <3>1, <1>8
  <2>9. Count(stack', t) = Count(stack, t) - 1 /\ \A u \in Tag : u # t => Count(stack', u) = Count(stack, u)
    BY <2>3, <2>8, <1>9
  <2>10. Len(dt'[t]) = Len(dt[t]) - 1
    BY <2>2, <2>4
  <2> QED BY <2>1, <2>3, <2>4, <2>5, <2>7, <2>9, <2>10, ShrunkTables
<1> QED BY <1>11, <1>12

LEMMA TableInvStep ==
  ASSUME TableInv, WatchOK, UEventNext
  PROVE  TableInv'
<1>1. CASE \E te \in TagEvent, c \in Command : BindEvent(te, c)
  BY <1>1, BindTables
<1>2. CASE \E n \in Token : UnbindEvent(n)
  BY <1>2, UnbindTables
<1>3. CASE \E n \in Token : WatchRemove(n)
  BY <1>3, RemoveTables
<1>4. CASE \E p \in Pattern : NextPattern(p)
  BY <1>4, PatternTables
<1>5. CASE \E p \in Pattern, c \in Watcher : WatchAdd(p, c)
  BY <1>5, AddTables
<1>6. CASE \E x \in Subject : NextSubject(x)
  BY <1>6, SubjectTables
<1>7. CASE NextWatcher
  BY <1>7, WatcherTables
<1>8. CASE BindGoesOn
  BY <1>8, BindGoesTables
<1>9. CASE UnbindGoesOn
  BY <1>9, UnbindGoesTables
<1>10. CASE CommandEnds
  BY <1>10, CommandEndsTables
<1>11. CASE ScriptEnds
  BY <1>11, ScriptEndsTables
<1> QED BY <1>1, <1>2, <1>3, <1>4, <1>5, <1>6, <1>7, <1>8, <1>9, <1>10, <1>11 DEF UEventNext

---------------------------------------------------------------------------
(***************************************************************************)
(* The tables of the watchers.                                             *)
(***************************************************************************)

\* The lists of the patterns.
WatchersListed ==
  \A p \in Pattern : /\ IsInjective(wdb[p])
                     /\ ToSet(wdb[p]) = {n \in Token : wtk[n] # NoBinding /\ wtk[n][1] = p}

\* Tokens that were not given out stand for no watcher, that was told nothing.
WatchersFresh ==
  /\ \A n \in Token : n > tcounter => /\ wtk[n] = NoBinding
                                      /\ \A x \in Subject : told[n][x] = "nothing"
  /\ \A i \in DOMAIN stack : stack[i].watcher <= tcounter

WatchInv == WatchOK /\ WatchersListed /\ WatchersFresh

LEMMA WatchInvInit == UEventInit => WatchInv
<1> SUFFICES ASSUME UEventInit PROVE WatchInv
  OBVIOUS
<1>1. WatchOK
  <2>1. <<>> \in Seq(Token)
    OBVIOUS
  <2> QED BY <2>1 DEF UEventInit, WatchOK
<1>2. WatchersListed
  BY DEF UEventInit, WatchersListed, IsInjective, ToSet
<1>3. WatchersFresh
  BY DEF UEventInit, WatchersFresh
<1> QED BY <1>1, <1>2, <1>3 DEF WatchInv

\* What is remembered for the properties keeps its shape.
LEMMA TagsOfTop ==
  ASSUME TableInv, stack # <<>>
  PROVE  TagsOf(TopFrame) \subseteq Tag
<1>1. TopFrame \in WatchFrame /\ GoodFrame(TopFrame)
  BY TopFrameIs DEF TableInv
<1>2. CASE TopFrame.op = "add"
  BY <1>2 DEF TagsOf
<1>3. CASE TopFrame.op # "add"
  <2>1. TopFrame.of[1] \in Tag
    BY <1>1, <1>3 DEF GoodFrame, TagEvent
  <2> QED BY <1>3, <2>1 DEF TagsOf
<1> QED BY <1>2, <1>3

LEMMA FramesBelowFresh ==
  ASSUME TableInv, WatchInv, stack # <<>>, stack' = FramesBelow, tcounter' = tcounter
  PROVE  \A i \in DOMAIN stack' : stack'[i].watcher <= tcounter'
<1>1. \A i \in DOMAIN stack' : stack'[i] = stack[i] /\ i \in DOMAIN stack
  BY TopTaken DEF TableInv, StackOK, FramesBelow
<1> QED BY <1>1 DEF WatchInv, WatchersFresh

LEMMA TopFresh ==
  ASSUME TableInv, WatchInv, stack # <<>>, NEW f \in WatchFrame, stack' = WithTopFrame(f),
         f.watcher = TopFrame.watcher, tcounter' = tcounter
  PROVE  \A i \in DOMAIN stack' : stack'[i].watcher <= tcounter'
<1>1. /\ DOMAIN stack' = DOMAIN stack /\ stack'[Len(stack)] = f
      /\ \A i \in DOMAIN stack : i # Len(stack) => stack'[i] = stack[i]
  BY TopReplaced DEF TableInv, StackOK, WithTopFrame
<1>2. Len(stack) \in DOMAIN stack /\ TopFrame = stack[Len(stack)]
  BY TopFrameIs DEF TableInv
<1> QED BY <1>1, <1>2 DEF WatchInv, WatchersFresh

LEMMA PutFresh ==
  ASSUME TableInv, WatchInv, NEW f \in WatchFrame, stack' = Append(stack, f),
         tcounter' \in Nat, tcounter' >= tcounter, f.watcher <= tcounter'
  PROVE  \A i \in DOMAIN stack' : stack'[i].watcher <= tcounter'
<1>1. /\ DOMAIN stack' = DOMAIN stack \cup {Len(stack) + 1} /\ stack'[Len(stack) + 1] = f
      /\ \A i \in DOMAIN stack : stack'[i] = stack[i]
  BY TopPut DEF TableInv, StackOK
<1>2. ASSUME NEW i \in DOMAIN stack
      PROVE  stack'[i].watcher <= tcounter'
  <2>1. stack[i].watcher <= tcounter
    BY DEF WatchInv, WatchersFresh
  <2>2. stack[i] \in WatchFrame
    BY DEF TableInv, StackOK
  <2>3. stack[i].watcher \in Nat
    BY <2>2, UEventBoundAssumption DEF WatchFrame, Token
  <2>4. tcounter \in Nat
    BY UEventBoundAssumption DEF TableInv, TablesOK
  <2> QED BY <1>1, <2>1, <2>3, <2>4
<1> QED BY <1>1, <1>2

\* Steps that leave the watchers and what they were told as they are.
LEMMA WatchersSame ==
  ASSUME TableInv, WatchInv, UNCHANGED <<wtk, wdb, told>>, muddled' \subseteq Tag,
         tcounter' \in Nat, tcounter' >= tcounter,
         \A i \in DOMAIN stack' : stack'[i].watcher <= tcounter'
  PROVE  WatchInv'
<1>1. WatchOK' /\ WatchersListed'
  BY DEF WatchInv, WatchOK, WatchersListed
<1>2. ASSUME NEW n \in Token, n > tcounter'
      PROVE  n > tcounter
  <2>1. tcounter \in Nat /\ n \in Nat
    BY UEventBoundAssumption DEF TableInv, TablesOK, Token
  <2> QED BY <1>2, <2>1
<1>3. WatchersFresh'
  BY <1>2 DEF WatchInv, WatchersFresh
<1> QED BY <1>1, <1>3 DEF WatchInv

\* A watcher is told.
LEMMA ToldShape ==
  ASSUME TableInv, WatchInv, NEW n \in Token, NEW x \in Subject, NEW v \in {"bound", "unbound"},
         n <= tcounter, told' = [told EXCEPT ![n][x] = v], UNCHANGED <<wtk, wdb, muddled, tcounter>>,
         \A i \in DOMAIN stack' : stack'[i].watcher <= tcounter'
  PROVE  WatchInv'
<1>1. told \in [Token -> [Subject -> {"nothing", "bound", "unbound"}]]
  BY DEF WatchInv, WatchOK
<1>2. told' \in [Token -> [Subject -> {"nothing", "bound", "unbound"}]]
  BY <1>1
<1>3. \A m \in Token : m # n => told'[m] = told[m]
  BY <1>1
<1>4. ASSUME NEW m \in Token, m > tcounter
      PROVE  m # n
  <2>1. tcounter \in Nat /\ n \in Nat /\ m \in Nat
    BY UEventBoundAssumption DEF TableInv, TablesOK, Token
  <2> QED BY <1>4, <2>1
<1>5. WatchersFresh'
  BY <1>3, <1>4 DEF WatchInv, WatchersFresh
<1> QED BY <1>2, <1>5 DEF WatchInv, WatchOK, WatchersListed

LEMMA ThrowWatch ==
  ASSUME TableInv, WatchInv, stack # <<>>, Throw, UNCHANGED <<tcounter, wtk, wdb>>
  PROVE  WatchInv'
<1>1. stack' = FramesBelow /\ UNCHANGED told /\ muddled' = muddled \cup TagsOf(TopFrame)
  BY DEF Throw
<1>2. muddled' \subseteq Tag
  BY <1>1, TagsOfTop DEF WatchInv, WatchOK
<1>3. \A i \in DOMAIN stack' : stack'[i].watcher <= tcounter'
  BY <1>1, FramesBelowFresh
<1>4. tcounter' \in Nat /\ tcounter' >= tcounter
  BY UEventBoundAssumption DEF TableInv, TablesOK
<1> QED BY <1>1, <1>2, <1>3, <1>4, WatchersSame

LEMMA MuddleIs ==
  ASSUME WatchInv, NEW t \in Tag, Muddle(t)
  PROVE  /\ muddled \subseteq muddled' /\ muddled' \subseteq Tag
         /\ t \notin muddled' => ~Telling(t)
<1>1. muddled \subseteq Tag
  BY DEF WatchInv, WatchOK
<1>2. CASE Telling(t)
  BY <1>1, <1>2 DEF Muddle
<1>3. CASE ~Telling(t)
  BY <1>1, <1>3 DEF Muddle
<1> QED BY <1>2, <1>3

\* The frames that bind, unbind and add put on the stack.
BindFrame(te, W) ==
  [op |-> "bind", of |-> te, stage |-> "tag", pos |-> 0, patterns |-> W, todo |-> <<>>,
   watcher |-> 0, subjects |-> {}, running |-> FALSE]
UnbindFrame(te, pos, W) ==
  [op |-> "unbind", of |-> te, stage |-> "event", pos |-> pos, patterns |-> W, todo |-> <<>>,
   watcher |-> 0, subjects |-> {}, running |-> FALSE]
AddFrame(n, S) ==
  [op |-> "add", of |-> NoBinding, stage |-> "tag", pos |-> 0, patterns |-> {}, todo |-> <<>>,
   watcher |-> n, subjects |-> S, running |-> FALSE]

LEMMA BindFrameIs ==
  ASSUME TableInv, NEW te \in TagEvent, NEW c, BindEvent(te, c)
  PROVE  \E W \in SUBSET Pattern :
           /\ W = WatchersOf(te[1], Len(dt'[te[1]]))
           /\ BindFrame(te, W) \in WatchFrame /\ stack' = Append(stack, BindFrame(te, W))
<1> DEFINE W == WatchersOf(te[1], Len(dt'[te[1]]))
<1>1. stack' = Append(stack, BindFrame(te, W))
  BY DEF BindEvent, BindFrame
<1>2. W \in SUBSET Pattern
  BY DEF WatchersOf, Matching
<1>3. BindFrame(te, W) \in WatchFrame
  BY <1>2 DEF BindFrame, WatchFrame
<1> QED BY <1>1, <1>2, <1>3

LEMMA UnbindFrameIs ==
  ASSUME TableInv, NEW n \in Token, UnbindEvent(n)
  PROVE  /\ tk[n] \in Binding /\ tk[n][1] \in TagEvent /\ tk[n][1][1] \in Tag
         /\ n \in ToSet(db[tk[n][1]])
         /\ Position(db[tk[n][1]], n) \in DOMAIN db[tk[n][1]]
         /\ \E W \in SUBSET Pattern :
              LET f == UnbindFrame(tk[n][1], Position(db[tk[n][1]], n), W)
              IN W = WatchersOf(tk[n][1], Len(db[tk[n][1]])) /\ f \in WatchFrame /\ stack' = Append(stack, f)
<1> DEFINE te == tk[n][1]
           pos == Position(db[te], n)
           W == WatchersOf(te, Len(db[te]))
<1>1. tk[n] # NoBinding /\ stack' = Append(stack, UnbindFrame(te, pos, W))
  BY DEF UnbindEvent, UnbindFrame
<1>2. tk[n] \in Binding /\ te \in TagEvent /\ te[1] \in Tag
  BY <1>1 DEF TableInv, TablesOK, Binding, TagEvent
<1>3. n \in ToSet(db[te])
  BY <1>1, <1>2 DEF TableInv, Listed
<1>4. pos \in DOMAIN db[te]
  BY <1>3, PositionIs
<1>5. db[te] \in Seq(Token)
  BY <1>2 DEF TableInv, TablesOK
<1>6. pos \in Nat
  BY <1>4, <1>5
<1>7. W \in SUBSET Pattern
  BY DEF WatchersOf, Matching
<1> HIDE DEF pos, W
<1>8. UnbindFrame(te, pos, W) \in WatchFrame
  BY <1>2, <1>6, <1>7 DEF UnbindFrame, WatchFrame
<1> QED BY <1>1, <1>2, <1>3, <1>4, <1>7, <1>8 DEF pos, W

LEMMA AddFrameIs ==
  ASSUME TableInv, NEW p \in Pattern, NEW c, WatchAdd(p, c)
  PROVE  LET f == AddFrame(TokenGiven, {x \in p : HasObservers(x)})
         IN /\ f \in WatchFrame /\ stack' = Append(stack, f)
            /\ TokenGiven \in Token /\ tcounter' = TokenGiven /\ TokenGiven > tcounter /\ tcounter' \in Nat
<1> DEFINE S == {x \in p : HasObservers(x)}
<1>1. stack' = Append(stack, AddFrame(TokenGiven, S)) /\ NewToken
  BY DEF WatchAdd, AddFrame
<1>2. TokenGiven \in Token /\ tcounter' \in 0 .. MaxToken /\ TokenGiven > tcounter /\ tcounter' = TokenGiven
  BY <1>1, TokenIs DEF TableInv
<1>3. S \in SUBSET Subject
  BY PatternAssumption DEF Subject
<1> HIDE DEF S
<1>4. AddFrame(TokenGiven, S) \in WatchFrame
  BY <1>2, <1>3 DEF AddFrame, WatchFrame
<1>5. tcounter' \in Nat
  BY <1>2, UEventBoundAssumption
<1> QED BY <1>1, <1>2, <1>4, <1>5 DEF S

LEMMA BindWatch ==
  ASSUME TableInv, WatchInv, NEW te \in TagEvent, NEW c, BindEvent(te, c)
  PROVE  WatchInv'
<1>1. PICK W \in SUBSET Pattern : BindFrame(te, W) \in WatchFrame /\ stack' = Append(stack, BindFrame(te, W))
  BY BindFrameIs
<1>2. te[1] \in Tag /\ Muddle(te[1]) /\ UNCHANGED <<wtk, wdb, told>> /\ NewToken
  BY DEF BindEvent, watchers, TagEvent
<1>3. tcounter' \in 0 .. MaxToken /\ tcounter' >= tcounter
  BY <1>2, TokenIs DEF TableInv
<1>4. tcounter' \in Nat
  BY <1>3, UEventBoundAssumption
<1>5. BindFrame(te, W).watcher = 0
  BY DEF BindFrame
<1>6. \A i \in DOMAIN stack' : stack'[i].watcher <= tcounter'
  BY <1>1, <1>3, <1>4, <1>5, PutFresh
<1>7. muddled' \subseteq Tag
  BY <1>2, MuddleIs
<1> QED BY <1>2, <1>3, <1>4, <1>6, <1>7, WatchersSame

LEMMA UnbindWatch ==
  ASSUME TableInv, WatchInv, NEW n \in Token, UnbindEvent(n)
  PROVE  WatchInv'
<1> DEFINE te == tk[n][1]
           pos == Position(db[te], n)
<1>1. PICK W \in SUBSET Pattern :
        UnbindFrame(te, pos, W) \in WatchFrame /\ stack' = Append(stack, UnbindFrame(te, pos, W))
  BY UnbindFrameIs
<1>2. te[1] \in Tag /\ Muddle(te[1]) /\ UNCHANGED <<wtk, wdb, told, tcounter>>
  BY UnbindFrameIs DEF UnbindEvent, watchers
<1>3. tcounter' \in Nat /\ tcounter' >= tcounter
  BY <1>2, UEventBoundAssumption DEF TableInv, TablesOK
<1>4. UnbindFrame(te, pos, W).watcher = 0
  BY DEF UnbindFrame
<1>5. \A i \in DOMAIN stack' : stack'[i].watcher <= tcounter'
  BY <1>1, <1>3, <1>4, PutFresh
<1>6. muddled' \subseteq Tag
  BY <1>2, MuddleIs
<1> QED BY <1>2, <1>3, <1>5, <1>6, WatchersSame

LEMMA AddWatch ==
  ASSUME TableInv, WatchInv, NEW p \in Pattern, NEW c \in Watcher, WatchAdd(p, c)
  PROVE  WatchInv'
<1> DEFINE g == TokenGiven
           S == {x \in p : HasObservers(x)}
<1>1. /\ AddFrame(g, S) \in WatchFrame /\ stack' = Append(stack, AddFrame(g, S))
      /\ g \in Token /\ tcounter' = g /\ g > tcounter /\ tcounter' \in Nat
  BY AddFrameIs
<1>2. /\ wtk' = [wtk EXCEPT ![g] = <<p, c>>] /\ wdb' = [wdb EXCEPT ![p] = Append(@, g)]
      /\ UNCHANGED <<told, muddled>>
  BY DEF WatchAdd, watchHistory
<1>3. <<p, c>> \in Pattern \X Watcher /\ <<p, c>> # NoBinding /\ <<p, c>>[1] = p
  BY UEventNoneAssumption
<1>4. wtk[g] = NoBinding
  BY <1>1 DEF WatchInv, WatchersFresh
<1>5. AddFrame(g, S).watcher = g
  BY DEF AddFrame
<1> HIDE DEF g, S
<1>6. \A i \in DOMAIN stack' : stack'[i].watcher <= tcounter'
  <2>1. g \in Nat /\ tcounter' >= tcounter
    BY <1>1, UEventBoundAssumption DEF TableInv, TablesOK
  <2>2. AddFrame(g, S).watcher <= tcounter'
    BY <1>1, <1>5, <2>1
  <2> QED BY <1>1, <2>1, <2>2, PutFresh
<1>7. \A m \in Token : wtk'[m] = IF m = g THEN <<p, c>> ELSE wtk[m]
  BY <1>2 DEF WatchInv, WatchOK
<1>8. WatchersFresh'
  <2> SUFFICES ASSUME NEW m \in Token, m > tcounter'
               PROVE  wtk'[m] = NoBinding /\ \A x \in Subject : told'[m][x] = "nothing"
    BY <1>6 DEF WatchersFresh
  <2>1. m # g /\ m > tcounter
    BY <1>1, UEventBoundAssumption DEF TableInv, TablesOK, Token
  <2> QED BY <2>1, <1>2, <1>7 DEF WatchInv, WatchersFresh
<1>9. WatchersListed'
  <2> SUFFICES ASSUME NEW q \in Pattern
               PROVE  /\ IsInjective(wdb'[q])
                      /\ ToSet(wdb'[q]) = {m \in Token : wtk'[m] # NoBinding /\ wtk'[m][1] = q}
    BY DEF WatchersListed
  <2>1. /\ IsInjective(wdb[q])
        /\ ToSet(wdb[q]) = {m \in Token : wtk[m] # NoBinding /\ wtk[m][1] = q}
    BY DEF WatchInv, WatchersListed
  <2>2. g \notin ToSet(wdb[q])
    BY <2>1, <1>4
  <2>3. CASE q = p
    <3>1. wdb'[q] = Append(wdb[q], g) /\ wdb[q] \in Seq(Token)
      BY <2>3, <1>2 DEF WatchInv, WatchOK
    <3>2. IsInjective(wdb'[q]) /\ ToSet(wdb'[q]) = ToSet(wdb[q]) \cup {g}
      BY <3>1, <2>1, <2>2, <1>1, AppendedOnce
    <3>3. \A m \in Token : m \in ToSet(wdb'[q]) <=> wtk'[m] # NoBinding /\ wtk'[m][1] = q
      BY <3>2, <2>1, <2>3, <1>3, <1>7
    <3>4. ToSet(wdb'[q]) \subseteq Token
      <4>1. g \in Token
        BY <1>1
      <4> QED BY <4>1, <3>2, <2>1
    <3> QED BY <3>2, <3>3, <3>4
  <2>4. CASE q # p
    <3>1. wdb'[q] = wdb[q]
      BY <2>4, <1>2 DEF WatchInv, WatchOK
    <3> QED BY <3>1, <2>1, <2>4, <1>3, <1>4, <1>7
  <2> QED BY <2>3, <2>4
<1>10. WatchOK'
  <2>1. wtk' \in [Token -> (Pattern \X Watcher) \cup {NoBinding}]
    BY <1>2, <1>3 DEF WatchInv, WatchOK
  <2>2. Append(wdb[p], g) \in Seq(Token)
    BY <1>1 DEF WatchInv, WatchOK
  <2>3. wdb' \in [Pattern -> Seq(Token)]
    BY <1>2, <2>2 DEF WatchInv, WatchOK
  <2> QED BY <2>1, <2>3, <1>2 DEF WatchInv, WatchOK
<1> QED BY <1>8, <1>9, <1>10 DEF WatchInv

LEMMA RemoveWatch ==
  ASSUME TableInv, WatchInv, NEW n \in Token, WatchRemove(n)
  PROVE  WatchInv'
<1> DEFINE p == wtk[n][1]
           pos == Position(wdb[p], n)
<1>1. /\ wtk' = [wtk EXCEPT ![n] = NoBinding] /\ wdb' = [wdb EXCEPT ![p] = RemoveAt(@, pos)]
      /\ UNCHANGED <<tcounter, stack, told, muddled>> /\ wtk[n] # NoBinding
  BY DEF WatchRemove, watchHistory
<1>2. p \in Pattern
  BY <1>1 DEF WatchInv, WatchOK
<1>3. n \in ToSet(wdb[p]) /\ IsInjective(wdb[p])
  BY <1>1, <1>2 DEF WatchInv, WatchersListed
<1>4. pos \in DOMAIN wdb[p] /\ wdb[p][pos] = n
  BY <1>3, PositionIs
<1>5. wdb[p] \in Seq(Token)
  BY <1>2 DEF WatchInv, WatchOK
<1> HIDE DEF pos
<1>6. /\ RemoveAt(wdb[p], pos) \in Seq(Token) /\ IsInjective(RemoveAt(wdb[p], pos))
      /\ ToSet(RemoveAt(wdb[p], pos)) = ToSet(wdb[p]) \ {n}
  BY <1>3, <1>4, <1>5, RemovedIs, RemovedOnce
<1> HIDE DEF p
<1>7. \A m \in Token : wtk'[m] = IF m = n THEN NoBinding ELSE wtk[m]
  BY <1>1 DEF WatchInv, WatchOK
<1>8. WatchersFresh'
  BY <1>1, <1>7 DEF WatchInv, WatchersFresh
<1>9. WatchersListed'
  <2> SUFFICES ASSUME NEW q \in Pattern
               PROVE  /\ IsInjective(wdb'[q])
                      /\ ToSet(wdb'[q]) = {m \in Token : wtk'[m] # NoBinding /\ wtk'[m][1] = q}
    BY DEF WatchersListed
  <2>1. /\ IsInjective(wdb[q])
        /\ ToSet(wdb[q]) = {m \in Token : wtk[m] # NoBinding /\ wtk[m][1] = q}
    BY DEF WatchInv, WatchersListed
  <2>2. CASE q = p
    <3>1. wdb'[q] = RemoveAt(wdb[p], pos)
      BY <2>2, <1>1 DEF WatchInv, WatchOK
    <3> QED BY <3>1, <2>1, <2>2, <1>6, <1>7
  <2>3. CASE q # p
    <3>1. wdb'[q] = wdb[q]
      BY <2>3, <1>1 DEF WatchInv, WatchOK
    <3>2. wtk[n][1] # q
      BY <2>3 DEF p
    <3> QED BY <3>1, <3>2, <2>1, <1>7
  <2> QED BY <2>2, <2>3
<1>10. WatchOK'
  <2>1. wtk' \in [Token -> (Pattern \X Watcher) \cup {NoBinding}]
    BY <1>1 DEF WatchInv, WatchOK
  <2>2. wdb' \in [Pattern -> Seq(Token)]
    BY <1>1, <1>6 DEF WatchInv, WatchOK
  <2> QED BY <2>1, <2>2, <1>1 DEF WatchInv, WatchOK
<1> QED BY <1>8, <1>9, <1>10 DEF WatchInv

\* The innermost command goes on, or leaves, while the watchers stay as they are.
LEMMA TopWatch ==
  ASSUME TableInv, WatchInv, stack # <<>>, NEW f \in WatchFrame, f.watcher = TopFrame.watcher,
         stack' = WithTopFrame(f), UNCHANGED <<tcounter, wtk, wdb, told, muddled>>
  PROVE  WatchInv'
<1>1. \A i \in DOMAIN stack' : stack'[i].watcher <= tcounter'
  BY TopFresh
<1>2. tcounter' \in Nat /\ tcounter' >= tcounter /\ muddled' \subseteq Tag
  BY UEventBoundAssumption DEF TableInv, TablesOK, WatchInv, WatchOK
<1> QED BY <1>1, <1>2, WatchersSame

LEMMA PopWatch ==
  ASSUME TableInv, WatchInv, stack # <<>>, stack' = FramesBelow,
         UNCHANGED <<tcounter, wtk, wdb, told, muddled>>
  PROVE  WatchInv'
<1>1. \A i \in DOMAIN stack' : stack'[i].watcher <= tcounter'
  BY FramesBelowFresh
<1>2. tcounter' \in Nat /\ tcounter' >= tcounter /\ muddled' \subseteq Tag
  BY UEventBoundAssumption DEF TableInv, TablesOK, WatchInv, WatchOK
<1> QED BY <1>1, <1>2, WatchersSame

\* The frames that the innermost command goes on with.
LEMMA PatternFrameIs ==
  ASSUME TableInv, WatchOK, NEW p \in Pattern, NextPattern(p), wdb[p] # <<>>
  PROVE  LET f == [TopFrame EXCEPT !.patterns = @ \ {p}, !.todo = wdb[p]]
         IN /\ f \in WatchFrame /\ stack' = WithTopFrame(f) /\ stack # <<>>
            /\ UNCHANGED <<tcounter, tk, ex, db, dt, wtk, wdb, told, muddled, stuck>>
            /\ f.op = TopFrame.op /\ f.of = TopFrame.of /\ f.stage = TopFrame.stage
            /\ f.pos = TopFrame.pos /\ f.subjects = TopFrame.subjects /\ f.watcher = TopFrame.watcher
            /\ f.patterns = TopFrame.patterns \ {p} /\ f.todo = wdb[p]
<1>1. stack # <<>> /\ UNCHANGED <<tcounter, wtk, wdb>>
  BY DEF NextPattern, Continues, watchers
<1>2. TopFrame \in WatchFrame
  BY <1>1, TopFrameIs DEF TableInv
<1>3. wdb[p] \in Seq(Token)
  BY DEF WatchOK
<1> DEFINE f == [TopFrame EXCEPT !.patterns = @ \ {p}, !.todo = wdb[p]]
<1>4. stack' = WithTopFrame(f) /\ UNCHANGED <<tk, ex, db, dt, told, muddled, stuck>>
  BY DEF NextPattern, bindingVars, watchHistory
<1>5. f \in WatchFrame
  BY <1>2, <1>3 DEF WatchFrame
<1>6. /\ f.op = TopFrame.op /\ f.of = TopFrame.of /\ f.stage = TopFrame.stage
      /\ f.pos = TopFrame.pos /\ f.subjects = TopFrame.subjects /\ f.watcher = TopFrame.watcher
      /\ f.patterns = TopFrame.patterns \ {p} /\ f.todo = wdb[p]
  BY <1>2 DEF WatchFrame
<1> HIDE DEF f
<1> QED BY <1>1, <1>4, <1>5, <1>6 DEF f

LEMMA WatcherFrameIs ==
  ASSUME TableInv, WatchOK, NextWatcher, wtk[Head(TopFrame.todo)] # NoBinding
  PROVE  LET n == Head(TopFrame.todo)
             f == [[TopFrame EXCEPT !.todo = Tail(@)] EXCEPT !.running = TRUE]
             x == IF TopFrame.stage = "tag" THEN TopFrame.of[1] ELSE TopFrame.of
         IN /\ f \in WatchFrame /\ stack' = WithTopFrame(f) /\ stack # <<>>
            /\ n \in Token /\ x \in Subject /\ TopFrame.op # "add"
            /\ told' = [told EXCEPT ![n][x] = IF TopFrame.op = "unbind" THEN "unbound" ELSE "bound"]
            /\ UNCHANGED <<tcounter, tk, ex, db, dt, wtk, wdb, muddled, stuck>>
            /\ f.op = TopFrame.op /\ f.of = TopFrame.of /\ f.stage = TopFrame.stage
            /\ f.pos = TopFrame.pos /\ f.subjects = TopFrame.subjects /\ f.watcher = TopFrame.watcher
            /\ f.patterns = TopFrame.patterns /\ f.todo = Tail(TopFrame.todo)
<1> DEFINE n == Head(TopFrame.todo)
           f == [[TopFrame EXCEPT !.todo = Tail(@)] EXCEPT !.running = TRUE]
           x == IF TopFrame.stage = "tag" THEN TopFrame.of[1] ELSE TopFrame.of
           v == IF TopFrame.op = "unbind" THEN "unbound" ELSE "bound"
<1>1. stack # <<>> /\ TopFrame.todo # <<>> /\ UNCHANGED <<tcounter, wtk, wdb>>
  BY DEF NextWatcher, Continues, watchers
<1>2. TopFrame \in WatchFrame /\ GoodFrame(TopFrame)
  BY <1>1, TopFrameIs DEF TableInv
<1>3. TopFrame.todo \in Seq(Token)
  BY <1>2 DEF WatchFrame
<1>4. n \in Token /\ Tail(TopFrame.todo) \in Seq(Token)
  BY <1>1, <1>3
<1>5. TopFrame.op # "add" /\ TopFrame.of \in TagEvent
  BY <1>1, <1>2 DEF GoodFrame
<1>6. x \in Subject
  BY <1>5 DEF Subject, TagEvent
<1>7. /\ stack' = WithTopFrame(f) /\ UNCHANGED <<tk, ex, db, dt, muddled, stuck>>
      /\ told' = [told EXCEPT ![n][x] = v]
  <2>1. TellWatcher(n, x, [TopFrame EXCEPT !.todo = Tail(@)])
    BY DEF NextWatcher
  <2>2. [TopFrame EXCEPT !.todo = Tail(@)].op = TopFrame.op
    BY <1>2 DEF WatchFrame
  <2> QED BY <2>1, <2>2 DEF TellWatcher, bindingVars
<1>8. f \in WatchFrame
  BY <1>2, <1>4 DEF WatchFrame
<1>9. /\ f.op = TopFrame.op /\ f.of = TopFrame.of /\ f.stage = TopFrame.stage
      /\ f.pos = TopFrame.pos /\ f.subjects = TopFrame.subjects /\ f.watcher = TopFrame.watcher
      /\ f.patterns = TopFrame.patterns /\ f.todo = Tail(TopFrame.todo)
  BY <1>2 DEF WatchFrame
<1> HIDE DEF f, x, n
<1> QED BY <1>1, <1>4, <1>5, <1>6, <1>7, <1>8, <1>9 DEF f, x, n

LEMMA SubjectFrameIs ==
  ASSUME TableInv, WatchOK, NEW x \in Subject, NextSubject(x)
  PROVE  LET n == TopFrame.watcher
             f == [[TopFrame EXCEPT !.subjects = @ \ {x}] EXCEPT !.running = TRUE]
         IN /\ f \in WatchFrame /\ stack' = WithTopFrame(f) /\ stack # <<>>
            /\ TopFrame.op = "add" /\ n \in Token /\ x \in TopFrame.subjects
            /\ told' = [told EXCEPT ![n][x] = "bound"]
            /\ UNCHANGED <<tcounter, tk, ex, db, dt, wtk, wdb, muddled, stuck>>
            /\ f.op = TopFrame.op /\ f.of = TopFrame.of /\ f.stage = TopFrame.stage
            /\ f.subjects = TopFrame.subjects \ {x} /\ f.watcher = TopFrame.watcher
            /\ f.patterns = TopFrame.patterns /\ f.todo = TopFrame.todo
<1> DEFINE n == TopFrame.watcher
           f == [[TopFrame EXCEPT !.subjects = @ \ {x}] EXCEPT !.running = TRUE]
<1>1. /\ stack # <<>> /\ TopFrame.op = "add" /\ x \in TopFrame.subjects
      /\ UNCHANGED <<tcounter, wtk, wdb>>
  BY DEF NextSubject, Continues, watchers
<1>2. TopFrame \in WatchFrame /\ GoodFrame(TopFrame)
  BY <1>1, TopFrameIs DEF TableInv
<1>3. n \in Token
  BY <1>1, <1>2 DEF GoodFrame
<1>4. /\ stack' = WithTopFrame(f) /\ UNCHANGED <<tk, ex, db, dt, muddled, stuck>>
      /\ told' = [told EXCEPT ![n][x] = "bound"]
  <2>1. TellWatcher(n, x, [TopFrame EXCEPT !.subjects = @ \ {x}])
    BY DEF NextSubject
  <2>2. [TopFrame EXCEPT !.subjects = @ \ {x}].op = "add"
    BY <1>1, <1>2 DEF WatchFrame
  <2> QED BY <2>1, <2>2 DEF TellWatcher, bindingVars
<1>5. f \in WatchFrame
  BY <1>2 DEF WatchFrame
<1>6. /\ f.op = TopFrame.op /\ f.of = TopFrame.of /\ f.stage = TopFrame.stage
      /\ f.subjects = TopFrame.subjects \ {x} /\ f.watcher = TopFrame.watcher
      /\ f.patterns = TopFrame.patterns /\ f.todo = TopFrame.todo
  BY <1>2 DEF WatchFrame
<1> HIDE DEF f
<1> QED BY <1>1, <1>3, <1>4, <1>5, <1>6 DEF f

LEMMA BindGoesFrameIs ==
  ASSUME TableInv, BindGoesOn, db[TopFrame.of] # <<>>
  PROVE  LET W == WatchersOf(TopFrame.of, Len(db[TopFrame.of]))
             f == [TopFrame EXCEPT !.stage = "event", !.patterns = W]
         IN /\ f \in WatchFrame /\ stack' = WithTopFrame(f) /\ stack # <<>>
            /\ TopFrame.op = "bind" /\ TopFrame.stage = "tag"
            /\ UNCHANGED <<tcounter, tk, ex, db, dt, wtk, wdb, told, muddled, stuck>>
            /\ TopFrame.patterns = {} /\ TopFrame.todo = <<>>
            /\ f.op = TopFrame.op /\ f.of = TopFrame.of /\ f.stage = "event"
            /\ f.subjects = TopFrame.subjects /\ f.watcher = TopFrame.watcher
            /\ f.patterns = W /\ f.todo = TopFrame.todo
<1> DEFINE W == WatchersOf(TopFrame.of, Len(db[TopFrame.of]))
           f == [TopFrame EXCEPT !.stage = "event", !.patterns = W]
<1>1. /\ stack # <<>> /\ TopFrame.op = "bind" /\ TopFrame.stage = "tag"
      /\ UNCHANGED <<tcounter, wtk, wdb>> /\ TopFrame.patterns = {} /\ TopFrame.todo = <<>>
  BY DEF BindGoesOn, AllCalled, Continues, watchers
<1>2. TopFrame \in WatchFrame
  BY <1>1, TopFrameIs DEF TableInv
<1>3. W \subseteq Pattern
  BY DEF WatchersOf, Matching
<1>4. stack' = WithTopFrame(f) /\ UNCHANGED <<tk, ex, db, dt, told, muddled, stuck>>
  BY DEF BindGoesOn, Proceed, watchHistory
<1> HIDE DEF W
<1>5. f \in WatchFrame
  BY <1>2, <1>3 DEF WatchFrame
<1>6. /\ f.op = TopFrame.op /\ f.of = TopFrame.of /\ f.stage = "event"
      /\ f.subjects = TopFrame.subjects /\ f.watcher = TopFrame.watcher
      /\ f.patterns = W /\ f.todo = TopFrame.todo
  BY <1>2 DEF WatchFrame
<1> HIDE DEF f
<1> QED BY <1>1, <1>4, <1>5, <1>6 DEF f, W

LEMMA UnbindGoesFrameIs ==
  ASSUME TableInv, UnbindGoesOn
  PROVE  LET t == TopFrame.of[1]
             f == [TopFrame EXCEPT !.stage = "tag", !.patterns = Matching(t)]
         IN /\ stack # <<>> /\ TopFrame.op = "unbind" /\ TopFrame.stage = "event"
            /\ TopFrame.patterns = {} /\ TopFrame.todo = <<>>
            /\ UNCHANGED <<tcounter, tk, ex, db, wtk, wdb, told, muddled, stuck>>
            /\ f \in WatchFrame
            /\ f.op = TopFrame.op /\ f.of = TopFrame.of /\ f.stage = "tag"
            /\ f.subjects = TopFrame.subjects /\ f.watcher = TopFrame.watcher
            /\ f.patterns = Matching(t) /\ f.todo = TopFrame.todo
            /\ IF Len(dt[t]) = 1
                 THEN stack' = WithTopFrame(f) /\ dt' = [dt EXCEPT ![t] = <<>>]
                 ELSE stack' = FramesBelow /\ dt' = [dt EXCEPT ![t] = RemoveAt(@, TopFrame.pos)]
<1> DEFINE t == TopFrame.of[1]
           W == Matching(t)
           f == [TopFrame EXCEPT !.stage = "tag", !.patterns = W]
<1>1. /\ stack # <<>> /\ TopFrame.op = "unbind" /\ TopFrame.stage = "event"
      /\ TopFrame.patterns = {} /\ TopFrame.todo = <<>> /\ UNCHANGED <<tcounter, wtk, wdb>>
  BY DEF UnbindGoesOn, AllCalled, Continues, watchers
<1>2. TopFrame \in WatchFrame
  BY <1>1, TopFrameIs DEF TableInv
<1>3. W \subseteq Pattern
  BY DEF Matching
<1>4. /\ UNCHANGED <<tk, ex, db, told, muddled, stuck>>
      /\ IF Len(dt[t]) = 1
           THEN stack' = WithTopFrame(f) /\ dt' = [dt EXCEPT ![t] = <<>>]
           ELSE stack' = FramesBelow /\ dt' = [dt EXCEPT ![t] = RemoveAt(@, TopFrame.pos)]
  <2>1. CASE Len(dt[t]) = 1
    BY <2>1 DEF UnbindGoesOn, Proceed, watchHistory
  <2>2. CASE Len(dt[t]) # 1
    BY <2>2 DEF UnbindGoesOn, Return, Shrunk, watchHistory
  <2> QED BY <2>1, <2>2
<1> HIDE DEF W
<1>6. f \in WatchFrame
  BY <1>2, <1>3 DEF WatchFrame
<1>7. /\ f.op = TopFrame.op /\ f.of = TopFrame.of /\ f.stage = "tag"
      /\ f.subjects = TopFrame.subjects /\ f.watcher = TopFrame.watcher
      /\ f.patterns = W /\ f.todo = TopFrame.todo
  BY <1>2 DEF WatchFrame
<1> HIDE DEF f
<1> QED BY <1>1, <1>4, <1>6, <1>7 DEF f, W

LEMMA WatchInvStep ==
  ASSUME TableInv, WatchInv, UEventNext
  PROVE  WatchInv'
<1>0. WatchOK
  BY DEF WatchInv
<1>1. CASE \E te \in TagEvent, c \in Command : BindEvent(te, c)
  BY <1>1, BindWatch
<1>2. CASE \E n \in Token : UnbindEvent(n)
  BY <1>2, UnbindWatch
<1>3. CASE \E n \in Token : WatchRemove(n)
  BY <1>3, RemoveWatch
<1>4. ASSUME NEW p \in Pattern, NextPattern(p)
      PROVE  WatchInv'
  <2>1. CASE wdb[p] = <<>>
    <3>1. Throw /\ stack # <<>> /\ UNCHANGED <<tcounter, wtk, wdb>>
      BY <1>4, <2>1 DEF NextPattern, Continues, watchers
    <3> QED BY <3>1, ThrowWatch
  <2>2. CASE wdb[p] # <<>>
    <3>1. PICK f \in WatchFrame :
            /\ stack' = WithTopFrame(f) /\ stack # <<>> /\ f.watcher = TopFrame.watcher
            /\ UNCHANGED <<tcounter, wtk, wdb, told, muddled>>
      BY <1>0, <1>4, <2>2, PatternFrameIs
    <3> QED BY <3>1, TopWatch
  <2> QED BY <2>1, <2>2
<1>5. CASE \E p \in Pattern, c \in Watcher : WatchAdd(p, c)
  BY <1>5, AddWatch
<1>6. ASSUME NEW x \in Subject, NextSubject(x)
      PROVE  WatchInv'
  <2> DEFINE n == TopFrame.watcher
  <2>1. /\ n \in Token /\ stack # <<>> /\ told' = [told EXCEPT ![n][x] = "bound"]
        /\ UNCHANGED <<tcounter, wtk, wdb, muddled>>
    BY <1>0, <1>6, SubjectFrameIs
  <2>2. PICK f \in WatchFrame : stack' = WithTopFrame(f) /\ f.watcher = TopFrame.watcher
    BY <1>0, <1>6, SubjectFrameIs
  <2>3. n <= tcounter
    <3>1. Len(stack) \in DOMAIN stack /\ TopFrame = stack[Len(stack)]
      BY <2>1, TopFrameIs DEF TableInv
    <3> QED BY <3>1 DEF WatchInv, WatchersFresh
  <2>4. \A i \in DOMAIN stack' : stack'[i].watcher <= tcounter'
    BY <2>1, <2>2, TopFresh
  <2> HIDE DEF n
  <2> QED BY <2>1, <2>3, <2>4, ToldShape
<1>7. CASE NextWatcher
  <2> DEFINE n == Head(TopFrame.todo)
             x == IF TopFrame.stage = "tag" THEN TopFrame.of[1] ELSE TopFrame.of
             v == IF TopFrame.op = "unbind" THEN "unbound" ELSE "bound"
  <2>1. CASE wtk[n] = NoBinding
    <3>1. Throw /\ stack # <<>> /\ UNCHANGED <<tcounter, wtk, wdb>>
      BY <1>7, <2>1 DEF NextWatcher, Continues, watchers
    <3> QED BY <3>1, ThrowWatch
  <2>2. CASE wtk[n] # NoBinding
    <3>1. /\ n \in Token /\ x \in Subject /\ stack # <<>> /\ told' = [told EXCEPT ![n][x] = v]
          /\ UNCHANGED <<tcounter, wtk, wdb, muddled>>
      BY <1>0, <1>7, <2>2, WatcherFrameIs
    <3>2. PICK f \in WatchFrame : stack' = WithTopFrame(f) /\ f.watcher = TopFrame.watcher
      BY <1>0, <1>7, <2>2, WatcherFrameIs
    <3>3. n <= tcounter
      <4>1. tcounter \in Nat /\ n \in Nat /\ ~(n > tcounter)
        BY <2>2, <3>1, UEventBoundAssumption DEF WatchInv, WatchersFresh, TableInv, TablesOK, Token
      <4> QED BY <4>1
    <3>4. \A i \in DOMAIN stack' : stack'[i].watcher <= tcounter'
      BY <3>1, <3>2, TopFresh
    <3>5. v \in {"bound", "unbound"}
      OBVIOUS
    <3> HIDE DEF n, x, v
    <3> QED BY <3>1, <3>3, <3>4, <3>5, ToldShape
  <2> QED BY <2>1, <2>2
<1>8. CASE BindGoesOn
  <2>1. CASE db[TopFrame.of] = <<>>
    <3>1. Throw /\ stack # <<>> /\ UNCHANGED <<tcounter, wtk, wdb>>
      BY <1>8, <2>1 DEF BindGoesOn, AllCalled, Continues, watchers
    <3> QED BY <3>1, ThrowWatch
  <2>2. CASE db[TopFrame.of] # <<>>
    <3>1. PICK f \in WatchFrame :
            /\ stack' = WithTopFrame(f) /\ stack # <<>> /\ f.watcher = TopFrame.watcher
            /\ UNCHANGED <<tcounter, wtk, wdb, told, muddled>>
      BY <1>8, <2>2, BindGoesFrameIs
    <3> QED BY <3>1, TopWatch
  <2> QED BY <2>1, <2>2
<1>9. CASE UnbindGoesOn
  <2>1. stack # <<>> /\ UNCHANGED <<tcounter, wtk, wdb, told, muddled>>
    BY <1>9, UnbindGoesFrameIs
  <2>2. CASE stack' = FramesBelow
    BY <2>1, <2>2, PopWatch
  <2>3. CASE stack' # FramesBelow
    <3>1. PICK f \in WatchFrame : stack' = WithTopFrame(f) /\ f.watcher = TopFrame.watcher
      BY <1>9, <2>3, UnbindGoesFrameIs
    <3> QED BY <2>1, <3>1, TopWatch
  <2> QED BY <2>2, <2>3
<1>10. CASE CommandEnds
  <2>1. /\ stack # <<>> /\ stack' = FramesBelow /\ UNCHANGED <<tcounter, wtk, wdb, told, muddled>>
    BY <1>10 DEF CommandEnds, AllCalled, Continues, Return, watchers, watchHistory
  <2> QED BY <2>1, PopWatch
<1>11. CASE ScriptEnds
  <2>1. stack # <<>> /\ UNCHANGED <<tcounter, wtk, wdb>>
    BY <1>11 DEF ScriptEnds, watchers
  <2>2. CASE Throw
    BY <2>1, <2>2, ThrowWatch
  <2>3. CASE /\ stack' = WithTopFrame([TopFrame EXCEPT !.running = FALSE])
             /\ UNCHANGED <<bindingVars, watchHistory>>
    <3>1. TopFrame \in WatchFrame
      BY <2>1, TopFrameIs DEF TableInv
    <3>2. /\ [TopFrame EXCEPT !.running = FALSE] \in WatchFrame
          /\ [TopFrame EXCEPT !.running = FALSE].watcher = TopFrame.watcher
      BY <3>1 DEF WatchFrame
    <3>3. UNCHANGED <<told, muddled>>
      BY <2>3 DEF watchHistory
    <3> QED BY <2>1, <2>3, <3>2, <3>3, TopWatch
  <2> QED BY <1>11, <2>2, <2>3 DEF ScriptEnds
<1> QED BY <1>1, <1>2, <1>3, <1>4, <1>5, <1>6, <1>7, <1>8, <1>9, <1>10, <1>11 DEF UEventNext

LEMMA TablesUnchanged ==
  ASSUME TableInv, UNCHANGED uVars
  PROVE  TableInv'
BY DEF uVars, bindingVars, watchers, watchHistory, TableInv, TablesOK, StackOK, FramesGood, NotGiven,
       EachOther, Listed, Counted, Bindings, PositionsFit

LEMMA WatchUnchanged ==
  ASSUME WatchInv, UNCHANGED uVars
  PROVE  WatchInv'
BY DEF uVars, bindingVars, watchers, watchHistory, WatchInv, WatchOK, WatchersListed, WatchersFresh

LEMMA ShapesAlways == UEventSpec => [](TableInv /\ WatchInv)
<1>1. UEventInit => TableInv /\ WatchInv
  BY TableInvInit, WatchInvInit
<1>2. TableInv /\ WatchInv /\ [UEventNext]_uVars => (TableInv /\ WatchInv)'
  <2> SUFFICES ASSUME TableInv, WatchInv, [UEventNext]_uVars
               PROVE  TableInv' /\ WatchInv'
    OBVIOUS
  <2>1. WatchOK
    BY DEF WatchInv
  <2>2. CASE UEventNext
    BY <2>1, <2>2, TableInvStep, WatchInvStep
  <2>3. CASE UNCHANGED uVars
    BY <2>3, TablesUnchanged, WatchUnchanged
  <2> QED BY <2>2, <2>3
<1> QED BY <1>1, <1>2, PTL DEF UEventSpec

\* The state keeps its shape; what unbind and the watchers' remove read is there.
THEOREM UEventTypeCorrect == UEventSpec => []UEventTypeOK
<1>1. TableInv /\ WatchInv => UEventTypeOK
  BY DEF TableInv, TablesOK, StackOK, WatchInv, WatchOK, UEventTypeOK
<1> QED BY <1>1, ShapesAlways, PTL

\* The tables agree, whatever watchers do while they are called, and wherever
\* one throws: every token is listed once and where it belongs, and the length
\* of dt is the bindings of the tag and the unbinds that did not come to it.
THEOREM TablesAlwaysAgree == UEventSpec => []TablesAgree
<1>1. TableInv => TablesAgree
  <2> SUFFICES ASSUME TableInv PROVE TablesAgree
    OBVIOUS
  <2>1. \A n \in Token, b \in Binding : tk[n] = b <=> ex[b] = n
    BY DEF TableInv, EachOther
  <2>2. \A te \in TagEvent : /\ IsInjective(db[te])
                             /\ ToSet(db[te]) = {n \in Token : tk[n] # NoBinding /\ tk[n][1] = te}
    BY DEF TableInv, Listed
  <2>3. \A t \in Tag :
          Len(dt[t]) = Cardinality(Bindings(t)) + Cardinality(Unbinding(t)) + stuck[t]
    BY UnbindingIs DEF TableInv, Counted, Count
  <2> QED BY <2>1, <2>2, <2>3 DEF TablesAgree
<1> QED BY <1>1, ShapesAlways, PTL

---------------------------------------------------------------------------
(***************************************************************************)
(* What commands under way are about.                                      *)
(***************************************************************************)

\* A tag, and the events of it.
About(t) == {t} \cup {t} \X EventName

IsAbout(f, t) == (f.of # NoBinding /\ f.of[1] = t) \/ f.subjects \cap About(t) # {}

LEMMA TellingIs ==
  ASSUME NEW t
  PROVE  Telling(t) <=> \E i \in DOMAIN stack : IsAbout(stack[i], t)
BY DEF Telling, IsAbout, About

LEMMA AboutOne ==
  ASSUME NEW t \in Tag, NEW u \in Tag, NEW x \in About(t), x \in About(u)
  PROVE  t = u
BY SubjectAssumption DEF About, TagEvent

LEMMA AboutEvent ==
  ASSUME NEW te \in TagEvent
  PROVE  te \in About(te[1]) /\ te[1] \in About(te[1]) /\ te[1] \in Tag /\ te \notin Tag /\ te # te[1]
BY SubjectAssumption DEF About, TagEvent

LEMMA AboutSubject ==
  ASSUME NEW t \in Tag, NEW x \in About(t)
  PROVE  /\ x \in Subject /\ (x \in Tag => x = t) /\ (x \notin Tag => x \in TagEvent /\ x[1] = t)
BY SubjectAssumption DEF About, TagEvent, Subject

\* A command that binds or unbinds something of a tag is alone with it, but for
\* commands that a watcher adds while it is told: or the tag is muddled.
OneAtATime ==
  \A i, j \in DOMAIN stack :
    i # j /\ stack[i].op # "add" /\ stack[i].of[1] \notin muddled /\ IsAbout(stack[j], stack[i].of[1]) =>
      stack[j].op = "add" /\ j > i

LEMMA OneAtATimePut ==
  ASSUME TableInv, OneAtATime, NEW f \in WatchFrame, stack' = Append(stack, f), muddled \subseteq muddled',
         f.op # "add", f.of \in TagEvent, f.subjects = {},
         f.of[1] \notin muddled' => ~Telling(f.of[1])
  PROVE  OneAtATime'
<1>1. /\ DOMAIN stack' = DOMAIN stack \cup {Len(stack) + 1} /\ stack'[Len(stack) + 1] = f
      /\ \A i \in DOMAIN stack : stack'[i] = stack[i]
      /\ Len(stack) + 1 \notin DOMAIN stack
  BY TopPut DEF TableInv, StackOK
<1>2. \A i \in DOMAIN stack : f.of[1] \notin muddled' => ~IsAbout(stack[i], f.of[1])
  BY TellingIs
<1>3. \A i \in DOMAIN stack : stack[i].op # "add" => IsAbout(stack[i], stack[i].of[1])
  BY UEventNoneAssumption DEF TableInv, StackOK, FramesGood, GoodFrame, IsAbout
<1>4. \A t : IsAbout(f, t) => t = f.of[1]
  BY DEF IsAbout
<1> SUFFICES ASSUME NEW i \in DOMAIN stack', NEW j \in DOMAIN stack', i # j, stack'[i].op # "add",
                    stack'[i].of[1] \notin muddled', IsAbout(stack'[j], stack'[i].of[1])
             PROVE  stack'[j].op = "add" /\ j > i
  BY DEF OneAtATime, IsAbout
<1>5. CASE i \in DOMAIN stack /\ j \in DOMAIN stack
  BY <1>1, <1>5 DEF OneAtATime
<1>6. CASE i = Len(stack) + 1
  BY <1>1, <1>2, <1>6
<1>7. CASE j = Len(stack) + 1
  BY <1>1, <1>2, <1>3, <1>4, <1>7
<1> QED BY <1>1, <1>5, <1>6, <1>7

LEMMA OneAtATimeAdd ==
  ASSUME TableInv, OneAtATime, NEW f \in WatchFrame, stack' = Append(stack, f), muddled' = muddled,
         f.op = "add"
  PROVE  OneAtATime'
<1>1. /\ DOMAIN stack' = DOMAIN stack \cup {Len(stack) + 1} /\ stack'[Len(stack) + 1] = f
      /\ \A i \in DOMAIN stack : stack'[i] = stack[i]
  BY TopPut DEF TableInv, StackOK
<1>2. \A i \in DOMAIN stack : Len(stack) + 1 > i
  BY DEF TableInv, StackOK
<1> SUFFICES ASSUME NEW i \in DOMAIN stack', NEW j \in DOMAIN stack', i # j, stack'[i].op # "add",
                    stack'[i].of[1] \notin muddled', IsAbout(stack'[j], stack'[i].of[1])
             PROVE  stack'[j].op = "add" /\ j > i
  BY DEF OneAtATime, IsAbout
<1>3. i \in DOMAIN stack /\ i # Len(stack) + 1
  BY <1>1
<1>4. CASE j \in DOMAIN stack
  BY <1>1, <1>3, <1>4 DEF OneAtATime
<1>5. CASE j = Len(stack) + 1
  BY <1>1, <1>2, <1>3, <1>5
<1> QED BY <1>1, <1>4, <1>5

LEMMA OneAtATimeTop ==
  ASSUME TableInv, OneAtATime, stack # <<>>, NEW f \in WatchFrame, stack' = WithTopFrame(f),
         muddled \subseteq muddled', f.op = TopFrame.op, f.of = TopFrame.of,
         f.subjects \subseteq TopFrame.subjects
  PROVE  OneAtATime'
<1>1. /\ DOMAIN stack' = DOMAIN stack /\ stack'[Len(stack)] = f
      /\ \A i \in DOMAIN stack : i # Len(stack) => stack'[i] = stack[i]
  BY TopReplaced DEF TableInv, StackOK, WithTopFrame
<1>2. TopFrame = stack[Len(stack)]
  BY TopFrameIs DEF TableInv
<1>3. \A i \in DOMAIN stack : stack'[i].op = stack[i].op /\ stack'[i].of = stack[i].of
                              /\ stack'[i].subjects \subseteq stack[i].subjects
  BY <1>1, <1>2
<1> SUFFICES ASSUME NEW i \in DOMAIN stack', NEW j \in DOMAIN stack', i # j, stack'[i].op # "add",
                    stack'[i].of[1] \notin muddled', IsAbout(stack'[j], stack'[i].of[1])
             PROVE  stack'[j].op = "add" /\ j > i
  BY DEF OneAtATime, IsAbout
<1>4. IsAbout(stack[j], stack[i].of[1])
  BY <1>1, <1>3 DEF IsAbout
<1> QED BY <1>1, <1>3, <1>4 DEF OneAtATime

LEMMA OneAtATimePop ==
  ASSUME TableInv, OneAtATime, stack # <<>>, stack' = FramesBelow, muddled \subseteq muddled'
  PROVE  OneAtATime'
<1>1. \A i \in DOMAIN stack' : stack'[i] = stack[i] /\ i \in DOMAIN stack
  BY TopTaken DEF TableInv, StackOK, FramesBelow
<1> SUFFICES ASSUME NEW i \in DOMAIN stack', NEW j \in DOMAIN stack', i # j, stack'[i].op # "add",
                    stack'[i].of[1] \notin muddled', IsAbout(stack'[j], stack'[i].of[1])
             PROVE  stack'[j].op = "add" /\ j > i
  BY DEF OneAtATime, IsAbout
<1> QED BY <1>1 DEF OneAtATime

\* Observers of a tag or event, by tables d of the events and e of the tags.
Has(x, d, e) == IF x \in Tag THEN e[x] # <<>> ELSE d[x] # <<>>

\* What a command under way takes for granted about the tag it tells of, if
\* the tag is not muddled.
Believes(f, mu, d, e) ==
  /\ f.op # "add" /\ f.of[1] \notin mu =>
       /\ f.op = "bind" => e[f.of[1]] # <<>> /\ d[f.of] # <<>>
       /\ f.op = "unbind" /\ f.stage = "event" =>
            e[f.of[1]] # <<>> /\ (f.patterns # {} \/ f.todo # <<>> => d[f.of] = <<>>)
       /\ f.op = "unbind" /\ f.stage = "tag" => e[f.of[1]] = <<>>
  /\ f.op = "add" => \A t \in Tag \ mu : \A x \in f.subjects \cap About(t) : Has(x, d, e)

BelievesRight == \A i \in DOMAIN stack : Believes(stack[i], muddled, db, dt)

\* Tables that change about one tag only.
ChangedAt(t, d, e, d2, e2) ==
  /\ \A u \in Tag : u # t => e2[u] = e[u]
  /\ \A u \in TagEvent : u[1] # t => d2[u] = d[u]

LEMMA HasKept ==
  ASSUME NEW t \in Tag, NEW d, NEW e, NEW d2, NEW e2, ChangedAt(t, d, e, d2, e2),
         NEW u \in Tag, u # t, NEW x \in About(u)
  PROVE  /\ Has(x, d2, e2) <=> Has(x, d, e)
         /\ x \notin Tag => d2[x] = d[x]
<1>1. CASE x \in Tag
  <2>1. x = u
    BY <1>1, AboutSubject
  <2> QED BY <1>1, <2>1 DEF Has, ChangedAt
<1>2. CASE x \notin Tag
  <2>1. x \in TagEvent /\ x[1] = u
    BY <1>2, AboutSubject
  <2> QED BY <1>2, <2>1 DEF Has, ChangedAt
<1> QED BY <1>1, <1>2

LEMMA BelievesKept ==
  ASSUME NEW f \in WatchFrame, GoodFrame(f), NEW mu, NEW mv, mu \subseteq mv,
         NEW t \in Tag, t \notin mv => ~IsAbout(f, t),
         NEW d, NEW e, NEW d2, NEW e2, ChangedAt(t, d, e, d2, e2),
         Believes(f, mu, d, e)
  PROVE  Believes(f, mv, d2, e2)
<1>1. CASE f.op = "add"
  <2> SUFFICES ASSUME NEW u \in Tag \ mv, NEW x \in f.subjects \cap About(u) PROVE Has(x, d2, e2)
    BY <1>1 DEF Believes
  <2>1. u # t
    BY DEF IsAbout
  <2>2. Has(x, d, e)
    BY <1>1 DEF Believes
  <2> QED BY <2>1, <2>2, HasKept
<1>2. CASE f.op # "add" /\ f.of[1] \notin mv
  <2>1. f.of \in TagEvent /\ f.of # NoBinding /\ f.of[1] \in Tag
    BY <1>2, UEventNoneAssumption DEF GoodFrame, TagEvent
  <2>2. f.of[1] # t
    BY <1>2, <2>1 DEF IsAbout
  <2>3. e2[f.of[1]] = e[f.of[1]] /\ d2[f.of] = d[f.of]
    BY <2>1, <2>2 DEF ChangedAt
  <2>4. f.of[1] \notin mu
    BY <1>2
  <2> QED BY <1>2, <2>3, <2>4 DEF Believes
<1>3. CASE f.op # "add" /\ f.of[1] \in mv
  BY <1>3 DEF Believes
<1> QED BY <1>1, <1>2, <1>3

\* The tables stay.
LEMMA BelievesMuddled ==
  ASSUME NEW f, NEW mu, NEW mv, mu \subseteq mv, NEW d, NEW e, Believes(f, mu, d, e)
  PROVE  Believes(f, mv, d, e)
BY DEF Believes

\* How steps change the stack.
LEMMA BelievesPop ==
  ASSUME TableInv, BelievesRight, stack # <<>>, stack' = FramesBelow, muddled \subseteq muddled',
         UNCHANGED <<db, dt>>
  PROVE  BelievesRight'
<1>1. \A i \in DOMAIN stack' : stack'[i] = stack[i] /\ i \in DOMAIN stack
  BY TopTaken DEF TableInv, StackOK, FramesBelow
<1> SUFFICES ASSUME NEW i \in DOMAIN stack' PROVE Believes(stack[i], muddled', db, dt)
  BY <1>1 DEF BelievesRight, Believes, Has, About
<1>2. Believes(stack[i], muddled, db, dt)
  BY <1>1 DEF BelievesRight
<1> QED BY <1>2, BelievesMuddled

LEMMA BelievesTop ==
  ASSUME TableInv, BelievesRight, stack # <<>>, NEW f \in WatchFrame, stack' = WithTopFrame(f),
         muddled \subseteq muddled', UNCHANGED <<db, dt>>, Believes(f, muddled', db, dt)
  PROVE  BelievesRight'
<1>1. /\ DOMAIN stack' = DOMAIN stack /\ stack'[Len(stack)] = f
      /\ \A i \in DOMAIN stack : i # Len(stack) => stack'[i] = stack[i]
  BY TopReplaced DEF TableInv, StackOK, WithTopFrame
<1> SUFFICES ASSUME NEW i \in DOMAIN stack PROVE Believes(stack'[i], muddled', db, dt)
  BY <1>1 DEF BelievesRight, Believes, Has, About
<1>2. CASE i = Len(stack)
  BY <1>1, <1>2
<1>3. CASE i # Len(stack)
  <2>1. Believes(stack[i], muddled, db, dt)
    BY DEF BelievesRight
  <2> QED BY <1>1, <1>3, <2>1, BelievesMuddled
<1> QED BY <1>2, <1>3

LEMMA BelievesPut ==
  ASSUME TableInv, BelievesRight, NEW f \in WatchFrame, stack' = Append(stack, f), muddled \subseteq muddled',
         NEW t \in Tag, t \notin muddled' => ~Telling(t), ChangedAt(t, db, dt, db', dt'),
         Believes(f, muddled', db', dt')
  PROVE  BelievesRight'
<1>1. /\ DOMAIN stack' = DOMAIN stack \cup {Len(stack) + 1} /\ stack'[Len(stack) + 1] = f
      /\ \A i \in DOMAIN stack : stack'[i] = stack[i]
  BY TopPut DEF TableInv, StackOK
<1> SUFFICES ASSUME NEW i \in DOMAIN stack PROVE Believes(stack[i], muddled', db', dt')
  BY <1>1 DEF BelievesRight, Believes, Has, About
<1>2. Believes(stack[i], muddled, db, dt) /\ stack[i] \in WatchFrame /\ GoodFrame(stack[i])
  BY DEF BelievesRight, TableInv, StackOK, FramesGood
<1>3. t \notin muddled' => ~IsAbout(stack[i], t)
  BY TellingIs
<1> QED BY <1>2, <1>3, BelievesKept

---------------------------------------------------------------------------
(***************************************************************************)
(* What watchers were told, and will be told.                              *)
(***************************************************************************)

\* What the command tells watchers of, now.
Told(f) == IF f.stage = "tag" THEN f.of[1] ELSE f.of

\* The command will tell the watcher n, of the pattern p, of x.
Tells(f, n, x, p, d) ==
  \/ f.op = "add" /\ f.watcher = n /\ x \in f.subjects
  \/ f.op # "add" /\ x = Told(f) /\ (p \in f.patterns \/ n \in ToSet(f.todo))
  \/ f.op = "bind" /\ f.stage = "tag" /\ x = f.of /\ Len(d[x]) = 1

Knows(v, x, d, e) == v = "bound" <=> Has(x, d, e)

\* What is known, or will be told.
Informed(n, x, p, v, st, d, e) ==
  Knows(v, x, d, e) \/ \E i \in DOMAIN st : Tells(st[i], n, x, p, d)

\* Watchers of tags that are not muddled know, or will be told.
KnowsOrTold ==
  \A n \in Token : wtk[n] # NoBinding =>
    \A t \in Tag \ muddled : \A x \in About(t) \cap wtk[n][1] :
      Informed(n, x, wtk[n][1], told[n][x], stack, db, dt)

LEMMA TellsAbout ==
  ASSUME NEW f \in WatchFrame, GoodFrame(f), NEW n, NEW t \in Tag, NEW x \in About(t), NEW p, NEW d,
         Tells(f, n, x, p, d)
  PROVE  IsAbout(f, t)
<1>1. CASE f.op = "add"
  BY <1>1 DEF Tells, IsAbout
<1>2. CASE f.op # "add"
  <2>1. f.of \in TagEvent /\ f.of # NoBinding
    BY <1>2, UEventNoneAssumption DEF GoodFrame
  <2>2. x = f.of[1] \/ x = f.of
    BY <1>2 DEF Tells, Told
  <2>3. x \in About(f.of[1]) /\ f.of[1] \in Tag
    BY <2>1, <2>2, AboutEvent
  <2>4. t = f.of[1]
    BY <2>3, AboutOne
  <2> QED BY <2>1, <2>4 DEF IsAbout
<1> QED BY <1>1, <1>2

LEMMA KnowsTop ==
  ASSUME TableInv, KnowsOrTold, stack # <<>>, NEW f \in WatchFrame, stack' = WithTopFrame(f),
         muddled \subseteq muddled', UNCHANGED <<wtk, db>>,
         \A n \in Token : wtk[n] # NoBinding =>
           \A t \in Tag \ muddled' : \A x \in About(t) \cap wtk[n][1] :
             Knows(told[n][x], x, db, dt) \/ Tells(TopFrame, n, x, wtk[n][1], db) =>
               Knows(told'[n][x], x, db, dt') \/ Tells(f, n, x, wtk[n][1], db)
  PROVE  KnowsOrTold'
<1>1. /\ DOMAIN stack' = DOMAIN stack /\ stack'[Len(stack)] = f
      /\ \A i \in DOMAIN stack : i # Len(stack) => stack'[i] = stack[i]
  BY TopReplaced DEF TableInv, StackOK, WithTopFrame
<1>2. TopFrame = stack[Len(stack)] /\ Len(stack) \in DOMAIN stack
  BY TopFrameIs DEF TableInv
<1> SUFFICES ASSUME NEW n \in Token, wtk[n] # NoBinding, NEW t \in Tag \ muddled',
                    NEW x \in About(t) \cap wtk[n][1]
             PROVE  Informed(n, x, wtk[n][1], told'[n][x], stack', db, dt')
  BY DEF KnowsOrTold, Informed, Knows, Tells, Has, About, Told
<1>3. Informed(n, x, wtk[n][1], told[n][x], stack, db, dt)
  BY DEF KnowsOrTold
<1>4. CASE Knows(told[n][x], x, db, dt) \/ Tells(TopFrame, n, x, wtk[n][1], db)
  <2>1. Knows(told'[n][x], x, db, dt') \/ Tells(f, n, x, wtk[n][1], db)
    BY <1>4
  <2> QED BY <1>1, <1>2, <2>1 DEF Informed
<1>5. CASE \E i \in DOMAIN stack : i # Len(stack) /\ Tells(stack[i], n, x, wtk[n][1], db)
  BY <1>1, <1>5 DEF Informed
<1> QED BY <1>2, <1>3, <1>4, <1>5 DEF Informed

LEMMA KnowsPop ==
  ASSUME TableInv, KnowsOrTold, stack # <<>>, stack' = FramesBelow,
         muddled \subseteq muddled', UNCHANGED <<wtk, told, db>>,
         \A n \in Token : wtk[n] # NoBinding =>
           \A t \in Tag \ muddled' : \A x \in About(t) \cap wtk[n][1] :
             (Has(x, db, dt') <=> Has(x, db, dt)) /\ ~Tells(TopFrame, n, x, wtk[n][1], db)
  PROVE  KnowsOrTold'
<1>1. /\ DOMAIN stack' = DOMAIN stack \ {Len(stack)}
      /\ \A i \in DOMAIN stack' : stack'[i] = stack[i]
  BY TopTaken DEF TableInv, StackOK, FramesBelow
<1>2. TopFrame = stack[Len(stack)] /\ Len(stack) \in DOMAIN stack
  BY TopFrameIs DEF TableInv
<1> SUFFICES ASSUME NEW n \in Token, wtk[n] # NoBinding, NEW t \in Tag \ muddled',
                    NEW x \in About(t) \cap wtk[n][1]
             PROVE  Informed(n, x, wtk[n][1], told[n][x], stack', db, dt')
  BY DEF KnowsOrTold, Informed, Knows, Tells, Has, About, Told
<1>3. Informed(n, x, wtk[n][1], told[n][x], stack, db, dt)
  BY DEF KnowsOrTold
<1>4. (Has(x, db, dt') <=> Has(x, db, dt)) /\ ~Tells(TopFrame, n, x, wtk[n][1], db)
  OBVIOUS
<1>5. CASE Knows(told[n][x], x, db, dt)
  BY <1>4, <1>5 DEF Informed, Knows
<1>6. CASE \E i \in DOMAIN stack : Tells(stack[i], n, x, wtk[n][1], db)
  BY <1>1, <1>2, <1>4, <1>6 DEF Informed
<1> QED BY <1>3, <1>5, <1>6 DEF Informed

LEMMA KnowsPut ==
  ASSUME TableInv, KnowsOrTold, NEW f \in WatchFrame, stack' = Append(stack, f),
         muddled \subseteq muddled', UNCHANGED <<wtk, told>>,
         NEW t0 \in Tag, t0 \notin muddled' => ~Telling(t0), ChangedAt(t0, db, dt, db', dt'),
         \A n \in Token : wtk[n] # NoBinding =>
           \A x \in About(t0) \cap wtk[n][1] :
             (Has(x, db', dt') <=> Has(x, db, dt)) \/ Tells(f, n, x, wtk[n][1], db')
  PROVE  KnowsOrTold'
<1>1. /\ DOMAIN stack' = DOMAIN stack \cup {Len(stack) + 1} /\ stack'[Len(stack) + 1] = f
      /\ \A i \in DOMAIN stack : stack'[i] = stack[i]
  BY TopPut DEF TableInv, StackOK
<1> SUFFICES ASSUME NEW n \in Token, wtk[n] # NoBinding, NEW t \in Tag \ muddled',
                    NEW x \in About(t) \cap wtk[n][1]
             PROVE  Informed(n, x, wtk[n][1], told[n][x], stack', db', dt')
  BY DEF KnowsOrTold, Informed, Knows, Tells, Has, About, Told
<1>2. Informed(n, x, wtk[n][1], told[n][x], stack, db, dt)
  BY DEF KnowsOrTold
<1>3. CASE t = t0
  <2>1. ~ \E i \in DOMAIN stack : IsAbout(stack[i], t)
    BY <1>3, TellingIs
  <2>2. ~ \E i \in DOMAIN stack : Tells(stack[i], n, x, wtk[n][1], db)
    BY <2>1, TellsAbout DEF TableInv, StackOK, FramesGood
  <2>3. Knows(told[n][x], x, db, dt)
    BY <1>2, <2>2 DEF Informed
  <2>4. (Has(x, db', dt') <=> Has(x, db, dt)) \/ Tells(f, n, x, wtk[n][1], db')
    BY <1>3
  <2> QED BY <1>1, <2>3, <2>4 DEF Informed, Knows
<1>4. CASE t # t0
  <2>1. /\ Has(x, db', dt') <=> Has(x, db, dt)
        /\ x \notin Tag => db'[x] = db[x]
    BY <1>4, HasKept
  <2>2. CASE Knows(told[n][x], x, db, dt)
    BY <2>1, <2>2 DEF Informed, Knows
  <2>3. CASE \E i \in DOMAIN stack : Tells(stack[i], n, x, wtk[n][1], db)
    <3>1. PICK i \in DOMAIN stack : Tells(stack[i], n, x, wtk[n][1], db)
      BY <2>3
    <3>2. stack[i].op = "bind" /\ stack[i].stage = "tag" /\ x = stack[i].of => x \notin Tag
      <4>1. GoodFrame(stack[i])
        BY DEF TableInv, StackOK, FramesGood
      <4> QED BY <4>1, AboutEvent DEF GoodFrame
    <3>3. Tells(stack[i], n, x, wtk[n][1], db')
      BY <2>1, <3>1, <3>2 DEF Tells
    <3> QED BY <1>1, <3>3 DEF Informed
  <2> QED BY <1>2, <2>2, <2>3 DEF Informed
<1> QED BY <1>3, <1>4

KnowInv == OneAtATime /\ BelievesRight /\ KnowsOrTold

LEMMA KnowInvInit == UEventInit => KnowInv
<1> SUFFICES ASSUME UEventInit PROVE KnowInv
  OBVIOUS
<1>1. stack = <<>> /\ \A n \in Token : wtk[n] = NoBinding
  BY DEF UEventInit
<1> QED BY <1>1 DEF KnowInv, OneAtATime, BelievesRight, KnowsOrTold

\* What is thrown muddles all that the command had still to tell.
LEMMA TagsOfAbout ==
  ASSUME NEW f \in WatchFrame, GoodFrame(f), NEW t \in Tag, IsAbout(f, t)
  PROVE  t \in TagsOf(f)
BY DEF GoodFrame, IsAbout, TagsOf, About

LEMMA ThrowKnows ==
  ASSUME TableInv, WatchInv, KnowInv, stack # <<>>, Throw, UNCHANGED <<wtk>>
  PROVE  KnowInv'
<1>1. /\ stack' = FramesBelow /\ muddled' = muddled \cup TagsOf(TopFrame)
      /\ UNCHANGED <<told, db, dt>> /\ muddled \subseteq muddled'
  BY DEF Throw, bindingVars
<1>2. TopFrame \in WatchFrame /\ GoodFrame(TopFrame)
  BY TopFrameIs DEF TableInv
<1>3. OneAtATime'
  BY <1>1, OneAtATimePop DEF KnowInv
<1>4. BelievesRight'
  BY <1>1, BelievesPop DEF KnowInv
<1>5. ASSUME NEW n \in Token, NEW t \in Tag \ muddled', NEW x \in About(t) \cap wtk[n][1]
      PROVE  (Has(x, db, dt') <=> Has(x, db, dt)) /\ ~Tells(TopFrame, n, x, wtk[n][1], db)
  <2>1. t \notin TagsOf(TopFrame)
    BY <1>1
  <2>2. ~IsAbout(TopFrame, t)
    BY <1>2, <2>1, TagsOfAbout
  <2>3. ~Tells(TopFrame, n, x, wtk[n][1], db)
    BY <1>2, <2>2, TellsAbout
  <2> QED BY <1>1, <2>3
<1>6. KnowsOrTold'
  BY <1>1, <1>5, KnowsPop DEF KnowInv
<1> QED BY <1>3, <1>4, <1>6 DEF KnowInv

\* Steps that go on to the next call, and change none of what is told.
LEMMA TopKnows ==
  ASSUME TableInv, KnowInv, stack # <<>>, NEW f \in WatchFrame, stack' = WithTopFrame(f),
         UNCHANGED <<db, dt, wtk, told, muddled>>, f.op = TopFrame.op, f.of = TopFrame.of,
         f.subjects = TopFrame.subjects, Believes(f, muddled, db, dt),
         \A n \in Token : wtk[n] # NoBinding =>
           \A x \in wtk[n][1] :
             Tells(TopFrame, n, x, wtk[n][1], db) => Tells(f, n, x, wtk[n][1], db)
  PROVE  KnowInv'
<1>1. OneAtATime'
  BY OneAtATimeTop DEF KnowInv
<1>2. BelievesRight'
  BY BelievesTop DEF KnowInv
<1>3. KnowsOrTold'
  BY KnowsTop DEF KnowInv
<1> QED BY <1>1, <1>2, <1>3 DEF KnowInv

LEMMA TopBelieves ==
  ASSUME TableInv, KnowInv, stack # <<>>
  PROVE  Believes(TopFrame, muddled, db, dt)
BY TopFrameIs DEF TableInv, KnowInv, BelievesRight

\* Who watches something of the pattern is listed.
LEMMA WatcherListed ==
  ASSUME WatchInv, NEW n \in Token, wtk[n] # NoBinding
  PROVE  wtk[n][1] \in Pattern /\ n \in ToSet(wdb[wtk[n][1]]) /\ wdb[wtk[n][1]] # <<>>
<1>1. wtk[n][1] \in Pattern
  BY DEF WatchInv, WatchOK
<1>2. n \in ToSet(wdb[wtk[n][1]])
  BY <1>1 DEF WatchInv, WatchersListed
<1> QED BY <1>1, <1>2 DEF ToSet

LEMMA MatchingAll ==
  ASSUME WatchInv, NEW n \in Token, wtk[n] # NoBinding, NEW x \in wtk[n][1]
  PROVE  wtk[n][1] \in Matching(x)
BY WatcherListed DEF Matching

LEMMA PatternKnows ==
  ASSUME TableInv, WatchInv, KnowInv, NEW p \in Pattern, NextPattern(p)
  PROVE  KnowInv'
<1>1. stack # <<>> /\ TopFrame.todo = <<>> /\ p \in TopFrame.patterns /\ UNCHANGED wtk
  BY DEF NextPattern, Continues, watchers
<1>2. CASE wdb[p] = <<>>
  BY <1>1, <1>2, ThrowKnows DEF NextPattern
<1>3. CASE wdb[p] # <<>>
  <2>1. PICK f \in WatchFrame :
          /\ stack' = WithTopFrame(f)
          /\ UNCHANGED <<tcounter, tk, ex, db, dt, wtk, wdb, told, muddled, stuck>>
          /\ f.op = TopFrame.op /\ f.of = TopFrame.of /\ f.stage = TopFrame.stage
          /\ f.pos = TopFrame.pos /\ f.subjects = TopFrame.subjects /\ f.watcher = TopFrame.watcher
          /\ f.patterns = TopFrame.patterns \ {p} /\ f.todo = wdb[p]
    BY <1>3, PatternFrameIs DEF WatchInv
  <2>2. Believes(f, muddled, db, dt)
    <3>1. Believes(TopFrame, muddled, db, dt)
      BY <1>1, TopBelieves
    <3> QED BY <1>1, <2>1, <3>1 DEF Believes
  <2>3. ASSUME NEW n \in Token, wtk[n] # NoBinding, NEW x \in wtk[n][1],
               Tells(TopFrame, n, x, wtk[n][1], db)
        PROVE  Tells(f, n, x, wtk[n][1], db)
    <3>1. n \notin ToSet(TopFrame.todo)
      BY <1>1 DEF ToSet
    <3>2. CASE wtk[n][1] = p
      <4>1. n \in ToSet(f.todo)
        BY <2>1, <2>3, <3>2, WatcherListed
      <4> QED BY <2>1, <2>3, <3>1, <4>1 DEF Tells, Told
    <3>3. CASE wtk[n][1] # p
      BY <2>1, <2>3, <3>1, <3>3 DEF Tells, Told
    <3> QED BY <3>2, <3>3
  <2> QED BY <1>1, <2>1, <2>2, <2>3, TopKnows
<1> QED BY <1>2, <1>3

LEMMA ScriptEndsKnows ==
  ASSUME TableInv, WatchInv, KnowInv, ScriptEnds
  PROVE  KnowInv'
<1>1. stack # <<>> /\ UNCHANGED wtk
  BY DEF ScriptEnds, watchers
<1>2. CASE Throw
  BY <1>1, <1>2, ThrowKnows
<1> DEFINE f == [TopFrame EXCEPT !.running = FALSE]
<1>3. CASE stack' = WithTopFrame(f) /\ UNCHANGED <<bindingVars, watchHistory>>
  <2>1. UNCHANGED <<db, dt, told, muddled>>
    BY <1>3 DEF bindingVars, watchHistory
  <2>2. TopFrame \in WatchFrame
    BY <1>1, TopFrameIs DEF TableInv
  <2>3. f \in WatchFrame
    BY <2>2 DEF WatchFrame
  <2>4. /\ f.op = TopFrame.op /\ f.of = TopFrame.of /\ f.stage = TopFrame.stage
        /\ f.subjects = TopFrame.subjects /\ f.watcher = TopFrame.watcher
        /\ f.patterns = TopFrame.patterns /\ f.todo = TopFrame.todo
    BY <2>2 DEF WatchFrame
  <2> HIDE DEF f
  <2>5. Believes(f, muddled, db, dt)
    <3>1. Believes(TopFrame, muddled, db, dt)
      BY <1>1, TopBelieves
    <3> QED BY <2>4, <3>1 DEF Believes
  <2>6. \A n, x : Tells(TopFrame, n, x, wtk[n][1], db) => Tells(f, n, x, wtk[n][1], db)
    BY <2>4 DEF Tells, Told
  <2> QED BY <1>1, <1>3, <2>1, <2>3, <2>4, <2>5, <2>6, TopKnows
<1> QED BY <1>2, <1>3 DEF ScriptEnds

LEMMA BindGoesKnows ==
  ASSUME TableInv, WatchInv, KnowInv, BindGoesOn
  PROVE  KnowInv'
<1>1. stack # <<>> /\ UNCHANGED wtk
  BY DEF BindGoesOn, AllCalled, Continues, watchers
<1>2. CASE db[TopFrame.of] = <<>>
  BY <1>1, <1>2, ThrowKnows DEF BindGoesOn
<1>3. CASE db[TopFrame.of] # <<>>
  <2>1. PICK f \in WatchFrame :
          /\ stack' = WithTopFrame(f) /\ TopFrame.op = "bind" /\ TopFrame.stage = "tag"
          /\ UNCHANGED <<tcounter, tk, ex, db, dt, wtk, wdb, told, muddled, stuck>>
          /\ TopFrame.patterns = {} /\ TopFrame.todo = <<>>
          /\ f.op = TopFrame.op /\ f.of = TopFrame.of /\ f.stage = "event"
          /\ f.subjects = TopFrame.subjects /\ f.watcher = TopFrame.watcher
          /\ f.patterns = WatchersOf(TopFrame.of, Len(db[TopFrame.of])) /\ f.todo = TopFrame.todo
    BY <1>3, BindGoesFrameIs
  <2>2. Believes(f, muddled, db, dt)
    <3>1. Believes(TopFrame, muddled, db, dt)
      BY <1>1, TopBelieves
    <3> QED BY <2>1, <3>1 DEF Believes
  <2>3. ASSUME NEW n \in Token, wtk[n] # NoBinding, NEW x \in wtk[n][1],
               Tells(TopFrame, n, x, wtk[n][1], db)
        PROVE  Tells(f, n, x, wtk[n][1], db)
    <3>1. n \notin ToSet(TopFrame.todo)
      BY <2>1 DEF ToSet
    <3>2. x = TopFrame.of /\ Len(db[x]) = 1
      BY <2>1, <2>3, <3>1 DEF Tells
    <3>3. wtk[n][1] \in f.patterns
      BY <2>1, <2>3, <3>2, MatchingAll DEF WatchersOf
    <3> QED BY <2>1, <3>2, <3>3 DEF Tells, Told
  <2> QED BY <1>1, <2>1, <2>2, <2>3, TopKnows
<1> QED BY <1>2, <1>3

LEMMA CommandEndsKnows ==
  ASSUME TableInv, WatchInv, KnowInv, CommandEnds
  PROVE  KnowInv'
<1>1. /\ stack # <<>> /\ stack' = FramesBelow /\ UNCHANGED <<db, dt, wtk, told, muddled>>
      /\ TopFrame.patterns = {} /\ TopFrame.todo = <<>> /\ TopFrame.subjects = {}
  BY DEF CommandEnds, AllCalled, Continues, Return, watchers, watchHistory
<1>2. ~(TopFrame.op = "bind" /\ TopFrame.stage = "tag")
  BY DEF CommandEnds
<1>3. \A n, x, p : ~Tells(TopFrame, n, x, p, db)
  BY <1>1, <1>2 DEF Tells, ToSet
<1>4. OneAtATime'
  BY <1>1, OneAtATimePop DEF KnowInv
<1>5. BelievesRight'
  BY <1>1, BelievesPop DEF KnowInv
<1>6. KnowsOrTold'
  BY <1>1, <1>3, KnowsPop DEF KnowInv
<1> QED BY <1>4, <1>5, <1>6 DEF KnowInv

LEMMA RemoveKnows ==
  ASSUME TableInv, WatchInv, KnowInv, NEW n \in Token, WatchRemove(n)
  PROVE  KnowInv'
<1>1. wtk' = [wtk EXCEPT ![n] = NoBinding] /\ UNCHANGED <<db, dt, stack, told, muddled>>
  BY DEF WatchRemove, bindingVars, watchHistory
<1>2. \A m \in Token : wtk'[m] # NoBinding => wtk'[m] = wtk[m]
  BY <1>1 DEF WatchInv, WatchOK
<1>3. OneAtATime' /\ BelievesRight'
  BY <1>1 DEF KnowInv, OneAtATime, BelievesRight, Believes, IsAbout, About, Has
<1>4. KnowsOrTold'
  <2> SUFFICES ASSUME NEW m \in Token, wtk'[m] # NoBinding, NEW t \in Tag \ muddled,
                      NEW x \in About(t) \cap wtk'[m][1]
               PROVE  Informed(m, x, wtk'[m][1], told[m][x], stack, db, dt)
    BY <1>1 DEF KnowsOrTold, Informed, Knows, Tells, Has, About, Told
  <2>1. wtk'[m] = wtk[m]
    BY <1>2
  <2> QED BY <2>1 DEF KnowInv, KnowsOrTold
<1> QED BY <1>3, <1>4 DEF KnowInv

\* A watcher is told what is so.
LEMMA WatcherKnows ==
  ASSUME TableInv, WatchInv, KnowInv, NextWatcher
  PROVE  KnowInv'
<1> DEFINE n == Head(TopFrame.todo)
           x == Told(TopFrame)
           v == IF TopFrame.op = "unbind" THEN "unbound" ELSE "bound"
<1>1. stack # <<>> /\ TopFrame.todo # <<>> /\ UNCHANGED wtk
  BY DEF NextWatcher, Continues, watchers
<1>2. CASE wtk[n] = NoBinding
  BY <1>1, <1>2, ThrowKnows DEF NextWatcher
<1>3. CASE wtk[n] # NoBinding
  <2>1. PICK f \in WatchFrame :
          /\ stack' = WithTopFrame(f)
          /\ f.op = TopFrame.op /\ f.of = TopFrame.of /\ f.stage = TopFrame.stage
          /\ f.pos = TopFrame.pos /\ f.subjects = TopFrame.subjects /\ f.watcher = TopFrame.watcher
          /\ f.patterns = TopFrame.patterns /\ f.todo = Tail(TopFrame.todo)
    BY <1>3, WatcherFrameIs DEF WatchInv
  <2>2. /\ n \in Token /\ x \in Subject /\ TopFrame.op # "add"
        /\ told' = [told EXCEPT ![n][x] = v]
        /\ UNCHANGED <<tcounter, tk, ex, db, dt, wtk, wdb, muddled, stuck>>
    BY <1>3, WatcherFrameIs DEF WatchInv, Told
  <2>3. TopFrame \in WatchFrame /\ GoodFrame(TopFrame) /\ Believes(TopFrame, muddled, db, dt)
    BY <1>1, TopFrameIs, TopBelieves DEF TableInv
  <2>4. TopFrame.todo \in Seq(Token)
    BY <2>3 DEF WatchFrame
  <2>5. ToSet(TopFrame.todo) \subseteq ToSet(f.todo) \cup {n}
    <3>1. ASSUME NEW i \in DOMAIN TopFrame.todo
          PROVE  TopFrame.todo[i] \in ToSet(Tail(TopFrame.todo)) \cup {n}
      <4>1. CASE i = 1
        BY <1>1, <2>4, <4>1
      <4>2. CASE i # 1
        <5>1. i - 1 \in DOMAIN Tail(TopFrame.todo) /\ Tail(TopFrame.todo)[i - 1] = TopFrame.todo[i]
          BY <1>1, <2>4, <4>2
        <5> QED BY <5>1 DEF ToSet
      <4> QED BY <4>1, <4>2
    <3> HIDE DEF n
    <3> QED BY <2>1, <3>1 DEF ToSet
  <2> HIDE DEF n
  <2>6. Believes(f, muddled, db, dt)
    BY <1>1, <2>1, <2>2, <2>3 DEF Believes
  <2>7. OneAtATime'
    BY <1>1, <2>1, <2>2, OneAtATimeTop DEF KnowInv
  <2>8. BelievesRight'
    BY <1>1, <2>1, <2>2, <2>6, BelievesTop DEF KnowInv
  <2>9. ASSUME NEW t \in Tag \ muddled, x \in About(t)
        PROVE  Knows(v, x, db, dt)
    <3>1. TopFrame.of \in TagEvent /\ TopFrame.of[1] \in Tag /\ TopFrame.of \notin Tag
      BY <2>2, <2>3, AboutEvent DEF GoodFrame
    <3>2. x \in About(TopFrame.of[1])
      BY <3>1, AboutEvent DEF Told
    <3>3. TopFrame.of[1] \notin muddled
      BY <2>9, <3>1, <3>2, AboutOne
    <3>4. TopFrame.op \in {"bind", "unbind"} /\ TopFrame.stage \in {"tag", "event"}
      BY <2>2, <2>3 DEF WatchFrame
    <3>5. CASE TopFrame.op = "bind"
      BY <2>2, <2>3, <3>1, <3>3, <3>4, <3>5 DEF Knows, Has, Told, Believes
    <3>6. CASE TopFrame.op = "unbind" /\ TopFrame.stage = "tag"
      BY <2>2, <2>3, <3>1, <3>3, <3>4, <3>6 DEF Knows, Has, Told, Believes
    <3>7. CASE TopFrame.op = "unbind" /\ TopFrame.stage = "event"
      BY <1>1, <2>2, <2>3, <3>1, <3>3, <3>4, <3>7 DEF Knows, Has, Told, Believes
    <3> QED BY <3>4, <3>5, <3>6, <3>7
  <2> HIDE DEF x, v
  <2>10. told \in [Token -> [Subject -> {"nothing", "bound", "unbound"}]]
    BY DEF WatchInv, WatchOK
  <2>11. told'[n][x] = v /\ \A m \in Token, y \in Subject : m # n \/ y # x => told'[m][y] = told[m][y]
    BY <2>2, <2>10
  <2>12. ASSUME NEW m \in Token, wtk[m] # NoBinding, NEW t \in Tag \ muddled, NEW y \in About(t) \cap wtk[m][1],
                Knows(told[m][y], y, db, dt) \/ Tells(TopFrame, m, y, wtk[m][1], db)
         PROVE  Knows(told'[m][y], y, db, dt) \/ Tells(f, m, y, wtk[m][1], db)
    <3>1. CASE m = n /\ y = x
      BY <2>9, <2>11, <3>1
    <3>2. CASE m # n \/ y # x
      <4>1. y \in Subject
        BY AboutSubject
      <4>2. told'[m][y] = told[m][y]
        BY <2>11, <3>2, <4>1
      <4>3. CASE Knows(told[m][y], y, db, dt)
        BY <4>2, <4>3
      <4>4. CASE Tells(TopFrame, m, y, wtk[m][1], db)
        BY <2>1, <2>5, <3>2, <4>4 DEF Tells, Told, x
      <4> QED BY <2>12, <4>3, <4>4
    <3> QED BY <3>1, <3>2
  <2>13. KnowsOrTold'
    BY <1>1, <2>1, <2>2, <2>12, KnowsTop DEF KnowInv
  <2> QED BY <2>7, <2>8, <2>13 DEF KnowInv
<1> QED BY <1>2, <1>3

LEMMA SubjectKnows ==
  ASSUME TableInv, WatchInv, KnowInv, NEW x \in Subject, NextSubject(x)
  PROVE  KnowInv'
<1> DEFINE n == TopFrame.watcher
<1>1. PICK f \in WatchFrame :
        /\ stack' = WithTopFrame(f)
        /\ f.op = TopFrame.op /\ f.of = TopFrame.of /\ f.stage = TopFrame.stage
        /\ f.subjects = TopFrame.subjects \ {x} /\ f.watcher = TopFrame.watcher
        /\ f.patterns = TopFrame.patterns /\ f.todo = TopFrame.todo
  BY SubjectFrameIs DEF WatchInv
<1>2. /\ stack # <<>> /\ TopFrame.op = "add" /\ n \in Token /\ x \in TopFrame.subjects
      /\ told' = [told EXCEPT ![n][x] = "bound"]
      /\ UNCHANGED <<tcounter, tk, ex, db, dt, wtk, wdb, muddled, stuck>>
  BY SubjectFrameIs DEF WatchInv
<1>3. Believes(TopFrame, muddled, db, dt)
  BY <1>2, TopBelieves
<1>4. Believes(f, muddled, db, dt)
  BY <1>1, <1>2, <1>3 DEF Believes
<1>5. OneAtATime'
  BY <1>1, <1>2, OneAtATimeTop DEF KnowInv
<1>6. BelievesRight'
  BY <1>1, <1>2, <1>4, BelievesTop DEF KnowInv
<1> HIDE DEF n
<1>7. told \in [Token -> [Subject -> {"nothing", "bound", "unbound"}]]
  BY DEF WatchInv, WatchOK
<1>8. /\ told'[n][x] = "bound"
      /\ \A m \in Token, y \in Subject : m # n \/ y # x => told'[m][y] = told[m][y]
  BY <1>2, <1>7
<1>9. ASSUME NEW m \in Token, wtk[m] # NoBinding, NEW t \in Tag \ muddled, NEW y \in About(t) \cap wtk[m][1],
             Knows(told[m][y], y, db, dt) \/ Tells(TopFrame, m, y, wtk[m][1], db)
      PROVE  Knows(told'[m][y], y, db, dt) \/ Tells(f, m, y, wtk[m][1], db)
  <2>1. CASE m = n /\ y = x
    <3>1. Has(x, db, dt)
      BY <1>2, <1>3, <2>1 DEF Believes
    <3> QED BY <1>8, <2>1, <3>1 DEF Knows
  <2>2. CASE m # n \/ y # x
    <3>1. y \in Subject
      BY AboutSubject
    <3>2. told'[m][y] = told[m][y]
      BY <1>8, <2>2, <3>1
    <3>3. CASE Knows(told[m][y], y, db, dt)
      BY <3>2, <3>3
    <3>4. CASE Tells(TopFrame, m, y, wtk[m][1], db)
      BY <1>1, <1>2, <2>2, <3>4 DEF Tells, n
    <3> QED BY <1>9, <3>3, <3>4
  <2> QED BY <2>1, <2>2
<1>10. KnowsOrTold'
  BY <1>1, <1>2, <1>9, KnowsTop DEF KnowInv
<1> QED BY <1>5, <1>6, <1>10 DEF KnowInv

LEMMA AddKnows ==
  ASSUME TableInv, WatchInv, KnowInv, NEW p \in Pattern, NEW c \in Watcher, WatchAdd(p, c)
  PROVE  KnowInv'
<1> DEFINE g == TokenGiven
           S == {x \in p : HasObservers(x)}
           f == AddFrame(g, S)
<1>1. /\ f \in WatchFrame /\ stack' = Append(stack, f)
      /\ g \in Token /\ tcounter' = g /\ g > tcounter
  BY AddFrameIs
<1>2. /\ wtk' = [wtk EXCEPT ![g] = <<p, c>>] /\ UNCHANGED <<db, dt, told, muddled>>
  BY DEF WatchAdd, bindingVars, watchHistory
<1>3. f.op = "add" /\ f.watcher = g /\ f.subjects = S
  BY DEF AddFrame
<1>4. \A x \in S : Has(x, db, dt)
  BY DEF HasObservers, Has
<1>5. \A x \in p : Has(x, db, dt) => x \in S
  BY DEF HasObservers, Has
<1>6. \A x \in Subject : told[g][x] = "nothing"
  BY <1>1 DEF WatchInv, WatchersFresh
<1> HIDE DEF f, g, S
<1>7. OneAtATime'
  BY <1>1, <1>2, <1>3, OneAtATimeAdd DEF KnowInv
<1>8. Believes(f, muddled, db, dt)
  BY <1>3, <1>4 DEF Believes
<1>9. /\ DOMAIN stack' = DOMAIN stack \cup {Len(stack) + 1} /\ stack'[Len(stack) + 1] = f
      /\ \A i \in DOMAIN stack : stack'[i] = stack[i]
  BY <1>1, TopPut DEF TableInv, StackOK
<1>10. BelievesRight'
  <2> SUFFICES ASSUME NEW i \in DOMAIN stack' PROVE Believes(stack'[i], muddled, db, dt)
    BY <1>2 DEF BelievesRight, Believes, Has, About
  <2> QED BY <1>8, <1>9 DEF KnowInv, BelievesRight
<1>11. wtk'[g] = <<p, c>> /\ \A m \in Token : m # g => wtk'[m] = wtk[m]
  BY <1>1, <1>2 DEF WatchInv, WatchOK
<1>12. KnowsOrTold'
  <2> SUFFICES ASSUME NEW m \in Token, wtk'[m] # NoBinding, NEW t \in Tag \ muddled,
                      NEW x \in About(t) \cap wtk'[m][1]
               PROVE  Informed(m, x, wtk'[m][1], told[m][x], stack', db, dt)
    BY <1>2 DEF KnowsOrTold, Informed, Knows, Tells, Has, About, Told
  <2>1. CASE m = g
    <3>1. told[m][x] = "nothing" /\ x \in p
      BY <1>6, <1>11, <2>1, AboutSubject
    <3>2. CASE Has(x, db, dt)
      <4>1. Tells(f, m, x, wtk'[m][1], db)
        BY <1>3, <1>5, <2>1, <3>1, <3>2 DEF Tells
      <4> QED BY <1>9, <4>1 DEF Informed
    <3>3. CASE ~Has(x, db, dt)
      BY <3>1, <3>3 DEF Informed, Knows
    <3> QED BY <3>2, <3>3
  <2>2. CASE m # g
    <3>1. wtk'[m] = wtk[m]
      BY <1>11, <2>2
    <3>2. Informed(m, x, wtk[m][1], told[m][x], stack, db, dt)
      BY <3>1 DEF KnowInv, KnowsOrTold
    <3> QED BY <1>9, <3>1, <3>2 DEF Informed
  <2> QED BY <2>1, <2>2
<1> QED BY <1>7, <1>10, <1>12 DEF KnowInv

\* bind tells of the tag and of the event what is the first of each.
LEMMA BindKnows ==
  ASSUME TableInv, WatchInv, KnowInv, NEW te \in TagEvent, NEW c \in Command, BindEvent(te, c)
  PROVE  KnowInv'
<1> DEFINE t == te[1]
           g == TokenGiven
<1>1. PICK W \in SUBSET Pattern :
        W = WatchersOf(t, Len(dt'[t])) /\ BindFrame(te, W) \in WatchFrame /\ stack' = Append(stack, BindFrame(te, W))
  BY BindFrameIs
<1>2. /\ db' = [db EXCEPT ![te] = Append(@, g)] /\ dt' = [dt EXCEPT ![t] = Append(@, g)]
      /\ UNCHANGED <<wtk, wdb, told>> /\ Muddle(t) /\ NewToken
  BY DEF BindEvent, watchers
<1>3. t \in Tag /\ te \in About(t) /\ te \notin Tag
  BY AboutEvent
<1>4. muddled \subseteq muddled' /\ (t \notin muddled' => ~Telling(t))
  BY <1>2, <1>3, MuddleIs
<1>5. g \in Token
  BY <1>2, TokenIs DEF TableInv
<1> HIDE DEF g
<1>6. dt \in [Tag -> Seq(Token)] /\ db \in [TagEvent -> Seq(Token)] /\ dt[t] \in Seq(Token) /\ db[te] \in Seq(Token)
  BY <1>3 DEF TableInv, TablesOK
<1>7. dt'[t] = Append(dt[t], g) /\ db'[te] = Append(db[te], g)
  BY <1>2, <1>3, <1>6
<1>8. /\ dt'[t] # <<>> /\ db'[te] # <<>>
      /\ dt[t] = <<>> => Len(dt'[t]) = 1
      /\ db[te] = <<>> => Len(db'[te]) = 1
  <2>1. \A s \in Seq(Token) : Append(s, g) # <<>> /\ (s = <<>> => Len(Append(s, g)) = 1)
    BY <1>5
  <2> QED BY <2>1, <1>6, <1>7
<1>9. \A u \in TagEvent : u # te => db'[u] = db[u]
  BY <1>2, <1>6
<1>10. ChangedAt(t, db, dt, db', dt')
  BY <1>2, <1>3, <1>6, <1>9 DEF ChangedAt
<1> DEFINE f == BindFrame(te, W)
<1>11. /\ f.op = "bind" /\ f.of = te /\ f.stage = "tag" /\ f.subjects = {} /\ f.patterns = W /\ f.todo = <<>>
  BY DEF BindFrame
<1>12. f \in WatchFrame /\ stack' = Append(stack, f)
  BY <1>1
<1> HIDE DEF f
<1>13. OneAtATime'
  BY <1>4, <1>11, <1>12, OneAtATimePut DEF KnowInv
<1>14. Believes(f, muddled', db', dt')
  BY <1>8, <1>11 DEF Believes
<1>15. BelievesRight'
  BY <1>3, <1>4, <1>10, <1>12, <1>14, BelievesPut DEF KnowInv
<1>16. ASSUME NEW n \in Token, wtk[n] # NoBinding, NEW x \in About(t) \cap wtk[n][1]
       PROVE  (Has(x, db', dt') <=> Has(x, db, dt)) \/ Tells(f, n, x, wtk[n][1], db')
  <2>1. CASE x \in Tag
    <3>1. x = t
      BY <1>3, <2>1, AboutSubject
    <3>2. CASE dt[t] = <<>>
      <4>1. W = Matching(t)
        BY <1>1, <1>8, <3>2 DEF WatchersOf
      <4>2. wtk[n][1] \in W
        BY <1>16, <3>1, <4>1, MatchingAll
      <4> QED BY <1>11, <3>1, <4>2 DEF Tells, Told
    <3>3. CASE dt[t] # <<>>
      BY <1>8, <2>1, <3>1, <3>3 DEF Has
    <3> QED BY <3>2, <3>3
  <2>2. CASE x \notin Tag
    <3>1. x \in TagEvent
      BY <1>3, <2>2, AboutSubject
    <3>2. CASE x = te /\ db[te] = <<>>
      BY <1>8, <1>11, <3>2 DEF Tells
    <3>3. CASE x = te /\ db[te] # <<>>
      BY <1>8, <2>2, <3>3 DEF Has
    <3>4. CASE x # te
      BY <1>9, <2>2, <3>1, <3>4 DEF Has
    <3> QED BY <3>2, <3>3, <3>4
  <2> QED BY <2>1, <2>2
<1>17. KnowsOrTold'
  BY <1>2, <1>3, <1>4, <1>10, <1>12, <1>16, KnowsPut DEF KnowInv
<1> QED BY <1>13, <1>15, <1>17 DEF KnowInv

LEMMA UnbindKnows ==
  ASSUME TableInv, WatchInv, KnowInv, NEW n \in Token, UnbindEvent(n)
  PROVE  KnowInv'
<1> DEFINE te == tk[n][1]
           t == te[1]
           pos == Position(db[te], n)
           r == RemoveAt(db[te], pos)
<1>1. te \in TagEvent /\ t \in Tag /\ pos \in DOMAIN db[te]
  BY UnbindFrameIs
<1>2. PICK W \in SUBSET Pattern :
        LET f == UnbindFrame(te, pos, W)
        IN W = WatchersOf(te, Len(db[te])) /\ f \in WatchFrame /\ stack' = Append(stack, f)
  BY UnbindFrameIs
<1>3. db' = [db EXCEPT ![te] = r] /\ UNCHANGED <<dt, wtk, wdb, told>> /\ Muddle(t)
  BY DEF UnbindEvent, watchers
<1>4. muddled \subseteq muddled' /\ (t \notin muddled' => ~Telling(t))
  BY <1>1, <1>3, MuddleIs
<1>5. dt \in [Tag -> Seq(Token)] /\ db \in [TagEvent -> Seq(Token)] /\ db[te] \in Seq(Token)
  BY <1>1 DEF TableInv, TablesOK
<1>6. r \in Seq(Token) /\ Len(r) = Len(db[te]) - 1
  BY <1>1, <1>5, RemovedIs
<1>7. Len(db[te]) <= Len(dt[t])
  BY <1>1, ListsFit
<1> HIDE DEF pos, r
<1>8. Len(db[te]) \in Nat /\ Len(db[te]) >= 1
  BY <1>1, <1>5
<1>9. dt[t] # <<>>
  <2>1. Len(dt[t]) >= 1
    <3>1. dt[t] \in Seq(Token)
      BY <1>1, <1>5
    <3>2. Len(dt[t]) \in Nat
      BY <3>1
    <3> QED BY <3>2, <1>7, <1>8
  <2> QED BY <2>1
<1>10. db'[te] = r /\ \A u \in TagEvent : u # te => db'[u] = db[u]
  BY <1>1, <1>3, <1>5
<1> DEFINE f == UnbindFrame(te, pos, W)
<1>11. /\ f.op = "unbind" /\ f.of = te /\ f.stage = "event" /\ f.subjects = {} /\ f.patterns = W /\ f.todo = <<>>
  BY DEF UnbindFrame
<1>12. f \in WatchFrame /\ stack' = Append(stack, f)
  BY <1>2
<1>13. W = WatchersOf(te, Len(db[te]))
  BY <1>2
<1> HIDE DEF f, te
<1>14. /\ Len(db[te]) = 1 => db'[te] = <<>>
       /\ Len(db[te]) # 1 => db'[te] # <<>> /\ W = {}
       /\ db[te] # <<>>
  <2>1. CASE Len(db[te]) = 1
    BY <1>6, <1>8, <1>10, <2>1
  <2>2. CASE Len(db[te]) # 1
    <3>1. Len(r) >= 1
      <4>1. \A l \in Nat : l >= 1 /\ l # 1 => l - 1 >= 1
        OBVIOUS
      <4>2. Len(db[te]) - 1 >= 1
        BY <4>1, <1>8, <2>2
      <4> QED BY <4>2, <1>6
    <3>2. W = {}
      BY <1>13, <2>2 DEF WatchersOf
    <3> QED BY <1>8, <1>10, <2>2, <3>1, <3>2
  <2> QED BY <2>1, <2>2
<1>15. ChangedAt(t, db, dt, db', dt')
  BY <1>3, <1>10 DEF ChangedAt
<1>16. OneAtATime'
  BY <1>1, <1>4, <1>11, <1>12, OneAtATimePut DEF KnowInv
<1>17. Believes(f, muddled', db', dt')
  BY <1>3, <1>9, <1>11, <1>14 DEF Believes
<1>18. BelievesRight'
  BY <1>1, <1>4, <1>12, <1>15, <1>17, BelievesPut DEF KnowInv
<1>19. ASSUME NEW m \in Token, wtk[m] # NoBinding, NEW x \in About(t) \cap wtk[m][1]
       PROVE  (Has(x, db', dt') <=> Has(x, db, dt)) \/ Tells(f, m, x, wtk[m][1], db')
  <2>1. CASE x \in Tag
    BY <1>3, <2>1 DEF Has
  <2>2. CASE x \notin Tag
    <3>1. x \in TagEvent
      BY <1>1, <2>2, AboutSubject
    <3>2. CASE x = te /\ Len(db[te]) = 1
      <4>1. wtk[m][1] \in W
        BY <1>13, <1>19, <3>2, MatchingAll DEF WatchersOf
      <4> QED BY <1>11, <3>2, <4>1 DEF Tells, Told
    <3>3. CASE x = te /\ Len(db[te]) # 1
      BY <1>14, <2>2, <3>3 DEF Has
    <3>4. CASE x # te
      BY <1>10, <2>2, <3>1, <3>4 DEF Has
    <3> QED BY <3>2, <3>3, <3>4
  <2> QED BY <2>1, <2>2
<1>20. KnowsOrTold'
  BY <1>1, <1>3, <1>4, <1>12, <1>15, <1>19, KnowsPut DEF KnowInv
<1> QED BY <1>16, <1>18, <1>20 DEF KnowInv

\* Nothing else under way is about the tag that unbind comes to.
LEMMA UnbindGoesKnows ==
  ASSUME TableInv, WatchInv, KnowInv, UnbindGoesOn
  PROVE  KnowInv'
<1> DEFINE t == TopFrame.of[1]
           k == Len(stack)
           f == [TopFrame EXCEPT !.stage = "tag", !.patterns = Matching(t)]
<1>1. /\ stack # <<>> /\ TopFrame.op = "unbind" /\ TopFrame.stage = "event"
      /\ TopFrame.patterns = {} /\ TopFrame.todo = <<>>
      /\ UNCHANGED <<tcounter, tk, ex, db, wtk, wdb, told, muddled, stuck>>
  BY UnbindGoesFrameIs
<1>2. /\ f \in WatchFrame
      /\ f.op = TopFrame.op /\ f.of = TopFrame.of /\ f.stage = "tag"
      /\ f.subjects = TopFrame.subjects /\ f.watcher = TopFrame.watcher
      /\ f.patterns = Matching(t) /\ f.todo = TopFrame.todo
  BY UnbindGoesFrameIs
<1>3. IF Len(dt[t]) = 1
        THEN stack' = WithTopFrame(f) /\ dt' = [dt EXCEPT ![t] = <<>>]
        ELSE stack' = FramesBelow /\ dt' = [dt EXCEPT ![t] = RemoveAt(@, TopFrame.pos)]
  BY UnbindGoesFrameIs
<1> HIDE DEF f
<1>4. TopFrame \in WatchFrame /\ GoodFrame(TopFrame) /\ k \in DOMAIN stack /\ TopFrame = stack[k] /\ k \in Nat
  BY <1>1, TopFrameIs DEF TableInv
<1>5. TopFrame.of \in TagEvent /\ t \in Tag /\ TopFrame.subjects = {}
  BY <1>1, <1>4, AboutEvent DEF GoodFrame
<1>6. dt \in [Tag -> Seq(Token)] /\ dt[t] \in Seq(Token)
  BY <1>5 DEF TableInv, TablesOK
<1>7. ASSUME NEW i \in DOMAIN stack, i # k, t \notin muddled
      PROVE  ~IsAbout(stack[i], t)
  <2>1. stack \in Seq(WatchFrame)
    BY DEF TableInv, StackOK
  <2>2. ~(i > k)
    BY <2>1
  <2> QED BY <1>1, <1>4, <1>7, <2>2 DEF KnowInv, OneAtATime
<1>8. ASSUME NEW u \in Tag, u # t
      PROVE  dt'[u] = dt[u]
  <2>1. CASE Len(dt[t]) = 1
    BY <1>3, <1>6, <1>8, <2>1
  <2>2. CASE Len(dt[t]) # 1
    BY <1>3, <1>6, <1>8, <2>2
  <2> QED BY <2>1, <2>2
<1> HIDE DEF t
<1>9. ChangedAt(t, db, dt, db, dt')
  BY <1>8 DEF ChangedAt
<1>10. ASSUME NEW i \in DOMAIN stack, i # k
       PROVE  Believes(stack[i], muddled, db, dt')
  <2>1. stack[i] \in WatchFrame /\ GoodFrame(stack[i]) /\ Believes(stack[i], muddled, db, dt)
    BY DEF TableInv, StackOK, FramesGood, KnowInv, BelievesRight
  <2>2. t \notin muddled => ~IsAbout(stack[i], t)
    BY <1>7, <1>10
  <2>3. t \in Tag
    BY <1>5 DEF t
  <2> QED BY <1>9, <2>1, <2>2, <2>3, BelievesKept
<1>11. \A x : ~(x \in ToSet(TopFrame.todo))
  BY <1>1 DEF ToSet
<1>12. \A n, x, p : ~Tells(TopFrame, n, x, p, db)
  BY <1>1, <1>11 DEF Tells
<1>13. CASE Len(dt[t]) = 1
  <2>1. stack' = WithTopFrame(f) /\ dt' = [dt EXCEPT ![t] = <<>>]
    BY <1>3, <1>13 DEF t
  <2>2. dt'[t] = <<>>
    BY <1>5, <1>6, <2>1 DEF t
  <2>3. /\ DOMAIN stack' = DOMAIN stack /\ stack'[k] = f
        /\ \A i \in DOMAIN stack : i # k => stack'[i] = stack[i]
    BY <1>1, <1>2, <2>1, TopReplaced DEF TableInv, StackOK, WithTopFrame
  <2>4. OneAtATime'
    BY <1>1, <1>2, <2>1, OneAtATimeTop DEF KnowInv
  <2>5. Believes(f, muddled, db, dt')
    BY <1>1, <1>2, <2>2 DEF Believes, t
  <2>6. BelievesRight'
    <3> SUFFICES ASSUME NEW i \in DOMAIN stack' PROVE Believes(stack'[i], muddled, db, dt')
      BY <1>1 DEF BelievesRight, Believes, Has, About
    <3> QED BY <1>10, <2>3, <2>5
  <2>7. ASSUME NEW n \in Token, wtk[n] # NoBinding, NEW u \in Tag \ muddled, NEW x \in About(u) \cap wtk[n][1],
               Knows(told[n][x], x, db, dt) \/ Tells(TopFrame, n, x, wtk[n][1], db)
        PROVE  Knows(told'[n][x], x, db, dt') \/ Tells(f, n, x, wtk[n][1], db)
    <3>1. Knows(told[n][x], x, db, dt) /\ told' = told
      BY <1>1, <1>12, <2>7
    <3>2. CASE x = t
      <4>1. wtk[n][1] \in Matching(t)
        BY <2>7, <3>2, MatchingAll
      <4> QED BY <1>1, <1>2, <3>2, <4>1 DEF Tells, Told, t
    <3>3. CASE x # t
      <4>1. Has(x, db, dt') <=> Has(x, db, dt)
        BY <1>8, <3>3, AboutSubject DEF Has
      <4> QED BY <3>1, <4>1 DEF Knows
    <3> QED BY <3>2, <3>3
  <2>8. KnowsOrTold'
    BY <1>1, <1>2, <2>1, <2>7, KnowsTop DEF KnowInv
  <2> QED BY <2>4, <2>6, <2>8 DEF KnowInv
<1>14. CASE Len(dt[t]) # 1
  <2>1. stack' = FramesBelow /\ dt' = [dt EXCEPT ![t] = RemoveAt(@, TopFrame.pos)]
    BY <1>3, <1>14 DEF t
  <2>2. dt[t] # <<>> /\ dt'[t] # <<>>
    <3>1. TableInv'
      BY UnbindGoesTables DEF WatchInv
    <3>2. t \in Tag
      BY <1>5 DEF t
    <3>3. Len(dt[t]) = Cardinality(TokensOf(tk, t)) + Count(stack, t) + stuck[t]
      BY <3>2, BindingsAre DEF TableInv, Counted
    <3>4. Count(stack, t) >= 1 /\ Count(stack, t) \in Nat
      <4>1. IsUnbind(stack[k], t)
        BY <1>1, <1>4 DEF IsUnbind, t
      <4> QED BY <4>1, <1>4, CountType DEF TableInv, StackOK
    <3>5. Cardinality(TokensOf(tk, t)) \in Nat /\ stuck[t] \in Nat
      BY <3>2, TokensFinite DEF TableInv, TablesOK
    <3>6. Len(dt[t]) \in Nat /\ Len(dt[t]) >= 2
      BY <1>14, <3>3, <3>4, <3>5
    <3>7. TopFrame.pos \in DOMAIN dt[t]
      <4>1. TopFrame.pos = 1 \/ TopFrame.pos <= Len(dt[t])
        BY <1>1, <1>4 DEF TableInv, PositionsFit, t
      <4>2. TopFrame.pos \in Nat /\ TopFrame.pos >= 1
        BY <1>1, <1>4 DEF GoodFrame, WatchFrame
      <4>3. dt[t] \in Seq(Token)
        BY <1>6 DEF t
      <4> QED BY <3>6, <4>1, <4>2, <4>3
    <3>8. dt'[t] = RemoveAt(dt[t], TopFrame.pos)
      BY <1>6, <2>1, <3>2
    <3>9. Len(dt'[t]) = Len(dt[t]) - 1
      BY <1>6, <3>7, <3>8, RemovedIs DEF t
    <3> QED BY <3>6, <3>9
  <2>3. OneAtATime'
    BY <1>1, <2>1, OneAtATimePop DEF KnowInv
  <2>4. /\ DOMAIN stack' = DOMAIN stack \ {k}
        /\ \A i \in DOMAIN stack' : stack'[i] = stack[i]
    BY <1>1, <2>1, TopTaken DEF TableInv, StackOK, FramesBelow
  <2>5. BelievesRight'
    <3> SUFFICES ASSUME NEW i \in DOMAIN stack' PROVE Believes(stack'[i], muddled, db, dt')
      BY <1>1 DEF BelievesRight, Believes, Has, About
    <3> QED BY <1>10, <2>4
  <2>6. ASSUME NEW u \in Tag, NEW x \in About(u)
        PROVE  Has(x, db, dt') <=> Has(x, db, dt)
    <3>1. CASE x \in Tag /\ x = t
      BY <2>2, <3>1 DEF Has
    <3>2. CASE x \in Tag /\ x # t
      BY <1>8, <3>2 DEF Has
    <3>3. CASE x \notin Tag
      BY <3>3 DEF Has
    <3> QED BY <3>1, <3>2, <3>3
  <2>7. KnowsOrTold'
    BY <1>1, <1>12, <2>1, <2>6, KnowsPop DEF KnowInv
  <2> QED BY <2>3, <2>5, <2>7 DEF KnowInv
<1> QED BY <1>13, <1>14

LEMMA KnowInvStep ==
  ASSUME TableInv, WatchInv, KnowInv, UEventNext
  PROVE  KnowInv'
<1>1. CASE \E te \in TagEvent, c \in Command : BindEvent(te, c)
  BY <1>1, BindKnows
<1>2. CASE \E n \in Token : UnbindEvent(n)
  BY <1>2, UnbindKnows
<1>3. CASE \E n \in Token : WatchRemove(n)
  BY <1>3, RemoveKnows
<1>4. CASE \E p \in Pattern : NextPattern(p)
  BY <1>4, PatternKnows
<1>5. CASE \E p \in Pattern, c \in Watcher : WatchAdd(p, c)
  BY <1>5, AddKnows
<1>6. CASE \E x \in Subject : NextSubject(x)
  BY <1>6, SubjectKnows
<1>7. CASE NextWatcher
  BY <1>7, WatcherKnows
<1>8. CASE BindGoesOn
  BY <1>8, BindGoesKnows
<1>9. CASE UnbindGoesOn
  BY <1>9, UnbindGoesKnows
<1>10. CASE CommandEnds
  BY <1>10, CommandEndsKnows
<1>11. CASE ScriptEnds
  BY <1>11, ScriptEndsKnows
<1> QED BY <1>1, <1>2, <1>3, <1>4, <1>5, <1>6, <1>7, <1>8, <1>9, <1>10, <1>11 DEF UEventNext

LEMMA KnowUnchanged ==
  ASSUME KnowInv, UNCHANGED uVars
  PROVE  KnowInv'
BY DEF uVars, bindingVars, watchers, watchHistory, KnowInv, OneAtATime, IsAbout, BelievesRight, Believes,
       KnowsOrTold, Informed, Knows, Tells, Has, About, Told

\* Watchers know of all they watch whether something is bound to it, whatever
\* they bind, unbind, add and remove while they are told: but for the tags that
\* were bound or unbound while watchers were being told of them, and those of a
\* command that was left by what a watcher threw.
THEOREM WatchersAlwaysKnow == UEventSpec => []WatchersKnow
<1>1. UEventInit => KnowInv
  BY KnowInvInit
<1>2. TableInv /\ WatchInv /\ KnowInv /\ [UEventNext]_uVars => KnowInv'
  BY KnowInvStep, KnowUnchanged
<1>3. TableInv /\ KnowInv => WatchersKnow
  <2> SUFFICES ASSUME TableInv, KnowInv, NEW n \in Token, wtk[n] # NoBinding,
                      NEW t \in Tag, ~Telling(t), t \notin muddled,
                      NEW x \in ({t} \cup {t} \X EventName) \cap wtk[n][1]
               PROVE  told[n][x] = "bound" <=> HasObservers(x)
    BY DEF WatchersKnow
  <2>1. x \in About(t) \cap wtk[n][1]
    BY DEF About
  <2>2. Informed(n, x, wtk[n][1], told[n][x], stack, db, dt)
    BY <2>1 DEF KnowInv, KnowsOrTold
  <2>3. ~ \E i \in DOMAIN stack : IsAbout(stack[i], t)
    BY TellingIs
  <2>4. ~ \E i \in DOMAIN stack : Tells(stack[i], n, x, wtk[n][1], db)
    BY <2>1, <2>3, TellsAbout DEF TableInv, StackOK, FramesGood
  <2> QED BY <2>2, <2>4 DEF Informed, Knows, Has, HasObservers
<1> QED BY <1>1, <1>2, <1>3, ShapesAlways, PTL DEF UEventSpec
=============================================================================

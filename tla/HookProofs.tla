------------------------------ MODULE HookProofs ------------------------------
(***************************************************************************)
(* Theorems about the hooks of modules/hook/hook.tcl.                      *)
(***************************************************************************)
EXTENDS Hook, TLAPS

---------------------------------------------------------------------------
(***************************************************************************)
(* Dictionaries.                                                           *)
(***************************************************************************)

\* Dictionaries with keys of K and values of V.
Dict(K, V) == UNION {[D -> V] : D \in SUBSET K}

\* What it is to be a dictionary.
LEMMA DictIs ==
  ASSUME NEW K, NEW V, NEW d
  PROVE  d \in Dict(K, V) <=> /\ d = [x \in DOMAIN d |-> d[x]]
                              /\ DOMAIN d \subseteq K
                              /\ \A x \in DOMAIN d : d[x] \in V
<1>1. ASSUME d \in Dict(K, V)
      PROVE  /\ d = [x \in DOMAIN d |-> d[x]]
             /\ DOMAIN d \subseteq K
             /\ \A x \in DOMAIN d : d[x] \in V
  <2>1. PICK D \in SUBSET K : d \in [D -> V]
    BY <1>1 DEF Dict
  <2> QED BY <2>1
<1>2. ASSUME d = [x \in DOMAIN d |-> d[x]], DOMAIN d \subseteq K, \A x \in DOMAIN d : d[x] \in V
      PROVE  d \in Dict(K, V)
  <2>1. d \in [DOMAIN d -> V]
    BY <1>2
  <2> QED BY <2>1, <1>2 DEF Dict
<1> QED BY <1>1, <1>2

\* The empty dictionary is one.
LEMMA EmptyDict ==
  ASSUME NEW K, NEW V
  PROVE  Empty \in Dict(K, V) /\ DOMAIN Empty = {}
<1>1. Empty = [x \in DOMAIN Empty |-> Empty[x]] /\ DOMAIN Empty = {}
  BY DEF Empty
<1> QED BY <1>1, DictIs

\* A dictionary found under a key, or empty.
LEMMA AtDict ==
  ASSUME NEW K, NEW L, NEW V, NEW d \in Dict(K, Dict(L, V)), NEW k
  PROVE  At(d, k) \in Dict(L, V)
<1>1. \A x \in DOMAIN d : d[x] \in Dict(L, V)
  BY DictIs
<1>2. Empty \in Dict(L, V)
  BY EmptyDict
<1> QED BY <1>1, <1>2 DEF At

\* A value is put under a key.
LEMMA PutDomain ==
  ASSUME NEW d, NEW k, NEW v
  PROVE  DOMAIN Put(d, k, v) = DOMAIN d \cup {k}
BY DEF Put

LEMMA PutAt ==
  ASSUME NEW d, NEW k, NEW v, NEW x
  PROVE  At(Put(d, k, v), x) = IF x = k THEN v ELSE At(d, x)
BY DEF Put, At

LEMMA PutDict ==
  ASSUME NEW K, NEW V, NEW d \in Dict(K, V), NEW k \in K, NEW v \in V
  PROVE  Put(d, k, v) \in Dict(K, V)
<1>1. DOMAIN d \subseteq K /\ \A x \in DOMAIN d : d[x] \in V
  BY DictIs
<1>2. /\ Put(d, k, v) = [x \in DOMAIN Put(d, k, v) |-> Put(d, k, v)[x]]
      /\ DOMAIN Put(d, k, v) \subseteq K
      /\ \A x \in DOMAIN Put(d, k, v) : Put(d, k, v)[x] \in V
  BY <1>1 DEF Put
<1> QED BY <1>2, DictIs

\* A key is unset.
LEMMA UnsetIs ==
  ASSUME NEW d, NEW k
  PROVE  /\ DOMAIN Unset(d, k) = DOMAIN d \ {k}
         /\ \A x \in DOMAIN d \ {k} : Unset(d, k)[x] = d[x]
BY DEF Unset

LEMMA UnsetAt ==
  ASSUME NEW d, NEW k, NEW x
  PROVE  At(Unset(d, k), x) = IF x = k THEN Empty ELSE At(d, x)
BY DEF Unset, At

LEMMA UnsetDict ==
  ASSUME NEW K, NEW V, NEW d \in Dict(K, V), NEW k
  PROVE  Unset(d, k) \in Dict(K, V)
<1>1. DOMAIN d \subseteq K /\ \A x \in DOMAIN d : d[x] \in V
  BY DictIs
<1>2. /\ Unset(d, k) = [x \in DOMAIN Unset(d, k) |-> Unset(d, k)[x]]
      /\ DOMAIN Unset(d, k) \subseteq K
      /\ \A x \in DOMAIN Unset(d, k) : Unset(d, k)[x] \in V
  BY <1>1 DEF Unset
<1> QED BY <1>2, DictIs

---------------------------------------------------------------------------
(***************************************************************************)
(* Dictionaries in dictionaries in dictionaries, as both of the package's  *)
(* are: paths of three keys lead to values.                                *)
(***************************************************************************)

Paths(K, L, M, V) == Dict(K, Dict(L, Dict(M, V)))

\* The path is there.
Has(d, x, y, z) == z \in DOMAIN At(At(d, x), y)

\* A path that is there.
LEMMA HasPath ==
  ASSUME NEW K, NEW L, NEW M, NEW V, NEW d \in Paths(K, L, M, V), NEW x, NEW y, NEW z,
         Has(d, x, y, z)
  PROVE  /\ x \in K /\ y \in L /\ z \in M
         /\ x \in DOMAIN d /\ y \in DOMAIN d[x] /\ z \in DOMAIN d[x][y]
         /\ At(At(d, x), y) = d[x][y]
         /\ d[x][y][z] \in V
<1>1. DOMAIN Empty = {}
  BY EmptyDict
<1>2. y \in DOMAIN At(d, x) /\ z \in DOMAIN At(At(d, x), y)
  BY <1>1 DEF Has, At
<1>3. x \in DOMAIN d /\ At(d, x) = d[x]
  BY <1>2, <1>1 DEF At
<1>4. y \in DOMAIN d[x] /\ At(At(d, x), y) = d[x][y] /\ z \in DOMAIN d[x][y]
  BY <1>2, <1>3 DEF At
<1>5. x \in K /\ d[x] \in Dict(L, Dict(M, V))
  BY <1>3, DictIs DEF Paths
<1>6. y \in L /\ d[x][y] \in Dict(M, V)
  BY <1>4, <1>5, DictIs
<1>7. z \in M /\ d[x][y][z] \in V
  BY <1>4, <1>6, DictIs
<1> QED BY <1>3, <1>4, <1>5, <1>6, <1>7

\* dict set d a b c v: the path is there, with the value, and no other is touched.
LEMMA PutPath ==
  ASSUME NEW K, NEW L, NEW M, NEW V, NEW d \in Paths(K, L, M, V),
         NEW a \in K, NEW b \in L, NEW c \in M, NEW v \in V, NEW e,
         e = Put(d, a, Put(At(d, a), b, Put(At(At(d, a), b), c, v)))
  PROVE  /\ e \in Paths(K, L, M, V)
         /\ \A x, y, z : Has(e, x, y, z) <=> (x = a /\ y = b /\ z = c) \/ Has(d, x, y, z)
         /\ At(At(e, a), b)[c] = v
         /\ \A x, y, z : Has(d, x, y, z) /\ ~(x = a /\ y = b /\ z = c) =>
              At(At(e, x), y)[z] = At(At(d, x), y)[z]
<1> DEFINE d1 == At(d, a)
           d2 == At(d1, b)
           e2 == Put(d2, c, v)
           e1 == Put(d1, b, e2)
<1>1. d1 \in Dict(L, Dict(M, V))
  BY AtDict DEF Paths
<1>2. d2 \in Dict(M, V)
  BY <1>1, AtDict
<1>3. /\ e2 \in Dict(M, V) /\ DOMAIN e2 = DOMAIN d2 \cup {c}
      /\ \A x \in DOMAIN d2 \cup {c} : e2[x] = IF x = c THEN v ELSE d2[x]
  <2>1. e2 \in Dict(M, V)
    <3> HIDE DEF d2
    <3> QED BY <1>2, PutDict
  <2>2. DOMAIN e2 = DOMAIN d2 \cup {c}
    <3> HIDE DEF d2
    <3> QED BY PutDomain
  <2>3. \A x \in DOMAIN d2 \cup {c} : e2[x] = IF x = c THEN v ELSE d2[x]
    <3> HIDE DEF d2
    <3> QED BY DEF Put
  <2> QED BY <2>1, <2>2, <2>3
<1>4. /\ e1 \in Dict(L, Dict(M, V))
      /\ \A x : At(e1, x) = IF x = b THEN e2 ELSE At(d1, x)
  <2>1. e1 \in Dict(L, Dict(M, V))
    <3> HIDE DEF d1, e2
    <3> QED BY <1>1, <1>3, PutDict
  <2> HIDE DEF d1, e2
  <2> QED BY <2>1, PutAt
<1>5. /\ e \in Paths(K, L, M, V)
      /\ \A x : At(e, x) = IF x = a THEN e1 ELSE At(d, x)
  <2>1. e = Put(d, a, e1)
    OBVIOUS
  <2> HIDE DEF e1
  <2>2. e \in Paths(K, L, M, V)
    BY <2>1, <1>4, PutDict DEF Paths
  <2> QED BY <2>1, <2>2, PutAt
<1>6. d1 = At(d, a) /\ d2 = At(At(d, a), b)
  OBVIOUS
<1> HIDE DEF d1, d2, e1, e2
<1>7. \A x, y : At(At(e, x), y) = IF x = a /\ y = b THEN e2 ELSE At(At(d, x), y)
  BY <1>4, <1>5, <1>6
<1>8. \A x, y, z : Has(e, x, y, z) <=> (x = a /\ y = b /\ z = c) \/ Has(d, x, y, z)
  BY <1>3, <1>6, <1>7 DEF Has
<1>9. At(At(e, a), b)[c] = v
  BY <1>3, <1>7
<1>10. ASSUME NEW x, NEW y, NEW z, Has(d, x, y, z), ~(x = a /\ y = b /\ z = c)
       PROVE  At(At(e, x), y)[z] = At(At(d, x), y)[z]
  <2>1. z \in DOMAIN At(At(d, x), y)
    BY <1>10 DEF Has
  <2> QED BY <2>1, <1>10, <1>3, <1>6, <1>7
<1> QED BY <1>5, <1>8, <1>9, <1>10

\* dict unset d a b c, of a path that is there: it is gone, and no other is touched.
LEMMA UnsetPath ==
  ASSUME NEW K, NEW L, NEW M, NEW V, NEW d \in Paths(K, L, M, V),
         NEW a, NEW b, NEW c, Has(d, a, b, c), NEW e,
         e = Put(d, a, Put(d[a], b, Unset(d[a][b], c)))
  PROVE  /\ e \in Paths(K, L, M, V)
         /\ \A x, y, z : Has(e, x, y, z) <=> Has(d, x, y, z) /\ ~(x = a /\ y = b /\ z = c)
         /\ \A x, y, z : Has(e, x, y, z) => At(At(e, x), y)[z] = At(At(d, x), y)[z]
<1> DEFINE d1 == d[a]
           d2 == d1[b]
           e2 == Unset(d2, c)
           e1 == Put(d1, b, e2)
<1>1. a \in K /\ b \in L /\ a \in DOMAIN d /\ b \in DOMAIN d[a]
  BY HasPath
<1>2. d1 \in Dict(L, Dict(M, V)) /\ At(d, a) = d1
  BY <1>1, DictIs DEF Paths, At
<1>3. d2 \in Dict(M, V) /\ At(At(d, a), b) = d2
  BY <1>1, <1>2, DictIs DEF At
<1>4. /\ e2 \in Dict(M, V) /\ DOMAIN e2 = DOMAIN d2 \ {c}
      /\ \A x \in DOMAIN d2 \ {c} : e2[x] = d2[x]
  <2>1. e2 \in Dict(M, V)
    <3> HIDE DEF d2
    <3> QED BY <1>3, UnsetDict
  <2> HIDE DEF d2
  <2> QED BY <2>1, UnsetIs
<1>5. /\ e1 \in Dict(L, Dict(M, V))
      /\ \A x : At(e1, x) = IF x = b THEN e2 ELSE At(d1, x)
  <2>1. e1 \in Dict(L, Dict(M, V))
    <3>1. b \in L
      BY <1>1
    <3> HIDE DEF d1, e2
    <3> QED BY <3>1, <1>2, <1>4, PutDict
  <2> HIDE DEF d1, e2
  <2> QED BY <2>1, PutAt
<1>6. /\ e \in Paths(K, L, M, V)
      /\ \A x : At(e, x) = IF x = a THEN e1 ELSE At(d, x)
  <2>1. e = Put(d, a, e1)
    OBVIOUS
  <2>2. a \in K
    BY <1>1
  <2> HIDE DEF e1
  <2>3. e \in Paths(K, L, M, V)
    BY <2>1, <2>2, <1>5, PutDict DEF Paths
  <2> QED BY <2>1, <2>3, PutAt
<1> HIDE DEF d1, d2, e1, e2
<1>7. \A x, y : At(At(e, x), y) = IF x = a /\ y = b THEN e2 ELSE At(At(d, x), y)
  BY <1>2, <1>5, <1>6
<1>8. \A x, y, z : Has(e, x, y, z) <=> Has(d, x, y, z) /\ ~(x = a /\ y = b /\ z = c)
  BY <1>3, <1>4, <1>7 DEF Has
<1>9. ASSUME NEW x, NEW y, NEW z, Has(e, x, y, z)
      PROVE  At(At(e, x), y)[z] = At(At(d, x), y)[z]
  <2>1. z \in DOMAIN At(At(e, x), y)
    BY <1>9 DEF Has
  <2>2. CASE x = a /\ y = b
    BY <2>1, <2>2, <1>3, <1>4, <1>7
  <2>3. CASE ~(x = a /\ y = b)
    BY <2>3, <1>7
  <2> QED BY <2>2, <2>3
<1> QED BY <1>6, <1>8, <1>9

---------------------------------------------------------------------------
(***************************************************************************)
(* The two dictionaries of bindings, and what the commands do to them.     *)
(***************************************************************************)

\* The bindings of the subjects, and the index of the observers.
DictsOK ==
  /\ sdict \in Paths(Entity, HookName, Entity, Prefix)
  /\ odict \in Paths(Entity, Entity, HookName, {1})

\* What the names of the model say of the paths.
LEMMA BindingIs ==
  ASSUME NEW d \in Paths(Entity, HookName, Entity, Prefix), NEW s, NEW h, NEW o
  PROVE  (IF Has(d, s, h, o) THEN d[s][h][o] ELSE Unbound) =
           IF Has(d, s, h, o) THEN At(At(d, s), h)[o] ELSE Unbound
BY HasPath

\* The prefixes are bound exactly where they have a path.
LEMMA BoundHas ==
  ASSUME DictsOK, NEW s, NEW h, NEW o
  PROVE  /\ HasBinding(s, h, o) <=> Has(sdict, s, h, o)
         /\ Indexed(o, s, h) <=> Has(odict, o, s, h)
         /\ BindingOf(s, h, o) = IF Has(sdict, s, h, o) THEN At(At(sdict, s), h)[o] ELSE Unbound
         /\ HasBinding(s, h, o) => /\ s \in Entity /\ h \in HookName /\ o \in Entity
                                   /\ BindingOf(s, h, o) \in Prefix
         /\ Indexed(o, s, h) => s \in Entity /\ h \in HookName /\ o \in Entity
<1>1. HasBinding(s, h, o) <=> Has(sdict, s, h, o)
  BY DEF HasBinding, Has, Keys
<1>2. Indexed(o, s, h) <=> Has(odict, o, s, h)
  BY DEF Indexed, Has, Keys
<1>3. BindingOf(s, h, o) = IF Has(sdict, s, h, o) THEN At(At(sdict, s), h)[o] ELSE Unbound
  BY <1>1, BindingIs DEF BindingOf, DictsOK
<1>4. ASSUME HasBinding(s, h, o)
      PROVE  /\ s \in Entity /\ h \in HookName /\ o \in Entity
             /\ BindingOf(s, h, o) \in Prefix
  BY <1>1, <1>4, HasPath DEF BindingOf, DictsOK
<1>5. ASSUME Indexed(o, s, h)
      PROVE  s \in Entity /\ h \in HookName /\ o \in Entity
  BY <1>2, <1>5, HasPath DEF DictsOK
<1> QED BY <1>1, <1>2, <1>3, <1>4, <1>5

\* bind: a path more in both, and the prefix at its end.
LEMMA BindDicts ==
  ASSUME DictsOK, NEW s \in Entity, NEW h \in HookName, NEW o \in Entity, NEW b \in Prefix,
         HookBind(s, h, o, b)
  PROVE  /\ DictsOK'
         /\ \A x, y, z : HasBinding(x, y, z)' <=>
              (x = s /\ y = h /\ z = o) \/ HasBinding(x, y, z)
         /\ \A x, y, z : Indexed(z, x, y)' <=> (x = s /\ y = h /\ z = o) \/ Indexed(z, x, y)
         /\ BindingOf(s, h, o)' = b
         /\ \A x, y, z : ~(x = s /\ y = h /\ z = o) => BindingOf(x, y, z)' = BindingOf(x, y, z)
<1>1. /\ sdict' = Put(sdict, s, Put(At(sdict, s), h, Put(At(At(sdict, s), h), o, b)))
      /\ odict' = Put(odict, o, Put(At(odict, o), s, Put(At(At(odict, o), s), h, 1)))
  BY DEF HookBind
<1>2. /\ sdict' \in Paths(Entity, HookName, Entity, Prefix)
      /\ \A x, y, z : Has(sdict', x, y, z) <=> (x = s /\ y = h /\ z = o) \/ Has(sdict, x, y, z)
      /\ At(At(sdict', s), h)[o] = b
      /\ \A x, y, z : Has(sdict, x, y, z) /\ ~(x = s /\ y = h /\ z = o) =>
           At(At(sdict', x), y)[z] = At(At(sdict, x), y)[z]
  BY <1>1, PutPath DEF DictsOK
<1>3. 1 \in {1}
  OBVIOUS
<1>4. /\ odict' \in Paths(Entity, Entity, HookName, {1})
      /\ \A x, y, z : Has(odict', x, y, z) <=> (x = o /\ y = s /\ z = h) \/ Has(odict, x, y, z)
  BY <1>1, <1>3, PutPath DEF DictsOK
<1>5. DictsOK'
  BY <1>2, <1>4 DEF DictsOK
<1>6. \A x, y, z : HasBinding(x, y, z)' <=> (x = s /\ y = h /\ z = o) \/ HasBinding(x, y, z)
  BY <1>2 DEF HasBinding, Has, Keys
<1>7. \A x, y, z : Indexed(z, x, y)' <=> (x = s /\ y = h /\ z = o) \/ Indexed(z, x, y)
  BY <1>4 DEF Indexed, Has, Keys
<1>8. BindingOf(s, h, o)' = b
  <2>1. HasBinding(s, h, o)' /\ Has(sdict', s, h, o)
    BY <1>2, <1>6
  <2> QED BY <2>1, <1>2, HasPath DEF BindingOf
<1>9. ASSUME NEW x, NEW y, NEW z, ~(x = s /\ y = h /\ z = o)
      PROVE  BindingOf(x, y, z)' = BindingOf(x, y, z)
  <2>1. HasBinding(x, y, z)' <=> HasBinding(x, y, z)
    BY <1>6, <1>9
  <2>2. CASE HasBinding(x, y, z)
    <3>1. Has(sdict, x, y, z) /\ Has(sdict', x, y, z)
      BY <2>2, BoundHas, <1>2
    <3>2. At(At(sdict', x), y)[z] = At(At(sdict, x), y)[z]
      BY <3>1, <1>2, <1>9
    <3>3. At(At(sdict', x), y) = sdict'[x][y]
      BY <3>1, <1>2, HasPath
    <3>4. At(At(sdict, x), y) = sdict[x][y]
      BY <3>1, HasPath DEF DictsOK
    <3> QED BY <2>1, <2>2, <3>2, <3>3, <3>4 DEF BindingOf
  <2>3. CASE ~HasBinding(x, y, z)
    BY <2>1, <2>3 DEF BindingOf
  <2> QED BY <2>2, <2>3
<1> QED BY <1>5, <1>6, <1>7, <1>8, <1>9

\* What is still there after paths were taken away is unchanged.
LEMMA KeptBindings ==
  ASSUME DictsOK, sdict' \in Paths(Entity, HookName, Entity, Prefix),
         NEW x, NEW y, NEW z,
         HasBinding(x, y, z)' => HasBinding(x, y, z),
         HasBinding(x, y, z)' => At(At(sdict', x), y)[z] = At(At(sdict, x), y)[z]
  PROVE  BindingOf(x, y, z)' = IF HasBinding(x, y, z)' THEN BindingOf(x, y, z) ELSE Unbound
<1>1. CASE HasBinding(x, y, z)'
  <2>1. Has(sdict, x, y, z) /\ Has(sdict', x, y, z)
    BY <1>1 DEF HasBinding, Has, Keys
  <2>2. At(At(sdict', x), y) = sdict'[x][y]
    BY <2>1, HasPath
  <2>3. At(At(sdict, x), y) = sdict[x][y]
    BY <2>1, HasPath DEF DictsOK
  <2> QED BY <1>1, <2>2, <2>3 DEF BindingOf
<1>2. CASE ~HasBinding(x, y, z)'
  BY <1>2 DEF BindingOf
<1> QED BY <1>1, <1>2

\* bind with an empty prefix: a path less.
LEMMA DeleteDicts ==
  ASSUME DictsOK, NEW s, NEW h, NEW o, Delete(s, h, o)
  PROVE  /\ DictsOK'
         /\ \A x, y, z : HasBinding(x, y, z)' <=>
              HasBinding(x, y, z) /\ ~(x = s /\ y = h /\ z = o)
         /\ \A x, y, z : Indexed(z, x, y)' <=>
              Indexed(z, x, y) /\ ~(x = s /\ y = h /\ z = o)
         /\ \A x, y, z : BindingOf(x, y, z)' =
              IF HasBinding(x, y, z)' THEN BindingOf(x, y, z) ELSE Unbound
<1>1. /\ sdict' \in Paths(Entity, HookName, Entity, Prefix)
      /\ \A x, y, z : Has(sdict', x, y, z) <=> Has(sdict, x, y, z) /\ ~(x = s /\ y = h /\ z = o)
      /\ \A x, y, z : Has(sdict', x, y, z) => At(At(sdict', x), y)[z] = At(At(sdict, x), y)[z]
  <2>1. CASE HasBinding(s, h, o)
    <3>1. sdict' = Put(sdict, s, Put(sdict[s], h, Unset(sdict[s][h], o)))
      BY <2>1 DEF Delete
    <3>2. Has(sdict, s, h, o)
      BY <2>1, BoundHas
    <3> QED BY <3>1, <3>2, UnsetPath DEF DictsOK
  <2>2. CASE ~HasBinding(s, h, o)
    <3>1. sdict' = sdict /\ ~Has(sdict, s, h, o)
      BY <2>2, BoundHas DEF Delete
    <3> QED BY <3>1 DEF DictsOK
  <2> QED BY <2>1, <2>2
<1>2. /\ odict' \in Paths(Entity, Entity, HookName, {1})
      /\ \A x, y, z : Has(odict', x, y, z) <=> Has(odict, x, y, z) /\ ~(x = o /\ y = s /\ z = h)
  <2>1. CASE Indexed(o, s, h)
    <3>1. odict' = Put(odict, o, Put(odict[o], s, Unset(odict[o][s], h)))
      BY <2>1 DEF Delete
    <3>2. Has(odict, o, s, h)
      BY <2>1, BoundHas
    <3> QED BY <3>1, <3>2, UnsetPath DEF DictsOK
  <2>2. CASE ~Indexed(o, s, h)
    <3>1. odict' = odict /\ ~Has(odict, o, s, h)
      BY <2>2, BoundHas DEF Delete
    <3> QED BY <3>1 DEF DictsOK
  <2> QED BY <2>1, <2>2
<1>3. DictsOK'
  BY <1>1, <1>2 DEF DictsOK
<1>4. \A x, y, z : HasBinding(x, y, z)' <=> HasBinding(x, y, z) /\ ~(x = s /\ y = h /\ z = o)
  BY <1>1 DEF HasBinding, Has, Keys
<1>5. \A x, y, z : Indexed(z, x, y)' <=> Indexed(z, x, y) /\ ~(x = s /\ y = h /\ z = o)
  BY <1>2 DEF Indexed, Has, Keys
<1>6. ASSUME NEW x, NEW y, NEW z
      PROVE  BindingOf(x, y, z)' = IF HasBinding(x, y, z)' THEN BindingOf(x, y, z) ELSE Unbound
  <2>1. HasBinding(x, y, z)' => HasBinding(x, y, z)
    BY <1>4
  <2>2. HasBinding(x, y, z)' => At(At(sdict', x), y)[z] = At(At(sdict, x), y)[z]
    BY <1>1 DEF HasBinding, Has, Keys
  <2> QED BY <2>1, <2>2, <1>1, KeptBindings
<1> QED BY <1>3, <1>4, <1>5, <1>6

\* The dictionaries under the keys of a dictionary are replaced.
LEMMA MapDict ==
  ASSUME NEW K, NEW V, NEW W, NEW d \in Dict(K, V), NEW e,
         e = [x \in DOMAIN d |-> e[x]], \A x \in DOMAIN d : e[x] \in W
  PROVE  e \in Dict(K, W)
<1>1. DOMAIN d \subseteq K
  BY DictIs
<1>2. DOMAIN e = DOMAIN d
  OBVIOUS
<1> QED BY <1>1, <1>2, DictIs

\* A part of a dictionary.
LEMMA PartDict ==
  ASSUME NEW K, NEW V, NEW d \in Dict(K, V), NEW D \in SUBSET DOMAIN d
  PROVE  [x \in D |-> d[x]] \in Dict(K, V)
<1>1. DOMAIN d \subseteq K /\ \A x \in DOMAIN d : d[x] \in V
  BY DictIs
<1>2. [x \in D |-> d[x]] \in [D -> V] /\ D \in SUBSET K
  BY <1>1
<1> QED BY <1>2 DEF Dict

\* The first loop of forget.
LEMMA FirstLoop ==
  ASSUME DictsOK, NEW z
  PROVE  /\ UnsetAsSubject(z) \in Paths(Entity, Entity, HookName, {1})
         /\ \A o, s, h : Has(UnsetAsSubject(z), o, s, h) <=>
              Has(odict, o, s, h) /\ ~(s = z /\ HasBinding(z, h, o))
<1> DEFINE left(o) == [h \in {g \in DOMAIN odict[o][z] : ~HasBinding(z, g, o)} |-> odict[o][z][h]]
           subjects(o) == [s \in DOMAIN odict[o] |-> IF s # z THEN odict[o][s] ELSE left(o)]
           index == [o \in DOMAIN odict |-> subjects(o)]
<1>1. index = UnsetAsSubject(z)
  BY DEF UnsetAsSubject
<1>2. ASSUME NEW o \in DOMAIN odict
      PROVE  odict[o] \in Dict(Entity, Dict(HookName, {1}))
  BY DictIs DEF DictsOK, Paths
<1>3. ASSUME NEW o \in DOMAIN odict, NEW s \in DOMAIN odict[o]
      PROVE  odict[o][s] \in Dict(HookName, {1})
  BY <1>2, DictIs
<1>4. ASSUME NEW o \in DOMAIN odict, z \in DOMAIN odict[o]
      PROVE  left(o) \in Dict(HookName, {1})
  <2>1. odict[o][z] \in Dict(HookName, {1})
    BY <1>3, <1>4
  <2>2. {g \in DOMAIN odict[o][z] : ~HasBinding(z, g, o)} \in SUBSET DOMAIN odict[o][z]
    OBVIOUS
  <2> QED BY <2>1, <2>2, PartDict
<1>5. \A o : left(o) = [h \in DOMAIN left(o) |-> left(o)[h]] /\
             DOMAIN left(o) = {g \in DOMAIN odict[o][z] : ~HasBinding(z, g, o)}
  OBVIOUS
<1> HIDE DEF left
<1>6. ASSUME NEW o \in DOMAIN odict
      PROVE  subjects(o) \in Dict(Entity, Dict(HookName, {1}))
  <2>1. \A s \in DOMAIN odict[o] : subjects(o)[s] \in Dict(HookName, {1})
    BY <1>3, <1>4
  <2>2. subjects(o) = [s \in DOMAIN odict[o] |-> subjects(o)[s]]
    OBVIOUS
  <2>3. odict[o] \in Dict(Entity, Dict(HookName, {1}))
    BY <1>2
  <2> HIDE DEF subjects
  <2> QED BY <2>1, <2>2, <2>3, MapDict
<1>7. \A o : DOMAIN subjects(o) = DOMAIN odict[o]
             /\ \A s \in DOMAIN odict[o] :
                  subjects(o)[s] = IF s # z THEN odict[o][s] ELSE left(o)
  OBVIOUS
<1> HIDE DEF subjects
<1>8. index \in Paths(Entity, Entity, HookName, {1})
  <2>1. index = [o \in DOMAIN odict |-> index[o]]
        /\ \A o \in DOMAIN odict : index[o] \in Dict(Entity, Dict(HookName, {1}))
    BY <1>6
  <2> HIDE DEF index
  <2> QED BY <2>1, MapDict DEF DictsOK, Paths
<1>9. DOMAIN index = DOMAIN odict /\ \A o \in DOMAIN odict : index[o] = subjects(o)
  OBVIOUS
<1> HIDE DEF index
<1>10. ASSUME NEW o, NEW s, NEW h
       PROVE  Has(index, o, s, h) <=> Has(odict, o, s, h) /\ ~(s = z /\ HasBinding(z, h, o))
  <2>1. ASSUME Has(index, o, s, h)
        PROVE  Has(odict, o, s, h) /\ ~(s = z /\ HasBinding(z, h, o))
    <3>1. o \in DOMAIN odict /\ s \in DOMAIN odict[o] /\ h \in DOMAIN index[o][s]
      BY <2>1, <1>8, HasPath, <1>9, <1>7
    <3>2. index[o][s] = IF s # z THEN odict[o][s] ELSE left(o)
      BY <3>1, <1>9, <1>7
    <3>3. h \in DOMAIN odict[o][s] /\ ~(s = z /\ HasBinding(z, h, o))
      BY <3>1, <3>2, <1>5
    <3> QED BY <3>1, <3>3 DEF Has, At
  <2>2. ASSUME Has(odict, o, s, h), ~(s = z /\ HasBinding(z, h, o))
        PROVE  Has(index, o, s, h)
    <3>1. o \in DOMAIN odict /\ s \in DOMAIN odict[o] /\ h \in DOMAIN odict[o][s]
      BY <2>2, HasPath DEF DictsOK
    <3>2. index[o][s] = IF s # z THEN odict[o][s] ELSE left(o)
      BY <3>1, <1>9, <1>7
    <3>3. h \in DOMAIN index[o][s]
      BY <3>1, <3>2, <1>5, <2>2
    <3>4. o \in DOMAIN index /\ s \in DOMAIN index[o]
      BY <3>1, <1>7, <1>9
    <3> QED BY <3>3, <3>4 DEF Has, At
  <2> QED BY <2>1, <2>2
<1> QED BY <1>1, <1>8, <1>10

\* The second.
LEMMA SecondLoop ==
  ASSUME DictsOK, NEW z, NEW index
  PROVE  /\ UnsetAsObserver(z, index) \in Paths(Entity, HookName, Entity, Prefix)
         /\ \A s, h, o : Has(UnsetAsObserver(z, index), s, h, o) <=>
              Has(sdict, s, h, o) /\ ~(o = z /\ Has(index, z, s, h))
         /\ \A s, h, o : Has(UnsetAsObserver(z, index), s, h, o) =>
              At(At(UnsetAsObserver(z, index), s), h)[o] = At(At(sdict, s), h)[o]
<1> DEFINE left(s, h) == IF h \in Keys(At(At(index, z), s)) THEN Unset(sdict[s][h], z) ELSE sdict[s][h]
           hooks(s) == [h \in DOMAIN sdict[s] |-> left(s, h)]
           e == [s \in DOMAIN sdict |-> hooks(s)]
<1>1. e = UnsetAsObserver(z, index)
  BY DEF UnsetAsObserver
<1>2. ASSUME NEW s \in DOMAIN sdict
      PROVE  sdict[s] \in Dict(HookName, Dict(Entity, Prefix))
  BY DictIs DEF DictsOK, Paths
<1>3. ASSUME NEW s \in DOMAIN sdict, NEW h \in DOMAIN sdict[s]
      PROVE  left(s, h) \in Dict(Entity, Prefix)
  <2>1. sdict[s][h] \in Dict(Entity, Prefix)
    BY <1>2, DictIs
  <2>2. Unset(sdict[s][h], z) \in Dict(Entity, Prefix)
    BY <2>1, UnsetDict
  <2> QED BY <2>1, <2>2
<1>4. ASSUME NEW s, NEW h, NEW o
      PROVE  /\ o \in DOMAIN left(s, h) <=>
                  o \in DOMAIN sdict[s][h] /\ ~(o = z /\ Has(index, z, s, h))
             /\ o \in DOMAIN left(s, h) => left(s, h)[o] = sdict[s][h][o]
  <2>1. CASE Has(index, z, s, h)
    <3>1. left(s, h) = Unset(sdict[s][h], z)
      BY <2>1 DEF Has, Keys
    <3> HIDE DEF left
    <3> QED BY <2>1, <3>1 DEF Unset
  <2>2. CASE ~Has(index, z, s, h)
    <3>1. left(s, h) = sdict[s][h]
      BY <2>2 DEF Has, Keys
    <3> HIDE DEF left
    <3> QED BY <2>2, <3>1
  <2> QED BY <2>1, <2>2
<1> HIDE DEF left
<1>5. ASSUME NEW s \in DOMAIN sdict
      PROVE  hooks(s) \in Dict(HookName, Dict(Entity, Prefix))
  <2>1. \A h \in DOMAIN sdict[s] : hooks(s)[h] \in Dict(Entity, Prefix)
    BY <1>3
  <2>2. hooks(s) = [h \in DOMAIN sdict[s] |-> hooks(s)[h]]
    OBVIOUS
  <2>3. sdict[s] \in Dict(HookName, Dict(Entity, Prefix))
    BY <1>2
  <2> HIDE DEF hooks
  <2> QED BY <2>1, <2>2, <2>3, MapDict
<1>6. \A s : DOMAIN hooks(s) = DOMAIN sdict[s]
             /\ \A h \in DOMAIN sdict[s] : hooks(s)[h] = left(s, h)
  OBVIOUS
<1> HIDE DEF hooks
<1>7. e \in Paths(Entity, HookName, Entity, Prefix)
  <2>1. e = [s \in DOMAIN sdict |-> e[s]]
        /\ \A s \in DOMAIN sdict : e[s] \in Dict(HookName, Dict(Entity, Prefix))
    BY <1>5
  <2> HIDE DEF e
  <2> QED BY <2>1, MapDict DEF DictsOK, Paths
<1>8. DOMAIN e = DOMAIN sdict /\ \A s \in DOMAIN sdict : e[s] = hooks(s)
  OBVIOUS
<1> HIDE DEF e
<1>9. ASSUME NEW s, NEW h, NEW o, Has(e, s, h, o)
      PROVE  /\ Has(sdict, s, h, o) /\ ~(o = z /\ Has(index, z, s, h))
             /\ At(At(e, s), h)[o] = At(At(sdict, s), h)[o]
  <2>1. /\ s \in DOMAIN sdict /\ h \in DOMAIN sdict[s] /\ o \in DOMAIN e[s][h]
        /\ At(At(e, s), h) = e[s][h]
    BY <1>9, <1>7, HasPath, <1>8, <1>6
  <2>2. e[s][h] = left(s, h)
    BY <2>1, <1>8, <1>6
  <2>3. o \in DOMAIN sdict[s][h] /\ ~(o = z /\ Has(index, z, s, h)) /\ e[s][h][o] = sdict[s][h][o]
    BY <2>1, <2>2, <1>4
  <2>4. At(At(sdict, s), h) = sdict[s][h]
    BY <2>1 DEF At
  <2> QED BY <2>1, <2>3, <2>4 DEF Has
<1>10. ASSUME NEW s, NEW h, NEW o, Has(sdict, s, h, o), ~(o = z /\ Has(index, z, s, h))
       PROVE  Has(e, s, h, o)
  <2>1. s \in DOMAIN sdict /\ h \in DOMAIN sdict[s] /\ o \in DOMAIN sdict[s][h]
    BY <1>10, HasPath DEF DictsOK
  <2>2. e[s][h] = left(s, h) /\ s \in DOMAIN e /\ h \in DOMAIN e[s]
    BY <2>1, <1>8, <1>6
  <2>3. o \in DOMAIN e[s][h]
    BY <2>1, <2>2, <1>4, <1>10
  <2> QED BY <2>2, <2>3 DEF Has, At
<1> QED BY <1>1, <1>7, <1>9, <1>10

\* forget: the bindings of the object go, on either side of it, and no other.
LEMMA ForgetDicts ==
  ASSUME DictsOK, IndexAgrees, NEW z \in Entity, Forget(z)
  PROVE  /\ DictsOK'
         /\ \A x, y, w : HasBinding(x, y, w)' <=> HasBinding(x, y, w) /\ x # z /\ w # z
         /\ \A x, y, w : Indexed(w, x, y)' <=> Indexed(w, x, y) /\ x # z /\ w # z
         /\ \A x, y, w : BindingOf(x, y, w)' =
              IF HasBinding(x, y, w)' THEN BindingOf(x, y, w) ELSE Unbound
<1> DEFINE i == UnsetAsSubject(z)
           e == UnsetAsObserver(z, i)
<1>1. odict' = Unset(i, z) /\ sdict' = Unset(e, z)
  BY DEF Forget
<1>2. /\ i \in Paths(Entity, Entity, HookName, {1})
      /\ \A o, s, h : Has(i, o, s, h) <=> Has(odict, o, s, h) /\ ~(s = z /\ HasBinding(z, h, o))
  BY FirstLoop
<1>3. /\ e \in Paths(Entity, HookName, Entity, Prefix)
      /\ \A s, h, o : Has(e, s, h, o) <=> Has(sdict, s, h, o) /\ ~(o = z /\ Has(i, z, s, h))
      /\ \A s, h, o : Has(e, s, h, o) => At(At(e, s), h)[o] = At(At(sdict, s), h)[o]
  <2> HIDE DEF i
  <2> QED BY SecondLoop
<1> HIDE DEF i, e
<1>4. \A x, y, w : HasBinding(x, y, w) <=> Indexed(w, x, y)
  <2> SUFFICES ASSUME NEW x, NEW y, NEW w
               PROVE  HasBinding(x, y, w) <=> Indexed(w, x, y)
    OBVIOUS
  <2> QED BY BoundHas DEF IndexAgrees
<1>5. DictsOK'
  <2>1. sdict' \in Paths(Entity, HookName, Entity, Prefix)
    BY <1>1, <1>3, UnsetDict DEF Paths
  <2>2. odict' \in Paths(Entity, Entity, HookName, {1})
    BY <1>1, <1>2, UnsetDict DEF Paths
  <2> QED BY <2>1, <2>2 DEF DictsOK
<1>6. ASSUME NEW x, NEW y, NEW w
      PROVE  /\ Has(sdict', x, y, w) <=> x # z /\ Has(e, x, y, w)
             /\ x # z => At(sdict', x) = At(e, x)
  <2>1. At(sdict', x) = IF x = z THEN Empty ELSE At(e, x)
    BY <1>1, UnsetAt
  <2>2. At(Empty, y) = Empty /\ DOMAIN Empty = {}
    BY EmptyDict DEF At
  <2> QED BY <2>1, <2>2 DEF Has
<1>7. ASSUME NEW x, NEW y, NEW w
      PROVE  Has(odict', w, x, y) <=> w # z /\ Has(i, w, x, y)
  <2>1. At(odict', w) = IF w = z THEN Empty ELSE At(i, w)
    BY <1>1, UnsetAt
  <2>2. At(Empty, x) = Empty /\ DOMAIN Empty = {}
    BY EmptyDict DEF At
  <2> QED BY <2>1, <2>2 DEF Has
<1>8. ASSUME NEW x, NEW y, NEW w
      PROVE  /\ HasBinding(x, y, w) <=> Has(sdict, x, y, w)
             /\ Indexed(w, x, y) <=> Has(odict, w, x, y)
             /\ HasBinding(x, y, w)' <=> Has(sdict', x, y, w)
             /\ Indexed(w, x, y)' <=> Has(odict', w, x, y)
  BY DEF HasBinding, Indexed, Has, Keys
<1>9. ASSUME NEW x, NEW y, NEW w
      PROVE  HasBinding(x, y, w)' <=> HasBinding(x, y, w) /\ x # z /\ w # z
  BY <1>2, <1>3, <1>4, <1>6, <1>8
<1>10. ASSUME NEW x, NEW y, NEW w
       PROVE  Indexed(w, x, y)' <=> Indexed(w, x, y) /\ x # z /\ w # z
  BY <1>2, <1>4, <1>7, <1>8
<1>11. ASSUME NEW x, NEW y, NEW w
       PROVE  BindingOf(x, y, w)' = IF HasBinding(x, y, w)' THEN BindingOf(x, y, w) ELSE Unbound
  <2>1. HasBinding(x, y, w)' => HasBinding(x, y, w)
    BY <1>9
  <2>2. HasBinding(x, y, w)' => At(At(sdict', x), y)[w] = At(At(sdict, x), y)[w]
    BY <1>8, <1>6, <1>3
  <2> QED BY <2>1, <2>2, <1>5, KeptBindings DEF DictsOK
<1> QED BY <1>5, <1>9, <1>10, <1>11

---------------------------------------------------------------------------
(***************************************************************************)
(* The calls under way.                                                    *)
(***************************************************************************)

\* Every observer of its start is still to be looked at, called, or lost the
\* binding; who did not is bound, and is called or still to be looked at, unless
\* the loop was broken off.
GoodCall(c) ==
  /\ c.todo \cup c.called \subseteq c.first /\ c.todo \cap c.called = {}
  /\ ~c.broken => c.due \subseteq c.todo \cup c.called
  /\ c.phase = "trace" => c.todo = {}

DueAreBound(c) == \A o \in c.due : HasBinding(c.subject, c.hook, o)

CallsGood == \A i \in DOMAIN calls : GoodCall(calls[i]) /\ DueAreBound(calls[i])

\* The innermost call.
LEMMA TopIs ==
  ASSUME calls \in Seq(CallOf), calls # <<>>
  PROVE  Len(calls) \in DOMAIN calls /\ TopCall = calls[Len(calls)] /\ TopCall \in CallOf
BY DEF TopCall

\* The innermost call changes.
LEMMA TopChanges ==
  ASSUME calls \in Seq(CallOf), calls # <<>>, NEW c \in CallOf, calls' = WithTop(c)
  PROVE  /\ calls' \in Seq(CallOf) /\ Len(calls') = Len(calls) /\ DOMAIN calls' = DOMAIN calls
         /\ calls'[Len(calls)] = c
         /\ \A i \in DOMAIN calls : i # Len(calls) => calls'[i] = calls[i]
BY DEF WithTop

\* The innermost call returns.
LEMMA TopLeaves ==
  ASSUME calls \in Seq(CallOf), calls # <<>>, LeaveCall
  PROVE  /\ calls' \in Seq(CallOf) /\ Len(calls') = Len(calls) - 1
         /\ DOMAIN calls' \subseteq DOMAIN calls
         /\ \A i \in DOMAIN calls' : calls'[i] = calls[i]
<1> DEFINE n == Len(calls) - 1
<1>1. n \in Nat /\ Len(calls) = n + 1 /\ DOMAIN calls = 1 .. n + 1
  OBVIOUS
<1>2. calls' = SubSeq(calls, 1, n)
  BY DEF LeaveCall
<1> HIDE DEF n
<1>3. Len(calls') = n /\ DOMAIN calls' = 1 .. n
  BY <1>1, <1>2
<1>4. ASSUME NEW i \in 1 .. n
      PROVE  calls'[i] = calls[i] /\ i \in DOMAIN calls
  BY <1>1, <1>2
<1>5. calls' \in Seq(CallOf)
  BY <1>1, <1>2
<1>6. DOMAIN calls' \subseteq DOMAIN calls
  BY <1>1, <1>3
<1> QED BY <1>1, <1>3, <1>4, <1>5, <1>6

\* The calls while bindings are deleted: only what is due changes.
LEMMA DueChanges ==
  ASSUME calls \in Seq(CallOf), CallsGood, NEW D, \A i \in DOMAIN calls : D[i] \in SUBSET calls[i].due,
         calls' = [i \in DOMAIN calls |-> [calls[i] EXCEPT !.due = D[i]]]
  PROVE  /\ calls' \in Seq(CallOf) /\ Len(calls') = Len(calls) /\ DOMAIN calls' = DOMAIN calls
         /\ \A i \in DOMAIN calls : /\ GoodCall(calls'[i])
                                    /\ calls'[i].due = D[i] /\ calls'[i].phase = calls[i].phase
                                    /\ calls'[i].subject = calls[i].subject
                                    /\ calls'[i].hook = calls[i].hook
<1>1. DOMAIN calls' = DOMAIN calls /\ DOMAIN calls = 1 .. Len(calls) /\ Len(calls) \in Nat
  OBVIOUS
<1>2. ASSUME NEW i \in DOMAIN calls
      PROVE  /\ calls'[i] \in CallOf
             /\ calls'[i].due = D[i] /\ calls'[i].phase = calls[i].phase
             /\ calls'[i].subject = calls[i].subject /\ calls'[i].hook = calls[i].hook
             /\ calls'[i].todo = calls[i].todo /\ calls'[i].called = calls[i].called
             /\ calls'[i].first = calls[i].first /\ calls'[i].broken = calls[i].broken
  <2>1. calls[i] \in CallOf
    OBVIOUS
  <2>2. D[i] \in SUBSET calls[i].due
    OBVIOUS
  <2>3. calls'[i] = [calls[i] EXCEPT !.due = D[i]]
    OBVIOUS
  <2> QED BY <2>1, <2>2, <2>3 DEF CallOf
<1>3. calls' \in Seq(CallOf) /\ Len(calls') = Len(calls)
  <2>1. calls' = [i \in 1 .. Len(calls) |-> calls'[i]]
    BY <1>1
  <2>2. \A i \in 1 .. Len(calls) : calls'[i] \in CallOf
    BY <1>1, <1>2
  <2> HIDE DEF CallOf
  <2> QED BY <1>1, <2>1, <2>2
<1>4. ASSUME NEW i \in DOMAIN calls
      PROVE  GoodCall(calls'[i])
  <2>1. GoodCall(calls[i])
    BY DEF CallsGood
  <2> QED BY <2>1, <1>2 DEF GoodCall
<1> QED BY <1>1, <1>2, <1>3, <1>4

---------------------------------------------------------------------------
(***************************************************************************)
(* The inductive invariant.                                                *)
(***************************************************************************)

\* The shape of the rest of the state.
CallsOK == calls \in Seq(CallOf) /\ Len(calls) <= MaxHookDepth
CountsOK ==
  /\ counter \in 0 .. Len(AutoName)
  /\ handled \in BOOLEAN /\ traced \in BOOLEAN
  /\ hookEdits \in 0 .. MaxHookEdits

HookInv == DictsOK /\ CallsOK /\ CountsOK /\ IndexAgrees /\ CallsGood

LEMMA ShapeIs == HookTypeOK <=> DictsOK /\ CallsOK /\ CountsOK
BY DEF HookTypeOK, DictsOK, CallsOK, CountsOK, Paths, Dict

LEMMA InitInv == HookInit => HookInv
<1> SUFFICES ASSUME HookInit PROVE HookInv
  OBVIOUS
<1>1. DictsOK
  BY EmptyDict DEF HookInit, DictsOK, Paths
<1>2. CallsOK /\ CallsGood
  <2>1. calls = <<>> /\ calls \in Seq(CallOf) /\ Len(calls) = 0 /\ DOMAIN calls = {}
    BY DEF HookInit
  <2> QED BY <2>1, HookBoundAssumption DEF CallsOK, CallsGood
<1>4. CountsOK
  <2>1. 0 \in 0 .. Len(AutoName)
    BY AutoAssumption
  <2>2. 0 \in 0 .. MaxHookEdits
    BY HookBoundAssumption
  <2> QED BY <2>1, <2>2 DEF HookInit, CountsOK
<1>3. IndexAgrees
  BY DEF HookInit, IndexAgrees, HasBinding, Indexed, Keys, At, Empty
<1> QED BY <1>1, <1>2, <1>3, <1>4 DEF HookInv

\* An edit is counted.
LEMMA EditCounted ==
  ASSUME CountsOK, hookEdits < MaxHookEdits, hookEdits' = hookEdits + 1
  PROVE  hookEdits' \in 0 .. MaxHookEdits
BY HookBoundAssumption DEF CountsOK

\* What is due stays bound when nothing is deleted.
LEMMA BindInv ==
  ASSUME HookInv, NEW s \in Entity, NEW h \in HookName, NEW o \in Entity, NEW b \in Prefix,
         HookBind(s, h, o, b), counter' \in 0 .. Len(AutoName)
  PROVE  HookInv'
<1>1. /\ DictsOK'
      /\ \A x, y, z : HasBinding(x, y, z)' <=>
           (x = s /\ y = h /\ z = o) \/ HasBinding(x, y, z)
      /\ \A x, y, z : Indexed(z, x, y)' <=> (x = s /\ y = h /\ z = o) \/ Indexed(z, x, y)
  BY BindDicts DEF HookInv
<1>2. IndexAgrees'
  BY <1>1 DEF HookInv, IndexAgrees
<1>3. UNCHANGED <<handled, traced, calls>> /\ hookEdits' \in 0 .. MaxHookEdits
  BY EditCounted DEF HookBind, HookInv
<1>4. CallsOK' /\ CountsOK'
  BY <1>3 DEF HookInv, CallsOK, CountsOK
<1>5. CallsGood'
  BY <1>1, <1>3 DEF HookInv, CallsGood, GoodCall, DueAreBound
<1> QED BY <1>1, <1>2, <1>4, <1>5 DEF HookInv

LEMMA BindAutoInv ==
  ASSUME HookInv, NEW s \in Entity, NEW h \in HookName, NEW b \in Prefix, BindAuto(s, h, b)
  PROVE  /\ HookInv' /\ AutoName[counter + 1] \in Entity
         /\ HookBind(s, h, AutoName[counter + 1], b)
<1>1. counter \in 0 .. Len(AutoName) /\ counter < Len(AutoName) /\ counter' = counter + 1
  BY DEF BindAuto, HookInv, CountsOK
<1>2. AutoName[counter + 1] \in Entity /\ counter' \in 0 .. Len(AutoName)
  BY <1>1, AutoAssumption
<1>3. HookBind(s, h, AutoName[counter + 1], b)
  BY DEF BindAuto
<1> QED BY <1>2, <1>3, BindInv

\* Bindings are deleted, and no longer due.
LEMMA LessDue ==
  ASSUME HookInv, NEW D, \A i \in DOMAIN calls : D[i] \in SUBSET calls[i].due,
         calls' = [i \in DOMAIN calls |-> [calls[i] EXCEPT !.due = D[i]]],
         \A i \in DOMAIN calls : \A o \in D[i] : Has(sdict', calls[i].subject, calls[i].hook, o)
  PROVE  CallsOK' /\ CallsGood'
<1>1. /\ calls' \in Seq(CallOf) /\ Len(calls') = Len(calls) /\ DOMAIN calls' = DOMAIN calls
      /\ \A i \in DOMAIN calls : /\ GoodCall(calls'[i])
                                 /\ calls'[i].due = D[i]
                                 /\ calls'[i].subject = calls[i].subject
                                 /\ calls'[i].hook = calls[i].hook
  BY DueChanges DEF HookInv, CallsOK
<1>2. CallsOK'
  BY <1>1 DEF HookInv, CallsOK
<1>3. ASSUME NEW i \in DOMAIN calls
      PROVE  GoodCall(calls'[i]) /\ DueAreBound(calls[i])'
  <2>1. \A o \in calls'[i].due : Has(sdict', calls'[i].subject, calls'[i].hook, o)
    BY <1>1
  <2>2. DueAreBound(calls[i])'
    BY <2>1 DEF DueAreBound, HasBinding, Has, Keys
  <2> QED BY <1>1, <2>2
<1> QED BY <1>1, <1>2, <1>3 DEF CallsGood

LEMMA DeleteInv ==
  ASSUME HookInv, NEW s \in Entity, NEW h \in HookName, NEW o \in Entity, Delete(s, h, o)
  PROVE  HookInv'
<1>1. /\ DictsOK'
      /\ \A x, y, z : HasBinding(x, y, z)' <=>
           HasBinding(x, y, z) /\ ~(x = s /\ y = h /\ z = o)
      /\ \A x, y, z : Indexed(z, x, y)' <=>
           Indexed(z, x, y) /\ ~(x = s /\ y = h /\ z = o)
  BY DeleteDicts DEF HookInv
<1>2. IndexAgrees'
  BY <1>1 DEF HookInv, IndexAgrees
<1>3. UNCHANGED <<counter, handled, traced>> /\ hookEdits' \in 0 .. MaxHookEdits
  BY EditCounted DEF Delete, HookInv
<1>4. CountsOK'
  BY <1>3 DEF HookInv, CountsOK
<1> DEFINE D == [i \in DOMAIN calls |->
                   IF calls[i].subject = s /\ calls[i].hook = h THEN calls[i].due \ {o}
                   ELSE calls[i].due]
<1>5. calls' = [i \in DOMAIN calls |-> [calls[i] EXCEPT !.due = D[i]]]
  <2>1. ASSUME NEW i \in DOMAIN calls
        PROVE  (IF calls[i].subject = s /\ calls[i].hook = h
                  THEN [calls[i] EXCEPT !.due = @ \ {o}] ELSE calls[i])
                 = [calls[i] EXCEPT !.due = D[i]]
    <3>1. calls[i] \in CallOf
      BY DEF HookInv, CallsOK
    <3>2. D[i] = IF calls[i].subject = s /\ calls[i].hook = h THEN calls[i].due \ {o}
                 ELSE calls[i].due
      OBVIOUS
    <3> HIDE DEF D
    <3>3. CASE calls[i].subject = s /\ calls[i].hook = h
      BY <3>2, <3>3
    <3>4. CASE ~(calls[i].subject = s /\ calls[i].hook = h)
      BY <3>1, <3>2, <3>4 DEF CallOf
    <3> QED BY <3>3, <3>4
  <2> QED BY <2>1 DEF Delete, Deleting
<1>6. \A i \in DOMAIN calls : D[i] \in SUBSET calls[i].due
  OBVIOUS
<1>7. ASSUME NEW i \in DOMAIN calls, NEW p \in D[i]
      PROVE  Has(sdict', calls[i].subject, calls[i].hook, p)
  <2>1. p \in calls[i].due
    BY <1>6
  <2>2. HasBinding(calls[i].subject, calls[i].hook, p)
    BY <2>1 DEF HookInv, CallsGood, DueAreBound
  <2>3. ~(calls[i].subject = s /\ calls[i].hook = h /\ p = o)
    OBVIOUS
  <2>4. \A x, y, w : Has(sdict', x, y, w) <=> HasBinding(x, y, w)'
    BY DEF HasBinding, Has, Keys
  <2> QED BY <2>2, <2>3, <2>4, <1>1
<1>8. CallsOK' /\ CallsGood'
  <2> HIDE DEF D
  <2> QED BY <1>5, <1>6, <1>7, LessDue
<1> QED BY <1>1, <1>2, <1>4, <1>8 DEF HookInv

LEMMA ForgetInv ==
  ASSUME HookInv, NEW z \in Entity, Forget(z)
  PROVE  HookInv'
<1>1. /\ DictsOK'
      /\ \A x, y, w : HasBinding(x, y, w)' <=> HasBinding(x, y, w) /\ x # z /\ w # z
      /\ \A x, y, w : Indexed(w, x, y)' <=> Indexed(w, x, y) /\ x # z /\ w # z
  BY ForgetDicts DEF HookInv
<1>2. IndexAgrees'
  BY <1>1 DEF HookInv, IndexAgrees
<1>3. UNCHANGED <<counter, handled, traced>> /\ hookEdits' \in 0 .. MaxHookEdits
  BY EditCounted DEF Forget, HookInv
<1>4. CountsOK'
  BY <1>3 DEF HookInv, CountsOK
<1> DEFINE D == [i \in DOMAIN calls |->
                   IF calls[i].subject = z THEN {} ELSE calls[i].due \ {z}]
<1>5. calls' = [i \in DOMAIN calls |-> [calls[i] EXCEPT !.due = D[i]]]
  BY DEF Forget
<1>6. \A i \in DOMAIN calls : D[i] \in SUBSET calls[i].due
  OBVIOUS
<1>7. ASSUME NEW i \in DOMAIN calls, NEW p \in D[i]
      PROVE  Has(sdict', calls[i].subject, calls[i].hook, p)
  <2>1. p \in calls[i].due
    BY <1>6
  <2>2. HasBinding(calls[i].subject, calls[i].hook, p)
    BY <2>1 DEF HookInv, CallsGood, DueAreBound
  <2>3. calls[i].subject # z /\ p # z
    OBVIOUS
  <2>4. \A x, y, w : Has(sdict', x, y, w) <=> HasBinding(x, y, w)'
    BY DEF HasBinding, Has, Keys
  <2> QED BY <2>2, <2>3, <2>4, <1>1
<1>8. CallsOK' /\ CallsGood'
  <2> HIDE DEF D
  <2> QED BY <1>5, <1>6, <1>7, LessDue
<1> QED BY <1>1, <1>2, <1>4, <1>8 DEF HookInv

\* Steps that leave the dictionaries and the counters as they are.
LEMMA OnlyCalls ==
  ASSUME HookInv, UNCHANGED <<sdict, odict, counter, handled, traced, hookEdits>>,
         calls' \in Seq(CallOf), Len(calls') <= MaxHookDepth,
         \A i \in DOMAIN calls' : GoodCall(calls'[i]) /\ DueAreBound(calls'[i])
  PROVE  HookInv'
<1>1. DictsOK' /\ IndexAgrees'
  BY DEF HookInv, DictsOK, IndexAgrees, HasBinding, Indexed
<1>2. CountsOK' /\ CallsOK'
  BY DEF HookInv, CountsOK, CallsOK
<1>3. CallsGood'
  BY DEF CallsGood, DueAreBound, HasBinding
<1> QED BY <1>1, <1>2, <1>3 DEF HookInv

\* Only the innermost call changes.
LEMMA TopInv ==
  ASSUME HookInv, UNCHANGED <<sdict, odict, counter, handled, traced, hookEdits>>,
         calls # <<>>, NEW c \in CallOf, calls' = WithTop(c), GoodCall(c), DueAreBound(c)
  PROVE  HookInv'
<1>1. /\ calls' \in Seq(CallOf) /\ Len(calls') = Len(calls) /\ DOMAIN calls' = DOMAIN calls
      /\ calls'[Len(calls)] = c
      /\ \A i \in DOMAIN calls : i # Len(calls) => calls'[i] = calls[i]
  BY TopChanges DEF HookInv, CallsOK
<1>2. ASSUME NEW i \in DOMAIN calls'
      PROVE  GoodCall(calls'[i]) /\ DueAreBound(calls'[i])
  <2>1. CASE i = Len(calls)
    BY <1>1, <2>1
  <2>2. CASE i # Len(calls)
    BY <1>1, <2>2 DEF HookInv, CallsGood
  <2> QED BY <2>1, <2>2
<1>3. Len(calls') <= MaxHookDepth
  BY <1>1 DEF HookInv, CallsOK
<1> QED BY <1>1, <1>2, <1>3, OnlyCalls

LEMMA LeaveInv ==
  ASSUME HookInv, UNCHANGED <<sdict, odict, counter, handled, traced, hookEdits>>,
         calls # <<>>, LeaveCall
  PROVE  HookInv'
<1>1. /\ calls' \in Seq(CallOf) /\ Len(calls') = Len(calls) - 1
      /\ DOMAIN calls' \subseteq DOMAIN calls
      /\ \A i \in DOMAIN calls' : calls'[i] = calls[i]
  BY TopLeaves DEF HookInv, CallsOK
<1>2. Len(calls') <= MaxHookDepth
  <2>1. Len(calls) \in Nat /\ Len(calls) <= MaxHookDepth
    BY DEF HookInv, CallsOK
  <2> QED BY <2>1, <1>1, HookBoundAssumption
<1>3. \A i \in DOMAIN calls' : GoodCall(calls'[i]) /\ DueAreBound(calls'[i])
  BY <1>1 DEF HookInv, CallsGood
<1> QED BY <1>1, <1>2, <1>3, OnlyCalls

LEMMA CallInv ==
  ASSUME HookInv, NEW s \in Entity, NEW h \in HookName, Call(s, h)
  PROVE  HookInv'
<1> DEFINE O == Keys(At(At(sdict, s), h))
           c == [subject |-> s, hook |-> h, todo |-> O, called |-> {}, phase |-> "loop",
                 current |-> Nobody, prefix |-> Unbound, caught |-> FALSE,
                 first |-> O, due |-> O, broken |-> FALSE]
<1>1. \A o \in O : HasBinding(s, h, o) /\ o \in Entity
  <2>1. \A o \in O : HasBinding(s, h, o)
    BY DEF HasBinding
  <2> QED BY <2>1, BoundHas DEF HookInv
<1> HIDE DEF O
<1>2. c \in CallOf
  BY <1>1 DEF CallOf, Phase
<1>3. GoodCall(c) /\ DueAreBound(c)
  BY <1>1 DEF GoodCall, DueAreBound
<1>4. calls' = Append(calls, c) /\ Len(calls) < MaxHookDepth
      /\ UNCHANGED <<sdict, odict, counter, handled, traced, hookEdits>>
  BY DEF Call, O
<1> HIDE DEF c
<1>5. calls \in Seq(CallOf) /\ Len(calls) \in Nat
  BY DEF HookInv, CallsOK
<1>6. calls' \in Seq(CallOf) /\ Len(calls') = Len(calls) + 1
  BY <1>2, <1>4, <1>5
<1>7. Len(calls') <= MaxHookDepth
  BY <1>4, <1>5, <1>6, HookBoundAssumption
<1>8. ASSUME NEW i \in DOMAIN calls'
      PROVE  GoodCall(calls'[i]) /\ DueAreBound(calls'[i])
  <2>1. CASE i = Len(calls) + 1
    BY <2>1, <1>3, <1>4, <1>5
  <2>2. CASE i # Len(calls) + 1
    <3>1. i \in DOMAIN calls /\ calls'[i] = calls[i]
      BY <2>2, <1>4, <1>5, <1>6
    <3> QED BY <3>1 DEF HookInv, CallsGood
  <2> QED BY <2>1, <2>2
<1> QED BY <1>4, <1>6, <1>7, <1>8, OnlyCalls

\* What the loop makes of its call when it looks at an observer.
LEMMA NextCall ==
  ASSUME HookInv, NEW o \in Entity, NextObserver(o)
  PROVE  /\ calls # <<>> /\ TopCall \in CallOf /\ GoodCall(TopCall) /\ DueAreBound(TopCall)
         /\ o \in TopCall.todo /\ TopCall.phase = "loop"
         /\ UNCHANGED <<sdict, odict, counter, handled, traced, hookEdits>>
         /\ \/ /\ HasBinding(TopCall.subject, TopCall.hook, o)
               /\ calls' = WithTop(
                    [TopCall EXCEPT !.todo = @ \ {o}, !.called = @ \cup {o}, !.phase = "binding",
                          !.current = o, !.prefix = BindingOf(TopCall.subject, TopCall.hook, o),
                          !.caught = handled])
            \/ /\ ~HasBinding(TopCall.subject, TopCall.hook, o)
               /\ calls' = WithTop([TopCall EXCEPT !.todo = @ \ {o}])
<1>1. calls # <<>> /\ calls \in Seq(CallOf)
  BY DEF NextObserver, Looping, HookInv, CallsOK
<1>2. TopCall \in CallOf /\ GoodCall(TopCall) /\ DueAreBound(TopCall)
  BY <1>1, TopIs DEF HookInv, CallsGood
<1>3. o \in TopCall.todo /\ TopCall.phase = "loop"
  BY DEF NextObserver, Looping
<1> QED BY <1>1, <1>2, <1>3 DEF NextObserver, StillBound

LEMMA NextInv ==
  ASSUME HookInv, NEW o \in Entity, NextObserver(o)
  PROVE  HookInv'
<1> DEFINE s == TopCall.subject
           h == TopCall.hook
           p == BindingOf(s, h, o)
           c == [TopCall EXCEPT !.todo = @ \ {o}, !.called = @ \cup {o}, !.phase = "binding",
                          !.current = o, !.prefix = p, !.caught = handled]
           d == [TopCall EXCEPT !.todo = @ \ {o}]
<1>1. calls # <<>> /\ TopCall \in CallOf /\ GoodCall(TopCall) /\ DueAreBound(TopCall)
  BY NextCall
<1>2. o \in TopCall.todo /\ TopCall.phase = "loop"
  BY NextCall
<1>3. UNCHANGED <<sdict, odict, counter, handled, traced, hookEdits>>
  BY NextCall
<1>4. handled \in BOOLEAN
  BY DEF HookInv, CountsOK
<1>5. CASE HasBinding(s, h, o)
  <2>1. p \in Prefix
    BY <1>5, BoundHas DEF HookInv
  <2>2. calls' = WithTop(c)
    BY <1>5, NextCall
  <2> HIDE DEF p
  <2>3. c \in CallOf
    BY <1>1, <1>4, <2>1 DEF CallOf, Phase
  <2>4. /\ c.todo = TopCall.todo \ {o} /\ c.called = TopCall.called \cup {o}
        /\ c.first = TopCall.first /\ c.due = TopCall.due /\ c.phase = "binding"
        /\ c.subject = s /\ c.hook = h /\ c.broken = TopCall.broken
    BY <1>1 DEF CallOf
  <2> HIDE DEF c
  <2>5. GoodCall(c) /\ DueAreBound(c)
    BY <2>4, <1>1, <1>2 DEF GoodCall, DueAreBound
  <2> QED BY <2>2, <2>3, <2>5, <1>1, <1>3, TopInv
<1>6. CASE ~HasBinding(s, h, o)
  <2>1. calls' = WithTop(d)
    BY <1>6, NextCall
  <2>2. d \in CallOf
    BY <1>1 DEF CallOf
  <2>3. /\ d.todo = TopCall.todo \ {o} /\ d.called = TopCall.called
        /\ d.first = TopCall.first /\ d.due = TopCall.due /\ d.phase = "loop"
        /\ d.subject = s /\ d.hook = h /\ d.broken = TopCall.broken
    BY <1>1, <1>2 DEF CallOf
  <2>4. o \notin TopCall.due
    BY <1>1, <1>6 DEF DueAreBound
  <2> HIDE DEF d
  <2>5. GoodCall(d) /\ DueAreBound(d)
    BY <2>3, <2>4, <1>1, <1>2 DEF GoodCall, DueAreBound
  <2> QED BY <2>1, <2>2, <2>5, <1>1, <1>3, TopInv
<1> QED BY <1>5, <1>6

LEMMA LoopEndsInv ==
  ASSUME HookInv, LoopEnds
  PROVE  HookInv'
<1>1. calls # <<>> /\ calls \in Seq(CallOf) /\ TopCall.todo = {} /\ TopCall.phase = "loop"
      /\ UNCHANGED <<sdict, odict, counter, handled, traced, hookEdits>>
  BY DEF LoopEnds, Looping, HookInv, CallsOK
<1>2. TopCall \in CallOf /\ GoodCall(TopCall) /\ DueAreBound(TopCall)
  BY <1>1, TopIs DEF HookInv, CallsGood
<1>3. CASE traced
  <2> DEFINE c == [TopCall EXCEPT !.phase = "trace"]
  <2>1. calls' = WithTop(c)
    BY <1>3 DEF LoopEnds
  <2>2. c \in CallOf
    BY <1>2 DEF CallOf, Phase
  <2>3. /\ c.todo = TopCall.todo /\ c.called = TopCall.called /\ c.first = TopCall.first
        /\ c.due = TopCall.due /\ c.subject = TopCall.subject /\ c.hook = TopCall.hook
        /\ c.broken = TopCall.broken
    BY <1>2 DEF CallOf
  <2> HIDE DEF c
  <2>4. GoodCall(c) /\ DueAreBound(c)
    BY <2>3, <1>1, <1>2 DEF GoodCall, DueAreBound
  <2> QED BY <2>1, <2>2, <2>4, <1>1, TopInv
<1>4. CASE ~traced
  <2>1. LeaveCall
    BY <1>4 DEF LoopEnds
  <2> QED BY <2>1, <1>1, LeaveInv
<1> QED BY <1>3, <1>4

LEMMA ScriptReturnsInv ==
  ASSUME HookInv, ScriptReturns
  PROVE  HookInv'
<1>1. calls # <<>> /\ calls \in Seq(CallOf)
      /\ UNCHANGED <<sdict, odict, counter, handled, traced, hookEdits>>
  BY DEF ScriptReturns, HookInv, CallsOK
<1>2. TopCall \in CallOf /\ GoodCall(TopCall) /\ DueAreBound(TopCall)
  BY <1>1, TopIs DEF HookInv, CallsGood
<1>3. CASE TopCall.phase = "trace"
  <2>1. LeaveCall
    BY <1>3 DEF ScriptReturns
  <2> QED BY <2>1, <1>1, LeaveInv
<1>4. CASE TopCall.phase # "trace"
  <2>1. calls' = WithTop(Back)
    BY <1>4 DEF ScriptReturns
  <2>2. Back \in CallOf
    BY <1>2 DEF Back, CallOf, Phase
  <2>3. /\ Back.todo = TopCall.todo /\ Back.called = TopCall.called /\ Back.first = TopCall.first
        /\ Back.due = TopCall.due /\ Back.subject = TopCall.subject /\ Back.hook = TopCall.hook
        /\ Back.phase = "loop" /\ Back.broken = TopCall.broken
    BY <1>2 DEF Back, CallOf
  <2>4. GoodCall(Back) /\ DueAreBound(Back)
    BY <2>3, <1>1, <1>2 DEF GoodCall, DueAreBound
  <2> QED BY <2>1, <2>2, <2>4, <1>1, TopInv
<1> QED BY <1>3, <1>4

\* What becomes of a call whose script ends with a code of its own: it is left, or
\* goes on with the -errorcommand, with its loop, or behind it.
LEMMA FailsHow ==
  ASSUME HookInv, NEW code, ScriptFails(code)
  PROVE  /\ calls # <<>> /\ calls \in Seq(CallOf) /\ TopCall.phase # "loop"
         /\ UNCHANGED <<sdict, odict, counter, handled, traced, hookEdits>>
         /\ \/ LeaveCall
            \/ /\ TopCall.phase \in {"binding", "error"}
               /\ \E c \in CallOf : /\ calls' = WithTop(c) /\ c.phase \in {"error", "loop"}
                                   /\ GoodCall(c) /\ DueAreBound(c)
<1>1. calls # <<>> /\ calls \in Seq(CallOf) /\ TopCall.phase # "loop"
      /\ UNCHANGED <<sdict, odict, counter, handled, traced, hookEdits>>
  BY DEF ScriptFails, HookInv, CallsOK
<1>2. TopCall \in CallOf /\ GoodCall(TopCall) /\ DueAreBound(TopCall)
  BY <1>1, TopIs DEF HookInv, CallsGood
<1> DEFINE e == [TopCall EXCEPT !.phase = "error"]
<1>3. \/ Handles /\ calls' = WithTop(e)
      \/ InLoop /\ calls' = WithTop(Back)
      \/ InLoop /\ calls' = WithTop(BrokenOff)
      \/ LeaveCall
  BY DEF ScriptFails
<1>4. CASE Handles /\ calls' = WithTop(e)
  <2>1. e \in CallOf
    BY <1>2 DEF CallOf, Phase
  <2>2. /\ e.todo = TopCall.todo /\ e.called = TopCall.called /\ e.first = TopCall.first
        /\ e.due = TopCall.due /\ e.subject = TopCall.subject /\ e.hook = TopCall.hook
        /\ e.phase = "error" /\ e.broken = TopCall.broken
    BY <1>2 DEF CallOf
  <2>3. TopCall.phase = "binding"
    BY <1>4 DEF Handles
  <2> HIDE DEF e
  <2>4. GoodCall(e) /\ DueAreBound(e)
    BY <2>2, <1>2 DEF GoodCall, DueAreBound
  <2> QED BY <1>1, <1>4, <2>1, <2>2, <2>3, <2>4
<1>5. CASE InLoop /\ calls' = WithTop(Back)
  <2>1. Back \in CallOf
    BY <1>2 DEF Back, CallOf, Phase
  <2>2. /\ Back.todo = TopCall.todo /\ Back.called = TopCall.called /\ Back.first = TopCall.first
        /\ Back.due = TopCall.due /\ Back.subject = TopCall.subject /\ Back.hook = TopCall.hook
        /\ Back.phase = "loop" /\ Back.broken = TopCall.broken
    BY <1>2 DEF Back, CallOf
  <2>3. GoodCall(Back) /\ DueAreBound(Back)
    BY <2>2, <1>2 DEF GoodCall, DueAreBound
  <2>4. TopCall.phase \in {"binding", "error"}
    BY <1>5 DEF InLoop
  <2> QED BY <1>1, <1>5, <2>1, <2>2, <2>3, <2>4
<1>6. CASE InLoop /\ calls' = WithTop(BrokenOff)
  <2>1. BrokenOff \in CallOf
    BY <1>2 DEF BrokenOff, Back, CallOf, Phase
  <2>2. /\ BrokenOff.todo = {} /\ BrokenOff.called = TopCall.called
        /\ BrokenOff.first = TopCall.first /\ BrokenOff.due = TopCall.due
        /\ BrokenOff.subject = TopCall.subject /\ BrokenOff.hook = TopCall.hook
        /\ BrokenOff.phase = "loop" /\ BrokenOff.broken = TRUE
    BY <1>2 DEF BrokenOff, Back, CallOf
  <2>3. GoodCall(BrokenOff) /\ DueAreBound(BrokenOff)
    BY <2>2, <1>2 DEF GoodCall, DueAreBound
  <2>4. TopCall.phase \in {"binding", "error"}
    BY <1>6 DEF InLoop
  <2> QED BY <1>1, <1>6, <2>1, <2>2, <2>3, <2>4
<1> QED BY <1>1, <1>3, <1>4, <1>5, <1>6

LEMMA ScriptFailsInv ==
  ASSUME HookInv, NEW code, ScriptFails(code)
  PROVE  HookInv'
<1>1. calls # <<>> /\ UNCHANGED <<sdict, odict, counter, handled, traced, hookEdits>>
  BY FailsHow
<1>2. CASE LeaveCall
  BY <1>1, <1>2, LeaveInv
<1>3. CASE ~LeaveCall
  <2>1. PICK c \in CallOf : calls' = WithTop(c) /\ GoodCall(c) /\ DueAreBound(c)
    BY <1>3, FailsHow
  <2> QED BY <1>1, <2>1, TopInv
<1> QED BY <1>2, <1>3

LEMMA ConfigureInv ==
  ASSUME HookInv, NEW e \in BOOLEAN, NEW t \in BOOLEAN, Configure(e, t)
  PROVE  HookInv'
<1>1. UNCHANGED <<sdict, odict, counter, calls>> /\ handled' = e /\ traced' = t
      /\ hookEdits' \in 0 .. MaxHookEdits
  BY EditCounted DEF Configure, HookInv
<1>2. DictsOK' /\ IndexAgrees'
  BY <1>1 DEF HookInv, DictsOK, IndexAgrees, HasBinding, Indexed
<1>3. CountsOK' /\ CallsOK'
  BY <1>1 DEF HookInv, CountsOK, CallsOK
<1>4. CallsGood'
  BY <1>1 DEF HookInv, CallsGood, DueAreBound, HasBinding
<1> QED BY <1>2, <1>3, <1>4 DEF HookInv

\* Every step keeps the invariant.
LEMMA StepInv ==
  ASSUME HookInv, [HookNext]_hVars
  PROVE  HookInv'
<1>1. ASSUME NEW s \in Entity, NEW h \in HookName, Call(s, h)
      PROVE  HookInv'
  BY <1>1, CallInv
<1>2. ASSUME NEW s \in Entity, NEW h \in HookName, NEW b \in Prefix, BindAuto(s, h, b)
      PROVE  HookInv'
  BY <1>2, BindAutoInv
<1>3. ASSUME NEW s \in Entity, NEW h \in HookName, NEW o \in Entity, Delete(s, h, o)
      PROVE  HookInv'
  BY <1>3, DeleteInv
<1>4. ASSUME NEW s \in Entity, NEW h \in HookName, NEW o \in Entity, NEW b \in Prefix,
             BindNamed(s, h, o, b)
      PROVE  HookInv'
  <2>1. HookBind(s, h, o, b) /\ counter' \in 0 .. Len(AutoName)
    BY <1>4 DEF BindNamed, HookInv, CountsOK
  <2> QED BY <2>1, BindInv
<1>5. ASSUME NEW z \in Entity, Forget(z) \/ NextObserver(z)
      PROVE  HookInv'
  BY <1>5, ForgetInv, NextInv
<1>6. ASSUME NEW e \in BOOLEAN, NEW t \in BOOLEAN, Configure(e, t)
      PROVE  HookInv'
  BY <1>6, ConfigureInv
<1>7. CASE LoopEnds \/ ScriptReturns \/ \E code \in Exceptional : ScriptFails(code)
  BY <1>7, LoopEndsInv, ScriptReturnsInv, ScriptFailsInv
<1>8. CASE UNCHANGED hVars
  BY <1>8 DEF hVars, HookInv, DictsOK, CallsOK, CountsOK, IndexAgrees, CallsGood, DueAreBound,
              HasBinding, Indexed
<1> QED BY <1>1, <1>2, <1>3, <1>4, <1>5, <1>6, <1>7, <1>8 DEF HookNext

LEMMA HookInvAlways == HookSpec => []HookInv
<1>1. HookInit => HookInv
  BY InitInv
<1>2. HookInv /\ [HookNext]_hVars => HookInv'
  BY StepInv
<1> QED BY <1>1, <1>2, PTL DEF HookSpec

\* The state keeps its shape: the two dictionaries, the calls under way, for any
\* entities, hooks and prefixes, and any depth of calls.
THEOREM HookTypeCorrect == HookSpec => []HookTypeOK
<1>1. HookInv => HookTypeOK
  BY ShapeIs DEF HookInv
<1> QED BY <1>1, HookInvAlways, PTL

\* The dictionary of the subjects and that of the observers know the same
\* bindings, after any calls of bind and forget, in and out of hooks: forget
\* finds all it has to delete, by an index that its first loop has changed.
THEOREM IndexAlwaysAgrees == HookSpec => []IndexAgrees
<1>1. HookInv => IndexAgrees
  BY DEF HookInv
<1> QED BY <1>1, HookInvAlways, PTL

---------------------------------------------------------------------------
(***************************************************************************)
(* One table of bindings.                                                  *)
(***************************************************************************)

\* The table as it is read from the two dictionaries.
TableNow == [x \in Entity \X HookName \X Entity |-> BindingOf(x[1], x[2], x[3])]

LEMMA TableInit == HookInit => Table!Init
<1> SUFFICES ASSUME HookInit PROVE Table!Init
  OBVIOUS
<1>1. \A x : BindingOf(x[1], x[2], x[3]) = Unbound
  BY DEF HookInit, BindingOf, HasBinding, Keys, At, Empty
<1> QED BY <1>1 DEF Table!Init, Table!Slot

\* bind sets one entry.
LEMMA BindIsBind ==
  ASSUME DictsOK, NEW s \in Entity, NEW h \in HookName, NEW o \in Entity, NEW b \in Prefix,
         HookBind(s, h, o, b)
  PROVE  Table!Bind
<1>1. /\ BindingOf(s, h, o)' = b
      /\ \A x, y, z : ~(x = s /\ y = h /\ z = o) => BindingOf(x, y, z)' = BindingOf(x, y, z)
  BY BindDicts
<1> DEFINE at == <<s, h, o>>
<1>2. at \in Entity \X HookName \X Entity
  OBVIOUS
<1>3. ASSUME NEW x \in Entity \X HookName \X Entity
      PROVE  BindingOf(x[1], x[2], x[3])' = IF x = at THEN b ELSE BindingOf(x[1], x[2], x[3])
  <2>1. x = <<x[1], x[2], x[3]>>
    OBVIOUS
  <2>2. x = at <=> x[1] = s /\ x[2] = h /\ x[3] = o
    BY <2>1
  <2>3. CASE x = at
    BY <2>2, <2>3, <1>1
  <2>4. CASE x # at
    BY <2>2, <2>4, <1>1
  <2> QED BY <2>3, <2>4
<1>4. TableNow' = [TableNow EXCEPT ![at] = b]
  <2> HIDE DEF at
  <2> QED BY <1>2, <1>3 DEF TableNow
<1> QED BY <1>2, <1>4 DEF Table!Bind, Table!Slot, TableNow

\* bind with an empty prefix unsets one.
LEMMA DeleteIsBind ==
  ASSUME DictsOK, NEW s \in Entity, NEW h \in HookName, NEW o \in Entity, Delete(s, h, o)
  PROVE  Table!Bind
<1> DEFINE at == <<s, h, o>>
<1>1. at \in Entity \X HookName \X Entity
  OBVIOUS
<1>2. ASSUME NEW x \in Entity \X HookName \X Entity
      PROVE  BindingOf(x[1], x[2], x[3])' =
               IF x = at THEN Unbound ELSE BindingOf(x[1], x[2], x[3])
  <2>1. x = <<x[1], x[2], x[3]>>
    OBVIOUS
  <2>2. x = at <=> x[1] = s /\ x[2] = h /\ x[3] = o
    BY <2>1
  <2>3. HasBinding(x[1], x[2], x[3])' <=> HasBinding(x[1], x[2], x[3]) /\ x # at
    BY <2>2, DeleteDicts
  <2>4. BindingOf(x[1], x[2], x[3])' =
          IF HasBinding(x[1], x[2], x[3])' THEN BindingOf(x[1], x[2], x[3]) ELSE Unbound
    BY DeleteDicts
  <2>5. ~HasBinding(x[1], x[2], x[3]) => BindingOf(x[1], x[2], x[3]) = Unbound
    BY DEF BindingOf
  <2> QED BY <2>3, <2>4, <2>5
<1>3. TableNow' = [TableNow EXCEPT ![at] = Unbound]
  <2> HIDE DEF at
  <2> QED BY <1>1, <1>2 DEF TableNow
<1> QED BY <1>1, <1>3 DEF Table!Bind, Table!Slot, TableNow

\* forget unsets all of an object.
LEMMA ForgetIsForget ==
  ASSUME DictsOK, IndexAgrees, NEW z \in Entity, Forget(z)
  PROVE  Table!Forget
<1>1. ASSUME NEW x \in Entity \X HookName \X Entity
      PROVE  BindingOf(x[1], x[2], x[3])' =
               IF z \in {x[1], x[3]} THEN Unbound ELSE BindingOf(x[1], x[2], x[3])
  <2>1. HasBinding(x[1], x[2], x[3])' <=>
          HasBinding(x[1], x[2], x[3]) /\ x[1] # z /\ x[3] # z
    BY ForgetDicts
  <2>2. BindingOf(x[1], x[2], x[3])' =
          IF HasBinding(x[1], x[2], x[3])' THEN BindingOf(x[1], x[2], x[3]) ELSE Unbound
    BY ForgetDicts
  <2>3. ~HasBinding(x[1], x[2], x[3]) => BindingOf(x[1], x[2], x[3]) = Unbound
    BY DEF BindingOf
  <2> QED BY <2>1, <2>2, <2>3
<1>2. TableNow' = [x \in Entity \X HookName \X Entity |->
                     IF z \in {x[1], x[3]} THEN Unbound ELSE TableNow[x]]
  BY <1>1 DEF TableNow
<1>3. TableNow' = [x \in Entity \X HookName \X Entity |->
                     IF z \in {x[1], x[3]} THEN Unbound ELSE BindingOf(x[1], x[2], x[3])]
  BY <1>1 DEF TableNow
<1> QED BY <1>2 DEF Table!Forget, Table!Slot, TableNow

\* Every step of the package is one of the table, or leaves it alone.
LEMMA StepIsOfTable ==
  ASSUME HookInv, [HookNext]_hVars
  PROVE  [Table!Bind \/ Table!Forget]_TableNow
<1>1. ASSUME UNCHANGED sdict
      PROVE  UNCHANGED TableNow
  BY <1>1 DEF TableNow, BindingOf, HasBinding
<1>2. ASSUME NEW s \in Entity, NEW h \in HookName, Call(s, h)
      PROVE  UNCHANGED sdict
  BY <1>2 DEF Call
<1>3. ASSUME NEW s \in Entity, NEW h \in HookName, NEW b \in Prefix, BindAuto(s, h, b)
      PROVE  Table!Bind
  BY <1>3, BindAutoInv, BindIsBind DEF HookInv
<1>4. ASSUME NEW s \in Entity, NEW h \in HookName, NEW o \in Entity, Delete(s, h, o)
      PROVE  Table!Bind
  BY <1>4, DeleteIsBind DEF HookInv
<1>5. ASSUME NEW s \in Entity, NEW h \in HookName, NEW o \in Entity, NEW b \in Prefix,
             BindNamed(s, h, o, b)
      PROVE  Table!Bind
  BY <1>5, BindIsBind DEF HookInv, BindNamed
<1>6. ASSUME NEW z \in Entity, Forget(z)
      PROVE  Table!Forget
  BY <1>6, ForgetIsForget DEF HookInv
<1>7. ASSUME NEW z \in Entity, NextObserver(z)
      PROVE  UNCHANGED sdict
  BY <1>7 DEF NextObserver
<1>8. ASSUME NEW e \in BOOLEAN, NEW t \in BOOLEAN, Configure(e, t)
      PROVE  UNCHANGED sdict
  BY <1>8 DEF Configure
<1>9. CASE \/ LoopEnds \/ ScriptReturns \/ UNCHANGED hVars
           \/ \E code \in Exceptional : ScriptFails(code)
  BY <1>1, <1>9 DEF LoopEnds, ScriptReturns, ScriptFails, hVars
<1> QED BY <1>1, <1>2, <1>3, <1>4, <1>5, <1>6, <1>7, <1>8, <1>9 DEF HookNext

\* The commands keep one table of bindings: bind creates, updates or deletes one
\* entry, forget deletes those of an object, and nothing else changes it, although
\* two dictionaries hold it and one is searched by means of the other.
THEOREM BindingsAreOneTable == HookSpec => TableSpec
<1>1. HookInit => Table!Init
  BY TableInit
<1>2. HookInv /\ [HookNext]_hVars => [Table!Bind \/ Table!Forget]_TableNow
  BY StepIsOfTable
<1>3. HookSpec => Table!Init /\ [][Table!Bind \/ Table!Forget]_TableNow
  BY <1>1, <1>2, HookInvAlways, PTL DEF HookSpec
<1> QED BY <1>3, PTL DEF TableSpec, Table!Spec, TableNow

---------------------------------------------------------------------------
(***************************************************************************)
(* Who is called.                                                          *)
(***************************************************************************)

\* The innermost call changes, in another way than by beginning a binding.
LEMMA NotBegun ==
  ASSUME calls \in Seq(CallOf), calls # <<>>, NEW c \in CallOf, calls' = WithTop(c),
         c.phase # "binding", NEW i \in DOMAIN calls, calls[i].phase = "loop"
  PROVE  calls'[i].phase # "binding"
<1>1. CASE i = Len(calls)
  BY <1>1, TopChanges
<1>2. CASE i # Len(calls)
  <2>1. calls'[i] = calls[i]
    BY <1>2, TopChanges
  <2> QED BY <2>1
<1> QED BY <1>1, <1>2

\* Only the loop begins a binding.
LEMMA LoopBegins ==
  ASSUME HookInv, [HookNext]_hVars,
         NEW i \in DOMAIN calls \cap DOMAIN calls',
         calls[i].phase = "loop", calls'[i].phase = "binding"
  PROVE  \E o \in Entity : NextObserver(o)
<1>1. calls \in Seq(CallOf)
  BY DEF HookInv, CallsOK
<1>2. ASSUME NEW s \in Entity, NEW h \in HookName, Call(s, h)
      PROVE  FALSE
  <2>1. PICK c : calls' = Append(calls, c)
    BY <1>2 DEF Call
  <2>2. calls'[i] = calls[i]
    BY <2>1, <1>1
  <2> QED BY <2>2
<1>3. ASSUME NEW s \in Entity, NEW h \in HookName, NEW b \in Prefix,
             BindAuto(s, h, b) \/ \E o \in Entity : BindNamed(s, h, o, b)
      PROVE  FALSE
  <2>1. calls' = calls
    BY <1>3 DEF BindAuto, BindNamed, HookBind
  <2> QED BY <2>1
<1>5. ASSUME NEW s \in Entity, NEW h \in HookName, NEW o \in Entity, Delete(s, h, o)
      PROVE  FALSE
  <2>1. calls'[i] = IF calls[i].subject = s /\ calls[i].hook = h
                      THEN [calls[i] EXCEPT !.due = @ \ {o}] ELSE calls[i]
    BY <1>5 DEF Delete, Deleting
  <2>2. calls[i] \in CallOf
    BY <1>1
  <2>3. calls'[i].phase = calls[i].phase
    BY <2>1, <2>2 DEF CallOf
  <2> QED BY <2>3
<1>6. ASSUME NEW z \in Entity, Forget(z)
      PROVE  FALSE
  <2>1. calls'[i] = [calls[i] EXCEPT !.due = IF calls[i].subject = z THEN {} ELSE @ \ {z}]
    BY <1>6 DEF Forget
  <2>2. calls[i] \in CallOf
    BY <1>1
  <2>3. calls'[i].phase = calls[i].phase
    BY <2>1, <2>2 DEF CallOf
  <2> QED BY <2>3
<1>7. ASSUME calls # <<>>, LeaveCall
      PROVE  FALSE
  <2>1. calls'[i] = calls[i]
    BY <1>1, <1>7, TopLeaves
  <2> QED BY <2>1
<1>8. CASE LoopEnds
  <2>1. calls # <<>>
    BY <1>8 DEF LoopEnds, Looping
  <2>2. CASE traced
    <3>1. calls' = WithTop([TopCall EXCEPT !.phase = "trace"])
      BY <1>8, <2>2 DEF LoopEnds
    <3>2. TopCall \in CallOf
      BY <1>1, <2>1, TopIs
    <3>3. /\ [TopCall EXCEPT !.phase = "trace"] \in CallOf
          /\ [TopCall EXCEPT !.phase = "trace"].phase # "binding"
      BY <3>2 DEF CallOf, Phase
    <3> QED BY <1>1, <2>1, <3>1, <3>3, NotBegun
  <2>3. CASE ~traced
    BY <1>7, <1>8, <2>1, <2>3 DEF LoopEnds
  <2> QED BY <2>2, <2>3
<1>9. CASE ScriptReturns
  <2>1. calls # <<>>
    BY <1>9 DEF ScriptReturns
  <2>2. CASE TopCall.phase = "trace"
    BY <1>7, <1>9, <2>1, <2>2 DEF ScriptReturns
  <2>3. CASE TopCall.phase # "trace"
    <3>1. calls' = WithTop(Back)
      BY <1>9, <2>3 DEF ScriptReturns
    <3>2. TopCall \in CallOf
      BY <1>1, <2>1, TopIs
    <3>3. Back \in CallOf /\ Back.phase # "binding"
      BY <3>2 DEF Back, CallOf, Phase
    <3> QED BY <1>1, <2>1, <3>1, <3>3, NotBegun
  <2> QED BY <2>2, <2>3
<1>10. ASSUME NEW code, ScriptFails(code)
       PROVE  FALSE
  <2>1. calls # <<>>
    BY <1>10, FailsHow
  <2>2. CASE LeaveCall
    BY <1>7, <2>1, <2>2
  <2>3. CASE ~LeaveCall
    <3>1. PICK c \in CallOf : calls' = WithTop(c) /\ c.phase \in {"error", "loop"}
      BY <1>10, <2>3, FailsHow
    <3> QED BY <1>1, <2>1, <3>1, NotBegun
  <2> QED BY <2>2, <2>3
<1>11. CASE (\E e, t \in BOOLEAN : Configure(e, t)) \/ UNCHANGED hVars
  <2>1. calls' = calls
    BY <1>11 DEF Configure, hVars
  <2> QED BY <2>1
<1> QED BY <1>2, <1>3, <1>5, <1>6, <1>8, <1>9, <1>10, <1>11 DEF HookNext

\* The observer that is called was one at the start, was not called, and is
\* called with what is bound.
LEMMA StepRules ==
  ASSUME HookInv, [HookNext]_hVars,
         NEW i \in DOMAIN calls \cap DOMAIN calls',
         calls[i].phase = "loop", calls'[i].phase = "binding"
  PROVE  /\ calls'[i].current \in calls'[i].first \ calls[i].called
         /\ calls'[i].prefix = BindingOf(calls'[i].subject, calls'[i].hook, calls'[i].current)
         /\ calls'[i].prefix # Unbound
<1>1. PICK o \in Entity : NextObserver(o)
  BY LoopBegins
<1> DEFINE s == TopCall.subject
           h == TopCall.hook
           p == BindingOf(s, h, o)
           c == [TopCall EXCEPT !.todo = @ \ {o}, !.called = @ \cup {o}, !.phase = "binding",
                          !.current = o, !.prefix = p, !.caught = handled]
           d == [TopCall EXCEPT !.todo = @ \ {o}]
<1>2. calls # <<>> /\ TopCall \in CallOf /\ GoodCall(TopCall)
  BY <1>1, NextCall
<1>3. o \in TopCall.todo /\ TopCall.phase = "loop"
  BY <1>1, NextCall
<1>4. calls \in Seq(CallOf) /\ handled \in BOOLEAN
  BY DEF HookInv, CallsOK, CountsOK
<1>5. HasBinding(s, h, o)
  <2> SUFFICES ASSUME ~HasBinding(s, h, o) PROVE FALSE
    OBVIOUS
  <2>1. calls' = WithTop(d)
    BY <1>1, NextCall
  <2>2. d \in CallOf /\ d.phase # "binding"
    BY <1>2, <1>3 DEF CallOf
  <2> HIDE DEF d
  <2> QED BY <1>2, <1>4, <2>1, <2>2, NotBegun
<1>6. p \in Prefix
  BY <1>5, BoundHas DEF HookInv
<1>7. calls' = WithTop(c)
  BY <1>1, <1>5, NextCall
<1> HIDE DEF p
<1>8. /\ c \in CallOf /\ c.current = o /\ c.prefix = p /\ c.first = TopCall.first
      /\ c.subject = s /\ c.hook = h
  BY <1>2, <1>4, <1>6 DEF CallOf, Phase
<1> HIDE DEF c
<1>9. i = Len(calls)
  <2> SUFFICES ASSUME i # Len(calls) PROVE FALSE
    OBVIOUS
  <2>1. calls'[i] = calls[i]
    BY <1>2, <1>4, <1>7, <1>8, TopChanges
  <2> QED BY <2>1
<1>10. calls'[i] = c /\ calls[i] = TopCall
  BY <1>2, <1>4, <1>7, <1>8, <1>9, TopChanges, TopIs
<1>11. o \in TopCall.first \ TopCall.called
  BY <1>2, <1>3 DEF GoodCall
<1>12. p = BindingOf(s, h, o) /\ p # Unbound
  BY <1>6, HookNoneAssumption DEF p
<1> QED BY <1>8, <1>10, <1>11, <1>12

\* The rules for bindings that change during a call: "the most recently given
\* command prefix is always used", and nobody is called who was not bound when
\* the call began, was called before, or is not bound any more.
THEOREM CallsFollowRules == HookSpec => CallRules
<1> DEFINE Rule == \A i \in DOMAIN calls \cap DOMAIN calls' :
             calls[i].phase = "loop" /\ calls'[i].phase = "binding" =>
               LET c == calls'[i]
               IN /\ c.current \in c.first \ calls[i].called
                  /\ c.prefix = BindingOf(c.subject, c.hook, c.current) /\ c.prefix # Unbound
<1>1. HookInv /\ [HookNext]_hVars => [Rule]_hVars
  BY StepRules
<1> QED BY <1>1, HookInvAlways, PTL DEF HookSpec, CallRules

\* The calls get fewer.
LEMMA StepCalls ==
  ASSUME HookInv, [HookNext]_hVars, Len(calls') < Len(calls),
         TopCall.phase \in {"loop", "trace"}, ~TopCall.broken
  PROVE  TopCall.due \subseteq TopCall.called
<1>1. calls \in Seq(CallOf) /\ Len(calls) \in Nat
  BY DEF HookInv, CallsOK
<1>2. calls # <<>>
  <2> SUFFICES ASSUME calls = <<>> PROVE FALSE
    OBVIOUS
  <2>1. Len(calls) = 0 /\ calls' \in Seq(CallOf)
    BY StepInv DEF HookInv, CallsOK
  <2> QED BY <2>1
<1>3. TopCall \in CallOf /\ GoodCall(TopCall)
  BY <1>1, <1>2, TopIs DEF HookInv, CallsGood
<1>4. SUFFICES TopCall.todo = {}
  BY <1>3 DEF GoodCall
<1>5. CASE TopCall.phase = "trace"
  BY <1>3, <1>5 DEF GoodCall
<1>6. ASSUME NEW c, calls' = WithTop(c)
      PROVE  FALSE
  BY <1>1, <1>2, <1>6 DEF WithTop
<1>7. ASSUME UNCHANGED calls
      PROVE  FALSE
  BY <1>1, <1>7
<1>8. CASE \E s \in Entity, h \in HookName : Call(s, h)
  <2>1. PICK c : calls' = Append(calls, c)
    BY <1>8 DEF Call
  <2> QED BY <2>1, <1>1
<1>9. ASSUME NEW s \in Entity, NEW h \in HookName, NEW b \in Prefix,
             BindAuto(s, h, b) \/ \E o \in Entity : BindNamed(s, h, o, b)
      PROVE  FALSE
  BY <1>7, <1>9 DEF BindAuto, BindNamed, HookBind
<1>10. ASSUME NEW s \in Entity, NEW h \in HookName, NEW o \in Entity, Delete(s, h, o)
       PROVE  FALSE
  <2>1. DOMAIN calls' = DOMAIN calls
    BY <1>10 DEF Delete, Deleting
  <2>2. calls' \in Seq(CallOf)
    BY StepInv DEF HookInv, CallsOK
  <2> QED BY <1>1, <2>1, <2>2
<1>11. ASSUME NEW z \in Entity, Forget(z)
       PROVE  FALSE
  <2>1. DOMAIN calls' = DOMAIN calls
    BY <1>11 DEF Forget
  <2>2. calls' \in Seq(CallOf)
    BY StepInv DEF HookInv, CallsOK
  <2> QED BY <1>1, <2>1, <2>2
<1>12. ASSUME NEW z \in Entity, NextObserver(z)
       PROVE  FALSE
  BY <1>6, <1>12, NextCall
<1>13. CASE (\E e, t \in BOOLEAN : Configure(e, t)) \/ UNCHANGED hVars
  BY <1>7, <1>13 DEF Configure, hVars
<1>14. CASE LoopEnds
  BY <1>14 DEF LoopEnds
<1>15. CASE ScriptReturns
  BY <1>5, <1>6, <1>15 DEF ScriptReturns
<1>16. ASSUME NEW code, ScriptFails(code)
       PROVE  TopCall.todo = {}
  <2>1. TopCall.phase # "loop"
    BY <1>16, FailsHow
  <2> QED BY <1>5, <2>1
<1> QED BY <1>8, <1>9, <1>10, <1>11, <1>12, <1>13, <1>14, <1>15, <1>16 DEF HookNext

\* A call that comes to the end of its loop, where no script broke the loop off,
\* has called every observer of its start that lost no binding since.
THEOREM EveryoneAlwaysCalled == HookSpec => EveryoneIsCalled
<1>1. HookInv /\ [HookNext]_hVars =>
        [/\ Len(calls') < Len(calls) /\ TopCall.phase \in {"loop", "trace"}
         /\ ~TopCall.broken
         => TopCall.due \subseteq TopCall.called]_hVars
  BY StepCalls
<1> QED BY <1>1, HookInvAlways, PTL DEF HookSpec, EveryoneIsCalled
=============================================================================

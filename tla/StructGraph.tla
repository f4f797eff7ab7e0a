---------------------------- MODULE StructGraph ----------------------------
(***************************************************************************)
(* The graph objects of struct::graph in C (modules/struct/graph/methods.c *)
(* and objcmd.c): the methods, over the store of nodes and arcs, and the   *)
(* commands a program gives to two graphs.                                 *)
(***************************************************************************)
EXTENDS GraphFilter

CONSTANTS Key, Item,   \* attributes; a value is a list of items
          Weight,      \* weights
          Serials,     \* serializations the program has
          MaxEdits,    \* bound: changes since a serialization was read
          MaxCopies,   \* bound: copies since then
          MaxLive,     \* bound: nodes of both graphs when one is edited
          Defects      \* calls the code gets wrong that the program makes

ASSUME GraphAssumption == /\ {MaxEdits, MaxCopies, MaxLive} \subseteq Nat
                          /\ Defects \subseteq {"copyChain", "lastReference"}

\* What a program may have read: lists of the form that is asked for, or not.
Dictionaries == {Malformed} \cup Seq([key : Key, value : Seq(Item)])
SerialArcs   == {Malformed} \cup [name : ArcName, ref : Int, attr : Dictionaries,
                                  weight : Weight \cup {NoWeight}]
SerialNodes  == [name : NodeName, attr : Dictionaries, arcs : Seq(SerialArcs)]

ASSUME SerialsAssumption ==
  Serials \subseteq {Malformed} \cup [nodes : Seq(SerialNodes), attr : Dictionaries]

VARIABLES h,      \* the store
          alive,  \* graphs the program has
          edits,  \* changes since a serialization was read
          copies, \* copies since then
          copied  \* history: graphs that dup copied since their nodes were made

gVars == <<h, alive, edits, copies, copied>>

-----------------------------------------------------------------------------
(* Methods that change a graph: the store after them *)

\* The attributes of a node, an arc, of neither, and of the graph.
AttrOf(s, c)      == IF c = 0 THEN NoAttr ELSE s.attr[c]
SetAttr(s, c, at) == IF c = 0 THEN s ELSE [s EXCEPT !.attr[c] = at]

gm_node_SET(s, g, x, k, v)     == LET n == gn_get_node(s, g, x)
                                  IN  SetAttr(s, n, g_attr_set(AttrOf(s, n), k, v))
gm_node_UNSET(s, g, x, k)      == LET n == gn_get_node(s, g, x)
                                  IN  SetAttr(s, n, g_attr_unset(AttrOf(s, n), k))
gm_node_APPEND(s, g, x, k, v)  == LET n == gn_get_node(s, g, x)
                                  IN  SetAttr(s, n, g_attr_append(AttrOf(s, n), k, v))
gm_node_LAPPEND(s, g, x, k, i) == LET n == gn_get_node(s, g, x)
                                  IN  SetAttr(s, n, g_attr_lappend(AttrOf(s, n), k, i))
gm_arc_SET(s, g, x, k, v)      == LET a == ga_get_arc(s, g, x)
                                  IN  SetAttr(s, a, g_attr_set(AttrOf(s, a), k, v))
gm_arc_UNSET(s, g, x, k)       == LET a == ga_get_arc(s, g, x)
                                  IN  SetAttr(s, a, g_attr_unset(AttrOf(s, a), k))
gm_arc_APPEND(s, g, x, k, v)   == LET a == ga_get_arc(s, g, x)
                                  IN  SetAttr(s, a, g_attr_append(AttrOf(s, a), k, v))
gm_arc_LAPPEND(s, g, x, k, i)  == LET a == ga_get_arc(s, g, x)
                                  IN  SetAttr(s, a, g_attr_lappend(AttrOf(s, a), k, i))
gm_SET(s, g, k, v)     == [s EXCEPT !.gattr[g] = g_attr_set(@, k, v)]
gm_UNSET(s, g, k)      == [s EXCEPT !.gattr[g] = g_attr_unset(@, k)]
gm_APPEND(s, g, k, v)  == [s EXCEPT !.gattr[g] = g_attr_append(@, k, v)]
gm_LAPPEND(s, g, k, i) == [s EXCEPT !.gattr[g] = g_attr_lappend(@, k, i)]

\* No name: one is made up.
gm_node_INSERT(s, g, names) ==
  IF names = <<>>
  THEN LET made == g_newnodename(s, g)
       IN  gn_new(made, g, Generated.nodes[made.counter[g].nodes])
  ELSE IF ~ IsInjective(names) \/ \E x \in ToSet(names) : gn_get_node(s, g, x) /= 0 THEN s
  ELSE FoldLeft(LAMBDA r, x : gn_new(r, g, x), s, names)

\* All names are looked at before anything goes; a name given twice is an error.
AllThere(s, g, k, names) == /\ IsInjective(names)
                            /\ \A x \in ToSet(names) : Found(s, g, k, x) /= 0
gm_node_DELETE(s, g, names) ==
  IF AllThere(s, g, "nodes", names)
  THEN FoldLeft(LAMBDA r, x : gn_delete(r, gn_get_node(r, g, x)), s, names) ELSE s
gm_arc_DELETE(s, g, names) ==
  IF AllThere(s, g, "arcs", names)
  THEN FoldLeft(LAMBDA r, x : ga_delete(r, ga_get_arc(r, g, x)), s, names) ELSE s

gm_node_RENAME(s, g, x, y) ==
  IF gn_get_node(s, g, x) = 0 \/ gn_get_node(s, g, y) /= 0 THEN s
  ELSE gc_rename(s, gn_get_node(s, g, x), "nodes", y)
gm_arc_RENAME(s, g, x, y) ==
  IF ga_get_arc(s, g, x) = 0 \/ ga_get_arc(s, g, y) /= 0 THEN s
  ELSE gc_rename(s, ga_get_arc(s, g, x), "arcs", y)

\* The two nodes change names, attributes and entries in the table.
gm_SWAP(s, g, x, y) ==
  LET m == gn_get_node(s, g, x)
      n == gn_get_node(s, g, y)
  IN  IF m = 0 \/ n = 0 \/ m = n THEN s
      ELSE [s EXCEPT !.name = [@ EXCEPT ![m] = y, ![n] = x],
                     !.attr = [@ EXCEPT ![m] = s.attr[n], ![n] = s.attr[m]],
                     !.map[g].nodes = [@ EXCEPT ![x] = n, ![y] = m]]

\* No name: one is made up.
gm_arc_INSERT(s, g, x, y, names) ==
  LET src  == gn_get_node(s, g, x)
      dst  == gn_get_node(s, g, y)
      made == g_newarcname(s, g)
  IN  IF src = 0 \/ dst = 0 THEN s
      ELSE IF names = <<>> THEN ga_new(made, g, Generated.arcs[made.counter[g].arcs], src, dst)
      ELSE IF ga_get_arc(s, g, names[1]) /= 0 THEN s
      ELSE ga_new(s, g, names[1], src, dst)

\* Mutant: the interlinks of the nodes stay.
MoveSrcOnly(s, g, x, y) ==
  LET a == ga_get_arc(s, g, x)
      n == gn_get_node(s, g, y)
  IN  IF a = 0 \/ n = 0 THEN s ELSE [s EXCEPT !.start[a] = n]

gm_arc_MOVE_SRC(s, g, x, y) ==
  LET a == ga_get_arc(s, g, x)
      n == gn_get_node(s, g, y)
  IN  IF a = 0 \/ n = 0 THEN s ELSE ga_mv_src(s, a, n)
gm_arc_MOVE_TARG(s, g, x, y) ==
  LET a == ga_get_arc(s, g, x)
      n == gn_get_node(s, g, y)
  IN  IF a = 0 \/ n = 0 THEN s ELSE ga_mv_dst(s, a, n)
gm_arc_MOVE(s, g, x, y, z) ==
  LET a == ga_get_arc(s, g, x)
      m == gn_get_node(s, g, y)
      n == gn_get_node(s, g, z)
  IN  IF a = 0 \/ m = 0 \/ n = 0 THEN s ELSE ga_mv_dst(ga_mv_src(s, a, m), a, n)
\* Mutant: the source is read after it was moved.
FlipReadsLate(s, g, x) ==
  LET a == ga_get_arc(s, g, x)
      r == ga_mv_src(s, a, s.end[a])
  IN  IF a = 0 THEN s ELSE ga_mv_dst(r, a, r.start[a])

gm_arc_FLIP(s, g, x) ==
  LET a == ga_get_arc(s, g, x)
  IN  IF a = 0 THEN s
      ELSE IF s.start[a] = s.end[a] THEN s
      ELSE ga_mv_dst(ga_mv_src(s, a, s.end[a]), a, s.start[a])

gm_arc_SETWEIGHT(s, g, x, w) ==
  LET a == ga_get_arc(s, g, x) IN IF a = 0 THEN s ELSE [s EXCEPT !.weight[a] = w]
gm_arc_UNSETWEIGH(s, g, x) == gm_arc_SETWEIGHT(s, g, x, NoWeight)
gm_arc_SETUNWEIGH(s, g, w) ==
  [s EXCEPT !.weight = [a \in GA |-> IF a \in ToSet(Chain(s, g, "arcs")) /\ @[a] = NoWeight
                                     THEN w ELSE @[a]]]

gm_GASSIGN(s, g, src, own)  == g_ms_assign(s, g, src, own)
gm_GSET(s, g, dst, own)     == g_ms_set(s, g, dst, own)
gm_DESERIALIZE(s, g, serial) == g_deserialize(s, g, serial)

-----------------------------------------------------------------------------
(* Methods that only answer *)

gm_ARCS(s, g, words)      == gc_filter(s, g, "arcs", words)
gm_NODES(s, g, words)     == gc_filter(s, g, "nodes", words)
gm_SERIALIZE(s, g, names) == LET serial == g_ms_serialize(s, g, names)
                             IN  IF serial = Malformed THEN None ELSE Ok(serial)

\* An answer about the node x, the arc x.
OfNode(s, g, x, value) == IF gn_get_node(s, g, x) = 0 THEN None ELSE Ok(value)
OfArc(s, g, x, value)  == IF ga_get_arc(s, g, x) = 0 THEN None ELSE Ok(value)
TheNode(s, g, x) == s.map[g].nodes[x]
TheArc(s, g, x)  == s.map[g].arcs[x]
g_attr_get(at, k) == IF k \in DOMAIN at THEN Ok(at[k]) ELSE None

gm_node_EXISTS(s, g, x) == gn_get_node(s, g, x) /= 0
gm_arc_EXISTS(s, g, x)  == ga_get_arc(s, g, x) /= 0

gm_node_GET(s, g, x, k)       == g_attr_get(AttrOf(s, gn_get_node(s, g, x)), k)
gm_node_GETALL(s, g, x, m)    == OfNode(s, g, x, g_attr_getall(s.attr[TheNode(s, g, x)], m))
gm_node_KEYS(s, g, x, m)      == OfNode(s, g, x, g_attr_keys(s.attr[TheNode(s, g, x)], m))
gm_node_KEYEXISTS(s, g, x, k) == OfNode(s, g, x, g_attr_kexists(s.attr[TheNode(s, g, x)], k))
gm_arc_GET(s, g, x, k)        == g_attr_get(AttrOf(s, ga_get_arc(s, g, x)), k)
gm_arc_GETALL(s, g, x, m)     == OfArc(s, g, x, g_attr_getall(s.attr[TheArc(s, g, x)], m))
gm_arc_KEYS(s, g, x, m)       == OfArc(s, g, x, g_attr_keys(s.attr[TheArc(s, g, x)], m))
gm_arc_KEYEXISTS(s, g, x, k)  == OfArc(s, g, x, g_attr_kexists(s.attr[TheArc(s, g, x)], k))
gm_GET(s, g, k)       == g_attr_get(s.gattr[g], k)
gm_GETALL(s, g, m)    == g_attr_getall(s.gattr[g], m)
gm_KEYS(s, g, m)      == g_attr_keys(s.gattr[g], m)
gm_KEYEXISTS(s, g, k) == g_attr_kexists(s.gattr[g], k)

gm_node_ATTR(s, g, k, match) == gc_attr(s, g, "nodes", match, k)
gm_arc_ATTR(s, g, k, match)  == gc_attr(s, g, "arcs", match, k)

gm_node_DEGREE(s, g, x, way) ==
  OfNode(s, g, x, LET n == TheNode(s, g, x)
                  IN  CASE way = "-in"  -> Len(s.in[n])
                        [] way = "-out" -> Len(s.out[n])
                        [] way = ""     -> Len(s.in[n]) + Len(s.out[n]))
gm_node_OPPOSITE(s, g, x, y) ==
  LET n == gn_get_node(s, g, x)
      a == ga_get_arc(s, g, y)
  IN  IF n = 0 \/ a = 0 THEN None
      ELSE IF s.start[a] = n THEN Ok(s.name[s.end[a]])
      ELSE IF s.end[a] = n THEN Ok(s.name[s.start[a]])
      ELSE None

gm_arc_SOURCE(s, g, x) == OfArc(s, g, x, s.name[s.start[TheArc(s, g, x)]])
gm_arc_TARGET(s, g, x) == OfArc(s, g, x, s.name[s.end[TheArc(s, g, x)]])
gm_arc_NODES(s, g, x)  == OfArc(s, g, x, <<s.name[s.start[TheArc(s, g, x)]],
                                           s.name[s.end[TheArc(s, g, x)]]>>)

gm_arc_HASWEIGHT(s, g, x) == OfArc(s, g, x, s.weight[TheArc(s, g, x)] /= NoWeight)
gm_arc_GETWEIGHT(s, g, x) ==
  LET a == ga_get_arc(s, g, x)
  IN  IF a = 0 THEN None ELSE IF s.weight[a] = NoWeight THEN None ELSE Ok(s.weight[a])
gm_arc_GETUNWEIGH(s, g) ==
  LET as == SelectSeq(Chain(s, g, "arcs"), LAMBDA a : s.weight[a] = NoWeight)
  IN  [i \in DOMAIN as |-> s.name[as[i]]]
gm_arc_WEIGHTS(s, g) ==
  LET as == SelectSeq(Chain(s, g, "arcs"), LAMBDA a : s.weight[a] /= NoWeight)
  IN  [i \in DOMAIN as |-> [name |-> s.name[as[i]], weight |-> s.weight[as[i]]]]

-----------------------------------------------------------------------------
(* The commands of the program *)

\* A node whose `prev` is not the node before it, as dup leaves one, must not go:
\* removing it would write to the node that `prev` is.
InPlace(s, g, n) == LET c == Chain(s, g, "nodes")
                    IN  \A i \in DOMAIN c : c[i] = n => s.prev[n] = IF i = 1 THEN 0 ELSE c[i - 1]
MayDelete(s, g, names) ==
  "copyChain" \notin Defects =>
    \A x \in ToSet(names) : gn_get_node(s, g, x) /= 0 => InPlace(s, g, gn_get_node(s, g, x))

\* A reference to the graph attributes passes for one to a node.
MayRead(serial) ==
  "lastReference" \notin Defects /\ serial /= Malformed =>
    \A e \in ToSet(ArcsIn(serial)) : e.arc /= Malformed => e.arc.ref /= Length(serial) - 1

Count(s, g, k) == Len(Chain(s, g, k))
NodeLists == {<<>>} \cup {<<x>> : x \in NodeName} \cup {<<x, y>> : x, y \in NodeName}
ArcLists  == {<<x>> : x \in ArcName} \cup {<<x, y>> : x, y \in ArcName}
Value     == {<<>>} \cup {<<i>> : i \in Item}
CanGenerate(s, g, k) == NextNumber(s, g, k) <= Len(Generated[k])

GraphInit == h = Store /\ alive = {} /\ edits = 0 /\ copies = 0 /\ copied = {}

\* The nodes of g are new in s, unless the input was refused; g takes a copy of src,
\* that dup makes for a graph of this package, own, and a serialization for others.
Afresh(s, g) == IF s = h THEN copied ELSE copied \ {g}
CopiedBy(s, src, g, own) == IF own THEN (copied \cup {src}) \ {g} ELSE Afresh(s, g)

gms_new(g) == /\ g \notin alive /\ g - 1 \in alive \cup {0}
              /\ alive' = alive \cup {g}
              /\ h' = g_new(h, g)
              /\ copied' = copied \ {g}
              /\ UNCHANGED <<edits, copies>>

gm_DESTROY(g) == /\ g \in alive
                 /\ h' = g_delete(h, g)
                 /\ alive' = alive \ {g}
                 /\ copied' = copied \ {g}
                 /\ UNCHANGED <<edits, copies>>

CanEdit(g) == /\ g \in alive /\ edits < MaxEdits
              /\ Count(h, 1, "nodes") + Count(h, 2, "nodes") <= MaxLive

\* The store becomes s.
Becomes(s) == h' = s /\ edits' = edits + 1 /\ UNCHANGED <<alive, copies, copied>>

EditNodes(g) ==
  /\ CanEdit(g)
  /\ \/ \E xs \in NodeLists : /\ HasRoom(h, "nodes", Max({1, Len(xs)}))
                              /\ xs = <<>> => CanGenerate(h, g, "nodes")
                              /\ Becomes(gm_node_INSERT(h, g, xs))
     \/ \E xs \in NodeLists \ {<<>>} : MayDelete(h, g, xs) /\ Becomes(gm_node_DELETE(h, g, xs))
     \/ \E x, y \in NodeName : \/ Becomes(gm_node_RENAME(h, g, x, y))
                               \/ Becomes(gm_SWAP(h, g, x, y))

EditArcs(g) ==
  /\ CanEdit(g)
  /\ \/ \E x, y \in NodeName, as \in {<<>>} \cup ArcLists :
          /\ Len(as) <= 1 /\ HasRoom(h, "arcs", 1)
          /\ as = <<>> => CanGenerate(h, g, "arcs")
          /\ Becomes(gm_arc_INSERT(h, g, x, y, as))
     \/ \E as \in ArcLists : Becomes(gm_arc_DELETE(h, g, as))
     \/ \E a, b \in ArcName : Becomes(gm_arc_RENAME(h, g, a, b))
     \/ \E a \in ArcName : Becomes(gm_arc_FLIP(h, g, a))
     \/ \E a \in ArcName, x, y \in NodeName : \/ Becomes(gm_arc_MOVE(h, g, a, x, y))
                                              \/ Becomes(gm_arc_MOVE_SRC(h, g, a, x))
                                              \/ Becomes(gm_arc_MOVE_TARG(h, g, a, x))

EditWeights(g) ==
  /\ CanEdit(g)
  /\ \/ \E a \in ArcName : \/ Becomes(gm_arc_UNSETWEIGH(h, g, a))
                           \/ \E w \in Weight : Becomes(gm_arc_SETWEIGHT(h, g, a, w))
     \/ \E w \in Weight : Becomes(gm_arc_SETUNWEIGH(h, g, w))

\* Values of one item at most.
EditAttributes(g) ==
  /\ CanEdit(g)
  /\ \E k \in Key :
       \/ \E v \in Value :
            \/ \E x \in NodeName : \/ Becomes(gm_node_SET(h, g, x, k, v))
                                   \/ Becomes(gm_node_APPEND(h, g, x, k, v))
            \/ \E a \in ArcName : \/ Becomes(gm_arc_SET(h, g, a, k, v))
                                  \/ Becomes(gm_arc_APPEND(h, g, a, k, v))
            \/ Becomes(gm_SET(h, g, k, v)) \/ Becomes(gm_APPEND(h, g, k, v))
       \/ \E i \in Item :
            \/ \E x \in NodeName : Becomes(gm_node_LAPPEND(h, g, x, k, i))
            \/ \E a \in ArcName : Becomes(gm_arc_LAPPEND(h, g, a, k, i))
            \/ Becomes(gm_LAPPEND(h, g, k, i))
       \/ \E x \in NodeName : Becomes(gm_node_UNSET(h, g, x, k))
       \/ \E a \in ArcName : Becomes(gm_arc_UNSET(h, g, a, k))
       \/ Becomes(gm_UNSET(h, g, k))
  /\ \A c \in GC : h'.name[c] /= NoName => \A k \in DOMAIN h'.attr[c] : Len(h'.attr[c][k]) <= 1
  /\ \A k \in DOMAIN h'.gattr[g] : Len(h'.gattr[g][k]) <= 1

\* There is room for a graph as large as serial, the one of g.
Fits(s, serial)  == serial /= Malformed => /\ HasRoom(s, "nodes", Len(serial.nodes))
                                           /\ HasRoom(s, "arcs", Len(ArcsIn(serial)))
FitsCopy(s, g)   == \A k \in Kinds : HasRoom(s, k, Count(s, g, k))

\* A serialization is read into graph 1 while there are no nodes.
Read == \E serial \in Serials :
  /\ 1 \in alive /\ Live(h, "nodes") = {}
  /\ Fits(h, serial) /\ MayRead(serial)
  /\ h' = gm_DESERIALIZE(h, 1, serial)
  /\ edits' = IF h' = h THEN edits ELSE 0
  /\ copies' = IF h' = h THEN copies ELSE 0
  /\ copied' = Afresh(h', 1)
  /\ UNCHANGED alive

CopyOver(g) == \E src \in alive :
  /\ g \in alive /\ copies < MaxCopies /\ FitsCopy(h, src)
  /\ \E own \in BOOLEAN : /\ h' = gm_GASSIGN(h, g, src, own) \/ h' = gm_GSET(h, src, g, own)
                         /\ copied' = CopiedBy(h', src, g, own)
  /\ copies' = copies + 1
  /\ UNCHANGED <<alive, edits>>

GraphNext == Read \/ \E g \in Graph : \/ gms_new(g) \/ gm_DESTROY(g) \/ EditNodes(g) \/ EditArcs(g)
                              \/ EditWeights(g) \/ EditAttributes(g) \/ CopyOver(g)

GraphSpec == GraphInit /\ [][GraphNext]_gVars
=============================================================================

----------------------------- MODULE GraphStore -----------------------------
(***************************************************************************)
(* The node and arc layer of struct::graph in C (nacommon.c, node.c, arc.c,*)
(* attr.c and graph.c of modules/struct/graph): what its functions do to   *)
(* the structures of all graphs of a process, the heap h.                  *)
(*                                                                         *)
(* Nodes and arcs share their first fields, as GC does in the code, and    *)
(* are numbered together; 0 is NULL.  The list of the nodes and of the     *)
(* arcs of a graph are the chains from `first` over `next` and `prev`, the *)
(* interlinks of a node are the sequences `in` and `out` of its arcs, a    *)
(* table of names or attributes is a function.  The attributes and the     *)
(* arcs of a node leave a table in no particular order.  Graph 0 is the    *)
(* one g_deserialize and g_assign build aside.                             *)
(***************************************************************************)
EXTENDS Integers, Sequences, FiniteSetsExt, SequencesExt

CONSTANTS NodeName, ArcName, \* names
          NoName,            \* the structure is free
          Generated,         \* by kind, the names the generators try, in order
          NoWeight,          \* the arc has no weight
          Malformed,         \* no list of the form that is asked for
          MaxNode, MaxArc    \* bounds: structures

ASSUME StoreAssumption == /\ MaxNode \in Nat \ {0}
                          /\ MaxArc \in Nat \ {0}
                          /\ Generated.nodes \in Seq(NodeName)
                          /\ Generated.arcs \in Seq(ArcName)
                          /\ NoName \notin NodeName \cup ArcName

GN    == 1 .. MaxNode
GA    == MaxNode + 1 .. MaxNode + MaxArc
GC    == GN \cup GA
Graph == {1, 2}
Kinds == {"nodes", "arcs"}

Pool(k)     == IF k = "nodes" THEN GN ELSE GA
Live(h, k)  == {c \in Pool(k) : h.name[c] /= NoName}
Fresh(h, k) == Min(Pool(k) \ Live(h, k))
HasRoom(h, k, i) == Cardinality(Live(h, k)) + i <= Cardinality(Pool(k))

\* The structures of graph g in the order of its list.
Chain(h, g, k) ==
  LET from[c \in GC \cup {0}] == IF c = 0 THEN <<>> ELSE <<c>> \o from[h.next[c]]
  IN  from[h.first[g][k]]

\* One entry of a table of links, when there is a structure to have it.
Linked(link, c, to) == IF c = 0 THEN link ELSE [link EXCEPT ![c] = to]
\* A table with an entry, and without one.
Entered(table, x, v) == [y \in DOMAIN table \cup {x} |-> IF y = x THEN v ELSE table[y]]
Without(table, x)    == [y \in DOMAIN table \ {x} |-> table[y]]

-----------------------------------------------------------------------------
(* Attributes: functions from keys to values; dictionaries: [key, value] in *)
(* a sequence                                                                *)

NoAttr == <<>>

g_attr_serial(at) == LET ks == SetToSeq(DOMAIN at)
                     IN  [i \in DOMAIN ks |-> [key |-> ks[i], value |-> at[ks[i]]]]
g_attr_serok(dict) == dict /= Malformed
g_attr_deserial(at, dict) == FoldLeft(LAMBDA a, e : Entered(a, e.key, e.value), at, dict)
g_attr_dup(at) == g_attr_deserial(NoAttr, g_attr_serial(at))

g_attr_set(at, k, v)     == Entered(at, k, v)
g_attr_unset(at, k)      == Without(at, k)
g_attr_append(at, k, v)  == Entered(at, k, IF k \in DOMAIN at THEN at[k] \o v ELSE v)
g_attr_lappend(at, k, i) == Entered(at, k, IF k \in DOMAIN at THEN Append(at[k], i) ELSE <<i>>)

\* match: the keys a pattern matches, all of them without one.
g_attr_keys(at, match)   == DOMAIN at \cap match
g_attr_getall(at, match) == [k \in DOMAIN at \cap match |-> at[k]]
g_attr_kexists(at, k)    == k \in DOMAIN at

-----------------------------------------------------------------------------
(* What nodes and arcs have in common *)

gc_add(h, c, g, k) ==
  [h EXCEPT !.n[g][k] = @ + 1,
            !.next[c] = h.first[g][k],
            !.prev = [Linked(@, h.first[g][k], c) EXCEPT ![c] = 0],
            !.first[g][k] = c]

gc_remove(h, c, g, k) ==
  LET before == h.prev[c]
      after  == h.next[c]
  IN  IF h.first[g][k] /= c /\ before = 0 /\ after = 0 THEN h
      ELSE [h EXCEPT !.first[g][k] = IF @ = c THEN after ELSE @,
                     !.next = [Linked(@, before, after) EXCEPT ![c] = 0],
                     !.prev = [Linked(@, after, before) EXCEPT ![c] = 0],
                     !.n[g][k] = @ - 1]

gc_setup(h, c, g, k, x) ==
  [h EXCEPT !.name[c] = x, !.map[g][k] = Entered(@, x, c), !.owner[c] = g, !.attr[c] = NoAttr]

gc_delete(h, c, k) ==
  [h EXCEPT !.name[c] = NoName, !.map[h.owner[c]][k] = Without(@, h.name[c]),
            !.owner[c] = 0, !.attr[c] = NoAttr]

gc_rename(h, c, k, y) ==
  [h EXCEPT !.name[c] = y, !.map[h.owner[c]][k] = Entered(Without(@, h.name[c]), y, c)]

Found(h, g, k, x) == IF x \in DOMAIN h.map[g][k] THEN h.map[g][k][x] ELSE 0
gn_get_node(h, g, x) == Found(h, g, "nodes", x)
ga_get_arc(h, g, x)  == Found(h, g, "arcs", x)

\* attr: the attribute key of all nodes or arcs whose names match, or of the ones
\* in a list, as often as they are in it.
Has(h, c, key) == c /= 0 /\ key \in DOMAIN h.attr[c]
Valued(h, cs, key) == LET with == SelectSeq(cs, LAMBDA c : Has(h, c, key))
                      IN  [i \in DOMAIN with |-> [name  |-> h.name[with[i]],
                                                  value |-> h.attr[with[i]][key]]]
gc_attr(h, g, k, match, key) ==
  Valued(h, SelectSeq(Chain(h, g, k), LAMBDA c : h.name[c] \in match), key)
AttrOfList(h, g, k, names, key) ==
  Valued(h, [i \in DOMAIN names |-> Found(h, g, k, names[i])], key)

-----------------------------------------------------------------------------
(* Arcs and nodes *)

gla_link(chain, a)   == <<a>> \o chain
gla_unlink(chain, a) == RemoveFirst(chain, a)
Relinked(links, a, m, n) == [links EXCEPT ![m] = gla_unlink(@, a), ![n] = gla_link(@, a)]

ga_new(h, g, x, src, dst) ==
  LET a == Fresh(h, "arcs")
  IN  [gc_add(gc_setup(h, a, g, "arcs", x), a, g, "arcs")
        EXCEPT !.start[a] = src, !.end[a] = dst, !.weight[a] = NoWeight,
               !.out[src] = gla_link(@, a), !.in = Linked(@, dst, gla_link(h.in[dst], a))]

ga_delete(h, a) ==
  [gc_delete(gc_remove(h, a, h.owner[a], "arcs"), a, "arcs")
    EXCEPT !.out[h.start[a]] = gla_unlink(@, a), !.in[h.end[a]] = gla_unlink(@, a),
           !.start[a] = 0, !.end[a] = 0, !.weight[a] = NoWeight]

ga_mv_src(h, a, n) ==
  IF h.start[a] = n THEN h
  ELSE [h EXCEPT !.start[a] = n, !.out = Relinked(@, a, h.start[a], n)]
ga_mv_dst(h, a, n) ==
  IF h.end[a] = n THEN h
  ELSE [h EXCEPT !.end[a] = n, !.in = Relinked(@, a, h.end[a], n)]

gn_new(h, g, x) ==
  LET n == Fresh(h, "nodes")
  IN  [gc_add(gc_setup(h, n, g, "nodes", x), n, g, "nodes") EXCEPT !.in[n] = <<>>, !.out[n] = <<>>]

\* A node takes its arcs with it, the incoming ones first.
gn_delete(h, n) ==
  LET alone == gc_delete(gc_remove(h, n, h.owner[n], "nodes"), n, "nodes")
      ended == FoldLeft(ga_delete, alone, alone.in[n])
  IN  FoldLeft(ga_delete, ended, ended.out[n])

\* The number the generator of names stops at.
NextNumber(h, g, k) ==
  LET free(i) == i > Len(Generated[k]) \/ Generated[k][i] \notin DOMAIN h.map[g][k]
  IN  Min({i \in h.counter[g][k] + 1 .. Max({Len(Generated[k]), h.counter[g][k]}) + 1 : free(i)})
g_newnodename(h, g) == [h EXCEPT !.counter[g].nodes = NextNumber(h, g, "nodes")]
g_newarcname(h, g)  == [h EXCEPT !.counter[g].arcs = NextNumber(h, g, "arcs")]

-----------------------------------------------------------------------------
(* Graphs *)

NothingOf(x) == [k \in Kinds |-> x]

g_new(h, g) == [h EXCEPT !.first[g] = NothingOf(0), !.n[g] = NothingOf(0),
                         !.map[g] = NothingOf(<<>>), !.counter[g] = NothingOf(0),
                         !.gattr[g] = NoAttr]

g_delete(h, g) == g_new(FoldLeft(gn_delete, FoldLeft(ga_delete, h, Chain(h, g, "arcs")),
                                 Chain(h, g, "nodes")), g)

\* The heap before any graph.
Store ==
  LET all(x) == [g \in Graph \cup {0} |-> x]
  IN  [name |-> [c \in GC |-> NoName], next |-> [c \in GC |-> 0], prev |-> [c \in GC |-> 0],
       attr |-> [c \in GC |-> NoAttr], owner |-> [c \in GC |-> 0],
       in |-> [n \in GN |-> <<>>], out |-> [n \in GN |-> <<>>],
       start |-> [a \in GA |-> 0], end |-> [a \in GA |-> 0], weight |-> [a \in GA |-> NoWeight],
       first |-> all(NothingOf(0)), n |-> all(NothingOf(0)), map |-> all(NothingOf(<<>>)),
       counter |-> all(NothingOf(0)), gattr |-> all(NoAttr)]

\* dst takes what is in graph 0, and the other way round.
swap(h, dst) ==
  LET exchanged(f) == [f EXCEPT ![dst] = f[0], ![0] = f[dst]]
      of(g) == ToSet(Chain(h, g, "nodes") \o Chain(h, g, "arcs"))
  IN  [h EXCEPT !.first = exchanged(@), !.n = exchanged(@), !.map = exchanged(@),
                !.counter = exchanged(@), !.gattr = exchanged(@),
                !.owner = [c \in GC |-> IF c \in of(0) THEN dst
                                        ELSE IF c \in of(dst) THEN 0 ELSE @[c]]]

\* A node and an arc copied to graph 0; `prev` of the node is its copy from now on.
DupNode(s, c) ==
  LET n == Fresh(s, "nodes")
  IN  [gn_new(s, 0, s.name[c]) EXCEPT !.prev[c] = n, !.attr[n] = g_attr_dup(s.attr[c])]
DupArc(s, c) ==
  LET a == Fresh(s, "arcs")
  IN  [ga_new(s, 0, s.name[c], s.prev[s.start[c]], s.prev[s.end[c]])
        EXCEPT !.weight[a] = s.weight[c], !.attr[a] = g_attr_dup(s.attr[c])]

\* A copy of g in graph 0.  At the end the loop starts at the second node and
\* restores what comes after it.
dup(h, g) ==
  LET nodes == Chain(h, g, "nodes")
      made == FoldLeft(DupArc, FoldLeft(DupNode, g_new(h, 0), nodes), Chain(h, g, "arcs"))
      place(c) == CHOOSE i \in DOMAIN nodes : nodes[i] = c
  IN  [made EXCEPT !.gattr[0] = g_attr_dup(h.gattr[g]),
                   !.prev = [c \in GC |-> IF c \notin ToSet(nodes) \/ place(c) = 2 THEN @[c]
                                          ELSE IF place(c) = 1 THEN 0
                                          ELSE nodes[place(c) - 1]]]

g_assign(h, dst, src) == g_delete(swap(dup(h, src), dst), 0)

-----------------------------------------------------------------------------
(* Serializations: [nodes, attr], a node being [name, attr, arcs] and an arc *)
(* [name, ref, attr, weight]; ref is the place of its target in the list of  *)
(* Tcl, where every node takes three                                         *)

Length(serial) == 3 * Len(serial.nodes) + 1

\* Mutant: the weight is not written.
SerialWithoutWeight(h, a, ref) ==
  [name |-> h.name[a], ref |-> ref, attr |-> g_attr_serial(h.attr[a]), weight |-> NoWeight]

ga_serial(h, a, ref) == [name |-> h.name[a], ref |-> ref, attr |-> g_attr_serial(h.attr[a]),
                         weight |-> h.weight[a]]

\* The arcs of n to nodes of ns; the others lead out of what is written.
Within(h, n, ns) == FoldLeft(LAMBDA as, a : IF h.end[a] \in ToSet(ns) THEN Append(as, a) ELSE as,
                             <<>>, h.out[n])
gn_serial_arcs(h, n, ns) ==
  LET within   == Within(h, n, ns)
      place(m) == CHOOSE i \in DOMAIN ns : ns[i] = m
  IN  [i \in DOMAIN within |-> ga_serial(h, within[i], 3 * (place(h.end[within[i]]) - 1))]

\* The nodes named, or all; Malformed: one of them does not exist.
g_ms_serialize(h, g, names) ==
  LET once == FoldLeft(LAMBDA s, x : IF x \in ToSet(s) THEN s ELSE Append(s, x), <<>>, names)
      ns   == IF names = <<>> THEN Chain(h, g, "nodes")
              ELSE [i \in DOMAIN once |-> gn_get_node(h, g, once[i])]
  IN  IF 0 \in ToSet(ns) THEN Malformed
      ELSE [nodes |-> [i \in DOMAIN ns |-> [name |-> h.name[ns[i]],
                                            attr |-> g_attr_serial(h.attr[ns[i]]),
                                            arcs |-> gn_serial_arcs(h, ns[i], ns)]],
            attr |-> g_attr_serial(h.gattr[g])]

\* The first pass over the list: its form, and that of the references.
SoundArc(serial, e) == /\ e /= Malformed
                       /\ g_attr_serok(e.attr)
                       /\ e.ref % 3 = 0 /\ e.ref >= 0 /\ e.ref < Length(serial)
Sound(serial) == /\ serial /= Malformed
                 /\ g_attr_serok(serial.attr)
                 /\ \A i \in DOMAIN serial.nodes :
                      /\ g_attr_serok(serial.nodes[i].attr)
                      /\ \A j \in DOMAIN serial.nodes[i].arcs :
                           SoundArc(serial, serial.nodes[i].arcs[j])

\* The second: names that are there already.
NamesIn(serial)    == [i \in DOMAIN serial.nodes |-> serial.nodes[i].name]
ArcsOf(node)       == [j \in DOMAIN node.arcs |-> [from |-> node.name, arc |-> node.arcs[j]]]
ArcsIn(serial)     == FlattenSeq([i \in DOMAIN serial.nodes |-> ArcsOf(serial.nodes[i])])
ArcNamesIn(serial) == [i \in DOMAIN ArcsIn(serial) |-> ArcsIn(serial)[i].arc.name]
NamedOnce(serial)  == IsInjective(NamesIn(serial)) /\ IsInjective(ArcNamesIn(serial))

\* The node a reference is to.  None is at the place of the graph attributes, the
\* last one that the first pass lets through.
Referred(s, serial, ref) ==
  IF ref + 1 = Length(serial) THEN 0 ELSE gn_get_node(s, 0, serial.nodes[ref \div 3 + 1].name)

\* An arc, and the attributes of a node, read into graph 0, which has the nodes.
ReadArc(s, e, serial) ==
  LET a == Fresh(s, "arcs")
  IN  [ga_new(s, 0, e.arc.name, gn_get_node(s, 0, e.from), Referred(s, serial, e.arc.ref))
        EXCEPT !.weight[a] = e.arc.weight, !.attr[a] = g_attr_deserial(NoAttr, e.arc.attr)]
ReadAttr(s, e) == [s EXCEPT !.attr[gn_get_node(s, 0, e.name)] = g_attr_deserial(@, e.attr)]

\* Graph 0 filled from the list.
Imported(h, serial) ==
  LET nodes == FoldLeft(LAMBDA s, x : gn_new(s, 0, x), g_new(h, 0), NamesIn(serial))
      both  == FoldLeft(LAMBDA s, e : ReadArc(s, e, serial), nodes, ArcsIn(serial))
  IN  [FoldLeft(ReadAttr, both, serial.nodes) EXCEPT !.gattr[0] = g_attr_deserial(@, serial.attr)]

\* What was built up for a list that turns out wrong is torn down again.
g_deserialize(h, dst, serial) ==
  IF Sound(serial) THEN IF NamedOnce(serial)
                        THEN g_delete(swap(Imported(h, serial), dst), 0)
                        ELSE h
  ELSE h

\* = and -->: a graph that is not of this package, own, writes a serialization, or
\* reads one, as a graph of this package does.
g_ms_assign(h, g, src, own) == IF own THEN g_assign(h, g, src)
                               ELSE g_deserialize(h, g, g_ms_serialize(h, src, <<>>))
g_ms_set(h, g, dst, own)    == IF own THEN g_assign(h, dst, g)
                               ELSE g_deserialize(h, dst, g_ms_serialize(h, g, <<>>))
=============================================================================

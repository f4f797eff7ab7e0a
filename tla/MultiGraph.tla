----------------------------- MODULE MultiGraph -----------------------------
(***************************************************************************)
(* What the documentation of struct::graph (modules/struct/graph.man)      *)
(* says of its graphs: named nodes, named arcs between two of them, some   *)
(* with a weight, all with attributes.  A graph is a record                *)
(*   nodes: from the nodes to their attributes,                            *)
(*   arcs:  from the arcs to [src, dst, attr, weight],                     *)
(*   attr:  the attributes of the graph.                                   *)
(***************************************************************************)
EXTENDS Integers, Sequences, FiniteSets, SequencesExt

Nodes(o) == DOMAIN o.nodes
Arcs(o)  == DOMAIN o.arcs
Only(f, s) == [x \in s |-> f[x]]
Arc(x, y, w) == [src |-> x, dst |-> y, attr |-> <<>>, weight |-> w]

InsertNodes(o, xs) == [o EXCEPT !.nodes = [x \in xs |-> <<>>] @@ @]
DeleteNodes(o, xs) ==
  [o EXCEPT !.nodes = Only(@, Nodes(o) \ xs),
            !.arcs  = Only(@, {a \in Arcs(o) : {@[a].src, @[a].dst} \cap xs = {}})]
InsertArc(o, a, x, y, w) == [o EXCEPT !.arcs = (a :> Arc(x, y, w)) @@ @]
DeleteArcs(o, as) == [o EXCEPT !.arcs = Only(@, Arcs(o) \ as)]

\* Every x of a function's domain is called f[x].
Called(table, f) == [y \in {f[x] : x \in DOMAIN table} |->
                       table[CHOOSE x \in DOMAIN table : f[x] = y]]
RenameNodes(o, f) ==
  [o EXCEPT !.nodes = Called(@, f),
            !.arcs  = [a \in Arcs(o) |-> [@[a] EXCEPT !.src = f[@], !.dst = f[@]]]]
RenameNode(o, x, y) == RenameNodes(o, [z \in Nodes(o) |-> IF z = x THEN y ELSE z])
\* The nodes exchange their places: the arcs go to the other, names and
\* attributes stay together.
Swap(o, x, y) ==
  LET f == [z \in Nodes(o) |-> IF z = x THEN y ELSE IF z = y THEN x ELSE z]
  IN  [o EXCEPT !.arcs = [a \in Arcs(o) |-> [@[a] EXCEPT !.src = f[@], !.dst = f[@]]]]
RenameArc(o, a, b) == [o EXCEPT !.arcs = Called(@, [c \in Arcs(o) |-> IF c = a THEN b ELSE c])]
MoveArc(o, a, x, y) == [o EXCEPT !.arcs[a] = [@ EXCEPT !.src = x, !.dst = y]]

-----------------------------------------------------------------------------
(* arcs and nodes, for a set of nodes *)

ArcsBy(o, mode, xs) ==
  LET in  == {a \in Arcs(o) : o.arcs[a].dst \in xs}
      out == {a \in Arcs(o) : o.arcs[a].src \in xs}
  IN  CASE mode = "-in"        -> in
        [] mode = "-out"       -> out
        [] mode = "-adj"       -> in \cup out
        [] mode = "-inner"     -> in \cap out
        [] mode = "-embedding" -> (in \cup out) \ (in \cap out)
        [] mode = ""           -> Arcs(o)

NodesBy(o, mode, xs) ==
  LET in  == {o.arcs[a].src : a \in ArcsBy(o, "-in", xs)}
      out == {o.arcs[a].dst : a \in ArcsBy(o, "-out", xs)}
  IN  CASE mode = "-in"        -> in
        [] mode = "-out"       -> out
        [] mode = "-adj"       -> in \cup out
        [] mode = "-inner"     -> (in \cup out) \cap xs
        [] mode = "-embedding" -> (in \cup out) \ xs
        [] mode = ""           -> Nodes(o)

-----------------------------------------------------------------------------
(* Serializations *)

\* What a list that describes a graph describes.
Dict(pairs) == [k \in {p.key : p \in ToSet(pairs)} |->
                  pairs[CHOOSE i \in DOMAIN pairs :
                          pairs[i].key = k /\ \A j \in i + 1 .. Len(pairs) : pairs[j].key /= k].value]
ArcList(serial) == FlattenSeq([i \in DOMAIN serial.nodes |->
                     [j \in DOMAIN serial.nodes[i].arcs |->
                        [src |-> serial.nodes[i].name, arc |-> serial.nodes[i].arcs[j]]]])
Described(serial) ==
  LET at(ref)  == serial.nodes[ref \div 3 + 1].name
      list     == ArcList(serial)
      entry(a) == list[CHOOSE i \in DOMAIN list : list[i].arc.name = a]
      node(x)  == serial.nodes[CHOOSE i \in DOMAIN serial.nodes : serial.nodes[i].name = x]
  IN  [nodes |-> [x \in {e.name : e \in ToSet(serial.nodes)} |-> Dict(node(x).attr)],
       arcs  |-> [a \in {e.arc.name : e \in ToSet(list)} |->
                    [src |-> entry(a).src, dst |-> at(entry(a).arc.ref),
                     attr |-> Dict(entry(a).arc.attr), weight |-> entry(a).arc.weight]],
       attr  |-> Dict(serial.attr)]

\* The part of a graph between the nodes xs.
Spanned(o, xs) == [o EXCEPT !.nodes = Only(@, xs), !.arcs = Only(@, ArcsBy(o, "-inner", xs))]
=============================================================================

-------------------------- MODULE GraphProperties --------------------------
(***************************************************************************)
(* What must hold of the graphs of struct::graph: the lists, tables and    *)
(* interlinks of the structures agree with one another, and every method   *)
(* does on the structures what the documentation (MultiGraph) says of the  *)
(* names.                                                                  *)
(***************************************************************************)
EXTENDS StructGraph

CONSTANT Queries  \* words after arcs and nodes: [words, and what they ask for]

Doc == INSTANCE MultiGraph

\* The graph of names that g is.
Abs(s, g) ==
  [nodes |-> [x \in DOMAIN s.map[g].nodes |-> s.attr[TheNode(s, g, x)]],
   arcs  |-> [x \in DOMAIN s.map[g].arcs |->
                LET a == TheArc(s, g, x)
                IN  [src |-> s.name[s.start[a]], dst |-> s.name[s.end[a]],
                     attr |-> s.attr[a], weight |-> s.weight[a]]],
   attr  |-> s.gattr[g]]

LinkedBack(s, g, k) ==
  LET c == Chain(s, g, k)
  IN  \A i \in DOMAIN c : s.prev[c[i]] = IF i = 1 THEN 0 ELSE c[i - 1]

\* The list of a graph has every structure of the graph once, as long as it says,
\* and the table of names finds them; an arc is in the interlinks of the nodes it
\* joins, once, and in no others, and they are of its own graph.  Arcs are linked
\* back to the arc before them, and nodes to the node before them, but for those of
\* the graphs C, that dup has copied since their nodes were made: see NodesLinkedBack.
WellLinked(s, C) ==
  /\ \A g \in Graph, k \in Kinds :
       LET c == Chain(s, g, k)
       IN  /\ IsInjective(c) /\ Len(c) = s.n[g][k]
           /\ ToSet(c) = {x \in Live(s, k) : s.owner[x] = g}
           /\ s.map[g][k] = [x \in {s.name[e] : e \in ToSet(c)} |->
                               CHOOSE e \in ToSet(c) : s.name[e] = x]
           /\ Cardinality(DOMAIN s.map[g][k]) = Len(c)
           /\ k = "arcs" \/ g \notin C => LinkedBack(s, g, k)
  /\ \A c \in GN \cup GA : s.name[c] /= NoName => s.owner[c] \in alive
  /\ \A a \in Live(s, "arcs") : {s.start[a], s.end[a]} \subseteq
                                  {n \in Live(s, "nodes") : s.owner[n] = s.owner[a]}
  /\ \A n \in Live(s, "nodes") :
       /\ IsInjective(s.in[n]) /\ ToSet(s.in[n])  = {a \in Live(s, "arcs") : s.end[a] = n}
       /\ IsInjective(s.out[n]) /\ ToSet(s.out[n]) = {a \in Live(s, "arcs") : s.start[a] = n}
LinksAgree == WellLinked(h, copied)

\* "After that is done the chain can and is restored": every node is linked back to
\* the one before it, of a graph that was copied too.  The second node of the
\* graph that dup copies stays linked to its copy, in the other graph.
NodesLinkedBack == \A g \in alive : LinkedBack(h, g, "nodes")

\* The queries answer for the graph of names: arcs and nodes with every
\* restriction and with several, nothing twice; what an arc joins, the degrees,
\* the attributes and the weights.
Answer(o, k, q) ==
  LET by == IF k = "nodes" THEN Doc!NodesBy(o, q.mode, ToSet(q.names))
            ELSE Doc!ArcsBy(o, q.mode, ToSet(q.names))
      at(x) == IF k = "nodes" THEN o.nodes[x] ELSE o.arcs[x].attr
  IN  {x \in by : /\ q.key /= "" => q.key \in DOMAIN at(x)
                  /\ q.value /= "" => at(x)[q.key] = ValueOf[q.value]
                  /\ q.cmd /= "" => x \in Command[q.cmd]}
QueriesAsDocumented ==
  \A g \in alive :
    LET o == Abs(h, g)
        all(table, x) == IF x \in DOMAIN table THEN Ok(table[x]) ELSE None
        has(at) == Key \cap DOMAIN at
    IN  /\ \A q \in Queries, k \in Kinds :
             LET r == IF k = "nodes" THEN gm_NODES(h, g, q.words) ELSE gm_ARCS(h, g, q.words)
             IN  IF q.legal /\ ToSet(q.names) \subseteq Doc!Nodes(o)
                 THEN r.ok /\ IsInjective(r.value) /\ ToSet(r.value) = Answer(o, k, q)
                 ELSE r = None
        /\ \A x \in NodeName :
             LET in  == Cardinality(Doc!ArcsBy(o, "-in", {x}))
                 out == Cardinality(Doc!ArcsBy(o, "-out", {x}))
                 there == x \in Doc!Nodes(o)
             IN  /\ gm_node_EXISTS(h, g, x) = there
                 /\ gm_node_GETALL(h, g, x, Key) = all(o.nodes, x)
                 /\ gm_node_KEYS(h, g, x, Key) = IF there THEN Ok(has(o.nodes[x])) ELSE None
                 /\ gm_node_DEGREE(h, g, x, "") = IF there THEN Ok(in + out) ELSE None
                 /\ gm_node_DEGREE(h, g, x, "-in") = IF there THEN Ok(in) ELSE None
                 /\ \A a \in Doc!Arcs(o) :
                      LET e == o.arcs[a]
                      IN  gm_node_OPPOSITE(h, g, x, a) =
                            IF x = e.src THEN Ok(e.dst) ELSE IF x = e.dst THEN Ok(e.src) ELSE None
        /\ \A a \in ArcName :
             IF a \notin Doc!Arcs(o)
             THEN /\ ~ gm_arc_EXISTS(h, g, a)
                  /\ None = gm_arc_SOURCE(h, g, a) /\ None = gm_arc_GETWEIGHT(h, g, a)
             ELSE LET e == o.arcs[a]
                  IN  /\ gm_arc_EXISTS(h, g, a)
                      /\ gm_arc_SOURCE(h, g, a) = Ok(e.src) /\ gm_arc_TARGET(h, g, a) = Ok(e.dst)
                      /\ gm_arc_NODES(h, g, a) = Ok(<<e.src, e.dst>>)
                      /\ gm_arc_GETALL(h, g, a, Key) = Ok(e.attr)
                      /\ gm_arc_KEYS(h, g, a, Key) = Ok(has(e.attr))
                      /\ gm_arc_HASWEIGHT(h, g, a) = Ok(e.weight /= NoWeight)
                      /\ gm_arc_GETWEIGHT(h, g, a) =
                           IF e.weight = NoWeight THEN None ELSE Ok(e.weight)
        /\ ToSet(gm_arc_GETUNWEIGH(h, g)) = {a \in Doc!Arcs(o) : o.arcs[a].weight = NoWeight}
        /\ ToSet(gm_arc_WEIGHTS(h, g)) =
             {[name |-> a, weight |-> o.arcs[a].weight] :
                a \in {b \in Doc!Arcs(o) : o.arcs[b].weight /= NoWeight}}
        /\ gm_GETALL(h, g, Key) = o.attr /\ gm_KEYS(h, g, Key) = has(o.attr)
        /\ \A k \in Key :
             /\ gm_GET(h, g, k) = all(o.attr, k) /\ gm_KEYEXISTS(h, g, k) = (k \in has(o.attr))
             /\ \A x \in Doc!Nodes(o) :
                  /\ gm_node_GET(h, g, x, k) = all(o.nodes[x], k)
                  /\ gm_node_KEYEXISTS(h, g, x, k) = Ok(k \in has(o.nodes[x]))
             /\ \A a \in Doc!Arcs(o) :
                  /\ gm_arc_GET(h, g, a, k) = all(o.arcs[a].attr, k)
                  /\ gm_arc_KEYEXISTS(h, g, a, k) = Ok(k \in has(o.arcs[a].attr))
             /\ ToSet(gm_node_ATTR(h, g, k, NodeName)) =
                  {[name |-> x, value |-> o.nodes[x][k]] :
                     x \in {y \in Doc!Nodes(o) : k \in DOMAIN o.nodes[y]}}
             /\ ToSet(AttrOfList(h, g, "arcs", SetToSeq(ArcName), k)) =
                  ToSet(gm_arc_ATTR(h, g, k, ArcName))

\* insert, delete, rename, swap, move, flip and the weights do to the graph of
\* names what the documentation says, from every graph and with every argument,
\* loops, arcs side by side and names given twice among them, and leave the other
\* graph alone.
Untouched(s, g) == \A other \in Graph \ {g} : Abs(s, other) = Abs(h, other)
DoesTo(s, g, o, C) == Abs(s, g) = o /\ Untouched(s, g) /\ WellLinked(s, C)
Does(s, g, o)      == DoesTo(s, g, o, copied)
EditsAsDocumented == edits = 0 =>
  \A g \in alive :
    LET o == Abs(h, g)
        nodes == Doc!Nodes(o)
        arcs  == Doc!Arcs(o)
    IN  /\ \A xs \in NodeLists \ {<<>>} :
             /\ HasRoom(h, "nodes", Len(xs)) =>
                  Does(gm_node_INSERT(h, g, xs), g,
                       IF IsInjective(xs) /\ ToSet(xs) \cap nodes = {}
                       THEN Doc!InsertNodes(o, ToSet(xs)) ELSE o)
             /\ MayDelete(h, g, xs) =>
                  Does(gm_node_DELETE(h, g, xs), g,
                       IF IsInjective(xs) /\ ToSet(xs) \subseteq nodes
                       THEN Doc!DeleteNodes(o, ToSet(xs)) ELSE o)
        /\ \A as \in ArcLists :
             Does(gm_arc_DELETE(h, g, as), g,
                  IF IsInjective(as) /\ ToSet(as) \subseteq arcs
                  THEN Doc!DeleteArcs(o, ToSet(as)) ELSE o)
        /\ \A x, y \in NodeName :
             /\ Does(gm_node_RENAME(h, g, x, y), g,
                     IF x \in nodes /\ y \notin nodes THEN Doc!RenameNode(o, x, y) ELSE o)
             /\ Does(gm_SWAP(h, g, x, y), g,
                     IF {x, y} \subseteq nodes THEN Doc!Swap(o, x, y) ELSE o)
             /\ \A a \in ArcName :
                  /\ HasRoom(h, "arcs", 1) =>
                       Does(gm_arc_INSERT(h, g, x, y, <<a>>), g,
                            IF {x, y} \subseteq nodes /\ a \notin arcs
                            THEN Doc!InsertArc(o, a, x, y, NoWeight) ELSE o)
                  /\ Does(gm_arc_MOVE(h, g, a, x, y), g,
                          IF {x, y} \subseteq nodes /\ a \in arcs
                          THEN Doc!MoveArc(o, a, x, y) ELSE o)
        /\ \A a, b \in ArcName :
             Does(gm_arc_RENAME(h, g, a, b), g,
                  IF a \in arcs /\ b \notin arcs THEN Doc!RenameArc(o, a, b) ELSE o)
        /\ \A a \in arcs : Does(gm_arc_FLIP(h, g, a), g,
                                Doc!MoveArc(o, a, o.arcs[a].dst, o.arcs[a].src))
        /\ \A w \in Weight :
             Does(gm_arc_SETUNWEIGH(h, g, w), g,
                  [o EXCEPT !.arcs = [a \in arcs |->
                     [@[a] EXCEPT !.weight = IF @ = NoWeight THEN w ELSE @]]])

\* A copy is the graph it was made of, whichever way it was made, the graph it
\* was made of is as before, and a graph that was written, whole or in part,
\* reads as what was written; what is new is linked back and forth.
Reads(g, serial, o) == LET s == gm_DESERIALIZE(h, g, serial)
                       IN  DoesTo(s, g, o, Afresh(s, g))
CopiesAsDocumented ==
  \A g \in alive :
    /\ \A dst \in alive :
         FitsCopy(h, g) =>
           \A own \in BOOLEAN : \A s \in {gm_GASSIGN(h, dst, g, own), gm_GSET(h, g, dst, own)} :
             /\ DoesTo(s, dst, Abs(h, g), CopiedBy(s, g, dst, own))
             /\ Abs(s, g) = Abs(h, g)
    /\ \A xs \in {ys \in NodeLists : ToSet(ys) \subseteq Doc!Nodes(Abs(h, g))} :
         LET serial == gm_SERIALIZE(h, g, xs).value
             all    == IF xs = <<>> THEN Doc!Nodes(Abs(h, g)) ELSE ToSet(xs)
         IN  /\ Doc!Described(serial) = Doc!Spanned(Abs(h, g), all)
             /\ Fits(h, serial) =>
                  Reads(g, serial, Doc!Spanned(Abs(h, g), all))
    /\ edits = 0 => \A serial \in Serials :
         Fits(h, serial) /\ MayRead(serial) =>
           Reads(g, serial, IF Sound(serial) /\ NamedOnce(serial)
                            THEN Doc!Described(serial) ELSE Abs(h, g))
=============================================================================

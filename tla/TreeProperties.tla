--------------------------- MODULE TreeProperties ---------------------------
(***************************************************************************)
(* What must hold of the trees of struct::tree: the links of the nodes     *)
(* agree with one another, and every method does on the nodes what the     *)
(* documentation (OrderedTree) says of the names.                          *)
(***************************************************************************)
EXTENDS Tree

Doc == INSTANCE OrderedTree

\* The tree of names.
Abs(s) ==
  LET names == {s.name[n] : n \in Live(s)}
  IN  [top  |-> s.name[s.root],
       kids |-> [x \in names |-> tn_getchildren(s, Node(s, x))],
       vals |-> [x \in names |-> s.attr[Node(s, x)]]]

\* The links: the children of a node, in their order, are the nodes that have it
\* as parent, at the index they have, with the neighbours they have; nothing
\* refers to a node that was freed; the list of nodes is that of the names; all
\* of it is one tree from the root.
LinksAgree ==
  t /= NoTree =>
    /\ t.nodes = Live(t)
    /\ t.root \in Live(t) /\ t.parent[t.root] = 0
    /\ \A m, n \in Live(t) : t.name[m] = t.name[n] => m = n
    /\ \A n \in Live(t) : ToSet(t.child[n]) = {m \in TN : t.parent[m] = n}
    /\ \A n \in Live(t) : \A k \in DOMAIN t.child[n] :
         LET c == t.child[n]
         IN  /\ t.index[c[k]] = k - 1
             /\ t.left[c[k]]  = IF k = 1 THEN 0 ELSE c[k - 1]
             /\ t.right[c[k]] = IF k = Len(c) THEN 0 ELSE c[k + 1]
    /\ Doc!IsTree(Abs(t))

\* "Return a list containing all leaf nodes known to the tree" (struct_tree.man):
\* the list of leaves, kept beside the arrays of children, is of those nodes that
\* have no children.
LeavesAreChildless ==
  t /= NoTree => t.leaves = {n \in Live(t) : t.child[n] = <<>>}

\* While the structure is said to be valid depth, height and number of
\* descendants are those of the tree, whatever was done to it in between.
Deepest(o, x) == Max({Len(Doc!Chain(o, y)) - Len(Doc!Chain(o, x)) : y \in Doc!Under(o, x)})
CacheIsCurrent ==
  t /= NoTree /\ t.structure =>
    \A n \in Live(t) :
      LET o == Abs(t)
          x == t.name[n]
      IN  t.cache[n] = [depth  |-> Len(Doc!Chain(o, x)),
                        height |-> Deepest(o, x),
                        desc   |-> Cardinality(Doc!Under(o, x)) - 1]

\* The parts of a tree that are kept several times over agree after every method.
TreeAgrees == LinksAgree /\ LeavesAreChildless /\ CacheIsCurrent

\* The queries answer for the tree of names, with and without the cache.
QueriesAsDocumented ==
  t /= NoTree =>
    LET o == Abs(t)
        Leaves == [throws |-> FALSE, keeps |-> {x \in Doc!Names(o) : o.kids[x] = <<>>}]
        Throws == [throws |-> TRUE, keeps |-> {}]
    IN  /\ tm_NODES(t) = Doc!Names(o) /\ tm_ROOTNAME(t) = o.top
        /\ tm_ATTR(t, Name) = {[name |-> x, value |-> o.vals[x]] :
                                 x \in {y \in Doc!Names(o) : o.vals[y] /= NoValue}}
        /\ LET v == [x \in Doc!Names(o) |-> o.vals[x]]
               s == SetToSeq(Name)
           IN  {e.name : e \in ToSet(AttrOfNodes(t, s))} = {x \in DOMAIN v : v[x] /= NoValue}
        /\ tm_LEAVES(t) = {x \in Doc!Names(o) : o.kids[x] = <<>>}
        /\ \A x \in Name \ Doc!Names(o) :
             ~ tm_EXISTS(t, x) /\ tm_DEPTH(t, x) = None /\ tm_GET(t, x) = None
        /\ \A x \in Doc!Names(o) :
             LET up   == Doc!Chain(o, x)
                 down == Doc!Under(o, x) \ {x}
             IN  /\ tm_ANCESTORS(t, x)   = Ok(up)
                 /\ tm_DEPTH(t, x)       = Ok(Len(up))
                 /\ tm_HEIGHT(t, x)      = Ok(Deepest(o, x))
                 /\ tm_DESCENDANTS(t, x, Every) = Ok(down)
                 /\ tm_DESCENDANTS(t, x, Throws) = IF down = {} THEN Ok({}) ELSE None
                 /\ tm_DESCENDANTS(t, x, Leaves) = Ok({y \in down : o.kids[y] = <<>>})
                 /\ tm_SIZE(t, x)        = Ok(Cardinality(down))
                 /\ tm_CHILDREN(t, x, FALSE, Every) = Ok(o.kids[x])
                 /\ tm_CHILDREN(t, x, FALSE, Leaves) =
                      Ok(SelectSeq(o.kids[x], LAMBDA y : o.kids[y] = <<>>))
                 /\ tm_NUMCHILDREN(t, x) = Ok(Len(o.kids[x]))
                 /\ tm_ISLEAF(t, x)      = Ok(o.kids[x] = <<>>)
                 /\ tm_EXISTS(t, x)
                 /\ tm_KEYEXISTS(t, x)   = Ok(o.vals[x] /= NoValue)
                 /\ tm_KEYS(t, x, TRUE)  = tm_KEYEXISTS(t, x)
                 /\ tm_GETALL(t, x, TRUE) = IF o.vals[x] = NoValue THEN Ok(<<>>)
                                            ELSE Ok(<<o.vals[x]>>)
                 /\ tm_GET(t, x) = IF o.vals[x] = NoValue THEN None ELSE Ok(o.vals[x])
                 /\ \A i \in DOMAIN o.kids[x] :
                      LET c == o.kids[x]
                      IN  /\ tm_NEXT(t, c[i]) = Ok(IF i < Len(c) THEN {c[i + 1]} ELSE {})
                          /\ tm_PREVIOUS(t, c[i]) = Ok(IF i > 1 THEN {c[i - 1]} ELSE {})
                 /\ tm_PARENT(t, x)      = Ok(Doc!ParentOf(o, x))
                 /\ tm_INDEX(t, x) = IF x = o.top THEN None
                                     ELSE Ok(Len(SelectSeq(o.kids[up[1]], LAMBDA y :
                                            tm_INDEX(t, y).value < tm_INDEX(t, x).value)))
                 /\ Doc!Described(tm_SERIALIZE(t, x)).kids = [y \in down \cup {x} |-> o.kids[y]]

\* insert, move, splice, delete, cut, swap and rename do to the tree of names
\* what the documentation says, from every tree and with every argument: nodes
\* that move within their parent, indices outside of the children, ranges that
\* are empty.  Of several names inserted the later ones follow the earlier ones,
\* unless the index is negative.  (None of these calls reads the counter.)
CanGo(o, p, xs) == /\ p \in Doc!Names(o)
                   /\ \A x \in ToSet(xs) : x \notin {o.top, p} /\ x \notin ToSet(Doc!Chain(o, p))
EditsAsDocumented ==
  t /= NoTree /\ t.counter = 0 =>
    LET o == Abs(t)
        has == Doc!Names(o)
    IN  /\ \A p \in has, i \in Indices, xs \in NameLists :
             LET at == TclGetIntForIndex(i, Len(o.kids[p]))
             IN  /\ /\ CanGo(o, p, xs) /\ IsInjective(xs) /\ (at >= 0 \/ Len(xs) = 1)
                    /\ HasRoom(t, NewNames(t, xs))
                    => Abs(tm_INSERT(t, p, i, xs)) = Doc!Insert(o, p, at, xs, NoValue)
                 /\ IsInjective(xs) =>
                      Abs(tm_MOVE(t, p, i, xs)) =
                        IF CanGo(o, p, xs) /\ ToSet(xs) \subseteq has
                        THEN Doc!Move(o, p, at, xs) ELSE o
        /\ \A p \in has, a, b \in Indices, x \in Name \ has :
             HasRoom(t, 1) =>
               Abs(tm_SPLICE(t, p, a, b, x, FALSE)) =
                 LET end == Len(o.kids[p]) - 1
                 IN  Doc!Splice(o, p, TclGetIntForIndex(a, end), TclGetIntForIndex(b, end),
                                x, NoValue)
        /\ \A x \in has \ {o.top} : /\ Abs(tm_DELETE(t, x)) = Doc!Delete(o, x)
                                    /\ Abs(tm_CUT(t, x)) = Doc!CutOut(o, x)
        /\ \A x, y \in Name :
             /\ Abs(tm_SWAP(t, x, y)) =
                  IF {x, y} \subseteq has \ {o.top} THEN Doc!Swap(o, x, y) ELSE o
             /\ Abs(tm_RENAME(t, x, y)) =
                  IF x \in has /\ y \notin has THEN Doc!Rename(o, x, y) ELSE o

\* deserialize takes exactly the lists that describe a tree, and makes that
\* tree; = makes the same one; a tree survives being written and read.
CopiesAsDocumented ==
  t /= NoTree =>
    /\ \A serial \in {s \in Serials : Fits(t, s)} :
         /\ Abs(t_deserialize(t, serial)) =
              IF Doc!Describes(serial) THEN Doc!Described(serial) ELSE Abs(t)
         /\ Doc!Describes(serial) =>
              \A own \in BOOLEAN :
                Abs(tm_TASSIGN(t, Source(serial), own)) = Doc!Described(serial)
    /\ Abs(t_deserialize(t, tn_serialize(t, t.root))) = Abs(t)
    /\ \A own \in BOOLEAN : Abs(tm_TSET(t, t_new, own)) = Abs(t)
=============================================================================

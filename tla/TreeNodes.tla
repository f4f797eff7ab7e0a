----------------------------- MODULE TreeNodes -----------------------------
(***************************************************************************)
(* The node layer of struct::tree in C (modules/struct/tree/tn.c and t.c): *)
(* what the functions on nodes do to the records of a tree.  A tree is one *)
(* record of functions over the node structures; a function of the code    *)
(* is an operator from the tree before to the tree after.                  *)
(*                                                                         *)
(* The lists of nodes and of leaves are sets, their order is left out, and *)
(* so is the growth of the arrays of children.  The table of names is the  *)
(* inverse of `name`.  Depth, height and number of descendants are kept in *)
(* `cache`; it is only read while `structure` is set, and is Stale while   *)
(* it is not.  Node structures are numbered from 1; 0 is NULL.             *)
(***************************************************************************)
EXTENDS Integers, Sequences, FiniteSetsExt, SequencesExt

CONSTANTS Name,       \* names of nodes
          NoName,     \* the node structure is free
          Generated,  \* the names t_newnodename tries, in order
          NoValue,    \* the node has no value for the key
          MaxNodes    \* bound: node structures

ASSUME NodesAssumption == /\ MaxNodes \in Nat \ {0}
                          /\ Generated \in Seq(Name)
                          /\ NoName \notin Name

TN    == 1 .. MaxNodes
Stale == [depth |-> -1, height |-> -1, desc |-> -1]

Live(t)     == {n \in TN : t.name[n] /= NoName}
Named(t, x) == {n \in TN : t.name[n] = x}

\* tn_get_node: the structure with the name x, 0: no node of that name.
tn_get_node(t, x) == IF Named(t, x) = {} THEN 0 ELSE CHOOSE n \in TN : t.name[n] = x

NChildren(t, n) == Len(t.child[n])

\* Every change of the structure takes the cache back.
Restructured(t) == [t EXCEPT !.structure = FALSE, !.cache = [n \in TN |-> Stale]]

tn_leaf(t, n)    == [t EXCEPT !.leaves = @ \cup {n}]
tn_notleaf(t, n) == [t EXCEPT !.leaves = @ \ {n}]

tn_node(t, n)    == [t EXCEPT !.nodes = @ \cup {n}]
tn_notnode(t, n) == [t EXCEPT !.nodes = @ \ {n}]

\* The structure the next tn_new takes.
Fresh(t) == Min(TN \ Live(t))
HasRoom(t, k) == Cardinality(Live(t)) + k <= MaxNodes

\* A structure as tn_new leaves it, the name apart; a free one is kept so too.
Blank(t, n) ==
  [t EXCEPT !.parent[n] = 0, !.child[n] = <<>>, !.left[n] = 0, !.right[n] = 0,
            !.index[n] = -1, !.attr[n] = NoValue, !.cache[n] = Stale]

\* A new node of the name x, a leaf outside of the structure; it is Fresh(t).
tn_new(t, x) ==
  LET n == Fresh(t)
  IN  [tn_leaf(tn_node(Blank(t, n), n), n) EXCEPT !.name[n] = x]

\* n and what is below it.
Subtree(t, n) ==
  LET below[m \in TN] == {m} \cup UNION {below[c] : c \in ToSet(t.child[m])}
  IN  below[n]

\* n goes with everything below; whoever refers to n from above is left alone.
tn_delete(t, n) ==
  LET free(s, m) == [tn_notnode(tn_notleaf(Blank(s, m), m), m) EXCEPT !.name[m] = NoName]
  IN  FoldSet(LAMBDA m, s : free(s, m), t, Subtree(t, n))

-----------------------------------------------------------------------------
(* Cutting and inserting *)

\* One entry of a table of links, when there is a node to have it.
Linked(link, n, to) == IF n = 0 THEN link ELSE [link EXCEPT ![n] = to]

\* Mutant: the siblings keep their links to n.
DetachKeepsLinks(t, n) ==
  LET p == t.parent[n]
      c == t.child[p]
      i == t.index[n] + 1
      later == {c[k] : k \in i + 1 .. Len(c)}
      alone == [tn_leaf(t, p) EXCEPT !.child[p] = <<>>]
      among == [t EXCEPT !.child[p] = RemoveAt(c, i),
                         !.index = [m \in TN |-> IF m \in later THEN @[m] - 1 ELSE @[m]],
                         !.right[n] = 0, !.left[n] = 0]
  IN  Restructured([(IF Len(c) = 1 THEN alone ELSE among) EXCEPT !.parent[n] = 0])

\* n leaves its parent.  A parent without children is a leaf again, and the
\* siblings of n, of which there are none, stay as they are.
tn_detach(t, n) ==
  LET p == t.parent[n]
      c == t.child[p]
      i == t.index[n] + 1
      later == {c[k] : k \in i + 1 .. Len(c)}
      alone == [tn_leaf(t, p) EXCEPT !.child[p] = <<>>]
      among == [t EXCEPT !.child[p] = RemoveAt(c, i),
                         !.index = [m \in TN |-> IF m \in later THEN @[m] - 1 ELSE @[m]],
                         !.right = Linked(Linked(@, t.left[n], t.right[n]), n, 0),
                         !.left  = Linked(Linked(@, t.right[n], t.left[n]), n, 0)]
  IN  Restructured([(IF Len(c) = 1 THEN alone ELSE among) EXCEPT !.parent[n] = 0])

\* The len children of p from index `at` on, counted from 0.
Cut(t, p, at, len) == SubSeq(t.child[p], at + 1, at + len)

\* n and its len - 1 right siblings leave their parent; they keep the reference
\* to it, and their own order.
tn_detachmany(t, n, len) ==
  LET p     == t.parent[n]
      c     == t.child[p]
      at    == t.index[n]
      last  == c[at + len]
      later == {c[k] : k \in at + len + 1 .. Len(c)}
      whole == [tn_leaf(t, p) EXCEPT !.child[p] = <<>>]
      part  == [t EXCEPT !.child[p] = SubSeq(c, 1, at) \o SubSeq(c, at + len + 1, Len(c)),
                         !.index = [m \in TN |-> IF m \in later THEN @[m] - len ELSE @[m]],
                         !.right = Linked(Linked(@, t.left[n], t.right[last]), last, 0),
                         !.left  = Linked(Linked(@, t.right[last], t.left[n]), n, 0)]
  IN  Restructured(IF at = 0 /\ len = Len(c) THEN whole ELSE part)

\* All children leave n, keeping their links.
tn_detachchildren(t, n) == [tn_leaf(t, n) EXCEPT !.child[n] = <<>>]

\* The nodes nv go between the children of p, before the one at index `at`: the
\* later ones move up, and the links over both seams are made.  The first child
\* keeps the left link it brings along.
Link(t, p, at, nv) ==
  LET c     == t.child[p]
      cs    == SubSeq(c, 1, at) \o nv \o SubSeq(c, at + 1, Len(c))
      last  == at + Len(nv)
      place == [m \in ToSet(cs) |-> CHOOSE k \in DOMAIN cs : cs[k] = m]
      within(m, lo, hi) == m \in DOMAIN place /\ place[m] \in lo .. hi
  IN  Restructured(
        [tn_notleaf(t, p) EXCEPT
           !.child[p] = cs,
           !.parent = [m \in TN |-> IF within(m, at + 1, last) THEN p ELSE @[m]],
           !.index  = [m \in TN |-> IF within(m, at + 1, last) THEN place[m] - 1
                                    ELSE IF within(m, last + 1, Len(cs)) THEN @[m] + Len(nv)
                                    ELSE @[m]],
           !.left   = [m \in TN |-> IF within(m, at + 1, last + 1) /\ place[m] > 1
                                    THEN cs[place[m] - 1] ELSE @[m]],
           !.right  = [m \in TN |-> IF ~ within(m, at, last) THEN @[m]
                                    ELSE IF place[m] < Len(cs) THEN cs[place[m] + 1]
                                    ELSE 0]])

tn_append(t, p, n)      == Link(t, p, NChildren(t, p), <<n>>)
tn_appendmany(t, p, nv) == Link(t, p, NChildren(t, p), nv)

tn_insert(t, p, at, n) ==
  IF at >= NChildren(t, p) THEN tn_append(t, p, n)
  ELSE [Link(t, p, Max({at, 0}), <<n>>) EXCEPT !.left[n] = IF at <= 0 THEN 0 ELSE @]

tn_insertmany(t, p, at, nv) ==
  IF at >= NChildren(t, p) THEN tn_appendmany(t, p, nv) ELSE Link(t, p, Max({at, 0}), nv)

\* n goes, its children take its place.
tn_cut(t, n) ==
  LET a == tn_detach(tn_detachchildren(t, n), n)
  IN  tn_delete(tn_insertmany(a, t.parent[n], t.index[n], t.child[n]), n)

-----------------------------------------------------------------------------
(* Structure data *)

\* tn_structure: depth, height and number of descendants of every node below n,
\* which is at the given depth.
tn_structure(t, n, depth) ==
  LET data[m \in TN, d \in 0 .. MaxNodes] ==
        LET c     == t.child[m]
            below == [i \in DOMAIN c |-> data[c[i], d + 1]]
            at(i) == below[i][c[i]]
            own   == [depth  |-> d,
                      height |-> Max({-1} \cup {at(i).height : i \in DOMAIN c}) + 1,
                      desc   |-> MapThenSumSet(LAMBDA i : 1 + at(i).desc, DOMAIN c)]
        IN  [k \in TN |-> IF k = m THEN own
                          ELSE IF \E i \in DOMAIN c : below[i][k] /= Stale
                               THEN below[CHOOSE i \in DOMAIN c : below[i][k] /= Stale][k]
                               ELSE Stale]
  IN  data[n, depth]

t_structure(t) == [t EXCEPT !.cache = tn_structure(t, t.root, 0), !.structure = TRUE]

\* What tn_depth and tn_height do before they read the cache.
Structured(t) == IF t.structure THEN t ELSE t_structure(t)

tn_depth(t, n)  == Structured(t).cache[n].depth
tn_height(t, n) == Structured(t).cache[n].height

\* Mutant: the root counts itself.
CountsItself(t, n) ==
  IF n = t.root THEN Cardinality(t.nodes)
  ELSE IF NChildren(t, n) = 0 THEN 0
  ELSE Structured(t).cache[n].desc

\* The number of descendants: from the list for the root, from the cache else.
tn_ndescendants(t, n) ==
  IF n = t.root THEN Cardinality(t.nodes) - 1
  ELSE IF NChildren(t, n) = 0 THEN 0
  ELSE Structured(t).cache[n].desc
Counted(t, n) == IF n = t.root \/ NChildren(t, n) = 0 THEN t ELSE Structured(t)

\* The names of the descendants: from the list for the root, by descent else.
fill_descendants(t, n) ==
  LET names[m \in TN] ==
        FoldLeft(LAMBDA s, c : s \cup {t.name[c]} \cup names[c], {}, t.child[m])
  IN  IF n = t.root THEN {t.name[m] : m \in t.nodes \ {n}} ELSE names[n]

tn_getdescendants(t, n) == IF tn_ndescendants(t, n) = 0 THEN {} ELSE fill_descendants(t, n)

tn_getchildren(t, n) == [i \in 1 .. NChildren(t, n) |-> t.name[t.child[n][i]]]

\* The nodes above n, the parent first.
Above(t, n) ==
  LET up[m \in TN] == IF t.parent[m] = 0 THEN <<>> ELSE <<t.parent[m]>> \o up[t.parent[m]]
  IN  up[n]

tn_isancestorof(t, a, b) == a \in ToSet(Above(t, b))

-----------------------------------------------------------------------------
(* Whole trees *)

\* t_new: the tree of a new command, the root alone.
t_new == LET none == [n \in TN |-> 0]
             bare == [name   |-> [n \in TN |-> NoName],  parent |-> none,
                      child  |-> [n \in TN |-> <<>>],    left   |-> none,
                      right  |-> none,                   index  |-> [n \in TN |-> -1],
                      attr   |-> [n \in TN |-> NoValue], nodes  |-> {},
                      leaves |-> {},                     structure |-> FALSE,
                      cache  |-> [n \in TN |-> Stale],   root   |-> Fresh([name |-> [n \in TN |-> NoName]]),
                      counter |-> 0]
         IN  tn_new(bare, "root")

\* The number of the next generated name that no node has; one past the bound
\* when there is none.
NextNumber(t) ==
  Min({k \in t.counter + 1 .. Len(Generated) : Named(t, Generated[k]) = {}}
        \cup {Len(Generated) + 1})

\* tn_serialize: the nodes from n down, each [name, parent, attr]; `parent` is
\* the place of the parent in the list, counted from 1, 0: none.
tn_serialize(t, n) ==
  LET from[m \in TN, at \in 1 .. MaxNodes, up \in 0 .. MaxNodes] ==
        FoldLeft(LAMBDA s, c : s \o from[c, at + Len(s), at],
                 <<[name |-> t.name[m], parent |-> up, attr |-> t.attr[m]]>>,
                 t.child[m])
  IN  from[n, 1, 0]

\* tn_dup of the nodes of another tree, given by their serialization: parents
\* come before their children, and a node is appended when its copy is made.
tn_dup(t, serial) ==
  FoldLeft(LAMBDA s, e :
             LET n == Fresh(s)
                 a == [tn_new(s, e.name) EXCEPT !.attr[n] = e.attr]
             IN  IF e.parent = 0 THEN [a EXCEPT !.root = n]
                 ELSE tn_append(a, tn_get_node(a, serial[e.parent].name), n),
           t, serial)

\* The old nodes go first, so a tree that is all root keeps `structure`.
t_assign(t, serial) == tn_dup(tn_delete(t, t.root), serial)
=============================================================================

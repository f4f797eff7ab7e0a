-------------------------------- MODULE Tree --------------------------------
(***************************************************************************)
(* struct::tree, the commands of a tree in C (modules/struct/tree/m.c and  *)
(* ms.c) on the node layer of TreeNodes.  A method that changes the tree   *)
(* is an operator from the tree before to the tree after, which is the     *)
(* same when it throws; a method that only answers returns the answer, and *)
(* the tree too when it fills the cache of the structure.                  *)
(*                                                                         *)
(* A node keeps a value for one key, the list of what was appended.  The   *)
(* number of arguments and the text of errors are left out.                *)
(***************************************************************************)
EXTENDS TreeNodes

CONSTANTS NoTree,     \* there is no tree command
          Element,    \* what values are lists of
          MaxValue,   \* bound: length of a value
          MaxValued,  \* bound: nodes that have a value
          MaxEdits,   \* bound: edits until the tree is copied over
          MaxCopy,    \* bound: nodes of a tree and of the one copied over it
          Serials,    \* the serializations the program passes
          Defects     \* calls with a known wrong outcome that are not left out

ASSUME TreeAssumption == /\ MaxValue \in Nat
                         /\ MaxValued \in Nat
                         /\ {MaxEdits, MaxCopy} \subseteq Nat
                         /\ Defects \subseteq {"cutLeaf", "rootOnly"}
                         /\ "root" \in Name

VARIABLES t,     \* the tree, or NoTree
          edits  \* edits since the tree was made or copied over

tVars == <<t, edits>>

\* What a method that throws answers.
None == [ok |-> FALSE, value |-> {}]
Ok(value) == [ok |-> TRUE, value |-> value]

\* TclGetIntForIndex: an index is a number, or an offset from the end.
TclGetIntForIndex(arg, endValue) == IF arg.end THEN endValue + arg.offset ELSE arg.offset

-----------------------------------------------------------------------------
(* Methods that change the tree *)

\* Mutant: the index stays when a node before it leaves.
InsertAtStaleIndex(r, p, x) ==
  LET n == tn_get_node(r.tree, x)
  IN  IF ~ r.ok THEN r
      ELSE IF n = 0
      THEN [r EXCEPT !.tree = tn_insert(tn_new(@, x), p, r.at, Fresh(@)), !.at = @ + 1]
      ELSE IF n \in {r.tree.root, p} \/ tn_isancestorof(r.tree, n, p)
      THEN [r EXCEPT !.ok = FALSE]
      ELSE [r EXCEPT !.tree = tn_insert(tn_detach(@, n), p, r.at, n), !.at = @ + 1]

\* One name of insert: a new node, or one that is moved there.  A node that
\* leaves a place before the index makes the index one smaller.  `r` is the work
\* so far: [tree, at, ok].
InsertName(r, p, x) ==
  LET n  == tn_get_node(r.tree, x)
      at == IF r.tree.parent[n] = p /\ r.tree.index[n] < r.at THEN r.at - 1 ELSE r.at
  IN  IF ~ r.ok THEN r
      ELSE IF n = 0
      THEN [r EXCEPT !.tree = tn_insert(tn_new(@, x), p, r.at, Fresh(@)), !.at = @ + 1]
      ELSE IF n \in {r.tree.root, p} \/ tn_isancestorof(r.tree, n, p)
      THEN [r EXCEPT !.ok = FALSE]
      ELSE [r EXCEPT !.tree = tn_insert(tn_detach(@, n), p, at, n), !.at = at + 1]

\* The names before one that cannot be moved stay inserted.
tm_INSERT(s, x, arg, names) ==
  LET p  == tn_get_node(s, x)
      at == TclGetIntForIndex(arg, NChildren(s, p))
      k  == NextNumber(s)
  IN  IF p = 0 THEN s
      ELSE IF names = <<>>
      THEN tn_insert([tn_new(s, Generated[k]) EXCEPT !.counter = k], p, at, Fresh(s))
      ELSE FoldLeft(LAMBDA r, y : InsertName(r, p, y),
                    [tree |-> s, at |-> at, ok |-> TRUE], names).tree

\* All nodes are looked at before the first is moved.
Movable(s, p, names) ==
  \A i \in DOMAIN names :
    LET n == tn_get_node(s, names[i])
    IN  n \notin {0, s.root, p} /\ ~ tn_isancestorof(s, n, p)
tm_MOVE(s, x, arg, names) ==
  LET p  == tn_get_node(s, x)
      at == TclGetIntForIndex(arg, NChildren(s, p))
      nv == [i \in DOMAIN names |-> tn_get_node(s, names[i])]
  IN  IF p = 0 \/ ~ Movable(s, p, names) THEN s
      ELSE tn_insertmany(FoldLeft(tn_detach, s, nv), p, at, nv)

\* `to` and the name may be left out; a generated name is the name x then.
tm_SPLICE(s, y, a, b, x, generated) ==
  LET p    == tn_get_node(s, y)
      end  == NChildren(s, p) - 1
      from == Max({TclGetIntForIndex(a, end), 0})
      to   == Min({TclGetIntForIndex(b, end), end})
      new  == Fresh(s)
      c    == [tn_new(s, x) EXCEPT !.counter = IF generated THEN NextNumber(s) ELSE @]
      nv   == Cut(s, p, from, to - from + 1)
      d    == IF to - from + 1 > 0
              THEN tn_appendmany(tn_detachmany(c, nv[1], Len(nv)), new, nv) ELSE c
  IN  IF p = 0 \/ tn_get_node(s, x) /= 0 THEN s ELSE tn_insert(d, p, from, new)

tm_DELETE(s, x) == LET n == tn_get_node(s, x)
                   IN  IF n \in {0, s.root} THEN s ELSE tn_delete(tn_detach(s, n), n)

tm_CUT(s, x) == LET n == tn_get_node(s, x)
                IN  IF n \in {0, s.root} THEN s ELSE tn_cut(s, n)

\* The two nodes trade names and values, and stay where they are.
tm_SWAP(s, x, y) ==
  LET a == tn_get_node(s, x)
      b == tn_get_node(s, y)
  IN  IF {a, b} \cap {0, s.root} /= {} \/ a = b THEN s
      ELSE Restructured([s EXCEPT !.name[a] = s.name[b], !.name[b] = s.name[a],
                                  !.attr[a] = s.attr[b], !.attr[b] = s.attr[a]])

tm_RENAME(s, x, y) ==
  LET n == tn_get_node(s, x)
  IN  IF n = 0 \/ tn_get_node(s, y) /= 0 THEN s ELSE [s EXCEPT !.name[n] = y]

\* The value is made when there is none; append makes it of the text, lappend of
\* an empty list.
Valued(s, x, v) == LET n == tn_get_node(s, x)
                   IN  IF n = 0 THEN s ELSE [s EXCEPT !.attr[n] = v]
tm_SET(s, x, v)      == Valued(s, x, v)
tm_UNSET(s, x)       == Valued(s, x, NoValue)
OldValue(s, x)       == LET n == tn_get_node(s, x)
                        IN  IF n = 0 THEN <<>> ELSE IF s.attr[n] = NoValue THEN <<>>
                            ELSE s.attr[n]
tm_APPEND(s, x, v)   == Valued(s, x, OldValue(s, x) \o v)
tm_LAPPEND(s, x, i)  == Valued(s, x, Append(OldValue(s, x), i))

-----------------------------------------------------------------------------
(* Serializations *)

\* The places that can be tagged from the root: a place whose parent has a tag
\* gets one, until nothing changes.
Tagged(serial) ==
  LET pass[k \in Nat] ==
        IF k = 0 THEN {i \in DOMAIN serial : serial[i].parent = 0}
        ELSE {i \in DOMAIN serial : serial[i].parent = 0 \/ serial[i].parent \in pass[k - 1]}
  IN  pass[Len(serial)]

\* Mutant: cycles are let through.
MayBeCyclic(serial) ==
  /\ Cardinality({i \in DOMAIN serial : serial[i].parent = 0}) = 1
  /\ \A i \in DOMAIN serial : serial[i].parent \in (0 .. Len(serial)) \ {i}
  /\ Cardinality({serial[i].name : i \in DOMAIN serial}) = Len(serial)

\* The checks before the old tree goes: one root, references in range and not
\* to the entry itself, no cycle, no name twice.
ValidSerial(serial) ==
  /\ Cardinality({i \in DOMAIN serial : serial[i].parent = 0}) = 1
  /\ \A i \in DOMAIN serial : serial[i].parent \in (0 .. Len(serial)) \ {i}
  /\ Tagged(serial) = DOMAIN serial
  /\ Cardinality({serial[i].name : i \in DOMAIN serial}) = Len(serial)

\* A dictionary is written to a node that may have values.
tn_set_attr(s, n, v) == IF v = NoValue THEN s ELSE [s EXCEPT !.attr[n] = v]

\* All nodes are made, then linked and given their values in the order of the list.
Rebuilt(s, serial) ==
  LET made == FoldLeft(LAMBDA a, e : tn_new(a, e.name), tn_delete(s, s.root), serial)
      node(i) == tn_get_node(made, serial[i].name)
      top  == CHOOSE i \in DOMAIN serial : serial[i].parent = 0
  IN  FoldLeft(LAMBDA a, i :
                 tn_set_attr(IF i = top THEN a ELSE tn_append(a, node(serial[i].parent), node(i)),
                             node(i), serial[i].attr),
               [made EXCEPT !.root = node(top)],
               [i \in DOMAIN serial |-> i])

t_deserialize(s, serial) == IF ValidSerial(serial) THEN Rebuilt(s, serial) ELSE s

tm_DESERIALIZE(s, serial) == t_deserialize(s, serial)

tms_serialize(s, n) == tn_serialize(s, n)
tm_SERIALIZE(s, x)  == LET n == tn_get_node(s, x)
                       IN  IF n = 0 THEN <<>> ELSE tms_serialize(s, n)

\* = and -->: a tree that is not of this package, own, writes a serialization, or
\* reads one, as a tree of this package does.  A tree that is copied is given by
\* its serialization.
tms_assign(s, serial, own) == IF own THEN t_assign(s, serial) ELSE t_deserialize(s, serial)
tms_set(s, dst, own)       == LET serial == tms_serialize(s, s.root)
                              IN  IF own THEN t_assign(dst, serial) ELSE t_deserialize(dst, serial)
tm_TASSIGN(s, serial, own) == tms_assign(s, serial, own)
tm_TSET(s, dst, own)       == tms_set(s, dst, own)

-----------------------------------------------------------------------------
(* Methods that only answer *)

\* An answer about the node named x.
About(s, x, value) == IF tn_get_node(s, x) = 0 THEN None ELSE Ok(value)
Node(s, x) == CHOOSE n \in TN : s.name[n] = x

\* The filter command cmd, [throws, keeps], is called for every name; Every: there
\* is no command.
Every == [throws |-> FALSE, keeps |-> Name]
tn_filternodes(names, cmd) ==
  IF names /= <<>> /\ cmd.throws THEN None
  ELSE Ok(SelectSeq(names, LAMBDA y : y \in cmd.keeps))

\* The children in their order, or all descendants, as a set.
tms_getchildren(s, n, all, cmd) ==
  IF all THEN LET r == tn_filternodes(SetToSeq(tn_getdescendants(s, n)), cmd)
              IN  IF r.ok THEN Ok(ToSet(r.value)) ELSE None
  ELSE tn_filternodes(tn_getchildren(s, n), cmd)

tm_ANCESTORS(s, x) ==
  About(s, x, IF tn_depth(s, Node(s, x)) = 0 THEN <<>>
              ELSE LET up == Above(s, Node(s, x)) IN [i \in DOMAIN up |-> s.name[up[i]]])
tm_CHILDREN(s, x, all, cmd) ==
  IF tn_get_node(s, x) = 0 THEN None ELSE tms_getchildren(s, Node(s, x), all, cmd)
tm_DESCENDANTS(s, x, cmd) == tm_CHILDREN(s, x, TRUE, cmd)
tm_DEPTH(s, x)       == About(s, x, tn_depth(s, Node(s, x)))
tm_HEIGHT(s, x)      == About(s, x, tn_height(s, Node(s, x)))
tm_SIZE(s, x)        == About(s, x, tn_ndescendants(s, Node(s, x)))
tm_NUMCHILDREN(s, x) == About(s, x, NChildren(s, Node(s, x)))
tm_ISLEAF(s, x)      == About(s, x, NChildren(s, Node(s, x)) = 0)
tm_EXISTS(s, x)      == tn_get_node(s, x) /= 0
tm_ROOTNAME(s)       == s.name[s.root]
tm_NODES(s)          == {s.name[n] : n \in s.nodes}
tm_LEAVES(s)         == {s.name[n] : n \in s.leaves}

\* A name, or none: the empty string.
NameAt(s, n)      == IF n = 0 THEN {} ELSE {s.name[n]}
tm_PARENT(s, x)   == About(s, x, NameAt(s, s.parent[Node(s, x)]))
tm_NEXT(s, x)     == About(s, x, NameAt(s, s.right[Node(s, x)]))
tm_PREVIOUS(s, x) == About(s, x, NameAt(s, s.left[Node(s, x)]))

\* The root has no index.
tm_INDEX(s, x) == IF tn_get_node(s, x) = s.root THEN None
                  ELSE About(s, x, s.index[Node(s, x)])

HasValue(s, x)     == s.attr[Node(s, x)] /= NoValue
tm_GET(s, x)       == IF tn_get_node(s, x) = 0 THEN None
                      ELSE IF HasValue(s, x) THEN Ok(s.attr[Node(s, x)]) ELSE None
tm_KEYEXISTS(s, x) == About(s, x, HasValue(s, x))

\* match: the pattern matches the key.
tm_KEYS(s, x, match)   == About(s, x, match /\ HasValue(s, x))
tm_GETALL(s, x, match) ==
  About(s, x, IF match /\ HasValue(s, x) THEN <<s.attr[Node(s, x)]>> ELSE <<>>)

\* attr, for the nodes whose names match, and for a list of names.
tm_ATTR(s, match) ==
  {[name |-> s.name[n], value |-> s.attr[n]] :
     n \in {m \in s.nodes : s.attr[m] /= NoValue /\ s.name[m] \in match}}
AttrOfNodes(s, names) ==
  LET known == SelectSeq(names, LAMBDA x : tm_GET(s, x).ok)
  IN  [i \in DOMAIN known |-> [name |-> known[i], value |-> tm_GET(s, known[i]).value]]

\* The queries that fill the cache: depth, height, ancestors; size,
\* descendants and serialize where they need the count.
Asked(s, x) == IF tn_get_node(s, x) = 0 THEN s ELSE Structured(s)
Sized(s, x) == IF tn_get_node(s, x) = 0 THEN s ELSE Counted(s, Node(s, x))

-----------------------------------------------------------------------------
(* The commands of the program *)

\* Calls that are left out because the code gets them wrong: cutting a leaf that
\* has no siblings, and taking over a tree that is only a root while the cache
\* of the structure is valid.
CutAllowed(s, x) ==
  LET n == tn_get_node(s, x)
  IN  n \notin {0, s.root} /\ s.child[n] = <<>> /\ Len(s.child[s.parent[n]]) = 1
        => "cutLeaf" \in Defects
CopyAllowed(s, serial) == Len(serial) = 1 /\ s.structure => "rootOnly" \in Defects

NewNames(s, names) == Cardinality({x \in ToSet(names) : tn_get_node(s, x) = 0})
Indices    == [end : BOOLEAN, offset : {-1, 0, 1}] \ {[end |-> TRUE, offset |-> 1]}
NameLists  == {<<x>> : x \in Name} \cup {<<x, y>> : x, y \in Name}
Values     == BoundedSeq(Element, MaxValue)
CanGenerate(s) == NextNumber(s) <= Len(Generated) /\ HasRoom(s, 1)

\* The tree becomes s.
Becomes(s) == t' = s /\ edits' = edits + 1

TreeInit == t = NoTree /\ edits = 0

tms_new == t = NoTree /\ t' = t_new /\ edits' = 0

tm_DESTROY == t /= NoTree /\ t' = NoTree /\ edits' = 0

CanEdit == t /= NoTree /\ edits < MaxEdits

Insert == /\ CanEdit
          /\ \E x \in Name, i \in Indices :
               \/ CanGenerate(t) /\ Becomes(tm_INSERT(t, x, i, <<>>))
               \/ \E names \in NameLists : /\ HasRoom(t, NewNames(t, names))
                                           /\ Becomes(tm_INSERT(t, x, i, names))

\* A node given twice is detached twice, the second time from nothing.
Move == /\ CanEdit
        /\ \E x \in Name, i \in Indices, names \in NameLists :
             IsInjective(names) /\ Becomes(tm_MOVE(t, x, i, names))

Splice == /\ CanEdit
          /\ HasRoom(t, 1)
          /\ \E y \in Name, a, b \in Indices :
               \/ \E x \in Name : Becomes(tm_SPLICE(t, y, a, b, x, FALSE))
               \/ /\ CanGenerate(t)
                  /\ Becomes(tm_SPLICE(t, y, a, b, Generated[NextNumber(t)], TRUE))

TakeOut == /\ CanEdit
           /\ \E x \in Name : \/ Becomes(tm_DELETE(t, x))
                              \/ CutAllowed(t, x) /\ Becomes(tm_CUT(t, x))

Relabel == /\ CanEdit
           /\ \E x, y \in Name : Becomes(tm_SWAP(t, x, y)) \/ Becomes(tm_RENAME(t, x, y))

SetValue ==
  /\ CanEdit
  /\ \E x \in Name, v \in Values :
       \/ Becomes(tm_SET(t, x, v))
       \/ Becomes(tm_UNSET(t, x))
       \/ Len(OldValue(t, x) \o v) <= MaxValue /\ Becomes(tm_APPEND(t, x, v))
       \/ /\ Len(OldValue(t, x)) < MaxValue
          /\ \E i \in Element : Becomes(tm_LAPPEND(t, x, i))
  /\ Cardinality({n \in TN : t'.attr[n] /= NoValue}) <= MaxValued

\* The nodes of another tree, which the program filled with a serialization.
Source(serial) == LET s == t_deserialize(t_new, serial) IN tn_serialize(s, s.root)

Fits(s, serial) == /\ Len(serial) <= MaxNodes
                   /\ Len(serial) + Cardinality(Live(s)) <= MaxCopy

\* deserialize, and = from another tree.
CopyOver ==
  /\ t /= NoTree
  /\ \E serial \in Serials :
       /\ Fits(t, serial)
       /\ CopyAllowed(t, serial)
       /\ \/ t' = tm_DESERIALIZE(t, serial)
          \/ /\ ValidSerial(serial)
             /\ \E own \in BOOLEAN : t' = tm_TASSIGN(t, Source(serial), own)
       /\ edits' = IF ValidSerial(serial) THEN 0 ELSE edits

Ask == /\ t /= NoTree
       /\ \E x \in Name : t' \in {Asked(t, x), Sized(t, x)}
       /\ UNCHANGED edits

TreeNext == tms_new \/ tm_DESTROY \/ Insert \/ Move \/ Splice \/ TakeOut \/ Relabel
              \/ SetValue \/ CopyOver \/ Ask

TreeSpec == TreeInit /\ [][TreeNext]_tVars
=============================================================================

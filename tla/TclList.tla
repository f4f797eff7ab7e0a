------------------------------ MODULE TclList ------------------------------
(***************************************************************************)
(* The items containers hold and the operation of Tcl on lists that the    *)
(* implementations in C rely on, as they use it.                           *)
(***************************************************************************)
EXTENDS Integers, Sequences, FiniteSetsExt, SequencesExt

CONSTANT Item   \* what queues, stacks and sets hold

\* Tcl_ListObjReplace(list, first, count, 0): drop `count` elements from index
\* `first`, counted from 0; an index before the list is taken to be 0.
ListDrop(list, first, count) ==
  LET f == Max({first, 0})
  IN  SubSeq(list, 1, f) \o SubSeq(list, f + count + 1, Len(list))
=============================================================================

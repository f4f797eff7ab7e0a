---------------------------- MODULE MCStructures ----------------------------
(***************************************************************************)
(* The queue, the stack, the sets and the tree of struct for TLC, and the  *)
(* walk of a tree.  They have no state in common, so a behaviour uses one  *)
(* of them, while the others are as they began.                            *)
(***************************************************************************)
EXTENDS StructQueue, StructStack, StructSet, TreeProperties, TreeWalk

(* Trees: the serializations the program passes, with the root first, in the *)
(* middle or last, with a child before its parent, and lists that are no tree *)

Entry(x, up, v) == [name |-> x, parent |-> up, attr |-> v]
Plain(x, up)    == Entry(x, up, NoValue)

\* The trees of n nodes, written from the root down: the parent of a node is the
\* node before it, or one above that.
TreeShapes(n) ==
  LET up(p) == LET u[i \in 0 .. n] == IF i = 0 THEN {} ELSE {i} \cup u[p[i]] IN u
  IN  {p \in [1 .. n -> 0 .. n - 1] :
         p[1] = 0 /\ \A i \in 2 .. n : p[i] < i /\ p[i] \in up(p)[i - 1]}
NamesInOrder == <<"root", "a", "b", "c", "node1">>

MCSerials ==
  UNION {{[i \in 1 .. n |-> Plain(NamesInOrder[i], p[i])] : p \in TreeShapes(n)} : n \in 1 .. 5}
  \cup {
   \* a child before its parent, the root not first
   <<Plain("b", 2), Entry("root", 0, <<>>), Plain("a", 2), Plain("node1", 1)>>,
   <<Plain("b", 3), Plain("a", 1), Plain("root", 0)>>,
   \* no root, two roots, a reference out of the list, to itself, in a circle,
   \* a name twice
   <<>>, <<Plain("a", 2), Plain("b", 1)>>, <<Plain("a", 0), Plain("b", 0)>>,
   <<Plain("a", 0), Plain("b", 3)>>, <<Plain("a", 0), Plain("b", 2)>>,
   <<Plain("root", 0), Plain("a", 3), Plain("b", 2)>>,
   <<Plain("a", 0), Plain("a", 1)>>}
MCGenerated == <<"node1", "c">>

\* No method treats one item in its own way.
MCItems == Permutations(Item)

\* Trees to walk.
MCShapes == {(1 :> <<>>), (1 :> <<2>>) @@ (2 :> <<>>),
   (1 :> <<2, 3>>) @@ (2 :> <<>>) @@ (3 :> <<>>),
   (1 :> <<2, 3, 4>>) @@ (2 :> <<>>) @@ (3 :> <<>>) @@ (4 :> <<>>),
   (1 :> <<2, 3>>) @@ (2 :> <<4>>) @@ (3 :> <<>>) @@ (4 :> <<>>),
   (1 :> <<2, 3>>) @@ (2 :> <<>>) @@ (3 :> <<4>>) @@ (4 :> <<>>),
   (1 :> <<2>>) @@ (2 :> <<3, 4>>) @@ (3 :> <<>>) @@ (4 :> <<>>)}

-----------------------------------------------------------------------------

StructuresInit == QueueInit /\ StackInit /\ SetInit /\ TreeInit /\ WalkInit

StructuresNext ==
  \/ StackInit /\ SetInit /\ TreeInit /\ WalkInit /\ QueueNext /\ UNCHANGED <<stVars, sVars, tVars, wVars>>
  \/ QueueInit /\ SetInit /\ TreeInit /\ WalkInit /\ StackNext /\ UNCHANGED <<qVars, sVars, tVars, wVars>>
  \/ QueueInit /\ StackInit /\ TreeInit /\ WalkInit /\ SetNext /\ UNCHANGED <<qVars, stVars, tVars, wVars>>
  \/ QueueInit /\ StackInit /\ SetInit /\ WalkInit /\ TreeNext /\ UNCHANGED <<qVars, stVars, sVars, wVars>>
  \/ QueueInit /\ StackInit /\ SetInit /\ TreeInit /\ WalkNext /\ UNCHANGED <<qVars, stVars, sVars, tVars>>

StructuresSpec == StructuresInit /\ [][StructuresNext]_<<qVars, stVars, sVars, tVars, wVars>>
=============================================================================

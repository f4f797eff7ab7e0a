------------------------------ MODULE TreeWalk ------------------------------
(***************************************************************************)
(* walk and walkproc of struct::tree in C (modules/struct/tree/walk.c): a  *)
(* script runs at the nodes below a node, in an order of seven; what the   *)
(* script answers steers the walk, and when a node is entered it may       *)
(* change the children of that node.                                       *)
(*                                                                         *)
(* The recursive functions are a stack of what they still have to do,      *)
(* `todo`, with the copies they made of the arrays of children; the        *)
(* breadth first ones use it as their queue, and `back` as the stack of    *)
(* the way back.  Any other change by a script than that of the children   *)
(* of the node it enters is undefined by the documentation and left out.   *)
(***************************************************************************)
EXTENDS Integers, Sequences, FiniteSetsExt, SequencesExt

CONSTANTS WNode,      \* the nodes
          Shapes,     \* the trees walked: functions from some nodes to their children
          Start,      \* the node a walk starts at, in every shape
          MaxOdd,     \* bound: scripts that do not answer ok
          MaxChanges  \* bound: changes by scripts

ASSUME WalkAssumption == /\ {MaxOdd, MaxChanges} \subseteq Nat
                         /\ \A s \in Shapes : Start \in DOMAIN s /\ DOMAIN s \subseteq WNode

VARIABLES kids,    \* the tree: function from the nodes there are to their children
          how,     \* [type, order] of the walk
          todo,    \* tasks [do, node], the next one first
          back,    \* nodes to be left, the next one first
          trace,   \* what the script was called with and answered: [act, node, res]
          outcome, \* "idle", "running", or what the walk ended with
          changes  \* changes by scripts

wVars == <<kids, how, todo, back, trace, outcome, changes>>

Aborts == {"error", "break", "return"}
Passes == {"ok", "continue"}

Task(do, n)     == [do |-> do, node |-> n]
Tasks(do, ns)   == [i \in DOMAIN ns |-> Task(do, ns[i])]
Kinds == {[type |-> "dfs", order |-> o] : o \in {"pre", "post", "both", "in"}}
           \cup {[type |-> "bfs", order |-> o] : o \in {"pre", "post", "both"}}

\* The walk ends: error and return are passed on, everything else is ok.
Ends(res) == /\ outcome' = IF res \in {"error", "return"} THEN res ELSE "ok"
             /\ todo' = <<>> /\ back' = <<>>

-----------------------------------------------------------------------------
(* The script *)

\* What the script may do to the children of n: leave them, drop one with all
\* below it, put one below another, or add a node.
RECURSIVE BelowOf(_, _)
BelowOf(k, n) == {n} \cup UNION {BelowOf(k, c) : c \in ToSet(k[n])}
Changed(k, n) ==
  LET without(c) == SelectSeq(k[n], LAMBDA x : x /= c)
  IN  {[x \in DOMAIN k \ BelowOf(k, c) |-> IF x = n THEN without(c) ELSE k[x]] : c \in ToSet(k[n])}
      \cup {[k EXCEPT ![n] = without(e[1]), ![e[2]] = Append(@, e[1])] :
              e \in {f \in ToSet(k[n]) \X ToSet(k[n]) : f[1] /= f[2]}}
      \cup {[x \in DOMAIN k \cup {y} |-> IF x = n THEN Append(k[n], y)
                                         ELSE IF x = y THEN <<>> ELSE k[x]] : y \in WNode \ DOMAIN k}

\* t_walk_invokescript, t_walk_invokecmd: the script runs at n and answers res.
Invoke(act, n, res) ==
  /\ Cardinality({i \in DOMAIN trace : trace[i].res /= "ok"}) + (IF res = "ok" THEN 0 ELSE 1)
       <= MaxOdd
  /\ trace' = Append(trace, [act |-> act, node |-> n, res |-> res])
  /\ \/ UNCHANGED <<kids, changes>>
     \/ /\ act = "enter" /\ changes < MaxChanges
        /\ kids' \in Changed(kids, n)
        /\ changes' = changes + 1

\* Mutant: every walk may be pruned.
PruneAllowed(res) == res

\* What a post or in order walk makes of an answer: pruning is an error.
NoPrune(res) == IF res = "prune" THEN "error" ELSE res

-----------------------------------------------------------------------------
(* Depth first *)

\* The head of the stack is a call of the function f for the node n, or the rest
\* of one; the tasks ts take its place.
AtHead(f, n) == outcome = "running" /\ todo /= <<>> /\ Head(todo) = Task(f, n)
Instead(ts)  == todo' = ts \o Tail(todo) /\ UNCHANGED <<back, outcome>>
Expand(ts)   == Instead(ts) /\ UNCHANGED <<kids, trace, changes>>

t_walkdfspre(n) ==
  /\ AtHead("dfspre", n)
  /\ \E res \in Aborts \cup Passes \cup {"prune"} :
       /\ Invoke("enter", n, res)
       /\ IF res \in Aborts THEN Ends(res)
          ELSE Instead(IF res = "prune" THEN <<>> ELSE Tasks("dfspre", kids'[n]))

t_walkdfspost(n) ==
  \/ AtHead("dfspost", n) /\ Expand(Tasks("dfspost", kids[n]) \o <<Task("postleave", n)>>)
  \/ /\ AtHead("postleave", n)
     /\ \E res \in Aborts \cup Passes \cup {"prune"} :
          /\ Invoke("leave", n, res)
          /\ IF NoPrune(res) \in Aborts THEN Ends(NoPrune(res)) ELSE Instead(<<>>)

t_walkdfsboth(n) ==
  \/ /\ AtHead("dfsboth", n)
     /\ \E res \in Aborts \cup Passes \cup {"prune"} :
          /\ Invoke("enter", n, res)
          /\ IF res \in Aborts THEN Ends(res)
             ELSE Instead((IF res = "prune" THEN <<>> ELSE Tasks("dfsboth", kids'[n]))
                             \o <<Task("bothleave", n)>>)
  \/ /\ AtHead("bothleave", n)
     /\ \E res \in Aborts \cup Passes \cup {"prune"} :
          /\ Invoke("leave", n, res)
          /\ IF res \in Aborts THEN Ends(res) ELSE Instead(<<>>)

\* The first child before the parent, if there are others.  An only child is
\* looked up after the script ran at its parent.
t_walkdfsin(n) ==
  \/ /\ AtHead("dfsin", n)
     /\ Expand(CASE Len(kids[n]) = 0 -> <<Task("invisit", n)>>
                 [] Len(kids[n]) = 1 -> <<Task("invisit", n), Task("inonly", n)>>
                 [] Len(kids[n]) > 1 -> <<Task("dfsin", Head(kids[n])), Task("invisit", n)>>
                                          \o Tasks("dfsin", Tail(kids[n])))
  \/ AtHead("inonly", n) /\ Expand(<<Task("dfsin", Head(kids[n]))>>)
  \/ /\ AtHead("invisit", n)
     /\ \E res \in Aborts \cup Passes \cup {"prune"} :
          /\ Invoke("visit", n, res)
          /\ IF NoPrune(res) \in Aborts THEN Ends(NoPrune(res)) ELSE Instead(<<>>)

-----------------------------------------------------------------------------
(* Breadth first *)

\* The head of the queue is gone, the children of n are queued, and stacked for
\* the way back.
Queued(f, ns, stacks) == /\ todo' = Tail(todo) \o Tasks(f, ns)
                         /\ back' = IF stacks THEN Reverse(ns) \o back ELSE back
                         /\ UNCHANGED outcome

t_walkbfspre(n) ==
  /\ AtHead("bfspre", n)
  /\ \E res \in Aborts \cup Passes \cup {"prune"} :
       /\ Invoke("enter", n, res)
       /\ IF res \in Aborts THEN Ends(res)
          ELSE Queued("bfspre", IF res = "prune" THEN <<>> ELSE kids'[n], FALSE)

\* The way back, when the queue is empty; prunes: pruning is no error here.
WayBack(prunes) ==
  /\ outcome = "running" /\ todo = <<>> /\ back /= <<>>
  /\ \E res \in Aborts \cup Passes \cup {"prune"} :
       LET r == IF prunes THEN res ELSE NoPrune(res)
       IN  /\ Invoke("leave", Head(back), res)
           /\ IF r \in Aborts THEN Ends(r)
              ELSE back' = Tail(back) /\ UNCHANGED <<todo, outcome>>

t_walkbfspost(n) ==
  \/ /\ AtHead("bfspost", n)
     /\ Queued("bfspost", kids[n], TRUE)
     /\ UNCHANGED <<kids, trace, changes>>
  \/ how = [type |-> "bfs", order |-> "post"] /\ WayBack(FALSE)

\* Break and return only end the way there: what is queued is dropped, and the
\* way back begins with all that is stacked.
t_walkbfsboth(n) ==
  \/ /\ AtHead("bfsboth", n)
     /\ \E res \in Aborts \cup Passes \cup {"prune"} :
          /\ Invoke("enter", n, res)
          /\ IF res = "error" THEN Ends(res)
             ELSE IF res \in Aborts THEN todo' = <<>> /\ UNCHANGED <<back, outcome>>
             ELSE Queued("bfsboth", IF res = "prune" THEN <<>> ELSE kids'[n], TRUE)
  \/ how = [type |-> "bfs", order |-> "both"] /\ WayBack(TRUE)

-----------------------------------------------------------------------------
(* The walk *)

WalkInit == /\ kids = (Start :> <<>>)
            /\ how = [type |-> "dfs", order |-> "pre"]
            /\ todo = <<>> /\ back = <<>> /\ trace = <<>>
            /\ outcome = "idle" /\ changes = 0

t_walk == /\ outcome = "idle"
          /\ outcome' = "running"
          /\ how' \in Kinds
          /\ kids' \in Shapes
          /\ todo' = <<Task(how'.type \o how'.order, Start)>>
          /\ back' = IF how' \in {[type |-> "bfs", order |-> "post"],
                                  [type |-> "bfs", order |-> "both"]}
                     THEN <<Start>> ELSE <<>>
          /\ UNCHANGED <<trace, changes>>

\* Nothing is left to do.
Finish == /\ outcome = "running" /\ todo = <<>> /\ back = <<>>
          /\ Ends("ok")
          /\ UNCHANGED <<kids, how, trace, changes>>

Walk == /\ UNCHANGED how
        /\ \E n \in WNode : \/ t_walkdfspre(n) \/ t_walkdfspost(n) \/ t_walkdfsboth(n)
                            \/ t_walkdfsin(n) \/ t_walkbfspre(n) \/ t_walkbfspost(n)
                            \/ t_walkbfsboth(n)

WalkNext == t_walk \/ Walk \/ Finish

WalkSpec == WalkInit /\ [][WalkNext]_wVars

-----------------------------------------------------------------------------
(* Properties *)

\* The visits the documentation asks for, in the tree as the scripts left it:
\* <<act, node>>, below a node and level by level.
Pruned(n)   == \E i \in DOMAIN trace :
                 trace[i].node = n /\ trace[i].act = "enter" /\ trace[i].res = "prune"
Kept(n)     == IF Pruned(n) THEN <<>> ELSE kids[n]
RECURSIVE Depth1st(_, _)
Depth1st(order, n) ==
  LET sub == [i \in DOMAIN Kept(n) |-> Depth1st(order, Kept(n)[i])]
  IN  CASE order = "pre"  -> <<<<"enter", n>>>> \o FlattenSeq(sub)
        [] order = "post" -> FlattenSeq(sub) \o <<<<"leave", n>>>>
        [] order = "both" -> <<<<"enter", n>>>> \o FlattenSeq(sub) \o <<<<"leave", n>>>>
        [] order = "in"   -> IF Len(sub) > 1
                             THEN sub[1] \o <<<<"visit", n>>>> \o FlattenSeq(Tail(sub))
                             ELSE <<<<"visit", n>>>> \o FlattenSeq(sub)
RECURSIVE Levels(_)
Levels(ns) == IF ns = <<>> THEN <<>>
              ELSE ns \o Levels(FlattenSeq([i \in DOMAIN ns |-> Kept(ns[i])]))
Acts(act, ns) == [i \in DOMAIN ns |-> <<act, ns[i]>>]
Breadth1st(order) ==
  LET ns == Levels(<<Start>>)
  IN  CASE order = "pre"  -> Acts("enter", ns)
        [] order = "post" -> Acts("leave", Reverse(ns))
        [] order = "both" -> Acts("enter", ns) \o Acts("leave", Reverse(ns))
Documented == IF how.type = "dfs" THEN Depth1st(how.order, Start) ELSE Breadth1st(how.order)

Visits == [i \in DOMAIN trace |-> <<trace[i].act, trace[i].node>>]
Broken == \E i \in DOMAIN trace : trace[i].res \in Aborts
Illegal == how.order \in {"post", "in"} /\ \E i \in DOMAIN trace : trace[i].res = "prune"
EnterCut == /\ how = [type |-> "bfs", order |-> "both"]
            /\ \E i \in DOMAIN trace :
                 trace[i].act = "enter" /\ trace[i].res \in {"break", "return"}

\* A walk that has ended has called the script at the nodes, in the order and with
\* the actions the documentation names: at all of them unless a script ended the
\* walk, at the first of them otherwise, and nowhere else; children pruned, changed,
\* moved or added on entering are the ones walked to.  Excluded are the breadth
\* first walks in both orders in which a script answered break or return to an
\* entering: they are not what the documentation says, see NoneLeftUnentered and
\* ReturnAborts.
VisitsAsDocumented ==
  outcome \notin {"idle", "running"} /\ ~ EnterCut =>
    IF Illegal THEN outcome = "error" /\ IsPrefix(Visits, Documented)
    ELSE IF Broken THEN IsPrefix(Visits, Documented)
    ELSE outcome = "ok" /\ Visits = Documented

\* In a breadth first walk in both orders, those excluded above included, the nodes
\* that were entered are left in the reverse order of entering, all of them unless
\* the script failed or ended the leaving too.  It says nothing of the leaving of
\* other nodes, which is NoneLeftUnentered's.
Entered == LET e == SelectSeq(trace, LAMBDA v : v.act = "enter")
           IN  [i \in DOMAIN e |-> e[i].node]
Left    == LET l == SelectSeq(trace, LAMBDA v : v.act = "leave" /\ v.node \in ToSet(Entered))
           IN  [i \in DOMAIN l |-> l[i].node]
LeavesWhatWasEntered ==
  how = [type |-> "bfs", order |-> "both"] =>
    /\ IsPrefix(Left, Reverse(Entered))
    /\ outcome = "ok" /\ (\A i \in DOMAIN trace :
          trace[i].act = "leave" => trace[i].res \notin Aborts) => Left = Reverse(Entered)

\* A walk calls the script where the documentation says, but for the breadth first
\* walk in both orders whose entering was broken off (t_walkbfsboth), of which it
\* says only that it leaves what it entered, in reverse.
WalksAsDocumented == VisitsAsDocumented /\ LeavesWhatWasEntered

\* In a walk in both orders no node is left that was not entered before: "enter for
\* the first evaluation, and leave for the second" (struct_tree.man:618-621).  The
\* code breaks it: t_walkbfsboth stacks the children for the way back when it queues
\* them, and a break drops the queue only.
NoneLeftUnentered ==
  how.order = "both" =>
    \A i \in DOMAIN trace :
      trace[i].act = "leave" =>
        \E j \in 1..(i - 1) : trace[j].act = "enter" /\ trace[j].node = trace[i].node

\* Once a script has answered return no script is called any more: "return - abort
\* walking" (tree/walk.c:536, of t_walkbfsboth, which has another clause for break
\* and its way back).  The code breaks it: it treats the two alike.
ReturnAborts == \A i \in DOMAIN trace : trace[i].res = "return" => i = Len(trace)
=============================================================================

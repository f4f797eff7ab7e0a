------------------------------ MODULE GraphWalk ------------------------------
(***************************************************************************)
(* walk of struct::graph in C (modules/struct/graph/walk.c): a command     *)
(* runs at the nodes reachable from a node along the arcs, or against      *)
(* them; its answers steer the walk, and it may move and add arcs          *)
(* meanwhile.  (A command that deletes nodes is left out: the walk would   *)
(* go on with freed memory.)                                               *)
(*                                                                         *)
(* The recursive functions are a stack of what they still have to do,      *)
(* `todo`, with the copies of the neighbours they made; the breadth first  *)
(* one uses it as its queue.                                               *)
(***************************************************************************)
EXTENDS GraphStore

CONSTANTS WalkShapes,  \* graphs walked: sequences of arcs <<start, end>>
          WalkNodes,   \* how many nodes these have
          MaxOdd,      \* bound: answers other than ok
          MaxChanges   \* bound: changes by the command

ASSUME WalkAssumption == /\ {MaxOdd, MaxChanges, WalkNodes} \subseteq Nat
                         /\ WalkNodes \in 1 .. MaxNode
                         /\ WalkShapes \subseteq Seq((1 .. WalkNodes) \X (1 .. WalkNodes))

VARIABLES store,   \* the heap with the graph that is walked, graph 1
          how,     \* [type, order, dir] of the walk
          from,    \* the node it starts at
          todo,    \* tasks [do, node], the next one first
          v,       \* nodes visited
          nv,      \* by node, the neighbours walk_neighbours copied
          trace,   \* the calls of the command: [act, node, res]
          outcome, \* "idle", "running", or what the walk ended with
          changes  \* changes by the command

wVars == <<store, how, from, todo, v, nv, trace, outcome, changes>>

\* As g_walkoptions lets through: breadth first only pre.
Walks == {[type |-> t, order |-> o, dir |-> d] :
            t \in {"dfs", "bfs"}, o \in {"pre", "post", "both"}, d \in {"forward", "backward"}}
g_walkoptions(w) == w.type = "bfs" => w.order = "pre"

Tasks(do, ns) == [i \in DOMAIN ns |-> [do |-> do, node |-> ns[i]]]

\* Error and return are passed on, everything else is ok.
Ends(res) == /\ outcome' = IF res \in {"error", "return"} THEN res ELSE "ok"
             /\ todo' = <<>>

\* The nodes next to n in the walk's direction, once for every arc.
Neighbours(s, n) == IF how.dir = "backward" THEN [i \in DOMAIN s.in[n] |-> s.start[s.in[n][i]]]
                    ELSE [i \in DOMAIN s.out[n] |-> s.end[s.out[n][i]]]
walk_neighbours(s, n, seen) == SelectSeq(Neighbours(s, n), LAMBDA m : m \notin seen)

-----------------------------------------------------------------------------
(* The command *)

Moved(s) == LET ns == Live(s, "nodes")
                as == Live(s, "arcs")
            IN  {ga_mv_src(s, a, n) : a \in as, n \in ns}
                \cup {ga_mv_dst(s, a, n) : a \in as, n \in ns}
                \cup (IF HasRoom(s, "arcs", 1)
                      THEN {ga_new(s, 1, Fresh(s, "arcs"), m, n) : m, n \in ns} ELSE {})

walk_invoke(act, n, res) ==
  /\ Cardinality({i \in DOMAIN trace : trace[i].res /= "ok"}) + (IF res = "ok" THEN 0 ELSE 1)
       <= MaxOdd
  /\ trace' = Append(trace, [act |-> act, node |-> n, res |-> res])
  /\ \/ UNCHANGED <<store, changes>>
     \/ /\ changes < MaxChanges
        /\ store' \in Moved(store) \ {store}
        /\ changes' = changes + 1

Answers == {"ok", "continue", "break", "error", "return"}
Passes(res) == res \in {"ok", "continue"}

\* The call at the head of the stack or the queue is for a node not visited yet;
\* one for a node visited meanwhile is skipped.
AtHead(do, n) == /\ outcome = "running" /\ todo /= <<>>
                 /\ Head(todo) = [do |-> do, node |-> n]
\* Mutant: a node visited since it was queued is called again.
CallsAgain(do, n) == AtHead(do, n)

Calls(do, n)  == AtHead(do, n) /\ n \notin v
Skips(do, n)  == /\ AtHead(do, n) /\ n \in v
                 /\ todo' = Tail(todo)
                 /\ UNCHANGED <<store, v, nv, trace, outcome, changes>>

\* n is visited, and its neighbours found in the graph s are tasks before or after
\* what else is to do.
Visited(s, n) == /\ v' = v \cup {n}
                 /\ nv' = (n :> walk_neighbours(s, n, v \cup {n})) @@ nv
                 /\ UNCHANGED outcome
Then(ts)      == todo' = ts \o Tail(todo)
NotYet        == UNCHANGED <<v, nv>>

\* A node is entered and its neighbours are walked; then more is done.
Enter(do, n, more) ==
  /\ Calls(do, n)
  /\ \E res \in Answers :
       /\ walk_invoke("enter", n, res)
       /\ IF Passes(res) THEN Visited(store', n) /\ Then(Tasks(do, nv'[n]) \o more)
          ELSE Ends(res) /\ NotYet

\* A node is left.
Leave(do, n) ==
  /\ AtHead(do, n)
  /\ \E res \in Answers :
       /\ walk_invoke("leave", n, res)
       /\ NotYet
       /\ IF Passes(res) THEN Then(<<>>) /\ UNCHANGED outcome ELSE Ends(res)

walkdfspre(n) == Enter("pre", n, <<>>) \/ Skips("pre", n)

walkdfspost(n) ==
  \/ Skips("post", n)
  \/ /\ Calls("post", n)
     /\ Visited(store, n)
     /\ Then(Tasks("post", nv'[n]) \o Tasks("postleave", <<n>>))
     /\ UNCHANGED <<store, trace, changes>>
  \/ Leave("postleave", n)

walkdfsboth(n) == \/ Skips("both", n)
                  \/ Enter("both", n, Tasks("bothleave", <<n>>))
                  \/ Leave("bothleave", n)

walkbfspre(n) ==
  \/ Skips("bfs", n)
  \/ /\ Calls("bfs", n)
     /\ \E res \in Answers :
          /\ walk_invoke("enter", n, res)
          /\ IF Passes(res)
             THEN Visited(store', n) /\ todo' = Tail(todo) \o Tasks("bfs", nv'[n])
             ELSE Ends(res) /\ NotYet

-----------------------------------------------------------------------------
(* The walk *)

Built(arcs) ==
  LET nodes == FoldLeft(LAMBDA s, i : gn_new(s, 1, i), Store, [i \in 1 .. WalkNodes |-> i])
  IN  FoldLeft(LAMBDA s, e : ga_new(s, 1, Fresh(s, "arcs"), e[1], e[2]), nodes, arcs)

WalkInit == /\ store = Store
            /\ how = [type |-> "dfs", order |-> "pre", dir |-> "forward"] /\ from = 1
            /\ todo = <<>> /\ v = {} /\ nv = <<>> /\ trace = <<>>
            /\ outcome = "idle" /\ changes = 0

g_walk == /\ outcome = "idle"
          /\ how' \in {w \in Walks : g_walkoptions(w)}
          /\ from' \in 1 .. WalkNodes
          /\ store' \in {Built(arcs) : arcs \in WalkShapes}
          /\ todo' = Tasks(IF how'.type = "bfs" THEN "bfs" ELSE how'.order, <<from'>>)
          /\ outcome' = "running"
          /\ UNCHANGED <<v, nv, trace, changes>>

Finish == /\ outcome = "running" /\ todo = <<>>
          /\ Ends("ok")
          /\ UNCHANGED <<store, how, from, v, nv, trace, changes>>

WalkNext == \/ g_walk \/ Finish
            \/ /\ UNCHANGED <<how, from>>
               /\ \E n \in GN : walkdfspre(n) \/ walkdfspost(n) \/ walkdfsboth(n) \/ walkbfspre(n)

WalkSpec == WalkInit /\ [][WalkNext]_wVars

-----------------------------------------------------------------------------
(* Properties *)

Acted(act)  == LET t == SelectSeq(trace, LAMBDA e : e.act = act)
               IN  [i \in DOMAIN t |-> t[i].node]
Next2(m, n) == n \in ToSet(Neighbours(store, m))
ReachedFrom(m) ==
  LET step(S) == S \cup UNION {ToSet(Neighbours(store, n)) : n \in S}
      r[i \in 0 .. WalkNodes] == IF i = 0 THEN {m} ELSE step(r[i - 1])
  IN  r[WalkNodes]

\* s is an order a depth first, a breadth first search may find the nodes in: a
\* node passed over for another was found from later, from earlier.
Jumps(s, found(_, _, _)) ==
  \A a, b, c \in DOMAIN s :
    a < b /\ b < c /\ Next2(s[a], s[c]) /\ ~ Next2(s[a], s[b]) => found(s, a, b)
DepthFirst(s)   == Jumps(s, LAMBDA t, a, b : \E d \in a + 1 .. b - 1 : Next2(t[d], t[b]))
BreadthFirst(s) == Jumps(s, LAMBDA t, a, b : \E d \in 1 .. a - 1 : Next2(t[d], t[b]))

\* A node is left after the ones next to it, but for those that lead back to it.
LeftLast(s) == \A a, b \in DOMAIN s : a < b /\ Next2(s[a], s[b]) => s[a] \in ReachedFrom(s[b])

\* What is entered inside a node is left before it.
Nested(enter) == \A m, n \in ToSet(enter) :
  LET at(act, x) == CHOOSE i \in DOMAIN trace : trace[i].act = act /\ trace[i].node = x
  IN  at("enter", m) < at("enter", n) =>
        at("leave", m) < at("enter", n) \/ at("leave", n) < at("leave", m)

\* No walk visits a node twice, also not a neighbour that the command has moved: the
\* code asks before each visit whether the node was visited since.  The comment in
\* the code says otherwise, "If the node the neighbours is moved to was already
\* visited nothing else will happen.  Ortherwise the neighbours will be visited
\* multiple times" (graph/walk.c:312-318), and is wrong.  A walk that ends by itself
\* visits all nodes it found next to those it visited, and no others.  In a graph that
\* stays as it is these are the nodes that can be reached, found in depth first or
\* breadth first order, and left in the order the documentation names.
WalksAsDocumented ==
  /\ IsInjective(Acted("enter")) /\ IsInjective(Acted("leave"))
  /\ outcome = "ok" /\ (\A i \in DOMAIN trace : Passes(trace[i].res)) =>
       LET enter == Acted("enter")
           leave == Acted("leave")
           found == {from} \cup UNION {ToSet(nv[n]) : n \in DOMAIN nv}
       IN  /\ how.order /= "post" => ToSet(enter) = found
           /\ how.order = "post" => enter = <<>>
           /\ how.order /= "pre" => ToSet(leave) = found
           /\ how.order = "pre" => leave = <<>>
           /\ how.order = "both" => Nested(enter)
           /\ changes = 0 => /\ found = ReachedFrom(from)
                             /\ how.type = "bfs" => BreadthFirst(enter)
                             /\ how.type = "dfs" => DepthFirst(enter)
                             /\ how.order /= "pre" => LeftLast(leave)
  /\ \A i \in DOMAIN trace : ~ Passes(trace[i].res) =>
       i = Len(trace) /\ outcome = IF trace[i].res = "break" THEN "ok" ELSE trace[i].res
=============================================================================

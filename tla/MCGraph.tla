------------------------------ MODULE MCGraph ------------------------------
(***************************************************************************)
(* Graphs and hooks for TLC.  Both call the program back while they go     *)
(* through what the program changes meanwhile: the walk of a graph its     *)
(* nodes, the call of a hook its observers.  They have no state in common: *)
(* a behaviour is one of the methods of two graphs, a walk of one, or the  *)
(* use of hooks.                                                           *)
(*                                                                         *)
(* The graphs are those of up to three nodes and two arcs, some with       *)
(* attributes and weights, and lists that are no graph; queries have every *)
(* restriction, alone and together; graphs to walk have loops, arcs side   *)
(* by side, circles, several ways to a node.                               *)
(***************************************************************************)
EXTENDS GraphProperties, GraphWalk, Hook

Plain(x, ref)  == [name |-> x, ref |-> ref, attr |-> <<>>, weight |-> NoWeight]
Rich(x, ref)   == [name |-> x, ref |-> ref, attr |-> <<[key |-> "k", value |-> <<>>]>>, weight |-> 1]
Node(x, arcs)  == [name |-> x, attr |-> <<>>, arcs |-> arcs]
RichNode(x, arcs) == [name |-> x, attr |-> <<[key |-> "k", value |-> <<"i">>],
                                            [key |-> "k", value |-> <<>>]>>, arcs |-> arcs]
Whole(nodes)   == [nodes |-> nodes, attr |-> <<>>]
NodeNames      == <<"a", "b", "c">>

\* The arcs src of which e leaves from node i.
Leaving(e, i) == LET a == IF 1 \in DOMAIN e /\ e[1][1] = i THEN <<Plain("r", 3 * (e[1][2] - 1))>> ELSE <<>>
                     b == IF 2 \in DOMAIN e /\ e[2][1] = i THEN <<Rich("s", 3 * (e[2][2] - 1))>> ELSE <<>>
                 IN  a \o b
GraphOf(n, e) == Whole([i \in 1 .. n |-> Node(NodeNames[i], Leaving(e, i))])
Pairs(n) == (1 .. n) \X (1 .. n)

MCSerials ==
  {GraphOf(n, <<>>) : n \in 0 .. 3}
  \cup {GraphOf(2, <<p>>) : p \in {<<1, 2>>, <<2, 1>>}} \cup {GraphOf(2, <<<<1, 1>>, q>>) : q \in Pairs(2)}
  \cup {GraphOf(3, <<<<1, 2>>, q>>) : q \in Pairs(3)}
  \cup {
   [nodes |-> <<RichNode("b", <<Rich("r", 0)>>)>>, attr |-> <<[key |-> "k", value |-> <<"i">>]>>],
   \* no list; an attribute without value; references between nodes, before, after
   \* and just after them; names twice
   Malformed,
   [nodes |-> <<>>, attr |-> Malformed],
   Whole(<<[name |-> "a", attr |-> Malformed, arcs |-> <<>>]>>),
   Whole(<<Node("a", <<Malformed>>)>>),
   Whole(<<Node("a", <<Plain("r", 1)>>)>>), Whole(<<Node("a", <<Plain("r", -3)>>)>>),
   Whole(<<Node("a", <<Plain("r", 6)>>)>>), Whole(<<Node("a", <<Plain("r", 3)>>)>>),
   Whole(<<Node("a", <<>>), Node("a", <<>>)>>),
   Whole(<<Node("a", <<Plain("r", 3)>>), Node("b", <<Plain("r", 0)>>)>>)}

MCGenerated == [nodes |-> <<"n1", "c">>, arcs |-> <<"r", "s">>]
MCCommand == [odd |-> {"a", "c", "r"}]
MCValueOf == [v |-> <<"i">>]

\* What a query asks for, and how it is said.
Query(words, mode, names, key, value, cmd) ==
  [words |-> words, mode |-> mode, names |-> names, key |-> key, value |-> value, cmd |-> cmd,
   legal |-> TRUE]
Wrong(words) == [Query(words, "", <<>>, "", "", "") EXCEPT !.legal = FALSE]
MCQueries ==
  {Query(<<m>> \o xs, m, xs, "", "", "") : m \in Modes,
      xs \in {<<"a">>, <<"b">>, <<"a", "b">>, <<"b", "a", "b">>, <<"a", "b", "c">>}}
  \cup {Query(<<"-key", "k", m, "a", "b", "-value", "v">>, m, <<"a", "b">>, "k", "v", "") : m \in Modes}
  \cup {Query(<<>>, "", <<>>, "", "", ""), Query(<<"-key", "k">>, "", <<>>, "k", "", ""),
        Query(<<"-filter", "odd">>, "", <<>>, "", "", "odd"),
        Query(<<"-filter", "odd", "-adj", "a", "-key", "k">>, "-adj", <<"a">>, "k", "", "odd"),
        \* after -out a word with a dash is a node, of which there is none
        Query(<<"-out", "a", "-n">>, "-out", <<"a", "-n">>, "", "", "")}
  \cup {Wrong(w) : w \in {<<"-key">>, <<"-in">>, <<"-n">>, <<"-value", "v">>, <<"-in", "a", "-out", "b">>,
        <<"-key", "k", "-key", "k">>, <<"-in", "a", "-key", "k", "-n">>, <<"-in", "-filter", "odd">>}}

MCWalkShapes ==
  {<<>>, <<<<1, 2>>, <<1, 2>>, <<2, 2>>>>, <<<<1, 2>>, <<2, 3>>, <<3, 1>>>>,
   <<<<1, 2>>, <<1, 3>>, <<2, 3>>>>, <<<<1, 2>>, <<1, 3>>, <<2, 4>>, <<3, 4>>>>,
   <<<<1, 2>>, <<2, 3>>, <<1, 4>>, <<4, 3>>>>, <<<<1, 2>>, <<2, 1>>, <<2, 3>>, <<3, 4>>>>}

\* Hooks: two entities, each of which may be a subject, an observer, or both; the
\* name that is generated is one of them.
CONSTANTS ent1, ent2
MCAuto == <<ent2>>

-----------------------------------------------------------------------------

VARIABLE used  \* what the behaviour is about

CallbacksInit ==
  /\ used \in {"graph", "walk", "hook"}
  /\ GraphInit /\ WalkInit /\ HookInit

CallbacksNext ==
  /\ UNCHANGED used
  /\ \/ used = "graph" /\ GraphNext /\ UNCHANGED <<wVars, hVars>>
     \/ used = "walk"  /\ WalkNext  /\ UNCHANGED <<gVars, hVars>>
     \/ used = "hook"  /\ HookNext  /\ UNCHANGED <<gVars, wVars>>

CallbacksSpec == CallbacksInit /\ [][CallbacksNext]_<<used, gVars, wVars, hVars>>
=============================================================================

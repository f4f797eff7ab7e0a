---------------------------- MODULE GraphFilter ----------------------------
(***************************************************************************)
(* The queries arcs and nodes of struct::graph in C                        *)
(* (modules/struct/graph/filter.c): the words after the method restrict    *)
(* the answer to what touches some nodes, has an attribute, with a value,  *)
(* or is kept by a command of the program, in this order.  Where the code  *)
(* stops looking once the answer holds everything there is, it would find  *)
(* nothing more; that is left out.                                         *)
(***************************************************************************)
EXTENDS GraphStore

CONSTANTS Command,  \* by command of the program, the names it keeps
          ValueOf   \* by word, the value of an attribute it stands for

\* The options that restrict by nodes, and those with one argument.
Modes   == {"-adj", "-embedding", "-in", "-inner", "-out"}
WithArgument == {"-key", "-value", "-filter"}
Dashed(w) == w \in Modes \cup WithArgument \cup {"-other", "-n"}

None       == [ok |-> FALSE, value |-> 0]
Ok(answer) == [ok |-> TRUE, value |-> answer]

Once(cs) == FoldLeft(LAMBDA s, c : IF c \in ToSet(s) THEN s ELSE Append(s, c), <<>>, cs)

\* The words read so far: what they ask for, the option that waits for its
\* argument, whether nodes may follow, and whether they make no sense.
NoRestriction == [mode |-> "", names |-> <<>>, key |-> "", value |-> "", cmd |-> "",
                  waits |-> "", seenodes |-> FALSE, bad |-> FALSE]

Argument(na, w) ==
  LET to == [na EXCEPT !.waits = "", !.seenodes = FALSE]
  IN  CASE na.waits = "-key"    -> [to EXCEPT !.key = w]
        [] na.waits = "-value"  -> [to EXCEPT !.value = w]
        [] na.waits = "-filter" -> [to EXCEPT !.cmd = w]

Given(na, w) == \/ w = "-key" /\ na.key /= ""
                \/ w = "-value" /\ na.value /= ""
                \/ w = "-filter" /\ na.cmd /= ""

Word(na, w) ==
  IF na.bad THEN na
  ELSE IF na.waits /= "" THEN Argument(na, w)
  ELSE IF w \in Modes THEN [na EXCEPT !.bad = na.mode /= "", !.mode = w, !.seenodes = TRUE]
  ELSE IF w \in WithArgument THEN [na EXCEPT !.bad = Given(na, w), !.waits = w]
  ELSE IF Dashed(w) /\ ~ na.seenodes THEN [na EXCEPT !.bad = TRUE]
  ELSE [na EXCEPT !.names = Append(@, w)]

\* What the words ask for; its nodes exist and are there once.
filter_setup(h, g, words) ==
  LET na    == FoldLeft(Word, NoRestriction, words)
      nodes == [i \in DOMAIN na.names |-> gn_get_node(h, g, na.names[i])]
      bad   == \/ na.bad \/ na.waits /= ""
               \/ na.value /= "" /\ na.key = ""
               \/ na.mode /= "" /\ na.names = <<>>
               \/ 0 \in ToSet(nodes)
  IN  [na EXCEPT !.bad = bad, !.names = Once(nodes)]

-----------------------------------------------------------------------------
(* By the nodes ns: sequences of arcs, of nodes *)

AllOf(chain, ns) == FlattenSeq([i \in DOMAIN ns |-> chain[ns[i]]])
In(h, ns)        == AllOf(h.in, ns)
Out(h, ns)       == AllOf(h.out, ns)
Less(s, t)       == SelectSeq(s, LAMBDA c : c \notin ToSet(t))

filter_mode_a_in(h, ns)  == In(h, ns)
filter_mode_a_out(h, ns) == Out(h, ns)
filter_mode_a_adj(h, ns) == In(h, ns) \o Less(Out(h, ns), In(h, ns))
filter_mode_a_inn(h, ns) == SelectSeq(Out(h, ns), LAMBDA a : a \in ToSet(In(h, ns)))
\* Mutant: only the arcs that come in.
EmbeddingIn(h, ns) == Less(In(h, ns), Out(h, ns))

filter_mode_a_emb(h, ns) == Less(In(h, ns), Out(h, ns)) \o Less(Out(h, ns), In(h, ns))

filter_mode_a(h, mode, ns) == CASE mode = "-adj"       -> filter_mode_a_adj(h, ns)
                                [] mode = "-embedding" -> filter_mode_a_emb(h, ns)
                                [] mode = "-in"        -> filter_mode_a_in(h, ns)
                                [] mode = "-inner"     -> filter_mode_a_inn(h, ns)
                                [] mode = "-out"       -> filter_mode_a_out(h, ns)

Sources(h, as) == [i \in DOMAIN as |-> h.start[as[i]]]
Targets(h, as) == [i \in DOMAIN as |-> h.end[as[i]]]

filter_mode_n_in(h, ns)  == Once(Sources(h, In(h, ns)))
filter_mode_n_out(h, ns) == Once(Targets(h, Out(h, ns)))
filter_mode_n_adj(h, ns) ==
  Once(FlattenSeq([i \in DOMAIN ns |-> Sources(h, h.in[ns[i]]) \o Targets(h, h.out[ns[i]])]))
filter_mode_n_emb(h, ns) == Less(filter_mode_n_adj(h, ns), ns)
filter_mode_n_inn(h, ns) == SelectSeq(filter_mode_n_adj(h, ns), LAMBDA n : n \in ToSet(ns))

filter_mode_n(h, mode, ns) == CASE mode = "-adj"       -> filter_mode_n_adj(h, ns)
                                [] mode = "-embedding" -> filter_mode_n_emb(h, ns)
                                [] mode = "-in"        -> filter_mode_n_in(h, ns)
                                [] mode = "-inner"     -> filter_mode_n_inn(h, ns)
                                [] mode = "-out"       -> filter_mode_n_out(h, ns)

-----------------------------------------------------------------------------
(* By attribute and command: l is what is left *)

filter_none(h, g, k) == Chain(h, g, k)
filter_k(h, l, key)  == SelectSeq(l, LAMBDA c : key \in DOMAIN h.attr[c])
filter_kv(h, l, key, value) == SelectSeq(filter_k(h, l, key), LAMBDA c : h.attr[c][key] = value)

\* The command runs when something is left; an unknown one fails.
filter_cmd(h, l, cmd) ==
  IF l = <<>> THEN Ok(l)
  ELSE IF cmd \notin DOMAIN Command THEN None
  ELSE Ok(SelectSeq(l, LAMBDA c : h.name[c] \in Command[cmd]))

filter_run(h, g, k, na) ==
  LET byNode == IF na.mode = "" THEN filter_none(h, g, k)
                ELSE IF k = "nodes" THEN filter_mode_n(h, na.mode, na.names)
                ELSE filter_mode_a(h, na.mode, na.names)
      byKey  == IF na.key = "" THEN byNode
                ELSE IF na.value = "" THEN filter_k(h, byNode, na.key)
                ELSE filter_kv(h, byNode, na.key, ValueOf[na.value])
  IN  IF Chain(h, g, k) = <<>> THEN Ok(<<>>)
      ELSE IF na.cmd = "" THEN Ok(byKey)
      ELSE filter_cmd(h, byKey, na.cmd)

\* The names arcs and nodes answer with.
gc_filter(h, g, k, words) ==
  LET na  == filter_setup(h, g, words)
      run == filter_run(h, g, k, na)
  IN  IF na.bad THEN None
      ELSE IF run.ok THEN Ok([i \in DOMAIN run.value |-> h.name[run.value[i]]])
      ELSE None
=============================================================================

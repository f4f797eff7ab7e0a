---------------------------- MODULE MCCommCalls ----------------------------
(***************************************************************************)
(* Comm for TLC, with synchronous sends that must return: two to each      *)
(* process over one connection, or one over crossed and reopened ones,     *)
(* whose results may be promised for later.  Two of each at once have too  *)
(* many states.                                                            *)
(***************************************************************************)
EXTENDS Comm

VARIABLE shape

\* It restrains what scripts ask for, which nothing is fair to: no step of an event
\* loop opens a connection, sends, or promises a result.
Within ==
  CASE shape = "nested"  -> /\ \A c \in Conn \ {1} : link[c] = NoLink
                            /\ \A p \in Proc : futures[p] = {}
    [] shape = "crossed" -> \A p \in Proc : serial[p] <= 1

CallsSpec ==
  /\ Init /\ shape \in {"nested", "crossed"}
  /\ [][UNCHANGED shape /\ Next /\ Within']_<<vars, shape>> /\ Fairness
=============================================================================

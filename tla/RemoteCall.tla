---------------------------- MODULE RemoteCall ----------------------------
(***************************************************************************)
(* What 'comm send' promises, without connections, messages or event       *)
(* loops: a process numbers its calls; each is executed at most once, by   *)
(* the process it was sent to, possibly after its caller has given up; a   *)
(* call that waits ends at most once, with an answer only if it was        *)
(* executed, and the waiting calls of one process end in the order         *)
(* opposite to the one in which they were made.                            *)
(***************************************************************************)
EXTENDS Integers

CONSTANTS Proc, MaxSerial

Ser == 1 .. MaxSerial

VARIABLES
  made,      \* p -> how many calls p has made
  waiting,   \* p -> the calls p waits for
  executed,  \* p -> the calls of p that have been executed
  outcome    \* p -> serial -> how the call ended: "none", "answer", "lost"
vars == <<made, waiting, executed, outcome>>

Init ==
  /\ made     = [p \in Proc |-> 0]
  /\ waiting  = [p \in Proc |-> {}]
  /\ executed = [p \in Proc |-> {}]
  /\ outcome  = [p \in Proc |-> [s \in Ser |-> "none"]]

\* p makes its next call, and waits for it or not.
Make(p) ==
  /\ made[p] < MaxSerial
  /\ made' = [made EXCEPT ![p] = @ + 1]
  /\ waiting' \in {waiting, [waiting EXCEPT ![p] = @ \cup {made'[p]}]}
  /\ UNCHANGED <<executed, outcome>>

Execute(p, s) ==
  /\ s <= made[p] /\ s \notin executed[p]
  /\ executed' = [executed EXCEPT ![p] = @ \cup {s}]
  /\ UNCHANGED <<made, waiting, outcome>>

\* The last of the calls p waits for ends.
End(p, s) ==
  /\ s \in waiting[p] /\ \A t \in waiting[p] : t <= s
  /\ \E o \in {"lost"} \cup (IF s \in executed[p] THEN {"answer"} ELSE {}) :
       outcome' = [outcome EXCEPT ![p][s] = o]
  /\ waiting' = [waiting EXCEPT ![p] = @ \ {s}]
  /\ UNCHANGED <<made, executed>>

\* p dies and waits no more.
Stop(p) ==
  /\ waiting' = [waiting EXCEPT ![p] = {}]
  /\ UNCHANGED <<made, executed, outcome>>

Next == \E p \in Proc :
  \/ Make(p) \/ Stop(p)
  \/ \E s \in Ser : Execute(p, s) \/ End(p, s)

Spec == Init /\ [][Next]_vars
=============================================================================

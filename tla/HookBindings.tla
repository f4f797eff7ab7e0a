---------------------------- MODULE HookBindings ----------------------------
(***************************************************************************)
(* What modules/hook promises of its bindings, apart from how it finds     *)
(* them: one table.                                                        *)
(***************************************************************************)
EXTENDS Integers

CONSTANTS Entity, HookName, Prefix, Unbound

VARIABLE binding  \* <<s, h, o>> -> the command prefix of o for the hook h of s, or Unbound

Slot == Entity \X HookName \X Entity

Init == binding = [x \in Slot |-> Unbound]

\* "Called with four arguments, it creates, updates, or deletes a binding."
Bind == \E x \in Slot, b \in Prefix \cup {Unbound} : binding' = [binding EXCEPT ![x] = b]

\* "deletes any existing bindings in which the named object appears as either
\* the subject or the observer"
Forget ==
  \E z \in Entity :
    binding' = [x \in Slot |-> IF z \in {x[1], x[3]} THEN Unbound ELSE binding[x]]

Spec == Init /\ [][Bind \/ Forget]_binding
=============================================================================

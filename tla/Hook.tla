-------------------------------- MODULE Hook --------------------------------
(***************************************************************************)
(* Hooks and their observers: modules/hook/hook.tcl.                       *)
(*                                                                         *)
(* Observers bind command prefixes to the hooks of subjects; a subject     *)
(* calls a hook, and every observer is called, one after the other, before *)
(* the call returns.  What is called is a script: it binds, deletes and    *)
(* forgets bindings, of the hook under way as well, changes the options,   *)
(* calls hooks in its turn, and may end with an error, or with one of the  *)
(* other codes of Tcl: return, break, continue.  The bindings are kept in  *)
(* two nested dictionaries, by subject and by observer; a dictionary is a  *)
(* function here, with the keys it has as its domain, and its order, which *)
(* the package does not promise, is left open.                             *)
(***************************************************************************)
EXTENDS Integers, Sequences

CONSTANTS
  Entity,    \* names of subjects and of observers
  HookName,  \* names of hooks
  Prefix,    \* command prefixes
  AutoName,  \* the names of generated observers, in their order
  Unbound,   \* no binding
  Nobody,    \* no observer
  MaxHookDepth,  \* bound: calls under way inside each other
  MaxHookEdits  \* bound: changes of the bindings and the options

ASSUME AutoAssumption == AutoName \in Seq(Entity)
ASSUME HookNoneAssumption == Unbound \notin Prefix /\ Nobody \notin Entity
ASSUME HookBoundAssumption == MaxHookDepth \in Nat /\ MaxHookEdits \in Nat

VARIABLES
  sdict,    \* subject -> hook -> observer -> binding
  odict,    \* observer -> subject -> the hooks
  counter,  \* observerCounter
  handled,  \* the option -errorcommand is set
  traced,   \* the option -tracecommand is set
  calls,    \* the calls under way, the innermost last
  hookEdits \* how many changes were made

hVars == <<sdict, odict, counter, handled, traced, calls, hookEdits>>

\* A call: the observers still to be looked at, those called, the observer and
\* the prefix of the script that runs ("binding"; "error" and "trace" are the
\* commands of the options, "loop" is between two scripts), whether its errors
\* are caught.  History: the observers at its start, those of them that lost no
\* binding since, whether a script broke the loop off.
Phase == {"loop", "binding", "error", "trace"}
CallOf == [subject : Entity, hook : HookName, todo : SUBSET Entity, called : SUBSET Entity,
           phase : Phase, current : Entity \cup {Nobody}, prefix : Prefix \cup {Unbound},
           caught : BOOLEAN, first : SUBSET Entity, due : SUBSET Entity, broken : BOOLEAN]

\* How a script ends that does not return normally.
Exceptional == {"error", "return", "break", "continue"}

---------------------------------------------------------------------------
(***************************************************************************)
(* Dictionaries.                                                           *)
(***************************************************************************)

Empty == [k \in {} |-> k]
Keys(d) == DOMAIN d
At(d, k) == IF k \in DOMAIN d THEN d[k] ELSE Empty
Put(d, k, v) == [x \in DOMAIN d \cup {k} |-> IF x = k THEN v ELSE d[x]]
Unset(d, k) == [x \in DOMAIN d \ {k} |-> d[x]]

\* dict exists sdict s h o, dict exists odict o s h
HasBinding(s, h, o)   == o \in Keys(At(At(sdict, s), h))
Indexed(o, s, h) == h \in Keys(At(At(odict, o), s))

\* hook bind s h o
BindingOf(s, h, o) == IF HasBinding(s, h, o) THEN sdict[s][h][o] ELSE Unbound

HookInit ==
  /\ sdict = Empty /\ odict = Empty
  /\ counter = 0
  /\ handled = FALSE /\ traced = FALSE
  /\ calls = <<>>
  /\ hookEdits = 0

---------------------------------------------------------------------------

TopCall == calls[Len(calls)]
WithTop(c) == [calls EXCEPT ![Len(calls)] = c]

\* A script runs: the application's own, or one that a call has started.
ScriptRuns == calls # <<>> => TopCall.phase # "loop"

\* The observers D of hook h of s lose their bindings (history).
Deleting(s, h, D) ==
  [i \in DOMAIN calls |->
     IF calls[i].subject = s /\ calls[i].hook = h
       THEN [calls[i] EXCEPT !.due = @ \ D] ELSE calls[i]]

\* Mutant of HookBind: the observers of the hook are replaced, in one dictionary.
BindAlone(s, h, o, b) ==
  /\ ScriptRuns /\ hookEdits < MaxHookEdits /\ hookEdits' = hookEdits + 1
  /\ sdict' = Put(sdict, s, Put(At(sdict, s), h, Put(Empty, o, b)))
  /\ odict' = Put(odict, o, Put(At(odict, o), s, Put(At(At(odict, o), s), h, 1)))
  /\ UNCHANGED <<handled, traced, calls>>

\* hook bind s h o b
HookBind(s, h, o, b) ==
  /\ ScriptRuns /\ hookEdits < MaxHookEdits /\ hookEdits' = hookEdits + 1
  /\ sdict' = Put(sdict, s, Put(At(sdict, s), h, Put(At(At(sdict, s), h), o, b)))
  /\ odict' = Put(odict, o, Put(At(odict, o), s, Put(At(At(odict, o), s), h, 1)))
  /\ UNCHANGED <<handled, traced, calls>>

BindNamed(s, h, o, b) == HookBind(s, h, o, b) /\ UNCHANGED counter

\* hook bind s h "" b
BindAuto(s, h, b) ==
  /\ counter < Len(AutoName) /\ counter' = counter + 1
  /\ HookBind(s, h, AutoName[counter + 1], b)

\* Mutant of Delete: the observers' dictionary is not told.
DeleteOneSide(s, h, o) ==
  /\ ScriptRuns /\ hookEdits < MaxHookEdits /\ hookEdits' = hookEdits + 1
  /\ sdict' = IF ~HasBinding(s, h, o) THEN sdict
              ELSE Put(sdict, s, Put(sdict[s], h, Unset(sdict[s][h], o)))
  /\ calls' = Deleting(s, h, {o})
  /\ UNCHANGED <<odict, counter, handled, traced>>

\* hook bind s h o "": the dictionaries that become empty stay.
Delete(s, h, o) ==
  /\ ScriptRuns /\ hookEdits < MaxHookEdits /\ hookEdits' = hookEdits + 1
  /\ sdict' = IF ~HasBinding(s, h, o) THEN sdict
              ELSE Put(sdict, s, Put(sdict[s], h, Unset(sdict[s][h], o)))
  /\ odict' = IF ~Indexed(o, s, h) THEN odict
              ELSE Put(odict, o, Put(odict[o], s, Unset(odict[o][s], h)))
  /\ calls' = Deleting(s, h, {o})
  /\ UNCHANGED <<counter, handled, traced>>

\* The first loop of forget takes z as a subject out of the dictionaries of its
\* observers, which it finds in sdict.
UnsetAsSubject(z) ==
  [o \in DOMAIN odict |-> [s \in DOMAIN odict[o] |->
     IF s # z THEN odict[o][s]
     ELSE [h \in {g \in DOMAIN odict[o][s] : ~HasBinding(z, g, o)} |-> odict[o][s][h]]]]

\* The second takes z as an observer out of sdict, by what the first left of its index.
UnsetAsObserver(z, index) ==
  [s \in DOMAIN sdict |-> [h \in DOMAIN sdict[s] |->
     IF h \in Keys(At(At(index, z), s)) THEN Unset(sdict[s][h], z) ELSE sdict[s][h]]]

\* hook forget z.  dict unset fails at a path that is not there, see IndexAgrees.
Forget(z) ==
  /\ ScriptRuns /\ hookEdits < MaxHookEdits /\ hookEdits' = hookEdits + 1
  /\ odict' = Unset(UnsetAsSubject(z), z)
  /\ sdict' = Unset(UnsetAsObserver(z, UnsetAsSubject(z)), z)
  /\ calls' = [i \in DOMAIN calls |->
       [calls[i] EXCEPT !.due = IF calls[i].subject = z THEN {} ELSE @ \ {z}]]
  /\ UNCHANGED <<counter, handled, traced>>

\* hook configure
Configure(e, t) ==
  /\ ScriptRuns /\ hookEdits < MaxHookEdits /\ hookEdits' = hookEdits + 1
  /\ handled' = e /\ traced' = t
  /\ UNCHANGED <<sdict, odict, counter, calls>>

---------------------------------------------------------------------------
(***************************************************************************)
(* hook call                                                               *)
(***************************************************************************)

\* The observers are those of the moment of the call.
Call(s, h) ==
  /\ ScriptRuns /\ Len(calls) < MaxHookDepth
  /\ LET O == Keys(At(At(sdict, s), h))
     IN calls' = Append(calls,
          [subject |-> s, hook |-> h, todo |-> O, called |-> {}, phase |-> "loop",
           current |-> Nobody, prefix |-> Unbound, caught |-> FALSE,
           first |-> O, due |-> O, broken |-> FALSE])
  /\ UNCHANGED <<sdict, odict, counter, handled, traced, hookEdits>>

Looping == calls # <<>> /\ TopCall.phase = "loop"

\* Mutant of StillBound: it is not asked.
BoundAtStart(s, h, o) == TRUE

\* The binding still exists.
StillBound(s, h, o) == HasBinding(s, h, o)

\* The next observer: skipped, or called with what is bound now.
NextObserver(o) ==
  /\ Looping /\ o \in TopCall.todo
  /\ calls' = WithTop(
       IF StillBound(TopCall.subject, TopCall.hook, o)
         THEN [TopCall EXCEPT !.todo = @ \ {o}, !.called = @ \cup {o}, !.phase = "binding",
                          !.current = o, !.prefix = BindingOf(TopCall.subject, TopCall.hook, o),
                          !.caught = handled]
         ELSE [TopCall EXCEPT !.todo = @ \ {o}])
  /\ UNCHANGED <<sdict, odict, counter, handled, traced, hookEdits>>

\* Mutant of Back: an error ends the loop, also when it is handled.
BackAtError ==
  [TopCall EXCEPT !.phase = "loop", !.current = Nobody, !.prefix = Unbound, !.caught = FALSE,
                  !.todo = IF TopCall.phase = "error" THEN {} ELSE @]

\* The call goes on with its loop.
Back == [TopCall EXCEPT !.phase = "loop", !.current = Nobody, !.prefix = Unbound, !.caught = FALSE]

\* The call returns to the script that made it.
LeaveCall == calls' = SubSeq(calls, 1, Len(calls) - 1)

\* All observers were looked at: the trace, or the end.
LoopEnds ==
  /\ Looping /\ TopCall.todo = {}
  /\ IF traced
       THEN calls' = WithTop([TopCall EXCEPT !.phase = "trace"])
       ELSE LeaveCall
  /\ UNCHANGED <<sdict, odict, counter, handled, traced, hookEdits>>

\* The script of a call ends.
ScriptReturns ==
  /\ calls # <<>> /\ TopCall.phase # "loop"
  /\ IF TopCall.phase = "trace" THEN LeaveCall ELSE calls' = WithTop(Back)
  /\ UNCHANGED <<sdict, odict, counter, handled, traced, hookEdits>>

\* Whatever a binding ends with is passed to the -errorcommand, if there was one
\* when the binding was called, and there is one still.
Handles == TopCall.phase = "binding" /\ TopCall.caught /\ handled

\* The loop itself runs the script: a binding that is not caught, the -errorcommand.
\* Where the -errorcommand was taken away meanwhile, its call is an error.
InLoop == TopCall.phase = "error" \/ (TopCall.phase = "binding" /\ ~TopCall.caught)

\* The loop is broken off; the trace comes next, and the call returns normally.
BrokenOff == [Back EXCEPT !.todo = {}, !.broken = TRUE]

\* The script ends with a code of its own.  The loop obeys break and continue as
\* any loop; everything else ends the call, and the script that called may catch it.
ScriptFails(code) ==
  /\ calls # <<>> /\ TopCall.phase # "loop"
  /\ \/ Handles /\ calls' = WithTop([TopCall EXCEPT !.phase = "error"])
     \/ InLoop /\ code = "continue" /\ calls' = WithTop(Back)
     \/ InLoop /\ code = "break" /\ calls' = WithTop(BrokenOff)
     \/ ~Handles /\ (~InLoop \/ code \in {"error", "return"}) /\ LeaveCall
  /\ UNCHANGED <<sdict, odict, counter, handled, traced, hookEdits>>

HookNext ==
  \/ \E s \in Entity, h \in HookName :
       \/ Call(s, h)
       \/ \E b \in Prefix : BindAuto(s, h, b)
       \/ \E o \in Entity : Delete(s, h, o) \/ \E b \in Prefix : BindNamed(s, h, o, b)
  \/ \E z \in Entity : Forget(z) \/ NextObserver(z)
  \/ \E e, t \in BOOLEAN : Configure(e, t)
  \/ LoopEnds \/ ScriptReturns
  \/ \E code \in Exceptional : ScriptFails(code)

HookSpec == HookInit /\ [][HookNext]_hVars

---------------------------------------------------------------------------
(***************************************************************************)
(* Properties.                                                             *)
(***************************************************************************)

\* The shape of the state.
HookTypeOK ==
  /\ sdict \in UNION {[S -> UNION {[H -> UNION {[O -> Prefix] : O \in SUBSET Entity}] :
                                   H \in SUBSET HookName}] : S \in SUBSET Entity}
  /\ odict \in UNION {[O -> UNION {[S -> UNION {[H -> {1}] : H \in SUBSET HookName}] :
                                   S \in SUBSET Entity}] : O \in SUBSET Entity}
  /\ counter \in 0 .. Len(AutoName)
  /\ handled \in BOOLEAN /\ traced \in BOOLEAN
  /\ calls \in Seq(CallOf) /\ Len(calls) <= MaxHookDepth
  /\ hookEdits \in 0 .. MaxHookEdits

\* The two dictionaries know the same bindings, in whatever way they were made
\* and deleted.  Then every path that forget unsets is there, as dict unset
\* demands, and "no error is raised".
IndexAgrees ==
  \A s \in Entity, h \in HookName, o \in Entity : HasBinding(s, h, o) <=> Indexed(o, s, h)

\* What the commands do to the two dictionaries is what they promise to do to
\* one table of bindings: forget deletes all of an object, and nothing else.
Table == INSTANCE HookBindings
  WITH binding <- [x \in Entity \X HookName \X Entity |-> BindingOf(x[1], x[2], x[3])]
TableSpec == Table!Spec

\* A call that comes to the end of its loop, where no binding and no -errorcommand
\* broke the loop off, has called every observer of its start that lost no binding
\* since: whatever the scripts did to the others, errors that were handled, scripts
\* that ended with continue.  An error that is not handled, or a return, ends the
\* call at once, "errors and other exceptional returns propagate normally".
EveryoneIsCalled ==
  [][/\ Len(calls') < Len(calls) /\ TopCall.phase \in {"loop", "trace"}
     /\ ~TopCall.broken
     => TopCall.due \subseteq TopCall.called]_hVars

\* "All bindings are called before the call returns": also of a call that
\* a script broke off.  Its break is not passed on, the call returns normally, and
\* the caller cannot know that observers were left out.
AllBeforeReturn ==
  [][Len(calls') < Len(calls) /\ TopCall.phase \in {"loop", "trace"} =>
       TopCall.due \subseteq TopCall.called]_hVars

\* The three rules for bindings that change during a call: nobody is called who
\* was not bound when it began, or was called before, or is not bound any more;
\* "the most recently given command prefix is always used".
CallRules ==
  [][\A i \in DOMAIN calls \cap DOMAIN calls' :
       calls[i].phase = "loop" /\ calls'[i].phase = "binding" =>
         LET c == calls'[i]
         IN /\ c.current \in c.first \ calls[i].called
            /\ c.prefix = BindingOf(c.subject, c.hook, c.current) /\ c.prefix # Unbound]_hVars
=============================================================================

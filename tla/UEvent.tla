------------------------------- MODULE UEvent -------------------------------
(***************************************************************************)
(* Observers of user events, and watchers of who observes what:            *)
(* modules/uev/uevent.tcl.                                                 *)
(*                                                                         *)
(* Commands are bound to events of tags; a token stands for each binding.  *)
(* Watchers are told when a tag, or an event of a tag, gets its first      *)
(* binding and when it loses its last.  They are called at once, from      *)
(* inside of bind, unbind and the command that adds them, and are scripts  *)
(* that bind, unbind, add and remove watchers in their turn, or fail.      *)
(* What is thrown leaves the command that called the watcher.              *)
(***************************************************************************)
EXTENDS Integers, Sequences, FiniteSets, SequencesExt

CONSTANTS
  Tag, EventName, Command,
  Pattern,   \* patterns of watchers: each the set of the tags, or of the events of tags, it matches
  Watcher,   \* command prefixes of watchers
  NoBinding,
  MaxToken,  \* bound: tokens, of bindings and of watchers
  MaxWatchDepth  \* bound: commands inside each other

TagEvent == Tag \X EventName
Subject  == Tag \cup TagEvent
Token    == 1 .. MaxToken
Binding  == TagEvent \X Command

ASSUME UEventBoundAssumption == MaxToken \in Nat /\ MaxWatchDepth \in Nat
ASSUME PatternAssumption == \A p \in Pattern : p \subseteq Tag \/ p \subseteq TagEvent
ASSUME SubjectAssumption == Tag \cap TagEvent = {}
ASSUME UEventNoneAssumption ==
  NoBinding \notin Binding /\ NoBinding \notin TagEvent /\ NoBinding \notin Pattern \X Watcher

VARIABLES
  tcounter,  \* tokens given out
  tk,        \* token -> the tag, event and command it stands for
  ex,        \* tag, event and command -> token, 0 if not bound
  db,        \* tag and event -> tokens; empty stands for unset
  dt,        \* tag -> tokens, as many as are bound to it
  wtk,       \* tk of the watchers: token -> pattern and command
  wdb,       \* db of the watchers: pattern -> tokens
  stack,     \* the commands under way, the innermost last
  \* history
  told,      \* watcher -> tag, or event of a tag -> what it was told last
  muddled,   \* the tags that were bound or unbound while watchers were being told of them
  stuck      \* tag -> unbinds that ended with an error before they shrank dt

bindingVars == <<tk, ex, db, dt>>
watchers == <<wtk, wdb>>
watchHistory == <<told, muddled, stuck>>
uVars == <<tcounter, bindingVars, watchers, stack, watchHistory>>

\* A command under way: what it is about; the patterns whose watchers are still
\* to be called, the watchers of the last one, and, for the command that adds a
\* watcher, what it still has to be told of; whether a script runs.
WatchFrame == [op : {"bind", "unbind", "add"}, of : TagEvent \cup {NoBinding}, stage : {"tag", "event"},
               pos : Nat, patterns : SUBSET Pattern, todo : Seq(Token),
               watcher : Token \cup {0}, subjects : SUBSET Subject, running : BOOLEAN]

UEventInit ==
  /\ tcounter = 0
  /\ tk = [n \in Token |-> NoBinding] /\ ex = [b \in Binding |-> 0]
  /\ db = [te \in TagEvent |-> <<>>] /\ dt = [t \in Tag |-> <<>>]
  /\ wtk = [n \in Token |-> NoBinding] /\ wdb = [p \in Pattern |-> <<>>]
  /\ stack = <<>>
  /\ told = [n \in Token |-> [x \in Subject |-> "nothing"]]
  /\ muddled = {} /\ stuck = [t \in Tag |-> 0]

---------------------------------------------------------------------------

TopFrame == stack[Len(stack)]
WithTopFrame(f) == [stack EXCEPT ![Len(stack)] = f]
FramesBelow == SubSeq(stack, 1, Len(stack) - 1)

\* The application or a watcher runs, and can call a command.
CanCall  == (stack # <<>> => TopFrame.running) /\ Len(stack) < MaxWatchDepth
Continues == stack # <<>> /\ ~TopFrame.running

\* NewToken: the token given out, and the counter.
TokenGiven == tcounter + 1
NewToken == tcounter < MaxToken /\ tcounter' = tcounter + 1

\* Watchers are being told of the tag t.
Telling(t) ==
  \E i \in DOMAIN stack :
    \/ stack[i].of # NoBinding /\ stack[i].of[1] = t
    \/ stack[i].subjects \cap ({t} \cup {t} \X EventName) # {}

Muddle(t) == muddled' = IF Telling(t) THEN muddled \cup {t} ELSE muddled

\* array names db, and the match
Matching(x) == {p \in Pattern : wdb[p] # <<>> /\ x \in p}

\* Mutant of WatchersOf: they are told whenever something is bound.
WatchersAlways(x, n) == Matching(x)

\* The watchers to be told of x, now that n tokens are bound to it.
WatchersOf(x, n) == IF n = 1 THEN Matching(x) ELSE {}

\* bind; a combination that is bound already has its token.
BindEvent(te, c) ==
  /\ CanCall /\ ex[<<te, c>>] = 0 /\ NewToken
  /\ tk' = [tk EXCEPT ![TokenGiven] = <<te, c>>]
  /\ ex' = [ex EXCEPT ![<<te, c>>] = TokenGiven]
  /\ db' = [db EXCEPT ![te] = Append(@, TokenGiven)]
  /\ dt' = [dt EXCEPT ![te[1]] = Append(@, TokenGiven)]
  /\ stack' = Append(stack,
       [op |-> "bind", of |-> te, stage |-> "tag", pos |-> 0,
        patterns |-> WatchersOf(te[1], Len(dt'[te[1]])), todo |-> <<>>,
        watcher |-> 0, subjects |-> {}, running |-> FALSE])
  /\ Muddle(te[1])
  /\ UNCHANGED <<watchers, told, stuck>>

\* lsearch -exact, of what is in the list
Position(s, n) == CHOOSE i \in DOMAIN s : s[i] = n

\* unbind, up to the watchers of the event; its position in db is used for dt.
UnbindEvent(n) ==
  LET te  == tk[n][1]
      pos == Position(db[te], n)
  IN /\ CanCall /\ tk[n] # NoBinding
     /\ ex' = [ex EXCEPT ![tk[n]] = 0]
     /\ tk' = [tk EXCEPT ![n] = NoBinding]
     /\ db' = [db EXCEPT ![te] = RemoveAt(@, pos)]
     /\ stack' = Append(stack,
          [op |-> "unbind", of |-> te, stage |-> "event", pos |-> pos,
           patterns |-> WatchersOf(te, Len(db[te])), todo |-> <<>>,
           watcher |-> 0, subjects |-> {}, running |-> FALSE])
     /\ Muddle(te[1])
     /\ UNCHANGED <<tcounter, dt, watchers, told, stuck>>

\* watch tag add, watch event add: the watcher is to be told of what is bound.
HasObservers(x) == IF x \in Tag THEN dt[x] # <<>> ELSE db[x] # <<>>

WatchAdd(p, c) ==
  /\ CanCall /\ NewToken
  /\ \A n \in Token : wtk[n] # <<p, c>>
  /\ wtk' = [wtk EXCEPT ![TokenGiven] = <<p, c>>]
  /\ wdb' = [wdb EXCEPT ![p] = Append(@, TokenGiven)]
  /\ stack' = Append(stack,
       [op |-> "add", of |-> NoBinding, stage |-> "tag", pos |-> 0, patterns |-> {}, todo |-> <<>>,
        watcher |-> TokenGiven, subjects |-> {x \in p : HasObservers(x)}, running |-> FALSE])
  /\ UNCHANGED <<bindingVars, watchHistory>>

\* watch tag remove, watch event remove
WatchRemove(n) ==
  /\ stack # <<>> => TopFrame.running
  /\ wtk[n] # NoBinding
  /\ wtk' = [wtk EXCEPT ![n] = NoBinding]
  /\ wdb' = [wdb EXCEPT ![wtk[n][1]] = RemoveAt(@, Position(@, n))]
  /\ UNCHANGED <<tcounter, bindingVars, stack, watchHistory>>

---------------------------------------------------------------------------
(***************************************************************************)
(* Calls of watchers.                                                      *)
(***************************************************************************)

\* The tags a command is about.
TagsOf(f) == IF f.op = "add" THEN {t \in Tag : f.subjects \cap ({t} \cup {t} \X EventName) # {}}
                             ELSE {f.of[1]}

\* The command under way ends with an error.
Throw ==
  /\ stack' = FramesBelow
  /\ muddled' = muddled \cup TagsOf(TopFrame)
  /\ stuck' = IF TopFrame.op = "unbind" /\ TopFrame.stage = "event"
                THEN [stuck EXCEPT ![TopFrame.of[1]] = @ + 1] ELSE stuck
  /\ UNCHANGED <<bindingVars, told>>

\* The watcher n is told of x, by a script that runs from then on.
TellWatcher(n, x, f) ==
  /\ told' = [told EXCEPT ![n][x] = IF f.op = "unbind" THEN "unbound" ELSE "bound"]
  /\ stack' = WithTopFrame([f EXCEPT !.running = TRUE])
  /\ UNCHANGED <<bindingVars, muddled, stuck>>

\* Invoke reads the watchers of the next pattern, which may have lost them all.
NextPattern(p) ==
  /\ Continues /\ TopFrame.todo = <<>> /\ p \in TopFrame.patterns
  /\ IF wdb[p] = <<>> THEN Throw
     ELSE /\ stack' = WithTopFrame([TopFrame EXCEPT !.patterns = @ \ {p}, !.todo = wdb[p]])
          /\ UNCHANGED <<bindingVars, watchHistory>>
  /\ UNCHANGED <<tcounter, watchers>>

\* Invoke calls the next watcher, which may be gone.
NextWatcher ==
  /\ Continues /\ TopFrame.todo # <<>>
  /\ LET n == Head(TopFrame.todo)
     IN IF wtk[n] = NoBinding THEN Throw
        ELSE TellWatcher(n, IF TopFrame.stage = "tag" THEN TopFrame.of[1] ELSE TopFrame.of,
                  [TopFrame EXCEPT !.todo = Tail(@)])
  /\ UNCHANGED <<tcounter, watchers>>

\* add calls its watcher for the next of what was bound when it began.
NextSubject(x) ==
  /\ Continues /\ TopFrame.op = "add" /\ x \in TopFrame.subjects
  /\ TellWatcher(TopFrame.watcher, x, [TopFrame EXCEPT !.subjects = @ \ {x}])
  /\ UNCHANGED <<tcounter, watchers>>

AllCalled == Continues /\ TopFrame.patterns = {} /\ TopFrame.todo = <<>> /\ TopFrame.subjects = {}

Proceed(f) == stack' = WithTopFrame(f) /\ UNCHANGED <<tk, ex, db, watchHistory>>
Return == stack' = FramesBelow /\ UNCHANGED <<tk, ex, db, watchHistory>>

\* bind goes on with the watchers of the event.
BindGoesOn ==
  /\ AllCalled /\ TopFrame.op = "bind" /\ TopFrame.stage = "tag"
  /\ IF db[TopFrame.of] = <<>> THEN Throw
     ELSE /\ Proceed([TopFrame EXCEPT !.stage = "event",
                        !.patterns = WatchersOf(TopFrame.of, Len(db[TopFrame.of]))])
          /\ UNCHANGED dt
  /\ UNCHANGED <<tcounter, watchers>>

\* Mutant of Shrunk: nothing is removed.
ShrunkNot(s, i) == s

\* The list without what is at the position.
Shrunk(s, i) == RemoveAt(s, i)

\* unbind goes on with the tag.
UnbindGoesOn ==
  /\ AllCalled /\ TopFrame.op = "unbind" /\ TopFrame.stage = "event"
  /\ LET t == TopFrame.of[1]
     IN IF Len(dt[t]) = 1
          THEN /\ dt' = [dt EXCEPT ![t] = <<>>]
               /\ Proceed([TopFrame EXCEPT !.stage = "tag", !.patterns = Matching(t)])
          ELSE /\ dt' = [dt EXCEPT ![t] = Shrunk(@, TopFrame.pos)]
               /\ Return
  /\ UNCHANGED <<tcounter, watchers>>

\* The command returns.
CommandEnds ==
  /\ AllCalled
  /\ \/ TopFrame.op = "add"
     \/ TopFrame.op = "bind" /\ TopFrame.stage = "event"
     \/ TopFrame.op = "unbind" /\ TopFrame.stage = "tag"
  /\ Return
  /\ UNCHANGED <<tcounter, dt, watchers>>

\* The script of a watcher ends, or fails.
ScriptEnds ==
  /\ stack # <<>> /\ TopFrame.running
  /\ \/ stack' = WithTopFrame([TopFrame EXCEPT !.running = FALSE]) /\ UNCHANGED <<bindingVars, watchHistory>>
     \/ Throw
  /\ UNCHANGED <<tcounter, watchers>>

UEventNext ==
  \/ \E te \in TagEvent, c \in Command : BindEvent(te, c)
  \/ \E n \in Token : UnbindEvent(n) \/ WatchRemove(n)
  \/ \E p \in Pattern : NextPattern(p) \/ \E c \in Watcher : WatchAdd(p, c)
  \/ \E x \in Subject : NextSubject(x)
  \/ NextWatcher \/ BindGoesOn \/ UnbindGoesOn \/ CommandEnds \/ ScriptEnds

UEventSpec == UEventInit /\ [][UEventNext]_uVars

---------------------------------------------------------------------------
(***************************************************************************)
(* Properties.                                                             *)
(***************************************************************************)

\* The shape of the state.
UEventTypeOK ==
  /\ tcounter \in 0 .. MaxToken
  /\ tk \in [Token -> Binding \cup {NoBinding}] /\ ex \in [Binding -> Token \cup {0}]
  /\ db \in [TagEvent -> Seq(Token)] /\ dt \in [Tag -> Seq(Token)]
  /\ wtk \in [Token -> (Pattern \X Watcher) \cup {NoBinding}] /\ wdb \in [Pattern -> Seq(Token)]
  /\ stack \in Seq(WatchFrame)
  /\ told \in [Token -> [Subject -> {"nothing", "bound", "unbound"}]]
  /\ muddled \subseteq Tag /\ stuck \in [Tag -> Nat]

Bindings(t) == {n \in Token : tk[n] # NoBinding /\ tk[n][1][1] = t}
Unbinding(t) == {i \in DOMAIN stack : stack[i].op = "unbind" /\ stack[i].stage = "event"
                                      /\ stack[i].of[1] = t}

\* The tables agree, also while watchers run, and after they failed: each token
\* is listed once, where it belongs, so that generate finds a command for each;
\* and dt, whose lengths decide what is first and last of a tag, is as long as
\* there are bindings of the tag, and unbinds that did not come to it (yet).
TablesAgree ==
  /\ \A n \in Token, b \in Binding : tk[n] = b <=> ex[b] = n
  /\ \A te \in TagEvent : /\ IsInjective(db[te])
                          /\ ToSet(db[te]) = {n \in Token : tk[n] # NoBinding /\ tk[n][1] = te}
  /\ \A t \in Tag :
       Len(dt[t]) = Cardinality(Bindings(t)) + Cardinality(Unbinding(t)) + stuck[t]

\* Watchers "for (un)bind events" know, of every tag and event they watch,
\* whether something is bound to it, whatever else they bind, unbind, add and
\* remove while they are told: as long as none of this is about the same tag,
\* and nothing is thrown.
WatchersKnow ==
  LET T == {t \in Tag : ~Telling(t)} \ muddled
  IN \A n \in Token : wtk[n] # NoBinding =>
       \A x \in (T \cup T \X EventName) \cap wtk[n][1] :
         told[n][x] = "bound" <=> HasObservers(x)
=============================================================================

# A verification project for tcllib

TLA+ models of the parts of tcllib that keep state between calls: the packages
that talk to other processes or put work off to the event loop, and the containers
of `struct` that are written in C; TLC configurations that check them on small
instances; and theorems about them that the TLA+ proof system checks for every
value of the constants.

tcllib is a collection of about 130 packages. Most are pure functions on strings,
numbers or bytes, and a model of them would say no more than their tests do. What
a test hardly reaches is in two places:

- packages whose procedures are woven together by Tcl's event loop: `vwait` called
  inside a handler, `after idle`, sockets whose end is noticed late, callbacks that
  come back into their caller. Modelled are `comm`, on which the remote packages
  rest, the name service built on it with the client that restores its names, the
  asynchronous cache, and the two packages by which others are told of events,
  `uevent` and `hook`;
- the C implementations of `struct::queue`, `stack`, `set`, `tree` and `graph`. They keep
  the same facts several times over (chains, arrays, tables, counts, caches, objects
  shared with the interpreter), and a long sequence of legal calls must keep all of
  them in step. Their scripts and callbacks change them while they are walked.

Paths below are relative to `src/modules/` unless they say otherwise.

## 1. Inventory

### comm: remote execution (`comm/comm.tcl`)

- *State.* One array for all channels: the serial of the last command sent; for
  each peer id the connection (`peers`) and the list of serials that wait for it
  (`pending`); for each socket the id behind it (`fids`); for each serial that
  waits `return` and `result`. One more pair, `current`, says which remote
  command is being executed, for `return_async`; futures are objects.
- *Operations.* `connect`, `send` in three kinds (wait, `-async`, `-command`),
  `shutdown`, `abort`, `return_async`, a future's `return`; from the event loop the
  acceptance of a connection, the reading of its first line, of commands, and of
  its end; from the idle queue the execution of what was read.
- *Interactions.* Peers over sockets; scripts through hooks and callbacks; the
  event loop through `vwait` (wrapped to save and restore `current`), `fileevent`
  and `after idle`.
- *Hard.* A waiting send serves others, so sends nest, within a process and across
  processes, and nested loops unwind in the wrong order for most replies. Two
  processes that connect at once have two connections. A connection can be lost
  between any two of reading, executing, replying and being woken.
- *Correct if* the tables agree; no blocked send is forgotten; an answer reaches
  the call it belongs to; nothing is executed or delivered twice; the package
  knows whose command is running; every send returns.

### nameserv: name service and client (`nns/server.tcl`, `nns/nns.tcl`, `nns/common.tcl`)

- *State.* Server: names by session, data by name, searches by session and by
  pattern. Client: one comm channel, the receivers of its searches.
- *Operations.* `bind`, `release`, `search` once, asynchronous and continuous,
  destruction of a receiver; the server's answers and notifications; loss of the
  connection on either side.
- *Hard.* What was read before a loss is executed after it, on both sides. A
  notification that throws leaves the rest undone. The first answer of a search
  and the notifications after it must add up.
- *Correct if* the four tables agree; a client has bound what it was told it
  bound; a receiver shows what is bound; calls return.

### cache::async (`cache/async.tcl`)

- *State.* For each key a value, a mark for a hole, or neither, and the callbacks
  that wait for it.
- *Operations.* `get`, `set`, `unset`, `clear`; the provider's answers are calls of
  `set` and `unset`.
- *Hard.* Questions and callbacks pass through the idle queue while the table
  changes under them; later callers rely on the question of the first.
- *Correct if* every `get` is answered, once, in order, with something that was
  known meanwhile, and the provider is not asked twice.

### nameserv::auto: the client that restores its names (`nns/nns_auto.tcl`)

- *State.* The names and the persistent searches remembered, the handle of the
  reconnection timer.
- *Operations.* `bind`, `release`, `search`; from the event loop the event
  lost-connection and the timer, which ask the server for its features and then
  bind every name and start every search again.
- *Interactions.* The name service's client and its losses, `uevent`, `after`.
- *Hard.* Each call of the server waits in the event loop, in which the
  application, timers and events go on, so that restorations run inside each
  other; the connection goes again at any point of them.
- *Correct if* a name that is remembered is bound, or somebody is about to bind it;
  in the end it is bound, or released, or another client has it.

### uevent: event service (`uev/uevent.tcl`, `uev/uevent_onidle.tcl`)

- *State.* Bindings by token, by tag and event, by tag, by tag, event and command;
  the same for the watchers by pattern.
- *Operations.* `bind`, `unbind`, `generate`, `list`; `watch tag` and `watch event` `add` and
  `remove`.
- *Hard.* Watchers are called from inside of `bind`, `unbind` and `add`, between two
  changes of the tables, and call them in their turn, or throw.
- *Correct if* the tables agree at every moment and watchers know what is bound.

### hook: observers of hooks (`hook/hook.tcl`)

- *State.* Two nested dictionaries of the same bindings, by subject and by
  observer; a counter for names; two options.
- *Operations.* `bind` in its forms, `forget`, `call`, `configure`.
- *Hard.* What a call calls changes the bindings it goes through, calls again,
  fails. The dictionaries are each taken apart by what the other says.
- *Correct if* they are one table; a call calls whom it should, once, with what is
  bound at that moment, also when others fail.

### struct::queue and struct::stack in C (`struct/queue/`, `struct/stack/`)

- *State.* A queue is three lists, `unget`, `queue`, `append`, and the index `at` of the
  next item in the middle one. A stack is one list and the greatest depth it had.
- *Operations.* `put`, `unget`, `get`, `peek`, `size`, `clear`, `destroy`; `push`, `pop`, `peek`,
  `peekr`, `trim`, `trim*`, `rotate`, `get`, `getr`, `size`, `clear`, `destroy`.
- *Hard.* One `get` may take items from all three lists; the buffers are swapped
  in the middle of it. `rotate` works by moving items in place.
- *Correct if* they implement a sequence and a pile of items.

### struct::set in C (`struct/sets/`)

- *State.* None of its own: sets are objects of Tcl with a string, a list or a hash
  table inside, shared by variables.
- *Operations.* `union`, `intersect`, `intersect3`, `difference`, `symdiff`, `contains`, `equal`, `size`,
  `subsetof`, `empty`, `include`, `exclude`, `add`, `subtract`.
- *Hard.* A command converts its arguments in place; `include`, `add` and their kin
  change a table that another variable may refer to, and must drop the string.
- *Correct if* each command is the operation on sets, an object's representations
  agree, and a change of one variable is seen in no other.

### struct::tree in C (`struct/tree/`)

- *State.* Node structures with parent, an array of children, an index in it,
  neighbours; lists of all nodes and of the leaves; the table of names; depth,
  height and number of descendants as a cache with one flag.
- *Operations.* About forty methods: `insert`, `move`, `swap`, `cut`, `splice`, `delete`,
  `rename`, attributes, `serialize`, `deserialize`, `=`, `-->`, queries, walks.
- *Hard.* Each link is written in several places; the leaves are kept by hand; the
  cache is refreshed by queries and taken back by changes. A walk runs a script that
  may change the tree it walks.
- *Correct if* the links agree and form one tree, the leaves are those without
  children, the cache is current when it is said to be, each edit does to the names
  what the manual says, a walk visits what it should.

### struct::graph in C (`struct/graph/`)

- *State.* For each graph a table of names, a chain and a count for nodes and for
  arcs, attributes; for each node the interlinks with its arcs; for each arc its two ends.
- *Operations.* About fifty methods on nodes, arcs, weights and attributes; `arcs`
  and `nodes` with their filters; `serialize`, `deserialize`, `=`, `-->`; walks.
- *Hard.* Assignment and copy build a graph aside and swap it in, and use the chain of
  the source as a scratch table meanwhile. A serialization is checked before it is
  used. Filters combine.
- *Correct if* chains, tables, counts and interlinks agree within each graph and
  never lead into another, edits, copies and queries do what the manual says.

### Parts with state or events that are planned

| part | state and hard behaviour | correct if |
|---|---|---|
| `tie/tie.tcl`, `tie_rarray.tcl` | array and data source that write to each other | both agree when quiet, no endless exchange |
| `cron/cron.tcl` | timed tasks and the next wake-up | no task is missed or run twice |
| `struct/pool.tcl`, `disjointset.tcl` | sequential containers over several lists | implement an allocation, a partition |
| `pt/rde_critcl/` | stacks of locations, marks, results, errors; a cache of nonterminals | a symbol restored from the cache leaves what parsing it left |
| `pop3d/pop3d.tcl`, `pop3d_dbox.tcl` | mail drop locks over sessions | a mail drop has at most one session |
| `multiplexer`, `udpcluster`, `dns` | candidates, one table and sockets each | |

### Parts that are not modelled

Parsers and grammars (the parser of `json` in C is generated by yacc), documentation
tools, digests and ciphers in Tcl and in C, encodings and file formats, text and
HTML generation, mathematics and simulation: sequential functions of their inputs,
without a state that outlives a call. The containers of `struct` in Tcl promise what
those in C do, without the shared objects and links. Object systems
(`snit`, `stooop`, `clay`): they generate code, their behaviour is the
interpreter's. Clients and servers of standard protocols (`pop3`, `imap4`, `ftp`,
`smtp`, ...): one blocking conversation each with a peer that is not in the
repository. Applications, installer and test tools. `PROJECT.json` lists each
group with its sources and reason.

## 2. Modules

| module | models | rests on |
|---|---|---|
| `RemoteCall` | what `comm send` promises: the abstract specification | |
| `Comm` | `comm.tcl`, a number of processes and the network between them | implements `RemoteCall` |
| `MCComm`, `MCCommCalls`, `CommProofs` | instances of `Comm`, theorems about it | |
| `NameService` | `server.tcl`, `nns.tcl`, with comm as sessions, delivered in order | |
| `MCNameService`, `NameServiceProofs` | its instances and theorems | |
| `NameServAuto`, `NameServAutoProofs` | `nns_auto.tcl` and the losses of `nns.tcl`, one client, the server and another client; theorems about it | |
| `UEvent`, `UEventProofs` | `uevent.tcl`; theorems about it | |
| `HookBindings` | what `hook bind` and `hook forget` promise: the abstract specification | |
| `Hook`, `HookProofs` | `hook.tcl`; theorems about it | implements `HookBindings` |
| `AsyncCache`, `AsyncCacheProofs` | `async.tcl`, its provider and the idle queue; theorems about it | |
| `MCClients` | instances of `AsyncCache`, `UEvent` and `NameServAuto` together | |
| `TclList` | the operation on lists of Tcl that the containers share | |
| `ItemQueue`, `ItemStack`, `SetVariables` | what queues, stacks and sets promise: abstract specifications | |
| `StructQueue` | `struct/queue/m.c`, `q.c`, `ms.c` | implements `ItemQueue` |
| `StructStack` | `struct/stack/m.c`, `s.c`, `ms.c` | implements `ItemStack` |
| `StructSet` | `struct/sets/m.c`, `s.c`, objects of Tcl | implements `SetVariables` |
| `StructProofs` | theorems about `StructQueue`, `StructStack` and `StructSet`: their lists and representations; that they implement `ItemQueue`, `ItemStack` and `SetVariables` | |
| `TreeNodes`, `Tree` | the nodes of a tree (`tn.c`, `t.c`) and its methods (`m.c`, `ms.c`, `shimmer.c`) | |
| `OrderedTree` | the manual of trees, as operators on a tree of names | |
| `TreeProperties` | the properties of `Tree`, each method against `OrderedTree` | |
| `TreeWalk` | walks of a tree (`walk.c`) | |
| `MCStructures` | instances of the queue, stack, set, tree and walk together | |
| `GraphStore`, `GraphFilter`, `StructGraph` | nodes and arcs (`nacommon.c`, `node.c`, `arc.c`, `attr.c`, `graph.c`), filters (`filter.c`), methods (`methods.c`, `objcmd.c`) | |
| `MultiGraph` | the manual of graphs, as operators on a graph of names | |
| `GraphProperties` | the properties of `StructGraph`, each method against `MultiGraph` | |
| `GraphProofs` | the theorem that the lists, tables and interlinks of `StructGraph` agree | |
| `GraphWalk` | walks of a graph (`walk.c`) | |
| `MCGraph` | instances of graphs, their walks and hooks together | |

### How Comm corresponds to the code

A process is one interpreter with one comm channel, named by the process; the
code names it by its port. A handler of the event loop is one action; a handler
that runs a script is cut where the script may act. So `commExec` of a request is
`ExecRequest` (up to the script), then steps of the script (`Send`, `ReturnAsync`,
`Shutdown`, ...), then `Finish` (the reply). While a script runs, `running` holds its
job and nothing else happens in the process.

| state | in comm.tcl |
|---|---|
| `peers`, `fids`, `haspending`, `pending` | `$ch,peers,$id`, `$ch,fids,$fid`, whether `$ch,pending,$id` exists and what is in it |
| `ret`, `result` | `$ch,return,$ser` (none, waiting, a callback, set) and `$ch,result,$ser` |
| `frame` | the Tcl stack: for each synchronous send the script that waits and what the wrapper of `vwait` saved |
| `idle` | the `after idle` queue of `commExec` calls |
| `current`, `remoteid`, `futures` | `(current,async)`, `(current,state)`, `$ch,remoteid`, the future objects |
| `link`, `stage`, `open`, `wire` | the sockets and what is under way |
| `execs`, `told`, `called` | history: what was executed, what each send returned or its callback got |

Serials only grow within a process, so the nest of its blocked sends is the set of
its frames, the largest serial on top, and `Return` is allowed for the top frame
only: `vwait` returns when its own variable is written and all loops above it have
ended. The loop serves sockets only while its top `vwait` is not satisfied, but works
off the idle queue in one go; so `ExecRequest` and its kin do not ask `Ready`, the
readers of sockets do.

Read as abstractions: one channel for each process, which lives as long as the
process (`destroy`, `new` and `configure` of the port are left out; where a channel
is destroyed and created again, in the name service's client, `NameService` models
it); the framing of commands (`Word0`) and the `vers` message are left out; hooks and
callbacks do not call comm, only the incoming hook may refuse; a process does not
connect to itself; serials do not wrap; a process that dies does not come back.
What is written to an end that is gone is lost, or the write throws (`SendFails`);
what is not read when the end of the connection is found is dropped, as
`commCollect` does it.

### How NameService corresponds to the code

A session is one connection of a client's channel to the server, with the id the
server knows it by; a new channel has a new port and so is a new session. comm
delivers the commands and notifications of a session in order (`toServer`,
`toClient`), and when one side finds the end of the connection, what comm has read
stays in its idle queue and is executed later, the rest is dropped: `ServerLost` and
`ClientLost` choose how much was read. On the server the commands run under the lost
id. On the client they wait in `late`; without a channel they fail, on a new
channel of the same name they run: a change reaches its receiver, a reply may be
taken by the command that waits then, because the serials of the new channel start
at 0 again. Which serials meet depends on the searches made in between, so that this
is a choice.

`names`, `data`, `searchi`, `searchp` are the server's arrays; `search` is the client's
table of receivers and `receiver` the objects. A name's data is the client that
bound it. Lists are sets. Messages sent in one go for several receivers of one
client are one message. `Search/Continuous/Stop` changes nothing: it uses the
variable `comm` without declaring it and always ends with an error. Left out: the
one-shot search and the queries for version and features, which only read; `stop`
and reconfiguration of a running server (its process may die instead); a second
synchronous call of the same client made from an event while the first waits;
errors of an asynchronous call when no server is there.

### How AsyncCache corresponds to the code

`waiting`, `hit`, `miss` are `mywaiting`, `myhit`, `mymiss`; `idle` is the idle queue with
questions to the provider and callbacks; `asked` counts what the provider has not
answered. `Get` has the method's three ways: known and told at once, known and told
by the idle queue (`-full-async-results`), unknown. `Fill` and `Answer` are both calls of
`set` or `unset`, by a user and by the provider. Callbacks do not call the cache in
the same step; they may in the next. `exists` only reads, and other methods are
delegated to the provider. `full`, the option, is chosen at the start.

### How NameServAuto corresponds to the code

It is a second look at the name service, from one client whose calls nest, and so
keeps less of the rest: the server is the table `data`, in which a name is bound by
this client (`Me`), by a session of it that is over and not yet noticed (`Past`), by
another client, or by nobody. `conn` is comm's channel: `gone` lies between the end of
the connection and `LOST`. `frames` are the calls of the server that wait in the event
loop inside each other, with what they will do with the answer: `features` (from
`Reconnect`), `bind` (from `Enter`, by the application or in a restoration), `release`; `rebind`
is `Rebind` between two names. The innermost returns first; when it waits, timers fire
and events and calls of the application come. `timer` is the variable, `timers` what
`after` really has pending: `StopReconnect` clears the one and leaves the other. `lost` are
the events `uevent` has queued. Of the searches there is one; that its receiver is
destroyed, or was answered, is `Stale`. A loss during `Rebind` fails the call that waits
with an error that is not "No name server" (`failed`), so that it is read as a name that is
taken: `RebindAnswered`. The server says of a name that it is bound also when it is this
client that has it, in a session that is over and not yet missed, or in this one; the
model keeps the two apart, `taken` and `own`, which the code cannot. `ceded` is history: the
names a restoration gave up after `failed` or `own`, until they are bound again.

### How UEvent corresponds to the code

`tk`, `ex`, `db`, `dt` are the arrays, `wtk` and `wdb` those of both kinds of watchers: a pattern
is the set of tags, or of pairs of a tag and an event, that it matches. A command
that calls watchers is a frame of `stack`: `BindEvent` and `UnbindEvent` change the tables up to the
first call, `NextPattern` and `NextWatcher` are the two loops of `Invoke` (which reads the
watchers of a pattern when it comes to it, and throws when the array or the token
is gone), `NextSubject` the loop of `add`, `BindGoesOn` and `UnbindGoesOn` what the
command does between and after them. While a watcher runs (`running`) every command
may be called; it may fail, which ends the command that called it. Both arrays of
tokens use one counter. `Position` is `lsearch -exact` in a list that has the token.
`generate` and `list` only read `db` and `tk`; that they find what
they look for is part of `TablesAgree`. `uevent::onidle` is a flag and left out.

### How Hook corresponds to the code

A dictionary is a function whose domain is its keys: a dictionary without keys is
not the same as none, as in the code. `calls` are the calls under way; each has the
observers of its start still to be looked at, in any order, since the order of
bindings is not promised. A script runs when no call does, or the innermost one is
in one of the three places where it calls out (`phase`): a binding, the
`-errorcommand`, the `-tracecommand`. Whether an error will be caught is decided when
the binding is called; which command handles it, when it has failed. A script ends
normally or with error, `return`, `break` or `continue` (`Exceptional`). What is caught goes to the
`-errorcommand` whichever it was. What is not, a binding without an `-errorcommand` and
the `-errorcommand` itself, runs in the body of the `foreach` (`InLoop`): there `continue` goes on
to the next binding and `break` ends the loop (`BrokenOff`, and `broken` in the call), after
which the trace is called and the call returns normally; `error` and `return` end the call.

### How the containers correspond to the code

They are sequential, so a method is one action; what makes them worth checking is
what a sequence of methods leaves behind. A method answers its value or an error,
kept in an answer variable where an abstract specification is implemented: a
refinement then says the answers are right, too. The number of arguments and the
wording of errors are left out, memory is not.

*Queue.* The record `q` is `struct Q`; `PeekOne` and `PeekMany` are the two halves of
`qum_PEEK`, with the position the code hands to `Tcl_ListObjReplace` (`ListDrop`). *Stack.* `st` is
`struct S`. The rotation of no items divides by zero and is left out.

*Set.* The name of an object is the least variable that refers to it: so the state
is the same however the object came to be shared. `Free` marks names no object
goes by. An object has a string, or not, and one of no internal
representation, a list, a table; the order in which a table is written out is any.

*Tree.* Functions on node structures in `tn.c` are operators from tree to tree in
`TreeNodes`, the methods combine them in `Tree`. Lists of nodes and leaves are sets; a
node has a value for one key. `-->` and `=` go through a serialization in the code when
the other side is no tree in C, and copy structures when it is; both are there.
`TreeProperties` does not follow one behaviour only: from every tree it reaches it
asks every query and tries every edit and copy with every argument, and compares the
names after it with what `OrderedTree` says. So one edit in the behaviour is in fact
two in a row that are checked.

*Graph.* `h` is the memory of all graphs: `first`, `next`, `prev` and `n` are the chains and
counts, `map` the tables, `in` and `out` the interlinks, `start` and `end` the ends of an arc.
Graph 0 is the one `g_deserialize` and `g_assign` build before it is swapped in. The
properties try every method in every graph they reach, as those of trees do; edits are
compared with `MultiGraph` in the graphs that were read or copied, and in those that
were edited the links, queries and copies are checked. `copied` is history: the graphs `dup` has
copied since their nodes were made, the ones whose nodes may be linked back wrong. The
command of a `-filter` is a function from names to true or false: scripts that fail, or
that change the graph they filter, are left out.

*Walks.* The recursion of `walk.c` is a stack of tasks, `todo`, that hold the copies of
child arrays the code makes before it calls the script; the breadth-first walks
use it as the queue they use. The script of a tree may change the children of a
node it is entering, that of a graph may add and move arcs (`moved` is history: the neighbours
that were moved to a node not visited yet). What deletes a node
under a walk has no defined outcome and is left out.

`Defects` names calls that are known to go wrong (section 6). The runs have it empty, which
leaves these calls out, so that everything else is checked around them; with one of
them in it the properties of its module fail. Items put back to a queue are bounded by
`MaxUnget` in the same way, and `queue_get` puts back one more.

## 3. Runs

| run | specification and bounds | what it shows |
|---|---|---|
| `comm_tables` | `Spec`; 2 processes, 2 connections, 1 serial each; all kinds of send; everyone may refuse, shut down, abort, die | the tables agree; no blocked send is orphaned; answers are the call's own; nothing is executed, answered or called back too often; the package knows whose command runs |
| `comm_calls` | `CallsSpec`; 2 processes; either 1 connection and 2 serials each, or 2 connections, 1 serial each and deferral; refusal, shutdown and death | refinement of `RemoteCall`, and every send returns, however they are nested, and also over crossed and reopened connections |
| `names` | `FairSpec`; 2 clients, 2 names, 1 pattern for both, 3 sessions, 1 receiver, 2 calls, 1 death of the server, 1 mortal client | the database agrees with itself; a client has bound what it was told; receivers catch up; bind and release return |
| `clients` | `ClientsSpec`; cache: 1 key, 2 values, 3 gets; user events: 1 tag, 2 events, 2 commands, a pattern for all tags and one for all events, 3 tokens, 2 commands inside each other; restoring client: 2 names, 2 losses or deaths of the server, 2 calls, 2 calls of the server inside each other | no get is forgotten; it is answered, once, in order, with what was known, and the provider is asked once; the tables of user events agree and watchers know what is bound; what is remembered is bound or pursued, and ends bound or forgotten; what a restoration forgets once nothing is lost any more, another client has |
| `structures` | `StructuresSpec`; bounds below | queue and stack implement a sequence and a pile; set commands are set operations; an object's representations agree; links, leaves and cache of trees; edits, copies, queries and walks as documented, but for the broken-off walks of `tree_walk_leave` |
| `graph` | `CallbacksSpec`; bounds below | links of graphs, but for the links back of nodes of a graph that was copied; edits, copies, queries and walks as documented; the dictionaries of hooks agree and implement `HookBindings`; a call calls nobody else than who is due, and all of them unless a script breaks it off |
| the runs that expect a violation | small | section 6 |

*Bounds of the containers* (`Structures.cfg`). Queues of up to 4 items, 2 of them on the
unget stack; stacks of 4 and rotations by up to 4 steps either way; 2 variables with
sets, lists of up to 2 elements with repetitions, 2 arguments. Trees of up to 5 nodes,
names of which one is the next generated name, one value of one element; they begin
as every tree of that size, by deserializing (`Serials`, with malformed ones among
them), are edited once (`MaxEdits`) and copied over; `MaxCopy` bounds the nodes of a tree
and its copy. A walk goes over seven shapes of up to 4 nodes (`MCShapes`), with
2 answers other than ok and 1 change by the script. `Graph.cfg`: two graphs with 2
nodes between them (`MaxLive`) before an edit, of 4 names, 2 arcs, one attribute, one
weight; graphs of up to 3 nodes and 2 arcs are read (`Serials`: an arc from one node to
the other, either way, every arc beside a loop, and beside an arc of three nodes, and
malformed ones);
1 edit and 1 copy (`MaxEdits`, `MaxCopies`); walks over seven graphs of 4 nodes
(`WalkShapes`), with 1 odd answer and 1 change. A behaviour uses exactly one structure: they share no
state, and one run asks them all.

*Bounds of the event services.* Hooks (in `Graph.cfg`): 2 objects, each subject and
observer, of itself too, which is where the two loops of `forget` meet; 1 hook, 2 command
prefixes, 2 calls inside each other, and 3 changes of bindings and options: two
observers, one of them forgotten or deleted while the other is called, or one bound, and
bound anew by its own script before the next call. Longer sequences of changes are the
theorems': all four properties of hooks are proved for every number (section 5). User events (in `Clients.cfg`): two events of one tag
are what makes the position in one list wrong in the other; three tokens are two
bindings and a watcher, or one and two. The restoring client: two losses allow the
connection to go again while it is restored; a third would find the same states, since
between two losses everything pending can be used up; two calls are a bind and a
release, or two binds, around them. Theorem `RememberedIsPursued` takes over for any
number of them.

*Are the bounds enough?* The hazards of comm are between two processes and one
peer: a crossed connection needs two connections, a nest that unwinds in the wrong
order needs two sends of one process around one of the other, a reply that meets
another call needs two serials. All of these are inside the bounds, and the proofs
take over for the invariants (section 5). Longer chains of processes add
length to the nest and no new kind of table entry; the theorems hold for any
number. For names three sessions allow a client that comes back besides the other
one, and two names one pattern that matches what another client binds; a second
receiver would do to the tables what the second session does. For the cache three
gets are one that asks, one that waits behind it, and one that comes after an
answer or a clear; keys meet in the idle queue only.

For the containers a bound must let every special place occur beside a plain one. A
`get` that takes from all three lists needs three items and a fourth that stays. In
a tree of five nodes a node can have a parent, a left and a right neighbour and a
child; that is all an edit writes to. As the properties try every edit in every
tree, a longer behaviour adds trees that are larger, not other. In a graph one arc
beside another at both ends, a loop and two arcs in parallel occur with two arcs.
Graphs of three nodes are read, queried, copied and, by `EditsAsDocumented`, edited
once; a behaviour goes on from an edit with two nodes only.

`CHECK_DEADLOCK FALSE` is set throughout: nobody is obliged to send, ask, bind or
call a method, and when the bounds are used up a quiet system has nothing to do. That
no one is stuck waiting is what the liveness properties say.

*Several packages in one run.* `MCClients`, `MCStructures` and `MCGraph` each hold several
components that have no variable in common; a variable `used` says which of them a
behaviour is about, and the others keep their initial state. So each is explored by
itself, as it would be in a run of its own, and its properties hold in the other
behaviours if they hold at the start.

*Symmetry.* `MCComm` exchanges processes, in `comm_tables` only: there the sets of
processes that may refuse, close, defer or die are all or none, and no liveness is
checked. `MCStructures` exchanges items; no container looks into an item.

Every property is violated when a plausible bug is put into the code it is about;
the mutated definitions stand in the modules before the ones they mutate, and
`PROJECT.json` says which belongs to which property.

## 4. Fairness

`comm_calls` has the `Fairness` of its module (`Within` of `MCCommCalls` restrains only what
scripts ask for, which is not fair), `names` checks the `FairSpec` of its own, `clients` the
conjunction of the fairness of its modules (`Fairness` of the cache, `AutoFairness`):

- Comm: weak fairness of the event loop of each process, taken as a whole
  (`Loop`), since Tcl's loop serves what is ready and a script is taken to end;
  and of `FutureReturn`, that a result promised for later comes. Nothing makes
  anybody send, connect, shut down or die.
- AsyncCache: the event loop becomes idle, and the provider answers each
  question: both are conditions without which the package can promise nothing.
- NameService: weak fairness of the server's execution and detection of losses,
  and of the client's, for each session and client. The death and the restart
  of the server, and all calls, are not fair.
- NameServAuto: the server executes what reaches it, notices losses and is started
  again; the client runs its event loop: timers and events come, `LOST` is called,
  and what has its answer goes on. Losses, calls by the application and the other
  client's doings are not fair.

The fairness of Comm is of the loop as a whole: that still forces every send to
return because each pass of the loop uses something up and the bounds let no one
refill it forever. In a system that never stops sending, one socket could be served
again and again before another: Tcl's notifier is fair between sockets, and this
is where the model relies on it.

## 5. Proofs

All proofs are checked by TLAPS to the last leaf; no constant has a value. The
assumptions are those that the modules state: bounds are natural numbers, special
values are not members of the sets they extend, the variables that hold sets are
finitely many, the sets of processes that may
refuse, defer, close or die are sets of processes, patterns are sets of names, or of
tags, or of pairs of a tag and an event; no tag is such a pair, and "nothing" is no call.

| theorem | argument |
|---|---|
| `CommProofs!TypeCorrect` | `TypeOK` is inductive. Lemmas say what each helper (`Written`, `NewConn`, `Close`, `Forget`, `CommLostConn`) returns, for they are used by many actions. |
| `CommProofs!TablesAlwaysAgree` | `TablesAgree` is inductive together with `TypeOK`. The step that could break it is the loss of one of two crossed connections; there it matters that `commNewConn` keeps the first connection and that the reverse table has both. |
| `CommProofs!NoSendIsOrphaned` | `NoOrphanedSend` is not inductive: it needs that the pending list in which a blocked send is found belongs to a connection. `BlockedPending` says that a blocked send is listed and its peer has a connection; `TablesAgree` gives the rest, that it is open and watched. |
| `CommProofs!StateIsAlwaysOwn` | `StateIsOwn` speaks of the running script, and `Return` takes what runs from a frame. `SavedStateIsOwn` says the same of every frame: what the wrapper of `vwait` saved is the state of the script that waits, unless it promised its result already, in which case it saved no `remoteid`. |
| `CommProofs!AnswersAreOwn`, `NothingTwice` | `OwnAnswer` and `AtMostOnce` see the caller only; what could break them is on the wires. Two invariants are inductive together, with `TypeOK`, `TablesAgree` and `StateIsOwn`. `CallerInv`: `ret` says whether a send has a frame (`WaitsAgree`), a send in a pending list waits for that peer (`SyncListed`), a callback is in one list and was not invoked (`BackListed`), serials not given out are unused (`Unsent`), and `Outcomes` says what may have come of a command, given what is still to come. `MessageInv`: a message read or to be read concerns a command of the process at the end of its connection, a request one not executed, a reply one executed once (`WiresOK`, `IdleOK`), and so does a job that runs, waits in a frame or owns a future (`ExecutedOK`); no request is on two wires, in two queues, on a wire and in a queue, or twice in one of them (`RequestsOnce`). `ConcernsStays` says that this outlives all that steps may do to the tables (`Steady`); one lemma each for messages that go (`MessageQuiet`), a reply written, a request written (`OnceGrows`), one read (`OnceCollected`), one executed. `StateIsOwn` is needed where a future replies to the command it holds. |
| `CommProofs!CommIsARemoteCall` | `CallSpec`, the refinement of `RemoteCall`. `CallMade`, `CallExecuted`, `CallEnded` and `CallStopped` map send, the execution of a request, the return of a `vwait` and death to its steps; everything else stutters. That a call is executed once is what `IdleOK` says of the request at the head of the queue; that it ends once, with an answer only if it was executed, is `Outcomes` and `OwnAnswer`; that the innermost ends first is the guard `Awake`. |
| `AsyncCacheProofs!CacheTypeCorrect` | `TypeOK` is inductive. |
| `AsyncCacheProofs!NobodyIsForgotten` | `NoForgottenRequest` is inductive with `TypeOK`: a question leaves the queue only for the provider, the provider's answer and everything else that makes the key known empties the list. |
| `AsyncCacheProofs!AnswersWereKnown` | `KnownInv`: the tables hold what the cache was last told (`TablesAreLatest`), whoever waits asked for that key (`WaitersAsked`), what is queued for a get was known since the get (`QueuedWasKnown`), and a get not made yet has seen nothing. |
| `NameServiceProofs!NamesTypeCorrect` | `TypeOK` is inductive. |
| `NameServiceProofs!DatabaseAlwaysAgrees` | `DatabaseAgrees` needs that a session that has bound names has an owner and keeps it, which `SessionsHaveOwners` says. A notification that throws comes after the tables were changed, so it cannot leave them halfway. |
| `NameServiceProofs!BoundIsAlwaysMine` | `BoundIsMine`, from `BoundInv`. `SessionsFit`: a client and the session it has know each other, and whoever has none waits for nothing. `CallsFit` accounts for the command a client waits for, in each session with both ends open (`Live`): nothing is under way (`Quiet`), or the command is, last (`CommandUnderWay`), or its reply (`ReplyUnderWay`), and what is bound is what the client was told but for what these will change (`Told`). A lemma each for a command sent (`StandsCalled`, `SendStands`), executed (`StandsAnswered`, `StandsReplied`) and a reply taken (`StandsTail`); `Bystander` and `Notified` say that notifications of others do not disturb this. A reply of a lost session that is taken by a command sets `crossed` (`LateBound`). |
| `NameServiceProofs!ViewsAlwaysCatchUp` | `ViewCatchesUp`, from `ViewInv`. `HomesFit`: a search is in one session, from the command that starts it to the last message for it (`Home`), and no message read from a lost session concerns a search of an open one. `StartsFit`: a start under way is the only one for its receiver, which has been told nothing (`Fresh`), so that the first answer is the whole of what it shows. `ViewsFit`: `Says` states without `CHOOSE` what the messages under way make of a view; a message more (`SaysAppend`), one executed (`SaysTail`), a notification to those who watch (`Reached`, `NoticeStep`) each keep it equal to the data. It needs `DatabaseAgrees`, which finds the searches of a name by their patterns, and `SessionsFit`. That a notification that throws leaves receivers behind is what `threw` excepts. |
| `AsyncCacheProofs!EveryGetAnsweredOnce` | `OnceInv`: a request is in one place – a waiting list, the idle queue or the answers – and there once. That an answer empties the waiting list when it queues the callbacks (`NotifyOnce`) and a get enters a request nobody has (`GetOnce`) keeps it so. |
| `AsyncCacheProofs!ProviderAskedOnce` | `NoIdleQuestion`: when nobody waits for a key that users do not fill, no question for it is on its way; so whoever waits first may ask (`GetAsked`), and an answer, which ends the waiting, is to the only question (`AnswerAsked`). |
| `AsyncCacheProofs!AnswersKeepOrder` | `OrderInv`: every request made is answered, queued or waits (`Placed`); of one key the queued ones are in order, so are those who wait, and they come after the queued (`QueueBeforeWait`). It needs `OnceInv`, and `NoForgottenRequest` for the get of a known key, which may be queued behind its elders because none of them waits any more. |
| `StructProofs!QueueTypes`, `QueueOrder` | `BufferOrder` with the types of the three lists is inductive (`QueueInv`, proved by `QueueInvariant`). It must be known how a `get` of several items leaves the lists: `PeekManyOrdered` follows its three cases, of which the one that swaps the buffers must find the unget stack used up. `EmptyOrdered`, `PutOrdered`, `UngetOrdered`, `PeekOneOrdered` do the other methods. |
| `StructProofs!QueueRefines` | `QueueIsASequence`, when `MaxUnget <= 2`. `Items` is the sequence the three lists stand for. One lemma for each helper says what it does to `Items`: `ShiftItems` (nothing: the buffer is used up when it is replaced), `PullItems`, `PutItems`, `UngetItems` (the stack, or the place in front of the buffer), `PeekOneItems`, `PeekManyItems` (the stack reversed, then two pulls: `TwoPulls` says they get what was asked for, because a pull that falls short has emptied `append` or swapped it in). The invariant is `SmallStack`: `QueueInv` and at most two items put back; a get of several items then takes the whole stack, whatever place the code hands to `Tcl_ListObjReplace` (`StackPart`). With three it is false, see `queue_get`. `PeekSimulates`, `PutSimulates`, `UngetSimulates` and `OtherSimulate` map each method to its step of `ItemQueue`. |
| `NameServAutoProofs!AutoTypeCorrect` | `AutoTypeOK` bounds the timers by the losses. `StopReconnect` forgets a timer that still runs, so that this is no matter of course: `Timers` says that each timer but the one `timer` stands for, each event and an end not yet noticed have a loss of their own (`Sum`), which a timer or an event hands on when it calls `Reconnect`. |
| `NameServAutoProofs!RememberedIsPursued` | `PursuedOtherwise`. `Kept` says more of a call under way: a bind that the server has done pursues its name no more. A release, called after a restoration was begun and before it is answered, would unbind what the restoration has bound: `KeptAfter` says that whatever is remembered while a release waits is pursued by a call above it, and `InOrder`, that the server answers from the bottom, that this call is not answered first. One lemma each for a call that is put on top (`KeptPushed`), that returns (`KeptReturned`) and for the answers (`KeptServe`). |
| `HookProofs!HookTypeCorrect` | Part of `HookInv`. A dictionary of dictionaries of dictionaries has the type `Paths`; lemmas say what setting and unsetting a path leaves at every other path (`Has`), and the rest of the proofs speaks of `Has` only. |
| `StructProofs!StackTypes`, `StackIsOnePile` | `StackIsAPile`, with `StackTypeOK` as the invariant. A pile is the list reversed (`ReverseConcat`, `ReversedParts`); `PeekPile` says so of what `st_peek` answers and of what `Popped` leaves, on each of its three ways. For `rotate`, `ItemStack` turns the items one step at a time: `SteppedIsRotated` gives its recursive function a closed form, and `RotatePile` shows that the places the code computes, `n - steps % n` ahead in the circle, are the same (`RotatedPlace`: the sum wraps at most once). |
| `StructProofs!SetTypes`, `RepsAlwaysAgree` | `SetTypeOK` and `RepsAgree` from `SetInv`, which says of every object on the heap that it is `Fit`: its parts have their types, and those that are there say the same. Objects are named for the least of their variables, so each change moves them: `Rebound` says what an assignment to one variable does to the values of all, `NewObject` and `Changed` what a fresh object and a change in place do, `Conversion` what the commands' conversion of their arguments leaves. |
| `StructProofs!SetCommandsAreOperations` | `CommandsAreSetOperations`, the refinement of `SetVariables`, from `SetInv`; one lemma for each command. `AddSimulated`, `SubtractSimulated` and `IncludeSimulated` show that a shared object is copied before its first change and that one no other variable refers to may be changed where it is, also when both arguments are one variable. `FoldAdd` and `FoldIntersect` say what `union` and `intersect` compute of arguments of any number. |
| `HookProofs!IndexAlwaysAgrees` | `IndexAgrees`, in `HookInv` with `DictsOK`, the stack of calls and the counters. The step that could break it is `hook forget` of an object that is bound to itself: the second of its two loops goes by keys the first has removed. |
| `HookProofs!BindingsAreOneTable` | `TableSpec`, the refinement of `HookBindings`. `TableNow` is the table read from the dictionaries; each command is shown to be `Bind`, `Forget` or a stutter of it. It needs `IndexAgrees`: `forget` finds the bindings of an observer by the index. |
| `HookProofs!CallsFollowRules`, `EveryoneAlwaysCalled` | `CallRules`, `EveryoneIsCalled`: the second of the calls that come to the end of their loop, which is not those that a script ended by an error or `return`, nor those whose loop it ended by `break` (`broken`). `GoodCall` accounts for each observer of the start of a call that is not broken off: still to be looked at, called, or without its binding since; `DueAreBound`, that who has not lost the binding is bound now, over all the commands scripts may use meanwhile and in all the calls of the nest (`CallsGood`). |
| `UEventProofs!UEventTypeCorrect`, `TablesAlwaysAgree` | `UEventTypeOK`, `TablesAgree`, from `TableInv` and `WatchInv`. `TablesAgree` is not inductive: between the two changes that `unbind` makes, one list is shorter than the other, and other commands come in between, called by watchers. `Counted` says by how much: the length of `dt` is the number of bindings of the tag, and of the `unbind` commands that have not come to it (`Count`), and of those that failed on the way (`stuck`). `PositionsFit` says that the position taken from one list exists in the other when it is used; `EachOther` and `Listed` relate tokens, commands and lists; `NotGiven` and `WatchersFresh` say that a token not given out is nowhere, since both kinds share the counter. `StackOK` is what each frame knows about itself. |
| `UEventProofs!WatchersAlwaysKnow` | `WatchersKnow`, from `KnowInv` with the two above. `KnowsOrTold`: for a tag that is not muddled, each watcher knows what is bound or a command under way will tell it; a command that tells is then not to be followed by one that tells the opposite, which is `OneAtATime`: what binds or unbinds of one tag is alone, but for `add`s that came after it. `BelievesRight` is what each command takes for granted about the tables when it goes on (a bind, that something is bound). |
| `GraphProofs!LinksAgreeAlways` | `LinksAgree`, of graphs of any size, while the program makes none of the calls in `Defects`: chains forward, counts, tables, interlinks, the links back of arcs, and those of nodes in the graphs that are not in `copied`. The invariant is `Inv`, that the store is `Fit`. `Chained` names the sequence that each list is, and says of the links forward only that they follow it; `ChainIs` shows that the recursive function along `next` computes that sequence, and from then on no proof follows a link. `Tables` says that names lead to structures and back, `Joined` that an arc is in the interlinks of its two ends, nodes of its own graph, once, and in no others. What a structure that comes or goes does to all this is said once for nodes and arcs (`SetupStore`, `GoneStore`, as `gc_add`, `gc_remove` are shared in the code), then for each (`NodeComes`, `ArcComes`, `ArcGoes`, `NodeGoes`: while its arcs go, a node is in no list and the interlinks still have it). Links back are the delicate part: `gc_remove` trusts the one of what it removes. Those of arcs are all right, and so are those of the nodes of a graph that was not copied (`Tied`); of the nodes of one that was `Fit` asks it of the first only, since `dup` uses the links back of its source to find the copies and restores all but the second one's (section 6), and `MayDelete` keeps such nodes from being deleted one by one; `g_delete` takes the nodes from the first on, so that it meets no wrong one (`NodesGo`). A copy (`DupFit`), a list that is read (`ImportFit`; the references of what the program reads are to nodes, `ReadableSerial`, so are those of what was written, `WrittenReadable`) and the exchange with the graph built aside (`SwapOver`, where the graph of each structure changes with the lists) are the three parts of `=`, `-->` and `deserialize`. |

TLC checked each invariant, and the strengthenings of the proofs, before they were
proved.

Type invariants and `BufferOrder` are proved and in no run: a run of the properties that
rest on them would say nothing more.

What a fold over arguments or a number of steps computes is induction over data, for
which the provers have no rule. `FoldAdd`, `FoldIntersect` and `SteppedIsRotated` do
without: the recursive function exists, because its closed form satisfies its
equation; if it differed from that form there were a least argument at which it does
(`LeastOfNat`, from the order of the naturals being well-founded), and
the equation refutes it.

*Only model-checked.* Liveness (`SendReturns`, `GetsAnswered`, `CallReturns`, `RestoredOtherwise`): temporal
reasoning under fairness is not in the prover's reach. The properties of trees: the
links of every level change with each edit, and the argument made for the lists of a
graph would be needed for lists of children, arrays, numbers of levels and of
descendants. Of graphs, what the methods do to the names and answer about them
(`EditsAsDocumented`, `CopiesAsDocumented`, `QueriesAsDocumented`): it is compared with a
manual written as functions on names, from every state, by evaluating both. `TreeWalk` and
`GraphWalk`: `TreeWalk` has RECURSIVE operators, which the provers cannot use; no module
with theorems reaches it.

## 6. Where the code does something else than it says

| run | what happens |
|---|---|
| `comm_callback_twice` | The manual of `comm send -command`: if the connection is lost before a reply is received, the callback is invoked with a message for it. `commLostConn` does so and keeps the callback registered; a reply that was read before the loss and is still in the idle queue invokes it again. |
| `names_leak` | `nns.tcl`: "A registered name is automatically removed by the server when the connection to it collapses". A `Bind` read before the loss and executed after it enters a name under the lost id, for good. |
| `queue_get` | The manual of `queue get`: the front items are returned and removed. When more items were put back than are asked for, `Tcl_ListObjReplace` begins one place too low (`queue/m.c:231`): an item not returned goes, and one that was returned stays. |
| `names_auto_stale` | The manual of `nameserv::auto`: names are re-entered when the connection comes back. `LOST` fails at a destroyed receiver before it reports the loss (`nns.tcl:226`); after one answered asynchronous search nothing is restored any more. |
| `names_auto_forgets` | The manual: lost-name indicates "that a different client took ownership of the name", and another loss during the restoration restarts the timer. A restoration that is cut off by another loss, or that meets the client's own binding of a session the server has not missed yet, reports lost-name and forgets the name (`nns_auto.tcl:159`), though nobody else wants it. |
| `tree_walk_leave` | The manual of `walk`: in order `both` the command is called twice for each node, first with enter, then with leave. A breadth-first walk broken off on entering leaves the nodes it had queued and not entered (`tree/walk.c:576`). |

The passing run `graph` shows a disagreement, too. A comment says that a neighbour which
the command of a walk moved to a node not visited yet "will be visited multiple times"
(`graph/walk.c:312-318`). Before each neighbour of its copy a walk asks whether the node was
visited since; it visits no node twice (`WalksAsDocumented`).

Four more are stated as properties, which fail with the bounds of the run named here;
they are no runs of their own:

| property | what happens |
|---|---|
| `ReleasedIsReleased` (`names_auto_stale`) | A comment: the server is told to release "only if the connection is currently not lost". The condition is the opposite (`nns_auto.tcl:35`), and names stay bound. |
| `AllBeforeReturn` (`graph`) | A comment of `hook call`: "All bindings are called before the call returns" (`hook.tcl:223`). Without an `-errorcommand` a binding that ends with `break` ends the loop (`hook.tcl:273`), and the call returns normally; so does an `-errorcommand` that ends with it. |
| `NodesLinkedBack` (`graph`) | A comment has the chain of the source "restored" after its nodes were duplicated. The loop begins one node too late (`graph.c:708`): the second node stays linked back to a node of the copy, in the other graph, which may be destroyed. |
| `ReturnAborts` (`tree_walk_leave`) | A comment tells `break` and `return` apart, "return - abort walking" (`tree/walk.c:536`). A breadth-first walk in order `both` answers a `return` on entering as a `break`: it runs the script over the way back. |

Other disagreements were met while the code was read; the models do what the code does,
or leave the call out where it says so, and no property is about them:

- comm: of two crossed connections, the loss of the second finds the pending list
  gone, and `commLostConn` stops with an error before it cancels the futures
  (`comm.tcl:1066`); the manual says they do not try to deliver their result.
- nameserv: a reply read and not executed when the client finds its connection lost
  is taken by the first command on the next channel for its own (`nns.tcl:220`);
  `Search/Continuous/Stop` lacks `variable comm` and always fails
  (`server.tcl:187`), so that a `search -async` goes on being modified.
- nameserv::auto: a bind of the application that fails while the name is being
  restored unsets it; the restoration fails to unset it again and stops, with the
  names it has not come to (`nns_auto.tcl:155`): `broken` in the model, an exception of
  `PursuedOtherwise`.
- uevent: the manual of `watch event` has the command called when the first command is
  bound (`uevent.man:170-172`). A watcher of tags that binds to the same event while it is
  told makes the number of bindings two before the watchers of events are looked at
  (`uevent.tcl:55`): `muddled`, an exception of `WatchersKnow`. A comment has `dt` list the
  tokens of a tag; `unbind` takes out the element at the position the token has in
  another list (`uevent.tcl:115`); the length stays right, and nothing else is used.
- hook: the manual of `hook bind` with one argument answers the hooks "to which observers
  are currently bound" (`hook.man:132`); deleting a binding leaves the dictionaries that
  become empty, and their keys are the answer (`hook.tcl:160`). The manual of `hook call`:
  when the subject is forgotten no further bindings will be called
  (`hook.man:285-290`); a binding that forgets the subject and binds an observer of the
  list to it again has this one called (`hook.tcl:263`).
- stack: a rotation of no items divides by zero (`stack/m.c:314`).
- tree: the manual of `leaves` answers all leaf nodes; the cut of a leaf takes its parent,
  which has become a leaf, out of the list: `tn_insertmany` of no children
  (`tree/tn.c:495`; `cutLeaf` of `Defects`). A tree of one root that takes over another
  keeps the flag that says the cache is valid (`tree/ds.h:88`; `rootOnly` of `Defects`).
  `insert` of several nodes at a
  negative index reverses them. The manual lets `delete` take several nodes, the
  code takes one. `move` with a node twice counts it twice (`tree/m.c:1626`).
- graph: to delete a node whose link back points to the copy (`NodesLinkedBack`) writes
  there, or to what was freed with it (`copyChain` of `Defects`). The check of references in
  a serialization lets through the one after the last (`graph.c:311`; `lastReference` of
  `Defects`), which is where the graph's attributes stand.

The properties that hold are stated with the exception where one is needed:
`BoundIsMine` as long as no reply was crossed (`crossed`) and, for its second half, no
notification has thrown; `ViewCatchesUp` as long as none has (`threw`); `EveryoneIsCalled` for
calls that no script broke off; `RestoredOtherwise` for names that are bound or still
pursued when losses have come to an end (`Settled`); `LinksAgree`, of links back of nodes, for
graphs that were not copied; `WalksAsDocumented` without the breadth-first walks in
order `both` that were broken off on entering, of which it only says that they leave what
they entered, in reverse; those of the containers without the calls in `Defects` and with
two items put back.

## 7. Plan

In this order:

1. Tree: prove `TreeAgrees`, that the links of the nodes agree after each edit.
2. Comm: `abort` in the middle of a nest (`comm.tcl:284`).
3. `UEvent`: an abstract specification as a set of observers, of which `WatchersKnow` is
   a step.
4. `NameServAuto`: compose it with the receivers of `NameService`, so that the data a
   persistent search shows after a restoration can be compared with the server's.
5. `Tie`: an array and its sources. `Cron`: wake-ups.
6. The parser engine of `pt` in C: its stacks and its cache of nonterminals.
   `struct::pool`, `struct::disjointset`; the mail drop locks of `pop3d`.
7. Comm: `destroy` and `new` of a channel within the life of a process.

Each gets its module, an `MC` module and runs of two or three actors; where runs ask the
same question of two instances they are merged, as the containers are.

# fcpp_bridge in TLA+

A verification project for `src/fcpp_bridge`: TLA+ modules of the parts of the
bridge that decide something, TLC configurations that check them on small
instances, and TLAPS proofs for every value of the constants. The source was
read with its tests and docs; the modules follow the code, and where a docstring
promises something else a run or a note below shows the difference.

- `tlc -config <run>.cfg <Module>.tla` repeats a run,
- `tlapm <Module>_proof.tla` repeats the proofs,
- `PROJECT.json` maps each definition to the lines it models and lists runs,
  mutants, hazards, findings and theorems.

## 1. Inventory

The bridge turns a Python description of an aggregate program into a C++
program, compiles it, runs it as a swarm simulator or connects to real devices,
and observes it.

| Part (under `src/fcpp_bridge/`) | State it keeps | Operations | Talks to | Hard behaviour |
|---|---|---|---|---|
| `PhysicalNode` link, `ipc/physical_node.py` | backend, `_connected`, reconnect thread and its stop event | connect, close, get_state, start/stop_auto_reconnect, the loop | backends, base class | two threads in `connect()`, joins that give up after 2 s, attempts that fail half-way |
| Neighbours, `ipc/physical_node.py`, `ipc/liveness_strategy.py` | `_seen_node_ids`, `_timestamps` | dispatch of a snapshot, the heartbeat loop, discard, another strategy | stream thread, heartbeat thread, application callbacks | a dict iterated by one thread and grown by another; decisions on stale liveness |
| Base class and listeners, `ipc/_ipc_node_base.py`, `ipc/listener_proxy.py` | heartbeat thread, proxies, strategy | start/stop monitor, add/remove listener, dispatch, close | stream and heartbeat threads | stop and close from a callback, removal during dispatch, a closed executor |
| gRPC stream, `ipc/grpc_backend.py` | channel, `_stream_running`, stream thread | subscribe, close | dispatch of the node | a stream ended by the server or by a callback that raises, callbacks after close |
| `SwarmProcess`, `ipc/swarm_process.py` | process, backend, `num_nodes`, `_known_node_ids`, id counter | start, close, three ways to add nodes, remove, step, dispatch | subprocess, liveness strategy | records change before a command that may fail, or succeed and be answered too late |
| `DeviceManager`, `ipc/device_manager.py` | dict of devices, registration thread, event, port, callback | add, remove, start, connect, close, fleet calls, accept/stop registrations | all devices, HTTP registrations | caller and registration thread share the dict; joins that give up |
| `UnixSocketBackend`, `ipc/unix_socket_backend.py` | socket, bytes in it | send_command, get_state, close | caller, heartbeat thread (active ping), swarm | answers that come late, in pieces, or to the wrong thread |
| `Compiler`, `ProgramCache`, `compiler/` | manifest (memory and disk), binaries | get_or_compile, clear_cache | g++, other processes | kills, timeouts, a g++ left behind, stale manifests, lost updates |
| Metrics, `metrics/` | two ring buffers, callbacks | record, clear, remove_callback | listener proxies, visualizers | buffers that part company after an exception; several recorders |
| Visualization, `visualization/` | lists to plot, dirty flag, window | attach, detach, replay, update, the timer's frames | collector, main thread | drawing what another thread is appending to |
| Transpiler, `transpiler/` | output lines, declared names | visit of every syntax node | Python `ast`, g++ | rules that interact (scopes, nested calls, precedence) |
| DSL, `python_dsl/` | marks on classes | decorator, validation, type inference | transpiler | refused classes that stay marked; headers of nested types |
| Grammar, `grammar/` | tokens, position | parse, `ast_to_dsl` | ANTLR (absent) | precedence, error paths |
| Examples, `examples/` | state of each device | `compute()`, set-ups, tiles | FCPP (external), neighbours | devices at different rates, links that change, late answers |
| Output channels, HTTP backend, records, generators, logging | little or none | | | |

How they interact: a `DeviceManager` owns `SwarmProcess` and `PhysicalNode`
objects; both derive from `_IpcNodeBase`, own a backend, and receive snapshots
from its stream thread through `_dispatch_update()`, which hands them to the
listener proxies, and these to the metrics collector and its visualizers. The
heartbeat thread reads what the stream thread wrote in the liveness strategy.
Nothing in `ipc/`, `metrics/` or `visualization/` but `ListenerProxy` takes a
lock, so threads interleave between Python statements. A program takes another
way: decorator, validation, type inference, transpiler (or the text parser and
`ast_to_dsl`), C++, cache, binary.

What makes each part correct, in one line: the link has one open backend and a
truthful `is_connected`; neighbours that fall silent are reported; nothing is
called after `close()`; ids are unique and `num_nodes` is their number; a device
that is up can be closed; an answer goes to its question; a cached binary is the
program that was asked for; rounds and values of a plot belong together; the C++
compiles and computes what the Python does; a text is read as it is written;
the example programs settle on the right values whatever happened before.

## 2. Modules

| Module | Models | Proofs |
|---|---|---|
| `PhysicalLink` | `PhysicalNode`: connect, close, get_state, auto-reconnect | `PhysicalLink_proof` |
| `NeighborMonitor` | dispatch of snapshots against the heartbeat loop, `PassiveHeartbeatStrategy` | `NodeIpc_proof` |
| `NodeBase` | `_IpcNodeBase`: heartbeat thread, listeners, close, connect again, strategies, with the gRPC stream thread | `NodeBase_proof` |
| `SwarmProcess` | lifecycle of the subprocess and its node ids | `SwarmProcess_proof` |
| `DeviceFleet` | `DeviceManager` and its registration thread | `DeviceFleet_proof` |
| `Rpc` | abstract: what `send_command()` promises | used by the next |
| `SocketRpc` | `UnixSocketBackend.send_command()`, which implements `Rpc` | `NodeIpc_proof` |
| `BuildCache` | `Compiler.get_or_compile()`, `clear_cache()`, `ProgramCache` | `Build_proof` |
| `SwarmMonitor` | listener proxy, metrics collector and visualizer, one behind the other | `SwarmMonitor_proof` |
| `PyToCpp`, `ProgramSemantics` | the rules of the transpiler; what Python and C++ mean by their nodes | TLC only |
| `CppTypes` | type inference of the DSL, headers, struct declarations | with `Toolchain` |
| `LanguageParser` | tokeniser, parser, `ast_to_dsl()`; the grammar file's statements: expressions, assignments, `;` | with `Toolchain` |
| `Toolchain` | from a class or a text to C++, stage by stage | `Build_proof` |
| `ToolchainPrograms`, `MCToolchain` | what holds of the C++ that comes out; the jobs TLC tries | TLC only |
| `AggregateRound` | rounds of devices in a changing network, and the FCPP primitives (external) | with `AggregateExamples` |
| `GradientPrograms`, `RoutingPrograms`, `StoragePrograms` | `compute()` of the thirteen examples | with `AggregateExamples` |
| `ExampleSetup` | placement, roles, shared data | with `AggregateExamples` |
| `TileGeometry` | tiles and clipping | TLC only |
| `AggregateExamples` | one of these programs, or one set-up, per behaviour | `AggregateExamples_proof` |

Conventions. A variable carries the name of the attribute where it has one. A
thread is a program counter; one action is what one statement does to shared
attributes, and a statement that touches none is merged with the next. Objects
(backends, processes, devices, threads) are model values that are recycled when
nothing refers to them. A variable called *history* is not in the code; it
remembers something for a property. A definition whose comment begins with
"Mutant:" is a plausible mistake in the definition that follows it; no
specification uses it, and with it in place of that definition the run finds the
property violated. A property whose comment begins with "Violated:" states what
a document says or what one may expect, and no passing run lists it.

### PhysicalLink
`connect()` is ten statements (`c_*`, and `e_*` for its except clause), run by
the caller (`User`) and by `_reconnect_loop()` (`assert`, `test`, `poll`,
`wait`). `close()` is stop_auto_reconnect (`s_*`) and then the base class
(`k_*`). Thread k is created with stop event k; the loop reads the event from
the attribute, as the code does, so it may see None or its successor's event.
The heartbeat monitor that `close()` also stops is `NodeBase`'s.

### NeighborMonitor
The stream thread goes through a snapshot twice, as `_dispatch_update()` does:
joins, then heartbeats. The heartbeat thread computes `check()` node by node
(a dict that has grown raises) and then reports the dead, each in two steps:
`discard` and the leave callbacks. `view` is what the callbacks told the
application. A callback that raises ends the thread it runs in (`JoinRaises`,
`LeaveRaises`): the id is in `_seen_node_ids` by then and no heartbeat of the
snapshot is recorded (`physical_node.py:241`). A `connect()` subscribes the stream
again (`Subscribe`), and `set_liveness_strategy()` may put another strategy in
place while both threads use the old one (`Replace`; each has its own `stamp`).
`cut` is history: the nodes whose heartbeat was lost in one of these two ways,
until the next snapshot they are heard in.

### NodeBase
Three kinds of threads: the caller, heartbeat threads (`h_*`), stream threads
(`d_*`). `stop_heartbeat_monitor()` (`s_*`) and the rest of `close()` (`c_*`, with
`GrpcBackend.close()` in it) may be run by any of them, because a callback may call
them back; a thread that comes to its own join raises. Every access to an attribute
is a step, together with the test for None in front of it. What callbacks do is
`CallbackActs`. `shut` are the proxies whose `close()` was called: only the global
one is, although the docstring of `close()` says "close all listener proxies"
(`_ipc_node_base.py:114`), and a parallel proxy called after that fails on its
missing executor. Listeners submitted to a pool return or raise into their future;
they do not call back here. `connect()` is `CallConnect`, then `GrpcBackend.close()`
of the backend it replaces, then `Open` or `OpenFails`, all under a monitor that
goes on. A check() is two steps, the test for None and the use of the backend
(`HeartCheck`, `HeartRead`): with pings it asks through that backend, whose answers
may fail (`Dead`) or find the channel closed; with heartbeats it raises when the ids
have changed in number since (`liveness_strategy.py:114`). A stream ends when the
server ends it, by an RpcError or by a message that does not parse (`StreamNext`).
`broken` are the workers that ended of themselves in one of these ways, `steady` the
monitors that were started on a connected node and have seen no `connect()` since:
`PingsReach` speaks of them, because while `connect()` has taken the backend away
all nodes are reported dead (`liveness_strategy.py:171`). `QuietAfterClose` says
nothing of listeners that are in the pool of a node in parallel mode: `close()` does
not wait for them. `orderly` says that no join has given up on a living thread and
that no two threads have been in start, connect, stop or close at once: the code has
no lock against it, the properties only speak of what happens until then, and the
run does not follow a behaviour beyond its first disorderly step.

### SwarmProcess
A call changes its records and leaves a pending command; sending is an action
of its own, so that snapshots may be dispatched in between and the command may
be carried out (`ok`), not carried out (`lost`), or carried out with its answer
too late (`late`); in both failing cases `send_command()` raises.
`add_node(s)` commands carry the ids, `swarm` counts the nodes the subprocess
has under each id. `EveryNodeKnown` is the direction of `CountsAgree` that has to
survive failing commands: an add that was carried out and answered too late leaves
its ids in the records, so that they are not given out again. `RemovedNotReported`
is what the docstring of `remove_node()` promises (`_ipc_node_base.py:137`); it is
violated by a snapshot from before the removal that is dispatched after it.

### DeviceFleet
The caller is one thread, and each registration thread another. A fleet call
iterates over the dict itself and raises when its size has changed; `close_all()`
iterates over a copy. The registration thread's `do_POST()` is three steps: name
lookup, insertion, callback. `start_all`, `connect_all`, `step_all` and `send_all`
(which stands for get_all_states and total_nodes as well) differ in whom they
address and what may raise. A device is only up or not up here.
`accept_registrations()` takes a port (`Ports`); on a port in use no second server
can be opened (`ServerBind`). After a join that timed out (`device_manager.py:294`)
the old thread may still listen, reads the event of its successor and goes on beside
it on its own port: `together` remembers that two have listened at once, after which
two threads may look the same name up before either inserts it and a device is lost.
A client that sends nothing, and a callback that does not return, hold a
registration thread for ever.

### Rpc and SocketRpc
`Rpc` says: an answer that is returned belongs to a request that was sent, and
is returned once. `SocketRpc` has the bytes: the line of an answer comes in two
pieces, `recv()` returns any number of those that arrived, a call ends when its
`response_data` has a newline, and raises when that is not exactly one line,
when nothing comes, or when the socket is closed. `sendall()` is taken to send
the whole request. The refinement maps `unanswered` to the requests whose
newline is not yet read or sits in somebody's `response_data`.

### BuildCache
A process loads the manifest when it starts. `get_or_compile()` is lookup,
compile, link, store and save; g++ may fail or time out at two points, and a
process may be killed between any two statements, in `write_text()` too, which
then loses entries; saving may also raise and leave the process alive
(`SaveRaises`). `clear_cache()` unlinks one file per step and may raise in the
middle with a manifest that still names what is gone (`ClearRaises`). g++ is a
process of its own: one that `subprocess.run()` was waiting for goes on when Python
is killed, and the timeout kills its driver and not the linker. Such an `orphan`
links and completes its binary whenever it likes. A binary is none, partial, or the
flags it was built with. `disturbed` is history: since a process had the cache for
itself and cleared it, two processes have overlapped, a `clear_cache()` was cut
short, or a program was asked for while an orphan was still making it. Until then
the properties hold: a lookup wants the manifest and the file, and what an orphan
writes is in no manifest.

### SwarmMonitor
A dispatch calls `MetricsCollector.record()`, in the stream thread or, in
parallel mode, in whichever pool thread takes the oldest job. `record()` appends
to the history, appends a point (or an extractor raises), and iterates over the
callbacks, whose list `remove_callback()` replaces: an iteration that has begun
goes on over the old list (`cb`). `update()` of the visualizer appends to its lists
one after the other, trims them one after the other, and sets `_dirty`; `_mins`
and `_maxs` go with `_means`. The main thread attaches, detaches, clears, replays
the history, opens and closes the window, and draws frames: `_animate()` tests and
clears `_dirty`, then draws the counts, then the means. Lists of unequal lengths
make a plot raise, after `_dirty` has been cleared. An extractor that raises ends
the stream thread in sequential mode and stays in a future in parallel mode.
`clear()` and replays are tried against one recorder only (`OneRecorder`).
Exports iterate over `_points` and may raise while something records; they only
read and are left out.

### PyToCpp, ProgramSemantics, ToolchainPrograms
`PyToCpp` has one rule per `visit_*` method, on trees instead of text; a comparison
keeps the `&&` of its parts without parentheses, as the visitor writes it.
`ProgramSemantics` gives each tree a value, once by Python's rules and once by
C++'s: scopes, `switch`, and the types int, double, std::size_t and bool with their
conversions (`auto` keeps the type of the first value, `std::accumulate(..., 0)`
adds in int, `.size()` is unsigned, division of ints). Numbers are counted in
halves, so that what a conversion cuts off can be seen. `TypeOf` is the type g++
gives an expression, and `Compiles` refuses what g++ refuses: `std::max(double, int)`,
`%` and `switch` on a double, an index into a braced list, a list of mixed numbers, a
primitive in a function that has no `node`. The module is about the
languages and so external to the code.

The rules under which Python and C++ agree are operators of `ToolchainPrograms`.
`CompiledAgrees` has `NothingIgnored`, `NoShadow`, `SteadyRange`, `GuardLast`,
`PlainNumbers`, `TypeStable` (a variable keeps its first type), `LosesNothing` (no
division of whole numbers, no `%`, no sum of floats, no std::size_t beside what may be
negative) and `NoBreakInMatch`. `ScopedCompiles` has `NothingIgnored`, `Scoped` and
`WellTyped` (every expression has a type and one that its place allows). Each was
needed: without it TLC finds a program that compiles to something else, or not at
all. Among them: `break` in a `match` inside a loop ends the `switch`
and not the loop (`BreakAgrees`, violated); a chained comparison under `not` or
arithmetic binds to its first or last part; the `range()` of a `for` is evaluated
again in each round; an assigned name in a branch is declared there and unknown
after it; `x = 0` and then `x = self_state` cuts a float state off. A program that
calls a primitive in `compute()`, as `TUTORIAL_simple.md:148` does, does not compile
(`PrimitivesCompile`, violated): `compute_next_state()` has neither `node` nor `CALL`
(`transpiler_core.py:89`). Left out of these bodies: strings, None, lambdas, braced
lists kept in variables, and states that are structs; the generated file is
taken to find the library through `<fcpp/fcpp.hpp>`.

### CppTypes
An annotation is a node with a kind, a name and arguments, out of a set `Types`
that contains the arguments of its members. `Infer` is a recursive function over
that set: the C++ type, its headers, the struct it declares. `Simple` says of
which annotations `TypesCompile` speaks: those of built-in and library types, with
`None` only as the other half of an optional, and dataclasses with fields of such
types. `infer()` gives every other class its own name, which C++ does not know.

### LanguageParser
The methods of the parser read `toks` from a position on and return the node and
the position after it, or fail. `_parse_expr()` calls itself only further to the
right, so that `Expr` is one function over positions: at p it is made of the values
`R` to the right of p. A `while` loop is `Items`: the function `Loop` gives what
has been read after n rounds, and each round takes a token. The grammar
file has the same rules with other tables: arithmetic before comparison, keywords
are no names, names can be called, operators of two characters. Its body of
`compute()` is `stmt+` (`AggregateProgram.g4:36`): `Stmt` is an expression with or
without `;` (48) or an assignment (78), and `Stmts` all ways to split a text into
them; statements that begin with a keyword are left out with the keywords. `Words` are the
words that begin with a letter: the tokeniser also makes names of those that begin
with an underscore, and `_parse_atom()` refuses them (`token[0].isalpha()`).
`Unparse` is the text of a tree with parentheses around the right operands that
are operators themselves, which needs no precedence to be read.
`ast_to_dsl()` drops all arguments of a call but the first (`KeptChildren`).

### Toolchain
Takes one job through decorator, validation, `Transpiler` and generation, or
through parser and conversion. What the visitor makes of a body is the parameter
`CppOf`, so that nothing here is recursive but functions over given sets. A text
stands for the expression of `compute()` in a program with one function (`Frame`).
`FollowsGrammar` speaks of texts that both parsers split and name alike
(`PlainText`) and in which no arithmetic operator comes after a comparison
(`ArithmeticFirst`): where one does, `1 < 2 + 3` is read as `(1 < 2) + 3`. Of these
the parser accepts exactly the texts that are `OneExpression` for the grammar file,
one expression that no `;` ends, and reads them alike; what is an assignment,
ends in `;` or has several statements is in the grammar and refused by the parser.

### AggregateRound, the programs, ExampleSetup, TileGeometry
FCPP itself is not in the repository: `AggregateRound` models its primitives from
how the examples use them, with distances in hops. A device fires at any time,
reads what its neighbours exported last, and exports its new state; up to
`MaxMoves` links appear or disappear. Distances in hops leave no room for the width
of a channel, 20 m at a radius of 100: `ChannelBroadcast` has `ds + dd <= span` for
`ds + dd < span + width` (`channel_broadcast.py:119`), so that what a wider channel takes
in besides the shortest paths is not seen. The three program modules hold the thirteen
`compute()` methods. `ExampleSetup` and `TileGeometry` are pure: random draws are
any value, points are exact fractions, and the code's tolerances (1e-9, 1e-12) are
left out. What the models show of the code besides the properties:
- simple_averaging and distance_broadcast never leave their initial state, for all
  devices start alike and none is a source; chain_decaying builds its chain and
  never decays, against "nodes that lose connection" of `chain_decaying.py:17`
  (`CutOffDecays`, violated);
- message_dispatch delivers at the sender, for the receiver's id is a placeholder 0:
  a message ends where it starts;
- area_discovery goes through a set of its neighbours' tiles in the one order the
  set has (`rank`), and takes the first it does not know; a neighbour without a tile
  puts None into the set, and where None comes first nothing is asked for in any
  round (`area_discovery.py:248`). Its property speaks of the tiles no None comes before;
- in worker_role_assignment a broadcast gets the Boolean `is_receiver` as its
  distance, so that an endpoint takes its own id for its receiver's;
- scattered_database does not reset its tick counter when a new query follows at
  once, and an id that nobody holds blocks all higher ones;
- in iteratively_area_discovery no tile is ever claimed, against its docstring:
  what has timed out was pending, and what is pending is no candidate;
- what three programs look for they cannot reach (averaging, distance_broadcast,
  iteratively_area_discovery); `Arriving` are the ten others, and `Settled` says
  of each of them what its answer is;
- `_assign_initial_roles` says "A node within COMM of a sink point → RECEIVER", but
  only the nearest one becomes a receiver, and two sinks may share it;
- `tiles.py:227` says "CW also works as long as it is consistent"; it does not. An area with a
  remainder of less than half a cell keeps a strip that belongs to no tile.

## 3. Runs

| Run | Question | States | Result |
|---|---|---|---|
| `link_one_caller` | one caller that leaves `connect()` to a living reconnect thread: is the link consistent, does it heal, does every call return? | 4 k | holds |
| `nbr` | joins and leaves, with a new node that may kill the monitor, callbacks that raise, a strategy that is replaced | 539 k | holds |
| `nbr_monitor_dies` | does the monitor survive a new node? | | violated |
| `node_base` | caller, callbacks, heartbeats, streams and pools: quiet after close, one monitor, no thread lost, do pings go through the open channel? | 1.2 M | holds |
| `swarm` | ids and counts under failing commands | 859 k | holds |
| `swarm_sequential_ids` | explicit ids in the sequential range | | violated |
| `fleet` | the caller against two registration threads on two ports | 1.65 M | holds |
| `rpc` | two threads, timeouts, close; `SocketRpc` implements `Rpc` | 7 k | holds |
| `cache` | kills, timeouts, a g++ left behind, and restarts | 2.2 M | holds |
| `monitor` | rings, lists and frames behind a sequential or a parallel proxy | 620 k | holds |
| `toolchain` | do C++ and Python agree, do types compile, is text read as written? | 194 k | holds |
| `examples` | do programs invent nothing, rest only where they should, and settle; do set-ups serve, is clipping intersection? | 759 k | holds |

The two violated runs are disagreements between code and docstrings; each has a
finding in `PROJECT.json` that quotes the line. Other disagreements have no run of
their own: they appear when a constant of a passing run is changed (see the
table below) or are listed with their module above.

### Bounds
- `link_one_caller`: two backends and two reconnect threads: one in use and one
  being replaced; a third adds nothing, since at most one predecessor is referred
  to.
- `nbr`: two nodes, one known before the monitor starts and one not: `check()`
  raises only because of a node of the second kind. Two strategies: one in use and
  one that a thread still has in its hands after it was replaced. `Timeout = 0`,
  `MaxTime = 1`: one tick is longer than the window, so a node can be heard, fall
  silent and be reported, and be heard again at the second time.
- `node_base`: one node, one listener, two heartbeat threads and two backends, four
  calls: open, start and close with one more in between, or the node closed and
  opened again; callbacks may do anything at any time and are not counted.
- `swarm`: three sequential ids and one outside the range, batches of two,
  `num_nodes` up to 4, two subprocesses for a restart.
- `fleet`: one simulation, two physical devices, one name of the caller's and one
  of the devices', two registration threads and two ports, so that one thread can
  outlive its join and its successor listen beside it.
- `rpc`: three requests from two threads: an answer can be late by two calls.
- `cache`: two processes and two programs, so that a kill in `write_text()` can lose
  one entry and keep the other, and an orphan of one program runs beside the
  compilation of the other.
- `monitor`: rings and lists of one entry, so that every append but the first
  trims; three snapshots (two with a pool of two threads), one attach.
- `toolchain`: expressions and bodies over two names and a list of statements, two
  statements around a compound one, each for int and for float states; signatures
  and types nested two deep; all texts of up to five lexemes out of each of two sets
  of eight (one with `=` and `;`); int states -1, 0, 1, 3, float states with ½ besides,
  neighbourhoods of none and two. `Fuel` bounds the rounds of a loop.
- `examples`: up to four devices (three for routing and storage, two for the
  iterative discovery), which start in any network and see one link change, at any
  time; `collection` runs in a ring that does not change, `scattered` and
  `area` start in a line: they keep most state per device. One change is
  enough to make every distance and count stale, and to take away the holder of a
  tile that was asked for, so that only the timeout lets the query go. In `area` one
  device has no tile, and the set is in any order. Set-ups stand on 3x2 spots,
  polygons have their corners on 3x3.

### Assumptions of the passing runs, and what happens without them
Some properties hold only for callers that keep to a discipline the code does not
enforce. The discipline is a constant or a named condition, and changing it gives
a counterexample:

| Constant or condition | Passing value | Otherwise |
|---|---|---|
| `ConnectWhileAuto` | FALSE | `connect()` of the caller and of the thread close each other's backend: LinkConsistent, NoOrphan fail |
| `JoinTimesOut` | FALSE | ClosedIsClosed, OneLoop fail: a closed node is connected again by the thread whose join gave up (`physical_node.py:173`) |
| `GetStateOutcomes` | both exceptions | `get_state()` marks a link lost on ConnectionError alone, and the backends raise RuntimeError: `MarksLinkLost` fails, and without ConnectionError no link is ever lost to be healed |
| `PickIds` | outside the sequential range | two nodes with one id (`swarm_sequential_ids`) |
| `RemoveOutcomes` | without "lost" | the id of a node that is still there is given out again |
| `StartAgain` | FALSE | a second `start()` forgets the first subprocess |
| `OwnNames`, `DeviceNames` | disjoint | one registration replaces another |
| `RemoveEarly` | FALSE | a removed device is connected by its callback |
| `Configs` | one | a binary built with other flags is returned |
| `disturbed` of `BuildCache` | no overlap, no cut-off clear, nothing asked for that an orphan makes | partial binaries, programs compiled twice |
| `together` of `DeviceFleet` | one thread listens at a time | two threads on two ports register one name, a device is lost |
| `cut` of `NeighborMonitor` | no join callback raises, no new strategy | a node is a neighbour without a timestamp until it is heard again |
| `steady` of `NodeBase` | no `connect()` under the monitor | all nodes are reported dead while the backend is replaced |
| the condition of `CleanAnswersOwn` | no call raised, no two overlapped | the answer to a command that timed out is returned by the next one (`unix_socket_backend.py:48`) |
| `orderly` of `NodeBase` | no join gives up, one thread in start, connect, stop or close | two heartbeat threads, callbacks after close |
| `orderly` of `SwarmMonitor` | no two updates overlap | a plot pairs a round with the values of another |
| rules of `CompiledAgrees`, e.g. `TypeStable`, `LosesNothing`, `NoBreakInMatch` | kept | programs that compile to something else (`BreakAgrees`) |
| rules of `ScopedCompiles` | kept | programs g++ refuses (`PrimitivesCompile`) |

`GlobalHearsUnclaimed` of `NodeBase` fails, too: after the last per-node listener
was removed its empty proxy stays and keeps updates from the global listeners.

### Fairness
- `PhysicalLink`: threads that can run do (weak fairness), a call that was begun
  goes on, and attempts to create or to subscribe a backend do not fail for ever
  (strong fairness): without it nothing could heal.
- `NeighborMonitor`: time passes and both threads run; nodes need not move, and
  nobody need subscribe again or replace the strategy.
- `DeviceFleet`: a registration thread that waits for a connection polls its event
  every 0.5 s (`server.timeout`) and goes on. Nothing bounds the reading of a request
  (`device_manager.py:312`) or the callback, and no fairness is assumed of them:
  `ServersEnd` says that a thread ends or is held in one of the two. The caller need
  not call anything.
- `SocketRpc`: a thread in `send_command()` runs and its `recv()` has a timeout;
  the swarm need not answer.
- `SwarmMonitor`: threads run and calls that were begun go on (weak); the timer of
  the window fires again and again while it is open (strong fairness of `Animate`,
  since the main thread does other things in between).
- `AggregateRound`: a device whose next state differs from the one it has fires at
  last. This is weak fairness of its round, written out with `Rests` and `Fires`.
  Links come to rest because `MaxMoves` is finite.
- `SwarmProcess`, `BuildCache`, `NodeBase` and `Toolchain` have no liveness
  properties.

### Deadlock
Checked but in four runs that may stop: `rpc`, whose requests are bounded;
`node_base`, where a closed node whose caller has used up its calls does
nothing more; `toolchain`, whose job is done; and `examples`, whose set-up parts
have no steps and whose programs stop changing.

## 4. Proofs

All for every value of the constants, under the named ASSUMEs of the modules.

| Theorem | Says | Assumes besides |
|---|---|---|
| `Typing`, in each proof module (and `ToolTyping`) | `TypeOK` (`ControlType` in `NodeBase`, `ToolTypeOK` in `Toolchain`) is invariant | nothing |
| `PhysicalLink_proof!LinkSafety`, with `LinkTruthful`, `CloseIsFinal`, `OneReconnects` | NoOrphan, LinkConsistent, ClosedIsClosed, OneLoop | joins do not time out, no connect() beside a living thread |
| `PhysicalLink_proof!LoopLives` | LoopEndsWhenStopped | nothing |
| `NodeIpc_proof!SeenTracked` | SeenIsTracked | nothing (the property names what `cut` exempts) |
| `NodeBase_proof!QuietClose`, `SingleMonitor`, `WorkersKeepOn`, `PingsGoOut` | QuietAfterClose, OneMonitor, WorkersLive, PingsReach | nothing (the properties speak of orderly behaviours) |
| `SwarmProcess_proof!UniqueIds`, `RecordsAgree`, `NodesKnown` | NoDuplicateNode, CountsAgree, EveryNodeKnown | the discipline above |
| `SwarmProcess_proof!ClosedStops` | ClosedMeansStopped | one `start()` between two `close()` |
| `DeviceFleet_proof!NothingLost`, `ReachesAll`, `ExitIsClean` | NoLostDevice, FleetReachesAll, ExitLeavesNothing | disjoint names, no early remove (the properties end at `together`) |
| `NodeIpc_proof!Refines` | `SocketRpc` implements `Rpc` | nothing |
| `NodeIpc_proof!OwnAnswer` | CleanAnswersOwn | nothing |
| `Build_proof!GeneratedIsValid` | OnlyValidGenerated | nothing |
| `Build_proof!StateTypesCompile` | TypesCompile, for annotations of any depth | nothing |
| `Build_proof!TextsFollowGrammar` | FollowsGrammar, for texts of any length | nothing |
| `Build_proof!TreesAreKept` | DslKeepsTree, for trees of any depth | nothing |
| `Build_proof!Right`, `Once` | RightBinary, NotCompiledTwice | one configuration for RightBinary (the properties end at `disturbed`) |
| `SwarmMonitor_proof!QuietAfterDetach`, `Aligned`, `RingsStayTogether` | DetachIsQuiet, ListsAligned, RingsAgree | nothing |
| `AggregateExamples_proof!NothingIsInvented` | NothingInvented, for all thirteen programs | nothing |
| `AggregateExamples_proof!SetupsServe` | SetupServes, for every placement and draw | nothing |
| `AggregateExamples_proof!RestsRight` | RestIsRight, for every number of devices, every network and any number of moves | one of nine programs: not `collection`, nor the three that seek no end |

Every safety property a run checks of these modules is proved, in both modes and
for any number of threads, nodes, entries, devices, annotations and texts, but for
ScopedCompiles and CompiledAgrees, TilesCut, and what RestIsRight says of
`collection`.

The named ASSUMEs ask for no more than a deployment has: finite sets of ids and
tiles, readings that are numbers (`ReadingsAreNumbers`), points that are counted
(`PointsGiven`), a `Far` that no walk in the network reaches (`SizesAreNatural`), a
tick counter that stops after a sender has had a time to send and not at one
(`CountersStopIdle`), annotations and syntax trees that are trees, so that each
member is less deep than the whole (`TypesAreTrees`, `SyntaxTrees`), lexemes of
which none is of two sorts (`LexemesApart`), and texts made of them with the words
of the frame among the keywords and names (`ProgramsGiven`).

The arguments. None of the properties is inductive; each module ends with the
invariant that is, in named parts, after the heading "Why".

- `LinkInv`: at most one thread is in `connect()` or `close()` (`CallerAlone`,
  `OneLoop`), and for that thread the statement it is at says what the backend
  is (`ConnectProgress`, `CloseProgress`). `LoopRegistered` alone gives
  `LoopLives`: the loop's event is the attribute as long as it is registered.
- `SeenInv`: how far the dispatch is; a seen node is tracked, in the snapshot or cut
  off, and a dispatch takes a node from `cut` only when it wrote into the strategy
  that is still in use.
- `NodeInv`: as long as the behaviour is orderly one thread manages the node
  (`ManagerAlone`). `MonitorInv`: the living heartbeat thread is the registered
  one, and past the join none lives. `StreamInv`: the open channel is that of the
  backend until it is closed, and the stream threads of earlier backends wait for a
  snapshot in vain. The proof has one lemma for a worker's step outside the calls
  (`WorkerKeeps`), one for entering them (`EnterKeeps`), and one per call.
  `PingsGoOut` needs that a steady monitor has a backend and that it is open as
  long as the monitor lives, which is the order of the statements of `close()`.
- `IdsInv`, `CountInv`: the ids here and there, with a command pending.
- `FleetInv`: what was looked up is still so when the device is inserted
  (`CallerProgress`, `ServerProgress`), one thread listens at a time
  (`OneListener`) until `together`, and no object has two names. `ReachInv` says which
  devices a fleet call has been to, `ExitInv` what is up on the way out.
- `BuffersApart`: `recv()` gives every piece to one thread; with `TypeOK` it makes
  each step of `SocketRpc` a step of `Rpc` or a stutter. `Rpc`'s own `CleanInv`
  (the only unanswered request is that of the call under way) then gives
  `OwnAnswer`.
- `CacheInv`: what the manifest or a process knows is complete except while it is
  cleared, no orphan writes it, and memory agrees with the disk except while it is
  saved.
- `ToolInv`: what has been given to `Transpiler` is of a known type, and what was
  inferred is `Infer` of it. `Infer` exists because annotations are trees (one
  function on those of each height, growing), and by induction over the height every
  `Standard` annotation has an inferred type that knows its names by its own headers.
- `ParseInv`: what has been parsed is `ParseString` of the frame, and what has been
  converted is its `ToDsl`. The rest is about the operators. A parser that only looks
  to the right exists and moves to the right (`ExprIs`, `ExprMoves`), and a loop has
  ended after as many rounds as there are tokens left (`LoopEnds`). Two levels of
  operators read as one does when no arithmetic follows a comparison: the arithmetic
  chain is read alike, and after its end only comparisons come, whose right operands
  are single calls on the second level, too (`SameExpr`, by induction
  from the right end of the text); and a statement that is an expression to the
  end of the text is the only way to split it (`OneStatement`). For trees: the text of a tree, wherever it stands in a
  program and followed by no operator, is read as an operand, a chain or an
  expression and gives the tree back (`BinopRead`, `CallRead`, `TreeRead`, by
  induction over the rank of the tree).
- `RingsInv`: the points lag behind the history by the records that stand between
  the two appends. `UpdateProgress`: the statement an update is at says which lists
  are ahead. `DetachInv`: an iteration over the collector's own list of callbacks
  ends with the list, and over an older one only an excused record() iterates.
- `ExamplesInv`: what a device has stored is true because what its neighbours
  export is: a process, an answer or a payload on its way satisfies what the
  property says of one that has arrived (`DispatchInv`, `WorkersInv`, `RolesInv`,
  `DataInv`). `ClaimsInv` says why no tile is ever claimed: all devices stay
  SEEKING with no assignments, so that no answer comes, and what times out was
  pending and therefore not a candidate. The set-ups have no steps: `SetupsServe`
  is about the operators: a device that is not isolated keeps the neighbour it has,
  since that one is not isolated either and stays (`MigrationIs`); sources take their
  anchors and their senders from what the sinks have left (`RolesServed`).
- `RestInv` adds what keeps a network from resting short of its answer: distances
  are numbers, a device that has fired in chain_decaying has heard of the source or
  knows of none and holds a chain (`ChainContained`), a device holds the message it
  received (`OwnReceived`), a sender has sent once its first time is over, a query has
  an age, a device knows its own tile, and the order of a set of tiles is one
  (`RanksGiven`). From there `RestsRight` is an argument about one
  state in which `Compute(n) = {state[n]}` for every device. A field of distances
  that reproduces itself is the number of hops to the nearest source: by induction
  over the distance below `Far`, `Ball(S, k)` being the devices within k steps
  (`FixedBelow`, `FixedBall`, `FixedAre`), and `HopsAre` says the same of the
  reference definition. A greatest reading, a chain or a collected set is the same all over
  a component, because the devices that have it are closed under links
  (`ClosedContains`); along a tree the argument goes up by distance, each device
  having a nearest neighbour (`UpIs`, `BroadcastArrives`). For the queries: a device
  whose query is open and whose state does not change has let its age run out
  (`QueryFinished`), so that it asks for the least or for the only thing it lacks; its
  neighbours that hold it would answer (`HolderAnswers`, `AnswersFlow`,
  `AnswerFound`); so none does. In scattered_database an answer may need one
  device between, the one with the id asked for, which relays: `ScatteredRests`
  takes the least id that somebody lacks and a connected device holds, and shows
  that the devices that lack it, with that one, are closed under links.

Induction. The library's induction theorems cannot be instantiated here; the same
is said of a set instead of an operator and proved from the least element of a
finite set and from strict inclusion (`SetInduction`, `SubsetInduction`). That is
enough for the inductions above, over numbers, distances and finite sets. For a
recursive function over a set of trees the library has nothing that can be used
either: its existence is proved from functions on growing domains that agree where
both are defined.

What the proofs found. `ScatteredSettled` used to say that an id no connected
device holds blocks the ids above it for all but the device of that id; for that
device, too, as the proof and then TLC showed with four devices. The passing run
had three. `RestIsRight` holds of area_discovery only because of the timeout
(`area_discovery.py:242`): the run therefore starts with a device that lacks two tiles
and a holder that may leave. `TypesCompile` used to allow `None` anywhere beside an
optional; `infer()` writes `None` into a tuple as a type of that name, and the
induction over annotations stopped there: `Kept` now goes by position.

Only model-checked: the liveness properties (HealsLostLink, CallsReturn,
SilentIsReported, ServersEnd, `SocketRpc`'s CallsReturn, ShownInTheEnd,
SettlesRight), for TLAPS does not reason about fairness and ENABLED; ScopedCompiles
and CompiledAgrees, which rest on RECURSIVE operators; TilesCut, about folds
over the edges of a polygon with exact fractions; and `collection` at rest, whose
sums are divided among the receivers in whole units: 12 of them are exact for the
networks of the run and not for any number of devices.

What is not said by RestsRight is that a program comes to rest: SettlesRight has
that, on the small networks.

## 5. Not modelled

- HTTP backend: a stateless request and answer; that its failures are
  RuntimeErrors is in `PhysicalLink`. Unary gRPC calls likewise.
- Records (`swarm_snapshot.py`, `node_state.py`), package exports: no behaviour.
- Output channels: four small classes without state but the list of the proxy.
  `FileOutputChannel.clone()` shares a stream that the clone does not own, so that
  closing the original closes it under the clone; `DeviceFleet` only takes a
  `send()` that may raise.
- Text generation and text processing: CMake files, compiler diagnostics, the C++
  runtime and its templates, the dashboard, summaries and exports of metrics.
- Bridge logging (`log.py`): one level that is saved and restored; disabling twice
  saves the disabled level (`log.py:130`), after which it cannot be restored.
- The example driver (`abstract_example.py:137-218`): a straight sequence of calls
  of parts that are modelled. As written it does not get far: every bundled
  example uses the ids 0..n-1, which `start()` has put into `_known_node_ids`
  (`swarm_process.py:116`), so that the first `add_node_explicit()` raises
  ValueError, and without try/finally the subprocess keeps running. The default
  Unix backend has no push subscription (`ipc_backend.py:21`), so that `_on_snapshot`
  is never called and `latest_snapshot()` stays None. Positions, roles and stored
  data of a set-up do not reach the binary.
- In the toolchain: `lambda`, nested dataclasses and `forward` annotations given as
  strings, template parameters and sized arrays, the spelling of literals;
  the ANTLR path, whose generated stubs are not
  in the repository and whose `computeDef` has statements where the visitor asks for
  an expression. `cpp_std` is never read, a method of the program is overridden by
  the mixin's of that name, and the example of DSL_GUIDE.md lines 497-505 does not
  compile.
- Outside the models: what bytes a partial `sendall()` leaves, a manifest line cut in
  the middle, several swarms on one socket path, the answer a registering device
  gets, data races below the level of a Python statement (the interpreter lock
  excludes them).

## 6. What the plan has left

1. `NodeBase` beyond its first disorderly step: two heartbeat threads, and which
   callbacks still run after a close whose join gave up.
2. An abstract source of snapshots (in order, each at most once, none after close)
   that the stream thread of `NodeBase` implements and `NeighborMonitor` and
   `SwarmMonitor` take their snapshots from.
3. The answers registering devices get, with their retries (`DeviceFleet`).
4. Output channels: ownership of streams through clone and close.
5. The rules of scope of the transpiler as a state machine without recursion, to
   prove `ScopedCompiles` for programs of any length.
6. Tiles: that clipping at one edge keeps a convex polygon's points on the inner
   side, as lemmas about `Side` and `Crossing`, and from them `ClipIsIntersection` for
   any polygon.
7. `collection` at rest with sums that are fractions.

------------------------------ MODULE NodeBase ------------------------------
(***************************************************************************)
(* What SwarmProcess and PhysicalNode inherit from _IpcNodeBase            *)
(* (ipc/_ipc_node_base.py): the listeners (ipc/listener_proxy.py), the     *)
(* heartbeat thread with its liveness strategy (ipc/liveness_strategy.py), *)
(* and close(); together with the stream thread of GrpcBackend             *)
(* (ipc/grpc_backend.py) that calls _dispatch_update().                    *)
(*                                                                         *)
(* Callbacks run in the heartbeat thread (on_dead) and in the stream       *)
(* thread (listeners); they may return, raise, or call the node back.  No  *)
(* lock covers the attributes, so a step is one access to them, the test   *)
(* for None that goes before it included.                                  *)
(***************************************************************************)
EXTENDS Integers, Sequences, FiniteSets, SequencesExt

CONSTANTS
  Nodes,         \* node ids
  Fns,           \* listener functions
  Hearts,        \* heartbeat threads; thread h is created with stop event h
  Backends,      \* backend objects; b is also the name of its stream thread
  User,          \* the thread that calls the API
  None,          \* Python's None
  Global,        \* the name of the global listener proxy; a node names its own
  Strategies,    \* the strategies in use, a subset of AllStrategies
  Modes,         \* the listener modes in use, a subset of {"sequential", "parallel"}
  CallbackActs,  \* what callbacks do, a subset of AllActs
  MaxCalls       \* calls of the API the caller makes

AllStrategies == {"passive", "ping", "always"}
AllActs       == {"return", "raise", "stop", "close"}

ASSUME NamesDistinct ==
  /\ User \notin Hearts \cup Backends \cup {None}
  /\ None \notin Hearts \cup Backends
  /\ Hearts \cap Backends = {}
  /\ Global \notin Nodes
ASSUME ChoicesKnown ==
  /\ Strategies \subseteq AllStrategies
  /\ Modes \subseteq {"sequential", "parallel"}
  /\ CallbackActs \subseteq AllActs
  /\ MaxCalls \in Nat

Workers == Hearts \cup Backends
Threads == {User} \cup Workers
Proxies == {Global} \cup Nodes

VARIABLES
  mode,          \* self._listener_mode
  backend,       \* self.backend
  open,          \* backends whose channel is open
  running,       \* backends whose _stream_running is set
  heart,         \* self._heartbeat_thread
  event,         \* self._heartbeat_stop_event
  eventsSet,     \* the stop events that are set
  strategy,      \* the kind of self._liveness_strategy
  tracked,       \* the ids it tracks
  proxies,       \* the listener proxies that exist
  fns,           \* the listeners of each
  shut,          \* the proxies that were closed
  pool,          \* listeners submitted to a thread pool and not yet called
  pc,            \* where each thread stands
  after,         \* whether a thread in stop_heartbeat_monitor() is in close()
  target,        \* the thread or backend a thread joins or closes
  left,          \* nodes a worker has yet to report or to route
  todo,          \* listeners a stream thread has yet to call for one node
  calls,         \* calls the caller has made
  asks,          \* the check() a heartbeat thread is in
  closed,        \* history: the last of start and close to be completed is close()
  orderly,       \* history: no join gave up on a busy thread, and no two threads
                 \* were in start, stop or close at once
  broken,        \* history: the workers that ended of themselves: an exception of a
                 \* callback or of check(), or the server, ended them
  steady         \* history: the heartbeat threads that were started with a backend
                 \* there, with no call of connect() since

threadVars == <<heart, event, eventsSet>>
listenVars == <<proxies, fns>>
linkVars   == <<backend, open, running>>
liveVars   == <<strategy, tracked>>
workVars   == <<left, todo, asks>>
vars == <<mode, linkVars, threadVars, liveVars, listenVars, shut, pool, pc, after, target,
          workVars, calls, closed, orderly, broken, steady>>

StopPoints  == {"s_set", "s_join", "s_wait", "s_none", "s_event"}
ClosePoints == {"c_proxy", "c_flag", "c_join", "c_channel", "c_drop"}
Points == {"idle", "a_thread", "dead", "o_open", "h_test", "h_check", "h_read", "h_next", "h_call", "h_wait",
           "d_next", "d_track", "d_route", "d_call"} \cup StopPoints \cup ClosePoints

\* A check(): of which kind of strategy, through which backend it pings, and
\* whether the strategy is still the node's.
Unasked == [kind |-> "always", of |-> None, same |-> FALSE]
Asks    == [kind : AllStrategies, of : Backends \cup {None}, same : BOOLEAN]

\* Threads and what they manage.
ControlType ==
  /\ backend \in Backends \cup {None} /\ open \subseteq Backends /\ running \subseteq Backends
  /\ heart \in Hearts \cup {None} /\ event \in Hearts \cup {None} /\ eventsSet \subseteq Hearts
  /\ pc \in [Threads -> Points]
  /\ target \in [Threads -> Hearts \cup Backends \cup {None}]
  /\ \A t \in Threads : pc[t] \in {"s_wait", "a_thread"} => target[t] \in Hearts \ {t}
  /\ \A t \in Threads : pc[t] \in {"c_join", "c_channel"} => target[t] \in Backends
  /\ pc[User] \in {"idle", "a_thread", "o_open"} \cup StopPoints \cup ClosePoints
  /\ after \in [Threads -> {"return", "close", "connect"}]
  /\ \A t \in Workers : after[t] # "connect" /\ pc[t] # "o_open"
  /\ asks \in [Hearts -> Asks]
  /\ strategy \in AllStrategies /\ tracked \subseteq Nodes /\ left \in [Workers -> SUBSET Nodes]
  /\ broken \subseteq Workers
  /\ closed \in BOOLEAN /\ orderly \in BOOLEAN

TypeOK ==
  /\ ControlType
  /\ proxies \subseteq Proxies /\ shut \subseteq proxies
  /\ \A p \in Proxies : ToSet(fns[p]) \subseteq Fns /\ (fns[p] # <<>> => p \in proxies)
  /\ pool \subseteq Fns /\ (pool # {} => mode = "parallel")
  /\ \A h \in Hearts : pc[h] = "h_wait" => left[h] = {}

Init ==
  /\ mode \in Modes
  /\ backend = None /\ open = {} /\ running = {}
  /\ heart = None /\ event = None /\ eventsSet = {}
  /\ strategy \in Strategies /\ tracked = {}
  /\ proxies = {} /\ fns = [p \in Proxies |-> <<>>] /\ shut = {} /\ pool = {}
  /\ pc = [t \in Threads |-> IF t = User THEN "idle" ELSE "dead"]
  /\ after = [t \in Threads |-> "return"]
  /\ target = [t \in Threads |-> None]
  /\ left = [w \in Workers |-> {}] /\ todo = [w \in Workers |-> <<>>]
  /\ asks = [h \in Hearts |-> Unasked]
  /\ calls = 0
  /\ closed = FALSE /\ orderly = TRUE /\ broken = {} /\ steady = {}

Alive(t) == pc[t] # "dead"
Goto(t, from, to) == pc[t] = from /\ pc' = [pc EXCEPT ![t] = to]

----------------------------------------------------------------------------
(* Starting and stopping the heartbeat thread.                             *)

\* Thread t is in start, connect, stop or close; it enters one of them.
Manages(t) == pc[t] \in StopPoints \cup ClosePoints \cup {"a_thread", "o_open"}
Enters(t) == orderly' = (orderly /\ \A u \in Threads \ {t} : ~Manages(u))

Call == pc[User] = "idle" /\ calls < MaxCalls /\ calls' = calls + 1

StartHeartbeat ==
  /\ Call
  /\ Enters(User)
  /\ \/ /\ heart # None /\ Alive(heart)
        /\ UNCHANGED <<pc, target, event, eventsSet>>
     \/ /\ ~(heart # None /\ Alive(heart))
        /\ \E h \in Hearts : /\ ~Alive(h) /\ h \notin {heart, event}
                             /\ event' = h /\ eventsSet' = eventsSet \ {h}
                             /\ target' = [target EXCEPT ![User] = h]
        /\ Goto(User, "idle", "a_thread")
  /\ UNCHANGED <<mode, linkVars, heart, liveVars, listenVars, shut, pool, after, workVars,
                 closed, broken, steady>>

StartThread ==
  /\ pc[User] = "a_thread"
  /\ heart' = target[User]
  /\ pc' = [pc EXCEPT ![User] = "idle", ![heart'] = "h_test"]
  /\ steady' = IF backend # None THEN steady \cup {heart'} ELSE steady \ {heart'}
  /\ broken' = broken \ {heart'}
  /\ UNCHANGED <<mode, linkVars, event, eventsSet, liveVars, listenVars, shut, pool, after,
                 target, workVars, calls, closed, orderly>>

\* A call of thread t returns: to the caller, or to the callback that made it.
Returns(t) ==
  /\ pc' = [pc EXCEPT ![t] = IF t = User THEN "idle"
                             ELSE IF t \in Hearts THEN "h_next" ELSE "d_call"]
  /\ closed' = IF t = User /\ after[t] = "close" THEN TRUE ELSE closed
  /\ UNCHANGED broken

\* It raises: a worker's callback lets the exception through, and the worker ends.
Raises(t) ==
  /\ pc' = [pc EXCEPT ![t] = IF t = User THEN "idle" ELSE "dead"]
  /\ broken' = broken \cup ({t} \ {User})
  /\ UNCHANGED closed

Moves(t, to) == pc' = [pc EXCEPT ![t] = to] /\ UNCHANGED <<closed, broken>>
StopDone(t) == IF after[t] = "close" THEN Moves(t, "c_proxy") ELSE Returns(t)

StopSet(t) ==
  /\ pc[t] = "s_set" /\ Moves(t, "s_join")
  /\ eventsSet' = eventsSet \cup ({event} \ {None})
  /\ UNCHANGED <<heart, event, target, orderly>>

\* Mutant: the thread is not waited for.
StopJoinNot(t) ==
  /\ pc[t] = "s_join"
  /\ IF heart = None THEN StopDone(t) ELSE Moves(t, "s_none")
  /\ UNCHANGED <<threadVars, target, orderly>>

\* A thread cannot join itself.
StopJoin(t) ==
  /\ pc[t] = "s_join"
  /\ \/ heart = None /\ StopDone(t) /\ UNCHANGED target
     \/ heart = t /\ Raises(t) /\ UNCHANGED target
     \/ /\ heart \notin {None, t} /\ Moves(t, "s_wait")
        /\ target' = [target EXCEPT ![t] = heart]
  /\ UNCHANGED <<threadVars, orderly>>

\* The join ends with the thread, or after 2 s.
StopWait(t) ==
  /\ pc[t] = "s_wait" /\ Moves(t, "s_none")
  /\ orderly' = (orderly /\ ~Alive(target[t]))
  /\ UNCHANGED <<threadVars, target>>

StopNone(t) ==
  /\ pc[t] = "s_none" /\ Moves(t, "s_event")
  /\ heart' = None
  /\ UNCHANGED <<event, eventsSet, target, orderly>>

StopEvent(t) ==
  /\ pc[t] = "s_event" /\ StopDone(t)
  /\ event' = None
  /\ UNCHANGED <<heart, eventsSet, target, orderly>>

Stop(t) ==
  /\ StopSet(t) \/ StopJoin(t) \/ StopWait(t) \/ StopNone(t) \/ StopEvent(t)
  /\ UNCHANGED <<mode, linkVars, liveVars, listenVars, shut, pool, after, workVars, calls,
                 steady>>

----------------------------------------------------------------------------
(* close() after the monitor was stopped; GrpcBackend.close(), which       *)
(* connect() calls, too, while the monitor goes on.                        *)

\* Thread t is done with the old backend: close() returns, connect() goes on.
CloseDone(t) == IF after[t] = "connect" THEN Moves(t, "o_open") ELSE Returns(t)

CloseProxy(t) ==
  /\ pc[t] = "c_proxy" /\ Moves(t, "c_flag")
  /\ shut' = shut \cup ({Global} \cap proxies)
  /\ UNCHANGED <<linkVars, target, orderly>>

CloseFlag(t) ==
  /\ pc[t] = "c_flag"
  /\ \/ backend = None /\ CloseDone(t) /\ UNCHANGED <<running, target>>
     \/ /\ backend # None /\ Moves(t, "c_join")
        /\ running' = running \ {backend}
        /\ target' = [target EXCEPT ![t] = backend]
  /\ UNCHANGED <<shut, backend, open, orderly>>

\* A stream thread that waits for the next snapshot ends with the channel; giving
\* up on it is harmless.
CloseJoin(t) ==
  /\ pc[t] = "c_join"
  /\ \/ target[t] = t /\ Raises(t) /\ UNCHANGED orderly
     \/ /\ target[t] # t /\ Moves(t, "c_channel")
        /\ orderly' = (orderly /\ pc[target[t]] \in {"dead", "d_next"})
  /\ UNCHANGED <<shut, linkVars, target>>

CloseChannel(t) ==
  /\ pc[t] = "c_channel" /\ Moves(t, "c_drop")
  /\ open' = open \ {target[t]}
  /\ UNCHANGED <<shut, backend, running, target, orderly>>

CloseDrop(t) ==
  /\ pc[t] = "c_drop" /\ CloseDone(t)
  /\ backend' = None
  /\ UNCHANGED <<shut, open, running, target, orderly>>

Close(t) ==
  /\ \/ CloseProxy(t) \/ CloseFlag(t)
     \/ CloseJoin(t) \/ CloseChannel(t) \/ CloseDrop(t)
  /\ UNCHANGED <<mode, threadVars, liveVars, listenVars, pool, after, workVars, calls,
                 steady>>

\* Mutant: the backend is closed before the monitor is stopped.
EnterBackendFirst(t, act) ==
  /\ pc' = [pc EXCEPT ![t] = IF act = "close" THEN "c_proxy" ELSE "s_set"]
  /\ after' = [after EXCEPT ![t] = "return"]
  /\ Enters(t)

\* Thread t calls stop_heartbeat_monitor() or close().
Enter(t, act) ==
  /\ pc' = [pc EXCEPT ![t] = "s_set"]
  /\ after' = [after EXCEPT ![t] = IF act = "close" THEN "close" ELSE "return"]
  /\ Enters(t)

CallStop ==
  /\ Call
  /\ \E act \in {"stop", "close"} : Enter(User, act)
  /\ UNCHANGED <<mode, linkVars, threadVars, liveVars, listenVars, shut, pool, target,
                 workVars, closed, broken, steady>>

----------------------------------------------------------------------------
(* The other calls.                                                        *)

\* start(), or connect(), which closes the backend that is there first.
CallConnect ==
  /\ Call
  /\ pc' = [pc EXCEPT ![User] = IF backend = None THEN "o_open" ELSE "c_flag"]
  /\ after' = [after EXCEPT ![User] = "connect"]
  /\ Enters(User)
  /\ steady' = {}
  /\ UNCHANGED <<mode, linkVars, threadVars, liveVars, listenVars, shut, pool, target, workVars,
                 closed, broken>>

\* A backend is created and subscribed to.
Open ==
  /\ pc[User] = "o_open"
  /\ \E b \in Backends :
       /\ ~Alive(b)
       /\ backend' = b /\ open' = open \cup {b} /\ running' = running \cup {b}
       /\ pc' = [pc EXCEPT ![User] = "idle", ![b] = "d_next"]
       /\ broken' = broken \ {b}
  /\ closed' = FALSE
  /\ UNCHANGED <<mode, threadVars, liveVars, listenVars, shut, pool, after, target, workVars,
                 calls, orderly, steady>>

\* One of the two fails, and there is no backend.
OpenFails ==
  /\ Goto(User, "o_open", "idle")
  /\ UNCHANGED <<mode, linkVars, threadVars, liveVars, listenVars, shut, pool, after, target,
                 workVars, calls, closed, orderly, broken, steady>>

\* add_listener(), add_node_listener(): the proxy is created with its first listener.
AddListener ==
  /\ \E p \in Proxies, f \in Fns :
       /\ f \notin ToSet(fns[p])
       /\ proxies' = proxies \cup {p}
       /\ fns' = [fns EXCEPT ![p] = Append(@, f)]
  /\ UNCHANGED <<liveVars, asks>>

\* remove_listener(), remove_node_listener(): the proxy stays.
RemoveListener ==
  /\ \E p \in proxies, f \in Fns :
       /\ f \in ToSet(fns[p])
       /\ fns' = [fns EXCEPT ![p] = SelectSeq(@, LAMBDA g : g # f)]
  /\ UNCHANGED <<proxies, liveVars, asks>>

\* set_liveness_strategy() with a new object, and discard() through remove_node().
SetStrategy ==
  /\ \E s \in Strategies : strategy' = s
  /\ tracked' = {}
  /\ asks' = [h \in Hearts |-> [asks[h] EXCEPT !.same = FALSE]]
  /\ UNCHANGED listenVars

Discard ==
  /\ \E n \in tracked : tracked' = tracked \ {n}
  /\ UNCHANGED <<strategy, listenVars, asks>>

\* get_state(): on_snapshot() in the caller.
GetState ==
  /\ backend # None
  /\ \E ns \in SUBSET Nodes : tracked' = tracked \cup ns
  /\ UNCHANGED <<strategy, listenVars, asks>>

Configure ==
  /\ Call
  /\ AddListener \/ RemoveListener \/ SetStrategy \/ Discard \/ GetState
  /\ UNCHANGED <<mode, linkVars, threadVars, shut, pool, pc, after, target, left, todo,
                 closed, orderly, broken, steady>>

----------------------------------------------------------------------------
(* The heartbeat thread.                                                   *)

HeartTest(h) ==
  /\ pc[h] = "h_test"
  /\ Moves(h, IF event = None \/ event \in eventsSet THEN "dead" ELSE "h_check")
  /\ UNCHANGED <<left, asks, orderly, after>>

\* check() is called: it goes over the ids that are tracked now.
HeartCheck(h) ==
  /\ pc[h] = "h_check" /\ Moves(h, "h_read")
  /\ left' = [left EXCEPT ![h] = tracked]
  /\ asks' = [asks EXCEPT ![h] = [kind |-> strategy, of |-> backend, same |-> TRUE]]
  /\ UNCHANGED <<orderly, after>>

\* What it reports as dead.  How old a timestamp is and which pings are answered in
\* time is left open; a ping that fails counts as one that is not answered.
Dead(h) ==
  CASE asks[h].kind = "always" -> {{}}
    [] asks[h].kind = "ping" /\ asks[h].of = None -> {left[h]}
    [] OTHER -> SUBSET left[h]

\* The ids are iterated over where they are, unless they are pinged, and have
\* changed in number.
SizeChanged(h) ==
  /\ asks[h].same /\ ~(asks[h].kind = "ping" /\ asks[h].of # None)
  /\ Cardinality(tracked) # Cardinality(left[h])

\* check() returns, or raises because of a change that came before its end.
HeartRead(h) ==
  /\ pc[h] = "h_read"
  /\ \/ Moves(h, "h_next") /\ \E ns \in Dead(h) : left' = [left EXCEPT ![h] = ns]
     \/ SizeChanged(h) /\ Raises(h) /\ left' = [left EXCEPT ![h] = {}]
  /\ asks' = [asks EXCEPT ![h] = Unasked]
  /\ UNCHANGED <<orderly, after>>

HeartNext(h) ==
  /\ pc[h] = "h_next"
  /\ \/ left[h] = {} /\ Moves(h, "h_wait") /\ UNCHANGED left
     \/ \E n \in left[h] : left' = [left EXCEPT ![h] = @ \ {n}] /\ Moves(h, "h_call")
  /\ UNCHANGED <<asks, orderly, after>>

\* Mutant: an exception of on_dead is caught and ends the thread in silence.
HeartCallCaught(h) ==
  /\ pc[h] = "h_call"
  /\ Moves(h, "dead") /\ UNCHANGED <<after, orderly, left, asks>>

\* on_dead(nid)
HeartCall(h) ==
  /\ pc[h] = "h_call"
  /\ \E act \in CallbackActs :
       \/ act = "return" /\ Moves(h, "h_next") /\ UNCHANGED <<after, orderly>>
       \/ act = "raise" /\ Raises(h) /\ UNCHANGED <<after, orderly>>
       \/ act \in {"stop", "close"} /\ Enter(h, act) /\ UNCHANGED <<closed, broken>>
  /\ UNCHANGED <<left, asks>>

HeartWait(h) ==
  /\ pc[h] = "h_wait"
  /\ Moves(h, IF event = None THEN "dead" ELSE "h_test")
  /\ UNCHANGED <<left, asks, orderly, after>>

Heart(h) ==
  /\ HeartTest(h) \/ HeartCheck(h) \/ HeartRead(h) \/ HeartNext(h) \/ HeartCall(h) \/ HeartWait(h)
  /\ UNCHANGED <<mode, linkVars, threadVars, liveVars, listenVars, shut, pool, target, todo,
                 calls, steady>>

----------------------------------------------------------------------------
(* The stream thread.                                                      *)

\* A snapshot arrives, or the closed channel ends the iteration; or the server, an
\* RpcError or a message that cannot be converted does, in silence.
StreamNext(b) ==
  /\ pc[b] = "d_next"
  /\ \/ b \in open /\ b \notin running /\ Moves(b, "dead") /\ UNCHANGED left
     \/ b \notin open /\ Moves(b, "dead") /\ UNCHANGED left
     \/ b \in open /\ Raises(b) /\ UNCHANGED left
     \/ /\ b \in open /\ b \in running /\ Moves(b, "d_track")
        /\ \E ns \in SUBSET Nodes : left' = [left EXCEPT ![b] = ns]
  /\ UNCHANGED <<tracked, todo, pool, orderly, after>>

StreamTrack(b) ==
  /\ pc[b] = "d_track" /\ Moves(b, "d_route")
  /\ tracked' = tracked \cup left[b]
  /\ UNCHANGED <<left, todo, pool, orderly, after>>

\* The proxy node n's update goes to: its own if there is one, else the global one.
Route(n) == {n, Global} \cap IF n \in proxies THEN {n} ELSE proxies

StreamRoute(b) ==
  /\ pc[b] = "d_route"
  /\ \/ left[b] = {} /\ Moves(b, "d_next") /\ UNCHANGED <<left, todo, pool>>
     \/ \E n \in left[b] :
          /\ left' = [left EXCEPT ![b] = @ \ {n}]
          /\ \/ Route(n) = {} /\ Moves(b, "d_route") /\ UNCHANGED <<todo, pool>>
             \/ \E p \in Route(n) :
                  \/ /\ mode = "sequential" /\ Moves(b, "d_call")
                     /\ todo' = [todo EXCEPT ![b] = fns[p]] /\ UNCHANGED pool
                  \/ /\ mode = "parallel" /\ p \notin shut /\ Moves(b, "d_route")
                     /\ pool' = pool \cup ToSet(fns[p]) /\ UNCHANGED todo
                  \/ /\ mode = "parallel" /\ p \in shut      \* _executor is None
                     /\ Moves(b, IF fns[p] = <<>> THEN "d_route" ELSE "dead")
                     /\ UNCHANGED <<pool, todo>>
  /\ UNCHANGED <<tracked, orderly, after>>

\* A listener is called; a removal since does not matter, the list is a copy.
StreamCall(b) ==
  /\ pc[b] = "d_call"
  /\ \/ todo[b] = <<>> /\ Moves(b, "d_route") /\ UNCHANGED <<todo, orderly, after>>
     \/ /\ todo[b] # <<>>
        /\ todo' = [todo EXCEPT ![b] = Tail(@)]
        /\ \E act \in CallbackActs :
             \/ act = "return" /\ Moves(b, "d_call") /\ UNCHANGED <<after, orderly>>
             \/ act = "raise" /\ Raises(b) /\ UNCHANGED <<after, orderly>>
             \/ act \in {"stop", "close"} /\ Enter(b, act) /\ UNCHANGED <<closed, broken>>
  /\ UNCHANGED <<left, tracked, pool>>

Stream(b) ==
  /\ StreamNext(b) \/ StreamTrack(b) \/ StreamRoute(b) \/ StreamCall(b)
  /\ UNCHANGED <<mode, linkVars, threadVars, strategy, listenVars, shut, target, calls,
                 asks, steady>>

\* A thread of a pool calls a listener; what it raises stays in the future.
PoolCall ==
  /\ \E f \in pool : pool' = pool \ {f}
  /\ UNCHANGED <<mode, linkVars, threadVars, liveVars, listenVars, shut, pc, after, target,
                 workVars, calls, closed, orderly, broken, steady>>

----------------------------------------------------------------------------
UserStep ==
  StartHeartbeat \/ StartThread \/ CallStop \/ CallConnect \/ Open \/ OpenFails \/ Configure
Next ==
  \/ UserStep \/ PoolCall
  \/ \E t \in Threads : Stop(t) \/ Close(t)
  \/ \E h \in Hearts : Heart(h)
  \/ \E b \in Backends : Stream(b)

Spec == Init /\ [][Next]_vars

\* The model is not followed beyond the first disorderly step, after which the
\* properties below say nothing.
Orderly == orderly

----------------------------------------------------------------------------
\* After close() has returned the heartbeat thread has ended, and the stream
\* thread has ended or waits for a snapshot it will not look at: neither calls an
\* on_dead or a listener before the next start.  (close, stop_heartbeat_monitor,
\* GrpcBackend.close)  In parallel mode this says nothing of the listeners that
\* are in a pool by then: close() does not wait for those of a node, and they
\* run on.
QuietAfterClose ==
  closed /\ orderly =>
    /\ \A h \in Hearts : Alive(h) => heart = h \/ pc[User] = "a_thread"
    /\ \A b \in Backends : Alive(b) => pc[b] = "d_next" /\ b \notin running

\* There is one heartbeat thread (start_heartbeat_monitor is idempotent).
OneMonitor ==
  orderly => \A h, i \in Hearts : Alive(h) /\ Alive(i) => h = i

\* A heartbeat or stream thread ends only because it was stopped or closed;
\* because a callback raised; in a check() whose ids changed in number meanwhile
\* (liveness_strategy.py:114); because the server ended the stream or a message
\* failed; or because a parallel proxy was closed.  No other step of a caller or
\* a worker takes an attribute away that it needs.
WorkersLive ==
  orderly =>
    /\ heart # None /\ ~Alive(heart) => heart \in eventsSet \cup broken
    /\ backend # None /\ ~Alive(backend) =>
         backend \in broken \/ backend \notin running \/ (mode = "parallel" /\ shut # {})

\* With ActivePingStrategy a monitor that was started on a connected node pings
\* through an open channel as long as nobody calls connect(): close() stops the
\* monitor before it takes the backend away, so that no node is reported dead for
\* want of a connection.  connect(), which replaces the backend under a running
\* monitor, is exempt: until it is done all nodes are reported dead.
PingsReach ==
  \A h \in Hearts :
    pc[h] = "h_read" /\ asks[h].kind = "ping" /\ h \in steady /\ orderly => asks[h].of \in open

\* Violated: an update of a node without a per-node listener goes to the global
\* ones.  After the last per-node listener was removed its empty proxy stays.
GlobalHearsUnclaimed ==
  [][\A b \in Backends, n \in Nodes :
       pc[b] = "d_route" /\ n \in left[b] \ left'[b] /\ mode = "sequential"
         /\ fns[n] = <<>> /\ fns[Global] # <<>>
         => todo'[b] = fns[Global]]_vars

(***************************************************************************)
(* Why they hold: as long as no join gives up and one thread at a time is   *)
(* in start, stop or close, that thread's place tells what the attributes  *)
(* are.                                                                    *)
(***************************************************************************)
NoHeart == \A h \in Hearts : ~Alive(h)

ManagerAlone == \A t, u \in Threads : Manages(t) /\ Manages(u) => t = u

\* Thread t is in close(), past the monitor.
Past(t) == pc[t] \in ClosePoints /\ after[t] # "connect"

\* The heartbeat thread that lives is the registered one, with its own event, and a
\* registered thread that does not live was stopped or broken.
MonitorInv ==
  /\ \A h \in Hearts : Alive(h) => heart = h
  /\ (\A t \in Threads : pc[t] \notin {"a_thread", "s_event"}) => heart = event
  /\ \A t \in Threads :
       /\ pc[t] \in {"s_none", "s_event"} \/ Past(t) => NoHeart
       /\ pc[t] = "s_event" \/ Past(t) => heart = None
       /\ pc[t] = "s_wait" => target[t] = heart
       /\ pc[t] = "a_thread" => NoHeart /\ t = User /\ target[t] \in Hearts \ {heart}
                                /\ event = target[t]
  /\ heart # None /\ ~Alive(heart) => heart \in eventsSet \cup broken

\* The backend's channel is the open one, until it is closed; the streams of earlier
\* backends wait for a snapshot in vain.  A steady monitor asks through the backend.
StreamInv ==
  /\ running \subseteq open /\ open \subseteq {backend}
  /\ backend = None \/ backend \in open \/ \E t \in Threads : pc[t] = "c_drop"
  /\ \A t \in Threads :
       /\ pc[t] \in {"c_join", "c_channel"} => target[t] = backend /\ backend \notin running
       /\ pc[t] \in {"c_channel", "c_drop"} => backend # None /\ pc[backend] \in {"dead", "d_next"}
       /\ pc[t] = "c_drop" => backend \notin open
       /\ pc[t] = "o_open" => backend = None
       /\ pc[t] \in ClosePoints \cup {"o_open"} /\ after[t] = "connect" => steady = {}
  /\ \A b \in Backends \ {backend} : pc[b] \in {"dead", "d_next"}
  /\ backend # None /\ ~Alive(backend) =>
       backend \in broken \/ backend \notin running \/ (mode = "parallel" /\ shut # {})
  /\ closed => backend = None
  /\ \A h \in steady \cap Hearts :
       /\ Alive(h) => backend # None
       /\ pc[h] = "h_read" => asks[h].of = backend

NodeInv == orderly => ManagerAlone /\ MonitorInv /\ StreamInv
=============================================================================

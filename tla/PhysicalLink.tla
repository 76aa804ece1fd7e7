---------------------------- MODULE PhysicalLink ----------------------------
(***************************************************************************)
(* The connection of a PhysicalNode to its device                          *)
(* (ipc/physical_node.py): connect(), close(), get_state() and the         *)
(* auto-reconnect thread.                                                  *)
(*                                                                         *)
(* Nothing in the class takes a lock, so a step is what one Python         *)
(* statement does to the attributes of the node, and the steps of the      *)
(* caller's thread and of the reconnect threads interleave.  connect() is  *)
(* run by the caller and by _reconnect_loop() alike.                       *)
(***************************************************************************)
EXTENDS Integers, FiniteSets

CONSTANTS
  Backends,          \* backend objects (HttpBackend, GrpcBackend), recycled once closed
  Loops,             \* reconnect threads; thread k is created with stop event k
  User,              \* the thread that calls the API
  NoObject,          \* Python's None
  ConnectOutcomes,   \* how an attempt may end, a subset of AttemptOutcomes
  GetStateOutcomes,  \* how backend.get_state() may end, a subset of CallOutcomes
  JoinTimesOut,      \* may join(timeout=2.0) return before the thread ends?
  ConnectWhileAuto   \* may the caller connect() while a reconnect thread lives?

AttemptOutcomes == {"ok", "createFails", "subscribeFails"}
CallOutcomes    == {"ok", "RuntimeError", "ConnectionError"}

ASSUME ThreadsDistinct == User \notin Loops
ASSUME NoneDistinct    == NoObject \notin Backends \cup Loops \cup {User}
ASSUME OutcomesKnown   == /\ ConnectOutcomes \subseteq AttemptOutcomes
                          /\ GetStateOutcomes \subseteq CallOutcomes
ASSUME SwitchesBoolean == JoinTimesOut \in BOOLEAN /\ ConnectWhileAuto \in BOOLEAN

Threads == {User} \cup Loops

MaxStreams == 2      \* "two or more" subscriptions of one backend

VARIABLES
  backend,           \* self.backend
  connected,         \* self._connected
  reconnectThread,   \* self._reconnect_thread
  stopEvent,         \* self._reconnect_stop_event
  eventsSet,         \* the stop events on which set() was called
  open,              \* backends created and not yet closed
  streams,           \* successful subscriptions of each backend since its creation
  pc,                \* the next statement of each thread
  call,              \* the API call the caller is in
  closed             \* history: the last call to complete was close()

vars == <<backend, connected, reconnectThread, stopEvent, eventsSet, open,
          streams, pc, call, closed>>

nodeVars   == <<backend, connected, open, streams>>
threadVars == <<reconnectThread, stopEvent, eventsSet>>

ConnectPoints == {"c_test", "c_close", "c_none", "c_reset", "c_create",
                  "c_subscribe", "c_done", "e_test", "e_close", "e_none"}
LoopPoints    == {"dead", "assert", "test", "poll", "wait"} \cup ConnectPoints
UserPoints    == {"idle", "g_call", "g_lost", "g_raise",
                  "a_event", "a_thread", "s_set", "s_join", "s_thread", "s_event",
                  "k_test", "k_close", "k_none", "k_reset"} \cup ConnectPoints
Calls         == {"none", "connect", "get_state", "start", "stop", "close"}

TypeOK ==
  /\ backend \in Backends \cup {NoObject}
  /\ connected \in BOOLEAN
  /\ reconnectThread \in Loops \cup {NoObject}
  /\ stopEvent \in Loops \cup {NoObject}
  /\ eventsSet \subseteq Loops
  /\ open \subseteq Backends
  /\ streams \in [Backends -> 0..MaxStreams]
  /\ pc \in [Threads -> LoopPoints \cup UserPoints]
  /\ pc[User] \in UserPoints
  /\ \A k \in Loops : pc[k] \in LoopPoints
  /\ call \in Calls
  /\ closed \in BOOLEAN

Alive(k) == pc[k] # "dead"

Init ==
  /\ backend = NoObject
  /\ connected = FALSE
  /\ reconnectThread = NoObject
  /\ stopEvent = NoObject
  /\ eventsSet = {}
  /\ open = {}
  /\ streams = [b \in Backends |-> 0]
  /\ pc = [t \in Threads |-> IF t = User THEN "idle" ELSE "dead"]
  /\ call = "none"
  /\ closed = FALSE

(***************************************************************************)
(* Control: thread t goes from one statement to another.  A call of the    *)
(* caller ends with Return; connect() in a reconnect thread ends in the    *)
(* loop, whether it raised or not (the loop catches every Exception).      *)
(***************************************************************************)
Goto(t, from, to) == pc[t] = from /\ pc' = [pc EXCEPT ![t] = to]
Stay == UNCHANGED <<call, closed>>

ReturnUser(from) ==
  /\ Goto(User, from, "idle")
  /\ call' = "none"

\* Mutant: connect() of the caller goes on into the loop.
LeaveConnectIntoLoop(t, from) == Goto(t, from, "wait") /\ Stay

LeaveConnect(t, from) ==
  IF t = User
  THEN ReturnUser(from) /\ closed' = FALSE
  ELSE Goto(t, from, "wait") /\ Stay

-----------------------------------------------------------------------------
(* connect(), by any thread.                                               *)

ConnectTest(t) ==
  /\ Goto(t, "c_test", IF backend # NoObject THEN "c_close" ELSE "c_reset")
  /\ Stay /\ UNCHANGED <<nodeVars, threadVars>>

\* Mutant: the old backend is replaced without being closed.
ConnectCloseOldSkipped(t) ==
  /\ Goto(t, "c_close", "c_none")
  /\ Stay /\ UNCHANGED <<backend, connected, open, streams, threadVars>>

\* self.backend is read again: None raises AttributeError, outside the try.
ConnectCloseOld(t) ==
  /\ IF backend = NoObject
     THEN LeaveConnect(t, "c_close") /\ UNCHANGED open
     ELSE Goto(t, "c_close", "c_none") /\ Stay /\ open' = open \ {backend}
  /\ UNCHANGED <<backend, connected, streams, threadVars>>

ConnectDropOld(t) ==
  /\ Goto(t, "c_none", "c_reset")
  /\ backend' = NoObject
  /\ Stay /\ UNCHANGED <<connected, open, streams, threadVars>>

\* Mutant: no pessimistic reset before the attempt.
ConnectResetMissing(t) ==
  /\ Goto(t, "c_reset", "c_create")
  /\ Stay /\ UNCHANGED <<nodeVars, threadVars>>

ConnectReset(t) ==
  /\ Goto(t, "c_reset", "c_create")
  /\ connected' = FALSE
  /\ Stay /\ UNCHANGED <<backend, open, streams, threadVars>>

\* A new object; when the bound on Backends is reached an orphan is forgotten.
NewBackend ==
  IF Backends \ (open \cup {backend}) # {}
  THEN Backends \ (open \cup {backend}) ELSE Backends \ {backend}

ConnectCreate(t) ==
  /\ \E b \in NewBackend :
       /\ Goto(t, "c_create", "c_subscribe")
       /\ backend' = b
       /\ open' = open \cup {b}
       /\ streams' = [streams EXCEPT ![b] = 0]
  /\ ConnectOutcomes \ {"createFails"} # {}
  /\ Stay /\ UNCHANGED <<connected, threadVars>>

ConnectCreateFails(t) ==
  /\ "createFails" \in ConnectOutcomes
  /\ Goto(t, "c_create", "e_test")
  /\ Stay /\ UNCHANGED <<nodeVars, threadVars>>

\* The backend subscribed is the one the attribute holds now.
ConnectSubscribe(t) ==
  /\ backend # NoObject
  /\ "ok" \in ConnectOutcomes
  /\ Goto(t, "c_subscribe", "c_done")
  /\ streams' = [streams EXCEPT ![backend] =
                    IF @ < MaxStreams THEN @ + 1 ELSE @]
  /\ Stay /\ UNCHANGED <<backend, connected, open, threadVars>>

ConnectSubscribeFails(t) ==
  /\ backend = NoObject \/ "subscribeFails" \in ConnectOutcomes
  /\ Goto(t, "c_subscribe", "e_test")
  /\ Stay /\ UNCHANGED <<nodeVars, threadVars>>

ConnectDone(t) ==
  /\ LeaveConnect(t, "c_done")
  /\ connected' = TRUE
  /\ UNCHANGED <<backend, open, streams, threadVars>>

HandlerTest(t) ==
  /\ Goto(t, "e_test", IF backend # NoObject THEN "e_close" ELSE "e_none")
  /\ Stay /\ UNCHANGED <<nodeVars, threadVars>>

\* Whatever close() raises is swallowed, the AttributeError of None included.
HandlerClose(t) ==
  /\ Goto(t, "e_close", "e_none")
  /\ open' = open \ {backend}
  /\ Stay /\ UNCHANGED <<backend, connected, streams, threadVars>>

\* Mutant: the loop does not catch what connect() raises.
HandlerRaiseKillsLoop(t) ==
  /\ IF t = User THEN LeaveConnect(t, "e_none")
                 ELSE Goto(t, "e_none", "dead") /\ Stay
  /\ backend' = NoObject
  /\ UNCHANGED <<connected, open, streams, threadVars>>

HandlerRaise(t) ==
  /\ LeaveConnect(t, "e_none")
  /\ backend' = NoObject
  /\ UNCHANGED <<connected, open, streams, threadVars>>

Connect(t) ==
  \/ ConnectTest(t) \/ ConnectCloseOld(t) \/ ConnectDropOld(t) \/ ConnectReset(t)
  \/ ConnectCreate(t) \/ ConnectCreateFails(t)
  \/ ConnectSubscribe(t) \/ ConnectSubscribeFails(t) \/ ConnectDone(t)
  \/ HandlerTest(t) \/ HandlerClose(t) \/ HandlerRaise(t)

-----------------------------------------------------------------------------
(* _reconnect_loop(), by reconnect thread k.  The stop event is read from  *)
(* the attribute every time; when it is None the thread dies of the        *)
(* AttributeError (or of the assertion).                                   *)

LoopAssert(k) ==
  /\ Goto(k, "assert", IF stopEvent = NoObject THEN "dead" ELSE "test")
  /\ Stay /\ UNCHANGED <<nodeVars, threadVars>>

\* Mutant: the loop does not look at its stop event.
LoopTestForever(k) ==
  /\ Goto(k, "test", "poll")
  /\ Stay /\ UNCHANGED <<nodeVars, threadVars>>

LoopTest(k) ==
  /\ Goto(k, "test", IF stopEvent = NoObject \/ stopEvent \in eventsSet
                     THEN "dead" ELSE "poll")
  /\ Stay /\ UNCHANGED <<nodeVars, threadVars>>

LoopPoll(k) ==
  /\ Goto(k, "poll", IF connected THEN "wait" ELSE "c_test")
  /\ Stay /\ UNCHANGED <<nodeVars, threadVars>>

LoopWait(k) ==
  /\ Goto(k, "wait", IF stopEvent = NoObject THEN "dead" ELSE "test")
  /\ Stay /\ UNCHANGED <<nodeVars, threadVars>>

Loop(k) == LoopAssert(k) \/ LoopTest(k) \/ LoopPoll(k) \/ LoopWait(k) \/ Connect(k)

-----------------------------------------------------------------------------
(* The API calls of the caller.                                            *)

Enter(c, to) ==
  /\ Goto(User, "idle", to)
  /\ call' = c
  /\ UNCHANGED <<nodeVars, threadVars>>

CallConnect ==
  /\ ConnectWhileAuto \/ \A k \in Loops : ~Alive(k)
  /\ Enter("connect", "c_test")
  /\ closed' = FALSE

\* get_state() raises at once when there is no backend.
CallGetState ==
  /\ backend # NoObject
  /\ Enter("get_state", "g_call")
  /\ UNCHANGED closed

\* The call is made on the backend the attribute holds now; None raises
\* AttributeError, which get_state() does not catch either.
GetStateReturns ==
  /\ backend = NoObject \/ "ok" \in GetStateOutcomes
  /\ ReturnUser("g_call")
  /\ UNCHANGED <<nodeVars, threadVars, closed>>

\* A transport error: only ConnectionError and OSError reach the handler.
GetStateFails ==
  /\ backend # NoObject
  /\ \E e \in GetStateOutcomes \ {"ok"} :
       Goto(User, "g_call", IF e = "ConnectionError" THEN "g_lost" ELSE "g_raise")
  /\ Stay /\ UNCHANGED <<nodeVars, threadVars>>

GetStateMarksLost ==
  /\ ReturnUser("g_lost")
  /\ connected' = FALSE
  /\ UNCHANGED <<backend, open, streams, threadVars, closed>>

GetStateRaises ==
  /\ ReturnUser("g_raise")
  /\ UNCHANGED <<nodeVars, threadVars, closed>>

\* Mutant: start_auto_reconnect() is not idempotent.
CallStartTwice ==
  /\ \E k \in Loops : ~Alive(k)
  /\ Enter("start", "a_event")
  /\ closed' = FALSE

\* start_auto_reconnect() is a no-op while the registered thread is alive.
CallStart ==
  /\ ~(reconnectThread # NoObject /\ Alive(reconnectThread))
  /\ Enter("start", "a_event")
  /\ closed' = FALSE

StartNewEvent ==
  /\ Goto(User, "a_event", "a_thread")
  /\ \E k \in Loops :
       /\ ~Alive(k)
       /\ stopEvent' = k
       /\ eventsSet' = eventsSet \ {k}
  /\ Stay /\ UNCHANGED <<nodeVars, reconnectThread>>

StartNewThread ==
  /\ pc[User] = "a_thread"
  /\ pc' = [pc EXCEPT ![User] = "idle", ![stopEvent] = "assert"]
  /\ call' = "none"
  /\ reconnectThread' = stopEvent
  /\ UNCHANGED <<nodeVars, stopEvent, eventsSet, closed>>

CallStop == Enter("stop", "s_set") /\ UNCHANGED closed

CallClose == Enter("close", "s_set") /\ UNCHANGED closed

StopSet ==
  /\ Goto(User, "s_set", "s_join")
  /\ eventsSet' = IF stopEvent # NoObject THEN eventsSet \cup {stopEvent} ELSE eventsSet
  /\ Stay /\ UNCHANGED <<nodeVars, reconnectThread, stopEvent>>

\* After stop_auto_reconnect(), close() goes on with the backend.
AfterStop(from) ==
  IF call = "close" THEN Goto(User, from, "k_test") /\ UNCHANGED call
                    ELSE ReturnUser(from)

StopNothing ==
  /\ reconnectThread = NoObject
  /\ AfterStop("s_join")
  /\ UNCHANGED <<nodeVars, threadVars, closed>>

\* Mutant: the thread is forgotten without being joined.
StopJoinSkipped ==
  /\ reconnectThread # NoObject
  /\ Goto(User, "s_join", "s_thread")
  /\ Stay /\ UNCHANGED <<nodeVars, threadVars>>

StopJoin ==
  /\ reconnectThread # NoObject
  /\ JoinTimesOut \/ ~Alive(reconnectThread)
  /\ Goto(User, "s_join", "s_thread")
  /\ Stay /\ UNCHANGED <<nodeVars, threadVars>>

StopDropThread ==
  /\ Goto(User, "s_thread", "s_event")
  /\ reconnectThread' = NoObject
  /\ Stay /\ UNCHANGED <<nodeVars, stopEvent, eventsSet>>

StopDropEvent ==
  /\ AfterStop("s_event")
  /\ stopEvent' = NoObject
  /\ UNCHANGED <<nodeVars, reconnectThread, eventsSet, closed>>

CloseTest ==
  /\ Goto(User, "k_test", IF backend # NoObject THEN "k_close" ELSE "k_reset")
  /\ Stay /\ UNCHANGED <<nodeVars, threadVars>>

\* None by now: close() raises AttributeError and _connected is left alone.
CloseBackend ==
  /\ IF backend = NoObject
     THEN ReturnUser("k_close") /\ UNCHANGED open
     ELSE Goto(User, "k_close", "k_none") /\ open' = open \ {backend} /\ UNCHANGED call
  /\ UNCHANGED <<backend, connected, streams, threadVars, closed>>

CloseDrop ==
  /\ Goto(User, "k_none", "k_reset")
  /\ backend' = NoObject
  /\ Stay /\ UNCHANGED <<connected, open, streams, threadVars>>

CloseDone ==
  /\ ReturnUser("k_reset")
  /\ connected' = FALSE
  /\ closed' = TRUE
  /\ UNCHANGED <<backend, open, streams, threadVars>>

Caller ==
  \/ CallConnect \/ CallGetState \/ CallStart \/ CallStop \/ CallClose
  \/ GetStateReturns \/ GetStateFails \/ GetStateMarksLost \/ GetStateRaises
  \/ StartNewEvent \/ StartNewThread
  \/ StopSet \/ StopNothing \/ StopJoin \/ StopDropThread \/ StopDropEvent
  \/ CloseTest \/ CloseBackend \/ CloseDrop \/ CloseDone
  \/ Connect(User)

Next == Caller \/ \E k \in Loops : Loop(k)

Spec == Init /\ [][Next]_vars

(***************************************************************************)
(* A thread that can run runs, a call that was begun is carried on (the    *)
(* caller need not call anything), and attempts do not fail for ever.      *)
(***************************************************************************)
Fairness ==
  /\ WF_vars(Caller /\ pc[User] # "idle")
  /\ SF_vars(ConnectCreate(User)) /\ SF_vars(ConnectSubscribe(User))
  /\ \A k \in Loops : /\ WF_vars(Loop(k))
                      /\ SF_vars(ConnectCreate(k))
                      /\ SF_vars(ConnectSubscribe(k))

FairSpec == Spec /\ Fairness

-----------------------------------------------------------------------------
(* Properties.                                                             *)

\* connect() closes the old backend before it creates another, and cleans up
\* after a failure: the only backend ever open is the one the node refers to,
\* and it was subscribed at most once, so no snapshot is dispatched twice.
NoOrphan ==
  /\ open \subseteq {backend}
  /\ \A b \in open : streams[b] <= 1

\* is_connected is True only while the backend the node refers to is open and
\* subscribed, except between the statements of connect() or close() that take
\* the connection down.
LinkConsistent ==
  \/ ~connected
  \/ pc[User] \in {"c_none", "c_reset", "k_none", "k_reset"}
  \/ backend \in open /\ streams[backend] = 1

\* Once close() has returned, and until connect() or start_auto_reconnect() is
\* called, the node is not connected, nothing is open and no thread is left
\* that could connect it again.
ClosedIsClosed ==
  closed => /\ ~connected
            /\ backend = NoObject
            /\ open = {}
            /\ \A k \in Loops : ~Alive(k)

\* At most one reconnect thread runs, the registered one: start_auto_reconnect()
\* is idempotent and stop_auto_reconnect() leaves none behind.
OneLoop == \A k \in Loops : Alive(k) => k = reconnectThread

\* The registered reconnect thread never dies of an exception: it ends only
\* because its stop event was set.
LoopEndsWhenStopped ==
  [][\A k \in Loops :
       k = reconnectThread /\ Alive(k) /\ ~Alive(k)' => k \in eventsSet]_vars

\* get_state() marks the link lost when the transport fails.
MarksLinkLost ==
  [][pc[User] \in {"g_lost", "g_raise"} /\ pc'[User] = "idle" => ~connected']_vars

\* A lost link is connected again as long as auto-reconnect is left running.
HealsLostLink ==
  (reconnectThread # NoObject /\ Alive(reconnectThread) /\ ~connected)
    ~> (connected \/ call \in {"stop", "close"})

\* Every call returns: stop and close get past the join of the reconnect thread.
CallsReturn == (call # "none") ~> (call = "none")

(***************************************************************************)
(* Why the four invariants hold when the caller leaves connect() to the    *)
(* reconnect thread while one lives, and the joins do not time out: one    *)
(* thread at a time is in connect() or close(), and what it has done so    *)
(* far determines the backend.                                             *)
(***************************************************************************)
AllDead == \A k \in Loops : ~Alive(k)

\* The caller is past a point where it made sure that no reconnect thread lives.
CallerAlone ==
  pc[User] \in {"a_event", "a_thread", "s_thread", "s_event",
                "k_test", "k_close", "k_none", "k_reset"} \cup ConnectPoints
    => AllDead

\* What connect() has established when its thread t reaches each statement.
ConnectProgress(t) ==
  /\ pc[t] \in {"c_none", "e_none"} => open = {}
  /\ pc[t] \in {"c_reset", "c_create"} => backend = NoObject /\ open = {}
  /\ pc[t] \in {"c_create", "c_subscribe", "c_done", "e_test", "e_close", "e_none"}
       => ~connected
  /\ pc[t] = "c_subscribe" => backend \in open /\ streams[backend] = 0
  /\ pc[t] = "c_done" => backend \in open /\ streams[backend] = 1

CloseProgress ==
  /\ pc[User] = "k_none" => open = {}
  /\ pc[User] = "k_reset" => backend = NoObject /\ open = {}

\* While the registered thread lives, self._reconnect_stop_event is its event.
LoopRegistered ==
  /\ reconnectThread # NoObject /\ Alive(reconnectThread) => stopEvent = reconnectThread
  /\ pc[User] \in {"a_event", "a_thread"}
       => reconnectThread = NoObject \/ ~Alive(reconnectThread)
  /\ pc[User] = "a_thread" => stopEvent \in Loops
  /\ pc[User] = "s_event" => reconnectThread = NoObject

LinkInv ==
  /\ NoOrphan /\ LinkConsistent /\ ClosedIsClosed /\ OneLoop
  /\ CallerAlone
  /\ \A t \in Threads : ConnectProgress(t)
  /\ \A k \in Loops : pc[k] \in ConnectPoints => ~connected
  /\ CloseProgress
  /\ closed => pc[User] \notin {"a_event", "a_thread"} \cup ConnectPoints
=============================================================================

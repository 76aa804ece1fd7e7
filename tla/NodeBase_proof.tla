---------------------------- MODULE NodeBase_proof ----------------------------
(***************************************************************************)
(* Theorems about NodeBase, for any number of threads, backends, nodes and *)
(* listeners and whatever the callbacks do: what start, stop and close of  *)
(* the heartbeat monitor and of the node leave behind, as long as no join  *)
(* gives up and no two threads are in them at once.                        *)
(***************************************************************************)
EXTENDS NodeBase, TLAPS

USE DEF threadVars, listenVars, linkVars, liveVars, workVars

LEMMA UserIsNoWorker ==
  /\ User \in Threads /\ User \notin Workers /\ Hearts \subseteq Threads
  /\ Backends \subseteq Threads /\ Hearts \cap Backends = {} /\ None \notin Threads
BY NamesDistinct DEF Threads, Workers

-----------------------------------------------------------------------------
(* Type correctness of the threads and what they manage.                   *)

Special == {"s_wait", "a_thread", "c_join", "c_channel"}

\* Thread t moves to a place that says nothing of its target.
LEMMA MoveType ==
  ASSUME ControlType, NEW t \in Threads, NEW p \in Points \ Special,
         pc' = [pc EXCEPT ![t] = p], target' = target,
         t = User => p \in {"idle", "o_open"} \cup StopPoints \cup ClosePoints,
         t # User => p # "o_open"
  PROVE  /\ pc' \in [Threads -> Points]
         /\ \A u \in Threads : pc'[u] \in {"s_wait", "a_thread"} => target'[u] \in Hearts \ {u}
         /\ \A u \in Threads : pc'[u] \in {"c_join", "c_channel"} => target'[u] \in Backends
         /\ pc'[User] \in {"idle", "a_thread", "o_open"} \cup StopPoints \cup ClosePoints
         /\ \A u \in Workers : pc'[u] # "o_open"
BY UserIsNoWorker DEF ControlType, Special, Threads

LEMMA StopType ==
  ASSUME ControlType, NEW t \in Threads, Stop(t)
  PROVE  ControlType'
<1> USE NamesDistinct DEF ControlType, Threads, Workers, Points, StopPoints, ClosePoints,
                          Moves, StopDone, Returns, Raises
<1>1. CASE StopSet(t) BY <1>1 DEF Stop, StopSet
<1>2. CASE StopJoin(t)
  <2>1. CASE heart = None BY <1>2, <2>1 DEF Stop, StopJoin
  <2>2. CASE heart # None BY <1>2, <2>2 DEF Stop, StopJoin
  <2>3. QED BY <2>1, <2>2
<1>3. CASE StopWait(t) BY <1>3 DEF Stop, StopWait
<1>4. CASE StopNone(t) BY <1>4 DEF Stop, StopNone
<1>5. CASE StopEvent(t) BY <1>5 DEF Stop, StopEvent
<1>6. QED BY <1>1, <1>2, <1>3, <1>4, <1>5 DEF Stop

LEMMA CloseType ==
  ASSUME ControlType, NEW t \in Threads, Close(t)
  PROVE  ControlType'
<1> USE NamesDistinct DEF ControlType, Threads, Workers, Points, StopPoints, ClosePoints,
                          Moves, Returns, Raises
<1>1. CASE CloseProxy(t) BY <1>1 DEF Close, CloseProxy
<1>2. CASE CloseFlag(t)
  <2>0. /\ UNCHANGED <<backend, open, orderly, heart, event, eventsSet, strategy, tracked,
                       left>>
        /\ running' \subseteq Backends
    BY <1>2 DEF Close, CloseFlag
  <2>1. CASE backend = None
    <3>1. target' = target /\ closed' \in BOOLEAN /\ broken' = broken
      BY <1>2, <2>1 DEF CloseFlag, CloseDone
    <3>2. PICK p \in {"idle", "h_next", "d_call", "o_open"} :
            /\ pc' = [pc EXCEPT ![t] = p] /\ (t = User => p \in {"idle", "o_open"})
            /\ p = "o_open" => after[t] = "connect"
      BY <1>2, <2>1 DEF CloseFlag, CloseDone
    <3>3. p \in Points \ Special BY DEF Special
    <3>4. t # User => p # "o_open" BY <3>2
    <3>5. UNCHANGED <<after, asks>> BY <1>2 DEF Close
    <3>6. QED BY <2>0, <3>1, <3>2, <3>3, <3>4, <3>5, MoveType
  <2>2. CASE backend # None
    <3>1. target' = [target EXCEPT ![t] = backend] /\ pc' = [pc EXCEPT ![t] = "c_join"]
          /\ UNCHANGED <<closed, broken, after, asks>>
      BY <1>2, <2>2 DEF Close, CloseFlag
    <3>2. QED BY <2>0, <2>2, <3>1
  <2>3. QED BY <2>1, <2>2
<1>3. CASE CloseJoin(t)
  <2>1. CASE target[t] = t BY <1>3, <2>1 DEF Close, CloseJoin
  <2>2. CASE target[t] # t
    <3>1. /\ pc[t] = "c_join" /\ pc' = [pc EXCEPT ![t] = "c_channel"]
          /\ orderly' \in BOOLEAN
          /\ UNCHANGED <<backend, open, running, heart, event, eventsSet, strategy, tracked, left,
                         target, closed, broken, after, asks>>
      BY <1>3, <2>2 DEF Close, CloseJoin
    <3>2. QED BY <3>1
  <2>3. QED BY <2>1, <2>2
<1>4. CASE CloseChannel(t) BY <1>4 DEF Close, CloseChannel
<1>5. CASE CloseDrop(t)
  <2>1. CASE after[t] = "connect"
    <3>1. t = User BY <2>1
    <3>2. pc' = [pc EXCEPT ![t] = "o_open"] /\ UNCHANGED <<closed, broken>>
      BY <1>5, <2>1 DEF CloseDrop, CloseDone
    <3>3. backend' = None
          /\ UNCHANGED <<open, running, heart, event, eventsSet, strategy, tracked, left, target,
                         orderly, after, asks>>
      BY <1>5 DEF Close, CloseDrop
    <3>4. QED BY <3>1, <3>2, <3>3
  <2>2. CASE after[t] # "connect"
    <3>1. PICK p \in {"idle", "h_next", "d_call"} :
            pc' = [pc EXCEPT ![t] = p] /\ (t = User => p = "idle")
      BY <1>5, <2>2 DEF CloseDrop, CloseDone
    <3>2. closed' \in BOOLEAN /\ broken' = broken
      BY <1>5, <2>2 DEF CloseDrop, CloseDone
    <3>3. backend' = None
          /\ UNCHANGED <<open, running, heart, event, eventsSet, strategy, tracked, left, target,
                         orderly, after, asks>>
      BY <1>5 DEF Close, CloseDrop
    <3>4. p \in Points \ Special BY DEF Special
    <3>5. QED BY <3>1, <3>2, <3>3, <3>4, MoveType
  <2>3. QED BY <2>1, <2>2
<1>6. QED BY <1>1, <1>2, <1>3, <1>4, <1>5 DEF Close

LEMMA UserType ==
  ASSUME ControlType, UserStep
  PROVE  ControlType'
<1> USE NamesDistinct DEF ControlType, Threads, Workers, Points, StopPoints, ClosePoints
<1>1. CASE StartHeartbeat
  <2>1. CASE heart # None /\ Alive(heart)
    BY <1>1, <2>1 DEF StartHeartbeat, Call, Enters
  <2>2. CASE ~(heart # None /\ Alive(heart))
    BY <1>1, <2>2 DEF StartHeartbeat, Call, Enters, Goto
  <2>3. QED BY <2>1, <2>2
<1>2. CASE StartThread
  <2>1. heart' \in Hearts /\ pc' \in [Threads -> Points] /\ pc'[User] = "idle"
        /\ \A t \in Threads : pc'[t] \in {pc[t], "idle", "h_test"}
    BY <1>2 DEF StartThread
  <2>2. UNCHANGED <<backend, open, running, event, eventsSet, target, strategy, tracked, left,
                    closed, orderly, after, asks>> /\ broken' \subseteq Workers
    BY <1>2 DEF StartThread
  <2>3. QED BY <2>1, <2>2
<1>3. CASE CallStop BY <1>3 DEF CallStop, Call, Enter, Enters
<1>4. CASE Open
  <2>1. PICK b \in Backends :
          /\ backend' = b /\ open' = open \cup {b} /\ running' = running \cup {b}
          /\ pc' = [pc EXCEPT ![User] = "idle", ![b] = "d_next"] /\ broken' = broken \ {b}
    BY <1>4 DEF Open
  <2>2. /\ closed' = FALSE
        /\ UNCHANGED <<heart, event, eventsSet, target, strategy, tracked, left, orderly, after,
                       asks>>
    BY <1>4 DEF Open
  <2>3. b # User /\ b \in Threads /\ User \in Threads BY UserIsNoWorker
  <2>4. /\ pc' \in [Threads -> Points] /\ pc'[User] = "idle"
        /\ \A u \in Threads : pc'[u] \in {pc[u], "idle", "d_next"}
    BY <2>1, <2>3
  <2>5. backend' \in Backends \cup {None} /\ open' \subseteq Backends /\ running' \subseteq Backends
    BY <2>1
  <2>6. broken' \subseteq Workers /\ closed' \in BOOLEAN BY <2>1, <2>2
  <2>7. QED BY <2>2, <2>4, <2>5, <2>6
<1>5. CASE Configure
  <2>1. strategy' \in AllStrategies /\ tracked' \subseteq Nodes
    <3>1. CASE AddListener \/ RemoveListener
      <4>1. UNCHANGED <<strategy, tracked>>
        BY ONLY <3>1, Zenon DEF AddListener, RemoveListener, liveVars
      <4>2. QED BY <4>1
    <3>2. CASE SetStrategy BY <3>2, ChoicesKnown DEF SetStrategy
    <3>3. CASE Discard BY <3>3 DEF Discard
    <3>4. CASE GetState BY <3>4 DEF GetState
    <3>5. QED BY <1>5, <3>1, <3>2, <3>3, <3>4 DEF Configure
  <2>2. UNCHANGED <<backend, open, running, heart, event, eventsSet, pc, target, left, broken,
                    closed, orderly, after>>
    BY <1>5 DEF Configure
  <2>3. asks' \in [Hearts -> Asks]
    <3>1. CASE SetStrategy
      <4>1. asks' = [h \in Hearts |-> [asks[h] EXCEPT !.same = FALSE]] BY <3>1 DEF SetStrategy
      <4>2. ASSUME NEW h \in Hearts PROVE [asks[h] EXCEPT !.same = FALSE] \in Asks
        <5>1. asks[h] \in Asks OBVIOUS
        <5>2. QED BY ONLY <5>1 DEF Asks
      <4>3. QED BY <4>1, <4>2
    <3>2. CASE AddListener \/ RemoveListener \/ Discard \/ GetState
      <4>1. asks' = asks
        BY ONLY <3>2, Zenon DEF AddListener, RemoveListener, Discard, GetState
      <4>2. QED BY <4>1
    <3>3. QED BY <1>5, <3>1, <3>2 DEF Configure
  <2>4. QED BY <2>1, <2>2, <2>3
<1>6. CASE CallConnect BY <1>6 DEF CallConnect, Call, Enters
<1>7. CASE OpenFails BY <1>7 DEF OpenFails, Goto
<1>8. QED BY <1>1, <1>2, <1>3, <1>4, <1>5, <1>6, <1>7 DEF UserStep

LEMMA HeartType ==
  ASSUME ControlType, NEW h \in Hearts, Heart(h)
  PROVE  ControlType'
<1> USE NamesDistinct DEF ControlType, Threads, Workers, Points, StopPoints, ClosePoints,
                          Moves, Raises
<1>1. CASE HeartTest(h) BY <1>1 DEF Heart, HeartTest
<1>2. CASE HeartCheck(h)
  <2>1. left' = [left EXCEPT ![h] = tracked]
        /\ asks' = [asks EXCEPT ![h] = [kind |-> strategy, of |-> backend, same |-> TRUE]]
    BY <1>2 DEF HeartCheck
  <2>2. left' \in [Workers -> SUBSET Nodes] BY <2>1
  <2>3. asks' \in [Hearts -> Asks] BY <2>1 DEF Asks
  <2>4. pc' = [pc EXCEPT ![h] = "h_read"] /\ UNCHANGED <<closed, broken, orderly, after>>
    BY <1>2 DEF HeartCheck
  <2>5. UNCHANGED <<backend, open, running, heart, event, eventsSet, target, strategy, tracked>>
    BY <1>2 DEF Heart
  <2>6. h # User /\ h \in Threads /\ "h_read" \in Points \ Special
    BY UserIsNoWorker DEF Special
  <2>7. QED BY <2>2, <2>3, <2>4, <2>5, <2>6, MoveType
<1>6. CASE HeartRead(h)
  <2>1. PICK ns : left' = [left EXCEPT ![h] = ns] /\ ns \subseteq left[h]
    BY <1>6 DEF HeartRead, Dead
  <2>2. left' \in [Workers -> SUBSET Nodes] BY <2>1
  <2>3. asks' \in [Hearts -> Asks]
    <3>1. asks' = [asks EXCEPT ![h] = Unasked] BY <1>6 DEF HeartRead
    <3>2. Unasked \in Asks BY DEF Unasked, Asks, AllStrategies
    <3>3. QED BY <3>1, <3>2
  <2>4. PICK p \in {"h_next", "dead"} : pc' = [pc EXCEPT ![h] = p]
    BY <1>6 DEF HeartRead
  <2>5. closed' = closed /\ broken' \in {broken, broken \cup ({h} \ {User})}
        /\ UNCHANGED <<orderly, after>>
    BY <1>6 DEF HeartRead
  <2>6. UNCHANGED <<backend, open, running, heart, event, eventsSet, target, strategy, tracked>>
    BY <1>6 DEF Heart
  <2>7. h # User /\ h \in Threads /\ p \in Points \ Special
    BY UserIsNoWorker DEF Special
  <2>8. QED BY <2>2, <2>3, <2>4, <2>5, <2>6, <2>7, MoveType
<1>3. CASE HeartNext(h) BY <1>3 DEF Heart, HeartNext
<1>4. CASE HeartCall(h)
  <2>1. PICK p \in {"h_next", "dead", "s_set"} : pc' = [pc EXCEPT ![h] = p]
    BY <1>4 DEF HeartCall, Enter
  <2>2. closed' = closed /\ broken' \in {broken, broken \cup ({h} \ {User})}
    BY <1>4 DEF HeartCall, Enter
  <2>b. orderly' \in BOOLEAN BY <1>4 DEF HeartCall, Enter, Enters
  <2>c. after' \in [Threads -> {"return", "close", "connect"}]
        /\ \A u \in Workers : after'[u] # "connect"
    BY <1>4 DEF HeartCall, Enter
  <2>a. UNCHANGED <<backend, open, running, heart, event, eventsSet, target, strategy,
                    tracked, left, asks>>
    BY <1>4 DEF Heart, HeartCall
  <2>3. h # User /\ h \in Threads BY UserIsNoWorker
  <2>4. p \in Points \ Special BY DEF Special
  <2>5. QED BY <2>1, <2>2, <2>a, <2>b, <2>c, <2>3, <2>4, MoveType
<1>5. CASE HeartWait(h) BY <1>5 DEF Heart, HeartWait
<1>7. QED BY <1>1, <1>2, <1>3, <1>4, <1>5, <1>6 DEF Heart

LEMMA StreamType ==
  ASSUME ControlType, NEW b \in Backends, Stream(b)
  PROVE  ControlType'
<1> USE NamesDistinct DEF ControlType, Threads, Workers, Points, StopPoints, ClosePoints,
                          Moves, Raises
<1>1. CASE StreamNext(b) BY <1>1 DEF Stream, StreamNext
<1>2. CASE StreamTrack(b) BY <1>2 DEF Stream, StreamTrack
<1>3. CASE StreamRoute(b) BY <1>3 DEF Stream, StreamRoute
<1>4. CASE StreamCall(b)
  <2>1. PICK p \in {"d_route", "d_call", "dead", "s_set"} : pc' = [pc EXCEPT ![b] = p]
    BY <1>4 DEF StreamCall, Enter
  <2>2. closed' = closed /\ broken' \in {broken, broken \cup ({b} \ {User})}
    BY <1>4 DEF StreamCall, Enter
  <2>b. orderly' \in BOOLEAN BY <1>4 DEF StreamCall, Enter, Enters
  <2>c. after' \in [Threads -> {"return", "close", "connect"}]
        /\ \A u \in Workers : after'[u] # "connect"
    BY <1>4 DEF StreamCall, Enter
  <2>a. UNCHANGED <<backend, open, running, heart, event, eventsSet, target, strategy,
                    tracked, left, asks>>
    BY <1>4 DEF Stream, StreamCall
  <2>3. b # User /\ b \in Threads BY UserIsNoWorker
  <2>4. p \in Points \ Special BY DEF Special
  <2>5. QED BY <2>1, <2>2, <2>a, <2>b, <2>c, <2>3, <2>4, MoveType
<1>5. QED BY <1>1, <1>2, <1>3, <1>4 DEF Stream

\* Type correctness of the threads and what they manage, whatever callbacks do and
\* however the joins end.
THEOREM Typing == Spec => []ControlType
<1>1. Init => ControlType
  <2> SUFFICES ASSUME Init PROVE ControlType OBVIOUS
  <2>1. pc = [t \in Threads |-> IF t = User THEN "idle" ELSE "dead"] BY DEF Init
  <2>2. pc \in [Threads -> Points] BY <2>1 DEF Points
  <2>3. \A t \in Threads : pc[t] \in {"idle", "dead"} BY <2>1
  <2>4. pc[User] = "idle" BY <2>1, UserIsNoWorker
  <2>5. target \in [Threads -> Hearts \cup Backends \cup {None}] BY DEF Init
  <2>6. left \in [Workers -> SUBSET Nodes] BY DEF Init
  <2>7. strategy \in AllStrategies BY ChoicesKnown DEF Init
  <2>8. asks \in [Hearts -> Asks] BY DEF Init, Asks, Unasked, AllStrategies
  <2>9. /\ after \in [Threads -> {"return", "close", "connect"}]
        /\ \A t \in Workers : after[t] # "connect" /\ pc[t] # "o_open"
    BY <2>3, UserIsNoWorker DEF Init, Threads
  <2>10. QED BY <2>2, <2>3, <2>4, <2>5, <2>6, <2>7, <2>8, <2>9 DEF Init, ControlType
<1>2. ControlType /\ [Next]_vars => ControlType'
  <2> SUFFICES ASSUME ControlType, [Next]_vars PROVE ControlType' OBVIOUS
  <2>1. CASE UserStep BY <2>1, UserType
  <2>2. CASE PoolCall
    BY <2>2 DEF PoolCall, ControlType, vars
  <2>3. CASE \E t \in Threads : Stop(t) \/ Close(t) BY <2>3, StopType, CloseType
  <2>4. CASE \E h \in Hearts : Heart(h) BY <2>4, HeartType
  <2>5. CASE \E b \in Backends : Stream(b) BY <2>5, StreamType
  <2>6. CASE UNCHANGED vars BY <2>6 DEF ControlType, vars
  <2>7. QED BY <2>1, <2>2, <2>3, <2>4, <2>5, <2>6 DEF Next
<1>3. QED BY <1>1, <1>2, PTL DEF Spec

-----------------------------------------------------------------------------
(* The invariant.                                                          *)

Managing == StopPoints \cup ClosePoints \cup {"a_thread", "o_open"}

Whole == ManagerAlone /\ MonitorInv /\ StreamInv

\* Worker w, outside start, stop and close, takes a step that leaves it there or ends it.
LEMMA WorkerKeeps ==
  ASSUME ControlType, Whole, NEW w \in Workers, NEW p,
         pc[w] \notin Managing \cup {"dead"}, p \notin Managing,
         pc' = [pc EXCEPT ![w] = p], broken \subseteq broken',
         UNCHANGED <<mode, backend, open, running, heart, event, eventsSet, shut, target,
                     closed, after, steady>>,
         \A h \in Hearts \ {w} : asks'[h] = asks[h],
         w \in Hearts /\ p = "h_read" => asks'[w].of = backend,
         w \in Hearts /\ p = "dead" => event = None \/ event \in eventsSet \/ w \in broken',
         w \in Backends /\ p = "dead" => \/ w \in broken' \/ w \notin running
                                         \/ mode = "parallel" /\ shut # {},
         w \in Backends /\ pc[w] = "d_next" => p \in {"dead", "d_next"} \/ w \in running
  PROVE  Whole'
<1> USE UserIsNoWorker
<1>0. /\ pc \in [Threads -> Points] /\ w \in Threads /\ pc'[w] = p
      /\ \A u \in Threads \ {w} : pc'[u] = pc[u]
  BY DEF ControlType, Threads
<1>1. \A u \in Threads : pc'[u] \in Managing => pc'[u] = pc[u] /\ u # w BY <1>0
<1>2. \A u \in Threads : pc[u] \in Managing => pc'[u] = pc[u] /\ u # w BY <1>0
<1>3. ManagerAlone' BY <1>1 DEF Whole, ManagerAlone, Manages, Managing
<1>4. \A h \in Hearts : Alive(h)' => Alive(h) BY <1>0 DEF Alive
<1>5. MonitorInv'
  <2>1. \A h \in Hearts : Alive(h)' => heart' = h BY <1>4 DEF Whole, MonitorInv
  <2>2. (\A t \in Threads : pc'[t] \notin {"a_thread", "s_event"}) => heart' = event'
    BY <1>2 DEF Whole, MonitorInv, Managing, StopPoints
  <2>3. NoHeart => NoHeart' BY <1>4 DEF NoHeart
  <2>4. ASSUME NEW t \in Threads
        PROVE  /\ pc'[t] \in {"s_none", "s_event"} \/ Past(t)' => NoHeart'
               /\ pc'[t] = "s_event" \/ Past(t)' => heart' = None
               /\ pc'[t] = "s_wait" => target'[t] = heart'
               /\ pc'[t] = "a_thread" => /\ NoHeart' /\ t = User
                                         /\ target'[t] \in Hearts \ {heart'}
                                         /\ event' = target'[t]
    BY <1>1, <2>3 DEF Whole, MonitorInv, Managing, StopPoints, Past
  <2>5. heart' # None /\ ~Alive(heart)' => heart' \in eventsSet' \cup broken'
    <3>1. SUFFICES ASSUME heart # None, ~Alive(heart)' PROVE heart \in eventsSet \cup broken'
      BY DEF Alive
    <3>2. heart \in Hearts BY <3>1 DEF ControlType
    <3>3. CASE ~Alive(heart) BY <3>1, <3>3 DEF Whole, MonitorInv
    <3>4. CASE Alive(heart)
      <4>1. heart = w /\ p = "dead" /\ w \in Hearts BY <1>0, <3>1, <3>2, <3>4 DEF Alive
      <4>2. \A t \in Threads : pc[t] \notin {"a_thread", "s_event"}
        BY <3>2, <3>4 DEF Whole, MonitorInv, NoHeart, Past
      <4>3. event = heart BY <4>2 DEF Whole, MonitorInv
      <4>4. QED BY <3>1, <4>1, <4>3
    <3>5. QED BY <3>3, <3>4
  <2>6. QED BY <2>1, <2>2, <2>4, <2>5 DEF MonitorInv
<1>6. StreamInv'
  <2>1. running' \subseteq open' /\ open' \subseteq {backend'} BY DEF Whole, StreamInv
  <2>2. backend' = None \/ backend' \in open' \/ \E t \in Threads : pc'[t] = "c_drop"
    BY <1>2 DEF Whole, StreamInv, Managing, ClosePoints
  <2>3. ASSUME NEW t \in Threads
        PROVE  /\ pc'[t] \in {"c_join", "c_channel"} =>
                    target'[t] = backend' /\ backend' \notin running'
               /\ pc'[t] = "c_drop" => backend' \notin open'
               /\ pc'[t] = "o_open" => backend' = None
               /\ pc'[t] \in ClosePoints \cup {"o_open"} /\ after'[t] = "connect" => steady' = {}
    BY <1>1 DEF Whole, StreamInv, Managing, ClosePoints
  <2>4. ASSUME NEW t \in Threads, pc'[t] \in {"c_channel", "c_drop"}
        PROVE  backend' # None /\ pc'[backend] \in {"dead", "d_next"}
    <3>1. pc[t] = pc'[t] BY <1>1, <2>4 DEF Managing, ClosePoints
    <3>2. backend # None /\ pc[backend] \in {"dead", "d_next"} /\ backend \notin running
      BY <2>4, <3>1 DEF Whole, StreamInv
    <3>3. backend \in Backends BY <3>2 DEF ControlType
    <3>4. QED BY <1>0, <3>2, <3>3
  <2>5. ASSUME NEW b \in Backends \ {backend} PROVE pc'[b] \in {"dead", "d_next"}
    BY <1>0 DEF Whole, StreamInv
  <2>6. backend' # None /\ ~Alive(backend)' =>
          backend' \in broken' \/ backend' \notin running' \/ (mode' = "parallel" /\ shut' # {})
    BY <1>0 DEF Whole, StreamInv, Alive, ControlType
  <2>7. ASSUME NEW h \in steady' \cap Hearts
        PROVE  /\ Alive(h)' => backend' # None
               /\ pc'[h] = "h_read" => asks'[h].of = backend'
    BY <1>0, <1>4 DEF Whole, StreamInv
  <2>8. closed' => backend' = None BY DEF Whole, StreamInv
  <2>9. QED BY <2>1, <2>2, <2>3, <2>4, <2>5, <2>6, <2>7, <2>8 DEF StreamInv
<1>7. QED BY <1>3, <1>5, <1>6 DEF Whole

\* Thread t calls stop_heartbeat_monitor() or close() while no other is in them.
LEMMA EnterKeeps ==
  ASSUME ControlType, Whole, NEW t \in Threads, pc[t] \in {"idle", "h_call", "d_call"},
         pc' = [pc EXCEPT ![t] = "s_set"], \A u \in Threads \ {t} : ~Manages(u),
         after'[t] # "connect", \A u \in Threads \ {t} : after'[u] = after[u],
         UNCHANGED <<mode, backend, open, running, heart, event, eventsSet, shut, target,
                     closed, broken, asks, steady>>
  PROVE  Whole'
<1> USE UserIsNoWorker
<1>0. /\ pc'[t] = "s_set" /\ \A u \in Threads \ {t} : pc'[u] = pc[u]
      /\ \A u \in Threads : pc[u] \notin Managing
      /\ \A u \in Threads : pc'[u] \notin Managing \ {"s_set"}
  BY DEF ControlType, Manages, Managing, StopPoints, ClosePoints
<1>1. ManagerAlone' BY <1>0 DEF ManagerAlone, Manages, Managing, StopPoints, ClosePoints
<1>2. \A u \in Threads : Alive(u)' <=> Alive(u) BY <1>0 DEF Alive
<1>3. MonitorInv'
  BY <1>0, <1>2
  DEF Whole, MonitorInv, Managing, StopPoints, ClosePoints, ControlType, Past
<1>4. StreamInv'
  <2>1. backend = None \/ backend \in open
    BY <1>0 DEF Whole, StreamInv, Managing, ClosePoints
  <2>2. \A b \in Backends \ {backend} : pc'[b] \in {"dead", "d_next"}
    BY <1>0 DEF Whole, StreamInv
  <2>3. QED
    BY <1>0, <1>2, <2>1, <2>2
    DEF Whole, StreamInv, Managing, ClosePoints, ControlType
<1>5. QED BY <1>1, <1>3, <1>4 DEF Whole

\* Thread t goes on in start, stop or close, or leaves them.
LEMMA ManagerMoves ==
  ASSUME ControlType, ManagerAlone, NEW t \in Threads, pc[t] \in Managing, NEW p,
         pc' = [pc EXCEPT ![t] = p]
  PROVE  /\ pc'[t] = p
         /\ \A u \in Threads \ {t} : pc'[u] = pc[u] /\ pc[u] \notin Managing
         /\ ManagerAlone'
<1>1. pc'[t] = p /\ \A u \in Threads \ {t} : pc'[u] = pc[u] BY DEF ControlType
<1>2. \A u \in Threads \ {t} : pc[u] \notin Managing BY DEF ManagerAlone, Manages, Managing
<1>3. QED BY <1>1, <1>2 DEF ManagerAlone, Manages, Managing

\* The backends while thread t stops the monitor or closes the proxy.
LEMMA StopStream ==
  ASSUME ControlType, Whole, NEW t \in Threads, pc[t] \in StopPoints \cup {"c_proxy"}, NEW p,
         p \notin {"c_join", "c_channel", "c_drop", "o_open", "h_read"},
         p = "dead" => t \in Hearts, p \in ClosePoints => pc[t] = "c_proxy" \/ after[t] = "close",
         pc' = [pc EXCEPT ![t] = p], shut \subseteq shut', broken \subseteq broken',
         UNCHANGED <<mode, backend, open, running, closed, after, asks, steady>>
  PROVE  StreamInv'
<1> USE UserIsNoWorker
<1>0. /\ pc'[t] = p /\ \A u \in Threads \ {t} : pc'[u] = pc[u] /\ pc[u] \notin Managing
  BY ManagerMoves DEF Whole, Managing, StopPoints, ClosePoints
<1>1. \A u \in Threads : pc[u] \notin {"c_join", "c_channel", "c_drop"}
  BY <1>0 DEF Managing, StopPoints, ClosePoints
<1>2. \A u \in Threads : pc'[u] \notin {"c_join", "c_channel", "c_drop"} BY <1>0, <1>1
<1>3. \A b \in Backends \ {backend'} : pc'[b] \in {"dead", "d_next"}
  <2> SUFFICES ASSUME NEW b \in Backends \ {backend} PROVE pc'[b] \in {"dead", "d_next"}
    OBVIOUS
  <2>1. pc[b] \in {"dead", "d_next"} BY DEF Whole, StreamInv
  <2>2. b # t BY <2>1 DEF StopPoints
  <2>3. QED BY <1>0, <2>1, <2>2
<1>4. backend' # None /\ ~Alive(backend)' =>
        backend' \in broken' \/ backend' \notin running' \/ (mode' = "parallel" /\ shut' # {})
  <2> SUFFICES ASSUME backend # None, ~Alive(backend)'
               PROVE  backend \in broken \/ backend \notin running \/ (mode = "parallel" /\ shut # {})
    BY DEF Alive
  <2>1. backend \in Backends BY DEF ControlType
  <2>2. ~Alive(backend) BY <1>0, <2>1 DEF Alive
  <2>3. QED BY <2>2 DEF Whole, StreamInv
<1>5. \A h \in Hearts : Alive(h)' => Alive(h) BY <1>0 DEF Alive, StopPoints
<1>6. ASSUME NEW h \in steady' \cap Hearts
      PROVE  /\ Alive(h)' => backend' # None
             /\ pc'[h] = "h_read" => asks'[h].of = backend'
  BY <1>0, <1>5 DEF Whole, StreamInv
<1>9. ASSUME NEW u \in Threads
      PROVE  /\ pc'[u] # "o_open"
             /\ pc'[u] \in ClosePoints /\ after'[u] = "connect" => steady' = {}
  <2>1. CASE u = t BY <1>0, <2>1 DEF Whole, StreamInv, ClosePoints
  <2>2. CASE u # t BY <1>0, <2>2 DEF Managing
  <2>3. QED BY <2>1, <2>2
<1>7. /\ running' \subseteq open' /\ open' \subseteq {backend'}
      /\ backend' = None \/ backend' \in open'
      /\ closed' => backend' = None
  BY <1>1 DEF Whole, StreamInv
<1>8. QED BY <1>2, <1>3, <1>4, <1>6, <1>7, <1>9 DEF StreamInv

\* What the manager's new place asks of the monitor, when all others are outside.
LEMMA MonitorFrom ==
  ASSUME NEW t \in Threads, \A u \in Threads \ {t} : pc'[u] \notin Managing,
         \A h \in Hearts : Alive(h)' => heart' = h,
         pc'[t] # "s_event" => heart' = event',
         pc'[t] \in {"s_none", "s_event"} \/ Past(t)' => NoHeart',
         pc'[t] = "s_event" \/ Past(t)' => heart' = None,
         pc'[t] = "s_wait" => target'[t] = heart',
         pc'[t] # "a_thread",
         heart' # None /\ ~Alive(heart)' => heart' \in eventsSet' \cup broken'
  PROVE  MonitorInv'
<1>1. \A u \in Threads \ {t} :
        pc'[u] \notin {"a_thread", "s_event", "s_none", "s_wait"} /\ ~Past(u)'
  BY DEF Managing, StopPoints, Past
<1>2. (\A u \in Threads : pc'[u] \notin {"a_thread", "s_event"}) => heart' = event' OBVIOUS
<1>3. QED BY <1>1, <1>2 DEF MonitorInv

LEMMA StopKeeps ==
  ASSUME ControlType, ControlType', Whole, NEW t \in Threads, Stop(t), orderly'
  PROVE  Whole'
<1> USE UserIsNoWorker
<1>0. /\ \A h \in Hearts : Alive(h) => heart = h
      /\ heart # None /\ ~Alive(heart) => heart \in eventsSet \cup broken
      /\ ManagerAlone
      /\ pc \in [Threads -> Points] /\ heart \in Hearts \cup {None}
  BY DEF Whole, MonitorInv, ControlType
<1>u. UNCHANGED <<mode, backend, open, running, shut, after, asks, steady>>
  BY DEF Stop
<1>1. CASE StopSet(t)
  <2>1. /\ pc[t] = "s_set" /\ pc' = [pc EXCEPT ![t] = "s_join"]
        /\ UNCHANGED <<heart, event, target, closed, broken>> /\ eventsSet \subseteq eventsSet'
    BY <1>1 DEF StopSet, Moves
  <2>2. /\ pc'[t] = "s_join" /\ \A u \in Threads \ {t} : pc'[u] = pc[u] /\ pc[u] \notin Managing
        /\ ManagerAlone'
    BY <1>0, <2>1, ManagerMoves DEF Managing, StopPoints
  <2>3. StreamInv' BY <1>u, <2>1, StopStream DEF StopPoints, ClosePoints
  <2>4. \A h \in Hearts : Alive(h)' <=> Alive(h) BY <2>1, <2>2 DEF Alive
  <2>5. heart = event
    BY <2>1, <2>2 DEF Whole, MonitorInv, Managing, StopPoints
  <2>6. heart' # None /\ ~Alive(heart)' => heart' \in eventsSet' \cup broken'
    BY <1>0, <2>1, <2>4 DEF Alive
  <2>7. MonitorInv' BY <1>0, <2>1, <2>2, <2>4, <2>5, <2>6, MonitorFrom DEF ClosePoints, Past
  <2>8. QED BY <2>2, <2>3, <2>7 DEF Whole
<1>2. CASE StopJoin(t)
  <2>0. pc[t] = "s_join" /\ UNCHANGED <<heart, event, eventsSet>> BY <1>2 DEF StopJoin
  <2>a. \A u \in Threads \ {t} : pc[u] \notin Managing
    BY <1>0, <2>0 DEF ManagerAlone, Manages, Managing, StopPoints
  <2>b. heart = event BY <2>0, <2>a DEF Whole, MonitorInv, Managing, StopPoints
  <2>1. CASE heart = None
    <3>1. PICK p \in {"c_proxy", "idle", "h_next", "d_call"} :
            pc' = [pc EXCEPT ![t] = p] /\ (p = "c_proxy" => after[t] = "close")
      BY <1>2, <2>1 DEF StopJoin, StopDone, Moves, Returns
    <3>2. UNCHANGED <<target, closed, broken>>
      BY <1>2, <2>1 DEF StopJoin, StopDone, Moves, Returns
    <3>3. pc'[t] = p /\ (\A u \in Threads \ {t} : pc'[u] = pc[u]) /\ ManagerAlone'
      BY <1>0, <2>0, <3>1, ManagerMoves DEF Managing, StopPoints
    <3>4. StreamInv' BY <1>u, <2>0, <3>1, <3>2, StopStream DEF StopPoints, ClosePoints
    <3>5. NoHeart BY <1>0, <2>1 DEF NoHeart
    <3>6. t \notin Hearts BY <2>0, <3>5 DEF NoHeart, Alive
    <3>7. NoHeart' BY <3>3, <3>5, <3>6 DEF NoHeart, Alive
    <3>8. MonitorInv'
      BY <2>0, <2>1, <2>a, <2>b, <3>1, <3>3, <3>7, MonitorFrom DEF NoHeart, ClosePoints, Past
    <3>9. QED BY <3>3, <3>4, <3>8 DEF Whole
  <2>2. CASE heart = t
    <3>1. /\ pc' = [pc EXCEPT ![t] = "dead"] /\ broken' = broken \cup {t}
          /\ UNCHANGED <<target, closed>> /\ t \in Hearts
      <4>1. t \in Hearts /\ t # User BY <1>0, <2>2 DEF Workers
      <4>2. Raises(t) /\ target' = target BY <1>2, <2>2 DEF StopJoin
      <4>3. QED BY <4>1, <4>2 DEF Raises
    <3>2. pc'[t] = "dead" /\ (\A u \in Threads \ {t} : pc'[u] = pc[u]) /\ ManagerAlone'
      BY <1>0, <2>0, <3>1, ManagerMoves DEF Managing, StopPoints
    <3>3. StreamInv' BY <1>u, <2>0, <3>1, StopStream DEF StopPoints, ClosePoints
    <3>4. \A h \in Hearts : Alive(h)' => Alive(h) BY <2>0, <3>2 DEF Alive
    <3>5. \A h \in Hearts : Alive(h)' => heart' = h BY <1>0, <2>0, <3>4
    <3>6. heart' \in eventsSet' \cup broken' BY <2>0, <2>2, <3>1
    <3>7. MonitorInv'
      BY <2>0, <2>a, <2>b, <3>2, <3>5, <3>6, MonitorFrom DEF ClosePoints, Past
    <3>8. QED BY <3>2, <3>3, <3>7 DEF Whole
  <2>3. CASE heart \notin {None, t}
    <3>1. /\ pc' = [pc EXCEPT ![t] = "s_wait"] /\ target' = [target EXCEPT ![t] = heart]
          /\ UNCHANGED <<closed, broken>>
      BY <1>2, <2>3 DEF StopJoin, Moves
    <3>2. pc'[t] = "s_wait" /\ (\A u \in Threads \ {t} : pc'[u] = pc[u]) /\ ManagerAlone'
      BY <1>0, <2>0, <3>1, ManagerMoves DEF Managing, StopPoints
    <3>3. StreamInv' BY <1>u, <2>0, <3>1, StopStream DEF StopPoints, ClosePoints
    <3>4. \A h \in Hearts : Alive(h)' <=> Alive(h) BY <2>0, <3>2 DEF Alive
    <3>5. \A h \in Hearts : Alive(h)' => heart' = h BY <1>0, <2>0, <3>4
    <3>6. heart' # None /\ ~Alive(heart)' => heart' \in eventsSet' \cup broken'
      BY <1>0, <2>0, <3>1, <3>4 DEF Alive
    <3>7. target'[t] = heart' BY <2>0, <3>1 DEF ControlType
    <3>8. MonitorInv'
      BY <2>0, <2>a, <2>b, <3>2, <3>5, <3>6, <3>7, MonitorFrom DEF ClosePoints, Past
    <3>9. QED BY <3>2, <3>3, <3>8 DEF Whole
  <2>4. QED BY <2>1, <2>2, <2>3
<1>3. CASE StopWait(t)
  <2>1. /\ pc[t] = "s_wait" /\ pc' = [pc EXCEPT ![t] = "s_none"] /\ ~Alive(target[t])
        /\ UNCHANGED <<heart, event, eventsSet, target, closed, broken>>
    BY <1>3 DEF StopWait, Moves
  <2>2. /\ pc'[t] = "s_none" /\ \A u \in Threads \ {t} : pc'[u] = pc[u] /\ pc[u] \notin Managing
        /\ ManagerAlone'
    BY <1>0, <2>1, ManagerMoves DEF Managing, StopPoints
  <2>3. StreamInv' BY <1>u, <2>1, StopStream DEF StopPoints, ClosePoints
  <2>4. \A h \in Hearts : Alive(h)' <=> Alive(h) BY <2>1, <2>2 DEF Alive
  <2>5. heart = event BY <2>1, <2>2 DEF Whole, MonitorInv, Managing, StopPoints
  <2>6. target[t] = heart BY <2>1 DEF Whole, MonitorInv
  <2>7. NoHeart' BY <1>0, <2>1, <2>4, <2>6 DEF NoHeart
  <2>8. heart' # None /\ ~Alive(heart)' => heart' \in eventsSet' \cup broken'
    BY <1>0, <2>1, <2>4 DEF Alive
  <2>9. MonitorInv'
    BY <2>1, <2>2, <2>5, <2>7, <2>8, MonitorFrom DEF ClosePoints, Past, NoHeart
  <2>10. QED BY <2>2, <2>3, <2>9 DEF Whole
<1>4. CASE StopNone(t)
  <2>1. /\ pc[t] = "s_none" /\ pc' = [pc EXCEPT ![t] = "s_event"] /\ heart' = None
        /\ UNCHANGED <<event, eventsSet, target, closed, broken>>
    BY <1>4 DEF StopNone, Moves
  <2>2. /\ pc'[t] = "s_event" /\ \A u \in Threads \ {t} : pc'[u] = pc[u] /\ pc[u] \notin Managing
        /\ ManagerAlone'
    BY <1>0, <2>1, ManagerMoves DEF Managing, StopPoints
  <2>3. StreamInv' BY <1>u, <2>1, StopStream DEF StopPoints, ClosePoints
  <2>4. NoHeart BY <2>1 DEF Whole, MonitorInv
  <2>5. NoHeart' BY <2>1, <2>2, <2>4 DEF NoHeart, Alive
  <2>6. MonitorInv' BY <2>1, <2>2, <2>5, MonitorFrom DEF ClosePoints, Past, NoHeart
  <2>7. QED BY <2>2, <2>3, <2>6 DEF Whole
<1>5. CASE StopEvent(t)
  <2>0. pc[t] = "s_event" /\ UNCHANGED <<heart, eventsSet, target>> /\ event' = None
    BY <1>5 DEF StopEvent
  <2>1. PICK p \in {"c_proxy", "idle", "h_next", "d_call"} :
          pc' = [pc EXCEPT ![t] = p] /\ (p = "c_proxy" => after[t] = "close")
    BY <1>5 DEF StopEvent, StopDone, Moves, Returns
  <2>2. UNCHANGED <<closed, broken>> BY <1>5 DEF StopEvent, StopDone, Moves, Returns
  <2>3. /\ pc'[t] = p /\ \A u \in Threads \ {t} : pc'[u] = pc[u] /\ pc[u] \notin Managing
        /\ ManagerAlone'
    BY <1>0, <2>0, <2>1, ManagerMoves DEF Managing, StopPoints
  <2>4. StreamInv' BY <1>u, <2>0, <2>1, <2>2, StopStream DEF StopPoints, ClosePoints
  <2>5. NoHeart /\ heart = None BY <2>0 DEF Whole, MonitorInv
  <2>6. t \notin Hearts BY <2>0, <2>5 DEF NoHeart, Alive
  <2>7. NoHeart' BY <2>3, <2>5, <2>6 DEF NoHeart, Alive
  <2>8. MonitorInv' BY <2>0, <2>1, <2>3, <2>5, <2>7, MonitorFrom DEF ClosePoints, Past, NoHeart
  <2>9. QED BY <2>3, <2>4, <2>8 DEF Whole
<1>6. QED BY <1>1, <1>2, <1>3, <1>4, <1>5 DEF Stop

\* While a thread closes a backend or opens one no steady monitor is left.
NoneSteady ==
  /\ \A h \in steady \cap Hearts : ~Alive(h)
  /\ \A u \in Threads : pc[u] \in ClosePoints \cup {"o_open"} /\ after[u] = "connect" => steady = {}

\* Thread t closes the proxy or the backend, or is done with them, in close() or in
\* connect(): nothing the monitor keeps changes, and no steady one is left.
LEMMA CloseMonitor ==
  ASSUME ControlType, Whole, NEW t \in Threads, pc[t] \in ClosePoints, NEW p,
         p \in ClosePoints \cup {"idle", "h_next", "d_call", "dead", "o_open"},
         pc' = [pc EXCEPT ![t] = p], broken \subseteq broken',
         UNCHANGED <<heart, event, eventsSet, after, steady>>
  PROVE  /\ MonitorInv' /\ ManagerAlone' /\ t \notin Hearts /\ pc'[t] = p
         /\ NoneSteady'
         /\ \A u \in Threads \ {t} : pc'[u] = pc[u] /\ pc[u] \notin Managing
<1> USE UserIsNoWorker
<1>1. /\ pc'[t] = p /\ \A u \in Threads \ {t} : pc'[u] = pc[u] /\ pc[u] \notin Managing
      /\ ManagerAlone'
  BY ManagerMoves DEF Whole, Managing
<1>2. CASE after[t] = "connect"
  <2>1. t = User /\ steady = {} BY <1>2 DEF Whole, StreamInv, ControlType, Threads
  <2>2. \A h \in Hearts : Alive(h)' <=> Alive(h) BY <1>1, <2>1 DEF Alive, Workers
  <2>3. \A u \in Threads : pc[u] \notin {"a_thread", "s_event"}
    BY <1>1 DEF Managing, ClosePoints, StopPoints
  <2>4. heart = event BY <2>3 DEF Whole, MonitorInv
  <2>5. p \notin {"s_wait", "a_thread", "s_none", "s_event"} /\ ~Past(t)'
    BY <1>2 DEF ClosePoints, Past
  <2>6. \A h \in Hearts : Alive(h)' => heart' = h BY <2>2 DEF Whole, MonitorInv
  <2>7. heart' # None /\ ~Alive(heart)' => heart' \in eventsSet' \cup broken'
    BY <2>2 DEF Whole, MonitorInv, ControlType, Alive
  <2>8. MonitorInv' BY <1>1, <2>4, <2>5, <2>6, <2>7, MonitorFrom
  <2>9. QED BY <1>1, <2>1, <2>8 DEF NoneSteady, Workers
<1>3. CASE after[t] # "connect"
  <2>1. NoHeart /\ heart = None BY <1>3 DEF Whole, MonitorInv, Past
  <2>2. t \notin Hearts BY <2>1 DEF NoHeart, Alive, ClosePoints
  <2>3. NoHeart' BY <1>1, <2>1, <2>2 DEF NoHeart, Alive
  <2>4. \A u \in Threads : pc[u] \notin {"a_thread", "s_event"}
    BY <1>1 DEF Managing, ClosePoints, StopPoints
  <2>5. heart = event BY <2>4 DEF Whole, MonitorInv
  <2>6. p # "s_wait" /\ p # "a_thread" BY DEF ClosePoints
  <2>7. MonitorInv' BY <1>1, <2>1, <2>3, <2>5, <2>6, MonitorFrom DEF NoHeart
  <2>8. NoneSteady'
    <3>1. \A u \in Threads : pc'[u] \in ClosePoints \cup {"o_open"} => after'[u] # "connect"
      BY <1>1, <1>3 DEF Managing
    <3>2. QED BY <2>3, <3>1 DEF NoHeart, NoneSteady
  <2>9. QED BY <1>1, <2>2, <2>7, <2>8
<1>4. QED BY <1>2, <1>3

LEMMA CloseKeeps ==
  ASSUME ControlType, ControlType', Whole, NEW t \in Threads, Close(t), orderly'
  PROVE  Whole'
<1> USE UserIsNoWorker
<1>u. UNCHANGED <<mode, heart, event, eventsSet, after, asks, steady>> BY DEF Close
<1>b. backend \in Backends \cup {None} /\ open \subseteq {backend} /\ running \subseteq open
  BY DEF Whole, StreamInv, ControlType
<1>1. CASE CloseProxy(t)
  <2>1. /\ pc[t] = "c_proxy" /\ pc' = [pc EXCEPT ![t] = "c_flag"] /\ shut \subseteq shut'
        /\ UNCHANGED <<backend, open, running, target, closed, broken>>
    BY <1>1 DEF CloseProxy, Moves
  <2>2. MonitorInv' /\ ManagerAlone' BY <1>u, <2>1, CloseMonitor DEF ClosePoints
  <2>3. StreamInv' BY <1>u, <2>1, StopStream DEF ClosePoints
  <2>4. QED BY <2>2, <2>3 DEF Whole
<1>2. CASE CloseFlag(t)
  <2>0. pc[t] = "c_flag" /\ UNCHANGED <<shut, backend, open>> BY <1>2 DEF CloseFlag
  <2>1. CASE backend = None
    <3>1. PICK p \in {"idle", "h_next", "d_call", "o_open"} : pc' = [pc EXCEPT ![t] = p]
      BY <1>2, <2>1 DEF CloseFlag, CloseDone, Moves, Returns
    <3>2. UNCHANGED <<broken, running, target>> BY <1>2, <2>1 DEF CloseFlag, CloseDone, Moves, Returns
    <3>3. /\ MonitorInv' /\ ManagerAlone' /\ t \notin Hearts /\ pc'[t] = p
          /\ \A u \in Threads \ {t} : pc'[u] = pc[u] /\ pc[u] \notin Managing
          /\ NoneSteady'
      BY <1>u, <2>0, <3>1, <3>2, CloseMonitor DEF ClosePoints
    <3>4. \A u \in Threads : pc'[u] \notin {"c_join", "c_channel", "c_drop"}
      BY <3>3 DEF Managing, ClosePoints
    <3>5. \A b \in Backends : pc'[b] \in {"dead", "d_next"}
      <4> SUFFICES ASSUME NEW b \in Backends PROVE pc'[b] \in {"dead", "d_next"} OBVIOUS
      <4>1. b # backend BY <2>1
      <4>2. pc[b] \in {"dead", "d_next"} BY <4>1 DEF Whole, StreamInv
      <4>3. b # t BY <2>0, <4>2
      <4>4. QED BY <3>3, <4>2, <4>3
    <3>7. StreamInv'
      BY <1>b, <2>0, <2>1, <3>2, <3>3, <3>4, <3>5 DEF StreamInv, NoneSteady, Alive
    <3>8. QED BY <3>3, <3>7 DEF Whole
  <2>2. CASE backend # None
    <3>1. /\ pc' = [pc EXCEPT ![t] = "c_join"] /\ running' = running \ {backend}
          /\ target' = [target EXCEPT ![t] = backend] /\ UNCHANGED <<closed, broken>>
      BY <1>2, <2>2 DEF CloseFlag, Moves
    <3>2. /\ MonitorInv' /\ ManagerAlone' /\ t \notin Hearts /\ pc'[t] = "c_join"
          /\ \A u \in Threads \ {t} : pc'[u] = pc[u] /\ pc[u] \notin Managing
          /\ NoneSteady'
      BY <1>u, <2>0, <3>1, CloseMonitor DEF ClosePoints
    <3>3. /\ \A u \in Threads \ {t} : pc'[u] \notin {"c_join", "c_channel", "c_drop", "o_open"}
          /\ \A u \in Threads : pc[u] # "c_drop"
      BY <2>0, <3>2 DEF Managing, ClosePoints
    <3>4. target'[t] = backend /\ backend \notin running' BY <3>1 DEF ControlType
    <3>5. \A b \in Backends \ {backend} : pc'[b] \in {"dead", "d_next"}
      <4> SUFFICES ASSUME NEW b \in Backends \ {backend} PROVE pc'[b] \in {"dead", "d_next"}
        OBVIOUS
      <4>1. pc[b] \in {"dead", "d_next"} BY DEF Whole, StreamInv
      <4>2. QED BY <2>0, <3>2, <4>1
    <3>7. backend \in open /\ ~closed BY <2>2, <3>3 DEF Whole, StreamInv
    <3>8. StreamInv'
      BY <1>b, <2>0, <2>2, <3>1, <3>2, <3>3, <3>4, <3>5, <3>7 DEF StreamInv, NoneSteady, Alive
    <3>9. QED BY <3>2, <3>8 DEF Whole
  <2>3. QED BY <2>1, <2>2
<1>3. CASE CloseJoin(t)
  <2>0. pc[t] = "c_join" /\ UNCHANGED <<shut, backend, open, running, target>>
    BY <1>3 DEF CloseJoin
  <2>1. /\ target[t] = backend /\ backend \notin running /\ backend \in Backends
    BY <2>0 DEF Whole, StreamInv, ControlType
  <2>2. \A u \in Threads : pc[u] # "c_drop"
    BY <2>0 DEF Whole, ManagerAlone, Manages, ClosePoints
  <2>3. backend \in open /\ ~closed BY <2>1, <2>2 DEF Whole, StreamInv
  <2>4. CASE target[t] = t
    <3>1. pc' = [pc EXCEPT ![t] = "dead"] /\ broken \subseteq broken' /\ UNCHANGED closed
      <4>1. t # User BY <2>1, <2>4 DEF Workers
      <4>2. Raises(t) BY <1>3, <2>4 DEF CloseJoin
      <4>3. QED BY <4>1, <4>2 DEF Raises
    <3>2. /\ MonitorInv' /\ ManagerAlone' /\ t \notin Hearts /\ pc'[t] = "dead"
          /\ \A u \in Threads \ {t} : pc'[u] = pc[u] /\ pc[u] \notin Managing
          /\ NoneSteady'
      BY <1>u, <2>0, <3>1, CloseMonitor DEF ClosePoints
    <3>3. \A u \in Threads : pc'[u] \notin {"c_join", "c_channel", "c_drop", "o_open"}
      BY <3>2 DEF Managing, ClosePoints
    <3>4. \A b \in Backends \ {backend} : pc'[b] \in {"dead", "d_next"}
      BY <2>1, <2>4, <3>2 DEF Whole, StreamInv
    <3>6. StreamInv'
      BY <1>b, <2>0, <2>1, <2>3, <3>1, <3>2, <3>3, <3>4 DEF StreamInv, NoneSteady, Alive
    <3>7. QED BY <3>2, <3>6 DEF Whole
  <2>5. CASE target[t] # t
    <3>1. /\ pc' = [pc EXCEPT ![t] = "c_channel"] /\ UNCHANGED <<closed, broken>>
          /\ pc[backend] \in {"dead", "d_next"}
      BY <1>3, <2>1, <2>5 DEF CloseJoin, Moves
    <3>2. /\ MonitorInv' /\ ManagerAlone' /\ t \notin Hearts /\ pc'[t] = "c_channel"
          /\ \A u \in Threads \ {t} : pc'[u] = pc[u] /\ pc[u] \notin Managing
          /\ NoneSteady'
      BY <1>u, <2>0, <3>1, CloseMonitor DEF ClosePoints
    <3>3. \A u \in Threads \ {t} : pc'[u] \notin {"c_join", "c_channel", "c_drop", "o_open"}
      BY <3>2 DEF Managing, ClosePoints
    <3>4. \A b \in Backends : pc'[b] \in {"dead", "d_next"}
      <4> SUFFICES ASSUME NEW b \in Backends PROVE pc'[b] \in {"dead", "d_next"}
        OBVIOUS
      <4>1. pc[b] \in {"dead", "d_next"} BY <3>1 DEF Whole, StreamInv
      <4>2. QED BY <2>0, <3>2, <4>1
    <3>6. backend # None BY <2>1
    <3>7. StreamInv'
      BY <1>b, <2>0, <2>1, <2>3, <3>1, <3>2, <3>3, <3>4, <3>6 DEF StreamInv, NoneSteady, Alive
    <3>8. QED BY <3>2, <3>7 DEF Whole
  <2>6. QED BY <2>4, <2>5
<1>4. CASE CloseChannel(t)
  <2>1. /\ pc[t] = "c_channel" /\ pc' = [pc EXCEPT ![t] = "c_drop"]
        /\ open' = open \ {target[t]}
        /\ UNCHANGED <<shut, backend, running, target, closed, broken>>
    BY <1>4 DEF CloseChannel, Moves
  <2>2. /\ target[t] = backend /\ backend \notin running /\ backend \in Backends
        /\ pc[backend] \in {"dead", "d_next"}
    BY <2>1 DEF Whole, StreamInv, ControlType
  <2>3. /\ MonitorInv' /\ ManagerAlone' /\ t \notin Hearts /\ pc'[t] = "c_drop"
        /\ \A u \in Threads \ {t} : pc'[u] = pc[u] /\ pc[u] \notin Managing
        /\ NoneSteady'
    BY <1>u, <2>1, CloseMonitor DEF ClosePoints
  <2>4. \A u \in Threads \ {t} : pc'[u] \notin {"c_join", "c_channel", "c_drop", "o_open"}
    BY <2>3 DEF Managing, ClosePoints
  <2>5. \A b \in Backends : pc'[b] \in {"dead", "d_next"}
    <3> SUFFICES ASSUME NEW b \in Backends PROVE pc'[b] \in {"dead", "d_next"} OBVIOUS
    <3>1. pc[b] \in {"dead", "d_next"} BY <2>2 DEF Whole, StreamInv
    <3>2. QED BY <2>1, <2>3, <3>1
  <2>7. open' = {} /\ running' = {} BY <1>b, <2>1, <2>2
  <2>8. ~closed /\ backend # None BY <2>2 DEF Whole, StreamInv
  <2>9. StreamInv'
    BY <2>1, <2>2, <2>3, <2>4, <2>5, <2>7, <2>8 DEF StreamInv, NoneSteady, Alive
  <2>10. QED BY <2>3, <2>9 DEF Whole
<1>5. CASE CloseDrop(t)
  <2>1. pc[t] = "c_drop" /\ backend' = None /\ UNCHANGED <<shut, open, running, target>>
    BY <1>5 DEF CloseDrop
  <2>2. PICK p \in {"idle", "h_next", "d_call", "o_open"} : pc' = [pc EXCEPT ![t] = p]
    BY <1>5 DEF CloseDrop, CloseDone, Moves, Returns
  <2>3. UNCHANGED broken BY <1>5 DEF CloseDrop, CloseDone, Moves, Returns
  <2>4. /\ MonitorInv' /\ ManagerAlone' /\ t \notin Hearts /\ pc'[t] = p
        /\ \A u \in Threads \ {t} : pc'[u] = pc[u] /\ pc[u] \notin Managing
        /\ NoneSteady'
    BY <1>u, <2>1, <2>2, <2>3, CloseMonitor DEF ClosePoints
  <2>5. \A u \in Threads : pc'[u] \notin {"c_join", "c_channel", "c_drop"}
    BY <2>4 DEF Managing, ClosePoints
  <2>6. backend # None /\ pc[backend] \in {"dead", "d_next"} /\ backend \notin open
    BY <2>1 DEF Whole, StreamInv
  <2>7. \A b \in Backends : pc'[b] \in {"dead", "d_next"}
    <3> SUFFICES ASSUME NEW b \in Backends PROVE pc'[b] \in {"dead", "d_next"} OBVIOUS
    <3>1. pc[b] \in {"dead", "d_next"} BY <2>6 DEF Whole, StreamInv
    <3>2. QED BY <2>1, <2>4, <3>1
  <2>8. open' = {} /\ running' = {} BY <1>b, <2>1, <2>6
  <2>10. StreamInv' BY <2>1, <2>4, <2>5, <2>7, <2>8 DEF StreamInv, NoneSteady, Alive
  <2>11. QED BY <2>4, <2>10 DEF Whole
<1>6. QED BY <1>1, <1>2, <1>3, <1>4, <1>5 DEF Close

\* None of the attributes above changes.
LEMMA SameKeeps ==
  ASSUME Whole,
         UNCHANGED <<mode, backend, open, running, heart, event, eventsSet, shut, pc, target,
                     closed, broken, after, steady>>,
         \A h \in Hearts : asks'[h].of = asks[h].of
  PROVE  Whole'
<1>1. /\ \A t \in Threads : (Manages(t)' <=> Manages(t)) /\ (Past(t)' <=> Past(t))
      /\ \A t : Alive(t)' <=> Alive(t)
  BY DEF Manages, Alive, Past
<1>2. ManagerAlone' BY <1>1 DEF Whole, ManagerAlone
<1>3. MonitorInv' BY <1>1 DEF Whole, MonitorInv, NoHeart
<1>4. StreamInv' BY <1>1 DEF Whole, StreamInv
<1>5. QED BY <1>2, <1>3, <1>4 DEF Whole

\* The caller is done with connect(), and the monitor is as it was.
LEMMA LeavesMonitor ==
  ASSUME ControlType, Whole, pc[User] = "o_open",
         \A u \in Threads \ {User} : pc[u] \notin Managing,
         \A u \in Threads : pc'[u] \notin Managing,
         \A h \in Hearts : pc'[h] = pc[h],
         UNCHANGED <<heart, event, eventsSet>>, \A h \in Hearts \cap broken : h \in broken'
  PROVE  MonitorInv'
<1>1. \A u \in Threads : pc[u] \notin {"a_thread", "s_event"} BY DEF Managing, StopPoints
<1>2. heart = event BY <1>1 DEF Whole, MonitorInv
<1>3. \A h \in Hearts : Alive(h)' <=> Alive(h) BY DEF Alive
<1>4. \A u \in Threads : pc'[u] \notin StopPoints \cup {"a_thread"} /\ ~Past(u)'
  BY DEF Managing, Past
<1>5. heart' # None /\ ~Alive(heart)' => heart' \in eventsSet' \cup broken'
  BY <1>3 DEF Whole, MonitorInv, ControlType, Alive
<1>6. QED BY <1>2, <1>3, <1>4, <1>5 DEF Whole, MonitorInv, StopPoints

LEMMA UserKeeps ==
  ASSUME ControlType, ControlType', Whole, UserStep, orderly'
  PROVE  Whole'
<1> USE UserIsNoWorker
<1>0. pc \in [Threads -> Points] /\ heart \in Hearts \cup {None} BY DEF ControlType
<1>1. CASE StartHeartbeat
  <2>0. /\ pc[User] = "idle" /\ \A u \in Threads \ {User} : pc[u] \notin Managing
        /\ UNCHANGED <<mode, backend, open, running, heart, shut, closed, broken, after, asks,
                       steady>>
    BY <1>1 DEF StartHeartbeat, Call, Enters, Manages, Managing
  <2>1. CASE heart # None /\ Alive(heart)
    <3>1. UNCHANGED <<pc, target, event, eventsSet>> BY <1>1, <2>1 DEF StartHeartbeat
    <3>2. QED BY <2>0, <3>1, SameKeeps
  <2>2. CASE ~(heart # None /\ Alive(heart))
    <3>1. PICK h \in Hearts : /\ ~Alive(h) /\ h \notin {heart, event}
                              /\ event' = h /\ eventsSet' = eventsSet \ {h}
                              /\ target' = [target EXCEPT ![User] = h]
                              /\ pc' = [pc EXCEPT ![User] = "a_thread"]
      BY <1>1, <2>2 DEF StartHeartbeat, Goto
    <3>2. pc'[User] = "a_thread" /\ \A u \in Threads \ {User} : pc'[u] = pc[u]
      BY <1>0, <3>1
    <3>3. target'[User] = h BY <3>1 DEF ControlType
    <3>4. ManagerAlone' BY <2>0, <3>2 DEF ManagerAlone, Manages, Managing
    <3>5. NoHeart BY <2>2, NamesDistinct DEF Whole, MonitorInv, NoHeart
    <3>6. \A u \in Threads \ {User} : Alive(u)' <=> Alive(u) BY <3>2 DEF Alive
    <3>7. NoHeart' BY <3>5, <3>6 DEF NoHeart, Workers
    <3>8. heart' # None /\ ~Alive(heart)' => heart' \in eventsSet' \cup broken'
      BY <1>0, <2>0, <2>2, <3>1 DEF Whole, MonitorInv
    <3>9. \A u \in Threads \ {User} :
             pc'[u] \notin {"a_thread", "s_event", "s_none", "s_wait", "o_open"} \cup ClosePoints
      BY <2>0, <3>2 DEF Managing, StopPoints
    <3>10. MonitorInv'
      BY <2>0, <3>1, <3>2, <3>3, <3>7, <3>8, <3>9 DEF MonitorInv, NoHeart, ClosePoints, Past
    <3>11. \A u \in Threads : /\ pc[u] \notin {"c_join", "c_channel", "c_drop"}
                              /\ pc'[u] \notin {"c_join", "c_channel", "c_drop"}
      BY <2>0, <3>2 DEF Managing, ClosePoints
    <3>12. \A u \in Backends : pc'[u] = pc[u] BY <3>2 DEF Workers
    <3>13. backend # None => backend \in Backends BY DEF ControlType
    <3>14. \A u \in Backends : Alive(u)' <=> Alive(u) BY <3>12 DEF Alive
    <3>15. StreamInv'
      BY <2>0, <3>2, <3>7, <3>9, <3>11, <3>12, <3>13, <3>14
      DEF Whole, StreamInv, NoHeart, Alive, ClosePoints
    <3>16. QED BY <3>4, <3>10, <3>15 DEF Whole
  <2>3. QED BY <2>1, <2>2
<1>2. CASE StartThread
  <2>1. /\ pc[User] = "a_thread" /\ heart' = target[User]
        /\ pc' = [pc EXCEPT ![User] = "idle", ![heart'] = "h_test"]
        /\ steady' = IF backend # None THEN steady \cup {heart'}
                             ELSE steady \ {heart'}
        /\ broken' = broken \ {heart'}
        /\ UNCHANGED <<mode, backend, open, running, event, eventsSet, shut, target, closed,
                       after, asks>>
    BY <1>2 DEF StartThread
  <2>2. /\ NoHeart /\ target[User] \in Hearts /\ event = target[User]
    BY <2>1 DEF Whole, MonitorInv
  <2>3. \A u \in Threads \ {User} : pc[u] \notin Managing
    BY <2>1 DEF Whole, ManagerAlone, Manages, Managing
  <2>4. /\ pc'[User] = "idle" /\ pc'[heart'] = "h_test"
        /\ \A u \in Threads \ {User, heart'} : pc'[u] = pc[u]
    BY <1>0, <2>1, <2>2 DEF Workers
  <2>5. \A u \in Threads : pc'[u] \notin Managing
    BY <2>3, <2>4 DEF Managing, StopPoints, ClosePoints
  <2>6. ManagerAlone' BY <2>5 DEF ManagerAlone, Manages, Managing
  <2>7. \A h \in Hearts : Alive(h)' => heart' = h
    BY <2>2, <2>4 DEF NoHeart, Alive, Workers
  <2>8. Alive(heart)' BY <2>4 DEF Alive
  <2>9. MonitorInv'
    <3>1. heart' = event' BY <2>1, <2>2
    <3>2. QED
      BY <2>5, <2>7, <2>8, <3>1 DEF MonitorInv, Managing, StopPoints, Past
  <2>10. \A u \in Backends : pc'[u] = pc[u]
    BY <2>1, <2>2, <2>4 DEF Workers
  <2>11. \A u \in Threads : /\ pc[u] \notin {"c_join", "c_channel", "c_drop"}
                            /\ pc'[u] \notin {"c_join", "c_channel", "c_drop"}
    BY <2>1, <2>3, <2>5 DEF Managing, ClosePoints
  <2>12. backend # None /\ ~Alive(backend)' =>
           backend \in broken' \/ backend \notin running \/ (mode = "parallel" /\ shut # {})
    <3> SUFFICES ASSUME backend # None, ~Alive(backend)'
                 PROVE  backend \in broken' \/ backend \notin running
                          \/ (mode = "parallel" /\ shut # {})
      OBVIOUS
    <3>1. backend \in Backends BY DEF ControlType
    <3>2. ~Alive(backend) BY <2>1, <2>10, <3>1 DEF Alive
    <3>3. backend # heart' BY <2>1, <2>2, <3>1
    <3>4. QED BY <2>1, <3>2, <3>3 DEF Whole, StreamInv
  <2>13. ASSUME NEW h \in steady' \cap Hearts
         PROVE  (Alive(h)' => backend # None) /\ pc'[h] # "h_read"
    <3>1. Alive(h)' => h = heart' BY <2>7
    <3>2. pc'[h] = "h_read" => Alive(h)' BY DEF Alive
    <3>3. QED BY <2>1, <2>4, <3>1, <3>2
  <2>14. \A u \in Threads : pc'[u] \notin ClosePoints \cup {"o_open"} BY <2>5 DEF Managing
  <2>16. StreamInv'
    BY <2>1, <2>10, <2>11, <2>12, <2>13, <2>14 DEF Whole, StreamInv
  <2>17. QED BY <2>6, <2>9, <2>16 DEF Whole
<1>3. CASE CallStop
  <2>1. PICK act \in {"stop", "close"} : Enter(User, act) BY <1>3 DEF CallStop
  <2>2. /\ pc[User] = "idle" /\ pc' = [pc EXCEPT ![User] = "s_set"]
        /\ \A u \in Threads \ {User} : ~Manages(u)
    BY <1>3, <2>1 DEF CallStop, Call, Enter, Enters
  <2>3. UNCHANGED <<mode, backend, open, running, heart, event, eventsSet, shut, target,
                    closed, broken, asks, steady>>
        /\ after' \in [Threads -> {"return", "close", "connect"}]
        /\ after'[User] # "connect" /\ \A u \in Threads \ {User} : after'[u] = after[u]
    BY <1>3, <2>1 DEF CallStop, Enter, ControlType
  <2>4. QED BY <2>2, <2>3, EnterKeeps
<1>4. CASE Open
  <2>1. PICK b \in Backends :
          /\ ~Alive(b) /\ backend' = b /\ open' = open \cup {b} /\ running' = running \cup {b}
          /\ pc' = [pc EXCEPT ![User] = "idle", ![b] = "d_next"] /\ broken' = broken \ {b}
    BY <1>4 DEF Open
  <2>2. /\ pc[User] = "o_open" /\ closed' = FALSE
        /\ UNCHANGED <<mode, heart, event, eventsSet, shut, target, after, asks, steady>>
    BY <1>4 DEF Open
  <2>3. backend = None BY <2>2 DEF Whole, StreamInv
  <2>4. open = {} /\ running = {} BY <2>3 DEF Whole, StreamInv, ControlType
  <2>5. b \notin Hearts /\ b # User BY <2>1 DEF Workers
  <2>6. /\ b \in Threads /\ pc'[b] = "d_next" /\ pc'[User] = "idle"
        /\ \A u \in Threads \ {User, b} : pc'[u] = pc[u]
    BY <1>0, <2>1, <2>5
  <2>7. \A u \in Threads \ {User} : pc[u] \notin Managing
    BY <2>2 DEF Whole, ManagerAlone, Manages, Managing
  <2>8. \A u \in Threads : pc'[u] \notin Managing
    BY <2>6, <2>7 DEF Managing, StopPoints, ClosePoints
  <2>9. ManagerAlone' BY <2>8 DEF ManagerAlone, Manages, Managing
  <2>10. \A h \in Hearts : pc'[h] = pc[h] BY <2>5, <2>6 DEF Workers
  <2>11. MonitorInv' BY <1>0, <2>1, <2>2, <2>5, <2>7, <2>8, <2>10, LeavesMonitor
  <2>12. StreamInv'
    <3>1. running' \subseteq open' /\ open' \subseteq {backend'} /\ backend' \in open'
      BY <2>1, <2>4
    <3>2. \A c \in Backends \ {b} : pc'[c] \in {"dead", "d_next"}
      BY <2>3, <2>6, NamesDistinct DEF Whole, StreamInv, Workers
    <3>3. backend' # None BY <2>1
    <3>4. Alive(backend)' BY <2>1, <2>6 DEF Alive
    <3>5. \A u \in Threads : pc'[u] \notin {"c_join", "c_channel", "c_drop", "o_open"} \cup ClosePoints
      BY <2>8 DEF Managing, ClosePoints
    <3>6. \A h \in steady' \cap Hearts : pc'[h] # "h_read"
      BY <2>2, <2>3, <2>10 DEF Whole, StreamInv, Alive
    <3>7. QED BY <2>1, <2>2, <3>1, <3>2, <3>3, <3>4, <3>5, <3>6 DEF StreamInv
  <2>13. QED BY <2>9, <2>11, <2>12 DEF Whole
<1>5. CASE OpenFails
  <2>1. /\ pc[User] = "o_open" /\ pc' = [pc EXCEPT ![User] = "idle"]
        /\ UNCHANGED <<mode, backend, open, running, heart, event, eventsSet, shut, target, closed,
                       broken, after, asks, steady>>
    BY <1>5 DEF OpenFails, Goto
  <2>2. pc'[User] = "idle" /\ \A u \in Threads \ {User} : pc'[u] = pc[u] BY <1>0, <2>1
  <2>3. \A u \in Threads \ {User} : pc[u] \notin Managing
    BY <2>1 DEF Whole, ManagerAlone, Manages, Managing
  <2>4. \A u \in Threads : pc'[u] \notin Managing
    BY <2>2, <2>3 DEF Managing, StopPoints, ClosePoints
  <2>5. ManagerAlone' BY <2>4 DEF ManagerAlone, Manages, Managing
  <2>6. \A w \in Workers : pc'[w] = pc[w] BY <2>2 DEF Threads
  <2>7. MonitorInv' BY <1>0, <2>1, <2>3, <2>4, <2>6, LeavesMonitor DEF Workers
  <2>8. backend = None BY <2>1 DEF Whole, StreamInv
  <2>9. \A u \in Threads : pc'[u] \notin {"c_join", "c_channel", "c_drop", "o_open"} \cup ClosePoints
    BY <2>4 DEF Managing, ClosePoints
  <2>10. StreamInv'
    BY <2>1, <2>6, <2>8, <2>9 DEF Whole, StreamInv, Workers, Alive
  <2>11. QED BY <2>5, <2>7, <2>10 DEF Whole
<1>6. CASE CallConnect
  <2>1. /\ pc[User] = "idle" /\ \A u \in Threads \ {User} : ~Manages(u)
        /\ pc' = [pc EXCEPT ![User] = IF backend = None THEN "o_open" ELSE "c_flag"]
        /\ after' = [after EXCEPT ![User] = "connect"] /\ steady' = {}
        /\ UNCHANGED <<mode, backend, open, running, heart, event, eventsSet, shut, target, closed,
                       broken, asks>>
    BY <1>6 DEF CallConnect, Call, Enters
  <2>2. PICK p \in {"o_open", "c_flag"} :
          pc' = [pc EXCEPT ![User] = p] /\ (p = "o_open" => backend = None)
    BY <2>1
  <2>3. /\ pc'[User] = p /\ \A u \in Threads \ {User} : pc'[u] = pc[u]
        /\ \A u \in Threads : pc[u] \notin Managing
    BY <1>0, <2>1, <2>2 DEF Manages, Managing, StopPoints, ClosePoints
  <2>4. after'[User] = "connect" BY <2>1 DEF ControlType
  <2>5. ManagerAlone' BY <2>3 DEF ManagerAlone, Manages, Managing
  <2>6. \A w \in Workers : pc'[w] = pc[w] BY <2>3 DEF Threads
  <2>7. MonitorInv'
    <3>1. \A u \in Threads : ~Past(u)' /\ pc'[u] \notin StopPoints \cup {"a_thread"}
      BY <2>2, <2>3, <2>4 DEF Past, Managing, StopPoints, ClosePoints
    <3>2. heart = event BY <2>3 DEF Whole, MonitorInv, Managing, StopPoints
    <3>3. \A h \in Hearts : Alive(h)' <=> Alive(h) BY <2>6 DEF Alive, Workers
    <3>4. QED
      BY <1>0, <2>1, <3>1, <3>2, <3>3 DEF Whole, MonitorInv, StopPoints, Alive
  <2>8. StreamInv'
    <3>1. \A u \in Threads : /\ pc[u] \notin {"c_join", "c_channel", "c_drop"}
                              /\ pc'[u] \notin {"c_join", "c_channel", "c_drop"}
                              /\ pc'[u] = "o_open" => backend = None
      BY <2>2, <2>3 DEF Managing, ClosePoints
    <3>2. QED BY <2>1, <2>6, <3>1 DEF Whole, StreamInv, Workers, Alive, ControlType
  <2>9. QED BY <2>5, <2>7, <2>8 DEF Whole
<1>7. CASE Configure
  <2>1. UNCHANGED <<mode, backend, open, running, heart, event, eventsSet, shut, pc, target,
                    closed, broken, after, steady>>
    BY <1>7 DEF Configure
  <2>2. \A h \in Hearts : asks'[h].of = asks[h].of
    <3>1. CASE SetStrategy BY <3>1 DEF SetStrategy, ControlType, Asks
    <3>2. CASE AddListener \/ RemoveListener \/ Discard \/ GetState
      <4>1. asks' = asks
        BY ONLY <3>2, Zenon DEF AddListener, RemoveListener, Discard, GetState
      <4>2. QED BY <4>1
    <3>3. QED BY <1>7, <3>1, <3>2 DEF Configure
  <2>3. QED BY <2>1, <2>2, SameKeeps
<1>8. QED BY <1>1, <1>2, <1>3, <1>4, <1>5, <1>6, <1>7 DEF UserStep

LEMMA HeartKeeps ==
  ASSUME ControlType, ControlType', Whole, NEW h \in Hearts, Heart(h), orderly'
  PROVE  Whole'
<1> USE UserIsNoWorker
<1>0. h \in Workers /\ h \in Threads /\ h \notin Backends /\ h # User BY DEF Workers
<1>u. UNCHANGED <<mode, backend, open, running, heart, event, eventsSet, shut, target,
                  steady>>
  BY DEF Heart
<1>a. \A i \in Hearts \ {h} : asks'[i] = asks[i]
  <2>1. asks \in [Hearts -> Asks] BY DEF ControlType
  <2>2. asks' = asks \/ \E a : asks' = [asks EXCEPT ![h] = a]
    BY DEF Heart, HeartTest, HeartCheck, HeartRead, HeartNext, HeartCall, HeartWait
  <2>3. QED BY <2>1, <2>2
<1>1. CASE HeartTest(h)
  <2>1. PICK p \in {"dead", "h_check"} :
          /\ pc[h] = "h_test" /\ pc' = [pc EXCEPT ![h] = p] /\ UNCHANGED <<closed, broken, after>>
          /\ p = "dead" => event = None \/ event \in eventsSet
    BY <1>1 DEF HeartTest, Moves
  <2>2. QED
    BY <1>0, <1>u, <1>a, <2>1, WorkerKeeps DEF Managing, StopPoints, ClosePoints
<1>2. CASE HeartCheck(h)
  <2>1. /\ pc[h] = "h_check" /\ pc' = [pc EXCEPT ![h] = "h_read"]
        /\ UNCHANGED <<closed, broken, after>> /\ asks'[h].of = backend
    BY <1>2 DEF HeartCheck, Moves, ControlType
  <2>2. QED BY <1>0, <1>u, <1>a, <2>1, WorkerKeeps DEF Managing, StopPoints, ClosePoints
<1>6. CASE HeartRead(h)
  <2>1. PICK p \in {"h_next", "dead"} :
          /\ pc[h] = "h_read" /\ pc' = [pc EXCEPT ![h] = p] /\ UNCHANGED <<closed, after>>
          /\ broken \subseteq broken' /\ (p = "dead" => h \in broken')
    BY <1>0, <1>6 DEF HeartRead, Moves, Raises
  <2>2. QED BY <1>0, <1>u, <1>a, <2>1, WorkerKeeps DEF Managing, StopPoints, ClosePoints
<1>3. CASE HeartNext(h)
  <2>1. PICK p \in {"h_wait", "h_call"} :
          pc[h] = "h_next" /\ pc' = [pc EXCEPT ![h] = p] /\ UNCHANGED <<closed, broken, after>>
    BY <1>3 DEF HeartNext, Moves
  <2>2. QED BY <1>0, <1>u, <1>a, <2>1, WorkerKeeps DEF Managing, StopPoints, ClosePoints
<1>4. CASE HeartCall(h)
  <2>1. pc[h] = "h_call" BY <1>4 DEF HeartCall
  <2>2. PICK act \in CallbackActs :
          \/ act = "return" /\ Moves(h, "h_next") /\ UNCHANGED after
          \/ act = "raise" /\ Raises(h) /\ UNCHANGED after
          \/ act \in {"stop", "close"} /\ Enter(h, act) /\ UNCHANGED <<closed, broken>>
    BY <1>4 DEF HeartCall
  <2>3. CASE Moves(h, "h_next") /\ UNCHANGED after
    <3>1. pc' = [pc EXCEPT ![h] = "h_next"] /\ UNCHANGED <<closed, broken, after>>
      BY <2>3 DEF Moves
    <3>2. QED BY <1>0, <1>u, <1>a, <2>1, <3>1, WorkerKeeps DEF Managing, StopPoints, ClosePoints
  <2>4. CASE Raises(h) /\ UNCHANGED after
    <3>1. /\ pc' = [pc EXCEPT ![h] = "dead"] /\ broken' = broken \cup {h}
          /\ UNCHANGED <<closed, after>>
      BY <1>0, <2>4 DEF Raises
    <3>2. h \in broken' /\ broken \subseteq broken' BY <3>1
    <3>3. QED
      BY <1>0, <1>u, <1>a, <2>1, <3>1, <3>2, WorkerKeeps DEF Managing, StopPoints, ClosePoints
  <2>5. CASE Enter(h, act) /\ UNCHANGED <<closed, broken>>
    <3>1. /\ pc' = [pc EXCEPT ![h] = "s_set"]
          /\ \A u \in Threads \ {h} : ~Manages(u)
      BY <2>5 DEF Enter, Enters
    <3>a. after'[h] # "connect" /\ \A u \in Threads \ {h} : after'[u] = after[u]
      BY <1>0, <2>5 DEF Enter, ControlType
    <3>2. asks' = asks BY <1>4 DEF HeartCall
    <3>3. QED BY <1>0, <1>u, <1>a, <2>1, <2>5, <3>1, <3>a, <3>2, EnterKeeps
  <2>6. QED BY <2>2, <2>3, <2>4, <2>5
<1>5. CASE HeartWait(h)
  <2>1. PICK p \in {"dead", "h_test"} :
          /\ pc[h] = "h_wait" /\ pc' = [pc EXCEPT ![h] = p] /\ UNCHANGED <<closed, broken, after>>
          /\ p = "dead" => event = None
    BY <1>5 DEF HeartWait, Moves
  <2>2. QED BY <1>0, <1>u, <1>a, <2>1, WorkerKeeps DEF Managing, StopPoints, ClosePoints
<1>7. QED BY <1>1, <1>2, <1>3, <1>4, <1>5, <1>6 DEF Heart

LEMMA StreamKeeps ==
  ASSUME ControlType, ControlType', Whole, NEW b \in Backends, Stream(b), orderly'
  PROVE  Whole'
<1> USE UserIsNoWorker
<1>0. b \in Workers /\ b \in Threads /\ b \notin Hearts /\ b # User BY DEF Workers
<1>u. UNCHANGED <<mode, backend, open, running, heart, event, eventsSet, shut, target, asks,
                  steady>>
  BY DEF Stream
<1>1. CASE StreamNext(b)
  <2>0. running \subseteq open BY DEF Whole, StreamInv
  <2>1. PICK p \in {"dead", "d_track"} :
          /\ pc[b] = "d_next" /\ pc' = [pc EXCEPT ![b] = p] /\ UNCHANGED <<closed, after>>
          /\ broken \subseteq broken' /\ (p = "dead" => b \in broken' \/ b \notin running)
          /\ p = "d_track" => b \in running
    BY <1>0, <1>1, <2>0 DEF StreamNext, Moves, Raises
  <2>2. p = "dead" \/ b \in running BY <2>1
  <2>3. QED
    BY <1>0, <1>u, <2>1, <2>2, WorkerKeeps DEF Managing, StopPoints, ClosePoints
<1>2. CASE StreamTrack(b)
  <2>1. pc[b] = "d_track" /\ pc' = [pc EXCEPT ![b] = "d_route"] /\ UNCHANGED <<closed, broken, after>>
    BY <1>2 DEF StreamTrack, Moves
  <2>2. QED BY <1>0, <1>u, <2>1, WorkerKeeps DEF Managing, StopPoints, ClosePoints
<1>3. CASE StreamRoute(b)
  <2>1. PICK p \in {"d_next", "d_route", "d_call", "dead"} :
          /\ pc[b] = "d_route" /\ pc' = [pc EXCEPT ![b] = p] /\ UNCHANGED <<closed, broken, after>>
          /\ p = "dead" => mode = "parallel" /\ shut # {}
    <3>1. CASE left[b] = {} /\ Moves(b, "d_next") BY <1>3, <3>1 DEF StreamRoute, Moves
    <3>2. CASE \E n \in left[b] :
                 \/ Route(n) = {} /\ Moves(b, "d_route")
                 \/ \E p \in Route(n) :
                      \/ mode = "sequential" /\ Moves(b, "d_call")
                      \/ mode = "parallel" /\ p \notin shut /\ Moves(b, "d_route")
                      \/ mode = "parallel" /\ p \in shut
                         /\ Moves(b, IF fns[p] = <<>> THEN "d_route" ELSE "dead")
      <4>1. pc[b] = "d_route" BY <1>3 DEF StreamRoute
      <4>2. PICK q \in {"d_route", "d_call", "dead"} :
              Moves(b, q) /\ (q = "dead" => mode = "parallel" /\ shut # {})
        BY <3>2
      <4>3. after' = after BY <1>3 DEF StreamRoute
      <4>4. QED BY <4>1, <4>2, <4>3 DEF Moves
    <3>3. QED BY <1>3, <3>1, <3>2 DEF StreamRoute
  <2>2. QED
    BY <1>0, <1>u, <2>1, WorkerKeeps DEF Managing, StopPoints, ClosePoints
<1>4. CASE StreamCall(b)
  <2>1. pc[b] = "d_call" BY <1>4 DEF StreamCall
  <2>2. \/ Moves(b, "d_route") /\ UNCHANGED after
        \/ \E act \in CallbackActs :
             \/ (Moves(b, "d_call") \/ Raises(b)) /\ UNCHANGED after
             \/ act \in {"stop", "close"} /\ Enter(b, act) /\ UNCHANGED <<closed, broken>>
    BY <1>4 DEF StreamCall
  <2>3. CASE (Moves(b, "d_route") \/ Moves(b, "d_call")) /\ UNCHANGED after
    <3>1. PICK p \in {"d_route", "d_call"} :
            pc' = [pc EXCEPT ![b] = p] /\ UNCHANGED <<closed, broken, after>>
      BY <2>3 DEF Moves
    <3>2. QED BY <1>0, <1>u, <2>1, <3>1, WorkerKeeps DEF Managing, StopPoints, ClosePoints
  <2>4. CASE Raises(b) /\ UNCHANGED after
    <3>1. /\ pc' = [pc EXCEPT ![b] = "dead"] /\ broken' = broken \cup {b}
          /\ UNCHANGED <<closed, after>>
      BY <1>0, <2>4 DEF Raises
    <3>2. b \in broken' /\ broken \subseteq broken' BY <3>1
    <3>3. QED
      BY <1>0, <1>u, <2>1, <3>1, <3>2, WorkerKeeps DEF Managing, StopPoints, ClosePoints
  <2>5. CASE \E act \in {"stop", "close"} : Enter(b, act) /\ UNCHANGED <<closed, broken>>
    <3>1. /\ pc' = [pc EXCEPT ![b] = "s_set"] /\ UNCHANGED <<closed, broken>>
          /\ \A u \in Threads \ {b} : ~Manages(u)
      BY <2>5 DEF Enter, Enters
    <3>a. after'[b] # "connect" /\ \A u \in Threads \ {b} : after'[u] = after[u]
      BY <1>0, <2>5 DEF Enter, ControlType
    <3>2. QED BY <1>0, <1>u, <2>1, <3>1, <3>a, EnterKeeps
  <2>6. QED BY <2>2, <2>3, <2>4, <2>5
<1>5. QED BY <1>1, <1>2, <1>3, <1>4 DEF Stream

\* What was disorderly stays so.
LEMMA OrderlyOnce ==
  ASSUME Next, orderly' PROVE orderly
<1>1. CASE UserStep
  BY <1>1 DEF UserStep, StartHeartbeat, StartThread, CallStop, Enter, Enters,
             CallConnect, Open, OpenFails, Configure
<1>2. CASE PoolCall BY <1>2 DEF PoolCall
<1>3. ASSUME NEW t \in Threads, Stop(t) PROVE orderly
  BY <1>3 DEF Stop, StopSet, StopJoin, StopWait, StopNone, StopEvent
<1>4. ASSUME NEW t \in Threads, Close(t) PROVE orderly
  BY <1>4 DEF Close, CloseProxy, CloseFlag, CloseJoin, CloseChannel, CloseDrop
<1>5. ASSUME NEW h \in Hearts, Heart(h) PROVE orderly
  BY <1>5 DEF Heart, HeartTest, HeartCheck, HeartRead, HeartNext, HeartCall, HeartWait,
                Enter, Enters
<1>6. ASSUME NEW b \in Backends, Stream(b) PROVE orderly
  BY <1>6 DEF Stream, StreamNext, StreamTrack, StreamRoute, StreamCall, Enter, Enters
<1>7. QED BY <1>1, <1>2, <1>3, <1>4, <1>5, <1>6 DEF Next

LEMMA InitInv == Init => NodeInv
<1> SUFFICES ASSUME Init PROVE ManagerAlone /\ MonitorInv /\ StreamInv BY DEF NodeInv
<1>1. pc = [t \in Threads |-> IF t = User THEN "idle" ELSE "dead"] BY DEF Init
<1>2. \A t \in Threads : pc[t] \in {"idle", "dead"} /\ (t # User => pc[t] = "dead") BY <1>1
<1>3. \A t \in Hearts \cup Backends : pc[t] = "dead" BY <1>2, UserIsNoWorker DEF Workers
<1>4. ManagerAlone
  BY <1>2 DEF ManagerAlone, Manages, StopPoints, ClosePoints
<1>5. MonitorInv
  BY <1>2, <1>3 DEF Init, MonitorInv, NoHeart, Alive, ClosePoints, Past
<1>6. StreamInv BY <1>2, <1>3 DEF Init, StreamInv, Alive, ClosePoints
<1>7. QED BY <1>4, <1>5, <1>6

LEMMA StepInv ==
  ASSUME ControlType, ControlType', NodeInv, [Next]_vars
  PROVE  NodeInv'
<1>1. CASE UNCHANGED vars
  <2> SUFFICES ASSUME orderly' PROVE Whole' BY DEF NodeInv, Whole
  <2>1. /\ orderly
        /\ UNCHANGED <<mode, backend, open, running, heart, event, eventsSet, shut, pc, target,
                       closed, broken, after, asks, steady>>
    BY <1>1 DEF vars
  <2>2. Whole BY <2>1 DEF NodeInv, Whole
  <2>3. QED BY <2>1, <2>2, SameKeeps
<1>2. CASE Next
  <2> SUFFICES ASSUME orderly' PROVE Whole' BY DEF NodeInv, Whole
  <2>0. Whole BY <1>2, OrderlyOnce DEF NodeInv, Whole
  <2>1. CASE UserStep BY <2>0, <2>1, UserKeeps
  <2>2. CASE PoolCall
    <3>1. UNCHANGED <<mode, backend, open, running, heart, event, eventsSet, shut, pc, target,
                      closed, broken, after, asks, steady>>
      BY <2>2 DEF PoolCall
    <3>2. QED BY <2>0, <3>1, SameKeeps
  <2>3. CASE \E t \in Threads : Stop(t) \/ Close(t) BY <2>0, <2>3, StopKeeps, CloseKeeps
  <2>4. CASE \E h \in Hearts : Heart(h) BY <2>0, <2>4, HeartKeeps
  <2>5. CASE \E b \in Backends : Stream(b) BY <2>0, <2>5, StreamKeeps
  <2>6. QED BY <1>2, <2>1, <2>2, <2>3, <2>4, <2>5 DEF Next
<1>3. QED BY <1>1, <1>2

\* As long as no join gives up and one thread at a time is in start, stop or close,
\* that thread's place tells what the attributes of the node are.
THEOREM Invariance == Spec => []NodeInv
<1>1. Init => NodeInv BY InitInv
<1>2. ControlType /\ ControlType' /\ NodeInv /\ [Next]_vars => NodeInv' BY StepInv
<1>3. QED BY <1>1, <1>2, Typing, PTL DEF Spec

-----------------------------------------------------------------------------
(* The properties.                                                         *)

\* After close() has returned the heartbeat thread has ended, and each stream thread
\* has ended or waits for a snapshot it will not look at: neither calls a listener or
\* an on_dead until the next start.  (close, stop_heartbeat_monitor,
\* GrpcBackend.close)  Listeners already in the pool of a parallel proxy are not
\* spoken of: close() does not wait for those of a node, and they run on.
THEOREM QuietClose == Spec => []QuietAfterClose
<1>1. ControlType /\ NodeInv => QuietAfterClose
  <2> SUFFICES ASSUME ControlType, NodeInv, closed, orderly
               PROVE  /\ \A h \in Hearts : Alive(h) => heart = h
                      /\ \A b \in Backends : Alive(b) => pc[b] = "d_next" /\ b \notin running
    BY DEF QuietAfterClose
  <2>1. \A h \in Hearts : Alive(h) => heart = h BY DEF NodeInv, MonitorInv
  <2>2. backend = None BY DEF NodeInv, StreamInv
  <2>3. running = {} BY <2>2, UserIsNoWorker, NamesDistinct DEF NodeInv, StreamInv, ControlType
  <2>4. \A b \in Backends : pc[b] \in {"dead", "d_next"}
    BY <2>2, NamesDistinct DEF NodeInv, StreamInv
  <2>5. QED BY <2>1, <2>3, <2>4 DEF Alive
<1>2. QED BY <1>1, Typing, Invariance, PTL

\* start_heartbeat_monitor() and the stops of caller and callbacks leave at most one
\* heartbeat thread.
THEOREM SingleMonitor == Spec => []OneMonitor
<1>1. NodeInv => OneMonitor BY DEF NodeInv, MonitorInv, OneMonitor
<1>2. QED BY <1>1, Invariance, PTL

\* A heartbeat or stream thread ends only because it was stopped or closed, because a
\* callback or check() raised, because the server or a message that failed ended the
\* stream, or because a closed parallel proxy was called.
THEOREM WorkersKeepOn == Spec => []WorkersLive
<1>1. NodeInv => WorkersLive BY DEF NodeInv, MonitorInv, StreamInv, WorkersLive
<1>2. QED BY <1>1, Invariance, PTL

\* A monitor that was started on a connected node pings through an open channel until
\* somebody calls connect().
THEOREM PingsGoOut == Spec => []PingsReach
<1>1. ControlType /\ NodeInv => PingsReach
  <2> SUFFICES ASSUME ControlType, NodeInv, NEW h \in Hearts, pc[h] = "h_read",
                      h \in steady, orderly
               PROVE  asks[h].of \in open
    BY DEF PingsReach
  <2>1. Alive(h) BY DEF Alive
  <2>2. backend # None /\ asks[h].of = backend BY <2>1 DEF NodeInv, StreamInv
  <2>3. ASSUME NEW t \in Threads PROVE pc[t] # "c_drop"
    <3>1. SUFFICES ASSUME pc[t] = "c_drop" PROVE FALSE OBVIOUS
    <3>2. after[t] # "connect" BY <3>1 DEF NodeInv, StreamInv, ClosePoints
    <3>3. NoHeart BY <3>1, <3>2 DEF NodeInv, MonitorInv, Past, ClosePoints
    <3>4. QED BY <2>1, <3>3 DEF NoHeart
  <2>4. QED BY <2>2, <2>3 DEF NodeInv, StreamInv
<1>2. QED BY <1>1, Typing, Invariance, PTL
=============================================================================

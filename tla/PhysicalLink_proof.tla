-------------------------- MODULE PhysicalLink_proof --------------------------
(***************************************************************************)
(* Theorems about PhysicalLink, for every set of backends and of reconnect *)
(* threads: type correctness of the specification as it is, and, for a     *)
(* caller that leaves connect() to a living reconnect thread and joins     *)
(* that do not time out, the invariants of the link.                       *)
(***************************************************************************)
EXTENDS PhysicalLink, TLAPS

USE DEF Threads, Stay, nodeVars, threadVars, Alive

\* A statement's successor has the type of its thread's statements.
LEMMA GotoType ==
  ASSUME TypeOK, NEW t \in Threads, NEW from, NEW to, Goto(t, from, to),
         t = User => to \in UserPoints, t \in Loops => to \in LoopPoints
  PROVE  /\ pc' \in [Threads -> LoopPoints \cup UserPoints]
         /\ pc'[User] \in UserPoints
         /\ \A k \in Loops : pc'[k] \in LoopPoints
<1>1. pc' = [pc EXCEPT ![t] = to] /\ pc \in [Threads -> LoopPoints \cup UserPoints]
  BY DEF Goto, TypeOK
<1>2. to \in LoopPoints \cup UserPoints OBVIOUS
<1>3. pc' \in [Threads -> LoopPoints \cup UserPoints] BY <1>1, <1>2
<1>4. pc'[User] \in UserPoints BY <1>1, ThreadsDistinct DEF TypeOK
<1>5. ASSUME NEW k \in Loops PROVE pc'[k] \in LoopPoints
  BY <1>1, <1>5, ThreadsDistinct DEF TypeOK
<1>6. QED BY <1>3, <1>4, <1>5

\* connect() ends with the caller idle or the loop waiting.
LEMMA LeaveType ==
  ASSUME TypeOK, NEW t \in Threads, NEW from, LeaveConnect(t, from)
  PROVE  /\ pc' \in [Threads -> LoopPoints \cup UserPoints]
         /\ pc'[User] \in UserPoints
         /\ \A k \in Loops : pc'[k] \in LoopPoints
         /\ call' \in Calls
         /\ closed' \in BOOLEAN
<1>1. CASE t = User
  <2>1. Goto(User, from, "idle") /\ call' = "none" /\ closed' = FALSE
    BY <1>1 DEF LeaveConnect, ReturnUser
  <2>2. "idle" \in UserPoints BY DEF UserPoints
  <2>3. QED BY <2>1, <2>2, <1>1, GotoType, ThreadsDistinct DEF Calls
<1>2. CASE t # User
  <2>1. Goto(t, from, "wait") /\ UNCHANGED <<call, closed>>
    BY <1>2 DEF LeaveConnect
  <2>2. "wait" \in LoopPoints BY DEF LoopPoints
  <2>3. QED BY <2>1, <2>2, <1>2, GotoType DEF TypeOK
<1>3. QED BY <1>1, <1>2

\* The steps of connect() keep the type of the node's attributes.
LEMMA ConnectType ==
  ASSUME TypeOK, NEW t \in Threads, Connect(t)
  PROVE  TypeOK'
<1>2. CASE ConnectCloseOld(t)
  <2>1. UNCHANGED <<backend, connected, streams, threadVars>> /\ open' \subseteq open
    BY <1>2 DEF ConnectCloseOld
  <2>2. CASE backend = NoObject
    <3>1. LeaveConnect(t, "c_close") BY <1>2, <2>2 DEF ConnectCloseOld
    <3>2. QED BY <3>1, <2>1, LeaveType DEF TypeOK
  <2>3. CASE backend # NoObject
    <3>1. Goto(t, "c_close", "c_none") /\ UNCHANGED <<call, closed>>
      BY <1>2, <2>3 DEF ConnectCloseOld
    <3>2. "c_none" \in LoopPoints /\ "c_none" \in UserPoints
      BY DEF LoopPoints, UserPoints, ConnectPoints
    <3>3. QED BY <3>1, <3>2, <2>1, GotoType DEF TypeOK
  <2>4. QED BY <2>2, <2>3
<1>9. CASE ConnectDone(t)
  <2>1. LeaveConnect(t, "c_done") BY <1>9 DEF ConnectDone
  <2>2. connected' = TRUE /\ UNCHANGED <<backend, open, streams, threadVars>>
    BY <1>9 DEF ConnectDone
  <2>3. QED BY <2>1, <2>2, LeaveType DEF TypeOK
<1>12. CASE HandlerRaise(t)
  <2>1. LeaveConnect(t, "e_none") BY <1>12 DEF HandlerRaise
  <2>2. backend' = NoObject /\ UNCHANGED <<connected, open, streams, threadVars>>
    BY <1>12 DEF HandlerRaise
  <2>3. QED BY <2>1, <2>2, LeaveType DEF TypeOK
<1> USE ThreadsDistinct, NoneDistinct
    DEF TypeOK, Goto, UserPoints, LoopPoints, ConnectPoints, Calls, MaxStreams
<1>1. CASE ConnectTest(t) BY <1>1 DEF ConnectTest
<1>3. CASE ConnectDropOld(t) BY <1>3 DEF ConnectDropOld
<1>4. CASE ConnectReset(t) BY <1>4 DEF ConnectReset
<1>5. CASE ConnectCreate(t) BY <1>5 DEF ConnectCreate, NewBackend
<1>6. CASE ConnectCreateFails(t) BY <1>6 DEF ConnectCreateFails
<1>7. CASE ConnectSubscribe(t) BY <1>7 DEF ConnectSubscribe
<1>8. CASE ConnectSubscribeFails(t) BY <1>8 DEF ConnectSubscribeFails
<1>10. CASE HandlerTest(t) BY <1>10 DEF HandlerTest
<1>11. CASE HandlerClose(t) BY <1>11 DEF HandlerClose
<1>13. QED BY <1>1, <1>2, <1>3, <1>4, <1>5, <1>6, <1>7, <1>8, <1>9, <1>10,
              <1>11, <1>12 DEF Connect

LEMMA LoopType ==
  ASSUME TypeOK, NEW k \in Loops, Loop(k)
  PROVE  TypeOK'
<1>1. CASE Connect(k) BY <1>1, ConnectType
<1> USE ThreadsDistinct, NoneDistinct
    DEF TypeOK, Goto, UserPoints, LoopPoints, ConnectPoints, Calls
<1>2. CASE LoopAssert(k) BY <1>2 DEF LoopAssert
<1>3. CASE LoopTest(k) BY <1>3 DEF LoopTest
<1>4. CASE LoopPoll(k) BY <1>4 DEF LoopPoll
<1>5. CASE LoopWait(k) BY <1>5 DEF LoopWait
<1>6. QED BY <1>1, <1>2, <1>3, <1>4, <1>5 DEF Loop

LEMMA CallerType ==
  ASSUME TypeOK, Caller
  PROVE  TypeOK'
<1>1. CASE Connect(User) BY <1>1, ConnectType
<1> USE ThreadsDistinct, NoneDistinct
    DEF TypeOK, Goto, Enter, ReturnUser, AfterStop, UserPoints, LoopPoints,
        ConnectPoints, Calls
<1>2. CASE CallConnect BY <1>2 DEF CallConnect
<1>3. CASE CallGetState BY <1>3 DEF CallGetState
<1>4. CASE CallStart BY <1>4 DEF CallStart
<1>5. CASE CallStop BY <1>5 DEF CallStop
<1>6. CASE CallClose BY <1>6 DEF CallClose
<1>7. CASE GetStateReturns BY <1>7 DEF GetStateReturns
<1>8. CASE GetStateFails BY <1>8 DEF GetStateFails
<1>9. CASE GetStateMarksLost BY <1>9 DEF GetStateMarksLost
<1>10. CASE GetStateRaises BY <1>10 DEF GetStateRaises
<1>11. CASE StartNewEvent BY <1>11 DEF StartNewEvent
<1>12. CASE StartNewThread BY <1>12 DEF StartNewThread
<1>13. CASE StopSet BY <1>13 DEF StopSet
<1>14. CASE StopNothing BY <1>14 DEF StopNothing
<1>15. CASE StopJoin BY <1>15 DEF StopJoin
<1>16. CASE StopDropThread BY <1>16 DEF StopDropThread
<1>17. CASE StopDropEvent BY <1>17 DEF StopDropEvent
<1>18. CASE CloseTest BY <1>18 DEF CloseTest
<1>19. CASE CloseBackend
  <2>1. CASE backend = NoObject BY <1>19, <2>1 DEF CloseBackend
  <2>2. CASE backend # NoObject BY <1>19, <2>2 DEF CloseBackend
  <2>3. QED BY <2>1, <2>2
<1>20. CASE CloseDrop BY <1>20 DEF CloseDrop
<1>21. CASE CloseDone BY <1>21 DEF CloseDone
<1>22. QED BY <1>1, <1>2, <1>3, <1>4, <1>5, <1>6, <1>7, <1>8, <1>9, <1>10,
              <1>11, <1>12, <1>13, <1>14, <1>15, <1>16, <1>17, <1>18, <1>19,
              <1>20, <1>21 DEF Caller

\* Type correctness, for whatever the joins and the caller do.
THEOREM Typing == Spec => []TypeOK
<1>1. Init => TypeOK
  <2> SUFFICES ASSUME Init PROVE TypeOK OBVIOUS
  <2>1. /\ pc \in [Threads -> LoopPoints \cup UserPoints]
        /\ pc[User] \in UserPoints
        /\ \A k \in Loops : pc[k] \in LoopPoints
    BY ThreadsDistinct DEF Init, UserPoints, LoopPoints
  <2>2. streams \in [Backends -> 0..MaxStreams] BY DEF Init, MaxStreams
  <2>3. QED BY <2>1, <2>2 DEF Init, TypeOK, Calls
<1>2. TypeOK /\ [Next]_vars => TypeOK'
  <2> SUFFICES ASSUME TypeOK, [Next]_vars PROVE TypeOK' OBVIOUS
  <2>1. CASE Caller BY <2>1, CallerType
  <2>2. ASSUME NEW k \in Loops, Loop(k) PROVE TypeOK' BY <2>2, LoopType
  <2>3. CASE UNCHANGED vars BY <2>3 DEF TypeOK, vars
  <2>4. QED BY <2>1, <2>2, <2>3 DEF Next
<1>3. QED BY <1>1, <1>2, PTL DEF Spec

-----------------------------------------------------------------------------
(* The invariants of the link, with their strengthening LinkInv.           *)

LEMMA ConnectInv ==
  ASSUME TypeOK, TypeOK', LinkInv, NEW t \in Threads, Connect(t),
         JoinTimesOut = FALSE, ConnectWhileAuto = FALSE
  PROVE  LinkInv'
<1> USE ThreadsDistinct, NoneDistinct
    DEF TypeOK, Goto, ReturnUser, LeaveConnect, ConnectPoints, MaxStreams,
        NoOrphan, LinkConsistent, ClosedIsClosed, OneLoop, AllDead, CallerAlone,
        ConnectProgress, CloseProgress, LinkInv
<1>1. CASE ConnectTest(t) BY <1>1 DEF ConnectTest
<1>2. CASE ConnectCloseOld(t) BY <1>2 DEF ConnectCloseOld
<1>3. CASE ConnectDropOld(t) BY <1>3 DEF ConnectDropOld
<1>4. CASE ConnectReset(t) BY <1>4 DEF ConnectReset
<1>5. CASE ConnectCreate(t) BY <1>5 DEF ConnectCreate, NewBackend
<1>6. CASE ConnectCreateFails(t) BY <1>6 DEF ConnectCreateFails
<1>7. CASE ConnectSubscribe(t) BY <1>7 DEF ConnectSubscribe
<1>8. CASE ConnectSubscribeFails(t) BY <1>8 DEF ConnectSubscribeFails
<1>9. CASE ConnectDone(t) BY <1>9 DEF ConnectDone
<1>10. CASE HandlerTest(t) BY <1>10 DEF HandlerTest
<1>11. CASE HandlerClose(t) BY <1>11 DEF HandlerClose
<1>12. CASE HandlerRaise(t) BY <1>12 DEF HandlerRaise
<1>13. QED BY <1>1, <1>2, <1>3, <1>4, <1>5, <1>6, <1>7, <1>8, <1>9, <1>10,
              <1>11, <1>12 DEF Connect

LEMMA LoopInv ==
  ASSUME TypeOK, TypeOK', LinkInv, NEW k \in Loops, Loop(k),
         JoinTimesOut = FALSE, ConnectWhileAuto = FALSE
  PROVE  LinkInv'
<1>1. CASE Connect(k) BY <1>1, ConnectInv
<1> USE ThreadsDistinct, NoneDistinct
    DEF TypeOK, Goto, ConnectPoints,
        NoOrphan, LinkConsistent, ClosedIsClosed, OneLoop, AllDead, CallerAlone,
        ConnectProgress, CloseProgress, LinkInv
<1>2. CASE LoopAssert(k) BY <1>2 DEF LoopAssert
<1>3. CASE LoopTest(k) BY <1>3 DEF LoopTest
<1>4. CASE LoopPoll(k) BY <1>4 DEF LoopPoll
<1>5. CASE LoopWait(k) BY <1>5 DEF LoopWait
<1>6. QED BY <1>1, <1>2, <1>3, <1>4, <1>5 DEF Loop

LEMMA CallerInv ==
  ASSUME TypeOK, TypeOK', LinkInv, Caller,
         JoinTimesOut = FALSE, ConnectWhileAuto = FALSE
  PROVE  LinkInv'
<1>1. CASE Connect(User) BY <1>1, ConnectInv
<1> USE ThreadsDistinct, NoneDistinct
    DEF TypeOK, Goto, Enter, ReturnUser, AfterStop, ConnectPoints,
        NoOrphan, LinkConsistent, ClosedIsClosed, OneLoop, AllDead, CallerAlone,
        ConnectProgress, CloseProgress, LinkInv
<1>2. CASE CallConnect BY <1>2 DEF CallConnect
<1>3. CASE CallGetState BY <1>3 DEF CallGetState
<1>4. CASE CallStart BY <1>4 DEF CallStart
<1>5. CASE CallStop BY <1>5 DEF CallStop
<1>6. CASE CallClose BY <1>6 DEF CallClose
<1>7. CASE GetStateReturns BY <1>7 DEF GetStateReturns
<1>8. CASE GetStateFails BY <1>8 DEF GetStateFails
<1>9. CASE GetStateMarksLost BY <1>9 DEF GetStateMarksLost
<1>10. CASE GetStateRaises BY <1>10 DEF GetStateRaises
<1>11. CASE StartNewEvent BY <1>11 DEF StartNewEvent
<1>12. CASE StartNewThread BY <1>12 DEF StartNewThread
<1>13. CASE StopSet BY <1>13 DEF StopSet
<1>14. CASE StopNothing BY <1>14 DEF StopNothing
<1>15. CASE StopJoin BY <1>15 DEF StopJoin
<1>16. CASE StopDropThread BY <1>16 DEF StopDropThread
<1>17. CASE StopDropEvent BY <1>17 DEF StopDropEvent
<1>18. CASE CloseTest BY <1>18 DEF CloseTest
<1>19. CASE CloseBackend BY <1>19 DEF CloseBackend
<1>20. CASE CloseDrop BY <1>20 DEF CloseDrop
<1>21. CASE CloseDone BY <1>21 DEF CloseDone
<1>22. QED BY <1>1, <1>2, <1>3, <1>4, <1>5, <1>6, <1>7, <1>8, <1>9,
              <1>10, <1>11, <1>12, <1>13, <1>14, <1>15, <1>16, <1>17,
              <1>18, <1>19, <1>20, <1>21 DEF Caller

\* The four invariants of the link, for any number of backends and reconnect
\* threads, when joins do not time out and the caller does not connect() while
\* a reconnect thread lives.
THEOREM LinkSafety ==
  ASSUME JoinTimesOut = FALSE, ConnectWhileAuto = FALSE
  PROVE  Spec => [](NoOrphan /\ LinkConsistent /\ ClosedIsClosed /\ OneLoop)
<1>1. Init => LinkInv
  BY ThreadsDistinct, NoneDistinct
  DEF Init, NoOrphan, LinkConsistent, ClosedIsClosed, OneLoop, AllDead, CallerAlone,
      ConnectProgress, CloseProgress, LinkInv, ConnectPoints
<1>2. TypeOK /\ TypeOK' /\ LinkInv /\ [Next]_vars => LinkInv'
  <2> SUFFICES ASSUME TypeOK, TypeOK', LinkInv, [Next]_vars PROVE LinkInv' OBVIOUS
  <2>1. CASE Caller BY <2>1, CallerInv
  <2>2. ASSUME NEW k \in Loops, Loop(k) PROVE LinkInv' BY <2>2, LoopInv
  <2>3. CASE UNCHANGED vars
    BY <2>3 DEF vars, NoOrphan, LinkConsistent, ClosedIsClosed, OneLoop, AllDead,
                CallerAlone, ConnectProgress, CloseProgress, LinkInv
  <2>4. QED BY <2>1, <2>2, <2>3 DEF Next
<1>3. LinkInv => NoOrphan /\ LinkConsistent /\ ClosedIsClosed /\ OneLoop BY DEF LinkInv
<1>4. QED BY <1>1, <1>2, <1>3, Typing, PTL DEF Spec

\* While no call and no attempt is under way, is_connected means that there is a
\* backend that is open.
THEOREM LinkTruthful ==
  ASSUME JoinTimesOut = FALSE, ConnectWhileAuto = FALSE
  PROVE  Spec => []LinkConsistent
BY LinkSafety, PTL

\* close() is final: no attempt that was under way connects the node again.
THEOREM CloseIsFinal ==
  ASSUME JoinTimesOut = FALSE, ConnectWhileAuto = FALSE
  PROVE  Spec => []ClosedIsClosed
BY LinkSafety, PTL

\* However often auto-reconnect is started and stopped, one thread does it.
THEOREM OneReconnects ==
  ASSUME JoinTimesOut = FALSE, ConnectWhileAuto = FALSE
  PROVE  Spec => []OneLoop
BY LinkSafety, PTL

-----------------------------------------------------------------------------
(* The registered reconnect thread, for whatever the joins and the caller  *)
(* do.                                                                     *)

LEMMA ConnectRegistered ==
  ASSUME TypeOK, LoopRegistered, NEW t \in Threads, Connect(t)
  PROVE  /\ LoopRegistered'
         /\ UNCHANGED threadVars
         /\ \A k \in Loops : Alive(k)' = Alive(k)
<1>1. UNCHANGED threadVars
  BY DEF Connect, ConnectTest, ConnectCloseOld, ConnectDropOld, ConnectReset,
         ConnectCreate, ConnectCreateFails, ConnectSubscribe, ConnectSubscribeFails,
         ConnectDone, HandlerTest, HandlerClose, HandlerRaise
<1>2. PICK from \in ConnectPoints, to \in ConnectPoints \cup {"idle", "wait"} :
         /\ Goto(t, from, to)
         /\ t # User => to # "idle"
  BY DEF Connect, ConnectTest, ConnectCloseOld, ConnectDropOld, ConnectReset,
         ConnectCreate, ConnectCreateFails, ConnectSubscribe, ConnectSubscribeFails,
         ConnectDone, HandlerTest, HandlerClose, HandlerRaise, LeaveConnect,
         ReturnUser, ConnectPoints, Goto
<1>3. \A k \in Loops : Alive(k)' = Alive(k)
  BY <1>2, ThreadsDistinct DEF TypeOK, Goto, ConnectPoints
<1>4. pc'[User] \notin {"a_event", "a_thread", "s_event"} \/ pc'[User] = pc[User]
  BY <1>2, ThreadsDistinct DEF TypeOK, Goto, ConnectPoints
<1>5. QED BY <1>1, <1>3, <1>4, NoneDistinct DEF TypeOK, LoopRegistered

LEMMA LoopKeepsRegistered ==
  ASSUME TypeOK, LoopRegistered, NEW k \in Loops, Loop(k)
  PROVE  /\ LoopRegistered'
         /\ \A j \in Loops :
              j = reconnectThread /\ Alive(j) /\ ~Alive(j)' => j \in eventsSet
<1>1. CASE Connect(k) BY <1>1, ConnectRegistered
<1> USE ThreadsDistinct, NoneDistinct DEF TypeOK, Goto, LoopRegistered
<1>2. CASE LoopAssert(k) BY <1>2 DEF LoopAssert
<1>3. CASE LoopTest(k) BY <1>3 DEF LoopTest
<1>4. CASE LoopPoll(k) BY <1>4 DEF LoopPoll
<1>5. CASE LoopWait(k) BY <1>5 DEF LoopWait
<1>6. QED BY <1>1, <1>2, <1>3, <1>4, <1>5 DEF Loop

LEMMA CallerKeepsRegistered ==
  ASSUME TypeOK, LoopRegistered, Caller
  PROVE  /\ LoopRegistered'
         /\ \A j \in Loops : Alive(j) => Alive(j)'
<1>1. CASE Connect(User) BY <1>1, ConnectRegistered
<1> USE ThreadsDistinct, NoneDistinct
    DEF TypeOK, Goto, Enter, ReturnUser, AfterStop, LoopRegistered
<1>2. CASE CallConnect BY <1>2 DEF CallConnect
<1>3. CASE CallGetState BY <1>3 DEF CallGetState
<1>4. CASE CallStart BY <1>4 DEF CallStart
<1>5. CASE CallStop BY <1>5 DEF CallStop
<1>6. CASE CallClose BY <1>6 DEF CallClose
<1>7. CASE GetStateReturns BY <1>7 DEF GetStateReturns
<1>8. CASE GetStateFails BY <1>8 DEF GetStateFails
<1>9. CASE GetStateMarksLost BY <1>9 DEF GetStateMarksLost
<1>10. CASE GetStateRaises BY <1>10 DEF GetStateRaises
<1>11. CASE StartNewEvent BY <1>11 DEF StartNewEvent
<1>12. CASE StartNewThread BY <1>12 DEF StartNewThread
<1>13. CASE StopSet BY <1>13 DEF StopSet
<1>14. CASE StopNothing BY <1>14 DEF StopNothing
<1>15. CASE StopJoin BY <1>15 DEF StopJoin
<1>16. CASE StopDropThread BY <1>16 DEF StopDropThread
<1>17. CASE StopDropEvent BY <1>17 DEF StopDropEvent
<1>18. CASE CloseTest BY <1>18 DEF CloseTest
<1>19. CASE CloseBackend BY <1>19 DEF CloseBackend
<1>20. CASE CloseDrop BY <1>20 DEF CloseDrop
<1>21. CASE CloseDone BY <1>21 DEF CloseDone
<1>22. QED BY <1>1, <1>2, <1>3, <1>4, <1>5, <1>6, <1>7, <1>8, <1>9,
              <1>10, <1>11, <1>12, <1>13, <1>14, <1>15, <1>16, <1>17,
              <1>18, <1>19, <1>20, <1>21 DEF Caller

\* Auto-reconnect does not die: the registered thread ends only because its
\* stop event was set, however the calls and the other threads interleave.
THEOREM LoopLives == Spec => LoopEndsWhenStopped
<1>1. Init => LoopRegistered BY NoneDistinct DEF Init, LoopRegistered
<1>2. TypeOK /\ LoopRegistered /\ [Next]_vars
        => /\ LoopRegistered'
           /\ [\A k \in Loops : k = reconnectThread /\ Alive(k) /\ ~Alive(k)'
                 => k \in eventsSet]_vars
  <2> SUFFICES ASSUME TypeOK, LoopRegistered, [Next]_vars
               PROVE  /\ LoopRegistered'
                      /\ [\A k \in Loops : k = reconnectThread /\ Alive(k) /\ ~Alive(k)'
                            => k \in eventsSet]_vars
    OBVIOUS
  <2>1. CASE Caller BY <2>1, CallerKeepsRegistered
  <2>2. CASE \E k \in Loops : Loop(k) BY <2>2, LoopKeepsRegistered
  <2>3. CASE UNCHANGED vars BY <2>3 DEF vars, LoopRegistered
  <2>4. QED BY <2>1, <2>2, <2>3 DEF Next
<1>3. QED BY <1>1, <1>2, Typing, PTL DEF Spec, LoopEndsWhenStopped
=============================================================================

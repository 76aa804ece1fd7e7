-------------------------- MODULE DeviceFleet_proof --------------------------
(***************************************************************************)
(* Theorems about DeviceFleet: type correctness, that every device that is *)
(* up is registered, that a fleet call goes to every registered device,    *)
(* and what is left when the with statement ends.                          *)
(***************************************************************************)
EXTENDS DeviceFleet, TLAPS

USE DEF dictVars, regVars, userVars, serverVars, histVars, Devices, Names, FleetCalls

LEMMA UserType ==
  ASSUME TypeOK, User
  PROVE  TypeOK'
<1> USE DEF TypeOK, Return, Registered, Used, Fresh
<1>1. CASE AddCheck BY <1>1 DEF AddCheck
<1>2. CASE AddInsert
  <2>1. \A n \in Names : devices'[n] \in Devices \cup {None} BY <1>2 DEF AddInsert
  <2>2. QED BY <1>2, <2>1 DEF AddInsert
<1>3. CASE \E d \in Devices : Start(d) \/ Close(d)
  <2>1. PICK d \in Devices : Start(d) \/ Close(d) BY <1>3
  <2>2. up' \subseteq Devices BY <2>1 DEF Start, Close
  <2>3. exited' = FALSE /\ UNCHANGED <<devices, regVars, userVars, serverVars, quiet, together, raised>>
    BY <2>1 DEF Start, Close
  <2>4. UNCHANGED <<devices, thread, stopEvent, port, callback, uPc, op, uName, uDevice,
                    begun, visited, sPc, sName, sDevice, sPort, quiet, together, raised>>
    BY <2>3
  <2>5. exited' \in BOOLEAN BY <2>3
  <2> HIDE DEF Registered, Used, Fresh, Return
  <2>6. QED BY <2>2, <2>4, <2>5
<1>4. CASE RemoveClose BY <1>4 DEF RemoveClose
<1>5. CASE RemoveDelete BY <1>5 DEF RemoveDelete
<1>6. CASE FleetBegin BY <1>6 DEF FleetBegin
<1>7. CASE FleetVisit
  <2>1. PICK d \in Registered : /\ visited' = visited \cup {d}
                                /\ up' \in {up, up \cup {d}}
    BY <1>7 DEF FleetVisit
  <2>2. d \in Devices OBVIOUS
  <2>3. QED BY <1>7, <2>1, <2>2 DEF FleetVisit
<1>8. CASE FleetRaises BY <1>8 DEF FleetRaises
<1>9. CASE FleetEnd BY <1>9 DEF FleetEnd
<1>10. CASE CloseAllBegin BY <1>10 DEF CloseAllBegin
<1>11. CASE CloseAllVisit BY <1>11 DEF CloseAllVisit
<1>12. CASE CloseAllEnd BY <1>12 DEF CloseAllEnd
<1>13. CASE Accept BY <1>13 DEF Accept
<1>14. CASE StopBegin BY <1>14 DEF StopBegin, NoZombie
<1>15. CASE StopSet BY <1>15 DEF StopSet
<1>16. CASE StopJoin BY <1>16 DEF StopJoin
<1>17. CASE StopClear
  <2>1. CASE op = "exit"
    <3>1. uPc' = "close" /\ begun' \subseteq Devices /\ visited' = {}
      BY <1>17, <2>1 DEF StopClear
    <3>2. UNCHANGED <<op, uName, uDevice, devices, up, sPc, sName, sDevice, sPort,
                      quiet, together, exited, raised>>
      BY <1>17, <2>1 DEF StopClear
    <3>3. thread' = None /\ stopEvent' = "none" /\ port' = None /\ callback' = FALSE
      BY <1>17 DEF StopClear
    <3>4. QED BY <3>1, <3>2, <3>3
  <2>2. CASE op # "exit" BY <1>17, <2>2 DEF StopClear
  <2>3. QED BY <2>1, <2>2
<1>18. QED BY <1>1, <1>2, <1>3, <1>4, <1>5, <1>6, <1>7, <1>8, <1>9, <1>10, <1>11, <1>12,
              <1>13, <1>14, <1>15, <1>16, <1>17 DEF User

LEMMA ServerType ==
  ASSUME TypeOK, NEW s \in Servers, Server(s)
  PROVE  TypeOK'
<1> USE DEF TypeOK, Goto
<1>1. CASE ServerBind(s) BY <1>1 DEF ServerBind
<1>2. CASE ServerTest(s) BY <1>2 DEF ServerTest
<1>3. CASE ServerClose(s) BY <1>3 DEF ServerClose
<1>4. CASE ServerIdle(s) \/ ServerAccept(s) \/ ServerRefuse(s)
  BY <1>4 DEF ServerIdle, ServerAccept, ServerRefuse
<1>5. CASE ServerCheck(s) BY <1>5 DEF ServerCheck, Fresh
<1>6. CASE ServerInsert(s)
  <2>1. devices' \in [Names -> Devices \cup {None}] BY <1>6 DEF ServerInsert
  <2>2. QED BY <1>6, <2>1 DEF ServerInsert
<1>7. CASE ServerCallback(s)
  <2>1. sPc[s] = "call" /\ sDevice[s] \in Devices BY <1>7 DEF ServerCallback
  <2>2. up' \subseteq Devices BY <1>7, <2>1 DEF ServerCallback
  <2>3. QED BY <1>7, <2>2 DEF ServerCallback
<1>8. QED BY <1>1, <1>2, <1>3, <1>4, <1>5, <1>6, <1>7 DEF Server, ServerSteps, ServerWaits

\* Type correctness, for any fleet and any number of registration threads.
THEOREM Typing == Spec => []TypeOK
<1>1. Init => TypeOK BY DEF Init, TypeOK
<1>2. TypeOK /\ [Next]_vars => TypeOK'
  <2> SUFFICES ASSUME TypeOK, [Next]_vars PROVE TypeOK' OBVIOUS
  <2>1. CASE User BY <2>1, UserType
  <2>2. CASE \E s \in Servers : Server(s) BY <2>2, ServerType
  <2>3. CASE UNCHANGED vars BY <2>3 DEF TypeOK, vars
  <2>4. QED BY <2>1, <2>2, <2>3 DEF Next
<1>3. QED BY <1>1, <1>2, PTL DEF Spec

-----------------------------------------------------------------------------
(* No device is lost.                                                      *)

\* The caller and the devices use different names, and the caller leaves a
\* device alone until its registration is over.
Disciplined == OwnNames \cap DeviceNames = {} /\ RemoveEarly = FALSE

LEMMA UserKeeps ==
  ASSUME TypeOK, TypeOK', FleetInv, Disciplined, User
  PROVE  FleetInv' /\ together' = together
<1>0. together' = together
  BY DEF User, AddCheck, AddInsert, Start, Close, RemoveClose, RemoveDelete, FleetBegin,
         FleetVisit, FleetRaises, FleetEnd, CloseAllBegin, CloseAllVisit, CloseAllEnd,
         Accept, StopBegin, StopSet, StopJoin, StopClear
<1> SUFFICES ASSUME Kept PROVE Kept' BY <1>0 DEF FleetInv
<1> USE NoneDistinct
    DEF TypeOK, Kept, OneListener, Listening, OneName, CallerProgress,
        ServerProgress, Disciplined, Return, Registered, Used, Fresh, Alive
<1>1. CASE AddCheck BY <1>1 DEF AddCheck
<1>2. CASE AddInsert
  <2>1. /\ uPc = "insert" /\ uPc' = "idle" /\ up' = up
        /\ devices' = [devices EXCEPT ![uName] = uDevice]
        /\ UNCHANGED <<sPc, sName, sDevice>>
    BY <1>2 DEF AddInsert
  <2>2. uName \in Names /\ devices[uName] = None /\ uDevice \in Devices BY <2>1
  <2>3. Registered \subseteq Registered' BY <2>1, <2>2
  <2>4. Registered' \subseteq Registered \cup {uDevice} BY <2>1, <2>2
  <2>5. OneName' BY <2>1, <2>2
  <2>6. \A s \in Servers : ServerProgress(s)' BY <2>1, <2>2, <2>4
  <2>7. QED BY <2>1, <2>3, <2>5, <2>6
<1>3. CASE \E d \in Devices : Start(d) \/ Close(d) BY <1>3 DEF Start, Close
<1>4. CASE RemoveClose BY <1>4 DEF RemoveClose
<1>5. CASE RemoveDelete
  <2>1. /\ uPc = "delete" /\ uPc' = "idle" /\ up' = up
        /\ devices' = [devices EXCEPT ![uName] = None]
        /\ UNCHANGED <<sPc, sName, sDevice>>
    BY <1>5 DEF RemoveDelete
  <2>2. Registered' = Registered \ {devices[uName]} BY <2>1
  <2>3. QED BY <2>1, <2>2
<1>6. CASE FleetBegin BY <1>6 DEF FleetBegin
<1>7. CASE FleetVisit
  <2>1. PICK d \in Registered : up' \in {up, up \cup {d}} BY <1>7 DEF FleetVisit
  <2>2. /\ uPc = "fleet" /\ uPc' = "fleet"
        /\ UNCHANGED <<devices, sPc, sName, sDevice>>
    BY <1>7 DEF FleetVisit
  <2>3. QED BY <2>1, <2>2
<1>8. CASE FleetRaises BY <1>8 DEF FleetRaises
<1>9. CASE FleetEnd BY <1>9 DEF FleetEnd
<1>10. CASE CloseAllBegin BY <1>10 DEF CloseAllBegin
<1>11. CASE CloseAllVisit BY <1>11 DEF CloseAllVisit
<1>12. CASE CloseAllEnd BY <1>12 DEF CloseAllEnd
<1>13. CASE Accept BY <1>13 DEF Accept
<1>14. CASE StopBegin BY <1>14 DEF StopBegin
<1>15. CASE StopSet BY <1>15 DEF StopSet
<1>16. CASE StopJoin BY <1>16 DEF StopJoin
<1>17. CASE StopClear BY <1>17 DEF StopClear
<1>18. QED BY <1>1, <1>2, <1>3, <1>4, <1>5, <1>6, <1>7, <1>8, <1>9, <1>10, <1>11, <1>12,
              <1>13, <1>14, <1>15, <1>16, <1>17 DEF User

LEMMA ServerKeeps ==
  ASSUME TypeOK, TypeOK', FleetInv, Disciplined, NEW s \in Servers, Server(s)
  PROVE  FleetInv' /\ (together => together')
<1>0. together => together'
  BY DEF Server, ServerSteps, ServerWaits, ServerBind, ServerTest, ServerClose, ServerIdle,
         ServerAccept, ServerRefuse, ServerCheck, ServerInsert, ServerCallback
<1> SUFFICES ASSUME Kept, ~together' PROVE Kept' BY <1>0 DEF FleetInv
<1> USE NoneDistinct
    DEF TypeOK, Kept, OneListener, Listening, OneName, CallerProgress,
        ServerProgress, Disciplined, Registered, Used, Fresh, Goto
<1>1. CASE ServerBind(s)
  <2>1. /\ sPc[s] = "bind" /\ UNCHANGED <<dictVars, uPc, uName, uDevice, sName, sDevice>>
        /\ sPc' \in {[sPc EXCEPT ![s] = "test"], [sPc EXCEPT ![s] = "dead"]}
    BY <1>1 DEF ServerBind
  <2>2. sPc'[s] = "test" => Listening = {}
    <3> DEFINE binds == /\ stopEvent # "none" /\ port # None
                        /\ \A t \in Listening : sPort[t] # port
    <3>1. sPc'[s] = IF binds THEN "test" ELSE "dead" BY <1>1 DEF ServerBind
    <3>2. together' = (together \/ (binds /\ Listening # {}))
      <4> HIDE DEF Listening
      <4>1. QED BY <1>1 DEF ServerBind
    <3> HIDE DEF binds, Listening
    <3>3. QED BY <3>1, <3>2
  <2>3. OneListener' BY <2>1, <2>2
  <2>4. \A t \in Servers : ServerProgress(t)' BY <2>1
  <2>5. CallerProgress' BY <2>1
  <2>6. QED BY <2>1, <2>3, <2>4, <2>5
<1>2. CASE ServerTest(s) BY <1>2 DEF ServerTest
<1>3. CASE ServerClose(s) BY <1>3 DEF ServerClose
<1>4. CASE ServerIdle(s) \/ ServerAccept(s) \/ ServerRefuse(s)
  BY <1>4 DEF ServerIdle, ServerAccept, ServerRefuse
<1>5. CASE ServerCheck(s) BY <1>5 DEF ServerCheck
<1>6. CASE ServerInsert(s)
  <2>1. /\ sPc[s] = "insert" /\ sPc' = [sPc EXCEPT ![s] = "call"] /\ up' = up
        /\ devices' = [devices EXCEPT ![sName[s]] = sDevice[s]]
        /\ UNCHANGED <<uPc, uName, uDevice, sName, sDevice>>
    BY <1>6 DEF ServerInsert
  <2>2. /\ sName[s] \in DeviceNames /\ devices[sName[s]] = None
        /\ sDevice[s] \in Devices \ (Registered \cup up)
    BY <2>1
  <2>3. Registered' = Registered \cup {sDevice[s]} BY <2>1, <2>2
  <2>4. OneName' BY <2>1, <2>2
  <2>5. CallerProgress' BY <2>1, <2>2, <2>3
  <2>6. \A t \in Servers : ServerProgress(t)' BY <2>1, <2>2, <2>3
  <2>7. OneListener' BY <2>1
  <2>8. QED BY <2>1, <2>3, <2>4, <2>5, <2>6, <2>7
<1>7. CASE ServerCallback(s)
  <2>1. /\ sPc[s] = "call" /\ sPc' = [sPc EXCEPT ![s] = "test"]
        /\ up' \in {up, up \cup {sDevice[s]}}
        /\ sName' = [sName EXCEPT ![s] = None] /\ sDevice' = [sDevice EXCEPT ![s] = None]
        /\ UNCHANGED <<devices, uPc, uName, uDevice>>
    BY <1>7 DEF ServerCallback
  <2>2. sDevice[s] \in Registered BY <2>1
  <2>3. \A t \in Servers : t # s => sPc[t] \notin {"insert", "call"} BY <2>1
  <2>4. CallerProgress' BY <2>1, <2>2
  <2>5. \A t \in Servers : ServerProgress(t)' BY <2>1, <2>3
  <2>6. OneListener' BY <2>1
  <2>7. QED BY <2>1, <2>2, <2>4, <2>5, <2>6
<1>8. QED BY <1>1, <1>2, <1>3, <1>4, <1>5, <1>6, <1>7 DEF Server, ServerSteps, ServerWaits

\* Every device that is up is registered, however the caller's calls and the
\* registrations interleave.
THEOREM NothingLost == ASSUME Disciplined PROVE Spec => []NoLostDevice
<1>1. Init => FleetInv
  BY NoneDistinct
  DEF Init, FleetInv, Kept, OneListener, Listening, OneName, CallerProgress,
      ServerProgress, Registered
<1>2. TypeOK /\ TypeOK' /\ FleetInv /\ [Next]_vars => FleetInv'
  <2> SUFFICES ASSUME TypeOK, TypeOK', FleetInv, [Next]_vars PROVE FleetInv' OBVIOUS
  <2>1. CASE User BY <2>1, UserKeeps
  <2>2. CASE \E s \in Servers : Server(s) BY <2>2, ServerKeeps
  <2>3. CASE UNCHANGED vars
    BY <2>3 DEF vars, FleetInv, Kept, OneListener, Listening, OneName,
                CallerProgress, ServerProgress, Registered
  <2>4. QED BY <2>1, <2>2, <2>3 DEF Next
<1>3. FleetInv => NoLostDevice BY DEF FleetInv, Kept, NoLostDevice
<1>4. QED BY <1>1, <1>2, <1>3, Typing, PTL DEF Spec

-----------------------------------------------------------------------------
(* Calls on the fleet, and the exit.                                       *)

\* FleetInv and the devices a fleet call has begun with: they stay registered.
ReachInv ==
  FleetInv /\ (uPc = "fleet" /\ ~together => begun \subseteq Registered)

LEMMA StepReach ==
  ASSUME TypeOK, TypeOK', ReachInv, Disciplined, [Next]_vars
  PROVE  ReachInv'
<1> USE DEF ReachInv, TypeOK, Registered
<1>1. FleetInv'
  <2>1. CASE User BY <2>1, UserKeeps
  <2>2. CASE \E s \in Servers : Server(s) BY <2>2, ServerKeeps
  <2>3. CASE UNCHANGED vars
    BY <2>3 DEF vars, FleetInv, Kept, OneListener, Listening, OneName,
                CallerProgress, ServerProgress
  <2>4. QED BY <2>1, <2>2, <2>3 DEF Next
<1>2. CASE uPc' # "fleet" \/ together' BY <1>1, <1>2
<1>3. CASE uPc' = "fleet" /\ uPc = "fleet" /\ ~together'
  <2> ~together
    <3>1. CASE User BY <3>1, <1>3, UserKeeps
    <3>2. CASE \E s \in Servers : Server(s) BY <3>2, <1>3, ServerKeeps
    <3>3. CASE UNCHANGED vars BY <3>3, <1>3 DEF vars
    <3>4. QED BY <3>1, <3>2, <3>3 DEF Next
  <2>1. begun' = begun /\ Registered \subseteq Registered'
    <3>1. CASE FleetVisit BY <3>1 DEF FleetVisit
    <3>2. CASE User /\ ~FleetVisit
      BY <1>3, <3>2
      DEF User, AddCheck, AddInsert, Start, Close, RemoveClose, RemoveDelete, FleetBegin,
          FleetRaises, FleetEnd, CloseAllBegin, CloseAllVisit, CloseAllEnd, Accept,
          StopBegin, StopSet, StopJoin, StopClear, Return
    <3>3. CASE \E s \in Servers : Server(s)
      <4>1. PICK s \in Servers : Server(s) BY <3>3
      <4>2. CASE ServerInsert(s)
        <5>1. sPc[s] = "insert" /\ devices' = [devices EXCEPT ![sName[s]] = sDevice[s]]
          BY <4>2 DEF ServerInsert, Goto
        <5>2. sName[s] \in Names /\ devices[sName[s]] = None
          BY <5>1 DEF FleetInv, Kept, ServerProgress
        <5>3. begun' = begun BY <4>2 DEF ServerInsert
        <5>4. QED BY <5>1, <5>2, <5>3
      <4>3. CASE ~ServerInsert(s)
        BY <4>1, <4>3
        DEF Server, ServerSteps, ServerWaits, ServerBind, ServerTest, ServerClose,
            ServerIdle, ServerAccept, ServerRefuse, ServerCheck, ServerCallback
      <4>4. QED BY <4>2, <4>3
    <3>4. CASE UNCHANGED vars BY <3>4 DEF vars
    <3>5. QED BY <3>1, <3>2, <3>3, <3>4 DEF Next
  <2>2. QED BY <1>1, <1>3, <2>1
<1>4. CASE uPc' = "fleet" /\ uPc # "fleet"
  <2>1. FleetBegin
    <3>1. User
      BY <1>4
      DEF Next, vars, Server, ServerSteps, ServerWaits, ServerBind, ServerTest,
          ServerClose, ServerIdle, ServerAccept, ServerRefuse, ServerCheck, ServerInsert,
          ServerCallback
    <3>2. QED
      BY <1>4, <3>1
      DEF User, AddCheck, AddInsert, Start, Close, RemoveClose, RemoveDelete, FleetVisit,
          FleetRaises, FleetEnd, CloseAllBegin, CloseAllVisit, CloseAllEnd, Accept,
          StopBegin, StopSet, StopJoin, StopClear, Return
  <2>2. QED BY <1>1, <2>1 DEF FleetBegin
<1>5. QED BY <1>2, <1>3, <1>4

LEMMA InitFleet == Init => ReachInv
BY NoneDistinct
DEF Init, ReachInv, FleetInv, Kept, OneListener, Listening, OneName,
    CallerProgress, ServerProgress, Registered

\* A fleet call that returns and did not raise has been to every device that was
\* registered when it began, whatever registers itself meanwhile.
THEOREM ReachesAll == ASSUME Disciplined PROVE Spec => FleetReachesAll
<1>1. TypeOK /\ ReachInv /\ [Next]_vars
        => [uPc = "fleet" /\ uPc' = "idle" /\ ~raised' /\ ~together
              => begun \subseteq visited]_vars
  <2> SUFFICES ASSUME TypeOK, ReachInv, Next, uPc = "fleet", uPc' = "idle", ~raised',
                      ~together
               PROVE  begun \subseteq visited
    OBVIOUS
  <2>1. User
    BY DEF Next, Server, ServerSteps, ServerWaits, ServerBind, ServerTest, ServerClose,
           ServerIdle, ServerAccept, ServerRefuse, ServerCheck, ServerInsert, ServerCallback
  <2>2. FleetEnd
    BY <2>1
    DEF User, AddCheck, AddInsert, Start, Close, RemoveClose, RemoveDelete, FleetBegin,
        FleetVisit, FleetRaises, CloseAllBegin, CloseAllVisit, CloseAllEnd, Accept,
        StopBegin, StopSet, StopJoin, StopClear
  <2>3. QED BY <2>2 DEF FleetEnd, ReachInv
<1>2. QED BY <1>1, InitFleet, StepReach, Typing, PTL DEF Spec, FleetReachesAll

AllEnded == \A s \in Servers : ~Alive(s)

\* How far an exit, or a stop, has come while nothing has gone wrong: only the thread
\* that is waited for may live, then none does, then only devices that are not
\* visited yet are up.
ExitInv ==
  /\ FleetInv
  /\ uPc \in {"set", "join"} /\ quiet => NoZombie
  /\ uPc = "clear" /\ quiet => AllEnded
  /\ uPc = "close" /\ op = "exit" /\ quiet =>
       AllEnded /\ (together \/ up \subseteq begun \ visited)
  /\ exited => uPc = "idle" /\ AllEnded /\ (together \/ up = {})

LEMMA UserExits ==
  ASSUME TypeOK, ExitInv, FleetInv', User
  PROVE  ExitInv'
<1> USE NoneDistinct DEF TypeOK, ExitInv, Return, Registered, NoZombie, AllEnded, Alive
<1>1. CASE AddCheck BY <1>1 DEF AddCheck
<1>2. CASE AddInsert BY <1>2 DEF AddInsert
<1>3. CASE \E d \in Devices : Start(d) \/ Close(d) BY <1>3 DEF Start, Close
<1>4. CASE RemoveClose BY <1>4 DEF RemoveClose
<1>5. CASE RemoveDelete BY <1>5 DEF RemoveDelete
<1>6. CASE FleetBegin BY <1>6 DEF FleetBegin
<1>7. CASE FleetVisit BY <1>7 DEF FleetVisit
<1>8. CASE FleetRaises BY <1>8 DEF FleetRaises
<1>9. CASE FleetEnd BY <1>9 DEF FleetEnd
<1>10. CASE CloseAllBegin BY <1>10 DEF CloseAllBegin
<1>11. CASE CloseAllVisit BY <1>11 DEF CloseAllVisit
<1>12. CASE CloseAllEnd BY <1>12 DEF CloseAllEnd
<1>13. CASE Accept BY <1>13 DEF Accept
<1>14. CASE StopBegin BY <1>14 DEF StopBegin
<1>15. CASE StopSet BY <1>15 DEF StopSet
<1>16. CASE StopJoin
  <2>1. /\ uPc = "join" /\ uPc' = "clear" /\ ~exited /\ exited' = exited
        /\ UNCHANGED sPc
        /\ quiet' => quiet /\ (thread = None \/ ~Alive(thread))
    BY <1>16 DEF StopJoin
  <2>2. quiet' => AllEnded BY <2>1
  <2>3. AllEnded' = AllEnded BY <2>1
  <2>4. QED BY <2>1, <2>2, <2>3
<1>17. CASE StopClear BY <1>17 DEF StopClear, FleetInv, Kept
<1>18. QED BY <1>1, <1>2, <1>3, <1>4, <1>5, <1>6, <1>7, <1>8, <1>9, <1>10, <1>11, <1>12,
              <1>13, <1>14, <1>15, <1>16, <1>17 DEF User

LEMMA ServerExits ==
  ASSUME TypeOK, ExitInv, FleetInv', NEW s \in Servers, Server(s)
  PROVE  ExitInv'
<1> USE DEF TypeOK, ExitInv, NoZombie, AllEnded, Alive, Goto
<1>1. CASE ServerBind(s) BY <1>1 DEF ServerBind
<1>2. CASE ServerTest(s) BY <1>2 DEF ServerTest
<1>3. CASE ServerClose(s) BY <1>3 DEF ServerClose
<1>4. CASE ServerIdle(s) \/ ServerAccept(s) \/ ServerRefuse(s)
  BY <1>4 DEF ServerIdle, ServerAccept, ServerRefuse
<1>5. CASE ServerCheck(s) BY <1>5 DEF ServerCheck
<1>6. CASE ServerInsert(s) BY <1>6 DEF ServerInsert
<1>7. CASE ServerCallback(s) BY <1>7 DEF ServerCallback
<1>8. QED BY <1>1, <1>2, <1>3, <1>4, <1>5, <1>6, <1>7 DEF Server, ServerSteps, ServerWaits

\* When the with statement is left, and no join timed out and no close() raised, no
\* device is up and no registration thread is left to bring one up.
THEOREM ExitIsClean == ASSUME Disciplined PROVE Spec => []ExitLeavesNothing
<1>1. Init => ExitInv BY InitFleet DEF Init, ReachInv, ExitInv
<1>2. TypeOK /\ TypeOK' /\ ExitInv /\ [Next]_vars => ExitInv'
  <2> SUFFICES ASSUME TypeOK, TypeOK', ExitInv, [Next]_vars PROVE ExitInv' OBVIOUS
  <2>1. CASE User BY <2>1, UserKeeps, UserExits DEF ExitInv
  <2>2. CASE \E s \in Servers : Server(s) BY <2>2, ServerKeeps, ServerExits DEF ExitInv
  <2>3. CASE UNCHANGED vars
    BY <2>3 DEF vars, ExitInv, NoZombie, AllEnded, Alive, FleetInv, Kept,
                OneListener, Listening, OneName, CallerProgress, ServerProgress, Registered
  <2>4. QED BY <2>1, <2>2, <2>3 DEF Next
<1>3. ExitInv => ExitLeavesNothing BY DEF ExitInv, ExitLeavesNothing, AllEnded
<1>4. QED BY <1>1, <1>2, <1>3, Typing, PTL DEF Spec
=============================================================================

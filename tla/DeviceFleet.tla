----------------------------- MODULE DeviceFleet -----------------------------
(***************************************************************************)
(* The DeviceManager (ipc/device_manager.py): the dict of devices, the     *)
(* operations of the caller on one device and on the whole fleet, and the  *)
(* thread in which devices register themselves.                            *)
(*                                                                         *)
(* The caller's thread and the registration threads share the dict and the *)
(* _registration_* attributes without a lock.  A device is up from its     *)
(* start() or connect() to its close().                                    *)
(***************************************************************************)
EXTENDS Integers, FiniteSets

CONSTANTS
  Sims,          \* SwarmProcess objects
  Physicals,     \* PhysicalNode objects
  OwnNames,      \* names the caller registers devices under
  DeviceNames,   \* names the devices register themselves under
  Servers,       \* registration threads; a dead one is created anew
  Ports,         \* the ports registrations are accepted on
  None,          \* Python's None
  RemoveEarly    \* may the caller remove() a device whose registration is under way?

Devices == Sims \cup Physicals
Names   == OwnNames \cup DeviceNames

ASSUME DevicesDistinct == IsFiniteSet(Devices) /\ Sims \cap Physicals = {}
ASSUME NamesFinite     == IsFiniteSet(Names)
ASSUME NoneDistinct    == None \notin Devices \cup Servers \cup Names \cup Ports
ASSUME SwitchBoolean   == RemoveEarly \in BOOLEAN

VARIABLES
  devices,     \* self._devices: the object under each name, or None
  up,          \* the devices that are started or connected
  thread,      \* self._registration_thread
  stopEvent,   \* self._registration_stop_event: None, or an event, set or not
  port,        \* self._registration_port
  callback,    \* is self._registration_callback set?
  uPc, op,     \* the next statement of the caller, and the call it is in
  uName, uDevice,          \* the name and the device the call works on
  begun, visited,          \* a fleet call: devices at its start, devices done
  sPc, sName, sDevice,     \* each registration thread: next statement, its request
  sPort,       \* the port on which each registration thread listens
  quiet,       \* history: no join that timed out left a thread, and since the
               \* start of this exit no close() raised
  together,    \* history: two registration threads have listened at once
  exited,      \* history: __exit__() was the last call, and quiet
  raised       \* history: the last fleet call raised

dictVars   == <<devices, up>>
regVars    == <<thread, stopEvent, port, callback>>
userVars   == <<uPc, op, uName, uDevice, begun, visited>>
serverVars == <<sPc, sName, sDevice, sPort>>
histVars   == <<quiet, together, exited, raised>>
vars == <<dictVars, regVars, userVars, serverVars, histVars>>

Registered == {devices[n] : n \in Names} \ {None}
Used       == {n \in Names : devices[n] # None}
Alive(s)   == sPc[s] # "dead"

FleetCalls == {"start_all", "connect_all", "step_all", "send_all"}
BringsUp   == {"start_all", "connect_all"}

TypeOK ==
  /\ devices \in [Names -> Devices \cup {None}]
  /\ up \subseteq Devices
  /\ thread \in Servers \cup {None}
  /\ stopEvent \in {"none", "unset", "set"}
  /\ port \in Ports \cup {None}
  /\ callback \in BOOLEAN
  /\ uPc \in {"idle", "insert", "delete", "fleet", "close", "set", "join", "clear"}
  /\ op \in FleetCalls \cup {"none", "add", "remove", "close_all", "stop", "exit"}
  /\ uName \in Names \cup {None}
  /\ uDevice \in Devices \cup {None}
  /\ begun \subseteq Devices /\ visited \subseteq Devices
  /\ sPc \in [Servers -> {"dead", "bind", "test", "serve", "read", "insert", "call",
                         "closing"}]
  /\ sName \in [Servers -> Names \cup {None}]
  /\ sDevice \in [Servers -> Devices \cup {None}]
  /\ sPort \in [Servers -> Ports \cup {None}]
  /\ \A s \in Servers : sPc[s] \in {"insert", "call"} => sDevice[s] \in Devices
  /\ quiet \in BOOLEAN /\ together \in BOOLEAN
  /\ exited \in BOOLEAN /\ raised \in BOOLEAN

Init ==
  /\ devices = [n \in Names |-> None]
  /\ up = {}
  /\ thread = None /\ stopEvent = "none" /\ port = None /\ callback = FALSE
  /\ uPc = "idle" /\ op = "none" /\ uName = None /\ uDevice = None
  /\ begun = {} /\ visited = {}
  /\ sPc = [s \in Servers |-> "dead"]
  /\ sName = [s \in Servers |-> None]
  /\ sDevice = [s \in Servers |-> None]
  /\ sPort = [s \in Servers |-> None]
  /\ quiet = TRUE /\ together = FALSE /\ exited = FALSE /\ raised = FALSE

\* Objects that nobody refers to; objects are recycled.
Fresh(kind) ==
  kind \ (Registered \cup up \cup {uDevice} \cup {sDevice[s] : s \in Servers})

Return ==
  /\ uPc' = "idle" /\ op' = "none" /\ uName' = None /\ uDevice' = None
  /\ begun' = {} /\ visited' = {}

-----------------------------------------------------------------------------
(* Calls on one device.                                                    *)

\* add_simulation(), add_physical(): the name is looked up first.
AddCheck ==
  /\ uPc = "idle"
  /\ \E n \in OwnNames, d \in Fresh(Sims) \cup Fresh(Physicals) :
       /\ devices[n] = None
       /\ uPc' = "insert" /\ op' = "add" /\ uName' = n /\ uDevice' = d
  /\ exited' = FALSE
  /\ UNCHANGED <<dictVars, regVars, begun, visited, serverVars, quiet, together, raised>>

AddInsert ==
  /\ uPc = "insert"
  /\ devices' = [devices EXCEPT ![uName] = uDevice]
  /\ Return
  /\ UNCHANGED <<up, regVars, serverVars, histVars>>

\* start(name), connect(name), which may raise and change nothing, and close(name).
Start(d) ==
  /\ uPc = "idle" /\ d \in Registered
  /\ up' = up \cup {d}
  /\ exited' = FALSE
  /\ UNCHANGED <<devices, regVars, userVars, serverVars, quiet, together, raised>>

Close(d) ==
  /\ uPc = "idle" /\ d \in Registered
  /\ up' = up \ {d}
  /\ exited' = FALSE
  /\ UNCHANGED <<devices, regVars, userVars, serverVars, quiet, together, raised>>

\* Mutant: remove() unregisters the device when close() raises, too.
RemoveCloseFinally ==
  /\ uPc = "idle"
  /\ \E n \in Used : \E closes \in BOOLEAN :
       /\ RemoveEarly \/ \A s \in Servers : sName[s] # n
       /\ up' = IF closes THEN up \ {devices[n]} ELSE up
       /\ uPc' = "delete" /\ op' = "remove" /\ uName' = n
  /\ exited' = FALSE
  /\ UNCHANGED <<devices, regVars, uDevice, begun, visited, serverVars, quiet, together, raised>>

\* remove(): close() first; when it raises the device stays.
RemoveClose ==
  /\ uPc = "idle"
  /\ \E n \in Used :
       /\ RemoveEarly \/ \A s \in Servers : sName[s] # n
       /\ up' = up \ {devices[n]}
       /\ uPc' = "delete" /\ op' = "remove" /\ uName' = n
  /\ exited' = FALSE
  /\ UNCHANGED <<devices, regVars, uDevice, begun, visited, serverVars, quiet, together, raised>>

RemoveDelete ==
  /\ uPc = "delete"
  /\ devices' = [devices EXCEPT ![uName] = None]
  /\ Return
  /\ UNCHANGED <<up, regVars, serverVars, histVars>>

-----------------------------------------------------------------------------
(* Calls on the fleet.  They iterate over the dict itself: when its size   *)
(* has changed, the next step of the iteration raises RuntimeError.        *)

FleetBegin ==
  /\ uPc = "idle"
  /\ uPc' = "fleet"
  /\ op' \in FleetCalls
  /\ begun' = Registered /\ visited' = {}
  /\ exited' = FALSE /\ raised' = FALSE
  /\ UNCHANGED <<dictVars, regVars, uName, uDevice, serverVars, quiet, together>>

SameSize == Cardinality(Used) = Cardinality(begun)

\* send_all stands for get_all_states() and total_nodes(), too.
Eligible(d) ==
  CASE op \in {"start_all", "step_all"} -> d \in Sims
    [] op = "connect_all"              -> d \in Physicals
    [] op = "send_all"                 -> TRUE

\* A device that is skipped, succeeds, or fails and is reported.
FleetVisit ==
  /\ uPc = "fleet" /\ SameSize
  /\ \E d \in Registered \ visited :
       /\ visited' = visited \cup {d}
       /\ up' \in IF op \in BringsUp /\ Eligible(d) THEN {up, up \cup {d}} ELSE {up}
  /\ UNCHANGED <<devices, regVars, uPc, op, uName, uDevice, begun, serverVars, histVars>>

\* The iteration or the output channel raises.
FleetRaises ==
  /\ uPc = "fleet"
  /\ ~SameSize \/ \E d \in Registered \ visited : op # "send_all" /\ Eligible(d)
  /\ raised' = TRUE
  /\ Return
  /\ UNCHANGED <<dictVars, regVars, serverVars, quiet, together, exited>>

\* Mutant: the call returns at the first device that fails.
FleetEndEarly ==
  /\ uPc = "fleet" /\ SameSize
  /\ visited # {} \/ Registered = {}
  /\ Return
  /\ UNCHANGED <<dictVars, regVars, serverVars, histVars>>

FleetEnd ==
  /\ uPc = "fleet" /\ SameSize
  /\ Registered \subseteq visited
  /\ Return
  /\ UNCHANGED <<dictVars, regVars, serverVars, histVars>>

\* close_all() goes through a copy, begun, and is the end of __exit__().
CloseAllBegin ==
  /\ uPc = "idle"
  /\ uPc' = "close" /\ op' = "close_all"
  /\ begun' = Registered /\ visited' = {}
  /\ exited' = FALSE
  /\ UNCHANGED <<dictVars, regVars, uName, uDevice, serverVars, quiet, together, raised>>

CloseAllVisit ==
  /\ uPc = "close"
  /\ \E d \in begun \ visited : \E closes \in BOOLEAN :
       /\ visited' = visited \cup {d}
       /\ up' = IF closes THEN up \ {d} ELSE up
       /\ quiet' = (quiet /\ closes)
  /\ UNCHANGED <<devices, regVars, uPc, op, uName, uDevice, begun, serverVars, together, exited, raised>>

CloseAllEnd ==
  /\ uPc = "close" /\ begun \subseteq visited
  /\ exited' = (op = "exit" /\ quiet)
  /\ Return
  /\ UNCHANGED <<dictVars, regVars, serverVars, quiet, together, raised>>

-----------------------------------------------------------------------------
(* Accepting registrations, and stopping.                                  *)

\* A no-op while the registered thread lives.
Accept ==
  /\ uPc = "idle"
  /\ ~(thread # None /\ Alive(thread))
  /\ \E s \in Servers :
       /\ ~Alive(s)
       /\ thread' = s /\ stopEvent' = "unset"
       /\ sPc' = [sPc EXCEPT ![s] = "bind"]
  /\ port' \in Ports
  /\ callback' \in BOOLEAN
  /\ exited' = FALSE
  /\ UNCHANGED <<dictVars, userVars, sName, sDevice, sPort, quiet, together, raised>>

NoZombie == \A s \in Servers : Alive(s) => s = thread

StopBegin ==
  /\ uPc = "idle"
  /\ op' \in {"stop", "exit"}
  /\ uPc' = "set" /\ quiet' = NoZombie /\ exited' = FALSE
  /\ UNCHANGED <<dictVars, regVars, uName, uDevice, begun, visited, serverVars, together, raised>>

StopSet ==
  /\ uPc = "set" /\ uPc' = "join"
  /\ stopEvent' = IF stopEvent = "none" THEN "none" ELSE "set"
  /\ UNCHANGED <<dictVars, thread, port, callback, op, uName, uDevice, begun, visited,
                 serverVars, histVars>>

\* Mutant: the thread is told to stop and not waited for.
StopJoinSkipped ==
  /\ uPc = "join" /\ uPc' = "clear"
  /\ UNCHANGED <<dictVars, regVars, op, uName, uDevice, begun, visited, serverVars, histVars>>

\* join(timeout=2.0): the thread may be in a callback for longer than that.
StopJoin ==
  /\ uPc = "join" /\ uPc' = "clear"
  /\ quiet' = (quiet /\ (thread = None \/ ~Alive(thread)))
  /\ UNCHANGED <<dictVars, regVars, op, uName, uDevice, begun, visited, serverVars,
                 together, exited, raised>>

StopClear ==
  /\ uPc = "clear"
  /\ thread' = None /\ stopEvent' = "none" /\ port' = None /\ callback' = FALSE
  /\ IF op = "exit"
     THEN uPc' = "close" /\ begun' = Registered /\ visited' = {}
          /\ UNCHANGED <<op, uName, uDevice>>
     ELSE Return
  /\ UNCHANGED <<dictVars, serverVars, histVars>>

User ==
  \/ AddCheck \/ AddInsert \/ (\E d \in Devices : Start(d) \/ Close(d))
  \/ RemoveClose \/ RemoveDelete
  \/ FleetBegin \/ FleetVisit \/ FleetRaises \/ FleetEnd
  \/ CloseAllBegin \/ CloseAllVisit \/ CloseAllEnd
  \/ Accept \/ StopBegin \/ StopSet \/ StopJoin \/ StopClear

-----------------------------------------------------------------------------
(* Registration thread s: _registration_server_loop() and do_POST().       *)

Goto(s, from, to) == sPc[s] = from /\ sPc' = [sPc EXCEPT ![s] = to]

Listening == {s \in Servers : sPc[s] \notin {"dead", "bind"}}

\* The attributes are read now: None, or a port on which an older thread still
\* listens, ends the thread.
ServerBind(s) ==
  LET binds == stopEvent # "none" /\ port # None /\ \A t \in Listening : sPort[t] # port
  IN  /\ Goto(s, "bind", IF binds THEN "test" ELSE "dead")
      /\ sPort' = [sPort EXCEPT ![s] = IF binds THEN port ELSE None]
      /\ together' = (together \/ (binds /\ Listening # {}))
      /\ UNCHANGED <<dictVars, regVars, userVars, sName, sDevice, quiet, exited, raised>>

\* Mutant: the loop does not look at the stop event.
ServerTestForever(s) ==
  /\ Goto(s, "test", "serve")
  /\ UNCHANGED <<dictVars, regVars, userVars, sName, sDevice, sPort, histVars>>

\* The event is read from the attribute, which may be that of a later thread; None
\* raises AttributeError.
ServerTest(s) ==
  /\ Goto(s, "test", CASE stopEvent = "none"  -> "dead"
                       [] stopEvent = "set"   -> "closing"
                       [] stopEvent = "unset" -> "serve")
  /\ sPort' = [sPort EXCEPT ![s] = IF stopEvent = "none" THEN None ELSE @]
  /\ UNCHANGED <<dictVars, regVars, userVars, sName, sDevice, histVars>>

ServerClose(s) ==
  /\ Goto(s, "closing", "dead")
  /\ sPort' = [sPort EXCEPT ![s] = None]
  /\ UNCHANGED <<dictVars, regVars, userVars, sName, sDevice, histVars>>

\* handle_request(): nobody connects within 0.5 s, or somebody does.
ServerIdle(s) ==
  /\ Goto(s, "serve", "test")
  /\ UNCHANGED <<dictVars, regVars, userVars, sName, sDevice, sPort, histVars>>

ServerAccept(s) ==
  /\ Goto(s, "serve", "read")
  /\ UNCHANGED <<dictVars, regVars, userVars, sName, sDevice, sPort, histVars>>

\* A request that is answered 404 or 400 before it changes anything, a name already
\* registered included, or whose connection fails.
ServerRefuse(s) ==
  /\ Goto(s, "read", "test")
  /\ UNCHANGED <<dictVars, regVars, userVars, sName, sDevice, sPort, histVars>>

ServerCheck(s) ==
  /\ Goto(s, "read", "insert")
  /\ \E n \in DeviceNames, d \in Fresh(Physicals) :
       /\ devices[n] = None
       /\ sName' = [sName EXCEPT ![s] = n]
       /\ sDevice' = [sDevice EXCEPT ![s] = d]
  /\ UNCHANGED <<dictVars, regVars, userVars, sPort, histVars>>

\* Mutant: the new node is moved into the dict, and the callback gets nothing.
ServerInsertMoves(s) ==
  /\ Goto(s, "insert", "call")
  /\ devices' = [devices EXCEPT ![sName[s]] = sDevice[s]]
  /\ sDevice' = [sDevice EXCEPT ![s] = None]
  /\ UNCHANGED <<up, regVars, userVars, sName, sPort, histVars>>

ServerInsert(s) ==
  /\ Goto(s, "insert", "call")
  /\ devices' = [devices EXCEPT ![sName[s]] = sDevice[s]]
  /\ UNCHANGED <<up, regVars, userVars, sName, sDevice, sPort, histVars>>

\* The callback may connect the node it is given.  It may raise, or be None when
\* it is called though it was not when it was tested: both are answered 400.
ServerCallback(s) ==
  /\ Goto(s, "call", "test")
  /\ up' \in IF callback THEN {up, up \cup {sDevice[s]}} ELSE {up}
  /\ sName' = [sName EXCEPT ![s] = None]
  /\ sDevice' = [sDevice EXCEPT ![s] = None]
  /\ UNCHANGED <<devices, regVars, userVars, sPort, histVars>>

\* What a thread does by itself, and what waits for a device or for the callback.
ServerSteps(s) ==
  \/ ServerBind(s) \/ ServerTest(s) \/ ServerClose(s) \/ ServerIdle(s) \/ ServerInsert(s)

ServerWaits(s) ==
  \/ ServerAccept(s) \/ ServerRefuse(s) \/ ServerCheck(s) \/ ServerCallback(s)

Server(s) == ServerSteps(s) \/ ServerWaits(s)

Next == User \/ \E s \in Servers : Server(s)

Spec == Init /\ [][Next]_vars

\* A registration thread polls the stop event: server.timeout bounds the wait for a
\* connection.  Nothing bounds the reading of a request or the callback.
FairSpec == Spec /\ \A s \in Servers : WF_vars(ServerSteps(s))

-----------------------------------------------------------------------------
(* Properties.                                                             *)

\* Every device that is up is registered, so that remove() or close_all() reaches
\* it: no registration replaces another, and remove() forgets only what it closed.
\* Not so once a thread that was given up has listened beside its successor: both
\* look a name up before either inserts it.
NoLostDevice == ~together => up \subseteq Registered

\* A fleet call that returns, and did not raise, has been to every device that was
\* registered when it began, however many of them failed.
FleetReachesAll ==
  [][uPc = "fleet" /\ uPc' = "idle" /\ ~raised' /\ ~together => begun \subseteq visited]_vars

\* When __exit__() returns, and no join timed out and no close() raised, no device
\* is up and no registration can bring one up.
ExitLeavesNothing ==
  exited /\ ~together => up = {} /\ \A s \in Servers : ~Alive(s)

\* Once registrations are stopped for good every registration thread ends, the ones
\* whose join timed out included, unless it is left waiting for a device to send its
\* request or for the callback to return.
ServersEnd ==
  \A s \in Servers :
    <>[](thread = None) => <>[](~Alive(s) \/ sPc[s] \in {"read", "call"})

(***************************************************************************)
(* Why NoLostDevice holds when the two sets of names are disjoint and the  *)
(* caller does not remove a device whose registration is under way: what   *)
(* was looked up is still so when the device is inserted or deleted.       *)
(***************************************************************************)
OneListener == \A s, t \in Servers : s \in Listening /\ t \in Listening => s = t

\* No object is under two names.
OneName ==
  \A m, n \in Names : devices[m] # None /\ devices[m] = devices[n] => m = n

CallerProgress ==
  /\ uPc = "insert" => /\ uName \in OwnNames /\ devices[uName] = None
                       /\ uDevice \in Devices \ (Registered \cup up)
                       /\ \A s \in Servers : uDevice # sDevice[s]
  /\ uPc = "delete" => /\ uName \in Names /\ devices[uName] # None
                       /\ devices[uName] \notin up
                       /\ \A s \in Servers : sName[s] # uName

ServerProgress(s) ==
  /\ sPc[s] = "insert" => /\ sName[s] \in DeviceNames /\ devices[sName[s]] = None
                          /\ sDevice[s] \in Devices \ (Registered \cup up)
  /\ sPc[s] = "call" => /\ sName[s] \in DeviceNames
                        /\ sDevice[s] \in Devices /\ devices[sName[s]] = sDevice[s]
  /\ sPc[s] \notin {"insert", "call"} => sName[s] = None /\ sDevice[s] = None

Kept ==
  /\ up \subseteq Registered /\ OneListener /\ OneName /\ CallerProgress
  /\ \A s \in Servers : ServerProgress(s)

FleetInv == together \/ Kept
=============================================================================

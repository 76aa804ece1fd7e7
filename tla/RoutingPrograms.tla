-------------------------- MODULE RoutingPrograms ---------------------------
(***************************************************************************)
(* The compute() methods of the examples that route messages:              *)
(* message_dispatch, worker_role_assignment and                            *)
(* communication_roles_assignment.  Roles are an input: the setup computes *)
(* them, and a device that was given none is UNASSIGNED.                   *)
(***************************************************************************)
EXTENDS AggregateRound

CONSTANTS
  MsgStart, MsgEnd, MsgInterval,   \* message_dispatch's injection window, scaled down
  SendInterval,                    \* MSG_TICKS_INTERVAL, scaled down
  MaxTick                          \* round counters stop here, at no time to send

ASSUME CountersStopIdle ==
  /\ {MsgStart, MsgEnd, MaxTick} \subseteq Nat /\ {MsgInterval, SendInterval} \subseteq Nat \ {0}
  /\ MsgEnd < MaxTick /\ SendInterval < MaxTick /\ MaxTick % SendInterval # 0

NoMessage == <<-1, 0>>
Tick(n) == IF state[n].tick < MaxTick THEN state[n].tick + 1 ELSE MaxTick

\* sp_collection of the devices' ids: who is below a device in the tree.
Below(n) == {n} \cup UNION {state[m].below : m \in Children(n, Field("parent"))}

-----------------------------------------------------------------------------
(* message_dispatch.py: the set collected is that of the placeholder 0, and *)
(* every message is for 0, so that every device takes it as its own.        *)

DispatchInitial ==
  [dist |-> Far, parent |-> -1, below |-> {}, tick |-> 0, procs |-> {}, received |-> {}]

MessageDispatch(n) ==
  LET dist  == Gradient(n = 0, Field("dist"), n)
      below == {0} \cup UNION {state[m].below : m \in Children(n, Field("parent"))}
      tick  == Tick(n)
      new   == IF /\ MsgStart <= tick /\ tick <= MsgEnd /\ tick % MsgInterval = 0
                  /\ n # 0
               THEN {<<n, 0, tick>>} ELSE {}
      asked == Asked(n, new, Field("procs"))
      ended == {m \in asked : m[2] = 0}
      inner == {m \in asked \ ended : {m[1], m[2]} \cap below # {}}
  IN  [dist |-> dist, parent |-> Parent(n, dist, Field("dist")), below |-> below,
       tick |-> tick, procs |-> inner, received |-> state[n].received \cup ended \cup inner]

-----------------------------------------------------------------------------
(* worker_role_assignment.py: the receiver's id is broadcast along         *)
(* is_receiver, which is 1 at a receiver and 0 elsewhere.                  *)

EndpointRoles == {"LIDAR", "INFRARED_SENSOR", "TORCHLIGHT_MICROPHONE",
                  "RUBBLES_REMOVER", "FLYING_OVERSEER"}
WorkerRoles   == EndpointRoles \cup {"UNASSIGNED", "RECEIVER", "REPEATER"}

WorkerInitial ==
  [dist |-> Far, parent |-> -1, below |-> {}, receiver |-> -1, procs |-> {}, log |-> {}]

WorkerRole(n) ==
  LET isReceiver == input[n] = "RECEIVER"
      rank(m)    == IF input[m] = "RECEIVER" THEN 1 ELSE 0
      dist     == Gradient(isReceiver, Field("dist"), n)
      below    == Below(n)
      receiver == Broadcast(n, rank(n), n, [m \in Nodes |-> rank(m)], Field("receiver"))
      new      == IF input[n] \in EndpointRoles THEN {<<n, receiver>>} ELSE {}
      asked    == Asked(n, new, Field("procs"))
      active   == IF isReceiver THEN asked ELSE {m \in asked : {m[1], m[2]} \cap below # {}}
  IN  [dist |-> dist, parent |-> Parent(n, dist, Field("dist")), below |-> below,
       receiver |-> receiver, procs |-> IF isReceiver THEN {} ELSE active,
       log |-> state[n].log \cup active]

\* The WorkerState that compute() returns, by role.
WorkerShown(n) ==
  LET s == state[n] IN
  [dist_to_receiver |-> IF input[n] = "RECEIVER" THEN 0 ELSE s.dist,
   routing_set_size |-> CASE input[n] = "UNASSIGNED" -> 0
                          [] input[n] \in {"LIDAR", "REPEATER"} -> CountHood(n)
                          [] OTHER -> Cardinality(s.below),
   received_count   |-> IF input[n] = "RECEIVER" THEN Cardinality(s.log) ELSE 0]

-----------------------------------------------------------------------------
(* communication_roles_assignment.py: a message is its sender and its tick. *)

RoleInitial ==
  [to_receiver |-> Far, from_sender |-> Far, tick |-> 0, payload |-> NoMessage,
   incoming |-> NoMessage, log |-> {}]

CommunicationRole(n) ==
  LET isSender   == input[n] = "SENDER"
      isReceiver == input[n] = "RECEIVER"
      from    == Gradient(isSender, Field("from_sender"), n)
      tick    == Tick(n)
      payload == IF isSender /\ tick % SendInterval = 0 THEN <<n, tick>> ELSE state[n].payload
      incoming == Broadcast(n, from, payload, Field("from_sender"), Field("incoming"))
  IN  [to_receiver |-> Gradient(isReceiver, Field("to_receiver"), n),
       from_sender |-> from,
       tick        |-> tick,
       payload     |-> CASE isSender -> payload
                         [] input[n] = "UNASSIGNED" -> NoMessage
                         [] OTHER -> incoming,
       incoming    |-> incoming,
       log         |-> state[n].log \cup
                         (IF isReceiver /\ incoming # NoMessage THEN {incoming} ELSE {})]

-----------------------------------------------------------------------------
(* Where the programs should arrive, and what devices may know. *)

\* Every connected endpoint has reported to a receiver, and active roles show the
\* distance to the nearest one.
WorkersSettled ==
  LET receivers == {r \in Nodes : input[r] = "RECEIVER"} IN
  /\ \A r \in receivers, e \in Nodes :
       input[e] \in EndpointRoles /\ e \in Component(r)
         => \E q \in receivers : \E m \in state[q].log : m[1] = e
  /\ \A n \in Nodes :
       WorkerShown(n).dist_to_receiver = Min({Far} \cup {HopsFrom(r)[n] : r \in receivers})

\* Every receiver has the last message of a sender it is connected with.
RolesSettled ==
  \A r, s \in Nodes :
    input[r] = "RECEIVER" /\ input[s] = "SENDER" /\ s \in Component(r)
      => \E q \in Component(r) : input[q] = "SENDER" /\ state[q].payload \in state[r].log

DispatchTrue ==
  \A n \in Nodes : \A m \in state[n].received :
    /\ m[1] # 0 /\ m[2] = 0
    /\ m[3] \in MsgStart .. MsgEnd /\ m[3] % MsgInterval = 0 /\ m[3] <= state[m[1]].tick

WorkersTrue ==
  \A n \in Nodes : \A m \in state[n].log : input[m[1]] \in EndpointRoles

\* Every message is for 0, which every device takes itself for: each ends where it
\* starts, and a device receives its own and no other.
Injected(n) == {<<n, 0, t>> : t \in {i \in 1 .. MsgEnd : MsgStart <= i /\ i % MsgInterval = 0}}
DispatchSettled == \A n \in Nodes : state[n].received = IF n = 0 THEN {} ELSE Injected(n)

RolesTrue ==
  \A n \in Nodes : \A m \in state[n].log :
    input[m[1]] = "SENDER" /\ m[2] % SendInterval = 0 /\ m[2] <= state[m[1]].tick

=============================================================================

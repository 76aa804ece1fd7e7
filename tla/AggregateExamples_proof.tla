----------------------- MODULE AggregateExamples_proof -----------------------
(***************************************************************************)
(* Theorems about the example programs, for any number of devices, any     *)
(* links and moves, and all values of the other constants: what a device   *)
(* holds that another one produced is what that device did produce, the    *)
(* set-ups put their devices where they may be, and a program that has     *)
(* come to rest has found what it is for.                                  *)
(***************************************************************************)
EXTENDS AggregateExamples, FiniteSetTheorems, SequenceTheorems, TLAPS

-----------------------------------------------------------------------------
(* Finite sets.  The induction theorems of the library are about an         *)
(* operator; the first lemma is one about a set, from the well-foundedness  *)
(* of strict inclusion.                                                     *)

LEMMA SubsetInduction ==
  ASSUME NEW S, IsFiniteSet(S), NEW Good,
         \A T \in SUBSET S : (\A U \in SUBSET T : U # T => U \in Good) => T \in Good
  PROVE  S \in Good
<1> SUFFICES ASSUME S \notin Good PROVE FALSE OBVIOUS
<1> DEFINE Bad == {T \in SUBSET S : T \notin Good}
<1>1. IsWellFoundedOn(StrictSubsetOrdering(S), SUBSET S)
  <2>1. FiniteSubsetsOf(S) = SUBSET S BY FS_FiniteSubsetsOfFinite
  <2>2. IsWellFoundedOn(StrictSubsetOrdering(S), FiniteSubsetsOf(S))
    BY FS_StrictSubsetOrderingWellFounded
  <2>3. QED BY <2>1, <2>2
<1>2. Bad \subseteq SUBSET S /\ Bad # {}
  <2>1. S \in Bad OBVIOUS
  <2>2. QED BY <2>1
<1>3. PICK T \in Bad : \A U \in Bad : <<U, T>> \notin StrictSubsetOrdering(S)
  <2> HIDE DEF Bad
  <2> QED BY <1>1, <1>2, WFMin
<1>4. ASSUME NEW U \in SUBSET T, U # T PROVE U \in Good
  <2>1. <<U, T>> \in StrictSubsetOrdering(S) BY <1>4 DEF StrictSubsetOrdering
  <2>2. QED BY <1>3, <2>1
<1>5. QED BY <1>3, <1>4

LEMMA LeastExists ==
  ASSUME NEW S, IsFiniteSet(S), S \subseteq Int, S # {}
  PROVE  \E x \in S : \A y \in S : x <= y
<1> DEFINE Good == {T \in SUBSET S : T = {} \/ \E x \in T : \A y \in T : x <= y}
<1>1. ASSUME NEW T \in SUBSET S, \A U \in SUBSET T : U # T => U \in Good
      PROVE  T \in Good
  <2>1. CASE T = {} BY <2>1
  <2>2. CASE T # {}
    <3>1. PICK t \in T : TRUE BY <2>2
    <3>2. T \ {t} \in Good BY <1>1, <3>1
    <3>3. QED BY <3>1, <3>2
  <2>3. QED BY <2>1, <2>2
<1>2. S \in Good
  <2> HIDE DEF Good
  <2> QED BY <1>1, SubsetInduction
<1>3. QED BY <1>2

LEMMA GreatestExists ==
  ASSUME NEW S, IsFiniteSet(S), S \subseteq Int, S # {}
  PROVE  \E x \in S : \A y \in S : x >= y
<1> DEFINE Good == {T \in SUBSET S : T = {} \/ \E x \in T : \A y \in T : x >= y}
<1>1. ASSUME NEW T \in SUBSET S, \A U \in SUBSET T : U # T => U \in Good
      PROVE  T \in Good
  <2>1. CASE T = {} BY <2>1
  <2>2. CASE T # {}
    <3>1. PICK t \in T : TRUE BY <2>2
    <3>2. T \ {t} \in Good BY <1>1, <3>1
    <3>3. QED BY <3>1, <3>2
  <2>3. QED BY <2>1, <2>2
<1>2. S \in Good
  <2> HIDE DEF Good
  <2> QED BY <1>1, SubsetInduction
<1>3. QED BY <1>2

LEMMA MinIs ==
  ASSUME NEW S, IsFiniteSet(S), S \subseteq Int, S # {}
  PROVE  Min(S) \in S /\ \A y \in S : Min(S) <= y
BY LeastExists DEF Min

LEMMA MaxIs ==
  ASSUME NEW S, IsFiniteSet(S), S \subseteq Int, S # {}
  PROVE  Max(S) \in S /\ \A y \in S : Max(S) >= y
BY GreatestExists DEF Max

LEMMA PairExtremes ==
  ASSUME NEW a \in Int, NEW b \in Int
  PROVE  /\ Min({a, b}) = IF a <= b THEN a ELSE b
         /\ Max({a, b}) = IF a >= b THEN a ELSE b
<1> DEFINE S == {a, b}
<1>1. S \subseteq Int /\ S # {} OBVIOUS
<1>2. IsFiniteSet(S)
  <2>1. S = ({} \cup {a}) \cup {b} OBVIOUS
  <2>2. IsFiniteSet({} \cup {a}) BY FS_EmptySet, FS_AddElement
  <2> HIDE DEF S
  <2>3. QED BY <2>1, <2>2, FS_AddElement
<1>3. Min(S) \in S /\ (\A y \in S : Min(S) <= y) /\ Max(S) \in S /\ (\A y \in S : Max(S) >= y)
  <2> HIDE DEF S
  <2> QED BY <1>1, <1>2, MinIs, MaxIs
<1>4. QED BY <1>3

\* The values a function takes on a finite set.
LEMMA FiniteImage ==
  ASSUME NEW S, IsFiniteSet(S), NEW f
  PROVE  IsFiniteSet({f[x] : x \in S})
<1> DEFINE T == {f[x] : x \in S}
           g == [x \in S |-> f[x]]
<1>1. g \in Surjection(S, T) BY DEF Surjection
<1>2. QED BY <1>1, FS_Surjection

-----------------------------------------------------------------------------
(* The network. *)

\* Every device has a state, and the devices are finitely many numbers.
Shape ==
  /\ prog \in Programs \cup SetupParts
  /\ state = [n \in Devices(prog) |-> state[n]]

LEMMA DevicesFinite ==
  ASSUME NEW p
  PROVE  IsFiniteSet(Devices(p)) /\ Devices(p) \subseteq 0 .. N-1
<1> USE SizesAreNatural
<1>1. Devices(p) \in {0 .. N-1, 0 .. N-2, 0 .. N-3, {}} BY DEF Devices
<1>2. IsFiniteSet(0 .. N-1) BY FS_Interval
<1>3. Devices(p) \subseteq 0 .. N-1 BY <1>1
<1>4. QED BY <1>2, <1>3, FS_Subset

LEMMA NodesFinite ==
  ASSUME Shape
  PROVE  /\ Nodes = Devices(prog)
         /\ IsFiniteSet(Nodes) /\ Nodes \subseteq 0 .. N-1
<1>1. Nodes = Devices(prog) BY DEF Shape, Nodes
<1>2. QED BY <1>1, DevicesFinite

LEMMA HoodFinite ==
  ASSUME Shape, NEW n
  PROVE  Hood(n) \subseteq Nodes /\ IsFiniteSet(Hood(n))
<1>1. Hood(n) \subseteq Nodes BY DEF Hood
<1>2. QED BY <1>1, NodesFinite, FS_Subset

\* What a round does to the states.
LEMMA RoundIs ==
  ASSUME Shape, NEW n \in Nodes, NEW s, state' = [state EXCEPT ![n] = s], UNCHANGED prog
  PROVE  /\ Shape' /\ Nodes' = Nodes
         /\ \A m \in Nodes : state'[m] = IF m = n THEN s ELSE state[m]
<1>1. Nodes = Devices(prog) /\ n \in Devices(prog) BY DEF Shape, Nodes
<1>2. state' = [m \in Devices(prog) |-> IF m = n THEN s ELSE state[m]] BY <1>1 DEF Shape
<1>3. QED BY <1>1, <1>2 DEF Shape, Nodes

LEMMA NearestIs ==
  ASSUME NEW S, IsFiniteSet(S), S \subseteq Int, S # {},
         NEW dist, \A m \in S : dist[m] \in Int
  PROVE  Nearest(S, dist) \in S
<1> DEFINE D == {dist[m] : m \in S}
<1>1. IsFiniteSet(D) BY FiniteImage
<1>2. PICK d \in D : \A e \in D : d <= e
  <2>1. D \subseteq Int /\ D # {} OBVIOUS
  <2> HIDE DEF D
  <2>2. QED BY <1>1, <2>1, LeastExists
<1> DEFINE T == {m \in S : dist[m] = d}
<1>3. T \subseteq Int /\ T # {} /\ IsFiniteSet(T)
  <2>1. T \subseteq S /\ T # {} BY <1>2
  <2>2. QED BY <2>1, FS_Subset
<1>4. PICK k \in T : \A m \in T : k <= m
  <2> HIDE DEF T
  <2> QED BY <1>3, LeastExists
<1>5. \A m \in S : dist[k] < dist[m] \/ (dist[k] = dist[m] /\ k <= m) BY <1>2, <1>4
<1>6. QED BY <1>4, <1>5 DEF Nearest

\* What a broadcast returns is one's own value or one a neighbour exports.
LEMMA BroadcastIs ==
  ASSUME Shape, NEW n, NEW d \in Int, NEW own, NEW value,
         NEW dist, \A m \in Nodes : dist[m] \in Int
  PROVE  \/ Broadcast(n, d, own, dist, value) = own
         \/ \E m \in Nodes : Broadcast(n, d, own, dist, value) = value[m]
<1> DEFINE up == Nearer(n, d, dist)
<1>1. up \subseteq Hood(n) /\ up \subseteq Nodes /\ IsFiniteSet(up)
  <2>1. up \subseteq Hood(n) BY DEF Nearer
  <2>2. QED BY <2>1, HoodFinite, FS_Subset
<1>2. CASE up = {} BY <1>2 DEF Broadcast
<1>3. CASE up # {}
  <2>1. up \subseteq Int /\ \A m \in up : dist[m] \in Int BY <1>1, NodesFinite
  <2>2. Nearest(up, dist) \in Nodes BY <1>1, <1>3, <2>1, NearestIs
  <2>3. QED BY <1>3, <2>2 DEF Broadcast
<1>4. QED BY <1>2, <1>3

LEMMA GradientType ==
  ASSUME Shape, NEW n, NEW source \in BOOLEAN,
         NEW dist, \A m \in Nodes : dist[m] \in Nat
  PROVE  Gradient(source, dist, n) \in Nat
<1> DEFINE g == [m \in Hood(n) |-> dist[m] + 1]
           D == {Far} \cup {dist[m] + 1 : m \in Hood(n)}
<1>1. IsFiniteSet({g[m] : m \in Hood(n)}) BY HoodFinite, FiniteImage
<1>2. {g[m] : m \in Hood(n)} = {dist[m] + 1 : m \in Hood(n)} OBVIOUS
<1>3. IsFiniteSet(D)
  <2>1. D = {dist[m] + 1 : m \in Hood(n)} \cup {Far} OBVIOUS
  <2>2. QED BY <1>1, <1>2, <2>1, FS_AddElement
<1>4. D \subseteq Nat /\ D # {}
  BY SizesAreNatural, HoodFinite
<1>5. Min(D) \in Nat
  <2> HIDE DEF D
  <2>1. D \subseteq Int BY <1>4
  <2>2. QED BY <1>3, <1>4, <2>1, MinIs
<1>6. QED BY <1>5, SizesAreNatural DEF Gradient, Capped

-----------------------------------------------------------------------------
(* gossip_protocol: every state is the reading of some device, and at least *)
(* one's own. *)

GossipInv ==
  /\ input \in [Devices(prog) -> Readings]
  /\ \A n \in Nodes : state[n] \in Range(input) /\ state[n] >= input[n]

LEMMA GossipRound ==
  ASSUME Shape, prog = "gossip", GossipInv, NEW n \in Nodes, Round(n), UNCHANGED <<prog, input>>
  PROVE  GossipInv'
<1> DEFINE V == {state[n]} \cup Values(n)
<1>1. state' = [state EXCEPT ![n] = Max(V)] BY DEF Round, Compute, Gossip
<1>2. Range(input) \subseteq Int BY ReadingsAreNumbers DEF GossipInv, Range
<1>3. V \subseteq Range(input)
  BY HoodFinite DEF Values, GossipInv
<1>4. IsFiniteSet(V) /\ V # {}
  <2>1. IsFiniteSet(Values(n)) BY HoodFinite, FiniteImage DEF Values
  <2>2. V = Values(n) \cup {state[n]} OBVIOUS
  <2>3. QED BY <2>1, <2>2, FS_AddElement
<1>5. Max(V) \in V /\ \A y \in V : Max(V) >= y
  <2> HIDE DEF V
  <2>1. V \subseteq Int BY <1>2, <1>3
  <2>2. QED BY <1>4, <2>1, MaxIs
<1>6. Max(V) \in Range(input) /\ Max(V) >= state[n] BY <1>3, <1>5
<1>7. Max(V) >= input[n]
  <2>1. input[n] \in Int /\ state[n] \in Int /\ Max(V) \in Int
    BY <1>2, <1>6, NodesFinite DEF GossipInv, Range
  <2>2. QED BY <1>6, <2>1 DEF GossipInv
<1> HIDE DEF V
<1>8. /\ Nodes' = Nodes
      /\ \A m \in Nodes : state'[m] = IF m = n THEN Max(V) ELSE state[m]
  BY <1>1, RoundIs
<1>9. \A m \in Nodes : state'[m] \in Range(input) /\ state'[m] >= input[m]
  BY <1>6, <1>7, <1>8 DEF GossipInv
<1>10. QED BY <1>8, <1>9 DEF GossipInv

(* message_dispatch: what a device has received another one has sent. *)

DispatchInv ==
  \A n \in Nodes :
    /\ state[n].tick \in 0 .. MaxTick
    /\ \A m \in state[n].procs \cup state[n].received :
         /\ m[1] # 0 /\ m[2] = 0 /\ m[1] \in Nodes
         /\ m[3] \in MsgStart .. MsgEnd /\ m[3] % MsgInterval = 0 /\ m[3] <= state[m[1]].tick

LEMMA DispatchRound ==
  ASSUME Shape, prog = "dispatch", DispatchInv, NEW n \in Nodes, Round(n), UNCHANGED <<prog, input>>
  PROVE  DispatchInv'
<1> DEFINE s == MessageDispatch(n)
           tick == Tick(n)
           new == IF /\ MsgStart <= tick /\ tick <= MsgEnd /\ tick % MsgInterval = 0
                     /\ n # 0
                  THEN {<<n, 0, tick>>} ELSE {}
           asked == Asked(n, new, Field("procs"))
<1>1. state' = [state EXCEPT ![n] = s] BY DEF Round, Compute
<1>2. /\ s.tick = tick /\ s.procs \subseteq asked
      /\ s.received \subseteq state[n].received \cup asked
  BY DEF MessageDispatch
<1>3. tick \in 0 .. MaxTick /\ state[n].tick <= tick
  <2>1. state[n].tick \in 0 .. MaxTick /\ MaxTick \in Nat BY CountersStopIdle DEF DispatchInv
  <2>2. QED BY <2>1 DEF Tick, DispatchInv
<1>4. \A m \in asked : m \in new \/ \E k \in Nodes : m \in state[k].procs
  BY HoodFinite DEF Asked, Field
<1> HIDE DEF s
<1>5. /\ Nodes' = Nodes
      /\ \A m \in Nodes : state'[m] = IF m = n THEN s ELSE state[m]
  BY <1>1, RoundIs
<1>6. \A k \in Nodes : state'[k].tick \in 0 .. MaxTick /\ state[k].tick <= state'[k].tick
  BY <1>2, <1>3, <1>5 DEF DispatchInv
<1>7. ASSUME NEW k \in Nodes, NEW m \in state'[k].procs \cup state'[k].received
      PROVE  /\ m[1] # 0 /\ m[2] = 0 /\ m[1] \in Nodes
             /\ m[3] \in MsgStart .. MsgEnd /\ m[3] % MsgInterval = 0
             /\ m[3] <= state'[m[1]].tick
  <2>1. m \in new \/ \E j \in Nodes : m \in state[j].procs \cup state[j].received
    BY <1>2, <1>4, <1>5, <1>7
  <2>2. CASE m \in new
    <3>1. m = <<n, 0, tick>> /\ n # 0 /\ tick \in MsgStart .. MsgEnd /\ tick % MsgInterval = 0
      BY <2>2, <1>3, CountersStopIdle
    <3>2. state'[n].tick = tick BY <1>2, <1>5
    <3>3. QED BY <3>1, <3>2, <1>3
  <2>3. CASE \E j \in Nodes : m \in state[j].procs \cup state[j].received
    <3>1. /\ m[1] # 0 /\ m[2] = 0 /\ m[1] \in Nodes
          /\ m[3] \in MsgStart .. MsgEnd /\ m[3] % MsgInterval = 0 /\ m[3] <= state[m[1]].tick
      BY <2>3 DEF DispatchInv
    <3>2. m[3] \in Int /\ state[m[1]].tick \in Nat BY <3>1, CountersStopIdle DEF DispatchInv
    <3>3. QED BY <3>1, <3>2, <1>6
  <2>4. QED BY <2>1, <2>2, <2>3
<1>8. QED BY <1>5, <1>6, <1>7 DEF DispatchInv

(* worker_role_assignment: only endpoints send. *)

WorkersInv ==
  \A n \in Nodes : \A m \in state[n].procs \cup state[n].log : input[m[1]] \in EndpointRoles

LEMMA WorkersRound ==
  ASSUME Shape, prog = "worker", WorkersInv, NEW n \in Nodes, Round(n), UNCHANGED <<prog, input>>
  PROVE  WorkersInv'
<1> DEFINE s == WorkerRole(n)
<1>1. state' = [state EXCEPT ![n] = s] BY DEF Round, Compute
<1>2. PICK receiver :
        LET new == IF input[n] \in EndpointRoles THEN {<<n, receiver>>} ELSE {}
            asked == Asked(n, new, Field("procs"))
        IN  s.procs \subseteq asked /\ s.log \subseteq state[n].log \cup asked
  BY DEF WorkerRole
<1> DEFINE new == IF input[n] \in EndpointRoles THEN {<<n, receiver>>} ELSE {}
           asked == Asked(n, new, Field("procs"))
<1>3. \A m \in asked : m \in new \/ \E k \in Nodes : m \in state[k].procs
  BY HoodFinite DEF Asked, Field
<1>4. \A m \in asked : input[m[1]] \in EndpointRoles
  BY <1>3 DEF WorkersInv
<1>5. \A m \in s.procs \cup s.log : input[m[1]] \in EndpointRoles
  BY <1>2, <1>4 DEF WorkersInv
<1> HIDE DEF s, new, asked
<1>6. /\ Nodes' = Nodes
      /\ \A m \in Nodes : state'[m] = IF m = n THEN s ELSE state[m]
  BY <1>1, RoundIs
<1>7. QED BY <1>5, <1>6 DEF WorkersInv

(* communication_roles_assignment: only senders send, at their times. *)

Sent(m, states) ==
  \/ m = NoMessage
  \/ /\ m[1] \in DOMAIN states /\ input[m[1]] = "SENDER"
     /\ m[2] \in Nat /\ m[2] % SendInterval = 0 /\ m[2] <= states[m[1]].tick

RolesInv ==
  \A n \in Nodes :
    /\ state[n].tick \in 0 .. MaxTick /\ state[n].from_sender \in Nat
    /\ Sent(state[n].payload, state) /\ Sent(state[n].incoming, state)
    /\ \A m \in state[n].log : Sent(m, state) /\ m # NoMessage

LEMMA RolesRound ==
  ASSUME Shape, prog = "roles", RolesInv, NEW n \in Nodes, Round(n), UNCHANGED <<prog, input>>
  PROVE  RolesInv'
<1> DEFINE s == CommunicationRole(n)
           tick == Tick(n)
           from == Gradient(input[n] = "SENDER", Field("from_sender"), n)
           payload == IF input[n] = "SENDER" /\ tick % SendInterval = 0
                      THEN <<n, tick>> ELSE state[n].payload
           incoming == Broadcast(n, from, payload, Field("from_sender"), Field("incoming"))
<1>1. state' = [state EXCEPT ![n] = s] BY DEF Round, Compute
<1>2. /\ s.tick = tick /\ s.from_sender = from /\ s.incoming = incoming
      /\ s.payload \in {payload, NoMessage, incoming}
      /\ \A m \in s.log : m \in state[n].log \/ (m = incoming /\ m # NoMessage)
  BY DEF CommunicationRole
<1>3. \A m \in Nodes : Field("from_sender")[m] \in Nat /\ Field("incoming")[m] = state[m].incoming
  BY DEF Field, RolesInv
<1>4. from \in Nat
  <2> (input[n] = "SENDER") \in BOOLEAN OBVIOUS
  <2> QED BY <1>3, GradientType
<1>5. incoming = payload \/ \E m \in Nodes : incoming = state[m].incoming
  <2> HIDE DEF from, payload
  <2>1. from \in Int /\ \A m \in Nodes : Field("from_sender")[m] \in Int BY <1>3, <1>4
  <2>2. QED BY <1>3, <2>1, BroadcastIs
<1>6. tick \in 0 .. MaxTick /\ state[n].tick <= tick
  <2>1. state[n].tick \in 0 .. MaxTick /\ MaxTick \in Nat BY CountersStopIdle DEF RolesInv
  <2>2. QED BY <2>1 DEF Tick
<1> HIDE DEF s, from, incoming
<1>7. /\ Nodes' = Nodes
      /\ \A m \in Nodes : state'[m] = IF m = n THEN s ELSE state[m]
  BY <1>1, RoundIs
<1>8. \A k \in Nodes : state'[k].tick \in 0 .. MaxTick /\ state[k].tick <= state'[k].tick
  BY <1>2, <1>6, <1>7 DEF RolesInv
<1>9. ASSUME NEW m, Sent(m, state) PROVE Sent(m, state')
  <2>1. CASE m = NoMessage BY <2>1 DEF Sent
  <2>2. CASE m # NoMessage
    <3>1. /\ m[1] \in Nodes /\ m[2] \in Nat /\ m[2] <= state[m[1]].tick
      BY <1>9, <2>2 DEF Sent, Nodes
    <3>2. m[2] <= state'[m[1]].tick
      BY <3>1, <1>7, <1>8 DEF RolesInv
    <3>3. QED BY <1>7, <1>9, <2>2, <3>1, <3>2 DEF Sent, Nodes
  <2>3. QED BY <2>1, <2>2
<1>10. Sent(payload, state')
  <2>1. CASE input[n] = "SENDER" /\ tick % SendInterval = 0
    <3>1. payload = <<n, tick>> BY <2>1
    <3>2. state'[n].tick = tick /\ n \in DOMAIN state' BY <1>2, <1>7 DEF Nodes
    <3>3. payload[1] = n /\ payload[2] = tick BY <3>1
    <3> HIDE DEF payload, tick
    <3>4. QED BY <1>6, <2>1, <3>2, <3>3 DEF Sent
  <2>2. CASE ~(input[n] = "SENDER" /\ tick % SendInterval = 0)
    <3>1. payload = state[n].payload BY <2>2
    <3>2. QED BY <3>1, <1>9 DEF RolesInv
  <2>3. QED BY <2>1, <2>2
<1> HIDE DEF payload
<1>11. Sent(incoming, state') BY <1>5, <1>9, <1>10 DEF RolesInv
<1>12. Sent(s.payload, state')
  <2>1. Sent(NoMessage, state') BY DEF Sent
  <2>2. QED BY <1>2, <1>10, <1>11, <2>1
<1>13. \A k \in Nodes :
         /\ state'[k].from_sender \in Nat
         /\ Sent(state'[k].payload, state') /\ Sent(state'[k].incoming, state')
  BY <1>2, <1>4, <1>7, <1>9, <1>11, <1>12 DEF RolesInv
<1>14. \A k \in Nodes : \A m \in state'[k].log : Sent(m, state') /\ m # NoMessage
  BY <1>2, <1>7, <1>9, <1>11 DEF RolesInv
<1>15. \A m : Sent(m, state') => Sent(m, state)'
  BY DEF Sent
<1>16. QED BY <1>7, <1>8, <1>13, <1>14, <1>15 DEF RolesInv

(* scattered_database, area_discovery: an answer is the data of its key, and *)
(* so is what is stored.  Both programs put the same query.                   *)

DataInv ==
  \A n \in Nodes :
    /\ \A k \in Known(state[n].local_db) : state[n].local_db[k] = k
    /\ \A a \in state[n].answers : a[2] = a[1][2]

QueryEffect(n, s) ==
  LET db == state[n].local_db IN
  /\ \A a \in s.answers :
       \/ a[1][2] \in Known(db) /\ a[2] = db[a[1][2]]
       \/ \E m \in Nodes : a \in state[m].answers
  /\ \/ s.local_db = db
     \/ \E a \in s.answers : s.local_db = Put(db, a[1][2], a[2])

\* The answers a round shows and the database it keeps, for the queries it is
\* asked and those it relays.
Answers(n, asked, inner) ==
  LET db == state[n].local_db IN
  {<<k, db[k[2]]>> : k \in {k \in asked : k[2] \in Known(db)}} \cup
  {a \in UNION {state[m].answers : m \in Hood(n)} : a[1] \in inner}
Found(n, shown) == IF state[n].target # None THEN AcceptTarget(n, shown) ELSE {}
Stored(n, found) ==
  IF found = {} THEN state[n].local_db
  ELSE Put(state[n].local_db, state[n].target, (CHOOSE a \in found : TRUE)[2])

LEMMA AnswersEffect ==
  ASSUME Shape, NEW n \in Nodes, NEW s, NEW asked, NEW inner,
         s.answers = Answers(n, asked, inner), s.local_db = Stored(n, Found(n, s.answers))
  PROVE  QueryEffect(n, s)
<1> DEFINE db == state[n].local_db
           shown == s.answers
           found == Found(n, shown)
<1>1. ASSUME NEW a \in shown
      PROVE  \/ a[1][2] \in Known(db) /\ a[2] = db[a[1][2]]
             \/ \E m \in Nodes : a \in state[m].answers
  <2>1. CASE a \in {<<k, db[k[2]]>> : k \in {k \in asked : k[2] \in Known(db)}}
    BY <2>1
  <2>2. CASE a \in {b \in UNION {state[m].answers : m \in Hood(n)} : b[1] \in inner}
    BY <2>2, HoodFinite
  <2>3. QED BY <1>1, <2>1, <2>2 DEF Answers
<1>2. \A a \in found : a \in shown /\ a[1][2] = state[n].target BY DEF Found, AcceptTarget
<1>3. s.local_db = db \/ \E a \in shown : s.local_db = Put(db, a[1][2], a[2])
  <2> HIDE DEF found
  <2>0. s.local_db = Stored(n, found) BY DEF found
  <2>1. CASE found = {} BY <2>0, <2>1 DEF Stored
  <2>2. CASE found # {}
    <3> DEFINE a == CHOOSE a \in found : TRUE
    <3>1. a \in found BY <2>2
    <3>2. s.local_db = Put(db, state[n].target, a[2]) BY <2>0, <2>2 DEF Stored
    <3> HIDE DEF a
    <3>3. a \in shown /\ a[1][2] = state[n].target BY <3>1, <1>2
    <3>4. QED BY <3>2, <3>3
  <2>3. QED BY <2>1, <2>2
<1>4. QED BY <1>1, <1>3 DEF QueryEffect

LEMMA QueryIs ==
  ASSUME Shape, NEW n \in Nodes, NEW s \in ScatteredDatabase(n) \cup AreaDiscovery(n)
  PROVE  QueryEffect(n, s)
<1> DEFINE dist  == Gradient(n = 0, Field("dist"), n)
           below == {n} \cup UNION {state[m].below : m \in Children(n, Field("parent"))}
           asks  == state[n].target # None
           counter == IF asks THEN Min({state[n].counter, QueryTimeout}) + 1 ELSE 0
           asked == Asked(n, IF asks THEN {<<n, state[n].target>>} ELSE {}, Field("procs"))
           ended == {k \in asked : k[2] \in Known(state[n].local_db)}
<1>1. CASE s \in ScatteredDatabase(n)
  <2> DEFINE inner == {k \in asked \ ended : {k[1], k[2]} \cap below # {}}
             shown == Answers(n, asked, inner)
             db    == Stored(n, Found(n, shown))
             idle  == ~asks \/ Found(n, shown) # {} \/ counter > QueryTimeout
             lacks == Nodes \ (Known(db) \cup {n})
             picks == IF lacks = {} THEN {None} ELSE {Min(lacks)}
  <2>1. ScatteredDatabase(n) =
          {[dist |-> dist, parent |-> Parent(n, dist, Field("dist")), below |-> below,
            counter |-> counter, procs |-> inner, answers |-> shown, local_db |-> db,
            target |-> target, age |-> IF idle THEN 0 ELSE counter] :
             target \in IF idle THEN picks ELSE {state[n].target}}
    BY DEF ScatteredDatabase, Query, Expires, Shown, Answers, Stored, Found
  <2> HIDE DEF dist, below, counter, inner, shown, db, idle, picks
  <2>2. s.answers = shown /\ s.local_db = db BY <1>1, <2>1
  <2> USE DEF shown, db
  <2> HIDE DEF asked
  <2>3. QED BY <2>2, AnswersEffect
<1>2. CASE s \in AreaDiscovery(n)
  <2> DEFINE inner == {k \in asked \ ended : k[1] \in below}
             shown == Answers(n, asked, inner)
             db    == Stored(n, Found(n, shown))
             idle  == ~asks \/ Found(n, shown) # {} \/ counter > QueryTimeout
             first == FirstLacking(n, db)
             picks == IF first = {} THEN {None} ELSE first
  <2>1. AreaDiscovery(n) =
          {[dist |-> dist, parent |-> Parent(n, dist, Field("dist")), below |-> below,
            counter |-> counter, procs |-> inner, answers |-> shown, local_db |-> db,
            target |-> target, age |-> IF idle THEN 0 ELSE counter] :
             target \in IF idle THEN picks ELSE {state[n].target}}
    BY DEF AreaDiscovery, Query, Expires, Shown, Answers, Stored, Found
  <2> HIDE DEF dist, below, counter, inner, shown, db, idle, picks
  <2>2. s.answers = shown /\ s.local_db = db BY <1>2, <2>1
  <2> USE DEF shown, db
  <2> HIDE DEF asked
  <2>3. QED BY <2>2, AnswersEffect
<1>3. QED BY <1>1, <1>2

LEMMA DataRound ==
  ASSUME Shape, prog \in {"scattered", "area"}, DataInv,
         NEW n \in Nodes, Round(n), UNCHANGED <<prog, input>>
  PROVE  DataInv'
<1>1. PICK s \in ScatteredDatabase(n) \cup AreaDiscovery(n) : state' = [state EXCEPT ![n] = s]
  BY DEF Round, Compute
<1>2. QueryEffect(n, s) BY QueryIs
<1> DEFINE db == state[n].local_db
<1>3. \A a \in s.answers : a[2] = a[1][2]
  BY <1>2 DEF QueryEffect, DataInv
<1>4. \A k \in Known(s.local_db) : s.local_db[k] = k
  <2>1. CASE s.local_db = db BY <2>1 DEF DataInv
  <2>2. ASSUME NEW a \in s.answers, s.local_db = Put(db, a[1][2], a[2])
        PROVE  \A k \in Known(s.local_db) : s.local_db[k] = k
    BY <2>2, <1>3 DEF Put, Known, DataInv
  <2>3. QED BY <1>2, <2>1, <2>2 DEF QueryEffect
<1>5. /\ Nodes' = Nodes
      /\ \A m \in Nodes : state'[m] = IF m = n THEN s ELSE state[m]
  BY <1>1, RoundIs
<1>6. QED BY <1>3, <1>4, <1>5 DEF DataInv, Known

(* iteratively_area_discovery: what may be claimed is no candidate. *)

IterFields ==
  {"at", "local_db", "assignment_db", "my_tile", "ticks", "pending", "status",
   "dist_to_best", "procs", "answers"}

ClaimsInv ==
  \A n \in Nodes :
    /\ state[n] = [f \in IterFields |-> state[n][f]]
    /\ state[n].at \in Tiles /\ state[n].local_db \subseteq Tiles
    /\ state[n].status = "SEEKING" /\ state[n].assignment_db = Nothing
    /\ state[n].answers = {}

LEMMA ClosestIs ==
  ASSUME NEW at \in Int, NEW S, IsFiniteSet(S), S \subseteq Int, S # {}
  PROVE  Closest(at, S) \in S
<1> DEFINE away == [t \in S |-> Away(at, t)]
           D == {away[t] : t \in S}
<1>1. IsFiniteSet(D) BY FiniteImage
<1>2. PICK d \in D : \A e \in D : d <= e
  <2>0. \A t \in S : away[t] \in Int BY DEF Away
  <2>1. D \subseteq Int /\ D # {} BY <2>0
  <2> HIDE DEF D
  <2>2. QED BY <1>1, <2>1, LeastExists
<1>3. PICK t \in S : \A u \in S : Away(at, t) <= Away(at, u) BY <1>2
<1>4. QED BY <1>3 DEF Closest

\* The nearest unqueried tile is not pending, and only pending tiles time out.
LEMMA NothingClaimable ==
  ASSUME NEW s, NEW db, s.at \in Int, s.local_db \subseteq Tiles
  PROVE  Claimable(s, TimedOut(s, db)) = {}
<1>1. TimedOut(s, db) \subseteq Pending(s)
  <2>1. ASSUME NEW r \in Range(Aged(s)) PROVE r[1] \in Pending(s)
    <3>1. PICK i \in DOMAIN s.pending : r = <<Tile(s.pending[i]), s.pending[i][2] + 1>>
      BY DEF Aged, Range
    <3>2. QED BY <3>1 DEF Pending
  <2>2. QED BY <2>1 DEF TimedOut, Tile
<1>2. BestCandidate(s) = None \/ BestCandidate(s) \in Unqueried(s)
  <2>1. CASE Unqueried(s) = {} BY <2>1 DEF BestCandidate
  <2>2. CASE Unqueried(s) # {}
    <3>1. Unqueried(s) \subseteq Tiles BY DEF Unqueried
    <3>2. IsFiniteSet(Unqueried(s)) /\ Unqueried(s) \subseteq Int
      <4>1. IsFiniteSet(Tiles) /\ Tiles \subseteq Int BY QueriesBounded
      <4>2. QED BY <3>1, <4>1, FS_Subset
    <3>3. QED BY <2>2, <3>2, ClosestIs DEF BestCandidate
  <2>3. QED BY <2>1, <2>2
<1>3. Unqueried(s) \cap Pending(s) = {} BY DEF Unqueried
<1>4. QED BY <1>1, <1>2, <1>3 DEF Claimable

\* A device that knows of no assignment and is shown none still knows of none.
LEMMA NothingLearned == Known(Nothing) = {} /\ Learned(Nothing, {}) = Nothing
<1>1. Known(Nothing) = {} BY DEF Known, Nothing
<1>2. Learned(Nothing, {}) = [t \in {} |-> None]
  BY <1>1 DEF Learned
<1>3. QED BY <1>1, <1>2 DEF Nothing

LEMMA NothingShown ==
  ASSUME Shape, ClaimsInv, NEW n \in Nodes
  PROVE  Queried(n).shown = {}
<1>1. \A m \in Hood(n) : state[m].answers = {} BY HoodFinite DEF ClaimsInv
<1>2. state[n].assignment_db = Nothing BY DEF ClaimsInv
<1> DEFINE asked == Asked(n, IF state[n].pending = <<>> THEN {}
                             ELSE {<<n, Tile(state[n].pending[1])>>}, Field("procs"))
           ended == {k \in asked : k[2] \in Known(state[n].assignment_db)}
<1>3. ended = {} BY <1>2, NothingLearned
<1>4. Queried(n).shown =
        {<<k, state[n].assignment_db[k[2]]>> : k \in ended} \cup
        {a \in UNION {state[m].answers : m \in Hood(n)} : a[1] \in asked \ ended}
  BY DEF Queried, Shown
<1> HIDE DEF asked, ended
<1>5. UNION {state[m].answers : m \in Hood(n)} = {} BY <1>1
<1>6. QED BY <1>3, <1>4, <1>5

LEMMA ClaimsRound ==
  ASSUME Shape, prog = "iter", ClaimsInv, NEW n \in Nodes, Round(n), UNCHANGED <<prog, input>>
  PROVE  ClaimsInv'
<1> DEFINE s == state[n]
           out == TimedOut(s, Nothing)
           open == StillOpen(s, Nothing)
<1>1. /\ s = [f \in IterFields |-> s[f]]
      /\ s.at \in Tiles /\ s.local_db \subseteq Tiles
      /\ s.status = "SEEKING" /\ s.assignment_db = Nothing
  BY DEF ClaimsInv
<1>2. [s EXCEPT !.at = s.at] = s BY <1>1 DEF IterFields
<1>3. Assigned(n, s) = Nothing BY <1>1 DEF Assigned, JustClaimed
<1>4. Queried(n).shown = {} BY NothingShown
<1>5. Learned(Nothing, {}) = Nothing BY NothingLearned
<1>6. PICK r \in IterArea(n) : state' = [state EXCEPT ![n] = r] BY DEF Round, Compute
<1>7. PICK t \in Seek(n, s, Nothing, out, open) :
        r = [t EXCEPT !.dist_to_best = DistToBest(s), !.procs = Queried(n).procs, !.answers = {}]
  BY <1>1, <1>2, <1>3, <1>4, <1>5, <1>6 DEF IterArea
<1>8. PICK more :
        t = [s EXCEPT !.assignment_db = Nothing, !.my_tile = @, !.status = @,
                      !.pending = open \o more, !.ticks = 0]
  <2>1. Claimable(s, out) = {}
    <3>1. s.at \in Int
      <4>1. Tiles \subseteq Int BY QueriesBounded
      <4>2. s.at \in Tiles BY <1>1
      <4> HIDE DEF s
      <4>3. QED BY <4>1, <4>2
    <3>2. QED BY <1>1, <3>1, NothingClaimable
  <2>2. ~(s.local_db # {} /\ s.local_db \subseteq Known(Nothing)) BY NothingLearned
  <2>3. QED BY <1>7, <2>1, <2>2 DEF Seek
<1>9. /\ r = [f \in IterFields |-> r[f]]
      /\ r.at \in Tiles /\ r.local_db \subseteq Tiles
      /\ r.status = "SEEKING" /\ r.assignment_db = Nothing /\ r.answers = {}
  <2> DEFINE q == open \o more
  <2>1. t = [s EXCEPT !.assignment_db = Nothing, !.my_tile = @, !.status = @,
                      !.pending = q, !.ticks = 0] BY <1>8
  <2> HIDE DEF q, s
  <2>2. QED BY <1>1, <1>7, <2>1 DEF IterFields
<1>10. /\ Nodes' = Nodes
       /\ \A m \in Nodes : state'[m] = IF m = n THEN r ELSE state[m]
  BY <1>6, RoundIs
<1>11. QED BY <1>9, <1>10 DEF ClaimsInv

(* simple_averaging and distance_broadcast: nothing ever moves. *)

LEMMA ZeroSum ==
  ASSUME NEW S, IsFiniteSet(S), NEW f, \A x \in S : f[x] = 0
  PROVE  SumFunctionOnSet(f, S) = 0
<1> DEFINE First(T) == CHOOSE x \in T : TRUE
           R(h) == h = [T \in SUBSET S |-> IF T = {} THEN 0 ELSE f[First(T)] + h[T \ {First(T)}]]
           zero == [T \in SUBSET S |-> 0]
           sum  == CHOOSE h : R(h)
<1>1. \A T \in SUBSET S : T # {} => First(T) \in T /\ First(T) \in S OBVIOUS
<1> HIDE DEF First
<1>2. R(zero) BY <1>1
<1>3. R(sum) BY <1>2
<1>4. SumFunctionOnSet(f, S) = sum[S]
  BY DEF SumFunctionOnSet, FoldFunctionOnSet, MapThenFoldSet, First
<1> HIDE DEF sum
<1>5. ASSUME NEW T \in SUBSET S, T # {} PROVE sum[T] = f[First(T)] + sum[T \ {First(T)}]
  BY <1>3, <1>5
<1>6. sum[{}] = 0 BY <1>3
<1> DEFINE Good == {T \in SUBSET S : sum[T] = 0}
<1>7. ASSUME NEW T \in SUBSET S, \A U \in SUBSET T : U # T => U \in Good
      PROVE  T \in Good
  <2>1. CASE T = {} BY <2>1, <1>6
  <2>2. CASE T # {}
    <3>1. T \ {First(T)} \in Good BY <1>1, <1>7, <2>2
    <3>2. QED BY <3>1, <1>1, <1>5, <2>2
  <2>3. QED BY <2>1, <2>2
<1>8. S \in Good
  <2> HIDE DEF Good
  <2> QED BY <1>7, SubsetInduction
<1>9. QED BY <1>4, <1>8

AveragingInv == \A n \in Nodes : state[n] = AveragingInitial

LEMMA AveragingRound ==
  ASSUME Shape, prog = "averaging", AveragingInv, NEW n \in Nodes, Round(n), UNCHANGED <<prog, input>>
  PROVE  AveragingInv'
<1>1. PICK s \in Averaging(n) : state' = [state EXCEPT ![n] = s] BY DEF Round, Compute
<1>2. s = 0
  <2>1. CASE Hood(n) = {} BY <2>1, <1>1 DEF Averaging, AveragingInv, AveragingInitial
  <2>2. CASE Hood(n) # {}
    <3> DEFINE k == Cardinality(Hood(n))
    <3>1. k \in Nat /\ k # 0 BY <2>2, HoodFinite, FS_CardinalityType, FS_EmptySet
    <3>2. SumFunctionOnSet(state, Hood(n)) = 0
      BY HoodFinite, ZeroSum DEF AveragingInv, AveragingInitial
    <3>3. state[n] = 0 BY DEF AveragingInv, AveragingInitial
    <3>4. 0 \div (10 * k) = 0 BY <3>1
    <3>5. s \in 0 .. 1 /\ s * 10 * k < 10 * k
      <4> HIDE DEF k
      <4>1. 7 * k * 0 + 3 * 0 = 0 BY <3>1
      <4>2. s \in {x \in 0 \div (10 * k) .. 0 \div (10 * k) + 1 : x * 10 * k < 0 + 10 * k}
        BY <1>1, <2>2, <3>2, <3>3, <4>1 DEF Averaging, k
      <4>3. QED BY <4>2, <3>1, <3>4
    <3> HIDE DEF k
    <3>6. QED BY <3>1, <3>5
  <2>3. QED BY <2>1, <2>2
<1>3. /\ Nodes' = Nodes
      /\ \A m \in Nodes : state'[m] = IF m = n THEN s ELSE state[m]
  BY <1>1, RoundIs
<1>4. QED BY <1>2, <1>3 DEF AveragingInv, AveragingInitial

DistanceInv == \A n \in Nodes : state[n] = DistanceInitial

LEMMA DistanceRound ==
  ASSUME Shape, prog = "distance", DistanceInv, NEW n \in Nodes, Round(n), UNCHANGED <<prog, input>>
  PROVE  DistanceInv'
<1> DEFINE s == DistanceBroadcast(n)
<1>1. state' = [state EXCEPT ![n] = s] BY DEF Round, Compute
<1>2. s = DistanceInitial
  <2>1. Hood(n) # {} => Values(n) = {DistanceInitial} BY HoodFinite DEF Values, DistanceInv
  <2>2. Hood(n) # {} => (CHOOSE v \in Values(n) : \A t \in Values(n) : v.distance <= t.distance)
                        = DistanceInitial
    BY <2>1, SizesAreNatural DEF DistanceInitial
  <2>3. state[n] = DistanceInitial /\ DistanceInitial.distance = Far
    BY DEF DistanceInv, DistanceInitial
  <2>4. ~(Far + 1 < Far) BY SizesAreNatural
  <2>5. s = state[n] BY <2>2, <2>3, <2>4 DEF DistanceBroadcast
  <2> HIDE DEF s
  <2>6. QED BY <2>3, <2>5
<1> HIDE DEF s
<1>3. /\ Nodes' = Nodes
      /\ \A m \in Nodes : state'[m] = IF m = n THEN s ELSE state[m]
  BY <1>1, RoundIs
<1>4. QED BY <1>2, <1>3 DEF DistanceInv, DistanceInitial

-----------------------------------------------------------------------------
(* All of them. *)

\* The inductive invariant of the programs: what is stored is true because what
\* neighbours export, running processes, answers and payloads, is true.
ExamplesInv ==
  /\ Shape
  /\ prog = "gossip"    => GossipInv
  /\ prog = "averaging" => AveragingInv
  /\ prog = "distance"  => DistanceInv
  /\ prog = "dispatch"  => DispatchInv
  /\ prog = "worker"    => WorkersInv
  /\ prog = "roles"     => RolesInv
  /\ prog \in {"scattered", "area"} => DataInv
  /\ prog = "iter"      => ClaimsInv

LEMMA ExamplesInit == Init => ExamplesInv
<1> SUFFICES ASSUME Init PROVE ExamplesInv OBVIOUS
<1> DEFINE D == Devices(prog)
<1>1. Shape /\ Nodes = D BY DEF Init, Shape, Nodes
<1>2. \A n \in D :
        state[n] = CASE prog = "averaging"  -> AveragingInitial
                     [] prog = "gossip"     -> input[n]
                     [] prog = "distance"   -> DistanceInitial
                     [] prog = "spreading"  -> SpreadingInitial
                     [] prog = "chain"      -> ChainInitial
                     [] prog = "channel"    -> ChannelInitial
                     [] prog = "collection" -> CollectionInitial
                     [] prog = "dispatch"   -> DispatchInitial
                     [] prog = "worker"     -> WorkerInitial
                     [] prog = "roles"      -> RoleInitial
                     [] prog = "scattered"  -> QueryInitial([k \in input[n] |-> k])
                     [] prog = "area"       -> QueryInitial([k \in {input.tile[n]} \ {None} |-> k])
                     [] prog = "iter"       -> IterInitial(n)
  BY DEF Init
<1>3. input \in Inputs(prog) BY DEF Init
<1> HIDE DEF D
<1>4. ASSUME prog = "gossip" PROVE GossipInv
  <2>1. input \in [D -> Readings] /\ \A n \in D : state[n] = input[n]
    BY <1>2, <1>3, <1>4 DEF Inputs, D
  <2>2. \A n \in D : input[n] \in Range(input) /\ input[n] \in Int
    BY <2>1, ReadingsAreNumbers DEF Range
  <2>3. QED BY <1>1, <2>1, <2>2 DEF GossipInv, D
<1>5. ASSUME prog = "averaging" PROVE AveragingInv BY <1>1, <1>2, <1>5 DEF AveragingInv
<1>6. ASSUME prog = "distance" PROVE DistanceInv BY <1>1, <1>2, <1>6 DEF DistanceInv
<1>7. ASSUME prog = "dispatch" PROVE DispatchInv
  <2>1. \A n \in D : state[n] = DispatchInitial BY <1>2, <1>7
  <2>2. QED BY <1>1, <2>1, CountersStopIdle DEF DispatchInv, DispatchInitial
<1>8. ASSUME prog = "worker" PROVE WorkersInv
  <2>1. \A n \in D : state[n] = WorkerInitial BY <1>2, <1>8
  <2>2. QED BY <1>1, <2>1 DEF WorkersInv, WorkerInitial
<1>9. ASSUME prog = "roles" PROVE RolesInv
  <2>1. \A n \in D : state[n] = RoleInitial BY <1>2, <1>9
  <2>2. QED BY <1>1, <2>1, CountersStopIdle, SizesAreNatural DEF RolesInv, RoleInitial, Sent
<1>10. ASSUME prog \in {"scattered", "area"} PROVE DataInv
  <2>1. \A n \in D : \/ state[n] = QueryInitial([k \in input[n] |-> k])
                     \/ state[n] = QueryInitial([k \in {input.tile[n]} \ {None} |-> k])
    BY <1>2, <1>10
  <2>2. \A n \in D : \E K : state[n] = QueryInitial([k \in K |-> k]) BY <2>1
  <2>3. ASSUME NEW n \in D
        PROVE  /\ \A k \in DOMAIN state[n].local_db : state[n].local_db[k] = k
               /\ state[n].answers = {}
    <3>1. PICK K : state[n] = QueryInitial([k \in K |-> k]) BY <2>2
    <3> DEFINE db == [k \in K |-> k]
    <3>2. state[n].local_db = db /\ state[n].answers = {} BY <3>1 DEF QueryInitial
    <3>3. QED BY <3>2
  <2>4. QED BY <1>1, <2>3 DEF DataInv, Known
<1>11. ASSUME prog = "iter" PROVE ClaimsInv
  <2>1. /\ \A n \in D : state[n] = IterInitial(n)
        /\ input \in [D -> [at : Tiles, tiles : {{}, Tiles}]]
    BY <1>2, <1>3, <1>11 DEF Inputs, D
  <2>2. ASSUME NEW n \in D
        PROVE  /\ state[n] = [f \in IterFields |-> state[n][f]]
               /\ state[n].at = input[n].at /\ state[n].local_db = input[n].tiles
               /\ state[n].status = "SEEKING" /\ state[n].assignment_db = Nothing
               /\ state[n].answers = {}
    <3>1. IterInitial(n) = [f \in IterFields |-> IterInitial(n)[f]]
      BY DEF IterInitial, IterFields
    <3>2. state[n] = [f \in IterFields |-> state[n][f]] BY <2>1, <3>1
    <3>3. LET i == IterInitial(n) IN
          /\ i.at = input[n].at /\ i.local_db = input[n].tiles
          /\ i.status = "SEEKING" /\ i.assignment_db = Nothing /\ i.answers = {}
      BY DEF IterInitial
    <3>4. QED BY <2>1, <3>2, <3>3
  <2>3. \A n \in D : input[n].at \in Tiles /\ input[n].tiles \subseteq Tiles BY <2>1
  <2>4. QED BY <1>1, <2>2, <2>3 DEF ClaimsInv
<1>12. QED BY <1>1, <1>4, <1>5, <1>6, <1>7, <1>8, <1>9, <1>10, <1>11 DEF ExamplesInv

LEMMA ExamplesStep == ExamplesInv /\ [Next]_vars => ExamplesInv'
<1> SUFFICES ASSUME ExamplesInv, [Next]_vars PROVE ExamplesInv' OBVIOUS
<1> USE DEF ExamplesInv
<1>1. ASSUME NEW n \in 0 .. N-1, Round(n), UNCHANGED <<prog, input>> PROVE ExamplesInv'
  <2>1. n \in Nodes BY <1>1 DEF Round
  <2>2. Shape'
    <3>1. PICK s : state' = [state EXCEPT ![n] = s] BY <1>1 DEF Round
    <3>2. QED BY <1>1, <2>1, <3>1, RoundIs
  <2>3. QED
    BY <1>1, <2>1, <2>2, GossipRound, AveragingRound, DistanceRound, DispatchRound,
       WorkersRound, RolesRound, DataRound, ClaimsRound
<1>2. ASSUME UNCHANGED <<prog, state, input>> PROVE ExamplesInv'
  <2>1. Shape' /\ Nodes' = Nodes BY <1>2 DEF Shape, Nodes
  <2>2. GossipInv => GossipInv' BY <1>2, <2>1 DEF GossipInv
  <2>3. AveragingInv => AveragingInv' BY <1>2, <2>1 DEF AveragingInv
  <2>4. DistanceInv => DistanceInv' BY <1>2, <2>1 DEF DistanceInv
  <2>5. DispatchInv => DispatchInv' BY <1>2, <2>1 DEF DispatchInv
  <2>6. WorkersInv => WorkersInv' BY <1>2, <2>1 DEF WorkersInv
  <2>7. RolesInv => RolesInv' BY <1>2, <2>1 DEF RolesInv, Sent
  <2>8. DataInv => DataInv' BY <1>2, <2>1 DEF DataInv
  <2>9. ClaimsInv => ClaimsInv' BY <1>2, <2>1 DEF ClaimsInv
  <2>10. QED
    BY <1>2, <2>1, <2>2, <2>3, <2>4, <2>5, <2>6, <2>7, <2>8, <2>9
<1>3. CASE Move /\ UNCHANGED <<prog, input>> BY <1>2, <1>3 DEF Move
<1>4. CASE UNCHANGED vars BY <1>2, <1>4 DEF vars
<1>5. QED BY <1>1, <1>3, <1>4 DEF Next

LEMMA ExamplesSafe == ExamplesInv => NothingInvented
<1> SUFFICES ASSUME ExamplesInv PROVE NothingInvented OBVIOUS
<1> USE DEF ExamplesInv
<1>1. CASE prog = "gossip" BY <1>1 DEF GossipInv, NothingInvented
<1>2. CASE prog = "averaging" BY <1>2 DEF AveragingInv, NothingInvented
<1>3. CASE prog = "distance" BY <1>3 DEF DistanceInv, NothingInvented
<1>4. CASE prog = "dispatch" BY <1>4 DEF DispatchInv, DispatchTrue, NothingInvented
<1>5. CASE prog = "worker" BY <1>5 DEF WorkersInv, WorkersTrue, NothingInvented
<1>6. CASE prog = "roles"
  <2>1. RolesTrue BY <1>6 DEF RolesInv, Sent, RolesTrue
  <2>2. QED BY <1>6, <2>1 DEF NothingInvented
<1>7. CASE prog \in {"scattered", "area"} BY <1>7 DEF DataInv, DataTrue, NothingInvented
<1>8. CASE prog = "iter" BY <1>8 DEF ClaimsInv, NothingClaimed, NothingInvented
<1>9. CASE prog \in {"spreading", "chain", "channel", "collection"} \cup SetupParts
  BY <1>9 DEF NothingInvented, SetupParts
<1>10. QED BY <1>1, <1>2, <1>3, <1>4, <1>5, <1>6, <1>7, <1>8, <1>9 DEF Shape, Programs

THEOREM ExamplesInvariant == Spec => []ExamplesInv
BY ExamplesInit, ExamplesStep, PTL DEF Spec

\* Gossiped readings are those of a device and never below one's own, averages and
\* distances never leave the readings, logged messages were sent by a device with
\* that role at one of its times, stored data is that of its key, and no device of
\* iteratively_area_discovery is ever assigned a tile: in every network, however its
\* links move and whichever devices fire.
THEOREM NothingIsInvented == Spec => []NothingInvented
BY ExamplesInvariant, ExamplesSafe, PTL

-----------------------------------------------------------------------------
(* The setup. *)

\* Points of the plane and their distance.
Plane == Int \X Int

LEMMA DistanceIs ==
  ASSUME NEW p \in Plane, NEW q \in Plane
  PROVE  Dist2(p, q) \in Int /\ Dist2(p, q) = Dist2(q, p)
<1> DEFINE x == p[1] - q[1]
           y == p[2] - q[2]
<1>1. x \in Int /\ y \in Int /\ q[1] - p[1] = -x /\ q[2] - p[2] = -y BY DEF Plane
<1>2. Dist2(p, q) = x * x + y * y BY DEF Dist2
<1>3. Dist2(q, p) = (-x) * (-x) + (-y) * (-y) BY <1>1 DEF Dist2
<1> HIDE DEF x, y
<1>4. (-x) * (-x) = x * x /\ (-y) * (-y) = y * y BY <1>1
<1>5. QED BY <1>1, <1>2, <1>3, <1>4

LEMMA SpotsInPlane == Spots \subseteq Plane
BY SetupGiven DEF Spots, Plane

LEMMA NeighborsMutual ==
  ASSUME NEW pos \in [Devs -> Spots], NEW n \in Devs, NEW m \in Neighbors(pos, n)
  PROVE  m \in Devs /\ n \in Neighbors(pos, m)
<1>1. m \in Devs /\ m # n /\ Dist2(pos[n], pos[m]) <= Comm2 BY DEF Neighbors
<1>2. pos[n] \in Plane /\ pos[m] \in Plane BY <1>1, SpotsInPlane
<1>3. QED BY <1>1, <1>2, DistanceIs DEF Neighbors

\* A device that is not isolated has a neighbour that is not isolated either, and
\* neither is moved.
LEMMA MigrationIs ==
  ASSUME NEW pos \in [Devs -> Spots]
  PROVE  MigrationKeeps(pos)
<1> SUFFICES ASSUME NEW q \in Moved(pos), NEW n \in Devs, n \notin Isolated(pos)
             PROVE  n \notin Isolated(q)
  BY DEF MigrationKeeps, Moved, Isolated
<1>1. PICK m \in Neighbors(pos, n) : TRUE BY DEF Isolated
<1>2. m \in Devs /\ n \in Neighbors(pos, m) BY NeighborsMutual
<1>3. m \notin Isolated(pos) BY <1>2 DEF Isolated
<1>4. q[n] = pos[n] /\ q[m] = pos[m] BY <1>2, <1>3 DEF Moved
<1>5. m \in Neighbors(q, n) BY <1>1, <1>4, <1>2 DEF Neighbors, Moved
<1>6. QED BY <1>5 DEF Isolated

LEMMA GcdOfZero ==
  ASSUME NEW m \in Nat \ {0}
  PROVE  Gcd(0, m) = m
<1>1. Max({0, m}) = m BY PairExtremes
<1> DEFINE D == {d \in 1 .. m : 0 % d = 0 /\ m % d = 0}
<1>2. IsFiniteSet(D)
  <2>1. IsFiniteSet(1 .. m) BY FS_Interval
  <2>2. QED BY <2>1, FS_Subset
<1>3. m \in D BY Z3
<1>4. D \subseteq 1 .. m /\ D \subseteq Int OBVIOUS
<1>5. Gcd(0, m) = Max(D) BY <1>1 DEF Gcd
<1> HIDE DEF D
<1>6. Max(D) \in D /\ Max(D) >= m
  <2>1. D # {} BY <1>3
  <2>2. QED BY <1>2, <1>3, <1>4, <2>1, MaxIs
<1>7. Max(D) \in 1 .. m BY <1>4, <1>6
<1>8. QED BY <1>5, <1>6, <1>7

LEMMA GcdMutual ==
  ASSUME NEW a, NEW b
  PROVE  Gcd(a, b) = Gcd(b, a)
<1>1. {a, b} = {b, a} OBVIOUS
<1>2. {d \in 1 .. Max({a, b}) : a % d = 0 /\ b % d = 0}
      = {d \in 1 .. Max({b, a}) : b % d = 0 /\ a % d = 0}
  BY <1>1
<1>3. QED BY <1>2 DEF Gcd

LEMMA SharingIs ==
  ASSUME NEW pos \in [Devs -> Spots]
  PROVE  SharingMutual(pos)
<1> DEFINE ids == CoprimeIds(pos)
<1>1. \A n \in Devs : ids[n] = {m \in Neighbors(pos, n) : Gcd(n, m) = 1}
  BY DEF CoprimeIds, CoprimeNeighbors
<1>2. \A n, m \in Devs : m \in ids[n] => n \in ids[m]
  BY <1>1, NeighborsMutual, GcdMutual
<1>3. ASSUME 0 \in Devs, NEW m \in ids[0] PROVE m = 1
  <2>1. m \in Neighbors(pos, 0) /\ Gcd(0, m) = 1 BY <1>1, <1>3
  <2>2. m \in Nat \ {0} BY <2>1, SetupGiven DEF Neighbors
  <2>3. QED BY <2>1, <2>2, GcdOfZero
<1>4. \A n \in Devs : \A m \in ids[n] : CoprimePositions(pos)[n][m] = pos[m]
  BY DEF CoprimeIds, CoprimePositions
<1> HIDE DEF ids
<1>5. DOMAIN pos = Devs OBVIOUS
<1>6. QED BY <1>2, <1>3, <1>4, <1>5 DEF SharingMutual, ids

LEMMA ClosestOfIs ==
  ASSUME NEW pos \in [Devs -> Spots], NEW S \in SUBSET Devs, S # {}, NEW point \in Plane
  PROVE  ClosestOf(S, pos, point) \in S
<1> DEFINE dist == [n \in S |-> Dist2(pos[n], point)]
<1>1. IsFiniteSet(S) /\ S \subseteq Int
  <2>1. IsFiniteSet(Devs) /\ Devs \subseteq Int BY SetupGiven
  <2>2. QED BY <2>1, FS_Subset
<1>2. \A n \in S : dist[n] \in Int BY SpotsInPlane, DistanceIs
<1>3. Nearest(S, dist) \in S
  <2> HIDE DEF dist
  <2> QED BY <1>1, <1>2, NearestIs
<1>4. ClosestOf(S, pos, point) = Nearest(S, dist)
  BY DEF ClosestOf, Nearest
<1>5. QED BY <1>3, <1>4

\* A point's winner is one of those it may choose from, and there is one if there
\* are any.
LEMMA WinnersAre ==
  ASSUME NEW pos \in [Devs -> Spots], NEW points, Range(points) \subseteq Spots, NEW except
  PROVE  /\ Winners(points, pos, except) \subseteq Devs \ except
         /\ \A p \in Range(points) : InReach(pos, p) \ except # {}
              => \E n \in InReach(pos, p) : n \in Winners(points, pos, except)
<1>1. ASSUME NEW p \in Range(points), InReach(pos, p) \ except # {}
      PROVE  ClosestOf(InReach(pos, p) \ except, pos, p) \in InReach(pos, p) \ except
  <2>1. InReach(pos, p) \ except \in SUBSET Devs BY DEF InReach
  <2>2. p \in Plane BY SpotsInPlane
  <2>3. QED BY <1>1, <2>1, <2>2, ClosestOfIs
<1>2. \A p \in Range(points) : InReach(pos, p) \subseteq Devs BY DEF InReach
<1>3. QED BY <1>1, <1>2 DEF Winners

\* With points for at most every device, each has an anchor of its own.
LEMMA PlacementsAre ==
  ASSUME NEW count \in Nat, NEW pos \in [Devs -> Spots], NEW locked,
         Cardinality(Devs \ locked) >= count, NEW x \in Placements(count, pos, locked)
  PROVE  /\ Len(x.points) = count /\ Range(x.points) \subseteq Spots
         /\ \E S \in SUBSET (Devs \ locked) :
              IsFiniteSet(S) /\ Cardinality(S) = count /\ x.locked = locked \cup S
<1> DEFINE free == Devs \ locked
           some == 1 .. Min({count, Cardinality(free)})
<1>1. IsFiniteSet(free) /\ Cardinality(free) \in Nat
  BY SetupGiven, FS_Subset, FS_CardinalityType
<1>2. Min({count, Cardinality(free)}) = count BY <1>1, PairExtremes
<1>3. some = 1 .. count BY <1>2
<1>4. PICK anchors \in Injection(some, free), points \in [some -> Spots] :
        x = [locked |-> locked \cup Range(anchors), points |-> points]
  BY DEF Placements
<1> HIDE DEF some
<1>5. Len(points) = count
  <2>1. points \in Seq(Spots) BY <1>3, <1>4, SeqDef
  <2>2. Len(points) \in Nat /\ DOMAIN points = 1 .. Len(points) BY <2>1, LenProperties
  <2>3. DOMAIN points = 1 .. count BY <1>3, <1>4
  <2>4. ASSUME NEW j \in Nat, NEW k \in Nat, 1 .. j = 1 .. k PROVE j <= k
    <3>1. j \in 1 .. j \/ j = 0 OBVIOUS
    <3>2. QED BY <2>4, <3>1
  <2>5. Len(points) <= count /\ count <= Len(points) BY <2>2, <2>3, <2>4
  <2> DEFINE l == Len(points)
  <2>6. l \in Nat /\ l <= count /\ count <= l BY <2>2, <2>5
  <2> HIDE DEF l
  <2>7. l = count BY <2>6
  <2>8. QED BY <2>7 DEF l
<1>6. anchors \in Surjection(some, Range(anchors)) /\ Range(anchors) \subseteq free
  BY <1>4 DEF Injection, Surjection, Range
<1>7. anchors \in Injection(some, Range(anchors))
  BY <1>4, <1>6 DEF Injection, Surjection
<1>8. IsFiniteSet(Range(anchors)) /\ Cardinality(Range(anchors)) = count
  <2>1. IsFiniteSet(some) /\ Cardinality(some) = count BY <1>3, FS_Interval
  <2>2. QED BY <2>1, <1>6, <1>7, FS_Surjection
<1>9. QED BY <1>4, <1>5, <1>6, <1>8 DEF Range

LEMMA RolesServed ==
  ASSUME NEW s \in Setups(Sinks, Sources)
  PROVE  RolesServe(s, Sinks, Sources)
<1>1. Sinks \in Nat /\ Sources \in Nat /\ IsFiniteSet(Devs) /\ Cardinality(Devs) \in Nat
  BY PointsGiven, SetupGiven, FS_CardinalityType
<1>2. Sinks + Sources <= Cardinality(Devs) BY <1>1 DEF Setups
<1>3. PICK pos \in Networks(MaxPasses) :
        \E u \in Placements(Sinks, pos, {}) : \E v \in Placements(Sources, pos, u.locked) :
          s = [pos |-> pos, sinks |-> u.points, sources |-> v.points]
  BY <1>1, <1>2 DEF Setups
<1>a. PICK u \in Placements(Sinks, pos, {}) : \E v \in Placements(Sources, pos, u.locked) :
        s = [pos |-> pos, sinks |-> u.points, sources |-> v.points]
  BY <1>3
<1>b. PICK v \in Placements(Sources, pos, u.locked) :
        s = [pos |-> pos, sinks |-> u.points, sources |-> v.points]
  BY <1>a
<1>4. pos \in [Devs -> Spots] BY SetupGiven DEF Networks
<1>5. /\ Len(u.points) = Sinks /\ Range(u.points) \subseteq Spots
      /\ u.locked \in SUBSET Devs /\ Cardinality(u.locked) = Sinks
  <2> DEFINE none == {}
  <2>1. Devs \ none = Devs /\ \A S : none \cup S = S OBVIOUS
  <2>2. Cardinality(Devs \ none) >= Sinks BY <1>1, <1>2, <2>1
  <2>3. u \in Placements(Sinks, pos, none) OBVIOUS
  <2> HIDE DEF none
  <2>4. /\ Len(u.points) = Sinks /\ Range(u.points) \subseteq Spots
        /\ \E S \in SUBSET (Devs \ none) :
             IsFiniteSet(S) /\ Cardinality(S) = Sinks /\ u.locked = none \cup S
    BY <1>1, <1>4, <2>2, <2>3, PlacementsAre
  <2>5. QED BY <2>1, <2>4
<1>6. Cardinality(Devs \ u.locked) >= Sources
  <2>1. u.locked \subseteq Devs /\ Cardinality(u.locked) = Sinks BY <1>5
  <2>2. Devs \cap u.locked = u.locked BY <2>1
  <2>3. Cardinality(Devs \ u.locked) = Cardinality(Devs) - Sinks
    BY <1>1, <2>1, <2>2, FS_Difference
  <2>4. QED BY <1>1, <1>2, <2>3
<1>7. Len(v.points) = Sources /\ Range(v.points) \subseteq Spots
  BY <1>1, <1>4, <1>6, PlacementsAre
<1> DEFINE receivers == Winners(s.sinks, pos, {})
           senders == Winners(s.sources, pos, receivers)
           role == Roles(s.pos, s.sinks, s.sources)
<1>8. s.pos = pos /\ s.sinks = u.points /\ s.sources = v.points BY <1>b
<1>9. \A n \in Devs : role[n] = IF n \in senders THEN "SENDER"
                               ELSE IF n \in receivers THEN "RECEIVER" ELSE "REPEATER"
  BY <1>4, <1>8 DEF Roles
<1>10. /\ receivers \subseteq Devs
       /\ \A p \in Range(s.sinks) : InReach(pos, p) # {} => \E n \in InReach(pos, p) : n \in receivers
  <2>1. \A p : InReach(pos, p) \ {} = InReach(pos, p) OBVIOUS
  <2>2. Range(s.sinks) \subseteq Spots BY <1>5, <1>8
  <2>3. QED BY <1>4, <2>1, <2>2, WinnersAre
<1> HIDE DEF receivers
<1>11. /\ senders \subseteq Devs \ receivers
       /\ \A p \in Range(s.sources) : InReach(pos, p) \ receivers # {}
            => \E n \in InReach(pos, p) : n \in senders
  BY <1>4, <1>7, <1>8, WinnersAre
<1> HIDE DEF senders, role
<1>12. \A p \in Range(s.sinks) : InReach(pos, p) # {}
         => \E n \in InReach(pos, p) : role[n] = "RECEIVER"
  BY <1>9, <1>10, <1>11
<1>13. \A p \in Range(s.sources) :
         \/ \E n \in InReach(pos, p) : role[n] = "SENDER"
         \/ \A n \in InReach(pos, p) : role[n] = "RECEIVER"
  BY <1>9, <1>10, <1>11
<1>14. QED BY <1>5, <1>7, <1>8, <1>12, <1>13 DEF RolesServe, role

LEMMA DivisionIs ==
  ASSUME NEW i \in Nat, NEW c \in Nat \ {0}
  PROVE  /\ i \div c \in Nat /\ i % c \in 0 .. c-1
         /\ i = c * (i \div c) + (i % c)
<1>1. i \div c \in Nat BY Z3
<1>2. i % c \in 0 .. c-1 BY Z3
<1>3. i = c * (i \div c) + (i % c) BY Z3
<1>4. QED BY <1>1, <1>2, <1>3

LEMMA QuotientGrows ==
  ASSUME NEW i \in Nat, NEW j \in Nat, i <= j, NEW c \in Nat \ {0}
  PROVE  i \div c <= j \div c
<1> DEFINE a == i \div c
           b == j \div c
<1>1. a \in Nat /\ b \in Nat /\ i % c \in 0 .. c-1 /\ j % c \in 0 .. c-1
      /\ i = c * a + (i % c) /\ j = c * b + (j % c)
  BY DivisionIs
<1> HIDE DEF a, b
<1>2. ASSUME a >= b + 1 PROVE FALSE
  <2>1. c * a >= c * (b + 1) BY <1>1, <1>2, Z3
  <2>2. c * (b + 1) = c * b + c BY <1>1
  <2>3. c * a \in Int /\ c * b \in Int /\ i % c \in Int /\ j % c \in Int BY <1>1
  <2>4. QED BY <1>1, <2>1, <2>2, <2>3
<1>3. QED BY <1>1, <1>2 DEF a, b

LEMMA ColumnsAre ==
  ASSUME NEW n \in Nat \ {0}
  PROVE  Columns(n) \in 1 .. n
<1> DEFINE C == {c \in 0 .. n : c * c >= n}
<1>1. n \in C BY Z3
<1>2. IsFiniteSet(C) /\ C \subseteq Int
  <2>1. IsFiniteSet(0 .. n) BY FS_Interval
  <2>2. QED BY <2>1, FS_Subset
<1>3. PICK c \in C : \A d \in C : c <= d
  <2> HIDE DEF C
  <2> QED BY <1>1, <1>2, LeastExists
<1>4. c \in 0 .. n /\ c * c >= n BY <1>3
<1>5. ASSUME NEW d \in 0 .. c-1 PROVE d * d < n
  <2>1. d \in 0 .. n /\ d \notin C BY <1>3, <1>4
  <2>2. d * d \in Int OBVIOUS
  <2>3. QED BY <2>1, <2>2
<1>6. Columns(n) \in 0 .. n /\ Columns(n) * Columns(n) >= n BY <1>4, <1>5 DEF Columns
<1>7. Columns(n) # 0 BY <1>6
<1>8. QED BY <1>6, <1>7

LEMMA GridIs ==
  ASSUME NEW n \in Nat \ {0}
  PROVE  GridApart(n)
<1> DEFINE c == Columns(n)
<1>1. c \in Nat \ {0} BY ColumnsAre
<1> HIDE DEF c
<1>2. \A i \in 0 .. n-1 : Grid(n)[i] = <<i % c, i \div c>> BY DEF Grid, c
<1>3. \A i, j \in 0 .. n-1 : Grid(n)[i] = Grid(n)[j] => i = j
  <2> SUFFICES ASSUME NEW i \in 0 .. n-1, NEW j \in 0 .. n-1, Grid(n)[i] = Grid(n)[j]
               PROVE  i = j
    OBVIOUS
  <2>1. i % c = j % c /\ i \div c = j \div c BY <1>2
  <2>2. i = c * (i \div c) + (i % c) /\ j = c * (j \div c) + (j % c) BY <1>1, DivisionIs
  <2>3. QED BY <2>1, <2>2
<1>4. LastColumn(n) \in Int /\ LastColumn(n) >= c - 1
  <2> DEFINE k == c - 1
  <2>1. LastColumn(n) = Max({k, 1}) BY DEF LastColumn, c
  <2>2. k \in Int BY <1>1
  <2> HIDE DEF k
  <2>3. Max({k, 1}) = IF k >= 1 THEN k ELSE 1 BY <2>2, PairExtremes
  <2>4. QED BY <2>1, <2>2, <2>3 DEF k
<1>5. LastRow(n) \in Int /\ LastRow(n) >= (n - 1) \div c
  <2>1. (n - 1) \div c \in Nat BY <1>1, DivisionIs
  <2> DEFINE r == (n - 1) \div c
  <2>2. LastRow(n) = Max({r, 1}) BY DEF LastRow, c
  <2> HIDE DEF r
  <2>3. r \in Int BY <2>1 DEF r
  <2>4. Max({r, 1}) = IF r >= 1 THEN r ELSE 1 BY <2>3, PairExtremes
  <2>5. QED BY <2>2, <2>3, <2>4 DEF r
<1>6. ASSUME NEW i \in 0 .. n-1
      PROVE  Grid(n)[i][1] <= LastColumn(n) /\ Grid(n)[i][2] <= LastRow(n)
  <2>0. i \in Nat /\ n - 1 \in Nat /\ i <= n - 1 OBVIOUS
  <2>1. i % c \in 0 .. c-1 /\ i \div c \in Nat /\ (n - 1) \div c \in Nat
    BY <2>0, <1>1, DivisionIs
  <2>2. i \div c <= (n - 1) \div c BY <2>0, <1>1, QuotientGrows
  <2>3. Grid(n)[i][1] = i % c /\ Grid(n)[i][2] = i \div c BY <1>2
  <2>4. QED BY <2>1, <2>2, <2>3, <1>1, <1>4, <1>5
<1>7. QED BY <1>3, <1>6 DEF GridApart

\* A behaviour's program and input are those it starts with.
InputInv == input \in Inputs(prog)

LEMMA SetupSafe == InputInv => SetupServes
<1> SUFFICES ASSUME InputInv PROVE SetupServes OBVIOUS
<1>1. CASE prog = "deploy"
  <2>1. input \in [Devs -> Spots] BY <1>1 DEF InputInv, Inputs
  <2>2. QED BY <1>1, <2>1, MigrationIs, SharingIs DEF SetupServes
<1>2. CASE prog = "roles_of"
  <2>1. input \in Setups(Sinks, Sources) BY <1>2 DEF InputInv, Inputs
  <2>2. QED BY <1>2, <2>1, RolesServed DEF SetupServes
<1>3. CASE prog = "grid"
  <2>1. input \in 1 .. Extent * Extent BY <1>3 DEF InputInv, Inputs
  <2>2. input \in Nat \ {0} BY <2>1, PointsGiven
  <2>3. QED BY <1>3, <2>2, GridIs DEF SetupServes
<1>4. CASE prog \notin {"deploy", "roles_of", "grid"} BY <1>4 DEF SetupServes
<1>5. QED BY <1>1, <1>2, <1>3, <1>4

\* Wherever the devices stand: relocating the isolated ones isolates no other, who
\* shares data with whom is mutual, every sink and every source gets a point and the
\* nearest device of those that reach it, no source takes a sink's, and each device
\* of a grid has a place of its own inside the area.
THEOREM SetupsServe == Spec => []SetupServes
<1>1. Init => InputInv BY DEF Init, InputInv
<1>2. InputInv /\ [Next]_vars => InputInv'
  <2> SUFFICES ASSUME InputInv, [Next]_vars PROVE InputInv' OBVIOUS
  <2>1. UNCHANGED <<prog, input>> BY DEF Next, vars
  <2>2. Inputs(prog)' = Inputs(prog) BY <2>1 DEF Inputs
  <2>3. QED BY <2>1, <2>2 DEF InputInv
<1>3. QED BY <1>1, <1>2, SetupSafe, PTL DEF Spec

-----------------------------------------------------------------------------
(* Distances in the network.  Ball(S, k): the devices that a walk of k steps *)
(* from S ends at; a step may stay where it is.                              *)

LEMMA SetInduction ==
  ASSUME NEW Good, 0 \in Good, \A k \in Nat : k \in Good => k + 1 \in Good
  PROVE  Nat \subseteq Good
<1> SUFFICES ASSUME NEW k \in Nat, k \notin Good PROVE FALSE OBVIOUS
<1> DEFINE Bad == {j \in 0 .. k : j \notin Good}
<1>1. IsFiniteSet(0 .. k) BY FS_Interval
<1>2. Bad \subseteq 0 .. k /\ Bad \subseteq Int /\ k \in Bad OBVIOUS
<1>3. IsFiniteSet(Bad) BY <1>1, <1>2, FS_Subset
<1>4. PICK j \in Bad : \A i \in Bad : j <= i
  <2> HIDE DEF Bad
  <2> QED BY <1>2, <1>3, LeastExists
<1>5. j # 0 BY <1>4
<1>6. j - 1 \in Nat /\ j - 1 \in 0 .. k /\ j - 1 \notin Bad BY <1>4, <1>5
<1>7. j - 1 \in Good BY <1>6
<1>8. j \in Good BY <1>6, <1>7
<1>9. QED BY <1>4, <1>8

Walk(w, S, k) ==
  /\ w \in [0 .. k -> Nodes]
  /\ w[0] \in S
  /\ \A i \in 1 .. k : w[i] = w[i - 1] \/ w[i] \in Hood(w[i - 1])
Ball(S, k) == {n \in Nodes : \E w : Walk(w, S, k) /\ w[k] = n}
Spread(B) == B \cup UNION {Hood(m) : m \in B}

LEMMA HoodMutual ==
  ASSUME NEW n \in Nodes, NEW m \in Hood(n)
  PROVE  m \in Nodes /\ n \in Hood(m)
<1>1. m \in Nodes /\ {m, n} \in links BY DEF Hood
<1>2. {m, n} = {n, m} OBVIOUS
<1>3. QED BY <1>1, <1>2 DEF Hood

LEMMA BallZero ==
  ASSUME NEW S \in SUBSET Nodes
  PROVE  Ball(S, 0) = S
<1>1. ASSUME NEW n \in S PROVE n \in Ball(S, 0)
  <2> DEFINE w == [i \in 0 .. 0 |-> n]
  <2>1. Walk(w, S, 0) /\ w[0] = n BY DEF Walk
  <2>2. QED BY <2>1 DEF Ball
<1>2. ASSUME NEW n \in Ball(S, 0) PROVE n \in S
  BY <1>2 DEF Ball, Walk
<1>3. QED BY <1>1, <1>2

LEMMA BallStep ==
  ASSUME NEW S \in SUBSET Nodes, NEW k \in Nat
  PROVE  Ball(S, k + 1) = Spread(Ball(S, k))
<1>1. ASSUME NEW n \in Ball(S, k + 1) PROVE n \in Spread(Ball(S, k))
  <2>1. PICK w : Walk(w, S, k + 1) /\ w[k + 1] = n BY <1>1 DEF Ball
  <2> DEFINE v == [i \in 0 .. k |-> w[i]]
  <2>2. v \in [0 .. k -> Nodes] /\ v[0] \in S BY <2>1 DEF Walk
  <2>3. \A i \in 1 .. k : v[i] = w[i] /\ v[i - 1] = w[i - 1] OBVIOUS
  <2>4. \A i \in 1 .. k : v[i] = v[i - 1] \/ v[i] \in Hood(v[i - 1])
    <3>1. \A i \in 1 .. k : i \in 1 .. k + 1 OBVIOUS
    <3>2. QED BY <2>1, <2>3, <3>1 DEF Walk
  <2>5. Walk(v, S, k) BY <2>2, <2>4 DEF Walk
  <2>6. v[k] = w[k] /\ v[k] \in Nodes BY <2>2
  <2>7. w[k] \in Ball(S, k) BY <2>5, <2>6 DEF Ball
  <2>8. n = w[k] \/ n \in Hood(w[k])
    <3>1. k + 1 \in 1 .. k + 1 /\ (k + 1) - 1 = k OBVIOUS
    <3>2. QED BY <2>1, <3>1 DEF Walk
  <2>9. QED BY <2>7, <2>8 DEF Spread
<1>2. ASSUME NEW n \in Spread(Ball(S, k)) PROVE n \in Ball(S, k + 1)
  <2>1. PICK m \in Ball(S, k) : n = m \/ n \in Hood(m) BY <1>2 DEF Spread
  <2>2. n \in Nodes BY <2>1 DEF Hood, Ball
  <2>3. PICK w : Walk(w, S, k) /\ w[k] = m BY <2>1 DEF Ball
  <2> DEFINE v == [i \in 0 .. k + 1 |-> IF i = k + 1 THEN n ELSE w[i]]
  <2>4. v \in [0 .. k + 1 -> Nodes] BY <2>2, <2>3 DEF Walk
  <2>5. v[0] \in S /\ v[k + 1] = n /\ v[k] = m BY <2>3 DEF Walk
  <2>6. \A i \in 1 .. k : v[i] = w[i] /\ v[i - 1] = w[i - 1] OBVIOUS
  <2>7. \A i \in 1 .. k + 1 : v[i] = v[i - 1] \/ v[i] \in Hood(v[i - 1])
    <3>1. ASSUME NEW i \in 1 .. k + 1 PROVE i \in 1 .. k \/ (i = k + 1 /\ i - 1 = k) OBVIOUS
    <3>2. \A i \in 1 .. k : v[i] = v[i - 1] \/ v[i] \in Hood(v[i - 1])
      BY <2>3, <2>6 DEF Walk
    <3>3. v[k + 1] = v[k] \/ v[k + 1] \in Hood(v[k]) BY <2>1, <2>5
    <3> HIDE DEF v
    <3>4. QED BY <3>1, <3>2, <3>3
  <2>8. Walk(v, S, k + 1) BY <2>4, <2>5, <2>7 DEF Walk
  <2> HIDE DEF v
  <2>9. QED BY <2>2, <2>5, <2>8 DEF Ball
<1>3. QED BY <1>1, <1>2

\* The walks from a set are those from its members.
LEMMA BallUnion ==
  ASSUME NEW S \in SUBSET Nodes, NEW k \in Nat, NEW n
  PROVE  n \in Ball(S, k) <=> \E s \in S : n \in Ball({s}, k)
<1>1. ASSUME n \in Ball(S, k) PROVE \E s \in S : n \in Ball({s}, k)
  <2>1. PICK w : Walk(w, S, k) /\ w[k] = n BY <1>1 DEF Ball
  <2>2. w[0] \in S /\ Walk(w, {w[0]}, k) BY <2>1 DEF Walk
  <2>3. n \in Ball({w[0]}, k) BY <1>1, <2>1, <2>2 DEF Ball
  <2>4. QED BY <2>2, <2>3
<1>2. ASSUME NEW s \in S, n \in Ball({s}, k) PROVE n \in Ball(S, k)
  BY <1>2 DEF Ball, Walk
<1>3. QED BY <1>1, <1>2

\* A walk can be walked back.
LEMMA BallMutual ==
  ASSUME NEW n \in Nodes, NEW m \in Nodes, NEW k \in Nat, n \in Ball({m}, k)
  PROVE  m \in Ball({n}, k)
<1>1. PICK w : Walk(w, {m}, k) /\ w[k] = n BY DEF Ball
<1> DEFINE v == [i \in 0 .. k |-> w[k - i]]
<1>2. v \in [0 .. k -> Nodes] BY <1>1 DEF Walk
<1>3. v[0] = n /\ v[k] = m BY <1>1 DEF Walk
<1>4. ASSUME NEW i \in 1 .. k PROVE v[i] = v[i - 1] \/ v[i] \in Hood(v[i - 1])
  <2> DEFINE j == k - i + 1
  <2>1. j \in 1 .. k /\ j - 1 = k - i /\ k - (i - 1) = j OBVIOUS
  <2>2. v[i] = w[j - 1] /\ v[i - 1] = w[j] BY <2>1
  <2>3. w[j] = w[j - 1] \/ w[j] \in Hood(w[j - 1]) BY <1>1, <2>1 DEF Walk
  <2>4. w[j - 1] \in Nodes BY <1>1, <2>1 DEF Walk
  <2> HIDE DEF j, v
  <2>5. QED BY <2>2, <2>3, <2>4, HoodMutual
<1> HIDE DEF v
<1>5. Walk(v, {n}, k) BY <1>2, <1>3, <1>4 DEF Walk
<1>6. QED BY <1>3, <1>5 DEF Ball

\* The number of steps it takes to come to a device.
First(S, n, k) == n \in Ball(S, k) /\ \A i \in 0 .. k - 1 : n \notin Ball(S, i)

LEMMA FirstExists ==
  ASSUME NEW S, NEW n, NEW k \in Nat, n \in Ball(S, k)
  PROVE  \E j \in 0 .. k : First(S, n, j)
<1> DEFINE J == {j \in 0 .. k : n \in Ball(S, j)}
<1>1. J \subseteq 0 .. k /\ J \subseteq Int /\ k \in J OBVIOUS
<1>2. IsFiniteSet(J)
  <2>1. IsFiniteSet(0 .. k) BY FS_Interval
  <2> HIDE DEF J
  <2>2. QED BY <1>1, <2>1, FS_Subset
<1>3. PICK j \in J : \A i \in J : j <= i
  <2> HIDE DEF J
  <2> QED BY <1>1, <1>2, LeastExists
<1>4. j \in 0 .. k /\ n \in Ball(S, j) BY <1>3
<1>5. ASSUME NEW i \in 0 .. j - 1 PROVE n \notin Ball(S, i)
  <2>1. i \in 0 .. k /\ ~(j <= i) BY <1>4
  <2>2. QED BY <1>3, <2>1
<1>6. QED BY <1>4, <1>5 DEF First

LEMMA FirstBack ==
  ASSUME NEW S \in SUBSET Nodes, NEW n \in Nodes, NEW k \in Nat, First(S, n, k + 1)
  PROVE  \E m \in Nodes : First(S, m, k) /\ n \in Hood(m)
<1>1. n \in Spread(Ball(S, k)) BY BallStep DEF First
<1>2. n \notin Ball(S, k)
  <2>1. k \in 0 .. (k + 1) - 1 OBVIOUS
  <2>2. QED BY <2>1 DEF First
<1>3. PICK m \in Ball(S, k) : n \in Hood(m) BY <1>1, <1>2 DEF Spread
<1>4. ASSUME NEW i \in 0 .. k - 1, m \in Ball(S, i) PROVE FALSE
  <2>1. i \in Nat /\ i + 1 \in 0 .. (k + 1) - 1 OBVIOUS
  <2>2. n \in Ball(S, i + 1) BY <1>3, <1>4, <2>1, BallStep DEF Spread
  <2>3. QED BY <2>1, <2>2 DEF First
<1>5. m \in Nodes BY DEF Ball
<1>6. QED BY <1>3, <1>4, <1>5 DEF First

LEMMA NodesFew ==
  ASSUME Shape
  PROVE  Cardinality(Nodes) \in Nat /\ Cardinality(Nodes) <= N
<1>1. IsFiniteSet(0 .. N-1) /\ Cardinality(0 .. N-1) = N
  BY SizesAreNatural, FS_Interval
<1>2. QED BY <1>1, NodesFinite, FS_Subset, FS_CardinalityType

\* On the way to a device there is one for each smaller number of steps, so that
\* the numbers stay below that of the devices.
LEMMA FirstShort ==
  ASSUME Shape, NEW S \in SUBSET Nodes, NEW n \in Nodes, NEW k \in Nat, First(S, n, k)
  PROVE  k < Cardinality(Nodes) /\ k < Far
<1> DEFINE Good == {j \in Nat : j > k \/ \E m \in Nodes : First(S, m, k - j)}
<1>1. 0 \in Good
  <2>1. k - 0 = k OBVIOUS
  <2>2. QED BY <2>1
<1>2. ASSUME NEW j \in Nat, j \in Good PROVE j + 1 \in Good
  <2>1. CASE j + 1 > k BY <2>1
  <2>2. CASE j + 1 <= k
    <3> DEFINE i == k - (j + 1)
    <3>1. i \in Nat /\ k - j = i + 1 BY <2>2
    <3>2. PICK m \in Nodes : First(S, m, i + 1)
      <4>1. ~(j > k) BY <2>2
      <4>2. PICK m \in Nodes : First(S, m, k - j) BY <1>2, <4>1
      <4>3. QED BY <3>1, <4>2
    <3> HIDE DEF i
    <3>3. \E x \in Nodes : First(S, x, i) BY <3>1, <3>2, FirstBack
    <3>4. QED BY <3>3 DEF i
  <2>3. QED BY <2>1, <2>2
<1>3. Nat \subseteq Good
  <2> HIDE DEF Good
  <2> QED BY <1>1, <1>2, SetInduction
<1>4. ASSUME NEW j \in 0 .. k PROVE \E m \in Nodes : First(S, m, j)
  <2>1. k - j \in Nat /\ k - j <= k /\ k - (k - j) = j OBVIOUS
  <2>2. k - j \in Good BY <1>3, <2>1
  <2>3. \E m \in Nodes : First(S, m, k - (k - j)) BY <2>1, <2>2
  <2>4. QED BY <2>1, <2>3
<1> DEFINE g == [j \in 0 .. k |-> CHOOSE m \in Nodes : First(S, m, j)]
<1>5. \A j \in 0 .. k : g[j] \in Nodes /\ First(S, g[j], j) BY <1>4
<1>6. ASSUME NEW i \in 0 .. k, NEW j \in 0 .. k, g[i] = g[j], i < j PROVE FALSE
  <2> HIDE DEF g
  <2>1. i \in 0 .. j - 1 BY <1>6
  <2>2. g[i] \in Ball(S, i) BY <1>5 DEF First
  <2>3. g[j] \notin Ball(S, i) BY <1>5, <2>1 DEF First
  <2>4. QED BY <1>6, <2>2, <2>3
<1>7. g \in Injection(0 .. k, Nodes)
  <2>1. g \in [0 .. k -> Nodes] BY <1>5
  <2> HIDE DEF g
  <2>2. ASSUME NEW i \in 0 .. k, NEW j \in 0 .. k, g[i] = g[j] PROVE i = j
    <3>1. i < j \/ j < i \/ i = j OBVIOUS
    <3>2. QED BY <1>6, <2>2, <3>1
  <2>3. QED BY <2>1, <2>2 DEF Injection, IsInjective
<1>8. Cardinality(0 .. k) <= Cardinality(Nodes)
  BY <1>7, NodesFinite, FS_Injection
<1>9. Cardinality(0 .. k) = k + 1
  <2>1. k \in Int /\ ~(0 > k) OBVIOUS
  <2>2. QED BY <2>1, FS_Interval
<1>10. QED BY <1>8, <1>9, NodesFew, SizesAreNatural

\* What FoldSet computes in HopsFrom.
LEMMA BallsAre ==
  ASSUME NEW s \in Nodes, NEW k \in Nat
  PROVE  FoldSet(LAMBDA i, b : b \cup UNION {Hood(m) : m \in b}, {s}, 1 .. k) = Ball({s}, k)
<1> DEFINE S == 1 .. k
           Pick(T) == CHOOSE x \in T : TRUE
           R(h) == h = [T \in SUBSET S |-> IF T = {} THEN {s} ELSE
                          h[T \ {Pick(T)}] \cup UNION {Hood(m) : m \in h[T \ {Pick(T)}]}]
           size == [T \in SUBSET S |-> Ball({s}, Cardinality(T))]
           ball == CHOOSE h : R(h)
<1>1. \A T \in SUBSET S : T # {} => Pick(T) \in T /\ Pick(T) \in S OBVIOUS
<1>2. IsFiniteSet(S) /\ Cardinality(S) = k BY FS_Interval
<1> HIDE DEF Pick, S
<1>3. ASSUME NEW T \in SUBSET S, T # {}
      PROVE  LET U == T \ {Pick(T)} IN
             /\ U \in SUBSET S /\ Cardinality(U) \in Nat
             /\ Ball({s}, Cardinality(T)) = Spread(Ball({s}, Cardinality(U)))
  <2> DEFINE U == T \ {Pick(T)}
  <2>1. IsFiniteSet(T) BY <1>2, FS_Subset
  <2>2. Pick(T) \in T BY <1>1, <1>3
  <2>3. Cardinality(U) = Cardinality(T) - 1 /\ IsFiniteSet(U)
    BY <2>1, <2>2, FS_RemoveElement
  <2>4. Cardinality(U) \in Nat /\ Cardinality(T) \in Nat BY <2>1, <2>3, FS_CardinalityType
  <2>5. Cardinality(T) = Cardinality(U) + 1 BY <2>3, <2>4
  <2> HIDE DEF U
  <2>6. Ball({s}, Cardinality(T)) = Spread(Ball({s}, Cardinality(U)))
    BY <2>4, <2>5, BallStep
  <2>7. QED BY <2>4, <2>6 DEF U
<1>4. Ball({s}, Cardinality({})) = {s} BY FS_EmptySet, BallZero
<1>5. R(size) BY <1>3, <1>4 DEF Spread
<1>6. R(ball) BY <1>5
<1>7. FoldSet(LAMBDA i, b : b \cup UNION {Hood(m) : m \in b}, {s}, 1 .. k) = ball[S]
  BY DEF FoldSet, MapThenFoldSet, Pick, S
<1> HIDE DEF ball
<1>8. ASSUME NEW T \in SUBSET S, T # {} PROVE ball[T] = Spread(ball[T \ {Pick(T)}])
  BY <1>6, <1>8 DEF Spread
<1>9. ball[{}] = {s} BY <1>6
<1> DEFINE Good == {T \in SUBSET S : ball[T] = Ball({s}, Cardinality(T))}
<1>10. ASSUME NEW T \in SUBSET S, \A U \in SUBSET T : U # T => U \in Good
       PROVE  T \in Good
  <2>1. CASE T = {} BY <2>1, <1>4, <1>9
  <2>2. CASE T # {}
    <3>1. T \ {Pick(T)} \in Good BY <1>1, <1>10, <2>2
    <3>2. QED BY <3>1, <1>3, <1>8, <2>2
  <2>3. QED BY <2>1, <2>2
<1>11. S \in Good
  <2> HIDE DEF Good
  <2> QED BY <1>2, <1>10, SubsetInduction
<1>12. QED BY <1>2, <1>7, <1>11

\* HopsFrom counts the steps of the shortest walk, as far as there is one.
LEMMA HopsAre ==
  ASSUME Shape, NEW s \in Nodes, NEW n \in Nodes
  PROVE  /\ HopsFrom(s)[n] \in 0 .. Far
         /\ HopsFrom(s)[n] < Far => n \in Ball({s}, HopsFrom(s)[n])
         /\ \A k \in Nat : n \in Ball({s}, k) => HopsFrom(s)[n] <= k /\ HopsFrom(s)[n] < Far
<1> DEFINE c == Cardinality(Nodes)
           balls == [k \in 0 .. Cardinality(Nodes) |->
                      FoldSet(LAMBDA i, b : b \cup UNION {Hood(m) : m \in b}, {s}, 1 .. k)]
           K == {k \in DOMAIN balls : n \in balls[k]}
           D == {Far} \cup K
           h == HopsFrom(s)[n]
<1>1. c \in Nat BY NodesFew
<1>2. DOMAIN balls = 0 .. c /\ \A k \in 0 .. c : balls[k] = Ball({s}, k)
  <2>1. \A k \in Nat : FoldSet(LAMBDA i, b : b \cup UNION {Hood(m) : m \in b}, {s}, 1 .. k)
                       = Ball({s}, k)
    BY BallsAre DEF FoldSet, MapThenFoldSet
  <2>2. \A k \in 0 .. c : k \in Nat BY <1>1
  <2>3. DOMAIN balls = 0 .. c OBVIOUS
  <2> HIDE DEF c
  <2>4. QED BY <2>1, <2>2, <2>3 DEF FoldSet, MapThenFoldSet
<1>3. h = Min(D) BY DEF HopsFrom, FoldSet, MapThenFoldSet
<1> HIDE DEF balls, c
<1>4. K \subseteq 0 .. c /\ IsFiniteSet(0 .. c) BY <1>1, <1>2, FS_Interval
<1>5. IsFiniteSet(D)
  <2>1. IsFiniteSet(K)
    <3> HIDE DEF K
    <3> QED BY <1>4, FS_Subset
  <2>2. D = K \cup {Far} OBVIOUS
  <2>3. QED BY <2>1, <2>2, FS_AddElement
<1>6. D \subseteq Nat /\ D # {} /\ D \subseteq Int BY <1>4, SizesAreNatural
<1>7. h \in D /\ \A y \in D : h <= y
  <2> HIDE DEF D, h
  <2> QED BY <1>3, <1>5, <1>6, MinIs
<1>8. Far \in D OBVIOUS
<1>9. h \in 0 .. Far BY <1>6, <1>7, <1>8, SizesAreNatural
<1>10. h < Far => n \in Ball({s}, h)
  <2>1. h < Far => h \in K BY <1>7, <1>9
  <2>2. h \in K => n \in Ball({s}, h) BY <1>2
  <2>3. QED BY <2>1, <2>2
<1>11. ASSUME NEW k \in Nat, n \in Ball({s}, k) PROVE h <= k /\ h < Far
  <2>1. PICK j \in 0 .. k : First({s}, n, j) BY <1>11, FirstExists
  <2>2. j < c /\ j < Far BY <2>1, FirstShort DEF c
  <2>3. j \in 0 .. c /\ n \in Ball({s}, j) BY <1>1, <2>1, <2>2 DEF First
  <2>4. j \in D BY <2>3, <1>2
  <2>5. h <= j BY <1>7, <2>4
  <2>6. QED BY <1>9, <2>1, <2>2, <2>5, SizesAreNatural
<1> HIDE DEF h
<1>12. QED BY <1>9, <1>10, <1>11 DEF h

LEMMA ComponentIs ==
  ASSUME Shape, NEW s \in Nodes
  PROVE  /\ Component(s) \subseteq Nodes
         /\ \A n \in Nodes : n \in Component(s) <=> HopsFrom(s)[n] < Far
         /\ \A n \in Nodes : n \in Component(s) <=> \E k \in Nat : n \in Ball({s}, k)
         /\ s \in Component(s)
<1>1. \A n \in Nodes : n \in Component(s) <=> HopsFrom(s)[n] < Far BY DEF Component
<1>2. Component(s) \subseteq Nodes BY DEF Component
<1>3. ASSUME NEW n \in Nodes
      PROVE  n \in Component(s) <=> \E k \in Nat : n \in Ball({s}, k)
  <2>1. /\ HopsFrom(s)[n] \in 0 .. Far
        /\ HopsFrom(s)[n] < Far => n \in Ball({s}, HopsFrom(s)[n])
        /\ \A k \in Nat : n \in Ball({s}, k) => HopsFrom(s)[n] <= k /\ HopsFrom(s)[n] < Far
    BY HopsAre
  <2> DEFINE h == HopsFrom(s)[n]
  <2> HIDE DEF h
  <2>2. h \in Nat /\ (h < Far => n \in Ball({s}, h)) /\ \A k \in Nat : n \in Ball({s}, k) => h < Far
    BY <2>1, SizesAreNatural DEF h
  <2>3. QED BY <1>1, <2>2 DEF h
<1>4. s \in Ball({s}, 0) BY BallZero
<1>5. QED BY <1>1, <1>2, <1>3, <1>4

LEMMA ComponentMutual ==
  ASSUME Shape, NEW s \in Nodes, NEW n \in Component(s)
  PROVE  n \in Nodes /\ s \in Component(n)
<1>1. n \in Nodes BY ComponentIs
<1>2. PICK k \in Nat : n \in Ball({s}, k) BY <1>1, ComponentIs
<1>3. s \in Ball({n}, k) BY <1>1, <1>2, BallMutual
<1>4. QED BY <1>1, <1>3, ComponentIs

\* A set of devices that links do not leave.
Closed(C) == C \subseteq Nodes /\ \A n \in C : Hood(n) \subseteq C

LEMMA ComponentClosed ==
  ASSUME Shape, NEW s \in Nodes
  PROVE  Closed(Component(s))
<1>1. ASSUME NEW n \in Component(s), NEW m \in Hood(n) PROVE m \in Component(s)
  <2>1. n \in Nodes /\ m \in Nodes BY ComponentIs DEF Hood
  <2>2. PICK k \in Nat : n \in Ball({s}, k) BY <2>1, ComponentIs
  <2>3. m \in Ball({s}, k + 1)
    <3>1. {s} \in SUBSET Nodes OBVIOUS
    <3>2. m \in Spread(Ball({s}, k)) BY <2>2 DEF Spread
    <3> QED BY <3>1, <3>2, BallStep
  <2>4. k + 1 \in Nat OBVIOUS
  <2>5. QED BY <2>1, <2>3, <2>4, ComponentIs
<1>2. QED BY <1>1, ComponentIs DEF Closed

LEMMA ClosedContains ==
  ASSUME Shape, NEW C, Closed(C), NEW s \in C
  PROVE  s \in Nodes /\ Component(s) \subseteq C
<1> DEFINE Good == {k \in Nat : Ball({s}, k) \subseteq C}
<1>1. s \in Nodes /\ {s} \in SUBSET Nodes BY DEF Closed
<1>2. 0 \in Good BY <1>1, BallZero
<1>3. ASSUME NEW k \in Nat, k \in Good PROVE k + 1 \in Good
  <2>1. Ball({s}, k) \subseteq C BY <1>3
  <2>2. Spread(Ball({s}, k)) \subseteq C BY <2>1 DEF Spread, Closed
  <2>3. QED BY <1>1, <2>2, BallStep
<1>4. Nat \subseteq Good
  <2> HIDE DEF Good
  <2> QED BY <1>2, <1>3, SetInduction
<1>5. ASSUME NEW n \in Component(s) PROVE n \in C
  <2>1. n \in Nodes BY <1>1, ComponentIs
  <2>2. PICK k \in Nat : n \in Ball({s}, k) BY <1>1, <2>1, ComponentIs
  <2>3. QED BY <1>4, <2>2
<1>6. QED BY <1>1, <1>5

(* Distances that no device would change.                                    *)

LEMMA GradientIs ==
  ASSUME Shape, NEW n, NEW dist, \A m \in Nodes : dist[m] \in Nat
  PROVE  /\ Gradient(TRUE, dist, n) = 0
         /\ Gradient(FALSE, dist, n) \in 0 .. Far
         /\ \A m \in Hood(n) : Gradient(FALSE, dist, n) <= dist[m] + 1
         /\ Gradient(FALSE, dist, n) < Far
              => \E m \in Hood(n) : Gradient(FALSE, dist, n) = dist[m] + 1
<1> DEFINE D == {Far} \cup {dist[m] + 1 : m \in Hood(n)}
           g == Gradient(FALSE, dist, n)
           one == [m \in Hood(n) |-> dist[m] + 1]
<1>1. IsFiniteSet(D)
  <2>1. IsFiniteSet({one[m] : m \in Hood(n)}) BY HoodFinite, FiniteImage
  <2>2. {one[m] : m \in Hood(n)} = {dist[m] + 1 : m \in Hood(n)} OBVIOUS
  <2>3. D = {dist[m] + 1 : m \in Hood(n)} \cup {Far} OBVIOUS
  <2>4. QED BY <2>1, <2>2, <2>3, FS_AddElement
<1>2. D \subseteq Nat /\ D # {} /\ D \subseteq Int BY SizesAreNatural, HoodFinite
<1>3. Min(D) \in D /\ \A y \in D : Min(D) <= y
  <2> HIDE DEF D
  <2> QED BY <1>1, <1>2, MinIs
<1>4. g = IF Min(D) < Far THEN Min(D) ELSE Far BY DEF Gradient, Capped
<1>5. Gradient(TRUE, dist, n) = 0 BY DEF Gradient
<1>6. Far \in D /\ Far \in Nat BY SizesAreNatural
<1>7. g = Min(D)
  <2>1. Min(D) \in Nat /\ Min(D) <= Far BY <1>2, <1>3, <1>6
  <2> HIDE DEF D, g
  <2>2. QED BY <2>1, <1>4, <1>6
<1> HIDE DEF g
<1>8. g \in 0 .. Far BY <1>2, <1>3, <1>6, <1>7
<1>9. \A m \in Hood(n) : dist[m] + 1 \in D OBVIOUS
<1>10. \A m \in Hood(n) : g <= dist[m] + 1 BY <1>3, <1>7, <1>9
<1>11. g < Far => \E m \in Hood(n) : g = dist[m] + 1 BY <1>3, <1>6, <1>7
<1>12. QED BY <1>5, <1>8, <1>10, <1>11 DEF g

Fixed(S, dist) ==
  \A n \in Nodes : dist[n] \in Nat /\ dist[n] = Gradient(n \in S, dist, n)

LEMMA FixedIs ==
  ASSUME Shape, NEW S, NEW dist, Fixed(S, dist), NEW n \in Nodes
  PROVE  /\ dist[n] \in 0 .. Far
         /\ dist[n] = 0 <=> n \in S \/ Far = 0
         /\ \A m \in Hood(n) : dist[n] <= dist[m] + 1 /\ dist[m] <= dist[n] + 1
         /\ n \notin S /\ dist[n] < Far => \E m \in Hood(n) : dist[n] = dist[m] + 1
<1>1. \A m \in Nodes : dist[m] \in Nat BY DEF Fixed
<1>2. ASSUME NEW x \in Nodes
      PROVE  /\ dist[x] \in 0 .. Far
             /\ \A m \in Hood(x) : dist[x] <= dist[m] + 1
             /\ x \in S => dist[x] = 0
             /\ x \notin S /\ dist[x] < Far => \E m \in Hood(x) : dist[x] = dist[m] + 1
  <2>1. CASE x \in S
    <3>1. (x \in S) = TRUE BY <2>1
    <3>2. dist[x] = Gradient(TRUE, dist, x) BY <3>1 DEF Fixed
    <3>3. dist[x] = 0 BY <1>1, <3>2, GradientIs
    <3>4. \A m \in Hood(x) : dist[m] \in Nat BY <1>1, HoodFinite
    <3>5. QED BY <2>1, <3>3, <3>4, SizesAreNatural
  <2>2. CASE x \notin S
    <3>1. (x \in S) = FALSE BY <2>2
    <3>2. dist[x] = Gradient(FALSE, dist, x) BY <3>1 DEF Fixed
    <3>3. QED BY <1>1, <2>2, <3>2, GradientIs
  <2>3. QED BY <2>1, <2>2
<1>3. \A m \in Hood(n) : dist[m] <= dist[n] + 1 BY <1>2, HoodMutual
<1>4. \A m \in Hood(n) : dist[m] \in Nat BY <1>1, HoodFinite
<1>5. dist[n] = 0 => n \in S \/ Far = 0
  <2>1. ASSUME dist[n] = 0, n \notin S, Far # 0 PROVE FALSE
    <3>1. dist[n] < Far BY <2>1, SizesAreNatural
    <3>2. PICK m \in Hood(n) : dist[n] = dist[m] + 1 BY <1>2, <2>1, <3>1
    <3>3. QED BY <1>4, <2>1, <3>2
  <2>2. QED BY <2>1
<1>6. Far = 0 => dist[n] = 0 BY <1>2
<1>7. QED BY <1>2, <1>3, <1>5, <1>6

\* Along a walk distances grow by at most its steps.
LEMMA FixedBelow ==
  ASSUME Shape, NEW S, NEW dist, Fixed(S, dist), NEW x \in Nodes,
         NEW k \in Nat, NEW n \in Ball({x}, k)
  PROVE  dist[n] <= dist[x] + k
<1> DEFINE Good == {j \in Nat : \A m \in Ball({x}, j) : dist[m] <= dist[x] + j}
<1>0. \A m \in Nodes : dist[m] \in Nat BY DEF Fixed
<1>1. 0 \in Good
  <2>1. Ball({x}, 0) = {x} BY BallZero
  <2>2. QED BY <2>1, <1>0
<1>2. ASSUME NEW j \in Nat, j \in Good PROVE j + 1 \in Good
  <2>1. ASSUME NEW m \in Ball({x}, j + 1) PROVE dist[m] <= dist[x] + (j + 1)
    <3>1. m \in Spread(Ball({x}, j)) BY BallStep
    <3>2. PICK y \in Ball({x}, j) : m = y \/ m \in Hood(y) BY <3>1 DEF Spread
    <3>3. y \in Nodes /\ m \in Nodes BY <3>2, HoodFinite DEF Ball
    <3>4. dist[m] <= dist[y] + 1 BY <1>0, <3>2, <3>3, FixedIs
    <3>5. dist[y] <= dist[x] + j BY <1>2
    <3>6. QED BY <1>0, <3>3, <3>4, <3>5
  <2>2. QED BY <2>1
<1>3. Nat \subseteq Good
  <2> HIDE DEF Good
  <2> QED BY <1>1, <1>2, SetInduction
<1>4. QED BY <1>3

LEMMA FixedBall ==
  ASSUME Shape, NEW S \in SUBSET Nodes, NEW dist, Fixed(S, dist), NEW n \in Nodes, dist[n] < Far
  PROVE  n \in Ball(S, dist[n])
<1> DEFINE Good == {j \in Nat : \A m \in Nodes : dist[m] = j /\ j < Far => m \in Ball(S, j)}
<1>0. Far \in Nat /\ \A m \in Nodes : dist[m] \in Nat BY SizesAreNatural DEF Fixed
<1>1. 0 \in Good
  <2>1. ASSUME NEW m \in Nodes, dist[m] = 0, 0 < Far PROVE m \in S
    BY <1>0, <2>1, FixedIs
  <2>2. Ball(S, 0) = S BY BallZero
  <2>3. QED BY <2>1, <2>2
<1>2. ASSUME NEW j \in Nat, j \in Good PROVE j + 1 \in Good
  <2>1. ASSUME NEW m \in Nodes, dist[m] = j + 1, j + 1 < Far PROVE m \in Ball(S, j + 1)
    <3>1. m \notin S /\ dist[m] < Far BY <1>0, <2>1, FixedIs
    <3>2. PICK y \in Hood(m) : dist[m] = dist[y] + 1 BY <3>1, FixedIs
    <3>3. y \in Nodes /\ m \in Hood(y) BY HoodMutual
    <3>4. dist[y] = j /\ j < Far BY <1>0, <2>1, <3>2, <3>3
    <3>5. y \in Ball(S, j) BY <1>2, <3>3, <3>4
    <3>6. m \in Spread(Ball(S, j)) BY <3>3, <3>5 DEF Spread
    <3>7. QED BY <3>6, BallStep
  <2>2. QED BY <2>1
<1>3. Nat \subseteq Good
  <2> HIDE DEF Good
  <2> QED BY <1>1, <1>2, SetInduction
<1>4. QED BY <1>0, <1>3

\* A walk from the sources of k steps bounds the distance, and one of as many steps
\* as the distance says there is.
LEMMA FixedAre ==
  ASSUME Shape, NEW S \in SUBSET Nodes, NEW dist, Fixed(S, dist), NEW n \in Nodes
  PROVE  /\ dist[n] < Far => \E s \in S : HopsFrom(s)[n] <= dist[n] /\ HopsFrom(s)[n] < Far
         /\ \A s \in S : dist[n] <= HopsFrom(s)[n]
<1>0. dist[n] \in 0 .. Far /\ Far \in Nat BY FixedIs, SizesAreNatural
<1>1. ASSUME dist[n] < Far
      PROVE  \E s \in S : HopsFrom(s)[n] <= dist[n] /\ HopsFrom(s)[n] < Far
  <2>1. n \in Ball(S, dist[n]) BY <1>1, FixedBall
  <2>2. dist[n] \in Nat BY <1>0
  <2>3. PICK s \in S : n \in Ball({s}, dist[n]) BY <2>1, <2>2, BallUnion
  <2>4. s \in Nodes OBVIOUS
  <2>5. QED BY <2>2, <2>3, <2>4, HopsAre
<1>2. ASSUME NEW s \in S PROVE dist[n] <= HopsFrom(s)[n]
  <2> DEFINE h == HopsFrom(s)[n]
  <2>1. h \in 0 .. Far /\ (h < Far => n \in Ball({s}, h)) BY HopsAre
  <2> HIDE DEF h
  <2>2. dist[s] = 0 BY FixedIs
  <2>3. CASE h < Far
    <3>1. h \in Nat /\ n \in Ball({s}, h) BY <1>0, <2>1, <2>3
    <3>2. dist[n] <= dist[s] + h BY <3>1, FixedBelow
    <3>3. QED BY <1>0, <2>2, <3>1, <3>2 DEF h
  <2>4. CASE ~(h < Far)
    <3>1. h = Far BY <1>0, <2>1, <2>4
    <3>2. QED BY <1>0, <3>1 DEF h
  <2>5. QED BY <2>3, <2>4
<1>3. QED BY <1>1, <1>2

LEMMA FixedIsHops ==
  ASSUME Shape, NEW s \in Nodes, NEW dist, Fixed({s}, dist), NEW n \in Nodes
  PROVE  dist[n] = HopsFrom(s)[n]
<1> DEFINE h == HopsFrom(s)[n]
           S == {s}
<1>1. S \in SUBSET Nodes /\ Fixed(S, dist) OBVIOUS
<1>2. (dist[n] < Far => h <= dist[n]) /\ dist[n] <= h
  <2>1. \A x \in S : x = s OBVIOUS
  <2> HIDE DEF S
  <2>2. /\ dist[n] < Far => \E x \in S : HopsFrom(x)[n] <= dist[n] /\ HopsFrom(x)[n] < Far
        /\ \A x \in S : dist[n] <= HopsFrom(x)[n]
    BY <1>1, FixedAre
  <2>3. s \in S BY DEF S
  <2>4. QED BY <2>1, <2>2, <2>3
<1>3. dist[n] \in 0 .. Far /\ h \in 0 .. Far /\ Far \in Nat
  BY <1>1, FixedIs, HopsAre, SizesAreNatural
<1> HIDE DEF h
<1>4. dist[n] = h BY <1>2, <1>3
<1>5. QED BY <1>4 DEF h

LEMMA NearestLeast ==
  ASSUME NEW S, IsFiniteSet(S), S \subseteq Int, S # {},
         NEW dist, \A m \in S : dist[m] \in Int
  PROVE  \E k \in S : \A m \in S : dist[k] <= dist[m]
<1> DEFINE D == {dist[m] : m \in S}
<1>1. IsFiniteSet(D) BY FiniteImage
<1>2. PICK d \in D : \A e \in D : d <= e
  <2>1. D \subseteq Int /\ D # {} OBVIOUS
  <2> HIDE DEF D
  <2>2. QED BY <1>1, <2>1, LeastExists
<1>3. QED BY <1>2

LEMMA UpIs ==
  ASSUME Shape, NEW n \in Nodes, NEW dist, \A m \in Nodes : dist[m] \in Nat,
         NEW d, Nearer(n, d, dist) # {}
  PROVE  Nearest(Nearer(n, d, dist), dist) \in Nearer(n, d, dist)
<1> DEFINE up == Nearer(n, d, dist)
<1>1. up \subseteq Hood(n) BY DEF Nearer
<1>2. up \subseteq Nodes /\ IsFiniteSet(up) BY <1>1, HoodFinite, FS_Subset
<1>3. up \subseteq Int /\ \A m \in up : dist[m] \in Int BY <1>2, NodesFinite
<1> HIDE DEF up
<1>4. up # {} => Nearest(up, dist) \in up BY <1>2, <1>3, NearestIs
<1>5. QED BY <1>4 DEF up

\* What a broadcast leaves at a device is what one of the sources it is connected
\* with gave.
Broadcasts(own, dist, value) ==
  \A n \in Nodes : value[n] = Broadcast(n, dist[n], own[n], dist, value)

LEMMA BroadcastArrives ==
  ASSUME Shape, NEW S, NEW dist, Fixed(S, dist), NEW own, NEW value,
         Broadcasts(own, dist, value),
         NEW C, Closed(C), NEW x \in C, dist[x] < Far
  PROVE  \E q \in C : q \in S /\ value[x] = own[q]
<1> DEFINE Good == {k \in Nat : \A n \in C : dist[n] < Far /\ dist[n] <= k
                                  => \E q \in C : q \in S /\ value[n] = own[q]}
<1>0. /\ Far \in Nat /\ \A m \in Nodes : dist[m] \in Nat
      /\ C \subseteq Nodes /\ \A n \in C : Hood(n) \subseteq C
  BY SizesAreNatural DEF Fixed, Closed
<1>1. ASSUME NEW n \in C, dist[n] = 0, 0 < Far
      PROVE  n \in S /\ value[n] = own[n]
  <2>1. n \in S BY <1>0, <1>1, FixedIs
  <2>2. Nearer(n, dist[n], dist) = {}
    <3>1. \A m \in Hood(n) : dist[m] \in Nat BY <1>0
    <3>2. QED BY <3>1, <1>1 DEF Nearer
  <2>3. QED BY <1>0, <2>1, <2>2 DEF Broadcast, Broadcasts
<1>2. 0 \in Good
  <2>1. ASSUME NEW n \in C, dist[n] < Far, dist[n] <= 0
        PROVE  \E q \in C : q \in S /\ value[n] = own[q]
    <3>1. dist[n] = 0 /\ 0 < Far BY <1>0, <2>1
    <3>2. QED BY <1>1, <3>1
  <2>2. QED BY <2>1
<1>3. ASSUME NEW k \in Nat, k \in Good PROVE k + 1 \in Good
  <2>1. ASSUME NEW n \in C, dist[n] < Far, dist[n] = k + 1
        PROVE  \E q \in C : q \in S /\ value[n] = own[q]
    <3> DEFINE up == Nearer(n, dist[n], dist)
    <3>1. n \in Nodes /\ dist[n] \in Nat BY <1>0
    <3>2. n \notin S
      <4>1. n \in S => dist[n] = 0 BY <3>1, FixedIs
      <4>2. QED BY <2>1, <4>1
    <3>3. PICK m \in Hood(n) : dist[n] = dist[m] + 1 BY <2>1, <3>1, <3>2, FixedIs
    <3>4. m \in up BY <1>0, <2>1, <3>3 DEF Nearer
    <3>5. Nearest(up, dist) \in up BY <1>0, <3>1, <3>4, UpIs
    <3>6. value[n] = value[Nearest(up, dist)] BY <3>1, <3>4 DEF Broadcast, Broadcasts
    <3> DEFINE y == Nearest(up, dist)
    <3>7. y \in Hood(n) /\ dist[y] < dist[n] BY <3>5 DEF Nearer
    <3> HIDE DEF up
    <3>8. value[n] = value[y] BY <3>6
    <3> HIDE DEF y
    <3>9. y \in C /\ dist[y] \in Nat BY <1>0, <3>7
    <3>10. dist[y] < Far /\ dist[y] <= k BY <1>0, <2>1, <3>7, <3>9
    <3>11. QED BY <1>3, <3>8, <3>9, <3>10
  <2>2. ASSUME NEW n \in C, dist[n] < Far, dist[n] <= k + 1
        PROVE  \E q \in C : q \in S /\ value[n] = own[q]
    <3>1. dist[n] \in Nat BY <1>0
    <3>2. dist[n] = k + 1 \/ dist[n] <= k BY <2>2, <3>1
    <3>3. QED BY <1>3, <2>1, <2>2, <3>2
  <2>3. QED BY <2>2
<1>4. Nat \subseteq Good
  <2> HIDE DEF Good
  <2> QED BY <1>2, <1>3, SetInduction
<1>5. dist[x] \in Nat /\ dist[x] <= dist[x] BY <1>0
<1>6. QED BY <1>4, <1>5

(* What each program keeps true, so that nothing is left to do only where    *)
(* it has arrived.                                                           *)

SpreadingInv == \A n \in Nodes : state[n].calc_distance \in Nat /\ state[n].source_diameter \in Nat
ChannelInv   == \A n \in Nodes : state[n].source_dist \in Nat /\ state[n].dest_dist \in Nat

\* A device that has fired has heard of the source, or knows of none.
ChainStates ==
  [is_source : BOOLEAN, fired : BOOLEAN, in_channel : BOOLEAN, should_hold : BOOLEAN,
   hops : {0, Far}, ttl : {0, -1}, next_uid : {0}]
Heard(s)  == ~s.should_hold /\ s.hops = 0 /\ s.ttl = 0
Silent(s) == s.should_hold /\ s.hops = Far /\ s.ttl = -1
ChainInv ==
  \A n \in Nodes :
    /\ state[n] \in ChainStates
    /\ state[n].fired => Heard(state[n]) \/ (n # 0 /\ Silent(state[n]))

\* While no link has changed only devices that links join to the source have heard.
ChainContained ==
  \A C \in SUBSET Nodes : Closed(C) /\ 0 \in C
    => \A n \in Nodes : state[n].fired /\ Heard(state[n]) => n \in C

\* A message ends where it starts.
SentUpTo(n, tick) == {<<n, 0, t>> : t \in {i \in 1 .. MsgEnd : /\ MsgStart <= i /\ i <= tick
                                                             /\ i % MsgInterval = 0}}
OwnReceived ==
  \A n \in Nodes : /\ state[n].procs = {}
                   /\ state[n].received = IF n = 0 THEN {} ELSE SentUpTo(n, state[n].tick)

WorkerDistances == \A n \in Nodes : state[n].dist \in Nat

\* A sender has sent once its first time to send is over.
HasSent(n) == input[n] = "SENDER" /\ state[n].tick >= SendInterval => state[n].payload # NoMessage
SendersSent == \A n \in Nodes : HasSent(n)

QueryAges == \A n \in Nodes : state[n].counter \in Nat
TilesHeld == \A n \in Nodes : input.tile[n] # None => input.tile[n] \in Known(state[n].local_db)
RanksGiven == \A n \in Nodes : input.rank[input.tile[n]] \in Nat

RestInv ==
  /\ ExamplesInv
  /\ prog = "spreading" => SpreadingInv
  /\ prog = "channel"   => ChannelInv
  /\ prog = "chain"     => ChainInv
  /\ prog = "worker"    => WorkerDistances
  /\ prog = "roles"     => SendersSent
  /\ prog \in {"scattered", "area"} => QueryAges
  /\ prog = "area"      => TilesHeld /\ RanksGiven
  /\ prog = "dispatch"  => OwnReceived
  /\ moves \in Nat /\ (prog = "chain" /\ moves = 0 => ChainContained)

\* The greatest of a number and what some neighbours have.
Among(D, d, value, S) == \A x : x \in D <=> x = d \/ \E m \in S : x = value[m]

LEMMA GreatestOf ==
  ASSUME Shape, NEW S \in SUBSET Nodes, NEW d \in Nat,
         NEW value, \A m \in S : value[m] \in Nat,
         NEW D, Among(D, d, value, S)
  PROVE  /\ Max(D) \in Nat /\ Max(D) >= d /\ \A m \in S : Max(D) >= value[m]
         /\ (Max(D) = d \/ \E m \in S : Max(D) = value[m])
<1>1. IsFiniteSet(S) BY NodesFinite, FS_Subset
<1>2. IsFiniteSet(D)
  <2>1. IsFiniteSet({value[m] : m \in S}) BY <1>1, FiniteImage
  <2>2. D = {value[m] : m \in S} \cup {d} BY DEF Among
  <2>3. QED BY <2>1, <2>2, FS_AddElement
<1>3. D \subseteq Nat /\ D \subseteq Int /\ D # {} BY <1>1 DEF Among
<1>4. Max(D) \in D /\ \A y \in D : Max(D) >= y BY <1>2, <1>3, MaxIs
<1>5. d \in D /\ \A m \in S : value[m] \in D BY DEF Among
<1>6. QED BY <1>3, <1>4, <1>5 DEF Among

LEMMA SpreadingRound ==
  ASSUME Shape, prog = "spreading", SpreadingInv, NEW n \in Nodes, Round(n), UNCHANGED prog
  PROVE  SpreadingInv'
<1> DEFINE s == SpreadingCollection(n)
           far == Field("calc_distance")
           dist == Gradient(n = 0, far, n)
           above == Above(n, dist, far)
<1>1. state' = [state EXCEPT ![n] = s] BY DEF Round, Compute
<1>2. \A m \in Nodes : far[m] \in Nat /\ state[m]["source_diameter"] \in Nat
  BY DEF Field, SpreadingInv
<1>3. dist \in Nat
  <2> (n = 0) \in BOOLEAN OBVIOUS
  <2> HIDE DEF far
  <2> QED BY <1>2, GradientType
<1>4. /\ s.calc_distance = dist
      /\ s.source_diameter = Max({dist} \cup {state[m]["source_diameter"] : m \in above})
  BY DEF SpreadingCollection
<1>5. above \in SUBSET Hood(n) BY DEF Above
<1> HIDE DEF dist, above, s
<1>6. s.source_diameter \in Nat
  <2> DEFINE value == Field("source_diameter")
             D == {dist} \cup {state[m]["source_diameter"] : m \in above}
  <2>1. above \subseteq Hood(n) /\ \A m \in above : value[m] = state[m]["source_diameter"]
    BY <1>5, HoodFinite DEF Field
  <2>2. \A m \in above : value[m] \in Nat BY <1>2, <1>5, <2>1, HoodFinite
  <2>3. Among(D, dist, value, above) BY <2>1 DEF Among
  <2>4. s.source_diameter = Max(D) BY <1>4
  <2> HIDE DEF value, D
  <2>5. Max(D) \in Nat
    <3>1. above \in SUBSET Nodes BY <2>1, HoodFinite
    <3>2. QED BY <1>3, <2>2, <2>3, <3>1, GreatestOf
  <2>6. QED BY <2>4, <2>5
<1>7. Nodes' = Nodes /\ \A m \in Nodes : state'[m] = IF m = n THEN s ELSE state[m]
  BY <1>1, RoundIs
<1>8. QED BY <1>3, <1>4, <1>6, <1>7 DEF SpreadingInv

LEMMA ChannelRound ==
  ASSUME Shape, prog = "channel", ChannelInv, NEW n \in Nodes, Round(n), UNCHANGED prog
  PROVE  ChannelInv'
<1> DEFINE s == ChannelBroadcast(n)
           far == Field("source_dist")
           off == Field("dest_dist")
           ds == Gradient(n = 0, far, n)
           dd == Gradient(n = 1, off, n)
<1>1. state' = [state EXCEPT ![n] = s] BY DEF Round, Compute
<1>2. s.source_dist = ds /\ s.dest_dist = dd BY DEF ChannelBroadcast
<1>3. \A m \in Nodes : far[m] \in Nat /\ off[m] \in Nat BY DEF Field, ChannelInv
<1>4. (n = 0) \in BOOLEAN /\ (n = 1) \in BOOLEAN OBVIOUS
<1>5. ds \in Nat /\ dd \in Nat
  <2> HIDE DEF far, off
  <2> QED BY <1>3, <1>4, GradientType
<1> HIDE DEF s, ds, dd
<1>6. Nodes' = Nodes /\ \A m \in Nodes : state'[m] = IF m = n THEN s ELSE state[m]
  BY <1>1, RoundIs
<1>7. QED BY <1>2, <1>5, <1>6 DEF ChannelInv

\* A device takes the tuple of the least of those around it and its own.
LEMMA ChainIs ==
  ASSUME Shape, prog = "chain", ChainInv, NEW n \in Nodes
  PROVE  \E data \in ChainStates :
           /\ ChainDecaying(n) = [data EXCEPT !.is_source = n = 0, !.fired = TRUE,
                                              !.in_channel = data.ttl > -1]
           /\ Heard(data) \/ (n # 0 /\ Silent(data))
           /\ (state[n].fired /\ Heard(state[n])) \/ (\E m \in Hood(n) : state[m].fired /\ Heard(state[m]))
                => Heard(data)
           /\ Heard(data) => \/ n = 0
                             \/ state[n].fired /\ Heard(state[n])
                             \/ \E m \in Hood(n) : state[m].fired /\ Heard(state[m])
<1> DEFINE src == n = 0
           own == IF state[n].fired THEN state[n]
                  ELSE [state[n] EXCEPT !.should_hold = ~src, !.hops = IF src THEN 0 ELSE Far,
                                        !.ttl = IF src THEN 0 ELSE -1]
           hood == {own} \cup {s \in Values(n) : s.fired}
           data == CHOOSE a \in hood : \A b \in hood : ChainBefore(a, b)
<1>1. own \in ChainStates /\ (Heard(own) \/ (n # 0 /\ Silent(own)))
  <2>1. state[n] \in ChainStates /\ (state[n].fired => Heard(state[n]) \/ (n # 0 /\ Silent(state[n])))
    BY DEF ChainInv
  <2>2. CASE state[n].fired BY <2>1, <2>2
  <2>3. CASE ~state[n].fired BY <2>1, <2>3 DEF ChainStates, Heard, Silent
  <2>4. QED BY <2>2, <2>3
<1>2. \A s \in Values(n) : s.fired => s \in ChainStates /\ (Heard(s) \/ Silent(s))
  BY HoodFinite DEF Values, ChainInv
<1>2a. Heard(own) => n = 0 \/ (state[n].fired /\ Heard(state[n]))
  BY DEF ChainInv, ChainStates, Heard
<1> HIDE DEF own
<1>3. \A a \in hood : a \in ChainStates /\ (Heard(a) \/ Silent(a)) BY <1>1, <1>2
<1>4. ASSUME NEW a \in ChainStates, NEW b \in ChainStates, Heard(a), Heard(b) \/ Silent(b)
      PROVE  ChainBefore(a, b)
  BY <1>4, SizesAreNatural DEF ChainStates, Heard, Silent, ChainBefore
<1>5. ASSUME NEW a \in ChainStates, NEW b \in ChainStates, Silent(a), Silent(b)
      PROVE  ChainBefore(a, b)
  BY <1>5, SizesAreNatural DEF ChainStates, Silent, ChainBefore
<1>6. ASSUME NEW a, NEW b, Silent(a), Heard(b) PROVE ~ChainBefore(a, b)
  BY <1>6 DEF Heard, Silent, ChainBefore
<1>7. own \in hood OBVIOUS
<1>7a. \A a \in hood : a = own \/ \E m \in Hood(n) : a = state[m] /\ state[m].fired
  BY DEF Values
<1> HIDE DEF hood
<1>8. \E a \in hood : \A b \in hood : ChainBefore(a, b)
  <2>1. CASE \E a \in hood : Heard(a) BY <2>1, <1>3, <1>4
  <2>2. CASE ~\E a \in hood : Heard(a) BY <2>2, <1>3, <1>5, <1>7
  <2>3. QED BY <2>1, <2>2
<1>9. data \in hood /\ \A b \in hood : ChainBefore(data, b) BY <1>8
<1>10. ChainDecaying(n) = [data EXCEPT !.is_source = n = 0, !.fired = TRUE,
                                       !.in_channel = data.ttl > -1]
  BY DEF ChainDecaying, hood, own
<1> HIDE DEF data
<1>11. (\E a \in hood : Heard(a)) => Heard(data) BY <1>3, <1>6, <1>9
<1>12. Heard(data) \/ (n # 0 /\ Silent(data))
  <2>1. CASE n = 0 BY <2>1, <1>1, <1>7, <1>11
  <2>2. CASE n # 0 BY <2>2, <1>3, <1>9
  <2>3. QED BY <2>1, <2>2
<1>13. (state[n].fired /\ Heard(state[n])) \/ (\E m \in Hood(n) : state[m].fired /\ Heard(state[m]))
         => \E a \in hood : Heard(a)
  BY DEF hood, own, Values
<1>14. Heard(data) => \/ n = 0
                      \/ state[n].fired /\ Heard(state[n])
                      \/ \E m \in Hood(n) : state[m].fired /\ Heard(state[m])
  <2>1. CASE data = own BY <2>1, <1>2a
  <2>2. CASE data # own
    <3>1. PICK m \in Hood(n) : data = state[m] /\ state[m].fired BY <2>2, <1>7a, <1>9
    <3>2. QED BY <3>1
  <2>3. QED BY <2>1, <2>2
<1>15. QED BY <1>3, <1>9, <1>10, <1>11, <1>12, <1>13, <1>14

LEMMA ChainRound ==
  ASSUME Shape, prog = "chain", ChainInv, NEW n \in Nodes, Round(n), UNCHANGED prog
  PROVE  ChainInv'
<1> DEFINE s == ChainDecaying(n)
<1>1. state' = [state EXCEPT ![n] = s] BY DEF Round, Compute
<1>2. PICK data \in ChainStates :
        /\ s = [data EXCEPT !.is_source = n = 0, !.fired = TRUE, !.in_channel = data.ttl > -1]
        /\ Heard(data) \/ (n # 0 /\ Silent(data))
  BY ChainIs
<1> HIDE DEF s
<1>3. s \in ChainStates /\ (Heard(s) \/ (n # 0 /\ Silent(s)))
  <2>1. /\ data.should_hold \in BOOLEAN /\ data.hops \in {0, Far} /\ data.ttl \in {0, -1}
        /\ data.next_uid \in {0}
        /\ s.should_hold = data.should_hold /\ s.hops = data.hops /\ s.ttl = data.ttl
    BY <1>2 DEF ChainStates
  <2>2. s \in ChainStates
    <3>1. s = [is_source |-> n = 0, fired |-> TRUE, in_channel |-> data.ttl > -1,
               should_hold |-> data.should_hold, hops |-> data.hops, ttl |-> data.ttl,
               next_uid |-> data.next_uid]
      BY <1>2 DEF ChainStates
    <3>2. (n = 0) \in BOOLEAN /\ (data.ttl > -1) \in BOOLEAN OBVIOUS
    <3>3. QED BY <2>1, <3>1, <3>2 DEF ChainStates
  <2>3. QED BY <1>2, <2>1, <2>2 DEF Heard, Silent
<1>4. Nodes' = Nodes /\ \A m \in Nodes : state'[m] = IF m = n THEN s ELSE state[m]
  BY <1>1, RoundIs
<1>5. \A m \in Nodes : /\ state'[m] \in ChainStates
                       /\ state'[m].fired => Heard(state'[m]) \/ (m # 0 /\ Silent(state'[m]))
  BY <1>3, <1>4 DEF ChainInv
<1>6. QED BY <1>4, <1>5 DEF ChainInv, Heard, Silent

LEMMA ChainContainedRound ==
  ASSUME Shape, prog = "chain", ChainInv, ChainContained, NEW n \in Nodes, Round(n), UNCHANGED prog
  PROVE  ChainContained'
<1> DEFINE s == ChainDecaying(n)
<1>1. state' = [state EXCEPT ![n] = s] /\ links' = links BY DEF Round, Compute
<1>2. PICK data \in ChainStates :
        /\ s = [data EXCEPT !.is_source = n = 0, !.fired = TRUE, !.in_channel = data.ttl > -1]
        /\ Heard(data) => \/ n = 0
                          \/ state[n].fired /\ Heard(state[n])
                          \/ \E m \in Hood(n) : state[m].fired /\ Heard(state[m])
  BY ChainIs
<1> HIDE DEF s
<1>3. Heard(s) => Heard(data)
  <2>1. s.hops = data.hops /\ s.ttl = data.ttl /\ s.should_hold = data.should_hold
    BY <1>2 DEF ChainStates
  <2>2. QED BY <2>1 DEF Heard
<1>4. Nodes' = Nodes /\ \A m \in Nodes : state'[m] = IF m = n THEN s ELSE state[m]
  BY <1>1, RoundIs
<1>5. ASSUME NEW C \in SUBSET Nodes, Closed(C)', 0 \in C, NEW m \in Nodes,
             state'[m].fired, Heard(state'[m])
      PROVE  m \in C
  <2>1. Closed(C) BY <1>1, <1>4, <1>5 DEF Closed, Hood
  <2>2. CASE m # n BY <1>4, <1>5, <2>1, <2>2 DEF ChainContained
  <2>3. CASE m = n
    <3>1. Heard(data) BY <1>3, <1>4, <1>5, <2>3
    <3>2. CASE \E k \in Hood(n) : state[k].fired /\ Heard(state[k])
      <4>1. PICK k \in Hood(n) : state[k].fired /\ Heard(state[k]) BY <3>2
      <4>2. k \in Nodes /\ n \in Hood(k) BY HoodMutual
      <4>3. k \in C BY <1>5, <2>1, <4>1, <4>2 DEF ChainContained
      <4>4. QED BY <2>1, <2>3, <4>2, <4>3 DEF Closed
    <3>3. CASE state[n].fired /\ Heard(state[n]) BY <1>5, <2>1, <2>3, <3>3 DEF ChainContained
    <3>4. QED BY <1>2, <1>5, <2>3, <3>1, <3>2, <3>3
  <2>4. QED BY <2>2, <2>3
<1>6. QED BY <1>4, <1>5 DEF ChainContained, Heard

LEMMA OwnReceivedRound ==
  ASSUME Shape, prog = "dispatch", DispatchInv, OwnReceived, NEW n \in Nodes, Round(n),
         UNCHANGED prog
  PROVE  OwnReceived'
<1> DEFINE s == MessageDispatch(n)
           tick == Tick(n)
           new == IF /\ MsgStart <= tick /\ tick <= MsgEnd /\ tick % MsgInterval = 0
                     /\ n # 0
                  THEN {<<n, 0, tick>>} ELSE {}
           asked == Asked(n, new, Field("procs"))
           ended == {m \in asked : m[2] = 0}
           old == state[n].tick
<1>1. state' = [state EXCEPT ![n] = s] BY DEF Round, Compute
<1>2. asked = new
  <2>1. \A m \in Nodes : Field("procs")[m] = {} BY DEF Field, OwnReceived
  <2>2. Hood(n) \subseteq Nodes BY HoodFinite
  <2> HIDE DEF new
  <2>3. QED BY <2>1, <2>2 DEF Asked
<1>3. \A m \in new : m[2] = 0 OBVIOUS
<1>4. s.tick = tick /\ s.procs \subseteq asked \ ended /\ s.received = state[n].received \cup ended \cup s.procs
  BY DEF MessageDispatch
<1> HIDE DEF s, new, asked
<1>5. s.procs = {} /\ s.received = state[n].received \cup new BY <1>2, <1>3, <1>4
<1>6. old \in 0 .. MaxTick /\ tick = IF old < MaxTick THEN old + 1 ELSE MaxTick
  BY DEF DispatchInv, Tick
<1>7. MsgStart \in Nat /\ MsgEnd \in Nat /\ MaxTick \in Nat /\ MsgEnd < MaxTick
  BY CountersStopIdle
<1> HIDE DEF tick, old
<1>8. n # 0 => SentUpTo(n, tick) = SentUpTo(n, old) \cup new
  <2> DEFINE Times(k) == {i \in 1 .. MsgEnd : MsgStart <= i /\ i <= k /\ i % MsgInterval = 0}
             now == IF MsgStart <= tick /\ tick <= MsgEnd /\ tick % MsgInterval = 0
                    THEN {tick} ELSE {}
  <2>1. Times(tick) = Times(old) \cup now BY <1>6, <1>7
  <2>2. n # 0 => new = {<<n, 0, t>> : t \in now} BY DEF new
  <2>3. \A k : SentUpTo(n, k) = {<<n, 0, t>> : t \in Times(k)} BY DEF SentUpTo
  <2> HIDE DEF Times, now
  <2>4. QED BY <2>1, <2>2, <2>3
<1>9. n = 0 => new = {} BY DEF new
<1>10. s.received = IF n = 0 THEN {} ELSE SentUpTo(n, s.tick)
  BY <1>4, <1>5, <1>8, <1>9 DEF OwnReceived, old
<1>11. Nodes' = Nodes /\ \A m \in Nodes : state'[m] = IF m = n THEN s ELSE state[m]
  BY <1>1, RoundIs
<1>12. ASSUME NEW m \in Nodes
       PROVE  /\ state'[m].procs = {}
              /\ state'[m].received = IF m = 0 THEN {} ELSE SentUpTo(m, state'[m].tick)
  BY <1>5, <1>10, <1>11 DEF OwnReceived
<1>13. QED BY <1>11, <1>12 DEF OwnReceived, SentUpTo

LEMMA WorkerDistancesRound ==
  ASSUME Shape, prog = "worker", WorkerDistances, NEW n \in Nodes, Round(n), UNCHANGED <<prog, input>>
  PROVE  WorkerDistances'
<1> DEFINE s == WorkerRole(n)
           far == Field("dist")
           dist == Gradient(input[n] = "RECEIVER", far, n)
<1>1. state' = [state EXCEPT ![n] = s] BY DEF Round, Compute
<1>2. s.dist = dist BY DEF WorkerRole
<1>3. \A m \in Nodes : far[m] \in Nat BY DEF Field, WorkerDistances
<1>4. (input[n] = "RECEIVER") \in BOOLEAN OBVIOUS
<1>5. dist \in Nat
  <2> HIDE DEF far
  <2> QED BY <1>3, <1>4, GradientType
<1> HIDE DEF s, dist
<1>6. Nodes' = Nodes /\ \A m \in Nodes : state'[m] = IF m = n THEN s ELSE state[m]
  BY <1>1, RoundIs
<1>7. QED BY <1>2, <1>5, <1>6 DEF WorkerDistances

LEMMA SendersRound ==
  ASSUME Shape, prog = "roles", RolesInv, SendersSent, NEW n \in Nodes, Round(n),
         UNCHANGED <<prog, input>>
  PROVE  SendersSent'
<1> DEFINE s == CommunicationRole(n)
           tick == Tick(n)
           payload == IF input[n] = "SENDER" /\ tick % SendInterval = 0
                      THEN <<n, tick>> ELSE state[n].payload
<1>1. state' = [state EXCEPT ![n] = s] BY DEF Round, Compute
<1>2. s.tick = tick /\ (input[n] = "SENDER" => s.payload = payload)
  BY DEF CommunicationRole
<1>3. /\ tick \in Nat /\ state[n].tick \in Nat /\ SendInterval \in Nat \ {0}
      /\ tick <= state[n].tick + 1
  <2>1. state[n].tick \in 0 .. MaxTick /\ MaxTick \in Nat /\ SendInterval \in Nat \ {0}
    BY CountersStopIdle DEF RolesInv
  <2>2. QED BY <2>1 DEF Tick
<1> HIDE DEF s, tick
<1>4. ASSUME input[n] = "SENDER", s.tick >= SendInterval PROVE s.payload # NoMessage
  <2>1. CASE tick % SendInterval = 0
    <3>1. s.payload = <<n, tick>> BY <1>2, <1>4, <2>1
    <3>2. n # -1 BY NodesFinite
    <3>3. QED BY <3>1, <3>2 DEF NoMessage
  <2>2. CASE tick % SendInterval # 0
    <3>1. tick # SendInterval
      <4>1. SendInterval % SendInterval = 0 BY <1>3, Z3
      <4>2. QED BY <2>2, <4>1
    <3>2. state[n].tick >= SendInterval BY <1>2, <1>3, <1>4, <3>1
    <3>3. s.payload = state[n].payload BY <1>2, <1>4, <2>2
    <3>4. QED BY <1>4, <3>2, <3>3 DEF SendersSent, HasSent
  <2>3. QED BY <2>1, <2>2
<1>5. Nodes' = Nodes /\ \A m \in Nodes : state'[m] = IF m = n THEN s ELSE state[m]
  BY <1>1, RoundIs
<1>6. \A m \in Nodes : input[m] = "SENDER" /\ state'[m].tick >= SendInterval
                         => state'[m].payload # NoMessage
  BY <1>4, <1>5 DEF SendersSent, HasSent
<1>7. QED BY <1>5, <1>6 DEF SendersSent, HasSent, NoMessage

(* The queries of scattered_database and area_discovery.                     *)

Counted(n) ==
  IF state[n].target # None THEN Min({state[n].counter, QueryTimeout}) + 1 ELSE 0
Requested(n) ==
  Asked(n, IF state[n].target # None THEN {<<n, state[n].target>>} ELSE {}, Field("procs"))

\* What a round without regard to the program and the next target leaves.
QueryRound(n, s) ==
  /\ n \in s.below
  /\ s.counter = Counted(n)
  /\ s.answers = Answers(n, Requested(n), s.procs)
  /\ s.local_db = Stored(n, Found(n, s.answers))

\* When it is done with its query a device asks for something it lacks.
Finished(n, s) == state[n].target = None \/ Found(n, s.answers) # {} \/ s.counter > QueryTimeout
Picks(lacks, target) == IF lacks = {} THEN target = None ELSE target \in lacks

ScatteredLacks(n, db) == LET lacks == Nodes \ (Known(db) \cup {n})
                         IN  IF lacks = {} THEN {} ELSE {Min(lacks)}

LEMMA ScatteredIs ==
  ASSUME Shape, NEW n \in Nodes
  PROVE  /\ \A s \in ScatteredDatabase(n) :
              /\ QueryRound(n, s)
              /\ s.procs = {k \in Requested(n) : /\ k[2] \notin Known(state[n].local_db)
                                                 /\ {k[1], k[2]} \cap s.below # {}}
         /\ \A s \in ScatteredDatabase(n) : \A t :
              (IF Finished(n, s) THEN Picks(ScatteredLacks(n, s.local_db), t) ELSE t = state[n].target)
                => \E r \in ScatteredDatabase(n) : r.target = t
<1> DEFINE dist  == Gradient(n = 0, Field("dist"), n)
           below == {n} \cup UNION {state[m].below : m \in Children(n, Field("parent"))}
           ended == {k \in Requested(n) : k[2] \in Known(state[n].local_db)}
           inner == {k \in Requested(n) \ ended : {k[1], k[2]} \cap below # {}}
           shown == Answers(n, Requested(n), inner)
           db    == Stored(n, Found(n, shown))
           idle  == state[n].target = None \/ Found(n, shown) # {} \/ Counted(n) > QueryTimeout
           lacks == Nodes \ (Known(db) \cup {n})
           picks == IF lacks = {} THEN {None} ELSE {Min(lacks)}
           rec(t) == [dist |-> dist, parent |-> Parent(n, dist, Field("dist")), below |-> below,
                      counter |-> Counted(n), procs |-> inner, answers |-> shown, local_db |-> db,
                      target |-> t, age |-> IF idle THEN 0 ELSE Counted(n)]
           targets == IF idle THEN picks ELSE {state[n].target}
<1>1. ScatteredDatabase(n) = {rec(t) : t \in targets}
  BY DEF ScatteredDatabase, Query, Expires, Shown, Answers, Stored, Found, Counted, Requested
<1>2. \A t : /\ rec(t).below = below /\ rec(t).counter = Counted(n) /\ rec(t).procs = inner
             /\ rec(t).answers = shown /\ rec(t).local_db = db /\ rec(t).target = t
  OBVIOUS
<1> HIDE DEF rec
<1>3. n \in below OBVIOUS
<1>4. inner = {k \in Requested(n) : k[2] \notin Known(state[n].local_db) /\ {k[1], k[2]} \cap below # {}}
  OBVIOUS
<1> HIDE DEF below, inner
<1>5. ASSUME NEW s \in ScatteredDatabase(n)
      PROVE  /\ QueryRound(n, s) /\ s.below = below /\ s.procs = inner /\ s.answers = shown
             /\ s.local_db = db /\ s.counter = Counted(n)
  <2>1. PICK t : s = rec(t) BY <1>1
  <2>2. QED BY <2>1, <1>2, <1>3 DEF QueryRound
<1>6. ASSUME NEW s \in ScatteredDatabase(n), NEW t,
             IF Finished(n, s) THEN Picks(ScatteredLacks(n, s.local_db), t) ELSE t = state[n].target
      PROVE  \E r \in ScatteredDatabase(n) : r.target = t
  <2> HIDE DEF shown, db
  <2>1. Finished(n, s) <=> idle BY <1>5 DEF Finished
  <2> HIDE DEF idle
  <2>2. t \in targets
    BY <1>5, <1>6, <2>1 DEF Picks, ScatteredLacks
  <2> HIDE DEF targets
  <2>3. QED BY <1>1, <1>2, <2>2
<1> HIDE DEF shown, db
<1>7. QED BY <1>4, <1>5, <1>6

LEMMA AreaIs ==
  ASSUME Shape, NEW n \in Nodes
  PROVE  /\ \A s \in AreaDiscovery(n) :
              /\ QueryRound(n, s)
              /\ s.procs = {k \in Requested(n) : k[2] \notin Known(state[n].local_db)
                                                 /\ k[1] \in s.below}
         /\ \A s \in AreaDiscovery(n) : \A t :
              (IF Finished(n, s) THEN Picks(FirstLacking(n, s.local_db), t) ELSE t = state[n].target)
                => \E r \in AreaDiscovery(n) : r.target = t
<1> DEFINE dist  == Gradient(n = 0, Field("dist"), n)
           below == {n} \cup UNION {state[m].below : m \in Children(n, Field("parent"))}
           ended == {k \in Requested(n) : k[2] \in Known(state[n].local_db)}
           inner == {k \in Requested(n) \ ended : k[1] \in below}
           shown == Answers(n, Requested(n), inner)
           db    == Stored(n, Found(n, shown))
           idle  == state[n].target = None \/ Found(n, shown) # {} \/ Counted(n) > QueryTimeout
           first == FirstLacking(n, db)
           picks == IF first = {} THEN {None} ELSE first
           rec(t) == [dist |-> dist, parent |-> Parent(n, dist, Field("dist")), below |-> below,
                      counter |-> Counted(n), procs |-> inner, answers |-> shown, local_db |-> db,
                      target |-> t, age |-> IF idle THEN 0 ELSE Counted(n)]
           targets == IF idle THEN picks ELSE {state[n].target}
<1>1. AreaDiscovery(n) = {rec(t) : t \in targets}
  BY DEF AreaDiscovery, Query, Expires, Shown, Answers, Stored, Found, Counted, Requested
<1>2. \A t : /\ rec(t).below = below /\ rec(t).counter = Counted(n) /\ rec(t).procs = inner
             /\ rec(t).answers = shown /\ rec(t).local_db = db /\ rec(t).target = t
  OBVIOUS
<1> HIDE DEF rec
<1>3. n \in below OBVIOUS
<1>4. inner = {k \in Requested(n) : k[2] \notin Known(state[n].local_db) /\ k[1] \in below}
  OBVIOUS
<1> HIDE DEF below, inner
<1>5. ASSUME NEW s \in AreaDiscovery(n)
      PROVE  /\ QueryRound(n, s) /\ s.below = below /\ s.procs = inner /\ s.answers = shown
             /\ s.local_db = db /\ s.counter = Counted(n)
  <2>1. PICK t : s = rec(t) BY <1>1
  <2>2. QED BY <2>1, <1>2, <1>3 DEF QueryRound
<1>6. ASSUME NEW s \in AreaDiscovery(n), NEW t,
             IF Finished(n, s) THEN Picks(FirstLacking(n, s.local_db), t) ELSE t = state[n].target
      PROVE  \E r \in AreaDiscovery(n) : r.target = t
  <2> HIDE DEF shown, db
  <2>1. Finished(n, s) <=> idle BY <1>5 DEF Finished
  <2> HIDE DEF idle
  <2>2. t \in targets
    BY <1>5, <1>6, <2>1 DEF Picks
  <2> HIDE DEF targets
  <2>3. QED BY <1>1, <1>2, <2>2
<1> HIDE DEF shown, db
<1>7. QED BY <1>4, <1>5, <1>6

LEMMA QueryAgesRound ==
  ASSUME Shape, prog \in {"scattered", "area"}, QueryAges, NEW n \in Nodes, Round(n),
         UNCHANGED <<prog, input>>
  PROVE  /\ QueryAges'
         /\ prog = "area" /\ TilesHeld => TilesHeld'
<1>1. PICK s \in ScatteredDatabase(n) \cup AreaDiscovery(n) : state' = [state EXCEPT ![n] = s]
  BY DEF Round, Compute
<1>2. s.counter = Counted(n) BY <1>1, ScatteredIs, AreaIs DEF QueryRound
<1>3. Counted(n) \in Nat
  <2> DEFINE a == state[n].counter
             b == QueryTimeout
  <2>1. a \in Nat /\ b \in Nat BY QueriesBounded DEF QueryAges
  <2>2. Counted(n) = IF state[n].target # None THEN Min({a, b}) + 1 ELSE 0 BY DEF Counted
  <2> HIDE DEF a, b
  <2>3. Min({a, b}) \in Nat
    <3>1. Min({a, b}) = IF a <= b THEN a ELSE b BY <2>1, PairExtremes
    <3>2. QED BY <2>1, <3>1
  <2>4. QED BY <2>2, <2>3
<1>4. Known(state[n].local_db) \subseteq Known(s.local_db)
  <2>1. QueryEffect(n, s) BY QueryIs
  <2>2. QED BY <2>1 DEF QueryEffect, Put, Known
<1>5. Nodes' = Nodes /\ \A m \in Nodes : state'[m] = IF m = n THEN s ELSE state[m]
  BY <1>1, RoundIs
<1>6. \A m \in Nodes : state'[m].counter \in Nat BY <1>2, <1>3, <1>5 DEF QueryAges
<1>7. ASSUME TilesHeld, NEW m \in Nodes, input.tile[m] # None
      PROVE  input.tile[m] \in Known(state'[m].local_db)
  <2>1. input.tile[m] \in Known(state[m].local_db) BY <1>7 DEF TilesHeld
  <2>2. QED BY <2>1, <1>4, <1>5
<1>8. TilesHeld => TilesHeld' BY <1>5, <1>7 DEF TilesHeld, Known
<1>9. QED BY <1>5, <1>6, <1>8 DEF QueryAges

LEMMA RestInit == Init => RestInv
<1> SUFFICES ASSUME Init PROVE RestInv OBVIOUS
<1> DEFINE D == Devices(prog)
<1>1. Shape /\ Nodes = D BY DEF Init, Shape, Nodes
<1>2. \A n \in D :
        state[n] = CASE prog = "averaging"  -> AveragingInitial
                     [] prog = "gossip"     -> input[n]
                     [] prog = "distance"   -> DistanceInitial
                     [] prog = "spreading"  -> SpreadingInitial
                     [] prog = "chain"      -> ChainInitial
                     [] prog = "channel"    -> ChannelInitial
                     [] prog = "collection" -> CollectionInitial
                     [] prog = "dispatch"   -> DispatchInitial
                     [] prog = "worker"     -> WorkerInitial
                     [] prog = "roles"      -> RoleInitial
                     [] prog = "scattered"  -> QueryInitial([k \in input[n] |-> k])
                     [] prog = "area"       -> QueryInitial([k \in {input.tile[n]} \ {None} |-> k])
                     [] prog = "iter"       -> IterInitial(n)
  BY DEF Init
<1>3. ExamplesInv BY ExamplesInit
<1> HIDE DEF D
<1>4. ASSUME prog = "spreading" PROVE SpreadingInv
  <2>1. \A n \in D : state[n] = SpreadingInitial BY <1>2, <1>4
  <2>2. QED BY <1>1, <2>1, SizesAreNatural DEF SpreadingInv, SpreadingInitial
<1>5. ASSUME prog = "channel" PROVE ChannelInv
  <2>1. \A n \in D : state[n] = ChannelInitial BY <1>2, <1>5
  <2>2. QED BY <1>1, <2>1, SizesAreNatural DEF ChannelInv, ChannelInitial
<1>6. ASSUME prog = "chain" PROVE ChainInv
  <2>1. \A n \in D : state[n] = ChainInitial BY <1>2, <1>6
  <2>2. ChainInitial \in ChainStates /\ ~ChainInitial.fired BY DEF ChainInitial, ChainStates
  <2>3. QED BY <1>1, <2>1, <2>2 DEF ChainInv
<1>7. ASSUME prog = "worker" PROVE WorkerDistances
  <2>1. \A n \in D : state[n] = WorkerInitial BY <1>2, <1>7
  <2>2. QED BY <1>1, <2>1, SizesAreNatural DEF WorkerDistances, WorkerInitial
<1>8. ASSUME prog = "roles" PROVE SendersSent
  <2>1. \A n \in D : state[n] = RoleInitial BY <1>2, <1>8
  <2>2. RoleInitial.tick = 0 /\ ~(0 >= SendInterval) BY CountersStopIdle DEF RoleInitial
  <2>3. QED BY <1>1, <2>1, <2>2 DEF SendersSent, HasSent
<1>9. ASSUME prog \in {"scattered", "area"} PROVE QueryAges
  <2>1. \A n \in D : \E db : state[n] = QueryInitial(db) BY <1>2, <1>9
  <2>2. \A db : QueryInitial(db).counter = 0 BY DEF QueryInitial
  <2>3. \A n \in D : state[n].counter = 0 BY <2>1, <2>2
  <2>4. QED BY <1>1, <2>3 DEF QueryAges
<1>10. ASSUME prog = "area" PROVE TilesHeld
  <2>1. ASSUME NEW n \in D, input.tile[n] # None
        PROVE  input.tile[n] \in Known(state[n].local_db)
    <3> DEFINE db == [k \in {input.tile[n]} \ {None} |-> k]
    <3>1. state[n] = QueryInitial(db) BY <1>2, <1>10
    <3>2. input.tile[n] \in DOMAIN db BY <2>1
    <3> HIDE DEF db
    <3>3. state[n].local_db = db BY <3>1 DEF QueryInitial
    <3>4. QED BY <3>2, <3>3 DEF Known
  <2>2. QED BY <1>1, <2>1 DEF TilesHeld
<1>11. ASSUME prog = "area" PROVE RanksGiven
  <2>1. PICK w \in {0, 1} : input \in Deployments([d \in D |-> IF d = w THEN None ELSE d + 1])
    BY <1>11 DEF Init, Inputs, D
  <2> DEFINE tile == [d \in D |-> IF d = w THEN None ELSE d + 1]
             S == Range(tile)
  <2>2. PICK q \in [S -> 1 .. Cardinality(S)] : input = [tile |-> tile, rank |-> q]
    BY <2>1 DEF Deployments
  <2>3. \A n \in D : tile[n] \in S BY DEF Range
  <2> HIDE DEF S, tile
  <2>4. input.tile = tile /\ input.rank = q BY <2>2
  <2>5. \A n \in D : input.rank[input.tile[n]] \in 1 .. Cardinality(S) BY <2>2, <2>3, <2>4
  <2>6. QED BY <1>1, <2>5 DEF RanksGiven
<1>12. ASSUME prog = "dispatch" PROVE OwnReceived
  <2>1. \A n \in D : state[n] = DispatchInitial BY <1>2, <1>12
  <2>2. DispatchInitial.procs = {} /\ DispatchInitial.received = {} /\ DispatchInitial.tick = 0
    BY DEF DispatchInitial
  <2>3. \A n : SentUpTo(n, 0) = {} BY CountersStopIdle DEF SentUpTo
  <2>4. QED BY <1>1, <2>1, <2>2, <2>3 DEF OwnReceived
<1>13. ASSUME prog = "chain" PROVE ChainContained
  <2>1. \A n \in D : state[n] = ChainInitial BY <1>2, <1>13
  <2>2. ~ChainInitial.fired BY DEF ChainInitial
  <2>3. QED BY <1>1, <2>1, <2>2 DEF ChainContained
<1>14. moves \in Nat BY SizesAreNatural DEF Init
<1>15. QED
  BY <1>3, <1>4, <1>5, <1>6, <1>7, <1>8, <1>9, <1>10, <1>11, <1>12, <1>13, <1>14 DEF RestInv

LEMMA RestStep == RestInv /\ [Next]_vars => RestInv'
<1> SUFFICES ASSUME RestInv, [Next]_vars PROVE RestInv' OBVIOUS
<1>0. ExamplesInv' /\ ExamplesInv BY ExamplesStep DEF RestInv
<1>1. ASSUME NEW n \in 0 .. N-1, Round(n), UNCHANGED <<prog, input>> PROVE RestInv'
  <2>1. n \in Nodes BY <1>1 DEF Round
  <2>2. Shape /\ (prog = "roles" => RolesInv) BY <1>0 DEF ExamplesInv
  <2>3. prog = "spreading" => SpreadingInv' BY <1>1, <2>1, <2>2, SpreadingRound DEF RestInv
  <2>4. prog = "channel" => ChannelInv' BY <1>1, <2>1, <2>2, ChannelRound DEF RestInv
  <2>5. prog = "chain" => ChainInv' BY <1>1, <2>1, <2>2, ChainRound DEF RestInv
  <2>6. prog = "worker" => WorkerDistances'
    BY <1>1, <2>1, <2>2, WorkerDistancesRound DEF RestInv
  <2>7. prog = "roles" => SendersSent' BY <1>1, <2>1, <2>2, SendersRound DEF RestInv
  <2>8. prog \in {"scattered", "area"} => QueryAges'
    BY <1>1, <2>1, <2>2, QueryAgesRound DEF RestInv
  <2>9. prog = "area" => TilesHeld' BY <1>1, <2>1, <2>2, QueryAgesRound DEF RestInv
  <2>10. prog = "area" => RanksGiven'
    <3>1. Nodes' = Nodes BY <1>1, <2>1, <2>2, RoundIs DEF Round
    <3>2. QED BY <1>1, <3>1 DEF RestInv, RanksGiven
  <2>11. prog = "dispatch" => OwnReceived'
    BY <1>0, <1>1, <2>1, <2>2, OwnReceivedRound DEF RestInv, ExamplesInv
  <2>12. moves' = moves BY <1>1 DEF Round
  <2>13. prog = "chain" /\ moves = 0 => ChainContained'
    BY <1>1, <2>1, <2>2, ChainContainedRound DEF RestInv
  <2>14. QED
    BY <1>0, <1>1, <2>3, <2>4, <2>5, <2>6, <2>7, <2>8, <2>9, <2>10, <2>11, <2>12, <2>13 DEF RestInv
<1>2. ASSUME UNCHANGED <<prog, state, input>>, moves' \in Nat,
             moves' = 0 => UNCHANGED <<links, moves>>
      PROVE  RestInv'
  <2>1. Nodes' = Nodes BY <1>2 DEF Nodes
  <2>2. SpreadingInv => SpreadingInv' BY <1>2, <2>1 DEF SpreadingInv
  <2>3. ChannelInv => ChannelInv' BY <1>2, <2>1 DEF ChannelInv
  <2>4. ChainInv => ChainInv' BY <1>2, <2>1 DEF ChainInv, Heard, Silent
  <2>5. WorkerDistances => WorkerDistances' BY <1>2, <2>1 DEF WorkerDistances
  <2>6. SendersSent => SendersSent' BY <1>2, <2>1 DEF SendersSent, HasSent, NoMessage
  <2>7. QueryAges => QueryAges' BY <1>2, <2>1 DEF QueryAges
  <2>8. TilesHeld => TilesHeld' BY <1>2, <2>1 DEF TilesHeld, Known
  <2>9. RanksGiven => RanksGiven' BY <1>2, <2>1 DEF RanksGiven
  <2>10. OwnReceived => OwnReceived' BY <1>2, <2>1 DEF OwnReceived, SentUpTo
  <2>11. ChainContained /\ moves' = 0 => ChainContained'
    BY <1>2, <2>1 DEF ChainContained, Closed, Hood, Heard
  <2>12. QED
    BY <1>0, <1>2, <2>2, <2>3, <2>4, <2>5, <2>6, <2>7, <2>8, <2>9, <2>10, <2>11 DEF RestInv
<1>3. CASE Move /\ UNCHANGED <<prog, input>>
  <2>1. UNCHANGED <<prog, state, input>> /\ moves' = moves + 1 BY <1>3 DEF Move
  <2>2. moves \in Nat BY DEF RestInv
  <2>3. moves' \in Nat /\ moves' # 0 BY <2>1, <2>2
  <2>4. QED BY <1>2, <2>1, <2>3
<1>4. CASE UNCHANGED vars
  <2>1. UNCHANGED <<prog, state, input, links, moves>> BY <1>4 DEF vars
  <2>2. moves \in Nat BY DEF RestInv
  <2>3. QED BY <1>2, <2>1, <2>2
<1>5. QED BY <1>1, <1>3, <1>4 DEF Next

THEOREM RestInvariant == Spec => []RestInv
BY RestInit, RestStep, PTL DEF Spec

-----------------------------------------------------------------------------
(* At rest. *)

\* Every device's round would leave the state it has.
Still == \A n \in Nodes : Compute(n) = {state[n]}

LEMMA StillIs ==
  ASSUME Shape, \A n \in 0 .. N-1 : Rests(n)
  PROVE  Still
BY NodesFinite DEF Still, Rests

LEMMA GossipRests ==
  ASSUME Shape, prog = "gossip", GossipInv, Still
  PROVE  GossipSettled
<1>1. ASSUME NEW n \in Nodes, NEW m \in Hood(n) PROVE state[n] >= state[m]
  <2> DEFINE V == {state[n]} \cup Values(n)
  <2>1. state[n] = Max(V) BY DEF Still, Compute, Gossip
  <2>2. V \subseteq Int /\ V # {} /\ state[m] \in V
    BY <1>1, HoodFinite, ReadingsAreNumbers DEF Values, GossipInv, Range
  <2>3. IsFiniteSet(V)
    <3>1. IsFiniteSet(Values(n)) BY HoodFinite, FiniteImage DEF Values
    <3>2. V = Values(n) \cup {state[n]} OBVIOUS
    <3>3. QED BY <3>1, <3>2, FS_AddElement
  <2> HIDE DEF V
  <2>4. QED BY <2>1, <2>2, <2>3, MaxIs
<1>2. \A n \in Nodes : state[n] \in Int BY ReadingsAreNumbers DEF GossipInv, Range
<1>3. ASSUME NEW n \in Nodes, NEW m \in Hood(n) PROVE state[n] = state[m]
  <2>1. m \in Nodes /\ n \in Hood(m) BY HoodMutual
  <2>2. state[n] >= state[m] /\ state[m] >= state[n] BY <1>1, <2>1
  <2>3. QED BY <1>2, <2>1, <2>2
<1>4. QED BY <1>3 DEF GossipSettled

LEMMA DevicesAre ==
  /\ 0 \in Devices("spreading") /\ 0 \in Devices("chain")
  /\ \A n \in {0, 1} : n \in Devices("channel") \/ Devices("channel") = {0}
BY SizesAreNatural DEF Devices, SetupParts

LEMMA ChainRests ==
  ASSUME Shape, prog = "chain", ChainInv, moves = 0 => ChainContained, Still
  PROVE  ChainSettled
<1> DEFINE C == {n \in Nodes : state[n].fired /\ Heard(state[n])}
<1>1. ASSUME NEW n \in Nodes
      PROVE  /\ state[n].fired
             /\ Heard(state[n]) \/ (n # 0 /\ Silent(state[n]))
             /\ state[n].in_channel = (state[n].ttl > -1)
             /\ (\E m \in Hood(n) : state[m].fired /\ Heard(state[m])) => Heard(state[n])
  <2>0. state[n] = ChainDecaying(n) BY DEF Still, Compute
  <2>1. PICK data \in ChainStates :
          /\ ChainDecaying(n) = [data EXCEPT !.is_source = n = 0, !.fired = TRUE,
                                             !.in_channel = data.ttl > -1]
          /\ Heard(data) \/ (n # 0 /\ Silent(data))
          /\ (state[n].fired /\ Heard(state[n])) \/ (\E m \in Hood(n) : state[m].fired /\ Heard(state[m]))
               => Heard(data)
    BY ChainIs
  <2>2. /\ state[n] = [data EXCEPT !.is_source = n = 0, !.fired = TRUE,
                                   !.in_channel = data.ttl > -1]
        /\ Heard(data) \/ (n # 0 /\ Silent(data))
        /\ (\E m \in Hood(n) : state[m].fired /\ Heard(state[m])) => Heard(data)
    BY <2>0, <2>1
  <2>3. /\ state[n].fired = TRUE /\ state[n].in_channel = (data.ttl > -1)
        /\ state[n].ttl = data.ttl /\ state[n].hops = data.hops
        /\ state[n].should_hold = data.should_hold
    BY <2>2 DEF ChainStates
  <2>4. (Heard(state[n]) <=> Heard(data)) /\ (Silent(state[n]) <=> Silent(data))
    BY <2>3 DEF Heard, Silent
  <2>5. QED BY <2>2, <2>3, <2>4
<1>2. Closed(C)
  <2>1. ASSUME NEW n \in C, NEW m \in Hood(n) PROVE m \in C
    <3>1. n \in Nodes /\ m \in Nodes /\ n \in Hood(m) BY HoodMutual
    <3>2. QED BY <1>1, <3>1
  <2>2. QED BY <2>1 DEF Closed
<1>3. 0 \in C
  <2>1. 0 \in Nodes BY NodesFinite, DevicesAre
  <2>2. QED BY <1>1, <2>1
<1>4. Component(0) \subseteq C
  <2> HIDE DEF C
  <2> QED BY <1>2, <1>3, ClosedContains
<1>5. ASSUME NEW n \in C PROVE state[n].in_channel
  <2>1. state[n].ttl = 0 BY DEF Heard
  <2>2. state[n].in_channel = (state[n].ttl > -1) BY <1>1
  <2>3. (0 > -1) = TRUE OBVIOUS
  <2>4. state[n].in_channel = TRUE BY <2>1, <2>2, <2>3
  <2>5. QED BY <2>4
<1>6. ASSUME NEW n \in Nodes PROVE state[n].in_channel \in BOOLEAN /\ (state[n].in_channel <=> n \in C)
  <2>1. CASE n \in C BY <1>1, <1>5, <2>1 DEF ChainInv, ChainStates
  <2>2. CASE n \notin C
    <3>1. Silent(state[n]) BY <1>1, <2>2
    <3>2. state[n].ttl = -1 BY <3>1 DEF Silent
    <3>3. state[n].in_channel = (-1 > -1) BY <1>1, <3>2
    <3>4. (-1 > -1) = FALSE OBVIOUS
    <3>5. state[n].in_channel = FALSE BY <3>3, <3>4
    <3>6. QED BY <2>2, <3>5
  <2>3. QED BY <2>1, <2>2
<1>7. ASSUME NEW n \in Nodes, NEW m \in Hood(n) PROVE state[n].in_channel = state[m].in_channel
  <2>1. m \in Nodes /\ n \in Hood(m) BY HoodMutual
  <2>2. n \in C <=> m \in C
    <3> HIDE DEF C
    <3> QED BY <1>2, <1>7, <2>1 DEF Closed
  <2>3. QED BY <1>6, <2>1, <2>2
<1>8. ASSUME moves = 0 PROVE {n \in Nodes : state[n].in_channel} \subseteq Component(0)
  <2>1. 0 \in Nodes BY <1>3
  <2>2. Closed(Component(0)) /\ 0 \in Component(0) /\ Component(0) \subseteq Nodes
    BY <2>1, ComponentClosed, ComponentIs
  <2>3. \A n \in C : n \in Component(0) BY <1>8, <2>2 DEF ChainContained
  <2>4. QED BY <1>6, <2>3
<1>9. QED BY <1>4, <1>5, <1>7, <1>8 DEF ChainSettled

LEMMA DispatchRests ==
  ASSUME Shape, prog = "dispatch", DispatchInv, OwnReceived, Still
  PROVE  DispatchSettled
<1>1. ASSUME NEW n \in Nodes
      PROVE  state[n].received = IF n = 0 THEN {} ELSE Injected(n)
  <2>1. state[n] = MessageDispatch(n) BY DEF Still, Compute
  <2>2. state[n].tick = Tick(n) BY <2>1 DEF MessageDispatch
  <2>3. state[n].tick = MaxTick
    <3>1. state[n].tick \in 0 .. MaxTick /\ MaxTick \in Nat BY CountersStopIdle DEF DispatchInv
    <3>2. QED BY <2>2, <3>1 DEF Tick
  <2>4. SentUpTo(n, MaxTick) = Injected(n)
    <3>1. {i \in 1 .. MsgEnd : MsgStart <= i /\ i <= MaxTick /\ i % MsgInterval = 0}
            = {i \in 1 .. MsgEnd : MsgStart <= i /\ i % MsgInterval = 0}
      BY CountersStopIdle
    <3>2. QED BY <3>1 DEF SentUpTo, Injected
  <2>5. QED BY <2>3, <2>4 DEF OwnReceived
<1>2. QED BY <1>1 DEF DispatchSettled

LEMMA MaxAre ==
  ASSUME NEW S, S \subseteq Int, NEW x \in S, \A y \in S : x >= y
  PROVE  Max(S) = x
<1>1. \E z \in S : \A y \in S : z >= y OBVIOUS
<1>2. Max(S) \in S /\ \A y \in S : Max(S) >= y BY <1>1 DEF Max
<1>3. Max(S) >= x /\ x >= Max(S) /\ x \in Int /\ Max(S) \in Int BY <1>2
<1>4. QED BY <1>2, <1>3

\* The greatest distance comes down to the source from where it is measured, and
\* goes back up to all.
LEMMA SpreadingRests ==
  ASSUME Shape, prog = "spreading", SpreadingInv, Still
  PROVE  SpreadingSettled
<1> DEFINE D == Field("calc_distance")
           G == Field("source_diameter")
           V == Field("diameter")
           C == Component(0)
           S == {0}
<1>0. 0 \in Nodes /\ Far \in Nat /\ Far # 0
  BY NodesFinite, DevicesAre, SizesAreNatural
<1>1. \A n \in Nodes : D[n] = state[n].calc_distance /\ G[n] = state[n].source_diameter
                       /\ V[n] = state[n].diameter
  BY DEF Field
<1>2. \A n \in Nodes : D[n] \in Nat /\ G[n] \in Nat BY <1>1 DEF SpreadingInv
<1>3. ASSUME NEW n \in Nodes
      PROVE  /\ D[n] = Gradient(n \in S, D, n)
             /\ G[n] = Max({D[n]} \cup {G[m] : m \in Above(n, D[n], D)})
             /\ V[n] = Broadcast(n, D[n], G[n], D, V)
  <2>1. state[n] = SpreadingCollection(n) BY DEF Still, Compute
  <2>2. (n = 0) = (n \in S) OBVIOUS
  <2>3. state[n].calc_distance = Gradient(n = 0, D, n) BY <2>1 DEF SpreadingCollection
  <2>4. D[n] = Gradient(n = 0, D, n) BY <1>1, <2>3
  <2>5. \A m \in Above(n, D[n], D) : G[m] = state[m].source_diameter
    BY <1>1, HoodFinite DEF Above
  <2>6. {G[m] : m \in Above(n, D[n], D)} = {state[m].source_diameter : m \in Above(n, D[n], D)}
    BY <2>5
  <2>7. LET dist  == Gradient(n = 0, D, n)
            sdiam == Max({dist} \cup {state[m].source_diameter : m \in Above(n, dist, D)})
        IN  /\ state[n].source_diameter = sdiam
            /\ state[n].diameter = Broadcast(n, dist, sdiam, D, V)
    BY <2>1 DEF SpreadingCollection
  <2> HIDE DEF D, G, V
  <2>8. /\ state[n].source_diameter = Max({D[n]} \cup {G[m] : m \in Above(n, D[n], D)})
        /\ state[n].diameter = Broadcast(n, D[n], state[n].source_diameter, D, V)
    BY <2>4, <2>6, <2>7
  <2>9. QED BY <1>1, <2>2, <2>4, <2>8
<1> HIDE DEF D, G, V, S
<1>4. Fixed(S, D) BY <1>2, <1>3 DEF Fixed
<1>5. Broadcasts(G, D, V) BY <1>3 DEF Broadcasts
<1>6. \A n \in Nodes : D[n] = HopsFrom(0)[n] BY <1>0, <1>4, FixedIsHops DEF S
<1>7. /\ Closed(C) /\ 0 \in C /\ C \subseteq Nodes
      /\ \A n \in Nodes : n \in C <=> D[n] < Far
  BY <1>0, <1>6, ComponentClosed, ComponentIs
<1> HIDE DEF C
<1>8. ASSUME NEW n \in Nodes
      PROVE  /\ G[n] >= D[n]
             /\ \A m \in Hood(n) : D[m] > D[n] => G[n] >= G[m]
             /\ G[n] = D[n] \/ \E m \in Hood(n) : D[m] > D[n] /\ G[n] = G[m]
  <2>a. PICK d \in Nat : d = D[n] BY <1>2
  <2> DEFINE above == Above(n, D[n], D)
             top == {D[n]} \cup {G[m] : m \in above}
  <2>1. above \subseteq Hood(n) /\ \A m \in Hood(n) : m \in above <=> D[m] > D[n]
    BY DEF Above
  <2> HIDE DEF above
  <2>2. Among(top, d, G, above) BY <2>a DEF Among
  <2>3. \A m \in above : G[m] \in Nat BY <1>2, <2>1, HoodFinite
  <2>4. G[n] = Max(top) BY <1>3 DEF above
  <2> HIDE DEF top
  <2>5. /\ Max(top) >= d /\ \A m \in above : Max(top) >= G[m]
        /\ Max(top) = d \/ \E m \in above : Max(top) = G[m]
    <3>1. above \in SUBSET Nodes BY <2>1, HoodFinite
    <3>2. QED BY <2>2, <2>3, <3>1, GreatestOf
  <2>6. QED BY <2>a, <2>1, <2>4, <2>5
<1>9. \A n \in C : \E m \in C : G[n] = D[m]
  <2> DEFINE Good == {j \in Nat : \A n \in C : Far - D[n] <= j => \E m \in C : G[n] = D[m]}
  <2>0. \A n \in C : D[n] \in Nat /\ D[n] < Far BY <1>2, <1>7
  <2>1. 0 \in Good BY <1>0, <2>0
  <2>2. ASSUME NEW j \in Nat, j \in Good PROVE j + 1 \in Good
    <3>1. ASSUME NEW n \in C, Far - D[n] <= j + 1 PROVE \E m \in C : G[n] = D[m]
      <4>1. CASE G[n] = D[n] BY <4>1
      <4>2. ASSUME NEW m \in Hood(n), D[m] > D[n], G[n] = G[m] PROVE \E x \in C : G[n] = D[x]
        <5>1. m \in C BY <1>7 DEF Closed
        <5>2. Far - D[m] <= j BY <1>0, <2>0, <3>1, <4>2, <5>1
        <5>3. QED BY <2>2, <4>2, <5>1, <5>2
      <4>3. QED BY <1>7, <1>8, <4>1, <4>2
    <3>2. QED BY <3>1
  <2>3. Nat \subseteq Good
    <3> HIDE DEF Good
    <3> QED BY <2>1, <2>2, SetInduction
  <2>4. ASSUME NEW n \in C PROVE \E m \in C : G[n] = D[m]
    <3>1. Far - D[n] \in Nat /\ Far - D[n] <= Far - D[n] BY <1>0, <2>0
    <3>2. QED BY <2>3, <3>1
  <2>5. QED BY <2>4
<1>10. \A n \in C : G[n] <= G[0]
  <2> DEFINE Good == {j \in Nat : \A n \in C : D[n] <= j => G[n] <= G[0]}
  <2>0. \A n \in C : n \in Nodes /\ D[n] \in Nat /\ D[n] < Far /\ G[n] \in Nat BY <1>2, <1>7
  <2>1. 0 \in Good
    <3>1. ASSUME NEW n \in C, D[n] <= 0 PROVE G[n] <= G[0]
      <4>1. D[n] = 0 BY <2>0, <3>1
      <4>2. n \in S BY <1>0, <1>4, <2>0, <4>1, FixedIs
      <4>3. n = 0 BY <4>2 DEF S
      <4>4. QED BY <2>0, <4>3
    <3>2. QED BY <3>1
  <2>2. ASSUME NEW j \in Nat, j \in Good PROVE j + 1 \in Good
    <3>1. ASSUME NEW n \in C, D[n] = j + 1 PROVE G[n] <= G[0]
      <4>1. n \notin S BY <1>0, <1>4, <2>0, <3>1, FixedIs
      <4>2. PICK m \in Hood(n) : D[n] = D[m] + 1 BY <1>4, <2>0, <4>1, FixedIs
      <4>3. m \in C /\ n \in Hood(m) BY <1>7, <2>0, HoodMutual DEF Closed
      <4>4. G[m] >= G[n] BY <1>8, <2>0, <4>2, <4>3
      <4>5. D[m] <= j BY <2>0, <3>1, <4>2, <4>3
      <4>6. G[m] <= G[0] BY <2>2, <4>3, <4>5
      <4>7. QED BY <1>7, <2>0, <4>3, <4>4, <4>6
    <3>2. \A n \in C : D[n] <= j + 1 => D[n] <= j \/ D[n] = j + 1 BY <2>0
    <3>3. QED BY <2>2, <3>1, <3>2
  <2>3. Nat \subseteq Good
    <3> HIDE DEF Good
    <3> QED BY <2>1, <2>2, SetInduction
  <2>4. \A n \in C : D[n] \in Nat /\ D[n] <= D[n] BY <2>0
  <2>5. QED BY <2>3, <2>4
<1>11. Eccentricity(0) = G[0]
  <2> DEFINE R == Range(HopsFrom(0)) \ {Far}
  <2>1. DOMAIN HopsFrom(0) = Nodes BY DEF HopsFrom
  <2>2. ASSUME NEW x PROVE x \in R <=> \E n \in C : x = D[n]
    <3>1. x \in R <=> \E n \in Nodes : x = HopsFrom(0)[n] /\ x # Far BY <2>1 DEF Range
    <3>2. \A n \in Nodes : D[n] \in 0 .. Far BY <1>4, FixedIs
    <3>3. \A n \in Nodes : n \in C <=> D[n] # Far BY <1>0, <1>7, <3>2
    <3>4. QED BY <1>6, <1>7, <3>1, <3>3
  <2> HIDE DEF R
  <2>3. G[0] \in R BY <1>7, <1>9, <2>2
  <2>4. R \subseteq Int BY <1>2, <1>7, <2>2
  <2>5. \A y \in R : G[0] >= y
    <3>1. ASSUME NEW n \in C PROVE G[0] >= D[n]
      <4>1. n \in Nodes /\ D[n] \in Nat /\ G[n] \in Nat /\ G[0] \in Nat BY <1>0, <1>2, <1>7
      <4>2. QED BY <1>8, <1>10, <4>1
    <3>2. QED BY <2>2, <3>1
  <2>6. Max(R) = G[0] BY <2>3, <2>4, <2>5, MaxAre
  <2>7. QED BY <2>6 DEF R, Eccentricity
<1>12. ASSUME NEW n \in C PROVE V[n] = G[0]
  <2>1. D[n] < Far BY <1>7
  <2>2. \E q \in C : q \in S /\ V[n] = G[q] BY <1>4, <1>5, <1>7, <2>1, BroadcastArrives
  <2>3. QED BY <2>2 DEF S
<1>13. \A n \in Nodes : /\ state[n].calc_distance = HopsFrom(0)[n]
                        /\ HopsFrom(0)[n] < Far => state[n].diameter = Eccentricity(0)
  BY <1>1, <1>6, <1>7, <1>11, <1>12
<1>14. QED BY <1>13 DEF SpreadingSettled

\* From the source to the destination it is as far as back, and no way through a
\* third device is shorter.
LEMMA HopsMutual ==
  ASSUME Shape, NEW s \in Nodes, NEW n \in Nodes
  PROVE  HopsFrom(s)[n] = HopsFrom(n)[s]
<1>1. ASSUME NEW x \in Nodes, NEW y \in Nodes PROVE HopsFrom(y)[x] <= HopsFrom(x)[y]
  <2> DEFINE h == HopsFrom(x)[y]
             g == HopsFrom(y)[x]
  <2>1. /\ h \in 0 .. Far /\ g \in 0 .. Far
        /\ h < Far => y \in Ball({x}, h)
        /\ \A k \in Nat : x \in Ball({y}, k) => g <= k
    BY HopsAre
  <2> HIDE DEF h, g
  <2>2. CASE h < Far
    <3>1. h \in Nat /\ y \in Ball({x}, h) BY <2>1, <2>2, SizesAreNatural
    <3>2. x \in Ball({y}, h) BY <3>1, BallMutual
    <3>3. QED BY <2>1, <3>1, <3>2 DEF h, g
  <2>3. CASE ~(h < Far)
    <3>1. g <= h BY <2>1, <2>3, SizesAreNatural
    <3>2. QED BY <3>1 DEF h, g
  <2>4. QED BY <2>2, <2>3
<1> DEFINE a == HopsFrom(s)[n]
           b == HopsFrom(n)[s]
<1>2. a <= b /\ b <= a /\ a \in 0 .. Far /\ b \in 0 .. Far BY <1>1, HopsAre
<1> HIDE DEF a, b
<1>3. a = b BY <1>2, SizesAreNatural
<1>4. QED BY <1>3 DEF a, b

LEMMA ChannelRests ==
  ASSUME Shape, prog = "channel", ChannelInv, Still
  PROVE  ChannelSettled
<1> DEFINE A == Field("source_dist")
           B == Field("dest_dist")
           V == Field("span")
           S == {0}
           T == {1}
<1>0. Far \in Nat /\ Far # 0 BY SizesAreNatural
<1>1. \A n \in Nodes : A[n] = state[n].source_dist /\ B[n] = state[n].dest_dist
                       /\ V[n] = state[n].span
  BY DEF Field
<1>2. \A n \in Nodes : A[n] \in Nat /\ B[n] \in Nat BY <1>1 DEF ChannelInv
<1>3. ASSUME NEW n \in Nodes
      PROVE  /\ A[n] = Gradient(n \in S, A, n) /\ B[n] = Gradient(n \in T, B, n)
             /\ V[n] = Broadcast(n, A[n], B[n], A, V)
             /\ state[n].in_channel <=> \/ A[n] < Far /\ B[n] < Far /\ (V[n] = Far \/ A[n] + B[n] <= V[n])
                                        \/ n \in {0, 1}
  <2>1. state[n] = ChannelBroadcast(n) BY DEF Still, Compute
  <2>2. (n = 0) = (n \in S) /\ (n = 1) = (n \in T) OBVIOUS
  <2>3. LET ds   == Gradient(n = 0, A, n)
            dd   == Gradient(n = 1, B, n)
            span == Broadcast(n, ds, dd, A, V)
        IN  /\ state[n].source_dist = ds /\ state[n].dest_dist = dd /\ state[n].span = span
            /\ state[n].in_channel = (\/ ds < Far /\ dd < Far /\ (span = Far \/ ds + dd <= span)
                                      \/ n \in {0, 1})
    BY <2>1 DEF ChannelBroadcast
  <2> HIDE DEF A, B, V, S, T
  <2>4. QED BY <1>1, <2>2, <2>3
<1> HIDE DEF A, B, V, S, T
<1>4. Fixed(S, A) /\ Fixed(T, B) BY <1>2, <1>3 DEF Fixed
<1>5. Broadcasts(B, A, V) BY <1>3 DEF Broadcasts
<1>6. CASE Nodes \subseteq {0, 1} /\ ~(0 \in Nodes /\ 1 \in Nodes)
  <2>1. \A n \in Nodes : n \in {0, 1} BY <1>6
  <2>2. \A n \in Nodes : state[n].in_channel BY <1>3, <2>1
  <2>3. QED BY <2>1, <2>2 DEF ChannelSettled
<1>7. CASE 0 \in Nodes /\ 1 \in Nodes
  <2> DEFINE C == Component(0)
  <2>1. \A n \in Nodes : A[n] = HopsFrom(0)[n] BY <1>4, <1>7, FixedIsHops DEF S
  <2>2. \A n \in Nodes : B[n] = HopsFrom(1)[n] BY <1>4, <1>7, FixedIsHops DEF T
  <2>3. A[1] = B[0] BY <1>7, <2>1, <2>2, HopsMutual
  <2>4. Closed(C) /\ 0 \in C /\ \A n \in Nodes : n \in C <=> A[n] < Far
    BY <1>7, <2>1, ComponentClosed, ComponentIs
  <2> HIDE DEF C
  <2>5. ASSUME NEW n \in Nodes, A[n] < Far PROVE V[n] = B[0]
    <3>1. \E q \in C : q \in S /\ V[n] = B[q]
      BY <1>4, <1>5, <2>4, <2>5, BroadcastArrives
    <3>2. QED BY <3>1 DEF S
  <2>6. ASSUME NEW n \in Nodes, A[n] < Far, B[n] < Far PROVE B[0] <= A[n] + B[n] /\ B[0] < Far
    <3>1. n \in Ball(S, A[n]) /\ A[n] \in Nat /\ S \in SUBSET Nodes
      BY <1>2, <1>4, <1>7, <2>6, FixedBall DEF S
    <3>2. 0 \in Ball({n}, A[n])
      <4>1. n \in Ball({0}, A[n]) BY <3>1 DEF S
      <4>2. QED BY <1>7, <3>1, <4>1, BallMutual
    <3>3. B[0] <= B[n] + A[n] BY <1>4, <3>1, <3>2, FixedBelow
    <3>4. n \in Component(1) /\ n \in Component(0)
      BY <1>7, <2>1, <2>2, <2>6, ComponentIs
    <3>5. 0 \in Component(n) BY <1>7, <3>4, ComponentMutual
    <3>6. Component(n) \subseteq Component(1) BY <1>7, <3>4, ComponentClosed, ClosedContains
    <3>7. B[0] < Far BY <1>7, <2>2, <3>5, <3>6, ComponentIs
    <3>8. QED BY <1>2, <1>7, <3>3, <3>7
  <2>7. ASSUME NEW n \in Nodes, n \notin {0, 1}
        PROVE  state[n].in_channel <=> B[n] < Far /\ A[n] + B[n] = A[1]
    <3>1. A[n] \in 0 .. Far /\ B[n] \in 0 .. Far /\ B[0] \in 0 .. Far
      BY <1>4, <1>7, FixedIs
    <3>2. CASE A[n] < Far /\ B[n] < Far
      <4>1. V[n] = B[0] /\ B[0] <= A[n] + B[n] /\ B[0] < Far BY <2>5, <2>6, <3>2
      <4>2. state[n].in_channel <=> A[n] + B[n] <= B[0] BY <1>0, <1>3, <2>7, <3>1, <3>2, <4>1
      <4>3. QED BY <2>3, <3>1, <3>2, <4>1, <4>2
    <3>3. CASE ~(A[n] < Far /\ B[n] < Far)
      <4>1. ~state[n].in_channel BY <1>3, <2>7, <3>3
      <4>2. ASSUME B[n] < Far, A[n] + B[n] = A[1] PROVE FALSE
        <5>1. A[n] = Far BY <1>0, <3>1, <3>3, <4>2
        <5>2. B[n] = 0 BY <1>0, <2>3, <3>1, <4>2, <5>1
        <5>3. n \in T BY <1>0, <1>4, <5>2, FixedIs
        <5>4. QED BY <2>7, <5>3 DEF T
      <4>3. QED BY <4>1, <4>2
    <3>4. QED BY <3>2, <3>3
  <2>8. \A n \in Nodes :
          state[n].in_channel <=> n \in {0, 1} \/ (B[n] < Far /\ A[n] + B[n] = A[1])
    BY <1>3, <2>7
  <2>9. QED BY <1>7, <2>1, <2>2, <2>8 DEF ChannelSettled
<1>8. QED
  <2>1. Nodes = Devices("channel") BY NodesFinite
  <2>2. (0 \in Nodes /\ 1 \in Nodes) \/ Nodes = {0} BY <2>1, DevicesAre
  <2>3. QED BY <1>6, <1>7, <2>2

LEMMA MinAre ==
  ASSUME NEW S, S \subseteq Int, NEW x \in S, \A y \in S : x <= y
  PROVE  Min(S) = x
<1>1. \E z \in S : \A y \in S : z <= y OBVIOUS
<1>2. Min(S) \in S /\ \A y \in S : Min(S) <= y BY <1>1 DEF Min
<1>3. Min(S) <= x /\ x <= Min(S) /\ x \in Int /\ Min(S) \in Int BY <1>2
<1>4. QED BY <1>3

\* The state a worker has at rest.
LEMMA WorkerIs ==
  ASSUME Shape, prog = "worker", Still, NEW n \in Nodes
  PROVE  LET s == state[n]
             D == Field("dist")
             new == IF input[n] \in EndpointRoles THEN {<<n, s.receiver>>} ELSE {}
             asked == Asked(n, new, Field("procs"))
             active == IF input[n] = "RECEIVER" THEN asked
                       ELSE {m \in asked : {m[1], m[2]} \cap s.below # {}}
         IN  /\ s.dist = Gradient(input[n] = "RECEIVER", D, n)
             /\ s.parent = Parent(n, s.dist, D)
             /\ s.below = Below(n)
             /\ s.procs = IF input[n] = "RECEIVER" THEN {} ELSE active
             /\ active \subseteq s.log
<1>1. state[n] = WorkerRole(n) BY DEF Still, Compute
<1>2. PICK receiver :
        LET dist   == Gradient(input[n] = "RECEIVER", Field("dist"), n)
            new    == IF input[n] \in EndpointRoles THEN {<<n, receiver>>} ELSE {}
            asked  == Asked(n, new, Field("procs"))
            active == IF input[n] = "RECEIVER" THEN asked
                      ELSE {m \in asked : {m[1], m[2]} \cap Below(n) # {}}
        IN  state[n] =
              [dist |-> dist, parent |-> Parent(n, dist, Field("dist")), below |-> Below(n),
               receiver |-> receiver, procs |-> IF input[n] = "RECEIVER" THEN {} ELSE active,
               log |-> state[n].log \cup active]
  BY <1>1 DEF WorkerRole
<1> DEFINE dist   == Gradient(input[n] = "RECEIVER", Field("dist"), n)
           new    == IF input[n] \in EndpointRoles THEN {<<n, receiver>>} ELSE {}
           asked  == Asked(n, new, Field("procs"))
           active == IF input[n] = "RECEIVER" THEN asked
                     ELSE {m \in asked : {m[1], m[2]} \cap Below(n) # {}}
           procs  == IF input[n] = "RECEIVER" THEN {} ELSE active
           log    == state[n].log \cup active
<1>3. state[n] = [dist |-> dist, parent |-> Parent(n, dist, Field("dist")), below |-> Below(n),
                  receiver |-> receiver, procs |-> procs, log |-> log]
  BY <1>2
<1> HIDE DEF dist, procs, log
<1>4. /\ state[n].dist = dist /\ state[n].parent = Parent(n, dist, Field("dist"))
      /\ state[n].below = Below(n) /\ state[n].receiver = receiver
      /\ state[n].procs = procs /\ state[n].log = log
  BY <1>3
<1>5. active \subseteq state[n].log BY <1>4 DEF log
<1>6. QED BY <1>4, <1>5 DEF dist, procs

\* A report is handed on by the devices nearest to a receiver of those that run it,
\* until a receiver logs it.
LEMMA WorkersRest ==
  ASSUME Shape, prog = "worker", WorkerDistances, Still
  PROVE  WorkersSettled
<1> DEFINE D == Field("dist")
           S == {r \in Nodes : input[r] = "RECEIVER"}
<1>0. Far \in Nat /\ Far # 0 /\ S \in SUBSET Nodes BY SizesAreNatural
<1>1. \A n \in Nodes : D[n] = state[n].dist /\ D[n] \in Nat BY DEF Field, WorkerDistances
<1>2. ASSUME NEW n \in Nodes PROVE D[n] = Gradient(n \in S, D, n)
  <2>1. (input[n] = "RECEIVER") = (n \in S) OBVIOUS
  <2>2. D[n] = Gradient(input[n] = "RECEIVER", D, n) BY <1>1, WorkerIs
  <2> HIDE DEF D, S
  <2>3. QED BY <2>1, <2>2
<1>3. Fixed(S, D)
  <2> HIDE DEF D, S
  <2> QED BY <1>1, <1>2 DEF Fixed
<1>4. ASSUME NEW n \in Nodes
      PROVE  WorkerShown(n).dist_to_receiver = Min({Far} \cup {HopsFrom(r)[n] : r \in S})
  <2> DEFINE M == {Far} \cup {HopsFrom(r)[n] : r \in S}
  <2>1. WorkerShown(n).dist_to_receiver = IF n \in S THEN 0 ELSE D[n]
    BY <1>1 DEF WorkerShown
  <2>2. \A r \in S : r \in Nodes OBVIOUS
  <2> HIDE DEF S, D
  <2>3. D[n] \in 0 .. Far /\ (n \in S => D[n] = 0) BY <1>3, FixedIs
  <2>4. WorkerShown(n).dist_to_receiver = D[n] BY <2>1, <2>3
  <2>5. /\ D[n] < Far => \E r \in S : HopsFrom(r)[n] <= D[n] /\ HopsFrom(r)[n] < Far
        /\ \A r \in S : D[n] <= HopsFrom(r)[n]
    BY <1>0, <1>3, FixedAre
  <2>6. \A r \in S : HopsFrom(r)[n] \in 0 .. Far BY <2>2, HopsAre
  <2>7. D[n] \in M
    <3>1. CASE D[n] < Far
      <4>1. PICK r \in S : HopsFrom(r)[n] <= D[n] BY <2>5, <3>1
      <4>2. HopsFrom(r)[n] = D[n] BY <1>0, <2>3, <2>5, <2>6, <4>1
      <4>3. QED BY <4>2
    <3>2. CASE ~(D[n] < Far) BY <1>0, <2>3, <3>2
    <3>3. QED BY <3>1, <3>2
  <2>8. M \subseteq Int /\ \A y \in M : D[n] <= y BY <1>0, <2>3, <2>5, <2>6
  <2> HIDE DEF M
  <2>9. Min(M) = D[n] BY <2>7, <2>8, MinAre
  <2>10. QED BY <2>4, <2>9 DEF M
<1>5. ASSUME NEW r \in S, NEW e \in Nodes, input[e] \in EndpointRoles, e \in Component(r)
      PROVE  \E q \in S : \E m \in state[q].log : m[1] = e
  <2> DEFINE k == <<e, state[e].receiver>>
             T == {n \in Nodes : k \in state[n].procs /\ e \in state[n].below /\ D[n] < Far}
  <2>1. k[1] = e OBVIOUS
  <2>2. e \notin S BY <1>5 DEF EndpointRoles
  <2>3. e \in T
    <3>1. D[e] < Far
      <4>1. r \in Nodes BY <1>5
      <4>2. HopsFrom(r)[e] < Far /\ HopsFrom(r)[e] \in 0 .. Far BY <1>5, <4>1, ComponentIs, HopsAre
      <4>3. D[e] <= HopsFrom(r)[e]
        <5> HIDE DEF S, D
        <5> QED BY <1>0, <1>3, <1>5, FixedAre
      <4> HIDE DEF D
      <4>4. QED BY <1>0, <1>1, <4>2, <4>3
    <3>2. e \in state[e].below BY WorkerIs DEF Below
    <3>3. k \in Asked(e, {k}, Field("procs")) BY DEF Asked
    <3>4. k \in state[e].procs
      <4>1. state[e].procs = {m \in Asked(e, {k}, Field("procs")) : {m[1], m[2]} \cap state[e].below # {}}
        BY <1>5, <2>2, WorkerIs
      <4> HIDE DEF k
      <4>2. QED BY <2>1, <3>2, <3>3, <4>1
    <3>5. QED BY <3>1, <3>2, <3>4
  <2> HIDE DEF k
  <2>4. PICK x \in T : \A y \in T : D[x] <= D[y]
    <3>1. T \subseteq Nodes OBVIOUS
    <3> HIDE DEF T, D
    <3>2. IsFiniteSet(T) /\ T \subseteq Int /\ \A y \in T : D[y] \in Int
      <4>1. IsFiniteSet(Nodes) /\ Nodes \subseteq Int BY NodesFinite
      <4>2. IsFiniteSet(T) BY <3>1, <4>1, FS_Subset
      <4>3. \A y \in T : D[y] \in Int BY <1>1, <3>1
      <4>4. QED BY <3>1, <4>1, <4>2, <4>3
    <3>3. QED BY <2>3, <3>2, NearestLeast
  <2>5. /\ x \in Nodes /\ k \in state[x].procs /\ e \in state[x].below /\ D[x] < Far
        /\ x \notin S
    <3>1. input[x] = "RECEIVER" => state[x].procs = {} BY WorkerIs
    <3>2. QED BY <2>4, <3>1
  <2> DEFINE up == Nearer(x, D[x], D)
             p  == Nearest(up, D)
  <2>6. up # {}
    <3>1. \E m \in Hood(x) : D[x] = D[m] + 1
      <4> HIDE DEF S, D
      <4> QED BY <1>3, <2>5, FixedIs
    <3>2. PICK m \in Hood(x) : D[x] = D[m] + 1 BY <3>1
    <3>3. D[m] \in Nat BY <1>1, HoodFinite
    <3> HIDE DEF D
    <3>4. D[m] < D[x] BY <3>2, <3>3
    <3>5. QED BY <3>4 DEF Nearer
  <2>7. p \in Hood(x) /\ D[p] < D[x]
    <3>1. p \in up
      <4> HIDE DEF D
      <4> QED BY <1>1, <2>5, <2>6, UpIs
    <3>2. QED BY <3>1 DEF Nearer
  <2>8. state[x].parent = p
    <3>1. state[x].parent = Parent(x, D[x], D) BY <1>1, <2>5, WorkerIs
    <3>2. QED BY <2>6, <3>1 DEF Parent
  <2> HIDE DEF up, p
  <2>9. p \in Nodes /\ x \in Hood(p) BY <2>5, <2>7, HoodMutual
  <2>10. e \in state[p].below
    <3>1. x \in Children(p, Field("parent")) BY <2>5, <2>8, <2>9 DEF Children, Field
    <3>2. state[p].below = Below(p) BY <2>9, WorkerIs
    <3>3. QED BY <2>5, <3>1, <3>2 DEF Below
  <2>11. \A new : k \in Asked(p, new, Field("procs")) BY <2>5, <2>9 DEF Asked, Field
  <2>12. {k[1], k[2]} \cap state[p].below # {} BY <2>1, <2>10
  <2>13. CASE p \in S
    <3>1. k \in state[p].log BY <2>9, <2>11, <2>13, WorkerIs
    <3>2. QED BY <2>1, <2>13, <3>1
  <2>14. CASE p \notin S
    <3>1. k \in state[p].procs
      <4>1. input[p] # "RECEIVER" BY <2>9, <2>14
      <4>2. PICK new : state[p].procs = {m \in Asked(p, new, Field("procs")) :
                                           {m[1], m[2]} \cap state[p].below # {}}
        BY <2>9, <4>1, WorkerIs
      <4>3. QED BY <2>11, <2>12, <4>2
    <3>2. D[p] \in Nat /\ D[x] \in Nat BY <1>1, <2>5, <2>9
    <3>3. D[p] < Far
      <4> HIDE DEF D
      <4> QED BY <1>0, <2>5, <2>7, <3>2
    <3>4. p \in T BY <2>9, <2>10, <3>1, <3>3
    <3>5. D[x] <= D[p] BY <2>4, <3>4
    <3> HIDE DEF D
    <3>6. QED BY <2>7, <3>2, <3>5
  <2>15. QED BY <2>13, <2>14
<1>6. QED BY <1>4, <1>5 DEF WorkersSettled

LEMMA RoleIs ==
  ASSUME Shape, prog = "roles", RolesInv, Still, NEW n \in Nodes
  PROVE  LET F == Field("from_sender") IN
         /\ state[n].tick = MaxTick
         /\ state[n].from_sender = Gradient(input[n] = "SENDER", F, n)
         /\ state[n].incoming
              = Broadcast(n, state[n].from_sender, state[n].payload, F, Field("incoming"))
         /\ input[n] = "RECEIVER" /\ state[n].incoming # NoMessage
              => state[n].incoming \in state[n].log
<1> DEFINE F == Field("from_sender")
           I == Field("incoming")
           from == Gradient(input[n] = "SENDER", F, n)
           tick == Tick(n)
           payload == IF input[n] = "SENDER" /\ tick % SendInterval = 0
                      THEN <<n, tick>> ELSE state[n].payload
           incoming == Broadcast(n, from, payload, F, I)
           more == IF input[n] = "RECEIVER" /\ incoming # NoMessage THEN {incoming} ELSE {}
<1>1. state[n] = CommunicationRole(n) BY DEF Still, Compute
<1>2. /\ state[n].from_sender = from /\ state[n].tick = tick /\ state[n].incoming = incoming
      /\ state[n].log = state[n].log \cup more
  BY <1>1 DEF CommunicationRole
<1> HIDE DEF from, incoming, F, I
<1>3. tick = MaxTick
  <2>1. state[n].tick \in 0 .. MaxTick /\ MaxTick \in Nat BY CountersStopIdle DEF RolesInv
  <2>2. QED BY <1>2, <2>1 DEF Tick
<1> HIDE DEF tick
<1>4. payload = state[n].payload BY <1>3, CountersStopIdle
<1> HIDE DEF payload
<1>5. incoming = Broadcast(n, state[n].from_sender, state[n].payload, F, I)
  BY <1>2, <1>4 DEF incoming
<1>6. input[n] = "RECEIVER" /\ incoming # NoMessage => incoming \in state[n].log
  BY <1>2
<1>7. QED BY <1>2, <1>3, <1>5, <1>6 DEF from, F, I

\* By the time the counters stop every sender has sent, and what a receiver gets is
\* what one of the senders it is connected with has sent last.
LEMMA RolesRest ==
  ASSUME Shape, prog = "roles", RolesInv, SendersSent, Still
  PROVE  RolesSettled
<1> DEFINE F == Field("from_sender")
           I == Field("incoming")
           P == Field("payload")
           S == {q \in Nodes : input[q] = "SENDER"}
<1>0. Far \in Nat /\ S \in SUBSET Nodes BY SizesAreNatural
<1>1. \A n \in Nodes : /\ F[n] = state[n].from_sender /\ I[n] = state[n].incoming
                       /\ P[n] = state[n].payload /\ F[n] \in Nat
  BY DEF Field, RolesInv
<1>2. ASSUME NEW n \in Nodes
      PROVE  F[n] = Gradient(n \in S, F, n) /\ I[n] = Broadcast(n, F[n], P[n], F, I)
  <2>1. (input[n] = "SENDER") = (n \in S) OBVIOUS
  <2>2. F[n] = Gradient(input[n] = "SENDER", F, n) BY <1>1, RoleIs
  <2>3. I[n] = Broadcast(n, state[n].from_sender, state[n].payload, F, I) BY <1>1, RoleIs
  <2> HIDE DEF F, I, P, S
  <2>4. QED BY <1>1, <2>1, <2>2, <2>3
<1>3. \A q \in S : P[q] # NoMessage
  <2>1. ASSUME NEW q \in S PROVE P[q] # NoMessage
    <3>1. state[q].tick = MaxTick BY RoleIs
    <3>2. MaxTick >= SendInterval BY CountersStopIdle
    <3>3. QED BY <1>1, <3>1, <3>2 DEF SendersSent, HasSent
  <2>2. QED BY <2>1
<1>4. Fixed(S, F) /\ Broadcasts(P, F, I)
  <2> HIDE DEF F, I, P, S
  <2> QED BY <1>1, <1>2 DEF Fixed, Broadcasts
<1>5. ASSUME NEW r \in Nodes, NEW s \in Nodes,
             input[r] = "RECEIVER", input[s] = "SENDER", s \in Component(r)
      PROVE  \E q \in Component(r) : input[q] = "SENDER" /\ state[q].payload \in state[r].log
  <2> DEFINE C == Component(r)
  <2>1. Closed(C) /\ r \in C BY ComponentClosed, ComponentIs
  <2>2. r \in Component(s) BY <1>5, ComponentMutual
  <2>3. HopsFrom(s)[r] < Far /\ HopsFrom(s)[r] \in 0 .. Far BY <2>2, ComponentIs, HopsAre
  <2>4. s \in S BY <1>5
  <2> HIDE DEF F, I, P, S, C
  <2>5. F[r] <= HopsFrom(s)[r] BY <1>0, <1>4, <2>4, FixedAre
  <2>6. F[r] < Far BY <1>0, <1>1, <2>3, <2>5
  <2>7. PICK q \in C : q \in S /\ I[r] = P[q]
    BY <1>4, <2>1, <2>6, BroadcastArrives
  <2>8. I[r] # NoMessage BY <1>3, <2>7
  <2>9. q \in Nodes /\ input[q] = "SENDER" BY <2>7 DEF S
  <2>10. state[r].incoming \in state[r].log BY <1>1, <1>5, <2>8, RoleIs
  <2>11. state[r].incoming = state[q].payload BY <1>1, <2>7, <2>9
  <2>12. QED BY <2>7, <2>9, <2>10, <2>11 DEF C
<1>6. QED BY <1>5 DEF RolesSettled

\* How an answer comes to the device that asked for it.
LEMMA HolderAnswers ==
  ASSUME NEW n \in Nodes, NEW m \in Hood(n), QueryRound(m, state[m]), n \in Hood(m),
         NEW k \in state[n].procs, k[2] \in Known(state[m].local_db)
  PROVE  \E a \in state[m].answers : a[1] = k
<1> DEFINE a == <<k, state[m].local_db[k[2]]>>
<1>1. k \in Requested(m)
  <2>1. n \in Nodes /\ Field("procs")[n] = state[n].procs BY DEF Field
  <2>2. QED BY <2>1 DEF Requested, Asked
<1>2. a \in Answers(m, Requested(m), state[m].procs) BY <1>1 DEF Answers
<1>3. a \in state[m].answers BY <1>2 DEF QueryRound
<1>4. a[1] = k OBVIOUS
<1>5. QED BY <1>3, <1>4

LEMMA AnswersFlow ==
  ASSUME NEW n \in Nodes, QueryRound(n, state[n]), NEW m \in Hood(n),
         NEW a \in state[m].answers, a[1] \in state[n].procs
  PROVE  a \in state[n].answers
<1>1. a \in Answers(n, Requested(n), state[n].procs) BY DEF Answers
<1>2. QED BY <1>1 DEF QueryRound

LEMMA AnswerFound ==
  ASSUME NEW n \in Nodes, state[n].target # None,
         NEW a \in state[n].answers, a[1] = <<n, state[n].target>>
  PROVE  Found(n, state[n].answers) # {}
<1>1. a[1][2] = state[n].target OBVIOUS
<1>2. a \in AcceptTarget(n, state[n].answers) BY <1>1 DEF AcceptTarget
<1>3. QED BY <1>2 DEF Found

LEMMA QueryFinished ==
  ASSUME NEW n \in Nodes, QueryAges, QueryRound(n, state[n])
  PROVE  /\ Finished(n, state[n])
         /\ Found(n, state[n].answers) # {} => state[n].target \in Known(state[n].local_db)
         /\ state[n].target # None => <<n, state[n].target>> \in Requested(n)
<1>1. ASSUME state[n].target # None PROVE state[n].counter > QueryTimeout
  <2> DEFINE a == state[n].counter
             b == QueryTimeout
  <2>1. a \in Nat /\ b \in Nat BY QueriesBounded DEF QueryAges
  <2>2. a = Min({a, b}) + 1 BY <1>1 DEF QueryRound, Counted
  <2> HIDE DEF a, b
  <2>3. Min({a, b}) = IF a <= b THEN a ELSE b BY <2>1, PairExtremes
  <2>4. a > b BY <2>1, <2>2, <2>3
  <2>5. QED BY <2>4 DEF a, b
<1>2. ASSUME Found(n, state[n].answers) # {} PROVE state[n].target \in Known(state[n].local_db)
  <2>1. \E v : state[n].local_db = Put(state[n].local_db, state[n].target, v)
    BY <1>2 DEF QueryRound, Stored
  <2>2. QED BY <2>1 DEF Put, Known
<1>3. state[n].target # None => <<n, state[n].target>> \in Requested(n)
  BY DEF Requested, Asked
<1>4. QED BY <1>1, <1>2, <1>3 DEF Finished

\* What is not known has a first element in the order of the set.
LEMMA FirstIs ==
  ASSUME Shape, RanksGiven, NEW n \in Nodes, NEW db, NEW t \in TilesNear(n) \ Known(db)
  PROVE  \E f \in FirstLacking(n, db) : TRUE
<1> DEFINE lacks == TilesNear(n) \ Known(db)
           ranks == {input.rank[u] : u \in lacks}
<1>1. IsFiniteSet(lacks)
  <2>1. IsFiniteSet(Hood(n)) BY HoodFinite
  <2>2. IsFiniteSet(TilesNear(n))
    <3> DEFINE f == input.tile
    <3>1. TilesNear(n) = {f[m] : m \in Hood(n)} BY DEF TilesNear
    <3> HIDE DEF f
    <3>2. QED BY <2>1, <3>1, FiniteImage
  <2>3. QED BY <2>2, FS_Subset
<1>2. \A u \in lacks : input.rank[u] \in Int
  <2>1. \A m \in Hood(n) : input.rank[input.tile[m]] \in Nat BY HoodFinite DEF RanksGiven
  <2>2. QED BY <2>1 DEF TilesNear
<1> HIDE DEF lacks
<1>3. IsFiniteSet(ranks)
  <2> DEFINE f == input.rank
  <2>1. ranks = {f[u] : u \in lacks} OBVIOUS
  <2> HIDE DEF f, ranks
  <2>2. QED BY <1>1, <2>1, FiniteImage
<1>4. input.rank[t] \in ranks /\ ranks \subseteq Int BY <1>2 DEF lacks
<1>5. PICK r \in ranks : \A q \in ranks : r <= q
  <2> HIDE DEF ranks
  <2> QED BY <1>3, <1>4, LeastExists
<1>6. PICK u \in lacks : r = input.rank[u] BY <1>5
<1>7. \A v \in lacks : input.rank[u] <= input.rank[v] BY <1>5, <1>6
<1>8. u \in FirstLacking(n, db) BY <1>6, <1>7 DEF FirstLacking, Before, lacks
<1>9. QED BY <1>8

\* Whoever lacks a neighbour's tile asks for the first of those it lacks, and the
\* neighbour answers, unless None comes first.
LEMMA AreaRests ==
  ASSUME Shape, prog = "area", QueryAges, TilesHeld, RanksGiven, Still
  PROVE  AreaSettled
<1>1. ASSUME NEW n \in Nodes
      PROVE  /\ QueryRound(n, state[n])
             /\ state[n].procs = {k \in Requested(n) : k[2] \notin Known(state[n].local_db)
                                                       /\ k[1] \in state[n].below}
             /\ \A t \in FirstLacking(n, state[n].local_db) : t = state[n].target
  <2>1. AreaDiscovery(n) = {state[n]} BY DEF Still, Compute
  <2>2. /\ QueryRound(n, state[n])
        /\ state[n].procs = {k \in Requested(n) : k[2] \notin Known(state[n].local_db)
                                                  /\ k[1] \in state[n].below}
        /\ \A t : (IF Finished(n, state[n]) THEN Picks(FirstLacking(n, state[n].local_db), t)
                   ELSE t = state[n].target)
                    => \E r \in AreaDiscovery(n) : r.target = t
    BY <2>1, AreaIs
  <2>3. Finished(n, state[n]) BY <2>2, QueryFinished
  <2>4. \A t \in FirstLacking(n, state[n].local_db) : Picks(FirstLacking(n, state[n].local_db), t)
    BY DEF Picks
  <2>5. QED BY <2>1, <2>2, <2>3, <2>4
<1>2. ASSUME NEW n \in Nodes, NEW m \in Hood(n), input.tile[m] # None,
             input.tile[m] \in FirstLacking(n, state[n].local_db)
      PROVE  FALSE
  <2> DEFINE k == <<n, input.tile[m]>>
  <2>1. input.tile[m] \notin Known(state[n].local_db) BY <1>2 DEF FirstLacking
  <2>2. input.tile[m] = state[n].target BY <1>1, <1>2
  <2>3. k \in Requested(n) BY <1>1, <1>2, <2>2, QueryFinished
  <2>4. n \in state[n].below BY <1>1 DEF QueryRound
  <2>5. k \in state[n].procs BY <1>1, <2>1, <2>3, <2>4
  <2>6. m \in Nodes /\ n \in Hood(m) BY HoodMutual
  <2>7. k[2] \in Known(state[m].local_db) BY <1>2, <2>6 DEF TilesHeld
  <2>8. k = <<n, state[n].target>> BY <2>2
  <2> HIDE DEF k
  <2>9. PICK a \in state[m].answers : a[1] = k BY <1>1, <2>5, <2>6, <2>7, HolderAnswers
  <2>10. a \in state[n].answers BY <1>1, <2>5, <2>9, AnswersFlow
  <2>11. Found(n, state[n].answers) # {} BY <1>2, <2>2, <2>8, <2>9, <2>10, AnswerFound
  <2>12. QED BY <1>1, <2>1, <2>2, <2>11, QueryFinished
<1>3. ASSUME NEW n \in Nodes, NEW t \in TilesNear(n) \ {None}, t \notin Known(state[n].local_db)
      PROVE  None \in TilesNear(n) /\ Before(None, t)
  <2>1. PICK f \in FirstLacking(n, state[n].local_db) : TRUE BY <1>3, FirstIs
  <2>2. f \in TilesNear(n) /\ Before(f, t) BY <1>3, <2>1 DEF FirstLacking
  <2>3. PICK m \in Hood(n) : f = input.tile[m] BY <2>2 DEF TilesNear
  <2>4. f = None BY <1>2, <2>1, <2>3
  <2>5. QED BY <2>2, <2>4
<1>4. QED BY <1>3 DEF AreaSettled

\* A device asks for the least id it lacks.
Lacks(n) == Nodes \ (Known(state[n].local_db) \cup {n})

LEMMA ScatteredAsks ==
  ASSUME Shape, prog = "scattered", QueryAges, Still, NEW n \in Nodes
  PROVE  /\ QueryRound(n, state[n])
         /\ state[n].procs = {k \in Requested(n) : /\ k[2] \notin Known(state[n].local_db)
                                                   /\ {k[1], k[2]} \cap state[n].below # {}}
         /\ Lacks(n) # {} => /\ state[n].target \in Lacks(n) /\ state[n].target # None
                             /\ \A j \in Lacks(n) : state[n].target <= j
                             /\ Found(n, state[n].answers) = {}
                             /\ <<n, state[n].target>> \in state[n].procs
<1>1. ScatteredDatabase(n) = {state[n]} BY DEF Still, Compute
<1>2. /\ QueryRound(n, state[n])
      /\ state[n].procs = {k \in Requested(n) : /\ k[2] \notin Known(state[n].local_db)
                                                /\ {k[1], k[2]} \cap state[n].below # {}}
      /\ \A t : (IF Finished(n, state[n]) THEN Picks(ScatteredLacks(n, state[n].local_db), t)
                 ELSE t = state[n].target)
                  => \E r \in ScatteredDatabase(n) : r.target = t
  BY <1>1, ScatteredIs
<1>3. Finished(n, state[n]) BY <1>2, QueryFinished
<1>4. ASSUME Lacks(n) # {}
      PROVE  /\ state[n].target \in Lacks(n) /\ state[n].target # None
             /\ \A j \in Lacks(n) : state[n].target <= j
             /\ Found(n, state[n].answers) = {}
             /\ <<n, state[n].target>> \in state[n].procs
  <2>1. IsFiniteSet(Lacks(n)) /\ Lacks(n) \subseteq Int /\ Lacks(n) \subseteq Nat
    <3>1. Lacks(n) \subseteq Nodes BY DEF Lacks
    <3>2. IsFiniteSet(Nodes) /\ Nodes \subseteq Int /\ Nodes \subseteq Nat
      BY NodesFinite, SizesAreNatural
    <3>3. IsFiniteSet(Lacks(n)) BY <3>1, <3>2, FS_Subset
    <3>4. QED BY <3>1, <3>2, <3>3
  <2>2. Min(Lacks(n)) \in Lacks(n) /\ \A j \in Lacks(n) : Min(Lacks(n)) <= j
    BY <1>4, <2>1, MinIs
  <2>3. ScatteredLacks(n, state[n].local_db) = {Min(Lacks(n))} BY <1>4 DEF ScatteredLacks, Lacks
  <2>4. Picks(ScatteredLacks(n, state[n].local_db), Min(Lacks(n))) BY <2>3 DEF Picks
  <2>5. state[n].target = Min(Lacks(n)) BY <1>1, <1>2, <1>3, <2>4
  <2>6. state[n].target # None BY <2>1, <2>2, <2>5 DEF None
  <2>7. Found(n, state[n].answers) = {} BY <1>2, <2>2, <2>5, QueryFinished DEF Lacks
  <2> DEFINE k == <<n, state[n].target>>
  <2>8. k \in Requested(n) BY <1>2, <2>6, QueryFinished
  <2>9. k[2] \notin Known(state[n].local_db) BY <2>2, <2>5 DEF Lacks
  <2>10. {k[1], k[2]} \cap state[n].below # {} BY <1>2 DEF QueryRound
  <2>11. k \in state[n].procs BY <1>2, <2>8, <2>9, <2>10
  <2>12. QED BY <2>2, <2>5, <2>6, <2>7, <2>11
<1>5. QED BY <1>2, <1>4

\* The least id that some devices lack although a connected one holds it, and every
\* one below it: they all ask for it, a holder or the device of that id next to them
\* would answer, so that links do not leave them.
LEMMA ScatteredRests ==
  ASSUME Shape, prog = "scattered", QueryAges, Still
  PROVE  ScatteredSettled
<1> SUFFICES ASSUME NEW n \in Nodes, NEW i \in Nodes \ {n},
                    i \in UNION {Known(state[m].local_db) : m \in Component(n)},
                    \A j \in Nodes \ UNION {Known(state[m].local_db) : m \in Component(n)} : i < j,
                    i \notin Known(state[n].local_db)
             PROVE  FALSE
  BY DEF ScatteredSettled
<1> DEFINE C == Component(n)
           held == UNION {Known(state[m].local_db) : m \in C}
           J == {j \in Nodes : /\ j \in held /\ \A l \in Nodes \ held : j < l
                               /\ \E x \in C : j \in Lacks(x)}
<1>1. C \subseteq Nodes /\ n \in C /\ Closed(C) BY ComponentIs, ComponentClosed
<1>2. IsFiniteSet(Nodes) /\ Nodes \subseteq Int BY NodesFinite
<1>3. i \in J BY <1>1 DEF Lacks
<1>4. PICK o \in J : \A j \in J : o <= j
  <2>1. J \subseteq Nodes OBVIOUS
  <2> HIDE DEF J
  <2>2. IsFiniteSet(J) /\ J \subseteq Int BY <1>2, <2>1, FS_Subset
  <2>3. QED BY <1>3, <2>2, LeastExists
<1>5. /\ o \in Nodes /\ o \in held /\ (\A l \in Nodes \ held : o < l)
      /\ \E x \in C : o \in Lacks(x)
  BY <1>4
<1>6. ASSUME NEW x \in C, o \in Lacks(x)
      PROVE  /\ state[x].target = o
             /\ Found(x, state[x].answers) = {} /\ <<x, o>> \in state[x].procs
             /\ QueryRound(x, state[x]) /\ x \in Nodes
  <2>1. x \in Nodes BY <1>1
  <2> DEFINE t == state[x].target
  <2>2. t \in Lacks(x) /\ t <= o /\ Found(x, state[x].answers) = {}
        /\ <<x, t>> \in state[x].procs /\ QueryRound(x, state[x])
    BY <1>6, <2>1, ScatteredAsks
  <2> HIDE DEF t
  <2>3. t \in Nodes /\ t \in Int /\ o \in Int BY <1>2, <1>5, <2>2 DEF Lacks
  <2>4. t \in held
    <3>1. ASSUME t \notin held PROVE FALSE
      <4>1. o < t BY <1>5, <2>3, <3>1
      <4>2. QED BY <2>2, <2>3, <4>1
    <3>2. QED BY <3>1
  <2>5. \A l \in Nodes \ held : t < l BY <1>2, <1>5, <2>2, <2>3
  <2>6. t \in J BY <2>2, <2>3, <2>4, <2>5
  <2>7. t = o BY <1>4, <2>2, <2>3, <2>6
  <2>8. QED BY <2>1, <2>2, <2>7 DEF t
<1> DEFINE L == {x \in C : o \in Lacks(x)}
           H == {y \in C : o \in Known(state[y].local_db)}
           A == {x \in C : x \in L \/ (x = o /\ x \notin H /\ \E y \in Hood(x) : y \in L)}
<1> HIDE DEF C, held, J
<1>7. ASSUME NEW x \in L, NEW y \in Hood(x), y \in H PROVE FALSE
  <2>1. /\ x \in C /\ y \in C /\ x \in Nodes /\ y \in Nodes /\ x \in Hood(y)
        /\ o \in Known(state[y].local_db)
    BY <1>1, <1>7, HoodMutual
  <2>2. /\ state[x].target = o /\ Found(x, state[x].answers) = {}
        /\ <<x, o>> \in state[x].procs /\ QueryRound(x, state[x])
    BY <1>6
  <2> DEFINE k == <<x, o>>
  <2>3. k[2] = o OBVIOUS
  <2>4. QueryRound(y, state[y]) BY <2>1, ScatteredAsks
  <2>5. k \in state[x].procs BY <2>2
  <2>6. k = <<x, state[x].target>> BY <2>2
  <2> HIDE DEF k, L, H
  <2>7. PICK a \in state[y].answers : a[1] = k
    BY <1>7, <2>1, <2>3, <2>4, <2>5, HolderAnswers
  <2>8. a \in state[x].answers BY <1>7, <2>1, <2>2, <2>5, <2>7, AnswersFlow
  <2>9. state[x].target # None BY <1>5, <2>2, NodesFinite DEF None
  <2>10. QED BY <2>1, <2>2, <2>6, <2>7, <2>8, <2>9, AnswerFound
<1>8. ASSUME o \in C, o \notin H, NEW x \in Hood(o), x \in L, NEW y \in Hood(o), y \in H
      PROVE  FALSE
  <2>1. /\ x \in Nodes /\ y \in Nodes /\ o \in Nodes /\ o \in Hood(x) /\ o \in Hood(y)
        /\ o \in Known(state[y].local_db) /\ o \notin Known(state[o].local_db)
    BY <1>1, <1>8, HoodMutual
  <2>2. /\ state[x].target = o /\ Found(x, state[x].answers) = {}
        /\ <<x, o>> \in state[x].procs /\ QueryRound(x, state[x])
    BY <1>6, <1>8
  <2> DEFINE k == <<x, o>>
  <2>3. k[2] = o OBVIOUS
  <2>4. QueryRound(y, state[y]) /\ QueryRound(o, state[o]) BY <2>1, ScatteredAsks
  <2>5. k \in state[x].procs BY <2>2
  <2>6. k = <<x, state[x].target>> BY <2>2
  <2>7. {k[1], k[2]} \cap state[o].below # {} BY <2>3, <2>4 DEF QueryRound
  <2> HIDE DEF k, L, H
  <2>8. k \in Requested(o)
    <3>1. x \in Hood(o) /\ Field("procs")[x] = state[x].procs BY <1>8, <2>1 DEF Field
    <3>2. QED BY <2>5, <3>1 DEF Requested, Asked
  <2>9. k \in state[o].procs
    <3>1. state[o].procs = {q \in Requested(o) : /\ q[2] \notin Known(state[o].local_db)
                                                 /\ {q[1], q[2]} \cap state[o].below # {}}
      BY <2>1, ScatteredAsks
    <3>2. QED BY <2>1, <2>3, <2>7, <2>8, <3>1
  <2>10. PICK a \in state[y].answers : a[1] = k
    BY <1>8, <2>1, <2>3, <2>4, <2>9, HolderAnswers
  <2>11. a \in state[o].answers BY <1>8, <2>1, <2>4, <2>9, <2>10, AnswersFlow
  <2>12. a \in state[x].answers BY <2>1, <2>2, <2>5, <2>10, <2>11, AnswersFlow
  <2>13. state[x].target # None BY <1>5, <2>2, NodesFinite DEF None
  <2>14. QED BY <2>1, <2>2, <2>6, <2>10, <2>12, <2>13, AnswerFound
<1>9. \A x \in C : x \in L \/ x \in H \/ x = o
  BY <1>5 DEF Lacks
<1>10. \A x \in L : x \notin H /\ x # o BY DEF Lacks
<1>11. Closed(A)
  <2>1. ASSUME NEW x \in A, NEW y \in Hood(x) PROVE y \in A
    <3>1. x \in C /\ y \in C /\ x \in Nodes /\ y \in Nodes /\ x \in Hood(y)
      BY <1>1, HoodMutual DEF Closed
    <3> HIDE DEF L, H
    <3>2. CASE x \in L
      <4>1. y \notin H BY <1>7, <3>2
      <4>2. QED BY <1>9, <3>1, <3>2, <4>1
    <3>3. CASE x \notin L
      <4>1. x = o /\ x \notin H /\ \E z \in Hood(x) : z \in L BY <3>3
      <4>2. y \notin H BY <1>8, <3>1, <4>1
      <4>3. CASE y = o BY <3>1, <4>1, <4>3
      <4>4. CASE y # o
        <5>1. y \in L BY <1>9, <3>1, <4>2, <4>4
        <5>2. QED BY <3>1, <5>1
      <4>5. QED BY <4>3, <4>4
    <3>4. QED BY <3>2, <3>3
  <2>2. A \subseteq Nodes BY <1>1
  <2>3. QED BY <2>1, <2>2 DEF Closed
<1>12. PICK x \in C : x \in L BY <1>5
<1>13. PICK y \in C : y \in H BY <1>5 DEF held
<1>14. y \in Component(x)
  <2>1. x \in Component(n) /\ y \in Component(n) BY <1>12, <1>13 DEF C
  <2>2. x \in Nodes /\ n \in Component(x) BY <2>1, ComponentMutual
  <2>3. Component(n) \subseteq Component(x) BY <2>2, ComponentClosed, ClosedContains
  <2>4. QED BY <2>1, <2>3
<1>15. x \in A BY <1>12
<1>16. y \in A
  <2> HIDE DEF A
  <2> QED BY <1>11, <1>14, <1>15, ClosedContains
<1>17. QED BY <1>10, <1>13, <1>16

-----------------------------------------------------------------------------
(* Every program that arrives, but for the counts of "collection". *)

LEMMA RestSafe ==
  ASSUME RestInv, prog # "collection"
  PROVE  RestIsRight
<1> SUFFICES ASSUME prog \in Arriving, \A n \in 0 .. N-1 : Rests(n) PROVE Settled
  BY DEF RestIsRight
<1>1. Shape BY DEF RestInv, ExamplesInv
<1>2. Still BY <1>1, StillIs
<1>3. CASE prog = "gossip"
  <2>1. GossipInv BY <1>3 DEF RestInv, ExamplesInv
  <2>2. GossipSettled BY <1>1, <1>2, <1>3, <2>1, GossipRests
  <2>3. QED BY <1>3, <2>2 DEF Settled
<1>4. CASE prog = "spreading"
  <2>1. SpreadingInv BY <1>4 DEF RestInv
  <2>2. SpreadingSettled BY <1>1, <1>2, <1>4, <2>1, SpreadingRests
  <2>3. QED BY <1>4, <2>2 DEF Settled
<1>5. CASE prog = "chain"
  <2>1. ChainInv /\ (moves = 0 => ChainContained) BY <1>5 DEF RestInv
  <2>2. ChainSettled BY <1>1, <1>2, <1>5, <2>1, ChainRests
  <2>3. QED BY <1>5, <2>2 DEF Settled
<1>6. CASE prog = "channel"
  <2>1. ChannelInv BY <1>6 DEF RestInv
  <2>2. ChannelSettled BY <1>1, <1>2, <1>6, <2>1, ChannelRests
  <2>3. QED BY <1>6, <2>2 DEF Settled
<1>7. CASE prog = "worker"
  <2>1. WorkerDistances BY <1>7 DEF RestInv
  <2>2. WorkersSettled BY <1>1, <1>2, <1>7, <2>1, WorkersRest
  <2>3. QED BY <1>7, <2>2 DEF Settled
<1>8. CASE prog = "roles"
  <2>1. RolesInv /\ SendersSent BY <1>8 DEF RestInv, ExamplesInv
  <2>2. RolesSettled BY <1>1, <1>2, <1>8, <2>1, RolesRest
  <2>3. QED BY <1>8, <2>2 DEF Settled
<1>9. CASE prog = "scattered"
  <2>1. QueryAges BY <1>9 DEF RestInv
  <2>2. ScatteredSettled BY <1>1, <1>2, <1>9, <2>1, ScatteredRests
  <2>3. QED BY <1>9, <2>2 DEF Settled
<1>10. CASE prog = "area"
  <2>1. QueryAges /\ TilesHeld /\ RanksGiven BY <1>10 DEF RestInv
  <2>2. AreaSettled BY <1>1, <1>2, <1>10, <2>1, AreaRests
  <2>3. QED BY <1>10, <2>2 DEF Settled
<1>11. CASE prog = "dispatch"
  <2>1. DispatchInv /\ OwnReceived BY <1>11 DEF RestInv, ExamplesInv
  <2>2. DispatchSettled BY <1>1, <1>2, <1>11, <2>1, DispatchRests
  <2>3. QED BY <1>11, <2>2 DEF Settled
<1>12. QED
  BY <1>3, <1>4, <1>5, <1>6, <1>7, <1>8, <1>9, <1>10, <1>11 DEF Arriving, Programs

\* Nine programs of the examples (all but simple_averaging, distance_broadcast and
\* iteratively_area_discovery, which seek no end, and collection_compare, whose
\* divided counts are exact for the networks of the run only) never come to rest
\* short of the answer Settled gives them, in a network of any size and links and
\* after whatever links it had before. Where no device's round would change its
\* state, neighbours have one greatest reading; distances, diameter and channel are
\* the true ones; the chain covers device 0's component, neighbours agree on it, and
\* where no link has ever changed it covers nothing else; a device has received the
\* messages it injected and no other; endpoints have reported to a receiver, and
\* receivers have a sender's last message; every id up to the first that nobody holds
\* is learnt, and every neighbour's tile that no None comes before.
THEOREM RestsRight == Spec => [](prog # "collection" => RestIsRight)
<1>1. RestInv => (prog # "collection" => RestIsRight) BY RestSafe
<1>2. QED BY <1>1, RestInvariant, PTL

=============================================================================

--------------------------- MODULE NeighborMonitor ---------------------------
(***************************************************************************)
(* How a PhysicalNode learns of its neighbours: the stream thread that     *)
(* dispatches snapshots (physical_node.py, _ipc_node_base.py) and the      *)
(* heartbeat thread that asks PassiveHeartbeatStrategy                     *)
(* (liveness_strategy.py) who is dead.  The two share _seen_node_ids and   *)
(* the timestamps without a lock.                                          *)
(*                                                                         *)
(* A snapshot is the set of the nodes in it; a dispatch goes through it    *)
(* in some order.  What the join and leave callbacks have told the         *)
(* application is kept in view.  A callback may raise, which ends the      *)
(* thread it is called in; the stream is then subscribed again by a        *)
(* connect(), and the caller may replace the liveness strategy.            *)
(***************************************************************************)
EXTENDS Integers, FiniteSets

CONSTANTS
  Nodes,       \* FCPP node ids
  Strategies,  \* PassiveHeartbeatStrategy objects
  Known,       \* the nodes dispatched before the monitor was started
  Timeout,     \* the liveness window
  MaxTime      \* bound on the clock

ASSUME NodesFinite == IsFiniteSet(Nodes) /\ Known \subseteq Nodes
ASSUME OneStrategy == Strategies # {}
ASSUME TimesNatural == Timeout \in Nat /\ MaxTime \in Nat

Absent == -1                 \* no timestamp
Times  == 0..MaxTime

VARIABLES
  clock,       \* time.time()
  present,     \* the nodes that are really in range
  seen,        \* _seen_node_ids
  strategy,    \* _liveness_strategy
  stamp,       \* the _timestamps of each strategy
  view,        \* history: the neighbours the callbacks have announced
  cut,         \* history: the nodes whose heartbeats an exception or a new strategy
               \* has lost, and that were not heard since
  sPc, snap, sTodo, sNode, sNow, sStrategy,          \* the stream thread
  mPc, mNow, mSize, mSeen, mDead, mNode, mStrategy   \* the heartbeat thread

envVars    == <<clock, present>>
strategyVars == <<strategy, stamp>>
streamVars == <<sPc, snap, sTodo, sNode, sNow, sStrategy>>
monitorVars == <<mPc, mNow, mSize, mSeen, mDead, mNode, mStrategy>>
nbrVars == <<envVars, seen, strategyVars, view, cut, streamVars, monitorVars>>

Entries(s) == {n \in Nodes : stamp[s][n] # Absent}
tracked == Entries(strategy)
Empty == [n \in Nodes |-> Absent]
\* The strategies of users keep their entries; nothing refers to the others.
Kept(users) == [s \in Strategies |-> IF s \in users THEN stamp[s] ELSE Empty]

NbrTypeOK ==
  /\ clock \in Times
  /\ present \subseteq Nodes
  /\ seen \subseteq Nodes
  /\ strategy \in Strategies
  /\ stamp \in [Strategies -> [Nodes -> Times \cup {Absent}]]
  /\ view \subseteq Nodes
  /\ cut \subseteq Nodes
  /\ sPc \in {"recv", "join", "joined", "beat", "ended"}
  /\ snap \subseteq Nodes /\ sTodo \subseteq Nodes
  /\ sNode \subseteq Nodes
  /\ sNow \in Times
  /\ sStrategy \subseteq Strategies
  /\ mPc \in {"check", "iterate", "report", "leave", "dead", "ended"}
  /\ mNow \in Times
  /\ mSize \in 0..Cardinality(Nodes)
  /\ mSeen \subseteq Nodes /\ mDead \subseteq Nodes
  /\ mNode \subseteq Nodes
  /\ mStrategy \subseteq Strategies

NbrInit ==
  /\ clock = 0
  /\ present \in SUBSET Nodes
  /\ seen = Known
  /\ strategy = CHOOSE s \in Strategies : TRUE
  /\ stamp = [s \in Strategies |->
               [n \in Nodes |-> IF s = strategy /\ n \in Known THEN 0 ELSE Absent]]
  /\ view = Known /\ cut = {}
  /\ sPc = "recv" /\ snap = {} /\ sTodo = {} /\ sNode = {} /\ sNow = 0 /\ sStrategy = {}
  /\ mPc = "check" /\ mNow = 0 /\ mSize = 0 /\ mSeen = {} /\ mDead = {} /\ mNode = {}
  /\ mStrategy = {}

-----------------------------------------------------------------------------
(* The world: time passes, nodes come into range and go.                   *)

Tick ==
  /\ clock < MaxTime
  /\ clock' = clock + 1
  /\ UNCHANGED <<present, seen, strategyVars, view, cut, streamVars, monitorVars>>

Move ==
  /\ clock < MaxTime
  /\ \E n \in Nodes : present' = (present \cup {n}) \ (present \cap {n})
  /\ UNCHANGED <<clock, seen, strategyVars, view, cut, streamVars, monitorVars>>

\* set_liveness_strategy(): the new one knows no node.
Replace ==
  /\ strategy' \in Strategies \ ({strategy} \cup sStrategy \cup mStrategy)
  /\ stamp' = Kept({strategy'} \cup sStrategy \cup mStrategy)
  /\ cut' = cut \cup seen
  /\ UNCHANGED <<envVars, seen, view, streamVars, monitorVars>>

-----------------------------------------------------------------------------
(* The stream thread: PhysicalNode._dispatch_update(snapshot).             *)

Receive ==
  /\ sPc = "recv"
  /\ sPc' = "join" /\ snap' = present /\ sTodo' = present
  /\ UNCHANGED <<envVars, seen, strategyVars, view, cut, sNode, sNow, sStrategy, monitorVars>>

\* if nid not in self._seen_node_ids: add it and go on to the callbacks.
JoinTest ==
  /\ sPc = "join"
  /\ \E n \in sTodo :
       /\ sTodo' = sTodo \ {n}
       /\ IF n \in seen
          THEN UNCHANGED <<seen, sPc, sNode>>
          ELSE seen' = seen \cup {n} /\ sPc' = "joined" /\ sNode' = {n}
  /\ UNCHANGED <<envVars, strategyVars, view, cut, snap, sNow, sStrategy, monitorVars>>

JoinCallbacks ==
  /\ sPc = "joined"
  /\ view' = view \cup sNode
  /\ sPc' = "join" /\ sNode' = {}
  /\ UNCHANGED <<envVars, seen, strategyVars, cut, snap, sTodo, sNow, sStrategy, monitorVars>>

\* One of them raises: the stream thread ends without a heartbeat of this
\* snapshot (GrpcBackend's _stream() catches everything around its loop).
JoinRaises ==
  /\ sPc = "joined"
  /\ view' \in {view, view \cup sNode}
  /\ sPc' = "ended" /\ snap' = {} /\ sTodo' = {} /\ sNode' = {}
  /\ cut' = cut \cup snap
  /\ UNCHANGED <<envVars, seen, strategyVars, sNow, sStrategy, monitorVars>>

\* connect() subscribes a new backend.
Subscribe ==
  /\ sPc = "ended"
  /\ sPc' = "recv"
  /\ UNCHANGED <<envVars, seen, strategyVars, view, cut, snap, sTodo, sNode, sNow, sStrategy, monitorVars>>

\* Mutant: only the nodes that were new are passed on to the base class.
BeatBeginNew ==
  /\ sPc = "join" /\ sTodo = {}
  /\ sPc' = "beat" /\ sNow' = clock /\ sTodo' = snap \ seen
  /\ sStrategy' = {strategy}
  /\ UNCHANGED <<envVars, seen, strategyVars, view, cut, snap, sNode, monitorVars>>

\* super()._dispatch_update(): the heartbeats; on_snapshot() reads the clock once.
BeatBegin ==
  /\ sPc = "join" /\ sTodo = {}
  /\ sPc' = "beat" /\ sNow' = clock /\ sTodo' = snap
  /\ sStrategy' = {strategy}
  /\ UNCHANGED <<envVars, seen, strategyVars, view, cut, snap, sNode, monitorVars>>

Beat ==
  /\ sPc = "beat"
  /\ \E n \in sTodo :
       /\ sTodo' = sTodo \ {n}
       /\ stamp' = [s \in Strategies |->
                     IF s \in sStrategy THEN [stamp[s] EXCEPT ![n] = sNow] ELSE stamp[s]]
       /\ cut' = IF strategy \in sStrategy THEN cut \ {n} ELSE cut
  /\ UNCHANGED <<envVars, seen, strategy, view, sPc, snap, sNode, sNow, sStrategy, monitorVars>>

DispatchDone ==
  /\ sPc = "beat" /\ sTodo = {}
  /\ sPc' = "recv" /\ snap' = {} /\ sNow' = 0
  /\ sStrategy' = {} /\ stamp' = Kept({strategy} \cup mStrategy)
  /\ UNCHANGED <<envVars, seen, strategy, view, cut, sTodo, sNode, monitorVars>>

Stream ==
  \/ Receive \/ JoinTest \/ JoinCallbacks \/ JoinRaises
  \/ BeatBegin \/ Beat \/ DispatchDone

-----------------------------------------------------------------------------
(* The heartbeat thread: _heartbeat_loop() with PassiveHeartbeatStrategy.  *)

\* check() reads the clock and starts to iterate over the dict.
CheckBegin ==
  /\ mPc = "check"
  /\ mPc' = "iterate" /\ mNow' = clock /\ mSize' = Cardinality(tracked)
  /\ mStrategy' = {strategy}
  /\ mSeen' = {} /\ mDead' = {}
  /\ UNCHANGED <<envVars, seen, strategyVars, view, cut, streamVars, mNode>>

\* The dict grew under the iterator: RuntimeError, which nothing catches.
Grown == \E s \in mStrategy : Cardinality(Entries(s)) # mSize
CheckRaises ==
  /\ mPc = "iterate" /\ Grown
  /\ mPc' = "dead"
  /\ mStrategy' = {} /\ stamp' = Kept({strategy} \cup sStrategy)
  /\ mNow' = 0 /\ mSize' = 0 /\ mSeen' = {} /\ mDead' = {}
  /\ UNCHANGED <<envVars, seen, strategy, view, cut, streamVars, mNode>>

CheckNode ==
  /\ mPc = "iterate" /\ ~Grown
  /\ \E s \in mStrategy : \E n \in Entries(s) \ mSeen :
       /\ mSeen' = mSeen \cup {n}
       /\ mDead' = IF mNow - stamp[s][n] > Timeout THEN mDead \cup {n} ELSE mDead
  /\ UNCHANGED <<envVars, seen, strategyVars, view, cut, streamVars, mPc, mNow, mSize, mNode, mStrategy>>

CheckEnd ==
  /\ mPc = "iterate" /\ ~Grown
  /\ \A s \in mStrategy : Entries(s) \subseteq mSeen
  /\ mPc' = "report"
  /\ mStrategy' = {} /\ stamp' = Kept({strategy} \cup sStrategy)
  /\ mNow' = 0 /\ mSize' = 0 /\ mSeen' = {}
  /\ UNCHANGED <<envVars, seen, strategy, view, cut, streamVars, mDead, mNode>>

\* Mutant: a node that is no longer in _seen_node_ids is not reported again.
DeclareDeadOnce ==
  /\ mPc = "report"
  /\ \E n \in mDead :
       /\ mDead' = mDead \ {n}
       /\ seen' = seen \ {n}
       /\ mNode' = {n} \cap seen
       /\ mPc' = IF n \in seen THEN "leave" ELSE "report"
  /\ UNCHANGED <<envVars, strategyVars, view, cut, streamVars, mNow, mSize, mSeen, mStrategy>>

\* _combined_on_dead(nid): forget the node, then tell the application.
DeclareDead ==
  /\ mPc = "report"
  /\ \E n \in mDead :
       /\ mDead' = mDead \ {n}
       /\ seen' = seen \ {n}
       /\ mNode' = {n}
  /\ mPc' = "leave"
  /\ UNCHANGED <<envVars, strategyVars, view, cut, streamVars, mNow, mSize, mSeen, mStrategy>>

LeaveCallbacks ==
  /\ mPc = "leave"
  /\ view' = view \ mNode
  /\ mPc' = "report" /\ mNode' = {}
  /\ UNCHANGED <<envVars, seen, strategyVars, cut, streamVars, mNow, mSize, mSeen, mDead, mStrategy>>

\* One of them raises and the thread ends.
LeaveRaises ==
  /\ mPc = "leave"
  /\ view' \in {view, view \ mNode}
  /\ mPc' = "ended" /\ mDead' = {} /\ mNode' = {}
  /\ UNCHANGED <<envVars, seen, strategyVars, cut, streamVars, mNow, mSize, mSeen, mStrategy>>

\* All dead nodes reported: wait(interval) and check again.
WaitInterval ==
  /\ mPc = "report" /\ mDead = {}
  /\ mPc' = "check"
  /\ UNCHANGED <<envVars, seen, strategyVars, view, cut, streamVars, mNow, mSize, mSeen, mDead, mNode, mStrategy>>

Monitor ==
  \/ CheckBegin \/ CheckRaises \/ CheckNode \/ CheckEnd
  \/ DeclareDead \/ LeaveCallbacks \/ LeaveRaises \/ WaitInterval

NbrNext == Tick \/ Move \/ Replace \/ Subscribe \/ Stream \/ Monitor

NbrSpec == NbrInit /\ [][NbrNext]_nbrVars

\* Time passes and the two threads run; nodes need not move, and nobody need
\* subscribe again.
NbrFairSpec == NbrSpec /\ WF_nbrVars(Tick) /\ WF_nbrVars(Stream) /\ WF_nbrVars(Monitor)

-----------------------------------------------------------------------------
(* Properties.                                                             *)

\* Every node the PhysicalNode counts as a neighbour is tracked by the liveness
\* strategy, or is in the snapshot being dispatched: otherwise it could never be
\* declared dead.  Only two things can take it from the strategy, a join callback
\* that raised in the dispatch it was in and a new strategy, and no longer than
\* until the next snapshot it is heard in.
SeenIsTracked == seen \subseteq tracked \cup snap \cup cut

\* A node silent for longer than the window does not stay announced for ever,
\* unless it is heard again, the strategy is replaced or the monitor thread has
\* ended, whatever dispatch was under way: the callbacks of a join may even run
\* after those of the leave.
Silent(n) == n \in tracked /\ clock - stamp[strategy][n] > Timeout
SilentIsReported ==
  \A n \in Nodes :
    (n \in view /\ Silent(n)) ~> (n \notin view \/ ~Silent(n) \/ mPc \in {"dead", "ended"})

\* The monitor thread goes on checking, unless a callback raises in it.
MonitorSurvives == mPc # "dead"

\* Why SeenIsTracked holds: how far the dispatch of snap has come.
DispatchProgress ==
  /\ sPc \in {"recv", "ended"} => snap = {}
  /\ sPc \in {"join", "joined"} => sTodo \subseteq snap
  /\ sPc = "beat" /\ strategy \in sStrategy => seen \cap snap \subseteq tracked \cup sTodo \cup cut
  /\ sPc = "beat" /\ strategy \notin sStrategy => seen \cap snap \subseteq tracked \cup cut
  /\ sPc # "beat" => sStrategy = {}
SeenInv == SeenIsTracked /\ DispatchProgress
=============================================================================

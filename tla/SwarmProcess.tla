---------------------------- MODULE SwarmProcess ----------------------------
(***************************************************************************)
(* A SwarmProcess (ipc/swarm_process.py): the lifecycle of the simulator   *)
(* subprocess and the bookkeeping of the ids of its nodes, kept on this    *)
(* side (num_nodes, _known_node_ids, the liveness strategy) and in the     *)
(* subprocess (swarm).                                                     *)
(*                                                                         *)
(* The caller's calls are sequential.  A call that adds or removes nodes   *)
(* first updates its own records and then sends a command; the stream      *)
(* thread dispatches snapshots in between.                                 *)
(***************************************************************************)
EXTENDS Integers, FiniteSets

CONSTANTS
  Processes,       \* subprocesses
  NoProcess,       \* Python's None
  InitialNodes,    \* num_nodes at construction
  MaxSeq,          \* bound: ids the sequential counter may hand out are below it
  PickIds,         \* ids that are given explicitly or drawn at random
  MaxBatch,        \* bound on count
  MaxNum,          \* bound on num_nodes, which failing removals let drift upwards
  AddOutcomes,     \* how sending add_node(s) may end, a subset of Outcomes
  RemoveOutcomes,  \* how sending remove_node may end, a subset of Outcomes
  StartOutcomes,   \* how _create_backend() may end, a subset of {"ok", "fails"}
  StartAgain       \* may start() be called while self.process is set?

\* "ok": carried out; "lost": not carried out, raises; "late": carried out, but
\* the answer does not come in time and send_command() raises.
Outcomes == {"ok", "lost", "late"}

ASSUME ProcessesFinite == IsFiniteSet(Processes) /\ NoProcess \notin Processes
ASSUME BoundsNatural   == /\ InitialNodes \in Nat /\ MaxSeq \in Nat /\ MaxBatch \in Nat
                          /\ MaxNum \in Nat /\ InitialNodes <= MaxSeq
ASSUME PickIdsFinite   == PickIds \subseteq Nat /\ IsFiniteSet(PickIds)
ASSUME OutcomesKnown   == /\ AddOutcomes \subseteq Outcomes
                          /\ RemoveOutcomes \subseteq Outcomes
                          /\ StartOutcomes \subseteq {"ok", "fails"}

Ids == 0..(MaxSeq - 1) \cup PickIds

VARIABLES
  process,    \* self.process
  running,    \* the subprocesses that run
  backend,    \* is self.backend set?
  num,        \* self.num_nodes
  known,      \* self._known_node_ids
  nextSeq,    \* self._next_sequential_id
  swarm,      \* how many nodes of the subprocess have each id
  liveIds,    \* the ids the liveness strategy tracks
  answered,   \* history: every command since the last start was carried out and answered
  snapshot,   \* the ids in a snapshot that is on its way to _dispatch_update()
  pending     \* the command about to be sent, of the call that is under way

vars == <<process, running, backend, num, known, nextSeq, swarm,
          liveIds, answered, snapshot, pending>>

lifeVars  == <<process, running, backend>>
countVars == <<num, known, nextSeq>>

Nothing   == [cmd |-> "none", ids |-> {}]
InSwarm   == {i \in Ids : swarm[i] > 0}

TypeOK ==
  /\ process \in Processes \cup {NoProcess}
  /\ running \subseteq Processes
  /\ backend \in BOOLEAN
  /\ num \in Nat
  /\ known \subseteq Ids
  /\ nextSeq \in 0..MaxSeq
  /\ swarm \in [Ids -> Nat]
  /\ liveIds \subseteq Ids
  /\ answered \in BOOLEAN
  /\ snapshot \subseteq Ids
  /\ pending \in [cmd : {"none", "add", "remove"}, ids : SUBSET Ids]

Init ==
  /\ process = NoProcess
  /\ running = {}
  /\ backend = FALSE
  /\ num = InitialNodes
  /\ known = {}
  /\ nextSeq = 0
  /\ swarm = [i \in Ids |-> 0]
  /\ liveIds = {} /\ snapshot = {}
  /\ answered = TRUE
  /\ pending = Nothing

-----------------------------------------------------------------------------
(* Lifecycle.                                                              *)

\* The subprocess gives its --num-nodes initial nodes the ids from 0 on.  When
\* _create_backend() raises, start() is left with the subprocess running; when
\* only subscribing raises, all that start() changes is done ("ok" here).
Start ==
  /\ pending = Nothing
  /\ StartAgain \/ process = NoProcess
  /\ num <= MaxSeq
  /\ \E p \in Processes \ running :
       /\ process' = p
       /\ running' = running \cup {p}
  /\ swarm' = [i \in Ids |-> IF i < num THEN 1 ELSE 0]
  /\ \/ /\ "ok" \in StartOutcomes
        /\ backend' = TRUE
        /\ known' = 0..(num - 1)
        /\ nextSeq' = num
        /\ answered' = TRUE
     \/ /\ "fails" \in StartOutcomes
        /\ UNCHANGED <<backend, known, nextSeq, answered>>
  /\ UNCHANGED <<num, liveIds, snapshot, pending>>

\* Mutant: the subprocess is terminated only when it was connected to.
CloseConnected ==
  /\ pending = Nothing
  /\ backend' = FALSE
  /\ process' = NoProcess
  /\ running' = IF backend THEN running \ {process} ELSE running
  /\ snapshot' \in {{}, snapshot}
  /\ UNCHANGED <<countVars, swarm, liveIds, answered, pending>>

\* terminate() and wait(), or kill(): self.process does not survive close().  A
\* snapshot the stream thread already has may still be dispatched afterwards.
Close ==
  /\ pending = Nothing
  /\ backend' = FALSE
  /\ process' = NoProcess
  /\ running' = running \ {process}
  /\ snapshot' \in {{}, snapshot}
  /\ UNCHANGED <<countVars, swarm, liveIds, answered, pending>>

-----------------------------------------------------------------------------
(* Node addition and removal: the records first, then the command.         *)

AddSequential ==
  /\ pending = Nothing /\ backend
  /\ \E count \in 1..MaxBatch :
       /\ nextSeq + count <= MaxSeq /\ num + count <= MaxNum
       /\ LET ids == nextSeq..(nextSeq + count - 1) IN
            /\ known' = known \cup ids
            /\ pending' = [cmd |-> "add", ids |-> ids]
       /\ nextSeq' = nextSeq + count
  /\ UNCHANGED <<lifeVars, num, swarm, liveIds, answered, snapshot>>

\* Ids are drawn until count of them are not in _known_node_ids.
AddRandom ==
  /\ pending = Nothing /\ backend
  /\ \E ids \in SUBSET (PickIds \ known) :
       /\ Cardinality(ids) \in 1..MaxBatch /\ num + Cardinality(ids) <= MaxNum
       /\ known' = known \cup ids
       /\ pending' = [cmd |-> "add", ids |-> ids]
  /\ UNCHANGED <<lifeVars, num, nextSeq, swarm, liveIds, answered, snapshot>>

\* An id that is in use raises ValueError.
AddExplicit ==
  /\ pending = Nothing /\ backend /\ num < MaxNum
  /\ \E i \in PickIds \ known :
       /\ known' = known \cup {i}
       /\ pending' = [cmd |-> "add", ids |-> {i}]
  /\ UNCHANGED <<lifeVars, num, nextSeq, swarm, liveIds, answered, snapshot>>

\* An id that is not tracked raises ValueError.
RemoveNode ==
  /\ pending = Nothing /\ backend
  /\ \E i \in known :
       /\ known' = known \ {i}
       /\ liveIds' = liveIds \ {i}
       /\ pending' = [cmd |-> "remove", ids |-> {i}]
  /\ UNCHANGED <<lifeVars, num, nextSeq, swarm, answered, snapshot>>

\* Mutant: one call counts one node.
SendAddCountsOne ==
  /\ pending.cmd = "add"
  /\ \E o \in AddOutcomes :
       /\ swarm' = IF o = "lost" THEN swarm
                   ELSE [i \in Ids |-> IF i \in pending.ids THEN swarm[i] + 1
                                                            ELSE swarm[i]]
       /\ num' = IF o = "ok" THEN num + 1 ELSE num
       /\ answered' = (answered /\ o = "ok")
  /\ pending' = Nothing
  /\ UNCHANGED <<lifeVars, known, nextSeq, liveIds, snapshot>>

\* Mutant: the ids are given back when send_command() raises.
SendAddGivesBack ==
  /\ pending.cmd = "add"
  /\ \E o \in AddOutcomes :
       /\ swarm' = IF o = "lost" THEN swarm
                   ELSE [i \in Ids |-> IF i \in pending.ids THEN swarm[i] + 1
                                                            ELSE swarm[i]]
       /\ num' = IF o = "ok" THEN num + Cardinality(pending.ids) ELSE num
       /\ answered' = (answered /\ o = "ok")
       /\ known' = IF o = "ok" THEN known ELSE known \ pending.ids
  /\ pending' = Nothing
  /\ UNCHANGED <<lifeVars, nextSeq, liveIds, snapshot>>

\* The count changes only when send_command() returns.
SendAdd ==
  /\ pending.cmd = "add"
  /\ \E o \in AddOutcomes :
       /\ swarm' = IF o = "lost" THEN swarm
                   ELSE [i \in Ids |-> IF i \in pending.ids THEN swarm[i] + 1
                                                            ELSE swarm[i]]
       /\ num' = IF o = "ok" THEN num + Cardinality(pending.ids) ELSE num
       /\ answered' = (answered /\ o = "ok")
  /\ pending' = Nothing
  /\ UNCHANGED <<lifeVars, known, nextSeq, liveIds, snapshot>>

SendRemove ==
  /\ pending.cmd = "remove"
  /\ \E o \in RemoveOutcomes :
       /\ swarm' = IF o = "lost" THEN swarm
                   ELSE [i \in Ids |-> IF i \in pending.ids /\ swarm[i] > 0
                                       THEN swarm[i] - 1 ELSE swarm[i]]
       /\ num' = IF o = "ok" /\ num > 0 THEN num - 1 ELSE num
       /\ answered' = (answered /\ o = "ok")
  /\ pending' = Nothing
  /\ UNCHANGED <<lifeVars, known, nextSeq, liveIds, snapshot>>

-----------------------------------------------------------------------------
(* Snapshots: produced by the subprocess, dispatched by the stream thread. *)

TakeSnapshot ==
  /\ backend /\ snapshot = {}
  /\ snapshot' = InSwarm
  /\ UNCHANGED <<lifeVars, countVars, swarm, liveIds, answered, pending>>

Dispatch ==
  /\ snapshot # {}
  /\ liveIds' = liveIds \cup snapshot
  /\ snapshot' = {}
  /\ UNCHANGED <<lifeVars, countVars, swarm, answered, pending>>

Next ==
  \/ Start \/ Close
  \/ AddSequential \/ AddRandom \/ AddExplicit \/ RemoveNode \/ SendAdd \/ SendRemove
  \/ TakeSnapshot \/ Dispatch

Spec == Init /\ [][Next]_vars

-----------------------------------------------------------------------------
(* Properties.                                                             *)

\* Between calls, while the swarm is connected and until the first command fails,
\* the ids on this side are those of the subprocess, and num_nodes (node_count) is
\* their number.
CountsAgree ==
  backend /\ pending = Nothing /\ answered => known = InSwarm /\ num = Cardinality(known)

\* No two nodes of a subprocess have the same id, however the adds end.
NoDuplicateNode == \A i \in Ids : swarm[i] <= 1

\* When close() has returned no subprocess of this object runs.
ClosedMeansStopped == process = NoProcess => running = {}

\* While the swarm is connected every node of the subprocess has its id in the
\* records, or is being removed, however the commands ended (also of an add whose
\* answer came too late): it can be removed, and no id is given to it again.
EveryNodeKnown ==
  backend => InSwarm \subseteq known \cup (IF pending.cmd = "remove" THEN pending.ids ELSE {})

\* Violated: remove_node() says that check_liveness() stops reporting the node
\* (_ipc_node_base.py:137).  A snapshot from before the removal that is dispatched
\* after it makes the strategy track the node again, and nothing discards it then.
RemovedNotReported == backend /\ pending = Nothing => liveIds \subseteq known

(***************************************************************************)
(* Why they hold.                                                          *)
(***************************************************************************)
SeqIds == 0..(MaxSeq - 1)

\* While the swarm is connected, an id of the subprocess is in the records or is
\* being removed, an id being added is not in the subprocess yet, and the
\* sequential counter is past every id of its range that is in use.
IdsInv ==
  /\ process = NoProcess => ~backend
  /\ pending # Nothing => backend
  /\ \A i \in Ids : swarm[i] <= 1
  /\ pending.cmd = "none" => pending.ids = {}
  /\ pending.cmd = "add" => pending.ids \subseteq known /\ pending.ids \cap InSwarm = {}
  /\ EveryNodeKnown
  /\ backend => (known \cup InSwarm) \cap SeqIds \subseteq 0..(nextSeq - 1)

\* The counts before and after the command that is about to be sent.
CountInv ==
  backend /\ answered =>
    /\ pending.cmd = "none" => known = InSwarm /\ num = Cardinality(known)
    /\ pending.cmd = "add" => /\ InSwarm = known \ pending.ids
                              /\ num + Cardinality(pending.ids) = Cardinality(known)
    /\ pending.cmd = "remove" =>
         /\ \E i \in Ids : pending.ids = {i} /\ i \notin known
         /\ InSwarm = known \cup pending.ids
         /\ num = Cardinality(known) + 1
=============================================================================

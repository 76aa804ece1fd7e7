-------------------------- MODULE SwarmProcess_proof --------------------------
(***************************************************************************)
(* Theorems about SwarmProcess: type correctness, unique node ids in the   *)
(* subprocess when removals are never lost and the given ids stay out of   *)
(* the range of the sequential counter, and the agreement of the records   *)
(* with the subprocess until a command fails.                              *)
(***************************************************************************)
EXTENDS SwarmProcess, FiniteSetTheorems, TLAPS

USE DEF lifeVars, countVars, Nothing

\* Every set of ids is finite.
LEMMA IdsAreFinite ==
  ASSUME NEW S, S \subseteq Ids
  PROVE  IsFiniteSet(S) /\ Cardinality(S) \in Nat
<1>1. IsFiniteSet(0..(MaxSeq - 1)) BY BoundsNatural, FS_Interval
<1>2. IsFiniteSet(Ids) BY <1>1, PickIdsFinite, FS_Union DEF Ids
<1>3. IsFiniteSet(S) BY <1>2, FS_Subset
<1>4. QED BY <1>3, FS_CardinalityType

LEMMA StepType ==
  ASSUME TypeOK, Next
  PROVE  TypeOK'
<1> USE BoundsNatural, PickIdsFinite, ProcessesFinite DEF TypeOK, Ids
<1>1. CASE Start
  <2>1. known' \subseteq Ids /\ nextSeq' \in 0..MaxSeq
    <3>1. \/ known' = 0..(num - 1) /\ nextSeq' = num
          \/ UNCHANGED <<known, nextSeq>>
      BY <1>1 DEF Start
    <3>2. num \in 0..MaxSeq BY <1>1 DEF Start
    <3>3. 0..(num - 1) \subseteq Ids BY <3>2
    <3>4. QED BY <3>1, <3>2, <3>3
  <2>3. swarm' \in [Ids -> Nat] BY <1>1 DEF Start
  <2>4. backend' \in BOOLEAN BY <1>1 DEF Start
  <2>5. process' \in Processes /\ running' \subseteq Processes BY <1>1 DEF Start
  <2>6. UNCHANGED <<num, liveIds, snapshot, pending>> BY <1>1 DEF Start
  <2>7. answered' \in BOOLEAN BY <1>1 DEF Start
  <2>8. QED BY <2>1, <2>3, <2>4, <2>5, <2>6, <2>7
<1>2. CASE Close BY <1>2 DEF Close
<1>3. CASE AddSequential BY <1>3 DEF AddSequential
<1>4. CASE AddRandom BY <1>4 DEF AddRandom
<1>5. CASE AddExplicit BY <1>5 DEF AddExplicit
<1>6. CASE RemoveNode BY <1>6 DEF RemoveNode
<1>7. CASE SendAdd
  <2>1. Cardinality(pending.ids) \in Nat BY IdsAreFinite
  <2>2. num' \in Nat BY <1>7, <2>1 DEF SendAdd
  <2>3. swarm' \in [Ids -> Nat] BY <1>7 DEF SendAdd
  <2>4. QED BY <1>7, <2>2, <2>3 DEF SendAdd
<1>8. CASE SendRemove
  <2>1. num' \in Nat BY <1>8 DEF SendRemove
  <2>2. swarm' \in [Ids -> Nat] BY <1>8 DEF SendRemove
  <2>3. QED BY <1>8, <2>1, <2>2 DEF SendRemove
<1>9. CASE TakeSnapshot BY <1>9 DEF TakeSnapshot, InSwarm
<1>10. CASE Dispatch BY <1>10 DEF Dispatch
<1>11. QED BY <1>1, <1>2, <1>3, <1>4, <1>5, <1>6, <1>7, <1>8, <1>9, <1>10 DEF Next

\* Type correctness; num_nodes never gets negative, however the commands end.
THEOREM Typing == Spec => []TypeOK
<1>1. Init => TypeOK
  <2> SUFFICES ASSUME Init PROVE TypeOK OBVIOUS
  <2>1. pending \in [cmd : {"none", "add", "remove"}, ids : SUBSET Ids] BY DEF Init
  <2>2. swarm \in [Ids -> Nat] BY DEF Init
  <2>3. nextSeq \in 0..MaxSeq BY BoundsNatural DEF Init
  <2>4. QED BY <2>1, <2>2, <2>3, BoundsNatural DEF Init, TypeOK
<1>2. TypeOK /\ [Next]_vars => TypeOK'
  <2> SUFFICES ASSUME TypeOK, [Next]_vars PROVE TypeOK' OBVIOUS
  <2>1. CASE Next BY <2>1, StepType
  <2>2. CASE UNCHANGED vars BY <2>2 DEF TypeOK, vars
  <2>3. QED BY <2>1, <2>2
<1>3. QED BY <1>1, <1>2, PTL DEF Spec

-----------------------------------------------------------------------------
(* Unique ids.                                                             *)

\* What keeps the ids unique: no removal is lost, ids are not given in the range
\* of the counter, and start() is called once between two close().
Disciplined == /\ "lost" \notin RemoveOutcomes
               /\ PickIds \cap SeqIds = {}
               /\ StartAgain = FALSE

LEMMA StepIds ==
  ASSUME TypeOK, TypeOK', IdsInv, Next, Disciplined
  PROVE  IdsInv'
<1> USE BoundsNatural, PickIdsFinite, ProcessesFinite, OutcomesKnown
    DEF TypeOK, Disciplined, IdsInv, EveryNodeKnown, InSwarm, Ids, SeqIds
<1>1. CASE Start
  <2>1. /\ pending' = Nothing /\ ~backend /\ process' # NoProcess
        /\ \A i \in Ids : swarm'[i] = IF i < num THEN 1 ELSE 0
    BY <1>1 DEF Start
  <2>2. CASE ~backend' BY <2>1, <2>2
  <2>3. CASE backend'
    <3>1. known' = 0..(num - 1) /\ nextSeq' = num BY <1>1, <2>1, <2>3 DEF Start
    <3>2. \A i \in Ids : swarm'[i] > 0 => i \in 0..(num - 1) BY <2>1
    <3>3. InSwarm' \subseteq known' BY <3>1, <3>2
    <3>4. (known' \cup InSwarm') \cap SeqIds \subseteq 0..(nextSeq' - 1) BY <3>1, <3>3
    <3>5. pending'.cmd = "none" /\ pending'.ids = {} BY <2>1
    <3>6. \A i \in Ids : swarm'[i] <= 1 BY <2>1
    <3>7. QED BY <2>1, <2>3, <3>3, <3>4, <3>5, <3>6
  <2>4. QED BY <2>2, <2>3
<1>2. CASE Close BY <1>2 DEF Close
<1>3. CASE AddSequential
  <2>1. PICK count \in 1..MaxBatch :
          /\ nextSeq + count <= MaxSeq
          /\ known' = known \cup (nextSeq..(nextSeq + count - 1))
          /\ pending' = [cmd |-> "add", ids |-> nextSeq..(nextSeq + count - 1)]
          /\ nextSeq' = nextSeq + count
    BY <1>3 DEF AddSequential
  <2>2. backend /\ pending = Nothing /\ UNCHANGED <<process, backend, swarm>>
    BY <1>3 DEF AddSequential
  <2>3. (nextSeq..(nextSeq + count - 1)) \cap InSwarm = {} BY <2>1, <2>2
  <2>4. pending'.cmd = "add" /\ pending'.ids = nextSeq..(nextSeq + count - 1) BY <2>1
  <2>5. (known' \cup InSwarm) \cap SeqIds \subseteq 0..(nextSeq' - 1)
    <3>1. SUFFICES ASSUME NEW i \in SeqIds, i \in known' \cup InSwarm
                   PROVE  i < nextSeq'
      BY <2>1
    <3>2. CASE i \in known \cup InSwarm
      <4>1. i \in 0..(nextSeq - 1) BY <2>2, <3>2
      <4>2. QED BY <2>1, <4>1
    <3>3. CASE i \in nextSeq..(nextSeq + count - 1) BY <2>1, <3>3
    <3>4. QED BY <2>1, <3>1, <3>2, <3>3
  <2>6. QED BY <2>1, <2>2, <2>3, <2>4, <2>5
<1>4. CASE AddRandom
  <2>1. PICK ids \in SUBSET (PickIds \ known) :
          known' = known \cup ids /\ pending' = [cmd |-> "add", ids |-> ids]
    BY <1>4 DEF AddRandom
  <2>2. backend /\ pending = Nothing /\ UNCHANGED <<process, backend, nextSeq, swarm>>
    BY <1>4 DEF AddRandom
  <2>3. pending'.cmd = "add" /\ pending'.ids = ids BY <2>1
  <2>4. ids \cap InSwarm = {} BY <2>2
  <2>5. (known' \cup InSwarm) \cap SeqIds \subseteq 0..(nextSeq - 1) BY <2>1, <2>2
  <2>6. QED BY <2>1, <2>2, <2>3, <2>4, <2>5
<1>5. CASE AddExplicit BY <1>5 DEF AddExplicit
<1>6. CASE RemoveNode BY <1>6 DEF RemoveNode
<1>7. CASE SendAdd BY <1>7 DEF SendAdd
<1>8. CASE SendRemove
  <2>1. \A i \in Ids : swarm'[i] = IF i \in pending.ids /\ swarm[i] > 0
                                   THEN swarm[i] - 1 ELSE swarm[i]
    BY <1>8 DEF SendRemove, Outcomes
  <2>2. /\ pending.cmd = "remove" /\ pending' = Nothing
        /\ UNCHANGED <<process, backend, known, nextSeq>>
    BY <1>8 DEF SendRemove
  <2>3. ASSUME NEW i \in Ids
        PROVE  /\ swarm'[i] <= 1
               /\ swarm'[i] > 0 => swarm[i] > 0 /\ i \notin pending.ids
    <3>1. swarm[i] \in Nat /\ swarm[i] <= 1 OBVIOUS
    <3>2. swarm'[i] = IF i \in pending.ids /\ swarm[i] > 0
                      THEN swarm[i] - 1 ELSE swarm[i]
      BY <2>1
    <3>3. QED BY <3>1, <3>2
  <2>4. InSwarm' \subseteq InSwarm \ pending.ids BY <2>3
  <2>5. pending'.cmd = "none" /\ pending'.ids = {} BY <2>2
  <2>6. QED BY <2>2, <2>3, <2>4, <2>5
<1>9. CASE TakeSnapshot
  <2>1. UNCHANGED <<process, backend, known, nextSeq, swarm, pending>>
    BY <1>9 DEF TakeSnapshot
  <2>2. QED BY <2>1
<1>10. CASE Dispatch BY <1>10 DEF Dispatch
<1>11. QED BY <1>1, <1>2, <1>3, <1>4, <1>5, <1>6, <1>7, <1>8, <1>9, <1>10 DEF Next

LEMMA IdsAlways == ASSUME Disciplined PROVE Spec => []IdsInv
<1>1. Init => IdsInv BY DEF Init, IdsInv, EveryNodeKnown, InSwarm
<1>2. TypeOK /\ TypeOK' /\ IdsInv /\ [Next]_vars => IdsInv'
  <2> SUFFICES ASSUME TypeOK, TypeOK', IdsInv, [Next]_vars PROVE IdsInv' OBVIOUS
  <2>1. CASE Next BY <2>1, StepIds
  <2>2. CASE UNCHANGED vars BY <2>2 DEF IdsInv, EveryNodeKnown, InSwarm, vars
  <2>3. QED BY <2>1, <2>2
<1>3. QED BY <1>1, <1>2, Typing, PTL DEF Spec

\* No two nodes of a subprocess have the same id, however the adds end.
THEOREM UniqueIds == ASSUME Disciplined PROVE Spec => []NoDuplicateNode
<1>1. IdsInv => NoDuplicateNode BY DEF IdsInv, NoDuplicateNode
<1>2. QED BY <1>1, IdsAlways, PTL

\* Every node of the subprocess is in the records, however the adds end.
THEOREM NodesKnown == ASSUME Disciplined PROVE Spec => []EveryNodeKnown
<1>1. IdsInv => EveryNodeKnown BY DEF IdsInv
<1>2. QED BY <1>1, IdsAlways, PTL

-----------------------------------------------------------------------------
(* The records agree with the subprocess.                                  *)

\* The size of the union of two disjoint sets of ids.
LEMMA DisjointCount ==
  ASSUME NEW S, NEW T, S \subseteq Ids, T \subseteq Ids, S \cap T = {}
  PROVE  Cardinality(S \cup T) = Cardinality(S) + Cardinality(T)
<1>1. IsFiniteSet(S) /\ IsFiniteSet(T) /\ Cardinality(S) \in Nat /\ Cardinality(T) \in Nat
  BY IdsAreFinite
<1>2. Cardinality(S \cap T) = 0 BY FS_EmptySet
<1>3. Cardinality(S \cup T) = Cardinality(S) + Cardinality(T) - Cardinality(S \cap T)
  BY <1>1, FS_Union
<1>4. QED BY <1>1, <1>2, <1>3

LEMMA StepCount ==
  ASSUME TypeOK, IdsInv, CountInv, Next, Disciplined
  PROVE  CountInv'
<1> USE BoundsNatural DEF TypeOK, CountInv, InSwarm
<1>1. CASE Start
  <2> SUFFICES ASSUME backend' PROVE CountInv' OBVIOUS
  <2>1. /\ ~backend /\ pending' = Nothing /\ num' = num /\ num \in 0..MaxSeq
        /\ swarm' = [i \in Ids |-> IF i < num THEN 1 ELSE 0]
    BY <1>1 DEF Start, IdsInv, EveryNodeKnown, Disciplined
  <2>2. known' = 0..(num - 1) BY <1>1, <2>1 DEF Start
  <2>3. 0..(num - 1) \subseteq Ids BY <2>1 DEF Ids
  <2>4. Cardinality(0..(num - 1)) = num BY <2>1, FS_Interval
  <2>5. InSwarm' = {i \in Ids : i < num} BY <2>1
  <2>6. {i \in Ids : i < num} = 0..(num - 1)
    <3>1. Ids \subseteq Nat BY PickIdsFinite DEF Ids
    <3>2. ASSUME NEW i \in Ids, i < num PROVE i \in 0..(num - 1) BY <2>1, <3>1, <3>2
    <3>3. ASSUME NEW i \in 0..(num - 1) PROVE i \in Ids /\ i < num BY <2>1, <2>3, <3>3
    <3>4. QED BY <3>2, <3>3
  <2>7. QED BY <2>1, <2>2, <2>4, <2>5, <2>6
<1>2. CASE Close BY <1>2 DEF Close
<1>3. ASSUME NEW ids, ids \subseteq Ids, ids \cap known = {}, known' = known \cup ids,
             pending' = [cmd |-> "add", ids |-> ids],
             backend, pending = Nothing, UNCHANGED <<lifeVars, num, answered, swarm>>
      PROVE  CountInv'
  <2> SUFFICES ASSUME answered' PROVE CountInv' OBVIOUS
  <2>1. known = InSwarm /\ num = Cardinality(known) BY <1>3
  <2>2. Cardinality(known') = num + Cardinality(ids) BY <1>3, <2>1, DisjointCount
  <2>3. pending'.cmd = "add" /\ pending'.ids = ids BY <1>3
  <2>4. InSwarm' = known' \ ids BY <1>3, <2>1
  <2>5. num' + Cardinality(pending'.ids) = Cardinality(known') BY <1>3, <2>2, <2>3
  <2>6. QED BY <2>3, <2>4, <2>5
<1>4. CASE AddSequential
  <2>1. PICK count \in 1..MaxBatch :
          /\ nextSeq + count <= MaxSeq
          /\ known' = known \cup (nextSeq..(nextSeq + count - 1))
          /\ pending' = [cmd |-> "add", ids |-> nextSeq..(nextSeq + count - 1)]
    BY <1>4 DEF AddSequential
  <2>2. backend /\ pending = Nothing /\ UNCHANGED <<lifeVars, num, answered, swarm>>
    BY <1>4 DEF AddSequential
  <2>3. nextSeq..(nextSeq + count - 1) \subseteq SeqIds BY <2>1 DEF SeqIds
  <2>4. known \cap SeqIds \subseteq 0..(nextSeq - 1) BY <2>2 DEF IdsInv
  <2>5. (nextSeq..(nextSeq + count - 1)) \cap known = {}
    <3>1. SUFFICES ASSUME NEW i \in nextSeq..(nextSeq + count - 1), i \in known PROVE FALSE
      OBVIOUS
    <3>2. i \in 0..(nextSeq - 1) BY <3>1, <2>3, <2>4
    <3>3. QED BY <3>1, <3>2
  <2>6. nextSeq..(nextSeq + count - 1) \subseteq Ids BY <2>3 DEF SeqIds, Ids
  <2>7. QED BY <1>3, <2>1, <2>2, <2>5, <2>6
<1>5. CASE AddRandom
  <2>1. PICK ids \in SUBSET (PickIds \ known) :
          known' = known \cup ids /\ pending' = [cmd |-> "add", ids |-> ids]
    BY <1>5 DEF AddRandom
  <2>2. backend /\ pending = Nothing /\ UNCHANGED <<lifeVars, num, answered, swarm>>
    BY <1>5 DEF AddRandom
  <2>3. ids \subseteq Ids /\ ids \cap known = {} BY DEF Ids
  <2>4. QED BY <1>3, <2>1, <2>2, <2>3
<1>6. CASE AddExplicit
  <2>1. PICK i \in PickIds \ known :
          known' = known \cup {i} /\ pending' = [cmd |-> "add", ids |-> {i}]
    BY <1>6 DEF AddExplicit
  <2>2. backend /\ pending = Nothing /\ UNCHANGED <<lifeVars, num, answered, swarm>>
    BY <1>6 DEF AddExplicit
  <2>3. {i} \subseteq Ids /\ {i} \cap known = {} BY DEF Ids
  <2>4. QED BY <1>3, <2>1, <2>2, <2>3
<1>7. CASE RemoveNode
  <2> SUFFICES ASSUME answered' PROVE CountInv' OBVIOUS
  <2>1. PICK i \in known :
          known' = known \ {i} /\ pending' = [cmd |-> "remove", ids |-> {i}]
    BY <1>7 DEF RemoveNode
  <2>2. backend /\ pending = Nothing /\ UNCHANGED <<lifeVars, num, answered, swarm>>
    BY <1>7 DEF RemoveNode
  <2>3. known = InSwarm /\ num = Cardinality(known) BY <2>2
  <2>4. IsFiniteSet(known \ {i}) /\ Cardinality(known \ {i}) \in Nat BY IdsAreFinite
  <2>5. (known \ {i}) \cup {i} = known OBVIOUS
  <2>6. Cardinality(known) = Cardinality(known \ {i}) + 1
    BY <2>4, <2>5, FS_AddElement
  <2>7. pending'.cmd = "remove" /\ pending'.ids = {i} BY <2>1
  <2>8. InSwarm' = known' \cup pending'.ids BY <2>1, <2>2, <2>3, <2>7
  <2>9. num' = Cardinality(known') + 1 BY <2>1, <2>2, <2>3, <2>6
  <2>10. \E j \in Ids : pending'.ids = {j} /\ j \notin known' BY <2>1, <2>7
  <2>11. QED BY <2>7, <2>8, <2>9, <2>10
<1>8. CASE SendAdd
  <2> SUFFICES ASSUME answered' PROVE CountInv' OBVIOUS
  <2>1. /\ pending.cmd = "add" /\ pending' = Nothing /\ known' = known
        /\ swarm' = [i \in Ids |-> IF i \in pending.ids THEN swarm[i] + 1 ELSE swarm[i]]
        /\ num' = num + Cardinality(pending.ids)
        /\ backend' = backend /\ answered
    BY <1>8 DEF SendAdd
  <2>2. backend /\ pending.ids \subseteq known BY <2>1 DEF IdsInv
  <2>3. InSwarm' = InSwarm \cup pending.ids BY <2>1, <2>2
  <2>4. QED BY <2>1, <2>2, <2>3
<1>9. CASE SendRemove
  <2> SUFFICES ASSUME answered' PROVE CountInv' OBVIOUS
  <2>1. /\ pending.cmd = "remove" /\ pending' = Nothing /\ known' = known
        /\ swarm' = [i \in Ids |-> IF i \in pending.ids /\ swarm[i] > 0
                                   THEN swarm[i] - 1 ELSE swarm[i]]
        /\ num' = IF num > 0 THEN num - 1 ELSE num
        /\ backend' = backend /\ answered
    BY <1>9 DEF SendRemove
  <2>2. backend BY <2>1 DEF IdsInv
  <2>3. \A i \in Ids : swarm'[i] > 0 <=> (swarm[i] > 0 /\ i \notin pending.ids)
    BY <2>1 DEF IdsInv
  <2>4. InSwarm' = InSwarm \ pending.ids BY <2>3
  <2>5. /\ InSwarm = known \cup pending.ids /\ known \cap pending.ids = {}
        /\ num = Cardinality(known) + 1
    BY <2>1, <2>2
  <2>6. InSwarm' = known' BY <2>1, <2>4, <2>5
  <2>7. Cardinality(known) \in Nat BY IdsAreFinite
  <2>8. num' = Cardinality(known') BY <2>1, <2>5, <2>7
  <2>9. QED BY <2>1, <2>6, <2>8
<1>10. CASE TakeSnapshot \/ Dispatch BY <1>10 DEF TakeSnapshot, Dispatch
<1>11. QED BY <1>1, <1>2, <1>4, <1>5, <1>6, <1>7, <1>8, <1>9, <1>10 DEF Next

\* Between calls, until a command fails, the records are those of the subprocess:
\* the same ids, and num_nodes is their number.
THEOREM RecordsAgree == ASSUME Disciplined PROVE Spec => []CountsAgree
<1>1. Init => IdsInv /\ CountInv BY DEF Init, IdsInv, EveryNodeKnown, CountInv, InSwarm
<1>2. TypeOK /\ TypeOK' /\ (IdsInv /\ CountInv) /\ [Next]_vars => (IdsInv /\ CountInv)'
  <2> SUFFICES ASSUME TypeOK, TypeOK', IdsInv, CountInv, [Next]_vars
               PROVE  IdsInv' /\ CountInv'
    OBVIOUS
  <2>1. CASE Next BY <2>1, StepIds, StepCount
  <2>2. CASE UNCHANGED vars BY <2>2 DEF IdsInv, EveryNodeKnown, CountInv, InSwarm, vars
  <2>3. QED BY <2>1, <2>2
<1>3. CountInv => CountsAgree BY DEF CountInv, CountsAgree, Nothing
<1>4. QED BY <1>1, <1>2, <1>3, Typing, PTL DEF Spec

-----------------------------------------------------------------------------

\* When close() has returned no subprocess of this object runs, whatever became of
\* start() and of the commands, as long as start() is called once between two close().
THEOREM ClosedStops == ASSUME StartAgain = FALSE PROVE Spec => []ClosedMeansStopped
<1> DEFINE OnlyOwn == running = {process} \ {NoProcess}
<1>1. Init => OnlyOwn BY DEF Init
<1>2. OnlyOwn /\ [Next]_vars => OnlyOwn'
  <2> SUFFICES ASSUME OnlyOwn, [Next]_vars PROVE OnlyOwn' OBVIOUS
  <2>1. CASE Start BY <2>1, ProcessesFinite DEF Start
  <2>2. CASE Close BY <2>2 DEF Close
  <2>3. CASE AddSequential BY <2>3 DEF AddSequential
  <2>4. CASE AddRandom BY <2>4 DEF AddRandom
  <2>5. CASE AddExplicit BY <2>5 DEF AddExplicit
  <2>6. CASE RemoveNode BY <2>6 DEF RemoveNode
  <2>7. CASE SendAdd BY <2>7 DEF SendAdd
  <2>8. CASE SendRemove BY <2>8 DEF SendRemove
  <2>9. CASE TakeSnapshot BY <2>9 DEF TakeSnapshot
  <2>10. CASE Dispatch BY <2>10 DEF Dispatch
  <2>11. CASE UNCHANGED vars BY <2>11 DEF vars
  <2>12. QED BY <2>1, <2>2, <2>3, <2>4, <2>5, <2>6, <2>7, <2>8, <2>9, <2>10, <2>11 DEF Next
<1>3. OnlyOwn => ClosedMeansStopped BY DEF ClosedMeansStopped
<1>4. QED BY <1>1, <1>2, <1>3, PTL DEF Spec
=============================================================================

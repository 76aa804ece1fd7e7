---------------------------- MODULE NodeIpc_proof ----------------------------
(***************************************************************************)
(* Theorems about the two ways in which a node hears of the swarm: it asks *)
(* over the socket (SocketRpc), or is told by snapshots and their absence  *)
(* (NeighborMonitor). For any set of clients and any number of calls,      *)
(* SocketRpc implements Rpc, and a call gets its own answer as long as no  *)
(* call raised and no two overlapped. For every set of nodes, window and   *)
(* clock, no neighbour escapes the monitor.                                *)
(***************************************************************************)
EXTENDS SocketRpc, NeighborMonitor, FiniteSetTheorems, TLAPS

IInv == TypeOK /\ BuffersApart

LEMMA InitIInv == Init => IInv
BY CallsNatural DEF Init, IInv, TypeOK, BuffersApart

LEMMA NextIInv == IInv /\ [Next]_vars => IInv'
<1> SUFFICES ASSUME IInv, [Next]_vars PROVE IInv'
  OBVIOUS
<1> USE CallsNatural DEF IInv, TypeOK, BuffersApart
<1>1. CASE Arrive
  BY <1>1 DEF Arrive
<1>2. CASE Close
  BY <1>2 DEF Close
<1>3. ASSUME NEW c \in Clients, Send(c) PROVE IInv'
  BY <1>3 DEF Send
<1>4. ASSUME NEW c \in Clients, Recv(c) PROVE IInv'
  <2>1. PICK t \in (taken + 1)..arrived :
          /\ taken' = t
          /\ buffer' = [buffer EXCEPT ![c] = @ \cup (taken + 1)..t]
    BY <1>4 DEF Recv
  <2>2. taken < t /\ t <= arrived /\ t \in Nat
    BY <2>1
  <2>3. buffer' \in [Clients -> SUBSET (1..t)]
    BY <2>1, <2>2
  <2>4. BuffersApart'
    BY <2>1, <2>2
  <2> QED
    BY <1>4, <2>1, <2>2, <2>3, <2>4 DEF Recv
<1>5. ASSUME NEW c \in Clients, Return(c) PROVE IInv'
  <2>1. PICK r \in Requests : /\ buffer[c] = {2 * r - 1, 2 * r}
                              /\ answer' = [answer EXCEPT ![c] = r]
    BY <1>5 DEF Return
  <2>2. r \in 0..sent
    BY <2>1 DEF Requests
  <2>3. answer' \in [Clients -> 0..sent]
    BY <2>1, <2>2
  <2> QED
    BY <1>5, <2>3 DEF Return
<1>6. ASSUME NEW c \in Clients, Garbled(c) \/ TimeOut(c) PROVE IInv'
  <2>1. Raise(c)
    BY <1>6 DEF Garbled, TimeOut
  <2>2. TypeOK'
    <3>1. buffer' = [buffer EXCEPT ![c] = {}] /\ taken' = taken
      BY <2>1 DEF Raise
    <3>2. buffer' \in [Clients -> SUBSET (1..taken')]
      BY <3>1
    <3>3. own' \in [Clients -> 0..sent'] /\ sent' = sent
      BY <2>1 DEF Raise
    <3> QED
      BY <2>1, <3>2, <3>3 DEF Raise
  <2>3. BuffersApart'
    BY <2>1 DEF Raise
  <2> QED
    BY <2>2, <2>3
<1>7. CASE UNCHANGED vars
  BY <1>7 DEF vars
<1> QED
  BY <1>1, <1>2, <1>3, <1>4, <1>5, <1>6, <1>7 DEF Next

-----------------------------------------------------------------------------
(* Refinement.                                                             *)

LEMMA InitRefines == Init => R!Init
BY DEF Init, R!Init, Unanswered

\* The requests a step of recv() reads were unanswered before and are still.
LEMMA RecvKeeps ==
  ASSUME NEW c \in Clients, IInv, Recv(c)
  PROVE  Unanswered' = Unanswered
<1> USE CallsNatural DEF IInv, TypeOK
<1>1. PICK t \in (taken + 1)..arrived :
        /\ taken' = t
        /\ buffer' = [buffer EXCEPT ![c] = @ \cup (taken + 1)..t]
  BY DEF Recv
<1>2. sent' = sent /\ t \in Nat /\ taken < t
  BY <1>1 DEF Recv
<1>3. ASSUME NEW r \in 1..sent
      PROVE (2 * r > t \/ \E d \in Clients : 2 * r \in buffer'[d])
              <=> (2 * r > taken \/ \E d \in Clients : 2 * r \in buffer[d])
  <2>1. ASSUME 2 * r > taken, ~(2 * r > t) PROVE 2 * r \in buffer'[c]
    BY <1>1, <1>2, <2>1
  <2>2. ASSUME NEW d \in Clients, 2 * r \in buffer[d] PROVE 2 * r \in buffer'[d]
    BY <1>1, <2>2
  <2>3. ASSUME NEW d \in Clients, 2 * r \in buffer'[d]
        PROVE 2 * r \in buffer[d] \/ 2 * r > taken
    BY <1>1, <1>2, <2>3
  <2> QED
    BY <1>2, <2>1, <2>2, <2>3
<1> QED
  BY <1>1, <1>2, <1>3 DEF Unanswered

\* The request whose answer a call returns is unanswered before and not after.
LEMMA ReturnAnswers ==
  ASSUME NEW c \in Clients, NEW r \in Requests, IInv, Return(c),
         buffer[c] = {2 * r - 1, 2 * r}
  PROVE  r \in Unanswered /\ Unanswered' = Unanswered \ {r}
<1> USE CallsNatural DEF IInv, TypeOK, BuffersApart, Requests
<1>1. 2 * r \in buffer[c] /\ 2 * r <= taken /\ r \in 1..sent
  OBVIOUS
<1>2. buffer' = [buffer EXCEPT ![c] = {}] /\ sent' = sent /\ taken' = taken
  BY DEF Return
<1>3. ASSUME NEW q \in 1..sent
      PROVE (\E d \in Clients : 2 * q \in buffer'[d])
              <=> q # r /\ \E d \in Clients : 2 * q \in buffer[d]
  <2>1. ASSUME NEW d \in Clients, 2 * q \in buffer'[d]
        PROVE q # r /\ 2 * q \in buffer[d]
    BY <1>1, <1>2, <2>1
  <2>2. ASSUME NEW d \in Clients, 2 * q \in buffer[d], q # r
        PROVE 2 * q \in buffer'[d]
    BY <1>2, <2>2
  <2> QED
    BY <2>1, <2>2
<1> QED
  BY <1>1, <1>2, <1>3 DEF Unanswered

\* A call that raises can only lose answers.
LEMMA RaiseLoses ==
  ASSUME NEW c \in Clients, IInv, Raise(c), UNCHANGED <<sent, taken>>
  PROVE  Unanswered' \in SUBSET Unanswered
<1>1. ASSUME NEW d \in Clients, NEW p \in buffer'[d] PROVE p \in buffer[d]
  BY <1>1 DEF Raise, IInv, TypeOK
<1> QED
  BY <1>1 DEF Unanswered

LEMMA NextRefines == IInv /\ [Next]_vars => [R!Next]_R!vars
<1> SUFFICES ASSUME IInv, [Next]_vars PROVE [R!Next]_R!vars
  OBVIOUS
<1> USE CallsNatural
<1>1. CASE Arrive
  BY <1>1 DEF Arrive, R!vars, Unanswered
<1>2. CASE Close
  BY <1>2 DEF Close, R!vars, Unanswered
<1>3. ASSUME NEW c \in Clients, Send(c) PROVE R!Call(c)
  <2>1. sent + 1 \in 1..(sent + 1) /\ 2 * (sent + 1) > taken /\ sent \in Nat
    BY DEF IInv, TypeOK
  <2>2. 1..(sent + 1) = 1..sent \cup {sent + 1}
    BY <2>1
  <2>3. Unanswered' = Unanswered \cup {sent + 1}
    BY <1>3, <2>1, <2>2 DEF Send, Unanswered
  <2> QED
    BY <1>3, <2>3 DEF Send, R!Call
<1>4. ASSUME NEW c \in Clients, Recv(c) PROVE UNCHANGED R!vars
  <2>1. Unanswered' = Unanswered
    BY <1>4, RecvKeeps
  <2> QED
    BY <1>4, <2>1 DEF Recv, R!vars
<1>5. ASSUME NEW c \in Clients, Return(c) PROVE R!Answer(c)
  <2>1. PICK r \in Requests : /\ buffer[c] = {2 * r - 1, 2 * r}
                              /\ answer' = [answer EXCEPT ![c] = r]
    BY <1>5 DEF Return
  <2>2. r \in Unanswered /\ Unanswered' = Unanswered \ {r}
    BY <1>5, <2>1, ReturnAnswers
  <2> QED
    BY <1>5, <2>1, <2>2 DEF Return, R!Answer
<1>6. ASSUME NEW c \in Clients, Garbled(c) \/ TimeOut(c) PROVE R!Fail(c)
  <2>1. own[c] # 0 /\ Raise(c) /\ UNCHANGED <<sent, taken>>
    BY <1>6 DEF Garbled, TimeOut, Raise
  <2>2. Unanswered' \in SUBSET Unanswered
    BY <2>1, RaiseLoses
  <2> QED
    BY <2>1, <2>2 DEF Raise, R!Fail
<1>7. CASE UNCHANGED vars
  BY <1>7 DEF vars, R!vars, Unanswered
<1> QED
  BY <1>1, <1>2, <1>3, <1>4, <1>5, <1>6, <1>7 DEF Next, R!Next

-----------------------------------------------------------------------------
(* What Rpc promises when no call raises and none overlap.                 *)

LEMMA InitClean == Init => R!CleanInv
<1> SUFFICES ASSUME Init PROVE Unanswered = {own[c] : c \in Clients} \ {0}
                               /\ \A c \in Clients : own[c] = 0
  BY DEF R!CleanInv
<1>2. Unanswered = {}
  BY DEF Init, Unanswered
<1>3. \A c \in Clients : own[c] = 0
  BY DEF Init
<1> QED
  BY <1>2, <1>3

LEMMA NextClean ==
  ASSUME IInv, R!CleanInv, [R!Next]_R!vars
  PROVE  R!CleanInv'
<1> SUFFICES ASSUME clean' PROVE /\ Unanswered' = {own'[c] : c \in Clients} \ {0}
                                 /\ \A c, d \in Clients : own'[c] # 0 /\ own'[d] # 0 => c = d
  BY DEF R!CleanInv
<1> USE CallsNatural DEF IInv, TypeOK, R!CleanInv
<1>1. ASSUME NEW c \in Clients, R!Call(c) PROVE R!CleanInv'
  <2>1. clean /\ \A d \in Clients : own[d] = 0
    BY <1>1 DEF R!Call
  <2>2. Unanswered = {}
    BY <2>1
  <2>3. own' = [own EXCEPT ![c] = sent + 1] /\ sent + 1 # 0
        /\ Unanswered' = Unanswered \cup {sent + 1}
    BY <1>1 DEF R!Call
  <2>4. {own'[d] : d \in Clients} \ {0} = {sent + 1}
    BY <2>1, <2>3
  <2> QED
    BY <2>1, <2>2, <2>3, <2>4
<1>2. ASSUME NEW c \in Clients, R!Answer(c) PROVE R!CleanInv'
  <2>1. clean /\ own[c] # 0 /\ own' = [own EXCEPT ![c] = 0]
    BY <1>2 DEF R!Answer
  <2>2. Unanswered = {own[c]} /\ \A d \in Clients : d # c => own[d] = 0
    BY <2>1
  <2>3. Unanswered' = {}
    BY <1>2, <2>2 DEF R!Answer
  <2>4. \A d \in Clients : own'[d] = 0
    BY <2>1, <2>2
  <2> QED
    BY <2>3, <2>4
<1>3. ASSUME NEW c \in Clients, R!Fail(c) PROVE FALSE
  BY <1>3 DEF R!Fail
<1>4. CASE UNCHANGED R!vars
  BY <1>4 DEF R!vars
<1> QED
  BY <1>1, <1>2, <1>3, <1>4 DEF R!Next

CleanStep ==
  \A c \in Clients : clean' /\ answer[c]' # 0 /\ own[c] # 0 /\ own[c]' = 0
    => answer[c]' = own[c]

LEMMA CleanAnswer == IInv /\ R!CleanInv /\ [R!Next]_R!vars => CleanStep
<1> SUFFICES ASSUME IInv, R!CleanInv, [R!Next]_R!vars, NEW c \in Clients,
                    clean', answer'[c] # 0, own[c] # 0, own'[c] = 0
             PROVE answer'[c] = own[c]
  BY DEF CleanStep
<1> USE CallsNatural DEF IInv, TypeOK, R!CleanInv
<1>1. ASSUME NEW d \in Clients, R!Call(d) PROVE FALSE
  BY <1>1 DEF R!Call
<1>2. ASSUME NEW d \in Clients, R!Answer(d) PROVE answer'[c] = own[c]
  <2>1. c = d /\ clean
    BY <1>2 DEF R!Answer
  <2>2. Unanswered = {own[c]}
    BY <2>1
  <2> QED
    BY <1>2, <2>1, <2>2 DEF R!Answer
<1>3. ASSUME NEW d \in Clients, R!Fail(d) PROVE FALSE
  BY <1>3 DEF R!Fail
<1>4. CASE UNCHANGED R!vars
  BY <1>4 DEF R!vars
<1> QED
  BY <1>1, <1>2, <1>3, <1>4 DEF R!Next

-----------------------------------------------------------------------------
\* send_command() is type-correct: no client reads what has not arrived, and no
\* response_data holds more than was read.
THEOREM Typing == Spec => []TypeOK
<1>1. IInv => TypeOK
  BY DEF IInv
<1> QED
  BY <1>1, InitIInv, NextIInv, PTL DEF Spec

\* UnixSocketBackend implements Rpc: an answer that send_command() returns belongs
\* to a request that was sent, and it is returned once.
THEOREM Refines == Spec => ImplementsRpc
<1> QED
  BY InitIInv, NextIInv, InitRefines, NextRefines, PTL DEF Spec, ImplementsRpc, R!Spec

\* send_command() returns the answer to its own command as long as no call raised
\* and no two overlapped.
THEOREM OwnAnswer == Spec => CleanAnswersOwn
<1>1. IInv /\ [Next]_vars /\ R!CleanInv => R!CleanInv'
  BY NextRefines, NextClean
<1>2. IInv /\ [Next]_vars /\ R!CleanInv => CleanStep
  BY NextRefines, CleanAnswer
<1>3. CleanStep => [CleanStep]_vars
  OBVIOUS
<1> QED
  BY InitIInv, NextIInv, InitClean, <1>1, <1>2, PTL
  DEF Spec, CleanAnswersOwn, R!CleanAnswersOwn, CleanStep

-----------------------------------------------------------------------------
(* NeighborMonitor *)

\* The number of tracked nodes is a number of nodes.
LEMMA TrackedCount == Cardinality(tracked) \in 0..Cardinality(Nodes)
<1>1. tracked \subseteq Nodes BY DEF tracked, Entries
<1>2. /\ IsFiniteSet(tracked)
      /\ Cardinality(tracked) <= Cardinality(Nodes)
  BY <1>1, NodesFinite, FS_Subset
<1>3. Cardinality(tracked) \in Nat /\ Cardinality(Nodes) \in Nat
  BY <1>2, NodesFinite, FS_CardinalityType
<1>4. QED BY <1>2, <1>3

LEMMA KeptType ==
  ASSUME NbrTypeOK, NEW U
  PROVE  Kept(U) \in [Strategies -> [Nodes -> Times \cup {Absent}]]
BY DEF NbrTypeOK, Kept, Empty

LEMMA NbrStepType ==
  ASSUME NbrTypeOK, NbrNext
  PROVE  NbrTypeOK'
<1> USE TimesNatural, NodesFinite
    DEF NbrTypeOK, Times, Absent, envVars, strategyVars, streamVars, monitorVars
<1>1. CASE Tick BY <1>1 DEF Tick
<1>2. CASE Move BY <1>2 DEF Move
<1>3. CASE Receive BY <1>3 DEF Receive
<1>4. CASE JoinTest BY <1>4 DEF JoinTest
<1>5. CASE JoinCallbacks BY <1>5 DEF JoinCallbacks
<1>6. CASE BeatBegin BY <1>6 DEF BeatBegin
<1>7. CASE Beat
  <2>1. PICK n \in sTodo :
          /\ sTodo' = sTodo \ {n}
          /\ stamp' = [s \in Strategies |->
                        IF s \in sStrategy THEN [stamp[s] EXCEPT ![n] = sNow] ELSE stamp[s]]
    BY <1>7 DEF Beat
  <2>2. stamp' \in [Strategies -> [Nodes -> 0..MaxTime \cup {-1}]] BY <2>1
  <2>3. cut' \subseteq Nodes BY <1>7 DEF Beat
  <2>4. QED BY <1>7, <2>1, <2>2, <2>3 DEF Beat
<1>8. CASE DispatchDone BY <1>8, KeptType DEF DispatchDone
<1>9. CASE CheckBegin BY <1>9, TrackedCount DEF CheckBegin
<1>10. CASE CheckRaises
  BY <1>10, KeptType, FS_CardinalityType DEF CheckRaises
<1>11. CASE CheckNode
  <2>1. mSeen' \subseteq Nodes /\ mDead' \subseteq Nodes BY <1>11 DEF CheckNode, Entries
  <2>2. QED BY <1>11, <2>1 DEF CheckNode
<1>12. CASE CheckEnd BY <1>12, KeptType, FS_CardinalityType DEF CheckEnd
<1>13. CASE DeclareDead BY <1>13 DEF DeclareDead
<1>14. CASE LeaveCallbacks \/ LeaveRaises BY <1>14 DEF LeaveCallbacks, LeaveRaises
<1>15. CASE WaitInterval BY <1>15 DEF WaitInterval
<1>16. CASE JoinRaises \/ Subscribe BY <1>16 DEF JoinRaises, Subscribe
<1>17. CASE Replace BY <1>17, KeptType DEF Replace
<1>18. QED BY <1>1, <1>2, <1>3, <1>4, <1>5, <1>6, <1>7, <1>8, <1>9, <1>10, <1>11, <1>12,
              <1>13, <1>14, <1>15, <1>16, <1>17 DEF NbrNext, Stream, Monitor

\* Type correctness.
THEOREM NbrTyping == NbrSpec => []NbrTypeOK
<1>1. NbrInit => NbrTypeOK
  BY TimesNatural, NodesFinite, OneStrategy, FS_CardinalityType
  DEF NbrInit, NbrTypeOK, Times, Absent
<1>2. NbrTypeOK /\ [NbrNext]_nbrVars => NbrTypeOK'
  <2> SUFFICES ASSUME NbrTypeOK, [NbrNext]_nbrVars PROVE NbrTypeOK' OBVIOUS
  <2>1. CASE NbrNext BY <2>1, NbrStepType
  <2>2. CASE UNCHANGED nbrVars
    BY <2>2 DEF NbrTypeOK, nbrVars, envVars, strategyVars, streamVars, monitorVars
  <2>3. QED BY <2>1, <2>2
<1>3. QED BY <1>1, <1>2, PTL DEF NbrSpec

\* Clearing the strategies nobody refers to leaves what is tracked.
LEMMA KeptTracked ==
  ASSUME NbrTypeOK, NEW U, strategy \in U, strategy' = strategy, stamp' = Kept(U)
  PROVE  tracked' = tracked
BY DEF NbrTypeOK, Kept, tracked, Entries

\* A node in _seen_node_ids has a timestamp, or gets one before the dispatch that
\* is under way is over, unless a join callback raises in it, or the strategy was
\* replaced: then it gets one with the next snapshot it is in.
THEOREM SeenTracked == NbrSpec => []SeenIsTracked
<1>1. NbrInit => SeenInv
  <2> SUFFICES ASSUME NbrInit PROVE SeenInv OBVIOUS
  <2>1. strategy \in Strategies BY OneStrategy DEF NbrInit
  <2>2. \A n \in Known : stamp[strategy][n] = 0
    BY <2>1, NodesFinite DEF NbrInit
  <2>3. Known \subseteq tracked BY <2>2, NodesFinite DEF tracked, Entries, Absent
  <2>4. QED BY <2>3 DEF NbrInit, SeenInv, SeenIsTracked, DispatchProgress
<1>2. NbrTypeOK /\ SeenInv /\ [NbrNext]_nbrVars => SeenInv'
  <2> SUFFICES ASSUME NbrTypeOK, SeenInv, [NbrNext]_nbrVars PROVE SeenInv' OBVIOUS
  <2> USE DEF SeenInv, SeenIsTracked, DispatchProgress, envVars, strategyVars,
              streamVars, monitorVars
  <2>1. ASSUME UNCHANGED strategyVars PROVE tracked' = tracked
    BY <2>1 DEF tracked, Entries
  <2>2. CASE Tick \/ Move BY <2>1, <2>2 DEF Tick, Move
  <2>3. CASE Receive BY <2>1, <2>3 DEF Receive
  <2>4. CASE JoinTest BY <2>1, <2>4 DEF JoinTest
  <2>5. CASE JoinCallbacks \/ JoinRaises \/ Subscribe
    BY <2>1, <2>5 DEF JoinCallbacks, JoinRaises, Subscribe
  <2>6. CASE BeatBegin BY <2>1, <2>6 DEF BeatBegin
  <2>7. CASE Beat
    <3>1. PICK n \in sTodo :
            /\ sTodo' = sTodo \ {n}
            /\ stamp' = [s \in Strategies |->
                          IF s \in sStrategy THEN [stamp[s] EXCEPT ![n] = sNow] ELSE stamp[s]]
            /\ cut' = IF strategy \in sStrategy THEN cut \ {n} ELSE cut
      BY <2>7 DEF Beat
    <3>2. strategy' = strategy /\ strategy \in Strategies BY <2>7 DEF Beat, NbrTypeOK
    <3>3. tracked \subseteq tracked'
      BY <3>1, <3>2, TimesNatural DEF tracked, Entries, NbrTypeOK, Times, Absent
    <3>4. strategy \in sStrategy => n \in tracked'
      BY <3>1, <3>2, TimesNatural DEF tracked, Entries, NbrTypeOK, Times, Absent
    <3>5. QED BY <2>7, <3>1, <3>3, <3>4 DEF Beat, NbrTypeOK
  <2>8. CASE DispatchDone
    <3>1. tracked' = tracked BY <2>8, KeptTracked DEF DispatchDone
    <3>2. QED BY <2>8, <3>1 DEF DispatchDone
  <2>9. CASE Replace BY <2>9 DEF Replace
  <2>10. CASE CheckRaises \/ CheckEnd
    <3>1. tracked' = tracked BY <2>10, KeptTracked DEF CheckRaises, CheckEnd
    <3>2. QED BY <2>10, <3>1 DEF CheckRaises, CheckEnd
  <2>11. CASE DeclareDead BY <2>1, <2>11 DEF DeclareDead
  <2>12. CASE CheckBegin \/ CheckNode \/ LeaveCallbacks \/ LeaveRaises \/ WaitInterval
    BY <2>1, <2>12 DEF CheckBegin, CheckNode, LeaveCallbacks, LeaveRaises, WaitInterval
  <2>13. CASE UNCHANGED nbrVars BY <2>1, <2>13 DEF nbrVars
  <2>14. QED BY <2>2, <2>3, <2>4, <2>5, <2>6, <2>7, <2>8, <2>9, <2>10, <2>11, <2>12, <2>13
             DEF NbrNext, Stream, Monitor
<1>3. SeenInv => SeenIsTracked BY DEF SeenInv
<1>4. QED BY <1>1, <1>2, <1>3, NbrTyping, PTL DEF NbrSpec
=============================================================================

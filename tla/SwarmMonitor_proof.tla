-------------------------- MODULE SwarmMonitor_proof --------------------------
(***************************************************************************)
(* Theorems about SwarmMonitor, for any number of pool threads and         *)
(* snapshots and any bound on the lists: type correctness, the two rings   *)
(* of the collector, the lists of the visualizer, and detach().            *)
(***************************************************************************)
EXTENDS SwarmMonitor, FiniteSetTheorems, SequenceTheorems, TLAPS

USE DEF dispatchVars, collectorVars, visualVars, windowVars, ghostVars

ListNames == {"rounds", "counts", "means"}

LEMMA NamesOfLists == ToSet(Lists) = ListNames
<1>1. Lists \in Seq(ListNames) /\ Len(Lists) = 3 BY DEF Lists, ListNames
<1>2. DOMAIN Lists = {1, 2, 3} BY <1>1
<1>3. QED BY <1>2 DEF Lists, ListNames, ToSet

\* The last n: as many as there are, and at most n.
LEMMA LastOfProps ==
  ASSUME NEW S, NEW n \in Nat, NEW s \in Seq(S)
  PROVE  /\ LastOf(n, s) \in Seq(S)
         /\ Len(LastOf(n, s)) = IF Len(s) > n THEN n ELSE Len(s)
         /\ Len(s) <= n => LastOf(n, s) = s
<1>1. CASE Len(s) > n
  <2>1. LastOf(n, s) = SubSeq(s, Len(s) - n + 1, Len(s)) BY <1>1 DEF LastOf
  <2>2. Len(s) - n + 1 \in 1..(Len(s) + 1) BY <1>1
  <2>3. QED BY <1>1, <2>1, <2>2
<1>2. CASE Len(s) <= n
  <2>1. ~(Len(s) > n) BY <1>2
  <2>2. LastOf(n, s) = s BY <2>1, SubSeqFull DEF LastOf
  <2>3. QED BY <1>2, <2>2
<1>3. QED BY <1>1, <1>2

\* A ring takes one more, until it is full.
LEMMA RingProps ==
  ASSUME NEW s \in Seq(Nat), NEW x \in Nat
  PROVE  /\ Ring(s, x) \in Seq(Nat)
         /\ Len(Ring(s, x)) = IF Len(s) + 1 > HistorySize THEN HistorySize ELSE Len(s) + 1
<1>1. Append(s, x) \in Seq(Nat) /\ Len(Append(s, x)) = Len(s) + 1 OBVIOUS
<1>2. HistorySize \in Nat BY SizesPositive
<1>3. QED BY <1>1, <1>2, LastOfProps DEF Ring

\* The lists are cut in their order.
LEMMA TrimPoints ==
  /\ DOMAIN Trimmed = {"trim_rounds", "trim_counts", "trim_means"}
  /\ Trimmed["trim_rounds"] = "rounds" /\ NextTrim["trim_rounds"] = "trim_counts"
  /\ Trimmed["trim_counts"] = "counts" /\ NextTrim["trim_counts"] = "trim_means"
  /\ Trimmed["trim_means"] = "means" /\ NextTrim["trim_means"] = "dirty"
BY DEF Trimmed, NextTrim

LEMMA StepType ==
  ASSUME TypeOK, NEW t \in Threads, Step(t)
  PROVE  TypeOK'
<1> USE NamesOfLists, SizesPositive, ThreadsDistinct
    DEF TypeOK, Goto, Threads, Recorders, UpdatePoints, EndRecord, NoList, ListNames
<1>0. series \in [ListNames -> Seq(Nat)] OBVIOUS
<1>1. CASE Take(t)
  <2>1. Head(queue) \in Nat /\ Tail(queue) \in Seq(Nat)
    BY <1>1, HeadTailProperties DEF Take
  <2>2. QED BY <1>1, <2>1 DEF Take
<1>2. CASE Add(t)
  <2>1. history' \in Seq(Nat) BY <1>2, RingProps DEF Add
  <2>2. QED BY <1>2, <2>1 DEF Add
<1>3. CASE Point(t)
  <2>1. points' \in Seq(Nat) BY <1>3, RingProps DEF Point
  <2>2. QED BY <1>3, <2>1 DEF Point
<1>4. CASE ExtractorRaises(t) BY <1>4 DEF ExtractorRaises
<1>5. CASE CallBack(t)
  <2>1. CASE cb[t].done < CallbackCount(t)
    <3>1. cb' = [cb EXCEPT ![t] = [done   |-> cb[t].done + 1,
                                   shared |-> Shares(t),
                                   size   |-> cb[t].size]]
      BY <1>5, <2>1 DEF CallBack
    <3>2. Shares(t) \in BOOLEAN BY DEF Shares
    <3>3. cb[t].done + 1 \in Nat /\ cb[t].size \in Nat
      <4>1. cb[t] \in [done : Nat, shared : BOOLEAN, size : Nat] OBVIOUS
      <4>2. cb[t].done \in Nat /\ cb[t].size \in Nat BY ONLY <4>1
      <4>3. QED BY ONLY <4>2
    <3>4. cb' \in [Threads -> [done : Nat, shared : BOOLEAN, size : Nat]]
      BY <3>1, <3>2, <3>3
    <3>5. QED BY <1>5, <2>1, <3>4 DEF CallBack
  <2>2. CASE ~(cb[t].done < CallbackCount(t))
    <3>1. /\ pc' = [pc EXCEPT ![t] = "idle"] /\ job' = [job EXCEPT ![t] = 0]
          /\ cb' = [cb EXCEPT ![t] = NoList] /\ excused' = excused \ {t}
          /\ UNCHANGED orderly
      BY <1>5, <2>2 DEF CallBack
    <3>2. NoList \in [done : Nat, shared : BOOLEAN, size : Nat] OBVIOUS
    <3>3. cb' \in [Threads -> [done : Nat, shared : BOOLEAN, size : Nat]] BY <3>1, <3>2
    <3>4. QED BY <1>5, <3>1, <3>3 DEF CallBack
  <2>3. QED BY <2>1, <2>2
<1>6. CASE AppendTo(t)
  <2>1. pc[t] \in ListNames BY <1>6 DEF AppendTo
  <2>2. series' \in [ListNames -> Seq(Nat)]
    <3>1. series' = [series EXCEPT ![pc[t]] = Append(series[pc[t]], job[t])]
      BY <1>6 DEF AppendTo
    <3>2. Append(series[pc[t]], job[t]) \in Seq(Nat)
      <4>1. series[pc[t]] \in Seq(Nat) BY <1>0, <2>1
      <4>2. job[t] \in Nat OBVIOUS
      <4>3. QED BY ONLY <4>1, <4>2
    <3>3. QED BY <1>0, <3>1, <3>2
  <2>3. NextList(pc[t]) \in UpdatePoints BY <2>1 DEF NextList
  <2>4. QED BY <1>6, <2>2, <2>3 DEF AppendTo
<1>7. CASE Trim(t)
  <2>1. /\ pc[t] \in {"trim_rounds", "trim_counts", "trim_means"}
        /\ Trimmed[pc[t]] \in ListNames /\ NextTrim[pc[t]] \in UpdatePoints
    BY <1>7, TrimPoints DEF Trim
  <2>2. series' \in [ListNames -> Seq(Nat)]
    <3>1. MaxRounds \in Nat OBVIOUS
    <3>2. LastOf(MaxRounds, series[Trimmed[pc[t]]]) \in Seq(Nat) BY <1>0, <2>1, <3>1, LastOfProps
    <3>3. \/ series' = [series EXCEPT ![Trimmed[pc[t]]] =
                                     LastOf(MaxRounds, series[Trimmed[pc[t]]])]
          \/ series' = series
      BY <1>7 DEF Trim
    <3>4. QED BY <1>0, <3>2, <3>3
  <2>3. pc' = [pc EXCEPT ![t] = NextTrim[pc[t]]] \/ pc' = [pc EXCEPT ![t] = "dirty"]
    BY <1>7 DEF Trim
  <2>4. UNCHANGED <<dispatchVars, collectorVars, job, cb, todo, dirty, windowVars, ghostVars>>
    BY <1>7 DEF Trim
  <2>5. /\ \A u \in Recorders : pc'[u] \in {"idle", "add", "point", "callbacks"}
                                          \cup UpdatePoints
        /\ pc'[Main] \in {"idle", "clear", "replay", "plot", "plot_means"} \cup UpdatePoints
        /\ DOMAIN pc' = Threads
    BY <2>1, <2>3
  <2>6. QED BY <2>2, <2>4, <2>5
<1>8. CASE MarkDirty(t)
  <2>1. t # Main => After(t) = "callbacks" BY DEF After
  <2>2. t = Main => After(t) = "replay" BY DEF After
  <2>3. job' \in [Threads -> Nat] BY <1>8 DEF MarkDirty
  <2>4. QED BY <1>8, <2>1, <2>2, <2>3 DEF MarkDirty
<1>9. QED BY <1>1, <1>2, <1>3, <1>4, <1>5, <1>6, <1>7, <1>8 DEF Step

LEMMA PlottedType == NotDrawn \in [Plotted -> Seq(Nat)]
BY DEF NotDrawn, Plotted

LEMMA MainType ==
  ASSUME TypeOK, Dispatch \/ Attach \/ Detach \/ ClearHistory \/ Replay \/ StartWindow
                 \/ StopWindow \/ Finish
  PROVE  TypeOK'
<1> USE NamesOfLists, ThreadsDistinct
    DEF TypeOK, Goto, Threads, Recorders, UpdatePoints, NoList, ListNames
<1>0. series \in [ListNames -> Seq(Nat)] OBVIOUS
<1>1. CASE Dispatch
  <2>1. sent' \in Nat /\ queue' \in Seq(Nat)
    <3>1. sent \in Nat /\ queue \in Seq(Nat) OBVIOUS
    <3>2. sent' = sent + 1 /\ queue' \in {queue, Append(queue, sent + 1)}
      BY <1>1 DEF Dispatch
    <3>3. QED BY ONLY <3>1, <3>2
  <2>2. job' \in [Threads -> Nat] BY <1>1, <2>1 DEF Dispatch
  <2>3. QED BY <1>1, <2>1, <2>2 DEF Dispatch
<1>2. CASE Attach BY <1>2 DEF Attach
<1>3. CASE Detach
  <2>1. \A t \in Threads : cb'[t] \in [done : Nat, shared : BOOLEAN, size : Nat]
    <3> SUFFICES ASSUME NEW t \in Threads
                 PROVE  cb'[t] \in [done : Nat, shared : BOOLEAN, size : Nat]
      OBVIOUS
    <3>1. cb[t] \in [done : Nat, shared : BOOLEAN, size : Nat] /\ callbacks \in Nat OBVIOUS
    <3>2. cb'[t] = IF cb[t].shared
                   THEN [done |-> cb[t].done, shared |-> FALSE, size |-> callbacks]
                   ELSE cb[t]
      BY <1>3 DEF Detach
    <3>3. QED BY ONLY <3>1, <3>2
  <2>2. cb' \in [Threads -> [done : Nat, shared : BOOLEAN, size : Nat]]
    BY <1>3, <2>1 DEF Detach
  <2>3. QED BY <1>3, <2>2 DEF Detach
<1>4. CASE ClearHistory BY <1>4 DEF ClearHistory
<1>5. CASE Replay BY <1>5 DEF Replay
<1>6. CASE StartWindow BY <1>6 DEF StartWindow
<1>7. CASE StopWindow
  <2>1. window' = FALSE /\ drawn' = NotDrawn /\ missed' = FALSE BY <1>7 DEF StopWindow
  <2>2. drawn' \in [Plotted -> Seq(Nat)] BY ONLY <2>1, PlottedType
  <2>3. QED BY <1>7, <2>1, <2>2 DEF StopWindow
<1>8. CASE ClearPoints BY <1>8 DEF ClearPoints
<1>9. CASE Animate BY <1>9 DEF Animate
<1>10. CASE PlotCounts
  <2>1. drawn' \in {drawn, NotDrawn, [drawn EXCEPT !["counts"] = series["counts"]]}
    BY <1>10 DEF PlotCounts, FrameRaises
  <2>2. drawn \in [Plotted -> Seq(Nat)] /\ series["counts"] \in Seq(Nat) BY <1>0
  <2>3. drawn' \in [Plotted -> Seq(Nat)] BY ONLY <2>1, <2>2, PlottedType
  <2>4. window' \in BOOLEAN /\ missed' \in BOOLEAN BY <1>10 DEF PlotCounts, FrameRaises
  <2>5. \E p \in {"idle", "plot_means"} : pc' = [pc EXCEPT ![Main] = p]
    BY <1>10 DEF PlotCounts, FrameRaises
  <2>6. UNCHANGED <<dispatchVars, collectorVars, job, cb, todo, visualVars, ghostVars>>
    BY <1>10 DEF PlotCounts
  <2>7. QED BY <2>3, <2>4, <2>5, <2>6
<1>11. CASE PlotMeans
  <2>1. drawn' \in {drawn, NotDrawn, [drawn EXCEPT !["means"] = series["means"]]}
    BY <1>11 DEF PlotMeans, FrameRaises
  <2>2. drawn \in [Plotted -> Seq(Nat)] /\ series["means"] \in Seq(Nat) BY <1>0
  <2>3. drawn' \in [Plotted -> Seq(Nat)] BY ONLY <2>1, <2>2, PlottedType
  <2>4. window' \in BOOLEAN /\ missed' \in BOOLEAN BY <1>11 DEF PlotMeans, FrameRaises
  <2>5. \E p \in {"idle", "plot_means"} : pc' = [pc EXCEPT ![Main] = p]
    BY <1>11 DEF PlotMeans, FrameRaises
  <2>6. UNCHANGED <<dispatchVars, collectorVars, job, cb, todo, visualVars, ghostVars>>
    BY <1>11 DEF PlotMeans
  <2>7. QED BY <2>3, <2>4, <2>5, <2>6
<1>12. CASE ReplayNext
  <2>1. todo # <<>> => Head(todo) \in Nat /\ Tail(todo) \in Seq(Nat)
    BY HeadTailProperties
  <2>2. /\ todo' \in Seq(Nat) /\ job' \in [Threads -> Nat] /\ orderly' \in BOOLEAN
    <3>1. CASE todo = <<>> BY <1>12, <3>1 DEF ReplayNext
    <3>2. CASE todo # <<>>
      <4>1. /\ todo' = Tail(todo) /\ job' = [job EXCEPT ![Main] = Head(todo)]
            /\ orderly' = (orderly /\ ~\E u \in Threads : Updating(u))
        BY <1>12, <3>2 DEF ReplayNext
      <4>2. job \in [Threads -> Nat] /\ orderly \in BOOLEAN OBVIOUS
      <4>3. QED BY ONLY <2>1, <3>2, <4>1, <4>2
    <3>3. QED BY <3>1, <3>2
  <2>3. pc' \in {[pc EXCEPT ![Main] = "plot"], [pc EXCEPT ![Main] = "rounds"]}
    BY <1>12 DEF ReplayNext
  <2>4. QED BY <1>12, <2>2, <2>3 DEF ReplayNext
<1>13. QED BY <1>1, <1>2, <1>3, <1>4, <1>5, <1>6, <1>7, <1>8, <1>9, <1>10, <1>11, <1>12
           DEF Finish

\* Type correctness; the lists are sequences of rounds, however the threads interleave.
THEOREM Typing == Spec => []TypeOK
<1>1. Init => TypeOK
  <2> SUFFICES ASSUME Init PROVE TypeOK OBVIOUS
  <2>1. drawn \in [Plotted -> Seq(Nat)] BY PlottedType DEF Init
  <2>2. cb \in [Threads -> [done : Nat, shared : BOOLEAN, size : Nat]] BY DEF Init, NoList
  <2>3. series \in [ToSet(Lists) -> Seq(Nat)] BY DEF Init
  <2>4. DOMAIN pc = Threads /\ \A t \in Threads : pc[t] = "idle" BY DEF Init
  <2>5. job \in [Threads -> Nat] BY DEF Init
  <2>6. /\ queue \in Seq(Nat) /\ history \in Seq(Nat) /\ points \in Seq(Nat)
        /\ todo \in Seq(Nat)
    BY DEF Init
  <2>7. QED
    BY <2>1, <2>2, <2>3, <2>4, <2>5, <2>6 DEF Init, TypeOK, Threads, Recorders
<1>2. TypeOK /\ [Next]_vars => TypeOK'
  <2> SUFFICES ASSUME TypeOK, [Next]_vars PROVE TypeOK' OBVIOUS
  <2>1. CASE \E t \in Threads : Step(t) BY <2>1, StepType
  <2>2. CASE Next /\ ~\E t \in Threads : Step(t) BY <2>2, MainType DEF Next
  <2>3. CASE UNCHANGED vars BY <2>3 DEF TypeOK, vars
  <2>4. QED BY <2>1, <2>2, <2>3
<1>3. QED BY <1>1, <1>2, PTL DEF Spec

-----------------------------------------------------------------------------
(* detach().                                                               *)

LEMMA DetachKept ==
  ASSUME TypeOK, DetachInv, [Next]_vars
  PROVE  DetachInv'
<1> USE DEF DetachInv, Recorders
<1>1. ASSUME NEW t \in Threads, CallBack(t) PROVE DetachInv'
  <2>0. UNCHANGED <<callbacks, attached>> BY <1>1 DEF CallBack
  <2>1. CASE cb[t].done < CallbackCount(t)
    <3>1. /\ cb' = [cb EXCEPT ![t] = [done   |-> cb[t].done + 1,
                                      shared |-> Shares(t),
                                      size   |-> cb[t].size]]
          /\ UNCHANGED excused
      BY <1>1, <2>1 DEF CallBack
    <3>2. cb'[t].shared = Shares(t) /\ \A u \in Threads \ {t} : cb'[u] = cb[u]
      BY <3>1 DEF TypeOK
    <3>3. QED BY <2>0, <3>1, <3>2 DEF Shares
  <2>2. CASE ~(cb[t].done < CallbackCount(t))
    <3>1. cb' = [cb EXCEPT ![t] = NoList] /\ excused' = excused \ {t}
      BY <1>1, <2>2 DEF CallBack, EndRecord
    <3>2. QED BY <2>0, <3>1 DEF TypeOK
  <2>3. QED BY <2>1, <2>2
<1>2. ASSUME NEW t \in Threads, ExtractorRaises(t) PROVE DetachInv'
  BY <1>2 DEF ExtractorRaises, EndRecord, TypeOK
<1>3. ASSUME NEW t \in Threads, Step(t), ~CallBack(t), ~ExtractorRaises(t) PROVE DetachInv'
  BY <1>3 DEF Step, Take, Add, Point, AppendTo, Trim, MarkDirty
<1>4. CASE Attach BY <1>4 DEF Attach, TypeOK
<1>5. CASE Detach
  <2>1. callbacks' = 0 BY <1>5 DEF Detach
  <2>2. ASSUME NEW t \in Recorders, cb'[t] # NoList, ~cb'[t].shared PROVE t \in excused'
    <3>1. t \in Threads /\ excused' = {u \in Threads : cb[u] # NoList} BY <1>5 DEF Detach
    <3>2. cb'[t] = IF cb[t].shared
                   THEN [done |-> cb[t].done, shared |-> FALSE, size |-> callbacks]
                   ELSE cb[t]
      BY <1>5 DEF Detach
    <3>3. cb[t] # NoList BY <2>2, <3>2 DEF NoList
    <3>4. QED BY <3>1, <3>3
  <2>3. QED BY <2>1, <2>2
<1>6. CASE Dispatch \/ ClearHistory \/ Replay \/ StartWindow \/ StopWindow
  BY <1>6 DEF Dispatch, ClearHistory, Replay, StartWindow, StopWindow
<1>7. CASE Finish
  BY <1>7 DEF Finish, ClearPoints, Animate, PlotCounts, PlotMeans, ReplayNext
<1>8. CASE UNCHANGED vars BY <1>8 DEF vars
<1>9. QED BY <1>1, <1>2, <1>3, <1>4, <1>5, <1>6, <1>7, <1>8 DEF Next

\* After detach() only a record() that had begun to call its callbacks before calls
\* update(), however often the visualizer is attached and whoever records.
THEOREM QuietAfterDetach == Spec => DetachIsQuiet
<1>1. Init => DetachInv BY DEF Init, DetachInv, Recorders
<1>2. TypeOK /\ DetachInv /\ [Next]_vars
        => [\A t \in Threads \ {Main} :
              pc[t] = "callbacks" /\ pc'[t] = "rounds" => attached \/ t \in excused]_vars
  <2> SUFFICES ASSUME TypeOK, DetachInv, Next, NEW t \in Threads \ {Main},
                      pc[t] = "callbacks", pc'[t] = "rounds"
               PROVE  attached \/ t \in excused
    OBVIOUS
  <2>1. DOMAIN pc = Threads /\ Main \in Threads BY DEF TypeOK, Threads
  <2>2. CallBack(t)
    <3>1. PICK u \in Threads : Step(u)
      BY <2>1, ThreadsDistinct
      DEF Next, Dispatch, Attach, Detach, ClearHistory, Replay, StartWindow, StopWindow,
          Finish, ClearPoints, Animate, PlotCounts, PlotMeans, FrameRaises, ReplayNext, Goto,
          TypeOK, Recorders, UpdatePoints
    <3>2. u = t
      BY <2>1, <3>1
      DEF Step, Take, Add, Point, ExtractorRaises, EndRecord, CallBack, AppendTo, Trim,
          MarkDirty, Goto
    <3>3. QED
      BY <3>1, <3>2
      DEF Step, Take, Add, Point, ExtractorRaises, AppendTo, Trim, MarkDirty, Lists, ToSet,
          Trimmed, Goto
  <2>3. cb[t].done < CallbackCount(t)
    BY <2>1, <2>2 DEF CallBack, EndRecord, Goto
  <2>4. CASE Shares(t)
    <3>1. cb[t].done \in Nat /\ callbacks \in Nat BY DEF TypeOK
    <3>2. callbacks > 0 BY <2>3, <2>4, <3>1 DEF CallbackCount
    <3>3. QED BY <3>2 DEF DetachInv
  <2>5. CASE ~Shares(t) BY <2>5 DEF Shares, DetachInv, Recorders
  <2>6. QED BY <2>4, <2>5
<1>3. QED BY <1>1, <1>2, DetachKept, Typing, PTL DEF Spec, DetachIsQuiet

-----------------------------------------------------------------------------
(* The lists of the visualizer.                                            *)

\* A step of thread t, if of any, outside update().
Elsewhere(t) ==
  /\ ~Updating(t) /\ ~Updating(t)'
  /\ \A u \in Threads \ {t} : pc'[u] = pc[u] /\ job'[u] = job[u]
  /\ UNCHANGED <<series, orderly>>

LEMMA ElsewhereKeeps ==
  ASSUME ListsInv, NEW t \in Threads, Elsewhere(t)
  PROVE  ListsInv'
<1> USE DEF Updating, UpdatePoints
<1>1. \A u \in Threads : Updating(u)' <=> Updating(u) BY DEF Elsewhere
<1>2. ASSUME orderly PROVE \A u \in Threads : UpdateProgress(u)'
  BY <1>2 DEF Elsewhere, ListsInv, UpdateProgress
<1>3. ASSUME orderly PROVE ListsAligned'
  <2>1. ListsAligned BY <1>3 DEF ListsInv
  <2>2. UNCHANGED <<series, orderly>> BY DEF Elsewhere
  <2>3. QED BY ONLY <1>1, <2>1, <2>2 DEF ListsAligned
<1>4. ASSUME orderly, NEW u \in Threads, NEW v \in Threads, Updating(u)', Updating(v)'
      PROVE  u = v
  BY <1>1, <1>4 DEF ListsInv
<1>5. QED BY <1>2, <1>3, <1>4 DEF ListsInv, Elsewhere

\* A thread that is in update() alone, and then not or elsewhere in it, takes a step.
LEMMA AloneKeeps ==
  ASSUME TypeOK, ListsInv, NEW t \in Threads, orderly', orderly => Updating(t),
         orderly' => orderly,
         NEW p, pc' = [pc EXCEPT ![t] = p],
         UpdateProgress(t)',
         p \notin UpdatePoints =>
           /\ series'["rounds"] = series'["counts"] /\ series'["counts"] = series'["means"]
           /\ Len(series'["rounds"]) <= MaxRounds
  PROVE  ListsInv'
<1>1. \A u \in Threads : Updating(u) => u = t BY DEF ListsInv
<1>2. DOMAIN pc = Threads BY DEF TypeOK
<1>3. \A u \in Threads : Updating(u)' => u = t BY <1>1, <1>2 DEF Updating
<1>4. \A u \in Threads \ {t} : pc'[u] \notin UpdatePoints BY <1>3 DEF Updating
<1>5. \A u \in Threads \ {t} : UpdateProgress(u)' BY <1>4 DEF UpdateProgress, UpdatePoints
<1>6. pc'[t] = p BY <1>2
<1>7. ListsAligned' BY <1>6 DEF ListsAligned, Updating
<1>8. QED BY <1>3, <1>5, <1>7 DEF ListsInv

LEMMA UpdateKeeps ==
  ASSUME TypeOK, ListsInv, NEW t \in Threads, AppendTo(t) \/ Trim(t) \/ MarkDirty(t)
  PROVE  ListsInv'
<1> SUFFICES ASSUME orderly' PROVE ListsInv' BY DEF ListsInv
<1>0. /\ orderly' = orderly /\ DOMAIN pc = Threads
      /\ series \in [ListNames -> Seq(Nat)] /\ MaxRounds \in Nat
      /\ UpdateProgress(t)
  BY NamesOfLists, SizesPositive DEF AppendTo, Trim, MarkDirty, TypeOK, ListsInv
<1>1. CASE AppendTo(t)
  <2>1. /\ pc[t] \in ListNames /\ job' = job
        /\ series' = [series EXCEPT ![pc[t]] = Append(series[pc[t]], job[t])]
        /\ pc' = [pc EXCEPT ![t] = NextList(pc[t])]
    BY <1>1, NamesOfLists DEF AppendTo, Goto
  <2>2. Updating(t) BY <2>1 DEF Updating, UpdatePoints, ListNames
  <2>3. pc'[t] = NextList(pc[t]) /\ NextList(pc[t]) \in UpdatePoints
    BY <1>0, <2>1 DEF NextList, ListNames, UpdatePoints
  <2>4. UpdateProgress(t)'
    BY <1>0, <2>1, <2>3 DEF UpdateProgress, ListNames, NextList
  <2>5. QED BY <1>0, <2>1, <2>2, <2>3, <2>4, AloneKeeps
<1>2. CASE Trim(t)
  <2>1. pc[t] \in {"trim_rounds", "trim_counts", "trim_means"} /\ job' = job
    BY <1>2, TrimPoints DEF Trim
  <2>2. Updating(t) BY <2>1 DEF Updating, UpdatePoints
  <2>3. CASE TooLong(t)
    <3>1. /\ series' = [series EXCEPT ![Trimmed[pc[t]]] =
                                     LastOf(MaxRounds, series[Trimmed[pc[t]]])]
          /\ pc' = [pc EXCEPT ![t] = NextTrim[pc[t]]]
      BY <1>2, <2>3 DEF Trim, Goto
    <3>2. pc'[t] = NextTrim[pc[t]] /\ NextTrim[pc[t]] \in UpdatePoints
      BY <1>0, <2>1, <3>1, TrimPoints DEF UpdatePoints
    <3>3. Len(LastOf(MaxRounds, series["means"])) <= MaxRounds
      BY <1>0, LastOfProps DEF ListNames
    <3>4. UpdateProgress(t)'
      BY <1>0, <2>1, <3>1, <3>2, <3>3, TrimPoints DEF UpdateProgress, ListNames
    <3>5. QED BY <1>0, <2>2, <3>1, <3>2, <3>4, AloneKeeps
  <2>4. CASE ~TooLong(t)
    <3>1. pc' = [pc EXCEPT ![t] = "dirty"] /\ series' = series
      BY <1>2, <2>4 DEF Trim, Goto
    <3>2. pc'[t] = "dirty" BY <1>0, <3>1
    <3>3. pc[t] = "trim_rounds" /\ Len(series["rounds"]) <= MaxRounds
      BY <1>0, <2>4 DEF TooLong, ListNames
    <3>4. UpdateProgress(t)' BY <1>0, <3>1, <3>2, <3>3 DEF UpdateProgress
    <3>5. "dirty" \in UpdatePoints BY DEF UpdatePoints
    <3>6. QED BY <1>0, <2>2, <3>1, <3>4, <3>5, AloneKeeps
  <2>5. QED BY <2>3, <2>4
<1>3. CASE MarkDirty(t)
  <2>1. pc[t] = "dirty" /\ pc' = [pc EXCEPT ![t] = After(t)] /\ series' = series
    BY <1>3 DEF MarkDirty, Goto
  <2>2. Updating(t) BY <2>1 DEF Updating, UpdatePoints
  <2>3. pc'[t] = After(t) /\ After(t) \in {"replay", "callbacks"}
    BY <1>0, <2>1 DEF After
  <2>4. UpdateProgress(t)' BY <2>3 DEF UpdateProgress
  <2>5. /\ series["rounds"] = series["counts"] /\ series["counts"] = series["means"]
        /\ Len(series["rounds"]) <= MaxRounds
    BY <1>0, <2>1 DEF UpdateProgress
  <2>6. QED BY <1>0, <2>1, <2>2, <2>4, <2>5, AloneKeeps
<1>4. QED BY <1>1, <1>2, <1>3

\* An update begins: the lists are aligned if no other is under way.
LEMMA BeginKeeps ==
  ASSUME TypeOK, ListsInv, NEW t \in Threads, ~Updating(t),
         pc' = [pc EXCEPT ![t] = "rounds"], series' = series,
         orderly' = (orderly /\ ~\E u \in Threads : Updating(u))
  PROVE  ListsInv'
<1> SUFFICES ASSUME orderly' PROVE ListsInv' BY DEF ListsInv
<1>1. ListsAligned BY DEF ListsInv
<1>2. /\ series["rounds"] = series["counts"] /\ series["counts"] = series["means"]
      /\ Len(series["rounds"]) <= MaxRounds
  BY <1>1 DEF ListsAligned
<1>3. pc'[t] = "rounds" /\ \A u \in Threads \ {t} : pc'[u] \notin UpdatePoints
  BY DEF TypeOK, Updating
<1>4. UpdateProgress(t)' BY <1>2, <1>3 DEF UpdateProgress
<1>5. \A u \in Threads \ {t} : UpdateProgress(u)' BY <1>3 DEF UpdateProgress, UpdatePoints
<1>6. ListsAligned' BY <1>3 DEF ListsAligned, Updating, UpdatePoints
<1>7. QED BY <1>3, <1>4, <1>5, <1>6 DEF ListsInv, Updating

LEMMA RecordKeeps ==
  ASSUME TypeOK, ListsInv, NEW t \in Threads, Step(t)
  PROVE  ListsInv'
<1>0. DOMAIN pc = Threads /\ job \in [Threads -> Nat] BY DEF TypeOK
<1>1. CASE AppendTo(t) \/ Trim(t) \/ MarkDirty(t) BY <1>1, UpdateKeeps
<1>2. CASE CallBack(t)
  <2>1. ~Updating(t) BY <1>2 DEF CallBack, Updating, UpdatePoints
  <2>2. CASE cb[t].done < CallbackCount(t)
    BY <1>2, <2>1, <2>2, BeginKeeps DEF CallBack, Goto
  <2>3. CASE ~(cb[t].done < CallbackCount(t))
    <3>1. Elsewhere(t)
      BY <1>0, <1>2, <2>1, <2>3
      DEF CallBack, EndRecord, Goto, Elsewhere, Updating, UpdatePoints
    <3>2. QED BY <3>1, ElsewhereKeeps
  <2>4. QED BY <2>2, <2>3
<1>3. CASE Take(t) \/ Add(t) \/ Point(t) \/ ExtractorRaises(t)
  <2>1. Elsewhere(t)
    BY <1>0, <1>3
    DEF Take, Add, Point, ExtractorRaises, EndRecord, Goto, Elsewhere, Updating,
        UpdatePoints
  <2>2. QED BY <2>1, ElsewhereKeeps
<1>4. QED BY <1>1, <1>2, <1>3 DEF Step

LEMMA MainKeeps ==
  ASSUME TypeOK, ListsInv, Dispatch \/ Attach \/ Detach \/ ClearHistory \/ Replay
                           \/ StartWindow \/ StopWindow \/ Finish
  PROVE  ListsInv'
<1>0. /\ DOMAIN pc = Threads /\ job \in [Threads -> Nat]
      /\ Main \in Threads /\ Stream \in Threads /\ ~("idle" \in UpdatePoints)
  BY DEF TypeOK, Threads, UpdatePoints
<1>1. CASE Dispatch
  <2>1. Elsewhere(Stream) \/ UNCHANGED <<pc, job, series, orderly>>
    BY <1>0, <1>1 DEF Dispatch, Goto, Elsewhere, Updating, UpdatePoints
  <2>2. CASE UNCHANGED <<pc, job, series, orderly>>
    BY <2>2 DEF ListsInv, ListsAligned, UpdateProgress, Updating
  <2>3. QED BY <1>0, <2>1, <2>2, ElsewhereKeeps
<1>2. CASE Attach \/ Detach \/ StartWindow \/ StopWindow
  <2>1. UNCHANGED <<pc, job, series, orderly>>
    BY <1>2 DEF Attach, Detach, StartWindow, StopWindow
  <2>2. QED BY <2>1 DEF ListsInv, ListsAligned, UpdateProgress, Updating
<1>3. CASE ClearHistory \/ Replay \/ ClearPoints \/ Animate \/ PlotCounts \/ PlotMeans
  <2>1. Elsewhere(Main)
    BY <1>0, <1>3
    DEF ClearHistory, Replay, ClearPoints, Animate, PlotCounts, PlotMeans, FrameRaises,
        Goto, Elsewhere, Updating, UpdatePoints
  <2>2. QED BY <1>0, <2>1, ElsewhereKeeps
<1>4. CASE ReplayNext
  <2>1. ~Updating(Main) BY <1>4 DEF ReplayNext, Updating, UpdatePoints
  <2>2. CASE todo = <<>>
    <3>1. Elsewhere(Main)
      BY <1>0, <1>4, <2>1, <2>2 DEF ReplayNext, Goto, Elsewhere, Updating, UpdatePoints
    <3>2. QED BY <1>0, <3>1, ElsewhereKeeps
  <2>3. CASE todo # <<>>
    BY <1>0, <1>4, <2>1, <2>3, BeginKeeps DEF ReplayNext, Goto
  <2>4. QED BY <2>2, <2>3
<1>5. QED BY <1>1, <1>2, <1>3, <1>4 DEF Finish

\* Between updates the lists a plot is drawn from are of the same rounds and within
\* their bound, as long as no two updates have overlapped.
THEOREM Aligned == Spec => []ListsAligned
<1>1. Init => ListsInv
  BY NamesOfLists, SizesPositive
  DEF Init, ListsInv, ListsAligned, UpdateProgress, Updating, UpdatePoints, ListNames
<1>2. TypeOK /\ ListsInv /\ [Next]_vars => ListsInv'
  <2> SUFFICES ASSUME TypeOK, ListsInv, [Next]_vars PROVE ListsInv' OBVIOUS
  <2>1. CASE \E t \in Threads : Step(t) BY <2>1, RecordKeeps
  <2>2. CASE Next /\ ~\E t \in Threads : Step(t) BY <2>2, MainKeeps DEF Next
  <2>3. CASE UNCHANGED vars
    BY <2>3 DEF vars, ListsInv, ListsAligned, UpdateProgress, Updating
  <2>4. QED BY <2>1, <2>2, <2>3
<1>3. ListsInv => ListsAligned BY DEF ListsInv, ListsAligned
<1>4. QED BY <1>1, <1>2, <1>3, Typing, PTL DEF Spec

-----------------------------------------------------------------------------
(* The rings of the collector.                                             *)

LEMMA AtPointIsFinite ==
  IsFiniteSet(AtPoint) /\ Cardinality(AtPoint) \in Nat /\ IsFiniteSet(Threads)
<1>1. IsFiniteSet((Workers \cup {Stream}) \cup {Main}) BY ThreadsDistinct, FS_AddElement
<1>2. Threads = (Workers \cup {Stream}) \cup {Main} BY DEF Threads
<1>3. IsFiniteSet(Threads) BY <1>1, <1>2
<1>4. AtPoint \subseteq Threads BY DEF AtPoint
<1>5. QED BY <1>3, <1>4, FS_Subset, FS_CardinalityType

LEMMA StepKept ==
  ASSUME TypeOK, RecordersKept, NEW t \in Threads, Step(t)
  PROVE  RecordersKept'
<1> USE ThreadsDistinct
    DEF RecordersKept, TypeOK, Goto, Threads, Recorders, UpdatePoints, EndRecord
<1>1. CASE Take(t) BY <1>1 DEF Take
<1>2. CASE Add(t) BY <1>2 DEF Add
<1>3. CASE Point(t) BY <1>3 DEF Point
<1>4. CASE ExtractorRaises(t) BY <1>4 DEF ExtractorRaises
<1>5. CASE CallBack(t) BY <1>5 DEF CallBack
<1>6. CASE AppendTo(t)
  <2>1. pc[t] \in ListNames BY <1>6, NamesOfLists DEF AppendTo
  <2>2. QED BY <1>6, <2>1 DEF AppendTo, ListNames
<1>7. CASE Trim(t)
  <2>1. pc[t] \in {"trim_rounds", "trim_counts", "trim_means"} BY <1>7, TrimPoints DEF Trim
  <2>2. QED BY <1>7, <2>1 DEF Trim
<1>8. CASE MarkDirty(t) BY <1>8 DEF MarkDirty
<1>9. QED BY <1>1, <1>2, <1>3, <1>4, <1>5, <1>6, <1>7, <1>8 DEF Step

LEMMA MainKept ==
  ASSUME TypeOK, RecordersKept,
         Dispatch \/ Attach \/ Detach \/ ClearHistory \/ Replay \/ StartWindow
           \/ StopWindow \/ Finish
  PROVE  RecordersKept'
<1> USE ThreadsDistinct DEF RecordersKept, TypeOK, Goto, Threads, Recorders, OneRecorder
<1>1. CASE Dispatch BY <1>1 DEF Dispatch
<1>2. CASE Attach \/ Detach \/ StartWindow \/ StopWindow
  BY <1>2 DEF Attach, Detach, StartWindow, StopWindow
<1>3. CASE ClearHistory \/ Replay BY <1>3 DEF ClearHistory, Replay
<1>4. CASE ClearPoints BY <1>4 DEF ClearPoints
<1>5. CASE Animate BY <1>5 DEF Animate
<1>6. CASE PlotCounts BY <1>6 DEF PlotCounts, FrameRaises
<1>7. CASE PlotMeans BY <1>7 DEF PlotMeans, FrameRaises
<1>8. CASE ReplayNext BY <1>8 DEF ReplayNext
<1>9. QED BY <1>1, <1>2, <1>3, <1>4, <1>5, <1>6, <1>7, <1>8 DEF Finish

\* One that is behind by c catches up by one.
LEMMA StillBehind ==
  ASSUME NEW p \in Nat, NEW c \in Nat, NEW size \in Nat, c > 0
  PROVE  LET q == IF p + 1 > size THEN size ELSE p + 1 IN
           (IF p + c > size THEN size ELSE p + c)
             = (IF q + (c - 1) > size THEN size ELSE q + (c - 1))
OBVIOUS

\* A step away from the rings.
LEMMA RingsElsewhere ==
  ASSUME RingsInv, RecordersKept', UNCHANGED <<mode, history, points>>, clean' => clean,
         \A u \in Threads : pc'[u] = "point" <=> pc[u] = "point",
         pc'[Main] = "clear" <=> pc[Main] = "clear",
         pc[Stream] = "point" => job'[Stream] = job[Stream]
  PROVE  RingsInv'
<1>1. AtPoint' = AtPoint BY DEF AtPoint
<1>2. pc'[Stream] = "point" <=> pc[Stream] = "point" BY DEF Threads
<1>3. CASE mode = "parallel" BY <1>1, <1>3 DEF RingsInv
<1>4. CASE mode # "parallel" BY <1>2, <1>4 DEF RingsInv, Ring, LastOf
<1>5. QED BY <1>3, <1>4

LEMMA StepRings ==
  ASSUME TypeOK, RingsInv, NEW t \in Threads, Step(t)
  PROVE  RingsInv'
<1>0. /\ DOMAIN pc = Threads /\ job \in [Threads -> Nat] /\ HistorySize \in Nat \ {0}
      /\ history \in Seq(Nat) /\ points \in Seq(Nat)
      /\ Main \in Threads /\ Stream \in Threads /\ Main # Stream /\ RecordersKept'
      /\ pc[Main] \notin {"add", "point"}
  BY StepKept, SizesPositive, ThreadsDistinct
  DEF TypeOK, Threads, RingsInv, UpdatePoints
<1>a. job[t] \in Nat BY <1>0
<1>b. mode # "parallel" /\ pc[t] \in {"add", "point"} => t = Stream
  BY <1>0 DEF RingsInv, RecordersKept, Threads
<1>1. CASE Add(t)
  <2>1. /\ pc[t] = "add" /\ pc' = [pc EXCEPT ![t] = "point"]
        /\ history' = Ring(history, job[t]) /\ UNCHANGED <<mode, points, clean, job>>
    BY <1>1 DEF Add, Goto
  <2>2. pc'[t] = "point" /\ \A u \in Threads \ {t} : pc'[u] = pc[u] BY <1>0, <2>1
  <2>3. t # Main BY <1>0, <2>1
  <2>4. CASE clean /\ mode = "parallel"
    <3>1. AtPoint' = AtPoint \cup {t} /\ t \notin AtPoint BY <2>1, <2>2 DEF AtPoint
    <3>2. Cardinality(AtPoint') = Cardinality(AtPoint) + 1
      BY <3>1, AtPointIsFinite, FS_AddElement
    <3>3. Len(history') = IF Len(history) + 1 > HistorySize THEN HistorySize
                          ELSE Len(history) + 1
      BY <1>0, <1>a, <2>1, RingProps
    <3>4. Cardinality(AtPoint) \in Nat BY AtPointIsFinite
    <3>5. Len(history) = IF Len(points) + Cardinality(AtPoint) > HistorySize
                         THEN HistorySize ELSE Len(points) + Cardinality(AtPoint)
      BY <2>4 DEF RingsInv
    <3>6. Len(points) \in Nat BY <1>0
    <3>7. Len(history') = IF Len(points) + Cardinality(AtPoint') > HistorySize
                          THEN HistorySize ELSE Len(points) + Cardinality(AtPoint')
      BY <1>0, <3>2, <3>3, <3>4, <3>5, <3>6
    <3>8. QED BY <1>0, <2>1, <2>4, <3>7 DEF RingsInv
  <2>5. CASE clean /\ mode # "parallel"
    <3>1. t = Stream BY <1>b, <2>1, <2>5
    <3>2. pc[Main] # "clear" => history' = Ring(points, job[Stream])
      BY <2>1, <2>5, <3>1 DEF RingsInv
    <3>3. pc'[Main] = pc[Main] /\ pc'[Stream] = "point" BY <1>0, <2>2, <2>3, <3>1
    <3>4. Ring(points, job[Stream])' = Ring(points, job[Stream]) BY <2>1 DEF Ring, LastOf
    <3>5. QED BY <1>0, <2>1, <2>5, <3>2, <3>3, <3>4 DEF RingsInv
  <2>6. QED BY <1>0, <2>1, <2>4, <2>5 DEF RingsInv
<1>2. CASE Point(t)
  <2>1. /\ pc[t] = "point" /\ pc' = [pc EXCEPT ![t] = "callbacks"]
        /\ points' = Ring(points, job[t]) /\ UNCHANGED <<mode, history, job>>
        /\ clean' = (clean /\ pc[Main] # "clear")
    BY <1>2 DEF Point, Goto
  <2>2. pc'[t] = "callbacks" /\ \A u \in Threads \ {t} : pc'[u] = pc[u] BY <1>0, <2>1
  <2>3. t # Main BY <1>0, <2>1
  <2>a. Len(points') <= HistorySize
    <3>1. Len(points') = IF Len(points) + 1 > HistorySize THEN HistorySize
                         ELSE Len(points) + 1
      BY <1>0, <1>a, <2>1, RingProps
    <3>2. QED BY <1>0, <3>1
  <2>4. CASE clean' /\ mode = "parallel"
    <3>1. AtPoint' = AtPoint \ {t} /\ t \in AtPoint BY <2>1, <2>2 DEF AtPoint
    <3>2. Cardinality(AtPoint') = Cardinality(AtPoint) - 1
      BY <3>1, AtPointIsFinite, FS_RemoveElement
    <3>3. Len(points') = IF Len(points) + 1 > HistorySize THEN HistorySize
                         ELSE Len(points) + 1
      BY <1>0, <1>a, <2>1, RingProps
    <3>4. Cardinality(AtPoint) \in Nat BY AtPointIsFinite
    <3>5. Len(history) = IF Len(points) + Cardinality(AtPoint) > HistorySize
                         THEN HistorySize ELSE Len(points) + Cardinality(AtPoint)
      BY <2>1, <2>4 DEF RingsInv
    <3>6. Len(points) \in Nat BY <1>0
    <3>7. Cardinality(AtPoint) > 0 BY <3>1, <3>4, AtPointIsFinite, FS_EmptySet
    <3>8. Len(history) = IF Len(points') + Cardinality(AtPoint') > HistorySize
                         THEN HistorySize ELSE Len(points') + Cardinality(AtPoint')
      BY <1>0, <3>2, <3>3, <3>4, <3>5, <3>6, <3>7, StillBehind
    <3>9. QED BY <1>0, <2>a, <2>1, <2>4, <3>8 DEF RingsInv
  <2>5. CASE clean' /\ mode # "parallel"
    <3>1. t = Stream BY <1>b, <2>1, <2>5
    <3>2. history = Ring(points, job[Stream]) BY <2>1, <2>5, <3>1 DEF RingsInv
    <3>3. pc'[Main] # "clear" /\ pc'[Stream] # "point" BY <1>0, <2>1, <2>2, <2>3, <2>5, <3>1
    <3>4. history' = points' BY <2>1, <3>1, <3>2
    <3>5. QED BY <1>0, <2>a, <2>1, <2>5, <3>3, <3>4 DEF RingsInv
  <2>6. QED BY <1>0, <2>a, <2>4, <2>5 DEF RingsInv
<1>3. CASE ExtractorRaises(t) BY <1>0, <1>3 DEF ExtractorRaises, RingsInv
<1>4. CASE ~Add(t) /\ ~Point(t) /\ ~ExtractorRaises(t)
  <2>1. /\ UNCHANGED <<mode, history, points, clean>>
        /\ pc[t] # "point" /\ pc[t] # "clear"
        /\ \E p : p \notin {"point", "clear"} /\ pc' = [pc EXCEPT ![t] = p]
        /\ \A u \in Threads \ {t} : job'[u] = job[u]
    <3>1. CASE Take(t) BY <1>0, <3>1 DEF Take, Goto
    <3>2. CASE CallBack(t) BY <1>0, <3>2 DEF CallBack, EndRecord, Goto
    <3>3. CASE AppendTo(t)
      <4>1. pc[t] \in ListNames BY <3>3, NamesOfLists DEF AppendTo
      <4>2. QED BY <3>3, <4>1 DEF AppendTo, ListNames, NextList, Goto
    <3>4. CASE Trim(t)
      <4>1. pc[t] \in {"trim_rounds", "trim_counts", "trim_means"}
        BY <3>4, TrimPoints DEF Trim
      <4>2. QED BY <3>4, <4>1, TrimPoints DEF Trim, Goto
    <3>5. CASE MarkDirty(t) BY <1>0, <3>5 DEF MarkDirty, After, Goto
    <3>6. QED BY <1>4, <3>1, <3>2, <3>3, <3>4, <3>5 DEF Step
  <2>2. /\ \A u \in Threads : pc'[u] = "point" <=> pc[u] = "point"
        /\ pc'[Main] = "clear" <=> pc[Main] = "clear"
        /\ pc[Stream] = "point" => job'[Stream] = job[Stream]
    BY <1>0, <2>1
  <2>3. QED BY <1>0, <2>1, <2>2, RingsElsewhere
<1>5. QED BY <1>1, <1>2, <1>3, <1>4

LEMMA MainRings ==
  ASSUME TypeOK, RingsInv,
         Dispatch \/ Attach \/ Detach \/ ClearHistory \/ Replay \/ StartWindow
           \/ StopWindow \/ Finish
  PROVE  RingsInv'
<1>0. /\ DOMAIN pc = Threads /\ job \in [Threads -> Nat] /\ RecordersKept /\ RecordersKept'
      /\ Main \in Threads /\ Stream \in Threads /\ Main # Stream
      /\ pc[Main] # "point"
  BY MainKept, ThreadsDistinct DEF TypeOK, Threads, RingsInv, UpdatePoints
<1>1. CASE ClearHistory
  <2>1. /\ mode # "parallel" /\ history' = <<>> /\ pc'[Main] = "clear"
        /\ UNCHANGED <<mode, points>>
    BY <1>0, <1>1 DEF ClearHistory, OneRecorder, Goto
  <2>2. QED BY <1>0, <2>1 DEF RingsInv
<1>2. CASE ClearPoints
  <2>1. /\ pc[Main] = "clear" /\ pc' = [pc EXCEPT ![Main] = "idle"] /\ points' = <<>>
        /\ UNCHANGED <<mode, history, job>>
        /\ clean' => (\A t \in Threads : pc[t] # "point") /\ (clean \/ history = <<>>)
    BY <1>2 DEF ClearPoints, Goto
  <2>2. mode # "parallel" BY <1>0, <2>1 DEF RecordersKept
  <2>3. clean' => history = <<>> /\ pc[Stream] # "point"
    BY <1>0, <2>1, <2>2 DEF RingsInv
  <2>4. pc'[Main] # "clear" /\ pc'[Stream] = pc[Stream] BY <1>0, <2>1
  <2>5. Len(points') <= HistorySize BY <2>1, SizesPositive
  <2>6. QED BY <1>0, <2>1, <2>2, <2>3, <2>4, <2>5 DEF RingsInv
<1>3. CASE ~ClearHistory /\ ~ClearPoints
  <2>1. /\ UNCHANGED <<mode, history, points, clean>>
        /\ \A u \in Threads : pc'[u] = "point" <=> pc[u] = "point"
        /\ pc'[Main] = "clear" <=> pc[Main] = "clear"
        /\ pc[Stream] = "point" => job'[Stream] = job[Stream]
    <3>1. CASE Dispatch BY <1>0, <3>1 DEF Dispatch, Goto
    <3>2. CASE Attach \/ Detach \/ StartWindow \/ StopWindow
      BY <3>2 DEF Attach, Detach, StartWindow, StopWindow
    <3>3. CASE Replay BY <1>0, <3>3 DEF Replay, Goto
    <3>4. CASE Animate BY <1>0, <3>4 DEF Animate, Goto
    <3>5. CASE PlotCounts BY <1>0, <3>5 DEF PlotCounts, FrameRaises, Goto
    <3>6. CASE PlotMeans BY <1>0, <3>6 DEF PlotMeans, FrameRaises, Goto
    <3>7. CASE ReplayNext BY <1>0, <3>7 DEF ReplayNext, Goto
    <3>8. QED BY <1>3, <3>1, <3>2, <3>3, <3>4, <3>5, <3>6, <3>7 DEF Finish
  <2>2. QED BY <1>0, <2>1, RingsElsewhere
<1>4. QED BY <1>1, <1>2, <1>3

\* Between calls the history and the points of the collector have the same length, and
\* with one recording thread the same rounds, until an extractor raises or clear() comes
\* in the middle of a record().
THEOREM RingsStayTogether == Spec => []RingsAgree
<1>1. Init => RingsInv
  <2> SUFFICES ASSUME Init PROVE RingsInv OBVIOUS
  <2>1. \A t \in Threads : pc[t] = "idle" BY DEF Init
  <2>2. pc[Main] = "idle" /\ pc[Stream] = "idle" /\ \A w \in Workers : pc[w] = "idle"
    BY <2>1 DEF Threads
  <2>3. AtPoint = {} BY <2>1 DEF AtPoint
  <2>4. Cardinality(AtPoint) = 0 BY <2>3, FS_EmptySet
  <2>5. history = <<>> /\ points = <<>> /\ queue = <<>> BY DEF Init
  <2>6. Len(history) = 0 /\ Len(points) = 0 BY <2>5
  <2>7. HistorySize \in Nat \ {0} BY SizesPositive
  <2>8. RecordersKept BY <2>2, <2>5 DEF RecordersKept
  <2>9. CASE mode = "parallel" BY <2>4, <2>6, <2>7, <2>8, <2>9 DEF RingsInv
  <2>10. CASE mode # "parallel" BY <2>2, <2>5, <2>6, <2>7, <2>8, <2>10 DEF RingsInv
  <2>11. QED BY <2>9, <2>10
<1>2. TypeOK /\ RingsInv /\ [Next]_vars => RingsInv'
  <2> SUFFICES ASSUME TypeOK, RingsInv, [Next]_vars PROVE RingsInv' OBVIOUS
  <2>1. CASE \E t \in Threads : Step(t) BY <2>1, StepRings
  <2>2. CASE Next /\ ~\E t \in Threads : Step(t) BY <2>2, MainRings DEF Next
  <2>3. CASE UNCHANGED vars
    <3>1. UNCHANGED <<mode, queue, history, points, clean, pc, job>> BY <2>3 DEF vars
    <3>2. RecordersKept' BY <3>1 DEF RingsInv, RecordersKept
    <3>3. QED BY <3>1, <3>2, RingsElsewhere
  <2>4. QED BY <2>1, <2>2, <2>3
<1>3. TypeOK /\ RingsInv => RingsAgree
  <2> SUFFICES ASSUME TypeOK, RingsInv, clean, pc[Main] # "clear",
                      \A t \in Threads : pc[t] # "point"
               PROVE  /\ Len(history) = Len(points)
                      /\ mode = "sequential" => history = points
    BY DEF RingsAgree
  <2>1. CASE mode = "parallel"
    <3>1. AtPoint = {} BY DEF AtPoint
    <3>2. Cardinality(AtPoint) = 0 BY <3>1, FS_EmptySet
    <3>3. Len(points) \in Nat /\ Len(points) <= HistorySize BY DEF TypeOK, RingsInv
    <3>4. QED BY <2>1, <3>2, <3>3 DEF RingsInv
  <2>2. CASE mode # "parallel" BY <2>2 DEF RingsInv, Threads
  <2>3. QED BY <2>1, <2>2
<1>4. QED BY <1>1, <1>2, <1>3, Typing, PTL DEF Spec
=============================================================================

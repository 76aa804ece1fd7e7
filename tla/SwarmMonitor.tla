---------------------------- MODULE SwarmMonitor ----------------------------
(***************************************************************************)
(* What listens to a node: its listener proxy (ipc/listener_proxy.py) calls *)
(* MetricsCollector.record() (metrics/), whose callback is update() of a   *)
(* SwarmVisualizer (visualization/), which the timer of the window redraws *)
(* from the main thread.  Nothing here is locked.                          *)
(*                                                                         *)
(* In sequential mode the stream thread itself records; in parallel mode   *)
(* the threads of a pool do, in the order in which they take the snapshots *)
(* but side by side.  A snapshot is its round number.  One append to a     *)
(* deque or list, and one assignment, is a step.                           *)
(***************************************************************************)
EXTENDS Naturals, Sequences, SequencesExt

CONSTANTS
  Stream,       \* the stream thread
  Workers,      \* the threads of the pool
  Main,         \* the thread of the caller and of the window
  MaxSnap,      \* bound: snapshots that are dispatched in sequential mode
  MaxPoolSnap,  \* bound: snapshots that are dispatched in parallel mode
  HistorySize,  \* history_size of the collector
  MaxRounds,    \* max_rounds of the visualizer
  MaxAttach     \* bound: how often the visualizer is attached at a time

ASSUME SizesPositive == {MaxSnap, MaxPoolSnap, HistorySize, MaxRounds} \subseteq Nat \ {0}
ASSUME ThreadsDistinct == /\ Main \notin Workers \cup {Stream} /\ Stream \notin Workers
                          /\ IsFiniteSet(Workers)

Threads   == {Stream, Main} \cup Workers
Recorders == Threads \ {Main}

\* The lists of a visualizer that are appended to one after the other; _mins and
\* _maxs go with _means.
Lists == <<"rounds", "counts", "means">>

VARIABLES
  mode,       \* the mode of the listener proxy
  sent,       \* how many snapshots were dispatched
  queue,      \* the snapshots that wait for a thread of the pool
  stream,     \* does the stream thread live?
  history,    \* collector.history._snapshots
  points,     \* collector._points, each named by its round
  callbacks,  \* how often collector._callbacks holds update()
  pc,         \* where each thread is
  job,        \* the snapshot each thread works on
  cb,         \* of each record(): how many callbacks it has called, and whether the list
              \* it iterates over is still the collector's ("shared"), or else its size
  todo,       \* the snapshots a replay is still to feed
  series,     \* the lists of the visualizer
  dirty,      \* self._dirty
  window,     \* does the timer call _animate()?
  drawn,      \* what the upper and the lower plot of the live window show
  attached,   \* history: is the visualizer attached, as its user sees it?
  excused,    \* history: the threads in a record() that detach() came too late for
  clean,      \* history: since the rings were last empty together, no record()
              \* raised and no clear() came in the middle of one
  orderly,    \* history: no two updates have overlapped
  missed      \* history: since the last update a frame has raised, or the window was
              \* opened with nothing new to draw

collectorVars == <<history, points, callbacks>>
visualVars    == <<series, dirty>>
windowVars    == <<window, drawn, missed>>
dispatchVars  == <<mode, sent, queue, stream>>
ghostVars     == <<attached, excused, clean, orderly>>
vars == <<dispatchVars, collectorVars, pc, job, cb, todo, visualVars, windowVars, ghostVars>>

\* deque(maxlen=n).append() and the slice of the last n.
LastOf(n, s) == SubSeq(s, IF Len(s) > n THEN Len(s) - n + 1 ELSE 1, Len(s))
Ring(s, x)   == LastOf(HistorySize, Append(s, x))

\* Bound: clear() and replays are tried against one recording thread.
OneRecorder == mode = "sequential"

Plotted  == {"counts", "means"}
NotDrawn == [l \in Plotted |-> <<>>]
NoList == [done |-> 0, shared |-> FALSE, size |-> 0]

UpdatePoints == {"rounds", "counts", "means", "trim_rounds", "trim_counts", "trim_means",
                 "dirty"}

TypeOK ==
  /\ mode \in {"sequential", "parallel"}
  /\ sent \in Nat /\ queue \in Seq(Nat) /\ stream \in BOOLEAN
  /\ history \in Seq(Nat) /\ points \in Seq(Nat) /\ callbacks \in Nat
  /\ \A t \in Recorders : pc[t] \in {"idle", "add", "point", "callbacks"} \cup UpdatePoints
  /\ pc[Main] \in {"idle", "clear", "replay", "plot", "plot_means"} \cup UpdatePoints
  /\ DOMAIN pc = Threads
  /\ job \in [Threads -> Nat]
  /\ cb \in [Threads -> [done : Nat, shared : BOOLEAN, size : Nat]]
  /\ todo \in Seq(Nat)
  /\ series \in [ToSet(Lists) -> Seq(Nat)] /\ dirty \in BOOLEAN
  /\ window \in BOOLEAN /\ drawn \in [Plotted -> Seq(Nat)] /\ missed \in BOOLEAN
  /\ attached \in BOOLEAN /\ excused \subseteq Threads
  /\ clean \in BOOLEAN /\ orderly \in BOOLEAN

Init ==
  /\ mode \in {"sequential", "parallel"}
  /\ sent = 0 /\ queue = <<>> /\ stream = TRUE
  /\ history = <<>> /\ points = <<>> /\ callbacks = 0
  /\ pc = [t \in Threads |-> "idle"]
  /\ job = [t \in Threads |-> 0]
  /\ cb = [t \in Threads |-> NoList]
  /\ todo = <<>>
  /\ series = [l \in ToSet(Lists) |-> <<>>] /\ dirty = FALSE
  /\ window = FALSE /\ drawn = NotDrawn /\ missed = FALSE
  /\ attached = FALSE /\ excused = {} /\ clean = TRUE /\ orderly = TRUE

Goto(t, to) == pc' = [pc EXCEPT ![t] = to]

\* record() of t ends, and with it what detach() came too late for.
EndRecord(t) ==
  /\ Goto(t, "idle")
  /\ job' = [job EXCEPT ![t] = 0] /\ cb' = [cb EXCEPT ![t] = NoList]
  /\ excused' = excused \ {t}

Updating(t) == pc[t] \in UpdatePoints

-----------------------------------------------------------------------------
(* The listener proxy.                                                     *)

\* executor.submit() in parallel mode, a call in sequential mode.
Dispatch ==
  /\ stream /\ sent < (IF mode = "parallel" THEN MaxPoolSnap ELSE MaxSnap)
  /\ sent' = sent + 1
  /\ IF mode = "parallel"
       THEN queue' = Append(queue, sent + 1) /\ UNCHANGED <<pc, job>>
       ELSE /\ pc[Stream] = "idle" /\ Goto(Stream, "add")
            /\ job' = [job EXCEPT ![Stream] = sent + 1]
            /\ UNCHANGED queue
  /\ UNCHANGED <<mode, stream, collectorVars, cb, todo, visualVars, windowVars, ghostVars>>

Take(w) ==
  /\ w \in Workers /\ pc[w] = "idle" /\ queue # <<>>
  /\ Goto(w, "add")
  /\ job' = [job EXCEPT ![w] = Head(queue)]
  /\ queue' = Tail(queue)
  /\ UNCHANGED <<mode, sent, stream, collectorVars, cb, todo, visualVars, windowVars,
                 ghostVars>>

-----------------------------------------------------------------------------
(* MetricsCollector.                                                       *)

\* Mutant: the history is made without its bound.
AddUnbounded(t) ==
  /\ pc[t] = "add"
  /\ history' = Append(history, job[t])
  /\ Goto(t, "point")
  /\ UNCHANGED <<dispatchVars, points, callbacks, job, cb, todo, visualVars, windowVars,
                 ghostVars>>

Add(t) ==
  /\ pc[t] = "add"
  /\ history' = Ring(history, job[t])
  /\ Goto(t, "point")
  /\ UNCHANGED <<dispatchVars, points, callbacks, job, cb, todo, visualVars, windowVars,
                 ghostVars>>

\* The extractor has looked at every node.
Point(t) ==
  /\ pc[t] = "point"
  /\ points' = Ring(points, job[t])
  /\ Goto(t, "callbacks")
  /\ clean' = (clean /\ pc[Main] # "clear")
  /\ UNCHANGED <<dispatchVars, history, callbacks, job, cb, todo, visualVars, windowVars,
                 attached, excused, orderly>>

\* The extractor raises what record() does not catch.  That ends the stream thread;
\* the pool keeps the exception to itself.
ExtractorRaises(t) ==
  /\ pc[t] = "point"
  /\ EndRecord(t)
  /\ stream' = (mode = "parallel")
  /\ clean' = FALSE
  /\ UNCHANGED <<mode, sent, queue, collectorVars, todo, visualVars, windowVars,
                 attached, orderly>>

\* Iteration sees what on_update() appends to the list, but remove_callback() makes
\* a new list and leaves it the old one.
Shares(t)        == cb[t] = NoList \/ cb[t].shared
CallbackCount(t) == IF Shares(t) THEN callbacks ELSE cb[t].size

CallBack(t) ==
  /\ pc[t] = "callbacks"
  /\ IF cb[t].done < CallbackCount(t)
       THEN /\ cb' = [cb EXCEPT ![t] = [done |-> @.done + 1, shared |-> Shares(t), size |-> @.size]]
            /\ Goto(t, "rounds")
            /\ orderly' = (orderly /\ ~\E u \in Threads : Updating(u))
            /\ UNCHANGED <<job, excused>>
       ELSE EndRecord(t) /\ UNCHANGED orderly
  /\ UNCHANGED <<dispatchVars, collectorVars, todo, visualVars, windowVars, attached, clean>>

Attach ==
  /\ pc[Main] = "idle" /\ callbacks < MaxAttach
  /\ callbacks' = callbacks + 1
  /\ attached' = TRUE
  /\ UNCHANGED <<dispatchVars, history, points, pc, job, cb, todo, visualVars, windowVars,
                 excused, clean, orderly>>

\* Mutant: the callbacks are compared by identity, and a bound method is a new
\* object each time.
DetachByIdentity ==
  /\ pc[Main] = "idle" /\ attached
  /\ attached' = FALSE
  /\ cb' = [t \in Threads |->
              IF cb[t].shared
                THEN [done |-> cb[t].done, shared |-> FALSE, size |-> callbacks]
                ELSE cb[t]]
  /\ excused' = {t \in Threads : cb[t] # NoList}
  /\ UNCHANGED <<dispatchVars, collectorVars, pc, job, todo, visualVars, windowVars,
                 clean, orderly>>

\* remove_callback() drops every copy.
Detach ==
  /\ pc[Main] = "idle" /\ attached
  /\ callbacks' = 0
  /\ attached' = FALSE
  /\ cb' = [t \in Threads |->
              IF cb[t].shared
                THEN [done |-> cb[t].done, shared |-> FALSE, size |-> callbacks]
                ELSE cb[t]]
  /\ excused' = {t \in Threads : cb[t] # NoList}
  /\ UNCHANGED <<dispatchVars, history, points, pc, job, todo, visualVars, windowVars,
                 clean, orderly>>

\* clear(): the history first, then the points.
ClearHistory ==
  /\ pc[Main] = "idle" /\ OneRecorder
  /\ history' = <<>>
  /\ Goto(Main, "clear")
  /\ clean' = (clean /\ ~\E t \in Threads : pc[t] = "point")
  /\ UNCHANGED <<dispatchVars, points, callbacks, job, cb, todo, visualVars, windowVars,
                 attached, excused, orderly>>

ClearPoints ==
  /\ pc[Main] = "clear"
  /\ points' = <<>>
  /\ Goto(Main, "idle")
  /\ clean' = /\ ~\E t \in Threads : pc[t] = "point"
              /\ clean \/ history = <<>>
  /\ UNCHANGED <<dispatchVars, history, callbacks, job, cb, todo, visualVars, windowVars,
                 attached, excused, orderly>>

-----------------------------------------------------------------------------
(* SwarmVisualizer: update() in the recording threads, or in a replay.     *)

After(t) == IF t = Main THEN "replay" ELSE "callbacks"

NextList(l) == CASE l = "rounds" -> "counts" [] l = "counts" -> "means" [] l = "means" -> "trim_rounds"

AppendTo(t) ==
  /\ pc[t] \in ToSet(Lists)
  /\ series' = [series EXCEPT ![pc[t]] = Append(@, job[t])]
  /\ Goto(t, NextList(pc[t]))
  /\ UNCHANGED <<dispatchVars, collectorVars, job, cb, todo, dirty, windowVars, ghostVars>>

Trimmed == [trim_rounds |-> "rounds", trim_counts |-> "counts", trim_means |-> "means"]
NextTrim == [trim_rounds |-> "trim_counts", trim_counts |-> "trim_means",
             trim_means |-> "dirty"]

\* Only len(self._rounds) is looked at.
TooLong(t) == pc[t] = "trim_rounds" => Len(series["rounds"]) > MaxRounds

\* Mutant: the means keep their first entries.
TrimButMeans(t) ==
  /\ pc[t] \in DOMAIN Trimmed
  /\ IF TooLong(t)
       THEN /\ series' = IF pc[t] = "trim_means" THEN series
                         ELSE [series EXCEPT ![Trimmed[pc[t]]] = LastOf(MaxRounds, @)]
            /\ Goto(t, NextTrim[pc[t]])
       ELSE Goto(t, "dirty") /\ UNCHANGED series
  /\ UNCHANGED <<dispatchVars, collectorVars, job, cb, todo, dirty, windowVars, ghostVars>>

Trim(t) ==
  /\ pc[t] \in DOMAIN Trimmed
  /\ IF TooLong(t)
       THEN /\ series' = [series EXCEPT ![Trimmed[pc[t]]] = LastOf(MaxRounds, @)]
            /\ Goto(t, NextTrim[pc[t]])
       ELSE Goto(t, "dirty") /\ UNCHANGED series
  /\ UNCHANGED <<dispatchVars, collectorVars, job, cb, todo, dirty, windowVars, ghostVars>>

MarkDirty(t) ==
  /\ pc[t] = "dirty"
  /\ dirty' = TRUE
  /\ missed' = FALSE
  /\ Goto(t, After(t))
  /\ job' = IF t = Main THEN [job EXCEPT ![t] = 0] ELSE job
  /\ UNCHANGED <<dispatchVars, collectorVars, cb, todo, series, window, drawn, ghostVars>>

-----------------------------------------------------------------------------
(* The window.                                                             *)

StartWindow ==
  /\ pc[Main] = "idle" /\ ~window /\ window' = TRUE
  /\ missed' = (~dirty /\ series["rounds"] # <<>>)
  /\ UNCHANGED <<dispatchVars, collectorVars, pc, job, cb, todo, visualVars, drawn, ghostVars>>

StopWindow ==
  /\ pc[Main] = "idle" /\ window /\ window' = FALSE
  /\ drawn' = NotDrawn /\ missed' = FALSE
  /\ UNCHANGED <<dispatchVars, collectorVars, pc, job, cb, todo, visualVars, ghostVars>>

Animate ==
  /\ pc[Main] = "idle" /\ window /\ dirty
  /\ dirty' = FALSE
  /\ Goto(Main, "plot")
  /\ UNCHANGED <<dispatchVars, collectorVars, job, cb, todo, series, windowVars, ghostVars>>

\* plot() of two lists of different lengths raises.  In a frame that goes to the
\* timer, which some toolkits then stop.
FrameRaises ==
  /\ Goto(Main, "idle")
  /\ window' \in {window, FALSE}
  /\ missed' = window'
  /\ drawn' = IF window' THEN drawn ELSE NotDrawn

PlotCounts ==
  /\ pc[Main] = "plot"
  /\ IF Len(series["rounds"]) = Len(series["counts"])
       THEN /\ drawn' = IF window THEN [drawn EXCEPT !["counts"] = series["counts"]] ELSE drawn
            /\ Goto(Main, "plot_means")
            /\ UNCHANGED <<window, missed>>
       ELSE FrameRaises
  /\ UNCHANGED <<dispatchVars, collectorVars, job, cb, todo, visualVars, ghostVars>>

\* Mutant: the flag is reset when the frame has been drawn.
PlotMeansResets ==
  /\ pc[Main] = "plot_means"
  /\ IF series["means"] = <<>> \/ Len(series["rounds"]) = Len(series["means"])
       THEN /\ drawn' = IF window THEN [drawn EXCEPT !["means"] = series["means"]] ELSE drawn
            /\ Goto(Main, "idle")
            /\ UNCHANGED <<window, missed>>
       ELSE FrameRaises
  /\ dirty' = FALSE
  /\ UNCHANGED <<dispatchVars, collectorVars, job, cb, todo, series, ghostVars>>

PlotMeans ==
  /\ pc[Main] = "plot_means"
  /\ IF series["means"] = <<>> \/ Len(series["rounds"]) = Len(series["means"])
       THEN /\ drawn' = IF window THEN [drawn EXCEPT !["means"] = series["means"]] ELSE drawn
            /\ Goto(Main, "idle")
            /\ UNCHANGED <<window, missed>>
       ELSE FrameRaises
  /\ UNCHANGED <<dispatchVars, collectorVars, job, cb, todo, visualVars, ghostVars>>

\* replay_from_history(): a copy of the history is fed to update(), then drawn, in a
\* window of its own.
Replay ==
  /\ pc[Main] = "idle" /\ ~window /\ history # <<>>
  /\ OneRecorder
  /\ todo' = history
  /\ Goto(Main, "replay")
  /\ UNCHANGED <<dispatchVars, collectorVars, job, cb, visualVars, windowVars, ghostVars>>

ReplayNext ==
  /\ pc[Main] = "replay"
  /\ IF todo = <<>>
       THEN Goto(Main, "plot") /\ UNCHANGED <<job, todo, orderly>>
       ELSE /\ Goto(Main, "rounds")
            /\ job' = [job EXCEPT ![Main] = Head(todo)] /\ todo' = Tail(todo)
            /\ orderly' = (orderly /\ ~\E u \in Threads : Updating(u))
  /\ UNCHANGED <<dispatchVars, collectorVars, cb, visualVars, windowVars,
                 attached, excused, clean>>

-----------------------------------------------------------------------------
Step(t) ==
  \/ Take(t) \/ Add(t) \/ Point(t) \/ ExtractorRaises(t) \/ CallBack(t)
  \/ AppendTo(t) \/ Trim(t) \/ MarkDirty(t)

Finish == ClearPoints \/ Animate \/ PlotCounts \/ PlotMeans \/ ReplayNext

Next ==
  \/ Dispatch \/ Attach \/ Detach \/ ClearHistory \/ Replay \/ StartWindow \/ StopWindow
  \/ Finish
  \/ \E t \in Threads : Step(t)

\* Threads that can run do; the caller goes back to the loop of the window again and
\* again, where its timer fires.
Spec ==
  /\ Init /\ [][Next]_vars
  /\ WF_vars(Finish) /\ SF_vars(Animate) /\ \A t \in Threads : WF_vars(Step(t))

-----------------------------------------------------------------------------
(* Properties.                                                             *)

\* Between calls the history and the points of the collector are of the same length,
\* and with one recording thread of the same rounds, unless since they were last
\* empty together an extractor has raised or clear() came in the middle of a record().
RingsAgree ==
  clean /\ pc[Main] # "clear" /\ (\A t \in Threads : pc[t] # "point") =>
    /\ Len(history) = Len(points)
    /\ mode = "sequential" => history = points

\* Between updates the lists of the visualizer are of the same rounds and within
\* their bound, as long as no two updates have overlapped: with a pool they may, and
\* with one thread only a replay can overlap.
ListsAligned ==
  orderly /\ (\A t \in Threads : ~Updating(t)) =>
    /\ series["rounds"] = series["counts"] /\ series["counts"] = series["means"]
    /\ Len(series["rounds"]) <= MaxRounds

\* After detach() no record() calls update() any more but one that had begun to call
\* its callbacks before.
DetachIsQuiet ==
  [][\A t \in Threads \ {Main} :
       pc[t] = "callbacks" /\ pc'[t] = "rounds" => attached \/ t \in excused]_vars

\* An open window comes to show all that the visualizer holds, whatever updates came
\* while it was drawing, unless since the last update a frame has raised or the window
\* was opened with nothing new to draw.
ShownInTheEnd ==
  []<>(window /\ ~missed => drawn = [l \in Plotted |-> series[l]])

(***************************************************************************)
(* Why RingsAgree, ListsAligned and DetachIsQuiet hold.                    *)
(***************************************************************************)
AtPoint == {t \in Threads : pc[t] = "point"}

\* Who records: the stream thread, or those of the pool, which clear() and replays
\* leave alone.
RecordersKept ==
  IF mode = "parallel"
    THEN pc[Stream] = "idle" /\ pc[Main] \in {"idle", "plot", "plot_means"}
    ELSE queue = <<>> /\ \A w \in Workers : pc[w] = "idle"

\* In sequential mode points is behind history by the round that is being added.  In
\* parallel mode it is behind by one for each thread that has added and not yet
\* computed its point, but never shorter than the bound allows.
RingsInv ==
  /\ RecordersKept
  /\ Len(points) <= HistorySize
  /\ clean => CASE mode = "parallel" ->
                    Len(history) = IF Len(points) + Cardinality(AtPoint) > HistorySize
                                   THEN HistorySize ELSE Len(points) + Cardinality(AtPoint)
              [] mode # "parallel" /\ pc[Main] = "clear" ->
                    pc[Stream] # "point" => history = <<>>
              [] mode # "parallel" /\ pc[Main] # "clear" ->
                    history = IF pc[Stream] = "point" THEN Ring(points, job[Stream])
                              ELSE points

\* How far thread t is in its update(), the only one under way.
UpdateProgress(t) ==
  LET r == series["rounds"]  c == series["counts"]  m == series["means"] IN
  /\ pc[t] = "rounds"      => r = c /\ c = m /\ Len(m) <= MaxRounds
  /\ pc[t] = "counts"      => r = Append(c, job[t]) /\ c = m /\ Len(m) <= MaxRounds
  /\ pc[t] = "means"       => r = c /\ c = Append(m, job[t]) /\ Len(m) <= MaxRounds
  /\ pc[t] = "trim_rounds" => r = c /\ c = m
  /\ pc[t] = "trim_counts" => r = LastOf(MaxRounds, c) /\ c = m
  /\ pc[t] = "trim_means"  => r = c /\ c = LastOf(MaxRounds, m)
  /\ pc[t] = "dirty"       => r = c /\ c = m /\ Len(m) <= MaxRounds

ListsInv ==
  orderly => /\ \A t, u \in Threads : Updating(t) /\ Updating(u) => t = u
             /\ \A t \in Threads : UpdateProgress(t)
             /\ ListsAligned

\* A record() that iterates over a list that is no longer the collector's was running
\* when the visualizer was detached.
DetachInv ==
  /\ callbacks > 0 => attached
  /\ \A t \in Recorders : cb[t] # NoList /\ ~cb[t].shared => t \in excused
=============================================================================

-------------------------- MODULE GradientPrograms --------------------------
(***************************************************************************)
(* The compute() methods of the examples that spread, collect and broadcast*)
(* along a distance: simple_averaging, gossip_protocol, distance_broadcast,*)
(* spreading_collection, chain_decaying, channel_broadcast and             *)
(* collection_compare.                                                     *)
(***************************************************************************)
EXTENDS AggregateRound

CONSTANTS
  Readings,     \* what GossipMaxAggregate.initial_state() may draw
  SwitchTick    \* SOURCE_SWITCH, scaled down; round counters stop there

ASSUME ReadingsAreNumbers == Readings \subseteq Int

-----------------------------------------------------------------------------
(* simple_averaging.py: 0.7 own + 0.3 average, rounded either way. *)

AveragingInitial == 0
Averaging(n) ==
  IF Hood(n) = {} THEN {state[n]}
  ELSE LET k   == Cardinality(Hood(n))
           sum == 7 * k * state[n] + 3 * SumFunctionOnSet(state, Hood(n))
       IN  {x \in sum \div (10 * k) .. sum \div (10 * k) + 1 : x * 10 * k < sum + 10 * k}

(* gossip_protocol.py *)

Gossip(n) == Max({state[n]} \cup Values(n))

(* distance_broadcast.py; 999 is Far. *)

DistanceInitial == [value |-> 0, distance |-> Far]
DistanceBroadcast(n) ==
  LET closest == CHOOSE s \in Values(n) : \A t \in Values(n) : s.distance <= t.distance IN
  IF Hood(n) # {} /\ closest.distance + 1 < state[n].distance
  THEN [value |-> closest.value, distance |-> closest.distance + 1]
  ELSE state[n]

-----------------------------------------------------------------------------
(* spreading_collection.py *)

SpreadingInitial ==
  [is_source |-> FALSE, calc_distance |-> Far, source_diameter |-> 0, diameter |-> 0]

SpreadingCollection(n) ==
  LET far   == Field("calc_distance")
      dist  == Gradient(n = 0, far, n)
      sdiam == Max({dist} \cup {state[m].source_diameter : m \in Above(n, dist, far)})
  IN  [is_source       |-> n = 0,
       calc_distance   |-> dist,
       source_diameter |-> sdiam,
       diameter        |-> Broadcast(n, dist, sdiam, far, Field("diameter"))]

(* chain_decaying.py: nbr() starts from the first tuple and takes the least *)
(* one of the neighbourhood, the device's own included.  should_hold is     *)
(* FALSE, hops and ttl 0 in the least tuple there is, a source's.           *)

ChainInitial == [is_source |-> FALSE, fired |-> FALSE, in_channel |-> FALSE,
                 should_hold |-> TRUE, hops |-> Far, ttl |-> -1, next_uid |-> 0]

ChainBefore(a, b) ==
  \/ b.should_hold /\ ~a.should_hold
  \/ a.should_hold = b.should_hold /\ a.hops < b.hops
  \/ a.should_hold = b.should_hold /\ a.hops = b.hops /\ a.ttl <= b.ttl

ChainDecaying(n) ==
  LET src  == n = 0                                      \* uid % 17 = 0
      own  == IF state[n].fired THEN state[n]
              ELSE [state[n] EXCEPT !.should_hold = ~src, !.hops = IF src THEN 0 ELSE Far,
                                    !.ttl = IF src THEN 0 ELSE -1]
      hood == {own} \cup {s \in Values(n) : s.fired}
      data == CHOOSE a \in hood : \A b \in hood : ChainBefore(a, b)
  IN  [data EXCEPT !.is_source = src, !.fired = TRUE, !.in_channel = data.ttl > -1]

-----------------------------------------------------------------------------
(* channel_broadcast.py: a hop is 100 and CHANNEL_WIDTH 20, less than a hop. *)

ChannelInitial == [is_source |-> FALSE, is_dest |-> FALSE, source_dist |-> Far,
                   dest_dist |-> Far, span |-> Far, in_channel |-> FALSE]

ChannelBroadcast(n) ==
  LET ds   == Gradient(n = 0, Field("source_dist"), n)
      dd   == Gradient(n = 1, Field("dest_dist"), n)
      span == Broadcast(n, ds, dd, Field("source_dist"), Field("span"))
  IN  [is_source   |-> n = 0,
       is_dest     |-> n = 1,
       source_dist |-> ds,
       dest_dist   |-> dd,
       span        |-> span,
       in_channel  |-> \/ ds < Far /\ dd < Far /\ (span = Far \/ ds + dd <= span)
                       \/ n \in {0, 1}]

-----------------------------------------------------------------------------
(* collection_compare.py: sums count in units that divide by every number  *)
(* of receivers.  With all hops of one length the weights of               *)
(* wmp_collection are those of mp_collection.                               *)

Unit == 12
CollectionInitial ==
  [tick |-> 0, is_source |-> FALSE, distance |-> Far, parent |-> -1, receivers |-> 0,
   spc_sum |-> 0, mpc_sum |-> 0, wmpc_sum |-> 0, spc_max |-> 0, mpc_max |-> 0, wmpc_max |-> 0]

CollectionCompare(n) ==
  LET tick   == IF state[n].tick < SwitchTick THEN state[n].tick + 1 ELSE SwitchTick
      src    == IF tick >= SwitchTick THEN n = 1 ELSE n = 0
      far    == Field("distance")
      dist   == Gradient(src, far, n)
      kids   == Children(n, Field("parent"))
      above  == {m \in Above(n, dist, far) : state[m].receivers > 0}
      shared(f) == Total(above, LAMBDA m : state[m][f] \div state[m].receivers)
      most(f, S) == Max({dist} \cup {state[m][f] : m \in S})
      \* the gate 1/receivers > 3.5/max(1, count_hood)
      open   == {m \in above : 7 * state[m].receivers < 2 * CountHood(n)}
  IN  [tick      |-> tick,
       is_source |-> src,
       distance  |-> dist,
       parent    |-> Parent(n, dist, far),
       receivers |-> Cardinality(Nearer(n, dist, far)),
       spc_sum   |-> 1 + Total(kids, LAMBDA m : state[m].spc_sum),
       mpc_sum   |-> Unit + shared("mpc_sum"),
       wmpc_sum  |-> Unit + shared("wmpc_sum"),
       spc_max   |-> most("spc_max", kids),
       mpc_max   |-> most("mpc_max", above),
       wmpc_max  |-> most("wmpc_max", open)]

-----------------------------------------------------------------------------
(* Where each program should arrive once the devices rest. *)

SpreadingSettled ==
  LET hops == HopsFrom(0) far == Eccentricity(0) IN
  \A n \in Nodes : /\ state[n].calc_distance = hops[n]
                   /\ hops[n] < Far => state[n].diameter = far

\* The channel is device 0's component: of those it was never connected with no
\* device is in it, and neighbours agree.
ChainSettled ==
  /\ \A n \in Component(0) : state[n].in_channel
  /\ \A n \in Nodes : \A m \in Hood(n) : state[n].in_channel = state[m].in_channel
  /\ moves = 0 => {n \in Nodes : state[n].in_channel} \subseteq Component(0)

\* A node that was cut off from the extremity leaves the chain (chain_decaying.py:17-19).
\* Violated: the least tuple of a neighbourhood never grows, so that it stays for good.
CutOffDecays == {n \in Nodes : state[n].in_channel} \subseteq Component(0)

ChannelSettled ==
  LET to == HopsFrom(1) from == HopsFrom(0) IN
  \A n \in Nodes :
    state[n].in_channel <=> n \in {0, 1} \/ (to[n] < Far /\ from[n] + to[n] = from[1])

CollectionSettled ==
  LET hops == HopsFrom(1) count == Cardinality(Component(1)) far == Eccentricity(1) IN
  /\ state[1].spc_sum = count /\ state[1].mpc_sum = Unit * count /\ state[1].wmpc_sum = Unit * count
  /\ state[1].spc_max = far /\ state[1].mpc_max = far
  /\ \A n \in Nodes : state[n].distance = hops[n]

GossipSettled == \A n \in Nodes : \A m \in Hood(n) : state[n] = state[m]

=============================================================================

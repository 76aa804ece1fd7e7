------------------------- MODULE AggregateExamples --------------------------
(***************************************************************************)
(* The aggregate programs of examples/, each in the network of             *)
(* AggregateRound: a behaviour runs one of them, in devices that fire in   *)
(* any order while links come and go.                                      *)
(***************************************************************************)
EXTENDS GradientPrograms, RoutingPrograms, StoragePrograms, ExampleSetup, TileGeometry

CONSTANTS
  Sinks, Sources,   \* SINK_POINTS, SOURCE_POINTS
  Extent            \* bound: areas and polygons have corners within 0 .. Extent

ASSUME PointsGiven == {Sinks, Sources, Extent} \subseteq Nat

\* The program that runs, or the part of a setup that is examined.
VARIABLE prog

vars == <<prog, input, links, state, moves>>

Programs ==
  {"averaging", "gossip", "distance", "spreading", "chain", "channel", "collection",
   "dispatch", "worker", "roles", "scattered", "area", "iter"}

SetupParts == {"deploy", "roles_of", "grid", "tiles", "clip"}

\* Programs that keep more run on fewer devices.
Devices(p) ==
  CASE p = "iter" -> 0 .. N-3
    [] p \in SetupParts -> {}
    [] p \in {"dispatch", "worker", "roles", "scattered", "area"} -> 0 .. N-2
    [] OTHER -> 0 .. N-1

\* Triangles with their corners counterclockwise, the least corner first.
Corners   == {At(x, y) : x \in 0 .. Extent-1, y \in 0 .. Extent-1}
Triangles == {t \in Corners \X Corners \X Corners :
                /\ Side(t[3], t[1], t[2]) > 0
                /\ \A i \in 2 .. 3 : 10 * t[1][1] + t[1][2] < 10 * t[i][1] + t[i][2]}
Areas     == {a \in [1 .. 4 -> 0 .. Extent] : a[1] = 0 /\ a[2] \in 0 .. 1 /\ a[1] < a[3] /\ a[2] < a[4]}

\* A tile for each device and the order in which a set of tiles is iterated.
Deployments(tile) ==
  {[tile |-> tile, rank |-> r] :
     r \in {q \in [Range(tile) -> 1 .. Cardinality(Range(tile))] : IsInjective(q)}}

\* What a deployment may give each device: what it reads, its role, the ids
\* whose data it holds (each id held once or nowhere), its tile, or where it
\* stands and the tiles it knows.
Inputs(p) ==
  LET D == Devices(p) IN
  CASE p = "gossip"    -> [D -> Readings]
    [] p = "worker"    -> [D -> {"UNASSIGNED", "RECEIVER", "REPEATER", "LIDAR"}]
    [] p = "roles"     -> {f \in [D -> {"RECEIVER", "REPEATER", "SENDER"}] :
                             {"RECEIVER", "SENDER"} \subseteq Range(f)}
    [] p = "scattered" -> {[d \in D |-> {i \in D : h[i] = d}] : h \in {g \in [D -> {None, 2}] : g[2] = 2}}
                          \cup {[d \in D |-> CoprimeNeighbors(pos, d)] : pos \in [D -> Spots]}
    [] p = "area"      -> UNION {Deployments([d \in D |-> IF d = w THEN None ELSE d + 1]) : w \in {0, 1}}
    [] p = "iter"      -> [D -> [at : Tiles, tiles : {{}, Tiles}]]
    [] p = "deploy"    -> [Devs -> Spots]
    [] p = "roles_of"  -> Setups(Sinks, Sources)
    [] p = "grid"      -> 1 .. Extent * Extent
    [] p = "tiles"     -> Areas \X {c \in 2 .. Extent : c % 2 = 0}
    [] p = "clip"      -> (Triangles \cup {Rectangle(a) : a \in Areas}) \X Triangles
    [] OTHER           -> {[d \in D |-> None]}

\* The networks to start from: any, or a ring or a line for the programs that
\* keep most; in area the middle device of the line lacks the tiles of the others.
StartLinks(p) ==
  CASE p = "collection"            -> {{{0, 2}, {0, 3}, {1, 2}, {1, 3}}}
    [] p \in {"scattered", "area"} -> {{{0, 1}, {1, 2}}}
    [] OTHER                       -> SUBSET Pairs(Devices(p))

Init ==
  /\ prog \in Programs \cup SetupParts
  /\ input \in Inputs(prog)
  /\ links \in StartLinks(prog)
  /\ moves = IF prog = "collection" THEN MaxMoves ELSE 0
  /\ state = [n \in Devices(prog) |->
       CASE prog = "averaging"  -> AveragingInitial
         [] prog = "gossip"     -> input[n]
         [] prog = "distance"   -> DistanceInitial
         [] prog = "spreading"  -> SpreadingInitial
         [] prog = "chain"      -> ChainInitial
         [] prog = "channel"    -> ChannelInitial
         [] prog = "collection" -> CollectionInitial
         [] prog = "dispatch"   -> DispatchInitial
         [] prog = "worker"     -> WorkerInitial
         [] prog = "roles"      -> RoleInitial
         [] prog = "scattered"  -> QueryInitial([k \in input[n] |-> k])
         [] prog = "area"       -> QueryInitial([k \in {input.tile[n]} \ {None} |-> k])
         [] prog = "iter"       -> IterInitial(n)]

Compute(n) ==
  CASE prog = "averaging"  -> Averaging(n)
    [] prog = "gossip"     -> {Gossip(n)}
    [] prog = "distance"   -> {DistanceBroadcast(n)}
    [] prog = "spreading"  -> {SpreadingCollection(n)}
    [] prog = "chain"      -> {ChainDecaying(n)}
    [] prog = "channel"    -> {ChannelBroadcast(n)}
    [] prog = "collection" -> {CollectionCompare(n)}
    [] prog = "dispatch"   -> {MessageDispatch(n)}
    [] prog = "worker"     -> {WorkerRole(n)}
    [] prog = "roles"      -> {CommunicationRole(n)}
    [] prog = "scattered"  -> ScatteredDatabase(n)
    [] prog = "area"       -> AreaDiscovery(n)
    [] prog = "iter"       -> IterArea(n)

Round(n) ==
  /\ n \in Nodes
  /\ \E s \in Compute(n) : state' = [state EXCEPT ![n] = s]
  /\ UNCHANGED <<links, moves>>

Next ==
  /\ UNCHANGED <<prog, input>>
  /\ Move \/ \E n \in 0 .. N-1 : Round(n)

Spec == Init /\ [][Next]_vars
\* Weak fairness of Round(n), written out: a device whose next state differs
\* from the one it has fires at last.
Rests(n) == n \in Nodes => Compute(n) = {state[n]}
Fires(n) == n \in Nodes /\ state'[n] # state[n]
FairSpec == Spec /\ \A n \in 0 .. N-1 : []<>Rests(n) \/ []<><<Fires(n)>>_state

-----------------------------------------------------------------------------
(* Properties *)

\* What a device holds that another device produced is what that device did
\* produce: a gossiped reading is one of a device and never falls below one's
\* own, averages stay within the readings, logged messages were sent by a
\* device with that role, and data stored under a key is that key's data,
\* however late the answer came and whatever had been asked meanwhile. In
\* iteratively_area_discovery no device is ever assigned a tile: a tile whose query
\* has timed out was pending, and what is pending is no candidate.
NothingInvented ==
  CASE prog = "gossip"    -> \A n \in Nodes : state[n] \in Range(input) /\ state[n] >= input[n]
    [] prog = "averaging" -> \A n \in Nodes : state[n] = AveragingInitial
    [] prog = "distance"  -> \A n \in Nodes : state[n] = DistanceInitial
    [] prog = "dispatch"  -> DispatchTrue
    [] prog = "worker"    -> WorkersTrue
    [] prog = "roles"     -> RolesTrue
    [] prog \in {"scattered", "area"} -> DataTrue
    [] prog = "iter"      -> NothingClaimed
    [] OTHER -> TRUE

\* A setup keeps what the program relies on: relocating devices isolates no
\* other, shared data is mutual, every sink and source is served, and every
\* device of a grid has a place of its own.
SetupServes ==
  CASE prog = "deploy"   -> MigrationKeeps(input) /\ SharingMutual(input)
    [] prog = "roles_of" -> RolesServe(input, Sinks, Sources)
    [] prog = "grid"     -> GridApart(input)
    [] OTHER -> TRUE

\* Clipping a convex polygon by a convex one leaves their intersection, and the
\* tiles cut out of an area partition it but for the strip they do not reach.
TilesCut ==
  CASE prog = "tiles" -> TilesPartition(input[1], input[2])
    [] prog = "clip"  -> ClipIsIntersection(input[1], input[2], Corners)
    [] OTHER -> TRUE

\* The programs that come to an answer. Those of simple_averaging,
\* distance_broadcast and iteratively_area_discovery never leave what they start
\* with, or seek for ever, as NothingInvented says.
Arriving == Programs \ {"averaging", "distance", "iter"}

Settled ==
  CASE prog = "gossip"     -> GossipSettled
    [] prog = "spreading"  -> SpreadingSettled
    [] prog = "chain"      -> ChainSettled
    [] prog = "channel"    -> ChannelSettled
    [] prog = "collection" -> CollectionSettled
    [] prog = "dispatch"   -> DispatchSettled
    [] prog = "worker"     -> WorkersSettled
    [] prog = "roles"      -> RolesSettled
    [] prog = "scattered"  -> ScatteredSettled
    [] prog = "area"       -> AreaSettled

\* None of the ten programs that arrive comes to rest, in no device having anything
\* left to do, short of the answer that Settled gives it, whatever the links did
\* before: distances, diameter, channel and counts are right, messages have come to
\* those that wait for them, and data to those that ask for it. What Settled leaves
\* out is what the programs do not reach: ids above one that nobody holds, tiles
\* behind a neighbour without a tile, and a chain's decay where it was cut off.
RestIsRight == prog \in Arriving /\ (\A n \in 0 .. N-1 : Rests(n)) => Settled

\* Once the links rest, each of these ten programs arrives there and stays, whatever
\* the devices had computed in the network before.
SettlesRight == <>[](prog \in Arriving => Settled)

=============================================================================

---------------------------- MODULE ExampleSetup ----------------------------
(***************************************************************************)
(* How the examples lay out a network before it runs: where devices stand, *)
(* who holds which data, and which of them become senders and receivers    *)
(* (communication_roles_assignment.py, _example_utils.py, ex_utils).       *)
(* Points are pairs of integers and distances are squared.  A random draw  *)
(* is any point.                                                           *)
(***************************************************************************)
EXTENDS Integers, FiniteSets, FiniteSetsExt, Functions, Sequences

CONSTANTS
  Width, Height, \* the far corner of the square a device or a point is put in
  Comm2,        \* the square of COMM
  Devs,         \* the devices, ids from 0
  Threshold,    \* ISOLATION_THRESHOLD, in percent
  MaxPasses     \* MAX_MIGRATION_ITERS

ASSUME SetupGiven ==
  /\ Devs \subseteq Nat /\ IsFiniteSet(Devs)
  /\ {Width, Height, Comm2, Threshold, MaxPasses} \subseteq Nat

Spots == (0 .. Width) \X (0 .. Height)

Dist2(p, q) == (p[1] - q[1]) * (p[1] - q[1]) + (p[2] - q[2]) * (p[2] - q[2])

-----------------------------------------------------------------------------
(* Positions *)

\* rnd_in_area, build_positions: bounds the wrong way round are refused.
InArea(lo, hi) ==
  IF lo[1] > hi[1] \/ lo[2] > hi[2] THEN {}
  ELSE [Devs -> {p \in Spots : p[1] \in lo[1] .. hi[1] /\ p[2] \in lo[2] .. hi[2]}]

\* grid_in_area, row_major: the column and the row of each id, as fractions of
\* the sides of the area over the last column and the last row.
Columns(n)      == CHOOSE c \in 0 .. n : c * c >= n /\ \A d \in 0 .. c-1 : d * d < n
LastColumn(n)   == Max({Columns(n) - 1, 1})
LastRow(n)      == Max({(n - 1) \div Columns(n), 1})
Grid(n)         == [i \in 0 .. n-1 |-> <<i % Columns(n), i \div Columns(n)>>]

Neighbors(pos, n) == {m \in DOMAIN pos \ {n} : Dist2(pos[n], pos[m]) <= Comm2}
Isolated(pos)     == {n \in DOMAIN pos : Neighbors(pos, n) = {}}

\* One pass: the isolated devices are put somewhere else.
Moved(pos) ==
  {q \in [DOMAIN pos -> Spots] : \A n \in DOMAIN pos \ Isolated(pos) : q[n] = pos[n]}

TooIsolated(pos) == 100 * Cardinality(Isolated(pos)) > Threshold * Cardinality(DOMAIN pos)

\* _build_and_migrate_network: what may come out of the passes, each of which
\* looks at where the one before it has put the devices.
Pass(pos) == IF TooIsolated(pos) THEN Moved(pos) ELSE {pos}
Networks(passes) ==
  {run[passes] : run \in {r \in [0 .. passes -> [Devs -> Spots]] :
                            \A k \in 1 .. passes : r[k] \in Pass(r[k - 1])}}

-----------------------------------------------------------------------------
(* Roles *)

\* _place_points: each of `count' points is put within COMM of an anchor that no
\* point has yet, as long as there is one. A conflicting point is drawn again a few
\* times and then kept, so that any point in reach may be the one.
Placements(count, pos, locked) ==
  LET free == DOMAIN pos \ locked
      some == 1 .. Min({count, Cardinality(free)})
  IN  {[locked |-> locked \cup Range(ap[1]), points |-> ap[2]] :
         ap \in {x \in Injection(some, free) \X [some -> Spots] :
                   \A i \in some : Dist2(x[2][i], pos[x[1][i]]) <= Comm2}}

InReach(pos, point) == {n \in DOMAIN pos : Dist2(pos[n], point) < Comm2}
ClosestOf(S, pos, point) ==
  CHOOSE n \in S : \A m \in S : \/ Dist2(pos[n], point) < Dist2(pos[m], point)
                                \/ Dist2(pos[n], point) = Dist2(pos[m], point) /\ n <= m

\* The winners of each point's election.
Winners(points, pos, except) ==
  {ClosestOf(InReach(pos, p) \ except, pos, p) :
     p \in {q \in Range(points) : InReach(pos, q) \ except # {}}}

\* _assign_initial_roles. RolesOverwritten lets a receiver stand as a sender.
RolesOverwritten(pos, sinks, sources) ==
  LET receivers == Winners(sinks, pos, {})
      senders   == Winners(sources, pos, {})
  IN  [n \in DOMAIN pos |-> IF n \in senders THEN "SENDER"
                            ELSE IF n \in receivers THEN "RECEIVER" ELSE "REPEATER"]
Roles(pos, sinks, sources) ==
  LET receivers == Winners(sinks, pos, {})
      senders   == Winners(sources, pos, receivers)
  IN  [n \in DOMAIN pos |-> IF n \in senders THEN "SENDER"
                            ELSE IF n \in receivers THEN "RECEIVER" ELSE "REPEATER"]

\* _setup_network: more points than devices are refused.
Setups(sinks, sources) ==
  IF sinks + sources > Cardinality(Devs) THEN {}
  ELSE UNION {
    UNION {{[pos |-> pos, sinks |-> s.points, sources |-> t.points] :
              t \in Placements(sources, pos, s.locked)} : s \in Placements(sinks, pos, {})} :
    pos \in Networks(MaxPasses)}

-----------------------------------------------------------------------------
(* Data *)

\* rnd_vec, rnd_vec_variable, and their setters, one vector for each device.
Vectors(lengths, interval)       == UNION {[1 .. l -> interval] : l \in lengths}
WithVectors(lengths, interval)   == [Devs -> Vectors(lengths, interval)]

Gcd(a, b) == Max({d \in 1 .. Max({a, b}) : a % d = 0 /\ b % d = 0})

\* _coprime_neighbors and the two setters, ids alone and with their positions.
CoprimeNeighbors(pos, n) == {m \in Neighbors(pos, n) : Gcd(n, m) = 1}
CoprimeIds(pos)          == [n \in DOMAIN pos |-> CoprimeNeighbors(pos, n)]
CoprimePositions(pos)    == [n \in DOMAIN pos |-> [m \in CoprimeNeighbors(pos, n) |-> pos[m]]]

-----------------------------------------------------------------------------
(* Properties *)

\* A pass over the isolated devices isolates no other one, wherever they are put:
\* the loop never loses what it has gained.
MigrationKeeps(pos) == \A q \in Moved(pos) : Isolated(q) \subseteq Isolated(pos)

\* Who holds whose data is mutual, and device 0 shares with device 1 alone.
SharingMutual(pos) ==
  LET ids == CoprimeIds(pos) IN
  /\ \A n, m \in DOMAIN pos : m \in ids[n] <=> n \in ids[m]
  /\ 0 \in DOMAIN pos => ids[0] \subseteq {1}
  /\ \A n \in DOMAIN pos : \A m \in ids[n] : CoprimePositions(pos)[n][m] = pos[m]

\* With points for at most every device, every point finds an anchor; a sink that
\* a device can reach has a receiver at its nearest, which no source takes away; a
\* source has a sender unless those that reach it all receive.
RolesServe(s, sinks, sources) ==
  LET role == Roles(s.pos, s.sinks, s.sources)
      with(p, r) == \E n \in InReach(s.pos, p) : role[n] = r
  IN
  /\ Len(s.sinks) = sinks /\ Len(s.sources) = sources
  /\ \A p \in Range(s.sinks) : InReach(s.pos, p) # {} => with(p, "RECEIVER")
  /\ \A p \in Range(s.sources) :
       with(p, "SENDER") \/ \A n \in InReach(s.pos, p) : role[n] = "RECEIVER"

\* grid_in_area: every device has a place of its own inside the area.
GridApart(n) ==
  /\ \A i, j \in 0 .. n-1 : Grid(n)[i] = Grid(n)[j] => i = j
  /\ \A i \in 0 .. n-1 : Grid(n)[i][1] <= LastColumn(n) /\ Grid(n)[i][2] <= LastRow(n)

=============================================================================

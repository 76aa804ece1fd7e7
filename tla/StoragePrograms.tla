-------------------------- MODULE StoragePrograms ---------------------------
(***************************************************************************)
(* The compute() methods of the examples that ask each other for data:     *)
(* scattered_database, area_discovery and iteratively_area_discovery.  The *)
(* data a key stands for (a position, a polygon) is the key itself.  As    *)
(* scattered_database.py:181 has it, the value of a process that ended at  *)
(* a holder flows back through the devices that run it.                    *)
(***************************************************************************)
EXTENDS AggregateRound, Sequences

CONSTANTS
  QueryTimeout,   \* QUERY_TIMEOUT, scaled down; ages stop one above it
  Tiles,          \* the tile centres, numbers on a line
  ExploreTicks    \* EXPLORE_TICKS, scaled down

ASSUME QueriesBounded ==
  /\ QueryTimeout \in Nat /\ ExploreTicks \in Nat
  /\ Tiles \subseteq Nat /\ IsFiniteSet(Tiles)

None == -1
Known(db) == DOMAIN db
Put(db, k, v) == [x \in DOMAIN db \cup {k} |-> IF x = k THEN v ELSE db[x]]
Nothing == [x \in {} |-> None]

\* spawn with values: a process that ends at a holder shows its value there,
\* and the devices that run it show the values of their neighbours.
Shown(n, inner, ended, value(_)) ==
  {<<k, value(k)>> : k \in ended} \cup
  {a \in UNION {state[m].answers : m \in Hood(n)} : a[1] \in inner}

-----------------------------------------------------------------------------
(* scattered_database.py and area_discovery.py: one open query at a time.   *)
(* `counter' is what old() keeps; the state's age is reset with the target, *)
(* the counter only in a round that starts without a query.  An answer is   *)
(* stored in the round it arrives: answer_ready is never left TRUE.         *)

QueryInitial(db) ==
  [dist |-> Far, parent |-> -1, below |-> {}, counter |-> 0, procs |-> {}, answers |-> {},
   local_db |-> db, target |-> None, age |-> 0]

\* AcceptOwn takes any answer to the device, ExpiresNever and StillOpenAlways forget
\* the timeout.
AcceptOwn(n, shown)    == {a \in shown : a[1][1] = n}
AcceptTarget(n, shown) == {a \in shown : a[1][2] = state[n].target}
ExpiresNever(counter)  == FALSE
Expires(counter)       == counter > QueryTimeout

\* inTree(key, below): whether the routing set makes this device relay the key;
\* picks(db): what the device may ask for next, {None} if it lacks nothing.
Query(n, inTree(_, _), picks(_)) ==
  LET s     == state[n]
      dist  == Gradient(n = 0, Field("dist"), n)
      below == {n} \cup UNION {state[m].below : m \in Children(n, Field("parent"))}
      asks  == s.target # None
      counter == IF asks THEN Min({s.counter, QueryTimeout}) + 1 ELSE 0
      asked == Asked(n, IF asks THEN {<<n, s.target>>} ELSE {}, Field("procs"))
      ended == {k \in asked : k[2] \in Known(s.local_db)}
      inner == {k \in asked \ ended : inTree(k, below)}
      shown == Shown(n, inner, ended, LAMBDA k : s.local_db[k[2]])
      found == IF asks THEN AcceptTarget(n, shown) ELSE {}
      db    == IF found = {} THEN s.local_db
               ELSE Put(s.local_db, s.target, (CHOOSE a \in found : TRUE)[2])
      idle  == ~asks \/ found # {} \/ Expires(counter)
  IN  {[dist |-> dist, parent |-> Parent(n, dist, Field("dist")), below |-> below,
        counter |-> counter, procs |-> inner, answers |-> shown, local_db |-> db,
        target |-> target, age |-> IF idle THEN 0 ELSE counter] :
         target \in IF idle THEN picks(db) ELSE {s.target}}

\* The least id the device lacks.
ScatteredDatabase(n) ==
  Query(n, LAMBDA k, below : {k[1], k[2]} \cap below # {},
           LAMBDA db : LET lacks == Nodes \ (Known(db) \cup {n})
                       IN  IF lacks = {} THEN {None} ELSE {Min(lacks)})

\* The set of the neighbours' tiles is iterated in its own order, the same in every
\* round, and the first tile the device lacks is taken: None where a neighbour
\* without a tile comes first. The routing set holds devices and a target is a
\* tile, so that only the requester's place in it counts.
Before(t, u)  == input.rank[t] <= input.rank[u]
TilesNear(n)  == {input.tile[m] : m \in Hood(n)}
FirstLacking(n, db) ==
  LET lacks == TilesNear(n) \ Known(db) IN {t \in lacks : \A u \in lacks : Before(t, u)}
AreaDiscovery(n) ==
  Query(n, LAMBDA k, below : k[1] \in below,
           LAMBDA db : IF FirstLacking(n, db) = {} THEN {None} ELSE FirstLacking(n, db))

-----------------------------------------------------------------------------
(* iteratively_area_discovery.py: devices and tiles stand on a line, half a *)
(* tile is the distance below which a device is at a tile.                  *)

IterInitial(n) ==
  [at |-> input[n].at, local_db |-> input[n].tiles, assignment_db |-> Nothing, my_tile |-> None,
   ticks |-> 0, pending |-> <<>>, status |-> "SEEKING", dist_to_best |-> Far,
   procs |-> {}, answers |-> {}]

Away(p, t) == IF p < t THEN t - p ELSE p - t
Closest(p, S) == CHOOSE t \in S : \A u \in S : Away(p, t) <= Away(p, u)
Tile(q) == q[1]
Pending(s) == {Tile(s.pending[i]) : i \in DOMAIN s.pending}

\* Step 1: the tile this device would take, and how far it is.
Unqueried(s)     == s.local_db \ (Known(s.assignment_db) \cup Pending(s))
BestCandidate(s) == IF s.status = "SEEKING" /\ Unqueried(s) # {}
                    THEN Closest(s.at, Unqueried(s)) ELSE None
DistToBest(s)    == IF BestCandidate(s) = None THEN Far ELSE Away(s.at, BestCandidate(s))
NearestSeeker(n) == Min({DistToBest(state[n])} \cup {state[m].dist_to_best : m \in Hood(n)})

\* Step 2: the query for the first pending tile; every device relays it.
Queried(n) ==
  LET s     == state[n]
      asked == Asked(n, IF s.pending = <<>> THEN {} ELSE {<<n, Tile(s.pending[1])>>}, Field("procs"))
      ended == {k \in asked : k[2] \in Known(s.assignment_db)}
  IN  [procs |-> asked \ ended,
       shown |-> Shown(n, asked \ ended, ended, LAMBDA k : s.assignment_db[k[2]])]

\* Steps 3 and 6: a claim is announced when the tile is not yet in the
\* device's own assignments; the process ends where it starts.
JustClaimed(s) == s.status = "MOVING" /\ s.my_tile # None /\ s.my_tile \notin Known(s.assignment_db)
Assigned(n, s) == IF JustClaimed(s) THEN Put(s.assignment_db, s.my_tile, n) ELSE s.assignment_db

\* Step 7: queries that are neither answered nor too old, one round older.
Aged(s)          == [i \in DOMAIN s.pending |-> <<Tile(s.pending[i]), s.pending[i][2] + 1>>]
TimedOut(s, db)  == {Tile(q) : q \in {r \in Range(Aged(s)) : r[2] > QueryTimeout /\ Tile(r) \notin Known(db)}}
StillOpenAlways(s, db) == SelectSeq(Aged(s), LAMBDA q : Tile(q) \notin Known(db))
StillOpen(s, db) == SelectSeq(Aged(s), LAMBDA q : q[2] <= QueryTimeout /\ Tile(q) \notin Known(db))

\* Step 8: the answers to any query of any device.
Learned(db, shown) ==
  LET new == {a \in shown : a[1][2] \notin Known(db)}
      value(t) == (CHOOSE a \in new : a[1][2] = t)[2]
  IN  [t \in Known(db) \cup {a[1][2] : a \in new} |-> IF t \in Known(db) THEN db[t] ELSE value(t)]

\* Step 9: SEEKING. The tile that is claimed must be a candidate and one
\* whose query has timed out.
Claimable(s, out)      == {BestCandidate(s)} \cap (out \ {None})
Firsts(S) == {q \in [1 .. Min({3, Cardinality(S)}) -> S] : IsInjective(q)}

Seek(n, s, db, out, open) ==
  LET take   == Claimable(s, out)
      wins   == take # {} /\ DistToBest(s) <= NearestSeeker(n)
      tile   == Closest(s.at, take)
      claims == IF wins THEN Put(db, tile, n) ELSE db
      done   == s.local_db # {} /\ s.local_db \subseteq Known(claims)
  IN  {[s EXCEPT !.assignment_db = claims,
                 !.my_tile = IF wins THEN tile ELSE @,
                 !.status  = IF done THEN "DONE" ELSE IF wins THEN "MOVING" ELSE @,
                 !.pending = open \o more,
                 !.ticks   = 0] :
         more \in IF out = {} THEN {[i \in DOMAIN q |-> <<q[i], 0>>] : q \in Firsts(Unqueried(s))}
                  ELSE {<<>>}}

\* Steps 4 and 5: exploring_ticks, and one step towards the tile.
Step(p, t) == IF p < t THEN p + 1 ELSE IF p > t THEN p - 1 ELSE p

IterArea(n) ==
  LET s     == state[n]
      query == Queried(n)
      known == Assigned(n, s)
      db    == Learned(known, query.shown)
      out   == TimedOut(s, known)
      open  == StillOpen(s, known)
      ticks == IF s.status = "EXPLORING" THEN s.ticks + 1 ELSE 0
      at    == IF s.status = "MOVING" THEN Step(s.at, s.my_tile) ELSE s.at
      kept  == [s EXCEPT !.assignment_db = db, !.pending = open, !.at = at]
      next  == CASE s.status = "SEEKING" -> Seek(n, [s EXCEPT !.at = at], db, out, open)
                 [] s.status = "MOVING" ->
                      {[kept EXCEPT !.status = IF at = s.my_tile THEN "EXPLORING" ELSE @, !.ticks = 0]}
                 [] s.status = "EXPLORING" /\ ticks >= ExploreTicks ->
                      {[kept EXCEPT !.local_db = @ \cup {s.my_tile}, !.my_tile = None,
                                    !.status = "SEEKING", !.ticks = 0]}
                 [] s.status = "EXPLORING" /\ ticks < ExploreTicks -> {[kept EXCEPT !.ticks = ticks]}
                 [] s.status = "DONE" -> {[kept EXCEPT !.ticks = 0]}
  IN  {[t EXCEPT !.dist_to_best = DistToBest(s), !.procs = query.procs, !.answers = query.shown] :
         t \in next}

-----------------------------------------------------------------------------
(* Where the programs should arrive, and what devices may know. *)

\* Every id is learnt up to the first one that no connected device holds.
ScatteredSettled ==
  \A n \in Nodes :
    LET held == UNION {Known(state[m].local_db) : m \in Component(n)}
        lost == Nodes \ held
    IN  {i \in Nodes \ {n} : i \in held /\ \A j \in lost : i < j} \subseteq Known(state[n].local_db)

\* A device knows its neighbours' tiles, but for those that the iteration comes to
\* only after a neighbour without a tile: it asks for None, which is no query, in
\* every round.
AreaSettled ==
  \A n \in Nodes : \A t \in TilesNear(n) \ {None} :
    t \in Known(state[n].local_db) \/ (None \in TilesNear(n) /\ Before(None, t))

NothingClaimed ==
  \A n \in Nodes : state[n].status = "SEEKING" /\ state[n].assignment_db = Nothing

DataTrue == \A n \in Nodes : \A k \in Known(state[n].local_db) : state[n].local_db[k] = k

=============================================================================

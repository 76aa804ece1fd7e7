--------------------------- MODULE AggregateRound ---------------------------
(***************************************************************************)
(* The rounds of an aggregate program: what FCPP does with the compute()   *)
(* method of an example.  Every device keeps a state and, whenever it      *)
(* fires, computes the next one from its own and from what the devices in  *)
(* radio range have exported last.  Devices fire in any order and at any   *)
(* rate, and moving devices gain and lose links.  The FCPP library is not  *)
(* in the repository: its primitives are modelled from how the examples    *)
(* use them and from claude_code/skills/fcpp-library.md, distances in      *)
(* hops.  A device's state holds what it exports; a device that has not    *)
(* fired yet exports its initial state.                                    *)
(***************************************************************************)
EXTENDS Integers, FiniteSets, FiniteSetsExt, Functions

CONSTANTS
  N,            \* there are at most N devices, 0, 1, ...
  Far,          \* hop distances from here on stand for infinity
  MaxMoves      \* bound: how often a link appears or disappears

ASSUME SizesAreNatural ==
  /\ N \in Nat \ {0} /\ Far \in Nat /\ MaxMoves \in Nat
  /\ Far >= N

VARIABLES
  links,        \* the pairs of devices in radio range of each other
  state,        \* what each device keeps and exports
  input,        \* what the setup gave each device
  moves         \* the number of link changes so far

Nodes == DOMAIN state
Pairs(S) == {{a, b} : a, b \in S} \ {{a} : a \in S}

Hood(n) == {m \in Nodes : {m, n} \in links}
CountHood(n) == Cardinality(Hood(n)) + 1
Values(n) == {state[m] : m \in Hood(n)}
Field(f) == [m \in Nodes |-> state[m][f]]

\* A device moves so that one link appears or disappears.
Move ==
  /\ moves < MaxMoves
  /\ moves' = moves + 1
  /\ \E l \in Pairs(Nodes) : links' = (links \ {l}) \cup ({l} \ links)
  /\ UNCHANGED <<state, input>>

-----------------------------------------------------------------------------
(* Primitives *)

Capped(d) == IF d < Far THEN d ELSE Far

\* abf_distance, bis_distance: hops to the nearest source. GradientSticky never
\* grows.
GradientSticky(source, dist, n) ==
  IF source THEN 0 ELSE Capped(Min({dist[n]} \cup {dist[m] + 1 : m \in Hood(n)}))
Gradient(source, dist, n) ==
  IF source THEN 0 ELSE Capped(Min({Far} \cup {dist[m] + 1 : m \in Hood(n)}))

\* min_hood of (distance, uid): the nearest of some devices.
Nearest(S, dist) ==
  CHOOSE m \in S : \A k \in S : dist[m] < dist[k] \/ (dist[m] = dist[k] /\ m <= k)

Nearer(n, d, dist) == {m \in Hood(n) : dist[m] < d}

\* broadcast: the value of the nearest neighbour, or one's own at a source.
Broadcast(n, d, own, dist, value) ==
  LET up == Nearer(n, d, dist) IN IF up = {} THEN own ELSE value[Nearest(up, dist)]

\* The neighbour that a device's part of a collection is sent to (-1: none).
Parent(n, d, dist) ==
  LET up == Nearer(n, d, dist) IN IF up = {} THEN -1 ELSE Nearest(up, dist)

\* sp_collection: the parts of the neighbours that chose this device.
Children(n, parent) == {m \in Hood(n) : parent[m] = n}

\* mp_collection, wmp_collection: the neighbours further from the source, each
\* of which divides its part among those nearer to it.
Above(n, d, dist) == {m \in Hood(n) : dist[m] > d}
Total(S, part(_)) == FoldSet(LAMBDA m, t : t + part(m), 0, S)

\* spawn: the keys a device is asked to run: its own and those its neighbours
\* run. Terminated and border devices do not hand a key on.
Asked(n, new, procs) == new \cup procs[n] \cup UNION {procs[m] : m \in Hood(n)}

-----------------------------------------------------------------------------
(* What the primitives should arrive at, for the properties. *)

HopsFrom(s) ==
  LET Spread(ball, k) == ball \cup UNION {Hood(m) : m \in ball}
      balls == [k \in 0 .. Cardinality(Nodes) |-> FoldSet(LAMBDA i, b : Spread(b, i), {s}, 1 .. k)]
  IN  [n \in Nodes |-> Min({Far} \cup {k \in DOMAIN balls : n \in balls[k]})]
Component(s) == LET hops == HopsFrom(s) IN {n \in Nodes : hops[n] < Far}
Eccentricity(s) == Max(Range(HopsFrom(s)) \ {Far})

=============================================================================

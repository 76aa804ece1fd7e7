---------------------------- MODULE TileGeometry -----------------------------
(***************************************************************************)
(* Tiles of a rectangular area and the clipping of polygons                *)
(* (examples/ex_utils/tiles.py).  A point <<x, y, d>> is (x/d, y/d), d > 0,*)
(* which keeps the intersections exact; the code's tolerances, 1e-9 and    *)
(* 1e-12, are left out.  Lengths are integers, cells even.                 *)
(***************************************************************************)
EXTENDS Integers, FiniteSets, FiniteSetsExt, Functions, Sequences, SequencesExt

At(x, y) == <<x, y, 1>>

\* _inside: how far a point is to the left of an edge, times d; edges are of
\* polygons with d = 1.
Side(p, a, b) == (b[1] - a[1]) * (p[2] - a[2] * p[3]) - (b[2] - a[2]) * (p[1] - a[1] * p[3])
InsideOpen(p, a, b) == Side(p, a, b) > 0
Inside(p, a, b)     == Side(p, a, b) >= 0

\* The same point with the least denominator.
Reduced(p) ==
  LET k == Max({g \in 1 .. p[3] : \A i \in 1 .. 3 : p[i] % g = 0})
  IN  <<p[1] \div k, p[2] \div k, p[3] \div k>>

\* _line_intersection of p-q with the line a-b; never asked of parallels, since
\* one of p and q is inside and the other is not.
Crossing(p, q, a, b) ==
  LET s == Side(p, a, b)
      t == Side(q, a, b)
      sign == IF s * q[3] - t * p[3] < 0 THEN -1 ELSE 1
  IN  Reduced([i \in 1 .. 3 |-> sign * (s * q[i] - t * p[i])])

\* What a vertex and the one before it leave of a polygon at an edge.
Kept(previous, current, a, b) ==
  (IF Inside(previous, a, b) # Inside(current, a, b)
   THEN <<Crossing(previous, current, a, b)>> ELSE <<>>)
  \o (IF Inside(current, a, b) THEN <<current>> ELSE <<>>)

ClipAtEdge(polygon, a, b) ==
  FlattenSeq([j \in DOMAIN polygon |->
    Kept(polygon[IF j = 1 THEN Len(polygon) ELSE j - 1], polygon[j], a, b)])

\* clip_polygon_to_polygon; ClipButLast forgets the edge back to the start.
ClipButLast(subject, clip) ==
  FoldLeft(LAMBDA out, i : ClipAtEdge(out, clip[i], clip[i + 1]),
           subject, [i \in 1 .. Len(clip) - 1 |-> i])
ClipPolygon(subject, clip) ==
  IF subject = <<>> \/ clip = <<>> THEN <<>>
  ELSE FoldLeft(LAMBDA out, i : ClipAtEdge(out, clip[i], clip[(i % Len(clip)) + 1]),
                subject, [i \in DOMAIN clip |-> i])

\* An area is <<xmin, ymin, xmax, ymax>>.
Rectangle(area) ==
  <<At(area[1], area[2]), At(area[3], area[2]), At(area[3], area[4]), At(area[1], area[4])>>
ClipRect(polygon, area) == ClipPolygon(polygon, Rectangle(area))

\* grid_tile_centers; an id is the place in the column-wise order.
Centers(from, to, cell) == {c \in from .. to : (c - from) % cell = cell \div 2}
TileCenters(area, cell) == Centers(area[1], area[3], cell) \X Centers(area[2], area[4], cell)

NearestTile(p, centers) ==
  LET far(c) == (p[1] - c[1]) * (p[1] - c[1]) + (p[2] - c[2]) * (p[2] - c[2]) IN
  CHOOSE c \in centers : \A e \in centers :
    far(c) < far(e) \/ (far(c) = far(e) /\ (c[1] < e[1] \/ (c[1] = e[1] /\ c[2] <= e[2])))

\* compute_tile_shapes
TileShape(center, area, cell) ==
  LET half    == cell \div 2
      square  == Rectangle(<<center[1] - half, center[2] - half, center[1] + half, center[2] + half>>)
      clipped == ClipRect(square, area)
  IN  IF clipped = <<>> THEN square ELSE clipped

-----------------------------------------------------------------------------
(* Properties *)

\* A point is in a convex polygon: on or left of each edge. Edges of a clipped
\* polygon have denominators of their own.
LeftOf(p, a, b) ==
  LET ex == b[1] * a[3] - a[1] * b[3]
      ey == b[2] * a[3] - a[2] * b[3]
  IN  ex * (p[2] * a[3] - a[2] * p[3]) - ey * (p[1] * a[3] - a[1] * p[3]) >= 0
Within(p, polygon) ==
  polygon # <<>> /\ \A i \in DOMAIN polygon : LeftOf(p, polygon[i], polygon[(i % Len(polygon)) + 1])

\* What remains of a convex polygon lies in both, and holds every point of both.
ClipIsIntersection(subject, clip, points) ==
  LET out == ClipPolygon(subject, clip) IN
  /\ \A i \in DOMAIN out : Within(out[i], subject) /\ Within(out[i], clip)
  /\ \A p \in points : Within(p, subject) /\ Within(p, clip) => Within(p, out)

\* Every point of the area is in the tile it is nearest to, unless it is in none:
\* the strip that is left when half a cell or more does not fit.
TilesPartition(area, cell) ==
  LET centers == TileCenters(area, cell)
      strip(p) == \/ p[1] > Max(Centers(area[1], area[3], cell)) + cell \div 2
                  \/ p[2] > Max(Centers(area[2], area[4], cell)) + cell \div 2
  IN  centers # {} =>
        \A p \in {At(x, y) : x \in area[1] .. area[3], y \in area[2] .. area[4]} :
          LET shape == TileShape(NearestTile(p, centers), area, cell) IN
          /\ Within(p, shape) <=> ~strip(p)
          /\ \A i \in DOMAIN shape : Within(shape[i], Rectangle(area))

=============================================================================

--------------------------------- MODULE Boxes ---------------------------------
(***************************************************************************)
(* Rectangles, tiles and letterboxes: packages/common/bbox_ops.py,         *)
(* tiling.py, letterbox.py and image_resize.py.  A coordinate is an        *)
(* integer that counts a fixed fraction of a pixel, and a ratio of sizes   *)
(* or areas is compared by cross-multiplication, so nothing is rounded     *)
(* that the code does not round, provided the sizes of an instance divide  *)
(* evenly (Scaled).  A box is [x1, y1, x2, y2]; a size is <<w, h>>; a      *)
(* threshold is a fraction <<n, d>>.                                       *)
(*                                                                         *)
(* An operator whose name ends in _Bug is the definition that follows it   *)
(* with one mistake, used only by the project's mutation runs.             *)
(***************************************************************************)
EXTENDS Integers, Sequences

Larger(a, b) == IF a >= b THEN a ELSE b
Smaller(a, b) == IF a <= b THEN a ELSE b
Box(x1, y1, x2, y2) == [x1 |-> x1, y1 |-> y1, x2 |-> x2, y2 |-> y2]

\* A ratio n/d has reached the threshold t; a zero denominator is no ratio.
AtLeast(n, d, t) == d > 0 /\ n * t[2] >= t[1] * d
Above(n, d, t) == d > 0 /\ n * t[2] > t[1] * d

-----------------------------------------------------------------------------
(* bbox_ops.py *)
Width(b) == Larger(0, b.x2 - b.x1)
Height(b) == Larger(0, b.y2 - b.y1)
Area(b) == Width(b) * Height(b)

Clip(b, size) ==
  LET Within(v, top) == Larger(0, Smaller(v, top)) IN
  Box(Within(b.x1, size[1]), Within(b.y1, size[2]),
      Within(b.x2, size[1]), Within(b.y2, size[2]))

Translate(b, dx, dy) == Box(b.x1 + dx, b.y1 + dy, b.x2 + dx, b.y2 + dy)

\* Boxes that only touch have an intersection without area (None in the code).
Common(a, b) ==
  Box(Larger(a.x1, b.x1), Larger(a.y1, b.y1), Smaller(a.x2, b.x2), Smaller(a.y2, b.y2))
Meet(a, b) == Area(Common(a, b)) > 0

UnionArea(a, b) == Area(a) + Area(b) - Area(Common(a, b))
IoUAtLeast(a, b, t) == AtLeast(Area(Common(a, b)), UnionArea(a, b), t)
IoUAbove(a, b, t) == Above(Area(Common(a, b)), UnionArea(a, b), t)

Inside(a, b) == a.x1 >= b.x1 /\ a.y1 >= b.y1 /\ a.x2 <= b.x2 /\ a.y2 <= b.y2

\* v * to / from, for sizes that divide evenly.
Scaled(v, to, from) == (v * to) \div from
Resize(b, to, from) ==
  Box(Scaled(b.x1, to[1], from[1]), Scaled(b.y1, to[2], from[2]),
      Scaled(b.x2, to[1], from[1]), Scaled(b.y2, to[2], from[2]))

\* The label of one tile: the part of the scaled box inside the tile, in the
\* coordinates of the tile, if enough of the box is visible.
TileBox(offset, tile) == Box(offset[1], offset[2], offset[1] + tile, offset[2] + tile)
Visible(b, offset, tile, threshold, pixel) ==
  LET inter == Common(b, TileBox(offset, tile)) IN
  AtLeast(Area(inter), Area(b), threshold) /\ Area(inter) >= pixel
InTile(b, offset, tile) ==
  Clip(Translate(Common(b, TileBox(offset, tile)), -offset[1], -offset[2]), <<tile, tile>>)

-----------------------------------------------------------------------------
(* tiling.py: where the tiles of one axis start. *)
AxisPositions_Bug(length, crop, stride, edge) ==
  IF length <= crop THEN {0}
  ELSE {k * stride : k \in 0..((length - crop) \div stride)}
AxisPositions(length, crop, stride, edge) ==
  IF length <= crop THEN {0}
  ELSE {k * stride : k \in 0..((length - crop) \div stride)}
         \cup (IF edge THEN {length - crop} ELSE {})

\* Row by row, as generate_tiles numbers them; a tile that the image does not
\* fill is padded on the right and at the bottom.
Tiles(size, crop, stride, edge) ==
  LET xs == SelectSeq([i \in 1..size[1] |-> i - 1],
                      LAMBDA x : x \in AxisPositions(size[1], crop, stride, edge))
      ys == SelectSeq([i \in 1..size[2] |-> i - 1],
                      LAMBDA y : y \in AxisPositions(size[2], crop, stride, edge))
  IN [k \in 1..(Len(xs) * Len(ys)) |->
        LET x == xs[((k - 1) % Len(xs)) + 1]
            y == ys[((k - 1) \div Len(xs)) + 1]
        IN [offset |-> <<x, y>>,
            size |-> <<Smaller(crop, size[1] - x), Smaller(crop, size[2] - y)>>]]

-----------------------------------------------------------------------------
(* letterbox.py: scale by the smaller ratio, centre on a square canvas. *)
HalfToEven(n, d) ==
  LET q == n \div d
      r == 2 * (n % d)
  IN IF r > d \/ (r = d /\ q % 2 = 1) THEN q + 1 ELSE q

\* scale is target / longest side, kept as the pair of the two.
Letterbox(size, target) ==
  LET longest == Larger(size[1], size[2])
      new(side) == Larger(1, HalfToEven(side * target, longest))
  IN [to |-> target, from |-> longest,
      new |-> <<new(size[1]), new(size[2])>>,
      pad |-> <<(target - new(size[1])) \div 2, (target - new(size[2])) \div 2>>]

\* unit: how many coordinate units make a pixel (the padding is in pixels).
LetterboxToSource(b, t, unit) ==
  Resize(Translate(b, -unit * t.pad[1], -unit * t.pad[2]), <<t.from, t.from>>, <<t.to, t.to>>)
SourceToLetterbox(b, t, unit) ==
  Translate(Resize(b, <<t.to, t.to>>, <<t.from, t.from>>), unit * t.pad[1], unit * t.pad[2])
=============================================================================

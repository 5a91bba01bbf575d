------------------------------ MODULE BoxesProofs ------------------------------
(***************************************************************************)
(* The tiles of an axis cover it, lie on it, and show every short object   *)
(* whole, for every length, crop and stride.                               *)
(***************************************************************************)
EXTENDS Boxes, TLAPS

\* The division that counts the strides.
LEMMA Strides ==
  ASSUME NEW x \in Nat, NEW s \in Nat \ {0}
  PROVE  x \div s \in Nat /\ (x \div s) * s <= x /\ x < (x \div s) * s + s
OBVIOUS

LEMMA MoreStrides ==
  ASSUME NEW x \in Nat, NEW y \in Nat, x <= y, NEW s \in Nat \ {0}
  PROVE  x \div s <= y \div s
OBVIOUS

\* Products keep the order.
LEMMA Times ==
  ASSUME NEW u \in Nat, NEW a \in Int, NEW b \in Int, a <= b
  PROVE  u * a <= u * b
OBVIOUS

\* Every tile starts on the axis, and none but the only one of a short axis
\* reaches beyond its end: the padding is there only (tiling.py:69-83, 91-105).
THEOREM TilesInside ==
  ASSUME NEW length \in Nat \ {0}, NEW crop \in Nat \ {0}, NEW stride \in Nat \ {0}, NEW edge \in BOOLEAN,
         NEW p \in AxisPositions(length, crop, stride, edge)
  PROVE  /\ p \in Nat /\ p < length
         /\ p + crop <= length \/ (p = 0 /\ length < crop)
<1>1. CASE length <= crop
  BY <1>1 DEF AxisPositions
<1>2. CASE length > crop
  <2>1. CASE p = length - crop
    BY <1>2, <2>1
  <2>2. CASE \E k \in 0..((length - crop) \div stride) : p = k * stride
    <3>1. PICK k \in 0..((length - crop) \div stride) : p = k * stride
      BY <2>2
    <3>2. (length - crop) \div stride \in Nat /\ ((length - crop) \div stride) * stride <= length - crop
      BY <1>2, Strides
    <3>3. p \in Nat /\ p <= ((length - crop) \div stride) * stride
      BY <3>1, <3>2
    <3> QED
      BY <1>2, <3>2, <3>3
  <2> QED
    BY <1>2, <2>1, <2>2 DEF AxisPositions
<1> QED
  BY <1>1, <1>2

\* The positions with the last tile pinned to the end of the axis.
Pinned(length, crop, stride) == AxisPositions(length, crop, stride, TRUE)

\* Which positions there are, the last one pinned to the end.
LEMMA Positions ==
  ASSUME NEW length \in Nat \ {0}, NEW crop \in Nat \ {0}, NEW stride \in Nat \ {0}
  PROVE  /\ length <= crop => 0 \in Pinned(length, crop, stride)
         /\ length > crop => length - crop \in Pinned(length, crop, stride)
         /\ length > crop => \A k \in 0..((length - crop) \div stride) :
                               k * stride \in Pinned(length, crop, stride)
<1>1. ASSUME length > crop
      PROVE  Pinned(length, crop, stride)
               = {k * stride : k \in 0..((length - crop) \div stride)} \cup {length - crop}
  <2>1. ~(length <= crop)
    BY <1>1
  <2> QED
    BY <2>1, Zenon DEF Pinned, AxisPositions
<1>2. ASSUME length <= crop PROVE Pinned(length, crop, stride) = {0}
  BY <1>2, Zenon DEF Pinned, AxisPositions
<1>3. ASSUME length > crop, NEW k \in 0..((length - crop) \div stride)
      PROVE  k * stride \in Pinned(length, crop, stride)
  BY <1>1, <1>3, Zenon
<1> QED
  BY <1>1, <1>2, <1>3, Zenon

\* A multiple of the stride that leaves room for a tile is one of them.
LEMMA Multiples ==
  ASSUME NEW length \in Nat \ {0}, NEW crop \in Nat \ {0}, NEW stride \in Nat \ {0},
         NEW k \in Nat, length > crop, k * stride <= length - crop
  PROVE  k * stride \in Pinned(length, crop, stride)
<1> DEFINE last == length - crop
           n == last \div stride
<1>1. n \in Nat /\ last < n * stride + stride /\ last \in Nat
  BY Strides
<1>2. k * stride < (n + 1) * stride
  <2>1. (n + 1) * stride = n * stride + stride
    BY <1>1
  <2> QED
    BY <1>1, <2>1
<1>3. k <= n
  <2> HIDE DEF n
  <2> SUFFICES ASSUME n + 1 <= k PROVE FALSE
    BY <1>1
  <2>1. stride * (n + 1) <= stride * k
    BY <1>1, Times
  <2> QED
    BY <1>1, <1>2, <2>1
<1>4. k \in 0..n
  BY <1>1, <1>3
<1> QED
  BY <1>4, Positions, Zenon

\* A stretch of the axis, in fractions of a pixel, that is no longer than what
\* two neighbouring tiles share lies whole in one tile, up to the last pixel,
\* if the last tile is pinned to the end (tiling.py:45-105).
THEOREM StretchInOneTile ==
  ASSUME NEW length \in Nat \ {0}, NEW crop \in Nat \ {0}, NEW stride \in Nat \ {0}, stride <= crop,
         NEW unit \in Nat \ {0}, NEW a \in Nat, NEW b \in Nat, a <= b, b <= unit * length,
         b - a <= unit * (crop - stride)
  PROVE  \E p \in Pinned(length, crop, stride) : unit * p <= a /\ b <= unit * (p + crop)
<1>1. CASE length <= crop
  <2>1. unit * length <= unit * crop
    BY <1>1, Times
  <2>2. unit * 0 <= a /\ b <= unit * (0 + crop)
    BY <2>1
  <2> QED
    BY <1>1, <2>2, Positions
<1>2. CASE length > crop
  <2> DEFINE step == unit * stride
             k == a \div step
             p == k * stride
             last == length - crop
  <2>1. step \in Nat \ {0} /\ last \in Nat /\ unit * last + unit * crop = unit * length
    BY <1>2
  <2>2. k \in Nat /\ k * step <= a /\ a < k * step + step
    BY <2>1, Strides
  <2>3. k * step = unit * p /\ p \in Nat
    BY <2>2
  <2> HIDE DEF k
  <2>4. CASE p <= last
    <3>1. p \in Pinned(length, crop, stride)
      BY <1>2, <2>2, <2>4, Multiples
    <3>2. step + unit * (crop - stride) = unit * crop /\ unit * (p + crop) = unit * p + unit * crop
      BY <2>3
    <3> HIDE DEF p, step
    <3>3. unit * p <= a /\ b <= unit * (p + crop)
      BY <2>1, <2>2, <2>3, <3>2
    <3> QED
      BY <3>1, <3>3
  <2>5. CASE p > last
    <3>1. last \in Pinned(length, crop, stride)
      BY <1>2, Positions
    <3>2. unit * last <= unit * p
      BY <2>1, <2>3, <2>5, Times
    <3>3. last + crop = length
      BY <1>2
    <3> HIDE DEF p, step, last
    <3>4. unit * last <= a /\ b <= unit * (last + crop)
      BY <2>1, <2>2, <2>3, <3>2, <3>3
    <3> QED
      BY <3>1, <3>4
  <2> QED
    BY <2>1, <2>3, <2>4, <2>5
<1> QED
  BY <1>1, <1>2

\* No pixel is missed: neighbouring tiles leave no gap as long as the stride
\* is no longer than a tile (tiling.py:45-105).
THEOREM TilesCover ==
  ASSUME NEW length \in Nat \ {0}, NEW crop \in Nat \ {0}, NEW stride \in Nat \ {0}, stride <= crop,
         NEW x \in 0..(length - 1)
  PROVE  \E p \in Pinned(length, crop, stride) : p <= x /\ x < p + crop
<1>1. CASE length <= crop
  <2>1. 0 <= x /\ x < 0 + crop
    BY <1>1
  <2> QED
    BY <1>1, <2>1, Positions
<1>2. CASE length > crop
  <2> DEFINE last == length - crop
             k == x \div stride
             p == k * stride
  <2>1. k \in Nat /\ p <= x /\ x < p + stride /\ p \in Nat
    BY Strides
  <2> HIDE DEF k
  <2>2. CASE x <= last
    <3>1. p \in Pinned(length, crop, stride)
      BY <1>2, <2>1, <2>2, Multiples
    <3> HIDE DEF p
    <3>2. p <= x /\ x < p + crop
      BY <2>1
    <3> QED
      BY <3>1, <3>2
  <2>3. CASE x > last
    <3>1. last \in Pinned(length, crop, stride)
      BY <1>2, Positions
    <3>2. last <= x /\ x < last + crop
      BY <1>2, <2>3
    <3> QED
      BY <3>1, <3>2
  <2>4. x \in Int /\ last \in Int
    OBVIOUS
  <2> QED
    BY <2>2, <2>3, <2>4
<1> QED
  BY <1>1, <1>2

LEMMA PinnedInside ==
  ASSUME NEW length \in Nat \ {0}, NEW crop \in Nat \ {0}, NEW stride \in Nat \ {0},
         NEW p \in Pinned(length, crop, stride)
  PROVE  p \in Nat
<1>1. p \in AxisPositions(length, crop, stride, TRUE)
  BY Zenon DEF Pinned
<1> QED
  BY <1>1, TilesInside, Zenon

\* An object no larger than the overlap of two tiles is labelled in some tile,
\* whatever part n/d of it a label must show, and the label is the whole object
\* (tiling.py:45-105, enrich.py:250-270).
THEOREM SmallObjectWhole ==
  ASSUME NEW w \in Nat \ {0}, NEW h \in Nat \ {0}, NEW crop \in Nat \ {0}, NEW stride \in Nat \ {0},
         stride <= crop, NEW unit \in Nat \ {0},
         NEW x1 \in Nat, NEW y1 \in Nat, NEW x2 \in Nat, NEW y2 \in Nat,
         x1 < x2, y1 < y2, x2 <= unit * w, y2 <= unit * h,
         x2 - x1 <= unit * (crop - stride), y2 - y1 <= unit * (crop - stride),
         NEW n \in Nat, NEW d \in Nat \ {0}, n <= d, NEW pixel \in Nat, Area(Box(x1, y1, x2, y2)) >= pixel
  PROVE  \E p \in Pinned(w, crop, stride), q \in Pinned(h, crop, stride) :
           LET b == Box(x1, y1, x2, y2)
               offset == <<unit * p, unit * q>>
           IN /\ Inside(b, TileBox(offset, unit * crop))
              /\ Visible(b, offset, unit * crop, <<n, d>>, pixel)
              /\ InTile(b, offset, unit * crop) = Translate(b, -offset[1], -offset[2])
<1>0. x1 <= x2 /\ y1 <= y2
  OBVIOUS
<1>1. PICK p \in Pinned(w, crop, stride) : unit * p <= x1 /\ x2 <= unit * (p + crop)
  BY <1>0, StretchInOneTile, Zenon
<1>2. PICK q \in Pinned(h, crop, stride) : unit * q <= y1 /\ y2 <= unit * (q + crop)
  BY <1>0, StretchInOneTile, Zenon
<1>3. p \in Nat /\ q \in Nat
  BY PinnedInside
<1> DEFINE u == unit * p
           v == unit * q
           c == unit * crop
           b == Box(x1, y1, x2, y2)
<1>4. u \in Nat /\ v \in Nat /\ c \in Nat /\ x2 <= u + c /\ y2 <= v + c /\ u <= x1 /\ v <= y1
  BY <1>1, <1>2, <1>3
<1> HIDE DEF u, v, c
<1>5. Inside(b, TileBox(<<u, v>>, c))
  BY <1>4 DEF Inside, TileBox, Box
<1>6. Common(b, TileBox(<<u, v>>, c)) = b
  BY <1>4 DEF Common, TileBox, Box, Larger, Smaller
<1>7. InTile(b, <<u, v>>, c) = Translate(b, -u, -v)
  BY <1>4, <1>6 DEF InTile, Translate, Clip, Box, Larger, Smaller
<1>8. Visible(b, <<u, v>>, c, <<n, d>>, pixel)
  <2>1. Area(b) = (x2 - x1) * (y2 - y1)
    BY DEF Area, Width, Height, Larger, Box
  <2>2. Area(b) \in Nat \ {0}
    BY <2>1
  <2>3. Area(b) * n <= Area(b) * d
    BY <2>2, Times
  <2>4. Area(b) * d >= n * Area(b)
    BY <2>2, <2>3
  <2> QED
    BY <1>6, <2>2, <2>4 DEF Visible, AtLeast
<1> QED
  BY <1>5, <1>7, <1>8 DEF u, v, c
=============================================================================

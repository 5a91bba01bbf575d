-------------------------------- MODULE Scoring --------------------------------
(***************************************************************************)
(* How detections are scored against the ground truth                      *)
(* (evaluation_export/metrics.py and the list of false examples in         *)
(* report.py).  The totals, the average precision of one class and the     *)
(* confusion matrix each have a loop that matches detections with boxes.   *)
(* The search is the same in all of them and is one operator here,         *)
(* Matching; they differ in what it is given and in which boxes count.     *)
(* preds and gts map an image to its sequence of detections                *)
(* [cls, conf, box] or ground truth boxes [cls, box].                      *)
(***************************************************************************)
EXTENDS Fusion

CONSTANTS
  Classes,       \* how many classes are known: 0 .. Classes - 1
  RecallPoints   \* average precision samples the recalls 0/n .. n/n (100 in the code)

Known == 0..(Classes - 1)
Background == Classes
Row(c) == IF c \in Known THEN c ELSE Background

\* Whether box b overlaps p more than box c does.
CloserTo(p, b, c) ==
  Area(Common(p, b)) * UnionArea(p, c) > Area(Common(p, c)) * UnionArea(p, b)

\* The free box a detection is matched with: the one it overlaps most, and at
\* least to the threshold; the first of equals; 0 when there is none.
BestMatch(p, gts, free, iou) ==
  LET fits == {g \in free : Meet(p.box, gts[g].box) /\ IoUAtLeast(p.box, gts[g].box, iou)} IN
  IF fits = {} THEN 0
  ELSE CHOOSE g \in fits : \A h \in fits :
         \/ CloserTo(p.box, gts[g].box, gts[h].box)
         \/ ~CloserTo(p.box, gts[h].box, gts[g].box) /\ g <= h

\* within: whether a box of another class is no match.
Eligible(gts, p, within) == {g \in DOMAIN gts : within = "class" => gts[g].cls = p.cls}

\* One image: for each detection in order of confidence its box or 0.
Matching_Bug(preds, gts, iou, within) ==
  LET ps == ByConfidence(preds) IN
  [i \in DOMAIN ps |-> BestMatch(ps[i], gts, Eligible(gts, ps[i], within), iou)]
Matching(preds, gts, iou, within) ==
  LET ps == ByConfidence(preds)
      next(found, p) ==
        Append(found, BestMatch(p, gts, Eligible(gts, p, within) \ ToSet(found), iou))
  IN FoldLeft(next, <<>>, ps)

Unmatched(gts, found) == DOMAIN gts \ ToSet(found)
Sum(f) == FoldFunction(LAMBDA x, acc : x + acc, 0, f)
Images(preds, gts) == DOMAIN preds \cup DOMAIN gts
Of(lists, image) == IF image \in DOMAIN lists THEN lists[image] ELSE <<>>

-----------------------------------------------------------------------------
(* compute_metrics: totals per known class at one threshold. *)
Tally(preds, gts, iou) ==
  LET found(im) == Matching(Of(preds, im), Of(gts, im), iou, "class")
      ps(im) == ByConfidence(Of(preds, im))
      count(im, c, Hit(_)) == Cardinality({i \in DOMAIN ps(im) : ps(im)[i].cls = c /\ Hit(found(im)[i])})
      all == Images(preds, gts)
  IN [c \in Known |->
       [tp |-> Sum([im \in all |-> count(im, c, LAMBDA g : g # 0)]),
        fp |-> Sum([im \in all |-> count(im, c, LAMBDA g : g = 0)]),
        fn |-> Sum([im \in all |-> Cardinality({g \in Unmatched(Of(gts, im), found(im)) :
                                                   Of(gts, im)[g].cls = c})])]]

\* The detections of the image that found no box, the boxes nobody found.
FalseExamples(preds, gts, iou) ==
  LET found(im) == Matching(Of(preds, im), Of(gts, im), iou, "class")
      ps(im) == ByConfidence(Of(preds, im))
  IN [fp |-> [im \in Images(preds, gts) |-> {i \in DOMAIN ps(im) : found(im)[i] = 0}],
      fn |-> [im \in Images(preds, gts) |-> Unmatched(Of(gts, im), found(im))]]

\* The confusion matrix: rows are true classes, columns predicted ones.
Confusion(preds, gts, iou) ==
  [cell \in (0..Background) \X (0..Background) |->
     Sum([im \in Images(preds, gts) |->
           LET found == Matching(Of(preds, im), Of(gts, im), iou, "all")
               ps == ByConfidence(Of(preds, im))
               row(i) == IF found[i] = 0 THEN Background ELSE Row(Of(gts, im)[found[i]].cls)
           IN Cardinality({i \in DOMAIN ps : <<row(i), Row(ps[i].cls)>> = cell})
              + Cardinality({g \in Unmatched(Of(gts, im), found) :
                               <<Row(Of(gts, im)[g].cls), Background>> = cell})])]

-----------------------------------------------------------------------------
(* Average precision of a class.  hits[i]: whether the i-th detection, over *)
(* all images in order of confidence, found a box.                         *)
ImageOrder(images) == SortSeq(SetToSeq(images), LAMBDA a, b : a < b)
ClassHits(preds, gts, c, iou) ==
  LET records(im) ==
        LET ps == OfClass(Of(preds, im), c)
            found == Matching(ps, OfClass(Of(gts, im), c), iou, "all")
            sorted == ByConfidence(ps)
        IN [i \in DOMAIN sorted |-> [conf |-> sorted[i].conf, hit |-> found[i] # 0]]
      order == ImageOrder(Images(preds, gts))
      all == ByConfidence(FlattenSeq([k \in DOMAIN order |-> records(order[k])]))
  IN [i \in DOMAIN all |-> all[i].hit]

TruePositives(hits, i) == Cardinality({j \in 1..i : hits[j]})
\* Precision from the right: the best one at this recall or beyond, as <<tp, n>>.
Envelope(hits, i) ==
  LET j == CHOOSE k \in i..Len(hits) : \A m \in i..Len(hits) :
             TruePositives(hits, k) * m >= TruePositives(hits, m) * k
  IN <<TruePositives(hits, j), j>>
\* The first position with at least k/RecallPoints of the boxes found.
RecallIndex(hits, k, boxes) ==
  {i \in DOMAIN hits : TruePositives(hits, i) * RecallPoints >= k * boxes}
Factorial(n) == FoldSet(LAMBDA x, acc : x * acc, 1, 1..n)   \* a common denominator

\* Average precision as a fraction <<n, d>>.
AveragePrecision(hits, boxes) ==
  LET unit == Factorial(Len(hits))
      at(k) == LET reach == RecallIndex(hits, k, boxes) IN
               IF reach = {} THEN 0
               ELSE LET p == Envelope(hits, CHOOSE i \in reach : \A j \in reach : i <= j)
                    IN (unit \div p[2]) * p[1]
  IN IF boxes = 0 \/ hits = <<>> THEN <<0, 1>>
     ELSE <<Sum([k \in 0..RecallPoints |-> at(k)]), unit * (RecallPoints + 1)>>
=============================================================================

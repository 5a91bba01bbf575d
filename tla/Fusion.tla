-------------------------------- MODULE Fusion --------------------------------
(***************************************************************************)
(* From the detections of all crops to those of the image                  *)
(* (evaluation_export/merge.py): non-maximum suppression and its two       *)
(* alternatives, then the fusion of fragments of one object.  A detection  *)
(* is [cls, conf, box]; confidences are natural numbers.                   *)
(***************************************************************************)
EXTENDS Boxes, FiniteSets, SequencesExt

CONSTANTS
  MaxGap,           \* FusionConfig.max_distance_px, in coordinate units
  MinIoU, MinIoS,   \* thresholds, as fractions
  MaxAspect, MaxAreaRatio,
  DisabledClasses,
  Decay(_, _)       \* exp(-iou^2 / sigma): a confidence and an overlap

\* Python's sort by confidence, highest first; equal ones keep their order.
ByConfidence(dets) ==
  LET order == SortSeq([i \in DOMAIN dets |-> i],
                       LAMBDA i, j : \/ dets[i].conf > dets[j].conf
                                     \/ dets[i].conf = dets[j].conf /\ i < j)
  IN [k \in DOMAIN dets |-> dets[order[k]]]

\* argsort()[::-1]: among equal confidences the later one comes first.
ByConfidenceReversed(dets) == ByConfidence(Reverse(dets))

Truncate(dets, most) == IF Len(dets) > most THEN SubSeq(dets, 1, most) ELSE dets

\* The classes in the order in which they first appear (a dict of lists).
ClassOrder(dets) ==
  FoldLeft(LAMBDA seen, d : IF d.cls \in ToSet(seen) THEN seen ELSE Append(seen, d.cls),
           <<>>, dets)
OfClass(dets, c) == SelectSeq(dets, LAMBDA d : d.cls = c)
ByClass(dets) == [i \in DOMAIN ClassOrder(dets) |-> OfClass(dets, ClassOrder(dets)[i])]
Confident(dets, score) == SelectSeq(dets, LAMBDA d : d.conf >= score)

-----------------------------------------------------------------------------
(* Greedy suppression: a detection stays unless a better one that stays    *)
(* overlaps it by more than the threshold.                                 *)
KeepBest(dets, iou) ==
  FoldLeft(LAMBDA kept, d : IF \E k \in ToSet(kept) : IoUAbove(k.box, d.box, iou)
                            THEN kept ELSE Append(kept, d),
           <<>>, ByConfidenceReversed(dets))

Nms(dets, iou, score, most) ==
  LET lists == ByClass(Confident(dets, score))
  IN Truncate(ByConfidence(FlattenSeq([i \in DOMAIN lists |-> KeepBest(lists[i], iou)])), most)

-----------------------------------------------------------------------------
(* Soft-NMS: the best detection left goes out, and those it overlaps lose  *)
(* confidence; the first of several best ones wins (argmax).               *)
Best(dets) ==
  CHOOSE i \in DOMAIN dets : \A j \in DOMAIN dets :
    \/ dets[i].conf > dets[j].conf
    \/ dets[i].conf = dets[j].conf /\ i <= j
Decayed(d, by, iou) ==
  IF IoUAbove(d.box, by.box, iou)
  THEN [d EXCEPT !.conf = Decay(d.conf, <<Area(Common(d.box, by.box)), UnionArea(d.box, by.box)>>)]
  ELSE d
SoftClass(dets, iou) ==
  FoldLeft(LAMBDA acc, round :
             LET b == acc.alive[Best(acc.alive)]
                 rest == RemoveAt(acc.alive, Best(acc.alive))
             IN [out |-> Append(acc.out, b),
                 alive |-> [i \in DOMAIN rest |-> Decayed(rest[i], b, iou)]],
           [out |-> <<>>, alive |-> dets], dets).out
SoftNms(dets, iou, score, most) ==
  LET lists == ByClass(dets)
      kept == [i \in DOMAIN lists |-> Confident(SoftClass(lists[i], iou), score)]
  IN Truncate(ByConfidence(FlattenSeq(kept)), most)

-----------------------------------------------------------------------------
(* Means weighted by confidence, rounded down to a coordinate unit.        *)
Total(values) == FoldLeft(LAMBDA sum, v : sum + v, 0, values)
Confidences(members) == [i \in DOMAIN members |-> members[i].conf]
WeightedBox(members) ==
  LET weight == IF Total(Confidences(members)) > 0 THEN Confidences(members)
                ELSE [i \in DOMAIN members |-> 1]
      mean(Side(_)) == Total([i \in DOMAIN members |-> weight[i] * Side(members[i].box)])
                         \div Total(weight)
  IN Box(mean(LAMBDA b : b.x1), mean(LAMBDA b : b.y1),
         mean(LAMBDA b : b.x2), mean(LAMBDA b : b.y2))
MeanConf(members) == Total(Confidences(members)) \div Len(members)

\* Weighted boxes fusion: a detection joins the first cluster whose box it
\* overlaps enough, and moves that box.
JoinCluster(clusters, d, iou) ==
  LET fits == {i \in DOMAIN clusters : IoUAtLeast(d.box, clusters[i].box, iou)} IN
  IF fits = {} THEN Append(clusters, [members |-> <<d>>, box |-> d.box])
  ELSE LET i == CHOOSE j \in fits : \A k \in fits : j <= k
           members == Append(clusters[i].members, d)
       IN [clusters EXCEPT ![i] = [members |-> members, box |-> WeightedBox(members)]]
Clusters(dets, iou) ==
  FoldLeft(LAMBDA clusters, d : JoinCluster(clusters, d, iou), <<>>, ByConfidence(dets))
WeightedFusion(dets, iou, score, most) ==
  LET merged(cluster) == [cls |-> cluster.members[1].cls,
                          conf |-> MeanConf(cluster.members), box |-> cluster.box]
      one(ds) == LET cs == Clusters(ds, iou) IN [i \in DOMAIN cs |-> merged(cs[i])]
      lists == ByClass(Confident(dets, score))
  IN Truncate(ByConfidence(FlattenSeq([i \in DOMAIN lists |-> one(lists[i])])), most)

Postprocess(method, dets, iou, score, most) ==
  CASE method \in {"nms", "class_aware_nms"} -> Nms(dets, iou, score, most)
    [] method = "soft_nms" -> SoftNms(dets, iou, score, most)
    [] method = "wbf" -> WeightedFusion(dets, iou, score, most)

-----------------------------------------------------------------------------
(* Fragment fusion: connected components of "could be one object".         *)
GapSquared(a, b) ==
  LET dx == Larger(0, Larger(b.x1 - a.x2, a.x1 - b.x2))
      dy == Larger(0, Larger(b.y1 - a.y2, a.y1 - b.y2))
  IN dx * dx + dy * dy
\* Boxes that do not meet have overlap 0, which reaches a threshold of 0.
IoUTrigger(a, b) ==
  IF Meet(a, b) THEN IoUAtLeast(a, b, MinIoU) ELSE MinIoU[1] = 0
IoSTrigger(a, b) ==
  IF Meet(a, b) THEN AtLeast(Area(Common(a, b)), Smaller(Area(a), Area(b)), MinIoS)
                ELSE MinIoS[1] = 0
ShouldMerge(a, b) ==
  /\ a.cls = b.cls /\ a.cls \notin DisabledClasses
  /\ \/ IoUTrigger(a.box, b.box)
     \/ IoSTrigger(a.box, b.box)
     \/ GapSquared(a.box, b.box) <= MaxGap * MaxGap

\* The union-find of the code: for each pair, the two sets become one.
Components_Bug(dets) ==
  [k \in DOMAIN dets |-> {k} \cup {j \in DOMAIN dets : j # k /\ ShouldMerge(dets[k], dets[j])}]
Components(dets) ==
  LET pairs == SelectSeq([n \in 1..(Len(dets) * Len(dets)) |->
                            <<((n - 1) \div Len(dets)) + 1, ((n - 1) % Len(dets)) + 1>>],
                         LAMBDA p : p[1] < p[2])
      join(part, p) == LET both == part[p[1]] \cup part[p[2]] IN
                       [k \in DOMAIN part |-> IF k \in both THEN both ELSE part[k]]
  IN FoldLeft(LAMBDA part, p : IF ShouldMerge(dets[p[1]], dets[p[2]]) THEN join(part, p) ELSE part,
              [k \in DOMAIN dets |-> {k}], pairs)

Hull(members) ==
  FoldLeft(LAMBDA h, m : Box(Smaller(h.x1, m.box.x1), Smaller(h.y1, m.box.y1),
                             Larger(h.x2, m.box.x2), Larger(h.y2, m.box.y2)),
           members[1].box, members)
\* strategy: "union", "weighted", or "off" when fusion is not enabled.
Merged(members, strategy) ==
  IF strategy = "union"
  THEN [cls |-> members[1].cls, box |-> Hull(members),
        conf |-> FoldLeft(LAMBDA c, m : Larger(c, m.conf), 0, members)]
  ELSE [cls |-> members[1].cls, box |-> WeightedBox(members), conf |-> MeanConf(members)]

PassesShapeLimits(merged, members) ==
  LET w == merged.box.x2 - merged.box.x1
      h == merged.box.y2 - merged.box.y1
      sum == Total([i \in DOMAIN members |-> Area(members[i].box)])
  IN /\ w > 0 /\ h > 0 /\ ~Above(Larger(w, h), Smaller(w, h), MaxAspect)
     /\ sum > 0 /\ ~Above(Area(merged.box), sum, MaxAreaRatio)

\* One component becomes one detection, or stays what it was when it is a single
\* detection or the result has an impossible shape.  members: the indices.
FuseComponent(dets, indices, strategy) ==
  LET members == [i \in DOMAIN indices |-> dets[indices[i]]]
      same == [i \in DOMAIN indices |-> [det |-> members[i], members |-> {indices[i]}]]
  IN IF \/ Len(indices) = 1
        \/ ~PassesShapeLimits(Merged(members, strategy), members)
     THEN same
     ELSE <<[det |-> Merged(members, strategy), members |-> ToSet(indices)]>>

\* What merge_fragmented_boxes returns, each output with the indices it stands
\* for (merged_groups), before the final sort.
Groups(dets, strategy) ==
  LET part == Components(dets)
      first(c) == SelectSeq([i \in DOMAIN dets |-> i],
                            LAMBDA i : dets[i].cls = c /\ \A j \in part[i] : i <= j)
      sorted(S) == SelectSeq([i \in DOMAIN dets |-> i], LAMBDA i : i \in S)
      roots == FlattenSeq([n \in DOMAIN ClassOrder(dets) |-> first(ClassOrder(dets)[n])])
  IN FlattenSeq([n \in DOMAIN roots |-> FuseComponent(dets, sorted(part[roots[n]]), strategy)])
Fuse(dets, strategy) ==
  LET groups == Groups(dets, strategy) IN
  IF strategy # "off" THEN ByConfidence([n \in DOMAIN groups |-> groups[n].det]) ELSE dets
=============================================================================

------------------------- MODULE CaptureOutputProofs -------------------------
(***************************************************************************)
(* A command that ends well leaves image, metadata, YOLO and COCO file of  *)
(* its frames in agreement, a directory the validator accepts is complete, *)
(* and refining a frame again gives what a capture with the last version   *)
(* gives: for any number of missions and frames, any pictures, refiner     *)
(* versions, settings, files that cannot be removed, and crashes.          *)
(***************************************************************************)
EXTENDS CaptureOutput, TLAPS, SequenceTheorems, FiniteSetTheorems, WellFoundedInduction

-----------------------------------------------------------------------------
(***************************************************************************)
(* Loops over a sequence, by induction over the rounds.                    *)
(***************************************************************************)
\* A set of naturals has a least element.
LEMMA LeastNatural ==
  ASSUME NEW N \in SUBSET Nat, N # {}
  PROVE  \E m \in N : \A k \in N : m <= k
<1> DEFINE less == {ss \in Nat \X Nat : ss[1] < ss[2]}
<1>1. IsWellFoundedOn(less, Nat)
  BY NatLessThanWellFounded DEF OpToRel
<1>2. \A y, x \in Nat : <<y, x>> \in less <=> y < x
  OBVIOUS
<1> HIDE DEF less
<1>3. PICK m \in N : \A k \in N : <<k, m>> \notin less
  BY <1>1, WFMin
<1>4. \A k \in N : ~(k < m)
  BY <1>2, <1>3
<1> QED BY <1>4

\* Induction over the rounds of a loop.
LEMMA UpTo ==
  ASSUME NEW N \in Nat, NEW P, 0 \in P, \A n \in 1..N : n - 1 \in P => n \in P
  PROVE  \A n \in 0..N : n \in P
<1> DEFINE R == (0..N) \ P
<1> SUFFICES ASSUME R # {} PROVE FALSE
  OBVIOUS
<1>1. R \in SUBSET Nat
  OBVIOUS
<1> HIDE DEF R
<1>2. PICK m \in R : \A k \in R : m <= k
  BY <1>1, LeastNatural
<1>3. m \in 1..N /\ m \notin P /\ m - 1 \notin R
  BY <1>2 DEF R
<1>4. m - 1 \in P
  BY <1>3 DEF R
<1> QED BY <1>3, <1>4

\* A loop that takes a value of V to one of V in each round has a course.
CourseOf(f, n, V, base, step) ==
  f \in [0..n -> V] /\ f[0] = base /\ \A k \in 1..n : f[k] = step[k][f[k - 1]]

LEMMA Course ==
  ASSUME NEW N \in Nat, NEW V, NEW base \in V, NEW step \in [1..N -> [V -> V]]
  PROVE  \E f : CourseOf(f, N, V, base, step)
<1> USE DEF CourseOf
<1> DEFINE Good(f, n) == CourseOf(f, n, V, base, step)
           P == {n \in 0..N : \E f : Good(f, n)}
<1>1. 0 \in P
  <2> DEFINE f == [n \in 0..0 |-> base]
  <2>1. Good(f, 0)
    OBVIOUS
  <2> HIDE DEF f, Good
  <2> QED BY <2>1
<1>2. ASSUME NEW n \in 1..N, n - 1 \in P PROVE n \in P
  <2>1. PICK f : Good(f, n - 1)
    BY <1>2
  <2> DEFINE g == [k \in 0..n |-> IF k = n THEN step[n][f[n - 1]] ELSE f[k]]
  <2>2. step[n][f[n - 1]] \in V
    BY <2>1
  <2>3. g \in [0..n -> V]
    BY <2>1, <2>2
  <2>4. \A k \in 1..n : g[k] = step[k][g[k - 1]]
    BY <2>1
  <2>5. Good(g, n)
    BY <2>1, <2>3, <2>4
  <2> HIDE DEF g, Good
  <2> QED BY <2>5
<1> HIDE DEF P
<1>3. \A n \in 0..N : n \in P
  BY <1>1, <1>2, UpTo
<1>4. N \in P
  BY <1>3
<1> QED BY <1>4 DEF P

\* What the filter returns is a sequence of the same kind.
LEMMA ThoseOf ==
  ASSUME NEW S, NEW s \in Seq(S), NEW T
  PROVE  Those(s, T) \in Seq(S)
<1> DEFINE N == Len(s)
           V == Seq(S)
           next(n, x) == IF s[n] \in T THEN Append(x, s[n]) ELSE x
           round == [n \in 1..N |-> [x \in V |-> next(n, x)]]
           F == CHOOSE f : f = [n \in 0..N |-> IF n = 0 THEN <<>> ELSE next(n, f[n - 1])]
<1>1. N \in Nat /\ \A n \in 1..N : s[n] \in S
  BY LenProperties, ElementOfSeq
<1>2. \A n \in 1..N, x \in V : next(n, x) \in V
  BY <1>1
<1>3. <<>> \in V
  OBVIOUS
<1>4. Those(s, T) = F[N]
  BY Zenon DEF Those
<1> HIDE DEF N, next, V
<1>5. PICK f \in [0..N -> V] : f[0] = <<>> /\ \A n \in 1..N : f[n] = round[n][f[n - 1]]
  <2>1. round \in [1..N -> [V -> V]]
    BY <1>2
  <2> DEFINE base == <<>>
  <2>2. base \in V
    BY <1>3
  <2> HIDE DEF round, base
  <2>3. PICK f : CourseOf(f, N, V, base, round)
    BY <1>1, <2>1, <2>2, Course
  <2> QED BY <2>3 DEF base, CourseOf
<1>6. \E g : g = [n \in 0..N |-> IF n = 0 THEN <<>> ELSE next(n, g[n - 1])]
  <2>1. ASSUME NEW n \in 1..N PROVE f[n] = next(n, f[n - 1])
    <3>1. f[n - 1] \in V /\ f[n] = round[n][f[n - 1]]
      BY <1>1, <1>5
    <3> QED BY <3>1
  <2>2. f = [n \in 0..N |-> f[n]] /\ \A n \in 0..N : n # 0 => n \in 1..N
    BY <1>1, <1>5
  <2>3. f = [n \in 0..N |-> IF n = 0 THEN <<>> ELSE next(n, f[n - 1])]
    BY <1>5, <2>1, <2>2
  <2> QED BY <2>3
<1>7. F = [n \in 0..N |-> IF n = 0 THEN <<>> ELSE next(n, F[n - 1])]
  BY <1>6
<1> HIDE DEF F, round
<1> DEFINE P == {n \in 0..N : F[n] \in V}
<1>8. 0 \in P
  BY <1>1, <1>3, <1>7
<1>9. ASSUME NEW n \in 1..N, n - 1 \in P PROVE n \in P
  <2>1. n \in 0..N /\ n # 0 /\ n - 1 \in 0..N
    BY <1>1
  <2>2. F[n] = next(n, F[n - 1])
    BY <1>7, <2>1
  <2> QED BY <1>2, <1>9, <2>1, <2>2
<1> HIDE DEF P
<1>10. \A n \in 0..N : n \in P
  BY <1>1, <1>8, <1>9, UpTo
<1> QED BY <1>1, <1>4, <1>10 DEF P, V

-----------------------------------------------------------------------------
(***************************************************************************)
(* Objects: refining twice is refining once.                               *)
(***************************************************************************)
ObjectFields(o) ==
  o = [class |-> o.class, box |-> o.box, proposal |-> o.proposal, valid |-> o.valid,
       sees |-> o.sees, tier |-> o.tier]

\* What no refinement changes.
SameObject(o, b) == o.class = b.class /\ o.sees = b.sees

LEMMA BuiltObject ==
  \A o : /\ ObjectFields(BuildObject(o)) /\ BuildObject(o).proposal = "none"
         /\ BuildObject(o).box \in {"none", "geometry"}
BY DEF ObjectFields, BuildObject

\* The proposal survives, and an object without one is left alone.
LEMMA RefinedObject ==
  ASSUME NEW o, NEW c, ObjectFields(o)
  PROVE  /\ ObjectFields(RefineObject(o, c)) /\ SameObject(RefineObject(o, c), o)
         /\ o.proposal = "none" /\ o.box = "none" => RefineObject(o, c) = o
         /\ o.proposal = "none" /\ o.box # "none" => RefineObject(o, c).proposal = o.box
         /\ o.proposal # "none" => RefineObject(o, c).proposal = o.proposal
<1> DEFINE p == WithProposal(o)
<1>1. /\ ObjectFields(p) /\ SameObject(p, o)
      /\ o.proposal = "none" => p.proposal = o.box
      /\ o.proposal # "none" => p = o
  BY DEF WithProposal, ObjectFields, SameObject
<1>2. RefineObject(o, c) \in
        {o, p, Fitted(p, c.version, FALSE), Fitted(p, c.version, TRUE), GeometryFallback(p), Refused(p)}
  BY DEF RefineObject
<1>3. ASSUME NEW q \in {p, Fitted(p, c.version, FALSE), Fitted(p, c.version, TRUE),
                        GeometryFallback(p), Refused(p)}
      PROVE  ObjectFields(q) /\ SameObject(q, p) /\ q.proposal = p.proposal
  BY <1>1, <1>3 DEF ObjectFields, SameObject, Fitted, GeometryFallback, Refused
<1>4. p.proposal = "none" => RefineObject(o, c) = o
  BY DEF RefineObject
<1>5. p.proposal # "none" => RefineObject(o, c) \in
        {p, Fitted(p, c.version, FALSE), Fitted(p, c.version, TRUE), GeometryFallback(p), Refused(p)}
  BY DEF RefineObject
<1> QED BY <1>1, <1>3, <1>4, <1>5 DEF SameObject

\* Without the fallback, what comes out depends on the proposal and the picture.
LEMMA RefineTwice ==
  ASSUME NEW o, NEW b, NEW c, ObjectFields(o), ObjectFields(b), SameObject(o, b),
         o.proposal = "geometry", b.proposal = "none", b.box = "geometry", c.fallback = FALSE
  PROVE  RefineObject(o, c) = RefineObject(b, c)
<1> DEFINE p == WithProposal(b)
<1>1. /\ ObjectFields(p) /\ SameObject(p, o) /\ p.proposal = "geometry" /\ WithProposal(o) = o
  BY DEF WithProposal, ObjectFields, SameObject
<1>2. \A a : Fitted(p, c.version, a) = Fitted(o, c.version, a)
  BY <1>1 DEF Fitted, ObjectFields, SameObject
<1>3. Refused(p) = Refused(o)
  BY <1>1 DEF Refused, ObjectFields, SameObject
<1> QED BY <1>1, <1>2, <1>3 DEF RefineObject, SameObject

-----------------------------------------------------------------------------
(***************************************************************************)
(* Metadata: what holds of an object after the refinements of by.          *)
(***************************************************************************)
NoLaterFallback(by) == \A k \in 2..Len(by) : ~by[k].fallback

LikeObject(o, b, by) ==
  /\ ObjectFields(o) /\ SameObject(o, b)
  /\ b.box = "none" => o = b
  /\ b.box # "none" => o.proposal = IF by = <<>> THEN "none" ELSE "geometry"
  /\ by = <<>> => o = b
  /\ by # <<>> /\ NoLaterFallback(by) => o = RefineObject(b, Last(by))

LEMMA RefineStep ==
  ASSUME NEW S, NEW by \in Seq(S), NEW c \in S, NEW x, NEW o, LikeObject(o, BuildObject(x), by)
  PROVE  LikeObject(RefineObject(o, c), BuildObject(x), Append(by, c))
<1> DEFINE b == BuildObject(x)
           o2 == RefineObject(o, c)
           by2 == Append(by, c)
<1>1. /\ by2 # <<>> /\ Last(by2) = c /\ Len(by2) = Len(by) + 1 /\ by2[Len(by2)] = c
      /\ Len(by) \in Nat /\ \A k \in 1..Len(by) : by2[k] = by[k]
      /\ by # <<>> => Len(by) >= 1
  BY DEF Last
<1>2. ObjectFields(b) /\ b.proposal = "none" /\ b.box \in {"none", "geometry"}
  BY BuiltObject
<1>3. ObjectFields(o) /\ SameObject(o, b)
  BY DEF LikeObject
<1>4. ObjectFields(o2) /\ SameObject(o2, b)
  BY <1>3, RefinedObject DEF SameObject
<1>5. CASE b.box = "none"
  <2>1. o = b /\ o2 = b /\ RefineObject(b, c) = b
    BY <1>2, <1>5, RefinedObject DEF LikeObject
  <2> QED BY <1>1, <1>4, <1>5, <2>1 DEF LikeObject
<1>6. CASE b.box = "geometry" /\ by = <<>>
  <2>1. o = b /\ o2.proposal = "geometry"
    BY <1>2, <1>6, RefinedObject DEF LikeObject
  <2> QED BY <1>1, <1>4, <1>6, <2>1 DEF LikeObject
<1>7. CASE b.box = "geometry" /\ by # <<>>
  <2>1. o.proposal = "geometry" /\ o2.proposal = "geometry"
    BY <1>3, <1>7, RefinedObject DEF LikeObject
  <2>2. ASSUME NoLaterFallback(by2) PROVE o2 = RefineObject(b, c)
    <3>1. c.fallback = FALSE
      BY <1>1, <1>7, <2>2 DEF NoLaterFallback
    <3> QED BY <1>2, <1>3, <1>7, <2>1, <3>1, RefineTwice
  <2> QED BY <1>1, <1>4, <1>7, <2>1, <2>2 DEF LikeObject
<1> QED BY <1>2, <1>5, <1>6, <1>7

Listed(s) == Len(s) \in Nat /\ s = [k \in 1..Len(s) |-> s[k]]

LEMMA ListedIsSeq ==
  ASSUME NEW s
  PROVE  /\ Listed(s) => s \in Seq(Range(s)) /\ DOMAIN s = 1..Len(s)
         /\ \A S : s \in Seq(S) => Listed(s)
         /\ \A n \in Nat : s = [k \in 1..n |-> s[k]] => Listed(s) /\ Len(s) = n
<1>1. ASSUME Listed(s) PROVE s \in Seq(Range(s)) /\ DOMAIN s = 1..Len(s)
  <2>1. Len(s) \in Nat /\ DOMAIN s = 1..Len(s) /\ s \in [1..Len(s) -> Range(s)]
    BY <1>1 DEF Listed, Range
  <2> QED BY <2>1
<1>2. ASSUME NEW S, s \in Seq(S) PROVE Listed(s)
  BY <1>2 DEF Listed
<1>3. ASSUME NEW n \in Nat, s = [k \in 1..n |-> s[k]] PROVE Listed(s) /\ Len(s) = n
  <2>1. Len(s) = n
    <3>1. DOMAIN s = 1..n /\ s \in [1..n -> Range(s)]
      BY <1>3 DEF Range
    <3>2. s \in Seq(Range(s))
      BY <3>1
    <3> QED BY <3>1, <3>2
  <2> QED BY <1>3, <2>1 DEF Listed
<1> QED BY <1>1, <1>2, <1>3

\* The record of a frame as its picture and its refinements make it.
Fields(md) ==
  md = [at |-> md.at, shot |-> md.shot, scene |-> md.scene, objects |-> md.objects,
        usable |-> md.usable, by |-> md.by, kept |-> md.kept]

LikeBuilt(md) ==
  LET built == Built(md.shot, md.scene).objects
  IN /\ Fields(md) /\ md.by \in Seq(Configs \cup {NoConfig})
     /\ md.objects = [k \in DOMAIN built |-> md.objects[k]]
     /\ \A k \in DOMAIN built : LikeObject(md.objects[k], built[k], md.by)
     /\ md.usable = Usable(md.scene, md.objects)

LEMMA BuiltFields ==
  ASSUME NEW shot, NEW scene
  PROVE  /\ Fields(Built(shot, scene)) /\ Built(shot, scene).at = "whole"
         /\ Built(shot, scene).shot = shot /\ Built(shot, scene).scene = scene
         /\ Built(shot, scene).by = <<>>
         /\ \E seen : Built(shot, scene).objects = [k \in DOMAIN seen |-> BuildObject(seen[k])]
         /\ Built(shot, scene).usable = Usable(scene, Built(shot, scene).objects)
BY DEF Built, Fields

LEMMA LikeWhenBuilt ==
  ASSUME NEW shot, NEW scene
  PROVE  LikeBuilt(Built(shot, scene))
<1> DEFINE md == Built(shot, scene)
<1>1. PICK seen : md.objects = [k \in DOMAIN seen |-> BuildObject(seen[k])]
  BY BuiltFields
<1>2. Fields(md) /\ md.shot = shot /\ md.scene = scene /\ md.by = <<>>
      /\ md.usable = Usable(md.scene, md.objects)
  BY BuiltFields
<1>3. \A k \in DOMAIN md.objects : LikeObject(md.objects[k], md.objects[k], <<>>)
  <2> SUFFICES ASSUME NEW x PROVE LikeObject(BuildObject(x), BuildObject(x), <<>>)
    BY <1>1
  <2> QED BY BuiltObject DEF LikeObject, SameObject
<1>4. md.by \in Seq(Configs \cup {NoConfig})
  BY <1>2
<1>5. md.objects = [k \in DOMAIN md.objects |-> md.objects[k]]
  BY <1>1
<1> HIDE DEF md
<1>6. Built(md.shot, md.scene).objects = md.objects
  BY <1>2 DEF md
<1> QED BY <1>2, <1>3, <1>4, <1>5, <1>6 DEF LikeBuilt, md

LEMMA LikeWhenRefined ==
  ASSUME NEW md, LikeBuilt(md), NEW c \in Configs \cup {NoConfig}, NEW readable
  PROVE  LikeBuilt(Refined(md, c, readable))
<1> DEFINE built == Built(md.shot, md.scene).objects
           objects == [k \in DOMAIN md.objects |-> RefineObject(md.objects[k], c)]
           new == [md EXCEPT !.objects = objects, !.usable = Usable(md.scene, objects),
                             !.by = Append(@, c)]
<1>1. /\ Fields(md) /\ md.by \in Seq(Configs \cup {NoConfig})
      /\ md.objects = [k \in DOMAIN built |-> md.objects[k]]
      /\ \A k \in DOMAIN built : LikeObject(md.objects[k], built[k], md.by)
  BY DEF LikeBuilt
<1>2. PICK seen : built = [k \in DOMAIN seen |-> BuildObject(seen[k])]
  BY BuiltFields
<1>3. /\ Fields(new) /\ new.shot = md.shot /\ new.scene = md.scene /\ new.objects = objects
      /\ new.usable = Usable(md.scene, objects) /\ new.by = Append(md.by, c)
  <2> DEFINE usable == Usable(md.scene, objects)
             by == Append(md.by, c)
  <2>1. new = [md EXCEPT !.objects = objects, !.usable = usable, !.by = by]
    OBVIOUS
  <2> HIDE DEF objects, usable, by, new
  <2>2. /\ Fields(new) /\ new.shot = md.shot /\ new.scene = md.scene /\ new.objects = objects
        /\ new.usable = usable /\ new.by = by
    BY <1>1, <2>1 DEF Fields
  <2> QED BY <2>2 DEF usable, by
<1>4. DOMAIN md.objects = DOMAIN built /\ objects = [k \in DOMAIN built |-> objects[k]]
  BY <1>1
<1>5. \A k \in DOMAIN built : LikeObject(objects[k], built[k], Append(md.by, c))
  <2> SUFFICES ASSUME NEW k \in DOMAIN built
               PROVE  LikeObject(objects[k], built[k], Append(md.by, c))
    OBVIOUS
  <2>1. objects[k] = RefineObject(md.objects[k], c) /\ built[k] = BuildObject(seen[k])
    BY <1>2, <1>4
  <2>2. LikeObject(md.objects[k], BuildObject(seen[k]), md.by)
    BY <1>1, <2>1
  <2> QED BY <1>1, <2>1, <2>2, RefineStep
<1>6. LikeBuilt(new)
  <2>1. new.by \in Seq(Configs \cup {NoConfig})
    BY <1>1, <1>3
  <2> HIDE DEF new, objects
  <2> QED BY <1>3, <1>4, <1>5, <2>1 DEF LikeBuilt
<1> QED BY <1>6 DEF Refined

\* What LikeBuilt says of a whole file: refined again, like captured.
Like(md) ==
  md.by # <<>> /\ NoLaterFallback(md.by) =>
    LET fresh == Refined(Built(md.shot, md.scene), Last(md.by), TRUE)
    IN md.objects = fresh.objects /\ md.usable = fresh.usable

LEMMA LikeBuiltIsLike ==
  ASSUME NEW md, LikeBuilt(md)
  PROVE  Like(md)
<1> SUFFICES ASSUME md.by # <<>>, NoLaterFallback(md.by)
             PROVE  LET fresh == Refined(Built(md.shot, md.scene), Last(md.by), TRUE)
                    IN md.objects = fresh.objects /\ md.usable = fresh.usable
  BY DEF Like
<1> DEFINE b == Built(md.shot, md.scene)
           c == Last(md.by)
           objects == [k \in DOMAIN b.objects |-> RefineObject(b.objects[k], c)]
<1>1. Refined(b, c, TRUE).objects = objects /\ Refined(b, c, TRUE).usable = Usable(b.scene, objects)
  BY BuiltFields DEF Refined, Fields
<1>2. md.objects = objects
  BY DEF LikeBuilt, LikeObject
<1>3. b.scene = md.scene /\ md.usable = Usable(md.scene, md.objects)
  BY BuiltFields DEF LikeBuilt
<1> HIDE DEF b, c, objects
<1> QED BY <1>1, <1>2, <1>3 DEF b, c

-----------------------------------------------------------------------------
(***************************************************************************)
(* The files on disk and the memory of the command.                        *)
(***************************************************************************)
GoodMetadata(md) == Fields(md) /\ (md.at = "whole" /\ ~md.kept => LikeBuilt(md))

JobFields(j) ==
  j = [pc |-> j.pc, kind |-> j.kind, scope |-> j.scope, config |-> j.config, left |-> j.left,
       open |-> j.open, md |-> j.md, exported |-> j.exported, result |-> j.result]

WithFrame == {"reread", "rewrite", "yolo"}

GoodJob(j) ==
  /\ JobFields(j) /\ GoodMetadata(j.md)
  /\ j.config \in Configs \cup {NoConfig}
  /\ j.kind \in {"none", "session", "refine", "rebuild"}
  /\ j.kind = "none" => j.pc = "idle"
  /\ j.kind = "refine" => /\ j.left \in Seq(Frames)
                          /\ j.pc \in WithFrame \cup {"idle", "collect", "coco"}
                          /\ j.pc \in WithFrame => j.left # <<>>
  /\ j.pc = "reread" => j.kind = "refine"

OutputInv ==
  /\ metadata = [f \in Frames |-> metadata[f]]
  /\ \A f \in Frames : GoodMetadata(metadata[f])
  /\ GoodJob(job)

LEMMA EmptyMetadata == /\ GoodMetadata(NoMetadata) /\ NoMetadata.at = "missing"
                       /\ GoodMetadata(TornMetadata) /\ TornMetadata.at = "torn"
<1>1. Fields(NoMetadata) /\ NoMetadata.at = "missing"
  BY DEF Fields, NoMetadata
<1>2. Fields(TornMetadata) /\ TornMetadata.at = "torn"
  BY <1>1 DEF Fields, TornMetadata
<1> QED BY <1>1, <1>2 DEF GoodMetadata

LEMMA GoodWhenBuilt == \A shot, scene : GoodMetadata(Built(shot, scene))
BY LikeWhenBuilt, BuiltFields DEF GoodMetadata

LEMMA GoodWhenRefined ==
  ASSUME NEW md, GoodMetadata(md), NEW c \in Configs \cup {NoConfig}, NEW readable
  PROVE  GoodMetadata(Refined(md, c, readable))
<1>1. CASE md.at = "whole" /\ ~md.kept
  <2>1. LikeBuilt(Refined(md, c, readable))
    BY <1>1, LikeWhenRefined DEF GoodMetadata
  <2> QED BY <2>1 DEF GoodMetadata, LikeBuilt
<1>2. CASE md.at # "whole" \/ md.kept
  <2> DEFINE objects == [k \in DOMAIN md.objects |-> RefineObject(md.objects[k], c)]
             usable == Usable(md.scene, objects)
             by == Append(md.by, c)
             new == [md EXCEPT !.objects = objects, !.usable = usable, !.by = by]
  <2>1. Refined(md, c, readable) = IF ~readable THEN md ELSE new
    BY DEF Refined
  <2>2. Fields(new) /\ new.at = md.at /\ new.kept = md.kept
    <3>1. Fields(md)
      BY DEF GoodMetadata
    <3>2. new = [md EXCEPT !.objects = objects, !.usable = usable, !.by = by]
      OBVIOUS
    <3> HIDE DEF objects, usable, by, new
    <3> QED BY <3>1, <3>2 DEF Fields
  <2> QED BY <1>2, <2>1, <2>2 DEF GoodMetadata
<1> QED BY <1>1, <1>2

\* Each way a command goes on.
LEMMA JobChange ==
  ASSUME NEW j, GoodJob(j), NEW k, JobFields(k), GoodMetadata(k.md), k.config = j.config,
         k.kind = j.kind, k.left = j.left, j.kind # "none", k.pc = "reread" => j.pc = "reread",
         j.kind = "refine" => k.pc \in {"collect", "coco"} \/ (k.pc \in WithFrame /\ j.pc \in WithFrame)
  PROVE  GoodJob(k)
<1> DEFINE with == WithFrame
<1>1. "idle" \notin with /\ "collect" \notin with /\ "coco" \notin with
  BY DEF WithFrame
<1> QED BY <1>1 DEF GoodJob

LEMMA JobMoves ==
  ASSUME NEW j, GoodJob(j), NEW md, GoodMetadata(md), NEW pc, NEW open, NEW exported,
         pc # "reread", j.kind # "none",
         j.kind = "refine" => pc \in {"collect", "coco"} \/ (pc \in WithFrame /\ j.pc \in WithFrame)
  PROVE  /\ GoodJob([j EXCEPT !.pc = pc, !.open = open])
         /\ GoodJob([j EXCEPT !.pc = pc, !.md = md, !.exported = exported])
         /\ GoodJob([j EXCEPT !.pc = pc, !.md = md])
         /\ GoodJob([j EXCEPT !.pc = pc, !.exported = exported])
<1>1. JobFields(j) /\ GoodMetadata(j.md)
  BY DEF GoodJob
<1>2. GoodJob([j EXCEPT !.pc = pc, !.open = open])
  <2> DEFINE k == [j EXCEPT !.pc = pc, !.open = open]
  <2>1. k = [j EXCEPT !.pc = pc, !.open = open]
    OBVIOUS
  <2> HIDE DEF k
  <2>2. /\ JobFields(k) /\ k.config = j.config /\ k.kind = j.kind /\ k.left = j.left
        /\ k.md = j.md /\ k.pc = pc
    BY <1>1, <2>1 DEF JobFields
  <2>3. GoodJob(k)
    BY <1>1, <2>2, JobChange
  <2> QED BY <2>3 DEF k
<1>3. GoodJob([j EXCEPT !.pc = pc, !.md = md, !.exported = exported])
  <2> DEFINE k == [j EXCEPT !.pc = pc, !.md = md, !.exported = exported]
  <2>1. k = [j EXCEPT !.pc = pc, !.md = md, !.exported = exported]
    OBVIOUS
  <2> HIDE DEF k
  <2>2. /\ JobFields(k) /\ k.config = j.config /\ k.kind = j.kind /\ k.left = j.left
        /\ k.md = md /\ k.pc = pc
    BY <1>1, <2>1 DEF JobFields
  <2>3. GoodJob(k)
    BY <1>1, <2>2, JobChange
  <2> QED BY <2>3 DEF k
<1>4. GoodJob([j EXCEPT !.pc = pc, !.md = md])
  <2> DEFINE k == [j EXCEPT !.pc = pc, !.md = md]
  <2>1. k = [j EXCEPT !.pc = pc, !.md = md]
    OBVIOUS
  <2> HIDE DEF k
  <2>2. /\ JobFields(k) /\ k.config = j.config /\ k.kind = j.kind /\ k.left = j.left
        /\ k.md = md /\ k.pc = pc
    BY <1>1, <2>1 DEF JobFields
  <2>3. GoodJob(k)
    BY <1>1, <2>2, JobChange
  <2> QED BY <2>3 DEF k
<1>5. GoodJob([j EXCEPT !.pc = pc, !.exported = exported])
  <2> DEFINE k == [j EXCEPT !.pc = pc, !.exported = exported]
  <2>1. k = [j EXCEPT !.pc = pc, !.exported = exported]
    OBVIOUS
  <2> HIDE DEF k
  <2>2. /\ JobFields(k) /\ k.config = j.config /\ k.kind = j.kind /\ k.left = j.left
        /\ k.md = j.md /\ k.pc = pc
    BY <1>1, <2>1 DEF JobFields
  <2>3. GoodJob(k)
    BY <1>1, <2>2, JobChange
  <2> QED BY <2>3 DEF k
<1> QED BY <1>2, <1>3, <1>4, <1>5

LEMMA JobOpens ==
  ASSUME NEW j, GoodJob(j), NEW md, GoodMetadata(md), NEW open
  PROVE  GoodJob([j EXCEPT !.open = open, !.md = md]) /\ GoodJob([j EXCEPT !.open = open])
<1>1. GoodJob([j EXCEPT !.open = open])
  BY DEF GoodJob, JobFields
<1>2. GoodJob([j EXCEPT !.open = open, !.md = md])
  <2> DEFINE k == [j EXCEPT !.open = open, !.md = md]
  <2>1. k = [j EXCEPT !.open = open, !.md = md] /\ JobFields(j)
    BY DEF GoodJob
  <2> HIDE DEF k
  <2>2. /\ JobFields(k) /\ k.config = j.config /\ k.kind = j.kind /\ k.left = j.left
        /\ k.md = md /\ k.pc = j.pc
    BY <2>1 DEF JobFields
  <2>3. GoodJob(k)
    BY <2>2 DEF GoodJob
  <2> QED BY <2>3 DEF k
<1> QED BY <1>1, <1>2

LEMMA JobGoes ==
  ASSUME GoodJob(job), NEW pc, GoTo(pc), pc # "reread", job.kind # "none",
         job.kind = "refine" => pc \in {"collect", "coco"} \/ (pc \in WithFrame /\ job.pc \in WithFrame)
  PROVE  GoodJob(job')
<1>1. GoodMetadata(job.md)
  BY DEF GoodJob
<1> QED BY <1>1, JobMoves DEF GoTo

LEMMA JobWaits == ASSUME GoodJob(job), Opened PROVE GoodJob(job')
BY EmptyMetadata, JobOpens DEF Opened

LEMMA JobEnds == ASSUME GoodJob(job), NEW result, Ends(result) PROVE GoodJob(job')
<1>1. job' = [NoJob EXCEPT !.kind = job.kind, !.scope = job.scope, !.result = result]
  BY DEF Ends
<1>2. /\ JobFields(job') /\ job'.md = NoMetadata /\ job'.config = NoConfig /\ job'.kind = job.kind
      /\ job'.left = <<>> /\ job'.pc = "idle"
  BY <1>1 DEF JobFields, NoJob
<1> QED BY <1>2, EmptyMetadata DEF GoodJob, WithFrame

LEMMA JobStarts ==
  ASSUME NEW kind \in {"session", "refine", "rebuild"}, NEW frames, NEW c \in Configs \cup {NoConfig},
         kind = "refine" => frames \in Seq(Frames), Starts(kind, frames, c)
  PROVE  GoodJob(job')
<1> DEFINE pc == IF kind = "refine" /\ frames = <<>> THEN "collect" ELSE FirstStep[kind]
           range == Range(frames)
<1>1. pc = "reread" => kind = "refine" /\ frames # <<>>
  BY DEF FirstStep
<1>2. job' = [NoJob EXCEPT !.kind = kind, !.scope = range, !.config = c, !.left = frames, !.pc = pc]
  BY DEF Starts
<1> HIDE DEF pc, range
<1>3. /\ JobFields(job') /\ job'.md = NoMetadata /\ job'.config = c /\ job'.kind = kind
      /\ job'.left = frames /\ job'.pc = pc
  BY <1>2 DEF NoJob, JobFields
<1>4. kind = "refine" => pc \in {"reread", "collect"}
  BY DEF FirstStep, pc
<1>5. kind # "none"
  OBVIOUS
<1> QED BY <1>1, <1>3, <1>4, <1>5, EmptyMetadata DEF GoodJob, WithFrame

LEMMA JobNext ==
  ASSUME GoodJob(job), job.kind # "none", NEW last \in {"collect", "idle"}, NextFrame(last),
         job.pc \in WithFrame \/ job.kind # "refine"
  PROVE  GoodJob(job')
<1> DEFINE left == Tail(job.left)
           pc == IF left = <<>> THEN last ELSE FirstStep[job.kind]
<1>1. pc = "reread" => job.kind = "refine"
  BY DEF GoodJob, FirstStep
<1>2. job.kind = "refine" => /\ left \in Seq(Frames) /\ pc \in {"reread", "collect", "idle"}
                             /\ pc = "reread" => left # <<>>
  BY DEF GoodJob, FirstStep, WithFrame
<1>3. job' = [job EXCEPT !.left = left, !.open = FALSE, !.pc = pc] /\ JobFields(job)
  BY DEF NextFrame, GoodJob
<1> HIDE DEF left, pc
<1>4. /\ JobFields(job') /\ job'.md = job.md /\ job'.config = job.config /\ job'.kind = job.kind
      /\ job'.left = left /\ job'.pc = pc
  BY <1>3 DEF JobFields
<1> QED BY <1>1, <1>2, <1>4 DEF GoodJob, WithFrame

-----------------------------------------------------------------------------
(***************************************************************************)
(* Every step keeps the files and the memory as they were derived.         *)
(***************************************************************************)
LEMMA OutputInit == Init => OutputInv
<1> SUFFICES ASSUME Init PROVE OutputInv
  OBVIOUS
<1>1. JobFields(NoJob) /\ NoJob.md = NoMetadata
  BY DEF JobFields, NoJob
<1>2. GoodJob(job)
  BY <1>1, EmptyMetadata DEF GoodJob, Init, NoJob, WithFrame
<1> QED BY <1>2, EmptyMetadata DEF OutputInv, Init

\* The file of one frame is replaced.
LEMMA Replaced ==
  ASSUME OutputInv, NEW md, GoodMetadata(md), NEW f, metadata' = [metadata EXCEPT ![f] = md]
  PROVE  metadata' = [g \in Frames |-> metadata'[g]] /\ \A g \in Frames : GoodMetadata(metadata'[g])
BY DEF OutputInv

LEMMA SortedFrames == ASSUME NEW S \in SUBSET Frames, NEW s \in Sorted(S) PROVE s \in Seq(Frames)
<1>1. PICK n \in 0..Missions * FramesPerMission : s \in [1..n -> S]
  BY DEF Sorted
<1>2. n \in Nat
  BY <1>1, OutputAssumption
<1> QED BY <1>1, <1>2

\* A file that could not be removed has not changed.
LEMMA KeptFields ==
  ASSUME NEW md, Fields(md)
  PROVE  LET kept == [md EXCEPT !.kept = TRUE]
         IN /\ Fields(kept) /\ kept.kept = TRUE /\ kept.at = md.at /\ kept.objects = md.objects
            /\ kept.usable = md.usable
<1> DEFINE kept == [md EXCEPT !.kept = TRUE]
<1>1. kept = [md EXCEPT !.kept = TRUE]
  OBVIOUS
<1> HIDE DEF kept
<1>2. Fields(kept) /\ kept.at = md.at /\ kept.objects = md.objects /\ kept.usable = md.usable
  BY <1>1 DEF Fields
<1>3. kept.kept = TRUE
  BY <1>1 DEF Fields
<1> QED BY <1>2, <1>3 DEF kept

\* The metadata of a frame that is refined again, with what the refiner sees now.
LEMMA SeenAgain ==
  ASSUME OutputInv, NEW f \in Frames, NEW version, NEW md \in AsSeen(f, version)
  PROVE  /\ Fields(md) /\ md.at = metadata[f].at /\ md.shot = metadata[f].shot
         /\ md.kept = metadata[f].kept
         /\ Listed(metadata[f].objects) => Listed(md.objects)
         /\ md = metadata[f] \/ (image[f].there /\ image[f].shot # metadata[f].shot)
<1> DEFINE m == metadata[f]
<1>1. Fields(m)
  BY DEF OutputInv, GoodMetadata
<1>2. CASE md = m
  BY <1>1, <1>2
<1>3. CASE md # m
  <2>1. /\ image[f].there /\ image[f].shot # m.shot
        /\ \E seen : md = [m EXCEPT !.objects = [k \in DOMAIN m.objects |-> seen[k]]]
    <3>1. /\ image[f].there /\ image[f].shot # m.shot
          /\ \E sights \in [DOMAIN m.objects -> Sights] :
               md = [m EXCEPT !.objects = [k \in DOMAIN m.objects |->
                       [m.objects[k] EXCEPT !.sees = [@ EXCEPT ![version] = sights[k]]]]]
      BY <1>3 DEF AsSeen
    <3>2. PICK sights \in [DOMAIN m.objects -> Sights] :
               md = [m EXCEPT !.objects = [k \in DOMAIN m.objects |->
                       [m.objects[k] EXCEPT !.sees = [@ EXCEPT ![version] = sights[k]]]]]
      BY <3>1
    <3> DEFINE seen == [k \in DOMAIN m.objects |->
                          [m.objects[k] EXCEPT !.sees = [@ EXCEPT ![version] = sights[k]]]]
    <3>3. md = [m EXCEPT !.objects = [k \in DOMAIN m.objects |-> seen[k]]]
      BY <3>2
    <3> HIDE DEF seen
    <3> QED BY <3>1, <3>3
  <2>2. PICK seen : md = [m EXCEPT !.objects = [k \in DOMAIN m.objects |-> seen[k]]]
    BY <2>1
  <2> DEFINE objects == [k \in DOMAIN m.objects |-> seen[k]]
  <2>3. Listed(m.objects) => Listed(objects)
    <3> SUFFICES ASSUME Listed(m.objects) PROVE Listed(objects)
      OBVIOUS
    <3>1. DOMAIN m.objects = 1..Len(m.objects) /\ Len(m.objects) \in Nat
      BY ListedIsSeq DEF Listed
    <3>2. objects = [k \in 1..Len(m.objects) |-> objects[k]]
      BY <3>1
    <3> HIDE DEF objects, m
    <3> QED BY <3>1, <3>2, ListedIsSeq
  <2>4. md = [m EXCEPT !.objects = objects]
    BY <2>2
  <2> HIDE DEF objects, m
  <2>5. Fields(md) /\ md.at = m.at /\ md.shot = m.shot /\ md.kept = m.kept /\ md.objects = objects
    BY <1>1, <2>4 DEF Fields
  <2> QED BY <2>1, <2>3, <2>5 DEF m
<1> QED BY <1>2, <1>3

LEMMA OutputStep == OutputInv /\ MetadataOfImage /\ [Next]_vars => OutputInv'
<1> SUFFICES ASSUME OutputInv, MetadataOfImage, [Next]_vars PROVE OutputInv'
  OBVIOUS
<1> DEFINE Disk == /\ metadata' = [f \in Frames |-> metadata'[f]]
                   /\ \A f \in Frames : GoodMetadata(metadata'[f])
<1>0. /\ GoodJob(job) /\ GoodMetadata(job.md) /\ job.config \in Configs \cup {NoConfig}
      /\ job.pc # "idle" => job.kind # "none"
      /\ metadata' = metadata => Disk
      /\ Disk /\ GoodJob(job') => OutputInv'
      /\ job' = job => GoodJob(job')
  BY DEF OutputInv, GoodJob
<1> HIDE DEF Disk
<1>P. /\ "rewrite" \in WithFrame /\ "yolo" \in WithFrame /\ "reread" \in WithFrame
      /\ job.kind = "refine" => job.pc \in WithFrame \cup {"idle", "collect", "coco"}
      /\ \A pc \in WithFrame : pc # "metadata" /\ pc # "shoot" /\ pc # "unlink_yolo"
                              /\ pc # "unlink_image" /\ pc # "unlink_metadata"
  BY <1>0 DEF WithFrame, GoodJob
<1>1. CASE Session
  BY <1>0, <1>1, JobStarts DEF Session, Asked, files
<1>2. CASE RefineDataset
  <2>1. PICK frames \in Sorted(Existing) \cup {<<f>> : f \in Frames}, c \in Configs :
             Starts("refine", frames, c)
    BY <1>2 DEF RefineDataset
  <2>2. CASE frames \in Sorted(Existing)
    <3>1. Existing \in SUBSET Frames
      BY DEF Existing
    <3>2. frames \in Seq(Frames)
      BY <2>2, <3>1, SortedFrames
    <3> QED BY <1>0, <1>2, <2>1, <3>2, JobStarts DEF RefineDataset, Asked, files
  <2>3. CASE \E f \in Frames : frames = <<f>>
    <3>1. frames \in Seq(Frames)
      BY <2>3
    <3> QED BY <1>0, <1>2, <2>1, <3>1, JobStarts DEF RefineDataset, Asked, files
  <2> QED BY <2>1, <2>2, <2>3
<1>3. CASE Rebuild \/ BatchRebuild
  BY <1>0, <1>3, JobStarts DEF Rebuild, BatchRebuild, Asked, files
<1>4. CASE Batch \/ BatchCheck
  BY <1>0, <1>4 DEF Batch, BatchCheck, Asked, files
<1>5. CASE BatchCapture
  BY <1>0, <1>5, JobStarts DEF BatchCapture, files
<1>6. CASE Crash
  BY <1>0, <1>6, JobEnds DEF Crash, files
<1>7. CASE ClearArtifact
  <2>1. Disk
    <3> DEFINE md == [metadata[Frame] EXCEPT !.kept = TRUE]
    <3>1. /\ \/ metadata' = metadata \/ metadata' = [metadata EXCEPT ![Frame] = NoMetadata]
             \/ metadata' = [metadata EXCEPT ![Frame] = md]
      BY <1>7 DEF ClearArtifact
    <3>2. Frame \in Frames => GoodMetadata(md)
      BY KeptFields DEF OutputInv, GoodMetadata
    <3> HIDE DEF md
    <3>3. CASE Frame \in Frames
      BY <1>0, <3>1, <3>2, <3>3, EmptyMetadata, Replaced DEF Disk
    <3>4. CASE Frame \notin Frames
      BY <1>0, <3>1, <3>4 DEF OutputInv, Disk
    <3> QED BY <3>3, <3>4
  <2>2. GoodJob(job')
    BY <1>0, <1>7, <1>P, JobGoes DEF ClearArtifact, At
  <2> QED BY <1>0, <2>1, <2>2
<1>8. CASE Shoot
  <2>1. CASE \E shot, scene : job' = [job EXCEPT !.open = TRUE, !.md = Built(shot, scene)]
    <3>1. PICK shot, scene : job' = [job EXCEPT !.open = TRUE, !.md = Built(shot, scene)]
      BY <2>1
    <3>2. GoodMetadata(Built(shot, scene))
      BY GoodWhenBuilt
    <3> QED BY <1>0, <1>8, <3>1, <3>2, JobOpens DEF Shoot
  <2>2. CASE Ends("failed") \/ GoTo("metadata")
    <3>1. GoodJob(job')
      BY <1>0, <1>8, <1>P, <2>2, JobGoes, JobEnds DEF Shoot, At
    <3> QED BY <1>0, <1>8, <3>1 DEF Shoot
  <2> QED BY <1>8, <2>1, <2>2 DEF Shoot
<1>9. CASE WriteMetadata
  <2> DEFINE md == Refined(job.md, job.config, image[Frame].whole)
             exported == AddFrame(job.exported, Frame, md)
  <2>1. CASE Ends("failed") /\ metadata' = metadata
    BY <1>0, <2>1, JobEnds
  <2>2. CASE /\ metadata' = [metadata EXCEPT ![Frame] = md]
             /\ job' = [job EXCEPT !.pc = "yolo", !.md = md, !.exported = exported]
    <3>1. GoodMetadata(md)
      BY <1>0, GoodWhenRefined
    <3>2. Disk
      BY <2>2, <3>1, Replaced DEF Disk
    <3>3. GoodJob(job')
      <4>1. job.pc = "metadata"
        BY <1>9 DEF WriteMetadata, At
      <4> HIDE DEF md, exported
      <4> QED BY <1>0, <1>P, <2>2, <3>1, <4>1, JobMoves
    <3> QED BY <1>0, <3>2, <3>3
  <2> QED BY <1>9, <2>1, <2>2 DEF WriteMetadata
<1>10. CASE Reread
  <2>1. CASE Ends("failed")
    BY <1>0, <1>10, <2>1, JobEnds DEF Reread, files
  <2>2. CASE /\ metadata[Frame].at = "whole"
             /\ \E md \in AsSeen(Frame, job.config.version) :
                  job' = [job EXCEPT !.pc = "rewrite", !.md = Refined(md, job.config, image[Frame].whole)]
    <3>0. job.pc = "reread"
      BY <1>10 DEF Reread, At
    <3>1. Frame \in Frames /\ job.kind = "refine" /\ job.pc \in WithFrame
      BY <1>0, <3>0 DEF Frame, GoodJob, WithFrame
    <3>2. PICK md \in AsSeen(Frame, job.config.version) :
               job' = [job EXCEPT !.pc = "rewrite", !.md = Refined(md, job.config, image[Frame].whole)]
      BY <2>2
    <3>3. GoodMetadata(md)
      BY <2>2, <3>1, SeenAgain DEF OutputInv, GoodMetadata, MetadataOfImage
    <3>4. GoodMetadata(Refined(md, job.config, image[Frame].whole))
      BY <1>0, <3>3, GoodWhenRefined
    <3> QED BY <1>0, <1>10, <3>1, <3>2, <3>4, JobMoves DEF Reread, files, WithFrame
  <2> QED BY <1>10, <2>1, <2>2 DEF Reread
<1>11. CASE Rewrite
  <2>1. Disk
    BY <1>0, <1>11, EmptyMetadata, Replaced DEF Rewrite, Disk
  <2>2. GoodJob(job')
    BY <1>0, <1>11, <1>P, JobWaits, JobGoes DEF Rewrite, At
  <2> QED BY <1>0, <2>1, <2>2
<1>12. CASE WriteYolo
  <2>1. GoodJob(job')
    BY <1>0, <1>12, <1>P, JobWaits, JobGoes, JobNext DEF WriteYolo, At
  <2> QED BY <1>0, <1>12, <2>1 DEF WriteYolo
<1>13. CASE Collect
  <2>1. GoodJob(job')
    <3>1. CASE Ends("failed")
      BY <1>0, <3>1, JobEnds
    <3>2. CASE job' = [job EXCEPT !.pc = "coco", !.exported = Collected]
      BY <1>0, <1>13, <1>P, <3>2, JobMoves DEF Collect, At
    <3> QED BY <1>13, <3>1, <3>2 DEF Collect
  <2> QED BY <1>0, <1>13, <2>1 DEF Collect, files
<1>14. CASE WriteCoco
  <2>1. GoodJob(job')
    BY <1>0, <1>14, <1>P, JobWaits, JobEnds, JobNext DEF WriteCoco, At
  <2> QED BY <1>0, <1>14, <2>1 DEF WriteCoco
<1>15. CASE UNCHANGED vars
  BY <1>0, <1>15 DEF vars, files
<1> QED BY <1>1, <1>2, <1>3, <1>4, <1>5, <1>6, <1>7, <1>8, <1>9, <1>10, <1>11, <1>12, <1>13, <1>14,
           <1>15 DEF Next, CommandStep

-----------------------------------------------------------------------------
(***************************************************************************)
(* Image and metadata of a frame.                                          *)
(***************************************************************************)
ImageFields(i) == i = [there |-> i.there, whole |-> i.whole, shot |-> i.shot]
OfShot(i, md) == i.there => i.shot = md.shot

\* While a frame is captured again its old metadata are gone or could not be
\* removed, and what the command is about to write describes the picture on disk,
\* or is what a refinement makes of a file that could not be removed.
ImageInv ==
  /\ image = [f \in Frames |-> image[f]] /\ \A f \in Frames : ImageFields(image[f])
  /\ MetadataOfImage
  /\ Frame \in Frames =>
       /\ job.pc \in {"unlink_yolo", "shoot", "metadata"} =>
            metadata[Frame].at # "whole" \/ metadata[Frame].kept
       /\ job.pc \in {"metadata", "rewrite"} \/ (job.pc = "shoot" /\ job.open) =>
            job.md.kept \/ OfShot(image[Frame], job.md)

\* A job between two frames promises nothing.
Between == {"idle", "collect", "coco", "yolo", "unlink_image", "unlink_metadata", "reread"}

LEMMA BetweenFrames ==
  ASSUME OutputInv, ImageInv, image' = image, metadata' = metadata, job'.pc \in Between
  PROVE  ImageInv'
BY DEF ImageInv, MetadataOfImage, Between, Frame

LEMMA RefinedShot ==
  ASSUME NEW md, Fields(md), NEW c, NEW readable
  PROVE  Refined(md, c, readable).shot = md.shot /\ Refined(md, c, readable).kept = md.kept
<1> DEFINE objects == [k \in DOMAIN md.objects |-> RefineObject(md.objects[k], c)]
           usable == Usable(md.scene, objects)
           by == Append(md.by, c)
           new == [md EXCEPT !.objects = objects, !.usable = usable, !.by = by]
<1>1. Refined(md, c, readable) = IF ~readable THEN md ELSE new
  BY DEF Refined
<1>2. new = [md EXCEPT !.objects = objects, !.usable = usable, !.by = by]
  OBVIOUS
<1> HIDE DEF objects, usable, by, new
<1>3. new.shot = md.shot /\ new.kept = md.kept
  BY <1>2 DEF Fields
<1> QED BY <1>1, <1>3

LEMMA ImageInit == Init => ImageInv
BY EmptyMetadata DEF Init, ImageInv, ImageFields, NoImage, MetadataOfImage, NoJob

\* Where a step leaves the job.
LEMMA GoToAt ==
  ASSUME GoodJob(job), NEW pc, GoTo(pc)
  PROVE  job'.pc = pc /\ job'.left = job.left /\ job'.md = job.md /\ job'.open = FALSE
<1> DEFINE j == job'
<1>1. j = [job EXCEPT !.pc = pc, !.open = FALSE] /\ JobFields(job)
  BY DEF GoTo, GoodJob
<1> HIDE DEF j
<1>2. j.pc = pc /\ j.left = job.left /\ j.md = job.md /\ j.open = FALSE
  BY <1>1 DEF JobFields
<1> QED BY <1>2 DEF j

LEMMA OpenedAt ==
  ASSUME GoodJob(job), Opened
  PROVE  job'.pc = job.pc /\ job'.left = job.left /\ job'.md = job.md
<1>1. JobFields(job)
  BY DEF GoodJob
<1> QED BY <1>1 DEF Opened, JobFields

LEMMA EndsBetween == ASSUME NEW result, Ends(result) PROVE job'.pc \in Between
BY DEF Ends, NoJob, Between

LEMMA NextBetween ==
  ASSUME GoodJob(job), job.kind # "none", NEW last \in {"collect", "idle"}, NextFrame(last)
  PROVE  job'.pc \in Between
<1>1. JobFields(job) /\ FirstStep[job.kind] \in Between /\ last \in Between
  BY DEF GoodJob, FirstStep, Between
<1> DEFINE j == job'
           pc == IF Tail(job.left) = <<>> THEN last ELSE FirstStep[job.kind]
           left == Tail(job.left)
<1>2. j = [job EXCEPT !.left = left, !.open = FALSE, !.pc = pc] /\ pc \in Between
  BY <1>1 DEF NextFrame
<1> HIDE DEF j, pc, left
<1>3. j.pc = pc
  BY <1>1, <1>2 DEF JobFields
<1> QED BY <1>2, <1>3 DEF j

LEMMA StartsBetween ==
  ASSUME NEW kind \in {"session", "refine", "rebuild"}, NEW frames, NEW c, Starts(kind, frames, c)
  PROVE  job'.pc \in Between
<1> DEFINE pc == IF kind = "refine" /\ frames = <<>> THEN "collect" ELSE FirstStep[kind]
           range == Range(frames)
<1>1. pc \in Between
  BY DEF FirstStep, Between
<1>2. job' = [NoJob EXCEPT !.kind = kind, !.scope = range, !.config = c, !.left = frames, !.pc = pc]
  BY DEF Starts
<1> HIDE DEF pc, range
<1>3. job'.pc = pc
  BY <1>2 DEF NoJob
<1> QED BY <1>1, <1>3

LEMMA ImageStep == OutputInv /\ ImageInv /\ [Next]_vars => ImageInv'
<1> SUFFICES ASSUME OutputInv, ImageInv, [Next]_vars PROVE ImageInv'
  OBVIOUS
<1>0. /\ GoodJob(job) /\ Fields(job.md)
      /\ job.pc # "idle" => job.kind # "none"
      /\ \A f \in Frames : Fields(metadata[f])
      /\ metadata = [g \in Frames |-> metadata[g]]
  BY DEF OutputInv, GoodJob, GoodMetadata
<1>B. "idle" \in Between /\ "coco" \in Between /\ "yolo" \in Between /\ "unlink_metadata" \in Between
  BY DEF Between
<1>1. CASE Session \/ RefineDataset \/ Rebuild \/ BatchCapture \/ BatchRebuild
  BY <1>0, <1>1, StartsBetween, BetweenFrames
  DEF Session, RefineDataset, Rebuild, BatchCapture, BatchRebuild, Asked, files
<1>2. CASE Batch \/ BatchCheck \/ UNCHANGED vars
  <2>1. UNCHANGED <<image, metadata, job>>
    BY <1>2 DEF Batch, BatchCheck, Asked, files, vars
  <2> QED BY <2>1 DEF ImageInv, MetadataOfImage, Frame
<1>3. CASE Crash
  BY <1>0, <1>3, EndsBetween, BetweenFrames DEF Crash, files
<1>4. CASE ClearArtifact
  <2>1. CASE At("unlink_image")
    <3>1. job'.pc = "unlink_metadata" /\ metadata' = metadata
          /\ \/ image' = [image EXCEPT ![Frame] = NoImage] \/ image' = image
      BY <1>0, <1>4, <2>1, GoToAt DEF ClearArtifact, At
    <3> QED BY <3>1 DEF ImageInv, MetadataOfImage, ImageFields, NoImage
  <2>2. CASE At("unlink_metadata")
    <3> DEFINE md == [metadata[Frame] EXCEPT !.kept = TRUE]
    <3>1. /\ job'.pc = "unlink_yolo" /\ job'.left = job.left /\ image' = image
          /\ \/ metadata' = [metadata EXCEPT ![Frame] = NoMetadata]
             \/ metadata' = [metadata EXCEPT ![Frame] = md]
      BY <1>0, <1>4, <2>2, GoToAt DEF ClearArtifact, At
    <3>2. Frame \in Frames => md.kept = TRUE
      BY <1>0, KeptFields
    <3> HIDE DEF md
    <3> QED BY <1>0, <3>1, <3>2, EmptyMetadata DEF ImageInv, MetadataOfImage, Frame
  <2>3. CASE At("unlink_yolo")
    <3>1. /\ job'.pc = "shoot" /\ job'.left = job.left /\ job'.open = FALSE
          /\ image' = image /\ metadata' = metadata
      BY <1>0, <1>4, <2>3, GoToAt DEF ClearArtifact, At
    <3> QED BY <2>3, <3>1 DEF ImageInv, MetadataOfImage, Frame, At
  <2> QED BY <1>4, <2>1, <2>2, <2>3 DEF ClearArtifact
<1>5. CASE Shoot
  <2>0. job.pc = "shoot" /\ metadata' = metadata
    BY <1>5 DEF Shoot, At
  <2>1. CASE \E s \in Scenes : /\ job' = [job EXCEPT !.open = TRUE, !.md = Built(shots + 1, s)]
                               /\ image' = [image EXCEPT ![Frame] =
                                               [there |-> TRUE, whole |-> FALSE, shot |-> shots + 1]]
    <3>1. PICK s \in Scenes : job' = [job EXCEPT !.open = TRUE, !.md = Built(shots + 1, s)]
      BY <2>1
    <3> DEFINE md == Built(shots + 1, s)
               j == job'
    <3>2. md.shot = shots + 1
      BY BuiltFields
    <3>3. j = [job EXCEPT !.open = TRUE, !.md = md]
      BY <3>1
    <3> HIDE DEF md, j
    <3>4. j.pc = "shoot" /\ j.left = job.left /\ j.md = md
      BY <1>0, <2>0, <3>3 DEF GoodJob, JobFields
    <3>5. job'.pc = "shoot" /\ job'.left = job.left /\ job'.md = md
      BY <3>4 DEF j
    <3> DEFINE i == [there |-> TRUE, whole |-> FALSE, shot |-> shots + 1]
    <3>6. image' = [image EXCEPT ![Frame] = i] /\ ImageFields(i) /\ i.shot = md.shot
      BY <2>1, <3>2 DEF ImageFields
    <3> HIDE DEF i
    <3>7. MetadataOfImage'
      BY <2>0, <3>6 DEF ImageInv, MetadataOfImage
    <3>8. image' = [f \in Frames |-> image'[f]] /\ \A f \in Frames : ImageFields(image'[f])
      BY <3>6 DEF ImageInv
    <3>9. /\ Frame' = Frame
          /\ Frame \in Frames => /\ image'[Frame] = i
                                 /\ metadata'[Frame].at # "whole" \/ metadata'[Frame].kept
      BY <2>0, <3>5, <3>6 DEF ImageInv, Frame
    <3>10. Frame \in Frames => OfShot(image'[Frame], job'.md)
      BY <3>5, <3>6, <3>9 DEF OfShot
    <3> QED BY <3>5, <3>7, <3>8, <3>9, <3>10 DEF ImageInv
  <2>2. CASE Ends("failed") /\ image' = image
    BY <2>0, <2>2, EndsBetween, BetweenFrames
  <2>3. CASE job.open /\ GoTo("metadata") /\ image' = [image EXCEPT ![Frame] = [@ EXCEPT !.whole = TRUE]]
    <3>1. job'.pc = "metadata" /\ job'.left = job.left /\ job'.md = job.md
      BY <1>0, <2>3, GoToAt
    <3>2. \A f \in Frames : /\ ImageFields(image'[f]) /\ image'[f].there = image[f].there
                           /\ image'[f].shot = image[f].shot
      <4> DEFINE i == [image[Frame] EXCEPT !.whole = TRUE]
      <4>1. image' = [image EXCEPT ![Frame] = i]
        BY <2>3
      <4>2. Frame \in Frames => /\ ImageFields(i) /\ i.there = image[Frame].there
                                /\ i.shot = image[Frame].shot
        <5> DEFINE p == image[Frame]
        <5>1. i = [p EXCEPT !.whole = TRUE] /\ (Frame \in Frames => ImageFields(p))
          BY DEF ImageInv
        <5> HIDE DEF i, p
        <5>2. Frame \in Frames => ImageFields(i) /\ i.there = p.there /\ i.shot = p.shot
          BY <5>1 DEF ImageFields
        <5> QED BY <5>2 DEF p
      <4> HIDE DEF i
      <4> QED BY <4>1, <4>2 DEF ImageInv
    <3>3. image' = [f \in Frames |-> image'[f]]
      BY <2>3 DEF ImageInv
    <3> QED BY <2>0, <2>3, <3>1, <3>2, <3>3 DEF ImageInv, MetadataOfImage, Frame, OfShot
  <2> QED BY <1>5, <2>1, <2>2, <2>3 DEF Shoot
<1>6. CASE WriteMetadata
  <2> DEFINE md == Refined(job.md, job.config, image[Frame].whole)
             exported == AddFrame(job.exported, Frame, md)
  <2>1. /\ md.shot = job.md.shot /\ md.kept = job.md.kept /\ job.pc = "metadata" /\ image' = image
        /\ \/ /\ metadata' = [metadata EXCEPT ![Frame] = md]
              /\ job' = [job EXCEPT !.pc = "yolo", !.md = md, !.exported = exported]
           \/ Ends("failed") /\ metadata' = metadata
    BY <1>0, <1>6, RefinedShot DEF WriteMetadata, At
  <2> HIDE DEF md, exported
  <2>2. CASE Ends("failed") /\ metadata' = metadata
    BY <2>1, <2>2, EndsBetween, BetweenFrames
  <2>3. CASE /\ metadata' = [metadata EXCEPT ![Frame] = md]
             /\ job' = [job EXCEPT !.pc = "yolo", !.md = md, !.exported = exported]
    <3>1. job'.pc = "yolo"
      BY <1>0, <2>3 DEF GoodJob, JobFields
    <3> QED BY <1>0, <2>1, <2>3, <3>1 DEF ImageInv, MetadataOfImage, Frame, OfShot
  <2> QED BY <2>1, <2>2, <2>3
<1>7. CASE Reread
  <2>1. CASE Ends("failed")
    BY <1>7, <2>1, EndsBetween, BetweenFrames DEF Reread, files
  <2>2. CASE /\ metadata[Frame].at = "whole"
             /\ \E seen \in AsSeen(Frame, job.config.version) :
                  job' = [job EXCEPT !.pc = "rewrite", !.md = Refined(seen, job.config, image[Frame].whole)]
    <3>0. PICK seen \in AsSeen(Frame, job.config.version) :
               job' = [job EXCEPT !.pc = "rewrite", !.md = Refined(seen, job.config, image[Frame].whole)]
      BY <2>2
    <3> DEFINE md == Refined(seen, job.config, image[Frame].whole)
    <3>1. Frame \in Frames => md.shot = metadata[Frame].shot /\ md.kept = metadata[Frame].kept
      <4> SUFFICES ASSUME Frame \in Frames
                   PROVE  md.shot = metadata[Frame].shot /\ md.kept = metadata[Frame].kept
        OBVIOUS
      <4>1. Fields(seen) /\ seen.shot = metadata[Frame].shot /\ seen.kept = metadata[Frame].kept
        BY SeenAgain
      <4> QED BY <4>1, RefinedShot
    <3>2. job' = [job EXCEPT !.pc = "rewrite", !.md = md] /\ image' = image /\ metadata' = metadata
      BY <1>7, <3>0 DEF Reread, files
    <3> HIDE DEF md
    <3>3. job'.pc = "rewrite" /\ job'.left = job.left /\ job'.md = md
      BY <1>0, <3>2 DEF GoodJob, JobFields
    <3> QED BY <2>2, <3>1, <3>2, <3>3 DEF ImageInv, MetadataOfImage, Frame, OfShot
  <2> QED BY <1>7, <2>1, <2>2 DEF Reread
<1>8. CASE Rewrite
  <2>0. job.pc = "rewrite" /\ image' = image
    BY <1>8 DEF Rewrite, At
  <2>1. CASE Opened /\ metadata' = [metadata EXCEPT ![Frame] = TornMetadata]
    <3>1. job'.pc = "rewrite" /\ job'.left = job.left /\ job'.md = job.md
      BY <1>0, <2>0, <2>1, OpenedAt
    <3> QED BY <1>0, <2>0, <2>1, <3>1, EmptyMetadata DEF ImageInv, MetadataOfImage, Frame, OfShot
  <2>2. CASE GoTo("yolo") /\ metadata' = [metadata EXCEPT ![Frame] = job.md]
    <3>1. job'.pc = "yolo"
      BY <1>0, <2>2, GoToAt
    <3> QED BY <1>0, <2>0, <2>2, <3>1 DEF ImageInv, MetadataOfImage, Frame, OfShot
  <2> QED BY <1>8, <2>1, <2>2 DEF Rewrite
<1>9. CASE WriteYolo \/ Collect \/ WriteCoco
  <2>1. image' = image /\ metadata' = metadata
    BY <1>9 DEF WriteYolo, Collect, WriteCoco, files
  <2>2. job'.pc \in Between
    <3>1. CASE WriteYolo
      <4>1. job.pc = "yolo" /\ job.kind # "none"
        BY <1>0, <3>1 DEF WriteYolo, At
      <4>2. CASE Opened
        BY <1>0, <1>B, <4>1, <4>2, OpenedAt
      <4>3. CASE GoTo("coco")
        BY <1>0, <1>B, <4>3, GoToAt
      <4>4. CASE NextFrame("collect")
        BY <1>0, <4>1, <4>4, NextBetween
      <4> QED BY <3>1, <4>2, <4>3, <4>4 DEF WriteYolo
    <3>2. CASE Collect
      <4>1. CASE job' = [job EXCEPT !.pc = "coco", !.exported = Collected]
        BY <1>0, <1>B, <4>1 DEF GoodJob, JobFields
      <4> QED BY <3>2, <4>1, EndsBetween DEF Collect
    <3>3. CASE WriteCoco
      <4>1. job.pc = "coco" /\ job.kind # "none"
        BY <1>0, <3>3 DEF WriteCoco, At
      <4>2. CASE Opened
        BY <1>0, <1>B, <4>1, <4>2, OpenedAt
      <4>3. CASE NextFrame("idle")
        BY <1>0, <4>1, <4>3, NextBetween
      <4> QED BY <3>3, <4>2, <4>3, EndsBetween DEF WriteCoco
    <3> QED BY <1>9, <3>1, <3>2, <3>3
  <2> QED BY <2>1, <2>2, BetweenFrames
<1> QED BY <1>1, <1>2, <1>3, <1>4, <1>5, <1>6, <1>7, <1>8, <1>9 DEF Next, CommandStep

LEMMA OutputInvariant == Spec => [](OutputInv /\ ImageInv)
<1>1. OutputInv /\ ImageInv /\ [Next]_vars => (OutputInv /\ ImageInv)'
  BY OutputStep, ImageStep DEF ImageInv
<1> QED BY OutputInit, ImageInit, <1>1, PTL DEF Spec

\* Refining a frame once more, however often and with whichever versions it was
\* refined before, gives what a capture with the last version would have made of
\* the same picture, unless a later refinement falls back to geometry or the
\* metadata, which a session could not remove, are those of another picture
\* (refine_frame, refine_dataset.py, orchestrator/main.py).
THEOREM RefinedHolds == Spec => []RefinedLikeCaptured
<1>1. OutputInv => RefinedLikeCaptured
  <2> SUFFICES ASSUME OutputInv, NEW f \in Frames, metadata[f].at = "whole", ~metadata[f].kept
               PROVE  Like(metadata[f])
    BY DEF RefinedLikeCaptured, Like, NoLaterFallback
  <2> QED BY LikeBuiltIsLike DEF OutputInv, GoodMetadata
<1> QED BY OutputInvariant, <1>1, PTL

\* The metadata of a frame describe the picture beside them, whatever was captured
\* again under the same frame id, with images and labels that cannot be removed
\* and a stop at any step; metadata that a session could not remove are the
\* exception, until they are replaced (clear_artifacts, capture_one_frame,
\* refine_dataset.py).
THEOREM MetadataOfImageHolds == Spec => []MetadataOfImage
<1>1. ImageInv => MetadataOfImage
  BY DEF ImageInv
<1> QED BY OutputInvariant, <1>1, PTL

-----------------------------------------------------------------------------
(***************************************************************************)
(* The COCO file.  Exports is what Describes says, with the positions the  *)
(* exporter counts by.                                                     *)
(***************************************************************************)
Exports(c, frames, md) ==
  /\ c = [images |-> c.images, anns |-> c.anns] /\ Listed(c.images) /\ Listed(c.anns)
  /\ \A k \in DOMAIN c.images : c.images[k].id = k
  /\ \A k \in DOMAIN c.anns : c.anns[k].id = k /\ c.anns[k].image \in DOMAIN c.images
  /\ Describes(c, frames, md)


LEMMA ListedLabels ==
  ASSUME NEW md, Listed(md.objects)
  PROVE  Listed(Labels(md))
<1> DEFINE T == {o \in Range(md.objects) : Exportable(o)}
<1>1. Those(md.objects, T) \in Seq(Range(md.objects))
  BY ListedIsSeq, ThoseOf
<1>2. Labels(md) = Those(md.objects, T) \/ Labels(md) = <<>>
  BY DEF Labels
<1>3. Listed(Those(md.objects, T))
  BY <1>1, ListedIsSeq
<1>4. Listed(<<>>)
  <2>1. <<>> \in Seq({})
    OBVIOUS
  <2> QED BY <2>1, ListedIsSeq
<1> HIDE DEF T
<1> QED BY <1>2, <1>3, <1>4

LEMMA NoExports == \A md : Exports(NothingExported, {}, md)
<1> TAKE md
<1> DEFINE c == NothingExported
<1>1. c.images = <<>> /\ c.anns = <<>> /\ c = [images |-> c.images, anns |-> c.anns]
  BY DEF NothingExported
<1>2. Listed(<<>>) /\ DOMAIN <<>> = {}
  <2>1. <<>> \in Seq({}) /\ Len(<<>>) = 0
    OBVIOUS
  <2>2. Listed(<<>>)
    BY <2>1, ListedIsSeq
  <2>3. DOMAIN <<>> = 1..0
    BY <2>1, <2>2, ListedIsSeq
  <2> QED BY <2>2, <2>3
<1> HIDE DEF c
<1> QED BY <1>1, <1>2 DEF Exports, Describes, c

LEMMA ExportsKept ==
  ASSUME NEW c, NEW F, NEW md, NEW md2, Exports(c, F, md), \A f \in F : md2[f] = md[f]
  PROVE  Exports(c, F, md2)
<1>1. \A k \in DOMAIN c.images : c.images[k].frame \in F /\ md2[c.images[k].frame] = md[c.images[k].frame]
  BY DEF Exports, Describes
<1>2. ASSUME NEW k \in DOMAIN c.images PROVE HoldsLabels(c, k, md2)
  <2>1. HoldsLabels(c, k, md) /\ Labels(md2[c.images[k].frame]) = Labels(md[c.images[k].frame])
    BY <1>1 DEF Exports, Describes
  <2> QED BY <2>1 DEF HoldsLabels
<1>3. {f \in F : md2[f].usable} = {f \in F : md[f].usable}
  OBVIOUS
<1> QED BY <1>2, <1>3 DEF Exports, Describes

LEMMA ExportsMore ==
  ASSUME NEW c, NEW F, NEW G, NEW md, Exports(c, F, md), F \subseteq G,
         \A f \in G \ F : md[f].usable = FALSE
  PROVE  Exports(c, G, md)
<1>1. {f \in F : md[f].usable} = {f \in G : md[f].usable}
  OBVIOUS
<1> QED BY <1>1 DEF Exports, Describes

LEMMA AppendListed ==
  ASSUME NEW s, Listed(s), NEW e
  PROVE  /\ Listed(Append(s, e)) /\ Len(Append(s, e)) = Len(s) + 1 /\ DOMAIN Append(s, e) = 1..(Len(s) + 1)
         /\ Append(s, e)[Len(s) + 1] = e /\ \A k \in 1..Len(s) : Append(s, e)[k] = s[k]
<1> DEFINE S == Range(s) \cup {e}
<1>1. s \in Seq(S)
  <2>1. s \in Seq(Range(s)) /\ Range(s) \subseteq S
    BY ListedIsSeq
  <2> HIDE DEF S
  <2> QED BY <2>1, SeqMonotonic
<1>2. e \in S
  OBVIOUS
<1> HIDE DEF S
<1>3. /\ Append(s, e) \in Seq(S) /\ Len(Append(s, e)) = Len(s) + 1
      /\ Append(s, e)[Len(s) + 1] = e /\ \A k \in 1..Len(s) : Append(s, e)[k] = s[k]
  BY <1>1, <1>2, AppendProperties
<1> QED BY <1>3, ListedIsSeq

LEMMA ConcatListed ==
  ASSUME NEW s, Listed(s), NEW t, Listed(t)
  PROVE  /\ Listed(s \o t) /\ Len(s \o t) = Len(s) + Len(t) /\ DOMAIN (s \o t) = 1..(Len(s) + Len(t))
         /\ \A k \in 1..Len(s) : (s \o t)[k] = s[k]
         /\ \A k \in 1..Len(t) : (s \o t)[Len(s) + k] = t[k]
<1> DEFINE S == Range(s) \cup Range(t)
<1>1. s \in Seq(S) /\ t \in Seq(S)
  <2>1. s \in Seq(Range(s)) /\ Range(s) \subseteq S /\ t \in Seq(Range(t)) /\ Range(t) \subseteq S
    BY ListedIsSeq
  <2> HIDE DEF S
  <2> QED BY <2>1, SeqMonotonic
<1> HIDE DEF S
<1>2. /\ s \o t \in Seq(S) /\ Len(s \o t) = Len(s) + Len(t)
      /\ \A i \in 1 .. Len(s) + Len(t) : (s \o t)[i] = IF i <= Len(s) THEN s[i] ELSE t[i - Len(s)]
  BY <1>1, ConcatProperties
<1>3. Len(s) \in Nat /\ Len(t) \in Nat
  BY DEF Listed
<1>4. \A k \in 1..Len(s) : (s \o t)[k] = s[k]
  BY <1>2, <1>3
<1>5. \A k \in 1..Len(t) : (s \o t)[Len(s) + k] = t[k]
  BY <1>2, <1>3
<1> QED BY <1>2, <1>4, <1>5, ListedIsSeq

\* The exporter adds a frame it has not yet.
LEMMA AddExports ==
  ASSUME NEW c, NEW F, NEW md, NEW f, Exports(c, F, md), f \notin F,
         \A g \in F \cup {f} : Listed(md[g].objects)
  PROVE  Exports(AddFrame(c, f, md[f]), F \cup {f}, md)
<1>1. CASE ~md[f].usable
  <2>1. AddFrame(c, f, md[f]) = c
    BY <1>1 DEF AddFrame
  <2>2. {g \in F : md[g].usable} = {g \in F \cup {f} : md[g].usable}
    BY <1>1
  <2> QED BY <2>1, <2>2 DEF Exports, Describes
<1>2. CASE md[f].usable
  <2> DEFINE n == Len(c.images)
             m == Len(c.anns)
             labels == Labels(md[f])
             entry == [id |-> n + 1, frame |-> f]
             new == [k \in DOMAIN labels |->
                       [id |-> m + k, image |-> n + 1, class |-> labels[k].class,
                        box |-> labels[k].box, tier |-> labels[k].tier]]
             images == Append(c.images, entry)
             anns == c.anns \o new
             d == AddFrame(c, f, md[f])
  <2>1. d = [images |-> images, anns |-> anns]
    BY <1>2 DEF AddFrame
  <2>2. Listed(labels) /\ DOMAIN labels = 1..Len(labels) /\ Len(labels) \in Nat
    BY ListedLabels, ListedIsSeq DEF Listed
  <2>3. Listed(c.images) /\ Listed(c.anns) /\ n \in Nat /\ m \in Nat
        /\ DOMAIN c.images = 1..n /\ DOMAIN c.anns = 1..m
    BY ListedIsSeq DEF Exports, Listed
  <2>4. /\ Listed(new) /\ Len(new) = Len(labels)
        /\ \A k \in 1..Len(labels) : /\ new[k].id = m + k /\ new[k].image = n + 1
                                     /\ new[k].class = labels[k].class /\ new[k].box = labels[k].box
                                     /\ new[k].tier = labels[k].tier
    <3> HIDE DEF labels
    <3>1. DOMAIN new = 1..Len(labels) /\ new = [k \in 1..Len(labels) |-> new[k]]
      BY <2>2
    <3>2. Listed(new) /\ Len(new) = Len(labels)
      <4> HIDE DEF new
      <4> QED BY <2>2, <3>1, ListedIsSeq
    <3> QED BY <2>2, <3>2
  <2> HIDE DEF labels, new, d, entry
  <2>5. /\ d.images = images /\ d.anns = anns /\ d = [images |-> d.images, anns |-> d.anns]
    BY <2>1
  <2>6. /\ Listed(images) /\ DOMAIN images = 1..(n + 1) /\ images[n + 1] = entry
        /\ \A k \in 1..n : images[k] = c.images[k]
    BY <2>3, AppendListed
  <2>7. /\ Listed(anns) /\ Len(anns) = m + Len(labels) /\ DOMAIN anns = 1..(m + Len(labels))
        /\ \A k \in 1..m : anns[k] = c.anns[k]
        /\ \A k \in 1..Len(labels) : anns[m + k] = new[k]
    <3>1. /\ Listed(c.anns \o new) /\ Len(c.anns \o new) = Len(c.anns) + Len(new)
          /\ DOMAIN (c.anns \o new) = 1..(Len(c.anns) + Len(new))
          /\ \A k \in 1..Len(c.anns) : (c.anns \o new)[k] = c.anns[k]
          /\ \A k \in 1..Len(new) : (c.anns \o new)[Len(c.anns) + k] = new[k]
      <4> DEFINE old == c.anns
      <4>1. Listed(old) /\ Listed(new)
        BY <2>3, <2>4
      <4> HIDE DEF old
      <4>2. /\ Listed(old \o new) /\ Len(old \o new) = Len(old) + Len(new)
            /\ DOMAIN (old \o new) = 1..(Len(old) + Len(new))
            /\ \A k \in 1..Len(old) : (old \o new)[k] = old[k]
            /\ \A k \in 1..Len(new) : (old \o new)[Len(old) + k] = new[k]
        BY <4>1, ConcatListed
      <4> QED BY <4>2 DEF old
    <3> QED BY <2>4, <3>1
  <2> HIDE DEF images, anns, n, m
  <2>8. entry.id = n + 1 /\ entry.frame = f
    BY DEF entry
  <2>9. /\ \A k \in 1..n : c.images[k].id = k /\ c.images[k].frame \in F
        /\ \A k \in 1..m : c.anns[k].id = k /\ c.anns[k].image \in 1..n
    BY <2>3 DEF Exports, Describes
  <2>10. \A k \in 1..(n + 1) : images[k].id = k
    BY <2>3, <2>6, <2>8, <2>9
  <2>11. \A k \in 1..(m + Len(labels)) : anns[k].id = k /\ anns[k].image \in 1..(n + 1)
    <3> SUFFICES ASSUME NEW k \in 1..(m + Len(labels))
                 PROVE  anns[k].id = k /\ anns[k].image \in 1..(n + 1)
      OBVIOUS
    <3>1. CASE k <= m
      BY <2>2, <2>3, <2>7, <2>9, <3>1
    <3>2. CASE k > m
      <4>1. k - m \in 1..Len(labels) /\ m + (k - m) = k
        BY <2>2, <2>3, <3>2
      <4>2. anns[k] = new[k - m]
        BY <2>7, <4>1
      <4> QED BY <2>3, <2>4, <4>1, <4>2
    <3> QED BY <2>2, <2>3, <3>1, <3>2
  <2>12. {images[k].frame : k \in 1..(n + 1)} = {g \in F \cup {f} : md[g].usable}
    <3>1. {c.images[k].frame : k \in 1..n} = {g \in F : md[g].usable}
      BY <2>3 DEF Exports, Describes
    <3>2. {images[k].frame : k \in 1..(n + 1)} = {c.images[k].frame : k \in 1..n} \cup {f}
      BY <2>3, <2>6, <2>8
    <3> QED BY <1>2, <3>1, <3>2
  <2>13. \A k, l \in 1..(n + 1) :
           images[k].id = images[l].id \/ images[k].frame = images[l].frame => k = l
    <3>1. \A k, l \in 1..n : c.images[k].frame = c.images[l].frame => k = l
      BY <2>3 DEF Exports, Describes
    <3>2. \A k \in 1..n : images[k].frame # f
      BY <2>6, <2>9
    <3> QED BY <2>3, <2>6, <2>8, <2>10, <3>1, <3>2
  <2>14. ASSUME NEW k \in 1..(n + 1) PROVE HoldsLabels(d, k, md)
    <3>1. CASE k = n + 1
      <4>1. Labels(md[d.images[k].frame]) = labels /\ d.images[k].id = n + 1
        BY <2>5, <2>6, <2>8, <3>1 DEF labels
      <4>2. {j \in DOMAIN anns : anns[j].image = n + 1} = (m + 1)..(m + Len(labels))
        <5>1. \A j \in 1..m : anns[j].image # n + 1
          BY <2>3, <2>7, <2>9
        <5>2. \A j \in (m + 1)..(m + Len(labels)) : anns[j].image = n + 1
          <6> SUFFICES ASSUME NEW j \in (m + 1)..(m + Len(labels)) PROVE anns[j].image = n + 1
            OBVIOUS
          <6>1. j - m \in 1..Len(labels) /\ m + (j - m) = j
            BY <2>2, <2>3
          <6> QED BY <2>4, <2>7, <6>1
        <5> QED BY <2>2, <2>3, <2>7, <5>1, <5>2
      <4>3. m \in 0..Len(anns)
        BY <2>2, <2>3, <2>7
      <4>4. \A j \in DOMAIN labels : /\ anns[m + j].class = labels[j].class /\ anns[m + j].box = labels[j].box
                                     /\ anns[m + j].tier = labels[j].tier
        BY <2>2, <2>4, <2>7
      <4> QED BY <2>5, <4>1, <4>2, <4>3, <4>4 DEF HoldsLabels
    <3>2. CASE k \in 1..n
      <4> DEFINE old == Labels(md[c.images[k].frame])
      <4>1. HoldsLabels(c, k, md) /\ d.images[k] = c.images[k] /\ c.images[k].id = k
        BY <2>3, <2>5, <2>6, <2>9, <3>2 DEF Exports, Describes
      <4>2. PICK first \in 0..m :
              /\ {j \in DOMAIN c.anns : c.anns[j].image = k} = (first + 1)..(first + Len(old))
              /\ \A j \in DOMAIN old : /\ c.anns[first + j].class = old[j].class
                                       /\ c.anns[first + j].box = old[j].box
                                       /\ c.anns[first + j].tier = old[j].tier
        BY <4>1 DEF HoldsLabels, m
      <4>3. {j \in DOMAIN anns : anns[j].image = k} = {j \in DOMAIN c.anns : c.anns[j].image = k}
        <5>1. ASSUME NEW j \in DOMAIN anns PROVE anns[j].image = k <=> j \in 1..m /\ c.anns[j].image = k
          <6>1. CASE j \in 1..m
            BY <2>7, <6>1
          <6>2. CASE j \notin 1..m
            <7>1. j - m \in 1..Len(labels) /\ m + (j - m) = j
              BY <2>2, <2>3, <2>7, <6>2
            <7>2. anns[j].image = n + 1
              BY <2>4, <2>7, <7>1
            <7> QED BY <2>3, <3>2, <6>2, <7>2
          <6> QED BY <6>1, <6>2
        <5> QED BY <2>2, <2>3, <2>7, <5>1
      <4>4. first \in 0..Len(anns)
        BY <2>2, <2>3, <2>7
      <4>5. ASSUME NEW j \in DOMAIN old
            PROVE  /\ anns[first + j].class = old[j].class /\ anns[first + j].box = old[j].box
                   /\ anns[first + j].tier = old[j].tier
        <5>1. first + j \in 1..m
          <6>1. DOMAIN old = 1..Len(old) /\ Len(old) \in Nat
            BY <2>9, <3>2, ListedLabels, ListedIsSeq DEF Listed
          <6>2. first + j \in (first + 1)..(first + Len(old))
            BY <6>1
          <6> QED BY <2>3, <4>2, <6>2
        <5> QED BY <2>7, <4>2, <5>1
      <4> HIDE DEF old
      <4>6. /\ {j \in DOMAIN d.anns : d.anns[j].image = d.images[k].id} = (first + 1)..(first + Len(old))
            /\ first \in 0..Len(d.anns)
            /\ \A j \in DOMAIN old : /\ d.anns[first + j].class = old[j].class
                                     /\ d.anns[first + j].box = old[j].box
                                     /\ d.anns[first + j].tier = old[j].tier
        BY <2>5, <4>1, <4>2, <4>3, <4>4, <4>5
      <4>7. Labels(md[d.images[k].frame]) = old
        BY <4>1 DEF old
      <4> QED BY <4>6, <4>7 DEF HoldsLabels
    <3> QED BY <2>3, <3>1, <3>2
  <2>15. \A i, j \in DOMAIN anns : anns[i].id = anns[j].id => i = j
    BY <2>7, <2>11
  <2>16. DOMAIN d.images = 1..(n + 1) /\ DOMAIN d.anns = 1..(m + Len(labels))
    BY <2>5, <2>6, <2>7
  <2>17. Describes(d, F \cup {f}, md)
    BY <2>5, <2>12, <2>13, <2>14, <2>15, <2>16 DEF Describes
  <2>18. Exports(d, F \cup {f}, md)
    BY <2>5, <2>6, <2>7, <2>10, <2>11, <2>16, <2>17 DEF Exports
  <2> QED BY <2>18 DEF d
<1> QED BY <1>1, <1>2

-----------------------------------------------------------------------------
(***************************************************************************)
(* The COCO file that is collected from the metadata on disk.              *)
(***************************************************************************)
\* Every frame has its place in the order of the names.
LEMMA AllFramesOf ==
  /\ Len(AllFrames) \in Nat /\ DOMAIN AllFrames = 1..Len(AllFrames)
  /\ \A n \in 1..Len(AllFrames) : AllFrames[n] \in Frames
  /\ \A n, k \in 1..Len(AllFrames) : AllFrames[n] = AllFrames[k] => n = k
  /\ \A f \in Frames : \E n \in 1..Len(AllFrames) : AllFrames[n] = f
<1> DEFINE M == Missions
           P == FramesPerMission
           N == M * P
<1>1. M \in Nat \ {0} /\ P \in Nat \ {0} /\ N \in Nat
  <2>1. M \in Nat \ {0} /\ P \in Nat \ {0}
    BY OutputAssumption
  <2> HIDE DEF M, P
  <2> QED BY <2>1
<1>2. AllFrames = [n \in 1..N |-> AllFrames[n]]
      /\ \A n \in 1..N : AllFrames[n] = <<((n - 1) \div P) + 1, ((n - 1) % P) + 1>>
  BY DEF AllFrames
<1>3. Len(AllFrames) = N /\ DOMAIN AllFrames = 1..N
  <2> HIDE DEF N
  <2> QED BY <1>1, <1>2, ListedIsSeq
<1>4. Frames = {<<m, i>> : m \in 1..M, i \in 1..P}
  BY DEF Frames, Mission
<1> HIDE DEF M, P
<1>5. ASSUME NEW n \in 1..N
      PROVE  /\ (n - 1) \div P \in 0..(M - 1) /\ (n - 1) % P \in 0..(P - 1)
             /\ n - 1 = P * ((n - 1) \div P) + ((n - 1) % P)
  <2> DEFINE q == (n - 1) \div P
             r == (n - 1) % P
  <2>1. q \in Int /\ r \in 0..(P - 1) /\ n - 1 = P * q + r
    BY <1>1
  <2>2. n - 1 \in Nat /\ n - 1 < M * P
    BY <1>1
  <2> HIDE DEF q, r
  <2>3. q >= 0
    <3> SUFFICES ASSUME q <= -1 PROVE FALSE
      BY <2>1
    <3>1. P * q <= P * (-1)
      BY <1>1, <2>1
    <3> QED BY <1>1, <2>1, <2>2, <3>1
  <2>4. q <= M - 1
    <3> SUFFICES ASSUME q >= M PROVE FALSE
      BY <1>1, <2>1
    <3>1. P * q >= P * M
      BY <1>1, <2>1
    <3>2. P * M = M * P
      BY <1>1
    <3> QED BY <1>1, <2>1, <2>2, <3>1, <3>2
  <2> QED BY <1>1, <2>1, <2>3, <2>4 DEF q, r
<1>6. ASSUME NEW n \in 1..N PROVE AllFrames[n] \in Frames
  <2> DEFINE m == ((n - 1) \div P) + 1
             i == ((n - 1) % P) + 1
  <2>1. m \in 1..M /\ i \in 1..P
    BY <1>1, <1>5
  <2>2. AllFrames[n] = <<m, i>>
    BY <1>2
  <2> HIDE DEF m, i
  <2> QED BY <1>4, <2>1, <2>2
<1>7. ASSUME NEW n \in 1..N, NEW k \in 1..N, AllFrames[n] = AllFrames[k] PROVE n = k
  <2>1. ((n - 1) \div P) + 1 = ((k - 1) \div P) + 1 /\ ((n - 1) % P) + 1 = ((k - 1) % P) + 1
    BY <1>2, <1>7
  <2>2. (n - 1) \div P \in Int /\ (k - 1) \div P \in Int /\ (n - 1) % P \in Int /\ (k - 1) % P \in Int
        /\ n \in Int /\ k \in Int
    BY <1>1, <1>5
  <2>3. (n - 1) \div P = (k - 1) \div P /\ (n - 1) % P = (k - 1) % P
    BY <2>1, <2>2
  <2>4. n - 1 = k - 1
    BY <1>5, <2>3
  <2> QED BY <2>2, <2>4
<1>8. ASSUME NEW m \in 1..M, NEW i \in 1..P PROVE \E n \in 1..N : AllFrames[n] = <<m, i>>
  <2> DEFINE n == P * (m - 1) + i
  <2>1. n \in 1..N
    <3>1. P * (m - 1) >= 0 /\ P * (m - 1) \in Int
      BY <1>1
    <3>2. P * (m - 1) <= P * (M - 1)
      BY <1>1
    <3>3. P * (M - 1) = M * P - P
      BY <1>1
    <3> QED BY <1>1, <3>1, <3>2, <3>3
  <2>2. (n - 1) \div P = m - 1 /\ (n - 1) % P = i - 1
    <3> DEFINE q == (n - 1) \div P
               r == (n - 1) % P
    <3>1. q \in Int /\ r \in 0..(P - 1) /\ n - 1 = P * q + r
      BY <1>5, <2>1, <1>1
    <3>2. n - 1 = P * (m - 1) + (i - 1) /\ i - 1 \in 0..(P - 1)
      BY <1>1
    <3> HIDE DEF q, r, n
    <3>3. P * (q - (m - 1)) = (i - 1) - r
      BY <1>1, <3>1, <3>2
    <3>4. q = m - 1
      <4>1. CASE q - (m - 1) >= 1
        <5>1. P * (q - (m - 1)) >= P
          BY <1>1, <3>1, <4>1
        <5> QED BY <1>1, <3>1, <3>2, <3>3, <5>1
      <4>2. CASE q - (m - 1) <= -1
        <5>1. P * (q - (m - 1)) <= -P
          BY <1>1, <3>1, <4>2
        <5> QED BY <1>1, <3>1, <3>2, <3>3, <5>1
      <4> QED BY <3>1, <4>1, <4>2
    <3>5. n - 1 = P * (m - 1) + r
      BY <3>1, <3>4
    <3>6. r = i - 1
      <4> DEFINE p == P * (m - 1)
      <4>1. p \in Int /\ n - 1 = p + r /\ n - 1 = p + (i - 1)
        BY <1>1, <3>2, <3>5
      <4> HIDE DEF p
      <4> QED BY <3>1, <4>1
    <3> QED BY <3>4, <3>6 DEF q, r
  <2> HIDE DEF n
  <2>3. AllFrames[n] = <<m, i>>
    BY <1>2, <2>1, <2>2
  <2> QED BY <2>1, <2>3
<1>9. \A f \in Frames : \E n \in 1..N : AllFrames[n] = f
  BY <1>4, <1>8
<1> HIDE DEF N
<1>10. \A n, k \in 1..N : AllFrames[n] = AllFrames[k] => n = k
  BY <1>7
<1> QED BY <1>1, <1>3, <1>6, <1>9, <1>10

\* The collection adds the whole files one by one, and the others are not usable.
LEMMA CollectedExports ==
  ASSUME \A f \in Frames : /\ Listed(metadata[f].objects)
                           /\ metadata[f].at # "whole" => metadata[f].usable = FALSE
  PROVE  Exports(Collected, Frames, metadata)
<1> DEFINE N == Len(AllFrames)
           next(n, x) == IF metadata[AllFrames[n]].at = "whole"
                         THEN AddFrame(x, AllFrames[n], metadata[AllFrames[n]]) ELSE x
           F == CHOOSE f : f = [n \in 0..N |-> IF n = 0 THEN NothingExported ELSE next(n, f[n - 1])]
           First(n) == {AllFrames[i] : i \in 1..n}
<1>1. N \in Nat /\ \A n \in 1..N : AllFrames[n] \in Frames
  BY AllFramesOf
<1>2. Collected = F[N]
  BY Zenon DEF Collected
<1>3. ASSUME NEW n \in 1..N, NEW x, Exports(x, First(n - 1), metadata)
      PROVE  Exports(next(n, x), First(n), metadata)
  <2>1. AllFrames[n] \notin First(n - 1)
    <3>1. \A i \in 1..(n - 1) : i \in 1..N /\ i # n
      BY <1>1
    <3> QED BY <3>1, AllFramesOf
  <2>2. First(n) = First(n - 1) \cup {AllFrames[n]} /\ First(n) \subseteq Frames
    <3>1. 1..n = (1..(n - 1)) \cup {n} /\ 1..n \subseteq 1..N
      BY <1>1
    <3> QED BY <1>1, <3>1
  <2> HIDE DEF First
  <2> DEFINE f == AllFrames[n]
  <2>3. f \in Frames
    BY <1>1
  <2> HIDE DEF f
  <2>4. CASE metadata[f].at = "whole"
    <3>1. Exports(AddFrame(x, f, metadata[f]), First(n - 1) \cup {f}, metadata)
      BY <1>3, <2>1, <2>2, AddExports DEF f
    <3> QED BY <2>2, <2>4, <3>1 DEF f
  <2>5. CASE metadata[f].at # "whole"
    <3>1. \A g \in First(n) \ First(n - 1) : metadata[g].usable = FALSE
      BY <2>2, <2>3, <2>5 DEF f
    <3>2. Exports(x, First(n), metadata)
      BY <1>3, <2>2, <3>1, ExportsMore
    <3> QED BY <2>5, <3>2 DEF f
  <2> QED BY <2>4, <2>5
<1>4. First(0) = {} /\ First(N) = Frames
  <2>1. 1..0 = {}
    OBVIOUS
  <2>2. First(N) \subseteq Frames /\ Frames \subseteq First(N)
    BY AllFramesOf
  <2> QED BY <2>1, <2>2
<1> HIDE DEF N, next, First
<1>5. \E g : g = [n \in 0..N |-> IF n = 0 THEN NothingExported ELSE next(n, g[n - 1])]
  <2> DEFINE Good(f, n) == /\ f = [k \in 0..n |-> f[k]] /\ f[0] = NothingExported
                           /\ \A k \in 1..n : f[k] = next(k, f[k - 1])
             P == {n \in 0..N : \E f : Good(f, n)}
  <2>1. 0 \in P
    <3> DEFINE f == [n \in 0..0 |-> NothingExported]
    <3>1. Good(f, 0)
      OBVIOUS
    <3> HIDE DEF f, Good
    <3> QED BY <1>1, <3>1
  <2>2. ASSUME NEW n \in 1..N, n - 1 \in P PROVE n \in P
    <3>1. PICK f : Good(f, n - 1)
      BY <2>2
    <3> DEFINE g == [k \in 0..n |-> IF k = n THEN next(n, f[n - 1]) ELSE f[k]]
    <3>2. g = [k \in 0..n |-> g[k]] /\ g[0] = NothingExported
      BY <3>1, <1>1
    <3>3. ASSUME NEW k \in 1..n PROVE g[k] = next(k, g[k - 1])
      <4>1. k \in 0..n /\ k - 1 \in 0..n /\ k - 1 # n /\ g[k - 1] = f[k - 1]
        BY <1>1
      <4>2. k # n => k \in 1..(n - 1) /\ g[k] = f[k]
        BY <1>1
      <4> QED BY <3>1, <4>1, <4>2
    <3> HIDE DEF g
    <3>4. Good(g, n)
      BY <3>2, <3>3
    <3> HIDE DEF Good
    <3> QED BY <1>1, <3>4
  <2> HIDE DEF P
  <2>3. N \in P
    BY <1>1, <2>1, <2>2, UpTo
  <2>4. PICK f : Good(f, N)
    BY <2>3 DEF P
  <2>5. f = [n \in 0..N |-> IF n = 0 THEN NothingExported ELSE next(n, f[n - 1])]
    <3>1. \A n \in 0..N : n # 0 => n \in 1..N
      BY <1>1
    <3>2. \A n \in 0..N : f[n] = IF n = 0 THEN NothingExported ELSE next(n, f[n - 1])
      BY <2>4, <3>1
    <3> QED BY <2>4, <3>2
  <2> QED BY <2>5
<1>6. F = [n \in 0..N |-> IF n = 0 THEN NothingExported ELSE next(n, F[n - 1])]
  BY <1>5
<1> HIDE DEF F
<1> DEFINE P == {n \in 0..N : Exports(F[n], First(n), metadata)}
<1>7. 0 \in P
  <2>1. F[0] = NothingExported
    BY <1>1, <1>6
  <2> QED BY <1>1, <1>4, <2>1, NoExports
<1>8. ASSUME NEW n \in 1..N, n - 1 \in P PROVE n \in P
  <2>1. n \in 0..N /\ n # 0 /\ n - 1 \in 0..N
    BY <1>1
  <2>2. F[n] = next(n, F[n - 1])
    BY <1>6, <2>1
  <2> QED BY <1>3, <1>8, <2>1, <2>2
<1> HIDE DEF P
<1>9. N \in P
  BY <1>1, <1>7, <1>8, UpTo
<1> QED BY <1>2, <1>4, <1>9 DEF P

-----------------------------------------------------------------------------
(***************************************************************************)
(* What lies on disk, and how far a command has come with it.              *)
(***************************************************************************)
Distinct(s) == \A i, j \in DOMAIN s : s[i] = s[j] => i = j

\* The files of one frame, whatever stopped where.
OnDisk(i, md) ==
  /\ md.at \in {"missing", "torn", "whole"} /\ Listed(md.objects)
  /\ md.at # "whole" => md.usable = FALSE
  /\ md.at = "whole" /\ ~md.kept /\ i.there => i.whole

OfFrames(c) ==
  /\ Listed(c.images) /\ \A k \in DOMAIN c.images : c.images[k].frame \in Frames
  /\ \A k, l \in DOMAIN c.images : c.images[k].frame = c.images[l].frame => k = l

DiskInv ==
  /\ yolo = [f \in Frames |-> yolo[f]] /\ \A f \in Frames : OnDisk(image[f], metadata[f])
  /\ Whole(coco) => OfFrames(coco.doc)
  /\ Listed(job.md.objects)

\* The old files of the frame are gone, or still being removed.
Cleared == {"unlink_yolo", "shoot", "metadata"}
Fresh == {"unlink_image", "unlink_metadata"} \cup Cleared
PCs == [none |-> {"idle"}, session |-> Fresh \cup {"yolo", "coco", "idle"},
        refine |-> WithFrame \cup {"collect", "coco", "idle"}, rebuild |-> {"collect", "coco", "idle"}]

\* The frames the command has done, and what it has done for them.
Ready == job.scope \ Range(job.left)
Done(md, labels) == md.at = "whole" /\ labels = Doc(YoloOf(md))

SessionInv ==
  job.kind = "session" /\ job.pc # "idle" =>
    /\ job.left \in Seq(Frames) /\ job.left # <<>> /\ Distinct(job.left)
    /\ job.scope \subseteq Frames /\ Range(job.left) \subseteq job.scope
    /\ \A f \in Ready : Done(metadata[f], yolo[f]) /\ image[f].whole
    /\ job.pc \in Cleared => metadata[Frame].at = "missing" \/ metadata[Frame].kept
    /\ job.pc = "metadata" \/ (job.pc = "shoot" /\ job.open) => job.md.at = "whole"
    /\ job.pc \in {"metadata", "yolo", "coco"} => image[Frame].whole
    /\ job.pc \in Fresh => Exports(job.exported, Ready, metadata)
    /\ job.pc \in {"yolo", "coco"} => /\ metadata[Frame] = job.md /\ job.md.at = "whole"
                                      /\ Exports(job.exported, Ready \cup {Frame}, metadata)
    /\ job.pc = "coco" => Done(metadata[Frame], yolo[Frame])

RefineInv ==
  job.kind = "refine" /\ job.pc # "idle" =>
    /\ job.left \in Seq(Frames) /\ job.scope \subseteq Frames /\ Range(job.left) \subseteq job.scope
    /\ \A f \in Ready : Done(metadata[f], yolo[f])
    /\ job.pc \in WithFrame => job.left # <<>>
    /\ job.pc = "rewrite" => metadata[Frame].at # "missing"
    /\ job.pc \in {"rewrite", "yolo"} => job.md.at = "whole"
    /\ job.pc = "rewrite" => OnDisk(image[Frame], job.md)
    /\ job.pc = "yolo" => metadata[Frame] = job.md
    /\ job.pc \in {"collect", "coco"} => job.left = <<>>

FileInv ==
  /\ DiskInv /\ job.pc \in PCs[job.kind] /\ SessionInv /\ RefineInv
  /\ job.kind \in {"refine", "rebuild"} /\ job.pc = "coco" => Exports(job.exported, Frames, metadata)
  /\ TrueWhenDone

LEMMA TailOf ==
  ASSUME NEW S, NEW s \in Seq(S), s # <<>>
  PROVE  /\ Head(s) \in S /\ Tail(s) \in Seq(S) /\ Range(s) \subseteq S
         /\ Range(s) = {Head(s)} \cup Range(Tail(s))
         /\ Distinct(s) => Head(s) \notin Range(Tail(s)) /\ Distinct(Tail(s))
<1>1. /\ Head(s) = s[1] /\ Tail(s) \in Seq(S) /\ Len(s) \in Nat \ {0} /\ DOMAIN s = 1..Len(s)
      /\ DOMAIN Tail(s) = 1..(Len(s) - 1)
      /\ \A k \in 1..(Len(s) - 1) : Tail(s)[k] = s[k + 1]
      /\ \A k \in 1..Len(s) : s[k] \in S
  OBVIOUS
<1> DEFINE t == Tail(s)
<1> HIDE DEF t
<1>2. Range(s) = {s[1]} \cup Range(t)
  <2>1. ASSUME NEW k \in 1..Len(s) PROVE s[k] \in {s[1]} \cup Range(t)
    <3>1. CASE k = 1
      BY <3>1
    <3>2. CASE k # 1
      <4>1. k - 1 \in 1..(Len(s) - 1) /\ (k - 1) + 1 = k
        BY <1>1, <3>2
      <4>2. t[k - 1] = s[k] /\ k - 1 \in DOMAIN t
        BY <1>1, <4>1 DEF t
      <4> QED BY <4>2 DEF Range
    <3> QED BY <3>1, <3>2
  <2>2. ASSUME NEW k \in 1..(Len(s) - 1) PROVE t[k] \in Range(s)
    <3>1. k + 1 \in DOMAIN s /\ t[k] = s[k + 1]
      BY <1>1 DEF t
    <3> QED BY <3>1 DEF Range
  <2>3. DOMAIN t = 1..(Len(s) - 1) /\ 1 \in DOMAIN s
    BY <1>1 DEF t
  <2> QED BY <1>1, <2>1, <2>2, <2>3 DEF Range
<1>3. ASSUME Distinct(s) PROVE s[1] \notin Range(t) /\ Distinct(t)
  <2>1. \A k \in DOMAIN t : k + 1 \in DOMAIN s /\ t[k] = s[k + 1] /\ k \in 1..(Len(s) - 1)
    BY <1>1 DEF t
  <2>2. 1 \in DOMAIN s /\ \A k \in 1..(Len(s) - 1) : k + 1 # 1
    BY <1>1
  <2>3. \A k, l \in 1..(Len(s) - 1) : k + 1 = l + 1 => k = l
    BY <1>1
  <2> QED BY <1>3, <2>1, <2>2, <2>3 DEF Distinct, Range
<1>4. Range(s) \subseteq S
  BY <1>1 DEF Range
<1> QED BY <1>1, <1>2, <1>3, <1>4 DEF t

LEMMA ExportsOfFrames ==
  ASSUME NEW c, NEW F \in SUBSET Frames, NEW md, Exports(c, F, md)
  PROVE  OfFrames(c) /\ Describes(c, F, md)
BY DEF Exports, Describes, OfFrames

LEMMA Docs == /\ \A x : Doc(x).at = "whole" /\ Doc(x).doc = x
              /\ Torn.at = "torn" /\ Missing.at = "missing" /\ Listed(<<>>)
<1>1. <<>> \in Seq({})
  OBVIOUS
<1>2. Listed(<<>>)
  BY <1>1, ListedIsSeq
<1> QED BY <1>2 DEF Doc, Torn, Missing

\* The objects of a picture stay listed when they are built and refined.
LEMMA BuiltListed == ASSUME NEW shot, NEW s \in Scenes PROVE Listed(Built(shot, s).objects)
<1> DEFINE T == {o \in Range(s.objects) : o.class \in ALLOWED_CLASSES}
           seen == Those(s.objects, T)
           objects == [k \in DOMAIN seen |-> BuildObject(seen[k])]
<1>1. s.objects \in Seq(RawObject)
  BY OutputAssumption DEF Scene
<1> HIDE DEF T
<1>2. Len(seen) \in Nat /\ DOMAIN seen = 1..Len(seen)
  <2>1. seen \in Seq(RawObject)
    BY <1>1, ThoseOf
  <2> HIDE DEF seen
  <2> QED BY <2>1
<1>3. Built(shot, s).objects = objects
  BY DEF Built, T
<1> HIDE DEF seen
<1>4. objects = [k \in 1..Len(seen) |-> objects[k]]
  BY <1>2
<1> HIDE DEF objects
<1> QED BY <1>2, <1>3, <1>4, ListedIsSeq

LEMMA RefinedFile ==
  ASSUME NEW md, Fields(md), Listed(md.objects), NEW c, NEW readable
  PROVE  /\ Listed(Refined(md, c, readable).objects) /\ Refined(md, c, readable).at = md.at
         /\ Refined(md, c, readable).kept = md.kept
<1> DEFINE objects == [k \in DOMAIN md.objects |-> RefineObject(md.objects[k], c)]
           usable == Usable(md.scene, objects)
           by == Append(md.by, c)
           new == [md EXCEPT !.objects = objects, !.usable = usable, !.by = by]
<1>1. Refined(md, c, readable) = IF ~readable THEN md ELSE new
  BY DEF Refined
<1>2. new = [md EXCEPT !.objects = objects, !.usable = usable, !.by = by]
  OBVIOUS
<1>3. Listed(objects)
  <2>1. Len(md.objects) \in Nat /\ DOMAIN md.objects = 1..Len(md.objects)
    BY ListedIsSeq DEF Listed
  <2>2. objects = [k \in 1..Len(md.objects) |-> objects[k]]
    BY <2>1
  <2> HIDE DEF objects
  <2> QED BY <2>1, <2>2, ListedIsSeq
<1> HIDE DEF objects, usable, by, new
<1>4. new.objects = objects /\ new.at = md.at /\ new.kept = md.kept
  BY <1>2 DEF Fields
<1> QED BY <1>1, <1>3, <1>4

(***************************************************************************)
(* Where a step leaves the command, in full.                               *)
(***************************************************************************)
Remembers(j, k) == k.md = j.md /\ k.exported = j.exported
SameFrames(j, k) == k.kind = j.kind /\ k.scope = j.scope /\ k.left = j.left

LEMMA GoToFields ==
  ASSUME GoodJob(job), NEW pc, GoTo(pc)
  PROVE  job'.pc = pc /\ job'.open = FALSE /\ SameFrames(job, job') /\ Remembers(job, job')
<1> DEFINE j == job'
<1>1. j = [job EXCEPT !.pc = pc, !.open = FALSE] /\ JobFields(job)
  BY DEF GoTo, GoodJob
<1> HIDE DEF j
<1>2. j.pc = pc /\ j.open = FALSE /\ SameFrames(job, j) /\ Remembers(job, j)
  BY <1>1 DEF JobFields, SameFrames, Remembers
<1> QED BY <1>2 DEF j

LEMMA OpenedFields ==
  ASSUME GoodJob(job), Opened
  PROVE  job'.pc = job.pc /\ SameFrames(job, job') /\ Remembers(job, job')
<1> DEFINE j == job'
<1>1. j = [job EXCEPT !.open = TRUE] /\ JobFields(job)
  BY DEF Opened, GoodJob
<1> HIDE DEF j
<1>2. j.pc = job.pc /\ SameFrames(job, j) /\ Remembers(job, j)
  BY <1>1 DEF JobFields, SameFrames, Remembers
<1> QED BY <1>2 DEF j

LEMMA EndsFields ==
  ASSUME NEW result, Ends(result)
  PROVE  /\ job'.pc = "idle" /\ job'.kind = job.kind /\ job'.scope = job.scope
         /\ job'.result = result /\ job'.md = NoMetadata
BY DEF Ends, NoJob

LEMMA StartsFields ==
  ASSUME NEW kind \in {"session", "refine", "rebuild"}, NEW frames, NEW c, Starts(kind, frames, c)
  PROVE  /\ job'.pc = IF kind = "refine" /\ frames = <<>> THEN "collect" ELSE FirstStep[kind]
         /\ job'.kind = kind /\ job'.scope = Range(frames) /\ job'.left = frames
         /\ job'.open = FALSE /\ job'.md = NoMetadata /\ job'.exported = NothingExported
<1> DEFINE pc == IF kind = "refine" /\ frames = <<>> THEN "collect" ELSE FirstStep[kind]
           range == Range(frames)
<1>1. job' = [NoJob EXCEPT !.kind = kind, !.scope = range, !.config = c, !.left = frames, !.pc = pc]
  BY DEF Starts
<1> HIDE DEF pc, range
<1>2. /\ job'.pc = pc /\ job'.kind = kind /\ job'.scope = range /\ job'.left = frames
      /\ job'.open = FALSE /\ job'.md = NoMetadata /\ job'.exported = NothingExported
  BY <1>1 DEF NoJob
<1> QED BY <1>2 DEF pc, range

LEMMA NextFields ==
  ASSUME GoodJob(job), NEW last, NextFrame(last)
  PROVE  /\ job'.pc = IF Tail(job.left) = <<>> THEN last ELSE FirstStep[job.kind]
         /\ job'.kind = job.kind /\ job'.scope = job.scope /\ job'.left = Tail(job.left)
         /\ job'.open = FALSE /\ Remembers(job, job')
<1> DEFINE j == job'
           pc == IF Tail(job.left) = <<>> THEN last ELSE FirstStep[job.kind]
           left == Tail(job.left)
<1>1. j = [job EXCEPT !.left = left, !.open = FALSE, !.pc = pc] /\ JobFields(job)
  BY DEF NextFrame, GoodJob
<1> HIDE DEF j, pc, left
<1>2. /\ j.pc = pc /\ j.kind = job.kind /\ j.scope = job.scope /\ j.left = left /\ j.open = FALSE
      /\ Remembers(job, j)
  BY <1>1 DEF JobFields, Remembers
<1> QED BY <1>2 DEF j, pc, left

LEMMA StillRunning == ASSUME job'.pc # "idle" PROVE TrueWhenDone'
BY DEF TrueWhenDone, Succeeded, Running

LEMMA KindOf ==
  ASSUME OutputInv, FileInv
  PROVE  /\ job.pc \in Fresh => job.kind = "session"
         /\ job.pc \in {"reread", "rewrite"} => job.kind = "refine"
         /\ job.pc = "yolo" => job.kind \in {"session", "refine"}
         /\ job.pc = "collect" => job.kind \in {"refine", "rebuild"}
         /\ job.pc = "coco" => job.kind \in {"session", "refine", "rebuild"}
         /\ GoodJob(job)
<1>1. job.kind \in {"none", "session", "refine", "rebuild"} /\ job.pc \in PCs[job.kind] /\ GoodJob(job)
  BY DEF OutputInv, GoodJob, FileInv
<1> QED BY <1>1 DEF PCs, Fresh, Cleared, WithFrame

\* The frame a command is at, and those before and after it.
LEMMA AtFrame ==
  ASSUME FileInv, job.pc # "idle", job.left # <<>>, job.kind \in {"session", "refine"}
  PROVE  /\ Frame \in Frames /\ Frame \in job.scope /\ Frame \notin Ready /\ Ready \subseteq Frames
         /\ Tail(job.left) \in Seq(Frames) /\ Range(Tail(job.left)) \subseteq job.scope
         /\ job.scope \ Range(Tail(job.left)) \subseteq Ready \cup {Frame}
         /\ job.kind = "session" => /\ Distinct(Tail(job.left))
                                    /\ job.scope \ Range(Tail(job.left)) = Ready \cup {Frame}
<1>1. /\ job.left \in Seq(Frames) /\ job.scope \subseteq Frames /\ Range(job.left) \subseteq job.scope
      /\ job.kind = "session" => Distinct(job.left)
  BY DEF FileInv, SessionInv, RefineInv
<1> DEFINE s == job.left
<1> HIDE DEF s
<1>2. /\ Head(s) \in Frames /\ Tail(s) \in Seq(Frames)
      /\ Range(s) = {Head(s)} \cup Range(Tail(s))
      /\ Distinct(s) => Head(s) \notin Range(Tail(s)) /\ Distinct(Tail(s))
  BY <1>1, TailOf DEF s
<1> QED BY <1>1, <1>2 DEF Frame, Ready, s

-----------------------------------------------------------------------------
(***************************************************************************)
(* Every step keeps the files in order.                                    *)
(***************************************************************************)
LEMMA FileInit == Init => FileInv
<1> SUFFICES ASSUME Init PROVE FileInv
  OBVIOUS
<1>1. /\ job.kind = "none" /\ job.pc = "idle" /\ job.md = NoMetadata /\ job.result = "none"
  BY DEF Init, NoJob
<1>2. NoMetadata.at = "missing" /\ NoMetadata.usable = FALSE /\ Listed(NoMetadata.objects)
  BY Docs DEF NoMetadata
<1>3. DiskInv
  BY <1>1, <1>2, Docs DEF Init, DiskInv, OnDisk, Whole
<1>4. job.pc \in PCs[job.kind]
  BY <1>1 DEF PCs
<1>5. TrueWhenDone
  BY <1>1 DEF TrueWhenDone, Succeeded
<1> QED BY <1>1, <1>3, <1>4, <1>5 DEF FileInv, SessionInv, RefineInv

LEMMA FileEnds ==
  ASSUME OutputInv, FileInv, NEW result, result # "ok", Ends(result), UNCHANGED files
  PROVE  FileInv'
<1>1. job'.pc = "idle" /\ job'.kind = job.kind /\ job'.result # "ok" /\ job'.md = NoMetadata
  BY EndsFields
<1>2. Listed(NoMetadata.objects)
  BY Docs DEF NoMetadata
<1>3. DiskInv'
  BY <1>1, <1>2 DEF FileInv, DiskInv, files
<1>4. job'.pc \in PCs[job'.kind]
  BY <1>1 DEF PCs, OutputInv, GoodJob
<1>5. TrueWhenDone'
  BY <1>1 DEF TrueWhenDone, Succeeded
<1> QED BY <1>1, <1>3, <1>4, <1>5 DEF FileInv, SessionInv, RefineInv

\* A command starts with no frame done, and nothing exported.
LEMMA FileStarts ==
  ASSUME FileInv, UNCHANGED files, NEW c, NEW kind \in {"session", "refine", "rebuild"},
         NEW frames \in Seq(Frames), kind = "session" => frames # <<>> /\ Distinct(frames),
         Starts(kind, frames, c)
  PROVE  FileInv'
<1>1. /\ job'.pc = IF kind = "refine" /\ frames = <<>> THEN "collect" ELSE FirstStep[kind]
      /\ job'.kind = kind /\ job'.scope = Range(frames) /\ job'.left = frames
      /\ job'.open = FALSE /\ job'.md = NoMetadata /\ job'.exported = NothingExported
  BY StartsFields
<1>2. /\ kind = "session" => job'.pc = "unlink_image"
      /\ kind = "refine" => job'.pc = IF frames = <<>> THEN "collect" ELSE "reread"
      /\ kind = "rebuild" => job'.pc = "collect"
  BY <1>1 DEF FirstStep
<1>3. DiskInv'
  <2>1. Listed(NoMetadata.objects)
    BY Docs DEF NoMetadata
  <2> QED BY <1>1, <2>1 DEF FileInv, DiskInv, files
<1>4. job'.pc \in PCs[job'.kind] /\ job'.pc # "idle"
  BY <1>1, <1>2 DEF PCs, WithFrame, Fresh
<1>5. Range(frames) \subseteq Frames /\ Ready' = {}
  <2>1. Range(frames) \subseteq Frames
    BY DEF Range
  <2>2. Ready' = job'.scope \ Range(job'.left)
    BY DEF Ready
  <2> QED BY <1>1, <2>1, <2>2
<1>6. SessionInv'
  <2>1. Exports(NothingExported, {}, metadata')
    BY NoExports
  <2> SUFFICES ASSUME kind = "session" PROVE SessionInv'
    BY <1>1 DEF SessionInv
  <2>2. job'.pc \notin Cleared
    BY <1>2 DEF Cleared
  <2> QED BY <1>1, <1>2, <1>5, <2>1, <2>2 DEF SessionInv
<1>7. RefineInv'
  BY <1>1, <1>2, <1>5 DEF RefineInv, WithFrame
<1> QED BY <1>1, <1>2, <1>3, <1>4, <1>6, <1>7, StillRunning DEF FileInv

LEMMA FileClear == ASSUME OutputInv, ImageInv, FileInv, ClearArtifact PROVE FileInv'
<1>1. job.pc \in {"unlink_image", "unlink_metadata", "unlink_yolo"} /\ coco' = coco
  BY DEF ClearArtifact, At
<1>2. job.kind = "session" /\ job.pc # "idle" /\ GoodJob(job)
  BY <1>1, KindOf DEF Fresh, Cleared
<1>3. /\ job'.open = FALSE /\ SameFrames(job, job') /\ Remembers(job, job')
      /\ job.pc = "unlink_image" => job'.pc = "unlink_metadata"
      /\ job.pc = "unlink_metadata" => job'.pc = "unlink_yolo"
      /\ job.pc = "unlink_yolo" => job'.pc = "shoot"
  BY <1>1, <1>2, GoToFields DEF ClearArtifact, At
<1>4. /\ Frame \in Frames /\ Frame \notin Ready /\ Ready \subseteq Frames /\ job.left # <<>>
      /\ Frame' = Frame /\ Ready' = Ready
  BY <1>2, <1>3, AtFrame DEF FileInv, SessionInv, Frame, Ready, SameFrames
<1>5. /\ yolo' = [f \in Frames |-> yolo'[f]]
      /\ \A f \in Frames : f # Frame => /\ image'[f] = image[f] /\ metadata'[f] = metadata[f]
                                        /\ yolo'[f] = yolo[f]
  BY DEF ClearArtifact, OutputInv, ImageInv, FileInv, DiskInv
<1>6. /\ \/ metadata'[Frame] = metadata[Frame] /\ job.pc # "unlink_metadata"
         \/ metadata'[Frame] = NoMetadata
         \/ /\ metadata'[Frame].at = metadata[Frame].at /\ metadata'[Frame].kept
            /\ metadata'[Frame].objects = metadata[Frame].objects
            /\ metadata'[Frame].usable = metadata[Frame].usable
      /\ image'[Frame] = image[Frame] \/ image'[Frame] = NoImage
  <2> DEFINE md == [metadata[Frame] EXCEPT !.kept = TRUE]
  <2>1. /\ \/ metadata' = metadata /\ job.pc # "unlink_metadata"
           \/ metadata' = [metadata EXCEPT ![Frame] = NoMetadata]
           \/ metadata' = [metadata EXCEPT ![Frame] = md]
        /\ image'[Frame] = image[Frame] \/ image'[Frame] = NoImage
    BY <1>1, <1>4 DEF ClearArtifact, At, ImageInv
  <2>2. /\ md.at = metadata[Frame].at /\ md.kept = TRUE /\ md.objects = metadata[Frame].objects
        /\ md.usable = metadata[Frame].usable
    BY <1>4, KeptFields DEF OutputInv, GoodMetadata
  <2> HIDE DEF md
  <2> QED BY <1>4, <2>1, <2>2 DEF OutputInv
<1>7. NoMetadata.at = "missing" /\ NoMetadata.usable = FALSE /\ Listed(NoMetadata.objects)
      /\ NoImage.there = FALSE
  BY Docs DEF NoMetadata, NoImage
<1>8. DiskInv'
  <2>1. \A f \in Frames : OnDisk(image'[f], metadata'[f])
    BY <1>4, <1>5, <1>6, <1>7 DEF FileInv, DiskInv, OnDisk
  <2> QED BY <1>1, <1>3, <1>5, <2>1 DEF FileInv, DiskInv, Remembers
<1>9. job'.pc \in PCs[job'.kind] /\ job'.pc # "idle" /\ job'.kind = "session"
  BY <1>1, <1>2, <1>3 DEF PCs, Fresh, Cleared, SameFrames
<1>10. SessionInv'
  <2>1. Exports(job.exported, Ready, metadata')
    <3>1. Exports(job.exported, Ready, metadata)
      BY <1>1, <1>2 DEF FileInv, SessionInv, Fresh, Cleared
    <3> QED BY <1>4, <1>5, <3>1, ExportsKept
  <2>2. \A f \in Ready : Done(metadata'[f], yolo'[f]) /\ image'[f].whole
    BY <1>2, <1>4, <1>5 DEF FileInv, SessionInv
  <2>3. job'.pc \in Cleared => metadata'[Frame].at = "missing" \/ metadata'[Frame].kept
    BY <1>1, <1>2, <1>3, <1>6, <1>7 DEF FileInv, SessionInv, Cleared
  <2>4. job'.pc \in {"unlink_metadata", "unlink_yolo", "shoot"}
    BY <1>1, <1>3
  <2> QED BY <1>2, <1>3, <1>4, <2>1, <2>2, <2>3, <2>4
      DEF FileInv, SessionInv, SameFrames, Remembers
<1> QED BY <1>8, <1>9, <1>10, StillRunning DEF FileInv, RefineInv

LEMMA FileShoot == ASSUME OutputInv, ImageInv, FileInv, Shoot PROVE FileInv'
<1>1. job.pc = "shoot" /\ metadata' = metadata /\ yolo' = yolo /\ coco' = coco
  BY DEF Shoot, At
<1>2. job.kind = "session" /\ job.pc # "idle" /\ GoodJob(job) /\ job.pc \in Cleared /\ job.pc \in Fresh
  BY <1>1, KindOf DEF Fresh, Cleared
<1>3. CASE Ends("failed") /\ image' = image
  BY <1>1, <1>3, FileEnds DEF files
<1>4. CASE ~(Ends("failed") /\ image' = image)
  <2>1. \/ \E s \in Scenes : /\ job' = [job EXCEPT !.open = TRUE, !.md = Built(shots + 1, s)]
                             /\ image' = [image EXCEPT ![Frame] =
                                            [there |-> TRUE, whole |-> FALSE, shot |-> shots + 1]]
        \/ /\ job.open /\ GoTo("metadata")
           /\ image' = [image EXCEPT ![Frame] = [image[Frame] EXCEPT !.whole = TRUE]]
    BY <1>4 DEF Shoot
  <2>2. /\ SameFrames(job, job') /\ job'.exported = job.exported
        /\ \/ job'.pc = "shoot"
           \/ job'.pc = "metadata" /\ image' = [image EXCEPT ![Frame] = [image[Frame] EXCEPT !.whole = TRUE]]
        /\ job'.md.at = "whole" /\ Listed(job'.md.objects)
    <3>1. CASE \E s \in Scenes : job' = [job EXCEPT !.open = TRUE, !.md = Built(shots + 1, s)]
      <4>1. PICK s \in Scenes : job' = [job EXCEPT !.open = TRUE, !.md = Built(shots + 1, s)]
        BY <3>1
      <4> DEFINE md == Built(shots + 1, s)
                 j == job'
      <4>2. md.at = "whole" /\ Listed(md.objects)
        BY BuiltFields, BuiltListed
      <4>3. j = [job EXCEPT !.open = TRUE, !.md = md] /\ JobFields(job)
        BY <1>2, <4>1 DEF GoodJob
      <4> HIDE DEF md, j
      <4>4. SameFrames(job, j) /\ j.exported = job.exported /\ j.pc = job.pc /\ j.md = md
        BY <4>3 DEF SameFrames, JobFields
      <4> QED BY <1>1, <4>2, <4>4 DEF j
    <3>2. CASE job.open /\ GoTo("metadata") /\ image' = [image EXCEPT ![Frame] = [image[Frame] EXCEPT !.whole = TRUE]]
      <4>1. job.md.at = "whole" /\ Listed(job.md.objects)
        BY <1>1, <1>2, <3>2 DEF FileInv, SessionInv, DiskInv
      <4> QED BY <1>2, <3>2, <4>1, GoToFields DEF Remembers
    <3> QED BY <2>1, <3>1, <3>2
  <2>3. /\ Frame \in Frames /\ Frame \notin Ready /\ Ready \subseteq Frames
        /\ Frame' = Frame /\ Ready' = Ready
    BY <1>2, <2>2, AtFrame DEF FileInv, SessionInv, Frame, Ready, SameFrames
  <2>4. \A f \in Frames : f # Frame => image'[f] = image[f]
    BY <2>1 DEF ImageInv
  <2>5. job'.pc = "metadata" => image'[Frame].whole
    <3> SUFFICES ASSUME image' = [image EXCEPT ![Frame] = [image[Frame] EXCEPT !.whole = TRUE]]
                 PROVE  image'[Frame].whole
      BY <2>2
    <3> DEFINE p == image[Frame]
               i == [p EXCEPT !.whole = TRUE]
    <3>1. ImageFields(p) /\ i = [p EXCEPT !.whole = TRUE] /\ image'[Frame] = i
      BY <2>3 DEF ImageInv
    <3> HIDE DEF p, i
    <3>2. i.whole
      BY <3>1 DEF ImageFields
    <3> QED BY <3>1, <3>2
  <2>6. metadata[Frame].at = "missing" \/ metadata[Frame].kept
    BY <1>2 DEF FileInv, SessionInv
  <2>7. DiskInv'
    <3>1. \A f \in Frames : OnDisk(image'[f], metadata'[f])
      BY <1>1, <2>4, <2>6 DEF FileInv, DiskInv, OnDisk
    <3> QED BY <1>1, <2>2, <3>1 DEF FileInv, DiskInv
  <2>8. job'.pc \in PCs[job'.kind] /\ job'.pc # "idle" /\ job'.kind = "session"
    BY <1>2, <2>2 DEF PCs, Fresh, Cleared, SameFrames
  <2>9. SessionInv'
    <3>1. Exports(job.exported, Ready, metadata)
      BY <1>2 DEF FileInv, SessionInv
    <3>2. \A f \in Ready : Done(metadata[f], yolo[f]) /\ image'[f].whole
      BY <1>2, <2>3, <2>4 DEF FileInv, SessionInv
    <3> QED BY <1>1, <1>2, <2>2, <2>3, <2>5, <2>6, <3>1, <3>2 DEF FileInv, SessionInv, SameFrames
  <2> QED BY <2>7, <2>8, <2>9, StillRunning DEF FileInv, RefineInv
<1> QED BY <1>3, <1>4

\* The frame is exported as it is written.
LEMMA FileMetadata == ASSUME OutputInv, ImageInv, FileInv, WriteMetadata PROVE FileInv'
<1> DEFINE md == Refined(job.md, job.config, image[Frame].whole)
           exported == AddFrame(job.exported, Frame, md)
<1>0. CASE Ends("failed") /\ metadata' = metadata
  BY <1>0, FileEnds DEF WriteMetadata, files
<1> SUFFICES ASSUME ~(Ends("failed") /\ metadata' = metadata) PROVE FileInv'
  BY <1>0
<1>1. /\ job.pc = "metadata" /\ image' = image /\ yolo' = yolo /\ coco' = coco
      /\ metadata' = [metadata EXCEPT ![Frame] = md]
      /\ job' = [job EXCEPT !.pc = "yolo", !.md = md, !.exported = exported]
  BY DEF WriteMetadata, At
<1>2. job.kind = "session" /\ job.pc # "idle" /\ GoodJob(job) /\ job.pc \in Cleared /\ job.pc \in Fresh
  BY <1>1, KindOf DEF Fresh, Cleared
<1>3. /\ Frame \in Frames /\ Frame \notin Ready /\ Ready \subseteq Frames
  BY <1>2, AtFrame DEF FileInv, SessionInv
<1>4. /\ Exports(job.exported, Ready, metadata) /\ job.md.at = "whole" /\ image[Frame].whole
      /\ Listed(job.md.objects)
  BY <1>1, <1>2 DEF FileInv, SessionInv, DiskInv
<1>5. md.at = "whole" /\ Listed(md.objects)
  <2>1. Fields(job.md)
    BY <1>2 DEF GoodJob, GoodMetadata
  <2> QED BY <1>4, <2>1, RefinedFile
<1> HIDE DEF md
<1>6. metadata'[Frame] = md /\ \A f \in Frames : f # Frame => metadata'[f] = metadata[f]
  BY <1>1, <1>3 DEF OutputInv
<1>7. Exports(exported, Ready \cup {Frame}, metadata')
  <2> DEFINE new == metadata'
  <2>1. Exports(job.exported, Ready, new)
    BY <1>3, <1>4, <1>6, ExportsKept
  <2>2. \A f \in Ready \cup {Frame} : Listed(new[f].objects)
    BY <1>3, <1>5, <1>6 DEF FileInv, DiskInv, OnDisk
  <2>3. md = new[Frame]
    BY <1>6
  <2> HIDE DEF new
  <2>4. Exports(AddFrame(job.exported, Frame, new[Frame]), Ready \cup {Frame}, new)
    BY <1>3, <2>1, <2>2, AddExports
  <2> QED BY <2>3, <2>4 DEF new
<1> HIDE DEF exported
<1>8. job'.pc = "yolo" /\ SameFrames(job, job') /\ job'.md = md /\ job'.exported = exported
  <2> DEFINE j == job'
  <2>1. j = [job EXCEPT !.pc = "yolo", !.md = md, !.exported = exported] /\ JobFields(job)
    BY <1>1, <1>2 DEF GoodJob
  <2> HIDE DEF j
  <2>2. j.pc = "yolo" /\ SameFrames(job, j) /\ j.md = md /\ j.exported = exported
    BY <2>1 DEF JobFields, SameFrames
  <2> QED BY <2>2 DEF j
<1>9. Frame' = Frame /\ Ready' = Ready
  BY <1>8 DEF Frame, Ready, SameFrames
<1>10. DiskInv'
  <2>1. \A f \in Frames : OnDisk(image'[f], metadata'[f])
    BY <1>1, <1>4, <1>5, <1>6 DEF FileInv, DiskInv, OnDisk
  <2> QED BY <1>1, <1>5, <1>8, <2>1 DEF FileInv, DiskInv
<1>11. job'.pc \in PCs[job'.kind] /\ job'.pc # "idle" /\ job'.kind = "session"
  BY <1>2, <1>8 DEF PCs, SameFrames
<1>12. SessionInv'
  <2>1. \A f \in Ready : Done(metadata'[f], yolo'[f]) /\ image'[f].whole
    BY <1>1, <1>2, <1>3, <1>6 DEF FileInv, SessionInv
  <2>2. job'.pc \notin Fresh /\ job'.pc \notin Cleared
    BY <1>8 DEF Fresh, Cleared
  <2> QED BY <1>1, <1>2, <1>4, <1>5, <1>6, <1>7, <1>8, <1>9, <2>1, <2>2 DEF FileInv, SessionInv, SameFrames
<1> QED BY <1>10, <1>11, <1>12, StillRunning DEF FileInv, RefineInv

LEMMA FileReread == ASSUME OutputInv, ImageInv, FileInv, Reread PROVE FileInv'
<1>1. job.pc = "reread" /\ UNCHANGED files
  BY DEF Reread, At
<1>2. job.kind = "refine" /\ job.pc # "idle" /\ GoodJob(job) /\ job.pc \in WithFrame
  BY <1>1, KindOf DEF WithFrame
<1>3. CASE Ends("failed")
  BY <1>1, <1>3, FileEnds
<1>4. CASE /\ metadata[Frame].at = "whole"
           /\ \E seen \in AsSeen(Frame, job.config.version) :
                job' = [job EXCEPT !.pc = "rewrite", !.md = Refined(seen, job.config, image[Frame].whole)]
  <2>0. PICK seen \in AsSeen(Frame, job.config.version) :
             job' = [job EXCEPT !.pc = "rewrite", !.md = Refined(seen, job.config, image[Frame].whole)]
    BY <1>4
  <2> DEFINE md == Refined(seen, job.config, image[Frame].whole)
  <2>1. Frame \in Frames
    BY <1>2, AtFrame DEF FileInv, RefineInv
  <2>2. md.at = "whole" /\ Listed(md.objects) /\ OnDisk(image[Frame], md)
    <3>1. Listed(metadata[Frame].objects) /\ OnDisk(image[Frame], metadata[Frame])
      BY <2>1 DEF FileInv, DiskInv, OnDisk
    <3>2. /\ Fields(seen) /\ Listed(seen.objects) /\ seen.at = "whole"
          /\ seen.kept = metadata[Frame].kept
      BY <1>4, <2>1, <3>1, SeenAgain
    <3>3. md.at = "whole" /\ Listed(md.objects) /\ md.kept = metadata[Frame].kept
      BY <3>2, RefinedFile
    <3> QED BY <1>4, <3>1, <3>3 DEF OnDisk
  <2>M. job' = [job EXCEPT !.pc = "rewrite", !.md = md]
    BY <2>0
  <2> HIDE DEF md
  <2>3. job'.pc = "rewrite" /\ SameFrames(job, job') /\ job'.md = md
    <3> DEFINE j == job'
    <3>1. j = [job EXCEPT !.pc = "rewrite", !.md = md] /\ JobFields(job)
      BY <1>2, <2>M DEF GoodJob
    <3> HIDE DEF j
    <3>2. j.pc = "rewrite" /\ SameFrames(job, j) /\ j.md = md
      BY <3>1 DEF JobFields, SameFrames
    <3> QED BY <3>2 DEF j
  <2>4. Frame' = Frame /\ Ready' = Ready
    BY <2>3 DEF Frame, Ready, SameFrames
  <2>5. DiskInv'
    BY <1>1, <2>2, <2>3 DEF FileInv, DiskInv, files
  <2>6. job'.pc \in PCs[job'.kind] /\ job'.pc # "idle" /\ job'.kind = "refine"
    BY <1>2, <2>3 DEF PCs, WithFrame, SameFrames
  <2>7. RefineInv'
    BY <1>1, <1>2, <1>4, <2>2, <2>3, <2>4 DEF FileInv, RefineInv, SameFrames, files
  <2> QED BY <2>3, <2>5, <2>6, <2>7, StillRunning DEF FileInv, SessionInv
<1> QED BY <1>3, <1>4 DEF Reread

LEMMA FileRewrite == ASSUME OutputInv, ImageInv, FileInv, Rewrite PROVE FileInv'
<1>1. job.pc = "rewrite" /\ image' = image /\ yolo' = yolo /\ coco' = coco
  BY DEF Rewrite, At
<1>2. job.kind = "refine" /\ job.pc # "idle" /\ GoodJob(job) /\ job.pc \in WithFrame
  BY <1>1, KindOf DEF WithFrame
<1>3. /\ Frame \in Frames /\ Frame \notin Ready /\ Ready \subseteq Frames
  BY <1>2, AtFrame DEF FileInv, RefineInv
<1>4. /\ SameFrames(job, job') /\ Remembers(job, job')
      /\ \/ job'.pc = "rewrite" /\ metadata' = [metadata EXCEPT ![Frame] = TornMetadata]
         \/ job'.pc = "yolo" /\ metadata' = [metadata EXCEPT ![Frame] = job.md]
  BY <1>1, <1>2, GoToFields, OpenedFields DEF Rewrite
<1>5. /\ TornMetadata.at = "torn" /\ TornMetadata.usable = FALSE /\ Listed(TornMetadata.objects)
  BY Docs DEF TornMetadata, NoMetadata
<1>6. /\ job.md.at = "whole" /\ Listed(job.md.objects) /\ metadata[Frame].at # "missing"
      /\ OnDisk(image[Frame], job.md)
  BY <1>1, <1>2 DEF FileInv, RefineInv, DiskInv
<1>7. /\ \A f \in Frames : f # Frame => metadata'[f] = metadata[f]
      /\ job'.pc = "rewrite" => metadata'[Frame] = TornMetadata
      /\ job'.pc = "yolo" => metadata'[Frame] = job.md
      /\ metadata'[Frame] \in {TornMetadata, job.md}
  BY <1>3, <1>4 DEF OutputInv
<1>8. Frame' = Frame /\ Ready' = Ready
  BY <1>4 DEF Frame, Ready, SameFrames
<1>9. DiskInv'
  <2>1. \A f \in Frames : OnDisk(image'[f], metadata'[f])
    BY <1>1, <1>5, <1>6, <1>7 DEF FileInv, DiskInv, OnDisk
  <2> QED BY <1>1, <1>4, <2>1 DEF FileInv, DiskInv, Remembers
<1>10. job'.pc \in PCs[job'.kind] /\ job'.pc # "idle" /\ job'.kind = "refine" /\ job'.pc \in {"rewrite", "yolo"}
  BY <1>2, <1>4 DEF PCs, WithFrame, SameFrames
<1>11. RefineInv'
  <2>1. \A f \in Ready : Done(metadata'[f], yolo'[f])
    BY <1>1, <1>2, <1>3, <1>7 DEF FileInv, RefineInv
  <2>2. OnDisk(image'[Frame'], job'.md)
    BY <1>1, <1>4, <1>6, <1>8 DEF Remembers
  <2> QED BY <1>2, <1>4, <1>5, <1>6, <1>7, <1>8, <1>10, <2>1, <2>2 DEF FileInv, RefineInv, SameFrames, Remembers
<1> QED BY <1>9, <1>10, <1>11, StillRunning DEF FileInv, SessionInv

LEMMA FileYolo == ASSUME OutputInv, ImageInv, FileInv, WriteYolo PROVE FileInv'
<1>1. job.pc = "yolo" /\ image' = image /\ metadata' = metadata /\ coco' = coco
  BY DEF WriteYolo, At
<1>2. job.kind \in {"session", "refine"} /\ job.pc # "idle" /\ GoodJob(job) /\ job.left # <<>>
  <2>1. "yolo" \in WithFrame
    BY DEF WithFrame
  <2>2. job.kind \in {"session", "refine"} /\ job.pc # "idle" /\ GoodJob(job)
    BY <1>1, KindOf
  <2> QED BY <1>1, <2>1, <2>2 DEF FileInv, SessionInv, RefineInv
<1>3. /\ Frame \in Frames /\ Frame \notin Ready /\ Ready \subseteq Frames
      /\ Tail(job.left) \in Seq(Frames) /\ Range(Tail(job.left)) \subseteq job.scope
      /\ job.scope \ Range(Tail(job.left)) \subseteq Ready \cup {Frame}
  BY <1>2, AtFrame
<1>4. job.md.at = "whole" /\ metadata[Frame] = job.md
  BY <1>1, <1>2 DEF FileInv, SessionInv, RefineInv
<1>5. /\ yolo' = [f \in Frames |-> yolo'[f]] /\ Remembers(job, job')
      /\ \A f \in Frames : f # Frame => yolo'[f] = yolo[f]
      /\ \/ job'.pc = "yolo" /\ SameFrames(job, job')
         \/ /\ job.kind = "session" /\ job'.pc = "coco" /\ SameFrames(job, job')
            /\ yolo'[Frame] = Doc(YoloOf(job.md))
         \/ /\ job.kind = "refine" /\ job'.left = Tail(job.left) /\ job'.kind = job.kind
            /\ job'.scope = job.scope /\ yolo'[Frame] = Doc(YoloOf(job.md))
            /\ job'.pc = IF job'.left = <<>> THEN "collect" ELSE "reread"
  <2>1. yolo = [f \in Frames |-> yolo[f]]
    BY DEF FileInv, DiskInv
  <2>2. CASE Opened /\ yolo' = [yolo EXCEPT ![Frame] = Torn]
    BY <1>1, <1>2, <2>1, <2>2, OpenedFields
  <2> DEFINE labels == Doc(YoloOf(job.md))
  <2>3. CASE yolo' = [yolo EXCEPT ![Frame] = labels] /\ job.kind = "session" /\ GoTo("coco")
    <3> HIDE DEF labels
    <3>1. /\ yolo' = [f \in Frames |-> yolo'[f]] /\ yolo'[Frame] = labels
          /\ \A f \in Frames : f # Frame => yolo'[f] = yolo[f]
      BY <1>3, <2>1, <2>3
    <3>2. job'.pc = "coco" /\ SameFrames(job, job') /\ Remembers(job, job')
      BY <1>2, <2>3, GoToFields
    <3> QED BY <2>3, <3>1, <3>2 DEF labels
  <2>4. CASE yolo' = [yolo EXCEPT ![Frame] = labels] /\ job.kind = "refine" /\ NextFrame("collect")
    <3> HIDE DEF labels
    <3>1. /\ yolo' = [f \in Frames |-> yolo'[f]] /\ yolo'[Frame] = labels
          /\ \A f \in Frames : f # Frame => yolo'[f] = yolo[f]
      BY <1>3, <2>1, <2>4
    <3>2. FirstStep[job.kind] = "reread"
      BY <2>4 DEF FirstStep
    <3>3. /\ job'.left = Tail(job.left) /\ job'.kind = job.kind /\ job'.scope = job.scope
          /\ job'.pc = IF job'.left = <<>> THEN "collect" ELSE "reread"
          /\ Remembers(job, job')
      BY <1>2, <2>4, <3>2, NextFields
    <3> QED BY <2>4, <3>1, <3>3 DEF labels
  <2> QED BY <1>2, <2>2, <2>3, <2>4 DEF WriteYolo
<1>6. DiskInv'
  BY <1>1, <1>5 DEF FileInv, DiskInv, Remembers
<1>7. /\ job'.pc \in PCs[job'.kind] /\ job'.pc # "idle" /\ job'.kind = job.kind
      /\ job.kind = "session" => job'.pc \in {"yolo", "coco"}
      /\ job.kind = "refine" => job'.pc \in {"yolo", "collect", "reread"}
  BY <1>2, <1>5 DEF PCs, WithFrame, SameFrames
<1>8. ASSUME job.kind = "session" PROVE SessionInv'
  <2>1. /\ SameFrames(job, job') /\ Remembers(job, job')
        /\ job'.pc = "coco" => yolo'[Frame] = Doc(YoloOf(metadata[Frame]))
    BY <1>4, <1>5, <1>7, <1>8
  <2>2. Frame' = Frame /\ Ready' = Ready
    BY <2>1 DEF Frame, Ready, SameFrames
  <2>3. \A f \in Ready : Done(metadata'[f], yolo'[f]) /\ image'[f].whole
    BY <1>1, <1>3, <1>5, <1>8 DEF FileInv, SessionInv
  <2>4. job'.pc \notin Fresh /\ job'.pc \notin Cleared /\ job'.pc \notin {"metadata", "shoot"}
    BY <1>7, <1>8 DEF Fresh, Cleared
  <2>5. job'.pc = "coco" => Done(metadata'[Frame], yolo'[Frame])
    BY <1>1, <1>4, <2>1 DEF Done
  <2> QED BY <1>1, <1>2, <1>7, <1>8, <2>1, <2>2, <2>3, <2>4, <2>5 DEF FileInv, SessionInv, SameFrames, Remembers
<1>9. ASSUME job.kind = "refine" PROVE RefineInv'
  <2>1. CASE job'.pc = "yolo" /\ SameFrames(job, job')
    <3>1. Frame' = Frame /\ Ready' = Ready
      BY <2>1 DEF Frame, Ready, SameFrames
    <3>2. \A f \in Ready : Done(metadata'[f], yolo'[f])
      BY <1>1, <1>3, <1>5, <1>9 DEF FileInv, RefineInv
    <3> QED BY <1>1, <1>2, <1>5, <1>9, <2>1, <3>1, <3>2 DEF FileInv, RefineInv, SameFrames, Remembers
  <2>2. CASE /\ job'.left = Tail(job.left) /\ job'.kind = job.kind /\ job'.scope = job.scope
             /\ yolo'[Frame] = Doc(YoloOf(job.md))
             /\ job'.pc = IF job'.left = <<>> THEN "collect" ELSE "reread"
    <3>1. Ready' = job'.scope \ Range(job'.left)
      BY DEF Ready
    <3>2. Ready' \subseteq Ready \cup {Frame}
      BY <1>3, <2>2, <3>1
    <3>3. Done(metadata'[Frame], yolo'[Frame])
      BY <1>1, <1>4, <2>2 DEF Done
    <3>4. \A f \in Ready' : Done(metadata'[f], yolo'[f])
      BY <1>1, <1>3, <1>5, <1>9, <3>2, <3>3 DEF FileInv, RefineInv
    <3>5. job'.pc \in {"collect", "reread"} /\ (job'.pc = "reread" => job'.left # <<>>)
          /\ (job'.pc = "collect" => job'.left = <<>>) /\ "collect" \notin WithFrame
      BY <2>2 DEF WithFrame
    <3> QED BY <1>1, <1>3, <1>9, <2>2, <3>4, <3>5 DEF FileInv, RefineInv
  <2> QED BY <1>5, <1>9, <2>1, <2>2
<1> QED BY <1>2, <1>6, <1>7, <1>8, <1>9, StillRunning DEF FileInv, SessionInv, RefineInv

\* What is collected is read from the whole files on disk.
LEMMA FileCollect == ASSUME OutputInv, ImageInv, FileInv, Collect PROVE FileInv'
<1>1. job.pc = "collect" /\ UNCHANGED files
  BY DEF Collect, At
<1>2. job.kind \in {"refine", "rebuild"} /\ job.pc # "idle" /\ GoodJob(job)
  BY <1>1, KindOf
<1>3. CASE Ends("failed")
  BY <1>1, <1>3, FileEnds
<1>4. CASE job' = [job EXCEPT !.pc = "coco", !.exported = Collected]
  <2> DEFINE exported == Collected
  <2>1. job'.pc = "coco" /\ SameFrames(job, job') /\ job'.md = job.md /\ job'.exported = exported
    <3> DEFINE j == job'
    <3>1. j = [job EXCEPT !.pc = "coco", !.exported = exported] /\ JobFields(job)
      BY <1>2, <1>4 DEF GoodJob
    <3> HIDE DEF j, exported
    <3>2. j.pc = "coco" /\ SameFrames(job, j) /\ j.md = job.md /\ j.exported = exported
      BY <3>1 DEF JobFields, SameFrames
    <3> QED BY <3>2 DEF j
  <2>2. Exports(exported, Frames, metadata)
    BY CollectedExports DEF FileInv, DiskInv, OnDisk
  <2> HIDE DEF exported
  <2>3. Exports(job'.exported, Frames, metadata')
    BY <1>1, <2>1, <2>2 DEF files
  <2>4. Ready' = Ready
    BY <2>1 DEF Ready, SameFrames
  <2>5. DiskInv'
    BY <1>1, <2>1 DEF FileInv, DiskInv, files
  <2>6. /\ job'.pc \in PCs[job'.kind] /\ job'.kind = job.kind /\ job'.pc # "idle"
        /\ job'.pc \notin WithFrame
    BY <1>2, <2>1 DEF PCs, WithFrame, SameFrames
  <2>7. RefineInv'
    BY <1>1, <1>2, <2>1, <2>4, <2>6 DEF FileInv, RefineInv, SameFrames, files
  <2>8. SessionInv'
    BY <1>2, <2>6 DEF SessionInv
  <2> QED BY <2>3, <2>5, <2>6, <2>7, <2>8, StillRunning DEF FileInv
<1> QED BY <1>3, <1>4 DEF Collect

\* What a command has written when it closes the COCO file.
LEMMA FileCoco == ASSUME OutputInv, ImageInv, FileInv, WriteCoco PROVE FileInv'
<1>1. /\ job.pc = "coco" /\ image' = image /\ metadata' = metadata /\ yolo' = yolo
      /\ "coco" \notin Fresh
  BY DEF WriteCoco, At, Fresh, Cleared
<1>2. job.kind \in {"session", "refine", "rebuild"} /\ job.pc # "idle" /\ GoodJob(job)
  BY <1>1, KindOf
<1>3. CASE Opened /\ coco' = Torn
  <2>1. job'.pc = job.pc /\ SameFrames(job, job') /\ Remembers(job, job')
    BY <1>2, <1>3, OpenedFields
  <2>2. Frame' = Frame /\ Ready' = Ready
    BY <2>1 DEF Frame, Ready, SameFrames
  <2>3. DiskInv'
    BY <1>1, <1>3, <2>1, Docs DEF FileInv, DiskInv, Whole, Remembers
  <2>4. SessionInv' /\ RefineInv'
    <3>1. "coco" \notin WithFrame /\ "coco" \notin Cleared
      BY DEF WithFrame, Cleared
    <3> QED BY <1>1, <2>1, <2>2, <3>1 DEF FileInv, SessionInv, RefineInv, SameFrames, Remembers
  <2> QED BY <1>1, <1>2, <2>1, <2>3, <2>4, StillRunning DEF FileInv, SameFrames, Remembers
<1> DEFINE exported == job.exported
<1> HIDE DEF exported
<1>4. CASE job.open /\ coco' = Doc(exported)
  <2>1. /\ Whole(coco') /\ coco'.doc = exported
        /\ DiskInv' <=> Listed(job'.md.objects) /\ OfFrames(exported)
    BY <1>1, <1>4, Docs DEF FileInv, DiskInv, Whole
  <2>2. CASE job.kind = "session"
    <3>1. /\ job.left \in Seq(Frames) /\ job.left # <<>> /\ Distinct(job.left)
          /\ job.scope \subseteq Frames /\ Exports(exported, Ready \cup {Frame}, metadata)
          /\ \A f \in Ready \cup {Frame} : Done(metadata[f], yolo[f]) /\ image[f].whole
      BY <1>1, <2>2 DEF FileInv, SessionInv, exported
    <3>2. /\ Frame \in Frames /\ Ready \subseteq Frames /\ Ready \cup {Frame} \subseteq Frames
          /\ Tail(job.left) \in Seq(Frames) /\ Range(Tail(job.left)) \subseteq job.scope
          /\ Distinct(Tail(job.left)) /\ job.scope \ Range(Tail(job.left)) = Ready \cup {Frame}
      BY <1>2, <2>2, <3>1, AtFrame
    <3>3. OfFrames(exported) /\ Describes(exported, Ready \cup {Frame}, metadata)
      BY <3>1, <3>2, ExportsOfFrames
    <3>4. CASE Tail(job.left) # <<>> /\ NextFrame("idle")
      <4>1. /\ job'.pc = "unlink_image" /\ job'.kind = "session" /\ job'.scope = job.scope
            /\ job'.left = Tail(job.left) /\ job'.open = FALSE /\ Remembers(job, job')
        <5>1. FirstStep[job.kind] = "unlink_image"
          BY <2>2 DEF FirstStep
        <5> QED BY <1>2, <2>2, <3>4, <5>1, NextFields
      <4>2. Ready' = Ready \cup {Frame}
        <5>1. Ready' = job'.scope \ Range(job'.left)
          BY DEF Ready
        <5> QED BY <3>2, <4>1, <5>1
      <4>3. DiskInv'
        BY <2>1, <3>3, <4>1 DEF FileInv, DiskInv, Remembers
      <4>4. SessionInv'
        <5>1. "unlink_image" \notin Cleared
          BY DEF Cleared
        <5>2. Exports(job'.exported, Ready', metadata')
          BY <1>1, <3>1, <4>1, <4>2 DEF Remembers, exported
        <5>3. \A f \in Ready' : Done(metadata'[f], yolo'[f]) /\ image'[f].whole
          BY <1>1, <3>1, <4>2
        <5> QED BY <3>1, <3>2, <3>4, <4>1, <5>1, <5>2, <5>3 DEF SessionInv
      <4>5. job'.pc \in PCs[job'.kind] /\ job'.pc # "idle"
        BY <4>1 DEF PCs, Fresh
      <4> QED BY <4>1, <4>3, <4>4, <4>5, StillRunning DEF FileInv, RefineInv
    <3>5. CASE Tail(job.left) = <<>> /\ Ends("ok")
      <4>1. /\ job'.pc = "idle" /\ job'.kind = "session" /\ job'.scope = job.scope
            /\ job'.md = NoMetadata /\ Listed(NoMetadata.objects)
        BY <2>2, <3>5, EndsFields, Docs DEF NoMetadata
      <4>2. Range(<<>>) = {}
        BY DEF Range
      <4>3. job.scope = Ready \cup {Frame}
        BY <3>2, <3>5, <4>2
      <4>4. DiskInv'
        BY <2>1, <3>3, <4>1
      <4>5. TrueWhenDone'
        <5>1. Describes(coco'.doc, job'.scope, metadata')
          BY <1>1, <2>1, <3>3, <4>1, <4>3
        <5>2. \A f \in job'.scope : image'[f].whole
          BY <1>1, <3>1, <4>1, <4>3
        <5>3. \A f \in job'.scope : metadata'[f].at = "whole" /\ yolo'[f] = Doc(YoloOf(metadata'[f]))
          BY <1>1, <3>1, <4>1, <4>3 DEF Done
        <5> QED BY <2>1, <4>1, <5>1, <5>2, <5>3 DEF TrueWhenDone, Succeeded, CocoTrue
      <4>6. job'.pc \in PCs[job'.kind]
        BY <4>1 DEF PCs
      <4> QED BY <4>1, <4>4, <4>5, <4>6 DEF FileInv, SessionInv, RefineInv
    <3> QED BY <1>1, <1>4, <2>2, <3>4, <3>5 DEF WriteCoco
  <2>3. CASE job.kind \in {"refine", "rebuild"}
    <3>1. Exports(exported, Frames, metadata)
      BY <1>1, <2>3 DEF FileInv, exported
    <3>2. OfFrames(exported) /\ Describes(exported, Frames, metadata)
      BY <3>1, ExportsOfFrames
    <3>3. /\ job'.pc = "idle" /\ job'.kind = job.kind /\ job'.scope = job.scope
          /\ job'.md = NoMetadata /\ Listed(NoMetadata.objects)
      BY <1>1, <1>4, <2>3, EndsFields, Docs DEF WriteCoco, NoMetadata
    <3>4. DiskInv'
      BY <2>1, <3>2, <3>3
    <3>5. TrueWhenDone'
      <4>1. Describes(coco'.doc, Frames, metadata')
        BY <1>1, <2>1, <3>2
      <4>2. job.kind = "refine" => \A f \in job.scope : Done(metadata[f], yolo[f])
        <5>1. Range(<<>>) = {}
          BY DEF Range
        <5> QED BY <1>1, <5>1 DEF FileInv, RefineInv, Ready
      <4> QED BY <1>1, <2>1, <2>3, <3>3, <4>1, <4>2 DEF TrueWhenDone, Succeeded, CocoTrue, Done
    <3>6. job'.pc \in PCs[job'.kind]
      BY <2>3, <3>3 DEF PCs, WithFrame
    <3> QED BY <3>3, <3>4, <3>5, <3>6 DEF FileInv, SessionInv, RefineInv
  <2> QED BY <1>2, <2>2, <2>3
<1> QED BY <1>3, <1>4 DEF WriteCoco, exported

LEMMA FramesOfMission ==
  ASSUME NEW m \in Mission
  PROVE  FramesOf(m) \in Seq(Frames) /\ FramesOf(m) # <<>> /\ Distinct(FramesOf(m))
<1> DEFINE s == FramesOf(m)
<1>1. /\ FramesPerMission \in Nat \ {0} /\ DOMAIN s = 1..FramesPerMission
      /\ \A i \in 1..FramesPerMission : s[i] = <<m, i>>
      /\ s = [i \in 1..FramesPerMission |-> s[i]]
  BY OutputAssumption DEF FramesOf
<1> HIDE DEF s
<1>2. ASSUME NEW i \in 1..FramesPerMission PROVE s[i] \in Frames
  <2>1. <<m, i>> \in Frames
    BY DEF Frames
  <2> QED BY <1>1, <2>1
<1>3. s \in [1..FramesPerMission -> Frames]
  BY <1>1, <1>2
<1>4. s \in Seq(Frames) /\ s # <<>>
  BY <1>1, <1>3
<1>5. Distinct(s)
  BY <1>1 DEF Distinct
<1> QED BY <1>4, <1>5 DEF s

LEMMA OneFrame ==
  ASSUME NEW f \in Frames
  PROVE  <<f>> \in Seq(Frames) /\ <<f>> # <<>> /\ Distinct(<<f>>)
<1>1. <<f>> \in Seq(Frames) /\ <<f>> # <<>> /\ DOMAIN <<f>> = {1}
  OBVIOUS
<1> QED BY <1>1 DEF Distinct

\* The batch captures only the missions it has.
BatchStepSet == {x \in [what : {"capture", "check", "rebuild"}, mission : Int] :
                   x.what = "capture" => x.mission \in Mission}
BatchInv == batch \in [todo : Seq(BatchStepSet), keepGoing : BOOLEAN]

LEMMA BatchInit == Init => BatchInv
BY DEF Init, NoBatch, BatchInv

LEMMA StepsOfBatch == BatchSteps \in Seq(BatchStepSet)
<1> DEFINE n == 2 * Missions + 1
           s == BatchSteps
<1>1. n \in Nat /\ Missions \in Nat \ {0}
  BY OutputAssumption
<1>2. ASSUME NEW k \in 1..n PROVE s[k] \in BatchStepSet
  <2>1. (k + 1) \div 2 \in Int
    BY <1>1
  <2>2. k # n => (k + 1) \div 2 \in Mission
    BY <1>1 DEF Mission
  <2> QED BY <2>1, <2>2 DEF BatchSteps, BatchStepSet
<1>3. s = [k \in 1..n |-> s[k]]
  BY DEF BatchSteps
<1> HIDE DEF n, s
<1>4. s \in [1..n -> BatchStepSet]
  BY <1>2, <1>3
<1>5. s \in Seq(BatchStepSet)
  BY <1>1, <1>4
<1> QED BY <1>5 DEF s

LEMMA BatchStep == BatchInv /\ [Next]_vars => BatchInv'
<1> SUFFICES ASSUME BatchInv, [Next]_vars PROVE BatchInv'
  OBVIOUS
<1>1. CASE Batch
  BY <1>1, StepsOfBatch DEF Batch, BatchInv
<1>2. CASE BatchCapture \/ BatchCheck \/ BatchRebuild
  <2>1. batch.todo # <<>> /\ (BatchOn \/ batch' = NoBatch)
    BY <1>2 DEF BatchCapture, BatchCheck, BatchRebuild, Of
  <2>2. batch = [todo |-> batch.todo, keepGoing |-> batch.keepGoing]
        /\ batch.todo \in Seq(BatchStepSet) /\ batch.keepGoing \in BOOLEAN
    BY DEF BatchInv
  <2> DEFINE left == Tail(batch.todo)
  <2>3. left \in Seq(BatchStepSet)
    BY <2>1, <2>2
  <2>4. BatchOn => batch' = [batch EXCEPT !.todo = left]
    BY DEF BatchOn
  <2> HIDE DEF left
  <2>5. BatchOn => batch' = [todo |-> left, keepGoing |-> batch.keepGoing]
    BY <2>2, <2>4
  <2>6. BatchOn => BatchInv'
    BY <2>2, <2>3, <2>5 DEF BatchInv
  <2>7. batch' = NoBatch => BatchInv'
    BY DEF BatchInv, NoBatch
  <2> QED BY <2>1, <2>6, <2>7
<1>3. CASE Crash \/ batch' = batch
  <2>1. batch' = batch \/ batch' = NoBatch
    BY <1>3 DEF Crash
  <2>2. NoBatch \in [todo : Seq(BatchStepSet), keepGoing : BOOLEAN]
    BY DEF NoBatch
  <2> QED BY <2>1, <2>2 DEF BatchInv
<1>4. batch' = batch \/ Batch \/ BatchCapture \/ BatchCheck \/ BatchRebuild \/ Crash
  BY DEF Next, CommandStep, Session, RefineDataset, Rebuild, ClearArtifact, Shoot, WriteMetadata, Reread,
         Rewrite, WriteYolo, Collect, WriteCoco, Quiet, vars
<1> QED BY <1>1, <1>2, <1>3, <1>4

LEMMA FileStep == OutputInv /\ ImageInv /\ BatchInv /\ FileInv /\ [Next]_vars => FileInv'
<1> SUFFICES ASSUME OutputInv, ImageInv, BatchInv, FileInv, [Next]_vars PROVE FileInv'
  OBVIOUS
<1>1. CASE Session
  <2>1. PICK frames \in {FramesOf(m) : m \in Mission} \cup {<<f>> : f \in Frames}, c \in Configs :
             Starts("session", frames, c)
    BY <1>1 DEF Session
  <2>2. frames \in Seq(Frames) /\ frames # <<>> /\ Distinct(frames)
    BY FramesOfMission, OneFrame
  <2>3. UNCHANGED files
    BY <1>1 DEF Session, Asked
  <2> QED BY <2>1, <2>2, <2>3, FileStarts
<1>2. CASE RefineDataset
  <2>1. PICK frames \in Sorted(Existing) \cup {<<f>> : f \in Frames}, c \in Configs :
             Starts("refine", frames, c)
    BY <1>2 DEF RefineDataset
  <2>2. Existing \in SUBSET Frames
    BY DEF Existing
  <2>3. frames \in Seq(Frames)
    BY <2>2, SortedFrames, OneFrame
  <2>4. UNCHANGED files
    BY <1>2 DEF RefineDataset, Asked
  <2> QED BY <2>1, <2>3, <2>4, FileStarts
<1>3. CASE Rebuild \/ BatchRebuild
  <2>1. UNCHANGED files /\ Starts("rebuild", <<>>, NoConfig) /\ <<>> \in Seq(Frames)
    BY <1>3 DEF Rebuild, BatchRebuild, Asked
  <2> QED BY <2>1, FileStarts
<1>4. CASE BatchCapture
  <2>1. PICK c \in Configs : Starts("session", FramesOf(MissionAt), c)
    BY <1>4 DEF BatchCapture
  <2>2. MissionAt \in Mission
    BY <1>4 DEF BatchCapture, Of, MissionAt, BatchInv, BatchStepSet
  <2>3. /\ FramesOf(MissionAt) \in Seq(Frames) /\ FramesOf(MissionAt) # <<>>
        /\ Distinct(FramesOf(MissionAt))
    BY <2>2, FramesOfMission
  <2>4. UNCHANGED files
    BY <1>4 DEF BatchCapture
  <2> QED BY <2>1, <2>3, <2>4, FileStarts
<1>5. CASE Batch \/ BatchCheck \/ UNCHANGED vars
  <2>1. UNCHANGED <<files, job>>
    BY <1>5 DEF Batch, BatchCheck, Asked, vars
  <2>2. DiskInv' /\ TrueWhenDone'
    BY <2>1 DEF files, FileInv, DiskInv, TrueWhenDone, Succeeded, Running, CocoTrue
  <2>3. SessionInv' /\ RefineInv'
    BY <2>1 DEF files, FileInv, SessionInv, RefineInv, Ready, Frame, OnDisk
  <2> QED BY <2>1, <2>2, <2>3 DEF files, FileInv
<1>6. CASE Crash
  <2>1. Ends("crashed") /\ UNCHANGED files
    BY <1>6 DEF Crash
  <2> QED BY <2>1, FileEnds
<1> QED BY <1>1, <1>2, <1>3, <1>4, <1>5, <1>6, FileClear, FileShoot, FileMetadata, FileReread, FileRewrite,
           FileYolo, FileCollect, FileCoco DEF Next, CommandStep

\* A list of as many distinct frames as there are names every one.
LEMMA AllListed ==
  ASSUME NEW c, OfFrames(c), Len(c.images) = Cardinality(Frames), NEW f \in Frames
  PROVE  \E k \in DOMAIN c.images : c.images[k].frame = f
<1> DEFINE n == Len(c.images)
           N == Len(AllFrames)
           g == [k \in 1..n |-> c.images[k].frame]
<1>1. n \in Nat /\ DOMAIN c.images = 1..n
  BY ListedIsSeq DEF OfFrames, Listed
<1>2. IsFiniteSet(Frames)
  <2>1. N \in Nat /\ AllFrames = [k \in 1..N |-> AllFrames[k]]
    BY AllFramesOf DEF AllFrames
  <2>2. AllFrames \in [1..N -> Frames]
    BY <2>1, AllFramesOf
  <2>3. AllFrames \in Surjection(1..N, Frames)
    BY <2>2, AllFramesOf DEF Surjection
  <2>4. IsFiniteSet(1..N)
    <3> HIDE DEF N
    <3>1. 1 \in Int /\ N \in Int
      BY <2>1
    <3> QED BY <3>1, FS_Interval
  <2> QED BY <2>3, <2>4, FS_Surjection
<1>3. g \in Injection(1..n, Frames)
  BY <1>1 DEF OfFrames, Injection, IsInjective
<1>4. Cardinality(1..n) = n
  BY <1>1, FS_Interval
<1>5. g \in Surjection(1..n, Frames)
  <2> HIDE DEF g
  <2> QED BY <1>2, <1>3, <1>4, FS_Injection
<1> QED BY <1>1, <1>5 DEF Surjection

\* Image, metadata, YOLO and COCO file agree on the frames of a command that
\* ends well, whatever an earlier one left half written, and a directory that
\* the validator accepts is complete, but for frames with metadata that a session
\* could not remove: in every state, after any sequence of captures,
\* refinements, rebuilds and batches that stop at any step
\* (orchestrator/main.py, refine_dataset.py, rebuild_coco_from_metadata.py,
\* validate_static_neutral_dataset.py).
THEOREM OutputConsistentHolds == Spec => []OutputConsistent
<1>1. OutputInv /\ ImageInv /\ FileInv => OutputConsistent
  <2> SUFFICES ASSUME OutputInv, ImageInv, FileInv PROVE OutputConsistent
    OBVIOUS
  <2>1. MetadataOfImage /\ TrueWhenDone
    BY DEF ImageInv, FileInv
  <2>2. ASSUME DatasetValid
        PROVE  \A f \in Frames : metadata[f].kept \/ (image[f].whole /\ image[f].shot = metadata[f].shot)
    BY <2>1, <2>2 DEF DatasetValid, FileInv, DiskInv, OnDisk, MetadataOfImage
  <2>3. ASSUME DatasetValid
        PROVE  \A f \in Frames : \E k \in DOMAIN coco.doc.images : coco.doc.images[k].frame = f
    BY <2>3, AllListed DEF DatasetValid, FileInv, DiskInv
  <2> QED BY <2>1, <2>2, <2>3 DEF OutputConsistent, AcceptedIsComplete
<1>2. BatchInv /\ FileInv /\ OutputInv /\ ImageInv /\ [Next]_vars => (BatchInv /\ FileInv)'
  BY BatchStep, FileStep
<1> QED BY OutputInvariant, BatchInit, FileInit, <1>1, <1>2, PTL DEF Spec
====

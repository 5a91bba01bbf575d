---------------------------- MODULE DatasetProofs ----------------------------
(***************************************************************************)
(* Imports into datasets/raw: a sentinel is the last thing an import       *)
(* writes, and no captured frame is lost on the way, for every number of   *)
(* frames, datasets and jobs, every state an earlier command may have left *)
(* in a directory, and a crash or a gc pass at any step.  Then the type    *)
(* invariant of the whole composition; registration: the rows are those of *)
(* the content that was hashed; and validation: what passes the validator  *)
(* holds what its source held.                                             *)
(***************************************************************************)
EXTENDS DataLifecycleProofs, WellFoundedInduction

(***************************************************************************)
(* The invariant                                                           *)
(***************************************************************************)
Late == {"manifest", "info", "unreadable", "report"}
After == {"manifest", "report"}

TodoItems ==
  [what : {"image"}, split : Splits, frame : Frames]
    \cup [what : {"coco"}, split : Splits, frame : {0}]
    \cup [what : {"probe", "classes"} \cup Late, split : {"train"}, frame : {0}]

\* The files are written in this order: what comes after the classes is late,
\* and after the sentinel only the manifest and, last, the report.
Ordered(todo) ==
  \A i, j \in DOMAIN todo : i < j =>
    /\ todo[i].what = "classes" => todo[j].what \in Late
    /\ todo[i].what = "info" => todo[j].what \in After
    /\ todo[i].what # "report"

\* What the import still has to write.
Ahead == IF imp.pc = "write" THEN Range(imp.todo) ELSE {}
\* It ends before it writes the sentinel.
Stuck == DocItem("unreadable") \in Ahead

ImportShape ==
  /\ imp.pc \in {"clear", "read"} => imp = [pc |-> imp.pc, job |-> imp.job]
  /\ imp.pc \in {"write", "drop"} =>
       imp = [pc |-> imp.pc, open |-> imp.open, job |-> imp.job, out |-> imp.out, todo |-> imp.todo]
  /\ imp.pc = "write" =>
       /\ imp.open \in BOOLEAN
       /\ imp.open => imp.todo # <<>> /\ Item.what \notin {"probe", "unreadable"}
       /\ imp.todo \in Seq(TodoItems) /\ Ordered(imp.todo)
       /\ \A sp \in Splits : CocoFile(imp.out.coco[sp])
       /\ Whole(imp.out.classes)

\* What the position of an import says about its source and its target.
SourceOK == imp.pc \in {"clear", "read", "write"} /\ Job.op = "migrate" => raw[Job.from].cut = {}
TargetOK == imp.pc = "read" /\ ~Job.dry => Target = AbsentDir

\* While it writes: the sentinel, the classes, the image it is at.
InOrderSoFar ==
  imp.pc = "write" =>
    /\ Sentinel(Target) => \A x \in Ahead : x.what \in After \/ (imp.open /\ x = Item /\ x.what = "info")
    /\ Target.classes # Missing =>
         \A x \in Ahead : x.what \in Late \/ (imp.open /\ x = Item /\ x.what = "classes")
    /\ \A c \in Target.cut : imp.open /\ Item.what = "image" /\ c = <<Item.split, Item.frame>>
    /\ imp.open /\ Item.what = "image" => <<Item.split, Item.frame>> \in Target.cut
    /\ Target.there \/ (imp.todo # <<>> /\ Item.what \in {"coco", "classes", "unreadable"})
    /\ Whole(Target.info) => Target.info = imp.out.info
    /\ Whole(Target.report) => Ahead = {}

InDir(d, f) == \E sp \in Splits : f \in d.images[sp]
WholeIn(d, f) == \E sp \in Splits : f \in d.images[sp] /\ <<sp, f>> \notin d.cut

HasSource(x) ==
  IF Job.op = "normalize" THEN x.frame \in staging[Job.from].images
  ELSE x.frame \in raw[Job.from].images[x.split]

\* Each part of the target is written, or ahead.
DoneOrAhead ==
  imp.pc = "write" =>
    /\ DocItem("classes") \in Ahead \/ Whole(Target.classes)
    /\ Stuck \/ \A sp \in origin[Job.to].splits :
         /\ Whole(imp.out.coco[sp]) /\ imp.out.info.doc.splits[sp] = Counts(imp.out.coco[sp].doc)
         /\ CocoItem(sp) \in Ahead \/ Target.coco[sp] = imp.out.coco[sp]
    /\ Stuck \/ Job.to \in broken \/ \A f \in origin[Job.to].files :
         InDir(Target, f) \/ \E x \in Ahead : x.what = "image" /\ x.frame = f /\ HasSource(x)

\* A frame that the import lists is in the target before the source goes.
CopiedOrAhead ==
  imp.pc \in {"write", "drop"} =>
    /\ Job.op = "normalize" /\ Job.images =>
         \A o \in origin[Job.to].frames : o.frame \in staging[Job.from].images =>
           WholeIn(Target, o.frame) \/ \E x \in Ahead : x.what = "image" /\ x.frame = o.frame
    /\ Job.op = "migrate" => Stuck \/
         \A sp \in Splits : \A f \in raw[Job.from].images[sp] : At(f, sp) \in origin[Job.to].frames =>
           File("image", sp, f) \in Ahead \/ (f \in Target.images[sp] /\ <<sp, f>> \notin Target.cut)

OriginOK == DOMAIN origin = DatasetIds /\ \A d \in DatasetIds : origin[d].splits \subseteq Splits

\* A drop has been asked for.
DropOK == imp.pc = "drop" => DropsSource

PassOK ==
  /\ expired \subseteq StagingIds
  /\ gc.pc = "apply" =>
       /\ gc = [pc |-> "apply", runs |-> gc.runs, caches |-> gc.caches, plan |-> gc.plan, left |-> gc.left]
       /\ \A item \in gc.left : item.kind = "staging" => item.id \in StagingIds

DatasetInv ==
  /\ DatasetTypeOK /\ OriginOK /\ ImportShape /\ SourceOK /\ TargetOK /\ DropOK /\ PassOK
  /\ InOrderSoFar /\ DoneOrAhead /\ CopiedOrAhead
  /\ ReadyMeansComplete /\ FramesKept

(***************************************************************************)
(* Sequences: what filtering and flattening return, by induction           *)
(***************************************************************************)
\* A set of naturals has a least element.
LEMMA LeastNatural ==
  ASSUME NEW N \in SUBSET Nat, N # {}
  PROVE  \E m \in N : \A k \in N : m <= k
<1> DEFINE less == {ss \in Nat \X Nat : ss[1] < ss[2]}
<1>1. IsWellFoundedOn(less, Nat)
  BY NatLessThanWellFounded DEF OpToRel
<1>2. \A y, x \in Nat : <<y, x>> \in less <=> y < x
  OBVIOUS
<1> HIDE DEF less
<1>3. PICK m \in N : \A k \in N : <<k, m>> \notin less
  BY <1>1, WFMin
<1>4. \A k \in N : ~(k < m)
  BY <1>2, <1>3
<1> QED
  BY <1>4

\* Induction over a set.
LEMMA AllNaturals ==
  ASSUME NEW P, P \subseteq Nat, 0 \in P, \A n \in P : n + 1 \in P
  PROVE  P = Nat
<1> SUFFICES ASSUME P # Nat PROVE FALSE
  OBVIOUS
<1>1. PICK m \in Nat \ P : \A k \in Nat \ P : m <= k
  <2> DEFINE N == Nat \ P
  <2>1. N \in SUBSET Nat /\ N # {}
    OBVIOUS
  <2> HIDE DEF N
  <2>2. PICK m \in N : \A k \in N : m <= k
    BY <2>1, LeastNatural
  <2> QED
    BY <2>2 DEF N
<1>2. m # 0 /\ m - 1 \in Nat /\ m - 1 \in P
  BY <1>1
<1>3. m - 1 + 1 \in P
  BY <1>2
<1> QED
  BY <1>1, <1>3

\* No two of the first n elements are about one frame.
FramesApart(seq, n) == \A i, j \in 1..n : seq[i].frame = seq[j].frame => i = j

\* The filtered sequence is one of the same kind, holds what it should, and no
\* frame more often than the sequence.
LEMMA ThoseOf ==
  ASSUME NEW S, NEW s \in Seq(S), NEW T
  PROVE  /\ Those(s, T) \in Seq(S) /\ Range(Those(s, T)) = Range(s) \cap T
         /\ FramesApart(s, Len(s)) => FramesApart(Those(s, T), Len(Those(s, T)))
<1> DEFINE upTo(f, n) == [i \in 0..n |-> IF i = 0 THEN <<>>
                                         ELSE IF s[i] \in T THEN Append(f[i - 1], s[i]) ELSE f[i - 1]]
           F == CHOOSE f : f = upTo(f, Len(s))
<1>1. \E f : f = upTo(f, Len(s))
  <2> DEFINE P == {n \in Nat : \E f : f = upTo(f, n)}
  <2>1. 0 \in P
    <3> DEFINE f == [i \in 0..0 |-> <<>>]
    <3>1. f = upTo(f, 0)
      OBVIOUS
    <3> QED
      BY <3>1
  <2>2. ASSUME NEW n \in P PROVE n + 1 \in P
    <3>1. PICK f : f = upTo(f, n)
      OBVIOUS
    <3> DEFINE g == [i \in 0..(n + 1) |-> IF i = n + 1
                                          THEN IF s[n + 1] \in T THEN Append(f[n], s[n + 1]) ELSE f[n]
                                          ELSE f[i]]
    <3>2. \A i \in 0..n : g[i] = f[i]
      OBVIOUS
    <3>3. g[n + 1] = IF s[n + 1] \in T THEN Append(f[n], s[n + 1]) ELSE f[n]
      OBVIOUS
    <3> HIDE DEF g
    <3>4. ASSUME NEW i \in 0..(n + 1) PROVE g[i] = upTo(g, n + 1)[i]
      <4>0. n \in Nat /\ n + 1 # 0 /\ n + 1 - 1 = n /\ n \in 0..n
        OBVIOUS
      <4>1. CASE i = n + 1
        <5>1. g[n + 1] = IF s[n + 1] \in T THEN Append(g[n], s[n + 1]) ELSE g[n]
          BY <3>2, <3>3, <4>0
        <5>2. n + 1 \in 0..(n + 1)
          BY <4>0
        <5>3. upTo(g, n + 1)[n + 1] = IF s[n + 1] \in T THEN Append(g[n], s[n + 1]) ELSE g[n]
          BY <4>0, <5>2
        <5> QED
          BY <4>1, <5>1, <5>3
      <4>2. CASE i \in 0..n
        <5>1. i # 0 => i - 1 \in 0..n
          BY <4>2
        <5>2. g[i] = f[i] /\ (i # 0 => g[i - 1] = f[i - 1])
          BY <3>2, <4>2, <5>1
        <5>3. f[i] = upTo(f, n)[i]
          BY <3>1
        <5> QED
          BY <4>2, <5>2, <5>3
      <4> QED
        BY <4>1, <4>2
    <3>5. g = upTo(g, n + 1)
      <4>1. g = [i \in 0..(n + 1) |-> g[i]]
        BY DEF g
      <4> QED
        BY <3>4, <4>1
    <3> HIDE DEF upTo
    <3>6. \E h : h = upTo(h, n + 1)
      BY <3>5
    <3> QED
      BY <3>6
  <2> HIDE DEF upTo
  <2>3. P = Nat
    BY <2>1, <2>2, AllNaturals
  <2>4. Len(s) \in Nat
    BY LenProperties
  <2> QED
    BY <2>3, <2>4
<1>2. F = upTo(F, Len(s))
  <2> HIDE DEF upTo
  <2> QED
    BY <1>1
<1>3. Those(s, T) = F[Len(s)]
  BY Zenon DEF Those
<1> HIDE DEF F
<1>4. /\ F[0] = <<>>
      /\ \A i \in 1..Len(s) : F[i] = IF s[i] \in T THEN Append(F[i - 1], s[i]) ELSE F[i - 1]
  <2>1. Len(s) \in Nat
    BY LenProperties
  <2>2. \A i \in 0..Len(s) : F[i] = upTo(F, Len(s))[i]
    BY <1>2
  <2> QED
    BY <2>1, <2>2
<1> HIDE DEF upTo
<1> DEFINE Good(n) == /\ F[n] \in Seq(S) /\ {F[n][k] : k \in DOMAIN F[n]} = {s[k] : k \in 1..n} \cap T
                      /\ FramesApart(s, n) => FramesApart(F[n], Len(F[n]))
           P == {n \in Nat : n <= Len(s) => Good(n)}
<1>5. Good(0)
  BY <1>4 DEF FramesApart
<1> HIDE DEF Good
<1>6. ASSUME NEW n \in P PROVE n + 1 \in P
  <2> SUFFICES ASSUME n + 1 <= Len(s) PROVE Good(n + 1)
    OBVIOUS
  <2> USE DEF Good
  <2>0. Len(s) \in Nat /\ n \in Nat /\ (n <= Len(s) => Good(n))
    BY LenProperties
  <2>1. n \in Nat /\ n + 1 \in 1..Len(s) /\ n <= Len(s) /\ Good(n) /\ s[n + 1] \in S
    <3> HIDE DEF Good
    <3>1. n + 1 \in 1..Len(s) /\ n <= Len(s)
      BY <2>0
    <3>2. s[n + 1] \in S
      BY <3>1, ElementOfSeq
    <3> QED
      BY <2>0, <3>1, <3>2
  <2>2. F[n + 1] = IF s[n + 1] \in T THEN Append(F[n], s[n + 1]) ELSE F[n]
    BY <1>4, <2>1
  <2>3. CASE s[n + 1] \in T
    <3> DEFINE a == F[n]
               b == Append(a, s[n + 1])
    <3>1. b \in Seq(S) /\ Len(b) = Len(a) + 1 /\ b[Len(a) + 1] = s[n + 1] /\ \A k \in 1..Len(a) : b[k] = a[k]
      BY <2>1, AppendProperties
    <3>2. DOMAIN b = 1..(Len(a) + 1) /\ DOMAIN a = 1..Len(a) /\ Len(a) \in Nat
      BY <2>1, <3>1, LenProperties
    <3>3. {b[k] : k \in DOMAIN b} = {a[k] : k \in DOMAIN a} \cup {s[n + 1]}
      <4> HIDE DEF a, b
      <4> QED
        BY <3>1, <3>2
    <3>4. {s[k] : k \in 1..(n + 1)} = {s[k] : k \in 1..n} \cup {s[n + 1]}
      BY <2>1
    <3>5. F[n + 1] = b
      BY <2>2, <2>3
    <3> HIDE DEF b
    <3>6. {b[k] : k \in DOMAIN b} = {s[k] : k \in 1..(n + 1)} \cap T
      BY <2>1, <2>3, <3>3, <3>4
    <3>7. ASSUME FramesApart(s, n + 1) PROVE FramesApart(b, Len(b))
      <4>1. FramesApart(a, Len(a))
        BY <2>1, <3>7 DEF FramesApart
      <4>2. ASSUME NEW i \in 1..Len(a) PROVE b[i].frame # b[Len(a) + 1].frame
        <5>1. PICK k \in 1..n : a[i] = s[k]
          BY <2>1, <3>2, <4>2
        <5> QED
          BY <2>1, <3>1, <3>7, <4>2, <5>1 DEF FramesApart
      <4>3. b \in Seq(S) /\ Len(b) = Len(a) + 1 /\ Len(a) \in Nat /\ \A k \in 1..Len(a) : b[k] = a[k]
        BY <3>1, <3>2
      <4> HIDE DEF a, b
      <4>4. ASSUME NEW i \in 1..Len(a), NEW j \in 1..Len(a), b[i].frame = b[j].frame PROVE i = j
        BY <4>1, <4>3, <4>4 DEF FramesApart
      <4>5. \A i \in 1..(Len(a) + 1) : i \in 1..Len(a) \/ i = Len(a) + 1
        BY <4>3
      <4> QED
        BY <4>2, <4>3, <4>4, <4>5 DEF FramesApart
    <3> HIDE DEF a
    <3> QED
      BY <3>1, <3>5, <3>6, <3>7
  <2>4. CASE s[n + 1] \notin T
    <3>1. {s[k] : k \in 1..(n + 1)} \cap T = {s[k] : k \in 1..n} \cap T
      BY <2>1, <2>4
    <3>2. FramesApart(s, n + 1) => FramesApart(s, n)
      BY <2>1 DEF FramesApart
    <3> QED
      BY <2>1, <2>2, <2>4, <3>1, <3>2
  <2> QED
    BY <2>3, <2>4
<1>7. P = Nat
  <2>1. 0 \in P /\ P \subseteq Nat
    BY <1>5
  <2> HIDE DEF P
  <2> QED
    BY <1>6, <2>1, AllNaturals
<1>8. Good(Len(s))
  <2>1. Len(s) \in Nat
    BY LenProperties
  <2> QED
    BY <1>7, <2>1
<1>9. DOMAIN s = 1..Len(s)
  BY LenProperties
<1> QED
  BY <1>3, <1>8, <1>9 DEF Good, Range

\* The elements of two sequences, one after the other.
LEMMA JoinedRange ==
  ASSUME NEW S, NEW u \in Seq(S), NEW v \in Seq(S)
  PROVE  u \o v \in Seq(S) /\ Range(u \o v) = Range(u) \cup Range(v)
<1>1. /\ u \o v \in Seq(S) /\ Len(u \o v) = Len(u) + Len(v) /\ Len(u) \in Nat /\ Len(v) \in Nat
      /\ \A i \in 1..(Len(u) + Len(v)) : (u \o v)[i] = IF i <= Len(u) THEN u[i] ELSE v[i - Len(u)]
      /\ DOMAIN u = 1..Len(u) /\ DOMAIN v = 1..Len(v) /\ DOMAIN (u \o v) = 1..Len(u \o v)
  BY ConcatProperties, LenProperties
<1> DEFINE w == u \o v
<1>2. \A i \in DOMAIN w : (i \in DOMAIN u /\ w[i] = u[i]) \/ (i - Len(u) \in DOMAIN v /\ w[i] = v[i - Len(u)])
  BY <1>1
<1>3. \A i \in DOMAIN u : i \in DOMAIN w /\ w[i] = u[i]
  BY <1>1
<1>4. \A i \in DOMAIN v : i + Len(u) \in DOMAIN w /\ w[i + Len(u)] = v[i]
  BY <1>1
<1> HIDE DEF w
<1>5. Range(w) = Range(u) \cup Range(v)
  BY <1>2, <1>3, <1>4 DEF Range
<1> QED
  BY <1>1, <1>5 DEF w

\* Flattening a sequence of sequences gives a sequence of their elements.
LEMMA FlattenOf ==
  ASSUME NEW S, NEW ss \in Seq(Seq(S))
  PROVE  FlattenSeq(ss) \in Seq(S) /\ Range(FlattenSeq(ss)) = UNION {Range(ss[i]) : i \in DOMAIN ss}
<1>0. Len(ss) \in Nat /\ DOMAIN ss = 1..Len(ss)
  BY LenProperties
<1>1. CASE Len(ss) = 0
  <2>1. FlattenSeq(ss) = ss
    BY <1>1, Zenon DEF FlattenSeq
  <2>2. ss = <<>>
    BY <1>1, EmptySeq
  <2>3. <<>> \in Seq(S)
    BY EmptySeq
  <2>4. Range(<<>>) = {} /\ {Range(ss[i]) : i \in DOMAIN ss} = {}
    BY <2>2 DEF Range
  <2> QED
    BY <2>1, <2>2, <2>3, <2>4
<1>2. CASE Len(ss) # 0
  <2> DEFINE upTo(f, n) == [i \in 1..n |-> IF i = 1 THEN ss[i] ELSE f[i - 1] \o ss[i]]
             F == CHOOSE f : f = upTo(f, Len(ss))
  <2>1. \E f : f = upTo(f, Len(ss))
    <3> DEFINE P == {n \in Nat : \E f : f = upTo(f, n)}
    <3>1. 0 \in P
      <4> DEFINE f == [i \in 1..0 |-> <<>>]
      <4>1. f = upTo(f, 0)
        OBVIOUS
      <4> QED
        BY <4>1
    <3>2. ASSUME NEW n \in P PROVE n + 1 \in P
      <4>1. PICK f : f = upTo(f, n)
        OBVIOUS
      <4> DEFINE last == IF n = 0 THEN ss[1] ELSE f[n] \o ss[n + 1]
                 g == [i \in 1..(n + 1) |-> IF i = n + 1 THEN last ELSE f[i]]
      <4> HIDE DEF last
      <4>0. n \in Nat /\ n + 1 \in 1..(n + 1)
        OBVIOUS
      <4>2. (\A i \in 1..n : g[i] = f[i]) /\ g[n + 1] = last
        BY <4>0
      <4>3. g = [i \in 1..(n + 1) |-> g[i]]
        OBVIOUS
      <4> HIDE DEF g
      <4>4. ASSUME NEW i \in 1..(n + 1) PROVE g[i] = upTo(g, n + 1)[i]
        <5>1. CASE i = n + 1
          BY <4>0, <4>2, <5>1 DEF last
        <5>2. CASE i \in 1..n
          <6>1. i # 1 => i - 1 \in 1..n
            BY <4>0, <5>2
          <6>2. g[i] = f[i] /\ (i # 1 => g[i - 1] = f[i - 1])
            BY <4>2, <5>2, <6>1
          <6>3. f[i] = upTo(f, n)[i]
            BY <4>1
          <6> QED
            BY <4>0, <5>2, <6>2, <6>3
        <5> QED
          BY <4>0, <5>1, <5>2
      <4>5. g = upTo(g, n + 1)
        BY <4>3, <4>4
      <4> HIDE DEF upTo
      <4>6. \E h : h = upTo(h, n + 1)
        BY <4>5
      <4> QED
        BY <4>6
    <3> HIDE DEF upTo
    <3>3. P = Nat
      BY <3>1, <3>2, AllNaturals
    <3> QED
      BY <1>0, <3>3
  <2>2. F = upTo(F, Len(ss))
    <3> HIDE DEF upTo
    <3> QED
      BY <2>1
  <2>3. FlattenSeq(ss) = F[Len(ss)]
    BY <1>2, Zenon DEF FlattenSeq
  <2> HIDE DEF F
  <2>4. \A i \in 1..Len(ss) : F[i] = IF i = 1 THEN ss[i] ELSE F[i - 1] \o ss[i]
    <3>1. \A i \in 1..Len(ss) : F[i] = upTo(F, Len(ss))[i]
      BY <2>2
    <3> QED
      BY <1>0, <3>1
  <2> HIDE DEF upTo
  <2> DEFINE Good(n) == F[n] \in Seq(S) /\ Range(F[n]) = UNION {Range(ss[i]) : i \in 1..n}
             P == {n \in Nat : n \in 1..Len(ss) => Good(n)}
  <2>5. ASSUME NEW n \in P PROVE n + 1 \in P
    <3> SUFFICES ASSUME n + 1 \in 1..Len(ss) PROVE Good(n + 1)
      OBVIOUS
    <3>0. n \in Nat
      OBVIOUS
    <3>1. ss[n + 1] \in Seq(S)
      BY ElementOfSeq
    <3>2. F[n + 1] = IF n + 1 = 1 THEN ss[n + 1] ELSE F[n + 1 - 1] \o ss[n + 1]
      BY <2>4
    <3>3. CASE n = 0
      <4>1. {Range(ss[i]) : i \in 1..(n + 1)} = {Range(ss[n + 1])}
        BY <3>3
      <4> QED
        BY <3>1, <3>2, <3>3, <4>1
    <3>4. CASE n # 0
      <4>1. n \in 1..Len(ss) /\ n + 1 - 1 = n
        BY <1>0, <3>4
      <4>2. Good(n)
        BY <4>1
      <4>3. F[n + 1] = F[n] \o ss[n + 1]
        <5>1. n + 1 # 1
          BY <3>4
        <5> QED
          BY <3>2, <4>1, <5>1, Zenon
      <4>4. F[n + 1] \in Seq(S) /\ Range(F[n + 1]) = Range(F[n]) \cup Range(ss[n + 1])
        BY <3>1, <4>2, <4>3, JoinedRange
      <4>5. 1..(n + 1) = 1..n \cup {n + 1}
        BY <3>0
      <4>6. UNION {Range(ss[i]) : i \in 1..(n + 1)} = (UNION {Range(ss[i]) : i \in 1..n}) \cup Range(ss[n + 1])
        BY <4>5
      <4> QED
        BY <4>2, <4>4, <4>6
    <3> QED
      BY <3>3, <3>4
  <2>6. P = Nat
    <3>1. 0 \in P /\ P \subseteq Nat
      BY <1>0
    <3> HIDE DEF P
    <3> QED
      BY <2>5, <3>1, AllNaturals
  <2>7. Good(Len(ss))
    <3>1. Len(ss) \in 1..Len(ss)
      BY <1>0, <1>2
    <3> HIDE DEF Good
    <3> QED
      BY <1>0, <2>6, <3>1
  <2> QED
    BY <1>0, <2>3, <2>7
<1> QED
  BY <1>1, <1>2

(***************************************************************************)
(* The list of an import                                                   *)
(***************************************************************************)
\* Taking the first item off.
LEMMA PopItem ==
  ASSUME NEW todo \in Seq(TodoItems), todo # <<>>, Ordered(todo)
  PROVE  /\ Head(todo) \in TodoItems /\ Tail(todo) \in Seq(TodoItems)
         /\ Range(todo) = {Head(todo)} \cup Range(Tail(todo)) /\ Range(todo) \subseteq TodoItems
         /\ Ordered(Tail(todo))
         /\ Head(todo).what = "classes" => \A x \in Range(Tail(todo)) : x.what \in Late
         /\ Head(todo).what = "info" => \A x \in Range(Tail(todo)) : x.what \in After
         /\ Head(todo).what = "report" => Range(Tail(todo)) = {}
<1> DEFINE h == Head(todo)
           t == Tail(todo)
<1>1. /\ h \in TodoItems /\ t \in Seq(TodoItems) /\ h = todo[1]
      /\ Len(todo) \in Nat \ {0} /\ Len(t) = Len(todo) - 1
      /\ \A i \in 1..Len(t) : t[i] = todo[i + 1]
      /\ DOMAIN todo = 1..Len(todo) /\ DOMAIN t = 1..Len(t)
  BY HeadTailProperties, EmptySeq, LenProperties
<1> HIDE DEF h, t
<1>2. Range(todo) = {h} \cup Range(t)
  <2>1. \A i \in DOMAIN todo : i = 1 \/ (i - 1 \in DOMAIN t /\ todo[i] = t[i - 1])
    BY <1>1
  <2>2. \A i \in DOMAIN t : i + 1 \in DOMAIN todo /\ t[i] = todo[i + 1]
    BY <1>1
  <2>3. 1 \in DOMAIN todo
    BY <1>1
  <2> QED
    BY <1>1, <2>1, <2>2, <2>3 DEF Range
<1>3. Range(todo) \subseteq TodoItems
  BY <1>1, ElementOfSeq DEF Range
<1>4. Ordered(t)
  <2> SUFFICES ASSUME NEW i \in DOMAIN t, NEW j \in DOMAIN t, i < j
               PROVE  /\ t[i].what = "classes" => t[j].what \in Late
                      /\ t[i].what = "info" => t[j].what \in After
                      /\ t[i].what # "report"
    BY DEF Ordered
  <2>1. i + 1 \in DOMAIN todo /\ j + 1 \in DOMAIN todo /\ i + 1 < j + 1
    BY <1>1
  <2>2. t[i] = todo[i + 1] /\ t[j] = todo[j + 1]
    BY <1>1
  <2> QED
    BY <2>1, <2>2 DEF Ordered
<1>5. ASSUME NEW x \in Range(t)
      PROVE  (h.what = "classes" => x.what \in Late) /\ (h.what = "info" => x.what \in After) /\ h.what # "report"
  <2>1. PICK i \in DOMAIN t : x = t[i]
    BY DEF Range
  <2>2. 1 \in DOMAIN todo /\ i + 1 \in DOMAIN todo /\ 1 < i + 1 /\ x = todo[i + 1]
    BY <1>1, <2>1
  <2> QED
    BY <1>1, <2>2 DEF Ordered
<1> QED
  BY <1>1, <1>2, <1>3, <1>4, <1>5 DEF h, t

\* Files that nothing must wait for may come first.
LEMMA OrderedAfter ==
  ASSUME NEW u \in Seq(TodoItems), NEW v \in Seq(TodoItems), Ordered(v),
         \A x \in Range(u) : x.what \notin {"classes", "info", "report"}
  PROVE  Ordered(u \o v)
<1> SUFFICES ASSUME NEW i \in DOMAIN (u \o v), NEW j \in DOMAIN (u \o v), i < j
             PROVE  /\ (u \o v)[i].what = "classes" => (u \o v)[j].what \in Late
                    /\ (u \o v)[i].what = "info" => (u \o v)[j].what \in After
                    /\ (u \o v)[i].what # "report"
  BY DEF Ordered
<1>1. /\ u \o v \in Seq(TodoItems) /\ Len(u \o v) = Len(u) + Len(v) /\ Len(u) \in Nat /\ Len(v) \in Nat
      /\ \A k \in 1..(Len(u) + Len(v)) : (u \o v)[k] = IF k <= Len(u) THEN u[k] ELSE v[k - Len(u)]
      /\ DOMAIN u = 1..Len(u) /\ DOMAIN v = 1..Len(v) /\ DOMAIN (u \o v) = 1..Len(u \o v)
  BY ConcatProperties, LenProperties
<1>2. CASE i <= Len(u)
  <2>1. i \in DOMAIN u /\ (u \o v)[i] = u[i]
    BY <1>1, <1>2
  <2>2. u[i] \in Range(u)
    BY <2>1 DEF Range
  <2> QED
    BY <2>1, <2>2
<1>3. CASE ~(i <= Len(u))
  <2>1. /\ i - Len(u) \in DOMAIN v /\ j - Len(u) \in DOMAIN v /\ i - Len(u) < j - Len(u)
        /\ (u \o v)[i] = v[i - Len(u)] /\ (u \o v)[j] = v[j - Len(u)]
    BY <1>1, <1>3
  <2> QED
    BY <2>1 DEF Ordered
<1> QED
  BY <1>2, <1>3

(***************************************************************************)
(* Documents and directories                                               *)
(***************************************************************************)
LEMMA CocoMade ==
  ASSUME NEW images \in Seq(ImageRecords), NEW anns \in Seq(AnnRecords), NEW cats
  PROVE  IsCoco(Coco(images, anns, cats)) /\ Coco(images, anns, cats).images = images
BY DEF IsCoco, Coco

\* Both commands write well-formed annotation files, with images of their source.
LEMMA SplitIsCoco ==
  ASSUME NEW coco, IsCoco(coco), NEW ratios, NEW sp
  PROVE  IsCoco(SplitCoco(coco, ratios, sp))
<1> DEFINE assigned == {g.id : g \in {h \in Range(coco.images) : AssignSplit(h.frame, ratios) = sp}}
           images == Those(coco.images, {g \in Range(coco.images) : g.id \in assigned})
           ofImage == [i \in DOMAIN images |-> OfImage(coco, images[i].id)]
<1>1. coco.images \in Seq(ImageRecords) /\ coco.anns \in Seq(AnnRecords)
  BY DEF IsCoco
<1>2. images \in Seq(ImageRecords)
  BY <1>1, ThoseOf
<1>3. \A id : OfImage(coco, id) \in Seq(AnnRecords)
  BY <1>1, ThoseOf DEF OfImage
<1>4. ofImage \in Seq(Seq(AnnRecords))
  <2>1. DOMAIN images = 1..Len(images) /\ Len(images) \in Nat
    BY <1>2, LenProperties
  <2> HIDE DEF images
  <2>2. ofImage = [i \in 1..Len(images) |-> OfImage(coco, images[i].id)]
    BY <2>1
  <2> QED
    BY <1>3, <2>1, <2>2, SeqDef
<1>5. FlattenSeq(ofImage) \in Seq(AnnRecords)
  BY <1>4, FlattenOf
<1>6. SplitCoco(coco, ratios, sp) = Coco(images, FlattenSeq(ofImage), coco.cats)
  BY Zenon DEF SplitCoco
<1> QED
  BY <1>2, <1>5, <1>6, CocoMade

LEMMA RemapIsCoco ==
  ASSUME NEW coco, IsCoco(coco), NEW cats, Remappable(coco, cats)
  PROVE  IsCoco(RemapSplit(coco, cats))
<1>1. coco.images \in Seq(ImageRecords) /\ coco.anns \in Seq(AnnRecords)
  BY DEF IsCoco
<1>2. CASE cats = CANONICAL_CATEGORIES
  <2>1. RemapSplit(coco, cats) = Coco(coco.images, coco.anns, CANONICAL_CATEGORIES)
    <3>1. RemapSplit(coco, cats) = [coco EXCEPT !.cats = CANONICAL_CATEGORIES]
      BY <1>2 DEF RemapSplit
    <3> QED
      BY <3>1 DEF IsCoco, Coco
  <2> QED
    BY <1>1, <2>1, CocoMade
<1>3. CASE cats # CANONICAL_CATEGORIES
  <2> DEFINE anns == Those(coco.anns, {a \in Range(coco.anns) : a.cat # Buoys})
             new == [i \in DOMAIN anns |-> [anns[i] EXCEPT !.cat = LEGACY_CATEGORY_ID_REMAP[@]]]
  <2>1. anns \in Seq(AnnRecords) /\ Range(anns) \subseteq {a \in Range(coco.anns) : a.cat # Buoys}
    BY <1>1, ThoseOf
  <2>2. DOMAIN anns = 1..Len(anns) /\ Len(anns) \in Nat
    BY <2>1, LenProperties
  <2>3. ASSUME NEW i \in DOMAIN anns
        PROVE  [anns[i] EXCEPT !.cat = LEGACY_CATEGORY_ID_REMAP[@]] \in AnnRecords
    <3>1. anns[i] \in AnnRecords
      BY <2>1, <2>2, ElementOfSeq
    <3>2. anns[i] \in Range(coco.anns) /\ anns[i].cat # 1
      BY <2>1, <2>3 DEF Range, Buoys
    <3>3. anns[i].cat \in {0, 2, 3}
      <4>1. DOMAIN LEGACY_CATEGORIES = 0..3
        BY DEF LEGACY_CATEGORIES
      <4>2. \A k \in DOMAIN coco.anns : coco.anns[k].cat \in 0..3
        BY <1>3, <4>1 DEF Remappable
      <4> QED
        BY <3>2, <4>2 DEF Range
    <3>4. LEGACY_CATEGORY_ID_REMAP[anns[i].cat] \in Int
      BY <3>3 DEF LEGACY_CATEGORY_ID_REMAP
    <3> HIDE DEF anns
    <3> QED
      BY <3>1, <3>4 DEF AnnRecords
  <2>4. new \in Seq(AnnRecords)
    <3> HIDE DEF anns
    <3>1. new \in [1..Len(anns) -> AnnRecords]
      BY <2>2, <2>3
    <3> QED
      BY <2>2, <3>1, SeqDef
  <2>5. RemapSplit(coco, cats) = Coco(coco.images, new, CANONICAL_CATEGORIES)
    BY <1>3, Zenon DEF RemapSplit, RemapLegacy
  <2> QED
    BY <1>1, <2>4, <2>5, CocoMade
<1> QED
  BY <1>2, <1>3

\* The fields of a directory after one document is opened or written.
LEMMA DocWritten ==
  ASSUME NEW d, DirectoryOK(d), NEW file, Item \in TodoItems, Item.what \in {"coco", "manifest", "classes", "info", "report"}
  PROVE  LET e == WithDoc(d, file) IN
         /\ e = [there |-> e.there, coco |-> e.coco, images |-> d.images, cut |-> d.cut,
                 classes |-> e.classes, manifest |-> e.manifest, info |-> e.info, report |-> e.report]
         /\ e.there = (d.there \/ Item.what \in {"coco", "classes"})
         /\ e.coco = IF Item.what = "coco" THEN [d.coco EXCEPT ![Item.split] = file] ELSE d.coco
         /\ e.classes = IF Item.what = "classes" THEN file ELSE d.classes
         /\ e.info = IF Item.what = "info" THEN file ELSE d.info
         /\ e.report = IF Item.what = "report" THEN file ELSE d.report
<1>1. /\ d = [there |-> d.there, coco |-> d.coco, images |-> d.images, cut |-> d.cut,
              classes |-> d.classes, manifest |-> d.manifest, info |-> d.info, report |-> d.report]
      /\ d.there \in BOOLEAN
  BY DEF DirectoryOK
<1>2. CASE Item.what = "coco"
  <2>1. WithDoc(d, file) = [d EXCEPT !.there = TRUE, !.coco[Item.split] = file]
    BY <1>2 DEF WithDoc
  <2> QED
    BY <1>1, <1>2, <2>1
<1>3. CASE Item.what = "classes"
  <2>1. WithDoc(d, file) = [d EXCEPT !.there = TRUE, !.classes = file]
    BY <1>3 DEF WithDoc
  <2> QED
    BY <1>1, <1>3, <2>1
<1>4. CASE Item.what = "manifest"
  <2>1. WithDoc(d, file) = [d EXCEPT !.manifest = file]
    BY <1>4 DEF WithDoc
  <2> QED
    BY <1>1, <1>4, <2>1
<1>5. CASE Item.what = "info"
  <2>1. WithDoc(d, file) = [d EXCEPT !.info = file]
    BY <1>5 DEF WithDoc
  <2> QED
    BY <1>1, <1>5, <2>1
<1>6. CASE Item.what = "report"
  <2>1. WithDoc(d, file) = [d EXCEPT !.report = file]
    BY <1>6 DEF WithDoc
  <2> QED
    BY <1>1, <1>6, <2>1
<1> QED
  BY <1>2, <1>3, <1>4, <1>5, <1>6

\* The fields of a directory after an image is placed, or begun.
LEMMA ImagePlaced ==
  ASSUME NEW d, DirectoryOK(d), NEW begun \in BOOLEAN
  PROVE  LET e == WithImage(d, begun) IN
         /\ e = [there |-> d.there, coco |-> d.coco, images |-> e.images, cut |-> e.cut,
                 classes |-> d.classes, manifest |-> d.manifest, info |-> d.info, report |-> d.report]
         /\ e.images = [d.images EXCEPT ![Item.split] = @ \cup {Item.frame}]
         /\ e.cut = IF begun THEN d.cut \cup {<<Item.split, Item.frame>>}
                    ELSE d.cut \ {<<Item.split, Item.frame>>}
<1>1. d = [there |-> d.there, coco |-> d.coco, images |-> d.images, cut |-> d.cut,
           classes |-> d.classes, manifest |-> d.manifest, info |-> d.info, report |-> d.report]
  BY DEF DirectoryOK
<1>2. CASE begun
  <2>1. WithImage(d, begun) = [d EXCEPT !.images[Item.split] = @ \cup {Item.frame},
                                        !.cut = @ \cup {<<Item.split, Item.frame>>}]
    BY <1>2 DEF WithImage
  <2> QED
    BY <1>1, <1>2, <2>1
<1>3. CASE ~begun
  <2>1. WithImage(d, begun) = [d EXCEPT !.images[Item.split] = @ \cup {Item.frame},
                                        !.cut = @ \ {<<Item.split, Item.frame>>}]
    BY <1>3 DEF WithImage
  <2> QED
    BY <1>1, <1>3, <2>1
<1> QED
  BY <1>2, <1>3

\* A directory is well formed if its fields are those of one, but for a part that is emptied.
LEMMA FieldsOK ==
  ASSUME NEW d, DirectoryOK(d), d.there, NEW e,
         e = [there |-> e.there, coco |-> e.coco, images |-> e.images, cut |-> e.cut,
              classes |-> e.classes, manifest |-> e.manifest, info |-> e.info, report |-> e.report],
         e.there = TRUE,
         e.coco = d.coco \/ e.coco = [sp \in Splits |-> Missing],
         (e.images = d.images /\ e.cut = d.cut) \/ (e.images = [sp \in Splits |-> {}] /\ e.cut = {}),
         e.classes \in {d.classes, Missing}
  PROVE  DirectoryOK(e)
<1>1. Missing.at \in Docs /\ ~Whole(Missing)
  BY DEF Missing, Docs, Whole
<1>2. DOMAIN e.coco = Splits /\ \A sp \in Splits : CocoFile(e.coco[sp])
  BY <1>1 DEF DirectoryOK, CocoFile
<1>3. e.images \in [Splits -> SUBSET Frames]
  BY DEF DirectoryOK
<1>4. e.cut \subseteq Splits \X Frames /\ (\A c \in e.cut : c[2] \in e.images[c[1]]) /\ (e.cut # {} => e.classes = Missing)
  BY DEF DirectoryOK
<1> QED
  BY <1>2, <1>3, <1>4 DEF DirectoryOK

\* rmtree of one part.
LEMMA PartCleared ==
  ASSUME NEW d, DirectoryOK(d), d.there, NEW part \in Parts
  PROVE  LET e == Cleared(d, part) IN
         /\ DirectoryOK(e) /\ e.there
         /\ part = "images" => e.images = [sp \in Splits |-> {}]
         /\ part # "images" => e.images = d.images /\ e.cut = d.cut
         /\ e.cut \subseteq d.cut
         /\ e.coco \in {d.coco, AbsentDir.coco} /\ e.info \in {d.info, Missing} /\ e.classes \in {d.classes, Missing}
         /\ e.report \in {d.report, Missing}
<1> DEFINE e == Cleared(d, part)
<1>1. d = [there |-> TRUE, coco |-> d.coco, images |-> d.images, cut |-> d.cut,
           classes |-> d.classes, manifest |-> d.manifest, info |-> d.info, report |-> d.report]
  BY DEF DirectoryOK
<1>2. AbsentDir.images = [sp \in Splits |-> {}] /\ AbsentDir.coco = [sp \in Splits |-> Missing]
  BY DEF AbsentDir
<1>3. /\ e = [there |-> e.there, coco |-> e.coco, images |-> e.images, cut |-> e.cut,
              classes |-> e.classes, manifest |-> e.manifest, info |-> e.info, report |-> e.report]
      /\ e.there = TRUE
      /\ e.coco \in {d.coco, AbsentDir.coco}
      /\ (part # "images" /\ e.images = d.images /\ e.cut = d.cut)
           \/ (part = "images" /\ e.images = [sp \in Splits |-> {}] /\ e.cut = {})
      /\ e.classes \in {d.classes, Missing} /\ e.info \in {d.info, Missing} /\ e.report \in {d.report, Missing}
  <2>1. CASE part = "images"
    <3>1. e = [there |-> TRUE, coco |-> d.coco, images |-> [sp \in Splits |-> {}], cut |-> {},
               classes |-> d.classes, manifest |-> d.manifest, info |-> d.info, report |-> d.report]
      BY <1>1, <1>2, <2>1 DEF Cleared
    <3> HIDE DEF e
    <3> QED
      BY <2>1, <3>1
  <2>2. CASE part = "annotations"
    <3>1. e = [there |-> TRUE, coco |-> AbsentDir.coco, images |-> d.images, cut |-> d.cut,
               classes |-> d.classes, manifest |-> d.manifest, info |-> d.info, report |-> d.report]
      BY <1>1, <2>2 DEF Cleared
    <3> HIDE DEF e
    <3> QED
      BY <2>2, <3>1
  <2>3. CASE part = "metadata"
    <3>1. e = [there |-> TRUE, coco |-> d.coco, images |-> d.images, cut |-> d.cut,
               classes |-> Missing, manifest |-> Missing, info |-> Missing, report |-> d.report]
      BY <1>1, <2>3 DEF Cleared
    <3> HIDE DEF e
    <3> QED
      BY <2>3, <3>1
  <2>4. CASE part = "report"
    <3>1. e = [there |-> TRUE, coco |-> d.coco, images |-> d.images, cut |-> d.cut,
               classes |-> d.classes, manifest |-> d.manifest, info |-> d.info, report |-> Missing]
      BY <1>1, <2>4 DEF Cleared
    <3> HIDE DEF e
    <3> QED
      BY <2>4, <3>1
  <2> QED
    BY <2>1, <2>2, <2>3, <2>4 DEF Parts
<1> HIDE DEF e
<1>4. DirectoryOK(e)
  BY <1>2, <1>3, FieldsOK
<1> QED
  BY <1>3, <1>4 DEF e

LEMMA AbsentOK ==
  /\ DirectoryOK(AbsentDir) /\ ~AbsentDir.there /\ ~Sentinel(AbsentDir) /\ AbsentDir.cut = {}
  /\ AbsentDir.classes = Missing /\ AbsentDir.info = Missing /\ \A sp \in Splits : AbsentDir.images[sp] = {}
<1>1. Missing.at \in Docs /\ ~Whole(Missing) /\ ~IsFile(Missing)
  BY DEF Missing, Docs, Whole, IsFile
<1> QED
  BY <1>1 DEF AbsentDir, DirectoryOK, CocoFile, Sentinel

(***************************************************************************)
(* Steps that leave the datasets alone                                     *)
(***************************************************************************)
\* Nothing of the imports or the disk changes.
LEMMA DatasetsStill ==
  ASSUME DatasetInv, UNCHANGED <<staging, raw, jobs, imp, stamp, origin, broken, givenUp>>,
         crashes' \in 0..MaxCrashes, PassOK'
  PROVE  DatasetInv'
<1>1. DatasetTypeOK' /\ OriginOK'
  BY DEF DatasetInv, DatasetTypeOK, OriginOK
<1>2. ImportShape' /\ SourceOK' /\ TargetOK' /\ DropOK'
  BY DEF DatasetInv, ImportShape, SourceOK, TargetOK, DropOK, DropsSource, Job, Target, Item
<1>3. InOrderSoFar'
  BY DEF DatasetInv, InOrderSoFar, Ahead, Job, Target, Item
<1>4. DoneOrAhead'
  BY DEF DatasetInv, DoneOrAhead, Stuck, Ahead, Job, Target, Item, HasSource
<1>5. CopiedOrAhead'
  BY DEF DatasetInv, CopiedOrAhead, Stuck, Ahead, Job, Target, Item
<1>6. ReadyMeansComplete' /\ FramesKept'
  BY DEF DatasetInv, ReadyMeansComplete, FramesKept, InStaging, CopiesOf
<1> QED
  BY <1>1, <1>2, <1>3, <1>4, <1>5, <1>6 DEF DatasetInv

\* The import is over: only what stands on the disk matters.
LEMMA ImportOver ==
  ASSUME DatasetTypeOK', OriginOK', ReadyMeansComplete', FramesKept', PassOK', imp'.pc = "idle"
  PROVE  DatasetInv'
BY DEF DatasetInv, ImportShape, SourceOK, TargetOK, DropOK, InOrderSoFar, DoneOrAhead, CopiedOrAhead

\* It ends and leaves the disk as it is.
LEMMA EndsThere ==
  ASSUME DatasetInv, UNCHANGED <<staging, raw, origin, broken, givenUp>>, imp'.pc = "idle",
         jobs' \in Seq(Jobs), stamp' \in Nat, crashes' \in 0..MaxCrashes, PassOK'
  PROVE  DatasetInv'
<1>1. DatasetTypeOK' /\ OriginOK' /\ ReadyMeansComplete' /\ FramesKept'
  BY DEF DatasetInv, DatasetTypeOK, OriginOK, ReadyMeansComplete, FramesKept, InStaging, CopiesOf
<1> QED
  BY <1>1, ImportOver

\* What an import knows of its job.
LEMMA JobFacts ==
  ASSUME DatasetInv, imp.pc # "idle"
  PROVE  /\ Job \in Jobs /\ Job.to \in DatasetIds /\ Job.op \in {"normalize", "migrate"}
         /\ Job.op = "normalize" => Job.from \in StagingIds /\ Job.dry = FALSE /\ Job.images \in BOOLEAN
         /\ Job.op = "migrate" => Job.from \in DatasetIds /\ Job.from # Job.to /\ Job.dry \in BOOLEAN
         /\ Job.mode \in {"copy", "move", "hardlink"}
<1>1. Job \in Jobs
  BY DEF DatasetInv, DatasetTypeOK, Job
<1> QED
  BY <1>1 DEF Jobs

LEMMA PassKept ==
  ASSUME PassOK, UNCHANGED retentionVars
  PROVE  PassOK'
BY DEF PassOK, retentionVars

\* A command begins: it looks at its source and its target.
LEMMA ImportStartStep ==
  ASSUME DatasetInv, ImportStart, PassOK'
  PROVE  DatasetInv'
<1> DEFINE j == Head(jobs)
<1>1. j \in Jobs /\ jobs' \in Seq(Jobs) /\ stamp' \in Nat /\ crashes' \in 0..MaxCrashes
      /\ UNCHANGED <<staging, raw, origin, broken, givenUp>>
  <2>1. jobs \in Seq(Jobs) /\ jobs # <<>> /\ jobs' = Tail(jobs) /\ stamp' = stamp + 1 /\ stamp \in Nat
        /\ crashes' = crashes /\ crashes \in 0..MaxCrashes
    BY DEF DatasetInv, DatasetTypeOK, ImportStart
  <2> QED
    BY <2>1, HeadTailProperties DEF ImportStart
<1>2. j.to \in DatasetIds
  BY <1>1 DEF Jobs
<1>3. CASE \E r : Ended(r)
  <2>1. imp'.pc = "idle"
    BY <1>3 DEF Ended
  <2> QED
    BY <1>1, <2>1, EndsThere
<1>4. CASE /\ imp' = [pc |-> IF raw[j.to].there /\ ~j.dry THEN "clear" ELSE "read", job |-> j]
           /\ SourceReady(j)
  <2>1. imp'.pc \in {"clear", "read"} /\ imp' = [pc |-> imp'.pc, job |-> j] /\ imp'.job = j
        /\ (imp'.pc = "read" => j.dry \/ ~raw[j.to].there)
    BY <1>4
  <2>2. DatasetTypeOK' /\ OriginOK' /\ ReadyMeansComplete' /\ FramesKept'
    <3>1. DatasetTypeOK'
      BY <1>1, <2>1 DEF DatasetInv, DatasetTypeOK
    <3> QED
      BY <1>1, <3>1 DEF DatasetInv, OriginOK, ReadyMeansComplete, FramesKept, InStaging, CopiesOf
  <2>3. SourceOK'
    <3> SUFFICES ASSUME j.op = "migrate" PROVE raw[j.from].cut = {}
      BY <1>1, <2>1 DEF SourceOK, Job
    <3>1. j.from \in DatasetIds
      BY <1>1 DEF Jobs
    <3>2. Whole(raw[j.from].classes)
      BY <1>4 DEF SourceReady
    <3>3. raw[j.from].classes # Missing
      BY <3>2 DEF Whole, Missing
    <3> QED
      BY <3>1, <3>3 DEF DatasetInv, DatasetTypeOK, DirectoryOK
  <2>4. TargetOK'
    BY <1>1, <1>2, <2>1 DEF TargetOK, Target, Job, DatasetInv, DatasetTypeOK, DirectoryOK
  <2>5. ImportShape' /\ DropOK' /\ InOrderSoFar' /\ DoneOrAhead' /\ CopiedOrAhead'
    BY <2>1 DEF ImportShape, DropOK, InOrderSoFar, DoneOrAhead, CopiedOrAhead
  <2> QED
    BY <2>2, <2>3, <2>4, <2>5 DEF DatasetInv
<1> QED
  BY <1>3, <1>4 DEF ImportStart

\* The target of an overwriting import goes, part by part.
LEMMA ClearStep ==
  ASSUME DatasetInv, ClearTarget, PassOK'
  PROVE  DatasetInv'
<1> DEFINE to == Job.to
<1>0. /\ DOMAIN raw = DatasetIds /\ \A d \in DatasetIds : DirectoryOK(raw[d])
      /\ imp.pc = "clear" /\ to \in DatasetIds /\ imp = [pc |-> "clear", job |-> imp.job]
      /\ UNCHANGED <<staging, jobs, stamp, origin, crashes>>
      /\ Job.op = "migrate" => Job.from \in DatasetIds /\ Job.from # to /\ raw[Job.from].cut = {}
  <2>1. imp.pc = "clear"
    BY DEF ClearTarget
  <2>2. imp = [pc |-> "clear", job |-> imp.job]
    BY <2>1 DEF DatasetInv, ImportShape
  <2> QED
    BY <2>1, <2>2, JobFacts DEF ClearTarget, DatasetInv, DatasetTypeOK, SourceOK
<1>1. ASSUME NEW part \in Parts, Clears(to, part), imp' = imp,
             givenUp' = IF part = "images"
                        THEN givenUp \cup {f \in FramesIn(to) : CopiesOf(f) \subseteq {to} /\ ~InStaging(f)}
                        ELSE givenUp
      PROVE  DatasetInv'
  <2> DEFINE e == Cleared(raw[to], part)
  <2>1. /\ DirectoryOK(e) /\ (part # "images" => e.images = raw[to].images /\ e.cut = raw[to].cut)
        /\ raw' = [raw EXCEPT ![to] = e] /\ broken' = broken \cup {to}
    BY <1>0, <1>1, PartCleared DEF Clears
  <2> HIDE DEF e
  <2>2. DOMAIN raw' = DatasetIds /\ raw'[to] = e /\ \A d \in DatasetIds : d # to => raw'[d] = raw[d]
    BY <1>0, <2>1
  <2>3. DatasetTypeOK' /\ OriginOK'
    <3>1. FramesIn(to) \subseteq Frames
      BY <1>0 DEF FramesIn, DirectoryOK
    <3>2. givenUp' \subseteq Frames /\ broken' \subseteq DatasetIds
      BY <1>0, <1>1, <2>1, <3>1 DEF DatasetInv, DatasetTypeOK
    <3>3. \A d \in DatasetIds : DirectoryOK(raw'[d])
      BY <1>0, <2>1, <2>2
    <3> QED
      BY <1>0, <1>1, <2>2, <3>2, <3>3 DEF DatasetInv, DatasetTypeOK, OriginOK
  <2>4. ImportShape' /\ TargetOK' /\ DropOK' /\ InOrderSoFar' /\ DoneOrAhead' /\ CopiedOrAhead'
    BY <1>0, <1>1 DEF ImportShape, TargetOK, DropOK, InOrderSoFar, DoneOrAhead, CopiedOrAhead
  <2>5. SourceOK'
    BY <1>0, <1>1, <2>2 DEF SourceOK, Job
  <2>6. ReadyMeansComplete'
    BY <1>0, <2>1, <2>2 DEF DatasetInv, ReadyMeansComplete
  <2>7. FramesKept'
    <3> SUFFICES ASSUME NEW f \in Frames
                 PROVE  InStaging(f)' \/ CopiesOf(f)' # {} \/ f \in givenUp'
      BY DEF FramesKept
    <3>1. CASE InStaging(f) \/ f \in givenUp
      BY <1>0, <1>1, <3>1 DEF InStaging
    <3>2. CASE ~InStaging(f) /\ f \notin givenUp
      <4>1. CopiesOf(f) # {}
        BY <3>2 DEF DatasetInv, FramesKept
      <4>2. CASE \E d \in CopiesOf(f) : d # to
        BY <2>2, <4>2 DEF CopiesOf
      <4>3. CASE CopiesOf(f) = {to}
        <5>1. CASE part = "images"
          <6>1. f \in FramesIn(to)
            BY <4>3 DEF CopiesOf, FramesIn
          <6> QED
            BY <1>1, <3>2, <4>3, <5>1, <6>1
        <5>2. CASE part # "images"
          <6>1. to \in CopiesOf(f)'
            BY <1>0, <2>1, <2>2, <4>3, <5>2 DEF CopiesOf
          <6> QED
            BY <6>1
        <5> QED
          BY <5>1, <5>2
      <4> QED
        BY <4>1, <4>2, <4>3
    <3> QED
      BY <3>1, <3>2
  <2> QED
    BY <2>3, <2>4, <2>5, <2>6, <2>7 DEF DatasetInv
<1>2. ASSUME RmtreeDone(to), imp' = [imp EXCEPT !.pc = "read"], givenUp' = givenUp
      PROVE  DatasetInv'
  <2>1. /\ raw[to] = [AbsentDir EXCEPT !.there = TRUE] /\ raw' = [raw EXCEPT ![to] = AbsentDir]
        /\ broken' = broken \ {to}
    BY <1>2 DEF RmtreeDone
  <2>2. DOMAIN raw' = DatasetIds /\ raw'[to] = AbsentDir /\ \A d \in DatasetIds : d # to => raw'[d] = raw[d]
    BY <1>0, <2>1
  <2>3. imp' = [pc |-> "read", job |-> imp.job]
    BY <1>0, <1>2
  <2>4. DatasetTypeOK' /\ OriginOK'
    <3>1. \A d \in DatasetIds : DirectoryOK(raw'[d])
      BY <1>0, <2>2, AbsentOK
    <3>2. broken' \subseteq DatasetIds
      BY <2>1 DEF DatasetInv, DatasetTypeOK
    <3>3. imp.job \in Jobs
      BY <1>0 DEF DatasetInv, DatasetTypeOK
    <3> QED
      BY <1>0, <1>2, <2>2, <2>3, <3>1, <3>2, <3>3 DEF DatasetInv, DatasetTypeOK, OriginOK
  <2>5. ImportShape' /\ DropOK' /\ InOrderSoFar' /\ DoneOrAhead' /\ CopiedOrAhead'
    BY <2>3 DEF ImportShape, DropOK, InOrderSoFar, DoneOrAhead, CopiedOrAhead
  <2>6. SourceOK' /\ TargetOK'
    BY <1>0, <2>2, <2>3 DEF SourceOK, TargetOK, Job, Target
  <2>7. ReadyMeansComplete'
    BY <1>0, <2>1, <2>2, AbsentOK DEF DatasetInv, ReadyMeansComplete
  <2>8. FramesKept'
    <3>1. \A sp \in Splits : raw[to].images[sp] = {}
      BY <2>1, AbsentOK DEF AbsentDir
    <3>2. \A f : CopiesOf(f) \subseteq CopiesOf(f)'
      BY <2>2, <3>1 DEF CopiesOf
    <3> QED
      BY <1>0, <1>2, <3>2 DEF DatasetInv, FramesKept, InStaging
  <2> QED
    BY <2>4, <2>5, <2>6, <2>7, <2>8 DEF DatasetInv
<1> QED
  BY <1>1, <1>2 DEF ClearTarget

(***************************************************************************)
(* Reading the source                                                      *)
(***************************************************************************)
ItemOf(g, sp) == File("image", sp, g.frame)

LEMMA ImageItemsOf ==
  ASSUME NEW coco, IsCoco(coco), NEW where, \A id \in Ids(coco.images) : where[id] \in Splits
  PROVE  /\ ImageItems(coco, where) \in Seq(TodoItems)
         /\ Range(ImageItems(coco, where)) = {ItemOf(g, where[g.id]) : g \in Range(coco.images)}
         /\ \A x \in Range(ImageItems(coco, where)) : x.what = "image"
<1> DEFINE images == coco.images
           items == ImageItems(coco, where)
<1>1. images \in Seq(ImageRecords) /\ DOMAIN images = 1..Len(images) /\ Len(images) \in Nat
  BY LenProperties DEF IsCoco
<1>2. \A i \in DOMAIN images : images[i] \in ImageRecords /\ where[images[i].id] \in Splits
  BY <1>1, ElementOfSeq DEF Ids
<1>3. items = [i \in 1..Len(images) |-> ItemOf(images[i], where[images[i].id])]
  BY <1>1 DEF ImageItems, ItemOf
<1> HIDE DEF images, items
<1>4. ASSUME NEW i \in 1..Len(images) PROVE ItemOf(images[i], where[images[i].id]) \in TodoItems
  <2>1. images[i].frame \in Frames /\ where[images[i].id] \in Splits
    BY <1>1, <1>2 DEF ImageRecords
  <2> QED
    BY <2>1 DEF ItemOf, File, TodoItems
<1>5. items \in Seq(TodoItems)
  BY <1>1, <1>3, <1>4, SeqDef
<1>6. Range(items) = {ItemOf(g, where[g.id]) : g \in Range(images)}
  BY <1>1, <1>3 DEF Range
<1>7. \A x \in Range(items) : x.what = "image"
  BY <1>6 DEF ItemOf, File
<1> QED
  BY <1>5, <1>6, <1>7 DEF items, images

\* The other files.
LEMMA DocItems ==
  /\ \A sp \in Splits : CocoItem(sp) \in TodoItems
  /\ \A what \in {"probe", "classes"} \cup Late : DocItem(what) \in TodoItems
  /\ \A sp \in Splits : CocoItem(sp).what = "coco"
  /\ \A what \in {"probe", "classes"} \cup Late : DocItem(what).what = what
BY DEF CocoItem, DocItem, File, TodoItems, Splits, Late

LEMMA TwoItems ==
  ASSUME NEW a \in TodoItems, NEW b \in TodoItems
  PROVE  <<a, b>> \in Seq(TodoItems) /\ Range(<<a, b>>) = {a, b} /\ <<a, b>> # <<>>
<1> DEFINE s == <<a, b>>
<1>1. s \in Seq(TodoItems) /\ s[1] = a /\ s[2] = b /\ DOMAIN s = 1..2 /\ s # <<>>
  OBVIOUS
<1> HIDE DEF s
<1>2. DOMAIN s = {1, 2}
  BY <1>1
<1>3. Range(s) = {a, b}
  BY <1>1, <1>2 DEF Range
<1> QED
  BY <1>1, <1>3 DEF s

LEMMA OneItem ==
  ASSUME NEW a \in TodoItems
  PROVE  <<a>> \in Seq(TodoItems) /\ Range(<<a>>) = {a}
<1> DEFINE s == <<a>>
<1>1. s \in Seq(TodoItems) /\ s[1] = a /\ DOMAIN s = 1..1
  OBVIOUS
<1> HIDE DEF s
<1>2. DOMAIN s = {1}
  BY <1>1
<1>3. Range(s) = {a}
  BY <1>1, <1>2 DEF Range
<1> QED
  BY <1>1, <1>3 DEF s

LEMMA NoItem == <<>> \in Seq(TodoItems) /\ Range(<<>>) = {}
BY EmptySeq DEF Range

\* What normalize lists: the annotation files, the images, then the documents.
LEMMA NormalizeItems ==
  ASSUME NEW j, NEW coco, IsCoco(coco)
  PROVE  LET todo == NormalizeTodo(j, coco) IN
         /\ todo \in Seq(TodoItems) /\ Ordered(todo)
         /\ \A sp \in Splits : CocoItem(sp) \in Range(todo)
         /\ DocItem("classes") \in Range(todo) /\ todo # <<>>
         /\ DocItem("unreadable") \notin Range(todo)
         /\ j.images => \A f \in Listed(coco) : \E x \in Range(todo) : x.what = "image" /\ x.frame = f
<1> DEFINE where == [id \in Ids(coco.images) |-> SplitOfImage(coco, j.ratios, id)]
           cocos == [i \in 1..3 |-> CocoItem(SPLITS[i])]
           probe == IF j.images /\ j.mode = "hardlink" THEN <<DocItem("probe")>> ELSE <<>>
           images == IF j.images THEN ImageItems(coco, where) ELSE <<>>
           docs == <<DocItem("manifest"), DocItem("classes"), DocItem("info")>>
           todo == NormalizeTodo(j, coco)
<1>1. todo = ((cocos \o probe) \o images) \o docs
  BY Zenon DEF NormalizeTodo
<1>2. \A id \in Ids(coco.images) : where[id] \in Splits
  BY DEF SplitOfImage, AssignSplit, Splits
<1>3. cocos \in Seq(TodoItems) /\ Range(cocos) = {CocoItem(sp) : sp \in Splits}
  <2>1. cocos[1] = CocoItem("train") /\ cocos[2] = CocoItem("val") /\ cocos[3] = CocoItem("test")
    BY DEF SPLITS
  <2>2. DOMAIN cocos = {1, 2, 3} /\ cocos = [i \in 1..3 |-> cocos[i]]
    OBVIOUS
  <2>3. \A i \in 1..3 : cocos[i] \in TodoItems
    BY <2>1, DocItems DEF Splits
  <2> HIDE DEF cocos
  <2>4. cocos \in Seq(TodoItems)
    BY <2>2, <2>3, SeqDef
  <2> QED
    BY <2>1, <2>2, <2>4 DEF Range, Splits
<1>4. probe \in Seq(TodoItems) /\ Range(probe) \subseteq {DocItem("probe")}
  BY DocItems, OneItem, NoItem
<1>5. images \in Seq(TodoItems) /\ (\A x \in Range(images) : x.what = "image")
      /\ (j.images => Range(images) = {ItemOf(g, where[g.id]) : g \in Range(coco.images)})
  BY <1>2, ImageItemsOf, NoItem
<1>6. docs \in Seq(TodoItems) /\ DocItem("classes") \in Range(docs) /\ Ordered(docs)
      /\ \A x \in Range(docs) : x.what # "unreadable"
  <2> DEFINE man == DocItem("manifest")
             cls == DocItem("classes")
             inf == DocItem("info")
  <2>1. man \in TodoItems /\ cls \in TodoItems /\ inf \in TodoItems
        /\ man.what = "manifest" /\ cls.what = "classes" /\ inf.what = "info"
    BY DocItems DEF Late
  <2> HIDE DEF man, cls, inf
  <2> DEFINE s == <<man, cls, inf>>
  <2>2. s \in Seq(TodoItems) /\ s[1] = man /\ s[2] = cls /\ s[3] = inf /\ DOMAIN s = 1..3
    BY <2>1
  <2> HIDE DEF s
  <2>3. cls \in Range(s) /\ \A x \in Range(s) : x.what # "unreadable"
    <3>1. DOMAIN s = {1, 2, 3}
      BY <2>2
    <3>2. Range(s) = {man, cls, inf}
      BY <2>2, <3>1 DEF Range
    <3> QED
      BY <2>1, <3>2
  <2>4. Ordered(s)
    <3> SUFFICES ASSUME NEW i \in 1..3, NEW k \in 1..3, i < k
                 PROVE  /\ s[i].what = "classes" => s[k].what \in Late
                        /\ s[i].what = "info" => s[k].what \in After
                        /\ s[i].what # "report"
      BY <2>2 DEF Ordered
    <3>1. <<i, k>> \in {<<1, 2>>, <<1, 3>>, <<2, 3>>}
      OBVIOUS
    <3> QED
      BY <2>1, <2>2, <3>1 DEF Late
  <2> QED
    BY <2>2, <2>3, <2>4 DEF s, man, cls, inf
<1> HIDE DEF cocos, probe, images, docs, todo
<1> DEFINE u == (cocos \o probe) \o images
<1>7. u \in Seq(TodoItems) /\ Range(u) = Range(cocos) \cup Range(probe) \cup Range(images)
  <2> DEFINE v == cocos \o probe
  <2>1. v \in Seq(TodoItems) /\ Range(v) = Range(cocos) \cup Range(probe)
    BY <1>3, <1>4, JoinedRange
  <2> HIDE DEF v
  <2>2. v \o images \in Seq(TodoItems) /\ Range(v \o images) = Range(v) \cup Range(images)
    BY <1>5, <2>1, JoinedRange
  <2> QED
    BY <2>1, <2>2, Zenon DEF v
<1> HIDE DEF u
<1>8. todo \in Seq(TodoItems) /\ Range(todo) = Range(u) \cup Range(docs)
  <2>1. todo = u \o docs
    BY <1>1, Zenon DEF u
  <2> QED
    BY <1>6, <1>7, <2>1, JoinedRange
<1>9. \A x \in Range(u) : x.what \notin {"classes", "info", "report", "unreadable"}
  BY <1>3, <1>4, <1>5, <1>7, DocItems DEF Late
<1>10. Ordered(todo)
  BY <1>1, <1>6, <1>7, <1>9, OrderedAfter DEF u
<1>11. todo # <<>>
  BY <1>6, <1>8, NoItem
<1>12. ASSUME j.images, NEW f \in Listed(coco)
       PROVE  \E x \in Range(todo) : x.what = "image" /\ x.frame = f
  <2>1. PICK g \in Range(coco.images) : g.frame = f
    BY <1>12 DEF Listed, Range
  <2>2. ItemOf(g, where[g.id]) \in Range(todo)
    BY <1>5, <1>7, <1>8, <1>12, <2>1
  <2> QED
    BY <2>1, <2>2 DEF ItemOf, File
<1>13. DocItem("unreadable") \notin Range(todo)
  <2>1. DocItem("unreadable").what = "unreadable"
    BY DocItems DEF Late
  <2> QED
    BY <1>6, <1>8, <1>9, <2>1
<1> QED
  BY <1>3, <1>6, <1>7, <1>8, <1>10, <1>11, <1>12, <1>13 DEF todo

\* A list whose first file makes the directory.
Starts(todo) == todo # <<>> /\ todo[1].what \in {"coco", "classes", "unreadable"}

LEMMA StartsJoined ==
  ASSUME NEW u \in Seq(TodoItems), NEW v \in Seq(TodoItems), u = <<>> \/ Starts(u), Starts(v)
  PROVE  Starts(u \o v)
<1>1. /\ Len(u \o v) = Len(u) + Len(v) /\ Len(u) \in Nat /\ Len(v) \in Nat /\ Len(v) # 0 /\ u \o v \in Seq(TodoItems)
      /\ \A k \in 1..(Len(u) + Len(v)) : (u \o v)[k] = IF k <= Len(u) THEN u[k] ELSE v[k - Len(u)]
  BY ConcatProperties, LenProperties, EmptySeq DEF Starts
<1>2. u \o v # <<>>
  <2>1. Len(u \o v) # 0
    BY <1>1
  <2> QED
    BY <1>1, <2>1, EmptySeq
<1>3. CASE u = <<>>
  <2>1. Len(u) = 0
    BY <1>3, EmptySeq
  <2>2. (u \o v)[1] = v[1]
    BY <1>1, <2>1
  <2> QED
    BY <1>2, <2>2 DEF Starts
<1>4. CASE u # <<>>
  <2>1. Len(u) # 0
    BY <1>4, EmptySeq
  <2>2. (u \o v)[1] = u[1]
    BY <1>1, <2>1
  <2> QED
    BY <1>2, <1>4, <2>2 DEF Starts
<1> QED
  BY <1>3, <1>4

\* What migrate lists for one split.
SplitItems(d, sp) ==
  IF sp \in Readable(d)
  THEN LET coco == d.coco[sp].doc
       IN <<CocoItem(sp)>> \o ImageItems(coco, [id \in Ids(coco.images) |-> sp])
  ELSE IF sp \in Present(d) THEN <<DocItem("unreadable")>> ELSE <<>>

LEMMA SplitItemsOf ==
  ASSUME NEW d, DirectoryOK(d), NEW sp \in Splits
  PROVE  LET items == SplitItems(d, sp) IN
         /\ items \in Seq(TodoItems) /\ (items = <<>> \/ Starts(items))
         /\ \A x \in Range(items) : x.what \notin {"classes", "info", "report"}
         /\ sp \in Readable(d) => /\ CocoItem(sp) \in Range(items)
                                  /\ \A f \in Listed(d.coco[sp].doc) : File("image", sp, f) \in Range(items)
         /\ sp \in Present(d) \ Readable(d) => DocItem("unreadable") \in Range(items)
<1>1. CASE sp \in Readable(d)
  <2> DEFINE coco == d.coco[sp].doc
             where == [id \in Ids(coco.images) |-> sp]
             c == CocoItem(sp)
             images == ImageItems(coco, where)
  <2>1. IsCoco(coco)
    BY <1>1 DEF DirectoryOK, CocoFile, Readable, Parsed
  <2>2. \A id \in Ids(coco.images) : where[id] = sp
    OBVIOUS
  <2>3. /\ images \in Seq(TodoItems) /\ \A x \in Range(images) : x.what = "image"
        /\ Range(images) = {ItemOf(g, where[g.id]) : g \in Range(coco.images)}
    BY <2>1, <2>2, ImageItemsOf
  <2>4. SplitItems(d, sp) = <<c>> \o images
    BY <1>1, Zenon DEF SplitItems
  <2>5. c \in TodoItems /\ c.what = "coco"
    BY DocItems
  <2>6. \A f \in Listed(coco) : File("image", sp, f) \in Range(images)
    <3> SUFFICES ASSUME NEW f \in Listed(coco) PROVE File("image", sp, f) \in Range(images)
      OBVIOUS
    <3>1. PICK g \in Range(coco.images) : g.frame = f
      BY DEF Listed, Range
    <3>2. where[g.id] = sp
      BY <2>2, <3>1 DEF Ids, Range
    <3> QED
      BY <2>3, <3>1, <3>2 DEF ItemOf
  <2> HIDE DEF images, c
  <2>7. <<c>> \in Seq(TodoItems) /\ Range(<<c>>) = {c}
    BY <2>5, OneItem
  <2>8. SplitItems(d, sp) \in Seq(TodoItems) /\ Range(SplitItems(d, sp)) = {c} \cup Range(images)
    <3> DEFINE one == <<c>>
    <3> HIDE DEF one
    <3>1. one \o images \in Seq(TodoItems) /\ Range(one \o images) = Range(one) \cup Range(images)
      BY <2>3, <2>7, JoinedRange DEF one
    <3> QED
      BY <2>4, <2>7, <3>1, Zenon DEF one
  <2>9. Starts(SplitItems(d, sp))
    <3> DEFINE w == <<c>> \o images
    <3>1. Len(<<c>>) = 1 /\ <<c>>[1] = c
      OBVIOUS
    <3>2. Len(images) \in Nat /\ \A k \in 1..(1 + Len(images)) : w[k] = IF k <= 1 THEN <<c>>[k] ELSE images[k - 1]
      BY <2>3, <2>7, <3>1, ConcatProperties, LenProperties
    <3> HIDE DEF w
    <3>3. w[1] = c
      BY <3>1, <3>2
    <3>4. w # <<>>
      BY <2>4, <2>8, NoItem DEF w
    <3> QED
      BY <2>4, <2>5, <3>3, <3>4 DEF Starts, w
  <2> QED
    BY <1>1, <2>3, <2>5, <2>6, <2>8, <2>9 DEF c
<1>2. CASE sp \notin Readable(d) /\ sp \in Present(d)
  <2> DEFINE x == DocItem("unreadable")
  <2>1. SplitItems(d, sp) = <<x>>
    BY <1>2 DEF SplitItems
  <2>2. x \in TodoItems /\ x.what = "unreadable"
    BY DocItems DEF Late
  <2> HIDE DEF x
  <2>3. <<x>> \in Seq(TodoItems) /\ Range(<<x>>) = {x} /\ <<x>>[1] = x /\ <<x>> # <<>>
    BY <2>2, OneItem
  <2> QED
    BY <1>2, <2>1, <2>2, <2>3 DEF Starts, x
<1>3. CASE sp \notin Readable(d) /\ sp \notin Present(d)
  <2>1. SplitItems(d, sp) = <<>>
    BY <1>3 DEF SplitItems
  <2> QED
    BY <1>3, <2>1, NoItem
<1> QED
  BY <1>1, <1>2, <1>3

\* What it lists after the splits.
LEMMA LastItems ==
  ASSUME NEW x \in TodoItems, x.what \in {"info", "unreadable"},
         NEW m \in Seq(TodoItems), Ordered(m), \A y \in Range(m) : y.what \in After
  PROVE  LET s == <<DocItem("classes"), x>> \o m IN
         s \in Seq(TodoItems) /\ Ordered(s) /\ Starts(s) /\ DocItem("classes") \in Range(s)
<1> DEFINE c == DocItem("classes")
           p == <<c, x>>
           s == p \o m
<1>1. c \in TodoItems /\ c.what = "classes"
  BY DocItems
<1> HIDE DEF c
<1>2. p \in Seq(TodoItems) /\ Range(p) = {c, x} /\ p[1] = c /\ p[2] = x /\ Len(p) = 2
  BY <1>1, TwoItems
<1> HIDE DEF p
<1>3. s \in Seq(TodoItems) /\ Range(s) = Range(p) \cup Range(m)
  BY <1>2, JoinedRange
<1>4. /\ Len(m) \in Nat /\ DOMAIN m = 1..Len(m) /\ DOMAIN s = 1..(2 + Len(m))
      /\ \A k \in 1..(2 + Len(m)) : s[k] = IF k <= 2 THEN p[k] ELSE m[k - 2]
  <2>1. /\ s \in Seq(TodoItems) /\ Len(s) = Len(p) + Len(m)
        /\ \A k \in 1..(Len(p) + Len(m)) : s[k] = IF k <= Len(p) THEN p[k] ELSE m[k - Len(p)]
    BY <1>2, ConcatProperties, Zenon
  <2> HIDE DEF s
  <2> QED
    BY <1>2, <2>1, LenProperties
<1> HIDE DEF s
<1>5. s[1] = c /\ s[2] = x
  BY <1>2, <1>4
<1>6. \A k \in DOMAIN s : k = 1 \/ k = 2 \/ (k - 2 \in DOMAIN m /\ s[k] = m[k - 2] /\ s[k].what \in After)
  <2> SUFFICES ASSUME NEW k \in DOMAIN s, k > 2
               PROVE  k - 2 \in DOMAIN m /\ s[k] = m[k - 2] /\ s[k].what \in After
    BY <1>4
  <2>1. k - 2 \in DOMAIN m /\ s[k] = m[k - 2]
    BY <1>4
  <2> QED
    BY <2>1 DEF Range
<1>7. Ordered(s)
  <2> SUFFICES ASSUME NEW i \in DOMAIN s, NEW k \in DOMAIN s, i < k
               PROVE  /\ s[i].what = "classes" => s[k].what \in Late
                      /\ s[i].what = "info" => s[k].what \in After
                      /\ s[i].what # "report"
    BY DEF Ordered
  <2>1. i \in Nat /\ k \in Nat /\ k # 1 /\ (k = 2 => i = 1)
    BY <1>4
  <2>2. CASE k = 2
    BY <1>1, <1>5, <2>1, <2>2 DEF Late
  <2>3. CASE k # 2
    <3>1. k - 2 \in DOMAIN m /\ s[k].what \in After
      BY <1>6, <2>1, <2>3
    <3>2. CASE i = 1 \/ i = 2
      BY <1>1, <1>5, <3>1, <3>2 DEF Late, After
    <3>3. CASE i # 1 /\ i # 2
      <4>1. i - 2 \in DOMAIN m /\ s[i] = m[i - 2] /\ i - 2 < k - 2 /\ s[i].what \in After
        BY <1>6, <2>1, <3>3
      <4> QED
        BY <3>1, <4>1 DEF Ordered, After
    <3> QED
      BY <3>2, <3>3
  <2> QED
    BY <2>2, <2>3
<1>8. Starts(s)
  <2>1. s # <<>>
    BY <1>2, <1>3, NoItem
  <2> QED
    BY <1>1, <1>5, <2>1 DEF Starts
<1> QED
  BY <1>2, <1>3, <1>7, <1>8 DEF s, p, c

LEMMA Associative ==
  \A u, v, w \in Seq(TodoItems) : (u \o v) \o w = u \o (v \o w)
BY ConcatAssociative

LEMMA MigrateItems ==
  ASSUME NEW d, DirectoryOK(d)
  PROVE  LET todo == MigrateTodo(d) IN
         /\ todo \in Seq(TodoItems) /\ Ordered(todo) /\ Starts(todo)
         /\ \A sp \in Readable(d) : /\ CocoItem(sp) \in Range(todo)
                                    /\ \A f \in Listed(d.coco[sp].doc) : File("image", sp, f) \in Range(todo)
         /\ DocItem("classes") \in Range(todo)
         /\ Present(d) \subseteq Readable(d) \/ DocItem("unreadable") \in Range(todo)
<1> DEFINE a == SplitItems(d, "train")
           b == SplitItems(d, "val")
           c == SplitItems(d, "test")
           x == DocItem(IF d.info = Torn THEN "unreadable" ELSE "info")
           p == <<DocItem("classes"), x>>
           man == IF IsFile(d.manifest) THEN <<DocItem("manifest")>> ELSE <<>>
           r == <<DocItem("report")>>
           m == man \o r
           last == p \o m
           todo == MigrateTodo(d)
<1>1. todo = ((((a \o b) \o c) \o p) \o man) \o r
  BY Zenon DEF MigrateTodo, SplitItems
<1>2. /\ a \in Seq(TodoItems) /\ b \in Seq(TodoItems) /\ c \in Seq(TodoItems)
      /\ a = <<>> \/ Starts(a)
      /\ b = <<>> \/ Starts(b)
      /\ c = <<>> \/ Starts(c)
      /\ \A y \in Range(a) \cup Range(b) \cup Range(c) : y.what \notin {"classes", "info", "report"}
  BY SplitItemsOf DEF Splits
<1>3. x \in TodoItems /\ x.what \in {"info", "unreadable"}
  BY DocItems DEF Late
<1>4. /\ man \in Seq(TodoItems) /\ r \in Seq(TodoItems)
      /\ m \in Seq(TodoItems) /\ Ordered(m) /\ \A y \in Range(m) : y.what \in After
  <2>1. /\ DocItem("manifest") \in TodoItems /\ DocItem("manifest").what = "manifest"
        /\ DocItem("report") \in TodoItems /\ DocItem("report").what = "report"
    BY DocItems DEF Late
  <2>2. man \in Seq(TodoItems) /\ \A y \in Range(man) : y.what = "manifest"
    BY <2>1, OneItem, NoItem
  <2>3. r \in Seq(TodoItems) /\ (\A y \in Range(r) : y.what = "report") /\ Ordered(r)
    <3>1. r \in Seq(TodoItems) /\ Range(r) = {DocItem("report")}
      BY <2>1, OneItem
    <3>2. DOMAIN r = {1}
      OBVIOUS
    <3>3. Ordered(r)
      BY <3>2 DEF Ordered
    <3> QED
      BY <2>1, <3>1, <3>3
  <2> HIDE DEF man, r
  <2>4. m \in Seq(TodoItems) /\ Range(m) = Range(man) \cup Range(r)
    BY <2>2, <2>3, JoinedRange
  <2>5. Ordered(m)
    BY <2>2, <2>3, OrderedAfter
  <2> QED
    BY <2>2, <2>3, <2>4, <2>5 DEF After
<1>5. last \in Seq(TodoItems) /\ Ordered(last) /\ Starts(last) /\ DocItem("classes") \in Range(last)
      /\ p \in Seq(TodoItems)
  BY <1>3, <1>4, LastItems, TwoItems, DocItems
<1>6. \A sp \in Splits : /\ sp \in Readable(d) => /\ CocoItem(sp) \in Range(SplitItems(d, sp))
                                                  /\ \A f \in Listed(d.coco[sp].doc) :
                                                       File("image", sp, f) \in Range(SplitItems(d, sp))
                         /\ sp \in Present(d) \ Readable(d) => DocItem("unreadable") \in Range(SplitItems(d, sp))
  BY SplitItemsOf
<1>7. \A sp \in Splits : Range(SplitItems(d, sp)) \subseteq Range(a) \cup Range(b) \cup Range(c)
  BY DEF Splits
<1> HIDE DEF a, b, c, p, man, r, todo
<1> DEFINE ab == a \o b
           u == ab \o c
<1>8. ab \in Seq(TodoItems) /\ Range(ab) = Range(a) \cup Range(b)
  BY <1>2, JoinedRange
<1>9. u \in Seq(TodoItems) /\ Range(u) = Range(a) \cup Range(b) \cup Range(c)
  <2> HIDE DEF ab
  <2> QED
    BY <1>2, <1>8, JoinedRange
<1>10. todo = u \o last
  <2>1. todo = ((u \o p) \o man) \o r
    BY <1>1, Zenon
  <2> HIDE DEF u
  <2>2. u \o p \in Seq(TodoItems)
    BY <1>5, <1>9, ConcatProperties
  <2>3. todo = (u \o p) \o m
    BY <1>4, <2>1, <2>2, Associative
  <2> HIDE DEF m
  <2> QED
    BY <1>4, <1>5, <1>9, <2>3, Associative
<1>11. Starts(todo)
  <2> HIDE DEF last
  <2>1. u \o last = ab \o (c \o last)
    <3> HIDE DEF ab
    <3> QED
      BY <1>2, <1>5, <1>8, Associative
  <2>2. c \o last \in Seq(TodoItems) /\ Starts(c \o last)
    BY <1>2, <1>5, StartsJoined, ConcatProperties
  <2> DEFINE v == c \o last
  <2> HIDE DEF v
  <2>3. ab \o v = a \o (b \o v)
    BY <1>2, <2>2, Associative DEF v
  <2>4. b \o v \in Seq(TodoItems) /\ Starts(b \o v)
    BY <1>2, <2>2, StartsJoined, ConcatProperties DEF v
  <2> DEFINE w == b \o v
  <2> HIDE DEF w
  <2>5. Starts(a \o w)
    BY <1>2, <2>4, StartsJoined DEF w
  <2> QED
    BY <1>10, <2>1, <2>3, <2>5, Zenon DEF v, w
<1> HIDE DEF u, last
<1>12. todo \in Seq(TodoItems) /\ Range(todo) = Range(u) \cup Range(last)
  BY <1>5, <1>9, <1>10, JoinedRange
<1>13. Ordered(todo)
  BY <1>2, <1>5, <1>9, <1>10, OrderedAfter
<1>14. Present(d) \subseteq Readable(d) \/ DocItem("unreadable") \in Range(todo)
  BY <1>6, <1>7, <1>9, <1>12 DEF Present
<1>15. \A sp \in Readable(d) : /\ CocoItem(sp) \in Range(todo)
                               /\ \A f \in Listed(d.coco[sp].doc) : File("image", sp, f) \in Range(todo)
  BY <1>6, <1>7, <1>9, <1>12 DEF Readable, Parsed
<1> QED
  BY <1>5, <1>11, <1>12, <1>13, <1>14, <1>15 DEF todo

\* What the two commands are to leave.
LEMMA NormalizeOutOf ==
  ASSUME NEW j, NEW coco, IsCoco(coco)
  PROVE  LET out == NormalizeOut(j, coco) IN
         /\ Whole(out.classes)
         /\ \A sp \in Splits : /\ CocoFile(out.coco[sp]) /\ Whole(out.coco[sp])
                               /\ out.info.doc.splits[sp] = Counts(out.coco[sp].doc)
<1> DEFINE out == NormalizeOut(j, coco)
<1>1. /\ out.coco = [sp \in Splits |-> Doc(SplitCoco(coco, j.ratios, sp))]
      /\ out.classes = Doc(coco.cats)
      /\ out.info.doc.splits = [sp \in Splits |-> Counts(SplitCoco(coco, j.ratios, sp))]
  BY DEF NormalizeOut, AbsentDir, Doc
<1> HIDE DEF out
<1>2. ASSUME NEW sp \in Splits
      PROVE  /\ CocoFile(out.coco[sp]) /\ Whole(out.coco[sp])
             /\ out.info.doc.splits[sp] = Counts(out.coco[sp].doc)
  <2>1. IsCoco(SplitCoco(coco, j.ratios, sp))
    BY SplitIsCoco
  <2>2. out.coco[sp].at = "whole" /\ out.coco[sp].doc = SplitCoco(coco, j.ratios, sp)
    BY <1>1 DEF Doc
  <2> QED
    BY <1>1, <2>1, <2>2 DEF CocoFile, Whole, Docs
<1>3. Whole(out.classes)
  BY <1>1 DEF Whole, Doc
<1> QED
  BY <1>2, <1>3 DEF out

LEMMA MigrateOutOf ==
  ASSUME NEW d, DirectoryOK(d)
  PROVE  LET out == MigrateOut(d) IN
         /\ Whole(out.classes) /\ out.classes = Doc(CANONICAL_CATEGORIES)
         /\ out.coco = [sp \in Splits |-> IF sp \in Readable(d)
                                         THEN Doc(RemapSplit(d.coco[sp].doc, d.classes.doc)) ELSE Missing]
         /\ \A sp \in Splits : CocoFile(out.coco[sp])
         /\ \A sp \in Readable(d) : Whole(out.coco[sp]) /\ out.info.doc.splits[sp] = Counts(out.coco[sp].doc)
<1> DEFINE out == MigrateOut(d)
           new(sp) == RemapSplit(d.coco[sp].doc, d.classes.doc)
<1>1. /\ out.coco = [sp \in Splits |-> IF sp \in Readable(d) THEN Doc(new(sp)) ELSE Missing]
      /\ out.classes = Doc(CANONICAL_CATEGORIES)
      /\ out.info.doc.splits = [sp \in Readable(d) |-> Counts(new(sp))]
  <2> DEFINE images == (IF "train" \in Readable(d) THEN Len([sp \in Readable(d) |-> new(sp)]["train"].images) ELSE 0)
                        + (IF "val" \in Readable(d) THEN Len([sp \in Readable(d) |-> new(sp)]["val"].images) ELSE 0)
                        + (IF "test" \in Readable(d) THEN Len([sp \in Readable(d) |-> new(sp)]["test"].images) ELSE 0)
  <2>1. out = [AbsentDir EXCEPT
                 !.coco = [sp \in Splits |-> IF sp \in Readable(d) THEN Doc([q \in Readable(d) |-> new(q)][sp]) ELSE Missing],
                 !.classes = Doc(CANONICAL_CATEGORIES), !.manifest = d.manifest,
                 !.info = Doc([splits |-> [sp \in Readable(d) |-> Counts([q \in Readable(d) |-> new(q)][sp])],
                               images |-> images, by |-> "migrate",
                               stamp |-> IF Whole(d.info) THEN d.info.doc.stamp ELSE NoStamp]),
                 !.report = Doc(stamp)]
    BY Zenon DEF MigrateOut
  <2> HIDE DEF images, out, new
  <2> QED
    BY <2>1 DEF AbsentDir, Doc
<1> HIDE DEF out
<1>2. ASSUME NEW sp \in Readable(d)
      PROVE  /\ CocoFile(out.coco[sp]) /\ Whole(out.coco[sp])
             /\ out.info.doc.splits[sp] = Counts(out.coco[sp].doc)
  <2>1. sp \in Splits /\ Whole(d.coco[sp]) /\ Remappable(d.coco[sp].doc, d.classes.doc)
    BY DEF Readable, Parsed
  <2>2. IsCoco(new(sp))
    BY <2>1, RemapIsCoco DEF DirectoryOK, CocoFile
  <2> HIDE DEF new
  <2>3. out.coco[sp].at = "whole" /\ out.coco[sp].doc = new(sp)
    BY <1>1, <2>1 DEF Doc
  <2> QED
    BY <1>1, <2>2, <2>3 DEF CocoFile, Whole, Docs
<1>3. \A sp \in Splits : sp \notin Readable(d) => CocoFile(out.coco[sp])
  BY <1>1 DEF CocoFile, Missing, Whole, Docs
<1>4. Whole(out.classes)
  BY <1>1 DEF Whole, Doc
<1> QED
  BY <1>1, <1>2, <1>3, <1>4 DEF out

\* A command that begins to write into a directory without files.
LEMMA WritingBegins ==
  ASSUME DatasetInv, imp.pc = "read", ~Job.dry, PassOK',
         UNCHANGED <<staging, jobs, stamp, broken, givenUp, crashes>>,
         NEW out, NEW todo \in Seq(TodoItems), NEW what,
         imp' = [pc |-> "write", open |-> FALSE, job |-> Job, out |-> out, todo |-> todo],
         origin' = [origin EXCEPT ![Job.to] = what], what.splits \subseteq Splits,
         \/ raw' = [raw EXCEPT ![Job.to].there = TRUE]
         \/ raw' = raw /\ Starts(todo),
         Ordered(todo), Whole(out.classes), \A sp \in Splits : CocoFile(out.coco[sp]),
         DocItem("classes") \in Range(todo),
         \/ DocItem("unreadable") \in Range(todo)
         \/ /\ \A sp \in what.splits :
                 Whole(out.coco[sp]) /\ out.info.doc.splits[sp] = Counts(out.coco[sp].doc) /\ CocoItem(sp) \in Range(todo)
            /\ \A f \in what.files : \E x \in Range(todo) : x.what = "image" /\ x.frame = f /\ HasSource(x)
            /\ Job.op = "migrate" =>
                 \A sp \in Splits : \A f \in raw[Job.from].images[sp] : At(f, sp) \in what.frames =>
                   File("image", sp, f) \in Range(todo),
         Job.op = "normalize" => /\ DocItem("unreadable") \notin Range(todo)
                                 /\ Job.images => \A o \in what.frames : \E x \in Range(todo) : x.what = "image" /\ x.frame = o.frame
  PROVE  DatasetInv'
<1> DEFINE to == Job.to
<1>0. /\ Job \in Jobs /\ to \in DatasetIds /\ Job.op \in {"normalize", "migrate"}
      /\ (Job.op = "migrate" => Job.from \in DatasetIds /\ Job.from # to /\ raw[Job.from].cut = {})
      /\ DOMAIN raw = DatasetIds /\ (\A d \in DatasetIds : DirectoryOK(raw[d])) /\ DOMAIN origin = DatasetIds
      /\ raw[to] = AbsentDir
  BY JobFacts DEF DatasetInv, DatasetTypeOK, SourceOK, TargetOK, OriginOK, Target
<1>1. /\ imp'.pc = "write" /\ imp'.open = FALSE /\ imp'.job = Job /\ imp'.out = out /\ imp'.todo = todo
      /\ Job' = Job /\ Ahead' = Range(todo)
  BY DEF Job, Ahead
<1>2. /\ DOMAIN raw' = DatasetIds /\ \A d \in DatasetIds : d # to => raw'[d] = raw[d]
      /\ raw'[to] = [AbsentDir EXCEPT !.there = raw'[to].there] /\ raw'[to].there \in BOOLEAN
      /\ raw'[to].there \/ Starts(todo)
      /\ Target' = raw'[to]
  <2>1. AbsentDir = [AbsentDir EXCEPT !.there = AbsentDir.there] /\ AbsentDir.there = FALSE
    BY DEF AbsentDir
  <2>2. CASE raw' = [raw EXCEPT ![to].there = TRUE]
    <3>1. raw'[to] = [raw[to] EXCEPT !.there = TRUE] /\ DOMAIN raw' = DatasetIds
          /\ \A d \in DatasetIds : d # to => raw'[d] = raw[d]
      BY <1>0, <2>2
    <3>2. raw'[to].there = TRUE
      BY <1>0, <3>1 DEF AbsentDir
    <3> QED
      BY <1>0, <1>1, <3>1, <3>2 DEF Target
  <2>3. CASE raw' = raw /\ Starts(todo)
    BY <1>0, <1>1, <2>1, <2>3 DEF Target
  <2> QED
    BY <2>2, <2>3
<1>3. /\ raw'[to].images = AbsentDir.images /\ raw'[to].cut = {} /\ raw'[to].coco = AbsentDir.coco
      /\ raw'[to].classes = Missing /\ raw'[to].info = Missing /\ raw'[to].report = Missing /\ ~Sentinel(raw'[to])
      /\ DirectoryOK(raw'[to])
  <2> DEFINE e == raw'[to]
  <2>1. e = [AbsentDir EXCEPT !.there = e.there] /\ e.there \in BOOLEAN
    BY <1>2
  <2> HIDE DEF e
  <2>2. e = [there |-> e.there, coco |-> AbsentDir.coco, images |-> AbsentDir.images, cut |-> {},
             classes |-> Missing, manifest |-> AbsentDir.manifest, info |-> Missing, report |-> Missing]
    BY <2>1 DEF AbsentDir
  <2>3. ~e.there => e = AbsentDir
    BY <2>2 DEF AbsentDir
  <2>4. DirectoryOK(e)
    <3>1. Missing.at \in Docs /\ ~Whole(Missing)
      BY DEF Missing, Docs, Whole
    <3>2. AbsentDir.images \in [Splits -> SUBSET Frames] /\ DOMAIN AbsentDir.coco = Splits
          /\ \A sp \in Splits : AbsentDir.coco[sp] = Missing
      BY DEF AbsentDir
    <3> QED
      BY <2>1, <2>2, <2>3, <3>1, <3>2 DEF DirectoryOK, CocoFile
  <2>5. ~IsFile(Missing)
    BY DEF IsFile, Missing
  <2> QED
    BY <2>2, <2>4, <2>5 DEF e, Sentinel
<1>4. origin'[to] = what /\ DOMAIN origin' = DatasetIds /\ \A d \in DatasetIds : d # to => origin'[d] = origin[d]
  BY <1>0
<1>5. DatasetTypeOK'
  <2>1. \A d \in DatasetIds : DirectoryOK(raw'[d])
    BY <1>0, <1>2, <1>3
  <2> QED
    BY <1>0, <1>1, <1>2, <2>1 DEF DatasetInv, DatasetTypeOK
<1>6. OriginOK'
  BY <1>4 DEF DatasetInv, OriginOK
<1>7. ImportShape'
  <2>1. imp' = [pc |-> "write", open |-> imp'.open, job |-> imp'.job, out |-> imp'.out, todo |-> imp'.todo]
    BY <1>1
  <2> QED
    BY <1>1, <2>1 DEF ImportShape
<1>8. SourceOK' /\ TargetOK' /\ DropOK'
  BY <1>0, <1>1, <1>2 DEF SourceOK, TargetOK, DropOK
<1>9. InOrderSoFar'
  <2>1. ~Whole(Missing)
    BY DEF Missing, Whole
  <2>2. Starts(todo) => todo # <<>> /\ Item'.what \in {"coco", "classes", "unreadable"}
    BY <1>1 DEF Starts, Item
  <2> QED
    BY <1>1, <1>2, <1>3, <2>1, <2>2 DEF InOrderSoFar
<1>10. \A x : HasSource(x)' <=> HasSource(x)
  BY <1>0, <1>1, <1>2 DEF HasSource
<1>11. DoneOrAhead'
  BY <1>1, <1>4, <1>10 DEF DoneOrAhead, Stuck
<1>12. CopiedOrAhead'
  BY <1>0, <1>1, <1>2, <1>4 DEF CopiedOrAhead, Stuck
<1>13. ReadyMeansComplete'
  BY <1>2, <1>3, <1>4 DEF DatasetInv, ReadyMeansComplete
<1>14. FramesKept'
  <2>1. \A f : CopiesOf(f) \subseteq CopiesOf(f)'
    BY <1>0, <1>2, AbsentOK DEF CopiesOf
  <2> QED
    BY <2>1 DEF DatasetInv, FramesKept, InStaging
<1> QED
  BY <1>5, <1>6, <1>7, <1>8, <1>9, <1>11, <1>12, <1>13, <1>14 DEF DatasetInv

LEMMA NormalizeReadStep ==
  ASSUME DatasetInv, NormalizeRead, PassOK'
  PROVE  DatasetInv'
<1> DEFINE file == staging[Job.from].coco
           coco == file.doc
           todo == NormalizeTodo(Job, coco)
           what == [frames |-> {At(f, AssignSplit(f, Job.ratios)) : f \in Listed(coco)},
                    labels |-> LabelsOf(coco), splits |-> Splits,
                    files |-> IF Job.images THEN staging[Job.from].images \cap Listed(coco) ELSE {}]
<1>0. /\ imp.pc = "read" /\ Job.op = "normalize" /\ UNCHANGED <<staging, jobs, stamp, broken, givenUp, crashes>>
      /\ Job.from \in StagingIds /\ Job.dry = FALSE
  BY JobFacts DEF NormalizeRead
<1>1. jobs' \in Seq(Jobs) /\ stamp' \in Nat /\ crashes' \in 0..MaxCrashes
  BY <1>0 DEF DatasetInv, DatasetTypeOK
<1>2. CASE Ended("failed") /\ UNCHANGED <<raw, origin>>
  BY <1>0, <1>1, <1>2, EndsThere DEF Ended
<1>3. CASE /\ Whole(file)
           /\ imp' = [pc |-> "write", open |-> FALSE, job |-> Job, out |-> NormalizeOut(Job, coco), todo |-> todo]
           /\ raw' = [raw EXCEPT ![Job.to].there = TRUE]
           /\ origin' = [origin EXCEPT ![Job.to] = what]
  <2>1. IsCoco(coco)
    BY <1>0, <1>3 DEF DatasetInv, DatasetTypeOK, StagingOK, CocoFile
  <2>2. /\ todo \in Seq(TodoItems) /\ Ordered(todo)
        /\ \A sp \in Splits : CocoItem(sp) \in Range(todo)
        /\ DocItem("classes") \in Range(todo) /\ todo # <<>>
        /\ Job.images => \A f \in Listed(coco) : \E x \in Range(todo) : x.what = "image" /\ x.frame = f
        /\ DocItem("unreadable") \notin Range(todo)
    BY <2>1, NormalizeItems
  <2>3. /\ Whole(NormalizeOut(Job, coco).classes)
        /\ \A sp \in Splits : /\ CocoFile(NormalizeOut(Job, coco).coco[sp]) /\ Whole(NormalizeOut(Job, coco).coco[sp])
                              /\ NormalizeOut(Job, coco).info.doc.splits[sp] = Counts(NormalizeOut(Job, coco).coco[sp].doc)
    BY <2>1, NormalizeOutOf
  <2> DEFINE out == NormalizeOut(Job, coco)
  <2>4. what.splits = Splits /\ (Job.images => \A o \in what.frames : o.frame \in Listed(coco))
        /\ \A f \in what.files : Job.images /\ f \in staging[Job.from].images /\ f \in Listed(coco)
    BY DEF At
  <2> HIDE DEF todo, out, what, coco, file
  <2>5. \A f \in what.files : \E x \in Range(todo) : x.what = "image" /\ x.frame = f /\ HasSource(x)
    BY <1>0, <2>2, <2>4 DEF HasSource
  <2> QED
    BY <1>0, <1>3, <2>2, <2>3, <2>4, <2>5, WritingBegins DEF out
<1> QED
  BY <1>2, <1>3 DEF NormalizeRead

LEMMA MigrateReadStep ==
  ASSUME DatasetInv, MigrateRead, PassOK'
  PROVE  DatasetInv'
<1> DEFINE d == raw[Job.from]
           todo == MigrateTodo(d)
           out == MigrateOut(d)
           what == [Inventory(d) EXCEPT !.labels = {l \in @ : l.class # "buoys"}]
<1>0. /\ imp.pc = "read" /\ Job.op = "migrate" /\ UNCHANGED <<staging, raw, jobs, stamp, broken, givenUp, crashes>>
      /\ Job.from \in DatasetIds /\ Job.dry \in BOOLEAN /\ DirectoryOK(d)
  BY JobFacts DEF MigrateRead, DatasetInv, DatasetTypeOK
<1>1. jobs' \in Seq(Jobs) /\ stamp' \in Nat /\ crashes' \in 0..MaxCrashes
  BY <1>0 DEF DatasetInv, DatasetTypeOK
<1>2. CASE (\E r : Ended(r)) /\ UNCHANGED origin
  BY <1>0, <1>1, <1>2, EndsThere DEF Ended
<1>3. CASE /\ ~Job.dry
           /\ imp' = [pc |-> "write", open |-> FALSE, job |-> Job, out |-> out, todo |-> todo]
           /\ origin' = [origin EXCEPT ![Job.to] = what]
  <2>1. /\ todo \in Seq(TodoItems) /\ Ordered(todo) /\ Starts(todo)
        /\ \A sp \in Readable(d) : /\ CocoItem(sp) \in Range(todo)
                                   /\ \A f \in Listed(d.coco[sp].doc) : File("image", sp, f) \in Range(todo)
        /\ DocItem("classes") \in Range(todo)
        /\ Present(d) \subseteq Readable(d) \/ DocItem("unreadable") \in Range(todo)
    BY <1>0, MigrateItems
  <2>2. /\ Whole(out.classes)
        /\ \A sp \in Splits : CocoFile(out.coco[sp])
        /\ \A sp \in Readable(d) : Whole(out.coco[sp]) /\ out.info.doc.splits[sp] = Counts(out.coco[sp].doc)
    BY <1>0, MigrateOutOf
  <2>3. /\ what.splits = Parsed(d)
        /\ what.frames = UNION {{At(f, sp) : f \in Listed(d.coco[sp].doc)} : sp \in Parsed(d)}
        /\ what.files = UNION {d.images[sp] \cap Listed(d.coco[sp].doc) : sp \in Parsed(d)}
    BY DEF Inventory
  <2>4. Parsed(d) \subseteq Present(d) /\ Parsed(d) \subseteq Splits
    BY DEF Parsed, Present, Whole, IsFile
  <2> HIDE DEF todo, out, what
  <2>5. ASSUME Present(d) \subseteq Readable(d)
        PROVE  /\ \A sp \in what.splits :
                    Whole(out.coco[sp]) /\ out.info.doc.splits[sp] = Counts(out.coco[sp].doc) /\ CocoItem(sp) \in Range(todo)
               /\ \A f \in what.files : \E x \in Range(todo) : x.what = "image" /\ x.frame = f /\ HasSource(x)
               /\ \A sp \in Splits : \A f \in d.images[sp] : At(f, sp) \in what.frames =>
                    File("image", sp, f) \in Range(todo)
    <3>1. \A sp \in what.splits :
            Whole(out.coco[sp]) /\ out.info.doc.splits[sp] = Counts(out.coco[sp].doc) /\ CocoItem(sp) \in Range(todo)
      BY <2>1, <2>2, <2>3, <2>4, <2>5
    <3>2. ASSUME NEW f \in what.files
          PROVE  \E x \in Range(todo) : x.what = "image" /\ x.frame = f /\ HasSource(x)
      <4>1. PICK sp \in Parsed(d) : f \in d.images[sp] /\ f \in Listed(d.coco[sp].doc)
        BY <2>3, <3>2
      <4>2. File("image", sp, f) \in Range(todo)
        BY <2>1, <2>4, <2>5, <4>1
      <4>3. File("image", sp, f).what = "image" /\ File("image", sp, f).frame = f /\ File("image", sp, f).split = sp
        BY DEF File
      <4>4. HasSource(File("image", sp, f))
        BY <1>0, <4>1, <4>3 DEF HasSource
      <4> QED
        BY <4>2, <4>3, <4>4
    <3>3. ASSUME NEW sp \in Splits, NEW f \in d.images[sp], At(f, sp) \in what.frames
          PROVE  File("image", sp, f) \in Range(todo)
      <4>1. PICK q \in Parsed(d) : \E g \in Listed(d.coco[q].doc) : At(f, sp) = At(g, q)
        BY <2>3, <3>3
      <4>2. sp = q /\ f \in Listed(d.coco[sp].doc)
        BY <4>1 DEF At
      <4> QED
        BY <2>1, <2>4, <2>5, <4>1, <4>2
    <3> QED
      BY <3>1, <3>2, <3>3
  <2>6. \/ DocItem("unreadable") \in Range(todo)
        \/ /\ \A sp \in what.splits :
                Whole(out.coco[sp]) /\ out.info.doc.splits[sp] = Counts(out.coco[sp].doc) /\ CocoItem(sp) \in Range(todo)
           /\ \A f \in what.files : \E x \in Range(todo) : x.what = "image" /\ x.frame = f /\ HasSource(x)
           /\ Job.op = "migrate" =>
                \A sp \in Splits : \A f \in raw[Job.from].images[sp] : At(f, sp) \in what.frames =>
                  File("image", sp, f) \in Range(todo)
    BY <2>1, <2>5
  <2>7. what.splits \subseteq Splits /\ Job.op # "normalize"
    BY <1>0, <2>3, <2>4
  <2> QED
    BY <1>0, <1>3, <2>1, <2>2, <2>6, <2>7, WritingBegins
<1> QED
  BY <1>2, <1>3 DEF MigrateRead

(***************************************************************************)
(* The end of an import                                                    *)
(***************************************************************************)
LEMMA NothingAhead == Range(<<>>) = {}
BY NoItem

LEMMA DoneStep ==
  ASSUME DatasetInv, ImportDone, PassOK'
  PROVE  DatasetInv'
<1>0. /\ imp.pc = "write" /\ imp.todo = <<>>
      /\ UNCHANGED <<staging, raw, jobs, stamp, origin, broken, givenUp, crashes>>
      /\ jobs' \in Seq(Jobs) /\ stamp' \in Nat /\ crashes' \in 0..MaxCrashes /\ imp.job \in Jobs
  BY DEF ImportDone, DatasetInv, DatasetTypeOK
<1>1. CASE Ended("ok")
  BY <1>0, <1>1, EndsThere DEF Ended
<1>2. CASE DropsSource /\ imp' = [imp EXCEPT !.pc = "drop"]
  <2>1. imp = [pc |-> "write", open |-> imp.open, job |-> imp.job, out |-> imp.out, todo |-> imp.todo]
    BY <1>0 DEF DatasetInv, ImportShape
  <2>2. imp' = [pc |-> "drop", open |-> imp.open, job |-> imp.job, out |-> imp.out, todo |-> imp.todo]
    BY <1>2, <2>1
  <2>3. Job' = Job /\ imp'.pc = "drop" /\ Ahead = {} /\ Ahead' = {}
        /\ imp' = [pc |-> "drop", open |-> imp'.open, job |-> imp'.job, out |-> imp'.out, todo |-> imp'.todo]
    BY <1>0, <2>2, NothingAhead DEF Job, Ahead
  <2>4. DatasetTypeOK' /\ OriginOK' /\ ReadyMeansComplete' /\ FramesKept'
    <3>1. DatasetTypeOK'
      BY <1>0, <2>2 DEF DatasetInv, DatasetTypeOK
    <3> QED
      BY <1>0, <3>1 DEF DatasetInv, OriginOK, ReadyMeansComplete, FramesKept, InStaging, CopiesOf
  <2>5. ImportShape' /\ SourceOK' /\ TargetOK' /\ InOrderSoFar' /\ DoneOrAhead'
    BY <2>3 DEF ImportShape, SourceOK, TargetOK, InOrderSoFar, DoneOrAhead
  <2>6. DropOK'
    BY <1>2, <2>3 DEF DropOK, DropsSource
  <2>7. CopiedOrAhead'
    BY <1>0, <2>3 DEF DatasetInv, CopiedOrAhead, Stuck, Target
  <2> QED
    BY <2>4, <2>5, <2>6, <2>7 DEF DatasetInv
<1> QED
  BY <1>1, <1>2 DEF ImportDone

LEMMA CrashStep ==
  ASSUME DatasetInv, ImportCrash, PassOK'
  PROVE  DatasetInv'
<1>1. /\ UNCHANGED <<staging, raw, jobs, stamp, origin, broken, givenUp>> /\ Ended("crashed")
      /\ jobs' \in Seq(Jobs) /\ stamp' \in Nat /\ crashes' \in 0..MaxCrashes
  <2>1. /\ crashes' = crashes + 1 /\ crashes < MaxCrashes /\ crashes \in 0..MaxCrashes /\ jobs \in Seq(Jobs) /\ stamp \in Nat
    BY DEF ImportCrash, DatasetInv, DatasetTypeOK
  <2> QED
    BY <2>1, DatasetAssumption DEF ImportCrash
<1> QED
  BY <1>1, EndsThere DEF Ended

\* Images leave a staging directory: they are elsewhere, or given up.
LEMMA StagingShrinks ==
  ASSUME DatasetInv, UNCHANGED <<raw, jobs, stamp, origin>>, NEW s \in StagingIds, NEW e, StagingOK(e),
         staging' = [staging EXCEPT ![s] = e], e.images \subseteq staging[s].images,
         givenUp \subseteq givenUp', givenUp' \subseteq Frames,
         \A f \in staging[s].images \ e.images : CopiesOf(f) # {} \/ f \in givenUp',
         broken \subseteq broken', broken' \subseteq DatasetIds, crashes' \in 0..MaxCrashes, PassOK',
         \/ imp'.pc = "idle"
         \/ imp' = imp /\ (imp.pc = "write" /\ Job.op = "normalize" /\ Job.from = s => Job.to \in broken')
  PROVE  DatasetInv'
<1>1. /\ DOMAIN staging = StagingIds /\ DOMAIN staging' = StagingIds /\ staging'[s] = e
      /\ \A q \in StagingIds : q # s => staging'[q] = staging[q]
  BY DEF DatasetInv, DatasetTypeOK
<1>2. DatasetTypeOK' /\ OriginOK'
  <2>1. \A q \in StagingIds : StagingOK(staging'[q])
    BY <1>1 DEF DatasetInv, DatasetTypeOK
  <2> QED
    BY <1>1, <2>1 DEF DatasetInv, DatasetTypeOK, OriginOK
<1>3. ReadyMeansComplete'
  BY DEF DatasetInv, ReadyMeansComplete
<1>4. FramesKept'
  <2> SUFFICES ASSUME NEW f \in Frames
               PROVE  InStaging(f)' \/ CopiesOf(f)' # {} \/ f \in givenUp'
    BY DEF FramesKept
  <2>1. CopiesOf(f)' = CopiesOf(f)
    BY DEF CopiesOf
  <2>2. InStaging(f) \/ CopiesOf(f) # {} \/ f \in givenUp
    BY DEF DatasetInv, FramesKept
  <2>3. ASSUME NEW q \in StagingIds, f \in staging[q].images
        PROVE  InStaging(f)' \/ CopiesOf(f)' # {} \/ f \in givenUp'
    <3>1. CASE q = s /\ f \notin e.images
      BY <2>1, <2>3, <3>1
    <3>2. CASE q # s \/ f \in e.images
      BY <1>1, <2>3, <3>2 DEF InStaging
    <3> QED
      BY <3>1, <3>2
  <2> QED
    BY <2>1, <2>2, <2>3 DEF InStaging
<1>5. CASE imp'.pc = "idle"
  BY <1>2, <1>3, <1>4, <1>5, ImportOver
<1>6. CASE imp' = imp /\ (imp.pc = "write" /\ Job.op = "normalize" /\ Job.from = s => Job.to \in broken')
  <2>1. ImportShape' /\ SourceOK' /\ TargetOK' /\ DropOK'
    BY <1>6 DEF DatasetInv, ImportShape, SourceOK, TargetOK, DropOK, DropsSource, Job, Target, Item
  <2>2. InOrderSoFar'
    BY <1>6 DEF DatasetInv, InOrderSoFar, Ahead, Job, Target, Item
  <2>3. DoneOrAhead'
    <3>1. Job' = Job /\ Ahead' = Ahead /\ Target' = Target /\ imp'.pc = imp.pc /\ (Stuck' <=> Stuck)
      BY <1>6 DEF Job, Ahead, Target, Stuck
    <3>2. Job.to \in broken' \/ imp.pc # "write" \/ \A x : HasSource(x) => HasSource(x)'
      <4>1. CASE imp.pc = "write"
        <5>1. Job.op = "normalize" => Job.from \in StagingIds
          BY <4>1, JobFacts
        <5> QED
          BY <1>1, <1>6, <3>1, <4>1, <5>1 DEF HasSource
      <4> QED
        BY <4>1
    <3> QED
      BY <1>6, <3>1, <3>2 DEF DatasetInv, DoneOrAhead
  <2>4. CopiedOrAhead'
    <3>1. imp.pc # "idle" => (Job.op = "normalize" => staging'[Job.from].images \subseteq staging[Job.from].images)
      BY <1>1, JobFacts
    <3> QED
      BY <1>6, <3>1 DEF DatasetInv, CopiedOrAhead, Stuck, Ahead, Job, Target
  <2> QED
    BY <1>2, <1>3, <1>4, <2>1, <2>2, <2>3, <2>4 DEF DatasetInv
<1> QED
  BY <1>5, <1>6

\* normalize --cleanup-staging: each listed frame is in the target by now.
LEMMA DropStagingStep ==
  ASSUME DatasetInv, DropStaging, PassOK'
  PROVE  DatasetInv'
<1> DEFINE s == Job.from
<1>0. /\ imp.pc = "drop" /\ Job.op = "normalize" /\ s \in StagingIds /\ Job.to \in DatasetIds
      /\ UNCHANGED <<raw, jobs, stamp, origin, broken, crashes>>
      /\ StagingOK(staging[s]) /\ givenUp \subseteq Frames /\ broken \subseteq DatasetIds /\ crashes' \in 0..MaxCrashes
  BY JobFacts DEF DropStaging, DatasetInv, DatasetTypeOK
<1>1. /\ staging[s] = [there |-> staging[s].there, coco |-> staging[s].coco, images |-> staging[s].images]
      /\ staging[s].there \in BOOLEAN /\ staging[s].images \subseteq Frames /\ CocoFile(staging[s].coco)
      /\ CocoFile(Missing)
  BY <1>0 DEF StagingOK, CocoFile, Missing, Docs, Whole
<1>2. \A o \in origin[Job.to].frames : o.frame \in staging[s].images => CopiesOf(o.frame) # {}
  <2>1. Job.images
    BY <1>0 DEF DatasetInv, DropOK, DropsSource
  <2>2. Ahead = {}
    BY <1>0 DEF Ahead
  <2>3. \A o \in origin[Job.to].frames : o.frame \in staging[s].images => WholeIn(Target, o.frame)
    BY <1>0, <2>1, <2>2 DEF DatasetInv, CopiedOrAhead
  <2>4. \A f : WholeIn(Target, f) => Job.to \in CopiesOf(f)
    BY <1>0 DEF WholeIn, Target, CopiesOf
  <2> QED
    BY <2>3, <2>4
<1>3. CASE /\ staging' = [staging EXCEPT ![s].images = {}]
           /\ givenUp' = givenUp \cup UnlistedInStaging(s)
           /\ UNCHANGED imp
  <2> DEFINE e == [staging[s] EXCEPT !.images = {}]
  <2>1. e = [there |-> staging[s].there, coco |-> staging[s].coco, images |-> {}]
    BY <1>1
  <2>2. staging' = [staging EXCEPT ![s] = e]
    BY <1>3
  <2> HIDE DEF e
  <2>3. StagingOK(e) /\ e.images = {}
    BY <1>1, <2>1 DEF StagingOK
  <2>4. givenUp' = givenUp \cup (staging[s].images \ {o.frame : o \in origin[Job.to].frames})
    BY <1>3 DEF UnlistedInStaging
  <2>5. givenUp \subseteq givenUp' /\ givenUp' \subseteq Frames
        /\ \A f \in staging[s].images \ e.images : CopiesOf(f) # {} \/ f \in givenUp'
    BY <1>0, <1>1, <1>2, <2>4
  <2>6. e.images \subseteq staging[s].images
    BY <2>3
  <2> QED
    BY <1>0, <1>3, <2>2, <2>3, <2>5, <2>6, StagingShrinks
<1>4. CASE /\ staging' = [staging EXCEPT ![s].coco = Missing]
           /\ UNCHANGED <<imp, givenUp>>
  <2> DEFINE e == [staging[s] EXCEPT !.coco = Missing]
  <2>1. e = [there |-> staging[s].there, coco |-> Missing, images |-> staging[s].images]
    BY <1>1
  <2>2. staging' = [staging EXCEPT ![s] = e]
    BY <1>4
  <2> HIDE DEF e
  <2>3. StagingOK(e) /\ e.images = staging[s].images
    BY <1>1, <2>1 DEF StagingOK
  <2> QED
    BY <1>0, <1>4, <2>2, <2>3, StagingShrinks
<1>5. CASE /\ staging[s].images = {}
           /\ staging' = [staging EXCEPT ![s] = NoStaging]
           /\ Ended("ok") /\ UNCHANGED givenUp
  <2>1. StagingOK(NoStaging) /\ NoStaging.images = {}
    BY <1>1 DEF StagingOK, NoStaging
  <2>2. imp'.pc = "idle"
    BY <1>5 DEF Ended
  <2> QED
    BY <1>0, <1>5, <2>1, <2>2, StagingShrinks
<1> QED
  BY <1>3, <1>4, <1>5 DEF DropStaging

\* migrate --delete-source: so is each listed image of the source.
LEMMA DropRawStep ==
  ASSUME DatasetInv, DropRaw, PassOK'
  PROVE  DatasetInv'
<1> DEFINE from == Job.from
           to == Job.to
<1>0. /\ imp.pc = "drop" /\ Job.op = "migrate" /\ from \in DatasetIds /\ to \in DatasetIds /\ from # to
      /\ UNCHANGED <<staging, jobs, stamp, origin, crashes>>
      /\ DOMAIN raw = DatasetIds /\ \A d \in DatasetIds : DirectoryOK(raw[d])
      /\ Ahead = {}
  BY JobFacts DEF DropRaw, DatasetInv, DatasetTypeOK, Ahead
<1>1. \A sp \in Splits : \A f \in raw[from].images[sp] : At(f, sp) \in origin[to].frames =>
        f \in raw[to].images[sp] /\ <<sp, f>> \notin raw[to].cut
  BY <1>0 DEF DatasetInv, CopiedOrAhead, Stuck, Target
<1>2. ASSUME NEW part \in Parts, Clears(from, part), imp' = imp,
             givenUp' = IF part = "images" THEN givenUp \cup UnlistedIn(from) ELSE givenUp
      PROVE  DatasetInv'
  <2> DEFINE e == Cleared(raw[from], part)
  <2>1. /\ DirectoryOK(e) /\ (part # "images" => e.images = raw[from].images /\ e.cut = raw[from].cut)
        /\ (part = "images" => \A sp \in Splits : e.images[sp] = {})
        /\ raw' = [raw EXCEPT ![from] = e] /\ broken' = broken \cup {from}
    BY <1>0, <1>2, PartCleared DEF Clears
  <2> HIDE DEF e
  <2>2. DOMAIN raw' = DatasetIds /\ raw'[from] = e /\ \A d \in DatasetIds : d # from => raw'[d] = raw[d]
    BY <1>0, <2>1
  <2>3. /\ Job' = Job /\ Target' = Target /\ imp'.pc = "drop" /\ Ahead' = {}
    BY <1>0, <1>2, <2>2 DEF Job, Target, Ahead
  <2>4. DatasetTypeOK' /\ OriginOK'
    <3>1. UnlistedIn(from) \subseteq Frames
      BY <1>0 DEF UnlistedIn, FramesIn, DirectoryOK
    <3>2. givenUp' \subseteq Frames /\ broken' \subseteq DatasetIds
      BY <1>0, <1>2, <2>1, <3>1 DEF DatasetInv, DatasetTypeOK
    <3>3. \A d \in DatasetIds : DirectoryOK(raw'[d])
      BY <1>0, <2>1, <2>2
    <3> QED
      BY <1>0, <1>2, <2>2, <3>2, <3>3 DEF DatasetInv, DatasetTypeOK, OriginOK
  <2>5. ImportShape' /\ SourceOK' /\ TargetOK' /\ DropOK' /\ InOrderSoFar' /\ DoneOrAhead'
    <3>1. ImportShape'
      BY <1>0, <1>2 DEF DatasetInv, ImportShape
    <3>2. DropOK'
      BY <1>0, <2>3 DEF DatasetInv, DropOK, DropsSource
    <3> QED
      BY <2>3, <3>1, <3>2 DEF SourceOK, TargetOK, InOrderSoFar, DoneOrAhead
  <2>6. CopiedOrAhead'
    <3>1. \A sp \in Splits : raw'[from].images[sp] \subseteq raw[from].images[sp]
      BY <2>1, <2>2
    <3> QED
      BY <1>0, <1>1, <2>2, <2>3, <3>1 DEF CopiedOrAhead, Target
  <2>7. ReadyMeansComplete'
    BY <1>0, <2>1, <2>2 DEF DatasetInv, ReadyMeansComplete
  <2>8. FramesKept'
    <3> SUFFICES ASSUME NEW f \in Frames
                 PROVE  InStaging(f)' \/ CopiesOf(f)' # {} \/ f \in givenUp'
      BY DEF FramesKept
    <3>1. CASE InStaging(f) \/ f \in givenUp
      BY <1>0, <1>2, <3>1 DEF InStaging
    <3>2. CASE CopiesOf(f) # {}
      <4>1. CASE \E d \in CopiesOf(f) : d # from
        BY <2>2, <4>1 DEF CopiesOf
      <4>2. CASE CopiesOf(f) = {from}
        <5>1. CASE part = "images"
          <6>1. f \in FramesIn(from)
            BY <4>2 DEF CopiesOf, FramesIn
          <6>2. f \in UnlistedIn(from)
            <7> SUFFICES ASSUME NEW sp \in Splits, f \in raw[from].images[sp], At(f, sp) \in origin[to].frames
                         PROVE  FALSE
              BY <6>1 DEF UnlistedIn
            <7>1. to \in CopiesOf(f)
              BY <1>0, <1>1 DEF CopiesOf
            <7> QED
              BY <1>0, <4>2, <7>1
          <6> QED
            BY <1>2, <5>1, <6>2
        <5>2. CASE part # "images"
          <6>1. from \in CopiesOf(f)'
            BY <1>0, <2>1, <2>2, <4>2, <5>2 DEF CopiesOf
          <6> QED
            BY <6>1
        <5> QED
          BY <5>1, <5>2
      <4> QED
        BY <3>2, <4>1, <4>2
    <3> QED
      BY <3>1, <3>2 DEF DatasetInv, FramesKept
  <2> QED
    BY <2>4, <2>5, <2>6, <2>7, <2>8 DEF DatasetInv
<1>3. ASSUME RmtreeDone(from), Ended("ok"), givenUp' = givenUp
      PROVE  DatasetInv'
  <2>1. /\ raw[from] = [AbsentDir EXCEPT !.there = TRUE] /\ raw' = [raw EXCEPT ![from] = AbsentDir]
        /\ broken' = broken \ {from}
    BY <1>3 DEF RmtreeDone
  <2>2. DOMAIN raw' = DatasetIds /\ raw'[from] = AbsentDir /\ \A d \in DatasetIds : d # from => raw'[d] = raw[d]
    BY <1>0, <2>1
  <2>3. imp'.pc = "idle"
    BY <1>3 DEF Ended
  <2>4. DatasetTypeOK' /\ OriginOK'
    <3>1. \A d \in DatasetIds : DirectoryOK(raw'[d])
      BY <1>0, <2>2, AbsentOK
    <3> QED
      BY <1>0, <1>3, <2>1, <2>2, <2>3, <3>1 DEF DatasetInv, DatasetTypeOK, OriginOK
  <2>5. ReadyMeansComplete'
    BY <1>0, <2>1, <2>2, AbsentOK DEF DatasetInv, ReadyMeansComplete
  <2>6. FramesKept'
    <3>1. \A sp \in Splits : raw[from].images[sp] = {}
      BY <2>1, AbsentOK DEF AbsentDir
    <3>2. \A f : CopiesOf(f) \subseteq CopiesOf(f)'
      BY <2>2, <3>1 DEF CopiesOf
    <3> QED
      BY <1>0, <1>3, <3>2 DEF DatasetInv, FramesKept, InStaging
  <2> QED
    BY <2>3, <2>4, <2>5, <2>6, ImportOver
<1> QED
  BY <1>2, <1>3 DEF DropRaw

\* gc removes one directory.
LEMMA SweepStep ==
  ASSUME DatasetInv, Sweep
  PROVE  DatasetInv'
<1>0. /\ UNCHANGED <<raw, jobs, imp, stamp, origin, crashes>> /\ gc.pc = "apply" /\ expired' = expired
      /\ gc = [pc |-> "apply", runs |-> gc.runs, caches |-> gc.caches, plan |-> gc.plan, left |-> gc.left]
      /\ crashes' \in 0..MaxCrashes /\ broken \subseteq DatasetIds /\ givenUp \subseteq Frames
      /\ \A s \in StagingIds : staging[s].images \subseteq Frames
  BY DEF Sweep, GcRemove, DatasetInv, PassOK, DatasetTypeOK, StagingOK
<1>1. PICK item \in gc.left :
        /\ IF item.kind = "staging"
           THEN /\ staging' = [staging EXCEPT ![item.id] = NoStaging]
                /\ givenUp' = givenUp \cup {f \in staging[item.id].images : CopiesOf(f) = {}}
                /\ broken' = IF imp.pc # "idle" /\ imp.job.op = "normalize" /\ imp.job.from = item.id
                             THEN broken \cup {imp.job.to} ELSE broken
           ELSE UNCHANGED <<staging, givenUp, broken>>
        /\ gc' = [gc EXCEPT !.left = @ \ {item}]
  BY DEF Sweep, GcRemove
<1>2. PassOK'
  <2>1. gc' = [pc |-> "apply", runs |-> gc.runs, caches |-> gc.caches, plan |-> gc.plan, left |-> gc.left \ {item}]
    BY <1>0, <1>1
  <2> QED
    BY <1>0, <2>1 DEF DatasetInv, PassOK
<1>3. CASE item.kind # "staging"
  BY <1>0, <1>1, <1>2, <1>3, DatasetsStill
<1>4. CASE item.kind = "staging"
  <2>1. item.id \in StagingIds
    BY <1>0, <1>4 DEF DatasetInv, PassOK
  <2>2. StagingOK(NoStaging) /\ NoStaging.images = {}
    BY DEF StagingOK, NoStaging, CocoFile, Missing, Docs, Whole
  <2>3. imp.pc # "idle" => imp.job.to \in DatasetIds
    BY JobFacts DEF Job
  <2>4. broken \subseteq broken' /\ broken' \subseteq DatasetIds
        /\ (imp.pc = "write" /\ Job.op = "normalize" /\ Job.from = item.id => Job.to \in broken')
    BY <1>0, <1>1, <1>4, <2>3 DEF Job
  <2>5. givenUp \subseteq givenUp' /\ givenUp' \subseteq Frames
        /\ \A f \in staging[item.id].images : CopiesOf(f) # {} \/ f \in givenUp'
    BY <1>0, <1>1, <1>4, <2>1
  <2> QED
    BY <1>0, <1>1, <1>2, <1>4, <2>1, <2>2, <2>4, <2>5, StagingShrinks
<1> QED
  BY <1>3, <1>4

(***************************************************************************)
(* Writing the target                                                      *)
(***************************************************************************)
\* What an import knows while it writes.
LEMMA Writing ==
  ASSUME DatasetInv, imp.pc = "write", imp.todo # <<>>
  PROVE  /\ imp = [pc |-> "write", open |-> imp.open, job |-> imp.job, out |-> imp.out, todo |-> imp.todo]
         /\ imp.open \in BOOLEAN /\ Job \in Jobs /\ Job.to \in DatasetIds /\ Job.op \in {"normalize", "migrate"}
         /\ Job.op = "normalize" => Job.from \in StagingIds
         /\ Job.op = "migrate" => Job.from \in DatasetIds /\ Job.from # Job.to /\ raw[Job.from].cut = {}
         /\ imp.todo \in Seq(TodoItems) /\ Ordered(imp.todo)
         /\ Tail(imp.todo) \in Seq(TodoItems) /\ Ordered(Tail(imp.todo))
         /\ Item \in TodoItems /\ Item \in Ahead /\ Ahead = {Item} \cup Range(Tail(imp.todo)) /\ Ahead \subseteq TodoItems
         /\ Item.what = "classes" => \A x \in Range(Tail(imp.todo)) : x.what \in Late
         /\ Item.what = "info" => \A x \in Range(Tail(imp.todo)) : x.what \in After
         /\ Item.what = "report" => Range(Tail(imp.todo)) = {}
         /\ DOMAIN raw = DatasetIds /\ \A d \in DatasetIds : DirectoryOK(raw[d])
<1>1. /\ imp = [pc |-> "write", open |-> imp.open, job |-> imp.job, out |-> imp.out, todo |-> imp.todo]
      /\ imp.open \in BOOLEAN /\ imp.todo \in Seq(TodoItems) /\ Ordered(imp.todo)
  BY DEF DatasetInv, ImportShape
<1>2. /\ Job \in Jobs /\ Job.to \in DatasetIds /\ Job.op \in {"normalize", "migrate"}
      /\ Job.op = "normalize" => Job.from \in StagingIds
      /\ Job.op = "migrate" => Job.from \in DatasetIds /\ Job.from # Job.to /\ raw[Job.from].cut = {}
  BY JobFacts DEF DatasetInv, SourceOK
<1>3. Ahead = Range(imp.todo)
  BY DEF Ahead
<1> QED
  BY <1>1, <1>2, <1>3, PopItem DEF Item, DatasetInv, DatasetTypeOK

\* It goes on to the next file; the probe may have changed the way images are placed.
GoesOn ==
  /\ imp' = [pc |-> "write", open |-> FALSE, job |-> imp'.job, out |-> imp.out, todo |-> Tail(imp.todo)]
  /\ imp'.job \in Jobs /\ imp'.job.op = imp.job.op /\ imp'.job.from = imp.job.from /\ imp'.job.to = imp.job.to
  /\ imp.job.op = "normalize" => imp'.job.images = imp.job.images

LEMMA NextFacts ==
  ASSUME DatasetInv, imp.pc = "write", imp.todo # <<>>,
         NextItem \/ (Item.what = "probe" /\ imp' = [imp EXCEPT !.todo = Tail(@), !.job.mode = "copy"])
  PROVE  GoesOn
<1>1. imp = [pc |-> "write", open |-> imp.open, job |-> imp.job, out |-> imp.out, todo |-> imp.todo] /\ imp.job \in Jobs
  BY Writing DEF Job
<1>2. CASE NextItem
  <2>1. imp' = [pc |-> "write", open |-> FALSE, job |-> imp.job, out |-> imp.out, todo |-> Tail(imp.todo)]
    BY <1>1, <1>2 DEF NextItem
  <2> QED
    BY <1>1, <2>1 DEF GoesOn
<1>3. CASE Item.what = "probe" /\ imp' = [imp EXCEPT !.todo = Tail(@), !.job.mode = "copy"]
  <2>0. imp.open = FALSE
    BY <1>3, Writing DEF DatasetInv, ImportShape
  <2> DEFINE j == [imp.job EXCEPT !.mode = "copy"]
  <2>1. imp' = [pc |-> "write", open |-> FALSE, job |-> j, out |-> imp.out, todo |-> Tail(imp.todo)]
    BY <1>1, <1>3, <2>0
  <2>2. j \in Jobs /\ j.op = imp.job.op /\ j.from = imp.job.from /\ j.to = imp.job.to
        /\ (imp.job.op = "normalize" => j.images = imp.job.images)
    BY <1>1 DEF Jobs
  <2> HIDE DEF j
  <2> QED
    BY <2>1, <2>2 DEF GoesOn
<1> QED
  BY <1>2, <1>3

LEMMA GoesOnFacts ==
  ASSUME DatasetInv, imp.pc = "write", imp.todo # <<>>, GoesOn
  PROVE  /\ imp'.pc = "write" /\ imp'.open = FALSE /\ imp'.out = imp.out
         /\ Job' \in Jobs /\ Job'.op = Job.op /\ Job'.from = Job.from /\ Job'.to = Job.to
         /\ Job.op = "normalize" => Job'.images = Job.images
         /\ Ahead' = Range(Tail(imp.todo)) /\ Ahead' \subseteq Ahead /\ Ahead = {Item} \cup Ahead'
         /\ ImportShape'
<1>1. /\ imp'.pc = "write" /\ imp'.open = FALSE /\ imp'.out = imp.out /\ imp'.todo = Tail(imp.todo)
      /\ imp' = [pc |-> imp'.pc, open |-> imp'.open, job |-> imp'.job, out |-> imp'.out, todo |-> imp'.todo]
  BY DEF GoesOn
<1>2. ImportShape'
  <2>1. (\A sp \in Splits : CocoFile(imp.out.coco[sp])) /\ Whole(imp.out.classes)
    BY DEF DatasetInv, ImportShape
  <2> QED
    BY <1>1, <2>1, Writing DEF ImportShape
<1>3. Ahead' = Range(Tail(imp.todo))
  BY <1>1 DEF Ahead
<1> QED
  BY <1>1, <1>2, <1>3, Writing DEF GoesOn, Job

\* It has opened the file that is first on the list.
LEMMA OpenedFacts ==
  ASSUME DatasetInv, imp.pc = "write", imp.todo # <<>>, Opened, Item.what \notin {"probe", "unreadable"}
  PROVE  /\ imp'.pc = "write" /\ imp'.open = TRUE /\ imp'.out = imp.out
         /\ Job' = Job /\ Ahead' = Ahead /\ Item' = Item /\ imp'.todo # <<>>
         /\ ImportShape'
<1>1. imp = [pc |-> "write", open |-> imp.open, job |-> imp.job, out |-> imp.out, todo |-> imp.todo]
  BY Writing
<1>2. imp' = [pc |-> "write", open |-> TRUE, job |-> imp.job, out |-> imp.out, todo |-> imp.todo]
  BY <1>1 DEF Opened
<1>3. /\ imp'.pc = "write" /\ imp'.open = TRUE /\ imp'.out = imp.out /\ imp'.todo = imp.todo
      /\ imp' = [pc |-> imp'.pc, open |-> imp'.open, job |-> imp'.job, out |-> imp'.out, todo |-> imp'.todo]
      /\ Job' = Job /\ Ahead' = Ahead /\ Item' = Item
  BY <1>2 DEF Job, Ahead, Item
<1>4. ImportShape'
  <2>1. (\A sp \in Splits : CocoFile(imp.out.coco[sp])) /\ Whole(imp.out.classes)
    BY DEF DatasetInv, ImportShape
  <2> QED
    BY <1>3, <2>1, Writing DEF ImportShape
<1> QED
  BY <1>3, <1>4

\* The items there are.
LEMMA ItemIs ==
  ASSUME NEW x \in TodoItems
  PROVE  /\ x.what = "classes" => x = DocItem("classes")
         /\ x.what = "unreadable" => x = DocItem("unreadable")
         /\ x.what = "coco" => x = CocoItem(x.split) /\ x.split \in Splits
         /\ x.what = "image" => x = File("image", x.split, x.frame) /\ x.split \in Splits /\ x.frame \in Frames
<1>1. CASE x \in [what : {"image"}, split : Splits, frame : Frames]
  BY <1>1 DEF File
<1>2. CASE x \in [what : {"coco"}, split : Splits, frame : {0}]
  BY <1>2 DEF CocoItem, File
<1>3. CASE x \in [what : {"probe", "classes"} \cup Late, split : {"train"}, frame : {0}]
  BY <1>3 DEF DocItem, File, Late
<1> QED
  BY <1>1, <1>2, <1>3 DEF TodoItems

\* Whoever sees the sentinel sees all of it: the order and the lists agree.
LEMMA WritingReady ==
  ASSUME imp'.pc = "write", ImportShape', InOrderSoFar', DoneOrAhead', OriginOK', Job'.to \notin broken', Sentinel(Target)'
  PROVE  Complete(Target', origin'[Job'.to])
<1>1. \A x \in Ahead' : x.what \in {"manifest", "info", "report"}
  BY DEF InOrderSoFar, After
<1>2. Whole(Target'.classes)
  BY <1>1, DocItems DEF DoneOrAhead, Late
<1>3. ~Stuck'
  BY <1>1, DocItems DEF Stuck, Late
<1>4. \A c \in Target'.cut : FALSE
  <2>1. ASSUME imp'.open, Item'.what = "image" PROVE FALSE
    <3>1. imp'.todo # <<>> /\ imp'.todo \in Seq(TodoItems) /\ Ordered(imp'.todo)
      BY <2>1 DEF ImportShape
    <3>2. Item' \in Ahead'
      BY <3>1, PopItem DEF Ahead, Item
    <3> QED
      BY <1>1, <2>1, <3>2
  <2> QED
    BY <2>1 DEF InOrderSoFar
<1>5. ASSUME NEW sp \in origin'[Job'.to].splits
      PROVE  /\ Whole(Target'.coco[sp])
             /\ Whole(Target'.info) => Target'.info.doc.splits[sp] = Counts(Target'.coco[sp].doc)
  <2>1. sp \in Splits \/ CocoItem(sp).what = "coco"
    BY DEF CocoItem, File
  <2>2. CocoItem(sp) \notin Ahead'
    BY <1>1 DEF CocoItem, File
  <2> QED
    BY <1>3, <2>2 DEF DoneOrAhead, InOrderSoFar
<1>6. \A f \in origin'[Job'.to].files : \E sp \in Splits : f \in Target'.images[sp]
  BY <1>1, <1>3 DEF DoneOrAhead, InDir
<1> QED
  BY <1>2, <1>4, <1>5, <1>6 DEF Complete

\* What a step of the writing has to keep.
LEMMA WriteGoesOn ==
  ASSUME DatasetInv, imp.pc = "write", imp'.pc = "write", Job'.to = Job.to, Job.to \in DatasetIds, origin' = origin,
         DatasetTypeOK', ImportShape', SourceOK', InOrderSoFar', DoneOrAhead', CopiedOrAhead', FramesKept', PassOK',
         broken \subseteq broken', \A d \in DatasetIds : d # Job.to => raw'[d] = raw[d] \/ d \in broken'
  PROVE  DatasetInv'
<1>1. OriginOK'
  BY DEF DatasetInv, OriginOK
<1>2. TargetOK' /\ DropOK'
  BY DEF TargetOK, DropOK
<1>3. ReadyMeansComplete'
  <2> SUFFICES ASSUME NEW d \in DatasetIds, Sentinel(raw'[d]), d \notin broken'
               PROVE  Complete(raw'[d], origin'[d])
    BY DEF ReadyMeansComplete
  <2>1. CASE d = Job.to
    <3>1. Target' = raw'[d] /\ Job'.to = d
      BY <2>1 DEF Target
    <3> QED
      BY <1>1, <3>1, WritingReady
  <2>2. CASE d # Job.to
    BY <2>2 DEF DatasetInv, ReadyMeansComplete
  <2> QED
    BY <2>1, <2>2
<1> QED
  BY <1>1, <1>2, <1>3 DEF DatasetInv

\* Only the target of a writing import changes on the disk: broken stays.
LEMMA SameBroken ==
  ASSUME DatasetInv, ImportWrite, NEW e, raw' = [raw EXCEPT ![Job.to] = e]
  PROVE  broken' = broken /\ UNCHANGED <<jobs, stamp, origin, givenUp, crashes>>
<1>1. imp.pc = "write" /\ imp.todo # <<>>
  BY DEF ImportWrite
<1>2. Job.op = "migrate" => raw'[Job.from] = raw[Job.from]
  BY <1>1, Writing
<1> QED
  BY <1>2 DEF ImportWrite

\* One of the documents is opened, or written.
LEMMA WriteDocStep ==
  ASSUME DatasetInv, ImportWrite, WriteDoc, PassOK'
  PROVE  DatasetInv'
<1> DEFINE to == Job.to
           file == IF imp.open THEN DocAt(imp.out) ELSE Torn
           e == WithDoc(raw[to], file)
<1>0. /\ imp.pc = "write" /\ imp.todo # <<>> /\ Item.what \in {"coco", "manifest", "classes", "info", "report"}
      /\ Item \in TodoItems /\ Item \in Ahead /\ to \in DatasetIds /\ imp.open \in BOOLEAN
      /\ DOMAIN raw = DatasetIds /\ (\A d \in DatasetIds : DirectoryOK(raw[d]))
      /\ staging' = staging /\ Ahead \subseteq TodoItems
      /\ (Job.op = "migrate" => Job.from \in DatasetIds /\ Job.from # Job.to /\ raw[Job.from].cut = {})
      /\ Job.op \in {"normalize", "migrate"}
  BY Writing DEF ImportWrite, WriteDoc
<1>1. raw' = [raw EXCEPT ![to] = e] /\ IF imp.open THEN NextItem ELSE Opened
  BY <1>0 DEF WriteDoc
<1>2. /\ imp'.pc = "write" /\ imp'.open = ~imp.open /\ imp'.out = imp.out /\ ImportShape'
      /\ Job' \in Jobs /\ Job'.op = Job.op /\ Job'.from = Job.from /\ Job'.to = Job.to
      /\ Job.op = "normalize" => Job'.images = Job.images
      /\ Ahead' \subseteq Ahead /\ Ahead = {Item} \cup Ahead'
      /\ (~imp.open => Ahead' = Ahead /\ Item' = Item /\ imp'.todo # <<>>)
      /\ (imp.open => Ahead' = Range(Tail(imp.todo)))
  <2>1. CASE imp.open
    BY <1>0, <1>1, <2>1, NextFacts, GoesOnFacts
  <2>2. CASE ~imp.open
    BY <1>0, <1>1, <2>2, OpenedFacts, Writing
  <2> QED
    BY <2>1, <2>2
<1>3. /\ DOMAIN raw' = DatasetIds /\ raw'[to] = e /\ \A d \in DatasetIds : d # to => raw'[d] = raw[d]
      /\ Target' = e /\ Target = raw[to]
  BY <1>0, <1>1, <1>2 DEF Target
<1>4. broken' = broken /\ UNCHANGED <<jobs, stamp, origin, givenUp, crashes>>
  BY <1>1, SameBroken
<1> DEFINE d0 == raw[to]
<1>5. /\ e = [there |-> e.there, coco |-> e.coco, images |-> d0.images, cut |-> d0.cut,
              classes |-> e.classes, manifest |-> e.manifest, info |-> e.info, report |-> e.report]
      /\ e.there = (d0.there \/ Item.what \in {"coco", "classes"})
      /\ e.coco = IF Item.what = "coco" THEN [d0.coco EXCEPT ![Item.split] = file] ELSE d0.coco
      /\ e.classes = IF Item.what = "classes" THEN file ELSE d0.classes
      /\ e.info = IF Item.what = "info" THEN file ELSE d0.info
      /\ e.report = IF Item.what = "report" THEN file ELSE d0.report
  <2> HIDE DEF file
  <2> QED
    BY <1>0, DocWritten
<1>6. /\ imp.open => /\ Item.what = "coco" => file = imp.out.coco[Item.split]
                     /\ Item.what = "classes" => file = imp.out.classes
                     /\ Item.what = "info" => file = imp.out.info
      /\ ~imp.open => file = Torn
  BY DEF DocAt
<1>7. DirectoryOK(d0) /\ d0.cut = {} /\ e.there
  <2>1. DirectoryOK(d0)
    BY <1>0
  <2>2. d0.cut = {}
    BY <1>0 DEF DatasetInv, InOrderSoFar, Target
  <2>3. d0.there \/ Item.what \in {"coco", "classes", "unreadable"}
    BY <1>0 DEF DatasetInv, InOrderSoFar, Target
  <2> QED
    BY <1>0, <1>5, <2>1, <2>2, <2>3
<1>8. /\ Item.what = "coco" => Item.split \in Splits /\ Item = CocoItem(Item.split)
      /\ Item.what = "classes" => Item = DocItem("classes")
  BY <1>0, ItemIs
<1>9. /\ Item.what = "classes" => \A x \in Ahead' : x.what \in Late \/ x = Item
      /\ Item.what = "info" => \A x \in Ahead' : x.what \in After \/ x = Item
  BY <1>0, <1>2, Writing
<1> HIDE DEF file, e
<1>10. DirectoryOK(e)
  <2>1. Item.what = "coco" => CocoFile(file)
    <3>1. CocoFile(Torn)
      BY DEF CocoFile, Torn, Docs, Whole
    <3>2. \A sp \in Splits : CocoFile(imp.out.coco[sp])
      BY <1>0 DEF DatasetInv, ImportShape
    <3> QED
      BY <1>0, <1>6, <1>8, <3>1, <3>2
  <2>2. DOMAIN e.coco = Splits /\ \A sp \in Splits : CocoFile(e.coco[sp])
    BY <1>5, <1>7, <1>8, <2>1 DEF DirectoryOK
  <2> QED
    BY <1>5, <1>7, <2>2 DEF DirectoryOK
<1>11. DatasetTypeOK'
  <2>1. \A d \in DatasetIds : DirectoryOK(raw'[d])
    BY <1>0, <1>3, <1>10
  <2>2. imp'.job \in Jobs
    BY <1>2 DEF Job
  <2> QED
    BY <1>0, <1>2, <1>3, <1>4, <2>1, <2>2 DEF DatasetInv, DatasetTypeOK
<1>12. SourceOK'
  BY <1>0, <1>2, <1>3 DEF SourceOK
<1>13. InOrderSoFar'
  <2>1. ~Whole(Torn)
    BY DEF Torn, Whole
  <2>2. Sentinel(e) => \A x \in Ahead' : x.what \in After \/ (imp'.open /\ x = Item' /\ x.what = "info")
    <3>1. CASE Item.what = "info"
      BY <1>0, <1>2, <1>9, <3>1, Writing
    <3>2. CASE Item.what # "info"
      <4>1. Sentinel(e) <=> Sentinel(d0)
        BY <1>5, <3>2 DEF Sentinel
      <4> QED
        BY <1>0, <1>2, <1>3, <3>2, <4>1 DEF DatasetInv, InOrderSoFar
    <3> QED
      BY <3>1, <3>2
  <2>3. e.classes # Missing =>
          \A x \in Ahead' : x.what \in Late \/ (imp'.open /\ x = Item' /\ x.what = "classes")
    <3>1. CASE Item.what = "classes"
      BY <1>0, <1>2, <1>9, <3>1, Writing
    <3>2. CASE Item.what # "classes"
      BY <1>0, <1>2, <1>3, <1>5, <3>2 DEF DatasetInv, InOrderSoFar
    <3> QED
      BY <3>1, <3>2
  <2>4. Whole(e.info) => e.info = imp.out.info
    BY <1>0, <1>3, <1>5, <1>6, <2>1 DEF DatasetInv, InOrderSoFar
  <2>5. imp'.open => Item'.what # "image"
    BY <1>0, <1>2
  <2>6. e.cut = {}
    BY <1>5, <1>7
  <2>7. Whole(e.report) => Ahead' = {}
    <3>1. Item.what = "report" /\ imp.open => Ahead' = {}
      BY <1>0, <1>2, Writing
    <3>2. ~Whole(d0.report)
      BY <1>0, <1>3 DEF DatasetInv, InOrderSoFar
    <3> QED
      BY <1>5, <1>6, <2>1, <3>1, <3>2
  <2> QED
    BY <1>2, <1>3, <1>7, <2>2, <2>3, <2>4, <2>5, <2>6, <2>7 DEF InOrderSoFar
<1>14. \A f : (InDir(Target, f) => InDir(Target', f)) /\ (WholeIn(Target, f) => WholeIn(Target', f))
  <2>1. Target'.images = Target.images /\ Target'.cut = Target.cut
    BY <1>3, <1>5
  <2> QED
    BY <2>1 DEF InDir, WholeIn
<1>15. \A x : HasSource(x)' <=> HasSource(x)
  BY <1>0, <1>2, <1>3 DEF HasSource
<1>16. Stuck' <=> Stuck
  BY <1>0, <1>2, DocItems DEF Stuck, Late
<1>17. DoneOrAhead'
  <2>1. DocItem("classes") \in Ahead' \/ Whole(Target'.classes)
    <3>1. DocItem("classes") \in Ahead \/ Whole(Target.classes)
      BY <1>0 DEF DatasetInv, DoneOrAhead
    <3>2. CASE Item.what = "classes" /\ imp.open
      <4>1. Whole(imp.out.classes)
        BY <1>0 DEF DatasetInv, ImportShape
      <4> QED
        BY <1>3, <1>5, <1>6, <3>2, <4>1
    <3>3. CASE Item.what = "classes" /\ ~imp.open
      BY <1>0, <1>2, <1>8, <3>3
    <3>4. CASE Item.what # "classes"
      BY <1>2, <1>3, <1>5, <3>1, <3>4, DocItems
    <3> QED
      BY <1>0, <3>2, <3>3, <3>4
  <2>2. ASSUME ~Stuck, NEW sp \in origin[to].splits
        PROVE  CocoItem(sp) \in Ahead' \/ Target'.coco[sp] = imp.out.coco[sp]
    <3>0. sp \in Splits
      BY <1>0 DEF DatasetInv, OriginOK
    <3>1. CocoItem(sp) \in Ahead \/ Target.coco[sp] = imp.out.coco[sp]
      BY <1>0, <2>2 DEF DatasetInv, DoneOrAhead
    <3>2. CASE Item.what = "coco" /\ Item.split = sp /\ imp.open
      BY <1>3, <1>5, <1>6, <1>7, <3>0, <3>2 DEF DirectoryOK
    <3>3. CASE Item.what = "coco" /\ Item.split = sp /\ ~imp.open
      BY <1>0, <1>2, <1>8, <3>3
    <3>4. CASE ~(Item.what = "coco" /\ Item.split = sp)
      <4>1. CocoItem(sp).what = "coco" /\ CocoItem(sp).split = sp
        BY DEF CocoItem, File
      <4>2. Target'.coco[sp] = Target.coco[sp]
        BY <1>3, <1>5, <1>7, <1>8, <3>0, <3>4 DEF DirectoryOK
      <4> QED
        BY <1>2, <3>1, <3>4, <4>1, <4>2
    <3> QED
      BY <1>0, <3>2, <3>3, <3>4
  <2>3. ASSUME ~Stuck, Job.to \notin broken, NEW f \in origin[to].files
        PROVE  InDir(Target', f) \/ \E x \in Ahead' : x.what = "image" /\ x.frame = f /\ HasSource(x)'
    BY <1>0, <1>2, <1>14, <1>15, <2>3 DEF DatasetInv, DoneOrAhead
  <2>4. ~Stuck => \A sp \in origin[to].splits :
                     Whole(imp.out.coco[sp]) /\ imp.out.info.doc.splits[sp] = Counts(imp.out.coco[sp].doc)
    BY <1>0 DEF DatasetInv, DoneOrAhead
  <2> QED
    BY <1>2, <1>4, <1>16, <2>1, <2>2, <2>3, <2>4 DEF DoneOrAhead
<1>18. CopiedOrAhead'
  <2>1. ASSUME Job.op = "normalize", Job.images, NEW o \in origin[to].frames, o.frame \in staging[Job.from].images
        PROVE  WholeIn(Target', o.frame) \/ \E x \in Ahead' : x.what = "image" /\ x.frame = o.frame
    BY <1>0, <1>2, <1>14, <2>1 DEF DatasetInv, CopiedOrAhead
  <2>2. ASSUME Job.op = "migrate", ~Stuck, NEW sp \in Splits, NEW f \in raw[Job.from].images[sp], At(f, sp) \in origin[to].frames
        PROVE  File("image", sp, f) \in Ahead' \/ (f \in Target'.images[sp] /\ <<sp, f>> \notin Target'.cut)
    <3>1. File("image", sp, f) \in Ahead \/ (f \in Target.images[sp] /\ <<sp, f>> \notin Target.cut)
      BY <1>0, <2>2 DEF DatasetInv, CopiedOrAhead
    <3>2. File("image", sp, f).what = "image"
      BY DEF File
    <3> QED
      BY <1>0, <1>2, <1>3, <1>5, <3>1, <3>2
  <2> QED
    BY <1>0, <1>2, <1>3, <1>4, <1>16, <2>1, <2>2 DEF CopiedOrAhead
<1>19. FramesKept'
  <2>1. \A f : CopiesOf(f) \subseteq CopiesOf(f)'
    BY <1>3, <1>5 DEF CopiesOf
  <2> QED
    BY <1>0, <1>4, <2>1 DEF DatasetInv, FramesKept, InStaging
<1> QED
  BY <1>0, <1>2, <1>3, <1>4, <1>11, <1>12, <1>13, <1>17, <1>18, <1>19, WriteGoesOn

\* An item that needs nothing written: the probe, or an image that is not there.
LEMMA PassedOver ==
  ASSUME DatasetInv, ImportWrite, GoesOn, UNCHANGED <<staging, raw>>, PassOK',
         Item.what = "probe" \/ (Item.what = "image" /\ ~imp.open /\ ~SourceHas)
  PROVE  DatasetInv'
<1>0. /\ imp.pc = "write" /\ imp.todo # <<>> /\ Item \in TodoItems /\ Item \in Ahead /\ Job.to \in DatasetIds
      /\ ~imp.open /\ imp.open \in BOOLEAN /\ broken' = broken
      /\ UNCHANGED <<jobs, stamp, origin, givenUp, crashes>>
  <2>1. imp.pc = "write" /\ imp.todo # <<>>
    BY DEF ImportWrite
  <2>2. ~imp.open
    BY <2>1 DEF DatasetInv, ImportShape
  <2> QED
    BY <2>1, <2>2, Writing DEF ImportWrite
<1>1. /\ imp'.pc = "write" /\ imp'.open = FALSE /\ imp'.out = imp.out /\ ImportShape'
      /\ Job' \in Jobs /\ Job'.op = Job.op /\ Job'.from = Job.from /\ Job'.to = Job.to
      /\ Job.op = "normalize" => Job'.images = Job.images
      /\ Ahead' \subseteq Ahead /\ Ahead = {Item} \cup Ahead'
  BY <1>0, GoesOnFacts
<1>2. Target' = Target
  BY <1>1 DEF Target
<1>3. \A x : HasSource(x)' <=> HasSource(x)
  BY <1>1 DEF HasSource
<1>4. Item.what = "image" => ~HasSource(Item)
  BY <1>0 DEF HasSource, SourceHas, DatasetInv, ImportShape
<1>5. Stuck' <=> Stuck
  BY <1>1, DocItems DEF Stuck, Late
<1>6. DatasetTypeOK'
  <2>1. imp'.job \in Jobs
    BY <1>1 DEF Job
  <2> QED
    BY <1>0, <1>1, <2>1 DEF DatasetInv, DatasetTypeOK
<1>7. SourceOK'
  BY <1>0, <1>1 DEF DatasetInv, SourceOK
<1>8. InOrderSoFar'
  BY <1>0, <1>1, <1>2 DEF DatasetInv, InOrderSoFar
<1>9. DoneOrAhead'
  <2>1. DocItem("classes") \in Ahead' \/ Whole(Target'.classes)
    BY <1>0, <1>1, <1>2, DocItems DEF DatasetInv, DoneOrAhead
  <2>2. ASSUME ~Stuck, NEW sp \in origin[Job.to].splits
        PROVE  /\ Whole(imp.out.coco[sp]) /\ imp.out.info.doc.splits[sp] = Counts(imp.out.coco[sp].doc)
               /\ CocoItem(sp) \in Ahead' \/ Target'.coco[sp] = imp.out.coco[sp]
    <3>1. CocoItem(sp).what = "coco"
      BY DEF CocoItem, File
    <3> QED
      BY <1>0, <1>1, <1>2, <2>2, <3>1 DEF DatasetInv, DoneOrAhead
  <2>3. ASSUME ~Stuck, Job.to \notin broken, NEW f \in origin[Job.to].files
        PROVE  InDir(Target', f) \/ \E x \in Ahead' : x.what = "image" /\ x.frame = f /\ HasSource(x)'
    BY <1>0, <1>1, <1>2, <1>3, <1>4, <2>3 DEF DatasetInv, DoneOrAhead
  <2> QED
    BY <1>0, <1>1, <1>5, <2>1, <2>2, <2>3 DEF DoneOrAhead
<1>10. CopiedOrAhead'
  <2>1. ASSUME Job.op = "normalize", Job.images, NEW o \in origin[Job.to].frames, o.frame \in staging[Job.from].images
        PROVE  WholeIn(Target', o.frame) \/ \E x \in Ahead' : x.what = "image" /\ x.frame = o.frame
    <3>1. WholeIn(Target, o.frame) \/ \E x \in Ahead : x.what = "image" /\ x.frame = o.frame
      BY <1>0, <2>1 DEF DatasetInv, CopiedOrAhead
    <3>2. ~(Item.what = "image" /\ Item.frame = o.frame)
      BY <1>4, <2>1 DEF HasSource
    <3> QED
      BY <1>1, <1>2, <3>1, <3>2
  <2>2. ASSUME Job.op = "migrate", ~Stuck, NEW sp \in Splits, NEW f \in raw[Job.from].images[sp], At(f, sp) \in origin[Job.to].frames
        PROVE  File("image", sp, f) \in Ahead' \/ (f \in Target'.images[sp] /\ <<sp, f>> \notin Target'.cut)
    <3>1. File("image", sp, f) \in Ahead \/ (f \in Target.images[sp] /\ <<sp, f>> \notin Target.cut)
      BY <1>0, <2>2 DEF DatasetInv, CopiedOrAhead
    <3>2. File("image", sp, f) # Item
      <4>1. File("image", sp, f).what = "image" /\ HasSource(File("image", sp, f))
        BY <2>2 DEF File, HasSource
      <4> QED
        BY <1>4, <4>1
    <3> QED
      BY <1>1, <1>2, <3>1, <3>2
  <2> QED
    BY <1>0, <1>1, <1>5, <2>1, <2>2 DEF CopiedOrAhead
<1>11. FramesKept'
  BY <1>0 DEF DatasetInv, FramesKept, InStaging, CopiesOf
<1> QED
  BY <1>0, <1>1, <1>6, <1>7, <1>8, <1>9, <1>10, <1>11, WriteGoesOn

\* What is in a directory once an image is placed in it.
LEMMA WithImageOf ==
  ASSUME NEW d, DirectoryOK(d), NEW begun \in BOOLEAN, Item.split \in Splits, Item.frame \in Frames,
         d.there, d.classes = Missing
  PROVE  LET e == WithImage(d, begun) IN
         /\ DirectoryOK(e) /\ e.there = d.there /\ e.coco = d.coco /\ e.classes = d.classes
         /\ e.info = d.info /\ e.report = d.report
         /\ \A sp \in Splits : /\ d.images[sp] \subseteq e.images[sp]
                               /\ \A f \in e.images[sp] : f \in d.images[sp] \/ (f = Item.frame /\ sp = Item.split)
         /\ Item.frame \in e.images[Item.split]
         /\ e.cut = IF begun THEN d.cut \cup {<<Item.split, Item.frame>>} ELSE d.cut \ {<<Item.split, Item.frame>>}
<1> DEFINE e == WithImage(d, begun)
<1>1. /\ e = [there |-> d.there, coco |-> d.coco, images |-> e.images, cut |-> e.cut,
              classes |-> d.classes, manifest |-> d.manifest, info |-> d.info, report |-> d.report]
      /\ e.images = [d.images EXCEPT ![Item.split] = @ \cup {Item.frame}]
      /\ e.cut = IF begun THEN d.cut \cup {<<Item.split, Item.frame>>}
                 ELSE d.cut \ {<<Item.split, Item.frame>>}
  BY ImagePlaced
<1> HIDE DEF e
<1>2. d.images \in [Splits -> SUBSET Frames] /\ d.cut \subseteq Splits \X Frames /\ \A c \in d.cut : c[2] \in d.images[c[1]]
  BY DEF DirectoryOK
<1>3. /\ e.there = d.there /\ e.coco = d.coco /\ e.classes = d.classes /\ e.info = d.info /\ e.report = d.report
      /\ e = [there |-> e.there, coco |-> e.coco, images |-> e.images, cut |-> e.cut,
              classes |-> e.classes, manifest |-> e.manifest, info |-> e.info, report |-> e.report]
  <2> DEFINE images == e.images
             cut == e.cut
  <2>1. e = [there |-> d.there, coco |-> d.coco, images |-> images, cut |-> cut,
             classes |-> d.classes, manifest |-> d.manifest, info |-> d.info, report |-> d.report]
    BY <1>1
  <2> HIDE DEF images, cut
  <2>2. e.there = d.there /\ e.coco = d.coco /\ e.classes = d.classes /\ e.info = d.info /\ e.manifest = d.manifest
        /\ e.report = d.report
    BY <2>1
  <2> QED
    BY <1>1, <2>2, Zenon
<1>4. e.images \in [Splits -> SUBSET Frames]
  BY <1>1, <1>2
<1>5. /\ \A sp \in Splits : /\ d.images[sp] \subseteq e.images[sp]
                            /\ \A f \in e.images[sp] : f \in d.images[sp] \/ (f = Item.frame /\ sp = Item.split)
      /\ Item.frame \in e.images[Item.split]
  BY <1>1, <1>2
<1>6. e.cut \subseteq Splits \X Frames /\ \A c \in e.cut : c[2] \in e.images[c[1]]
  BY <1>1, <1>2, <1>5
<1>7. DirectoryOK(e)
  <2>1. (\A sp \in Splits : CocoFile(e.coco[sp])) /\ DOMAIN e.coco = Splits
    BY <1>3 DEF DirectoryOK
  <2> QED
    BY <1>3, <1>4, <1>6, <2>1 DEF DirectoryOK
<1> QED
  BY <1>1, <1>3, <1>5, <1>7 DEF e

\* While it is at an image: nothing that comes later is there yet.
LEMMA AtImage ==
  ASSUME DatasetInv, imp.pc = "write", imp.todo # <<>>, Item.what = "image"
  PROVE  /\ Item = File("image", Item.split, Item.frame) /\ Item.split \in Splits /\ Item.frame \in Frames
         /\ Target.there /\ Target.classes = Missing /\ ~Sentinel(Target) /\ DirectoryOK(Target)
         /\ ~Whole(Target.report)
         /\ imp.open => Target.cut = {<<Item.split, Item.frame>>}
         /\ ~imp.open => Target.cut = {}
<1>1. Item \in Ahead /\ Item \in TodoItems /\ Job.to \in DatasetIds /\ imp.open \in BOOLEAN
  BY Writing
<1>2. Item = File("image", Item.split, Item.frame) /\ Item.split \in Splits /\ Item.frame \in Frames
  BY <1>1, ItemIs
<1>3. Target.there /\ Target.classes = Missing /\ ~Sentinel(Target) /\ ~Whole(Target.report)
  BY <1>1 DEF DatasetInv, InOrderSoFar, Late, After
<1>4. (imp.open => Target.cut = {<<Item.split, Item.frame>>}) /\ (~imp.open => Target.cut = {})
  BY <1>1 DEF DatasetInv, InOrderSoFar
<1>5. DirectoryOK(Target)
  BY <1>1 DEF DatasetInv, DatasetTypeOK, Target
<1> QED
  BY <1>2, <1>3, <1>4, <1>5

\* The source goes in the middle of a copy.
LEMMA CopyFailsStep ==
  ASSUME DatasetInv, ImportWrite, Item.what = "image", CopyFails, PassOK'
  PROVE  DatasetInv'
<1> DEFINE to == Job.to
<1>0. /\ imp.pc = "write" /\ imp.todo # <<>> /\ imp.open /\ to \in DatasetIds /\ DOMAIN raw = DatasetIds
      /\ (\A d \in DatasetIds : DirectoryOK(raw[d])) /\ staging' = staging /\ imp'.pc = "idle"
  BY Writing DEF ImportWrite, CopyFails, Ended
<1>1. PICK begun \in BOOLEAN : raw' = [raw EXCEPT ![to] = WithImage(@, begun)]
  BY DEF CopyFails
<1> DEFINE e == WithImage(raw[to], begun)
<1>2. /\ raw' = [raw EXCEPT ![to] = e] /\ raw'[to] = e /\ DOMAIN raw' = DatasetIds
      /\ \A d \in DatasetIds : d # to => raw'[d] = raw[d]
  BY <1>0, <1>1
<1>3. broken' = broken /\ UNCHANGED <<jobs, stamp, origin, givenUp, crashes>>
  BY <1>2, SameBroken
<1> HIDE DEF e
<1>4. /\ DirectoryOK(e) /\ e.info = raw[to].info /\ ~Sentinel(e)
      /\ \A sp \in Splits : raw[to].images[sp] \subseteq e.images[sp]
      /\ e.cut \subseteq raw[to].cut
  <2>1. raw[to].cut = {<<Item.split, Item.frame>>} /\ ~Sentinel(raw[to])
    BY <1>0, AtImage DEF Target
  <2>2. DirectoryOK(e) /\ e.info = raw[to].info /\ (\A sp \in Splits : raw[to].images[sp] \subseteq e.images[sp])
        /\ e.cut \subseteq raw[to].cut
    <3>1. /\ DirectoryOK(raw[to]) /\ raw[to].there /\ raw[to].classes = Missing
          /\ Item.split \in Splits /\ Item.frame \in Frames
      BY <1>0, AtImage DEF Target
    <3> USE DEF e
    <3>2. DirectoryOK(e) /\ e.info = raw[to].info
      BY <3>1, WithImageOf
    <3>4. e.cut = IF begun THEN raw[to].cut \cup {<<Item.split, Item.frame>>} ELSE raw[to].cut \ {<<Item.split, Item.frame>>}
      BY <3>1, WithImageOf
    <3>5. e.cut \subseteq raw[to].cut
      <4> HIDE DEF e
      <4> QED
        BY <2>1, <3>4
    <3>3. \A sp \in Splits : raw[to].images[sp] \subseteq e.images[sp]
      BY <3>1, WithImageOf
    <3> QED
      BY <3>2, <3>3, <3>5
  <2> QED
    BY <2>1, <2>2 DEF Sentinel
<1>5. DatasetTypeOK' /\ OriginOK'
  <2>1. \A d \in DatasetIds : DirectoryOK(raw'[d])
    BY <1>0, <1>2, <1>4
  <2> QED
    BY <1>0, <1>2, <1>3, <2>1 DEF DatasetInv, DatasetTypeOK, OriginOK
<1>6. ReadyMeansComplete'
  BY <1>2, <1>3, <1>4 DEF DatasetInv, ReadyMeansComplete
<1>7. FramesKept'
  <2>1. \A f : CopiesOf(f) \subseteq CopiesOf(f)'
    BY <1>2, <1>4 DEF CopiesOf
  <2> QED
    BY <1>0, <1>3, <2>1 DEF DatasetInv, FramesKept, InStaging
<1> QED
  BY <1>0, <1>5, <1>6, <1>7, ImportOver

\* A copy begins: the source still has the image.
LEMMA CopyBeginsStep ==
  ASSUME DatasetInv, ImportWrite, Item.what = "image", ~imp.open, CopyImage, PassOK'
  PROVE  DatasetInv'
<1> DEFINE to == Job.to
           e == WithImage(raw[to], TRUE)
           it == <<Item.split, Item.frame>>
<1>0. /\ imp.pc = "write" /\ imp.todo # <<>> /\ to \in DatasetIds /\ DOMAIN raw = DatasetIds
      /\ (\A d \in DatasetIds : DirectoryOK(raw[d])) /\ staging' = staging /\ Item \in Ahead /\ Job \in Jobs
      /\ (Job.op = "normalize" => Job.from \in StagingIds)
      /\ (Job.op = "migrate" => Job.from \in DatasetIds /\ Job.from # to /\ raw[Job.from].cut = {})
      /\ Job.op \in {"normalize", "migrate"}
  BY Writing DEF ImportWrite, CopyImage
<1>1. /\ raw' = [raw EXCEPT ![to] = e] /\ Opened /\ SourceHas /\ raw'[to] = e /\ DOMAIN raw' = DatasetIds
      /\ \A d \in DatasetIds : d # to => raw'[d] = raw[d]
  BY <1>0 DEF CopyImage
<1>2. /\ imp'.pc = "write" /\ imp'.open = TRUE /\ imp'.out = imp.out
      /\ Job' = Job /\ Ahead' = Ahead /\ Item' = Item /\ imp'.todo # <<>> /\ ImportShape'
  BY <1>0, <1>1, OpenedFacts
<1>3. broken' = broken /\ UNCHANGED <<jobs, stamp, origin, givenUp, crashes>>
  BY <1>1, SameBroken
<1>4. Target' = e /\ Target = raw[to]
  BY <1>1, <1>2 DEF Target
<1>5. /\ Item = File("image", Item.split, Item.frame) /\ Item.split \in Splits /\ Item.frame \in Frames
      /\ raw[to].there /\ raw[to].classes = Missing /\ ~Sentinel(raw[to]) /\ raw[to].cut = {}
      /\ ~Whole(raw[to].report)
  BY <1>0, AtImage DEF Target
<1>6. /\ DirectoryOK(e) /\ e.there /\ e.coco = raw[to].coco /\ e.classes = Missing /\ e.info = raw[to].info
      /\ ~Whole(e.report)
      /\ \A sp \in Splits : raw[to].images[sp] \subseteq e.images[sp]
      /\ e.cut = {it}
  <2>1. DirectoryOK(raw[to])
    BY <1>0
  <2>2. /\ DirectoryOK(e) /\ e.there = raw[to].there /\ e.coco = raw[to].coco /\ e.classes = raw[to].classes
        /\ e.info = raw[to].info /\ e.report = raw[to].report
    BY <1>5, <2>1, WithImageOf
  <2>3. \A sp \in Splits : raw[to].images[sp] \subseteq e.images[sp]
    BY <1>5, <2>1, WithImageOf
  <2>4. e.cut = raw[to].cut \cup {it}
    BY <1>5, <2>1, WithImageOf
  <2> QED
    BY <1>5, <2>2, <2>3, <2>4
<1> HIDE DEF e
<1>7. DatasetTypeOK'
  <2>1. \A d \in DatasetIds : DirectoryOK(raw'[d])
    BY <1>0, <1>1, <1>6
  <2>2. imp'.job \in Jobs
    BY <1>0, <1>2 DEF Job
  <2> QED
    BY <1>0, <1>1, <1>2, <1>3, <2>1, <2>2 DEF DatasetInv, DatasetTypeOK
<1>8. SourceOK'
  BY <1>0, <1>1, <1>2 DEF SourceOK
<1>9. InOrderSoFar'
  <2>1. ~Sentinel(e)
    BY <1>5, <1>6 DEF Sentinel
  <2>2. ~Whole(e.info)
    BY <2>1 DEF Sentinel, IsFile, Whole
  <2> QED
    BY <1>2, <1>4, <1>6, <2>1, <2>2 DEF InOrderSoFar
<1>10. \A x : HasSource(x)' <=> HasSource(x)
  BY <1>0, <1>1, <1>2 DEF HasSource
<1>11. Stuck' <=> Stuck
  BY <1>2 DEF Stuck
<1>12. DoneOrAhead'
  <2>1. DocItem("classes") \in Ahead
    <3>1. ~Whole(Missing)
      BY DEF Whole, Missing
    <3> QED
      BY <1>0, <1>4, <1>5, <3>1 DEF DatasetInv, DoneOrAhead
  <2>2. \A f : InDir(Target, f) => InDir(Target', f)
    BY <1>4, <1>6 DEF InDir
  <2>3. Target'.coco = Target.coco
    BY <1>4, <1>6
  <2> QED
    BY <1>0, <1>2, <1>3, <1>10, <1>11, <2>1, <2>2, <2>3 DEF DatasetInv, DoneOrAhead
<1>13. CopiedOrAhead'
  <2>1. ASSUME Job.op = "normalize", Job.images, NEW o \in origin[Job.to].frames, o.frame \in staging[Job.from].images
        PROVE  WholeIn(Target', o.frame) \/ \E x \in Ahead' : x.what = "image" /\ x.frame = o.frame
    <3>1. WholeIn(Target, o.frame) \/ \E x \in Ahead : x.what = "image" /\ x.frame = o.frame
      BY <1>0, <2>1 DEF DatasetInv, CopiedOrAhead
    <3>2. CASE o.frame = Item.frame
      BY <1>0, <1>2, <3>2
    <3>3. CASE o.frame # Item.frame /\ WholeIn(Target, o.frame)
      <4>1. PICK sp \in Splits : o.frame \in raw[to].images[sp]
        BY <1>4, <3>3 DEF WholeIn
      <4>2. <<sp, o.frame>> # it
        BY <3>3
      <4> QED
        BY <1>4, <1>6, <4>1, <4>2 DEF WholeIn
    <3> QED
      BY <1>2, <3>1, <3>2, <3>3
  <2>2. ASSUME Job.op = "migrate", ~Stuck, NEW sp \in Splits, NEW f \in raw[Job.from].images[sp], At(f, sp) \in origin[Job.to].frames
        PROVE  File("image", sp, f) \in Ahead' \/ (f \in Target'.images[sp] /\ <<sp, f>> \notin Target'.cut)
    <3>1. File("image", sp, f) \in Ahead \/ (f \in Target.images[sp] /\ <<sp, f>> \notin Target.cut)
      BY <1>0, <2>2 DEF DatasetInv, CopiedOrAhead
    <3>2. CASE <<sp, f>> = it
      BY <1>0, <1>2, <1>5, <3>2
    <3>3. CASE <<sp, f>> # it
      BY <1>2, <1>4, <1>6, <3>1, <3>3
    <3> QED
      BY <3>2, <3>3
  <2> QED
    BY <1>0, <1>1, <1>2, <1>3, <1>11, <2>1, <2>2 DEF CopiedOrAhead
<1>14. FramesKept'
  <2> SUFFICES ASSUME NEW f \in Frames
               PROVE  InStaging(f)' \/ CopiesOf(f)' # {} \/ f \in givenUp'
    BY DEF FramesKept
  <2>1. CASE f = Item.frame
    <3>1. CASE Job.op = "normalize"
      BY <1>0, <1>1, <2>1, <3>1 DEF SourceHas, InStaging
    <3>2. CASE Job.op = "migrate"
      <4>1. Job.from \in CopiesOf(f)'
        BY <1>0, <1>1, <1>5, <2>1, <3>2 DEF SourceHas, CopiesOf
      <4> QED
        BY <4>1
    <3> QED
      BY <1>0, <3>1, <3>2
  <2>2. CASE f # Item.frame
    <3>1. \A sp \in Splits : <<sp, f>> # it
      BY <2>2
    <3>2. \A sp \in Splits : f \in raw[to].images[sp] => f \in e.images[sp] /\ <<sp, f>> \notin e.cut
      BY <1>6, <3>1
    <3>3. CopiesOf(f) \subseteq CopiesOf(f)'
      BY <1>1, <3>2 DEF CopiesOf
    <3> QED
      BY <1>0, <1>3, <3>3 DEF DatasetInv, FramesKept, InStaging
  <2> QED
    BY <2>1, <2>2
<1> QED
  BY <1>0, <1>1, <1>2, <1>3, <1>7, <1>8, <1>9, <1>12, <1>13, <1>14, WriteGoesOn

\* An image is in its place; it may have been moved there.
LEMMA Placed ==
  ASSUME DatasetInv, imp.pc = "write", imp.todo # <<>>, Item.what = "image", GoesOn, PassOK',
         UNCHANGED <<jobs, stamp, origin, givenUp, crashes>>,
         DOMAIN staging' = StagingIds,
         \A s \in StagingIds : /\ StagingOK(staging'[s]) /\ staging'[s].images \subseteq staging[s].images
                               /\ \A f \in staging[s].images : f \in staging'[s].images \/ f = Item.frame,
         DOMAIN raw' = DatasetIds, raw'[Job.to] = WithImage(raw[Job.to], FALSE),
         \A d \in DatasetIds : d # Job.to =>
           /\ DirectoryOK(raw'[d]) /\ raw'[d].cut = raw[d].cut /\ (raw'[d] = raw[d] \/ d \in broken')
           /\ \A sp \in Splits : /\ raw'[d].images[sp] \subseteq raw[d].images[sp]
                                 /\ \A f \in raw[d].images[sp] :
                                      f \in raw'[d].images[sp] \/ (sp = Item.split /\ f = Item.frame),
         broken \subseteq broken', broken' \subseteq DatasetIds
  PROVE  DatasetInv'
<1> DEFINE to == Job.to
           e == WithImage(raw[to], FALSE)
           it == <<Item.split, Item.frame>>
<1>0. /\ to \in DatasetIds /\ (\A d \in DatasetIds : DirectoryOK(raw[d])) /\ Item \in Ahead /\ Job \in Jobs
      /\ (Job.op = "normalize" => Job.from \in StagingIds)
      /\ (Job.op = "migrate" => Job.from \in DatasetIds /\ Job.from # to /\ raw[Job.from].cut = {})
      /\ Job.op \in {"normalize", "migrate"} /\ imp.open \in BOOLEAN
  BY Writing
<1>1. raw'[to] = e
  OBVIOUS
<1>2. /\ imp'.pc = "write" /\ imp'.open = FALSE /\ imp'.out = imp.out /\ ImportShape'
      /\ Job' \in Jobs /\ Job'.op = Job.op /\ Job'.from = Job.from /\ Job'.to = Job.to
      /\ Job.op = "normalize" => Job'.images = Job.images
      /\ Ahead' \subseteq Ahead /\ Ahead = {Item} \cup Ahead'
  BY GoesOnFacts
<1>3. Target' = e /\ Target = raw[to]
  BY <1>1, <1>2 DEF Target
<1>4. /\ Item = File("image", Item.split, Item.frame) /\ Item.split \in Splits /\ Item.frame \in Frames
      /\ raw[to].there /\ raw[to].classes = Missing /\ ~Sentinel(raw[to]) /\ raw[to].cut \subseteq {it}
      /\ ~Whole(raw[to].report)
  BY <1>0, AtImage DEF Target
<1>5. /\ DirectoryOK(e) /\ e.there /\ e.coco = raw[to].coco /\ e.classes = Missing /\ e.info = raw[to].info
      /\ ~Whole(e.report)
      /\ \A sp \in Splits : raw[to].images[sp] \subseteq e.images[sp]
      /\ Item.frame \in e.images[Item.split]
      /\ e.cut = {}
  <2>1. DirectoryOK(raw[to])
    BY <1>0
  <2>2. /\ DirectoryOK(e) /\ e.there = raw[to].there /\ e.coco = raw[to].coco /\ e.classes = raw[to].classes
        /\ e.info = raw[to].info /\ e.report = raw[to].report
    BY <1>4, <2>1, WithImageOf
  <2>3. \A sp \in Splits : raw[to].images[sp] \subseteq e.images[sp]
    BY <1>4, <2>1, WithImageOf
  <2>4. e.cut = raw[to].cut \ {it} /\ Item.frame \in e.images[Item.split]
    BY <1>4, <2>1, WithImageOf
  <2> QED
    BY <1>4, <2>2, <2>3, <2>4
<1> HIDE DEF e
<1>6. InDir(Target', Item.frame) /\ WholeIn(Target', Item.frame)
  BY <1>3, <1>4, <1>5 DEF InDir, WholeIn
<1>7. \A f : (InDir(Target, f) => InDir(Target', f)) /\ (WholeIn(Target, f) => WholeIn(Target', f))
  <2>1. Target'.cut = {} /\ \A sp \in Splits : Target.images[sp] \subseteq Target'.images[sp]
    BY <1>3, <1>5
  <2> QED
    BY <2>1 DEF InDir, WholeIn
<1>8. Stuck' <=> Stuck
  BY <1>2, DocItems DEF Stuck, Late
<1>9. DatasetTypeOK'
  <2>1. \A d \in DatasetIds : DirectoryOK(raw'[d])
    BY <1>1, <1>5
  <2>2. imp'.job \in Jobs
    BY <1>2 DEF Job
  <2> QED
    BY <1>2, <2>1, <2>2 DEF DatasetInv, DatasetTypeOK
<1>10. SourceOK'
  BY <1>0, <1>2 DEF SourceOK
<1>11. InOrderSoFar'
  <2>1. ~Sentinel(e)
    BY <1>4, <1>5 DEF Sentinel
  <2>2. ~Whole(e.info)
    BY <2>1 DEF Sentinel, IsFile, Whole
  <2> QED
    BY <1>2, <1>3, <1>5, <2>1, <2>2 DEF InOrderSoFar
<1>12. \A x \in Ahead : x.what = "image" /\ HasSource(x) => HasSource(x)' \/ x.frame = Item.frame
  <2> SUFFICES ASSUME NEW x \in Ahead, x.what = "image", HasSource(x), x.frame # Item.frame PROVE HasSource(x)'
    OBVIOUS
  <2>1. x.split \in Splits
    <3>1. x \in TodoItems
      BY Writing
    <3> QED
      BY <3>1, ItemIs
  <2>2. CASE Job.op = "normalize"
    BY <1>0, <1>2, <2>2 DEF HasSource
  <2>3. CASE Job.op = "migrate"
    BY <1>0, <1>2, <2>1, <2>3 DEF HasSource
  <2> QED
    BY <1>0, <2>2, <2>3
<1>13. DoneOrAhead'
  <2>1. DocItem("classes") \in Ahead' \/ Whole(Target'.classes)
    <3>1. ~Whole(Missing)
      BY DEF Whole, Missing
    <3>2. DocItem("classes") \in Ahead
      BY <1>3, <1>4, <3>1 DEF DatasetInv, DoneOrAhead
    <3> QED
      BY <1>2, <3>2, DocItems
  <2>2. ASSUME ~Stuck, NEW sp \in origin[to].splits
        PROVE  /\ Whole(imp.out.coco[sp]) /\ imp.out.info.doc.splits[sp] = Counts(imp.out.coco[sp].doc)
               /\ CocoItem(sp) \in Ahead' \/ Target'.coco[sp] = imp.out.coco[sp]
    <3>1. CocoItem(sp).what = "coco"
      BY DEF CocoItem, File
    <3> QED
      BY <1>2, <1>3, <1>5, <2>2, <3>1 DEF DatasetInv, DoneOrAhead
  <2>3. ASSUME ~Stuck, Job.to \notin broken', NEW f \in origin[to].files
        PROVE  InDir(Target', f) \/ \E x \in Ahead' : x.what = "image" /\ x.frame = f /\ HasSource(x)'
    <3>1. InDir(Target, f) \/ \E x \in Ahead : x.what = "image" /\ x.frame = f /\ HasSource(x)
      BY <2>3 DEF DatasetInv, DoneOrAhead
    <3>2. CASE f = Item.frame
      BY <1>6, <3>2
    <3>3. CASE f # Item.frame
      BY <1>2, <1>7, <1>12, <3>1, <3>3
    <3> QED
      BY <3>2, <3>3
  <2> QED
    BY <1>2, <1>8, <2>1, <2>2, <2>3 DEF DoneOrAhead
<1>14. CopiedOrAhead'
  <2>1. ASSUME Job.op = "normalize", Job.images, NEW o \in origin[to].frames, o.frame \in staging'[Job.from].images
        PROVE  WholeIn(Target', o.frame) \/ \E x \in Ahead' : x.what = "image" /\ x.frame = o.frame
    <3>1. WholeIn(Target, o.frame) \/ \E x \in Ahead : x.what = "image" /\ x.frame = o.frame
      BY <1>0, <2>1 DEF DatasetInv, CopiedOrAhead
    <3>2. CASE o.frame = Item.frame
      BY <1>6, <3>2
    <3>3. CASE o.frame # Item.frame
      BY <1>2, <1>7, <3>1, <3>3
    <3> QED
      BY <3>2, <3>3
  <2>2. ASSUME Job.op = "migrate", ~Stuck, NEW sp \in Splits, NEW f \in raw'[Job.from].images[sp], At(f, sp) \in origin[to].frames
        PROVE  File("image", sp, f) \in Ahead' \/ (f \in Target'.images[sp] /\ <<sp, f>> \notin Target'.cut)
    <3>1. File("image", sp, f) \in Ahead \/ (f \in Target.images[sp] /\ <<sp, f>> \notin Target.cut)
      BY <1>0, <2>2 DEF DatasetInv, CopiedOrAhead
    <3>2. CASE <<sp, f>> = it
      BY <1>3, <1>4, <1>5, <3>2
    <3>3. CASE <<sp, f>> # it
      <4>1. File("image", sp, f) # Item
        BY <3>3 DEF File
      <4> QED
        BY <1>2, <1>3, <1>5, <3>1, <4>1
    <3> QED
      BY <3>2, <3>3
  <2> QED
    BY <1>2, <1>8, <2>1, <2>2 DEF CopiedOrAhead
<1>15. FramesKept'
  <2> SUFFICES ASSUME NEW f \in Frames
               PROVE  InStaging(f)' \/ CopiesOf(f)' # {} \/ f \in givenUp'
    BY DEF FramesKept
  <2>1. CASE f = Item.frame
    <3>1. to \in CopiesOf(f)'
      BY <1>0, <1>1, <1>4, <1>5, <2>1 DEF CopiesOf
    <3> QED
      BY <3>1
  <2>2. CASE f # Item.frame
    <3>1. InStaging(f) => InStaging(f)'
      BY <2>2 DEF InStaging
    <3>2. CopiesOf(f) \subseteq CopiesOf(f)'
      <4> SUFFICES ASSUME NEW d \in DatasetIds, NEW sp \in Splits, f \in raw[d].images[sp], <<sp, f>> \notin raw[d].cut
                   PROVE  f \in raw'[d].images[sp] /\ <<sp, f>> \notin raw'[d].cut
        BY DEF CopiesOf
      <4>1. CASE d = to
        BY <1>1, <1>5, <4>1
      <4>2. CASE d # to
        BY <2>2, <4>2
      <4> QED
        BY <4>1, <4>2
    <3> QED
      BY <3>1, <3>2 DEF DatasetInv, FramesKept
  <2> QED
    BY <2>1, <2>2
<1>16. \A d \in DatasetIds : d # to => raw'[d] = raw[d] \/ d \in broken'
  OBVIOUS
<1> QED
  BY <1>0, <1>2, <1>9, <1>10, <1>11, <1>13, <1>14, <1>15, <1>16, WriteGoesOn

\* A copy that ends, and a link.
LEMMA CopyEndsStep ==
  ASSUME DatasetInv, ImportWrite, Item.what = "image", NextItem, PassOK',
         staging' = staging, raw' = [raw EXCEPT ![Job.to] = WithImage(@, FALSE)]
  PROVE  DatasetInv'
<1>1. imp.pc = "write" /\ imp.todo # <<>>
  BY DEF ImportWrite
<1>2. Job.to \in DatasetIds /\ DOMAIN raw = DatasetIds /\ \A d \in DatasetIds : DirectoryOK(raw[d])
  BY <1>1, Writing
<1> DEFINE e == WithImage(raw[Job.to], FALSE)
<1>3. raw' = [raw EXCEPT ![Job.to] = e]
  BY <1>2
<1>4. DOMAIN raw' = DatasetIds /\ raw'[Job.to] = e /\ \A d \in DatasetIds : d # Job.to => raw'[d] = raw[d]
  <2> HIDE DEF e
  <2> QED
    BY <1>2, <1>3
<1>5. broken' = broken /\ UNCHANGED <<jobs, stamp, origin, givenUp, crashes>>
  BY <1>3, SameBroken
<1>6. DOMAIN staging' = StagingIds /\ (\A s \in StagingIds : StagingOK(staging'[s])) /\ broken' \subseteq DatasetIds
  BY <1>5 DEF DatasetInv, DatasetTypeOK
<1>7. GoesOn
  BY <1>1, NextFacts
<1> QED
  BY <1>1, <1>2, <1>4, <1>5, <1>6, <1>7, Placed

\* A rename.
LEMMA MoveStep ==
  ASSUME DatasetInv, ImportWrite, Item.what = "image", MoveImage, PassOK'
  PROVE  DatasetInv'
<1> DEFINE to == Job.to
           from == Job.from
           e == WithImage(raw[to], FALSE)
<1>1. imp.pc = "write" /\ imp.todo # <<>> /\ UNCHANGED <<jobs, stamp, origin, givenUp, crashes>> /\ NextItem /\ SourceHas
  BY DEF ImportWrite, MoveImage
<1>2. /\ to \in DatasetIds /\ DOMAIN raw = DatasetIds /\ (\A d \in DatasetIds : DirectoryOK(raw[d]))
      /\ (Job.op = "normalize" => from \in StagingIds) /\ Job.op \in {"normalize", "migrate"}
      /\ (Job.op = "migrate" => from \in DatasetIds /\ from # to /\ raw[from].cut = {})
      /\ DOMAIN staging = StagingIds /\ (\A s \in StagingIds : StagingOK(staging[s])) /\ broken \subseteq DatasetIds
  BY <1>1, Writing DEF DatasetInv, DatasetTypeOK
<1>3. GoesOn
  BY <1>1, NextFacts
<1>4. CASE Job.op = "normalize"
  <2> DEFINE s0 == [staging[from] EXCEPT !.images = @ \ {Item.frame}]
  <2>1. staging' = [staging EXCEPT ![from] = s0] /\ raw' = [raw EXCEPT ![to] = e]
    BY <1>2, <1>4 DEF MoveImage
  <2>2. StagingOK(s0) /\ s0.images = staging[from].images \ {Item.frame}
    <3>1. /\ staging[from] = [there |-> staging[from].there, coco |-> staging[from].coco, images |-> staging[from].images]
          /\ staging[from].there \in BOOLEAN /\ staging[from].images \subseteq Frames /\ CocoFile(staging[from].coco)
      BY <1>2, <1>4 DEF StagingOK
    <3>2. s0 = [there |-> staging[from].there, coco |-> staging[from].coco, images |-> staging[from].images \ {Item.frame}]
      BY <3>1
    <3> HIDE DEF s0
    <3> QED
      BY <3>1, <3>2 DEF StagingOK
  <2> HIDE DEF s0, e
  <2>3. /\ DOMAIN staging' = StagingIds
        /\ \A s \in StagingIds : /\ StagingOK(staging'[s]) /\ staging'[s].images \subseteq staging[s].images
                                 /\ \A f \in staging[s].images : f \in staging'[s].images \/ f = Item.frame
    <3>1. DOMAIN staging' = StagingIds /\ staging'[from] = s0 /\ \A s \in StagingIds : s # from => staging'[s] = staging[s]
      BY <1>2, <1>4, <2>1
    <3> QED
      BY <1>2, <2>2, <3>1
  <2>4. DOMAIN raw' = DatasetIds /\ raw'[to] = e /\ \A d \in DatasetIds : d # to => raw'[d] = raw[d]
    BY <1>2, <2>1
  <2>5. broken' = broken
    BY <1>4 DEF ImportWrite
  <2> QED
    BY <1>1, <1>2, <1>3, <2>3, <2>4, <2>5, Placed DEF e
<1>5. CASE Job.op = "migrate"
  <2> DEFINE d0 == raw[from]
             source == [d0 EXCEPT !.images[Item.split] = @ \ {Item.frame}]
  <2>0. Item.split \in Splits /\ Item.frame \in d0.images[Item.split] /\ Item.frame \in Frames
    BY <1>1, <1>5, AtImage DEF SourceHas
  <2>1. staging' = staging /\ raw' = [raw EXCEPT ![from].images[Item.split] = @ \ {Item.frame}, ![to] = WithImage(@, FALSE)]
    BY <1>2, <1>5 DEF MoveImage
  <2>2. /\ raw'[to] = e /\ raw'[from] = source /\ DOMAIN raw' = DatasetIds
        /\ \A d \in DatasetIds : d # to /\ d # from => raw'[d] = raw[d]
    <3> DEFINE raw1 == [raw EXCEPT ![from].images[Item.split] = @ \ {Item.frame}]
    <3>1. raw1[from] = source /\ DOMAIN raw1 = DatasetIds /\ \A d \in DatasetIds : d # from => raw1[d] = raw[d]
      BY <1>2, <1>5
    <3>2. raw1[to] = raw[to]
      BY <1>2, <1>5, <3>1
    <3>3. raw' = [raw1 EXCEPT ![to] = e]
      BY <2>1, <3>2
    <3> HIDE DEF raw1, source, e
    <3> QED
      BY <1>2, <1>5, <3>1, <3>3
  <2>3. /\ source.there = d0.there /\ source.coco = d0.coco /\ source.cut = d0.cut /\ source.classes = d0.classes
        /\ source = [there |-> source.there, coco |-> source.coco, images |-> source.images, cut |-> source.cut,
                     classes |-> source.classes, manifest |-> source.manifest, info |-> source.info, report |-> source.report]
        /\ source.images = [d0.images EXCEPT ![Item.split] = @ \ {Item.frame}]
    <3>1. d0 = [there |-> d0.there, coco |-> d0.coco, images |-> d0.images, cut |-> d0.cut,
                classes |-> d0.classes, manifest |-> d0.manifest, info |-> d0.info, report |-> d0.report]
      BY <1>2, <1>5 DEF DirectoryOK
    <3> HIDE DEF d0
    <3> QED
      BY <3>1
  <2>4. d0.there
    BY <1>2, <1>5, <2>0, AbsentOK DEF DirectoryOK
  <2>5. /\ DirectoryOK(source)
        /\ \A sp \in Splits : /\ source.images[sp] \subseteq d0.images[sp]
                              /\ \A f \in d0.images[sp] : f \in source.images[sp] \/ (sp = Item.split /\ f = Item.frame)
    <3>1. DirectoryOK(d0) /\ d0.cut = {}
      BY <1>2, <1>5
    <3> HIDE DEF source, d0
    <3>2. d0.images \in [Splits -> SUBSET Frames]
      BY <3>1 DEF DirectoryOK
    <3>3. source.images \in [Splits -> SUBSET Frames]
          /\ \A sp \in Splits : /\ source.images[sp] \subseteq d0.images[sp]
                                /\ \A f \in d0.images[sp] : f \in source.images[sp] \/ (sp = Item.split /\ f = Item.frame)
      BY <2>0, <2>3, <3>2
    <3>4. DirectoryOK(source)
      BY <2>3, <2>4, <3>1, <3>3 DEF DirectoryOK
    <3> QED
      BY <3>3, <3>4
  <2>6. broken \subseteq broken' /\ broken' \subseteq DatasetIds /\ (raw'[from] = raw[from] \/ from \in broken')
    BY <1>2, <1>5 DEF ImportWrite
  <2> HIDE DEF source, e
  <2>7. \A d \in DatasetIds : d # to =>
           /\ DirectoryOK(raw'[d]) /\ raw'[d].cut = raw[d].cut /\ (raw'[d] = raw[d] \/ d \in broken')
           /\ \A sp \in Splits : /\ raw'[d].images[sp] \subseteq raw[d].images[sp]
                                 /\ \A f \in raw[d].images[sp] :
                                      f \in raw'[d].images[sp] \/ (sp = Item.split /\ f = Item.frame)
    <3> SUFFICES ASSUME NEW d \in DatasetIds, d # to
                 PROVE  /\ DirectoryOK(raw'[d]) /\ raw'[d].cut = raw[d].cut /\ (raw'[d] = raw[d] \/ d \in broken')
                        /\ \A sp \in Splits : /\ raw'[d].images[sp] \subseteq raw[d].images[sp]
                                              /\ \A f \in raw[d].images[sp] :
                                                   f \in raw'[d].images[sp] \/ (sp = Item.split /\ f = Item.frame)
      OBVIOUS
    <3>1. CASE d = from
      BY <2>2, <2>3, <2>5, <2>6, <3>1
    <3>2. CASE d # from
      BY <1>2, <2>2, <3>2
    <3> QED
      BY <3>1, <3>2
  <2> QED
    BY <1>1, <1>2, <1>3, <2>1, <2>2, <2>6, <2>7, Placed DEF e
<1> QED
  BY <1>2, <1>4, <1>5

\* One step of the writing, whatever the item.
LEMMA WriteStep ==
  ASSUME DatasetInv, ImportWrite, PassOK'
  PROVE  DatasetInv'
<1>0. /\ imp.pc = "write" /\ imp.todo # <<>> /\ UNCHANGED <<jobs, stamp, origin, givenUp, crashes>>
      /\ jobs' \in Seq(Jobs) /\ stamp' \in Nat /\ crashes' \in 0..MaxCrashes
  BY DEF ImportWrite, DatasetInv, DatasetTypeOK
<1>1. ASSUME \E r : Ended(r), UNCHANGED <<staging, raw>> PROVE DatasetInv'
  <2>1. broken' = broken
    BY <1>1 DEF ImportWrite
  <2>2. imp'.pc = "idle"
    BY <1>1 DEF Ended
  <2> QED
    BY <1>0, <1>1, <2>1, <2>2, EndsThere
<1>2. CASE WriteDoc
  BY <1>2, WriteDocStep
<1>3. CASE Probe
  <2>1. Item.what = "probe" /\ UNCHANGED <<staging, raw>>
    BY <1>3 DEF Probe
  <2>2. (\E r : Ended(r)) \/ GoesOn
    BY <1>0, <1>3, <2>1, NextFacts DEF Probe
  <2> QED
    BY <1>1, <2>1, <2>2, PassedOver
<1>4. CASE Unreadable
  BY <1>1, <1>4 DEF Unreadable
<1>5. CASE PlaceImage
  <2>0. Item.what = "image" /\ imp.open \in BOOLEAN
    BY <1>0, <1>5, Writing DEF PlaceImage
  <2>1. CASE SkipMissing
    <3>1. ~imp.open /\ ~SourceHas /\ NextItem /\ UNCHANGED <<staging, raw>>
      BY <2>1 DEF SkipMissing
    <3>2. GoesOn
      BY <1>0, <3>1, NextFacts
    <3> QED
      BY <2>0, <3>1, <3>2, PassedOver
  <2>2. CASE CopyFails
    BY <2>0, <2>2, CopyFailsStep
  <2>3. CASE CopyImage
    <3>1. CASE ~imp.open
      BY <2>0, <2>3, <3>1, CopyBeginsStep
    <3>2. CASE imp.open
      <4>1. NextItem /\ staging' = staging /\ raw' = [raw EXCEPT ![Job.to] = WithImage(@, FALSE)]
        BY <2>3, <3>2 DEF CopyImage
      <4> QED
        BY <2>0, <4>1, CopyEndsStep
    <3> QED
      BY <3>1, <3>2
  <2>4. CASE MoveImage
    BY <2>0, <2>4, MoveStep
  <2>5. CASE LinkImage
    <3>1. staging' = staging
      BY <2>5 DEF LinkImage
    <3>2. CASE NextItem /\ raw' = [raw EXCEPT ![Job.to] = WithImage(@, FALSE)]
      BY <2>0, <3>1, <3>2, CopyEndsStep
    <3>3. CASE Ended("failed") /\ UNCHANGED raw
      BY <1>1, <3>1, <3>3
    <3> QED
      BY <2>5, <3>2, <3>3 DEF LinkImage
  <2> QED
    BY <1>5, <2>1, <2>2, <2>3, <2>4, <2>5 DEF PlaceImage
<1> QED
  BY <1>2, <1>3, <1>4, <1>5 DEF ImportWrite

LEMMA ImportStep == DatasetInv /\ Import => DatasetInv'
<1> SUFFICES ASSUME DatasetInv, Import PROVE DatasetInv'
  OBVIOUS
<1>1. PassOK'
  BY PassKept DEF Import, DatasetInv
<1>2. ImportSteps \/ ImportCrash
  BY DEF Import
<1> QED
  BY <1>1, <1>2, ImportStartStep, ClearStep, NormalizeReadStep, MigrateReadStep, WriteStep, DoneStep, DropStagingStep,
     DropRawStep, CrashStep DEF ImportSteps

(***************************************************************************)
(* The other steps of the pipeline                                         *)
(***************************************************************************)
\* A pass plans to remove no staging directory but the expired ones.
LEMMA CollectStep == DatasetInv /\ Collect => DatasetInv'
<1> SUFFICES ASSUME DatasetInv, Collect PROVE DatasetInv'
  OBVIOUS
<1>1. UNCHANGED datasetVars /\ expired' = expired
  BY DEF Collect, GcRuns, GcCaches, GcPlan, GcDryRun, GcDone
<1>2. PassOK'
  <2>1. CASE GcRuns \/ GcCaches \/ GcDryRun \/ GcDone
    <3>1. gc'.pc # "apply"
      BY <2>1 DEF GcRuns, GcCaches, GcDryRun, GcDone, GcIdle
    <3> QED
      BY <1>1, <3>1 DEF DatasetInv, PassOK
  <2>2. CASE GcPlan(att)
    <3> DEFINE old == {s \in expired : staging[s].there}
               plan == PlanRetention(gc.runs, gc.caches, old, att)
    <3>1. gc' = [pc |-> "apply", runs |-> gc.runs, caches |-> gc.caches, plan |-> plan, left |-> plan]
      BY <2>2 DEF GcPlan
    <3>2. \A item \in plan : item.kind = "staging" => item.id \in StagingIds
      BY DEF DatasetInv, PassOK, PlanRetention, Items
    <3> HIDE DEF plan
    <3> QED
      BY <1>1, <3>1, <3>2 DEF DatasetInv, PassOK
  <2> QED
    BY <2>1, <2>2 DEF Collect
<1>3. crashes' \in 0..MaxCrashes
  BY <1>1 DEF DatasetInv, DatasetTypeOK, datasetVars
<1> QED
  BY <1>1, <1>2, <1>3, DatasetsStill DEF datasetVars

LEMMA PipelineStep == DatasetInv /\ (Pipeline \/ StageFails \/ PipeDies) => DatasetInv'
<1> SUFFICES ASSUME DatasetInv, Pipeline \/ StageFails \/ PipeDies PROVE DatasetInv'
  OBVIOUS
<1>1. UNCHANGED <<staging, raw, jobs, imp, stamp, origin, broken, givenUp>> /\ UNCHANGED <<gc, expired>>
      /\ (crashes' = crashes \/ (crashes' = crashes + 1 /\ crashes < MaxCrashes))
  BY DEF Pipeline, StageFails, PipeDies, Begin, RegistryStage, CacheStage, BuildCache, ExportStage, StageEnds, TrackCache,
     PipeEnds, datasetVars, retentionVars
<1>2. PassOK'
  BY <1>1 DEF DatasetInv, PassOK
<1>3. crashes' \in 0..MaxCrashes
  BY <1>1, DatasetAssumption DEF DatasetInv, DatasetTypeOK
<1> QED
  BY <1>1, <1>2, <1>3, DatasetsStill

\* What earlier commands left is complete where it can be seen.
LEMMA AtFirst == Init => DatasetInv
<1> SUFFICES ASSUME Init PROVE DatasetInv
  OBVIOUS
<1>1. PICK sc \in Scenarios :
        /\ staging = sc.staging /\ jobs = sc.jobs /\ expired = sc.expired
        /\ raw = [d \in DatasetIds |-> IF d \in DOMAIN sc.raw THEN sc.raw[d] ELSE AbsentDir]
  BY DEF Init
<1>2. /\ DOMAIN sc.staging = StagingIds /\ \A s \in StagingIds : StagingOK(sc.staging[s])
      /\ \A d \in DOMAIN sc.raw : LeftBefore(sc.raw[d])
      /\ sc.jobs \in Seq(Jobs) /\ sc.expired \subseteq StagingIds
  BY ScenariosAssumption
<1>3. /\ imp = Idle /\ stamp = 0 /\ origin = [d \in DatasetIds |-> Inventory(raw[d])]
      /\ broken = {} /\ crashes = 0 /\ givenUp = {f \in Frames : ~InStaging(f) /\ CopiesOf(f) = {}}
      /\ gc = GcIdle
  BY DEF Init, InitImport, InitRetention
<1>4. DOMAIN raw = DatasetIds /\ \A d \in DatasetIds : DirectoryOK(raw[d]) /\ (Sentinel(raw[d]) => Complete(raw[d], Inventory(raw[d])))
  BY <1>1, <1>2, AbsentOK DEF LeftBefore
<1>5. imp.pc = "idle"
  BY <1>3 DEF Idle
<1>6. DatasetTypeOK
  BY <1>1, <1>2, <1>3, <1>4, <1>5, DatasetAssumption DEF DatasetTypeOK
<1>7. OriginOK
  BY <1>3 DEF OriginOK, Inventory, Parsed
<1>8. ReadyMeansComplete
  BY <1>3, <1>4 DEF ReadyMeansComplete
<1>9. FramesKept
  BY <1>3 DEF FramesKept
<1>10. PassOK
  BY <1>1, <1>2, <1>3 DEF PassOK, GcIdle
<1> QED
  BY <1>5, <1>6, <1>7, <1>8, <1>9, <1>10 DEF DatasetInv, ImportShape, SourceOK, TargetOK, DropOK, InOrderSoFar,
     DoneOrAhead, CopiedOrAhead

LEMMA DatasetsInvariant == Spec => []DatasetInv
<1>1. DatasetInv /\ UNCHANGED vars => DatasetInv'
  <2> SUFFICES ASSUME DatasetInv, UNCHANGED vars PROVE DatasetInv'
    OBVIOUS
  <2>1. UNCHANGED datasetVars /\ UNCHANGED retentionVars
    BY DEF vars
  <2>2. PassOK'
    BY <2>1, PassKept DEF DatasetInv
  <2>3. crashes' \in 0..MaxCrashes
    BY <2>1 DEF DatasetInv, DatasetTypeOK, datasetVars
  <2> QED
    BY <2>1, <2>2, <2>3, DatasetsStill DEF datasetVars
<1>2. DatasetInv /\ [Next]_vars => DatasetInv'
  BY <1>1, ImportStep, CollectStep, PipelineStep, SweepStep DEF Next
<1> QED
  BY AtFirst, <1>2, PTL DEF Spec

\* "dataset_info.json (last)": whoever waits for that file finds the dataset
\* complete, with the classes, the labels that its counts name and every image
\* of the source, whatever import was cut off, failed to copy a file or ran
\* over what an earlier one had left; a dataset is `broken` only when its
\* source was removed during the import.  And an import that moves its frames
\* or drops its source never loses one: a captured frame is in staging or in a
\* dataset until a command that was told to remove it does (adapter.py:146-163,
\* 215-291, cli.py:110-139, migrate_legacy_dataset.py:207-262).
THEOREM ImportsSafeHolds == Spec => []ImportsSafe
<1>1. DatasetInv => ImportsSafe
  BY DEF DatasetInv, ImportsSafe
<1> QED
  BY DatasetsInvariant, <1>1, PTL

(***************************************************************************)
(* Types                                                                   *)
(***************************************************************************)
\* Where run_all may be, and whose directories there are.
PlacesOK ==
  /\ pipe.pc \in {"off", "stage", "set_tile_cache", "register_tile_cache"}
  /\ pipe.pc # "off" =>
       /\ {"cache", "dataset"} \subseteq DOMAIN pipe
       /\ pipe.cache \in CacheIds /\ pipe.dataset \in DatasetIds
  /\ runDirs \subseteq RunIds /\ cacheDirs \subseteq CacheIds

LEMMA PlacesKept == ExportInv /\ PlacesOK /\ [Next]_vars => PlacesOK'
<1> SUFFICES ASSUME ExportInv, PlacesOK, [Next]_vars PROVE PlacesOK'
  OBVIOUS
<1>1. CASE Begin
  <2> DEFINE a == Head(attempts)
  <2>1. a \in Attempts
    BY <1>1 DEF Begin, ExportInv, PipeOK
  <2>2. a.run \in RunIds /\ a.cache \in CacheIds /\ a.dataset \in DatasetIds
    BY <2>1 DEF Attempts
  <2>3. /\ pipe' = [pc |-> "stage", run |-> a.run, dataset |-> a.dataset, cache |-> a.cache,
                    replace |-> a.replace, left |-> a.stages, results |-> NoResults]
        /\ runDirs' = runDirs \cup {a.run} /\ cacheDirs' = cacheDirs
    BY <1>1 DEF Begin
  <2> HIDE DEF a
  <2> QED
    BY <2>2, <2>3 DEF PlacesOK
<1>2. CASE StageEnds \/ TrackCache
  <2>1. /\ pipe.pc # "off" /\ pipe'.cache = pipe.cache /\ pipe'.dataset = pipe.dataset
        /\ DOMAIN pipe' = DOMAIN pipe
        /\ pipe'.pc \in {"stage", "set_tile_cache", "register_tile_cache"}
        /\ UNCHANGED <<runDirs, cacheDirs>>
    BY <1>2 DEF StageEnds, TrackCache, exportVars, retentionVars, ExportInv, PipeOK, ProcOK, PlacesOK
  <2> QED
    BY <2>1 DEF PlacesOK
<1>3. CASE PipeEnds \/ PipeDies
  <2>1. pipe'.pc = "off" /\ UNCHANGED <<runDirs, cacheDirs>>
    BY <1>3 DEF PipeEnds, PipeDies, retentionVars
  <2> QED
    BY <2>1 DEF PlacesOK
<1>4. CASE CacheStage
  <2>1. pipe' = pipe /\ pipe.pc = "stage" /\ runDirs' = runDirs /\ cacheDirs' = cacheDirs \cup {pipe.cache}
    BY <1>4 DEF CacheStage, BuildCache, Executes, pipeVars
  <2> QED
    BY <2>1 DEF PlacesOK
<1>5. CASE Collect \/ Sweep
  <2>1. pipe' = pipe /\ runDirs' \subseteq runDirs /\ cacheDirs' \subseteq cacheDirs
    BY <1>5 DEF Collect, Sweep, GcRuns, GcCaches, GcPlan, GcDryRun, GcRemove, GcDone, pipeVars
  <2> QED
    BY <2>1 DEF PlacesOK
<1>6. CASE RegistryStage \/ ExportStage \/ StageFails \/ Import \/ UNCHANGED vars
  <2>1. UNCHANGED <<pipe, runDirs, cacheDirs>>
    BY <1>6 DEF RegistryStage, ExportStage, StageFails, Import, vars, pipeVars, retentionVars
  <2> QED
    BY <2>1 DEF PlacesOK
<1> QED
  BY <1>1, <1>2, <1>3, <1>4, <1>5, <1>6 DEF Next, Pipeline

LEMMA PlacesInvariant == Spec => []PlacesOK
<1>1. Init => PlacesOK
  BY DEF Init, InitRetention, PipeOff, PlacesOK
<1> QED
  BY <1>1, PlacesKept, ExportInvariant, PTL DEF Spec

\* What the commands find on disk has the shape they expect, wherever the
\* imports, the stages of a run and the passes of gc have been cut off.
THEOREM TypeCorrect == Spec => []TypeOK
<1>1. DatasetInv => DatasetTypeOK
  BY DEF DatasetInv
<1>2. ExportInv => ExportTypeOK
  BY DEF ExportInv, FilesOK, RunFiles, ModelFiles, Numbered, Doc, Docs, Missing, Torn, ExportTypeOK
<1>3. ExportInv => (pipe.pc = "off" => proc.pc = "idle")
  BY DEF ExportInv, ProcOK
<1>4. DatasetInv /\ ExportInv /\ PlacesOK => TypeOK
  BY <1>1, <1>2, <1>3 DEF PlacesOK, TypeOK
<1> QED
  BY DatasetsInvariant, ExportInvariant, PlacesInvariant, <1>4, PTL

(***************************************************************************)
(* Registration: the rows are those of the content that was hashed         *)
(***************************************************************************)
\* An import signs with the sentinel, a migration with its report.
SignItem == DocItem(IF Job.op = "migrate" THEN "report" ELSE "info")
DateOf(d) == IF d.info.doc.by = "migrate" THEN d.report.doc ELSE d.info.doc.stamp

\* An import has begun to replace this dataset, and its signature is to come.
Rewriting(d) ==
  /\ imp.pc \in {"clear", "read", "write"} /\ Job.to = d
  /\ imp.pc = "write" => SignItem \in Ahead

\* What is to be written bears the number of this import.
OutSigned ==
  /\ Whole(imp.out.info)
  /\ IF Job.op = "migrate" THEN imp.out.info.doc.by = "migrate" /\ imp.out.report = Doc(stamp)
     ELSE imp.out.info.doc.by = "normalize" /\ imp.out.info.doc.stamp = stamp

\* A signature carries the number of the import that wrote it.
StampOK ==
  /\ imp.pc = "write" => OutSigned
  /\ \A d \in DatasetIds : Dated(raw[d]) =>
       DateOf(raw[d]) \in 0..stamp /\ (Rewriting(d) => DateOf(raw[d]) # stamp)

\* The directory d has the signature of h.
SameSign(d, h) == d.info = h.info /\ (h.info.doc.by = "migrate" => d.report = h.report)

\* The datasets that have been hashed, each with the content it had.
Taken ==
  {<<r.id, r.hash>> : r \in db.datasets}
    \cup (IF proc.pc \in {"reg_open", "reg_upsert"} THEN {<<proc.dataset, proc.hash>>} ELSE {})

\* As long as the signature is the one that was hashed, the annotations are those
\* that were hashed, or a removal has begun.
Unchanged(d, h) ==
  /\ DateOf(h) \in 0..stamp /\ (Rewriting(d) => DateOf(h) # stamp)
  /\ SameSign(raw[d], h) => raw[d].coco \in {h.coco, AbsentDir.coco}
TakenOK ==
  \A p \in Taken : p[1] \in DatasetIds /\ Whole(p[2].info) /\ (Dated(p[2]) => Unchanged(p[1], p[2]))

\* What this content says of splits and rows still stands on the disk.
Stands(d, h) == Dated(h) /\ SameSign(raw[d], h) /\ raw[d].coco = h.coco

RowsFrom(d, h, splits) ==
  [images |-> UNION {Range(ImageRows(d, sp, h.coco[sp].doc)) : sp \in splits \cap Present(h)},
   anns |-> UNION {Range(AnnotationRows(d, sp, h.coco[sp].doc)) : sp \in splits \cap Present(h)}]
NoneTorn(h, splits) == \A sp \in splits : h.coco[sp].at # "torn"

In(table, d) == {row \in table : row.dataset = d}
Waiting(table) == {row \in Range(proc.rows) : row.table = table}

\* Foreign keys.
KeysOK ==
  /\ {"datasets", "images", "anns"} \subseteq DOMAIN db
  /\ \A row \in db.images \cup db.anns : Has(db.datasets, row.dataset)

\* The splits that a registration has still to read.
Lefts == {SPLITS, <<"val", "test">>, <<"test">>, <<>>}

RegisteringOK ==
  /\ proc.pc \in {"reg_open", "reg_upsert"} =>
       proc = [pc |-> proc.pc, dataset |-> proc.dataset, replace |-> proc.replace, hash |-> proc.hash]
  /\ proc.pc \in {"reg_upsert", "reg_rows"} => proc.dataset \notin kept
  /\ proc.pc = "reg_upsert" => In(db.images, proc.dataset) = {} /\ In(db.anns, proc.dataset) = {}
  /\ proc.pc = "reg_rows" =>
       /\ proc = [pc |-> "reg_rows", dataset |-> proc.dataset, left |-> proc.left, rows |-> proc.rows]
       /\ proc.left \in Lefts /\ proc.rows \in Seq(Range(proc.rows))
       /\ \A row \in Range(proc.rows) : row.table \in {"images", "anns"} /\ row.dataset = proc.dataset
       /\ Has(db.datasets, proc.dataset)

\* The rows there are and those that wait are the rows of the splits read so far.
ReadSoFar ==
  proc.pc = "reg_rows" =>
    LET read == Splits \ Range(proc.left)
    IN \A r \in db.datasets : r.id = proc.dataset /\ Stands(r.id, r.hash) =>
         /\ NoneTorn(r.hash, read)
         /\ In(db.images, r.id) \cup Waiting("images") = RowsFrom(r.id, r.hash, read).images
         /\ In(db.anns, r.id) \cup Waiting("anns") = RowsFrom(r.id, r.hash, read).anns

\* RegistryFaithful, as long as signature and annotations are those hashed.
KeptOK ==
  \A r \in db.datasets : r.id \in kept /\ Stands(r.id, r.hash) =>
    /\ In(db.images, r.id) = RowsFrom(r.id, r.hash, Splits).images
    /\ In(db.anns, r.id) = RowsFrom(r.id, r.hash, Splits).anns

TablesInv == TakenOK /\ KeysOK /\ RegisteringOK /\ ReadSoFar /\ KeptOK

(***************************************************************************)
(* Imports: what a step does to one directory                              *)
(***************************************************************************)
\* A part goes, the signature is not there or not complete, or it is written with
\* the number of this import.
Moves(d) ==
  \/ /\ raw'[d].coco \in {raw[d].coco, AbsentDir.coco} /\ raw'[d].info \in {raw[d].info, Missing}
     /\ Whole(raw[d].info) /\ raw[d].info.doc.by = "migrate" => raw'[d].report \in {raw[d].report, Missing}
  \/ ~Dated(raw'[d])
  \/ Rewriting(d) /\ ~Rewriting(d)' /\ DateOf(raw'[d]) = stamp

\* As long as every directory moves like that, what has been hashed and registered
\* is about the content it was about.
LEMMA Moved ==
  ASSUME StampOK, TablesInv, stamp \in Nat, stamp' = stamp, UNCHANGED <<db, proc, kept>>,
         \A d \in DatasetIds : Moves(d) /\ (Rewriting(d)' => Rewriting(d)),
         imp'.pc = "write" => OutSigned'
  PROVE  StampOK' /\ TablesInv'
<1>0. ~Whole(Missing)
  BY DEF Whole, Missing
<1>G. ASSUME NEW d \in DatasetIds, Dated(raw'[d])
      PROVE  \/ /\ raw'[d].coco \in {raw[d].coco, AbsentDir.coco} /\ Dated(raw[d]) /\ raw'[d].info = raw[d].info
                /\ raw[d].info.doc.by = "migrate" => raw'[d].report = raw[d].report
                /\ DateOf(raw'[d]) = DateOf(raw[d])
             \/ Rewriting(d) /\ ~Rewriting(d)' /\ DateOf(raw'[d]) = stamp
  <2>1. CASE Rewriting(d) /\ ~Rewriting(d)' /\ DateOf(raw'[d]) = stamp
    BY <2>1
  <2>2. CASE /\ raw'[d].coco \in {raw[d].coco, AbsentDir.coco} /\ raw'[d].info \in {raw[d].info, Missing}
             /\ Whole(raw[d].info) /\ raw[d].info.doc.by = "migrate" => raw'[d].report \in {raw[d].report, Missing}
    <3>1. raw'[d].info = raw[d].info /\ Whole(raw[d].info)
      BY <1>0, <1>G, <2>2 DEF Dated
    <3>2. raw[d].info.doc.by = "migrate" => raw'[d].report = raw[d].report
      BY <1>0, <1>G, <2>2, <3>1 DEF Dated
    <3> QED
      BY <1>G, <2>2, <3>1, <3>2 DEF Dated, DateOf
  <2> QED
    BY <1>G, <2>1, <2>2 DEF Moves
<1>1. StampOK'
  <2> SUFFICES ASSUME NEW d \in DatasetIds, Dated(raw'[d])
               PROVE  DateOf(raw'[d]) \in 0..stamp /\ (Rewriting(d)' => DateOf(raw'[d]) # stamp)
    BY DEF StampOK
  <2> QED
    BY <1>G DEF StampOK
<1>2. Taken' = Taken
  BY DEF Taken
<1>3. ASSUME NEW p \in Taken
      PROVE  /\ p[1] \in DatasetIds /\ Whole(p[2].info) /\ (Dated(p[2]) => Unchanged(p[1], p[2])')
             /\ Stands(p[1], p[2])' => Stands(p[1], p[2])
  <2>1. p[1] \in DatasetIds /\ Whole(p[2].info) /\ (Dated(p[2]) => Unchanged(p[1], p[2]))
    BY DEF TablesInv, TakenOK
  <2> SUFFICES ASSUME Dated(p[2])
               PROVE  Unchanged(p[1], p[2])' /\ (Stands(p[1], p[2])' => Stands(p[1], p[2]))
    BY <2>1 DEF Stands
  <2>2. /\ DateOf(p[2]) \in 0..stamp /\ (Rewriting(p[1]) => DateOf(p[2]) # stamp)
        /\ SameSign(raw[p[1]], p[2]) => raw[p[1]].coco \in {p[2].coco, AbsentDir.coco}
        /\ Rewriting(p[1])' => Rewriting(p[1])
    BY <2>1 DEF Unchanged
  <2>3. ASSUME SameSign(raw'[p[1]], p[2])
        PROVE  raw'[p[1]].coco \in {raw[p[1]].coco, AbsentDir.coco} /\ SameSign(raw[p[1]], p[2])
    <3>1. Dated(raw'[p[1]]) /\ DateOf(raw'[p[1]]) = DateOf(p[2])
      BY <2>3 DEF SameSign, Dated, DateOf
    <3> QED
      BY <1>G, <2>1, <2>2, <2>3, <3>1 DEF SameSign
  <2>4. Unchanged(p[1], p[2])'
    BY <2>2, <2>3 DEF Unchanged
  <2> QED
    BY <2>2, <2>3, <2>4 DEF Stands
<1>4. TakenOK'
  BY <1>2, <1>3 DEF TakenOK
<1>5. \A r \in db.datasets : Stands(r.id, r.hash)' => Stands(r.id, r.hash)
  <2> SUFFICES ASSUME NEW r \in db.datasets PROVE Stands(r.id, r.hash)' => Stands(r.id, r.hash)
    OBVIOUS
  <2>1. <<r.id, r.hash>> \in Taken
    BY DEF Taken
  <2> QED
    BY <1>3, <2>1
<1>6. KeysOK' /\ RegisteringOK'
  BY DEF TablesInv, KeysOK, RegisteringOK
<1>7. ReadSoFar'
  BY <1>5 DEF TablesInv, ReadSoFar, In, Waiting
<1>8. KeptOK'
  BY <1>5 DEF TablesInv, KeptOK, In
<1> QED
  BY <1>1, <1>4, <1>6, <1>7, <1>8 DEF TablesInv

LEMMA Unmoved ==
  ASSUME StampOK, TablesInv, UNCHANGED <<raw, imp, stamp, db, proc, kept>>
  PROVE  StampOK' /\ TablesInv'
<1>1. \A d : Rewriting(d)' <=> Rewriting(d)
  BY DEF Rewriting, SignItem, Job, Ahead
<1>2. StampOK'
  BY <1>1 DEF StampOK, OutSigned, Job
<1>3. TakenOK'
  BY <1>1 DEF TablesInv, TakenOK, Taken, Unchanged
<1>4. KeysOK' /\ RegisteringOK' /\ ReadSoFar' /\ KeptOK'
  BY DEF TablesInv, KeysOK, RegisteringOK, ReadSoFar, KeptOK, In, Waiting, Stands
<1> QED
  BY <1>2, <1>3, <1>4 DEF TablesInv

\* Steps of a pipeline that are not at the registration of its dataset.
LEMMA NotRegistering ==
  ASSUME StampOK, TablesInv, UNCHANGED <<raw, imp, stamp, kept>>,
         db'.datasets = db.datasets, db'.images = db.images, db'.anns = db.anns, DOMAIN db' = DOMAIN db,
         proc'.pc \notin Registering
  PROVE  StampOK' /\ TablesInv'
<1>1. \A d : Rewriting(d)' <=> Rewriting(d)
  BY DEF Rewriting, SignItem, Job, Ahead
<1>2. StampOK'
  BY <1>1 DEF StampOK, OutSigned, Job
<1>3. proc'.pc \notin {"reg_open", "reg_upsert", "reg_rows"}
  BY DEF Registering
<1>4. TakenOK'
  <2>1. Taken' \subseteq Taken
    BY <1>3 DEF Taken
  <2> QED
    BY <1>1, <2>1 DEF TablesInv, TakenOK, Unchanged
<1>5. RegisteringOK' /\ ReadSoFar'
  BY <1>3 DEF RegisteringOK, ReadSoFar
<1>6. KeysOK' /\ KeptOK'
  BY DEF TablesInv, KeysOK, KeptOK, In, Stands
<1> QED
  BY <1>2, <1>4, <1>5, <1>6 DEF TablesInv

\* The items that stand for a signature.
LEMMA InfoItem ==
  ASSUME NEW x \in TodoItems
  PROVE  (x.what = "info" <=> x = DocItem("info")) /\ (x.what = "report" <=> x = DocItem("report"))
<1>1. DocItem("info").what = "info" /\ DocItem("report").what = "report"
  BY DEF DocItem, File
<1>2. CASE x \in [what : {"image"}, split : Splits, frame : Frames]
  BY <1>1, <1>2
<1>3. CASE x \in [what : {"coco"}, split : Splits, frame : {0}]
  BY <1>1, <1>3
<1>4. CASE x \in [what : {"probe", "classes"} \cup Late, split : {"train"}, frame : {0}]
  BY <1>1, <1>4 DEF DocItem, File, Late
<1> QED
  BY <1>2, <1>3, <1>4 DEF TodoItems

\* A command begins: it has a number that no sentinel carries.
LEMMA StartsAnew ==
  ASSUME DatasetInv, StampOK, TablesInv, ImportStart, UNCHANGED registryVars
  PROVE  StampOK' /\ TablesInv'
<1>1. /\ stamp \in Nat /\ stamp' = stamp + 1 /\ raw' = raw /\ UNCHANGED <<db, proc, kept>>
      /\ imp'.pc # "write"
  <2>1. stamp \in Nat
    BY DEF DatasetInv, DatasetTypeOK
  <2>2. imp'.pc # "write"
    BY DEF ImportStart, Ended
  <2> QED
    BY <2>1, <2>2 DEF ImportStart, registryVars
<1>2. \A n \in 0..stamp : n \in 0..stamp' /\ n # stamp'
  BY <1>1
<1>3. StampOK'
  BY <1>1, <1>2 DEF StampOK
<1>4. TakenOK'
  BY <1>1, <1>2 DEF TablesInv, TakenOK, Taken, Unchanged
<1>5. KeysOK' /\ RegisteringOK' /\ ReadSoFar' /\ KeptOK'
  BY <1>1 DEF TablesInv, KeysOK, RegisteringOK, ReadSoFar, KeptOK, In, Waiting, Stands
<1> QED
  BY <1>3, <1>4, <1>5 DEF TablesInv

\* rmtree of a dataset goes part by part.
Shrinks(d) ==
  /\ raw'[d].coco \in {raw[d].coco, AbsentDir.coco}
  /\ raw'[d].info \in {raw[d].info, Missing} /\ raw'[d].classes \in {raw[d].classes, Missing}
  /\ raw'[d].report \in {raw[d].report, Missing}

LEMMA ClearsMoves ==
  ASSUME DatasetInv, NEW id \in DatasetIds,
         (\E part \in Parts : Clears(id, part)) \/ RmtreeDone(id)
  PROVE  (\A d \in DatasetIds : Shrinks(d)) /\ \A d \in DatasetIds : d # id => raw'[d] = raw[d]
<1>1. DOMAIN raw = DatasetIds /\ \A d \in DatasetIds : DirectoryOK(raw[d])
  BY DEF DatasetInv, DatasetTypeOK
<1>2. ASSUME NEW part \in Parts, Clears(id, part)
      PROVE  (\A d \in DatasetIds : Shrinks(d)) /\ \A d \in DatasetIds : d # id => raw'[d] = raw[d]
  <2> DEFINE e == Cleared(raw[id], part)
  <2>1. /\ raw' = [raw EXCEPT ![id] = e] /\ e.coco \in {raw[id].coco, AbsentDir.coco}
        /\ e.info \in {raw[id].info, Missing} /\ e.classes \in {raw[id].classes, Missing}
        /\ e.report \in {raw[id].report, Missing}
    BY <1>1, <1>2, PartCleared DEF Clears
  <2> HIDE DEF e
  <2> QED
    BY <1>1, <2>1 DEF Shrinks
<1>3. CASE RmtreeDone(id)
  <2>1. raw' = [raw EXCEPT ![id] = AbsentDir]
    BY <1>3 DEF RmtreeDone
  <2>2. AbsentDir.info = Missing /\ AbsentDir.classes = Missing /\ AbsentDir.report = Missing
    BY AbsentOK DEF AbsentDir
  <2> QED
    BY <1>1, <2>1, <2>2 DEF Shrinks
<1> QED
  BY <1>2, <1>3

\* A dataset goes: the old target, or a source that was to be dropped.
LEMMA RemovalKeeps ==
  ASSUME DatasetInv, StampOK, TablesInv, ClearTarget \/ DropRaw, UNCHANGED registryVars
  PROVE  StampOK' /\ TablesInv'
<1>1. stamp \in Nat /\ stamp' = stamp /\ UNCHANGED <<db, proc, kept>>
  BY DEF ClearTarget, DropRaw, registryVars, DatasetInv, DatasetTypeOK
<1>2. CASE ClearTarget
  <2>1. imp.pc = "clear" /\ Job.to \in DatasetIds /\ imp = [pc |-> "clear", job |-> imp.job]
    BY <1>2, JobFacts DEF ClearTarget, DatasetInv, ImportShape
  <2>2. imp'.pc \in {"clear", "read"} /\ Job' = Job
    BY <1>2, <2>1 DEF ClearTarget, Job
  <2>3. \A d \in DatasetIds : Moves(d)
    BY <1>2, <2>1, ClearsMoves DEF ClearTarget, Moves, Shrinks
  <2>4. \A d : Rewriting(d)' => Rewriting(d)
    BY <2>1, <2>2 DEF Rewriting
  <2> QED
    BY <1>1, <2>2, <2>3, <2>4, Moved
<1>3. CASE DropRaw
  <2>1. imp.pc = "drop" /\ Job.from \in DatasetIds
    BY <1>3, JobFacts DEF DropRaw
  <2>2. imp'.pc \in {"drop", "idle"}
    BY <1>3, <2>1 DEF DropRaw, Ended
  <2>3. \A d \in DatasetIds : Moves(d)
    BY <1>3, <2>1, ClearsMoves DEF DropRaw, Moves, Shrinks
  <2>4. \A d : ~Rewriting(d)'
    BY <2>2 DEF Rewriting
  <2> QED
    BY <1>1, <2>2, <2>3, <2>4, Moved
<1> QED
  BY <1>2, <1>3

LEMMA MigratedInfo ==
  ASSUME NEW d
  PROVE  LET out == MigrateOut(d) IN Whole(out.info) /\ out.info.doc.by = "migrate" /\ out.report = Doc(stamp)
<1> DEFINE new(sp) == RemapSplit(d.coco[sp].doc, d.classes.doc)
           out == MigrateOut(d)
           coco == [sp \in Splits |-> IF sp \in Readable(d) THEN Doc([q \in Readable(d) |-> new(q)][sp]) ELSE Missing]
           splits == [sp \in Readable(d) |-> Counts([q \in Readable(d) |-> new(q)][sp])]
           date == IF Whole(d.info) THEN d.info.doc.stamp ELSE NoStamp
           images == (IF "train" \in Readable(d) THEN Len([sp \in Readable(d) |-> new(sp)]["train"].images) ELSE 0)
                      + (IF "val" \in Readable(d) THEN Len([sp \in Readable(d) |-> new(sp)]["val"].images) ELSE 0)
                      + (IF "test" \in Readable(d) THEN Len([sp \in Readable(d) |-> new(sp)]["test"].images) ELSE 0)
<1>1. out = [AbsentDir EXCEPT !.coco = coco, !.classes = Doc(CANONICAL_CATEGORIES), !.manifest = d.manifest,
                              !.info = Doc([splits |-> splits, images |-> images, by |-> "migrate", stamp |-> date]),
                              !.report = Doc(stamp)]
  BY Zenon DEF MigrateOut
<1> HIDE DEF out, coco, splits, images, date
<1>2. /\ out.info = Doc([splits |-> splits, images |-> images, by |-> "migrate", stamp |-> date])
      /\ out.report = Doc(stamp)
  BY <1>1 DEF AbsentDir
<1> QED
  BY <1>2 DEF Doc, Whole, out

\* A command has read its source: what it is to write has its number.
LEMMA ReadKeeps ==
  ASSUME DatasetInv, StampOK, TablesInv, NormalizeRead \/ MigrateRead, UNCHANGED registryVars
  PROVE  StampOK' /\ TablesInv'
<1>1. /\ stamp \in Nat /\ stamp' = stamp /\ UNCHANGED <<db, proc, kept>> /\ imp.pc = "read" /\ Job.to \in DatasetIds
      /\ DOMAIN raw = DatasetIds /\ \A d \in DatasetIds : DirectoryOK(raw[d])
  BY JobFacts DEF NormalizeRead, MigrateRead, registryVars, DatasetInv, DatasetTypeOK
<1>2. \A d \in DatasetIds : raw'[d].coco = raw[d].coco /\ raw'[d].info = raw[d].info /\ raw'[d].report = raw[d].report
  <2>1. raw' = raw \/ raw' = [raw EXCEPT ![Job.to].there = TRUE]
    BY Zenon DEF NormalizeRead, MigrateRead
  <2>2. CASE raw' = [raw EXCEPT ![Job.to].there = TRUE]
    <3> DEFINE d0 == raw[Job.to]
               e == [d0 EXCEPT !.there = TRUE]
    <3>1. d0 = [there |-> d0.there, coco |-> d0.coco, images |-> d0.images, cut |-> d0.cut,
                classes |-> d0.classes, manifest |-> d0.manifest, info |-> d0.info, report |-> d0.report]
      BY <1>1 DEF DirectoryOK
    <3>2. raw' = [raw EXCEPT ![Job.to] = e] /\ e.coco = d0.coco /\ e.info = d0.info /\ e.report = d0.report
      BY <2>2, <3>1
    <3> HIDE DEF e
    <3> QED
      BY <1>1, <3>2
  <2> QED
    BY <2>1, <2>2
<1>3. \/ imp'.pc = "idle"
      \/ imp'.pc = "write" /\ imp'.job = Job /\ OutSigned'
  <2>1. CASE NormalizeRead
    <3> DEFINE coco == staging[Job.from].coco.doc
               out == NormalizeOut(Job, coco)
    <3>1. \/ Ended("failed")
          \/ imp' = [pc |-> "write", open |-> FALSE, job |-> Job, out |-> out, todo |-> NormalizeTodo(Job, coco)]
      BY <2>1, Zenon DEF NormalizeRead
    <3>2. Whole(out.info) /\ out.info.doc.by = "normalize" /\ out.info.doc.stamp = stamp
      BY DEF NormalizeOut, AbsentDir, Doc, Whole
    <3>3. Job.op = "normalize"
      BY <2>1 DEF NormalizeRead
    <3> HIDE DEF out, coco
    <3> QED
      BY <1>1, <3>1, <3>2, <3>3 DEF Ended, OutSigned, Job
  <2>2. CASE MigrateRead
    <3> DEFINE d == raw[Job.from]
               out == MigrateOut(d)
    <3>1. \/ \E x : Ended(x)
          \/ imp' = [pc |-> "write", open |-> FALSE, job |-> Job, out |-> out, todo |-> MigrateTodo(d)]
      BY <2>2, Zenon DEF MigrateRead
    <3>2. Whole(out.info) /\ out.info.doc.by = "migrate" /\ out.report = Doc(stamp)
      BY MigratedInfo
    <3>3. Job.op = "migrate" /\ stamp' = stamp
      BY <1>1, <2>2 DEF MigrateRead
    <3> HIDE DEF out, d
    <3> QED
      BY <3>1, <3>2, <3>3 DEF Ended, OutSigned, Job, Doc
  <2> QED
    BY <2>1, <2>2
<1>4. \A d \in DatasetIds : Moves(d) /\ (Rewriting(d)' => Rewriting(d))
  BY <1>1, <1>2, <1>3 DEF Moves, Rewriting, Job
<1> QED
  BY <1>1, <1>3, <1>4, Moved

\* The sentinel is the last of the files that the registry reads.
LEMMA WriteDocKeeps ==
  ASSUME DatasetInv, StampOK, TablesInv, ImportWrite, WriteDoc, UNCHANGED registryVars
  PROVE  StampOK' /\ TablesInv'
<1> DEFINE to == Job.to
           d0 == raw[to]
           file == IF imp.open THEN DocAt(imp.out) ELSE Torn
           e == WithDoc(d0, file)
<1>0. /\ imp.pc = "write" /\ imp.todo # <<>> /\ Item.what \in {"coco", "manifest", "classes", "info", "report"}
      /\ Item \in TodoItems /\ Item \in Ahead /\ to \in DatasetIds /\ imp.open \in BOOLEAN
      /\ DOMAIN raw = DatasetIds /\ (\A d \in DatasetIds : DirectoryOK(raw[d])) /\ Ahead \subseteq TodoItems
      /\ Tail(imp.todo) \in Seq(TodoItems)
      /\ stamp \in Nat /\ stamp' = stamp /\ UNCHANGED <<db, proc, kept>>
      /\ OutSigned /\ Job.op \in {"normalize", "migrate"}
  BY Writing DEF ImportWrite, WriteDoc, registryVars, StampOK, DatasetInv, DatasetTypeOK
<1>1. raw' = [raw EXCEPT ![to] = e] /\ IF imp.open THEN NextItem ELSE Opened
  BY <1>0 DEF WriteDoc
<1>2. /\ imp'.pc = "write" /\ imp'.out = imp.out /\ Job'.to = to /\ Job'.op = Job.op /\ Ahead' \subseteq Ahead
      /\ (~imp.open => Ahead' = Ahead) /\ (imp.open => Ahead' = Range(Tail(imp.todo)))
  <2>1. CASE imp.open
    BY <1>0, <1>1, <2>1, NextFacts, GoesOnFacts
  <2>2. CASE ~imp.open
    BY <1>0, <1>1, <2>2, OpenedFacts
  <2> QED
    BY <2>1, <2>2
<1>3. /\ e.coco = IF Item.what = "coco" THEN [d0.coco EXCEPT ![Item.split] = file] ELSE d0.coco
      /\ e.info = IF Item.what = "info" THEN file ELSE d0.info
      /\ e.report = IF Item.what = "report" THEN file ELSE d0.report
  <2> HIDE DEF file
  <2> QED
    BY <1>0, DocWritten
<1>4. /\ Item.what = "info" => file = IF imp.open THEN imp.out.info ELSE Torn
      /\ Item.what = "report" => file = IF imp.open THEN imp.out.report ELSE Torn
  BY DEF DocAt
<1>5. Item.what = "coco" => ~Whole(d0.info)
  <2>1. Sentinel(Target) => \A x \in Ahead : x.what \in {"manifest", "info", "report"}
    BY <1>0 DEF DatasetInv, InOrderSoFar, After
  <2> QED
    BY <1>0, <2>1 DEF Sentinel, IsFile, Whole, Target
<1>R. ~Whole(d0.report) /\ (Whole(d0.info) => d0.info = imp.out.info)
  BY <1>0 DEF DatasetInv, InOrderSoFar, Target
<1>T. ~Whole(Torn)
  BY DEF Torn, Whole
<1> HIDE DEF file, e
<1>6. /\ raw'[to] = e /\ \A d \in DatasetIds : d # to => raw'[d] = raw[d]
  BY <1>0, <1>1
<1>7. SignItem' = SignItem /\ \A d : Rewriting(d)' => Rewriting(d)
  BY <1>0, <1>2 DEF Rewriting, SignItem
<1>8. Moves(to)
  <2>0. ASSUME imp.open, Item = SignItem, Item.what = "info" \/ Item.what = "report"
        PROVE  Rewriting(to) /\ ~Rewriting(to)'
    <3>1. Rewriting(to)
      BY <1>0, <2>0 DEF Rewriting
    <3>2. \A x \in Ahead' : x.what # Item.what
      BY <1>0, <1>2, <2>0, Writing DEF After
    <3> QED
      BY <1>2, <1>7, <2>0, <3>1, <3>2 DEF Rewriting
  <2>1. CASE Item.what \in {"manifest", "classes"}
    BY <1>3, <1>6, <2>1 DEF Moves
  <2>2. CASE Item.what = "coco"
    BY <1>3, <1>5, <1>6, <2>2 DEF Moves, Dated
  <2>3. CASE Item.what = "info" /\ ~imp.open
    BY <1>3, <1>4, <1>6, <1>T, <2>3 DEF Moves, Dated
  <2>4. CASE Item.what = "info" /\ imp.open
    <3>1. e.info = imp.out.info /\ e.report = d0.report
      BY <1>3, <1>4, <2>4
    <3>2. CASE Job.op = "migrate"
      BY <1>0, <1>6, <1>R, <3>1, <3>2 DEF Moves, Dated, OutSigned
    <3>3. CASE Job.op = "normalize"
      <4>1. Item = SignItem
        BY <1>0, <2>4, <3>3, InfoItem DEF SignItem
      <4>2. DateOf(e) = stamp
        BY <1>0, <3>1, <3>3 DEF DateOf, OutSigned
      <4> QED
        BY <1>6, <2>0, <2>4, <4>1, <4>2 DEF Moves
    <3> QED
      BY <1>0, <3>2, <3>3
  <2>5. CASE Item.what = "report"
    <3>1. e.info = d0.info /\ e.coco = d0.coco
      BY <1>3, <2>5
    <3>2. CASE ~Whole(d0.info)
      BY <1>6, <3>1, <3>2 DEF Moves, Dated
    <3>3. CASE Whole(d0.info) /\ Job.op = "normalize"
      BY <1>0, <1>6, <1>R, <3>1, <3>3 DEF Moves, OutSigned
    <3>4. CASE Whole(d0.info) /\ Job.op = "migrate"
      <4>1. e.info.doc.by = "migrate"
        BY <1>0, <1>R, <3>1, <3>4 DEF OutSigned
      <4>2. CASE ~imp.open
        BY <1>3, <1>4, <1>6, <1>T, <2>5, <4>1, <4>2 DEF Moves, Dated
      <4>3. CASE imp.open
        <5>1. Item = SignItem
          BY <1>0, <2>5, <3>4, InfoItem DEF SignItem
        <5>2. DateOf(e) = stamp
          BY <1>0, <1>3, <1>4, <2>5, <3>4, <4>1, <4>3 DEF DateOf, OutSigned, Doc
        <5> QED
          BY <1>6, <2>0, <2>5, <4>3, <5>1, <5>2 DEF Moves
      <4> QED
        BY <4>2, <4>3
    <3> QED
      BY <1>0, <3>2, <3>3, <3>4
  <2> QED
    BY <1>0, <2>1, <2>2, <2>3, <2>4, <2>5
<1>9. ASSUME NEW d \in DatasetIds PROVE Moves(d)
  <2>1. CASE d # to
    BY <1>6, <2>1 DEF Moves
  <2> QED
    BY <1>8, <2>1
<1>10. OutSigned'
  BY <1>0, <1>2 DEF OutSigned
<1> QED
  BY <1>0, <1>7, <1>9, <1>10, Moved

\* The images are none of what the registry reads.
LEMMA ImagePlacedBeside ==
  ASSUME NEW d, DirectoryOK(d), NEW begun \in BOOLEAN
  PROVE  LET e == WithImage(d, begun) IN e.coco = d.coco /\ e.info = d.info /\ e.classes = d.classes /\ e.report = d.report
<1> DEFINE e == WithImage(d, begun)
           images == e.images
           cut == e.cut
<1>1. e = [there |-> d.there, coco |-> d.coco, images |-> images, cut |-> cut,
           classes |-> d.classes, manifest |-> d.manifest, info |-> d.info, report |-> d.report]
  BY ImagePlaced
<1> HIDE DEF e, images, cut
<1>2. e.coco = d.coco /\ e.info = d.info /\ e.classes = d.classes /\ e.report = d.report
  BY <1>1
<1> QED
  BY <1>2 DEF e

SameDocs(d, e) == e.coco = d.coco /\ e.info = d.info /\ e.classes = d.classes /\ e.report = d.report

LEMMA PlaceImageBeside ==
  ASSUME DatasetInv, ImportWrite, Probe \/ PlaceImage \/ Unreadable
  PROVE  /\ \A d \in DatasetIds : SameDocs(raw[d], raw'[d])
         /\ imp'.pc = "idle" \/ GoesOn \/ (Opened /\ Item.what = "image")
<1>0. /\ imp.pc = "write" /\ imp.todo # <<>> /\ Job.to \in DatasetIds /\ imp.open \in BOOLEAN
      /\ DOMAIN raw = DatasetIds /\ (\A d \in DatasetIds : DirectoryOK(raw[d]))
      /\ (Job.op = "migrate" => Job.from \in DatasetIds /\ Job.from # Job.to)
  BY Writing DEF ImportWrite, DatasetInv, DatasetTypeOK
<1>1. \A d \in DatasetIds : SameDocs(raw[d], raw'[d])
  <2>1. ASSUME NEW begun \in BOOLEAN, NEW raw1, DOMAIN raw1 = DatasetIds,
               \A d \in DatasetIds : SameDocs(raw[d], raw1[d]),
               raw' = [raw1 EXCEPT ![Job.to] = WithImage(raw[Job.to], begun)]
        PROVE  \A d \in DatasetIds : SameDocs(raw[d], raw'[d])
    <3> DEFINE e == WithImage(raw[Job.to], begun)
    <3>1. SameDocs(raw[Job.to], e)
      BY <1>0, ImagePlacedBeside DEF SameDocs
    <3>2. raw' = [raw1 EXCEPT ![Job.to] = e]
      BY <2>1
    <3> HIDE DEF e
    <3> QED
      BY <1>0, <2>1, <3>1, <3>2 DEF SameDocs
  <2>2. CASE raw' = raw
    BY <2>2 DEF SameDocs
  <2>3. CASE \E begun \in BOOLEAN : raw' = [raw EXCEPT ![Job.to] = WithImage(@, begun)]
    <3>1. PICK begun \in BOOLEAN : raw' = [raw EXCEPT ![Job.to] = WithImage(raw[Job.to], begun)]
      BY <2>3
    <3>2. DOMAIN raw = DatasetIds /\ \A d \in DatasetIds : SameDocs(raw[d], raw[d])
      BY <1>0 DEF SameDocs
    <3> QED
      BY ONLY <2>1, <3>1, <3>2
  <2>4. CASE /\ Job.op = "migrate"
             /\ raw' = [raw EXCEPT ![Job.from].images[Item.split] = @ \ {Item.frame}, ![Job.to] = WithImage(@, FALSE)]
    <3> DEFINE raw1 == [raw EXCEPT ![Job.from].images[Item.split] = @ \ {Item.frame}]
    <3>1. /\ DOMAIN raw1 = DatasetIds
          /\ \A d \in DatasetIds : SameDocs(raw[d], raw1[d])
      <4> DEFINE d0 == raw[Job.from]
                 e == [d0 EXCEPT !.images[Item.split] = @ \ {Item.frame}]
      <4>1. d0 = [there |-> d0.there, coco |-> d0.coco, images |-> d0.images, cut |-> d0.cut,
                  classes |-> d0.classes, manifest |-> d0.manifest, info |-> d0.info, report |-> d0.report]
        BY <1>0, <2>4 DEF DirectoryOK
      <4>2. raw1 = [raw EXCEPT ![Job.from] = e] /\ SameDocs(d0, e)
        BY <4>1 DEF SameDocs
      <4> HIDE DEF e, raw1
      <4> QED
        BY <1>0, <2>4, <4>2 DEF SameDocs
    <3>2. raw' = [raw1 EXCEPT ![Job.to] = WithImage(raw[Job.to], FALSE)]
      BY <2>4, Zenon
    <3> HIDE DEF raw1
    <3> QED
      BY <2>1, <3>1, <3>2
  <2>5. \/ raw' = raw
        \/ \E begun \in BOOLEAN : raw' = [raw EXCEPT ![Job.to] = WithImage(@, begun)]
        \/ /\ Job.op = "migrate"
           /\ raw' = [raw EXCEPT ![Job.from].images[Item.split] = @ \ {Item.frame}, ![Job.to] = WithImage(@, FALSE)]
    <3>1. Job.op \in {"normalize", "migrate"} /\ (~imp.open) \in BOOLEAN
      BY <1>0, Writing
    <3>2. CASE CopyImage
      BY <3>1, <3>2, Zenon DEF CopyImage
    <3>3. CASE MoveImage
      BY <3>1, <3>3 DEF MoveImage
    <3>4. CASE ~CopyImage /\ ~MoveImage
      BY <3>4 DEF Probe, Unreadable, PlaceImage, SkipMissing, CopyFails, LinkImage
    <3> QED
      BY <3>2, <3>3, <3>4
  <2> QED
    BY <2>2, <2>3, <2>4, <2>5
<1>2. imp'.pc = "idle" \/ GoesOn \/ (Opened /\ Item.what = "image")
  <2>1. Ended("failed") \/ GoesOn \/ (Opened /\ Item.what = "image")
    BY <1>0, NextFacts DEF Probe, Unreadable, PlaceImage, SkipMissing, CopyFails, CopyImage, MoveImage, LinkImage
  <2> QED
    BY <2>1 DEF Ended
<1> QED
  BY <1>1, <1>2

LEMMA PlaceImageKeeps ==
  ASSUME DatasetInv, StampOK, TablesInv, ImportWrite, Probe \/ PlaceImage \/ Unreadable, UNCHANGED registryVars
  PROVE  StampOK' /\ TablesInv'
<1>0. /\ imp.pc = "write" /\ imp.todo # <<>>
      /\ stamp \in Nat /\ stamp' = stamp /\ UNCHANGED <<db, proc, kept>>
      /\ OutSigned
  BY DEF ImportWrite, registryVars, StampOK, DatasetInv, DatasetTypeOK
<1>1. \A d \in DatasetIds : SameDocs(raw[d], raw'[d])
  BY PlaceImageBeside
<1>2. imp'.pc = "idle" \/ GoesOn \/ (Opened /\ Item.what = "image")
  BY PlaceImageBeside
<1>3. /\ imp'.pc = "write" => OutSigned'
      /\ \A d : Rewriting(d)' => Rewriting(d)
  <2>1. CASE imp'.pc = "idle"
    BY <2>1 DEF Rewriting
  <2>2. CASE GoesOn
    BY <1>0, <2>2, GoesOnFacts DEF Rewriting, SignItem, OutSigned
  <2>3. CASE Opened /\ Item.what = "image"
    BY <1>0, <2>3, OpenedFacts DEF Rewriting, SignItem, OutSigned
  <2> QED
    BY <1>2, <2>1, <2>2, <2>3
<1>4. \A d \in DatasetIds : Moves(d)
  BY <1>1 DEF Moves, SameDocs
<1> QED
  BY <1>0, <1>3, <1>4, Moved

LEMMA ImportKeepsTables == DatasetInv /\ StampOK /\ TablesInv /\ Import => StampOK' /\ TablesInv'
<1> SUFFICES ASSUME DatasetInv, StampOK, TablesInv, Import PROVE StampOK' /\ TablesInv'
  OBVIOUS
<1>0. UNCHANGED registryVars /\ UNCHANGED <<db, proc, kept>>
  BY DEF Import, registryVars
<1>1. CASE ImportStart
  BY <1>0, <1>1, StartsAnew
<1>2. CASE ClearTarget \/ DropRaw
  BY <1>0, <1>2, RemovalKeeps
<1>3. CASE NormalizeRead \/ MigrateRead
  BY <1>0, <1>3, ReadKeeps
<1>4. CASE ImportWrite
  BY <1>0, <1>4, WriteDocKeeps, PlaceImageKeeps DEF ImportWrite
<1>5. CASE ImportDone \/ DropStaging \/ ImportCrash
  <2>1. stamp \in Nat /\ stamp' = stamp /\ raw' = raw
    BY <1>5 DEF ImportDone, DropStaging, ImportCrash, DatasetInv, DatasetTypeOK
  <2>2. imp' = imp \/ imp'.pc \in {"idle", "drop"}
    <3>1. CASE ImportDone
      <4>1. imp = [pc |-> "write", open |-> imp.open, job |-> imp.job, out |-> imp.out, todo |-> imp.todo]
        BY <3>1 DEF ImportDone, DatasetInv, ImportShape
      <4> QED
        BY <3>1, <4>1 DEF ImportDone, Ended
    <3>2. CASE DropStaging \/ ImportCrash
      BY <3>2 DEF DropStaging, ImportCrash, Ended
    <3> QED
      BY <1>5, <3>1, <3>2
  <2>3. CASE imp' = imp
    BY <1>0, <2>1, <2>3, Unmoved
  <2>4. CASE imp'.pc \in {"idle", "drop"}
    <3>1. \A d \in DatasetIds : Moves(d) /\ ~Rewriting(d)'
      BY <2>1, <2>4 DEF Moves, Rewriting
    <3> QED
      BY <1>0, <2>1, <2>4, <3>1, Moved
  <2> QED
    BY <2>2, <2>3, <2>4
<1> QED
  BY <1>1, <1>2, <1>3, <1>4, <1>5 DEF Import, ImportSteps

(***************************************************************************)
(* A registration, step by step                                            *)
(***************************************************************************)
\* The rows of a split: its images, then its annotations.
TwoKinds(rows, d, images, anns) ==
  /\ rows \in Seq(Range(rows))
  /\ \A row \in Range(rows) : row.table \in {"images", "anns"} /\ row.dataset = d
  /\ {row \in Range(rows) : row.table = "images"} = Range(images)
  /\ {row \in Range(rows) : row.table = "anns"} = Range(anns)

LEMMA RowsOfSplit ==
  ASSUME NEW d, NEW sp, NEW coco, IsCoco(coco),
         NEW rows, rows = ImageRows(d, sp, coco) \o AnnotationRows(d, sp, coco)
  PROVE  TwoKinds(rows, d, ImageRows(d, sp, coco), AnnotationRows(d, sp, coco))
<1> DEFINE u == ImageRows(d, sp, coco)
           v == AnnotationRows(d, sp, coco)
           S == Range(u) \cup Range(v)
<1>0. rows = u \o v
  OBVIOUS
<1>1. /\ DOMAIN coco.images = 1..Len(coco.images) /\ Len(coco.images) \in Nat
      /\ DOMAIN coco.anns = 1..Len(coco.anns) /\ Len(coco.anns) \in Nat
  <2>1. coco.images \in Seq(ImageRecords) /\ coco.anns \in Seq(AnnRecords)
    BY DEF IsCoco
  <2> QED
    BY <2>1, LenProperties
<1>2. /\ u = [i \in 1..Len(coco.images) |-> u[i]]
      /\ \A i \in 1..Len(coco.images) : u[i].table = "images" /\ u[i].dataset = d
  BY <1>1 DEF ImageRows
<1>3. /\ v = [i \in 1..Len(coco.anns) |-> v[i]]
      /\ \A i \in 1..Len(coco.anns) : v[i].table = "anns" /\ v[i].dataset = d
  BY <1>1 DEF AnnotationRows
<1> HIDE DEF u, v
<1>4. u \in Seq(S) /\ v \in Seq(S)
  <2>1. u \in [1..Len(coco.images) -> S]
    BY <1>2 DEF Range
  <2>2. v \in [1..Len(coco.anns) -> S]
    BY <1>3 DEF Range
  <2> HIDE DEF S
  <2> QED
    BY <1>1, <2>1, <2>2, SeqDef
<1>5. \A row \in Range(u) : row.table = "images" /\ row.dataset = d
  BY <1>2 DEF Range
<1>6. \A row \in Range(v) : row.table = "anns" /\ row.dataset = d
  BY <1>3 DEF Range
<1>7. rows \in Seq(S) /\ Range(rows) = S
  <2> HIDE DEF S
  <2>1. rows \in Seq(S) /\ Range(rows) = Range(u) \cup Range(v)
    BY <1>0, <1>4, JoinedRange
  <2> QED
    BY <2>1 DEF S
<1>8. {row \in S : row.table = "images"} = Range(u) /\ {row \in S : row.table = "anns"} = Range(v)
  BY <1>5, <1>6
<1>9. \A row \in S : row.table \in {"images", "anns"} /\ row.dataset = d
  BY <1>5, <1>6
<1> HIDE DEF S
<1>10. TwoKinds(rows, d, u, v)
  BY <1>7, <1>8, <1>9 DEF TwoKinds
<1> QED
  BY <1>10, Zenon DEF u, v

\* The rows of the splits that have been read, one split more.
LEMMA OneSplitMore ==
  ASSUME NEW d, NEW h, NEW read \in SUBSET Splits, NEW sp \in Splits
  PROVE  LET more == RowsFrom(d, h, read \cup {sp}) IN
         /\ sp \in Present(h) =>
              /\ more.images = RowsFrom(d, h, read).images \cup Range(ImageRows(d, sp, h.coco[sp].doc))
              /\ more.anns = RowsFrom(d, h, read).anns \cup Range(AnnotationRows(d, sp, h.coco[sp].doc))
         /\ sp \notin Present(h) => more = RowsFrom(d, h, read)
<1> DEFINE im(q) == Range(ImageRows(d, q, h.coco[q].doc))
           an(q) == Range(AnnotationRows(d, q, h.coco[q].doc))
<1>1. \A s : /\ RowsFrom(d, h, s).images = UNION {im(q) : q \in s \cap Present(h)}
             /\ RowsFrom(d, h, s).anns = UNION {an(q) : q \in s \cap Present(h)}
             /\ RowsFrom(d, h, s) = [images |-> RowsFrom(d, h, s).images, anns |-> RowsFrom(d, h, s).anns]
  BY DEF RowsFrom
<1> HIDE DEF im, an
<1>2. CASE sp \in Present(h)
  <2>1. (read \cup {sp}) \cap Present(h) = (read \cap Present(h)) \cup {sp}
    BY <1>2
  <2>2. /\ UNION {im(q) : q \in (read \cap Present(h)) \cup {sp}} = (UNION {im(q) : q \in read \cap Present(h)}) \cup im(sp)
        /\ UNION {an(q) : q \in (read \cap Present(h)) \cup {sp}} = (UNION {an(q) : q \in read \cap Present(h)}) \cup an(sp)
    OBVIOUS
  <2> QED
    BY <1>1, <1>2, <2>1, <2>2, Zenon DEF im, an
<1>3. CASE sp \notin Present(h)
  <2>1. (read \cup {sp}) \cap Present(h) = read \cap Present(h)
    BY <1>3
  <2> QED
    BY <1>3, <2>1 DEF RowsFrom
<1> QED
  BY <1>2, <1>3

\* What the tables and the lists have to keep while the disk stays as it is.
LEMMA TablesKept ==
  ASSUME StampOK, TablesInv, UNCHANGED <<raw, imp, stamp>>,
         \A p \in Taken' : p \in Taken \/ (p[1] \in DatasetIds /\ p[2] = raw[p[1]] /\ Whole(p[2].info)),
         KeysOK', RegisteringOK', ReadSoFar', KeptOK'
  PROVE  StampOK' /\ TablesInv'
<1>1. \A d : Rewriting(d)' <=> Rewriting(d)
  BY DEF Rewriting, SignItem, Job, Ahead
<1>2. StampOK'
  BY <1>1 DEF StampOK, OutSigned, Job
<1>3. TakenOK'
  <2> SUFFICES ASSUME NEW p \in Taken'
               PROVE  p[1] \in DatasetIds /\ Whole(p[2].info) /\ (Dated(p[2]) => Unchanged(p[1], p[2]))
    BY <1>1 DEF TakenOK, Unchanged
  <2>1. CASE p \in Taken
    BY <2>1 DEF TablesInv, TakenOK
  <2>2. CASE p[1] \in DatasetIds /\ p[2] = raw[p[1]] /\ Whole(p[2].info)
    BY <2>2 DEF StampOK, Unchanged
  <2> QED
    BY <2>1, <2>2
<1> QED
  BY <1>2, <1>3 DEF TablesInv

\* The hash is that of the directory as it is.
LEMMA HashKeeps ==
  ASSUME StampOK, TablesInv, NEW d \in DatasetIds, NEW replace, RegisterHash(d, replace), UNCHANGED <<raw, imp, stamp>>,
         proc.pc = "idle"
  PROVE  StampOK' /\ TablesInv'
<1>1. CASE Exits("failed")
  <2>1. proc'.pc \notin Registering
    BY <1>1 DEF Exits, Registering
  <2> QED
    BY <2>1, NotRegistering DEF RegisterHash
<1>2. CASE Whole(raw[d].info) /\ proc' = [pc |-> "reg_open", dataset |-> d, replace |-> replace, hash |-> raw[d]]
  <2>0. UNCHANGED <<db, kept>>
    BY DEF RegisterHash
  <2>1. \A p \in Taken' : p \in Taken \/ (p[1] \in DatasetIds /\ p[2] = raw[p[1]] /\ Whole(p[2].info))
    BY <1>2, <2>0 DEF Taken
  <2>2. RegisteringOK' /\ ReadSoFar'
    BY <1>2 DEF RegisteringOK, ReadSoFar
  <2>3. KeysOK' /\ KeptOK'
    BY <2>0 DEF TablesInv, KeysOK, KeptOK, In, Stands
  <2> QED
    BY <2>1, <2>2, <2>3, TablesKept
<1> QED
  BY <1>1, <1>2 DEF RegisterHash

\* The old rows go, if they may.
LEMMA OpenKeeps ==
  ASSUME StampOK, TablesInv, RegisterOpen, UNCHANGED <<raw, imp, stamp>>
  PROVE  StampOK' /\ TablesInv'
<1> DEFINE d == proc.dataset
<1>0. /\ proc.pc = "reg_open"
      /\ proc = [pc |-> "reg_open", dataset |-> d, replace |-> proc.replace, hash |-> proc.hash]
      /\ {"datasets", "images", "anns"} \subseteq DOMAIN db
      /\ \A row \in db.images \cup db.anns : Has(db.datasets, row.dataset)
  <2>1. proc.pc = "reg_open"
    BY DEF RegisterOpen
  <2>2. RegisteringOK /\ KeysOK
    BY DEF TablesInv
  <2> QED
    BY <2>1, <2>2 DEF RegisteringOK, KeysOK
<1>1. CASE Exits("failed") /\ UNCHANGED <<db, kept>>
  <2>1. proc'.pc \notin Registering
    BY <1>1 DEF Exits, Registering
  <2> QED
    BY <1>1, <2>1, NotRegistering
<1>2. CASE /\ db' = IF Has(db.datasets, d) THEN DropDatasetRows(d) ELSE db
           /\ proc' = [proc EXCEPT !.pc = "reg_upsert"]
           /\ kept' = kept \ {d}
  <2>1. proc' = [pc |-> "reg_upsert", dataset |-> d, replace |-> proc.replace, hash |-> proc.hash]
    BY <1>0, <1>2
  <2>2. /\ {"datasets", "images", "anns"} \subseteq DOMAIN db' /\ db'.datasets = db.datasets
        /\ db'.images = {r \in db.images : r.dataset # d} /\ db'.anns = {r \in db.anns : r.dataset # d}
    <3>1. CASE Has(db.datasets, d)
      BY <1>0, <1>2, <3>1 DEF DropDatasetRows
    <3>2. CASE ~Has(db.datasets, d)
      BY <1>0, <1>2, <3>2
    <3> QED
      BY <3>1, <3>2
  <2>3. Taken' = Taken
    BY <1>0, <2>1, <2>2 DEF Taken
  <2>4. KeysOK'
    BY <1>0, <2>2 DEF KeysOK, Has
  <2>5. RegisteringOK' /\ ReadSoFar'
    BY <1>2, <2>1, <2>2 DEF RegisteringOK, ReadSoFar, In
  <2>6. KeptOK'
    BY <1>2, <2>2 DEF TablesInv, KeptOK, In, Stands
  <2> QED
    BY <2>3, <2>4, <2>5, <2>6, TablesKept
<1> QED
  BY <1>1, <1>2 DEF RegisterOpen

\* The row of the dataset, with the hash.
LEMMA UpsertKeeps ==
  ASSUME StampOK, TablesInv, RegisterUpsert, UNCHANGED <<raw, imp, stamp>>
  PROVE  StampOK' /\ TablesInv'
<1> DEFINE d == proc.dataset
           new == [id |-> d, hash |-> proc.hash]
<1>F. CASE Exits("failed") /\ UNCHANGED <<db, kept>>
  <2>1. proc'.pc \notin Registering
    BY <1>F DEF Exits, Registering
  <2> QED
    BY <1>F, <2>1, NotRegistering
<1> SUFFICES ASSUME ~(Exits("failed") /\ UNCHANGED <<db, kept>>) PROVE StampOK' /\ TablesInv'
  BY <1>F
<1>0. /\ proc.pc = "reg_upsert" /\ d \notin kept /\ kept' = kept
      /\ {"datasets", "images", "anns"} \subseteq DOMAIN db
      /\ In(db.images, d) = {} /\ In(db.anns, d) = {}
      /\ \A row \in db.images \cup db.anns : Has(db.datasets, row.dataset)
  BY DEF RegisterUpsert, TablesInv, RegisteringOK, KeysOK
<1>1. proc' = [pc |-> "reg_rows", dataset |-> d, left |-> SPLITS, rows |-> <<>>]
  BY DEF RegisterUpsert
<1>2. /\ {"datasets", "images", "anns"} \subseteq DOMAIN db'
      /\ db'.datasets = {r \in db.datasets : r.id # d} \cup {new}
      /\ db'.images = db.images /\ db'.anns = db.anns
  BY <1>0 DEF RegisterUpsert, Upsert
<1>3. \A p \in Taken' : p \in Taken
  BY <1>0, <1>1, <1>2 DEF Taken
<1> HIDE DEF new
<1>4. KeysOK' /\ Has(db'.datasets, d)
  <2>1. new.id = d
    BY DEF new
  <2>2. \A x : Has(db.datasets, x) => Has(db'.datasets, x)
    BY <1>2, <2>1 DEF Has
  <2>3. Has(db'.datasets, d)
    BY <1>2, <2>1 DEF Has
  <2> QED
    BY <1>0, <1>2, <2>2, <2>3 DEF KeysOK
<1>5. RegisteringOK'
  <2>1. <<>> \in Seq(Range(<<>>)) /\ \A row \in Range(<<>>) : FALSE
    BY NoItem, EmptySeq
  <2>2. /\ proc'.pc = "reg_rows" /\ proc'.dataset = d /\ proc'.left = SPLITS /\ proc'.rows = <<>>
        /\ proc' = [pc |-> "reg_rows", dataset |-> proc'.dataset, left |-> proc'.left, rows |-> proc'.rows]
    BY <1>1
  <2> QED
    BY <1>0, <1>4, <2>1, <2>2 DEF RegisteringOK, Lefts
<1>6. ReadSoFar'
  <2>1. Splits \ Range(SPLITS) = {}
    <3>1. SPLITS[1] = "train" /\ SPLITS[2] = "val" /\ SPLITS[3] = "test" /\ {1, 2, 3} \subseteq DOMAIN SPLITS
      BY DEF SPLITS
    <3> QED
      BY <3>1 DEF Range, Splits
  <2>2. \A h : RowsFrom(d, h, {}).images = {} /\ RowsFrom(d, h, {}).anns = {} /\ NoneTorn(h, {})
    BY DEF RowsFrom, NoneTorn
  <2>3. \A table : Waiting(table)' = {}
    BY <1>1, NoItem DEF Waiting
  <2>4. In(db'.images, d) = {} /\ In(db'.anns, d) = {}
    BY <1>0, <1>2
  <2> QED
    BY <1>1, <2>1, <2>2, <2>3, <2>4 DEF ReadSoFar
<1>7. KeptOK'
  <2>1. \A r \in db'.datasets : r.id \in kept => r \in db.datasets
    BY <1>0, <1>2 DEF new
  <2> QED
    BY <1>0, <1>2, <2>1 DEF TablesInv, KeptOK, In, Stands
<1> QED
  BY <1>3, <1>4, <1>5, <1>6, <1>7, TablesKept

\* Taking the first row off.
LEMMA RowsLeft ==
  ASSUME NEW rows, rows \in Seq(Range(rows)), rows # <<>>
  PROVE  /\ Head(rows) \in Range(rows) /\ Range(rows) = {Head(rows)} \cup Range(Tail(rows))
         /\ Tail(rows) \in Seq(Range(Tail(rows)))
<1> DEFINE h == Head(rows)
           t == Tail(rows)
           S == Range(rows)
<1>1. /\ t \in Seq(S) /\ h = rows[1] /\ Len(rows) \in Nat \ {0} /\ Len(t) = Len(rows) - 1
      /\ \A i \in 1..Len(t) : t[i] = rows[i + 1]
      /\ DOMAIN rows = 1..Len(rows) /\ DOMAIN t = 1..Len(t) /\ Len(t) \in Nat
  <2> HIDE DEF S
  <2>1. rows \in Seq(S)
    BY DEF S
  <2> QED
    BY <2>1, HeadTailProperties, EmptySeq, LenProperties
<1> HIDE DEF h, t
<1>2. S = {h} \cup Range(t)
  <2>1. \A i \in DOMAIN rows : i = 1 \/ (i - 1 \in DOMAIN t /\ rows[i] = t[i - 1])
    BY <1>1
  <2>2. \A i \in DOMAIN t : i + 1 \in DOMAIN rows /\ t[i] = rows[i + 1]
    BY <1>1
  <2>3. 1 \in DOMAIN rows
    BY <1>1
  <2>4. \A x \in S : x = h \/ x \in Range(t)
    <3> SUFFICES ASSUME NEW i \in DOMAIN rows PROVE rows[i] = h \/ rows[i] \in Range(t)
      BY DEF Range
    <3> QED
      BY <1>1, <2>1 DEF Range
  <2>5. \A x \in Range(t) : x \in S
    BY <2>2 DEF Range
  <2>6. h \in S
    BY <1>1, <2>3 DEF Range
  <2> HIDE DEF S
  <2> QED
    BY <2>4, <2>5, <2>6
<1>3. t \in Seq(Range(t))
  <2>1. t \in [1..Len(t) -> S]
    BY <1>1, ElementOfSeq
  <2>2. t \in [1..Len(t) -> Range(t)]
    BY <1>1, <2>1 DEF Range
  <2> QED
    BY <1>1, <2>2, SeqDef
<1> QED
  BY <1>2, <1>3 DEF h, t

\* What is left after a split.
LEMMA SplitsLeft ==
  ASSUME NEW left \in Lefts, left # <<>>
  PROVE  /\ Head(left) \in Splits /\ Tail(left) \in Lefts
         /\ Splits \ Range(Tail(left)) = (Splits \ Range(left)) \cup {Head(left)}
<1>1. \A i, j, k : /\ Range(<<i>>) = {i} /\ Range(<<i, j>>) = {i, j} /\ Range(<<i, j, k>>) = {i, j, k}
  BY DEF Range
<1>2. CASE left = SPLITS
  <2>1. Head(left) = "train" /\ Tail(left) = <<"val", "test">> /\ left = <<"train", "val", "test">>
    BY <1>2 DEF SPLITS
  <2> QED
    BY <1>1, <2>1 DEF Lefts, Splits
<1>3. CASE left = <<"val", "test">>
  <2>1. Head(left) = "val" /\ Tail(left) = <<"test">>
    BY <1>3
  <2> QED
    BY <1>1, <1>3, <2>1 DEF Lefts, Splits
<1>4. CASE left = <<"test">>
  <2>1. Head(left) = "test" /\ Tail(left) = <<>>
    BY <1>4
  <2> QED
    BY <1>1, <1>4, <2>1, NoItem DEF Lefts, Splits
<1> QED
  BY <1>2, <1>3, <1>4 DEF Lefts

\* A split is read when it is reached: if the content is still the one that was
\* hashed, so are its rows.
LEMMA SplitKeeps ==
  ASSUME DatasetInv, StampOK, TablesInv, RegisterSplit, UNCHANGED <<raw, imp, stamp>>
  PROVE  StampOK' /\ TablesInv'
<1> DEFINE d == proc.dataset
           sp == Head(proc.left)
           file == raw[d].coco[sp]
           rows == IF Whole(file) THEN ImageRows(d, sp, file.doc) \o AnnotationRows(d, sp, file.doc) ELSE <<>>
           read == Splits \ Range(proc.left)
<1>0. /\ proc.pc = "reg_rows" /\ proc.rows = <<>> /\ proc.left # <<>> /\ proc.left \in Lefts /\ UNCHANGED <<db, kept>>
      /\ Has(db.datasets, d) /\ d \notin kept
  BY DEF RegisterSplit, TablesInv, RegisteringOK
<1>1. CASE Exits("failed")
  <2>1. proc'.pc \notin Registering
    BY <1>1 DEF Exits, Registering
  <2> QED
    BY <1>0, <2>1, NotRegistering
<1>2. CASE /\ file.at # "torn"
           /\ proc' = [pc |-> "reg_rows", dataset |-> d, left |-> Tail(proc.left), rows |-> rows]
  <2>1. sp \in Splits /\ Tail(proc.left) \in Lefts /\ Splits \ Range(Tail(proc.left)) = read \cup {sp}
    BY <1>0, SplitsLeft
  <2>2. d \in DatasetIds
    <3>1. PICK r \in db.datasets : r.id = d
      BY <1>0 DEF Has
    <3>2. <<r.id, r.hash>> \in Taken
      BY DEF Taken
    <3> QED
      BY <3>1, <3>2 DEF TablesInv, TakenOK
  <2>3. CocoFile(file)
    BY <2>1, <2>2 DEF DatasetInv, DatasetTypeOK, DirectoryOK
  <2>4. /\ rows \in Seq(Range(rows))
        /\ \A row \in Range(rows) : row.table \in {"images", "anns"} /\ row.dataset = d
        /\ Whole(file) =>
             /\ {row \in Range(rows) : row.table = "images"} = Range(ImageRows(d, sp, file.doc))
             /\ {row \in Range(rows) : row.table = "anns"} = Range(AnnotationRows(d, sp, file.doc))
        /\ ~Whole(file) => \A row \in Range(rows) : FALSE
    <3>1. CASE Whole(file)
      <4>1. IsCoco(file.doc)
        BY <2>3, <3>1 DEF CocoFile
      <4>2. rows = ImageRows(d, sp, file.doc) \o AnnotationRows(d, sp, file.doc)
        BY <3>1
      <4> HIDE DEF rows, file, sp, d
      <4>3. TwoKinds(rows, d, ImageRows(d, sp, file.doc), AnnotationRows(d, sp, file.doc))
        BY <4>1, <4>2, RowsOfSplit, Zenon
      <4> QED
        BY <3>1, <4>3, Zenon DEF TwoKinds
    <3>2. CASE ~Whole(file)
      BY <3>2, NoItem, EmptySeq
    <3> QED
      BY <3>1, <3>2
  <2> HIDE DEF rows
  <2>5. Taken' = Taken
    BY <1>0, <1>2 DEF Taken
  <2>6. KeysOK' /\ KeptOK'
    BY <1>0 DEF TablesInv, KeysOK, KeptOK, In, Stands
  <2>7. RegisteringOK'
    <3>1. proc' = [pc |-> "reg_rows", dataset |-> proc'.dataset, left |-> proc'.left, rows |-> proc'.rows]
          /\ proc'.pc = "reg_rows" /\ proc'.dataset = d /\ proc'.left = Tail(proc.left) /\ proc'.rows = rows
      BY <1>2
    <3> QED
      BY <1>0, <2>1, <2>4, <3>1 DEF RegisteringOK
  <2>8. ReadSoFar'
    <3> SUFFICES ASSUME NEW r \in db.datasets, r.id = d, Stands(d, r.hash)
                 PROVE  /\ NoneTorn(r.hash, read \cup {sp})
                        /\ In(db.images, d) \cup {row \in Range(rows) : row.table = "images"}
                             = RowsFrom(d, r.hash, read \cup {sp}).images
                        /\ In(db.anns, d) \cup {row \in Range(rows) : row.table = "anns"}
                             = RowsFrom(d, r.hash, read \cup {sp}).anns
      <4>1. /\ proc'.pc = "reg_rows" /\ proc'.dataset = d /\ proc'.left = Tail(proc.left) /\ proc'.rows = rows
        BY <1>2
      <4>2. \A table : Waiting(table)' = {row \in Range(rows) : row.table = table}
        BY <4>1 DEF Waiting
      <4>3. Splits \ Range(proc'.left) = read \cup {sp} /\ db' = db
        BY <1>0, <2>1, <4>1
      <4>4. \A x, y : Stands(x, y)' <=> Stands(x, y)
        BY DEF Stands
      <4> HIDE DEF read, sp
      <4> QED
        BY <4>1, <4>2, <4>3, <4>4, Zenon DEF ReadSoFar
    <3>1. /\ NoneTorn(r.hash, read)
          /\ In(db.images, d) \cup Waiting("images") = RowsFrom(d, r.hash, read).images
          /\ In(db.anns, d) \cup Waiting("anns") = RowsFrom(d, r.hash, read).anns
      BY <1>0 DEF TablesInv, ReadSoFar
    <3>2. \A table : Waiting(table) = {}
      BY <1>0, NoItem DEF Waiting
    <3>3. r.hash.coco[sp] = file
      BY DEF Stands
    <3>4. NoneTorn(r.hash, read \cup {sp})
      BY <1>2, <3>1, <3>3 DEF NoneTorn
    <3>5. sp \in Present(r.hash) <=> Whole(file)
      BY <1>2, <2>1, <2>3, <3>3 DEF Present, IsFile, Whole, CocoFile, Docs
    <3>6. CASE Whole(file)
      <4>1. /\ RowsFrom(d, r.hash, read \cup {sp}).images = RowsFrom(d, r.hash, read).images \cup Range(ImageRows(d, sp, file.doc))
            /\ RowsFrom(d, r.hash, read \cup {sp}).anns = RowsFrom(d, r.hash, read).anns \cup Range(AnnotationRows(d, sp, file.doc))
        BY <2>1, <3>3, <3>5, <3>6, OneSplitMore
      <4> QED
        BY <2>4, <3>1, <3>2, <3>4, <3>6, <4>1
    <3>7. CASE ~Whole(file)
      <4>1. RowsFrom(d, r.hash, read \cup {sp}) = RowsFrom(d, r.hash, read)
        BY <2>1, <3>5, <3>7, OneSplitMore
      <4> QED
        BY <2>4, <3>1, <3>2, <3>4, <3>7, <4>1
    <3> QED
      BY <3>6, <3>7
  <2> QED
    BY <1>0, <2>5, <2>6, <2>7, <2>8, TablesKept
<1> QED
  BY <1>1, <1>2, Zenon DEF RegisterSplit

\* One row.
LEMMA RowKeeps ==
  ASSUME StampOK, TablesInv, RegisterRow, UNCHANGED <<raw, imp, stamp>>
  PROVE  StampOK' /\ TablesInv'
<1> DEFINE d == proc.dataset
           row == Head(proc.rows)
           rest == Tail(proc.rows)
<1>0. /\ proc.pc = "reg_rows" /\ proc.rows # <<>> /\ proc.left \in Lefts /\ kept' = kept
      /\ proc = [pc |-> "reg_rows", dataset |-> d, left |-> proc.left, rows |-> proc.rows]
      /\ proc.rows \in Seq(Range(proc.rows)) /\ Has(db.datasets, d) /\ d \notin kept
      /\ \A x \in Range(proc.rows) : x.table \in {"images", "anns"} /\ x.dataset = d
      /\ {"datasets", "images", "anns"} \subseteq DOMAIN db
      /\ \A x \in db.images \cup db.anns : Has(db.datasets, x.dataset)
  <2>1. proc.pc = "reg_rows" /\ proc.rows # <<>> /\ kept' = kept
    BY DEF RegisterRow
  <2>2. RegisteringOK /\ KeysOK
    BY DEF TablesInv
  <2> QED
    BY <2>1, <2>2 DEF RegisteringOK, KeysOK
<1>1. CASE Exits("failed") /\ UNCHANGED db
  <2>1. proc'.pc \notin Registering
    BY <1>1 DEF Exits, Registering
  <2> QED
    BY <1>0, <1>1, <2>1, NotRegistering
<1>2. CASE /\ db' = IF row.table = "images" THEN [db EXCEPT !.images = @ \cup {row}] ELSE [db EXCEPT !.anns = @ \cup {row}]
           /\ proc' = [proc EXCEPT !.rows = Tail(@)]
  <2>1. /\ row \in Range(proc.rows) /\ Range(proc.rows) = {row} \cup Range(rest) /\ rest \in Seq(Range(rest))
        /\ row.table \in {"images", "anns"} /\ row.dataset = d
    BY <1>0, RowsLeft
  <2> HIDE DEF row, rest
  <2>2. proc' = [pc |-> "reg_rows", dataset |-> d, left |-> proc.left, rows |-> rest]
    BY <1>0, <1>2 DEF rest
  <2>3. /\ {"datasets", "images", "anns"} \subseteq DOMAIN db' /\ db'.datasets = db.datasets
        /\ db'.images = IF row.table = "images" THEN db.images \cup {row} ELSE db.images
        /\ db'.anns = IF row.table = "anns" THEN db.anns \cup {row} ELSE db.anns
    BY <1>0, <1>2, <2>1
  <2>4. Taken' = Taken
    BY <1>0, <2>2, <2>3 DEF Taken
  <2>5. KeysOK'
    BY <1>0, <2>1, <2>3 DEF KeysOK
  <2>6. RegisteringOK'
    BY <1>0, <2>1, <2>2, <2>3 DEF RegisteringOK
  <2>7. /\ In(db'.images, d) \cup Waiting("images")' = In(db.images, d) \cup Waiting("images")
        /\ In(db'.anns, d) \cup Waiting("anns")' = In(db.anns, d) \cup Waiting("anns")
    <3>1. /\ Waiting("images") = {x \in {row} \cup Range(rest) : x.table = "images"}
          /\ Waiting("anns") = {x \in {row} \cup Range(rest) : x.table = "anns"}
          /\ Waiting("images")' = {x \in Range(rest) : x.table = "images"}
          /\ Waiting("anns")' = {x \in Range(rest) : x.table = "anns"}
      BY <2>1, <2>2 DEF Waiting
    <3> QED
      BY <2>1, <2>3, <3>1 DEF In
  <2>8. ReadSoFar'
    BY <1>0, <2>2, <2>3, <2>7 DEF TablesInv, ReadSoFar, Stands
  <2>9. KeptOK'
    BY <1>0, <2>1, <2>3 DEF TablesInv, KeptOK, In, Stands
  <2> QED
    BY <2>4, <2>5, <2>6, <2>8, <2>9, TablesKept
<1> QED
  BY <1>1, <1>2, Zenon DEF RegisterRow

\* All splits have been read, and no row waits.
LEMMA EndKeeps ==
  ASSUME StampOK, TablesInv, RegisterEnd, UNCHANGED <<raw, imp, stamp>>
  PROVE  StampOK' /\ TablesInv'
<1> DEFINE d == proc.dataset
<1>0. /\ proc.pc = "reg_rows" /\ proc.rows = <<>> /\ proc.left = <<>> /\ db' = db /\ kept' = kept \cup {d}
      /\ proc'.pc = "exit"
  BY DEF RegisterEnd, Exits
<1>1. \A p \in Taken' : p \in Taken
  BY <1>0 DEF Taken
<1>2. RegisteringOK' /\ ReadSoFar'
  BY <1>0 DEF RegisteringOK, ReadSoFar
<1>3. KeysOK'
  BY <1>0 DEF TablesInv, KeysOK
<1>4. \A r \in db.datasets : r.id = d /\ Stands(d, r.hash) =>
        /\ In(db.images, d) = RowsFrom(d, r.hash, Splits).images
        /\ In(db.anns, d) = RowsFrom(d, r.hash, Splits).anns
  <2>1. Splits \ Range(<<>>) = Splits /\ \A table : Waiting(table) = {}
    BY <1>0, NoItem DEF Waiting
  <2> QED
    BY <1>0, <2>1 DEF TablesInv, ReadSoFar
<1>5. KeptOK'
  BY <1>0, <1>4 DEF TablesInv, KeptOK, Stands
<1> QED
  BY <1>1, <1>2, <1>3, <1>5, TablesKept

(***************************************************************************)
(* The steps of the pipeline                                               *)
(***************************************************************************)
LEMMA OtherTables ==
  ASSUME KeysOK, NEW rows,
         \/ db' = [db EXCEPT !.runs = rows]
         \/ db' = [db EXCEPT !.caches = rows]
         \/ db' = [db EXCEPT !.artifacts = rows]
         \/ db' = [db EXCEPT !.checkpoints = rows]
         \/ db' = [db EXCEPT !.reports = rows]
  PROVE  db'.datasets = db.datasets /\ db'.images = db.images /\ db'.anns = db.anns /\ DOMAIN db' = DOMAIN db
BY DEF KeysOK

LEMMA RegistersKeep ==
  ASSUME DatasetInv, PlacesOK, StampOK, TablesInv, RegistryStage
  PROVE  StampOK' /\ TablesInv'
<1>0. UNCHANGED <<raw, imp, stamp>>
  BY DEF RegistryStage, datasetVars
<1>K. KeysOK
  BY DEF TablesInv
<1>E. ASSUME NEW f, Exits(f) PROVE proc'.pc = "exit" /\ proc'.pc \notin Registering
  BY <1>E DEF Exits, Registering
<1>1. CASE CreateDelete(pipe.run)
  <2> DEFINE rows == {row \in db.runs : row.id # pipe.run}
  <2>1. /\ kept' = kept
        /\ \/ db' = db /\ Exits("failed")
           \/ db' = [db EXCEPT !.runs = rows] /\ proc' = [pc |-> "create_insert", result |-> "none"]
    BY <1>1 DEF CreateDelete
  <2> HIDE DEF rows
  <2>2. proc'.pc \notin Registering
    BY <2>1, <1>E DEF Registering
  <2>3. CASE db' = db
    BY <1>0, <2>1, <2>2, <2>3, NotRegistering
  <2>4. CASE db' = [db EXCEPT !.runs = rows]
    BY <1>0, <1>K, <2>1, <2>2, <2>4, OtherTables, NotRegistering
  <2> QED
    BY <2>1, <2>3, <2>4
<1>2. CASE ValidateRaw
  <2>1. UNCHANGED <<db, kept>> /\ \E f : Exits(f)
    BY <1>2 DEF ValidateRaw
  <2> QED
    BY <1>0, <1>E, <2>1, NotRegistering
<1>3. CASE Executes("register_dataset") /\ RegisterHash(pipe.dataset, pipe.replace)
  <2>1. proc.pc = "idle" /\ pipe.dataset \in DatasetIds
    BY <1>3 DEF Executes, PlacesOK
  <2> QED
    BY <1>0, <1>3, <2>1, HashKeeps
<1>4. CASE CloseRun(pipe.run)
  <2>1. kept' = kept /\ (\E rows : db' = [db EXCEPT !.runs = rows]) /\ \E f : Exits(f)
    BY <1>4, Zenon DEF CloseRun, UpdateRun
  <2> QED
    BY <1>0, <1>K, <1>E, <2>1, OtherTables, NotRegistering
<1>5. CASE CreateInsert(pipe.run, pipe.dataset, att)
  <2>1. kept' = kept /\ (\E rows : db' = [db EXCEPT !.runs = rows]) /\ Exits("ok")
    BY <1>5, Zenon DEF CreateInsert
  <2> QED
    BY <1>0, <1>K, <1>E, <2>1, OtherTables, NotRegistering
<1>6. CASE RegisterSteps
  BY <1>0, <1>6, OpenKeeps, UpsertKeeps, SplitKeeps, RowKeeps, EndKeeps DEF RegisterSteps
<1> QED
  BY <1>1, <1>2, <1>3, <1>4, <1>5, <1>6 DEF RegistryStage

LEMMA ExportsKeep ==
  ASSUME ExportInv, StampOK, TablesInv, ExportStage \/ CacheStage
  PROVE  StampOK' /\ TablesInv'
<1>0. UNCHANGED <<raw, imp, stamp>> /\ kept' = kept
  <2>1. CASE CacheStage
    BY <2>1 DEF CacheStage, BuildCache, datasetVars
  <2>2. CASE ExportStage
    BY <2>2 DEF ExportStage, Train, Evaluate, ExportOnnx, BuildEngine, RegisterArtifacts, ExportSteps, Calibrate, WriteModel,
       WriteReport, ArtifactSteps, RegisterArtifact, ArtifactsEnd, datasetVars
  <2> QED
    BY <2>1, <2>2
<1>K. KeysOK
  BY DEF TablesInv
<1>E. ASSUME NEW f, Exits(f) PROVE proc'.pc \notin Registering
  BY <1>E DEF Exits, Registering
<1>1. CASE db' = db /\ \E f : Exits(f)
  BY <1>0, <1>1, <1>E, NotRegistering
<1>2. CASE \/ Executes("export_onnx") /\ ExportOnnx(pipe.run)
           \/ Executes("export_trt_fp16") /\ BuildEngine(pipe.run, "fp16", pipe.dataset)
           \/ Executes("export_trt_int8") /\ BuildEngine(pipe.run, "int8", pipe.dataset)
  <2>1. /\ db' = db
        /\ \/ Exits("failed")
           \/ \E pc \in {"model", "calibrate"} : \E w, r, c :
                proc' = [pc |-> pc, what |-> w, run |-> r, content |-> c]
    BY <1>2, Zenon DEF ExportOnnx, BuildEngine
  <2>2. proc'.pc \notin Registering
    BY <1>E, <2>1 DEF Registering
  <2> QED
    BY <1>0, <2>1, <2>2, NotRegistering
<1>3. CASE Calibrate \/ WriteModel
  <2>1. proc \in [pc : Exporting, what : Models, run : {pipe.run}, content : Contents]
    BY <1>3 DEF Calibrate, WriteModel, ExportInv, ProcOK, Exporting
  <2>2. proc'.pc \in {"model", "model_open", "report"} /\ db' = db
    BY <1>3, <2>1 DEF Calibrate, WriteModel
  <2>3. proc'.pc \notin Registering
    BY <2>2 DEF Registering
  <2> QED
    BY <1>0, <2>2, <2>3, NotRegistering
<1>4. CASE RegisterArtifacts(pipe.run)
  <2>1. db'.datasets = db.datasets /\ db'.images = db.images /\ db'.anns = db.anns /\ DOMAIN db' = DOMAIN db
    BY <1>4, <1>K DEF RegisterArtifacts, KeysOK
  <2>2. proc'.pc \notin Registering
    BY <1>4 DEF RegisterArtifacts, Registering
  <2> QED
    BY <1>0, <2>1, <2>2, NotRegistering
<1>5. CASE RegisterArtifact
  <2>1. /\ proc.pc = "art_rows" /\ proc' = [proc EXCEPT !.todo = Tail(@)]
        /\ \/ db' = db
           \/ \E row : \/ db' = [db EXCEPT !.checkpoints = @ \cup {row}]
                       \/ db' = [db EXCEPT !.reports = @ \cup {row}]
                       \/ db' = [db EXCEPT !.artifacts = @ \cup {row}]
    BY <1>5, Zenon DEF RegisterArtifact
  <2>2. proc = [pc |-> "art_rows", run |-> proc.run, todo |-> proc.todo]
    BY <2>1 DEF ExportInv, ProcOK
  <2>3. proc'.pc \notin Registering
    BY <2>1, <2>2 DEF Registering
  <2>4. db' = db \/ \E rows : \/ db' = [db EXCEPT !.checkpoints = rows]
                              \/ db' = [db EXCEPT !.reports = rows]
                              \/ db' = [db EXCEPT !.artifacts = rows]
    BY <2>1
  <2>5. db'.datasets = db.datasets /\ db'.images = db.images /\ db'.anns = db.anns /\ DOMAIN db' = DOMAIN db
    BY <1>K, <2>4, OtherTables
  <2> QED
    BY <1>0, <2>3, <2>5, NotRegistering
<1>6. \/ db' = db /\ \E f : Exits(f)
      \/ Executes("export_onnx") /\ ExportOnnx(pipe.run)
      \/ Executes("export_trt_fp16") /\ BuildEngine(pipe.run, "fp16", pipe.dataset)
      \/ Executes("export_trt_int8") /\ BuildEngine(pipe.run, "int8", pipe.dataset)
      \/ Calibrate \/ WriteModel \/ RegisterArtifacts(pipe.run) \/ RegisterArtifact
  <2>1. CASE CacheStage
    BY <2>1 DEF CacheStage, BuildCache
  <2>2. CASE ExportStage
    BY <2>2 DEF ExportStage, Train, Evaluate, ExportSteps, WriteReport, ArtifactSteps, ArtifactsEnd
  <2> QED
    BY <2>1, <2>2
<1> QED
  BY <1>1, <1>2, <1>3, <1>4, <1>5, <1>6

LEMMA PipelineKeepsTables ==
  ASSUME DatasetInv, ExportInv, PlacesOK, StampOK, TablesInv, [Next]_vars, ~Import
  PROVE  StampOK' /\ TablesInv'
<1>K. KeysOK
  BY DEF TablesInv
<1>1. CASE Begin \/ PipeEnds \/ Collect \/ UNCHANGED vars
  <2>1. UNCHANGED <<raw, imp, stamp, db, proc, kept>>
    <3>1. UNCHANGED datasetVars /\ UNCHANGED registryVars
      BY <1>1 DEF Begin, PipeEnds, Collect, vars
    <3> QED
      BY <3>1 DEF datasetVars, registryVars
  <2> QED
    BY <2>1, Unmoved
<1>2. CASE Sweep
  <2>1. UNCHANGED <<raw, imp, stamp, db, proc, kept>>
    BY <1>2 DEF Sweep, registryVars
  <2> QED
    BY <2>1, Unmoved
<1>3. CASE StageEnds \/ StageFails \/ PipeDies
  <2>1. UNCHANGED <<raw, imp, stamp, db, kept>> /\ proc'.pc \in {"idle", "exit"}
    BY <1>3 DEF StageEnds, StageFails, PipeDies, Exits, datasetVars
  <2>2. proc'.pc \notin Registering
    BY <2>1 DEF Registering
  <2> QED
    BY <2>1, <2>2, NotRegistering
<1>4. CASE TrackCache
  <2>1. UNCHANGED <<raw, imp, stamp, kept, proc>> /\ pipe.pc # "stage"
    BY <1>4 DEF TrackCache, datasetVars
  <2>2. proc'.pc \notin Registering
    BY <2>1 DEF ExportInv, ProcOK, Registering
  <2>3. db' = db \/ \E rows : \/ db' = [db EXCEPT !.runs = rows]
                              \/ db' = [db EXCEPT !.caches = rows]
    BY <1>4, Zenon DEF TrackCache, UpdateRun, WithTileCache
  <2>4. db'.datasets = db.datasets /\ db'.images = db.images /\ db'.anns = db.anns /\ DOMAIN db' = DOMAIN db
    BY <1>K, <2>3, OtherTables
  <2> QED
    BY <2>1, <2>2, <2>4, NotRegistering
<1> QED
  BY <1>1, <1>2, <1>3, <1>4, RegistersKeep, ExportsKeep DEF Next, Pipeline

LEMMA FirstTables == Init => StampOK /\ TablesInv
<1> SUFFICES ASSUME Init PROVE StampOK /\ TablesInv
  OBVIOUS
<1>1. PICK sc \in Scenarios : raw = [d \in DatasetIds |-> IF d \in DOMAIN sc.raw THEN sc.raw[d] ELSE AbsentDir]
  BY DEF Init
<1>2. \A d \in DOMAIN sc.raw : LeftBefore(sc.raw[d])
  BY ScenariosAssumption
<1>3. imp = Idle /\ stamp = 0 /\ db = EmptyDb /\ proc = [pc |-> "idle", result |-> "none"]
  BY DEF Init, InitImport, InitRegistry
<1>4. StampOK
  <2> SUFFICES ASSUME NEW d \in DatasetIds, Dated(raw[d]) PROVE DateOf(raw[d]) = 0
    BY <1>3 DEF StampOK, Rewriting, Idle
  <2>1. ~Whole(AbsentDir.info)
    BY AbsentOK DEF Whole, Missing
  <2>2. LeftBefore(raw[d])
    BY <1>1, <1>2, <2>1 DEF Dated
  <2> QED
    BY <2>2 DEF LeftBefore, Dated, DateOf
<1>5. /\ db.datasets = {} /\ db.images = {} /\ db.anns = {} /\ {"datasets", "images", "anns"} \subseteq DOMAIN db
      /\ proc.pc = "idle"
  BY <1>3 DEF EmptyDb
<1>6. TakenOK
  BY <1>5 DEF TakenOK, Taken
<1>7. KeysOK /\ RegisteringOK /\ ReadSoFar /\ KeptOK
  BY <1>5 DEF KeysOK, RegisteringOK, ReadSoFar, KeptOK
<1> QED
  BY <1>4, <1>6, <1>7 DEF TablesInv

LEMMA TablesInvariant == Spec => [](StampOK /\ TablesInv)
<1>1. DatasetInv /\ ExportInv /\ PlacesOK /\ (StampOK /\ TablesInv) /\ [Next]_vars => (StampOK /\ TablesInv)'
  BY ImportKeepsTables, PipelineKeepsTables
<1> QED
  BY FirstTables, DatasetsInvariant, ExportInvariant, PlacesInvariant, <1>1, PTL DEF Spec

\* A registration that ended well for the content the directory still has has
\* left exactly its images and annotations in the tables, although the hash,
\* the row of the dataset and every other row are written at moments of their
\* own, an import may rewrite the directory between any two of them, and the
\* registration may follow one that failed or was killed: what dates an import,
\* the sentinel of one and the report of a migration, is never the same twice,
\* and the annotations of one are only written where no sentinel is.  The
\* content hashed must have its date: two migrations of one source leave the
\* same bytes until they write their reports (register_dataset.py:35-152,
\* adapter.py:215-291, migrate_legacy_dataset.py:214-260).
THEOREM RegistryFaithfulHolds == Spec => []RegistryFaithful
<1>1. TablesInv => RegistryFaithful
  <2> SUFFICES ASSUME TablesInv, NEW r \in db.datasets, r.id \in kept, raw[r.id] = r.hash, Dated(r.hash)
               PROVE  /\ {row \in db.images : row.dataset = r.id} = RowsOf(r.id).images
                      /\ {row \in db.anns : row.dataset = r.id} = RowsOf(r.id).anns
    BY DEF RegistryFaithful
  <2>1. Stands(r.id, r.hash)
    BY DEF Stands, SameSign
  <2>2. /\ In(db.images, r.id) = RowsFrom(r.id, r.hash, Splits).images
        /\ In(db.anns, r.id) = RowsFrom(r.id, r.hash, Splits).anns
    BY <2>1 DEF TablesInv, KeptOK
  <2>3. Splits \cap Present(r.hash) = Present(r.hash)
    BY DEF Present
  <2>4. RowsFrom(r.id, r.hash, Splits) = RowsOf(r.id)
    BY <2>3 DEF RowsFrom, RowsOf
  <2> QED
    BY <2>2, <2>4 DEF In
<1> QED
  BY TablesInvariant, <1>1, PTL

(***************************************************************************)
(* A directory that validates is faithful: the invariant                   *)
(***************************************************************************)
\* Once its three splits are there and have nothing in common, the directory
\* holds what its last import was to hold.
Faith(d, o) ==
  (\A sp \in Splits : Whole(d.coco[sp])) /\ Disjoint(d) =>
    Inventory(d).frames = o.frames /\ Inventory(d).labels = o.labels

\* The layout that a migration has looked at is still there when it reads the source.
SourceClasses ==
  imp.pc \in {"clear", "read"} /\ Job.op = "migrate" =>
    /\ Whole(raw[Job.from].classes)
    /\ raw[Job.from].classes.doc \in {CANONICAL_CATEGORIES, LEGACY_CATEGORIES}

\* What is whole in the target is what this import wrote.
WrittenBy(d, out) ==
  /\ \A sp \in Splits : Whole(d.coco[sp]) => d.coco[sp] = out.coco[sp]
  /\ Whole(d.classes) => d.classes = out.classes

OutFaithful ==
  imp.pc = "write" =>
    Regular(imp.out) /\ Faith(imp.out, origin[Job.to]) /\ WrittenBy(Target, imp.out)

FaithInv ==
  /\ \A s \in StagingIds : Whole(staging[s].coco) => OnceEach(staging[s].coco.doc)
  /\ \A d \in DatasetIds : Regular(raw[d]) /\ Faith(raw[d], origin[d])
  /\ SourceClasses /\ OutFaithful

(***************************************************************************)
(* What the imports make of an annotation file                             *)
(***************************************************************************)
Assigned(coco, ratios, sp) == {g.id : g \in {h \in Range(coco.images) : AssignSplit(h.frame, ratios) = sp}}

\* A split holds the images with the ids that go there, and the annotations of those.
LEMMA SplitOf ==
  ASSUME NEW coco, IsCoco(coco), NEW ratios, NEW sp
  PROVE  LET split == SplitCoco(coco, ratios, sp)
             assigned == Assigned(coco, ratios, sp)
         IN /\ Range(split.images) = {g \in Range(coco.images) : g.id \in assigned}
            /\ Range(split.anns) = {a \in Range(coco.anns) : a.image \in assigned}
            /\ split.cats = coco.cats
            /\ OnceEach(coco) => OnceEach(split)
<1> DEFINE assigned == Assigned(coco, ratios, sp)
           images == Those(coco.images, {g \in Range(coco.images) : g.id \in assigned})
           ofImage == [i \in DOMAIN images |-> OfImage(coco, images[i].id)]
<1>1. coco.images \in Seq(ImageRecords) /\ coco.anns \in Seq(AnnRecords)
  BY DEF IsCoco
<1>2. /\ images \in Seq(ImageRecords) /\ Range(images) = {g \in Range(coco.images) : g.id \in assigned}
      /\ FramesApart(coco.images, Len(coco.images)) => FramesApart(images, Len(images))
  BY <1>1, ThoseOf
<1>3. \A id : OfImage(coco, id) \in Seq(AnnRecords) /\ Range(OfImage(coco, id)) = {a \in Range(coco.anns) : a.image = id}
  BY <1>1, ThoseOf DEF OfImage
<1>4. DOMAIN images = 1..Len(images) /\ Len(images) \in Nat /\ DOMAIN coco.images = 1..Len(coco.images)
  BY <1>1, <1>2, LenProperties
<1>5. ofImage \in Seq(Seq(AnnRecords)) /\ DOMAIN ofImage = DOMAIN images
  <2> HIDE DEF images
  <2>1. ofImage = [i \in 1..Len(images) |-> OfImage(coco, images[i].id)]
    BY <1>4
  <2> QED
    BY <1>3, <1>4, <2>1, SeqDef
<1>6. Range(FlattenSeq(ofImage)) = UNION {Range(ofImage[i]) : i \in DOMAIN images}
  BY <1>5, FlattenOf
<1>7. UNION {Range(ofImage[i]) : i \in DOMAIN images} = {a \in Range(coco.anns) : a.image \in assigned}
  <2>1. \A i \in DOMAIN images : Range(ofImage[i]) = {a \in Range(coco.anns) : a.image = images[i].id}
    BY <1>3
  <2>2. {images[i].id : i \in DOMAIN images} = assigned
    <3>1. {images[i].id : i \in DOMAIN images} = {g.id : g \in Range(images)}
      BY DEF Range
    <3>2. \A id \in assigned : \E g \in Range(coco.images) : g.id = id
      BY DEF Assigned
    <3> HIDE DEF images, assigned
    <3> QED
      BY <1>2, <3>1, <3>2
  <2> HIDE DEF images, assigned, ofImage
  <2> QED
    BY <2>1, <2>2
<1>8. SplitCoco(coco, ratios, sp) = Coco(images, FlattenSeq(ofImage), coco.cats)
  BY Zenon DEF SplitCoco, Assigned
<1> HIDE DEF images, ofImage
<1>9. /\ SplitCoco(coco, ratios, sp).images = images /\ SplitCoco(coco, ratios, sp).anns = FlattenSeq(ofImage)
      /\ SplitCoco(coco, ratios, sp).cats = coco.cats
  BY <1>8 DEF Coco
<1>10. OnceEach(coco) => OnceEach(SplitCoco(coco, ratios, sp))
  BY <1>2, <1>4, <1>9 DEF OnceEach, FramesApart
<1> QED
  BY <1>2, <1>6, <1>7, <1>9, <1>10

\* The classes of the four-class layout, but for the buoys, keep their names.
LEMMA RemapLabels ==
  ASSUME NEW coco, IsCoco(coco), Remappable(coco, coco.cats),
         coco.cats \in {CANONICAL_CATEGORIES, LEGACY_CATEGORIES}
  PROVE  LET new == RemapSplit(coco, coco.cats) IN
         /\ new.images = coco.images /\ new.cats = CANONICAL_CATEGORIES
         /\ LabelsOf(new) = {l \in LabelsOf(coco) : l.class # "buoys"}
<1>1. coco.images \in Seq(ImageRecords) /\ coco.anns \in Seq(AnnRecords)
  BY DEF IsCoco
<1>2. CASE coco.cats = CANONICAL_CATEGORIES
  <2>1. RemapSplit(coco, coco.cats) = [coco EXCEPT !.cats = CANONICAL_CATEGORIES]
    BY <1>2 DEF RemapSplit
  <2>2. RemapSplit(coco, coco.cats) = coco
    BY <1>2, <2>1 DEF IsCoco, Coco
  <2>3. \A a : ClassOf(coco, a) # "buoys"
    BY <1>2 DEF ClassOf, CANONICAL_CATEGORIES
  <2>4. \A l \in LabelsOf(coco) : l.class # "buoys"
    BY <2>3 DEF LabelsOf
  <2> QED
    BY <1>2, <2>2, <2>4
<1>3. CASE coco.cats = LEGACY_CATEGORIES /\ coco.cats # CANONICAL_CATEGORIES
  <2> DEFINE anns == Those(coco.anns, {a \in Range(coco.anns) : a.cat # Buoys})
             moved(a) == [a EXCEPT !.cat = LEGACY_CATEGORY_ID_REMAP[@]]
             new == [i \in DOMAIN anns |-> moved(anns[i])]
             made == Coco(coco.images, new, CANONICAL_CATEGORIES)
  <2>1. anns \in Seq(AnnRecords) /\ Range(anns) = {a \in Range(coco.anns) : a.cat # Buoys}
    BY <1>1, ThoseOf
  <2>2. DOMAIN LEGACY_CATEGORIES = 0..3 /\ DOMAIN CANONICAL_CATEGORIES = 0..2
    BY DEF LEGACY_CATEGORIES, CANONICAL_CATEGORIES
  <2>3. \A a \in Range(coco.anns) : a \in AnnRecords /\ a.cat \in 0..3
    BY <1>1, <1>3, <2>2 DEF Remappable, Range
  <2>4. RemapSplit(coco, coco.cats) = made
    BY <1>3, Zenon DEF RemapSplit, RemapLegacy
  <2>5. Range(new) = {moved(a) : a \in Range(anns)}
    <3> HIDE DEF anns, moved
    <3> QED
      BY DEF Range
  <2>6. ASSUME NEW a \in Range(coco.anns)
        PROVE  /\ a.cat # Buoys => /\ moved(a).id = a.id /\ moved(a).image = a.image
                                   /\ ClassOf(made, moved(a)) = ClassOf(coco, a) /\ ClassOf(coco, a) # "buoys"
               /\ a.cat = Buoys => ClassOf(coco, a) = "buoys"
    <3>1. a = [id |-> a.id, image |-> a.image, cat |-> a.cat] /\ a.cat \in {0, 1, 2, 3}
      BY <2>3 DEF AnnRecords
    <3>2. ClassOf(coco, a) = LEGACY_CATEGORIES[a.cat]
      BY <1>3, <2>2, <2>3 DEF ClassOf
    <3>3. /\ LEGACY_CATEGORIES[0] = "ships" /\ LEGACY_CATEGORIES[1] = "buoys"
          /\ LEGACY_CATEGORIES[2] = "helicopters" /\ LEGACY_CATEGORIES[3] = "airplanes"
          /\ CANONICAL_CATEGORIES[0] = "ships" /\ CANONICAL_CATEGORIES[1] = "helicopters"
          /\ CANONICAL_CATEGORIES[2] = "airplanes"
      BY DEF LEGACY_CATEGORIES, CANONICAL_CATEGORIES
    <3>4. /\ LEGACY_CATEGORY_ID_REMAP[0] = 0 /\ LEGACY_CATEGORY_ID_REMAP[2] = 1 /\ LEGACY_CATEGORY_ID_REMAP[3] = 2
      BY DEF LEGACY_CATEGORY_ID_REMAP
    <3>5. moved(a) = [id |-> a.id, image |-> a.image, cat |-> LEGACY_CATEGORY_ID_REMAP[a.cat]]
      BY <3>1
    <3> HIDE DEF moved
    <3>6. moved(a).id = a.id /\ moved(a).image = a.image /\ moved(a).cat = LEGACY_CATEGORY_ID_REMAP[a.cat]
      BY <3>5
    <3>7. made.cats = CANONICAL_CATEGORIES
      BY DEF Coco
    <3> HIDE DEF made
    <3>8. moved(a).cat \in 0..2 => ClassOf(made, moved(a)) = CANONICAL_CATEGORIES[moved(a).cat]
      BY <2>2, <3>7 DEF ClassOf
    <3> QED
      BY <3>1, <3>2, <3>3, <3>4, <3>6, <3>8 DEF Buoys
  <2>7. made.images = coco.images /\ made.anns = new /\ made.cats = CANONICAL_CATEGORIES
    <3> HIDE DEF new
    <3> QED
      BY DEF Coco
  <2> HIDE DEF made, new, anns, moved
  <2>8. LabelsOf(made) = {l \in LabelsOf(coco) : l.class # "buoys"}
    <3>1. ASSUME NEW l \in LabelsOf(made) PROVE l \in LabelsOf(coco) /\ l.class # "buoys"
      <4>1. PICK g \in Range(coco.images), b \in Range(new) :
              g.id = b.image /\ l = [frame |-> g.frame, ann |-> b.id, class |-> ClassOf(made, b)]
        BY <2>7 DEF LabelsOf
      <4>2. PICK a \in Range(coco.anns) : a.cat # Buoys /\ b = moved(a)
        BY <2>1, <2>5, <4>1
      <4>3. g.id = a.image /\ l = [frame |-> g.frame, ann |-> a.id, class |-> ClassOf(coco, a)]
        BY <2>6, <4>1, <4>2
      <4>4. <<g, a>> \in {q \in Range(coco.images) \X Range(coco.anns) : q[1].id = q[2].image}
        BY <4>1, <4>3
      <4>5. l \in LabelsOf(coco)
        BY <4>3, <4>4 DEF LabelsOf
      <4> QED
        BY <2>6, <4>2, <4>3, <4>5
    <3>2. ASSUME NEW l \in LabelsOf(coco), l.class # "buoys" PROVE l \in LabelsOf(made)
      <4>1. PICK g \in Range(coco.images), a \in Range(coco.anns) :
              g.id = a.image /\ l = [frame |-> g.frame, ann |-> a.id, class |-> ClassOf(coco, a)]
        BY DEF LabelsOf
      <4>2. a.cat # Buoys
        BY <2>6, <3>2, <4>1
      <4>3. moved(a) \in Range(new)
        BY <2>1, <2>5, <4>2
      <4>4. g.id = moved(a).image /\ l = [frame |-> g.frame, ann |-> moved(a).id, class |-> ClassOf(made, moved(a))]
        BY <2>6, <4>1, <4>2
      <4>5. <<g, moved(a)>> \in {q \in Range(made.images) \X Range(made.anns) : q[1].id = q[2].image}
        BY <2>7, <4>1, <4>3, <4>4
      <4> QED
        BY <4>4, <4>5 DEF LabelsOf
    <3> QED
      BY <3>1, <3>2
  <2> QED
    BY <2>4, <2>7, <2>8
<1> QED
  BY <1>2, <1>3

\* The labels of a file, one by one.
LEMMA LabelIs ==
  ASSUME NEW coco, NEW l
  PROVE  l \in LabelsOf(coco) <=>
           \E g \in Range(coco.images), a \in Range(coco.anns) :
             g.id = a.image /\ l = [frame |-> g.frame, ann |-> a.id, class |-> ClassOf(coco, a)]
<1>1. ASSUME l \in LabelsOf(coco)
      PROVE  \E g \in Range(coco.images), a \in Range(coco.anns) :
               g.id = a.image /\ l = [frame |-> g.frame, ann |-> a.id, class |-> ClassOf(coco, a)]
  BY <1>1 DEF LabelsOf
<1>2. ASSUME NEW g \in Range(coco.images), NEW a \in Range(coco.anns), g.id = a.image,
             l = [frame |-> g.frame, ann |-> a.id, class |-> ClassOf(coco, a)]
      PROVE  l \in LabelsOf(coco)
  <2>1. <<g, a>> \in {q \in Range(coco.images) \X Range(coco.anns) : q[1].id = q[2].image}
    BY <1>2
  <2> QED
    BY <1>2, <2>1 DEF LabelsOf
<1> QED
  BY <1>1, <1>2

\* The splits of a capture hold, together, its frames and its labels, each
\* where the hash sends it, unless an id sends one image to two splits: then
\* they have frames in common.
LEMMA NormalizeFaith ==
  ASSUME NEW j, NEW coco, IsCoco(coco), NEW o,
         o.frames = {At(f, AssignSplit(f, j.ratios)) : f \in Listed(coco)}, o.labels = LabelsOf(coco)
  PROVE  Faith(NormalizeOut(j, coco), o)
<1> DEFINE d == NormalizeOut(j, coco)
           split(sp) == SplitCoco(coco, j.ratios, sp)
           assigned(sp) == Assigned(coco, j.ratios, sp)
<1>1. d.coco = [sp \in Splits |-> Doc(split(sp))]
  BY DEF NormalizeOut, AbsentDir
<1> HIDE DEF d
<1> SUFFICES ASSUME \A sp \in Splits : Whole(d.coco[sp]), Disjoint(d)
             PROVE  Inventory(d).frames = o.frames /\ Inventory(d).labels = o.labels
  BY DEF Faith, d
<1>2. \A sp \in Splits : d.coco[sp].doc = split(sp)
  BY <1>1 DEF Doc
<1>3. Parsed(d) = Splits
  BY DEF Parsed
<1>4. /\ Inventory(d).frames = UNION {{At(f, sp) : f \in Listed(split(sp))} : sp \in Splits}
      /\ Inventory(d).labels = UNION {LabelsOf(split(sp)) : sp \in Splits}
  BY <1>2, <1>3 DEF Inventory
<1>5. \A sp : /\ Range(split(sp).images) = {g \in Range(coco.images) : g.id \in assigned(sp)}
              /\ Range(split(sp).anns) = {a \in Range(coco.anns) : a.image \in assigned(sp)}
              /\ split(sp).cats = coco.cats
  BY SplitOf
<1>6. \A g \in Range(coco.images) : /\ AssignSplit(g.frame, j.ratios) \in Splits
                                    /\ g.id \in assigned(AssignSplit(g.frame, j.ratios))
  BY DEF AssignSplit, Splits, Assigned
<1>7. \A c : Listed(c) = {g.frame : g \in Range(c.images)}
  BY DEF Listed, Range
<1>8. \A s, t \in Splits : s # t => Listed(split(s)) \cap Listed(split(t)) = {}
  BY <1>2 DEF Disjoint
<1> HIDE DEF split, assigned
<1>9. Inventory(d).frames = o.frames
  <2>1. ASSUME NEW x \in Inventory(d).frames PROVE x \in o.frames
    <3>1. PICK sp \in Splits : \E f \in Listed(split(sp)) : x = At(f, sp)
      BY <1>4
    <3>2. PICK g \in Range(coco.images) : g.frame \in Listed(split(sp)) /\ x = At(g.frame, sp)
      BY <1>5, <1>7, <3>1
    <3> DEFINE t == AssignSplit(g.frame, j.ratios)
    <3>3. g.frame \in Listed(split(t)) /\ t \in Splits
      BY <1>5, <1>6, <1>7
    <3>4. t = sp
      BY <1>8, <3>2, <3>3
    <3> HIDE DEF t
    <3> QED
      BY <1>7, <3>2, <3>4 DEF t
  <2>2. ASSUME NEW x \in o.frames PROVE x \in Inventory(d).frames
    <3>1. PICK g \in Range(coco.images) : x = At(g.frame, AssignSplit(g.frame, j.ratios))
      BY <1>7
    <3> DEFINE t == AssignSplit(g.frame, j.ratios)
    <3>3. g.frame \in Listed(split(t)) /\ t \in Splits /\ x = At(g.frame, t)
      BY <1>5, <1>6, <1>7, <3>1
    <3> HIDE DEF t
    <3> QED
      BY <1>4, <3>3
  <2> QED
    BY <2>1, <2>2
<1>10. \A sp, a : ClassOf(split(sp), a) = ClassOf(coco, a)
  BY <1>5 DEF ClassOf
<1>11. Inventory(d).labels = o.labels
  <2>1. ASSUME NEW l \in Inventory(d).labels PROVE l \in o.labels
    <3>1. PICK sp \in Splits : l \in LabelsOf(split(sp))
      BY <1>4
    <3>2. PICK g \in Range(split(sp).images), a \in Range(split(sp).anns) :
            g.id = a.image /\ l = [frame |-> g.frame, ann |-> a.id, class |-> ClassOf(split(sp), a)]
      BY <3>1, LabelIs
    <3>3. g \in Range(coco.images) /\ a \in Range(coco.anns)
      BY <1>5
    <3> QED
      BY <1>10, <3>2, <3>3, LabelIs
  <2>2. ASSUME NEW l \in o.labels PROVE l \in Inventory(d).labels
    <3>1. PICK g \in Range(coco.images), a \in Range(coco.anns) :
            g.id = a.image /\ l = [frame |-> g.frame, ann |-> a.id, class |-> ClassOf(coco, a)]
      BY <2>2, LabelIs
    <3> DEFINE t == AssignSplit(g.frame, j.ratios)
    <3>2. t \in Splits /\ g \in Range(split(t).images) /\ a \in Range(split(t).anns)
      BY <1>5, <1>6, <3>1
    <3> HIDE DEF t
    <3>3. l \in LabelsOf(split(t))
      BY <1>10, <3>1, <3>2, LabelIs
    <3> QED
      BY <1>4, <3>2, <3>3
  <2> QED
    BY <2>1, <2>2
<1> QED
  BY <1>9, <1>11

LEMMA NormalizeRegular ==
  ASSUME NEW j, NEW coco, IsCoco(coco), OnceEach(coco)
  PROVE  Regular(NormalizeOut(j, coco))
<1> DEFINE d == NormalizeOut(j, coco)
<1>1. d.coco = [sp \in Splits |-> Doc(SplitCoco(coco, j.ratios, sp))] /\ d.classes = Doc(coco.cats)
  BY DEF NormalizeOut, AbsentDir
<1> HIDE DEF d
<1>2. \A sp \in Splits : d.coco[sp].doc = SplitCoco(coco, j.ratios, sp) /\ d.classes.doc = coco.cats
  BY <1>1 DEF Doc
<1>3. Regular(d)
  BY <1>2, SplitOf DEF Regular
<1> QED
  BY <1>3 DEF d

\* A migration keeps the images, and the labels that are not buoys.
LEMMA MigrateFaith ==
  ASSUME NEW d, DirectoryOK(d), Regular(d), Whole(d.classes),
         d.classes.doc \in {CANONICAL_CATEGORIES, LEGACY_CATEGORIES}, NEW o,
         o.frames = Inventory(d).frames, o.labels = {l \in Inventory(d).labels : l.class # "buoys"}
  PROVE  Regular(MigrateOut(d)) /\ Faith(MigrateOut(d), o)
<1> DEFINE out == MigrateOut(d)
           new(sp) == RemapSplit(d.coco[sp].doc, d.classes.doc)
<1>1. /\ out.coco = [sp \in Splits |-> IF sp \in Readable(d) THEN Doc(new(sp)) ELSE Missing]
      /\ out.classes = Doc(CANONICAL_CATEGORIES)
  BY MigrateOutOf
<1> HIDE DEF out
<1>2. ASSUME NEW sp \in Splits, Whole(out.coco[sp])
      PROVE  sp \in Readable(d) /\ out.coco[sp].doc = new(sp)
  BY <1>1, <1>2 DEF Missing, Whole, Doc
<1>3. ASSUME NEW sp \in Readable(d)
      PROVE  /\ sp \in Parsed(d) /\ IsCoco(d.coco[sp].doc) /\ OnceEach(d.coco[sp].doc)
             /\ new(sp).images = d.coco[sp].doc.images /\ new(sp).cats = CANONICAL_CATEGORIES
             /\ LabelsOf(new(sp)) = {l \in LabelsOf(d.coco[sp].doc) : l.class # "buoys"}
  <2>1. sp \in Splits /\ sp \in Parsed(d) /\ Whole(d.coco[sp]) /\ Remappable(d.coco[sp].doc, d.classes.doc)
    BY DEF Readable, Parsed
  <2>2. IsCoco(d.coco[sp].doc)
    BY <2>1 DEF DirectoryOK, CocoFile
  <2>3. OnceEach(d.coco[sp].doc) /\ d.coco[sp].doc.cats = d.classes.doc
    BY <2>1 DEF Regular
  <2> QED
    BY <2>1, <2>2, <2>3, RemapLabels
<1> HIDE DEF new
<1>4. Regular(out)
  <2> SUFFICES ASSUME NEW sp \in Splits, Whole(out.coco[sp])
               PROVE  OnceEach(out.coco[sp].doc) /\ out.coco[sp].doc.cats = out.classes.doc
    BY DEF Regular
  <2>1. out.classes.doc = CANONICAL_CATEGORIES
    BY <1>1 DEF Doc
  <2> QED
    BY <1>2, <1>3, <2>1 DEF OnceEach
<1>5. ASSUME \A sp \in Splits : Whole(out.coco[sp])
      PROVE  Inventory(out).frames = o.frames /\ Inventory(out).labels = o.labels
  <2>1. Parsed(out) = Splits /\ Parsed(d) = Splits /\ \A sp \in Splits : sp \in Readable(d)
    BY <1>2, <1>3, <1>5 DEF Parsed
  <2>2. \A sp \in Splits : Listed(out.coco[sp].doc) = Listed(d.coco[sp].doc)
    BY <1>2, <1>3, <1>5, <2>1 DEF Listed
  <2>3. \A sp \in Splits : LabelsOf(out.coco[sp].doc) = {l \in LabelsOf(d.coco[sp].doc) : l.class # "buoys"}
    BY <1>2, <1>3, <1>5, <2>1
  <2>4. /\ Inventory(out).labels = UNION {LabelsOf(out.coco[sp].doc) : sp \in Splits}
        /\ Inventory(d).labels = UNION {LabelsOf(d.coco[sp].doc) : sp \in Splits}
    BY <2>1 DEF Inventory
  <2>5. Inventory(out).labels = {l \in Inventory(d).labels : l.class # "buoys"}
    BY <2>3, <2>4
  <2>6. Inventory(out).frames = Inventory(d).frames
    BY <2>1, <2>2 DEF Inventory
  <2> QED
    BY <2>5, <2>6
<1> QED
  BY <1>4, <1>5 DEF Faith, out

(***************************************************************************)
(* Counting                                                                *)
(***************************************************************************)
\* As many as there are places, if no two are the same.
LEMMA CountOnce ==
  ASSUME NEW n \in Nat, NEW S, NEW f \in [1..n -> S], \A i, k \in 1..n : f[i] = f[k] => i = k,
         \A x \in S : \E i \in 1..n : x = f[i]
  PROVE  IsFiniteSet(S) /\ Cardinality(S) = n
<1>1. f \in Bijection(1..n, S)
  BY DEF Bijection, Injection, IsInjective, Surjection
<1>2. ExistsBijection(1..n, S)
  BY <1>1 DEF ExistsBijection
<1>3. IsFiniteSet(S)
  BY <1>2, FS_NatBijection
<1> QED
  BY <1>2, <1>3, FS_CountingElements

LEMMA CountThree ==
  ASSUME NEW A, NEW B, NEW C, IsFiniteSet(A), IsFiniteSet(B), IsFiniteSet(C),
         A \cap B = {}, A \cap C = {}, B \cap C = {}
  PROVE  Cardinality(A \cup B \cup C) = Cardinality(A) + Cardinality(B) + Cardinality(C)
<1>1. Cardinality({}) = 0 /\ (A \cup B) \cap C = {}
  BY FS_EmptySet
<1>2. IsFiniteSet(A \cup B) /\ Cardinality(A \cup B) = Cardinality(A) + Cardinality(B) - Cardinality({})
  BY FS_Union
<1> DEFINE D == A \cup B
<1>3. Cardinality(D \cup C) = Cardinality(D) + Cardinality(C) - Cardinality({})
  <2>1. D \cap C = {} /\ IsFiniteSet(D)
    BY <1>1, <1>2
  <2> HIDE DEF D
  <2> QED
    BY <2>1, FS_Union
<1>4. Cardinality(A) \in Nat /\ Cardinality(B) \in Nat /\ Cardinality(C) \in Nat
  BY FS_CardinalityType
<1> QED
  BY <1>1, <1>2, <1>3, <1>4

\* As many frames as images.
LEMMA FramesCounted ==
  ASSUME NEW coco, IsCoco(coco), OnceEach(coco), NEW sp
  PROVE  /\ IsFiniteSet({At(x, sp) : x \in Listed(coco)})
         /\ Cardinality({At(x, sp) : x \in Listed(coco)}) = Len(coco.images)
<1> DEFINE n == Len(coco.images)
           f == [i \in 1..n |-> At(coco.images[i].frame, sp)]
           frames == {At(x, sp) : x \in Listed(coco)}
<1>1. n \in Nat /\ DOMAIN coco.images = 1..n
  BY LenProperties DEF IsCoco
<1>2. \A x, y : At(x, sp) = At(y, sp) => x = y
  BY DEF At
<1>3. \A i \in 1..n : f[i] \in frames
  BY <1>1 DEF Listed
<1>4. \A i, k \in 1..n : f[i] = f[k] => i = k
  BY <1>1, <1>2 DEF OnceEach
<1>5. \A x \in frames : \E i \in 1..n : x = f[i]
  BY <1>1 DEF Listed
<1>6. f \in [1..n -> frames]
  BY <1>3
<1> HIDE DEF n, f, frames
<1>7. IsFiniteSet(frames) /\ Cardinality(frames) = n
  BY <1>1, <1>4, <1>5, <1>6, CountOnce
<1> QED
  BY <1>7 DEF frames, n

\* As many labels as annotations.
LEMMA LabelsCounted ==
  ASSUME NEW coco, IsCoco(coco), NEW images, CocoValid(coco, images)
  PROVE  IsFiniteSet(LabelsOf(coco)) /\ Cardinality(LabelsOf(coco)) = Len(coco.anns)
<1> DEFINE n == Len(coco.anns)
           place(i) == CHOOSE k \in DOMAIN coco.images : coco.images[k].id = coco.anns[i].image
           f == [i \in 1..n |-> [frame |-> coco.images[place(i)].frame, ann |-> coco.anns[i].id,
                                 class |-> ClassOf(coco, coco.anns[i])]]
<1>1. n \in Nat /\ DOMAIN coco.anns = 1..n
  BY LenProperties DEF IsCoco
<1>2. /\ \A i, k \in DOMAIN coco.images : coco.images[i].id = coco.images[k].id => i = k
      /\ \A i, k \in 1..n : coco.anns[i].id = coco.anns[k].id => i = k
      /\ \A i \in 1..n : coco.anns[i].image \in {coco.images[k].id : k \in DOMAIN coco.images}
  BY <1>1 DEF CocoValid, UniqueIds, Ids
<1>3. \A i \in 1..n : place(i) \in DOMAIN coco.images /\ coco.images[place(i)].id = coco.anns[i].image
  BY <1>2
<1> HIDE DEF place
<1>4. \A i \in 1..n : f[i] \in LabelsOf(coco)
  <2> SUFFICES ASSUME NEW i \in 1..n PROVE f[i] \in LabelsOf(coco)
    OBVIOUS
  <2>1. coco.images[place(i)] \in Range(coco.images) /\ coco.anns[i] \in Range(coco.anns)
    BY <1>1, <1>3 DEF Range
  <2>2. f[i] = [frame |-> coco.images[place(i)].frame, ann |-> coco.anns[i].id, class |-> ClassOf(coco, coco.anns[i])]
    OBVIOUS
  <2> HIDE DEF f
  <2> QED
    BY <1>3, <2>1, <2>2, LabelIs
<1>5. \A i, k \in 1..n : f[i] = f[k] => i = k
  <2>1. \A i \in 1..n : f[i].ann = coco.anns[i].id
    OBVIOUS
  <2> HIDE DEF f
  <2> QED
    BY <1>2, <2>1
<1>6. ASSUME NEW l \in LabelsOf(coco) PROVE \E i \in 1..n : l = f[i]
  <2>1. PICK g \in Range(coco.images), a \in Range(coco.anns) :
          g.id = a.image /\ l = [frame |-> g.frame, ann |-> a.id, class |-> ClassOf(coco, a)]
    BY LabelIs
  <2>2. PICK k \in DOMAIN coco.images : g = coco.images[k]
    BY DEF Range
  <2>3. PICK i \in 1..n : a = coco.anns[i]
    BY <1>1 DEF Range
  <2>4. place(i) = k
    BY <1>2, <1>3, <2>1, <2>2, <2>3
  <2> QED
    BY <2>1, <2>2, <2>3, <2>4
<1>7. f \in [1..n -> LabelsOf(coco)]
  <2>1. f = [i \in 1..n |-> f[i]]
    OBVIOUS
  <2> HIDE DEF f
  <2> QED
    BY <1>4, <2>1
<1> HIDE DEF n, f
<1>8. IsFiniteSet(LabelsOf(coco)) /\ Cardinality(LabelsOf(coco)) = n
  BY <1>1, <1>5, <1>6, <1>7, CountOnce
<1> QED
  BY <1>8 DEF n

\* What a directory that validates holds is what its sentinel counts.
LEMMA ValidCounts ==
  ASSUME NEW d, DirectoryOK(d), Regular(d), Validates(d)
  PROVE  LET now == Inventory(d)
         IN /\ Cardinality(now.frames) = d.info.doc.images
            /\ Cardinality(now.labels) = LabelCount(d)
            /\ \A o \in now.frames : o.frame \in d.images[o.split]
<1> DEFINE coco(sp) == d.coco[sp].doc
           frames(sp) == {At(x, sp) : x \in Listed(coco(sp))}
           labels(sp) == LabelsOf(coco(sp))
<1>1. \A sp \in Splits : Whole(d.coco[sp]) /\ CocoValid(coco(sp), d.images[sp])
  BY DEF Validates
<1>2. \A sp \in Splits : IsCoco(coco(sp)) /\ OnceEach(coco(sp))
  BY <1>1 DEF DirectoryOK, CocoFile, Regular
<1>3. Parsed(d) = Splits
  BY <1>1 DEF Parsed
<1>4. /\ Inventory(d).frames = UNION {frames(sp) : sp \in Splits}
      /\ Inventory(d).labels = UNION {labels(sp) : sp \in Splits}
  BY <1>3 DEF Inventory
<1>5. \A sp \in Splits : /\ IsFiniteSet(frames(sp)) /\ Cardinality(frames(sp)) = Len(coco(sp).images)
                         /\ IsFiniteSet(labels(sp)) /\ Cardinality(labels(sp)) = Len(coco(sp).anns)
  BY <1>1, <1>2, FramesCounted, LabelsCounted
<1>6. d.info.doc.images = Len(coco("train").images) + Len(coco("val").images) + Len(coco("test").images)
  BY DEF Validates, CountsAgree
<1>7. \A s, t \in Splits : s # t => frames(s) \cap frames(t) = {}
  BY DEF At
<1>8. \A s, t \in Splits : s # t => labels(s) \cap labels(t) = {}
  <2> SUFFICES ASSUME NEW s \in Splits, NEW t \in Splits, s # t, NEW l \in labels(s), l \in labels(t) PROVE FALSE
    OBVIOUS
  <2>1. \A sp \in Splits : \A x \in labels(sp) : x.ann \in {a.id : a \in Range(coco(sp).anns)}
    BY LabelIs
  <2>2. \A sp \in Splits : {a.id : a \in Range(coco(sp).anns)} = Ids(coco(sp).anns)
    BY DEF Ids, Range
  <2>3. Ids(coco(s).anns) \cap Ids(coco(t).anns) = {}
    BY DEF Validates, Disjoint
  <2> HIDE DEF labels, coco
  <2>4. l.ann \in Ids(coco(s).anns) /\ l.ann \in Ids(coco(t).anns)
    BY <2>1, <2>2
  <2> QED
    BY <2>3, <2>4
<1>9. \A o \in Inventory(d).frames : o.frame \in d.images[o.split]
  <2> SUFFICES ASSUME NEW o \in Inventory(d).frames PROVE o.frame \in d.images[o.split]
    OBVIOUS
  <2>1. PICK sp \in Splits : o \in frames(sp)
    BY <1>4
  <2>2. o.split = sp /\ o.frame \in Listed(coco(sp))
    BY <2>1 DEF At
  <2> QED
    BY <1>1, <2>2 DEF CocoValid
<1> HIDE DEF coco, frames, labels
<1>10. Splits = {"train", "val", "test"}
  BY DEF Splits
<1>11. Cardinality(Inventory(d).frames) = d.info.doc.images
  <2>1. Inventory(d).frames = frames("train") \cup frames("val") \cup frames("test")
    BY <1>4, <1>10
  <2>2. Cardinality(Inventory(d).frames)
          = Cardinality(frames("train")) + Cardinality(frames("val")) + Cardinality(frames("test"))
    BY <1>5, <1>7, <1>10, <2>1, CountThree
  <2> QED
    BY <1>5, <1>6, <1>10, <2>2
<1>12. Cardinality(Inventory(d).labels) = LabelCount(d)
  <2>1. Inventory(d).labels = labels("train") \cup labels("val") \cup labels("test")
    BY <1>4, <1>10
  <2>2. LabelCount(d) = Len(coco("train").anns) + Len(coco("val").anns) + Len(coco("test").anns)
    BY DEF LabelCount, coco
  <2>3. Cardinality(Inventory(d).labels)
          = Cardinality(labels("train")) + Cardinality(labels("val")) + Cardinality(labels("test"))
    BY <1>5, <1>8, <1>10, <2>1, CountThree
  <2> QED
    BY <1>5, <1>10, <2>2, <2>3
<1> QED
  BY <1>9, <1>11, <1>12

(***************************************************************************)
(* The invariant, step by step                                             *)
(***************************************************************************)
\* What is gone makes nothing false.
LEMMA ShrunkKeeps ==
  ASSUME NEW d, NEW e, e.coco \in {d.coco, AbsentDir.coco}, e.classes \in {d.classes, Missing}
  PROVE  /\ Regular(d) => Regular(e)
         /\ \A o : Faith(d, o) => Faith(e, o)
         /\ \A out : WrittenBy(d, out) => WrittenBy(e, out)
<1>1. ~Whole(Missing) /\ \A sp \in Splits : ~Whole(AbsentDir.coco[sp])
  BY DEF Missing, Whole, AbsentDir
<1>2. "train" \in Splits
  BY DEF Splits
<1>3. Regular(d) => Regular(e)
  BY <1>1 DEF Regular
<1>4. \A out : WrittenBy(d, out) => WrittenBy(e, out)
  BY <1>1 DEF WrittenBy
<1>5. ASSUME NEW o, Faith(d, o) PROVE Faith(e, o)
  <2>1. CASE e.coco = AbsentDir.coco
    BY <1>1, <1>2, <2>1 DEF Faith
  <2>2. CASE e.coco = d.coco
    <3>1. Disjoint(e) <=> Disjoint(d)
      BY <2>2 DEF Disjoint
    <3>2. Inventory(e).frames = Inventory(d).frames /\ Inventory(e).labels = Inventory(d).labels
      BY <2>2 DEF Inventory, Parsed
    <3> QED
      BY <1>5, <2>2, <3>1, <3>2 DEF Faith
  <2> QED
    BY <2>1, <2>2
<1> QED
  BY <1>3, <1>4, <1>5

Dwindles(d, e) == e.coco \in {d.coco, AbsentDir.coco} /\ e.classes \in {d.classes, Missing}
Wanes(f, g) == g = f \/ g = Missing

\* No step keeps on writing but with the list it had, and as long as documents
\* only go, what the invariant says of them stays true.
LEMMA FaithKept ==
  ASSUME DatasetInv, FaithInv, origin' = origin,
         \A s \in StagingIds : Wanes(staging[s].coco, staging'[s].coco),
         \A d \in DatasetIds : Dwindles(raw[d], raw'[d]),
         imp'.pc = "write" => imp.pc = "write" /\ imp'.out = imp.out /\ imp'.job.to = imp.job.to,
         SourceClasses'
  PROVE  FaithInv'
<1>1. \A s \in StagingIds : Whole(staging'[s].coco) => OnceEach(staging'[s].coco.doc)
  BY DEF FaithInv, Wanes, Missing, Whole
<1>2. \A d \in DatasetIds : Regular(raw'[d]) /\ Faith(raw'[d], origin'[d])
  <2> SUFFICES ASSUME NEW d \in DatasetIds PROVE Regular(raw'[d]) /\ Faith(raw'[d], origin[d])
    OBVIOUS
  <2> QED
    BY ShrunkKeeps DEF FaithInv, Dwindles
<1>3. OutFaithful'
  <2> SUFFICES ASSUME imp'.pc = "write"
               PROVE  Regular(imp'.out) /\ Faith(imp'.out, origin'[Job'.to]) /\ WrittenBy(Target', imp'.out)
    BY DEF OutFaithful
  <2>1. imp.pc = "write" /\ imp'.out = imp.out /\ Job'.to = Job.to /\ Job.to \in DatasetIds
    BY JobFacts DEF Job
  <2>2. Regular(imp.out) /\ Faith(imp.out, origin[Job.to]) /\ WrittenBy(raw[Job.to], imp.out)
    BY <2>1 DEF FaithInv, OutFaithful, Target
  <2>3. WrittenBy(raw'[Job.to], imp.out)
    BY <2>1, <2>2, ShrunkKeeps DEF Dwindles
  <2> QED
    BY <2>1, <2>2, <2>3 DEF Target
<1> QED
  BY <1>1, <1>2, <1>3 DEF FaithInv

LEMMA FaithStart ==
  ASSUME DatasetInv, FaithInv, ImportStart
  PROVE  FaithInv'
<1>1. UNCHANGED <<staging, raw, origin>>
  BY DEF ImportStart
<1>2. \/ imp'.pc = "idle"
      \/ SourceReady(Head(jobs)) /\ imp'.pc \in {"clear", "read"} /\ imp'.job = Head(jobs)
  BY DEF ImportStart, Ended
<1>3. SourceClasses'
  BY <1>1, <1>2 DEF SourceClasses, SourceReady, Job, Jobs
<1> QED
  BY <1>1, <1>2, <1>3, FaithKept DEF Dwindles, Wanes

\* The old target or a dropped source goes.
LEMMA FaithRemoval ==
  ASSUME DatasetInv, FaithInv, ClearTarget \/ DropRaw
  PROVE  FaithInv'
<1>1. UNCHANGED <<staging, origin>>
  BY DEF ClearTarget, DropRaw
<1>2. CASE ClearTarget
  <2>1. /\ imp.pc = "clear" /\ Job.to \in DatasetIds /\ imp = [pc |-> "clear", job |-> imp.job]
        /\ Job.op = "migrate" => Job.from \in DatasetIds /\ Job.from # Job.to
    BY <1>2, JobFacts DEF ClearTarget, DatasetInv, ImportShape
  <2>2. imp'.pc \in {"clear", "read"} /\ imp'.job = imp.job
    BY <1>2, <2>1 DEF ClearTarget
  <2>3. (\A d \in DatasetIds : Dwindles(raw[d], raw'[d])) /\ \A d \in DatasetIds : d # Job.to => raw'[d] = raw[d]
    BY <1>2, <2>1, ClearsMoves DEF ClearTarget, Shrinks, Dwindles
  <2>4. SourceClasses'
    BY <2>1, <2>2, <2>3 DEF FaithInv, SourceClasses, Job
  <2> QED
    BY <1>1, <2>2, <2>3, <2>4, FaithKept DEF Wanes
<1>3. CASE DropRaw
  <2>1. imp.pc = "drop" /\ Job.from \in DatasetIds
    BY <1>3, JobFacts DEF DropRaw
  <2>2. imp'.pc \in {"drop", "idle"}
    BY <1>3, <2>1 DEF DropRaw, Ended
  <2>3. \A d \in DatasetIds : Dwindles(raw[d], raw'[d])
    BY <1>3, <2>1, ClearsMoves DEF DropRaw, Shrinks, Dwindles
  <2>4. SourceClasses'
    BY <2>2 DEF SourceClasses
  <2> QED
    BY <1>1, <2>2, <2>3, <2>4, FaithKept DEF Wanes
<1> QED
  BY <1>2, <1>3

\* A command has read its source: what it is to leave is what it read.
LEMMA FaithReads ==
  ASSUME DatasetInv, FaithInv, imp.pc = "read", ~Job.dry, staging' = staging,
         NEW out, NEW what, imp'.pc = "write", imp'.job = Job, imp'.out = out,
         origin' = [origin EXCEPT ![Job.to] = what],
         raw' = raw \/ raw' = [raw EXCEPT ![Job.to].there = TRUE],
         Regular(out), Faith(out, what)
  PROVE  FaithInv'
<1>0. /\ Job.to \in DatasetIds /\ raw[Job.to] = AbsentDir /\ DOMAIN raw = DatasetIds /\ DOMAIN origin = DatasetIds
      /\ Job' = Job
  BY JobFacts DEF DatasetInv, DatasetTypeOK, OriginOK, TargetOK, Target, Job
<1>1. /\ \A d \in DatasetIds : d # Job.to => raw'[d] = raw[d]
      /\ raw'[Job.to].coco = AbsentDir.coco /\ raw'[Job.to].classes = Missing
  <2>1. AbsentDir.classes = Missing
    BY AbsentOK
  <2>2. CASE raw' = [raw EXCEPT ![Job.to].there = TRUE]
    <3> DEFINE e == [AbsentDir EXCEPT !.there = TRUE]
    <3>1. e.coco = AbsentDir.coco /\ e.classes = Missing /\ raw' = [raw EXCEPT ![Job.to] = e]
      BY <1>0, <2>2 DEF AbsentDir
    <3> HIDE DEF e
    <3> QED
      BY <1>0, <3>1
  <2> QED
    BY <1>0, <2>1, <2>2
<1>2. ~Whole(Missing) /\ \A sp \in Splits : ~Whole(AbsentDir.coco[sp])
  BY DEF Missing, Whole, AbsentDir
<1>3. "train" \in Splits
  BY DEF Splits
<1>4. Regular(raw'[Job.to]) /\ Faith(raw'[Job.to], what) /\ WrittenBy(raw'[Job.to], out)
  BY <1>1, <1>2, <1>3 DEF Regular, Faith, WrittenBy
<1>5. origin'[Job.to] = what /\ \A d \in DatasetIds : d # Job.to => origin'[d] = origin[d]
  BY <1>0
<1>6. \A d \in DatasetIds : Regular(raw'[d]) /\ Faith(raw'[d], origin'[d])
  BY <1>1, <1>4, <1>5 DEF FaithInv
<1>7. OutFaithful'
  BY <1>0, <1>4, <1>5 DEF OutFaithful, Target
<1>8. SourceClasses'
  BY DEF SourceClasses
<1> QED
  BY <1>6, <1>7, <1>8 DEF FaithInv

LEMMA FaithNormalizes ==
  ASSUME DatasetInv, FaithInv, NormalizeRead
  PROVE  FaithInv'
<1> DEFINE file == staging[Job.from].coco
           what == [frames |-> {At(f, AssignSplit(f, Job.ratios)) : f \in Listed(file.doc)},
                    labels |-> LabelsOf(file.doc), splits |-> Splits,
                    files |-> IF Job.images THEN staging[Job.from].images \cap Listed(file.doc) ELSE {}]
<1>0. imp.pc = "read" /\ Job.op = "normalize" /\ staging' = staging /\ Job.from \in StagingIds /\ Job.dry = FALSE
  BY JobFacts DEF NormalizeRead
<1>1. CASE Ended("failed") /\ UNCHANGED <<raw, origin>>
  <2>1. imp'.pc = "idle"
    BY <1>1 DEF Ended
  <2> QED
    BY <1>0, <1>1, <2>1, FaithKept DEF Dwindles, Wanes, SourceClasses
<1>2. CASE /\ Whole(file)
           /\ imp' = [pc |-> "write", open |-> FALSE, job |-> Job, out |-> NormalizeOut(Job, file.doc),
                      todo |-> NormalizeTodo(Job, file.doc)]
           /\ raw' = [raw EXCEPT ![Job.to].there = TRUE]
           /\ origin' = [origin EXCEPT ![Job.to] = what]
  <2>1. IsCoco(file.doc) /\ OnceEach(file.doc)
    BY <1>0, <1>2 DEF DatasetInv, DatasetTypeOK, StagingOK, CocoFile, FaithInv
  <2>2. what.frames = {At(f, AssignSplit(f, Job.ratios)) : f \in Listed(file.doc)} /\ what.labels = LabelsOf(file.doc)
    OBVIOUS
  <2> DEFINE out == NormalizeOut(Job, file.doc)
             todo == NormalizeTodo(Job, file.doc)
  <2>3. Regular(out)
    BY <2>1, NormalizeRegular
  <2> HIDE DEF what
  <2>4. Faith(out, what)
    BY <2>1, <2>2, NormalizeFaith
  <2> HIDE DEF out, todo, file
  <2>5. imp'.pc = "write" /\ imp'.job = Job /\ imp'.out = out
    BY <1>2 DEF out, todo
  <2> QED
    BY <1>0, <1>2, <2>3, <2>4, <2>5, FaithReads
<1> QED
  BY <1>1, <1>2 DEF NormalizeRead

LEMMA FaithMigrates ==
  ASSUME DatasetInv, FaithInv, MigrateRead
  PROVE  FaithInv'
<1> DEFINE d == raw[Job.from]
           what == [Inventory(d) EXCEPT !.labels = {l \in @ : l.class # "buoys"}]
<1>0. /\ imp.pc = "read" /\ Job.op = "migrate" /\ UNCHANGED <<staging, raw>> /\ Job.from \in DatasetIds
      /\ DirectoryOK(d) /\ Job.dry \in BOOLEAN
  BY JobFacts DEF MigrateRead, DatasetInv, DatasetTypeOK
<1>1. CASE (\E r : Ended(r)) /\ UNCHANGED origin
  <2>1. imp'.pc = "idle"
    BY <1>1 DEF Ended
  <2> QED
    BY <1>0, <1>1, <2>1, FaithKept DEF Dwindles, Wanes, SourceClasses
<1>2. CASE /\ ~Job.dry
           /\ imp' = [pc |-> "write", open |-> FALSE, job |-> Job, out |-> MigrateOut(d), todo |-> MigrateTodo(d)]
           /\ origin' = [origin EXCEPT ![Job.to] = what]
  <2>1. Regular(d) /\ Whole(d.classes) /\ d.classes.doc \in {CANONICAL_CATEGORIES, LEGACY_CATEGORIES}
    BY <1>0 DEF FaithInv, SourceClasses
  <2>2. what.frames = Inventory(d).frames /\ what.labels = {l \in Inventory(d).labels : l.class # "buoys"}
    BY DEF Inventory
  <2> DEFINE out == MigrateOut(d)
             todo == MigrateTodo(d)
  <2> HIDE DEF what
  <2>3. Regular(out) /\ Faith(out, what)
    BY <1>0, <2>1, <2>2, MigrateFaith
  <2> HIDE DEF out, todo, d
  <2>4. imp'.pc = "write" /\ imp'.job = Job /\ imp'.out = out
    BY <1>2 DEF out, todo
  <2> QED
    BY <1>0, <1>2, <2>3, <2>4, FaithReads
<1> QED
  BY <1>1, <1>2 DEF MigrateRead

\* A directory with nothing but documents of a faithful one is faithful.
LEMMA WrittenIsFaithful ==
  ASSUME NEW e, NEW out, NEW o, WrittenBy(e, out), Regular(out), Faith(out, o)
  PROVE  Regular(e) /\ Faith(e, o)
<1>1. Regular(e)
  BY DEF Regular, WrittenBy
<1>2. ASSUME \A sp \in Splits : Whole(e.coco[sp]), Disjoint(e)
      PROVE  Inventory(e).frames = o.frames /\ Inventory(e).labels = o.labels
  <2>1. \A sp \in Splits : e.coco[sp] = out.coco[sp]
    BY <1>2 DEF WrittenBy
  <2>2. Disjoint(out)
    BY <1>2, <2>1 DEF Disjoint
  <2>3. Parsed(e) = Splits /\ Parsed(out) = Splits
    BY <1>2, <2>1 DEF Parsed
  <2>4. Inventory(e).frames = Inventory(out).frames /\ Inventory(e).labels = Inventory(out).labels
    BY <2>1, <2>3 DEF Inventory
  <2> QED
    BY <1>2, <2>1, <2>2, <2>4 DEF Faith
<1> QED
  BY <1>1, <1>2 DEF Faith

LEMMA FaithWritesDoc ==
  ASSUME DatasetInv, FaithInv, ImportWrite, WriteDoc
  PROVE  FaithInv'
<1> DEFINE to == Job.to
           d0 == raw[to]
           file == IF imp.open THEN DocAt(imp.out) ELSE Torn
           e == WithDoc(d0, file)
<1>0. /\ imp.pc = "write" /\ imp.todo # <<>> /\ Item.what \in {"coco", "manifest", "classes", "info", "report"}
      /\ Item \in TodoItems /\ to \in DatasetIds /\ imp.open \in BOOLEAN
      /\ DOMAIN raw = DatasetIds /\ (\A d \in DatasetIds : DirectoryOK(raw[d]))
      /\ UNCHANGED <<staging, origin>>
  BY Writing DEF ImportWrite, WriteDoc
<1>1. raw' = [raw EXCEPT ![to] = e] /\ IF imp.open THEN NextItem ELSE Opened
  BY <1>0 DEF WriteDoc
<1>2. imp'.pc = "write" /\ imp'.out = imp.out /\ Job'.to = to
  BY <1>0, <1>1, NextFacts, GoesOnFacts, OpenedFacts
<1>3. /\ e.coco = IF Item.what = "coco" THEN [d0.coco EXCEPT ![Item.split] = file] ELSE d0.coco
      /\ e.classes = IF Item.what = "classes" THEN file ELSE d0.classes
  <2> HIDE DEF file
  <2> QED
    BY <1>0, DocWritten
<1>4. /\ Whole(file) /\ Item.what = "coco" => file = imp.out.coco[Item.split]
      /\ Whole(file) /\ Item.what = "classes" => file = imp.out.classes
  BY DEF DocAt, Torn, Whole
<1> HIDE DEF file, e
<1>5. raw'[to] = e /\ \A d \in DatasetIds : d # to => raw'[d] = raw[d]
  BY <1>0, <1>1
<1>6. Regular(imp.out) /\ Faith(imp.out, origin[to]) /\ WrittenBy(d0, imp.out)
  BY <1>0 DEF FaithInv, OutFaithful, Target
<1>7. WrittenBy(e, imp.out)
  <2>1. ASSUME NEW sp \in Splits, Whole(e.coco[sp]) PROVE e.coco[sp] = imp.out.coco[sp]
    <3>1. DOMAIN d0.coco = Splits
      BY <1>0 DEF DirectoryOK
    <3>2. CASE Item.what = "coco" /\ sp = Item.split
      BY <1>3, <1>4, <2>1, <3>1, <3>2
    <3>3. CASE ~(Item.what = "coco" /\ sp = Item.split)
      <4>1. e.coco[sp] = d0.coco[sp]
        BY <1>3, <3>1, <3>3
      <4> QED
        BY <1>6, <2>1, <4>1 DEF WrittenBy
    <3> QED
      BY <3>2, <3>3
  <2>2. Whole(e.classes) => e.classes = imp.out.classes
    BY <1>3, <1>4, <1>6 DEF WrittenBy
  <2> QED
    BY <2>1, <2>2 DEF WrittenBy
<1>8. Regular(e) /\ Faith(e, origin[to])
  BY <1>6, <1>7, WrittenIsFaithful
<1>9. \A d \in DatasetIds : Regular(raw'[d]) /\ Faith(raw'[d], origin'[d])
  BY <1>0, <1>5, <1>8 DEF FaithInv
<1>10. OutFaithful'
  BY <1>0, <1>2, <1>5, <1>6, <1>7 DEF OutFaithful, Target
<1>11. SourceClasses'
  BY <1>2 DEF SourceClasses
<1> QED
  BY <1>0, <1>9, <1>10, <1>11 DEF FaithInv

LEMMA FaithImages ==
  ASSUME DatasetInv, FaithInv, ImportWrite, Probe \/ PlaceImage \/ Unreadable
  PROVE  FaithInv'
<1>0. imp.pc = "write" /\ imp.todo # <<>> /\ origin' = origin /\ Job.op \in {"normalize", "migrate"}
      /\ DOMAIN staging = StagingIds /\ \A s \in StagingIds : StagingOK(staging[s])
  BY Writing DEF ImportWrite, DatasetInv, DatasetTypeOK
<1>1. \A d \in DatasetIds : Dwindles(raw[d], raw'[d])
  BY PlaceImageBeside DEF SameDocs, Dwindles
<1>2. imp'.pc = "idle" \/ (imp'.pc = "write" /\ imp'.out = imp.out /\ imp'.job.to = imp.job.to)
  <2>1. imp'.pc = "idle" \/ GoesOn \/ (Opened /\ Item.what = "image")
    BY PlaceImageBeside
  <2>2. CASE GoesOn
    BY <1>0, <2>2, GoesOnFacts DEF Job
  <2>3. CASE Opened /\ Item.what = "image"
    BY <1>0, <2>3, OpenedFacts DEF Job
  <2> QED
    BY <2>1, <2>2, <2>3
<1>3. \A s \in StagingIds : staging'[s].coco = staging[s].coco
  <2>1. staging' = staging \/ staging' = [staging EXCEPT ![Job.from].images = @ \ {Item.frame}]
    BY DEF Probe, Unreadable, PlaceImage, SkipMissing, CopyFails, CopyImage, MoveImage, LinkImage
  <2>2. ASSUME NEW s \in StagingIds, staging' = [staging EXCEPT ![Job.from].images = @ \ {Item.frame}]
        PROVE  staging'[s].coco = staging[s].coco
    <3> DEFINE t == staging[s]
               u == [t EXCEPT !.images = @ \ {Item.frame}]
    <3>1. t = [there |-> t.there, coco |-> t.coco, images |-> t.images]
      BY <1>0 DEF StagingOK
    <3>2. u.coco = t.coco /\ (s = Job.from => staging'[s] = u) /\ (s # Job.from => staging'[s] = t)
      BY <1>0, <2>2, <3>1
    <3> HIDE DEF u
    <3> QED
      BY <3>2
  <2> QED
    BY <2>1, <2>2
<1>4. SourceClasses'
  BY <1>2 DEF SourceClasses
<1> QED
  BY <1>0, <1>1, <1>2, <1>3, <1>4, FaithKept DEF Wanes

\* Nothing of the imports but the staging directories changes.
LEMMA FaithBeside ==
  ASSUME DatasetInv, FaithInv, UNCHANGED <<raw, origin>>, \A s \in StagingIds : Wanes(staging[s].coco, staging'[s].coco),
         imp' = imp \/ imp'.pc \in {"idle", "drop"}
  PROVE  FaithInv'
<1>1. SourceClasses'
  BY DEF FaithInv, SourceClasses, Job
<1> QED
  BY <1>1, FaithKept DEF Dwindles

LEMMA FaithDrops ==
  ASSUME DatasetInv, FaithInv, DropStaging \/ Sweep
  PROVE  FaithInv'
<1>1. UNCHANGED <<raw, origin>> /\ (imp' = imp \/ imp'.pc = "idle")
  BY DEF DropStaging, Sweep, GcRemove, Ended
<1>2. DOMAIN staging = StagingIds /\ \A s \in StagingIds : StagingOK(staging[s])
  BY DEF DatasetInv, DatasetTypeOK
<1>3. \A s \in StagingIds : Wanes(staging[s].coco, staging'[s].coco)
  <2>1. ASSUME NEW id, staging' = [staging EXCEPT ![id] = NoStaging], NEW s \in StagingIds
        PROVE  Wanes(staging[s].coco, staging'[s].coco)
    BY <1>2, <2>1 DEF Wanes, NoStaging
  <2>2. ASSUME NEW id, NEW s \in StagingIds,
               staging' = [staging EXCEPT ![id].images = {}] \/ staging' = [staging EXCEPT ![id].coco = Missing]
        PROVE  Wanes(staging[s].coco, staging'[s].coco)
    <3> DEFINE t == staging[s]
               u == [t EXCEPT !.images = {}]
               v == [t EXCEPT !.coco = Missing]
    <3>1. t = [there |-> t.there, coco |-> t.coco, images |-> t.images]
      BY <1>2 DEF StagingOK
    <3>2. u.coco = t.coco /\ v.coco = Missing /\ staging'[s] \in {t, u, v}
      BY <1>2, <2>2, <3>1
    <3> HIDE DEF u, v
    <3> QED
      BY <3>2 DEF Wanes
  <2>3. CASE staging' = staging
    BY <2>3 DEF Wanes
  <2>4. \/ staging' = staging
        \/ \E id : \/ staging' = [staging EXCEPT ![id] = NoStaging]
                   \/ staging' = [staging EXCEPT ![id].images = {}] \/ staging' = [staging EXCEPT ![id].coco = Missing]
    BY DEF DropStaging, Sweep, GcRemove
  <2> QED
    BY <2>1, <2>2, <2>3, <2>4
<1> QED
  BY <1>1, <1>3, FaithBeside

LEMMA FaithStep == DatasetInv /\ FaithInv /\ [Next]_vars => FaithInv'
<1> SUFFICES ASSUME DatasetInv, FaithInv, [Next]_vars PROVE FaithInv'
  OBVIOUS
<1>1. CASE Import
  <2>1. CASE ImportStart \/ ClearTarget \/ DropRaw \/ NormalizeRead \/ MigrateRead
    BY <2>1, FaithStart, FaithRemoval, FaithNormalizes, FaithMigrates
  <2>2. CASE ImportWrite
    BY <2>2, FaithWritesDoc, FaithImages DEF ImportWrite
  <2>3. CASE DropStaging
    BY <2>3, FaithDrops
  <2>4. CASE ImportDone \/ ImportCrash
    <3>1. UNCHANGED <<staging, raw, origin>>
      BY <2>4 DEF ImportDone, ImportCrash
    <3>2. imp'.pc \in {"idle", "drop"}
      <4>1. CASE ImportDone
        <5>1. imp = [pc |-> "write", open |-> imp.open, job |-> imp.job, out |-> imp.out, todo |-> imp.todo]
          BY <4>1 DEF ImportDone, DatasetInv, ImportShape
        <5> QED
          BY <4>1, <5>1 DEF ImportDone, Ended
      <4>2. CASE ImportCrash
        BY <4>2 DEF ImportCrash, Ended
      <4> QED
        BY <2>4, <4>1, <4>2
    <3> QED
      BY <3>1, <3>2, FaithBeside DEF Wanes
  <2> QED
    BY <1>1, <2>1, <2>2, <2>3, <2>4 DEF Import, ImportSteps
<1>2. CASE Sweep
  BY <1>2, FaithDrops
<1>3. CASE Pipeline \/ StageFails \/ PipeDies \/ Collect \/ UNCHANGED vars
  <2>1. UNCHANGED <<staging, raw, imp, origin>>
    BY <1>3 DEF Pipeline, StageFails, PipeDies, Begin, RegistryStage, CacheStage, BuildCache, ExportStage, StageEnds,
       TrackCache, PipeEnds, Collect, datasetVars, vars
  <2> QED
    BY <2>1, FaithBeside DEF Wanes
<1> QED
  BY <1>1, <1>2, <1>3 DEF Next

LEMMA FaithAtFirst == Init => FaithInv
<1> SUFFICES ASSUME Init PROVE FaithInv
  OBVIOUS
<1>1. PICK sc \in Scenarios :
        staging = sc.staging /\ raw = [d \in DatasetIds |-> IF d \in DOMAIN sc.raw THEN sc.raw[d] ELSE AbsentDir]
  BY DEF Init
<1>2. imp.pc = "idle" /\ origin = [d \in DatasetIds |-> Inventory(raw[d])]
  BY DEF Init, InitImport, Idle
<1>3. Regular(AbsentDir)
  BY DEF Regular, AbsentDir, Missing, Whole
<1>4. \A d \in DatasetIds : Regular(raw[d])
  BY <1>1, <1>3, CapturesAssumption
<1>5. \A d \in DatasetIds : Faith(raw[d], origin[d])
  BY <1>2 DEF Faith
<1> QED
  BY <1>1, <1>2, <1>4, <1>5, CapturesAssumption DEF FaithInv, SourceClasses, OutFaithful

LEMMA FaithInvariant == Spec => []FaithInv
<1> QED
  BY FaithAtFirst, FaithStep, DatasetsInvariant, PTL DEF Spec

\* Of captures that list each frame once: a directory that passes the validator
\* holds the frames of its source, each in the split its hash gives it, and
\* their labels under their class names (a migration drops the buoys and keeps
\* the split), each once and with its file, in the numbers its sentinel states,
\* whatever imports were cut off before and whether the ids of the source told
\* its images apart or not (validate_raw_dataset.py:44-192, adapter.py:58-77,
\* coco_io.py:174-195, migrate_legacy_dataset.py:78-103).
THEOREM ValidatedIsFaithfulHolds == Spec => []ValidatedIsFaithful
<1>1. DatasetInv /\ FaithInv => ValidatedIsFaithful
  <2> SUFFICES ASSUME DatasetInv, FaithInv, NEW d \in DatasetIds, Validates(raw[d])
               PROVE  LET now == Inventory(raw[d])
                      IN /\ now.frames = origin[d].frames /\ now.labels = origin[d].labels
                         /\ Cardinality(now.frames) = raw[d].info.doc.images
                         /\ Cardinality(now.labels) = LabelCount(raw[d])
                         /\ \A o \in now.frames : o.frame \in raw[d].images[o.split]
    BY DEF ValidatedIsFaithful
  <2>1. DirectoryOK(raw[d]) /\ Regular(raw[d]) /\ Faith(raw[d], origin[d])
    BY DEF DatasetInv, DatasetTypeOK, FaithInv
  <2>2. (\A sp \in Splits : Whole(raw[d].coco[sp])) /\ Disjoint(raw[d])
    BY DEF Validates
  <2> QED
    BY <2>1, <2>2, ValidCounts DEF Faith
<1> QED
  BY DatasetsInvariant, FaithInvariant, <1>1, PTL
=============================================================================

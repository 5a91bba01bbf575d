------------------------------ MODULE Retention ------------------------------
(***************************************************************************)
(* gc: a pass reads the runs from the registry, then the tile caches, then *)
(* the staging directories, plans from what it has read, and removes one   *)
(* directory after the other.  The rows stay.  A dry run ends with the     *)
(* plan.  Times are numbers of pipeline attempts.                          *)
(***************************************************************************)
EXTENDS Registry

CONSTANTS KeepLast, KeepBest, MaxAge, KeepCaches   \* RetentionPolicy

\* configs/retention.yaml keeps 20 runs: the newest run is always kept.  MaxAge = 0
\* stands for null: a row is older than the pass that reads it.
ASSUME PolicyAssumption ==
  /\ KeepLast \in Nat \ {0} /\ {KeepBest, MaxAge, KeepCaches} \subseteq Nat
  /\ RunIds \subseteq Nat /\ CacheIds \subseteq Nat \ {0} /\ StagingIds \subseteq Nat

VARIABLES
  gc,         \* the pass
  passes,     \* bound: how many passes are still to come
  runDirs, cacheDirs,   \* the directories under storage/runs and cache/tiles
  expired     \* the staging directories whose time has passed

retentionVars == <<gc, passes, runDirs, cacheDirs, expired>>

GcIdle == [pc |-> "idle"]
InitRetention == gc = GcIdle /\ runDirs = {} /\ cacheDirs = {}

(***************************************************************************)
(* plan_retention                                                          *)
(***************************************************************************)
\* runs: [id, started, cache, metric, path]; list_runs gives them by start and
\* id, and sorting is stable.  A metric of 0 is none.
ListedBefore(a, b) == a.started < b.started \/ (a.started = b.started /\ a.id < b.id)

Newer_Bug(a, b) == a.started < b.started \/ (a.started = b.started /\ ListedBefore(a, b))
Newer(a, b) == a.started > b.started \/ (a.started = b.started /\ ListedBefore(a, b))

Better(a, b) == a.metric > b.metric \/ (a.metric = b.metric /\ ListedBefore(a, b))

Recent(runs) == {r \in runs : Cardinality({q \in runs : Newer(q, r)}) < KeepLast}
BestRuns(runs) ==
  LET measured == {r \in runs : r.metric # 0}
  IN {r \in measured : Cardinality({q \in measured : Better(q, r)}) < KeepBest}
Young(runs, now) == {r \in runs : r.started + MaxAge > now}

KeptRuns(runs, now) == Recent(runs) \cup BestRuns(runs) \cup Young(runs, now)

ReferencedCaches(runs, now) == {r.cache : r \in KeptRuns(runs, now)} \ {Null}

\* Of the caches that no kept run refers to, the newest of each dataset.
SpareCaches(runs, caches, now) ==
  LET others == {c \in caches : c.id \notin ReferencedCaches(runs, now)}
  IN {c \in others : Cardinality({d \in others : d.dataset = c.dataset /\
                                     (d.created > c.created \/ (d.created = c.created /\ d.id < c.id))})
                       < KeepCaches}

DoomedRuns(runs, now) == {r.id : r \in {q \in runs \ KeptRuns(runs, now) : q.path}}
DoomedCaches(runs, caches, now) ==
  {c.id : c \in {d \in caches \ SpareCaches(runs, caches, now) :
                   d.id \notin ReferencedCaches(runs, now) /\ d.path}}

Items(kind, ids) == {[kind |-> kind, id |-> i] : i \in ids}

PlanRetention(runs, caches, old, now) ==
  Items("run", DoomedRuns(runs, now)) \cup Items("tile_cache", DoomedCaches(runs, caches, now))
    \cup Items("staging", old)

\* Runs go first, then caches, then staging directories.
Before(i, j) == <<i.kind, j.kind>> \in {<<"run", "tile_cache">>, <<"run", "staging">>, <<"tile_cache", "staging">>}

(***************************************************************************)
(* collect_state reads the three lists one after the other                 *)
(***************************************************************************)
MaxOf(S) == CHOOSE x \in S : \A y \in S : y <= x
MetricOf(r) ==
  LET values == {IF Whole(row.hash) THEN row.hash.doc ELSE 0 : row \in {x \in db.reports : x.run = r}}
  IN IF values = {} THEN 0 ELSE MaxOf(values)

GcRuns ==
  /\ gc.pc = "idle" /\ passes > 0 /\ passes' = passes - 1
  /\ gc' = [pc |-> "caches",
            runs |-> {[id |-> row.id, started |-> row.started, cache |-> row.cache,
                       metric |-> MetricOf(row.id), path |-> row.id \in runDirs] : row \in db.runs}]
  /\ UNCHANGED <<runDirs, cacheDirs, expired>>

GcCaches ==
  /\ gc.pc = "caches"
  /\ gc' = [pc |-> "staging", runs |-> gc.runs,
            caches |-> {[id |-> row.id, dataset |-> row.dataset, created |-> row.created,
                         path |-> row.id \in cacheDirs] : row \in db.caches}]
  /\ UNCHANGED <<passes, runDirs, cacheDirs, expired>>

GcPlan(now) ==
  /\ gc.pc = "staging"
  /\ LET old == {s \in expired : staging[s].there}
         plan == PlanRetention(gc.runs, gc.caches, old, now)
     IN gc' = [pc |-> "apply", runs |-> gc.runs, caches |-> gc.caches, plan |-> plan, left |-> plan]
  /\ UNCHANGED <<passes, runDirs, cacheDirs, expired>>

\* Without --apply.
GcDryRun ==
  /\ gc.pc = "apply" /\ gc.left = gc.plan /\ gc' = GcIdle
  /\ UNCHANGED <<passes, runDirs, cacheDirs, expired>>

\* rmtree of one item; a directory that is gone by now is passed over.
GcRemove ==
  /\ gc.pc = "apply"
  /\ \E item \in gc.left :
        /\ \A other \in gc.left : ~Before(other, item)
        /\ runDirs' = IF item.kind = "run" THEN runDirs \ {item.id} ELSE runDirs
        /\ cacheDirs' = IF item.kind = "tile_cache" THEN cacheDirs \ {item.id} ELSE cacheDirs
        /\ IF item.kind = "staging"
           THEN LET s == item.id
                IN /\ staging' = [staging EXCEPT ![s] = NoStaging]
                   /\ givenUp' = givenUp \cup {f \in staging[s].images : CopiesOf(f) = {}}
                   /\ broken' = IF imp.pc # "idle" /\ imp.job.op = "normalize" /\ imp.job.from = s
                                THEN broken \cup {imp.job.to} ELSE broken
           ELSE UNCHANGED <<staging, givenUp, broken>>
        /\ gc' = [gc EXCEPT !.left = @ \ {item}]
  /\ UNCHANGED <<passes, expired>>

GcDone ==
  /\ gc.pc = "apply" /\ gc.left = {} /\ gc' = GcIdle
  /\ UNCHANGED <<passes, runDirs, cacheDirs, expired>>

Doomed(kind, id) == gc.pc = "apply" /\ [kind |-> kind, id |-> id] \in gc.plan

\* No cache goes that a run the pass keeps refers to.
PlanConsistent ==
  gc.pc = "apply" => \A r \in gc.runs :
    r.path /\ r.cache # Null /\ ~Doomed("run", r.id) => ~Doomed("tile_cache", r.cache)
=============================================================================

----------------------------- MODULE ClusterRun -----------------------------
(***************************************************************************)
(* Clustering: what asks for a run (application/services/cluster_triggers, *)
(* the routes and the periodic tasks), the run itself                      *)
(* (application/services/clustering_run.py), and the matching that keeps   *)
(* the ids of clusters stable from run to run (domain/clustering.py).      *)
(*                                                                         *)
(* A run is a job of the one worker, commit by commit, and pages may be    *)
(* purged between any two.  Indexing waits for the worker.  What the fit   *)
(* makes of the pages is left open; labels, keywords and centroids are     *)
(* left out.  How long ingest has been quiet is not modelled: the idle     *)
(* tick may find it quiet at any time.                                     *)
(***************************************************************************)
EXTENDS Naturals, FiniteSets, SequencesExt

CONSTANTS
    NPages,        \* bound: pages that are ever indexed, named in that order
    MinPages,      \* ClusterSettings.min_pages
    MinNew,        \* ClusterSettings.min_new_pages
    MaxAttempts,   \* JobsSettings.max_attempts
    MaxJobs,       \* bound: runs asked for, over a behaviour
    MaxTroubles    \* bound: failed fits, expired leases, crashes and purges

ASSUME SizesAssumption ==
    /\ NPages \in Nat /\ MinPages \in Nat \ {0} /\ MinNew \in Nat \ {0} /\ MaxAttempts \in Nat \ {0}
    /\ MaxJobs \in Nat /\ MaxTroubles \in Nat

VARIABLES
    indexed,   \* pages that are indexed
    fresh,     \* those indexed after the last run that finished
    purged,    \* pages that were purged
    clusters,  \* clusters and cluster_members, by id in the order of creation
    lineage,   \* cluster_lineage: the event and the cluster of each record
    runs,      \* cluster_runs: how many finished, and whether the newest did
    jobs,      \* cluster jobs in the order they were asked for
    worker,    \* the handler that runs
    cut,       \* history: clusters whose record a failed attempt left unwritten
    troubles   \* how much of MaxTroubles has been used

pageVars == <<indexed, fresh, purged>>
vars == <<pageVars, clusters, lineage, runs, jobs, worker, cut, troubles>>

Pages == 1..NPages
Idle == [at |-> "idle"]
Ids == DOMAIN clusters
Live == {c \in Ids : clusters[c].live}
OldMembers == [c \in Live |-> clusters[c].members]
Trouble == troubles < MaxTroubles /\ troubles' = troubles + 1

Init ==
    /\ indexed = {} /\ fresh = {} /\ purged = {}
    /\ clusters = <<>>
    /\ lineage = {}
    /\ runs = [finished |-> 0, newest |-> TRUE]
    /\ jobs = <<>>
    /\ worker = Idle
    /\ cut = {}
    /\ troubles = 0

-----------------------------------------------------------------------------
(* Matching.  Jaccard coefficients are multiples of 1/Unit: the union of   *)
(* two sets of pages has at most as many members as there are pages.       *)

Unit == FoldLeft(LAMBDA n, k : n * k, 1, [k \in Pages |-> k])
\* Mutant: the share of the new cluster instead of Jaccard.
ShareOfNew(a, b) == IF a = {} THEN 0 ELSE (Cardinality(a \cap b) * Unit) \div Cardinality(a)

Jaccard(a, b) == IF a \union b = {} THEN 0
                 ELSE Cardinality(a \cap b) * (Unit \div Cardinality(a \union b))
NoHeir == 0

\* linear_sum_assignment: a pairing of new parts with old clusters of the
\* greatest total; any of several.
Pairings(parts, old) ==
    {f \in [parts -> DOMAIN old \union {NoHeir}] :
        \A p, q \in parts : p # q /\ f[p] # NoHeir => f[p] # f[q]}
Worth(f, old) ==
    MapThenSumSet(LAMBDA p : IF f[p] = NoHeir THEN 0 ELSE Jaccard(p, old[f[p]]), DOMAIN f)
Assignments(parts, old) ==
    LET all == Pairings(parts, old)
        best == Max({Worth(f, old) : f \in all})
    IN  {f \in all : Worth(f, old) = best}

\* A pairing holds from INHERIT_JACCARD = 0.5 on.
Inherits(f, old) ==
    [p \in DOMAIN f |-> IF f[p] # NoHeir /\ 2 * Jaccard(p, old[f[p]]) >= Unit THEN f[p]
                                                                              ELSE NoHeir]
Matches(parts, old) == {Inherits(f, old) : f \in Assignments(parts, old)}

\* SPLIT_OVERLAP = 0.3 of an old cluster; MERGE_ABSORPTION = 0.5 of its pages.
Birth(p, old) ==
    IF \E c \in DOMAIN old : 10 * Jaccard(p, old[c]) > 3 * Unit THEN "split" ELSE "created"
Death(members, parts) ==
    IF \E p \in parts : 2 * Cardinality(members \cap p) > Cardinality(members)
    THEN "merged" ELSE "dissolved"

-----------------------------------------------------------------------------
(* Requests.                                                               *)

\* The key has the time in it, so that no request is taken for another.
Enqueue ==
    /\ Cardinality(indexed) >= MinPages
    /\ Len(jobs) < MaxJobs
    /\ jobs' = Append(jobs, [status |-> "pending", attempts |-> 0])
    /\ UNCHANGED <<pageVars, clusters, lineage, runs, worker, cut, troubles>>

\* POST /v1/clusters/recompute, and the cron task.
RequestRun == Enqueue

\* Mutant: no request while a run is unfinished, be it dead.
IdleTickOnce ==
    /\ IF runs.finished = 0 THEN Cardinality(indexed) >= MinPages
                            ELSE Cardinality(fresh) >= MinNew
    /\ runs.newest
    /\ Enqueue

\* _idle_tick, IdleDetector.should_run.
IdleTick ==
    /\ IF runs.finished = 0 THEN Cardinality(indexed) >= MinPages
                            ELSE Cardinality(fresh) >= MinNew
    /\ Enqueue

-----------------------------------------------------------------------------
(* The run.                                                                *)

At(at) == worker.at = at
Go(at) == worker' = [worker EXCEPT !.at = at]
Outcome(to) == jobs' = [jobs EXCEPT ![worker.job].status = to]

\* Clusters that are new in the run.
Born == {worker.heir[p] : p \in DOMAIN worker.heir \ worker.todo} \ DOMAIN worker.old

\* Clusters born or buried in the attempt whose record is not written yet.
Unrecorded ==
    IF worker.at \in {"persist", "members", "tombstone", "lineage"}
    THEN Born \union {c \in worker.gone : ~clusters[c].live}
    ELSE {}

AttemptFails ==
    LET n == jobs[worker.job].attempts + 1 IN
    /\ jobs' = [jobs EXCEPT ![worker.job] =
                   [status |-> IF n < MaxAttempts THEN "pending" ELSE "dead", attempts |-> n]]
    /\ cut' = cut \union Unrecorded
    /\ worker' = Idle

Begin(j) ==
    /\ worker = Idle /\ jobs[j].status = "pending"
    /\ jobs' = [jobs EXCEPT ![j].status = "running"]
    /\ worker' = [at |-> "input", job |-> j]
    /\ UNCHANGED <<pageVars, clusters, lineage, runs, cut, troubles>>

InsertRun == runs' = [runs EXCEPT !.newest = FALSE]

\* _cluster_input; a corpus that is too small is skipped.
ReadInput ==
    /\ At("input")
    /\ \/ /\ Cardinality(indexed) >= MinPages
          /\ worker' = [at |-> "fit", job |-> worker.job, input |-> indexed]
          /\ InsertRun
          /\ UNCHANGED jobs
       \/ /\ Cardinality(indexed) < MinPages
          /\ Outcome("done")
          /\ worker' = Idle
          /\ UNCHANGED runs
    /\ UNCHANGED <<pageVars, clusters, lineage, cut, troubles>>

\* The parts of the fit are disjoint; what is in none of them is noise.
Fits(input) ==
    {parts \in SUBSET ((SUBSET input) \ {{}}) :
        \A p, q \in parts : p # q => p \cap q = {}}

NextPart(todo) == IF todo = {} THEN "tombstone" ELSE "persist"

\* engine.fit, and match_clusters against the live clusters.
Fit ==
    /\ At("fit")
    /\ \/ \E parts \in Fits(worker.input) :
            LET old == OldMembers IN
            \E heir \in Matches(parts, old) :
                /\ worker' = [at |-> NextPart(parts), job |-> worker.job, input |-> worker.input,
                              heir |-> heir, old |-> old, todo |-> parts, part |-> {},
                              gone |-> {c \in Live : old[c] # {} /\ \A p \in parts : heir[p] # c}]
                /\ UNCHANGED <<jobs, cut, troubles>>
       \/ Trouble /\ AttemptFails
    /\ UNCHANGED <<pageVars, clusters, lineage, runs>>

\* upsert_cluster, in the order of the first pages: an id that is new, or
\* inherited and live again.
UpsertCluster ==
    LET p == CHOOSE q \in worker.todo : \A r \in worker.todo : Min(q) <= Min(r)
        c == IF worker.heir[p] = NoHeir THEN Len(clusters) + 1 ELSE worker.heir[p] IN
    /\ At("persist")
    /\ clusters' = IF c \in Ids THEN [clusters EXCEPT ![c].live = TRUE]
                                ELSE Append(clusters, [members |-> {}, live |-> TRUE])
    /\ worker' = [worker EXCEPT !.at = "members", !.todo = @ \ {p}, !.heir[p] = c, !.part = p]
    /\ UNCHANGED <<pageVars, lineage, runs, jobs, cut, troubles>>

\* replace_cluster_members: the row of a page that was purged meanwhile is
\* refused, and the note that the job failed commits the rows before it.
ReplaceMembers ==
    LET p == worker.part
        Becomes(members) == clusters' = [clusters EXCEPT ![worker.heir[p]].members = members]
    IN
    /\ At("members")
    /\ \/ /\ p \cap purged = {}
          /\ Becomes(p)
          /\ Go(NextPart(worker.todo))
          /\ UNCHANGED <<jobs, cut>>
       \/ /\ p \cap purged # {}
          /\ \E some \in SUBSET (p \ purged) : Becomes(some)
          /\ AttemptFails
    /\ UNCHANGED <<pageVars, lineage, runs, troubles>>

\* Mutant: a cluster the attempt replaced is left alone.
TombstoneNone ==
    /\ At("tombstone")
    /\ Go("lineage")
    /\ UNCHANGED <<pageVars, clusters, lineage, runs, jobs, cut, troubles>>

\* tombstone_clusters; the rows stay.
Tombstone ==
    /\ At("tombstone")
    /\ clusters' = [c \in Ids |-> [clusters[c] EXCEPT !.live = @ /\ c \notin worker.gone]]
    /\ Go("lineage")
    /\ UNCHANGED <<pageVars, lineage, runs, jobs, cut, troubles>>

\* Mutant: a cluster that is inherited is recorded as if it were new.
LineageOfNew ==
    LET parts == DOMAIN worker.heir IN
    /\ At("lineage")
    /\ lineage' = lineage \union {<<Birth(p, worker.old), worker.heir[p]>> : p \in parts}
    /\ Go("projection")
    /\ UNCHANGED <<pageVars, clusters, runs, jobs, cut, troubles>>

\* insert_lineage: what match_clusters said of the new and of the old ones.
Lineage ==
    LET parts == DOMAIN worker.heir
        born == {p \in parts : worker.heir[p] \in Born}
    IN
    /\ At("lineage")
    /\ lineage' = lineage
         \union {<<Birth(p, worker.old), worker.heir[p]>> : p \in born}
         \union {<<"persisted", worker.heir[p]>> : p \in parts \ born}
         \union {<<Death(worker.old[c], parts), c>> : c \in worker.gone}
    /\ Go("projection")
    /\ UNCHANGED <<pageVars, clusters, runs, jobs, cut, troubles>>

\* _persist_projection: a point for every page of the input, noise as well.
Projected == worker.input

\* insert_cluster_projection: the point of a page that was purged meanwhile is
\* refused, and the run does not finish.
Projection ==
    /\ At("projection")
    /\ \/ Projected \cap purged = {} /\ Go("finalize") /\ UNCHANGED <<jobs, cut>>
       \/ Projected \cap purged # {} /\ AttemptFails
    /\ UNCHANGED <<pageVars, clusters, lineage, runs, troubles>>

\* finalize_cluster_run.
Finalize ==
    /\ At("finalize")
    /\ runs' = [finished |-> runs.finished + 1, newest |-> TRUE]
    /\ fresh' = {}
    /\ Go("chain")
    /\ UNCHANGED <<indexed, purged, clusters, lineage, jobs, cut, troubles>>

\* The canonicalization job is enqueued and the handler returns.
Chain ==
    /\ At("chain")
    /\ Outcome("done")
    /\ worker' = Idle
    /\ UNCHANGED <<pageVars, clusters, lineage, runs, cut, troubles>>

-----------------------------------------------------------------------------
(* What happens to pages and to the process.                               *)

\* An index job: the worker has one thread, so no run is under way.
IndexPage ==
    LET p == Cardinality(indexed \union purged) + 1 IN
    /\ worker = Idle /\ p \in Pages
    /\ indexed' = indexed \union {p} /\ fresh' = fresh \union {p}
    /\ UNCHANGED <<purged, clusters, lineage, runs, jobs, worker, cut, troubles>>

\* purge_and_blacklist; the rows of cluster_members go with the page.
Purge(p) ==
    /\ p \in indexed /\ Trouble
    /\ indexed' = indexed \ {p} /\ fresh' = fresh \ {p} /\ purged' = purged \union {p}
    /\ clusters' = [c \in Ids |-> [clusters[c] EXCEPT !.members = @ \ {p}]]
    /\ UNCHANGED <<lineage, runs, jobs, worker, cut>>

\* The lease of the job runs out at any await; huey raises and counts it.
LeaseExpires ==
    /\ worker # Idle /\ Trouble
    /\ AttemptFails
    /\ UNCHANGED <<pageVars, clusters, lineage, runs>>

\* The process dies and is started again; the attempt is not counted.
Crash ==
    /\ worker # Idle /\ Trouble
    /\ Outcome("pending")
    /\ cut' = cut \union Unrecorded
    /\ worker' = Idle
    /\ UNCHANGED <<pageVars, clusters, lineage, runs>>

Run ==
    \/ \E j \in DOMAIN jobs : Begin(j)
    \/ ReadInput \/ Fit \/ UpsertCluster
    \/ ReplaceMembers \/ Tombstone \/ Lineage \/ Projection \/ Finalize \/ Chain

Next ==
    \/ RequestRun \/ IdleTick
    \/ Run
    \/ IndexPage \/ \E p \in Pages : Purge(p)
    \/ LeaseExpires \/ Crash

Spec == Init /\ [][Next]_vars
\* The consumer keeps running jobs, and ingest is quiet in the end.
FairSpec == Spec /\ WF_vars(Run) /\ WF_vars(IdleTick)

-----------------------------------------------------------------------------
(* Properties.                                                             *)

\* When the newest run has finished, no page is in two live clusters: the
\* clusters an earlier attempt left behind were matched or tombstoned.
OnePlace ==
    runs.newest => \A c, d \in Live : c # d => clusters[c].members \cap clusters[d].members = {}

\* When the newest run has finished, the lineage tells of the birth of every
\* cluster and of the death of every tombstoned one; only what a failed
\* attempt wrote is untold, which the code has no repair for.
Births == {"created", "split"}
Deaths == {"merged", "dissolved"}
LineageAccounts ==
    runs.newest => \A c \in Ids \ cut :
        /\ \E event \in Births : <<event, c>> \in lineage
        /\ (\E event \in Deaths : <<event, c>> \in lineage) <=> ~clusters[c].live

\* A cluster whose pages the fit finds again, all of them and no other,
\* keeps its id, whatever a failed attempt has left beside it.
StableIds ==
    [][At("fit") /\ worker'.at = "persist" =>
          \A p \in DOMAIN worker'.heir :
              (\E c \in Live : clusters[c].members = p) =>
                  \E c \in Live : worker'.heir[p] = c /\ clusters[c].members = p]_vars

\* Enough new pages are clustered in the end, however runs fail before: by a
\* run that finishes, unless the bound on requests is reached.
Wanted == Cardinality(indexed) >= MinPages /\ Cardinality(fresh) >= MinNew
Exhausted == Len(jobs) = MaxJobs /\ \A j \in DOMAIN jobs : jobs[j].status \in {"done", "dead"}
NewPagesClustered == Wanted ~> (~Wanted \/ Exhausted)
=============================================================================

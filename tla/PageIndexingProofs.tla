-------------------------- MODULE PageIndexingProofs --------------------------
(***************************************************************************)
(* Theorems about PageIndexing, for every set of pages and callers, every  *)
(* bound and every vector store.  Each step of the composition is a step   *)
(* of JobQueue or leaves its variables alone, so that whatever is proved   *)
(* of the queue holds here; the invariants of JobQueueProofs are used as   *)
(* they are, and those of this module relate the page to them.             *)
(***************************************************************************)
EXTENDS PageIndexing, JobQueueProofs

-----------------------------------------------------------------------------
\* A page and its two jobs: the keys are as many as the pages and the kinds.
LEMMA JobFacts ==
    /\ \A p \in Pages : /\ IndexJob(p) \in Jobs /\ EntityJob(p) \in Jobs
                        /\ IndexJob(p).page = p /\ EntityJob(p).page = p
                        /\ IndexJob(p).kind = "index" /\ EntityJob(p).kind = "entities"
    /\ \A j \in Jobs : /\ j.page \in Pages
                       /\ j.kind = "index" => j = IndexJob(j.page)
                       /\ j.kind # "index" => j = EntityJob(j.page)
BY JobsOfPages DEF IndexJob, EntityJob

\* A handler runs for a job of some page.
LEMMA CurrentPage == TypeInv /\ worker.pc # "idle" => worker.job \in Jobs /\ Current \in Pages
BY JobFacts DEF TypeInv, Holding, Current

\* A step of the composition is a step of the queue, or none at all.
LEMMA StepsOfQueue == TypeInv /\ [PNext]_pvars => [Next]_vars
<1> SUFFICES ASSUME TypeInv, [PNext]_pvars PROVE [Next]_vars
  OBVIOUS
<1>1. CASE \E p \in Pages : \/ IngestInsert(p)
                            \/ \E op \in LateOps : LateCall(op, p)
  BY <1>1 DEF IngestInsert, LateCall
<1>3. CASE \E p \in Pages : IngestEnqueue(p) \/ Reconcile(p)
  BY JobFacts, <1>3 DEF IngestEnqueue, Reconcile, Next, Enqueuing
<1>4. ASSUME NEW from, NEW to, Indexing(from, to)
      PROVE  UNCHANGED vars
  BY <1>4 DEF Indexing
<1>5. CASE \/ FetchBody \/ FetchRaises \/ BeginIndexing
           \/ ReplaceChunks \/ UpsertChunks \/ UpsertPageVectors
           \/ PipelineRaises \/ ClearIndexArtifacts \/ DeletePoints \/ SetIndexed
  BY <1>4, <1>5 DEF FetchBody, FetchRaises, BeginIndexing, Store, ReplaceChunks,
     UpsertChunks, UpsertPageVectors, PipelineRaises, Clean, ClearIndexArtifacts,
     DeletePoints, SetIndexed
<1>6. CASE EnqueueEntities
  <2>1. CASE UNCHANGED vars
    BY <2>1
  <2>2. CASE SpawnJob(EntityJob(Current))
    <3>1. EntityJob(Current) \in Jobs
      BY <1>6, CurrentPage, JobFacts DEF EnqueueEntities, Handling, WorkerAt
    <3>2. QED
      BY <2>2, <3>1 DEF Next, Enqueuing
  <2>3. QED
    BY <1>6, <2>1, <2>2 DEF EnqueueEntities
<1>7. CASE SendEntities
  BY JobFacts, <1>7 DEF SendEntities, Next, Enqueuing
<1>8. CASE EntityHandler
  BY <1>8 DEF EntityHandler, ReadForEntities, LinkMentions, ExtractionRaises
<1>9. CASE HandlerBoundary
  BY <1>9 DEF HandlerBoundary, BeginHandler, FinishHandler, DeferHandler, FailHandler,
     Next, Executing, HandlerEnds
<1>10. CASE MarkPageDead \/ \E c \in Callers : MarkPageQueued(c)
  BY <1>10 DEF MarkPageDead, MarkPageQueued, Next, Executing, Retrying
<1>11. CASE StartConsumer \/ StopServing \/ Die
  BY <1>11 DEF StartConsumer, StopServing, Die, Next, Lifecycle
<1>12. CASE QueueOnly
  BY <1>12 DEF QueueOnly, Next, Enqueuing, Retrying, Executing, Lifecycle
<1>13. CASE UNCHANGED pvars
  BY <1>13 DEF pvars
<1>14. QED
  BY <1>1, <1>3, <1>5, <1>6, <1>7, <1>8, <1>9, <1>10, <1>11, <1>12, <1>13
     DEF PNext, IndexHandler

\* The invariants of the queue are kept by every step of the composition.
LEMMA QueueInvariants ==
    /\ TypeInv /\ [PNext]_pvars => TypeInv'
    /\ TypeInv /\ Children /\ [PNext]_pvars => Children'
BY StepsOfQueue, NextTypeInv, NextChildren

\* PageIndexing implements JobQueue: handlers spelled out commit by commit, the
\* callbacks and the reconciliation only do what the queue allows.  All that is
\* proved of Spec (NoPendingJobLost, StopIsClean) holds of the composition.
THEOREM QueueImplemented == PSpec => Spec
<1>1. PInit => Init
  BY DEF PInit
<1>2. Init => TypeInv
  BY InitTypeInv
<1>3. TypeInv /\ [PNext]_pvars => TypeInv' /\ [Next]_vars
  BY StepsOfQueue, NextTypeInv
<1>4. QED
  BY <1>1, <1>2, <1>3, PTL DEF PSpec, Spec

-----------------------------------------------------------------------------
(* The types of the composition.  vars stands for the fifteen variables of *)
(* the queue, of which only worker matters here.                           *)

\* The steps of a handler keep the worker in it.
LEMMA HandlerTypes ==
    ASSUME TypeInv, Children, PTypeOK, IndexHandler \/ EntityHandler
    PROVE  PTypeOK'
<1> USE DEF PTypeOK
<1>1. ASSUME NEW from \in Steps \ {"none"}, NEW to \in Steps \ {"none"}, Indexing(from, to)
      PROVE  /\ worker'.pc = "run" /\ step' \in Steps /\ step' # "none"
             /\ Current \in Pages
  BY <1>1, CurrentPage DEF Indexing, Handling, WorkerAt, vars
<1>2. CASE FetchBody \/ FetchRaises \/ BeginIndexing \/ PipelineRaises \/ SetIndexed
  BY <1>1, <1>2 DEF FetchBody, FetchRaises, BeginIndexing, PipelineRaises, SetIndexed,
                    SetPage, Keep, lateVars, Steps
<1>3. CASE ReplaceChunks \/ UpsertPageVectors
  BY <1>1, <1>3 DEF ReplaceChunks, UpsertPageVectors, Store, Keep, lateVars, Steps, Artifacts
<1>4. CASE UpsertChunks
  BY <1>1, <1>4 DEF UpsertChunks, Upserted, Steps, Artifacts
<1>5. CASE ClearIndexArtifacts \/ DeletePoints
  BY <1>1, <1>5 DEF ClearIndexArtifacts, DeletePoints, Clean, Keep, lateVars, Steps
<1>6. CASE EnqueueEntities
  BY <1>6 DEF EnqueueEntities, Handling, WorkerAt, SpawnJob, Keep, lateVars, Steps, vars
<1>7. CASE SendEntities
  BY <1>7 DEF SendEntities, SendSpawned, Children, Keep, lateVars, Steps
<1>8. CASE EntityHandler
  BY <1>8, CurrentPage DEF EntityHandler, ReadForEntities, LinkMentions, ExtractionRaises,
                           Handling, WorkerAt, lateVars, Steps, vars
<1>9. QED
  BY <1>2, <1>3, <1>4, <1>5, <1>6, <1>7, <1>8 DEF IndexHandler

\* The steps around a handler: it has a place exactly while the worker is in it.
LEMMA BoundaryTypes ==
    ASSUME TypeInv, Children, PTypeOK,
           HandlerBoundary \/ MarkPageDead \/ \E c \in Callers : MarkPageQueued(c)
    PROVE  PTypeOK'
<1> USE DEF PTypeOK
<1>1. CASE BeginHandler
  BY <1>1 DEF BeginHandler, MarkRunning, lateVars, Steps, TypeInv, TypeOK
<1>2. CASE FinishHandler \/ DeferHandler
  BY <1>2 DEF FinishHandler, DeferHandler, MarkDone, Defer, MarkFailed, IdleWorker, lateVars,
              Steps, TypeInv, TypeOK
<1>3. CASE FailHandler
  <2>1. worker'.pc # "run" /\ step' = "none"
    BY <1>3 DEF FailHandler, FailRetryable, FailDead, MarkFailed, TypeInv, TypeOK
  <2>2. Current \in Pages
    BY <1>3, CurrentPage DEF FailHandler, FailRetryable, FailDead, WorkerAt
  <2>3. late' \subseteq LateOps \X Pages
    BY <1>3, <2>2 DEF FailHandler
  <2>4. QED
    BY <1>3, <2>1, <2>3 DEF FailHandler, Steps
<1>4. CASE MarkPageDead
  BY <1>4, CurrentPage DEF MarkPageDead, DeadCallback, WorkerAt, IdleWorker, SetPage, lateVars
<1>5. ASSUME NEW c \in Callers, MarkPageQueued(c)
      PROVE  PTypeOK'
  <2>1. retrier[c].job.page \in Pages
    BY <1>5, JobFacts DEF MarkPageQueued, RetryCallback, CallerAt, TypeInv, Holding
  <2>2. worker' = worker
    BY <1>5 DEF MarkPageQueued, RetryCallback
  <2>3. QED
    BY <1>5, <2>1, <2>2 DEF MarkPageQueued, lateVars
<1>6. QED
  BY <1>1, <1>2, <1>3, <1>4, <1>5 DEF HandlerBoundary

\* Requests, late calls, the process, and the rest of the queue.
LEMMA OtherTypes ==
    ASSUME TypeInv, Children, PTypeOK,
           \/ \E p \in Pages : \/ IngestInsert(p) \/ IngestEnqueue(p) \/ Reconcile(p)
                               \/ \E op \in LateOps : LateCall(op, p)
           \/ StartConsumer \/ StopServing \/ Die \/ QueueOnly \/ UNCHANGED pvars
    PROVE  PTypeOK'
<1> USE DEF PTypeOK, pageVars, lateVars
<1>1. ASSUME NEW p \in Pages, IngestInsert(p) \/ IngestEnqueue(p) \/ Reconcile(p)
      PROVE  PTypeOK'
  BY <1>1 DEF IngestInsert, IngestEnqueue, Reconcile, CreateJob, vars
<1>2. ASSUME NEW p \in Pages, NEW op \in LateOps, LateCall(op, p)
      PROVE  PTypeOK'
  BY <1>2 DEF LateCall, Upserted, Artifacts, vars
<1>3. CASE StartConsumer \/ StopServing
  BY <1>3 DEF StartConsumer, Start, StopServing, Stop
<1>4. CASE Die
  BY <1>4 DEF Die, Crash, IdleWorker, Steps
<1>5. CASE QueueOnly
  <2>1. Dequeue \/ SkipDelivery \/ Reschedule => worker.pc # "run" /\ worker'.pc # "run"
    BY DEF Dequeue, SkipDelivery, Reschedule, WorkerAt, IdleWorker
  <2>2. ReadRunnable => worker.pc # "run" /\ worker'.pc # "run"
    BY DEF ReadRunnable, WorkerAt, TypeInv, TypeOK
  <2>3. worker.pc # "run" <=> worker'.pc # "run"
    BY <1>5, <2>1, <2>2
       DEF QueueOnly, SendCreated, ScheduleDue, LeaseExpires, RecoverSend, RetryCheck,
           RetryReset, RetrySend, Restart, GiveBackOrphans, Stopped
  <2>4. QED
    BY <1>5, <2>3 DEF QueueOnly
<1>6. CASE UNCHANGED pvars
  BY <1>6 DEF pvars, vars
<1>7. QED
  BY <1>1, <1>2, <1>3, <1>4, <1>5, <1>6

QInv == TypeInv /\ Children /\ PTypeOK

\* The types hold from the start and through every step.
LEMMA TypesKept ==
    /\ PInit => QInv
    /\ QInv /\ [PNext]_pvars => QInv'
<1>1. PInit => QInv
  BY InitTypeInv DEF PInit, QInv, PTypeOK, Init, IdleWorker, Children, Steps
<1>2. QInv /\ [PNext]_pvars => PTypeOK'
  BY HandlerTypes, BoundaryTypes, OtherTypes DEF QInv, PNext
<1>3. QED
  BY <1>1, <1>2, QueueInvariants DEF QInv

\* Whatever interleaves, a handler has a place exactly while the worker runs
\* one, and what is stored, linked and in flight is of the pages there are.
THEOREM PagesTyped == PSpec => []PTypeOK
<1>1. QInv => PTypeOK
  BY DEF QInv
<1>2. QED
  BY <1>1, TypesKept, PTL DEF PSpec

-----------------------------------------------------------------------------
(* IndexedIsRetrievable.  Stored says what the handler has behind it at    *)
(* each place of its pipeline: the page in its hand is not indexed before  *)
(* SetIndexed and not after a failure, so that no deletion of the cleanup  *)
(* reaches an indexed page but one in a thread that outlived its lease.    *)

Stored ==
    /\ \A p \in undone : "points" \notin artifacts[p]
    /\ step \in {"chunked", "upserted", "rolled"} => "chunks" \in artifacts[Current]
    /\ step \in {"upserted", "rolled"} =>
          Current \in undone \/ "points" \in artifacts[Current]
    /\ step = "rolled" => "vectors" \in artifacts[Current]
    /\ step \in {"pipeline", "chunked", "upserted", "rolled", "dirty", "swept"} =>
          page[Current] # "indexed"

RInv == QInv /\ Stored /\ IndexedIsRetrievable

Retrievable == Stored /\ IndexedIsRetrievable

\* The handlers: each write moves the handler on, and the page is indexed only
\* when all three are behind it.
LEMMA HandlerStored ==
    ASSUME RInv, IndexHandler \/ EntityHandler
    PROVE  Retrievable'
<1> USE DEF RInv, Retrievable, IndexedIsRetrievable, PTypeOK, QInv, Artifacts
<1>0. ASSUME worker.pc = "run"
      PROVE  Current \in Pages
  BY <1>0, CurrentPage
<1>1. ASSUME NEW from, NEW to, Indexing(from, to)
      PROVE  /\ Current \in Pages /\ Current' = Current
             /\ step = from /\ step' = to
  BY <1>0, <1>1 DEF Indexing, Handling, WorkerAt, Current, vars
<1>2. ASSUME UNCHANGED <<page, artifacts, lateVars>>,
             \/ Indexing("start", "ready") \/ Indexing("start", "raised")
             \/ step' \in {"sending", "returned", "extracting", "raised"}
      PROVE  Retrievable'
  BY <1>1, <1>2 DEF lateVars, Stored
<1>3. CASE FetchBody \/ FetchRaises
  BY <1>2, <1>3 DEF FetchBody, FetchRaises, Keep
<1>4. CASE BeginIndexing
  BY <1>1, <1>4 DEF BeginIndexing, SetPage, Keep, lateVars, Stored
<1>5. ASSUME NEW as \in SUBSET Artifacts, NEW to,
             step \in {"pipeline", "chunked", "upserted", "rolled", "dirty", "swept"},
             Indexing(step, to), artifacts' = [artifacts EXCEPT ![Current] = as],
             undone' = undone \/ undone' = undone \ {Current},
             Current \in undone' => "points" \notin as,
             UNCHANGED page
      PROVE  /\ page'[Current] # "indexed"
             /\ artifacts'[Current] = as
             /\ \A p \in undone' : "points" \notin artifacts'[p]
             /\ IndexedIsRetrievable'
  BY <1>1, <1>5 DEF Stored
<1>6. CASE ReplaceChunks
  <2> DEFINE as == artifacts[Current] \union {"chunks"}
  <2>1. /\ page'[Current] # "indexed" /\ artifacts'[Current] = as
        /\ \A p \in undone' : "points" \notin artifacts'[p]
        /\ IndexedIsRetrievable'
    BY <1>1, <1>5, <1>6 DEF ReplaceChunks, Store, Keep, lateVars, Stored
  <2>2. QED
    BY <1>1, <1>6, <2>1 DEF ReplaceChunks, Store, Stored
<1>7. CASE UpsertChunks
  <2> DEFINE as == artifacts[Current] \union {"points"}
  <2>1. /\ page'[Current] # "indexed" /\ artifacts'[Current] = as
        /\ \A p \in undone' : "points" \notin artifacts'[p]
        /\ IndexedIsRetrievable'
    BY <1>1, <1>5, <1>7 DEF UpsertChunks, Upserted
  <2>2. QED
    BY <1>1, <1>7, <2>1 DEF UpsertChunks, Stored
<1>8. CASE UpsertPageVectors
  BY <1>1, <1>8 DEF UpsertPageVectors, Store, Keep, lateVars, Stored
<1>9. CASE PipelineRaises
  BY <1>1, <1>9 DEF PipelineRaises, SetPage, Keep, lateVars, Stored
<1>14. ASSUME NEW from \in {"dirty", "swept"}, NEW to \in {"swept", "raised"}, NEW a,
              Clean(from, to, a)
       PROVE  Retrievable'
  <2>1. CASE UNCHANGED artifacts
    BY <1>1, <1>14, <2>1 DEF Clean, Keep, lateVars, Stored
  <2>2. CASE artifacts' = [artifacts EXCEPT ![Current] = @ \ a]
    <3> DEFINE as == artifacts[Current] \ a
    <3>1. /\ page'[Current] # "indexed"
          /\ \A p \in undone' : "points" \notin artifacts'[p]
          /\ IndexedIsRetrievable'
      BY <1>1, <1>5, <1>14, <2>2 DEF Clean, Keep, lateVars, Stored
    <3>2. QED
      BY <1>1, <1>14, <3>1 DEF Clean, Stored
  <2>3. QED
    BY <1>14, <2>1, <2>2 DEF Clean
<1>15. CASE ClearIndexArtifacts \/ DeletePoints
  BY <1>14, <1>15 DEF ClearIndexArtifacts, DeletePoints
<1>10. CASE SetIndexed
  BY <1>1, <1>10 DEF SetIndexed, SetPage, Keep, lateVars, Stored
<1>11. CASE EnqueueEntities \/ SendEntities
  BY <1>2, <1>11 DEF EnqueueEntities, SendEntities, Keep
<1>12. CASE EntityHandler
  BY <1>2, <1>12 DEF EntityHandler, ReadForEntities, LinkMentions, ExtractionRaises
<1>13. QED
  BY <1>3, <1>4, <1>6, <1>7, <1>8, <1>9, <1>10, <1>11, <1>12, <1>15 DEF IndexHandler

\* Everything else: a status set by a callback is never indexed, and a thread
\* that outlived its lease leaves undone behind as it takes the points.
LEMMA OtherStored ==
    ASSUME RInv,
           \/ \E p \in Pages : \/ IngestInsert(p) \/ IngestEnqueue(p) \/ Reconcile(p)
                               \/ \E op \in LateOps : LateCall(op, p)
           \/ HandlerBoundary \/ MarkPageDead \/ \E c \in Callers : MarkPageQueued(c)
           \/ StartConsumer \/ StopServing \/ Die \/ QueueOnly \/ UNCHANGED pvars
    PROVE  Retrievable'
<1> USE DEF RInv, Retrievable, IndexedIsRetrievable, PTypeOK, QInv, Artifacts
<1>0. ASSUME step # "none"
      PROVE  Current \in Pages
  BY <1>0, CurrentPage
<1>1. ASSUME UNCHANGED <<artifacts, lateVars>>, step' \in {step, "start", "none"},
             step' \notin {"start", "none"} => Current' = Current,
             \A p \in Pages : page'[p] = "indexed" => page[p] = "indexed"
      PROVE  Retrievable'
  BY <1>0, <1>1 DEF lateVars, Stored
<1>2. ASSUME NEW p \in Pages, IngestInsert(p) \/ IngestEnqueue(p) \/ Reconcile(p)
      PROVE  Retrievable'
  BY <1>1, <1>2 DEF IngestInsert, IngestEnqueue, Reconcile, CreateJob, Current, vars, pageVars
<1>3. ASSUME NEW p \in Pages, NEW op \in LateOps, LateCall(op, p)
      PROVE  Retrievable'
  <2>1. Current' = Current /\ UNCHANGED <<page, step>>
    BY <1>3 DEF LateCall, Current, vars
  <2>2. CASE Upserted(p)
    BY <1>0, <2>1, <2>2 DEF Upserted, Stored
  <2>3. CASE /\ artifacts' = [artifacts EXCEPT ![p] = @ \ {"points"}]
             /\ undone' = undone \union {p}
    BY <1>0, <2>1, <2>3 DEF Stored
  <2>4. QED
    BY <1>3, <2>2, <2>3 DEF LateCall
<1>4. CASE HandlerBoundary
  BY <1>1, <1>4 DEF HandlerBoundary, BeginHandler, FinishHandler, DeferHandler, FailHandler,
                    lateVars, Stored
<1>5. CASE MarkPageDead
  BY <1>1, <1>5, CurrentPage DEF MarkPageDead, DeadCallback, WorkerAt, SetPage
<1>6. ASSUME NEW c \in Callers, MarkPageQueued(c)
      PROVE  Retrievable'
  BY <1>1, <1>6 DEF MarkPageQueued, RetryCallback, Current
<1>7. CASE StartConsumer \/ StopServing
  BY <1>1, <1>7 DEF StartConsumer, StopServing, Start, Stop, Current, pageVars
<1>11. CASE Die
  BY <1>11 DEF Die, Stored
<1>8. CASE QueueOnly
  <2>1. step = "none" \/ UNCHANGED worker
    BY <1>8 DEF QueueOnly, SendCreated, ScheduleDue, LeaseExpires, RecoverSend, RetryCheck,
       RetryReset, RetrySend, Dequeue, SkipDelivery, ReadRunnable, Reschedule, Restart,
       GiveBackOrphans, Stopped, WorkerAt
  <2>2. QED
    BY <1>1, <1>8, <2>1 DEF QueueOnly, pageVars, Current
<1>9. CASE UNCHANGED pvars
  BY <1>1, <1>9 DEF pvars, pageVars, vars, Current
<1>10. QED
  BY <1>2, <1>3, <1>4, <1>5, <1>6, <1>7, <1>8, <1>9, <1>11

\* An indexed page can be found, for any number of pages and retries, whatever
\* fails, crashes, is cancelled or runs again: the status is committed last, and
\* only a deletion by an abandoned thread can take the points after that.
THEOREM IndexedPagesRetrievable == PSpec => []IndexedIsRetrievable
<1>1. PInit => RInv
  BY TypesKept DEF PInit, RInv, Stored, IndexedIsRetrievable
<1>2. RInv /\ [PNext]_pvars => Stored' /\ IndexedIsRetrievable'
  BY HandlerStored, OtherStored DEF Retrievable, PNext
<1>3. RInv /\ [PNext]_pvars => RInv'
  BY <1>2, TypesKept DEF RInv
<1>4. RInv => IndexedIsRetrievable
  BY DEF RInv
<1>5. QED
  BY <1>1, <1>3, <1>4, PTL DEF PSpec

-----------------------------------------------------------------------------
(* EntityJobFollows.  A handler enqueues for its own page only, and an     *)
(* index handler that returned did: so the row is there by the time the    *)
(* job is done.  Until then the job is in the worker's hand, or runnable   *)
(* and carried, which NextCarried of JobQueueProofs keeps.                 *)

OwnChild ==
    /\ \A j \in spawning : j = EntityJob(Current)
    /\ step = "returned" /\ worker.job.kind = "index" => status[EntityJob(Current)] # "absent"

EInv == QInv /\ OwnChild /\ EntityJobFollows

\* The child of a handler is the entity job of its page, and there for good.
LEMMA NextOwnChild ==
    ASSUME QInv, OwnChild, [PNext]_pvars
    PROVE  OwnChild'
<1> USE DEF QInv, OwnChild, PTypeOK
<1>0. ASSUME worker.pc # "idle"
      PROVE  Current \in Pages /\ worker.job \in Jobs /\ EntityJob(Current) \in Jobs
  BY <1>0, CurrentPage, JobFacts
<1>1. ASSUME spawning' \subseteq spawning, UNCHANGED worker,
             step' = "returned" /\ worker.job.kind = "index" => step = "returned"
      PROVE  OwnChild'
  <2>1. Current' = Current
    BY <1>1 DEF Current
  <2>2. step = "returned" /\ worker.job.kind = "index" => status'[EntityJob(Current)] # "absent"
    BY <1>0, RowsStay, StepsOfQueue DEF OwnChild
  <2>3. QED
    BY <1>1, <2>1, <2>2
<1>2. ASSUME spawning' = {}, step' # "returned"
      PROVE  OwnChild'
  BY <1>2
<1>3. ASSUME NEW from, NEW to, Indexing(from, to), to # "returned"
      PROVE  OwnChild'
  BY <1>1, <1>3 DEF Indexing, vars, childVars
<1>4. CASE \/ FetchBody \/ FetchRaises \/ BeginIndexing
           \/ ReplaceChunks \/ UpsertChunks \/ UpsertPageVectors
           \/ PipelineRaises \/ ClearIndexArtifacts \/ DeletePoints \/ SetIndexed
  BY <1>3, <1>4 DEF FetchBody, FetchRaises, BeginIndexing, Store, ReplaceChunks,
     UpsertChunks, UpsertPageVectors, PipelineRaises, Clean, ClearIndexArtifacts,
     DeletePoints, SetIndexed
<1>5. CASE EnqueueEntities
  BY <1>5 DEF EnqueueEntities, SpawnJob, Current, vars, childVars, ledgerVars
<1>6. CASE SendEntities
  <2>1. PICK p \in Pages : SendSpawned(EntityJob(p))
    BY <1>6 DEF SendEntities
  <2>2. EntityJob(p) = EntityJob(Current) /\ status[EntityJob(Current)] = "pending"
    BY <2>1 DEF SendSpawned, Children
  <2>3. QED
    BY <2>1, <2>2 DEF SendSpawned, Current, ledgerVars
<1>7. CASE EntityHandler
  BY <1>1, <1>7 DEF EntityHandler, ReadForEntities, LinkMentions, ExtractionRaises, Handling,
                    vars, childVars
<1>8. CASE HandlerBoundary
  BY <1>2, <1>8 DEF HandlerBoundary, BeginHandler, FinishHandler, DeferHandler, FailHandler,
     MarkRunning, MarkDone, Defer, FailRetryable, FailDead, LeaveChild, WorkerAt, Children, childVars
<1>9. CASE Die
  BY <1>2, <1>9 DEF Die, Crash
<1>10. ASSUME step = "none", UNCHANGED <<step, spawning>>
       PROVE  OwnChild'
  BY <1>2, <1>10 DEF Children
<1>11. CASE MarkPageDead
  BY <1>10, <1>11 DEF MarkPageDead, DeadCallback, WorkerAt, childVars
<1>12. CASE \E c \in Callers : MarkPageQueued(c)
  BY <1>1, <1>12 DEF MarkPageQueued, RetryCallback, childVars
<1>13. CASE \/ \E p \in Pages : \/ IngestInsert(p) \/ IngestEnqueue(p) \/ Reconcile(p)
                                \/ \E op \in LateOps : LateCall(op, p)
            \/ StartConsumer \/ StopServing \/ UNCHANGED pvars
  BY <1>1, <1>13 DEF IngestInsert, IngestEnqueue, Reconcile, CreateJob, LateCall,
     StartConsumer, Start, StopServing, Stop, pvars, pageVars, vars, childVars
<1>14. CASE QueueOnly
  <2>1. UNCHANGED <<step, spawning>>
    BY <1>14 DEF QueueOnly, SendCreated, ScheduleDue, LeaseExpires, RecoverSend, RetryCheck,
       RetryReset, RetrySend, Dequeue, SkipDelivery, ReadRunnable, Reschedule, Restart,
       GiveBackOrphans, Stopped, pageVars, childVars
  <2>2. step = "none" \/ UNCHANGED worker
    BY <1>14 DEF QueueOnly, SendCreated, ScheduleDue, LeaseExpires, RecoverSend, RetryCheck,
       RetryReset, RetrySend, Dequeue, SkipDelivery, ReadRunnable, Reschedule, Restart,
       GiveBackOrphans, Stopped, WorkerAt
  <2>3. QED
    BY <1>1, <1>10, <2>1, <2>2
<1>15. QED
  BY <1>4, <1>5, <1>6, <1>7, <1>8, <1>9, <1>11, <1>12, <1>13, <1>14 DEF PNext, IndexHandler

\* Handlers, callbacks and requests leave the phase of the process alone; and
\* the consumer starts serving by StartConsumer only.
LEMMA ServingBegins ==
    ASSUME [PNext]_pvars, phase' = "up"
    PROVE  phase = "up" \/ StartConsumer
<1>1. ASSUME NEW from, NEW to, Indexing(from, to)
      PROVE  phase' = phase
  BY <1>1 DEF Indexing, vars
<1>2. IndexHandler => phase' = phase
  BY <1>1 DEF IndexHandler, FetchBody, FetchRaises, BeginIndexing, Store, ReplaceChunks,
     UpsertChunks, UpsertPageVectors, PipelineRaises, Clean, ClearIndexArtifacts, DeletePoints,
     SetIndexed, EnqueueEntities, SpawnJob, SendEntities, SendSpawned, vars
<1>3. EntityHandler => phase' = phase
  BY DEF EntityHandler, ReadForEntities, LinkMentions, ExtractionRaises, vars
<1>4. HandlerBoundary => phase' = phase
  BY DEF HandlerBoundary, BeginHandler, FinishHandler, DeferHandler, FailHandler,
     MarkRunning, MarkDone, Defer, FailRetryable, FailDead, MarkFailed
<1>5. MarkPageDead \/ (\E c \in Callers : MarkPageQueued(c)) => phase' = phase
  BY DEF MarkPageDead, MarkPageQueued, DeadCallback, RetryCallback
<1>6. (\E p \in Pages : \/ IngestInsert(p) \/ IngestEnqueue(p) \/ Reconcile(p)
                        \/ \E op \in LateOps : LateCall(op, p)) => phase' = phase
  BY DEF IngestInsert, IngestEnqueue, Reconcile, CreateJob, LateCall, vars
<1>7. ~ (StopServing \/ Die)
  BY DEF StopServing, Stop, Die, Crash
<1>8. QueueOnly => phase' = phase
  BY DEF QueueOnly, SendCreated, ScheduleDue, LeaseExpires, RecoverSend, RetryCheck,
     RetryReset, RetrySend, Dequeue, SkipDelivery, ReadRunnable, Reschedule, Restart,
     GiveBackOrphans, Stopped
<1>9. QED
  BY <1>2, <1>3, <1>4, <1>5, <1>6, <1>7, <1>8 DEF PNext, pvars, vars

\* Only the worker, at the start or the end of its handler, takes a job to run
\* out of that state.
LEMMA StaysRunnable ==
    ASSUME TypeInv, [PNext]_pvars, ~ HandlerBoundary,
           NEW j \in Jobs, status[j] \in Runnable
    PROVE  status'[j] \in Runnable
<1> USE DEF TypeInv, TypeOK
<1>1. ASSUME NEW k \in Jobs, InsertRow(k)
      PROVE  status'[j] \in Runnable
  BY <1>1 DEF InsertRow, Runnable
<1>2. UNCHANGED status => status'[j] \in Runnable
  OBVIOUS
<1>3. ASSUME NEW from, NEW to, Indexing(from, to)
      PROVE  UNCHANGED status
  BY <1>3 DEF Indexing, vars, ledgerVars
<1>4. CASE \/ FetchBody \/ FetchRaises \/ BeginIndexing
           \/ ReplaceChunks \/ UpsertChunks \/ UpsertPageVectors
           \/ PipelineRaises \/ ClearIndexArtifacts \/ DeletePoints \/ SetIndexed
  BY <1>2, <1>3, <1>4 DEF FetchBody, FetchRaises, BeginIndexing, Store, ReplaceChunks,
     UpsertChunks, UpsertPageVectors, PipelineRaises, Clean, ClearIndexArtifacts,
     DeletePoints, SetIndexed
<1>5. CASE EnqueueEntities
  <2>1. EntityJob(Current) \in Jobs
    BY <1>5, CurrentPage, JobFacts DEF EnqueueEntities, Handling, WorkerAt
  <2>2. QED
    BY <1>1, <1>2, <1>5, <2>1 DEF EnqueueEntities, SpawnJob, vars, ledgerVars
<1>6. CASE SendEntities \/ EntityHandler
  BY <1>2, <1>6 DEF SendEntities, SendSpawned, EntityHandler, ReadForEntities, LinkMentions,
     ExtractionRaises, vars, ledgerVars
<1>7. CASE \E q \in Pages : \/ IngestInsert(q) \/ IngestEnqueue(q) \/ Reconcile(q)
                            \/ \E op \in LateOps : LateCall(op, q)
  BY <1>1, <1>2, <1>7, JobFacts DEF IngestInsert, IngestEnqueue, Reconcile, CreateJob,
     LateCall, vars, ledgerVars
<1>8. CASE MarkPageDead \/ (\E c \in Callers : MarkPageQueued(c)) \/ StartConsumer \/ StopServing
  BY <1>2, <1>8 DEF MarkPageDead, DeadCallback, MarkPageQueued, RetryCallback, StartConsumer,
     Start, StopServing, Stop, ledgerVars
<1>9. CASE Die
  BY <1>2, <1>9 DEF Die, Crash, ledgerVars
<1>10. CASE QueueOnly
  <2>1. ASSUME NEW c \in Callers, RetryReset(c)
        PROVE  status'[j] \in Runnable
    BY <2>1 DEF RetryReset, Runnable
  <2>2. QED
    BY <1>2, <1>10, <2>1
       DEF QueueOnly, SendCreated, ScheduleDue, LeaseExpires, RecoverSend, RetryCheck,
           RetrySend, Dequeue, SkipDelivery, ReadRunnable, Reschedule, Restart,
           GiveBackOrphans, ExpiredOrphans, Runnable, Stopped, ledgerVars
<1>11. CASE UNCHANGED pvars
  BY <1>2, <1>11 DEF pvars, vars, ledgerVars
<1>12. QED
  BY <1>4, <1>5, <1>6, <1>7, <1>8, <1>9, <1>10, <1>11 DEF PNext, IndexHandler

\* While the process serves, a page indexed without an entity job keeps its
\* index job at hand: only StartConsumer enters that phase, and it waits for the
\* reconciliation.
LEMMA NextFollows ==
    ASSUME EInv, [PNext]_pvars
    PROVE  EntityJobFollows'
<1> SUFFICES ASSUME phase' = "up", NEW p \in Pages, page'[p] = "indexed",
                    status'[EntityJob(p)] = "absent"
             PROVE  \/ /\ worker'.job = IndexJob(p)
                       /\ worker'.pc \in {"run", "dead"} /\ step' # "returned"
                    \/ status'[IndexJob(p)] \in Runnable /\ Carried(IndexJob(p))'
  BY DEF EntityJobFollows, IndexJob, EntityJob
<1> DEFINE j == IndexJob(p)
           AtHand == worker.job = j /\ worker.pc \in {"run", "dead"} /\ step # "returned"
           Waiting == status[j] \in Runnable /\ Carried(j)
<1> USE DEF EInv, QInv, PTypeOK
<1>1. /\ j \in Jobs /\ EntityJob(p) \in Jobs
      /\ j.kind = "index" /\ j.page = p
  BY JobFacts
<1>2. j \notin spawning
  BY DEF OwnChild, IndexJob, EntityJob
<1>3. [Next]_vars /\ ~ Crash
  BY StepsOfQueue DEF Crash
<1>4. status[EntityJob(p)] = "absent"
  BY <1>1, <1>3, RowsStay
<1> HIDE DEF j
<1>5. phase = "up" \/ StartConsumer
  BY ServingBegins
<1>6. page[p] = "indexed" \/ (SetIndexed /\ worker.job = j)
  <2>1. CASE SetIndexed
    <3>1. worker.pc = "run" /\ worker.job.kind = "index" /\ page' = [page EXCEPT ![Current] = "indexed"]
      BY <2>1 DEF SetIndexed, Indexing, Handling, WorkerAt, SetPage
    <3>2. worker.job = IndexJob(Current) /\ Current \in Pages
      BY <3>1, CurrentPage, JobFacts DEF Current
    <3>3. QED
      BY <2>1, <3>1, <3>2 DEF j
  <2>2. CASE IndexHandler /\ ~ SetIndexed
    BY <2>2, CurrentPage DEF IndexHandler, FetchBody, FetchRaises, BeginIndexing, Store,
       ReplaceChunks, UpsertChunks, UpsertPageVectors, PipelineRaises, Clean,
       ClearIndexArtifacts, DeletePoints, EnqueueEntities, SendEntities, SetPage
  <2>3. CASE EntityHandler \/ HandlerBoundary
    BY <2>3 DEF EntityHandler, ReadForEntities, LinkMentions, ExtractionRaises,
       HandlerBoundary, BeginHandler, FinishHandler, DeferHandler, FailHandler
  <2>4. CASE MarkPageDead
    BY <2>4 DEF MarkPageDead, SetPage
  <2>5. CASE \E c \in Callers : MarkPageQueued(c)
    BY <2>5 DEF MarkPageQueued
  <2>6. CASE \E q \in Pages : \/ IngestInsert(q) \/ IngestEnqueue(q) \/ Reconcile(q)
                              \/ \E op \in LateOps : LateCall(op, q)
    BY <2>6 DEF IngestInsert, IngestEnqueue, Reconcile, LateCall, pageVars
  <2>7. CASE StartConsumer \/ StopServing \/ Die \/ QueueOnly \/ UNCHANGED pvars
    BY <2>7 DEF StartConsumer, StopServing, Die, QueueOnly, pageVars, pvars
  <2>8. QED
    BY <2>1, <2>2, <2>3, <2>4, <2>5, <2>6, <2>7 DEF PNext, IndexHandler
<1>7. CASE SetIndexed /\ worker.job = j
  BY <1>7 DEF SetIndexed, Indexing, Handling, WorkerAt, vars, j
<1>8. CASE page[p] = "indexed" /\ StartConsumer
  BY <1>4, <1>8 DEF StartConsumer, MissingEntityJob
<1>9. CASE AtHand
  <2>1. ASSUME UNCHANGED worker, step' # "returned"
        PROVE  AtHand'
    BY <1>9, <2>1
  <2>2. ASSUME worker.pc = "run", EntityJob(Current) \in spawning \/ status[EntityJob(Current)] # "absent"
        PROVE  FALSE
    <3>1. Current = p
      BY <1>1, <1>9 DEF Current
    <3>2. QED
      BY <1>4, <2>2, <3>1 DEF Children
  <2>3. ASSUME NEW from, NEW to, Indexing(from, to), to # "returned"
        PROVE  AtHand'
    BY <2>1, <2>3 DEF Indexing, vars
  <2>4. CASE \/ FetchBody \/ FetchRaises \/ BeginIndexing
             \/ ReplaceChunks \/ UpsertChunks \/ UpsertPageVectors
             \/ PipelineRaises \/ ClearIndexArtifacts \/ DeletePoints \/ SetIndexed
    <3>1. AtHand'
      BY <2>3, <2>4 DEF FetchBody, FetchRaises, BeginIndexing, Store, ReplaceChunks,
         UpsertChunks, UpsertPageVectors, PipelineRaises, Clean, ClearIndexArtifacts,
         DeletePoints, SetIndexed
    <3>2. QED
      BY <3>1 DEF j
  <2>5. CASE EnqueueEntities
    <3>1. AtHand'
      BY <2>1, <2>2, <2>5 DEF EnqueueEntities, Handling, WorkerAt, SpawnJob
    <3>2. QED
      BY <3>1 DEF j
  <2>6. CASE SendEntities
    BY <2>2, <2>6 DEF SendEntities, SendSpawned, OwnChild, Children
  <2>7. CASE EntityHandler
    BY <1>1, <1>9, <2>7 DEF EntityHandler, ReadForEntities, LinkMentions, ExtractionRaises, Handling
  <2>8. CASE BeginHandler \/ FinishHandler
    BY <1>9, <2>8 DEF BeginHandler, FinishHandler, MarkRunning, WorkerAt
  <2>9. ASSUME NEW n, MarkFailed(n)
        PROVE  Waiting'
    BY <1>1, <1>9, <2>9 DEF MarkFailed, Carried, Runnable, TypeInv, TypeOK
  <2>10. ASSUME FailDead, step' = "none"
         PROVE  AtHand'
    BY <1>9, <2>10 DEF FailDead, TypeInv, TypeOK
  <2>11. CASE DeferHandler \/ FailHandler
    <3>1. AtHand' \/ Waiting'
      BY <2>9, <2>10, <2>11 DEF DeferHandler, Defer, FailHandler, FailRetryable
    <3>2. QED
      BY <3>1 DEF j
  <2>12. CASE MarkPageDead
    <3>1. Current = p
      BY <1>1, <1>9 DEF Current
    <3>2. QED
      BY <1>1, <1>9, <2>12, <3>1 DEF MarkPageDead, SetPage
  <2>13. CASE Die
    BY <1>3, <2>13 DEF Die
  <2>14. CASE \/ \E c \in Callers : MarkPageQueued(c)
              \/ \E q \in Pages : \/ IngestInsert(q) \/ IngestEnqueue(q) \/ Reconcile(q)
                                  \/ \E op \in LateOps : LateCall(op, q)
              \/ StartConsumer \/ StopServing \/ QueueOnly \/ UNCHANGED pvars
    <3>1. UNCHANGED <<worker, step>>
      BY <1>9, <2>14
         DEF MarkPageQueued, RetryCallback, IngestInsert, IngestEnqueue, Reconcile, CreateJob,
             LateCall, StartConsumer, Start, StopServing, Stop, QueueOnly, SendCreated,
             ScheduleDue, LeaseExpires, RecoverSend, RetryCheck, RetryReset, RetrySend, Dequeue,
             SkipDelivery, ReadRunnable, Reschedule, Restart, GiveBackOrphans, Stopped, WorkerAt,
             pageVars, pvars, vars
    <3>2. AtHand'
      BY <1>9, <3>1
    <3>3. QED
      BY <3>2 DEF j
  <2>15. QED
    BY <2>4, <2>5, <2>6, <2>7, <2>8, <2>11, <2>12, <2>13, <2>14
       DEF PNext, IndexHandler, HandlerBoundary
<1>10. CASE Waiting
  <2>1. ASSUME status'[j] \in Runnable
        PROVE  Waiting'
    <3>1. CASE Next
      BY <1>1, <1>2, <1>3, <1>10, <2>1, <3>1, NextCarried
    <3>2. CASE UNCHANGED vars
      BY <1>10, <2>1, <3>2 DEF vars, hueyVars, childVars, Carried, InQueue
    <3>3. QED
      BY <1>3, <3>1, <3>2
  <2>2. CASE HandlerBoundary /\ worker.job = j
    <3>1. worker.pc # "idle"
      BY <2>2 DEF HandlerBoundary, BeginHandler, FinishHandler, DeferHandler, FailHandler,
         MarkRunning, MarkDone, Defer, FailRetryable, FailDead, WorkerAt
    <3>2. BeginHandler => AtHand'
      BY <2>2 DEF BeginHandler, MarkRunning, TypeInv, TypeOK
    <3>3. ~ FinishHandler
      BY <1>1, <1>4, <2>2 DEF FinishHandler, OwnChild, Current
    <3>4. DeferHandler => status'[j] \in Runnable
      BY <1>1, <2>2 DEF DeferHandler, Defer, MarkFailed, Runnable, TypeInv, TypeOK
    <3>5. FailHandler => AtHand' \/ status'[j] \in Runnable
      BY <1>1, <2>2 DEF FailHandler, FailRetryable, FailDead, MarkFailed, Runnable, TypeInv, TypeOK
    <3>6. QED
      BY <2>1, <2>2, <3>2, <3>3, <3>4, <3>5 DEF HandlerBoundary, j
  <2>3. CASE HandlerBoundary /\ worker.job # j
    <3>1. status'[j] = status[j]
      BY <1>1, <2>3 DEF HandlerBoundary, BeginHandler, FinishHandler, DeferHandler, FailHandler,
         MarkRunning, MarkDone, Defer, FailRetryable, FailDead, MarkFailed, TypeInv, TypeOK
    <3>2. QED
      BY <1>10, <2>1, <3>1 DEF j
  <2>4. CASE ~ HandlerBoundary
    <3>1. status'[j] \in Runnable
      BY <1>1, <1>10, <2>4, StaysRunnable
    <3>2. QED
      BY <2>1, <3>1 DEF j
  <2>5. QED
    BY <2>2, <2>3, <2>4
<1>20. QED
  <2>1. page[p] = "indexed" /\ phase = "up" => AtHand \/ Waiting
    BY <1>4 DEF EntityJobFollows, j
  <2>2. QED
    BY <1>5, <1>6, <1>7, <1>8, <1>9, <1>10, <2>1

\* While the process serves, an indexed page has an extract_entities job, or the
\* index job that creates it is in the worker's hand or on its way there: across
\* any crashes, cancelled handlers and retries, for any number of pages.
THEOREM EntityJobsFollow == PSpec => []EntityJobFollows
<1>1. PInit => EInv
  BY TypesKept DEF PInit, Init, EInv, OwnChild, EntityJobFollows
<1>2. EInv /\ [PNext]_pvars => EInv'
  BY TypesKept, NextOwnChild, NextFollows DEF EInv
<1>3. EInv => EntityJobFollows
  BY DEF EInv
<1>4. QED
  BY <1>1, <1>2, <1>3, PTL DEF PSpec

-----------------------------------------------------------------------------
(* StatusesAgree, when manual retries do not overlap.  The page follows its *)
(* index job: Rows says so of the rows, Told of the handler that is at or  *)
(* past its last commit and of the jobs done.  Before the first restart    *)
(* OneMessage keeps the callback of a retry and the worker apart.          *)

Reached ==
    step \in {"indexed", "sending", "returned"} /\ worker.job.kind = "index"
        => page[Current] = "indexed"

Told ==
    used.retries = 0 \/ NoRestart =>
        Reached /\ \A p \in Pages : status[IndexJob(p)] = "done" => page[p] = "indexed"

DeathTold ==
    NoRestart => \A p \in Pages : status[IndexJob(p)] = "dead" =>
        page[p] = "dead" \/ (worker.pc = "dead" /\ worker.job = IndexJob(p))

Rows ==
    /\ \A p \in inserted : page[p] # "none"
    /\ \A p \in Pages : /\ page[p] = "none" => status[IndexJob(p)] = "absent"
                        /\ status[IndexJob(p)] = "absent" => page[p] \in {"none", "queued"}
                        /\ IndexJob(p) \notin stranded
    /\ spawning # {} => step = "sending"
    /\ worker.pc = "dead" => status[worker.job] \in {"dead", "pending"}
    /\ used.retries = 0 => /\ \A c \in Callers : retrier[c].pc = "idle"
                           /\ worker.pc = "dead" => status[worker.job] = "dead"

Stories == Rows /\ Told /\ DeathTold

\* What the proof takes from the queue and from the rest of this module.
Base == QInv /\ OwnChild /\ MInv /\ StopLeavesNothing

\* What is used of a bound is not given back.
LEMMA UsedGrows ==
    ASSUME TypeInv, [Next]_vars
    PROVE  /\ used'.retries = 0 => used.retries = 0
           /\ NoRestart' => NoRestart
<1> USE DEF TypeInv, TypeOK, Bounds
<1> DEFINE Grows == used'.retries = 0 => used.retries = 0
<1>1. ASSUME NEW b \in Bounds, Use(b)
      PROVE  Grows
  BY <1>1 DEF Use
<1>2. (Enqueuing \/ Dequeue \/ \E j \in Jobs : ScheduleDue(j) \/ LeaseExpires(j)) => Grows
  BY DEF Enqueuing, CreateJob, SendCreated, SpawnJob, SendSpawned, Dequeue, ScheduleDue,
     LeaseExpires
<1>3. Retrying => Grows
  BY <1>1 DEF Retrying, RetryCheck, RetryReset, RetryCallback, RetrySend
<1>4. Executing => Grows
  <2>1. LeaveChild \/ Defer => Grows
    BY <1>1 DEF LeaveChild, Defer
  <2>2. QED
    BY <2>1 DEF Executing, HandlerEnds, SkipDelivery, ReadRunnable, MarkRunning, MarkDone,
       FailRetryable, FailDead, DeadCallback, Reschedule
<1>5. Lifecycle => Grows
  BY <1>1 DEF Lifecycle, Restart, GiveBackOrphans, RecoverSend, Start, Stop, Stopped, Crash
<1>6. Grows
  BY <1>2, <1>3, <1>4, <1>5 DEF Next, vars
<1>7. NoRestart' => NoRestart
  BY NoRestartYet DEF vars, NoRestart
<1>8. QED
  BY <1>6, <1>7

\* A step of the index handler inside its run: its job says running.
LEMMA HandlerTells ==
    ASSUME Base, Stories, IndexHandler \/ EntityHandler
    PROVE  Stories'
<1> USE DEF Base, QInv, PTypeOK
<1>0. ASSUME worker.pc = "run"
      PROVE  /\ Current \in Pages /\ status[worker.job] = "running"
             /\ worker.job.kind = "index" => worker.job = IndexJob(Current)
             /\ \A p \in Pages : worker.job = IndexJob(p) => p = Current
  <2>1. worker.job \in Jobs /\ status[worker.job] = "running"
    BY <1>0 DEF MInv, LInv, StillTrue, TypeInv, Holding
  <2>2. QED
    BY <2>1, JobFacts DEF Current
<1>1. ASSUME NEW from, NEW to, Indexing(from, to), NEW st \in {"indexing", "failed", "indexed"},
             page' = page \/ page' = [page EXCEPT ![Current] = st],
             to \in {"indexed", "sending", "returned"} => page'[Current] = "indexed",
             from # "sending", inserted' = inserted
      PROVE  Stories'
  <2>1. /\ worker.pc = "run" /\ worker.job = IndexJob(Current) /\ step = from /\ step' = to
        /\ Current \in Pages /\ status[IndexJob(Current)] = "running"
        /\ UNCHANGED <<status, worker, used, stranded, spawning, retrier>>
        /\ Current' = Current
    BY <1>0, <1>1 DEF Indexing, Handling, WorkerAt, vars, ledgerVars, childVars, Current
  <2>2. \A p \in Pages : p # Current => page'[p] = page[p]
    BY <1>1
  <2>3. page[Current] # "none"
    BY <2>1 DEF Stories, Rows
  <2>4. page'[Current] # "none"
    BY <1>1, <2>1, <2>3
  <2>5. Rows'
    BY <1>1, <2>1, <2>2, <2>3, <2>4 DEF Stories, Rows
  <2>6. Told'
    BY <1>1, <2>1, <2>2 DEF Stories, Told, Reached, NoRestart
  <2>7. DeathTold'
    BY <2>1, <2>2 DEF Stories, DeathTold, NoRestart
  <2>8. QED
    BY <2>5, <2>6, <2>7 DEF Stories
<1>2. CASE FetchBody \/ FetchRaises
  BY <1>1, <1>2 DEF FetchBody, FetchRaises, Keep
<1>3. CASE BeginIndexing \/ PipelineRaises
  BY <1>1, <1>3 DEF BeginIndexing, PipelineRaises, SetPage, Keep
<1>4. CASE ReplaceChunks \/ UpsertChunks \/ UpsertPageVectors
  BY <1>1, <1>4 DEF ReplaceChunks, UpsertChunks, UpsertPageVectors, Store, Keep
<1>5. CASE ClearIndexArtifacts \/ DeletePoints
  BY <1>1, <1>5 DEF ClearIndexArtifacts, DeletePoints, Clean, Keep
<1>6. CASE SetIndexed
  <2>1. Current \in Pages
    BY <1>0, <1>6 DEF SetIndexed, Indexing, Handling, WorkerAt
  <2>2. QED
    BY <1>1, <1>6, <2>1 DEF SetIndexed, SetPage, Keep
<1>7. ASSUME UNCHANGED <<page, inserted, worker, used, stranded, retrier>>,
             spawning' # {} => step' = "sending", worker.pc = "run",
             \A p \in Pages : status'[IndexJob(p)] = status[IndexJob(p)],
             \/ step \in {"indexed", "sending", "returned"}
             \/ worker.job.kind # "index"
      PROVE  Stories'
  <2>1. Current' = Current
    BY <1>7 DEF Current
  <2>2. Rows' /\ Told' /\ DeathTold'
    BY <1>7, <2>1 DEF Stories, Rows, Told, Reached, DeathTold, NoRestart
  <2>3. QED
    BY <2>2 DEF Stories
<1>8. CASE EnqueueEntities
  <2>1. /\ worker.pc = "run" /\ step = "indexed"
        /\ UNCHANGED <<page, inserted, worker, used, stranded, retrier>>
    BY <1>8 DEF EnqueueEntities, Handling, WorkerAt, SpawnJob, Keep, vars, childVars
  <2>2. \A p \in Pages : status'[IndexJob(p)] = status[IndexJob(p)]
    <3>1. \A p \in Pages : EntityJob(Current) # IndexJob(p)
      BY DEF EntityJob, IndexJob
    <3>2. QED
      BY <1>8, <3>1, JobFacts DEF EnqueueEntities, SpawnJob, InsertRow, vars, ledgerVars, TypeInv, TypeOK
  <2>3. spawning' # {} => step' = "sending"
    BY <1>8, <2>1 DEF EnqueueEntities, vars, childVars, Stories, Rows
  <2>4. QED
    BY <1>7, <2>1, <2>2, <2>3
<1>9. CASE SendEntities
  <2>1. PICK p \in Pages : SendSpawned(EntityJob(p))
    BY <1>9 DEF SendEntities
  <2>2. worker.pc = "run" /\ step = "sending"
    BY <2>1 DEF SendSpawned, Children, Stories, Rows
  <2>3. spawning' = {}
    BY <2>1 DEF SendSpawned, OwnChild
  <2>4. QED
    BY <1>7, <1>9, <2>1, <2>2, <2>3 DEF SendEntities, SendSpawned, Keep, ledgerVars
<1>10. CASE EntityHandler
  <2>1. worker.pc = "run" /\ worker.job.kind = "entities" /\ step # "sending"
    BY <1>10 DEF EntityHandler, ReadForEntities, LinkMentions, ExtractionRaises, Handling, WorkerAt
  <2>2. UNCHANGED <<page, inserted, status, worker, used, stranded, spawning, retrier>>
    BY <1>10 DEF EntityHandler, ReadForEntities, LinkMentions, ExtractionRaises, vars, ledgerVars, childVars
  <2>3. spawning = {}
    BY <2>1 DEF Stories, Rows
  <2>4. QED
    BY <1>7, <2>1, <2>2, <2>3
<1>11. QED
  BY <1>2, <1>3, <1>4, <1>5, <1>6, <1>8, <1>9, <1>10 DEF IndexHandler

\* Around the handler: it ends with the page it leaves, its job is done only
\* after its last commit, and the child left behind is no index job.
LEMMA BoundaryTells ==
    ASSUME Base, Stories, HandlerBoundary \/ MarkPageDead
    PROVE  Stories'
<1> USE DEF Base, QInv, TypeInv, TypeOK
<1> DEFINE j == worker.job
<1>0. ASSUME worker.pc # "idle"
      PROVE  /\ j \in Jobs /\ Current \in Pages
             /\ j.kind = "index" => j = IndexJob(Current)
             /\ \A p \in Pages : j = IndexJob(p) => p = Current /\ j.kind = "index"
  <2>1. j \in Jobs
    BY <1>0 DEF Holding
  <2>2. QED
    BY <2>1, JobFacts DEF Current
<1>00. /\ used'.retries = 0 => used.retries = 0
       /\ NoRestart' => NoRestart
  BY UsedGrows, StepsOfQueue DEF PNext
<1> DEFINE Ends(st) ==
             /\ j \in Jobs /\ worker.pc \in {"claim", "run"}
             /\ status[j] \in {"pending", "running", "failed"}
             /\ status' = [status EXCEPT ![j] = st]
             /\ st = "done" => step = "returned"
             /\ worker'.pc = "dead" <=> st = "dead"
             /\ worker'.pc = "dead" => worker'.job = j
             /\ UNCHANGED <<page, inserted, retrier>>
             /\ spawning' = {}
             /\ stranded' \subseteq stranded \union spawning
             /\ step' \in {"start", "none"}
<1>1. ASSUME NEW st \in {"running", "failed", "done", "dead"}, Ends(st)
      PROVE  Stories'
  <2>1. \A p \in Pages : /\ IndexJob(p) \in Jobs
                         /\ IndexJob(p) # j => status'[IndexJob(p)] = status[IndexJob(p)]
                         /\ IndexJob(p) = j => status'[IndexJob(p)] = st /\ status[IndexJob(p)] # "absent"
    BY <1>1, JobFacts
  <2>2. \A p \in Pages : IndexJob(p) \notin stranded'
    <3>1. \A p \in Pages : IndexJob(p) \notin spawning
      BY DEF OwnChild, IndexJob, EntityJob
    <3>2. QED
      BY <1>1, <3>1 DEF Stories, Rows
  <2>3. worker'.pc = "dead" => status'[worker'.job] = "dead"
    BY <1>1
  <2>4. Rows'
    <3>1. \A p \in Pages : /\ page'[p] = "none" => status'[IndexJob(p)] = "absent"
                           /\ status'[IndexJob(p)] = "absent" => page'[p] \in {"none", "queued"}
      BY <1>1, <2>1 DEF Stories, Rows
    <3>2. QED
      BY <1>00, <1>1, <2>2, <2>3, <3>1 DEF Stories, Rows
  <2>5. ASSUME used'.retries = 0 \/ NoRestart', NEW p \in Pages, status'[IndexJob(p)] = "done"
        PROVE  page'[p] = "indexed"
    <3>1. used.retries = 0 \/ NoRestart
      BY <1>00, <2>5
    <3>2. CASE IndexJob(p) = j
      <4>1. st = "done" /\ step = "returned" /\ worker.job.kind = "index" /\ Current = p
        BY <1>0, <1>1, <2>1, <2>5, <3>2
      <4>2. QED
        BY <1>1, <3>1, <4>1 DEF Stories, Told, Reached
    <3>3. CASE IndexJob(p) # j
      BY <1>1, <2>1, <2>5, <3>1, <3>3 DEF Stories, Told
    <3>4. QED
      BY <3>2, <3>3
  <2>6. Told'
    BY <1>1, <2>5 DEF Told, Reached
  <2>7. DeathTold'
    BY <1>00, <1>1, <2>1 DEF Stories, DeathTold
  <2>8. QED
    BY <2>4, <2>6, <2>7 DEF Stories
<1>2. /\ WorkerAt("run") => j \in Jobs /\ status[j] = "running" /\ worker.pc = "run"
      /\ WorkerAt("claim") => j \in Jobs /\ status[j] \in Runnable /\ worker.pc = "claim" /\ spawning = {}
  BY <1>0 DEF WorkerAt, MInv, LInv, StillTrue, Children
<1>3. CASE BeginHandler
  <2>1. Ends("running")
    BY <1>2, <1>3 DEF BeginHandler, MarkRunning, Runnable, childVars
  <2>2. QED
    BY <1>1, <2>1
<1>4. CASE FinishHandler
  <2>1. Ends("done")
    BY <1>2, <1>4 DEF FinishHandler, MarkDone, IdleWorker, childVars
  <2>2. QED
    BY <1>1, <2>1
<1>5. CASE DeferHandler
  <2>1. Ends("failed")
    BY <1>2, <1>5 DEF DeferHandler, Defer, MarkFailed, childVars
  <2>2. QED
    BY <1>1, <2>1
<1>6. CASE FailHandler
  <2>1. LeaveChild => spawning' = {} /\ stranded' \subseteq stranded \union spawning
    BY DEF LeaveChild
  <2>2. CASE FailRetryable
    <3>1. Ends("failed")
      BY <1>2, <1>6, <2>1, <2>2 DEF FailHandler, FailRetryable, MarkFailed
    <3>2. QED
      BY <1>1, <3>1
  <2>3. CASE FailDead
    <3>1. Ends("dead")
      BY <1>2, <1>6, <2>1, <2>3 DEF FailHandler, FailDead
    <3>2. QED
      BY <1>1, <3>1
  <2>4. QED
    BY <1>6, <2>2, <2>3 DEF FailHandler
<1>7. CASE MarkPageDead
  <2>1. /\ worker.pc = "dead" /\ worker'.pc = "idle" /\ step = "none" /\ step' = "none"
        /\ UNCHANGED <<status, inserted, stranded, spawning, retrier, used>>
    BY <1>7 DEF MarkPageDead, DeadCallback, WorkerAt, IdleWorker, ledgerVars, childVars, PTypeOK
  <2>2. /\ \A p \in Pages : j # IndexJob(p) => page'[p] = page[p]
        /\ \A p \in Pages : j = IndexJob(p) => page'[p] = "dead"
    BY <1>0, <1>7, <2>1 DEF MarkPageDead, SetPage, PTypeOK
  <2>3. \A p \in Pages : j = IndexJob(p) => status[IndexJob(p)] \in {"dead", "pending"} /\ page[p] # "none"
    BY <2>1 DEF Stories, Rows
  <2>4. \A p \in Pages :
          /\ page'[p] = "none" => page[p] = "none" /\ status'[IndexJob(p)] = "absent"
          /\ status'[IndexJob(p)] = "absent" => page'[p] \in {"none", "queued"}
    BY <2>1, <2>2, <2>3 DEF Stories, Rows
  <2>5. Rows'
    BY <2>1, <2>4 DEF Stories, Rows, PTypeOK
  <2>6. Told'
    BY <2>1, <2>2, <2>3 DEF Stories, Told, Reached, NoRestart
  <2>7. DeathTold'
    BY <2>1, <2>2, <2>3 DEF Stories, DeathTold, NoRestart
  <2>8. QED
    BY <2>5, <2>6, <2>7 DEF Stories
<1>8. QED
  BY <1>3, <1>4, <1>5, <1>6, <1>7 DEF HandlerBoundary

\* Requests: a page is inserted before its job, and the callback of a retry meets
\* a job that waits for it, before the first restart.
LEMMA RequestTells ==
    ASSUME Base, Stories,
           \/ \E p \in Pages : \/ IngestInsert(p) \/ IngestEnqueue(p) \/ Reconcile(p)
                               \/ \E op \in LateOps : LateCall(op, p)
           \/ \E c \in Callers : MarkPageQueued(c)
    PROVE  Stories'
<1> USE DEF Base, QInv, TypeInv, TypeOK
<1>1. ASSUME NEW p \in Pages, IngestInsert(p)
      PROVE  Stories'
  <2>1. /\ page[p] = "none" /\ page' = [page EXCEPT ![p] = "queued"] /\ inserted' = inserted \union {p}
        /\ UNCHANGED <<status, worker, used, stranded, spawning, retrier, step>> /\ Current' = Current
    BY <1>1 DEF IngestInsert, vars, ledgerVars, childVars, Current
  <2>2. status[IndexJob(p)] = "absent"
    BY <2>1 DEF Stories, Rows
  <2>3. page'[p] = "queued" /\ \A q \in Pages : q # p => page'[q] = page[q]
    BY <2>1 DEF PTypeOK
  <2>4. Rows'
    BY <2>1, <2>2, <2>3 DEF Stories, Rows, PTypeOK
  <2>5. step # "none" => Current \in Pages
    BY CurrentPage DEF PTypeOK
  <2>6. Told' /\ DeathTold'
    BY <2>1, <2>2, <2>3, <2>5 DEF Stories, Told, Reached, DeathTold, NoRestart
  <2>7. QED
    BY <2>4, <2>6 DEF Stories
<1>2. ASSUME NEW k \in Jobs, CreateJob(k), UNCHANGED <<page, step>>, inserted' \subseteq inserted,
             \A p \in Pages : k = IndexJob(p) => p \in inserted
      PROVE  Stories'
  <2>1. /\ status[k] = "absent" /\ status' = [status EXCEPT ![k] = "pending"]
        /\ UNCHANGED <<worker, used, stranded, spawning, retrier>> /\ Current' = Current
    BY <1>2 DEF CreateJob, InsertRow, childVars, Current
  <2>2. \A p \in Pages : /\ k = IndexJob(p) => status'[IndexJob(p)] = "pending" /\ page[p] # "none"
                         /\ k # IndexJob(p) => status'[IndexJob(p)] = status[IndexJob(p)]
    BY <1>2, <2>1, JobFacts DEF Stories, Rows
  <2>3. worker.pc = "dead" => worker.job # k /\ worker.job \in Jobs
    BY <2>1 DEF Stories, Rows, Holding
  <2>4. Rows'
    BY <1>2, <2>1, <2>2, <2>3 DEF Stories, Rows
  <2>5. Told' /\ DeathTold'
    BY <1>2, <2>1, <2>2 DEF Stories, Told, Reached, DeathTold, NoRestart
  <2>6. QED
    BY <2>4, <2>5 DEF Stories
<1>3. ASSUME NEW p \in Pages, IngestEnqueue(p) \/ Reconcile(p)
      PROVE  Stories'
  <2>1. CASE IngestEnqueue(p)
    <3>1. \A q \in Pages : IndexJob(p) = IndexJob(q) => q = p
      BY DEF IndexJob
    <3>2. /\ CreateJob(IndexJob(p)) /\ UNCHANGED <<page, step>> /\ inserted' \subseteq inserted
          /\ p \in inserted
      BY <2>1 DEF IngestEnqueue
    <3>3. \A q \in Pages : IndexJob(p) = IndexJob(q) => q \in inserted
      BY <3>1, <3>2
    <3>4. IndexJob(p) \in Jobs
      BY JobFacts
    <3>5. QED
      BY <1>2, <3>2, <3>3, <3>4
  <2>2. CASE Reconcile(p)
    <3>1. \A q \in Pages : EntityJob(p) # IndexJob(q)
      BY DEF EntityJob, IndexJob
    <3>2. QED
      BY <1>2, <2>2, <3>1, JobFacts DEF Reconcile, pageVars
  <2>3. QED
    BY <1>3, <2>1, <2>2
<1>4. ASSUME NEW p \in Pages, NEW op \in LateOps, LateCall(op, p)
      PROVE  Stories'
  BY <1>4 DEF LateCall, Stories, Rows, Told, Reached, DeathTold, NoRestart, Current, vars, ledgerVars,
     childVars
<1>5. ASSUME NEW c \in Callers, MarkPageQueued(c)
      PROVE  Stories'
  <2> DEFINE k == retrier[c].job
  <2>1. /\ retrier[c].pc = "callback" /\ k \in Jobs /\ Called(k)
        /\ UNCHANGED <<status, worker, used, stranded, spawning, inserted, step>> /\ Current' = Current
        /\ used.retries # 0
    BY <1>5 DEF MarkPageQueued, RetryCallback, CallerAt, Called, Holding, ledgerVars, childVars, Current,
       Stories, Rows
  <2>2. \A p \in Pages : /\ k = IndexJob(p) => page'[p] = "queued"
                         /\ k # IndexJob(p) => page'[p] = page[p]
    <3>1. CASE k.kind = "index"
      <4>1. page' = [page EXCEPT ![k.page] = "queued"]
        BY <1>5, <3>1 DEF MarkPageQueued
      <4>2. k.page \in Pages /\ \A p \in Pages : k = IndexJob(p) <=> p = k.page
        BY <2>1, <3>1, JobFacts
      <4>3. QED
        BY <4>1, <4>2 DEF PTypeOK
    <3>2. CASE k.kind # "index"
      <4>1. page' = page
        BY <1>5, <3>2 DEF MarkPageQueued
      <4>2. \A p \in Pages : k # IndexJob(p)
        BY <3>2, JobFacts
      <4>3. QED
        BY <4>1, <4>2
    <3>3. QED
      BY <3>1, <3>2
  <2>3. NoRestart => status[k] \notin {"absent", "done", "dead"} /\ ~ Held(k)
    BY <2>1 DEF MInv, OneMessage, Lone, Uncarried
  <2> HIDE DEF k
  <2>4. Rows'
    <3>1. \A p \in Pages :
            /\ page'[p] = "none" => page[p] = "none" /\ status'[IndexJob(p)] = "absent"
            /\ status'[IndexJob(p)] = "absent" => page'[p] \in {"none", "queued"}
      BY <2>1, <2>2 DEF Stories, Rows
    <3>2. QED
      BY <2>1, <3>1 DEF Stories, Rows, PTypeOK
  <2>5. NoRestart => Reached'
    <3>1. SUFFICES ASSUME NoRestart, step \in {"indexed", "sending", "returned"},
                          worker.job.kind = "index"
                   PROVE  page'[Current] = "indexed"
      BY <2>1 DEF Reached
    <3>2. worker.pc = "run" /\ worker.job \in Jobs /\ worker.job = IndexJob(Current) /\ Current \in Pages
      BY <3>1, CurrentPage, JobFacts DEF PTypeOK, Current
    <3>3. k # IndexJob(Current)
      BY <2>3, <3>1, <3>2 DEF Held
    <3>4. QED
      BY <2>2, <3>1, <3>2, <3>3 DEF Stories, Told, Reached
  <2>6. Told'
    BY <2>1, <2>2, <2>3, <2>5 DEF Stories, Told, NoRestart
  <2>7. DeathTold'
    BY <2>1, <2>2, <2>3 DEF Stories, DeathTold, NoRestart
  <2>8. QED
    BY <2>4, <2>6, <2>7 DEF Stories
<1>6. QED
  BY <1>1, <1>3, <1>4, <1>5

\* The process and the rest of the queue leave the pages alone; only a retry and
\* a recovery touch the ledger, and neither finishes a job.
LEMMA QueueTells ==
    ASSUME Base, Stories, StartConsumer \/ StopServing \/ Die \/ QueueOnly \/ UNCHANGED pvars
    PROVE  Stories'
<1> USE DEF Base, QInv, TypeInv, TypeOK
<1>0. /\ used'.retries = 0 => used.retries = 0
      /\ NoRestart' => NoRestart
  BY UsedGrows, StepsOfQueue DEF PNext
\* What the steps have in common, whatever becomes of the statuses.
<1>1. ASSUME UNCHANGED page, inserted' \subseteq inserted, stranded' \subseteq stranded,
             spawning' = {} \/ UNCHANGED <<spawning, step>>,
             step' = "none" \/ UNCHANGED <<worker, step>>,
             worker'.pc = "dead" => UNCHANGED worker,
             NoRestart' /\ worker.pc = "dead" => UNCHANGED worker,
             \A k \in Jobs : \/ status'[k] = status[k]
                             \/ status[k] \in {"running", "dead"} /\ status'[k] = "pending",
             used'.retries = 0 => /\ \A c \in Callers : retrier'[c].pc = "idle"
                                  /\ worker.pc = "dead" => status'[worker.job] = status[worker.job]
      PROVE  Stories'
  <2>1. \A p \in Pages : IndexJob(p) \in Jobs
    BY JobFacts
  <2>2. \A p \in Pages : status'[IndexJob(p)] = "absent" <=> status[IndexJob(p)] = "absent"
    BY <1>1, <2>1
  <2>7. worker'.pc = "dead" => /\ worker' = worker /\ worker.job \in Jobs
                               /\ status'[worker.job] \in {"dead", "pending"}
    BY <1>1 DEF Stories, Rows, Holding
  <2>8. used'.retries = 0 /\ worker'.pc = "dead" => status'[worker.job] = "dead"
    BY <1>0, <1>1, <2>7 DEF Stories, Rows
  <2>9. spawning' # {} => step' = "sending"
    BY <1>1 DEF Stories, Rows
  <2>10. Rows'
    BY <1>1, <2>2, <2>7, <2>8, <2>9 DEF Stories, Rows
  <2>3. step' # "none" => Current' = Current
    BY <1>1 DEF Current
  <2>4. Told'
    BY <1>0, <1>1, <2>1, <2>3 DEF Stories, Told, Reached
  <2>5. DeathTold'
    BY <1>0, <1>1, <2>1 DEF Stories, DeathTold
  <2>6. QED
    BY <2>4, <2>5, <2>10 DEF Stories
<1>2. worker.pc # "idle" => worker.job \in Jobs
  BY DEF Holding
<1>3. CASE StartConsumer \/ StopServing
  BY <1>0, <1>1, <1>2, <1>3 DEF StartConsumer, Start, StopServing, Stop, pageVars, ledgerVars, childVars,
     Stories, Rows
<1>4. CASE Die
  <2>1. ~ NoRestart' /\ used'.retries = used.retries
    BY <1>4 DEF Die, Crash, Use, NoRestart, Bounds
  <2>2. /\ UNCHANGED <<page, status, stranded>> /\ inserted' = {} /\ step' = "none" /\ spawning' = {}
        /\ worker'.pc = "idle" /\ \A c \in Callers : retrier'[c].pc = "idle"
    BY <1>4 DEF Die, Crash, IdleWorker, IdleCaller, ledgerVars
  <2>3. QED
    BY <1>1, <2>1, <2>2
<1>5. CASE QueueOnly
  <2> USE DEF pageVars
  <2>1. step = "none" \/ worker.pc = "run"
    BY DEF PTypeOK
  <2>2. ASSUME NEW k \in Jobs, SendCreated(k) \/ ScheduleDue(k) \/ LeaseExpires(k) \/ RecoverSend(k)
        PROVE  Stories'
    BY <1>0, <1>1, <1>5, <2>2 DEF QueueOnly, SendCreated, ScheduleDue, LeaseExpires, RecoverSend,
       ledgerVars, childVars, Stories, Rows
  <2>3. ASSUME NEW c \in Callers, NEW k \in Jobs, RetryCheck(c, k)
        PROVE  Stories'
    <3>1. used'.retries # 0
      BY <2>3 DEF RetryCheck, Use, Bounds
    <3>2. QED
      BY <1>1, <1>5, <2>3, <3>1 DEF QueueOnly, RetryCheck, ledgerVars, childVars
  <2>4. ASSUME NEW c \in Callers, RetryReset(c)
        PROVE  Stories'
    <3>1. status[retrier[c].job] = "dead" /\ retrier[c].job \in Jobs
      BY <2>4 DEF RetryReset, CallerAt, MInv, LInv, StillTrue, Holding
    <3>2. used'.retries # 0
      BY <1>0, <2>4 DEF RetryReset, CallerAt, Stories, Rows
    <3>3. QED
      BY <1>1, <1>5, <2>4, <3>1, <3>2 DEF QueueOnly, RetryReset, childVars
  <2>5. ASSUME NEW c \in Callers, RetrySend(c)
        PROVE  Stories'
    <3>1. used'.retries # 0
      BY <1>0, <2>5 DEF RetrySend, CallerAt, Stories, Rows
    <3>2. QED
      BY <1>1, <1>5, <2>5, <3>1 DEF QueueOnly, RetrySend, ledgerVars, childVars
  <2>6. CASE Dequeue \/ SkipDelivery \/ ReadRunnable \/ Reschedule
    <3>0. ReadRunnable => worker.pc = "got" /\ worker'.pc = "claim"
      BY DEF ReadRunnable, WorkerAt
    <3>1. worker.pc \notin {"run", "dead"} /\ worker'.pc # "dead"
      BY <2>6, <3>0 DEF Dequeue, SkipDelivery, Reschedule, WorkerAt, IdleWorker
    <3>2. UNCHANGED <<status, spawning, stranded, retrier, used>>
      BY <2>6 DEF Dequeue, SkipDelivery, ReadRunnable, Reschedule, ledgerVars, childVars
    <3>3. step = "none"
      BY <2>1, <3>1
    <3>4. QED
      BY <1>0, <1>1, <1>5, <3>1, <3>2, <3>3 DEF QueueOnly, Stories, Rows
  <2>7. CASE Restart
    <3>1. worker.pc = "idle"
      BY <2>7 DEF Restart, GiveBackOrphans, MInv, LInv, StillTrue
    <3>2. QED
      BY <1>0, <1>1, <1>5, <2>7, <3>1 DEF QueueOnly, Restart, GiveBackOrphans, ExpiredOrphans, Stories, Rows
  <2>8. CASE Stopped
    BY <1>0, <1>1, <1>5, <2>8 DEF QueueOnly, Stopped, ledgerVars, childVars, Stories, Rows
  <2>9. QED
    BY <1>5, <2>2, <2>3, <2>4, <2>5, <2>6, <2>7, <2>8 DEF QueueOnly
<1>6. CASE UNCHANGED pvars
  BY <1>0, <1>1, <1>6 DEF pvars, vars, pageVars, ledgerVars, childVars, Stories, Rows
<1>7. QED
  BY <1>3, <1>4, <1>5, <1>6

LEMMA NextTells == Base /\ Stories /\ [PNext]_pvars => Stories'
BY HandlerTells, BoundaryTells, RequestTells, QueueTells DEF PNext

\* What the two statuses say of each other when nothing is under way.
LEMMA StoriesAgree ==
    ASSUME Base, Stories, PendingNotLost
    PROVE  StatusesAgree
<1> SUFFICES ASSUME NEW p \in Pages
             PROVE  /\ used.retries = 0 => (status[IndexJob(p)] = "done" => page[p] = "indexed")
                    /\ NoRestart /\ ~ Carried(IndexJob(p)) /\ worker.job # IndexJob(p) =>
                         /\ page[p] = "dead" <=> status[IndexJob(p)] = "dead"
                         /\ page[p] = "indexed" <=> status[IndexJob(p)] = "done"
  BY DEF StatusesAgree, NoRestart
<1> DEFINE j == IndexJob(p)
<1>1. used.retries = 0 => (status[j] = "done" => page[p] = "indexed")
  BY DEF Stories, Told
<1>2. ASSUME NoRestart, ~ Carried(j), worker.job # j
      PROVE  /\ page[p] = "dead" <=> status[j] = "dead"
             /\ page[p] = "indexed" <=> status[j] = "done"
  <2>1. j \in Jobs /\ j \notin stranded
    BY JobFacts DEF Stories, Rows
  <2>2. status[j] # "pending"
    BY <1>2, <2>1 DEF PendingNotLost, Base, MInv, OneMessage, Alive
  <2>3. status[j] \notin {"failed", "running"}
    BY <1>2, <2>1 DEF Base, StopLeavesNothing, FailedNotLost, RunningIsOwned, NoRestart
  <2>4. status[j] \in {"absent", "done", "dead"}
    BY <2>1, <2>2, <2>3 DEF Base, QInv, TypeInv, TypeOK, Status
  <2>5. QED
    BY <1>2, <2>4 DEF Stories, Rows, Told, DeathTold
<1>3. QED
  BY <1>1, <1>2

\* A client that polls the page and one that polls the job are told the same: a
\* job is done with its page indexed as long as nothing is retried by hand, and
\* before the first restart, once nothing is under way for a job, its page is
\* dead or indexed exactly when it is dead or done, whatever was retried, raced
\* its on_dead callback, was cancelled or ran out of attempts.
THEOREM StatusesStayTrue == SingleCaller /\ PSpec => []StatusesAgree
<1>1. SingleCaller /\ PSpec => [](MInv /\ StopLeavesNothing /\ PendingNotLost)
  <2>1. SingleCaller /\ Spec => []MInv
    BY SingleMessage
  <2>2. QED
    BY <2>1, QueueImplemented, StopIsClean, NoPendingJobLost, PTL
<1>2. PSpec => [](QInv /\ OwnChild)
  <2>1. PInit => QInv /\ OwnChild
    BY TypesKept DEF PInit, Init, OwnChild
  <2>2. QInv /\ OwnChild /\ [PNext]_pvars => (QInv /\ OwnChild)'
    BY TypesKept, NextOwnChild
  <2>3. QED
    BY <2>1, <2>2, PTL DEF PSpec
<1>3. PInit => Stories
  BY JobFacts DEF PInit, Init, Stories, Rows, Told, Reached, DeathTold, IdleWorker, IdleCaller
<1>4. Base /\ Stories /\ PendingNotLost => StatusesAgree
  BY StoriesAgree
<1>5. (MInv /\ StopLeavesNothing /\ PendingNotLost) /\ (QInv /\ OwnChild) => Base
  BY DEF Base
<1>6. QED
  BY <1>1, <1>2, <1>3, <1>4, <1>5, NextTells, PTL DEF PSpec
=============================================================================

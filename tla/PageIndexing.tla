---------------------------- MODULE PageIndexing ----------------------------
(***************************************************************************)
(* A page from ingest to search: application/services/ingest.py, the two   *)
(* indexing handlers and the queue callbacks of services/indexing.py, and  *)
(* services/entity_ingest.py, composed with JobQueue.  Every step is a     *)
(* step of JobQueue (or a stutter of it) that also moves the page; what    *)
(* JobQueue leaves open, how a handler gets to its outcome, is a sequence  *)
(* of commits here, any of which a crash or a lease expiry may follow.     *)
(*                                                                         *)
(* A page has an index job (index_page, or fetch_and_index when it came    *)
(* without a body) and an extract_entities job.  Its content never         *)
(* changes, so neither do its keys; forgetting a page is not in this       *)
(* module.  A body is taken to yield at least one chunk and one mention.   *)
(***************************************************************************)
EXTENDS JobQueue

CONSTANTS
    Pages,           \* canonical URLs
    LateOps,         \* vector-store calls that may outlive their cancellation:
                     \* {"upsert", "delete"} with LanceDB, whose calls run in a
                     \* thread, {} for a store that drops them
    CleanupMayFail   \* whether the best-effort cleanup may fail

ASSUME JobsOfPages == Jobs = [kind : {"index", "entities"}, page : Pages]
ASSUME LateOpsAssumption == LateOps \subseteq {"upsert", "delete"}
ASSUME CleanupAssumption == CleanupMayFail \in BOOLEAN

VARIABLES
    page,       \* PageStatus of the row, "none" before insert_page
    body,       \* pages whose body is known
    artifacts,  \* what is stored of a page: chunk rows, points, page vectors
    mentions,   \* pages whose mentions are linked
    inserted,   \* pages whose row is committed and whose index job is not
    step,       \* where the running handler is; "none" when there is none
    late,       \* vector-store calls still running in abandoned threads
    undone      \* history: pages whose points such a deletion took, no upsert since

lateVars == <<late, undone>>
pageVars == <<page, body, artifacts, mentions, inserted, step, lateVars>>
pvars == <<vars, pageVars>>

IndexJob(p) == [kind |-> "index", page |-> p]
EntityJob(p) == [kind |-> "entities", page |-> p]

Artifacts == {"chunks", "points", "vectors"}
Steps == {"none", "start", "ready", "pipeline", "chunked", "upserted", "rolled",
          "indexed", "sending", "dirty", "swept", "extracting",
          "raised", "returned"}

PInit ==
    /\ Init
    /\ page = [p \in Pages |-> "none"]
    /\ body = {}
    /\ artifacts = [p \in Pages |-> {}]
    /\ mentions = {}
    /\ inserted = {}
    /\ step = "none"
    /\ late = {}
    /\ undone = {}

-----------------------------------------------------------------------------
(* ingest(): insert_page, then enqueue.  A page that exists is a revisit.  *)

IngestInsert(p) ==
    /\ phase = "up"
    /\ page[p] = "none"
    /\ page' = [page EXCEPT ![p] = "queued"]
    /\ inserted' = inserted \union {p}
    /\ \/ body' = body
       \/ body' = body \union {p}
    /\ UNCHANGED <<vars, artifacts, mentions, step, lateVars>>

IngestEnqueue(p) ==
    /\ phase = "up"
    /\ p \in inserted
    /\ inserted' = inserted \ {p}
    /\ CreateJob(IndexJob(p))
    /\ UNCHANGED <<page, body, artifacts, mentions, step, lateVars>>

-----------------------------------------------------------------------------
(* The handlers.  The page of the job in hand, and a step of its handler.  *)

Current == worker.job.page

Handling(kind, s) == WorkerAt("run") /\ worker.job.kind = kind /\ step = s

Indexing(from, to) == Handling("index", from) /\ step' = to /\ UNCHANGED vars

SetPage(to) == page' = [page EXCEPT ![Current] = to]

Keep == UNCHANGED <<mentions, inserted, lateVars>>

\* handle_fetch_and_index, when the body is not known: set_page_body.
FetchBody ==
    /\ Indexing("start", "ready")
    /\ Current \notin body
    /\ body' = body \union {Current}
    /\ Keep /\ UNCHANGED <<page, artifacts>>

\* The fetch or the extraction raises before _index: the page stays queued.
FetchRaises ==
    /\ Indexing("start", "raised")
    /\ Current \notin body
    /\ Keep /\ UNCHANGED <<page, body, artifacts>>

BeginIndexing ==
    /\ \/ Indexing("start", "pipeline") /\ Current \in body
       \/ Indexing("ready", "pipeline")
    /\ SetPage("indexing")
    /\ Keep /\ UNCHANGED <<body, artifacts>>

\* _run_pipeline: chunk, embed, then three writes in this order.
Store(from, to, a) ==
    /\ Indexing(from, to)
    /\ artifacts' = [artifacts EXCEPT ![Current] = @ \union {a}]
    /\ Keep /\ UNCHANGED <<page, body>>

ReplaceChunks == Store("pipeline", "chunked", "chunks")

Upserted(p) ==
    /\ artifacts' = [artifacts EXCEPT ![p] = @ \union {"points"}]
    /\ undone' = undone \ {p}

UpsertChunks ==
    /\ Indexing("chunked", "upserted")
    /\ Upserted(Current)
    /\ UNCHANGED <<page, body, mentions, inserted, late>>

UpsertPageVectors == Store("upserted", "rolled", "vectors")

\* Any exception of the pipeline, a provider outage included.
PipelineRaises ==
    /\ \E s \in {"pipeline", "chunked", "upserted"} : Indexing(s, "dirty")
    /\ SetPage("failed")
    /\ Keep /\ UNCHANGED <<body, artifacts>>

\* _cleanup_failed_core: two best-effort deletions, then the exception again.
Clean(from, to, as) ==
    /\ Indexing(from, to)
    /\ \/ artifacts' = [artifacts EXCEPT ![Current] = @ \ as]
       \/ CleanupMayFail /\ UNCHANGED artifacts
    /\ Keep /\ UNCHANGED <<page, body>>

ClearIndexArtifacts == Clean("dirty", "swept", {"chunks", "vectors"})
DeletePoints == Clean("swept", "raised", {"points"})

\* Mutant: the status is committed before the page vectors.
SetIndexedEarly ==
    /\ \E s \in {"upserted", "rolled"} : Indexing(s, "indexed")
    /\ SetPage("indexed")
    /\ Keep /\ UNCHANGED <<body, artifacts>>

SetIndexed ==
    /\ Indexing("rolled", "indexed")
    /\ SetPage("indexed")
    /\ Keep /\ UNCHANGED <<body, artifacts>>

\* _enqueue_entity_extraction: a no-op when the key is already in the ledger.
EnqueueEntities ==
    /\ Handling("index", "indexed")
    /\ \/ SpawnJob(EntityJob(Current)) /\ step' = "sending"
       \/ /\ status[EntityJob(Current)] # "absent"
          /\ step' = "returned"
          /\ UNCHANGED vars
    /\ Keep /\ UNCHANGED <<page, body, artifacts>>

SendEntities ==
    /\ \E p \in Pages : SendSpawned(EntityJob(p))
    /\ step' = "returned"
    /\ Keep /\ UNCHANGED <<page, body, artifacts>>

\* handle_extract_entities_job: the page is read, then extracted and linked.
ReadForEntities ==
    /\ Handling("entities", "start")
    /\ step' = IF page[Current] = "indexed" THEN "extracting" ELSE "returned"
    /\ UNCHANGED <<vars, page, body, artifacts, mentions, inserted, lateVars>>

LinkMentions ==
    /\ Handling("entities", "extracting")
    /\ step' = "returned"
    /\ mentions' = mentions \union {Current}
    /\ UNCHANGED <<vars, page, body, artifacts, inserted, lateVars>>

ExtractionRaises ==
    /\ Handling("entities", "extracting")
    /\ step' = "raised"
    /\ UNCHANGED <<vars, page, body, artifacts, mentions, inserted, lateVars>>

-----------------------------------------------------------------------------
(* Around the handler: the steps of the queue that start, end or report it.*)

BeginHandler ==
    /\ MarkRunning
    /\ step' = "start"
    /\ UNCHANGED <<page, body, artifacts, mentions, inserted, lateVars>>

FinishHandler ==
    /\ step = "returned" /\ MarkDone
    /\ step' = "none"
    /\ UNCHANGED <<page, body, artifacts, mentions, inserted, lateVars>>

DeferHandler ==
    /\ step = "raised" /\ Defer
    /\ step' = "none"
    /\ UNCHANGED <<page, body, artifacts, mentions, inserted, lateVars>>

\* The vector-store call a cancelled handler was waiting for.
InFlight == CASE step = "chunked" -> {"upsert"}
              [] step = "swept" -> {"delete"}
              [] OTHER -> {}

\* The handler raised, or its lease ran out wherever it was: a cancellation
\* is no Exception, so _index neither marks the page failed nor cleans up.
FailHandler ==
    /\ step # "returned"
    /\ FailRetryable \/ FailDead
    /\ step' = "none"
    /\ \/ late' = late
       \/ late' = late \union ((InFlight \intersect LateOps) \X {Current})
    /\ UNCHANGED <<page, body, artifacts, mentions, inserted, undone>>

\* An abandoned thread gets its call through after all.
LateCall(op, p) ==
    /\ <<op, p>> \in late
    /\ late' = late \ {<<op, p>>}
    /\ \/ /\ op = "upsert"
          /\ Upserted(p)
       \/ /\ op = "delete"
          /\ artifacts' = [artifacts EXCEPT ![p] = @ \ {"points"}]
          /\ undone' = undone \union {p}
    /\ UNCHANGED <<vars, page, body, mentions, inserted, step>>

\* on_dead: mark_page_dead, for the index job only.
MarkPageDead ==
    /\ DeadCallback
    /\ IF worker.job.kind = "index" THEN SetPage("dead") ELSE UNCHANGED page
    /\ UNCHANGED <<body, artifacts, mentions, inserted, step, lateVars>>

\* Mutant: the kind of the job is not looked at.
MarkPageQueuedAnyway(c) ==
    /\ RetryCallback(c)
    /\ page' = [page EXCEPT ![retrier[c].job.page] = "queued"]
    /\ UNCHANGED <<body, artifacts, mentions, inserted, step, lateVars>>

\* on_retry: mark_page_queued, for the index job only.
MarkPageQueued(c) ==
    /\ RetryCallback(c)
    /\ LET j == retrier[c].job IN
          IF j.kind = "index" THEN page' = [page EXCEPT ![j.page] = "queued"]
                              ELSE UNCHANGED page
    /\ UNCHANGED <<body, artifacts, mentions, inserted, step, lateVars>>

-----------------------------------------------------------------------------
(* The process.                                                            *)

\* Indexed pages with no extract_entities job, whatever its status.
MissingEntityJob ==
    {p \in Pages : page[p] = "indexed" /\ status[EntityJob(p)] = "absent"}

\* reconcile_entity_jobs, at startup, between recovery and the consumer.
Reconcile(p) ==
    /\ phase = "recovering"
    /\ p \in MissingEntityJob
    /\ CreateJob(EntityJob(p))
    /\ UNCHANGED pageVars

\* Mutant: the consumer does not wait for the reconciliation.
StartAtOnce == Start /\ UNCHANGED pageVars

StartConsumer ==
    /\ MissingEntityJob = {}
    /\ Start
    /\ UNCHANGED pageVars

StopServing == inserted = {} /\ Stop /\ UNCHANGED pageVars

Die ==
    /\ Crash
    /\ inserted' = {}
    /\ step' = "none"
    /\ late' = {}
    /\ UNCHANGED <<page, body, artifacts, mentions, undone>>

-----------------------------------------------------------------------------
IndexHandler == \/ FetchBody \/ FetchRaises \/ BeginIndexing
                \/ ReplaceChunks \/ UpsertChunks \/ UpsertPageVectors
                \/ PipelineRaises \/ ClearIndexArtifacts \/ DeletePoints
                \/ SetIndexed \/ EnqueueEntities \/ SendEntities

EntityHandler == ReadForEntities \/ LinkMentions \/ ExtractionRaises

HandlerBoundary == BeginHandler \/ FinishHandler \/ DeferHandler \/ FailHandler

\* Steps of the queue that concern no page.
QueueOnly ==
    /\ \/ \E j \in Jobs : \/ SendCreated(j) \/ ScheduleDue(j)
                          \/ LeaseExpires(j) \/ RecoverSend(j)
       \/ \E c \in Callers : \/ \E j \in Jobs : RetryCheck(c, j)
                             \/ RetryReset(c) \/ RetrySend(c)
       \/ Dequeue \/ SkipDelivery \/ ReadRunnable \/ Reschedule
       \/ Restart
       \/ late = {} /\ Stopped      \* the loop joins its threads as it closes
    /\ UNCHANGED pageVars

PNext == \/ \E p \in Pages : \/ IngestInsert(p) \/ IngestEnqueue(p) \/ Reconcile(p)
                             \/ \E op \in LateOps : LateCall(op, p)
         \/ IndexHandler \/ EntityHandler \/ HandlerBoundary
         \/ MarkPageDead \/ (\E c \in Callers : MarkPageQueued(c))
         \/ StartConsumer \/ StopServing \/ Die
         \/ QueueOnly

PSpec == PInit /\ [][PNext]_pvars

\* As in JobQueue; asyncio.timeout ends a handler that does not end itself,
\* and a call to the vector store returns in the end.
PFairness ==
    /\ \A p \in Pages : /\ WF_pvars(IngestEnqueue(p))
                        /\ WF_pvars(Reconcile(p))
                        /\ \A op \in LateOps : WF_pvars(LateCall(op, p))
    /\ WF_pvars(IndexHandler \/ EntityHandler \/ HandlerBoundary \/ MarkPageDead)
    /\ \A c \in Callers : WF_pvars(MarkPageQueued(c))
    /\ WF_pvars(StartConsumer)
    /\ WF_pvars(QueueOnly /\ Dequeue)
    /\ WF_pvars(QueueOnly /\ (SkipDelivery \/ ReadRunnable \/ Reschedule))
    /\ WF_pvars(QueueOnly /\ (Restart \/ Stopped))
    /\ \A c \in Callers : WF_pvars(QueueOnly /\ (RetryReset(c) \/ RetrySend(c)))
    /\ \A j \in Jobs : /\ WF_pvars(QueueOnly /\ SendCreated(j))
                       /\ WF_pvars(QueueOnly /\ ScheduleDue(j))
                       /\ WF_pvars(QueueOnly /\ LeaseExpires(j))
                       /\ WF_pvars(QueueOnly /\ RecoverSend(j))

PFairSpec == PSpec /\ PFairness

-----------------------------------------------------------------------------
(* Properties.                                                             *)

\* Every variable of the composition has its type, and the handler's place is
\* known exactly while the worker runs one.
PTypeOK ==
    /\ page \in [Pages -> {"none", "queued", "indexing", "indexed", "failed", "dead"}]
    /\ body \subseteq Pages
    /\ artifacts \in [Pages -> SUBSET Artifacts]
    /\ mentions \subseteq Pages
    /\ inserted \subseteq Pages
    /\ step \in Steps
    /\ step = "none" <=> worker.pc # "run"
    /\ late \subseteq LateOps \X Pages
    /\ undone \subseteq Pages

\* An indexed page can be found: its chunk rows, points and page vectors are
\* all stored, whatever failed, crashed, was cancelled or was run again before.
\* Only the cleanup of an earlier run, in a thread that outlived its lease, can
\* still take its points.
IndexedIsRetrievable ==
    \A p \in Pages : page[p] = "indexed" =>
        artifacts[p] = IF p \in undone THEN Artifacts \ {"points"} ELSE Artifacts

\* The two statuses a client may poll agree.  A job is done only with its page
\* indexed, across crashes and reruns, as long as no one retries a job by hand;
\* and once nothing is under way for a job, no message, handler, callback or
\* retry, its page tells the same story, even when the retry of a job overtakes
\* its on_dead callback, before the first crash or restart.
StatusesAgree ==
    \A p \in Pages :
        LET j == IndexJob(p)
            busy == \/ Carried(j)
                    \/ worker.job = j
                    \/ \E c \in Callers : retrier[c].job = j
        IN  /\ used.retries = 0 => (status[j] = "done" => page[p] = "indexed")
            /\ used.crashes = 0 /\ used.stops = 0 /\ ~busy =>
                 /\ page[p] = "dead" <=> status[j] = "dead"
                 /\ page[p] = "indexed" <=> status[j] = "done"

\* While the process serves, an indexed page has an extract_entities job, or
\* the index job that will create it is at hand: what a crash leaves without
\* either, reconcile_entity_jobs repairs before the consumer starts.
EntityJobFollows ==
    phase = "up" =>
        \A p \in Pages :
            LET j == IndexJob(p) IN
            page[p] = "indexed" =>
                \/ status[EntityJob(p)] # "absent"
                \/ worker.job = j /\ worker.pc \in {"run", "dead"} /\ step # "returned"
                \/ status[j] \in Runnable /\ Carried(j)

\* Every page accepted is indexed or dead in the end, or the process crashes.
PageSettles ==
    \A p \in Pages :
        page[p] = "queued" ~> (page[p] \in {"indexed", "dead"} \/ used.crashes > 0)

\* Pages and the jobs behind them settle, whichever of the two is stuck.
EverythingSettles == PageSettles /\ JobsSettle
=============================================================================

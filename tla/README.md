# A formal model of Refindery

Refindery (`src/`) is a self-hosted index of web pages: one asyncio process
with an HTTP and an MCP surface, a SQLite file as the source of truth, a vector
store (embedded LanceDB, or Qdrant), and a durable job queue with one worker.
This directory models its stateful parts in TLA+, checks the models with TLC and
proves the central facts about them with TLAPS.

Paths below are relative to `src/src/refindery/` unless they begin with `src/`.

## 1. Inventory

The program is hexagonal: `domain/` is pure, `application/` has the services and
the ports, `adapters/` implement the ports, `api/` serves them. Everything runs on
one event loop except the worker thread of huey, threads started with
`asyncio.to_thread`, and the writer thread of the observability sink. A job
handler is a coroutine of the loop: requests and the one running handler
interleave at every `await`.

| component | state | operations | hard because |
|---|---|---|---|
| durable queue, `adapters/queue/huey_queue.py` | huey's queue and schedule (SQLite), the job in the worker's hand | enqueue, retry, recover, start, stop, `_execute` | row and message are in two stores; crash anywhere; duplicates; lease timeout |
| ledger, `adapters/metadata/sqlite_store.py` | `jobs` | create, mark running, done, failed, dead, reset, recover | a second writer acts on what the first one read |
| ingest, `services/ingest.py` | `pages` | check, revisit, insert, enqueue | check-then-act against forget; crash between insert and enqueue |
| indexing, `services/indexing.py` | `pages.status`, chunk rows, page vectors, points | two handlers, cleanup, callbacks, reconciliation | writes to two stores, any of which may be cut off |
| entity jobs, `services/entity_ingest.py` | mentions | extract and link | runs against the rerun of the index job that spawned it |
| circuit breakers, `adapters/resilience/` | state, count, probe flag | check, record success, failure, cancellation | calls outlive the state that admitted them |
| forget, `services/forget_service.py` | `blacklist`, `vector_tombstones` | forget, unblacklist, purge job, sweep | races with ingest and indexing; redrive under a digest key |
| vector stores, `adapters/vector/` | points by chunk | upsert, delete, count, search | LanceDB calls run in threads that outlive their cancellation |
| shared connection, `adapters/metadata/sqlite_store.py` | one open transaction | every write of every coroutine | commits and rollbacks of others |
| event bus, `application/job_events.py` | bounded queues | publish, subscribe, close | drop-oldest; close while full |
| models and backfill, `services/model_registry.py`, `services/backfill.py` | `embedding_models`, `model_backfills` | register, activate, retire, backfill | check-then-act; resumption; budget window |
| entity merges, `services/canonicalization.py` and the store | entities, aliases, mentions, merges | link, merge, undo | undo after other merges and new aliases |
| clustering, `services/clustering_run.py`, `domain/clustering.py` | clusters, members, lineage, runs | run, match, idle trigger | a run is many commits; identity across runs |
| watches, `services/watch_service.py` | `watches` | tick, poll, edit, run now | full-row writes; enqueue before advance |
| canonical URLs, `domain/canonical_url.py`, `domain/youtube.py` | none | canonicalize, classify, normalize, fetch route | one page has many URLs; rules, routes and watches read them each in its own way |
| fetching, `adapters/podcast`, `adapters/youtube`, `adapters/transcription` | temporary directories | transcript, captions, sound, download; sections and chunk bounds | threads outlive their cancellation; chapters in any order |
| search, similarity, `services/search_service.py`, `services/similarity_service.py` | none | filter, pin, fuse, rerank, roll up, hydrate, suggest | reads two stores in a dozen awaits |
| compare, evaluation, `services/compare_service.py`, `services/eval_service.py` | search log, replay results | compare models, replay a query, lift of the reranker | arms are read one after the other |
| ranking, `domain/retrieval.py`, `domain/ranking_metrics.py` | none | pure functions | boundaries, ties |
| observability sink, `adapters/observability/duckdb_sink.py` | bounded queue, thread | append, flush, close | drop-oldest against the sentinel |
| query log and replay, `adapters/observability/query_log.py`, `services/eval_service.py`, `services/admin_eval.py` | `query_log`, `feedback`, replay results | log, give feedback, score, trace, replay | two reads of a file another thread writes; attempts of one job share a result |
| metrics history, `adapters/observability/metrics_history.py` | `metrics_samples` | snapshot, read, downsample | lost samples and restarts inside a window |
| lifecycle, `application/container.py` | phase | startup, shutdown | order of steps |

What makes each correct, in one line each:

- queue: no accepted job is lost, none that finished runs again, attempts are
  neither lost nor wasted;
- indexing: what is reported indexed can be found; page and job agree once
  nothing is under way; every page settles;
- breakers: a breaker always gets out of half-open, and closes with a clean count;
- forget: vectors of a purged page are tracked until they are gone, and go;
- connection: a commit carries what its coroutine wrote, all of it and no more;
- event bus and sink: the last event of a stream and the end of it arrive;
- backfill: a finished backfill covers every indexed page, one model is active;
- merges: undo restores what the merge found;
- clusters: a page is in one live cluster, a cluster keeps its name;
- watches: no due poll is skipped or done twice, no edit is undone;
- URLs: forms of one page lead to one page, others do not, and a rule rejects
  what it purges;
- fetching: sections tile the body, whatever the chapters; no directory is left;
- search: nothing the filter excludes, nothing twice, nothing missing while
  nothing changes; slices tile the ranking;
- compare: what differs between two arms comes from the model;
- query log: scores and golden queries are of the words that survived, the last
  one winning, and a replay that is done has its report;
- metrics history: no increment is told twice.

## 2. Plan

In order of importance. All modules are written; proofs are left.

1. **JobQueue** over **JobLedger** (abstract); proofs. *done*
2. **PageIndexing**, composed with JobQueue. *done*, proofs too
3. **CircuitBreaker**; proofs. *done*
4. **ForgetTombstones** over JobLedger; proof. *done*
5. **SqliteConnection**: statements of several coroutines on one connection.
   *done*
6. **ModelBackfill**: registration, activation, retirement, and the resumable
   backfill beside indexing. *done*
7. **JobEvents** and **ObservabilitySink**: two drop-oldest queues with a
   sentinel. *done*
8. **EntityMerge**: merges and undos over aliases and mentions. *done*
9. **ClusterRun**: the run, its triggers, and the matching of identities. *done*
10. **WatchSchedule**: ticks, polls and requests over one row. *done*
11. **Ranking**, **Retrieval** and **Evaluation**: fusion, rollup and metrics as
    operators; search, similarity, compare and replay await by await. *done*
12. **PageSources**: where a body comes from, its sections and chunk bounds. *done*
13. **PageIdentity**: canonical URLs, and the ingest, rules, routes and watches
    that rely on them. *done*
14. **QueryLog** and **MetricsHistory**: what is made of the rows the sink wrote.
    *done*

What is proved, and what is left to TLC and why: section 5.

## 3. Modules and code

| module | models | extends |
|---|---|---|
| `JobLedger` | the life of a job as the ledger methods promise it (abstract) | |
| `JobQueue` | queue, ledger, retry endpoint, start, stop, crash | |
| `PageIndexing` | ingest, index and entity handlers, callbacks, reconciliation | `JobQueue` |
| `CircuitBreaker` | one breaker and the guarded calls through it | |
| `ForgetTombstones` | forget, purge job, sweep, beside ingest and indexing | `JobLedger` (instance) |
| `SqliteConnection` | the thread of the one connection, and the coroutines that share it | |
| `ModelBackfill` | the registry of embedding models, its routes, the backfill job, indexing beside it | |
| `EntityMerge` | linking of mentions, merges and undos, statement by statement | |
| `ClusterRun` | triggers, the run commit by commit, the matching of cluster ids | |
| `WatchSchedule` | the schedule of one watched URL | |
| `JobEvents` | the event bus and its streams | |
| `ObservabilitySink` | the queue between the loop and the writer thread | |
| `Ranking` | reciprocal rank fusion, rollup, decay, and the metrics of rankings | |
| `Retrieval` | search and similarity over a corpus that changes meanwhile | `Ranking` |
| `Evaluation` | compare, replay, the lift of the reranker | `Retrieval` |
| `PageSources` | the fetch job and its four sources, sections, chunk bounds | |
| `PageIdentity` | canonical URLs, ingest by batch, rules, routes, creation of watches | |
| `QueryLog` | the query log and its feedback, scores, traces, golden queries, the replay job | |
| `MetricsHistory` | samples of a counter, and the rise over windows of time | |
| `MC*` | instances for TLC; `MCServices` has four services that share nothing, `MCReading` three, and `MCJobsAndLog` the queue, the query log and the metrics history, of which one moves in a behaviour | the modules they name |
| `JobQueueProofs`, `PageIndexingProofs`, `ModelBackfillProofs`, `SqliteConnectionProofs`, `EntityMergeProofs`, `ClusterRunProofs` | theorems | the module they name |
| `PagesProofs` | theorems about three models of how pages come and go | `ForgetTombstones`, `PageIdentity`, `PageSources` |
| `ServicesProofs` | theorems about six services that `MCServices` and `MCJobsAndLog` instantiate | `WatchSchedule`, `JobEvents`, `ObservabilitySink`, `QueryLog`, `MetricsHistory`, `CircuitBreaker` |

Operators named "Mutant: ..." state a plausible bug of the definition that
follows them; no specification uses them. They are there so that each property
can be tried against code it should reject.

### JobQueue

One row of `jobs` is `status[j]`, `attempts[j]`, `lease[j]`, where `j` stands for
the idempotency key. `lease_until` is only compared with the time of a restart,
so it is `none`, `live` or `expired`. `queue` and `schedule` are huey's tables: a
message is removed when it is dequeued, before the task runs, which is why a crash
loses it. `worker` is the only consumer (`workers=1`): the place in `_execute`
and the `attempts` it read. Step boundaries are the awaits of the code:

| action | code |
|---|---|
| `CreateJob`, `SendCreated` | `enqueue`: commit, then message |
| `SpawnJob`, `SendSpawned` | the same inside a handler, which waits for both |
| `RetryCheck`, `RetryReset`, `RetryCallback`, `RetrySend` | `_retry_one` and `retry` |
| `Dequeue`, `ScheduleDue` | huey |
| `SkipDelivery`, `ReadRunnable`, `MarkRunning` | `_execute` up to the handler |
| `MarkDone`, `Defer`, `FailRetryable`, `FailDead`, `DeadCallback`, `Reschedule` | its outcomes |
| `Restart`, `RecoverSend`, `Start`, `Stop`, `Stopped`, `Crash` | `Container` and `recover` |

`asyncio.timeout` cancels a handler wherever it is: `LeaveChild` says what becomes
of a child job whose row is committed and whose message is not sent (`to_thread`
may have started or not). `stranded` is history: the children that got no message.
The second half of `reset_expired_leases`, its own list of jobs, is part of the
pending list, so `todo` holds both.

### PageIndexing

Extends JobQueue: each action is an action of JobQueue, or a stutter of it, with
the page beside it. `step` is the place of the running handler. `artifacts[p]` has
`chunks` (rows), `points` (vector store) and `vectors` (pooled page vectors), each
one write of `_run_pipeline`. The exception path is `PipelineRaises` (the page is
committed failed), `ClearIndexArtifacts`, `DeletePoints`, then the raise. A lease
expiry is `FailHandler` from any step: a cancellation is not an `Exception`, so
there is neither a failed status nor a cleanup. `late` holds calls of the vector
store that run on in their threads. `inserted` holds pages whose row is committed
and whose job is not.

### CircuitBreaker

`check` and the `record_*` methods run on the loop without an await, so each is
one step. Time is `cooling`: the cooldown is over, or not. The count is capped at
the threshold, past which no comparison tells values apart. A call remembers how
many attempts failed, and, as history, whether its attempt is a probe.

### ForgetTombstones

A purge job is named by its set of pages, as its key is the digest of the set:
that is what makes a second enqueue of the same set a no-op. The queue is taken
to be what JobLedger promises (its actions are used as they are). Ages are two:
`stale` after ten minutes; and thirty days pass at any time. `replace_chunks` and
`upsert_page_vector` refer to the page row and fail when it is gone; the vector
store does not know of rows, so an index job in flight can store points of a page
already purged. Pages that are purged do not come back under the same id, so one
name stands for a URL and its only page.

The vector store is LanceDB, with its two kinds of tables: `texts` are the pages with
rows in `chunks`, `vectors` those with rows in a `vectors_<model>` table (one stands for
all). `upsert_chunks` and `delete_pages` go from one to the other in a thread, and the
thread outlives a handler whose lease runs out: `late` are such threads, with the table
they come to next. `count_chunks` looks at `texts` alone, page by page (`SweepCount`).
`missed` and `torn` are history: texts stored after the count, and vectors the count
cannot know of (stored after it, or without texts, or left by half a delete).

### SqliteConnection

The other modules take a commit as one step, together with the statements before
it. This one looks inside. `line` is the queue of aiosqlite's thread, `replies`
the callbacks it hands to the event loop; both are in order, so two methods under
way take turns, and only some of the orders one might fear are possible.
`working` is what the connection sees, `committed` what another, or a restart,
would. A write outside of a transaction begins one (the legacy mode of
`sqlite3`); a write that fails changes nothing and leaves the transaction open.
A method is the set of its transitions, "after this statement with this answer
comes that one", in the order of the awaits of its code. Three kinds of failure
handling occur in the store and each has its method: none (`insert_page`,
`replace_chunks`), a rollback on a duplicate key (`create_job`), a rollback that
does not cover the BEGIN (`activate_model`). `purge_and_blacklist` goes on after a
failing statement. `Cancel` is a handler whose lease ran out: what it sent is
executed all the same. A crash needs no action, because it leaves `committed`,
and the properties speak of that. A rule is the URL it is for; a rule for a domain
has more rows and the same statements. `cut` and `loose` are history: whose call has
seen another roll back, and the pages of cancelled calls, until a commit or a rollback
with none of their statements behind it in line (`Adrift`) ends their writes.

### ModelBackfill

The tables are `row` and `active` (`embedding_models`), `state` (`model_backfills`)
and `pooled` (`page_vectors`); `space` and `points` are the vector store. A commit
is a step, and so is each check a route makes before it acts:

| action | code |
|---|---|
| `RegisterCheck`, `RegisterAdd`, `RegisterRow` | `register_model`, `ModelRegistry.register`: space first, row second, and the space is dropped when the row fails |
| `ActivateCheck`, `ActivateFlip` | the route's check that the model is ready, then `activate_model` |
| `RetireCheck`, `RetireDrop`, `RetireDelete` | the route's checks, `drop_model`, `delete_model` |
| `StartRead`, `StartReset`, `StartMark`, `StartEnqueue` | `Backfill.start`, await by await |
| `BeginBackfill`, `LoadState`, `ListPages`, `EmbedPage`, `BackfillVectors`, `UpsertPageVector`, `SaveCursor`, `SaveFinished`, `MarkReady` | the resumable job |
| `BeginIndex`, `ReplaceChunks`, `UpsertPoints`, `PoolVectors`, `SetIndexed`, `IndexFails` | indexing for all models that are indexable when it begins |
| `Purge`, `LeaseExpires`, `Crash`, `Startup` | what may happen between any two of them |

`Startup` registers the configured model, and refuses to go on when another one is
active (section 6). `cutShort`, `holed` and `raced` are history: models whose backfill was
asked for and never enqueued because of a crash; models retired half-way; and models two
requests were about at once, one of them to retire it while the other one activates,
fills or registers it, or both to register it.

### EntityMerge

`db` holds the tables as the connection sees them, `disk` what is committed; every
statement of `merge_entities` and `undo_merge` is a step, and any commit, of
whomever, saves all that has been written so far. Surface forms are numbers in
the order of the strings, because the code picks the first by order in several
places; what two forms count as the same is a relation for linking and another
one for merging, since thresholds and embedders differ. A row of the log of merges
has the time of the wall clock, which may repeat itself or step back (`Clocks`); an undo
compares these times strictly, as `undo_merge` does (`Later`), so that it may get past a
later merge (`Misled`). `crossed` and `remerged` are
history. `crossed` are the entities nobody vouches for: those of a merge and an undo
that ran at once, or of one that a cancellation or a crash cut off half-way (what it wrote
is kept, or part of it), those of an undo the times misled, and those that share a mention,
because a page was linked again beside an undo; and what these are merged into or restored from. `remerged` says that an
entity was merged while an undo was restoring it. The job that links a page
reads the alias, matches within the block, inserts an entity, its alias and
the mention. Ids are never given twice.

### ClusterRun

A run is a job of the one worker: claim the run row, read the pages, fit, match
against what lives, then a commit for each cluster, for its members, for the dead, and
for the lineage. `Assignments` is the pairing `linear_sum_assignment` may
return: any of greatest total, cut at a Jaccard coefficient of one half. Coefficients
are integers, in units fine enough for the sizes of the instance. Which pages the
fit puts where is left open. `cut` is history: clusters whose lineage a failed attempt
did not write.

### WatchSchedule, JobEvents, ObservabilitySink

Their names are their own, so that one MC module can extend all three. In
`WatchSchedule` time is a bounded clock that goes on between any two steps; the
row is read and written in different steps by the tick, the polls, `update` and
`run_now`; a poll is named by what its key has: the watch, when it was due, and
whether it was asked for by hand. `JobEvents`: a transition of the ledger is
committed first and published after; an event is the version of its job. `publish` and
`close` are synchronous, a stream takes one event at a time. `ObservabilitySink`: each
operation on the queue is a step, of the loop or of the thread; `lossCount` is the
counter the code keeps. Both sides add to it with a `+=` and without a lock, so that an
addition is two steps, `Load` and `Store`; `overwritten` is history: what stores of a
stale sum took back.

### Ranking, Retrieval and Evaluation

Chunks and pages are numbers in the order of their ids, scores are integers, multiples
of a unit that makes each division of the code exact; so ties are ties. `asking` is the
one request under way with the locals of its coroutine: a step is what happens between
two awaits, from the active model to the titles. `corpus` is what both stores hold. One
`upheaval` happens meanwhile, in the commits and the tables in which its writer makes
it: a page is purged or indexed (or indexed again), clusters are refitted, an entity is
merged, a model is activated or retired. The two arms of `hybrid_query` are started
together and read the store in either order; each has the filter and the limit pushed
into the store. The stores cut times to whole seconds, those of the filter too
(`PointMatches`); what is pinned is compared as it is (`PageMatches`). `shown` keeps two answers, for a client may ask for the next slice.
Compare and replay are further requests: a comparison reads the sparse arm once, for
all models; a replay checks its models one by one.

### PageSources

One page and its `fetch_and_index` job, which may be cancelled at every await and is run
again. `fetching` is the handler; `temps` are the directories that exist, `threads` what
goes on in `asyncio.to_thread` after the coroutine is gone. Lines of a transcript have
the length one, which makes offsets countable; times may be missing, repeated or
out of order. `VideoSections` and `EpisodeSections` are the loops that turn chapters into
sections, line by line, or by offsets that are sorted first. The chunker shares a number
of characters between a chunk and the next (`ChunkOverlap` at most: it ends chunks with
sentences, so that they share none, or some), within a section.

### PageIdentity

A URL is the record of its parts, so that each conversion of `canonical_url.py` and
`youtube.py` is modelled by what it does to them. `known` are the rows of `pages`, with
the URL they were posted under and how their body was fetched. A batch is ingested item
by item, with the awaits of `ingest` as steps: rules, lookup, revisit or insert. A page
whose ingest had looked at the rules when a new one came is `overtaken`. Names are
made of model strings with an order (`NameOrder`), for params are sorted.

### QueryLog and MetricsHistory

`rows` are the appends to the two tables in their order, and `fate` is what the sink
made of each: that abstracts `ObservabilitySink`. A batch is written table by table,
so a feedback may be in the file before the run it is about, and a batch that fails
leaves its first part. A reader and the thread of the sink shut each other out of the
file, so each read is a step; a report reads the runs and then the labels, with
writes in between. `replay` is the job with its row of `eval_replay_results`; what an attempt
finds is stored in a commit before the job is marked, and a cancellation stores nothing.
In `MetricsHistory` a sample is written in the end or lost; `total` and `life` are history.
What is read are positions in `samples`, and the windows are a function on their numbers.

## 4. Runs

Twelve configurations. Every bound is a constant of its module.

| run | question | bounds | states |
|---|---|---|---|
| `JobsAndLog` | is a job ever lost, rerun or mistreated, and is the ledger's promise kept; are scores and rises those of what survived in the log? | 2 jobs, 2 attempts, 1 outage, 1 retry, 1 stranded child, 1 shutdown, 2 crashes; 3 logged runs of 2 texts and 2 models, 2 labels on 2 pages (symmetric), 2 attempts, 1 trouble; 4 moments, 3 increments, 1 restart, windows of 1 to 3 | 1.3 M |
| `PageSafety` | do page, job and artifacts agree? | 1 page (2 jobs), 2 attempts, 1 outage, 1 retry, 1 stranded child, 1 crash, late upsert and delete | 801 k |
| `PageLive` | does everything settle? | 1 page, 2 attempts, 1 shutdown, 1 crash | 43 k |
| `Forget` | are stray points ever untracked? | 2 pages (symmetric), 1 ingest at a time, 1 failing delete, 1 thread left behind, 1 crash | 2.0 M |
| `ForgetLive` | do stray points vanish? | 1 page, 1 failing delete, 1 crash | 4.5 k |
| `SqliteWrites` | is a write there when its method returned? | worker (2 methods) and 2 requests (4 methods), 2 pages, 1 job key, 2 models | 2.5 M |
| `Models` | is a model that may be searched ever incomplete, and does a backfill end? | 2 models, 2 pages, 2 attempts, 2 backfills, 1 retirement, 1 trouble (embedder, lease, crash, purge); or 2 clients, 1 backfill, 1 retirement | 864 k |
| `Entities` | does a merge, or its undo, lose a mention? | 2 pages, 5 forms, 3 links, 3 merges at times 2, 3 and 2, 1 trouble | 2.3 M |
| `Clusters` | is a page in two clusters, or a cluster unaccounted for? | 3 pages, 2 runs, 1 trouble | 378 k |
| `Services` | can a breaker get stuck; does a watch poll as it should; what do streams and the sink lose? | 3 calls, 3 attempts, threshold 3; 1 watch, 4 moments, 1 request, 1 trouble; 2 jobs, 2 streams, queues of 2; 6 rows through a queue of 2 | 248 k |
| `Reading` | is an answer what was asked for, a body cut as its chapters say, a URL the page it names | 3 pages, 5 chunks, 3 models, 13 searches, 3 similarities, 3 comparisons, 1 upheaval, seconds of 2 ticks; transcripts of 3 lines, 2 chapters, 2 runs of the job; 2 clients, 3 requests, 20 batches, 8 listings; chunks of 3, overlaps of 0 and 1 | 1.3 M |
| `SqliteLostWrite` | shows one place where the code does other than a document says (section 6) | that of `SqliteWrites`, with one page and one job stored | |

Why the bounds are enough to be worth something. Two attempts make both a
retryable and a final failure happen. Two jobs let one overtake the other and let
a handler spawn a child. Two crashes are needed for a crash during recovery, and
for the case that a job orphaned by one is given back after another. One retry
makes the overlap of the retry with `on_dead` possible. Three calls are the
smallest number with a probe, a late end and a rejected call. Three callers of the
connection are one that writes, one that commits and one that rolls back; a method
may be called again and again, so keys recur. Two pages are
needed for forgets of overlapping sets, the page and its domain. Two models are one that
is active and one that is filled; two starts make a backfill of one that is under
way. Three merges make a chain, whose undo must be in order; five forms give an
alias its entity owned before the merge and one it got after. The clock of the run goes on,
back, and to a time it has had: all that times can do to two merges of one entity. Two
clients are what a race of requests takes; it needs neither a crash nor a second backfill. Two runs are what
matching needs, and three pages let a cluster split, merge, die and be born. A queue
of two that three things go through is full, and drops. Six rows go round the sink's queue
three times. The view of `Forget` leaves out rules that no action asks for any more (all
pages they name are known). A trouble is one because the properties except what one of them breaks
(history variables) and two would mostly repeat it.

Five chunks on three pages give a page two chunks in one arm and a chunk in both; three
candidates cut an arm; two of the models order chunks alike, so that a comparison has
something to isolate. A second upheaval would repeat the first: a request compares
what it read with one later state. Two chapters and three lines are the least with a
line before, between and after; two runs are a cancelled one and its repetition. Two
clients and three requests let a rule come between the steps of an ingest beside
another one of the same page.

Three logged runs give one text two runs, of two models, and another text one; two labels
contradict each other, or make two pages relevant. Two attempts store an error and then
a report. Windows of three moments in four begin before, at and after a sample.

`CHECK_DEADLOCK FALSE` is given for JobQueue and PageIndexing, Models, Entities,
Clusters, Services and Reading: when every job is settled and all bounds are used, nothing
has to happen.

What the properties say:

- `PendingNotLost`: while the process lives, each pending job has a message, or
  someone about to send one, or lost its parent to a lease expiry.
- `FailedNotLost`, `RunningIsOwned`: the same for failed and running jobs, as long
  as the process has not crashed, across graceful restarts; together `StopLeavesNothing`. After a crash they
  are false: a failed job is not sent again (section 6), and a running one waits for
  its lease.
- `DeadMeansExhausted`, `FinishedNotRerun`, `AttemptsNeverLost`, `LedgerPromise`.
- `IndexedIsRetrievable`: an indexed page has its rows, points and page vectors;
  with the one exception of a deletion in an abandoned thread (LanceDB).
- `StatusesAgree`: a job that is done has its page indexed, if nobody retried one by hand;
  and once nothing is under way for a page, it and its job say the same, before the
  first crash or restart.
- `EntityJobFollows`: no indexed page goes without its entity job.
- `EverythingSettles`: pages (`PageSettles`), pending jobs, and orphans whose lease ran out
  (`JobsSettle`) settle.
- `HalfOpenHasProbe`: a half-open breaker has a probe under way, whose end lets it out.
- `StrayPointsTracked`: texts and vectors of a purged page, whoever stored them, have a
  tombstone that is not verified, unless they came after the sweep counted, or are vectors
  without texts, which it does not count (section 6). `StrayPointsVanish`: while no thread
  is left behind, both are gone in the end.
- `LostOnlyByRollback`: what a method wrote is committed, whole, when it returns,
  although others may have committed it piecemeal; only the rollback of another
  can take it away. `NothingLeftBehind`: no method, failing ones included (a
  `replace_chunks` whose INSERT is refused after its DELETE), leaves writes for the next
  commit of someone else; excused are the chunks of the page of a cancelled call, and only
  until a commit or a rollback has ended them.
- `OneModelActive`: two models are never active, and once a process is up one is, and has
  its space, whatever requests, backfills and crashes went before, unless two requests
  raced for a model: what the routes check can be undone before they act (section 6).
- `SearchSeesCorpus`: a model that is ready has the vectors of every indexed page,
  except where a retirement, or a registration that was rolled back, took its space
  under it, or two requests raced for it. `BackfillEnds`: a started backfill makes its model ready, or its job is dead.
- `MentionsKept`: every mention ever recorded, of pages that are still there, is of
  an entity that is, and its form an alias of one. `UndoRestores`: what an undo
  gives back is what its merge took, unless the entities are crossed, by a merge and an
  undo at once, by one that was cut off, or by an undo that equal or reversed times let
  past a later merge.
- `OnePlace`: when the newest run has finished, no page is in two live clusters.
  `LineageAccounts`: then every cluster was born in the lineage, and exactly the
  tombstoned ones have died in it, but those of a failed attempt. `StableIds`: a cluster
  whose pages the fit finds again keeps its id. `NewPagesClustered`: enough new
  pages are clustered in the end, by a run that finishes.
- `PollsApart`: two polls the ticks asked for are the shortest interval apart, unless a
  request overlapped a write. `ScheduleAdvances`: a watch that is due is not due for ever. `ClientSeesLedger`: a live stream shows each job as
  it was last published, but for a job whose event was dropped and that had no
  other since. `StreamsEnd`: after close every stream ends, however full its queue.
  `LossIsCounted`: a row that was appended is written, on its way, or counted as lost, up to
  what an unlocked addition of one side took back from the count of the other.
  `SinkStops`: close ends the thread. The run checks the last and `StreamsEnd` as `ClosesEnd`.
- `SearchAnswers`: an answer has nothing twice, nothing the filter excludes, and all that
  is due while nothing changes; only a page that is not pinned, first seen in the second
  of a bound, may be there or not. `SlicesTile`: two slices neither overlap nor leave a
  gap. `CompareIsolates`: arms whose dense hits and texts agree order what they share
  alike, and the metrics they are given agree with their definitions. `LiftIsExact`: the lift computed from a log is that of
  the search without the reranker, where no candidate is gone and none tie.
- `SectionsTile`: sections tile the body; its chunks cover it in order, each within one
  section, neighbours sharing no more than the overlap; and a line of a video is under its
  chapter. `TempsAccounted`: a directory stays only where a cancellation hits
  the call that makes or removes it.
- `RulesHold`: no stored page matches a rule, but one whose ingest was overtaken by it.
  `UrlsAgree`: two URLs are one page exactly if they are forms of one video or differ
  only in what does not count, and are fetched alike.
- `ScoresAreTrue`: a score or a trace is of the last surviving word on each page, and counts
  each run once. `GoldenAgrees`: a replay is of the texts a score would score, each
  once, with all their relevant pages; together `ReportsAreTrue`. `DoneHasReport`: a replay that is done has its report.
  `RiseIsAccounted`: the rises of the windows never tell an increment twice, and miss
  none within one life of the process.

### Fairness

`JobQueue!Fairness` and `PFairness`: the loop runs what is ready (weak fairness of
each continuation), huey polls both of its tables, leases run out, `asyncio.timeout`
ends each handler, a stopped or crashed process is started again. No one has to
enqueue, retry, stop or crash. `CircuitBreaker` states none: its property is of safety.
`ForgetTombstones`: what is under way ends; the worker gets to each message, and
the sweep is due every ten minutes; as both compete for one worker that serves in
turn, they are strongly fair. `ModelBackfill`: the handler goes on, a process that is
down is started, a start goes on once it has begun; backfill and index jobs compete
for the worker, so that the beginning of each is strongly fair. `ClusterRun`: the same, and the idle tick comes. `MCServices`: the
tick and the polls go on, a stream takes what is in its queue, the writer thread and a
begun close go on; no one has to request, to transition, or to close. `EntityMerge`,
`MCReading` and `MCJobsAndLog` state no fairness: their properties are of safety.

Manual retries are left out of `PageLive`: with time abstracted away, an
entire cycle of backoff and failure would fit between the two halves of one
request, which then resets the page of a job that is dead again.

## 5. Proofs

TLC checks the properties on the instances of section 4; the theorems below hold for
every value of the constants, under the assumptions the modules name (TLC evaluates
each in the runs) and the hypotheses the theorems state. Every strengthening was
first an invariant of a TLC run.

### JobQueueProofs: any set of jobs and callers, any bounds

- `TypeCorrect`: the types are inductive with `Holding` (whoever is at work holds
  a job). That attempts stay below `max_attempts` rests on `_record_failure`
  comparing before it writes.
- `NoPendingJobLost`: `PendingNotLost` is inductive with the types. Actions come
  in groups (requests, delivery, execution, lifecycle), one lemma each.
- `StopIsClean`: `StopLeavesNothing` is two invariants, that a failed row has its
  retry and that a running row has its handler. Both are inductive with `Children`:
  what a handler enqueues stays pending, and its handler runs, until it is sent,
  adopted by someone who submits it, or stranded by the end of the lease.
- `LedgerImplemented`: `SingleCaller /\ Spec => LedgerPromise`. The strengthening
  `StillTrue` says that the worker's copy of the attempts is that of the row, that a
  claimed job is runnable and a running one running, and that a caller about to
  reset has a dead job. `SingleCaller` (manual retries do not overlap) is needed:
  the route checks and `reset_job_for_retry` does not. In the code two overlapping
  retries cannot do harm either, because the connection serves its queue in order
  and the worker cannot pass both resets; the model has no such queue.
- `FinishedStaysFinished`, `AttemptsKept`, `DeathExhausts` follow from the promise:
  they are facts about steps of JobLedger.
- `NoDuplicateMessage`: before the first crash or restart a job is in one place at
  most (queue, schedule, worker, a submitting request or handler, a retry), and in none
  when it is absent, done or dead. It is inductive with `LInv`; the first start finds an
  empty ledger, so that the duplicates all come from `recover()`. `SingleCaller` again.

### PageIndexingProofs: any set of pages and callers, any bounds, both vector stores

- `QueueImplemented`: `PSpec => Spec`. Each step of the composition is a step of
  JobQueue or leaves its variables alone; so the queue's invariants are used here
  without being proved again.
- `PagesTyped`: `PTypeOK`. With it: a handler has a place exactly while the worker
  runs one.
- `IndexedPagesRetrievable`: inductive with `Stored`: a handler that is past a write
  of the pipeline has stored what it wrote, and from the pipeline to the end of its
  cleanup its page is not indexed. Deletions by threads that outlived their handler,
  which the property excepts, take what they take for good until the next upsert.
- `EntityJobsFollow`: inductive with `OwnChild`: an index handler enqueues the entity
  job of its own page only, and that job's row is there once the handler has returned.
- `StatusesStayTrue`: `StatusesAgree`, inductive with `Stories`: which page statuses go
  with an absent job, that a handler past its last commit has its page indexed and so has
  a job that is done, and that a dead job has a dead page or a worker about to make it so.
  The callback of a retry sets the page to queued without looking; that it meets no
  running or finished job is `OneMessage` of the queue, and `PendingNotLost`,
  `FailedNotLost` and `RunningIsOwned` turn "nothing is under way" into "absent, done or
  dead". `SingleCaller` is needed: the callback of one of two overlapping retries can come
  after the run the other one started, and leave a page queued whose job is done.

### PagesProofs: any set of pages, requests and URLs, any bounds

`StrayPointsKept`, of ForgetTombstones. `WorkerKnows` says what the worker may rely on at each of its
places, since only requests and left threads run beside it: the page of an index job is
present or just forgotten, so that its tombstone is pending when late points come; the pages
of a sweep are purged, and those it has counted have no texts but what came too late, nor
vectors but what its count could not know of. That vectors whose texts are not there are
`torn`, unless the worker is between the two tables of an upsert or a delete, is what makes
a count of texts say something of vectors.

`NoPageRejected`, of PageIdentity, is about the two readings of a rule: the purge of a new
rule selects rows by their stored URL or domain, ingest asks the rules about the parts of
an incoming URL. `RejectedIsPurged` says of canonical URLs that what a rule makes ingest
reject its purge selects; for domains that needs that a suffix ingest asks for is the
domain itself or shorter (`SuffixIsShorter`), since the LIKE of the purge demands a longer
domain, and that canonical hosts are in the one form the purge compares (`CanonicalHost`).
`IdentityInv` adds that what a client is about to insert was looked up, or is `overtaken`.

`DirectoriesAccounted`, of PageSources: `SourcesInv` says that a directory is held by the
handler that made it, by a thread that is to remove it, or is excused by the cancellation
that fell on the call that makes or removes it. It needs nothing of what is downloaded.

### ModelBackfillProofs: any set of models, number of pages, batch size, bounds

For any number of admin requests, beside which worker, crashes, lease expiries, purges
and refused startups run without restriction. The routes check and act an await later, so
two requests can activate and retire one model past each other; `raced` has the models
such a pair was about, and the theorems say that nothing else breaks what they state.

- `ActiveModelServes`: `RegistryInv` has the types, that no two models are active, and
  that one is, whatever the phase, if no model was raced for; that a row that was not
  raced for has its space but between the halves of a retirement, and `Claims`: what a
  request learned by its check still holds, unless its model was raced for since.
- `CorpusIsSearched`: `CorpusInv` follows a model from its registration to READY:
  what is indexed after the registration gets its vectors from the index job, what
  was there before is behind the cursor, in the batch, or ahead of both, and an index
  job that read the registry too early is one whose page is ahead of the cursor. That
  a non-empty set of page numbers has a least element is the one induction used
  (well-foundedness of <, from the library).

### SqliteConnectionProofs: any number of callers, any workload

`NothingIsLeft`. `ConnectionInv` says that a caller has one statement or answer under
way while its call runs and none at rest, and that writes which are not committed
(other than the chunks of cancelled calls) are *owed*: some caller is at a statement after
which its method can only end by a commit or a rollback (`Ending`). A `replace_chunks`
whose INSERT is refused has lost its page since its DELETE, and the chunks with it. The programs of the six methods
are data, so that this reduces to facts about finite tables of transitions
(`Routes`, `Leads`); the queues of the thread are reasoned about by three lemmas
(`AppendQueue`, `TailQueue`, `RemoveQueue`).

`WritesAreLostByRollback`. `WritesInv` says of every call that no rollback of another
fell into:

- `Assured`: what its method goes by holds of the tables when it comes to a statement, or
  to its return (`Given`), and what its own statements gave is not taken away by
  those of others (`OthersKeep`). For four of the six methods that is all.
- `RollbackWaits`, for `create_job`, which rolls back and returns if the job is there
  already. The job may be one its creator has not committed. Then the creator's commit is
  in line, or its answer among the replies, ahead of the rollback (`JobsOwed`: a job
  that is not committed will be), and both queues are first in, first out.
- `Succeeded`, for `activate_model`, whose model a second activation may deactivate before
  the first has returned. Then the second comes later in each queue, so that it has not
  returned when the first one does: it is the later write the property allows.

The theorem has two hypotheses about the workload. `OneWriter`: only the worker calls
`replace_chunks` (its callers are `indexing.py:324` and `:353`, and one consumer runs
them); two at once would delete each other's chunks. `NewPages`: no page is both inserted
and purged. A model page stands for a URL and for an id at once, while in the code a page
that is ingested again after a purge has a new id; whether its URL may come back is
the question of `PageIdentity`, not of the connection. The workload of the run meets both.

### ClusterRunProofs: any number of pages, requests and troubles

`PagesInOnePlace` and `LineageIsTold` share `ClusterInv`, which follows a run from commit
to commit: `Heirs` (parts that are written have live clusters of their own, parts that
are not have an old one or none), `Written` (whoever is live is old or has its part, and
holds no more than that part; old clusters without an heir are live until the tombstones
and dead after) and `Told` (the lineage is complete but for what the run at its present
place still owes, and what earlier attempts were cut short of). Of the fit it uses only
that its parts are disjoint, of the matching only that it pairs (`MatchesPair`): no
coefficient or threshold matters for these two.

`SamePagesKeepId` (`StableIds`) is about the matching itself: a part with exactly the
pages of a live cluster keeps that cluster's id. The argument is an exchange. The code
takes an assignment of greatest total Jaccard coefficient. If it paired the part with
another cluster or none, pairing it with its own, and leaving the part that had that
cluster without one, would be worth more: the part gains a coefficient of one where it had
less, and the other loses nothing, since parts are disjoint and it shares no page with
that cluster (`SamePagesInherit`). The total is a fold over a finite set, a recursive
function TLA+ defines by CHOOSE. That such a function exists (`FoldExists`) and is the only
one (`FoldUnique`) is shown by least counterexample over the cardinality of subsets
(`NoFirst`), which needs no induction theorem with an operator parameter. Coefficients
are whole multiples of one unit, the product of all sizes a union can have; that each size
divides it (`UnitDivides`) goes the same way.

### EntityMergeProofs: any pages, surface forms, clients and bounds, whatever is close to what

`MentionsAreKept`. `EntityInv` says that rows of aliases and mentions are of entities
there are, both in what the connection sees and in what is committed; that no target of
a merge still to do is a source of one, so that the target stays; and, `SourceCovered`,
that once a statement of a merge has copied what the source has, some other entity has
it for as long as the source is there, whatever the undos beside it move. That needs the
source not to be one an undo is restoring, which is why the property excepts `remerged`.
It also needs that two merges of one pass cannot undo each other's choice: groups
are classes (`GroupsAreClasses`), and each has one target (`BestExists`, from the
well-foundedness of <, as is the form that is mentioned most).

`MergesAreUndone` says that newest-first is enough. Its invariant, `RestoreInv`, calls tables
good if a mention has one entity (`Apart`); the target of an active row of the log holds
what it got, or was merged later by a row that has all of it (`TargetsHave`); the source of
an active row is gone (`SourcesGone`); and active rows that meet at an entity are apart:
a source takes part in no later merge, and two merges into one target gave it different
mentions (`RowsApart`). Both tables are good, what the connection sees and what a crash
falls back to, but for crossed entities and the row of what is under way. `Flight` follows
that row through the statements of the merge, `Requests` says of every undo that is not
crossed that each mention of its row is at the source, or at the target and still to
do, or that another undo of the same merge has been faster. `Apart` is what makes the last
part inductive: a mention that moves belongs to nobody else. Trying the proof showed that
the history variable had been too small: the property had held on the instance of the run,
and fails on larger ones, for entities of a merge that was cut off. The code does not guard
those. `RowsApart` takes "later" as the order of the log, which is the order of the times
unless an undo was misled by them; what such an undo touches is crossed, with the entities
of the undos under way.

### ServicesProofs: six services, each by itself

- `WatchPollsApart`: `WatchHolds` (until a request has crossed another write) says
  that every poll is the one that is due or lies an interval before the next, that
  what a tick has read still holds, and that what a request is about to write leaves
  room for the interval. Intervals are positive (`api/schemas.py` demands minutes).
- `ClientsSeeLedger`: `BusInv` says of each stream and job that the last event of the
  job in its queue is the one announced last, and that without one the view is what
  was announced or what the ledger has, unless an event of the job was dropped. The
  queue has room for at least one event (`config.py`).
- `SinkCountsLosses`: rows in tables, queue, batch and hand are among those appended;
  each way a row can vanish adds to the count, and what a store of a stale sum takes
  back from it is in `overwritten`, whichever side was first.
- `DoneReplayHasReport`: `ReplayInv` says where the durable job is when its result is
  still an error or missing.
- `RisesAddUp` (`RiseIsAccounted`): `HistoryInv` says that in one life of the process the
  values of two samples differ as their counts do, and across lives a value is no more
  than what was counted since (`Precedes`). Window by window (`WindowSettles`) what is told
  then telescopes to the rise from the first sample to the last one so far. `Told` is a
  recursive function; that there is one is shown by least counterexample (`ToldAddsUp`).
- `ProbeNeverStranded` (each end of a call leaves the half-open state, so whoever is
  half-open was just admitted) and `ClosedHasRoom`, with the types of the breaker
  (`TypeCorrect`): any set of calls, threshold and number of attempts.

### What is only model-checked

- All liveness, and what needs ENABLED: out of the prover's reach.
- `LiftIsExact`, `SlicesTile`, `SearchAnswers`, `CompareIsolates`, `SectionsTile`,
  `UrlsAgree`, `ReportsAreTrue`: they are about filtered and sorted sequences, folds over those and functions recursive over their data. The provers do not
  know their values: `SelectSeq` and `SortSeq` are primitives to them, which they neither
  expand nor have a fact about, unlike the folds over sets, which expand to a CHOOSE that
  can be reasoned about. `UrlsAgree` depends on the URLs, too: it is stated for those of its
  run, not for every sequence of parameters.

## 6. Where the code and its documents differ

`SqliteLostWrite` has a counterexample that is the story of one of them: there is no lock
around the connection, a rollback in `create_job` throws away what another
coroutine has written and is about to commit, and that one returns all the same. The
others are listed in `PROJECT.json` with the line they contradict:

| where | what happens |
|---|---|
| `huey_queue.py` | a crash after `mark_job_failed`, before huey stored the retry: the job is failed for good, and cannot be retried by hand (only dead jobs can) |
| `ingest.py` | a crash between `insert_page` and `enqueue`: the page is queued for good, and posting it again is a revisit |
| `entity_ingest.py` | the index job is cut off after it spawned the entity job; its rerun makes the page `indexing`, the entity job skips it and is done; its key is used up |
| `job_keys.py` | the purge job dies in an outage; the sweep asks again under the same key, which does nothing |
| `container.py` | the configured model changes while another is active: the unique index rejects the second active row and the startup fails |
| `lancedb_store.py`, count | the sweep counts rows of the chunks table: vectors stored after their texts were deleted, or left by half a delete, stay under a verified tombstone |
| `lancedb_store.py`, filter | stores compare whole seconds, the search exact times: a page of the very second of a bound is in or out depending on how it was found |
| `duckdb_sink.py` | the loop and the writer thread add to the count of losses without a lock, and one may take back what the other added |
| `routes/models.py` | of two requests one activates a model the other retires: none is active |
| `undo_merge`, order | newest first is by the clock, strictly: merges of one time, or after the clock was set back, may be undone in the wrong order |
| `undo_merge` | the source of a merge was created again by a later page: its re-insertion fails and the newest merge cannot be undone |
| `routes/entities.py` | references by id do not survive a merge, references by alias do |
| `domain/clustering.py` | a live cluster whose pages were all purged is neither matched nor tombstoned |
| `cluster_triggers.py` | a run is enqueued each minute while one is under way or failing |
| `routes/clusters.py` | recompute never answers 409 |
| `job_events.py` | drop-oldest may drop the only event of another job |
| `podcast/producer.py` | of two chapters at one segment the title decides which one names it; a chapter beyond the transcript takes the last segment over |
| `eval_service.py` | the lift computed from a log is not always that of the search without the reranker |
| `youtube.py`, listings | the tab of a channel is appended to its query |
| `youtube.py`, forms | the mobile watch page, and a watch URL with two videos, are pages of their own |
| `forget_service.py` | a rule for `youtu.be` never matches, for its links are stored under `youtube.com` |
| `routes/pages.py` | two posts of one new URL at a time: the second one ends its whole batch with an error |

Observed while modelling, without a run: a page is committed `failed` before its
artifacts are cleaned up, where `src/docs/guides/ingest.md` has it the other way
round; an indexed page whose job is rerun is `indexing` again, although `indexed` is called
terminal; duplicates from `recover()` skip the backoff of a failed job; a late
success closes an open breaker before its cooldown is over; a poison job that kills
the process never counts an attempt.

Further, each a place with no guard, so that there is no property to state:

- `check()` of a breaker promises exactly one probe; the late end of a call from
  before the outage is taken for the end of the probe, and after the cooldown a
  second one is admitted.
- forget promises that later POSTs are rejected; an ingest that checked the
  blacklist before forget committed still inserts the page after it.
- `purge_and_blacklist` and `activate_model` call themselves atomic; another
  coroutine may commit between their statements, and a crash at that moment leaves
  a rule without its purge, or no active model.
- `activate_model` begins a transaction explicitly, which fails whenever one is
  open: while any other write is between statement and commit, or after an
  `insert_page` that lost a race and was never rolled back, until the next commit.
- Two overlapping activations, when a third commits between them, can end in a
  rollback that takes the write of a fourth.
- Models: of two registrations of one id the loser's rollback drops the space of the
  winner (`raced`). A crash between `drop_model` and `delete_model` leaves a ready row
  with an empty space; one between the status `backfilling` and the enqueue leaves a
  backfill nobody runs, and `start` refuses another. A model retired under its
  backfill and registered again finds the state row the job saves. LanceDB's
  `backfill_vectors` puts rows of a page purged meanwhile back. `last_error` is never set.
  The rate limiter waits for ever for a batch larger than its budget of a minute.
- Entities: what was undone is merged again by the next pass; a purge leaves counts
  stale; a link beside an undo may record a mention under two entities; a merge of an
  entity that is being restored cascades its moved mentions away; half a merge, cut by a
  lease expiry, is committed by whoever commits next.
- Clusters: the newest run, while unfinished or when failed, hides the centroids of all;
  the best total may leave a pair unmatched that shares more than half.
- Watches: a crash between the enqueue of a poll and the mark, with a change of the
  interval before the next tick, polls twice; `update` writes the row as it read it.
- Search: `/v1/search/batch` reports failures per item, but not those of an unknown or too
  broad entity or of a provider, which escape. `src/docs/guides/search.md` has
  recency by when a page was last seen, the code by when it was first seen. The arms of
  a comparison are cut before pages that are gone are dropped, and may be short. A bare
  domain pins among its five pages seen last, which are filtered afterwards. A list of
  pages is asked for in one statement, however long.
- Fetching: when exactly one of two chapters at one offset has no title, sorting raises and
  the transcript is given up; an empty transcript is stored as an empty body; metadata of
  the client with a key "sections" can make a page that no run can index; a
  cancellation while a directory is made or removed leaks it, and an abandoned
  download makes it anew.
- URLs: all `playlist` URLs are one page, since only `v` is kept; stripping `www.` once
  is not idempotent.
- Replay: a job that is cancelled stores nothing, so that a dead one may still show the report
  or the error of an earlier attempt.
- Sink: a flush that fails counts rows that did get in as lost. uvicorn waits for event
  streams before it runs the shutdown that would end them.

## 7. Not modelled

- SQLite errors (busy, disk full; so a statement fails only by a constraint of its table),
  and in all modules but SqliteConnection the
  statements of a transaction: there a commit is one step, and the rollback of
  another (section 6) does not happen. A failing reconciliation at startup is
  caught and logged by the code, and is therefore not modelled either.
- Publishing to the event bus, metrics and logs: they change nothing the modules
  look at.
- Contents: the text of chunks, embedding, extraction, clustering as numerics; scores
  are ranks and small integers.
- Of search: what decorates a result. Of fetching: the pinning of addresses, the choice of a caption track, a
  transcription that has a text and no segments. Of evaluation: averages, the reciprocal rank,
  the layout of reports. Of metrics: gauges, and the quantiles of latencies.
  Of URLs: a trailing dot, percent encoding.
- Huey beyond what the queue uses of it: a message is deleted on dequeue, delayed
  ones are in a table of their own, both survive a crash.
- Several processes on one database: the program is documented as one process.
- `TypeOK` of JobQueue and CircuitBreaker is proved, and so is `ClosedBelowThreshold`;
  no run spends a property on types, which a state cannot leave without breaking the
  properties there are.
- Everything listed as `not_modelled` in `PROJECT.json`, with the reason there.

## 8. Running

    tlc -workers 2 -config JobsAndLog.cfg MCJobsAndLog.tla
    tlapm JobQueueProofs.tla

Each `.cfg` names in its first lines the specification it checks; the module is
the MC module of the component (`PROJECT.json` lists the pairs).

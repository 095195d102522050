--------------------------- MODULE ModelBackfill ---------------------------
(***************************************************************************)
(* Embedding models: the registry (application/services/model_registry.py),*)
(* the routes that register, activate, retire and backfill a model         *)
(* (api/routes/models.py), the resumable backfill job                      *)
(* (application/services/backfill.py), and indexing beside it, which       *)
(* embeds a page for every model that is ready or backfilling.             *)
(*                                                                         *)
(* Admin requests interleave with the one worker at their awaits; a commit *)
(* is one step.  Pages are numbered as their ids are ordered.  A job that  *)
(* is cut off is given back by recover(), which JobQueue has in detail.    *)
(* Models are those that pass the token budget; what is rejected for it    *)
(* changes nothing.                                                        *)
(***************************************************************************)
EXTENDS Naturals, Sequences, FiniteSets, FiniteSetsExt

CONSTANTS
    Models,        \* embedding model ids
    First,         \* the model configured at the first startup
    Clients,       \* concurrent admin requests
    NumPages,      \* pages are 1..NumPages
    PageBatch,     \* _PAGE_BATCH
    MaxAttempts,   \* JobsSettings.max_attempts
    MaxStarts,     \* bound: backfills started, over a behaviour
    MaxRetires,    \* bound: retirements, over a behaviour
    Filled,        \* bound: the models a backfill is asked for
    MaxTroubles    \* bound: failures of the embedder, expired leases, crashes
                   \* and purges together, over a behaviour

ASSUME ModelsAssumption == First \in Models /\ Filled \subseteq Models /\ IsFiniteSet(Models)
ASSUME SizesAssumption ==
    /\ NumPages \in Nat \ {0} /\ PageBatch \in Nat \ {0} /\ MaxAttempts \in Nat \ {0}
    /\ MaxStarts \in Nat /\ MaxRetires \in Nat /\ MaxTroubles \in Nat

VARIABLES
    phase,     \* "up", "down", or "refused": the last startup failed
    row,       \* embedding_models: the status of a model, or "absent"
    active,    \* embedding_models: the models with is_active
    space,     \* models with a vector space in the vector store
    points,    \* per model, the pages with vectors in its space
    pooled,    \* page_vectors: per model, the pages with a row
    state,     \* model_backfills: per model, cursor and finished_at, or none
    page,      \* pages: "queued", to be indexed or yet to come; "indexed"; "gone"
    chunked,   \* pages with rows in chunks
    jobs,      \* backfill jobs in the order of their start
    worker,    \* the handler that runs
    client,    \* per request, what it is about to do
    cutShort,  \* history: models whose backfill was started and not enqueued
    holed,     \* history: models retired before their backfill was over, or
               \* by half, or whose registration was rolled back
    raced,     \* history: models two requests were about at once, one of them
               \* to retire it, or both to register it; and those a startup
               \* made active because such a race had left none
    used       \* how much of each bound has been used

registryVars == <<row, active>>
vectorVars == <<space, points, pooled>>
pageVars == <<page, chunked>>
historyVars == <<cutShort, holed, raced>>
vars == <<phase, registryVars, vectorVars, state, pageVars, jobs, worker, client,
          historyVars, used>>

Pages == 1..NumPages
list_models(statuses) == {m \in Models : row[m] \in statuses}
Indexable == list_models({"ready", "backfilling"})
Registered(m) == row[m] # "absent"
register_model(m, status) == [row EXCEPT ![m] = status]

\* The state of a backfill, if there is a row.
NoState == [cursor |-> 0, finished |-> TRUE, kept |-> FALSE]
get_backfill(m) == {state[m]} \ {NoState}
Idle == [at |-> "idle"]
Rest == worker' = Idle
Use(what) == used' = [used EXCEPT ![what] = @ + 1]
Trouble == used.troubles < MaxTroubles /\ Use("troubles")

\* The first startup, on an empty corpus.
Init ==
    /\ phase = "up"
    /\ row = [m \in Models |-> IF m = First THEN "ready" ELSE "absent"]
    /\ active = {First}
    /\ space = {First}
    /\ points = [m \in Models |-> {}]
    /\ pooled = [m \in Models |-> {}]
    /\ state = [m \in Models |-> NoState]
    /\ page = [p \in Pages |-> "queued"]
    /\ chunked = {}
    /\ jobs = <<>>
    /\ worker = Idle
    /\ client = [c \in Clients |-> Idle]
    /\ cutShort = {}
    /\ holed = {}
    /\ raced = {}
    /\ used = [retires |-> 0, troubles |-> 0]

-----------------------------------------------------------------------------
(* Admin requests, await by await.  The row of model_backfills is kept     *)
(* apart from the row of the model: nothing refers from one to the other.  *)

Step(c, at, m) == client' = [client EXCEPT ![c] = [at |-> at, model |-> m]]
Asks(c, m, next) == phase = "up" /\ client[c] = Idle /\ Step(c, next, m)
Does(c, at) == phase = "up" /\ client[c].at = at
Ends(c) == client' = [client EXCEPT ![c] = Idle]
Doing(at) == {client[c].model : c \in {c \in Clients : client[c].at = at}}
Retiring == Doing("drop") \union Doing("delete")
Starting == {c \in Clients : client[c].at \in {"reset", "mark", "enqueue"}}
Asked == {client[c].model : c \in {c \in Clients : client[c] # Idle}}
Beside(m, others) == raced' = raced \union ({m} \intersect others)

\* register_model: 409 when the id is taken.
RegisterCheck(c, m) ==
    /\ ~Registered(m)
    /\ Asks(c, m, "add_model")
    /\ Beside(m, Asked)
    /\ UNCHANGED <<phase, registryVars, vectorVars, state, pageVars, jobs, worker,
                   cutShort, holed, used>>

RegisterAdd(c) ==
    /\ Does(c, "add_model")
    /\ space' = space \union {client[c].model}
    /\ Step(c, "register_model", client[c].model)
    /\ UNCHANGED <<phase, registryVars, points, pooled, state, pageVars, jobs, worker,
                   historyVars, used>>

\* A row that came meanwhile makes the INSERT fail; the rollback of the
\* registration drops the vector space.
RegisterRow(c) ==
    LET m == client[c].model IN
    /\ Does(c, "register_model")
    /\ IF Registered(m)
       THEN /\ space' = space \ {m}
            /\ points' = [points EXCEPT ![m] = {}]
            /\ holed' = holed \union {m}
            /\ UNCHANGED row
       ELSE /\ row' = register_model(m, "registered")
            /\ UNCHANGED <<space, points, holed>>
    /\ Ends(c)
    /\ UNCHANGED <<phase, active, pooled, state, pageVars, jobs, worker, cutShort, raced, used>>

\* activate_model: only ready models; the flip comes an await later.
ActivateCheck(c, m) ==
    /\ row[m] = "ready"
    /\ Asks(c, m, "activate")
    /\ Beside(m, Retiring)
    /\ UNCHANGED <<phase, registryVars, vectorVars, state, pageVars, jobs, worker,
                   cutShort, holed, used>>

ActivateFlip(c) ==
    /\ Does(c, "activate")
    /\ active' = {client[c].model} \intersect {m \in Models : Registered(m)}
    /\ Ends(c)
    /\ UNCHANGED <<phase, row, vectorVars, state, pageVars, jobs, worker, historyVars,
                   used>>

\* Mutant: the active model may be retired.
RetireUnchecked(c, m) ==
    /\ Registered(m)
    /\ used.retires < MaxRetires /\ Use("retires")
    /\ Asks(c, m, "drop")
    /\ Beside(m, Asked)
    /\ UNCHANGED <<phase, registryVars, vectorVars, state, pageVars, jobs, worker,
                   cutShort, holed>>

\* retire_model: 409 when active; then the space goes, then the rows.
RetireCheck(c, m) ==
    /\ Registered(m) /\ m \notin active
    /\ used.retires < MaxRetires /\ Use("retires")
    /\ Asks(c, m, "drop")
    /\ Beside(m, Asked)
    /\ UNCHANGED <<phase, registryVars, vectorVars, state, pageVars, jobs, worker,
                   cutShort, holed>>

Outstanding(m) ==
    \E j \in DOMAIN jobs : jobs[j].model = m /\ jobs[j].status \in {"pending", "running"}

RetireDrop(c) ==
    LET m == client[c].model IN
    /\ Does(c, "drop")
    /\ space' = space \ {m}
    /\ points' = [points EXCEPT ![m] = {}]
    /\ Step(c, "delete", m)
    /\ UNCHANGED <<phase, registryVars, pooled, state, pageVars, jobs, worker,
                   historyVars, used>>

RetireDelete(c) ==
    LET m == client[c].model IN
    /\ Does(c, "delete")
    /\ pooled' = [pooled EXCEPT ![m] = {}]
    /\ state' = [state EXCEPT ![m] = NoState]
    /\ row' = [row EXCEPT ![m] = "absent"]
    /\ active' = active \ {m}
    /\ holed' = IF Outstanding(m) THEN holed \union {m} ELSE holed
    /\ Ends(c)
    /\ UNCHANGED <<phase, space, points, pageVars, jobs, worker, cutShort, raced, used>>

\* BackfillService.start: a state that is there and unfinished is resumed.
StartRead(c, m) ==
    /\ m \in Filled /\ Registered(m) /\ Len(jobs) + Cardinality(Starting) < MaxStarts
    /\ Asks(c, m, IF \E s \in get_backfill(m) : ~s.finished THEN "mark" ELSE "reset")
    /\ Beside(m, Retiring)
    /\ UNCHANGED <<phase, registryVars, vectorVars, state, pageVars, jobs, worker,
                   cutShort, holed, used>>

StartReset(c) ==
    LET m == client[c].model IN
    /\ Does(c, "reset")
    /\ state' = [state EXCEPT ![m] = [cursor |-> 0, finished |-> FALSE, kept |-> TRUE]]
    /\ Step(c, "mark", m)
    /\ UNCHANGED <<phase, registryVars, vectorVars, pageVars, jobs, worker, historyVars,
                   used>>

SetStatus(m, to) == row' = [row EXCEPT ![m] = IF @ = "absent" THEN @ ELSE to]

StartMark(c) ==
    LET m == client[c].model IN
    /\ Does(c, "mark")
    /\ SetStatus(m, "backfilling")
    /\ Step(c, "enqueue", m)
    /\ UNCHANGED <<phase, active, vectorVars, state, pageVars, jobs, worker, historyVars,
                   used>>

\* The key has the time in it, so that every start is a job of its own.
StartEnqueue(c) ==
    /\ Does(c, "enqueue")
    /\ jobs' = Append(jobs, [model |-> client[c].model, status |-> "pending", attempts |-> 0])
    /\ Ends(c)
    /\ UNCHANGED <<phase, registryVars, vectorVars, state, pageVars, worker, historyVars,
                   used>>

-----------------------------------------------------------------------------
(* Pages may be purged at any time.  Their points go by a job of their own *)
(* (ForgetTombstones).                                                     *)

Purge(p) ==
    /\ phase = "up" /\ page[p] \in {"queued", "indexed"}
    /\ Trouble
    /\ page' = [page EXCEPT ![p] = "gone"]
    /\ chunked' = chunked \ {p}
    /\ pooled' = [m \in Models |-> pooled[m] \ {p}]
    /\ UNCHANGED <<phase, registryVars, space, points, state, jobs, worker, client,
                   historyVars>>

-----------------------------------------------------------------------------
(* The worker: an index job.  It reads the models once, at its beginning.  *)

At(at, kind) == phase = "up" /\ worker.at = at /\ worker.kind = kind
Go(at) == worker' = [worker EXCEPT !.at = at]

BeginIndex(p) ==
    /\ phase = "up" /\ worker = Idle /\ page[p] = "queued"
    /\ worker' = [at |-> "chunks", kind |-> "index", page |-> p, models |-> Indexable]
    /\ UNCHANGED <<phase, registryVars, vectorVars, state, pageVars, jobs, client,
                   historyVars, used>>

\* The exception path of _index, and the retry of the job.
IndexFails ==
    LET p == worker.page IN
    /\ chunked' = chunked \ {p}
    /\ points' = [m \in Models |-> points[m] \ {p}]
    /\ pooled' = [m \in Models |-> pooled[m] \ {p}]
    /\ Rest
    /\ UNCHANGED <<page, space>>

ReplaceChunks ==
    LET p == worker.page IN
    /\ At("chunks", "index")
    /\ \/ /\ page[p] # "gone"
          /\ chunked' = chunked \union {p}
          /\ Go("points")
          /\ UNCHANGED <<page, vectorVars>>
       \/ page[p] = "gone" /\ IndexFails
    /\ UNCHANGED <<phase, registryVars, state, jobs, client, historyVars, used>>

\* upsert_chunks: a model whose space is gone makes the call fail.
UpsertPoints ==
    LET p == worker.page IN
    /\ At("points", "index")
    /\ \/ /\ worker.models \subseteq space
          /\ points' = [m \in Models |->
                            IF m \in worker.models THEN points[m] \union {p} ELSE points[m]]
          /\ Go("pool")
          /\ UNCHANGED <<pageVars, space, pooled>>
       \/ ~(worker.models \subseteq space) /\ IndexFails
    /\ UNCHANGED <<phase, registryVars, state, jobs, client, historyVars, used>>

\* A page vector refers to the rows of its page and of its model.
PoolVectors ==
    LET p == worker.page IN
    /\ At("pool", "index")
    /\ \/ /\ page[p] # "gone" /\ \A m \in worker.models : Registered(m)
          /\ pooled' = [m \in Models |->
                            IF m \in worker.models THEN pooled[m] \union {p} ELSE pooled[m]]
          /\ Go("indexed")
          /\ UNCHANGED <<pageVars, space, points>>
       \/ /\ page[p] = "gone" \/ \E m \in worker.models : ~Registered(m)
          /\ IndexFails
    /\ UNCHANGED <<phase, registryVars, state, jobs, client, historyVars, used>>

SetIndexed ==
    LET p == worker.page IN
    /\ At("indexed", "index")
    /\ page' = [page EXCEPT ![p] = IF @ = "gone" THEN @ ELSE "indexed"]
    /\ Rest
    /\ UNCHANGED <<phase, registryVars, vectorVars, state, chunked, jobs, client,
                   historyVars, used>>

-----------------------------------------------------------------------------
(* The worker: a backfill job.  worker.cursor and worker.finished are the  *)
(* handler's copy of the state, which it writes back after each page.      *)

Outcome(to) == jobs' = [jobs EXCEPT ![worker.job].status = to]

AttemptFails ==
    LET n == jobs[worker.job].attempts + 1 IN
    /\ jobs' = [jobs EXCEPT ![worker.job].attempts = n,
                            ![worker.job].status = IF n < MaxAttempts THEN "pending"
                                                                       ELSE "dead"]
    /\ Rest

BeginBackfill(j) ==
    LET m == jobs[j].model IN
    /\ phase = "up" /\ worker = Idle /\ jobs[j].status = "pending"
    /\ jobs' = [jobs EXCEPT ![j].status = "running"]
    /\ worker' = [at |-> "state", kind |-> "backfill", job |-> j, model |-> m,
                  cursor |-> 0, finished |-> FALSE, batch |-> {}]
    /\ UNCHANGED <<phase, registryVars, vectorVars, state, pageVars, client, historyVars,
                   used>>

\* require_model raises for a model that is gone; without a state, the job
\* is done.
LoadState ==
    LET m == worker.model IN
    /\ At("state", "backfill")
    /\ \/ ~Registered(m) /\ AttemptFails
       \/ Registered(m) /\ get_backfill(m) = {} /\ Outcome("done") /\ Rest
       \/ /\ Registered(m)
          /\ \E s \in get_backfill(m) :
                worker' = [worker EXCEPT !.at = "list", !.cursor = s.cursor, !.finished = s.finished]
          /\ UNCHANGED jobs
    /\ UNCHANGED <<phase, registryVars, vectorVars, state, pageVars, client, historyVars,
                   used>>

\* The first pages with chunks after the cursor, at most a batch of them; they
\* are taken in order, the next one is the least that is left.
After(cursor) == {p \in chunked : p > cursor}
NextPages(cursor) ==
    {p \in After(cursor) : Cardinality({q \in After(cursor) : q <= p}) <= PageBatch}
NextPage == Min(worker.batch)

ListPages ==
    /\ At("list", "backfill")
    /\ worker' = [worker EXCEPT !.batch = NextPages(worker.cursor),
                                !.at = IF After(worker.cursor) = {} THEN "finish" ELSE "embed"]
    /\ UNCHANGED <<phase, registryVars, vectorVars, state, pageVars, jobs, client,
                   historyVars, used>>

Saved(cursor, finished) ==
    state' = [state EXCEPT ![worker.model] =
                  [cursor |-> cursor, finished |-> finished, kept |-> TRUE]]

\* Mutant: the cursor is saved before the page is embedded.
EmbedSavedFirst ==
    /\ At("embed", "backfill")
    /\ Saved(NextPage, worker.finished)
    /\ \/ Go(IF NextPage \in chunked THEN "vectors" ELSE "save")
          /\ UNCHANGED <<jobs, used>>
       \/ /\ NextPage \in chunked
          /\ Trouble
          /\ AttemptFails
    /\ UNCHANGED <<phase, registryVars, vectorVars, pageVars, client, historyVars>>

\* A page that lost its chunks since it was listed is passed over; the
\* embedder may be out.
EmbedPage ==
    /\ At("embed", "backfill")
    /\ \/ Go(IF NextPage \in chunked THEN "vectors" ELSE "save")
          /\ UNCHANGED <<jobs, used>>
       \/ /\ NextPage \in chunked
          /\ Trouble
          /\ AttemptFails
    /\ UNCHANGED <<phase, registryVars, vectorVars, state, pageVars, client, historyVars>>

BackfillVectors ==
    LET m == worker.model IN
    /\ At("vectors", "backfill")
    /\ \/ /\ m \in space
          /\ points' = [points EXCEPT ![m] = @ \union {NextPage}]
          /\ Go("pool")
          /\ UNCHANGED jobs
       \/ m \notin space /\ AttemptFails /\ UNCHANGED points
    /\ UNCHANGED <<phase, registryVars, space, pooled, state, pageVars, client,
                   historyVars, used>>

UpsertPageVector ==
    LET m == worker.model
        refers == Registered(m) /\ page[NextPage] # "gone"
    IN
    /\ At("pool", "backfill")
    /\ \/ /\ refers
          /\ pooled' = [pooled EXCEPT ![m] = @ \union {NextPage}]
          /\ Go("save")
          /\ UNCHANGED jobs
       \/ ~refers /\ AttemptFails /\ UNCHANGED pooled
    /\ UNCHANGED <<phase, registryVars, space, points, state, pageVars, client,
                   historyVars, used>>

\* The upsert restores the row of a state that was deleted meanwhile.
SaveCursor ==
    LET rest == worker.batch \ {NextPage} IN
    /\ At("save", "backfill")
    /\ Saved(NextPage, worker.finished)
    /\ worker' = [worker EXCEPT !.cursor = NextPage, !.batch = rest,
                                !.at = IF rest = {} THEN "list" ELSE "embed"]
    /\ UNCHANGED <<phase, registryVars, vectorVars, pageVars, jobs, client, historyVars,
                   used>>

SaveFinished ==
    /\ At("finish", "backfill")
    /\ Saved(worker.cursor, TRUE)
    /\ Go("ready")
    /\ UNCHANGED <<phase, registryVars, vectorVars, pageVars, jobs, client, historyVars,
                   used>>

\* Mutant: the job is done without the status.
FinishSilent ==
    /\ At("ready", "backfill")
    /\ Outcome("done")
    /\ Rest
    /\ UNCHANGED <<phase, row, active, vectorVars, state, pageVars, client, historyVars, used>>

MarkReady ==
    /\ At("ready", "backfill")
    /\ SetStatus(worker.model, "ready")
    /\ Outcome("done")
    /\ Rest
    /\ UNCHANGED <<phase, active, vectorVars, state, pageVars, client, historyVars, used>>

-----------------------------------------------------------------------------
(* A lease that runs out cancels the handler where it is: no cleanup, and  *)
(* the job counts an attempt.  A crash takes everything in memory.         *)

LeaseExpires ==
    /\ phase = "up" /\ worker # Idle
    /\ Trouble
    /\ \/ worker.kind = "index" /\ Rest /\ UNCHANGED jobs
       \/ worker.kind = "backfill" /\ AttemptFails
    /\ UNCHANGED <<phase, registryVars, vectorVars, state, pageVars, client, historyVars>>

\* A retirement cut between its halves leaves a row whose space is gone, and
\* which the next startup gives an empty one.
Crash ==
    /\ phase = "up"
    /\ Trouble
    /\ phase' = "down"
    /\ Rest
    /\ client' = [c \in Clients |-> Idle]
    /\ cutShort' = cutShort \union Doing("enqueue")
    /\ holed' = holed \union Doing("delete")
    /\ jobs' = [j \in DOMAIN jobs |->
                    [jobs[j] EXCEPT !.status = IF @ = "running" THEN "pending" ELSE @]]
    /\ UNCHANGED <<registryVars, vectorVars, state, pageVars, raced>>

\* startup: sync_from_settings and ensure_schema, with m configured.  A new
\* model is registered as active; while another one is, the unique index
\* rejects it, its space is dropped again, and the startup fails.
Startup(m) ==
    /\ phase # "up"
    /\ LET rejected == ~Registered(m) /\ active # {}
           registered == IF rejected \/ Registered(m) THEN row ELSE register_model(m, "ready")
           known == {n \in Models : registered[n] # "absent"}
       IN
       /\ phase' = IF rejected THEN "refused" ELSE "up"
       /\ row' = registered
       /\ active' = IF rejected \/ active # {} THEN active ELSE {m}
       /\ space' = IF rejected THEN (space \union known) \ {m} ELSE space \union known
       /\ points' = IF rejected THEN [points EXCEPT ![m] = {}] ELSE points
       /\ holed' = IF known # {n \in Models : Registered(n)} /\ chunked # {}
                   THEN holed \union {m} ELSE holed
       /\ raced' = IF active = {} THEN raced \union {m} ELSE raced
    /\ UNCHANGED <<pooled, state, pageVars, jobs, worker, client, cutShort, used>>

-----------------------------------------------------------------------------
Requests == \E c \in Clients :
    \/ \E m \in Models :
        RegisterCheck(c, m) \/ ActivateCheck(c, m) \/ RetireCheck(c, m) \/ StartRead(c, m)
    \/ RegisterAdd(c) \/ RegisterRow(c) \/ ActivateFlip(c)
    \/ RetireDrop(c) \/ RetireDelete(c)
    \/ StartReset(c) \/ StartMark(c) \/ StartEnqueue(c)

IndexJob ==
    \/ \E p \in Pages : BeginIndex(p)
    \/ ReplaceChunks \/ UpsertPoints \/ PoolVectors \/ SetIndexed

BackfillStep ==
    \/ LoadState \/ ListPages \/ EmbedPage \/ BackfillVectors \/ UpsertPageVector
    \/ SaveCursor \/ SaveFinished \/ MarkReady

Next ==
    \/ Requests
    \/ \E p \in Pages : Purge(p)
    \/ IndexJob
    \/ \E j \in DOMAIN jobs : BeginBackfill(j)
    \/ BackfillStep
    \/ LeaseExpires
    \/ Crash
    \/ \E m \in Models : Startup(m)

Spec == Init /\ [][Next]_vars

\* The loop runs what is ready; requests under way go on; a process that is
\* down is started with the configuration it had.  Huey serves in turn, so
\* that a pending job is not passed over for ever.
Fairness ==
    /\ WF_vars(BackfillStep)
    /\ WF_vars(IndexJob)
    /\ WF_vars(Startup(First))
    /\ \A c \in Clients : WF_vars(StartReset(c) \/ StartMark(c) \/ StartEnqueue(c))
    /\ \A j \in 1..MaxStarts : SF_vars(j \in DOMAIN jobs /\ BeginBackfill(j))

FairSpec == Spec /\ Fairness

-----------------------------------------------------------------------------
(* Properties.                                                             *)

Covers(m) == \A p \in Pages : page[p] = "indexed" => p \in points[m] /\ p \in pooled[m]

\* "Exactly one is_active", and it can be searched: however requests, backfills,
\* expired leases and crashes interleave, never two, and none only after a race.
\* Activation, retirement and registration check first and act awaits later
\* (api/routes/models.py:176-186, 204-215): a model that is retired while it is
\* being activated is lost as the active one, one that is registered twice at
\* once loses its space.  Page vectors refer to models that have a row.
OneModelActive ==
    /\ row \in [Models -> {"absent", "registered", "backfilling", "ready"}]
    /\ Cardinality(active) <= 1
    /\ phase = "up" => /\ Cardinality(active) = 1 \/ raced # {}
                       /\ active \subseteq space \union raced
    /\ \A m \in Models : ~Registered(m) => m \notin active /\ pooled[m] = {}

\* Whatever is searched, or may be made to be, has every indexed page: what the
\* cursor of the backfill has passed, what came behind it, what was indexed
\* while the model was being registered (backfill.py:157-174, indexing.py:333).
\* Excepted are models being retired, those that were retired before their
\* backfill was over, or by half, and those that a request raced for.
SearchSeesCorpus ==
    \A m \in Models \ (holed \union raced \union Doing("delete")) :
        m \in active \/ row[m] = "ready" => Covers(m)

\* A model that is backfilling becomes ready, unless it is retired or raced for,
\* its job has spent its attempts, or the start was cut off between the status
\* and the enqueue (backfill.py:135-142); or the process refuses to start.
BackfillEnds ==
    \A m \in Models :
        row[m] = "backfilling" ~>
            \/ row[m] # "backfilling" \/ m \in cutShort \/ m \in holed \/ m \in raced
            \/ \E j \in DOMAIN jobs : jobs[j].model = m /\ jobs[j].status = "dead"
            \/ phase = "refused"
=============================================================================

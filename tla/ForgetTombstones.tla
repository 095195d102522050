-------------------------- MODULE ForgetTombstones --------------------------
(***************************************************************************)
(* Forgetting: application/services/forget_service.py over the blacklist   *)
(* and tombstone tables of sqlite_store.py, while a page is being ingested *)
(* (services/ingest.py) or indexed (services/indexing.py).  Rows are       *)
(* purged at once; points of the vector store go by a purge_vectors job,   *)
(* which the verify_tombstones sweep checks and, if need be, asks for      *)
(* again.                                                                  *)
(*                                                                         *)
(* The purge job of a set of pages is named by the set: its key is the     *)
(* digest of it.  The queue is what JobLedger promises.  Handlers and the  *)
(* sweep share the one worker, requests run beside it.  A page id is never *)
(* used twice; it stands for its URL too, and all share one domain.        *)
(*                                                                         *)
(* The vector store is LanceDB, the default: a page has points in a table  *)
(* of texts and in tables of vectors, here one.  Upserts write texts       *)
(* first, deletes take texts first, each in a thread that a cancelled      *)
(* handler leaves behind at work, and the sweep counts texts alone.        *)
(***************************************************************************)
EXTENDS Naturals

CONSTANTS
    Pages,        \* page ids
    Domain,       \* their domain, as a target of forget
    Ingests,      \* concurrent ingest requests
    NoPage,       \* what an idle request holds
    MaxAttempts,  \* JobsSettings.max_attempts
    MaxFailures,  \* bound: failing calls of delete_pages, over a behaviour
    MaxCrashes,   \* bound: crashes, over a behaviour
    MaxLates      \* bound: threads of the store that outlive the handler that
                  \* waits for them, over a behaviour

ASSUME NamesAssumption == Domain \notin Pages /\ NoPage \notin Pages
ASSUME BoundsAssumption == MaxFailures \in Nat /\ MaxCrashes \in Nat /\ MaxLates \in Nat

VARIABLES
    row,       \* pages: "none", "queued", "indexed", "purged"
    rules,     \* blacklist: pages, for their URLs, and the domain
    ingest,    \* the page an ingest request has checked and not inserted
    texts,     \* pages with rows in the chunks table of the vector store
    vectors,   \* pages with rows in its vectors tables
    late,      \* threads of the store that no handler waits for any more
    missed,    \* history: pages whose texts a thread stored after the count
    torn,      \* history: pages whose vectors the count cannot know of: stored
               \* after it or without texts, or left by half a delete
    tomb,      \* vector_tombstones, by page
    stale,     \* tombstones not updated for ten minutes
    unsent,    \* sets of pages purged by a request that has to enqueue yet
    status,    \* ledger: of each purge job
    attempts,  \* ledger: likewise
    worker,    \* what the worker is at, with its pages; a sweep has those yet to
               \* count, and those counted without texts and with
    used       \* how much of each bound has been used

requestVars == <<row, rules, ingest, unsent>>
tombVars == <<tomb, stale>>
ledgerVars == <<status, attempts>>
tableVars == <<texts, vectors, missed, torn>>
vectorVars == <<tableVars, late>>
vars == <<requestVars, tombVars, ledgerVars, vectorVars, worker, used>>

Purges == (SUBSET Pages) \ {{}}
Ledger == INSTANCE JobLedger WITH Jobs <- Purges

StoreThreads == [id : 1..MaxLates, does : {"store", "drop"}, next : {"texts", "vectors"},
            pages : SUBSET Pages]

IdleWorker == [pc |-> "idle", pages |-> {}, clean |-> {}, lying |-> {}]
At(pc) == worker.pc = pc
Go(pc) == worker' = [worker EXCEPT !.pc = pc]
Take(pc, ps) == worker' = [pc |-> pc, pages |-> ps, clean |-> {}, lying |-> {}]
Rest == worker' = IdleWorker

Init ==
    /\ row = [p \in Pages |-> "none"]
    /\ rules = {}
    /\ ingest = [c \in Ingests |-> NoPage]
    /\ unsent = {}
    /\ tomb = [p \in Pages |-> "none"]
    /\ stale = {}
    /\ Ledger!Init
    /\ texts = {} /\ vectors = {}
    /\ late = {}
    /\ missed = {} /\ torn = {}
    /\ worker = IdleWorker
    /\ used = [failures |-> 0, crashes |-> 0, lates |-> 0]

-----------------------------------------------------------------------------
(* Requests: ingest checks, extracts the body, then inserts.               *)

Listed(p) == p \in rules \/ Domain \in rules
Present(p) == row[p] \in {"queued", "indexed"}

IngestCheck(c, p) ==
    /\ ingest[c] = NoPage
    /\ ~Listed(p) /\ row[p] = "none"
    /\ ingest' = [ingest EXCEPT ![c] = p]
    /\ UNCHANGED <<row, rules, unsent, tombVars, ledgerVars, vectorVars, worker, used>>

\* The URL is UNIQUE: the second of two inserts raises.
IngestInsert(c) ==
    /\ ingest[c] # NoPage
    /\ row' = [row EXCEPT ![ingest[c]] = IF @ = "none" THEN "queued" ELSE @]
    /\ ingest' = [ingest EXCEPT ![c] = NoPage]
    /\ UNCHANGED <<rules, unsent, tombVars, ledgerVars, vectorVars, worker, used>>

Matching(target) == {p \in Pages : Present(p) /\ target \in {p, Domain}}

SetTombs(ps, to) ==
    /\ tomb' = [p \in Pages |-> IF p \in ps THEN to ELSE tomb[p]]
    /\ stale' = stale \ ps

\* forget(): purge_and_blacklist commits rule, tombstones and deletions.
Forget(target) ==
    LET ps == Matching(target) IN
    /\ rules' = rules \union {target}
    /\ row' = [p \in Pages |-> IF p \in ps THEN "purged" ELSE row[p]]
    /\ SetTombs(ps, "pending")
    /\ unsent' = IF ps = {} THEN unsent ELSE unsent \union {ps}
    /\ UNCHANGED <<ingest, ledgerVars, vectorVars, worker, used>>

Enqueue(ps) ==
    \/ Ledger!Submit(ps)
    \/ status[ps] # "absent" /\ UNCHANGED ledgerVars

EnqueuePurge(ps) ==
    /\ ps \in unsent
    /\ unsent' = unsent \ {ps}
    /\ Enqueue(ps)
    /\ UNCHANGED <<row, rules, ingest, tombVars, vectorVars, worker, used>>

Unblacklist(target) ==
    /\ target \in rules
    /\ rules' = rules \ {target}
    /\ UNCHANGED <<row, ingest, unsent, tombVars, ledgerVars, vectorVars, worker, used>>

-----------------------------------------------------------------------------
(* The worker: an index job, as far as points and rows are concerned.      *)

Indexing(from) == At(from) /\ UNCHANGED <<rules, ingest, unsent, tombVars,
                                          ledgerVars, used>>

IndexBegin(p) ==
    /\ Indexing("idle")
    /\ row[p] = "queued"
    /\ Take("index", {p})
    /\ UNCHANGED <<row, vectorVars>>

\* replace_chunks and upsert_page_vector refer to the row, upsert_chunks not.
WriteOrRaise(from, to) ==
    /\ Indexing(from)
    /\ Go(IF \A p \in worker.pages : Present(p) THEN to ELSE "raised")
    /\ UNCHANGED <<row, vectorVars>>

IndexChunks == WriteOrRaise("index", "chunked")
IndexRollup == WriteOrRaise("upserted", "rolled")

\* upsert_chunks: one table, then the other.
UpsertTexts ==
    /\ Indexing("chunked")
    /\ texts' = texts \union worker.pages
    /\ Go("upserting")
    /\ UNCHANGED <<row, vectors, missed, torn, late>>

UpsertVectors ==
    /\ Indexing("upserting")
    /\ vectors' = vectors \union worker.pages
    /\ torn' = torn \union (worker.pages \ texts)
    /\ Go("upserted")
    /\ UNCHANGED <<row, texts, missed, late>>

\* set_page_status updates the row if there still is one.
IndexFinish ==
    /\ Indexing("rolled")
    /\ row' = [p \in Pages |-> IF p \in worker.pages /\ Present(p)
                                 THEN "indexed" ELSE row[p]]
    /\ Rest
    /\ UNCHANGED vectorVars

IndexRaises ==
    /\ \E from \in {"index", "chunked", "upserting", "upserted"} : Indexing(from)
    /\ Go("raised")
    /\ UNCHANGED <<row, vectorVars>>

\* delete_pages: one table, then the other.
DropTexts(ps) ==
    /\ texts' = texts \ ps
    /\ missed' = missed \ ps
    /\ UNCHANGED <<vectors, torn>>

DropVectors(ps) ==
    /\ vectors' = vectors \ ps
    /\ torn' = torn \ ps
    /\ UNCHANGED <<texts, missed>>

\* What a delete leaves that ends where the worker is: vectors without texts.
Halves == IF At("purging") \/ At("cleaning")
            THEN (worker.pages \intersect vectors) \ texts ELSE {}

LeaveHalf ==
    /\ torn' = torn \union Halves
    /\ UNCHANGED <<texts, vectors, missed>>

\* _cleanup_failed_core, of which every failure is swallowed.
CleanTexts ==
    /\ Indexing("raised")
    /\ DropTexts(worker.pages)
    /\ Go("cleaning")
    /\ UNCHANGED <<row, late>>

CleanVectors ==
    /\ Indexing("cleaning")
    /\ DropVectors(worker.pages)
    /\ Rest
    /\ UNCHANGED <<row, late>>

\* The cleanup fails, or the lease runs out under it.
CleanBroken ==
    /\ Indexing("raised") \/ Indexing("cleaning")
    /\ LeaveHalf
    /\ Rest
    /\ UNCHANGED <<row, late>>

\* The lease runs out: there is no cleanup.
IndexCancelled ==
    /\ \E from \in {"index", "chunked", "upserting", "upserted", "rolled"} : Indexing(from)
    /\ Rest
    /\ UNCHANGED <<row, vectorVars>>

-----------------------------------------------------------------------------
(* The lease runs out while a thread of the store is at work: it does not  *)
(* hear of it, and has the tables before it that it had.                   *)

LeaveThread(does, next) ==
    /\ used.lates < MaxLates
    /\ used' = [used EXCEPT !.lates = @ + 1]
    /\ late' = late \union {[id |-> used.lates + 1, does |-> does, next |-> next,
                              pages |-> worker.pages]}
    /\ LeaveHalf
    /\ Rest
    /\ UNCHANGED <<requestVars, tombVars>>

IndexAbandoned ==
    /\ \/ At("chunked") /\ LeaveThread("store", "texts")
       \/ At("upserting") /\ LeaveThread("store", "vectors")
       \/ At("raised") /\ LeaveThread("drop", "texts")
       \/ At("cleaning") /\ LeaveThread("drop", "vectors")
    /\ UNCHANGED ledgerVars

PurgeAbandoned ==
    /\ \/ At("purge") /\ LeaveThread("drop", "texts")
       \/ At("purging") /\ LeaveThread("drop", "vectors")
    /\ Ledger!Fail(worker.pages) \/ Ledger!Die(worker.pages)

\* The sweep has counted the page already.
Counted(p) ==
    /\ row[p] = "purged"
    /\ tomb[p] \in {"verified", "none"} \/ p \in worker.clean

LateTexts(t) ==
    /\ t \in late /\ t.next = "texts"
    /\ IF t.does = "store"
         THEN /\ texts' = texts \union t.pages
              /\ missed' = missed \union {p \in t.pages : Counted(p)}
              /\ torn' = torn
         ELSE /\ texts' = texts \ t.pages
              /\ missed' = missed \ t.pages
              /\ torn' = torn \union (t.pages \intersect vectors)
    /\ late' = (late \ {t}) \union {[t EXCEPT !.next = "vectors"]}
    /\ UNCHANGED <<requestVars, tombVars, ledgerVars, vectors, worker, used>>

LateVectors(t) ==
    /\ t \in late /\ t.next = "vectors"
    /\ IF t.does = "store"
         THEN /\ vectors' = vectors \union t.pages
              /\ torn' = torn \union {p \in t.pages : p \notin texts \/ Counted(p)}
         ELSE /\ vectors' = vectors \ t.pages
              /\ torn' = torn \ t.pages
    /\ late' = late \ {t}
    /\ UNCHANGED <<requestVars, tombVars, ledgerVars, texts, missed, worker, used>>

-----------------------------------------------------------------------------
(* The worker: handle_purge_vectors.                                       *)

PurgeBegin(ps) ==
    /\ At("idle")
    /\ Ledger!Run(ps)
    /\ Take("purge", ps)
    /\ UNCHANGED <<requestVars, tombVars, vectorVars, used>>

DeleteTexts ==
    /\ At("purge")
    /\ DropTexts(worker.pages)
    /\ Go("purging")
    /\ UNCHANGED <<requestVars, tombVars, ledgerVars, late, used>>

DeleteVectors ==
    /\ At("purging")
    /\ DropVectors(worker.pages)
    /\ Go("purged")
    /\ UNCHANGED <<requestVars, tombVars, ledgerVars, late, used>>

\* The call fails at either table, or its answer is lost.
DeleteFails ==
    /\ At("purge") \/ At("purging") \/ At("purged")
    /\ used.failures < MaxFailures
    /\ used' = [used EXCEPT !.failures = @ + 1]
    /\ LeaveHalf
    /\ Ledger!Fail(worker.pages) \/ Ledger!Die(worker.pages)
    /\ Rest
    /\ UNCHANGED <<requestVars, tombVars, late>>

RecordDeleted ==
    /\ At("purged")
    /\ SetTombs({p \in worker.pages : tomb[p] # "none"}, "deleted")
    /\ Go("recorded")
    /\ UNCHANGED <<requestVars, ledgerVars, vectorVars, used>>

PurgeDone ==
    /\ At("recorded")
    /\ Ledger!Succeed(worker.pages)
    /\ Rest
    /\ UNCHANGED <<requestVars, tombVars, vectorVars, used>>

-----------------------------------------------------------------------------
(* The worker: the verify_tombstones sweep.                                *)

Tombs(s) == {p \in Pages : tomb[p] = s}
Sweeping(from) == At(from) /\ UNCHANGED <<requestVars, vectorVars, used>>

SweepList ==
    /\ Sweeping("idle")
    /\ Take("sweep", Tombs("deleted"))
    /\ UNCHANGED <<tombVars, ledgerVars>>

\* Mutant: what the job reports as deleted is taken to be gone.
SweepTrusting(p) ==
    /\ Sweeping("sweep")
    /\ p \in worker.pages
    /\ worker' = [worker EXCEPT !.pages = @ \ {p}, !.clean = @ \union {p}]
    /\ UNCHANGED <<tombVars, ledgerVars>>

\* count_chunks of one page after the other, with awaits between.
SweepCount(p) ==
    /\ Sweeping("sweep")
    /\ p \in worker.pages
    /\ worker' = IF p \in texts
                   THEN [worker EXCEPT !.pages = @ \ {p}, !.lying = @ \union {p}]
                   ELSE [worker EXCEPT !.pages = @ \ {p}, !.clean = @ \union {p}]
    /\ UNCHANGED <<tombVars, ledgerVars>>

SweepVerify ==
    /\ Sweeping("sweep")
    /\ worker.pages = {}
    /\ SetTombs(worker.clean, "verified")
    /\ worker' = [worker EXCEPT !.pc = "verified", !.clean = {}]
    /\ UNCHANGED ledgerVars

SweepRevert ==
    /\ Sweeping("verified")
    /\ SetTombs(worker.lying, "pending")
    /\ Go("reverted")
    /\ UNCHANGED ledgerVars

\* Mutant: nothing is asked for again.
SweepPassive ==
    /\ Sweeping("reverted")
    /\ Go("redriven")
    /\ UNCHANGED <<tombVars, ledgerVars>>

\* The stragglers, together: a set that had a job before gets none now.
SweepRedrive ==
    LET ps == Tombs("pending") \intersect stale IN
    /\ Sweeping("reverted")
    /\ IF ps = {} THEN UNCHANGED ledgerVars ELSE Enqueue(ps)
    /\ Go("redriven")
    /\ UNCHANGED tombVars

\* Tombstones verified for thirty days are deleted: some of them, or none.
SweepCollect ==
    /\ Sweeping("redriven")
    /\ \E ps \in SUBSET Tombs("verified") : SetTombs(ps, "none")
    /\ Rest
    /\ UNCHANGED ledgerVars

TombstoneAges(p) ==
    /\ tomb[p] = "pending" /\ p \notin stale
    /\ stale' = stale \union {p}
    /\ UNCHANGED <<requestVars, tomb, ledgerVars, vectorVars, worker, used>>

-----------------------------------------------------------------------------
\* The process dies and is started again; its running job is given back.
Crash ==
    /\ used.crashes < MaxCrashes
    /\ used' = [used EXCEPT !.crashes = @ + 1]
    /\ ingest' = [c \in Ingests |-> NoPage]
    /\ unsent' = {}
    /\ late' = {}
    /\ Ledger!Recover({ps \in Purges : status[ps] = "running"})
    /\ LeaveHalf
    /\ Rest
    /\ UNCHANGED <<row, rules, tombVars>>

-----------------------------------------------------------------------------
Requests == \/ \E c \in Ingests : IngestInsert(c) \/ \E p \in Pages : IngestCheck(c, p)
            \/ \E t \in Pages \union {Domain} : Forget(t) \/ Unblacklist(t)
            \/ \E ps \in Purges : EnqueuePurge(ps)

IndexSteps == IndexChunks \/ UpsertTexts \/ UpsertVectors \/ IndexRollup \/ IndexFinish
              \/ IndexRaises \/ CleanTexts \/ CleanVectors \/ CleanBroken
              \/ IndexCancelled \/ IndexAbandoned

PurgeSteps == DeleteTexts \/ DeleteVectors \/ DeleteFails \/ PurgeAbandoned
              \/ RecordDeleted \/ PurgeDone

SweepSteps == (\E p \in Pages : SweepCount(p)) \/ SweepVerify \/ SweepRevert
              \/ SweepRedrive \/ SweepCollect

Next == \/ Requests
        \/ \E p \in Pages : IndexBegin(p) \/ TombstoneAges(p)
        \/ \E t \in late : LateTexts(t) \/ LateVectors(t)
        \/ \E ps \in Purges : PurgeBegin(ps)
        \/ SweepList
        \/ IndexSteps \/ PurgeSteps \/ SweepSteps
        \/ Crash

Spec == Init /\ [][Next]_vars

\* What is under way ends.  The worker takes its messages in turn, and the
\* sweep is due every ten minutes: neither is starved by other jobs.
Fairness ==
    /\ \A ps \in Purges : WF_vars(EnqueuePurge(ps)) /\ SF_vars(PurgeBegin(ps))
    /\ \A p \in Pages : WF_vars(TombstoneAges(p))
    /\ SF_vars(SweepList)
    /\ WF_vars(IndexSteps)
    /\ WF_vars(PurgeSteps)
    /\ WF_vars(SweepSteps)

FairSpec == Spec /\ Fairness

-----------------------------------------------------------------------------
(* Properties.                                                             *)

\* Every variable has its type, and only purged pages have tombstones.
TypeOK ==
    /\ row \in [Pages -> {"none", "queued", "indexed", "purged"}]
    /\ rules \subseteq Pages \union {Domain}
    /\ ingest \in [Ingests -> Pages \union {NoPage}]
    /\ unsent \subseteq Purges
    /\ tomb \in [Pages -> {"none", "pending", "deleted", "verified"}]
    /\ stale \subseteq Pages
    /\ texts \subseteq Pages /\ vectors \subseteq Pages
    /\ missed \subseteq Pages /\ torn \subseteq Pages
    /\ late \subseteq StoreThreads
    /\ used \in [failures : Nat, crashes : Nat, lates : 0..MaxLates]
    /\ \A p \in Pages : tomb[p] # "none" => row[p] = "purged"

\* Points of a purged page are never left with no one to look for them: its
\* tombstone is neither verified nor collected while they are there, although
\* an index job, or a thread it abandoned, may have stored them after the purge
\* or after the deletion.  Two kinds escape: what a thread stores after the
\* sweep's count, and vectors the count cannot know of, since it counts texts:
\* those a thread stores when the texts are deleted already, and those a
\* delete that ended between the tables has left.
StrayPointsTracked ==
    \A p \in (texts \ missed) \union (vectors \ torn) :
        row[p] = "purged" => tomb[p] \in {"pending", "deleted"}

\* The points of a purged page vanish from both tables, even when the process
\* dies between the purge and the enqueue of its job, or the store fails fewer
\* times in all than the job has attempts.
StrayPointsVanish ==
    \A p \in Pages : (p \in texts \union vectors /\ row[p] = "purged")
                        ~> p \notin texts \union vectors
=============================================================================

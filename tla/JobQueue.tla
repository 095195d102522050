------------------------------ MODULE JobQueue ------------------------------
(***************************************************************************)
(* The durable job queue: adapters/queue/huey_queue.py over the jobs table *)
(* of adapters/metadata/sqlite_store.py, with the retry endpoint of        *)
(* api/routes/jobs.py and the start and stop of application/container.py.  *)
(*                                                                         *)
(* Two durable stores have to agree.  The ledger (status, attempts, lease) *)
(* is the application's; the queue and the schedule are tables of the huey *)
(* library, which deletes a message when it dequeues it.  Every await of   *)
(* the code is a step boundary here, so that requests, the only worker and *)
(* a crash of the process interleave wherever the code lets them.          *)
(*                                                                         *)
(* A job is named by its idempotency key, which is UNIQUE in the table: a  *)
(* second enqueue of a key is a no-op of the ledger, hence a stutter.      *)
(* A handler is its outcome: what handlers do is modelled elsewhere.       *)
(***************************************************************************)
EXTENDS Naturals, Sequences

CONSTANTS
    Jobs,           \* idempotency keys
    NoJob,          \* what an idle worker or caller holds
    Callers,        \* concurrent requests to the retry endpoint
    MaxAttempts,    \* JobsSettings.max_attempts
    MaxDeferrals,   \* bound: outages met by a handler, over a behaviour
    MaxRetries,     \* bound: manual retries, over a behaviour
    MaxStrandings,  \* bound: children cut off before their message, likewise
    MaxStops,       \* bound: graceful shutdowns, over a behaviour
    MaxCrashes      \* bound: crashes, over a behaviour

ASSUME NoJobAssumption == NoJob \notin Jobs
ASSUME MaxAttemptsAssumption == MaxAttempts \in Nat \ {0}
ASSUME BoundsAssumption == /\ MaxDeferrals \in Nat
                           /\ MaxRetries \in Nat
                           /\ MaxStrandings \in Nat
                           /\ MaxStops \in Nat
                           /\ MaxCrashes \in Nat

VARIABLES
    status,      \* ledger: status of the row, "absent" before create_job
    attempts,    \* ledger: counted failures since the row was last reset
    lease,       \* ledger: lease_until, NULL, in the future or in the past
    queue,       \* huey: messages to deliver, first in first out
    schedule,    \* huey: delayed messages of each job, by RetryTask
    worker,      \* the only worker: where _execute is, and the row it read
    submitting,  \* jobs of requests: the row is committed, the message not sent
    spawning,    \* the same, for the job the running handler is enqueuing
    stranded,    \* history: pending jobs whose message will never be sent
    retrier,     \* where each call of the retry endpoint is
    phase,       \* of the process
    todo,        \* jobs recover() has still to hand to huey
    used         \* how much of each bound has been used

ledgerVars == <<status, attempts, lease>>
hueyVars == <<queue, schedule>>
childVars == <<spawning, stranded>>
vars == <<ledgerVars, hueyVars, childVars, worker, submitting, retrier, phase,
          todo, used>>

-----------------------------------------------------------------------------
Status == {"absent", "pending", "running", "done", "failed", "dead"}
Runnable == {"pending", "failed"}
Settled == {"done", "dead"}
Bounds == {"deferrals", "retries", "strandings", "stops", "crashes"}

IdleWorker == [pc |-> "idle", job |-> NoJob, attempts |-> 0]
IdleCaller == [pc |-> "idle", job |-> NoJob]

Alive == phase # "down"
WorkerAt(pc) == worker.pc = pc /\ Alive
CallerAt(c, pc) == retrier[c].pc = pc
Use(b) == used' = [used EXCEPT ![b] = @ + 1]
Send(j) == queue' = Append(queue, j)

InQueue(j) == \E i \in DOMAIN queue : queue[i] = j

Init ==
    /\ status = [j \in Jobs |-> "absent"]
    /\ attempts = [j \in Jobs |-> 0]
    /\ lease = [j \in Jobs |-> "none"]
    /\ queue = <<>>
    /\ schedule = [j \in Jobs |-> 0]
    /\ worker = IdleWorker
    /\ submitting = {}
    /\ spawning = {}
    /\ stranded = {}
    /\ retrier = [c \in Callers |-> IdleCaller]
    /\ phase = "down"
    /\ todo = {}
    /\ used = [b \in Bounds |-> 0]

-----------------------------------------------------------------------------
(* enqueue(): the row is committed first, the message follows.             *)

InsertRow(j) ==
    /\ status[j] = "absent"
    /\ status' = [status EXCEPT ![j] = "pending"]

\* Requests and periodic tasks enqueue while the process serves, and the
\* reconciliation of entity jobs does between recovery and the consumer.
CreateJob(j) ==
    /\ phase = "up" \/ (phase = "recovering" /\ todo = {})
    /\ InsertRow(j)
    /\ submitting' = submitting \union {j}
    /\ UNCHANGED <<attempts, lease, hueyVars, childVars, worker, retrier, phase,
                   todo, used>>

SendCreated(j) ==
    /\ j \in submitting
    /\ submitting' = submitting \ {j}
    /\ Send(j)
    /\ UNCHANGED <<ledgerVars, schedule, childVars, worker, retrier, phase, todo,
                   used>>

\* A handler enqueues too, and awaits both halves before it goes on.
SpawnJob(j) ==
    /\ WorkerAt("run")
    /\ spawning = {}
    /\ InsertRow(j)
    /\ spawning' = {j}
    /\ UNCHANGED <<attempts, lease, hueyVars, stranded, worker, submitting, retrier,
                   phase, todo, used>>

SendSpawned(j) ==
    /\ j \in spawning
    /\ spawning' = spawning \ {j}
    /\ Send(j)
    /\ UNCHANGED <<ledgerVars, schedule, stranded, worker, submitting, retrier,
                   phase, todo, used>>

-----------------------------------------------------------------------------
(* The retry endpoint: the guard is read in the route, the reset has none. *)

RetryCheck(c, j) ==
    /\ phase = "up"
    /\ CallerAt(c, "idle")
    /\ used.retries < MaxRetries
    /\ status[j] = "dead"
    /\ retrier' = [retrier EXCEPT ![c] = [pc |-> "reset", job |-> j]]
    /\ Use("retries")
    /\ UNCHANGED <<ledgerVars, hueyVars, childVars, worker, submitting, phase, todo>>

RetryReset(c) ==
    /\ CallerAt(c, "reset")
    /\ LET j == retrier[c].job IN
          /\ status' = [status EXCEPT ![j] = "pending"]
          /\ attempts' = [attempts EXCEPT ![j] = 0]
          /\ lease' = [lease EXCEPT ![j] = "none"]
    /\ retrier' = [retrier EXCEPT ![c].pc = "callback"]
    /\ UNCHANGED <<hueyVars, childVars, worker, submitting, phase, todo, used>>

RetryCallback(c) ==
    /\ CallerAt(c, "callback")
    /\ retrier' = [retrier EXCEPT ![c].pc = "send"]
    /\ UNCHANGED <<ledgerVars, hueyVars, childVars, worker, submitting, phase, todo, used>>

\* Mutant: the retry commits the reset and hands nothing to huey.
RetrySilent(c) ==
    /\ CallerAt(c, "send")
    /\ retrier' = [retrier EXCEPT ![c] = IdleCaller]
    /\ UNCHANGED <<ledgerVars, hueyVars, childVars, worker, submitting, phase, todo, used>>

RetrySend(c) ==
    /\ CallerAt(c, "send")
    /\ Send(retrier[c].job)
    /\ retrier' = [retrier EXCEPT ![c] = IdleCaller]
    /\ UNCHANGED <<ledgerVars, schedule, childVars, worker, submitting, phase, todo, used>>

-----------------------------------------------------------------------------
(* The consumer: delivery, and the due messages of the schedule.           *)

Dequeue ==
    /\ phase = "up"
    /\ worker.pc = "idle"
    /\ queue # <<>>
    /\ queue' = Tail(queue)
    /\ worker' = [pc |-> "got", job |-> Head(queue), attempts |-> 0]
    /\ UNCHANGED <<ledgerVars, schedule, childVars, submitting, retrier, phase, todo, used>>

ScheduleDue(j) ==
    /\ phase = "up"
    /\ schedule[j] > 0
    /\ schedule' = [schedule EXCEPT ![j] = @ - 1]
    /\ Send(j)
    /\ UNCHANGED <<ledgerVars, childVars, worker, submitting, retrier, phase, todo, used>>

-----------------------------------------------------------------------------
(* _execute(): the row is read, checked, marked running; the handler runs; *)
(* its outcome is committed.  job.attempts is the value read, never reread.*)

SkipDelivery ==
    /\ WorkerAt("got")
    /\ status[worker.job] \notin Runnable
    /\ worker' = IdleWorker
    /\ UNCHANGED <<ledgerVars, hueyVars, childVars, submitting, retrier, phase, todo, used>>

\* Mutant: the status of the row is not looked at.
ReadUnchecked ==
    /\ WorkerAt("got")
    /\ worker' = [worker EXCEPT !.pc = "claim", !.attempts = attempts[worker.job]]
    /\ UNCHANGED <<ledgerVars, hueyVars, childVars, submitting, retrier, phase, todo, used>>

ReadRunnable ==
    /\ WorkerAt("got")
    /\ status[worker.job] \in Runnable
    /\ worker' = [worker EXCEPT !.pc = "claim", !.attempts = attempts[worker.job]]
    /\ UNCHANGED <<ledgerVars, hueyVars, childVars, submitting, retrier, phase, todo, used>>

MarkRunning ==
    /\ WorkerAt("claim")
    /\ status' = [status EXCEPT ![worker.job] = "running"]
    /\ lease' = [lease EXCEPT ![worker.job] = "live"]
    /\ worker' = [worker EXCEPT !.pc = "run"]
    /\ UNCHANGED <<attempts, hueyVars, childVars, submitting, retrier, phase, todo, used>>

MarkDone ==
    /\ WorkerAt("run")
    /\ spawning = {}
    /\ status' = [status EXCEPT ![worker.job] = "done"]
    /\ lease' = [lease EXCEPT ![worker.job] = "none"]
    /\ worker' = IdleWorker
    /\ UNCHANGED <<attempts, hueyVars, childVars, submitting, retrier, phase, todo, used>>

\* mark_job_failed(attempts=n), and the worker still holding the message.
MarkFailed(n) ==
    /\ status' = [status EXCEPT ![worker.job] = "failed"]
    /\ attempts' = [attempts EXCEPT ![worker.job] = n]
    /\ lease' = [lease EXCEPT ![worker.job] = "none"]
    /\ worker' = [worker EXCEPT !.pc = "retry"]
    /\ UNCHANGED <<hueyVars, retrier, phase, todo>>

\* Mutant: an outage costs an attempt.
DeferCounted ==
    /\ WorkerAt("run")
    /\ spawning = {}
    /\ used.deferrals < MaxDeferrals
    /\ MarkFailed(worker.attempts + 1)
    /\ Use("deferrals")
    /\ UNCHANGED <<childVars, submitting>>

\* ProviderUnavailableError: the attempt is not counted.
Defer ==
    /\ WorkerAt("run")
    /\ spawning = {}
    /\ used.deferrals < MaxDeferrals
    /\ MarkFailed(worker.attempts)
    /\ Use("deferrals")
    /\ UNCHANGED <<childVars, submitting>>

\* How a failing handler leaves what it was enqueuing.  One that raises has
\* nothing in flight.  One that asyncio.timeout cancels may: the thread that
\* sends the message outlives it, or was never started.
LeaveChild ==
    \/ /\ submitting' = submitting \union spawning
       /\ spawning' = {}
       /\ UNCHANGED <<stranded, used>>
    \/ /\ spawning # {}
       /\ used.strandings < MaxStrandings
       /\ stranded' = stranded \union spawning
       /\ spawning' = {}
       /\ Use("strandings")
       /\ UNCHANGED submitting

\* _record_failure with attempts left: the handler raised, or was cancelled
\* by asyncio.timeout when its lease ran out.
FailRetryable ==
    /\ WorkerAt("run")
    /\ worker.attempts + 1 < MaxAttempts
    /\ MarkFailed(worker.attempts + 1)
    /\ LeaveChild

\* _record_failure on the last attempt; mark_job_dead leaves attempts alone.
FailDead ==
    /\ WorkerAt("run")
    /\ worker.attempts + 1 >= MaxAttempts
    /\ status' = [status EXCEPT ![worker.job] = "dead"]
    /\ lease' = [lease EXCEPT ![worker.job] = "none"]
    /\ worker' = [worker EXCEPT !.pc = "dead"]
    /\ LeaveChild
    /\ UNCHANGED <<attempts, hueyVars, retrier, phase, todo>>

DeadCallback ==
    /\ WorkerAt("dead")
    /\ worker' = IdleWorker
    /\ UNCHANGED <<ledgerVars, hueyVars, childVars, submitting, retrier, phase, todo, used>>

\* RetryTask, raised in the worker thread: huey adds the task to its schedule.
Reschedule ==
    /\ WorkerAt("retry")
    /\ schedule' = [schedule EXCEPT ![worker.job] = @ + 1]
    /\ worker' = IdleWorker
    /\ UNCHANGED <<ledgerVars, queue, childVars, submitting, retrier, phase, todo, used>>

HandlerEnds == MarkDone \/ Defer \/ FailRetryable \/ FailDead

LeaseExpires(j) ==
    /\ lease[j] = "live"
    /\ lease' = [lease EXCEPT ![j] = "expired"]
    /\ UNCHANGED <<status, attempts, hueyVars, childVars, worker, submitting, retrier,
                   phase, todo, used>>

-----------------------------------------------------------------------------
(* The life of the process.                                                *)

PendingJobs == {j \in Jobs : status[j] = "pending"}
ExpiredOrphans == {j \in Jobs : status[j] = "running" /\ lease[j] = "expired"}

\* reset_expired_leases: running jobs whose lease ran out are pending again.
GiveBackOrphans ==
    /\ phase = "down"
    /\ phase' = "recovering"
    /\ status' = [j \in Jobs |-> IF j \in ExpiredOrphans THEN "pending" ELSE status[j]]
    /\ lease' = [j \in Jobs |-> IF j \in ExpiredOrphans THEN "none" ELSE lease[j]]
    /\ stranded' = {}
    /\ UNCHANGED <<hueyVars, spawning, worker, submitting, retrier, used>>

\* Mutant: only what was given back is sent again.
RestartOrphansOnly ==
    GiveBackOrphans /\ todo' = ExpiredOrphans /\ UNCHANGED attempts

\* Mutant: the pending jobs are listed before the leases are reset.
RestartListsFirst ==
    GiveBackOrphans /\ todo' = PendingJobs /\ UNCHANGED attempts

\* Mutant: a job given back gets its whole budget again.
RestartForgives ==
    /\ GiveBackOrphans
    /\ todo' = PendingJobs'
    /\ attempts' = [j \in Jobs |-> IF j \in ExpiredOrphans THEN 0 ELSE attempts[j]]

\* recover(): the reset, then list_pending_jobs.  Nothing else runs yet, so
\* both are one step; the messages follow one at a time.
Restart ==
    /\ GiveBackOrphans
    /\ todo' = PendingJobs'
    /\ UNCHANGED attempts

RecoverSend(j) ==
    /\ j \in todo
    /\ todo' = todo \ {j}
    /\ Send(j)
    /\ UNCHANGED <<ledgerVars, schedule, childVars, worker, submitting, retrier, phase, used>>

Start ==
    /\ phase = "recovering"
    /\ todo = {}
    /\ submitting = {}
    /\ phase' = "up"
    /\ UNCHANGED <<ledgerVars, hueyVars, childVars, worker, submitting, retrier, todo, used>>

\* Graceful shutdown: requests have drained; stop() joins the busy worker.
Stop ==
    /\ phase = "up"
    /\ used.stops < MaxStops
    /\ submitting = {}
    /\ \A c \in Callers : CallerAt(c, "idle")
    /\ phase' = "stopping"
    /\ Use("stops")
    /\ UNCHANGED <<ledgerVars, hueyVars, childVars, worker, submitting, retrier, todo>>

\* Mutant: the consumer is stopped without waiting for its worker.
StoppedUnjoined ==
    /\ phase = "stopping"
    /\ submitting = {}
    /\ phase' = "down"
    /\ worker' = IdleWorker
    /\ spawning' = {}
    /\ UNCHANGED <<ledgerVars, hueyVars, stranded, submitting, retrier, todo, used>>

Stopped ==
    /\ phase = "stopping"
    /\ worker.pc = "idle"
    /\ submitting = {}
    /\ phase' = "down"
    /\ UNCHANGED <<ledgerVars, hueyVars, childVars, worker, submitting, retrier, todo, used>>

\* The process dies at any point: both databases stay, its memory does not.
Crash ==
    /\ Alive
    /\ used.crashes < MaxCrashes
    /\ phase' = "down"
    /\ worker' = IdleWorker
    /\ submitting' = {}
    /\ spawning' = {}
    /\ retrier' = [c \in Callers |-> IdleCaller]
    /\ todo' = {}
    /\ Use("crashes")
    /\ UNCHANGED <<ledgerVars, hueyVars, stranded>>

-----------------------------------------------------------------------------
Enqueuing == \E j \in Jobs : \/ CreateJob(j) \/ SendCreated(j)
                           \/ SpawnJob(j) \/ SendSpawned(j)

Retrying == \E c \in Callers : \/ \E j \in Jobs : RetryCheck(c, j)
                               \/ RetryReset(c)
                               \/ RetryCallback(c)
                               \/ RetrySend(c)

Executing == \/ SkipDelivery \/ ReadRunnable \/ MarkRunning \/ HandlerEnds
             \/ DeadCallback \/ Reschedule

Lifecycle == Restart \/ (\E j \in Jobs : RecoverSend(j)) \/ Start
             \/ Stop \/ Stopped \/ Crash

Next == \/ Enqueuing
        \/ Retrying
        \/ Dequeue
        \/ \E j \in Jobs : ScheduleDue(j) \/ LeaseExpires(j)
        \/ Executing
        \/ Lifecycle

Spec == Init /\ [][Next]_vars

\* The event loop runs what is ready, the consumer thread polls both tables,
\* time passes, asyncio.timeout ends every handler, and a stopped process is
\* started again.  No one is obliged to enqueue, retry, stop or crash.
Fairness ==
    /\ \A j \in Jobs : /\ WF_vars(SendCreated(j) \/ SendSpawned(j))
                       /\ WF_vars(ScheduleDue(j))
                       /\ WF_vars(LeaseExpires(j))
                       /\ WF_vars(RecoverSend(j))
    /\ \A c \in Callers : WF_vars(RetryReset(c) \/ RetryCallback(c) \/ RetrySend(c))
    /\ WF_vars(Dequeue)
    /\ WF_vars(Executing)
    /\ WF_vars(Restart \/ Start \/ Stopped)

FairSpec == Spec /\ Fairness

-----------------------------------------------------------------------------
(* Properties.                                                             *)

\* Every variable has its type; the attempts of a row, and those a worker
\* holds, stay below max_attempts whatever the callers do (_record_failure).
TypeOK ==
    /\ status \in [Jobs -> Status]
    /\ attempts \in [Jobs -> 0 .. MaxAttempts - 1]
    /\ lease \in [Jobs -> {"none", "live", "expired"}]
    /\ queue \in Seq(Jobs)
    /\ schedule \in [Jobs -> Nat]
    /\ worker \in [pc : {"idle", "got", "claim", "run", "dead", "retry"},
                   job : Jobs \union {NoJob},
                   attempts : 0 .. MaxAttempts - 1]
    /\ submitting \subseteq Jobs
    /\ spawning \subseteq Jobs
    /\ stranded \subseteq Jobs
    /\ retrier \in [Callers -> [pc : {"idle", "reset", "callback", "send"},
                                job : Jobs \union {NoJob}]]
    /\ phase \in {"down", "recovering", "up", "stopping"}
    /\ todo \subseteq Jobs
    /\ used \in [Bounds -> Nat]

\* Something will still bring the job to the worker, or has brought it there.
Carried(j) ==
    \/ InQueue(j)
    \/ schedule[j] > 0
    \/ j \in submitting \union spawning
    \/ j \in todo
    \/ \E c \in Callers : retrier[c].pc \in {"callback", "send"} /\ retrier[c].job = j
    \/ worker.pc \in {"got", "claim", "retry"} /\ worker.job = j

\* While the process lives, wherever it crashed before, no pending job is
\* forgotten but one whose parent was cancelled at its lease expiry between
\* the two halves of enqueue(): enqueue commits the row first, a reset is
\* followed by a message of its own, and recover() re-sends the rest.
PendingNotLost ==
    Alive => \A j \in Jobs : status[j] = "pending" => Carried(j) \/ j \in stranded

\* Before the first crash no failed job is forgotten either, not even across a
\* graceful shutdown, where recover() does not look at failed rows: stop()
\* waits until the retry of the job in flight is in the schedule.
FailedNotLost ==
    used.crashes = 0 => \A j \in Jobs : status[j] = "failed" => Carried(j)

\* Before the first crash a row says running only while the worker runs its
\* handler; stop() leaves none behind for recover() to wait for its lease.
RunningIsOwned ==
    used.crashes = 0 =>
        \A j \in Jobs : status[j] = "running" => worker.pc = "run" /\ worker.job = j

\* What a graceful shutdown leaves for the next start is found by recover():
\* neither a failed row without its retry nor a running one without a handler.
StopLeavesNothing == FailedNotLost /\ RunningIsOwned

\* A job dies only when its whole budget is spent: a deferral, a crash or a
\* duplicate delivery never costs an attempt (the row keeps max_attempts - 1).
DeadMeansExhausted ==
    \A j \in Jobs : status[j] = "dead" => attempts[j] = MaxAttempts - 1

\* The duplicates recover() creates never run a finished job again: every run
\* of a done or dead job goes through a reset to pending first.
FinishedNotRerun ==
    [][\A j \in Jobs : status[j] \in Settled => status'[j] # "running"]_vars

\* The attempts of a job go down only by the manual retry of a dead job; the
\* number _execute read before the handler ran never overwrites a newer one.
AttemptsNeverLost ==
    [][\A j \in Jobs : attempts'[j] < attempts[j] => status[j] = "dead"]_vars

\* Every pending job, and every job cut off by a crash whose lease ran out
\* before the restart (reset_expired_leases gives it back and recover() sends
\* it again), reaches done or dead, across graceful restarts and after
\* any crash, unless the process crashes (again) before that, or its parent was
\* cut off before it sent the message: then it waits for a restart.
JobsSettle ==
    \A j \in Jobs, n \in 0 .. MaxCrashes :
        (used.crashes = n /\ (status[j] = "pending" \/ (phase = "down" /\ j \in ExpiredOrphans)))
            ~> (status[j] \in Settled \/ used.crashes > n \/ j \in stranded)

\* The queue keeps the promise of the ledger.
Ledger == INSTANCE JobLedger WITH Jobs <- Jobs, MaxAttempts <- MaxAttempts,
                                  status <- status, attempts <- attempts
LedgerPromise == Ledger!Spec
=============================================================================

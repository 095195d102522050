--------------------------- MODULE JobQueueProofs ---------------------------
(***************************************************************************)
(* Theorems about JobQueue, for every set of jobs and callers and every    *)
(* bound.  The invariant IInv carries, besides the types, which job a busy *)
(* worker and a busy caller hold: without it a message could be NoJob.     *)
(***************************************************************************)
EXTENDS JobQueue, TLAPS

Holding ==
    /\ worker.pc # "idle" => worker.job \in Jobs
    /\ \A c \in Callers : retrier[c].pc # "idle" => retrier[c].job \in Jobs

TypeInv == TypeOK /\ Holding

IInv == TypeInv /\ PendingNotLost

-----------------------------------------------------------------------------
\* Sending a message keeps the queue a sequence of jobs, keeps what was in
\* it, and adds the job sent.
LEMMA SendFacts ==
    ASSUME queue \in Seq(Jobs), NEW j \in Jobs, Send(j)
    PROVE  /\ queue' \in Seq(Jobs)
           /\ InQueue(j)'
           /\ \A k \in Jobs : InQueue(k) => InQueue(k)'
<1>1. queue' \in Seq(Jobs)
  BY DEF Send
<1>2. Len(queue') = Len(queue) + 1 /\ queue'[Len(queue) + 1] = j
  BY DEF Send
<1>3. \A i \in 1 .. Len(queue) : queue'[i] = queue[i]
  BY DEF Send
<1>4. DOMAIN queue = 1 .. Len(queue) /\ DOMAIN queue' = 1 .. Len(queue')
  BY <1>1
<1>5. QED
  BY <1>1, <1>2, <1>3, <1>4 DEF InQueue

\* Taking the head keeps the queue a sequence of jobs, and loses no other job.
LEMMA DequeueFacts ==
    ASSUME queue \in Seq(Jobs), queue # <<>>, queue' = Tail(queue)
    PROVE  /\ queue' \in Seq(Jobs)
           /\ Head(queue) \in Jobs
           /\ \A k \in Jobs : InQueue(k) => InQueue(k)' \/ k = Head(queue)
<1>1. queue' \in Seq(Jobs) /\ Head(queue) = queue[1] /\ Head(queue) \in Jobs
  OBVIOUS
<1>2. Len(queue') = Len(queue) - 1
  OBVIOUS
<1>3. \A i \in 2 .. Len(queue) : i - 1 \in 1 .. Len(queue') /\ queue'[i - 1] = queue[i]
  BY <1>2
<1>4. DOMAIN queue = 1 .. Len(queue) /\ DOMAIN queue' = 1 .. Len(queue')
  BY <1>1
<1>5. ASSUME NEW k \in Jobs, InQueue(k), k # Head(queue)
      PROVE  InQueue(k)'
  <2>1. PICK i \in 1 .. Len(queue) : queue[i] = k
    BY <1>4, <1>5 DEF InQueue
  <2>2. i \in 2 .. Len(queue)
    BY <2>1, <1>1, <1>5
  <2>3. QED
    BY <2>1, <2>2, <1>3, <1>4 DEF InQueue
<1>6. QED
  BY <1>1, <1>5

-----------------------------------------------------------------------------
\* A first start finds every variable in its type, and nothing held.
LEMMA InitTypeInv == Init => TypeInv
BY MaxAttemptsAssumption
   DEF Init, TypeInv, TypeOK, Holding, IdleWorker, IdleCaller, Status, Bounds

\* Enqueue and the retry endpoint.
LEMMA RequestTypeInv ==
    ASSUME TypeInv, Enqueuing \/ Retrying
    PROVE  TypeInv'
<1> USE MaxAttemptsAssumption
<1>1. ASSUME NEW j \in Jobs, CreateJob(j)
      PROVE  TypeInv'
  BY <1>1 DEF CreateJob, InsertRow, hueyVars, childVars, TypeInv, TypeOK, Holding, Status
<1>2. ASSUME NEW j \in Jobs, SendCreated(j)
      PROVE  TypeInv'
  <2>1. queue' \in Seq(Jobs)
    BY <1>2, SendFacts DEF SendCreated, TypeInv, TypeOK
  <2>2. QED
    BY <1>2, <2>1 DEF SendCreated, ledgerVars, childVars, TypeInv, TypeOK, Holding
<1>3. ASSUME NEW c \in Callers, NEW j \in Jobs, RetryCheck(c, j)
      PROVE  TypeInv'
  <2>1. used' \in [Bounds -> Nat]
    BY <1>3 DEF RetryCheck, Use, Bounds, TypeInv, TypeOK
  <2>2. /\ retrier' \in [Callers -> [pc : {"idle", "reset", "callback", "send"},
                                     job : Jobs \union {NoJob}]]
        /\ \A d \in Callers : retrier'[d].pc # "idle" => retrier'[d].job \in Jobs
    BY <1>3 DEF RetryCheck, TypeInv, TypeOK, Holding
  <2>3. UNCHANGED <<status, attempts, lease, queue, schedule, spawning, stranded, worker,
                    submitting, phase, todo>>
    BY <1>3 DEF RetryCheck, ledgerVars, hueyVars, childVars
  <2>4. QED
    BY <2>1, <2>2, <2>3 DEF TypeInv, TypeOK, Holding
<1>4. ASSUME NEW c \in Callers, RetryReset(c)
      PROVE  TypeInv'
  <2>1. retrier[c].job \in Jobs
    BY <1>4 DEF RetryReset, CallerAt, TypeInv, Holding
  <2>2. retrier' \in [Callers -> [pc : {"idle", "reset", "callback", "send"},
                                  job : Jobs \union {NoJob}]]
    BY <1>4 DEF RetryReset, TypeInv, TypeOK
  <2>3. \A d \in Callers : retrier'[d].pc # "idle" => retrier'[d].job \in Jobs
    BY <1>4, <2>1 DEF RetryReset, CallerAt, TypeInv, TypeOK, Holding
  <2>4. /\ status' \in [Jobs -> Status]
        /\ attempts' \in [Jobs -> 0 .. MaxAttempts - 1]
        /\ lease' \in [Jobs -> {"none", "live", "expired"}]
    BY <1>4, <2>1 DEF RetryReset, TypeInv, TypeOK, Status
  <2>5. QED
    BY <1>4, <2>2, <2>3, <2>4 DEF RetryReset, hueyVars, childVars, TypeInv, TypeOK, Holding
<1>5. ASSUME NEW c \in Callers, RetryCallback(c)
      PROVE  TypeInv'
  BY <1>5 DEF RetryCallback, CallerAt, ledgerVars, hueyVars, childVars, TypeInv, TypeOK, Holding
<1>6. ASSUME NEW c \in Callers, RetrySend(c)
      PROVE  TypeInv'
  <2>1. retrier[c].job \in Jobs
    BY <1>6 DEF RetrySend, CallerAt, TypeInv, Holding
  <2>2. queue' \in Seq(Jobs)
    BY <1>6, <2>1, SendFacts DEF RetrySend, TypeInv, TypeOK
  <2>3. QED
    BY <1>6, <2>2 DEF RetrySend, IdleCaller, ledgerVars, childVars, TypeInv, TypeOK, Holding
<1>7. ASSUME NEW j \in Jobs, SpawnJob(j)
      PROVE  TypeInv'
  BY <1>7 DEF SpawnJob, InsertRow, hueyVars, TypeInv, TypeOK, Holding, Status
<1>8. ASSUME NEW j \in Jobs, SendSpawned(j)
      PROVE  TypeInv'
  <2>1. queue' \in Seq(Jobs)
    BY <1>8, SendFacts DEF SendSpawned, TypeInv, TypeOK
  <2>2. QED
    BY <1>8, <2>1 DEF SendSpawned, ledgerVars, TypeInv, TypeOK, Holding
<1>9. QED
  BY <1>1, <1>2, <1>3, <1>4, <1>5, <1>6, <1>7, <1>8 DEF Enqueuing, Retrying

\* Delivery, the schedule and the passing of time.
LEMMA DeliveryTypeInv ==
    ASSUME TypeInv, Dequeue \/ \E j \in Jobs : ScheduleDue(j) \/ LeaseExpires(j)
    PROVE  TypeInv'
<1> USE MaxAttemptsAssumption
<1>1. CASE Dequeue
  <2>1. queue' \in Seq(Jobs) /\ Head(queue) \in Jobs
    BY <1>1, DequeueFacts DEF Dequeue, TypeInv, TypeOK
  <2>2. QED
    BY <1>1, <2>1 DEF Dequeue, ledgerVars, childVars, TypeInv, TypeOK, Holding
<1>2. ASSUME NEW j \in Jobs, ScheduleDue(j)
      PROVE  TypeInv'
  <2>1. queue' \in Seq(Jobs)
    BY <1>2, SendFacts DEF ScheduleDue, TypeInv, TypeOK
  <2>2. schedule' \in [Jobs -> Nat]
    BY <1>2 DEF ScheduleDue, TypeInv, TypeOK
  <2>3. QED
    BY <1>2, <2>1, <2>2 DEF ScheduleDue, ledgerVars, childVars, TypeInv, TypeOK, Holding
<1>3. ASSUME NEW j \in Jobs, LeaseExpires(j)
      PROVE  TypeInv'
  BY <1>3 DEF LeaseExpires, hueyVars, childVars, TypeInv, TypeOK, Holding
<1>4. QED
  BY <1>1, <1>2, <1>3

\* The steps of _execute, in which the attempts of the worker stay in range.
LEMMA ExecutingTypeInv ==
    ASSUME TypeInv, Executing
    PROVE  TypeInv'
<1> USE MaxAttemptsAssumption
<1>1. CASE SkipDelivery
  BY <1>1 DEF SkipDelivery, IdleWorker, ledgerVars, hueyVars, childVars, TypeInv, TypeOK, Holding
<1>2. CASE ReadRunnable
  <2>1. worker.job \in Jobs
    BY <1>2 DEF ReadRunnable, WorkerAt, TypeInv, Holding
  <2>2. QED
    BY <1>2, <2>1 DEF ReadRunnable, WorkerAt, ledgerVars, hueyVars, childVars, TypeInv, TypeOK, Holding
<1>3. CASE MarkRunning
  <2>1. worker.job \in Jobs
    BY <1>3 DEF MarkRunning, WorkerAt, TypeInv, Holding
  <2>2. QED
    BY <1>3, <2>1 DEF MarkRunning, WorkerAt, hueyVars, childVars, TypeInv, TypeOK, Holding, Status
<1>4. CASE MarkDone
  <2>1. worker.job \in Jobs
    BY <1>4 DEF MarkDone, WorkerAt, TypeInv, Holding
  <2>2. /\ status' \in [Jobs -> Status]
        /\ lease' \in [Jobs -> {"none", "live", "expired"}]
    BY <1>4, <2>1 DEF MarkDone, TypeInv, TypeOK, Status
  <2>3. QED
    BY <1>4, <2>2 DEF MarkDone, IdleWorker, hueyVars, childVars, TypeInv, TypeOK, Holding
<1>5. ASSUME NEW n \in 0 .. MaxAttempts - 1, WorkerAt("run"), MarkFailed(n),
             submitting' \subseteq Jobs, spawning' \subseteq Jobs,
             stranded' \subseteq Jobs, used' \in [Bounds -> Nat]
      PROVE  TypeInv'
  <2>1. worker.job \in Jobs
    BY <1>5 DEF WorkerAt, TypeInv, Holding
  <2>2. QED
    BY <1>5, <2>1 DEF MarkFailed, hueyVars, TypeInv, TypeOK, Holding, Status
<1>6. CASE Defer
  <2>1. worker.attempts \in 0 .. MaxAttempts - 1
    BY DEF TypeInv, TypeOK
  <2>2. used' \in [Bounds -> Nat]
    BY <1>6 DEF Defer, Use, Bounds, TypeInv, TypeOK
  <2>3. QED
    BY <1>5, <1>6, <2>1, <2>2 DEF Defer, childVars, TypeInv, TypeOK
<1>12. ASSUME LeaveChild
       PROVE  /\ submitting' \subseteq Jobs
              /\ spawning' \subseteq Jobs
              /\ stranded' \subseteq Jobs
              /\ used' \in [Bounds -> Nat]
  BY <1>12 DEF LeaveChild, Use, Bounds, TypeInv, TypeOK
<1>7. CASE FailRetryable
  <2>1. worker.attempts + 1 \in 0 .. MaxAttempts - 1
    BY <1>7 DEF FailRetryable, TypeInv, TypeOK
  <2>2. QED
    BY <1>5, <1>7, <1>12, <2>1 DEF FailRetryable
<1>8. CASE FailDead
  BY <1>8, <1>12 DEF FailDead, WorkerAt, hueyVars, TypeInv, TypeOK, Holding, Status
<1>9. CASE DeadCallback
  BY <1>9 DEF DeadCallback, IdleWorker, ledgerVars, hueyVars, childVars, TypeInv, TypeOK, Holding
<1>10. CASE Reschedule
  <2>1. worker.job \in Jobs
    BY <1>10 DEF Reschedule, WorkerAt, TypeInv, Holding
  <2>2. schedule' \in [Jobs -> Nat]
    BY <1>10, <2>1 DEF Reschedule, TypeInv, TypeOK
  <2>3. QED
    BY <1>10, <2>2 DEF Reschedule, IdleWorker, ledgerVars, childVars, TypeInv, TypeOK, Holding
<1>11. QED
  BY <1>1, <1>2, <1>3, <1>4, <1>6, <1>7, <1>8, <1>9, <1>10 DEF Executing, HandlerEnds

\* Startup, shutdown and crashes.
LEMMA LifecycleTypeInv ==
    ASSUME TypeInv, Lifecycle
    PROVE  TypeInv'
<1> USE MaxAttemptsAssumption
<1>1. CASE Restart
  BY <1>1 DEF Restart, GiveBackOrphans, PendingJobs, hueyVars, childVars, TypeInv, TypeOK, Holding, Status
<1>2. ASSUME NEW j \in Jobs, RecoverSend(j)
      PROVE  TypeInv'
  <2>1. queue' \in Seq(Jobs)
    BY <1>2, SendFacts DEF RecoverSend, TypeInv, TypeOK
  <2>2. QED
    BY <1>2, <2>1 DEF RecoverSend, ledgerVars, childVars, TypeInv, TypeOK, Holding
<1>3. CASE Start
  BY <1>3 DEF Start, ledgerVars, hueyVars, childVars, TypeInv, TypeOK, Holding
<1>4. CASE Stop
  <2>1. used' \in [Bounds -> Nat]
    BY <1>4 DEF Stop, Use, Bounds, TypeInv, TypeOK
  <2>2. QED
    BY <1>4, <2>1 DEF Stop, ledgerVars, hueyVars, childVars, TypeInv, TypeOK, Holding
<1>5. CASE Stopped
  BY <1>5 DEF Stopped, ledgerVars, hueyVars, childVars, TypeInv, TypeOK, Holding
<1>6. CASE Crash
  <2>1. used' \in [Bounds -> Nat]
    BY <1>6 DEF Crash, Use, Bounds, TypeInv, TypeOK
  <2>2. QED
    BY <1>6, <2>1 DEF Crash, IdleWorker, IdleCaller, ledgerVars, hueyVars, childVars,
                      TypeInv, TypeOK, Holding
<1>7. QED
  BY <1>1, <1>2, <1>3, <1>4, <1>5, <1>6 DEF Lifecycle

\* No step takes a variable out of its type, or lets someone hold no job.
LEMMA NextTypeInv == TypeInv /\ [Next]_vars => TypeInv'
<1> SUFFICES ASSUME TypeInv, [Next]_vars PROVE TypeInv'
  OBVIOUS
<1>1. CASE Next
  BY <1>1, RequestTypeInv, DeliveryTypeInv, ExecutingTypeInv, LifecycleTypeInv DEF Next
<1>2. CASE UNCHANGED vars
  BY <1>2 DEF vars, ledgerVars, hueyVars, childVars, TypeInv, TypeOK, Holding
<1>3. QED
  BY <1>1, <1>2

\* TypeOK holds in every behaviour: whatever the jobs, the callers and the
\* bounds, the attempts of a row and of a worker stay below max_attempts,
\* although _record_failure writes a number read before the handler ran.
THEOREM TypeCorrect == Spec => []TypeOK
<1>1. TypeInv => TypeOK
  BY DEF TypeInv
<1>2. QED
  BY <1>1, InitTypeInv, NextTypeInv, PTL DEF Spec

-----------------------------------------------------------------------------
(* PendingNotLost: a job carried before a step is carried after it, unless *)
(* the step makes it other than pending or stops the process.              *)

\* What a step must keep for a pending job to stay carried.
LEMMA CarriedKept ==
    ASSUME NEW j \in Jobs, Carried(j),
           InQueue(j) => InQueue(j)',
           schedule'[j] = schedule[j], submitting' = submitting, todo' = todo,
           spawning' = spawning, retrier' = retrier, worker' = worker
    PROVE  Carried(j)'
BY DEF Carried

\* Enqueue and retry: the commit that makes a job pending comes with, or before,
\* the duty to send its message.
LEMMA RequestPending ==
    ASSUME IInv, Enqueuing \/ Retrying
    PROVE  PendingNotLost'
<1> SUFFICES ASSUME NEW k \in Jobs, Alive', status'[k] = "pending"
             PROVE  Carried(k)' \/ k \in stranded'
  BY DEF PendingNotLost
<1> USE DEF IInv, PendingNotLost, TypeInv, TypeOK
<1>1. ASSUME NEW j \in Jobs, CreateJob(j)
      PROVE  Carried(k)' \/ k \in stranded'
  BY <1>1 DEF CreateJob, InsertRow, hueyVars, childVars, Carried, InQueue, Alive
<1>2. ASSUME NEW j \in Jobs, SendCreated(j)
      PROVE  Carried(k)' \/ k \in stranded'
  <2>1. InQueue(j)' /\ (InQueue(k) => InQueue(k)')
    BY <1>2, SendFacts DEF SendCreated
  <2>2. QED
    BY <1>2, <2>1 DEF SendCreated, ledgerVars, childVars, Carried, Alive
<1>3. ASSUME NEW c \in Callers, NEW j \in Jobs, RetryCheck(c, j)
      PROVE  Carried(k)' \/ k \in stranded'
  BY <1>3 DEF RetryCheck, CallerAt, ledgerVars, hueyVars, childVars, Carried, InQueue, Alive
<1>4. ASSUME NEW c \in Callers, RetryReset(c)
      PROVE  Carried(k)' \/ k \in stranded'
  <2>1. retrier[c].job \in Jobs
    BY <1>4 DEF RetryReset, CallerAt, Holding
  <2>2. CASE k = retrier[c].job
    BY <1>4, <2>1, <2>2 DEF RetryReset, CallerAt, Carried
  <2>3. CASE k # retrier[c].job
    BY <1>4, <2>1, <2>3 DEF RetryReset, CallerAt, hueyVars, childVars, Carried, InQueue, Alive
  <2>4. QED
    BY <2>2, <2>3
<1>5. ASSUME NEW c \in Callers, RetryCallback(c)
      PROVE  Carried(k)' \/ k \in stranded'
  BY <1>5 DEF RetryCallback, CallerAt, ledgerVars, hueyVars, childVars, Carried, InQueue, Alive
<1>6. ASSUME NEW c \in Callers, RetrySend(c)
      PROVE  Carried(k)' \/ k \in stranded'
  <2>1. retrier[c].job \in Jobs
    BY <1>6 DEF RetrySend, CallerAt, Holding
  <2>2. PICK j \in Jobs : j = retrier[c].job
    BY <2>1
  <2>3. InQueue(j)' /\ (InQueue(k) => InQueue(k)')
    BY <1>6, <2>2, SendFacts DEF RetrySend
  <2>4. Carried(k) \/ k \in stranded
    BY <1>6 DEF RetrySend, ledgerVars, Alive
  <2>5. CASE k = j
    BY <2>3, <2>5 DEF Carried
  <2>6. CASE k # j
    <3>1. /\ retrier' = [retrier EXCEPT ![c] = IdleCaller]
          /\ UNCHANGED <<schedule, childVars, worker, submitting, todo>>
      BY <1>6 DEF RetrySend
    <3>2. ASSUME NEW d \in Callers,
                 retrier[d].pc \in {"callback", "send"}, retrier[d].job = k
          PROVE  retrier'[d].pc \in {"callback", "send"} /\ retrier'[d].job = k
      BY <2>2, <2>6, <3>1, <3>2
    <3>3. QED
      BY <2>3, <2>4, <3>1, <3>2 DEF Carried, childVars
  <2>7. QED
    BY <2>5, <2>6
<1>7. ASSUME NEW j \in Jobs, SpawnJob(j)
      PROVE  Carried(k)' \/ k \in stranded'
  BY <1>7 DEF SpawnJob, InsertRow, hueyVars, Carried, InQueue, Alive, WorkerAt
<1>8. ASSUME NEW j \in Jobs, SendSpawned(j)
      PROVE  Carried(k)' \/ k \in stranded'
  <2>1. InQueue(j)' /\ (InQueue(k) => InQueue(k)')
    BY <1>8, SendFacts DEF SendSpawned
  <2>2. QED
    BY <1>8, <2>1 DEF SendSpawned, ledgerVars, Carried, Alive
<1>9. QED
  BY <1>1, <1>2, <1>3, <1>4, <1>5, <1>6, <1>7, <1>8 DEF Enqueuing, Retrying

\* A message that leaves the queue is in the worker's hand, and one that leaves
\* the schedule is in the queue.
LEMMA DeliveryPending ==
    ASSUME IInv, Dequeue \/ \E j \in Jobs : ScheduleDue(j) \/ LeaseExpires(j)
    PROVE  PendingNotLost'
<1> SUFFICES ASSUME NEW k \in Jobs, Alive', status'[k] = "pending"
             PROVE  Carried(k)' \/ k \in stranded'
  BY DEF PendingNotLost
<1> USE DEF IInv, PendingNotLost, TypeInv, TypeOK
<1>1. CASE Dequeue
  <2>1. InQueue(k) => InQueue(k)' \/ k = Head(queue)
    BY <1>1, DequeueFacts DEF Dequeue
  <2>2. QED
    BY <1>1, <2>1 DEF Dequeue, ledgerVars, childVars, Carried, Alive
<1>2. ASSUME NEW j \in Jobs, ScheduleDue(j)
      PROVE  Carried(k)' \/ k \in stranded'
  <2>1. InQueue(j)' /\ (InQueue(k) => InQueue(k)')
    BY <1>2, SendFacts DEF ScheduleDue
  <2>2. QED
    BY <1>2, <2>1 DEF ScheduleDue, ledgerVars, childVars, Carried, Alive
<1>3. ASSUME NEW j \in Jobs, LeaseExpires(j)
      PROVE  Carried(k)' \/ k \in stranded'
  BY <1>3 DEF LeaseExpires, hueyVars, childVars, Carried, InQueue, Alive
<1>4. QED
  BY <1>1, <1>2, <1>3

\* The worker drops a message only of a job that is not pending, or after it
\* made the job something else, or once the retry is in the schedule.
LEMMA ExecutingPending ==
    ASSUME IInv, Executing
    PROVE  PendingNotLost'
<1> SUFFICES ASSUME NEW k \in Jobs, Alive', status'[k] = "pending"
             PROVE  Carried(k)' \/ k \in stranded'
  BY DEF PendingNotLost
<1> USE DEF IInv, PendingNotLost, TypeInv, TypeOK
<1>0. worker.pc # "idle" => worker.job \in Jobs
  BY DEF Holding
<1>1. CASE SkipDelivery
  BY <1>1 DEF SkipDelivery, WorkerAt, Runnable, ledgerVars, hueyVars, childVars, Carried, InQueue, Alive
<1>2. CASE ReadRunnable
  BY <1>2 DEF ReadRunnable, WorkerAt, ledgerVars, hueyVars, childVars, Carried, InQueue, Alive
<1>3. CASE MarkRunning
  BY <1>0, <1>3 DEF MarkRunning, WorkerAt, hueyVars, childVars, Carried, InQueue, Alive
<1>4. CASE MarkDone
  BY <1>0, <1>4 DEF MarkDone, WorkerAt, hueyVars, childVars, Carried, InQueue, Alive
<1>10. ASSUME LeaveChild
       PROVE  k \in submitting \union spawning \union stranded
                => k \in submitting' \union spawning' \union stranded'
  BY <1>10 DEF LeaveChild
<1>5. ASSUME NEW n, WorkerAt("run"), MarkFailed(n), LeaveChild \/ UNCHANGED <<childVars, submitting>>
      PROVE  Carried(k)' \/ k \in stranded'
  BY <1>0, <1>5, <1>10 DEF MarkFailed, WorkerAt, hueyVars, childVars, Carried, InQueue, Alive
<1>6. CASE FailDead
  BY <1>0, <1>6, <1>10 DEF FailDead, WorkerAt, hueyVars, childVars, Carried, InQueue, Alive
<1>7. CASE DeadCallback
  BY <1>7 DEF DeadCallback, WorkerAt, ledgerVars, hueyVars, childVars, Carried, InQueue, Alive
<1>8. CASE Reschedule
  <2>1. schedule'[worker.job] > 0 /\ \A j \in Jobs : schedule[j] > 0 => schedule'[j] > 0
    BY <1>0, <1>8 DEF Reschedule, WorkerAt
  <2>2. QED
    BY <1>8, <2>1 DEF Reschedule, WorkerAt, ledgerVars, childVars, Carried, InQueue, Alive
<1>9. QED
  BY <1>1, <1>2, <1>3, <1>4, <1>5, <1>6, <1>7, <1>8
     DEF Executing, HandlerEnds, Defer, FailRetryable

\* Restart puts every pending job in todo; a dead process owes nothing.
LEMMA LifecyclePending ==
    ASSUME IInv, Lifecycle
    PROVE  PendingNotLost'
<1> SUFFICES ASSUME NEW k \in Jobs, Alive', status'[k] = "pending"
             PROVE  Carried(k)' \/ k \in stranded'
  BY DEF PendingNotLost
<1> USE DEF IInv, PendingNotLost, TypeInv, TypeOK
<1>1. CASE Restart
  BY <1>1 DEF Restart, GiveBackOrphans, PendingJobs, Carried
<1>2. ASSUME NEW j \in Jobs, RecoverSend(j)
      PROVE  Carried(k)' \/ k \in stranded'
  <2>1. InQueue(j)' /\ (InQueue(k) => InQueue(k)')
    BY <1>2, SendFacts DEF RecoverSend
  <2>2. QED
    BY <1>2, <2>1 DEF RecoverSend, ledgerVars, childVars, Carried, Alive
<1>3. CASE Start
  BY <1>3, CarriedKept DEF Start, ledgerVars, hueyVars, childVars, InQueue, Alive
<1>4. CASE Stop
  BY <1>4, CarriedKept DEF Stop, ledgerVars, hueyVars, childVars, InQueue, Alive
<1>5. CASE Stopped \/ Crash
  BY <1>5 DEF Stopped, Crash, Alive
<1>6. QED
  BY <1>1, <1>2, <1>3, <1>4, <1>5 DEF Lifecycle

\* IInv is inductive: NextTypeInv has the types, this the rest.
LEMMA NextPending == IInv /\ [Next]_vars => PendingNotLost'
<1> SUFFICES ASSUME IInv, [Next]_vars PROVE PendingNotLost'
  OBVIOUS
<1>1. CASE Next
  BY <1>1, RequestPending, DeliveryPending, ExecutingPending, LifecyclePending DEF Next
<1>2. CASE UNCHANGED vars
  BY <1>2 DEF IInv, vars, ledgerVars, hueyVars, childVars, PendingNotLost, Carried, InQueue, Alive
<1>3. QED
  BY <1>1, <1>2

\* No pending job is ever forgotten while the process lives, through every
\* crash, restart and race of retries: enqueue commits before it sends, a
\* reset is followed by a message of its own, recover() re-sends the rest.
THEOREM NoPendingJobLost == Spec => []PendingNotLost
<1>1. Init => IInv
  BY InitTypeInv DEF Init, IInv, PendingNotLost, Alive
<1>2. IInv /\ [Next]_vars => IInv'
  BY NextTypeInv, NextPending DEF IInv
<1>3. IInv => PendingNotLost
  BY DEF IInv
<1>4. QED
  BY <1>1, <1>2, <1>3, PTL DEF Spec

-----------------------------------------------------------------------------
(* StopLeavesNothing: without crashes so far, a failed job is carried and  *)
(* a running one is in its handler.  What strengthens it is Children: only *)
(* a running handler holds a child, another job than its own and one never *)
(* tried; and only recover() has jobs to send.                             *)

Children ==
    /\ spawning # {} => worker.pc = "run"
    /\ \A j \in spawning : status[j] = "pending"
    /\ worker.pc = "run" => status[worker.job] # "absent" /\ worker.job \notin spawning
    /\ phase # "recovering" => todo = {}

SInv == TypeInv /\ Children /\ StopLeavesNothing

\* The child of a running handler stays pending until it is sent, adopted by
\* submitting or stranded: no one runs it or retries it meanwhile.
LEMMA NextChildren == TypeInv /\ Children /\ [Next]_vars => Children'
<1> SUFFICES ASSUME TypeInv, Children, [Next]_vars PROVE Children'
  OBVIOUS
<1> USE DEF Children, TypeInv, TypeOK
<1>0. worker.pc # "idle" => worker.job \in Jobs
  BY DEF Holding
<1>1. ASSUME NEW j \in Jobs, CreateJob(j) \/ SendCreated(j) \/ SendSpawned(j)
      PROVE  Children'
  BY <1>0, <1>1 DEF CreateJob, SendCreated, SendSpawned, InsertRow, ledgerVars, childVars
<1>2. ASSUME NEW j \in Jobs, SpawnJob(j)
      PROVE  Children'
  BY <1>0, <1>2 DEF SpawnJob, InsertRow, WorkerAt
<1>3. ASSUME NEW c \in Callers, RetryReset(c)
      PROVE  Children'
  BY <1>0, <1>3 DEF RetryReset, CallerAt, childVars
<1>4. CASE \E c \in Callers : RetryCallback(c) \/ RetrySend(c) \/ \E j \in Jobs : RetryCheck(c, j)
  BY <1>4 DEF RetryCheck, RetryCallback, RetrySend, ledgerVars, childVars
<1>5. CASE Dequeue \/ \E j \in Jobs : ScheduleDue(j) \/ LeaseExpires(j)
  BY <1>5 DEF Dequeue, ScheduleDue, LeaseExpires, ledgerVars, childVars
<1>6. ASSUME worker.pc # "run", worker'.pc # "run", UNCHANGED <<status, childVars, phase, todo>>
      PROVE  Children'
  BY <1>6 DEF childVars
<1>7. CASE ReadRunnable
  BY <1>6, <1>7 DEF ReadRunnable, WorkerAt, ledgerVars
<1>8. CASE SkipDelivery \/ DeadCallback \/ Reschedule
  BY <1>6, <1>8 DEF SkipDelivery, DeadCallback, Reschedule, WorkerAt, IdleWorker, ledgerVars
<1>9. CASE MarkRunning
  BY <1>0, <1>9 DEF MarkRunning, WorkerAt, childVars
<1>10. CASE MarkDone \/ Defer
  BY <1>10 DEF MarkDone, Defer, MarkFailed, IdleWorker, childVars
<1>11. CASE FailRetryable \/ FailDead
  BY <1>11 DEF FailRetryable, FailDead, MarkFailed, LeaveChild
<1>12. CASE Restart
  BY <1>0, <1>12 DEF Restart, GiveBackOrphans, ExpiredOrphans
<1>13. CASE Start \/ Stop \/ Stopped \/ Crash \/ \E j \in Jobs : RecoverSend(j)
  BY <1>13 DEF Start, Stop, Stopped, Crash, RecoverSend, IdleWorker, ledgerVars, childVars
<1>14. CASE UNCHANGED vars
  BY <1>14 DEF vars, ledgerVars, childVars
<1>15. QED
  BY <1>1, <1>2, <1>3, <1>4, <1>5, <1>7, <1>8, <1>9, <1>10, <1>11, <1>12, <1>13, <1>14
     DEF Next, Enqueuing, Retrying, Executing, HandlerEnds, Lifecycle

\* A row once committed stays in the ledger.
LEMMA RowsStay ==
    ASSUME TypeInv, [Next]_vars, NEW k \in Jobs, status[k] # "absent"
    PROVE  status'[k] # "absent"
<1> USE DEF TypeInv, TypeOK
<1>1. CASE Enqueuing
  BY <1>1 DEF Enqueuing, CreateJob, SendCreated, SpawnJob, SendSpawned, InsertRow, ledgerVars
<1>2. CASE Retrying
  <2>1. ASSUME NEW c \in Callers, RetryReset(c)
        PROVE  status'[k] # "absent"
    BY <2>1 DEF RetryReset
  <2>2. QED
    BY <1>2, <2>1 DEF Retrying, RetryCheck, RetryCallback, RetrySend, ledgerVars
<1>3. CASE Dequeue \/ \E j \in Jobs : ScheduleDue(j) \/ LeaseExpires(j)
  BY <1>3 DEF Dequeue, ScheduleDue, LeaseExpires, ledgerVars
<1>4. CASE Executing
  BY <1>4 DEF Executing, HandlerEnds, SkipDelivery, ReadRunnable, MarkRunning, MarkDone,
              Defer, FailRetryable, FailDead, MarkFailed, DeadCallback, Reschedule, ledgerVars
<1>5. CASE Lifecycle
  BY <1>5 DEF Lifecycle, Restart, GiveBackOrphans, ExpiredOrphans, RecoverSend, Start,
              Stop, Stopped, Crash, ledgerVars
<1>6. CASE UNCHANGED vars
  BY <1>6 DEF vars, ledgerVars
<1>7. QED
  BY <1>1, <1>2, <1>3, <1>4, <1>5, <1>6 DEF Next

\* The count of crashes never goes back, and only a crash moves it.
LEMMA NoCrashYet ==
    ASSUME TypeInv, Next, used'.crashes = 0
    PROVE  used.crashes = 0 /\ ~ Crash
<1> USE DEF TypeInv, TypeOK, Bounds, Use
<1>1. CASE used' = used
  BY <1>1 DEF Crash
<1>2. ASSUME NEW b \in Bounds \ {"crashes"}, Use(b)
      PROVE  used.crashes = 0 /\ ~ Crash
  BY <1>2 DEF Crash
<1>3. CASE Enqueuing
  BY <1>1, <1>3 DEF Enqueuing, CreateJob, SendCreated, SpawnJob, SendSpawned
<1>4. CASE Retrying
  <2> HIDE DEF Use
  <2> QED BY <1>1, <1>2, <1>4 DEF Retrying, RetryCheck, RetryReset, RetryCallback, RetrySend
<1>5. CASE Dequeue \/ \E j \in Jobs : ScheduleDue(j) \/ LeaseExpires(j)
  BY <1>1, <1>5 DEF Dequeue, ScheduleDue, LeaseExpires
<1>6. CASE Executing
  <2> HIDE DEF Use
  <2>1. CASE Defer
    BY <1>2, <2>1 DEF Defer
  <2>2. CASE LeaveChild
    BY <1>1, <1>2, <2>2 DEF LeaveChild
  <2>3. QED
    BY <1>1, <1>6, <2>1, <2>2
       DEF Executing, HandlerEnds, SkipDelivery, ReadRunnable, MarkRunning, MarkDone,
           FailRetryable, FailDead, DeadCallback, Reschedule
<1>7. CASE Lifecycle
  <2>1. ~ Crash
    BY DEF Crash
  <2>2. CASE Stop
    BY <1>2, <2>2 DEF Stop
  <2>3. QED
    BY <1>1, <1>7, <2>1, <2>2 DEF Lifecycle, Restart, GiveBackOrphans, RecoverSend, Start, Stopped
<1>8. QED
  BY <1>3, <1>4, <1>5, <1>6, <1>7 DEF Next

\* A job to run stays carried: its message goes from a sender to the queue, to
\* the worker, to the schedule and back, and only a crash, or the end of the
\* handler whose child it is, lets go of it.
LEMMA NextCarried ==
    ASSUME TypeInv, Children, Next, ~ Crash,
           NEW k \in Jobs, k \notin spawning, status'[k] \in Runnable,
           status'[k] = status[k] => Carried(k)
    PROVE  Carried(k)'
<1> USE DEF Children, TypeInv, TypeOK
<1>0. worker.pc # "idle" => worker.job \in Jobs
  BY DEF Holding
<1>1. ASSUME NEW j \in Jobs, Send(j),
             UNCHANGED <<status, worker>>,
             \A i \in Jobs \ {j} : schedule'[i] = schedule[i],
             (submitting \union spawning) \ {j} \subseteq submitting' \union spawning',
             todo \ {j} \subseteq todo',
             \A c \in Callers : retrier'[c] = retrier[c] \/ retrier[c].job = j
      PROVE  Carried(k)'
  <2>1. InQueue(j)' /\ (InQueue(k) => InQueue(k)')
    BY <1>1, SendFacts
  <2>2. Carried(k)
    BY <1>1
  <2>3. CASE k = j
    BY <2>1, <2>3 DEF Carried
  <2>4. CASE k # j
    BY <1>1, <2>1, <2>2, <2>4 DEF Carried
  <2>5. QED
    BY <2>3, <2>4
<1>2. CASE Enqueuing
  <2>1. ASSUME NEW j \in Jobs, CreateJob(j)
        PROVE  Carried(k)'
    BY <2>1 DEF CreateJob, InsertRow, hueyVars, childVars, Carried, InQueue
  <2>2. ASSUME NEW j \in Jobs, SpawnJob(j)
        PROVE  Carried(k)'
    BY <2>2 DEF SpawnJob, InsertRow, hueyVars, Carried, InQueue
  <2>3. ASSUME NEW j \in Jobs, SendCreated(j) \/ SendSpawned(j)
        PROVE  Carried(k)'
    BY <1>1, <2>3 DEF SendCreated, SendSpawned, ledgerVars, childVars
  <2>4. QED
    BY <1>2, <2>1, <2>2, <2>3 DEF Enqueuing
<1>3. CASE Retrying
  <2>1. ASSUME NEW c \in Callers, NEW j \in Jobs, RetryCheck(c, j)
        PROVE  Carried(k)'
    BY <2>1 DEF RetryCheck, CallerAt, ledgerVars, hueyVars, childVars, Carried, InQueue
  <2>2. ASSUME NEW c \in Callers, RetryReset(c)
        PROVE  Carried(k)'
    BY <2>2 DEF RetryReset, CallerAt, Holding, hueyVars, childVars, Carried, InQueue
  <2>3. ASSUME NEW c \in Callers, RetryCallback(c)
        PROVE  Carried(k)'
    BY <2>3 DEF RetryCallback, CallerAt, ledgerVars, hueyVars, childVars, Carried, InQueue
  <2>4. ASSUME NEW c \in Callers, RetrySend(c)
        PROVE  Carried(k)'
    <3>1. PICK j \in Jobs : j = retrier[c].job
      BY <2>4 DEF RetrySend, CallerAt, Holding
    <3>2. QED
      BY <1>1, <2>4, <3>1 DEF RetrySend, ledgerVars, childVars
  <2>5. QED
    BY <1>3, <2>1, <2>2, <2>3, <2>4 DEF Retrying
<1>4. CASE Dequeue
  <2>1. InQueue(k) => InQueue(k)' \/ k = Head(queue)
    BY <1>4, DequeueFacts DEF Dequeue
  <2>2. QED
    BY <1>4, <2>1 DEF Dequeue, ledgerVars, childVars, Carried
<1>5. ASSUME NEW j \in Jobs, ScheduleDue(j) \/ LeaseExpires(j)
      PROVE  Carried(k)'
  <2>1. CASE ScheduleDue(j)
    BY <1>1, <2>1 DEF ScheduleDue, ledgerVars, childVars
  <2>2. CASE LeaseExpires(j)
    BY <2>2 DEF LeaseExpires, hueyVars, childVars, Carried, InQueue
  <2>3. QED
    BY <1>5, <2>1, <2>2
<1>6. CASE SkipDelivery
  BY <1>6 DEF SkipDelivery, WorkerAt, Runnable, ledgerVars, hueyVars, childVars, Carried, InQueue
<1>7. CASE ReadRunnable
  BY <1>7 DEF ReadRunnable, WorkerAt, ledgerVars, hueyVars, childVars, Carried, InQueue
<1>8. CASE DeadCallback
  BY <1>8 DEF DeadCallback, WorkerAt, ledgerVars, hueyVars, childVars, Carried, InQueue
<1>9. CASE MarkRunning \/ MarkDone
  <2>1. k # worker.job /\ Carried(k)
    BY <1>0, <1>9 DEF MarkRunning, MarkDone, WorkerAt, Runnable
  <2>2. QED
    BY <1>9, <2>1 DEF MarkRunning, MarkDone, WorkerAt, hueyVars, childVars, Carried, InQueue
<1>10. ASSUME LeaveChild, k \in submitting
       PROVE  k \in submitting'
  BY <1>10 DEF LeaveChild
<1>11. ASSUME WorkerAt("run"), k # worker.job, Carried(k),
              LeaveChild \/ UNCHANGED <<childVars, submitting>>,
              UNCHANGED <<hueyVars, retrier, todo>>
       PROVE  Carried(k)'
  BY <1>10, <1>11 DEF WorkerAt, hueyVars, childVars, Carried, InQueue
<1>12. ASSUME NEW n, WorkerAt("run"), MarkFailed(n), LeaveChild \/ UNCHANGED <<childVars, submitting>>
       PROVE  Carried(k)'
  <2>1. CASE k = worker.job
    BY <1>12, <2>1 DEF MarkFailed, Carried
  <2>2. CASE k # worker.job
    <3>1. Carried(k)
      BY <1>0, <1>12, <2>2 DEF MarkFailed, WorkerAt
    <3>2. QED
      BY <1>11, <1>12, <2>2, <3>1 DEF MarkFailed
  <2>3. QED
    BY <2>1, <2>2
<1>13. CASE FailDead
  <2>1. k # worker.job /\ Carried(k)
    BY <1>0, <1>13 DEF FailDead, WorkerAt, Runnable
  <2>2. QED
    BY <1>11, <1>13, <2>1 DEF FailDead
<1>14. CASE Defer \/ FailRetryable
  BY <1>12, <1>14 DEF Defer, FailRetryable
<1>15. CASE Reschedule
  <2>1. schedule'[worker.job] > 0 /\ \A j \in Jobs : schedule[j] > 0 => schedule'[j] > 0
    BY <1>0, <1>15 DEF Reschedule, WorkerAt
  <2>2. QED
    BY <1>15, <2>1 DEF Reschedule, WorkerAt, ledgerVars, childVars, Carried, InQueue
<1>16. CASE Restart
  <2>1. status'[k] = "pending" => k \in todo'
    BY <1>16 DEF Restart, PendingJobs
  <2>2. status'[k] = "failed" => Carried(k)
    BY <1>16 DEF Restart, GiveBackOrphans
  <2>3. QED
    BY <1>16, <2>1, <2>2 DEF Restart, GiveBackOrphans, hueyVars, Carried, InQueue, Runnable
<1>17. ASSUME NEW j \in Jobs, RecoverSend(j)
       PROVE  Carried(k)'
  BY <1>1, <1>17 DEF RecoverSend, ledgerVars, childVars
<1>18. CASE Start \/ Stop \/ Stopped
  BY <1>18, CarriedKept DEF Start, Stop, Stopped, ledgerVars, hueyVars, childVars, InQueue
<1>19. QED
  BY <1>2, <1>3, <1>4, <1>5, <1>6, <1>7, <1>8, <1>9, <1>10, <1>13, <1>14, <1>15,
     <1>16, <1>17, <1>18
     DEF Next, Executing, HandlerEnds, Lifecycle

\* Only the worker makes a row failed, and only the row of its job.
LEMMA NextFailing ==
    ASSUME TypeInv, Next, NEW k \in Jobs, status[k] # "failed", k # worker.job
    PROVE  status'[k] # "failed"
<1> USE DEF TypeInv, TypeOK
<1>1. CASE Enqueuing
  BY <1>1 DEF Enqueuing, CreateJob, SendCreated, SpawnJob, SendSpawned, InsertRow, ledgerVars
<1>2. CASE Retrying
  <2>1. ASSUME NEW c \in Callers, RetryReset(c)
        PROVE  status'[k] # "failed"
    BY <2>1 DEF RetryReset
  <2>2. QED
    BY <1>2, <2>1 DEF Retrying, RetryCheck, RetryCallback, RetrySend, ledgerVars
<1>3. CASE Dequeue \/ \E j \in Jobs : ScheduleDue(j) \/ LeaseExpires(j)
  BY <1>3 DEF Dequeue, ScheduleDue, LeaseExpires, ledgerVars
<1>4. CASE Executing
  BY <1>4 DEF Executing, HandlerEnds, SkipDelivery, ReadRunnable, MarkRunning, MarkDone,
              Defer, FailRetryable, FailDead, MarkFailed, DeadCallback, Reschedule, ledgerVars
<1>5. CASE Lifecycle
  BY <1>5 DEF Lifecycle, Restart, GiveBackOrphans, ExpiredOrphans, RecoverSend, Start,
              Stop, Stopped, Crash, ledgerVars
<1>6. QED
  BY <1>1, <1>2, <1>3, <1>4, <1>5 DEF Next

\* A failed row is written by the worker that takes its retry to the schedule.
LEMMA NextFailed ==
    ASSUME SInv, FailedNotLost, used.crashes = 0, Next, ~ Crash,
           NEW k \in Jobs, status'[k] = "failed"
    PROVE  Carried(k)'
<1>1. CASE k \notin spawning
  BY <1>1, NextCarried DEF SInv, FailedNotLost, Runnable
<1>2. CASE k \in spawning
  <2>1. status[k] = "pending" /\ k # worker.job
    BY <1>2 DEF SInv, Children
  <2>2. status'[k] # "failed"
    BY <2>1, NextFailing DEF SInv
  <2>3. QED
    BY <2>2
<1>3. QED
  BY <1>1, <1>2

\* Only MarkRunning makes a row running, and the steps that take the worker out
\* of its handler settle the row first.
LEMMA NextRunning ==
    ASSUME SInv, RunningIsOwned, used.crashes = 0, Next, ~ Crash,
           NEW k \in Jobs, status'[k] = "running"
    PROVE  worker'.pc = "run" /\ worker'.job = k
<1> USE DEF SInv, RunningIsOwned, TypeInv, TypeOK
<1>0. worker.pc # "idle" => worker.job \in Jobs
  BY DEF Holding
<1>1. CASE UNCHANGED <<status, worker>>
  BY <1>1
<1>2. CASE Enqueuing
  BY <1>1, <1>2 DEF Enqueuing, CreateJob, SendCreated, SpawnJob, SendSpawned, InsertRow, ledgerVars
<1>3. CASE Retrying
  <2>1. ASSUME NEW c \in Callers, RetryReset(c)
        PROVE  worker'.pc = "run" /\ worker'.job = k
    BY <2>1 DEF RetryReset, CallerAt, Holding
  <2>2. QED
    BY <1>1, <1>3, <2>1 DEF Retrying, RetryCheck, RetryCallback, RetrySend, ledgerVars
<1>4. CASE Dequeue \/ \E j \in Jobs : ScheduleDue(j) \/ LeaseExpires(j)
  BY <1>1, <1>4 DEF Dequeue, ScheduleDue, LeaseExpires, ledgerVars
<1>5. CASE Executing
  BY <1>0, <1>5 DEF Executing, HandlerEnds, SkipDelivery, ReadRunnable, MarkRunning, MarkDone,
                    Defer, FailRetryable, FailDead, MarkFailed, DeadCallback, Reschedule,
                    WorkerAt, IdleWorker, ledgerVars
<1>6. CASE Lifecycle
  BY <1>1, <1>6 DEF Lifecycle, Restart, GiveBackOrphans, ExpiredOrphans, RecoverSend, Start,
                    Stop, Stopped, ledgerVars
<1>7. QED
  BY <1>2, <1>3, <1>4, <1>5, <1>6 DEF Next

\* What a graceful shutdown leaves for the next start is found by recover(),
\* whatever the jobs, the callers and the bounds: stop() joins the worker, so
\* no row says running without its handler, and every failed row has its retry.
THEOREM StopIsClean == Spec => []StopLeavesNothing
<1>1. Init => SInv
  BY InitTypeInv DEF Init, IdleWorker, SInv, Children, StopLeavesNothing, FailedNotLost, RunningIsOwned
<1>2. SInv /\ Next => StopLeavesNothing'
  BY NextFailed, NextRunning, NoCrashYet
     DEF SInv, StopLeavesNothing, FailedNotLost, RunningIsOwned
<1>3. SInv /\ UNCHANGED vars => StopLeavesNothing'
  BY DEF SInv, StopLeavesNothing, FailedNotLost, RunningIsOwned, Carried, InQueue,
         vars, ledgerVars, hueyVars, childVars
<1>4. SInv /\ [Next]_vars => SInv'
  BY <1>2, <1>3, NextTypeInv, NextChildren DEF SInv
<1>5. SInv => StopLeavesNothing
  BY DEF SInv
<1>6. QED
  BY <1>1, <1>4, <1>5, PTL DEF Spec

-----------------------------------------------------------------------------
(* JobQueue implements JobLedger when manual retries do not overlap.  The  *)
(* invariant: what _execute and the retry route read before an await still *)
(* holds after it.  The worker being alone, only a second caller breaks it.*)

SingleCaller == \A c, d \in Callers : c = d

StillTrue ==
    /\ worker.pc = "claim" => status[worker.job] \in Runnable
    /\ worker.pc = "run" => status[worker.job] = "running"
    /\ worker.pc \in {"claim", "run"} => attempts[worker.job] = worker.attempts
    /\ \A c \in Callers : retrier[c].pc = "reset" => status[retrier[c].job] = "dead"
    /\ phase \in {"down", "recovering"} => worker.pc = "idle"

LInv == TypeInv /\ StillTrue

LStep == StillTrue' /\ [Ledger!Next]_(Ledger!vars)

\* The steps that leave the ledger alone stutter in JobLedger.
LEMMA LedgerStutters ==
    ASSUME UNCHANGED ledgerVars
    PROVE  [Ledger!Next]_(Ledger!vars)
BY DEF ledgerVars, Ledger!vars

\* Requests: an insertion is Submit, and the reset of a retry is Retry as the
\* job is still dead, for the only caller and no one else could have changed it.
LEMMA RequestLedger ==
    ASSUME SingleCaller, LInv, Enqueuing \/ Retrying
    PROVE  LStep
<1> USE DEF LInv, TypeInv, TypeOK
<1>1. ASSUME NEW j \in Jobs, InsertRow(j),
             UNCHANGED <<attempts, worker, retrier>>,
             phase' = phase
      PROVE  LStep
  <2>1. StillTrue'
    BY <1>1 DEF InsertRow, StillTrue, Holding, Runnable
  <2>2. Ledger!Submit(j)
    BY <1>1 DEF InsertRow, Ledger!Submit, Ledger!Goes
  <2>3. QED
    BY <2>1, <2>2 DEF LStep, Ledger!Next
<1>2. ASSUME NEW j \in Jobs, CreateJob(j) \/ SpawnJob(j)
      PROVE  LStep
  BY <1>1, <1>2 DEF CreateJob, SpawnJob
<1>3. ASSUME NEW j \in Jobs, SendCreated(j) \/ SendSpawned(j)
      PROVE  LStep
  <2>1. StillTrue'
    BY <1>3 DEF SendCreated, SendSpawned, ledgerVars, StillTrue
  <2>2. QED
    BY <1>3, <2>1, LedgerStutters DEF SendCreated, SendSpawned, LStep
<1>4. ASSUME NEW c \in Callers, NEW j \in Jobs, RetryCheck(c, j)
      PROVE  LStep
  <2>1. StillTrue'
    BY <1>4 DEF RetryCheck, ledgerVars, StillTrue
  <2>2. QED
    BY <1>4, <2>1, LedgerStutters DEF RetryCheck, LStep
<1>5. ASSUME NEW c \in Callers, RetryReset(c)
      PROVE  LStep
  <2> DEFINE j == retrier[c].job
  <2>1. j \in Jobs /\ status[j] = "dead"
    BY <1>5 DEF RetryReset, CallerAt, Holding, StillTrue
  <2>2. worker.pc \in {"claim", "run"} => worker.job # j
    BY <2>1 DEF StillTrue, Runnable
  <2>3. Ledger!Retry(j)
    BY <1>5, <2>1 DEF RetryReset, Ledger!Retry, Ledger!Goes
  <2>4. \A d \in Callers : retrier'[d].pc # "reset"
    BY <1>5 DEF RetryReset, SingleCaller
  <2>5. /\ status' = [status EXCEPT ![j] = "pending"]
        /\ attempts' = [attempts EXCEPT ![j] = 0]
        /\ worker' = worker
        /\ phase' = phase
    BY <1>5 DEF RetryReset
  <2>6. StillTrue'
    <3> HIDE DEF j
    <3> QED BY <2>1, <2>2, <2>4, <2>5 DEF StillTrue, Holding
  <2>7. QED
    BY <2>1, <2>3, <2>6 DEF LStep, Ledger!Next
<1>6. ASSUME NEW c \in Callers, RetryCallback(c) \/ RetrySend(c)
      PROVE  LStep
  <2>1. \A d \in Callers :
          retrier'[d].pc = "reset" => retrier[d].pc = "reset" /\ retrier'[d] = retrier[d]
    BY <1>6 DEF RetryCallback, RetrySend, IdleCaller
  <2>2. StillTrue'
    BY <1>6, <2>1 DEF RetryCallback, RetrySend, ledgerVars, StillTrue
  <2>3. QED
    BY <1>6, <2>2, LedgerStutters DEF RetryCallback, RetrySend, LStep
<1>7. QED
  BY <1>2, <1>3, <1>4, <1>5, <1>6 DEF Enqueuing, Retrying

\* _execute: the attempts it read are still those of the row, so that what it
\* writes after the handler is one counted failure or none.
LEMMA ExecutingLedger ==
    ASSUME LInv, Executing
    PROVE  LStep
<1> USE DEF LInv, TypeInv, TypeOK
<1>0. worker.pc # "idle" => worker.job \in Jobs
  BY DEF Holding
<1>1. CASE SkipDelivery \/ DeadCallback \/ Reschedule
  <2>1. StillTrue'
    BY <1>1 DEF SkipDelivery, DeadCallback, Reschedule, IdleWorker, ledgerVars, StillTrue
  <2>2. QED
    BY <1>1, <2>1, LedgerStutters DEF SkipDelivery, DeadCallback, Reschedule, LStep
<1>2. CASE ReadRunnable
  <2>1. StillTrue'
    BY <1>2 DEF ReadRunnable, WorkerAt, Alive, ledgerVars, StillTrue
  <2>2. QED
    BY <1>2, <2>1, LedgerStutters DEF ReadRunnable, LStep
<1>3. ASSUME NEW st, NEW from, worker.pc # "idle", worker.pc' \notin {"claim", "run"},
             phase' = phase, Alive, phase # "recovering", retrier' = retrier,
             status[worker.job] # "dead",
             status' = [status EXCEPT ![worker.job] = st]
      PROVE  StillTrue'
  BY <1>0, <1>3 DEF StillTrue, Holding, Alive
<1>4. WorkerAt("run") \/ WorkerAt("claim")
        => /\ phase # "recovering"
           /\ status[worker.job] # "dead"
           /\ worker.job \in Jobs
           /\ attempts[worker.job] = worker.attempts
  BY <1>0 DEF WorkerAt, Alive, StillTrue, Runnable
<1>5. CASE MarkRunning
  <2>1. StillTrue'
    BY <1>0, <1>4, <1>5 DEF MarkRunning, WorkerAt, StillTrue, Holding, Alive
  <2>2. Ledger!Run(worker.job)
    BY <1>5 DEF MarkRunning, WorkerAt, StillTrue, Runnable, Ledger!Run, Ledger!Goes
  <2>3. QED
    BY <1>4, <1>5, <2>1, <2>2 DEF MarkRunning, LStep, Ledger!Next
<1>6. CASE MarkDone
  <2>1. StillTrue'
    BY <1>3, <1>4, <1>6 DEF MarkDone, WorkerAt, IdleWorker
  <2>2. Ledger!Succeed(worker.job)
    BY <1>6 DEF MarkDone, WorkerAt, StillTrue, Ledger!Succeed, Ledger!Goes
  <2>3. QED
    BY <1>4, <1>6, <2>1, <2>2 DEF MarkDone, LStep, Ledger!Next
<1>7. ASSUME NEW n, WorkerAt("run"), MarkFailed(n)
      PROVE  /\ StillTrue'
             /\ Ledger!Goes(worker.job, {"running"}, "failed")
             /\ attempts' = [attempts EXCEPT ![worker.job] = n]
  <2>1. StillTrue'
    BY <1>3, <1>4, <1>7 DEF MarkFailed, WorkerAt
  <2>2. QED
    BY <1>7, <2>1 DEF MarkFailed, WorkerAt, StillTrue, Ledger!Goes
<1>8. CASE Defer
  <2>1. attempts' = attempts
    BY <1>4, <1>7, <1>8 DEF Defer
  <2>2. Ledger!Defer(worker.job)
    BY <1>7, <1>8, <2>1 DEF Defer, Ledger!Defer
  <2>3. QED
    BY <1>4, <1>7, <1>8, <2>2 DEF Defer, LStep, Ledger!Next
<1>9. CASE FailRetryable
  <2>1. Ledger!Fail(worker.job)
    BY <1>4, <1>7, <1>9 DEF FailRetryable, Ledger!Fail
  <2>2. QED
    BY <1>4, <1>7, <1>9, <2>1 DEF FailRetryable, LStep, Ledger!Next
<1>10. CASE FailDead
  <2>1. StillTrue'
    BY <1>3, <1>4, <1>10 DEF FailDead, WorkerAt
  <2>2. attempts[worker.job] + 1 = MaxAttempts
    BY <1>4, <1>10, MaxAttemptsAssumption DEF FailDead
  <2>3. Ledger!Die(worker.job)
    BY <1>10, <2>2 DEF FailDead, WorkerAt, StillTrue, Ledger!Die, Ledger!Goes
  <2>4. QED
    BY <1>4, <1>10, <2>1, <2>3 DEF FailDead, LStep, Ledger!Next
<1>11. QED
  BY <1>1, <1>2, <1>5, <1>6, <1>8, <1>9, <1>10 DEF Executing, HandlerEnds

\* Delivery and the passing of time stutter; of the life of the process only the
\* restart touches the ledger, as Recover.
LEMMA OtherLedger ==
    ASSUME LInv,
           \/ Dequeue
           \/ \E j \in Jobs : ScheduleDue(j) \/ LeaseExpires(j)
           \/ Lifecycle
    PROVE  LStep
<1> USE DEF LInv, TypeInv, TypeOK
<1>1. CASE Dequeue
  <2>1. StillTrue'
    BY <1>1 DEF Dequeue, ledgerVars, StillTrue
  <2>2. QED
    BY <1>1, <2>1, LedgerStutters DEF Dequeue, LStep
<1>2. ASSUME NEW j \in Jobs, ScheduleDue(j) \/ LeaseExpires(j) \/ RecoverSend(j)
      PROVE  LStep
  BY <1>2 DEF ScheduleDue, LeaseExpires, RecoverSend, ledgerVars, StillTrue, LStep, Ledger!vars
<1>3. CASE Restart
  <2>1. StillTrue'
    BY <1>3 DEF Restart, GiveBackOrphans, StillTrue, ExpiredOrphans, Holding
  <2>2. Ledger!Recover(ExpiredOrphans)
    BY <1>3 DEF Restart, GiveBackOrphans, Ledger!Recover, ExpiredOrphans
  <2>3. ExpiredOrphans \in SUBSET Jobs
    BY DEF ExpiredOrphans
  <2>4. QED
    BY <2>1, <2>2, <2>3 DEF LStep, Ledger!Next
<1>4. CASE Start \/ Stop \/ Stopped
  BY <1>4 DEF Start, Stop, Stopped, ledgerVars, StillTrue, LStep, Ledger!vars
<1>5. CASE Crash
  BY <1>5 DEF Crash, IdleWorker, IdleCaller, ledgerVars, StillTrue, LStep, Ledger!vars
<1>6. QED
  BY <1>1, <1>2, <1>3, <1>4, <1>5 DEF Lifecycle

\* Every step of the queue maps to a step of the ledger or to a stutter.
LEMMA NextLedger == SingleCaller /\ LInv /\ [Next]_vars => LStep
<1> SUFFICES ASSUME SingleCaller, LInv, [Next]_vars PROVE LStep
  OBVIOUS
<1>1. CASE Next
  BY <1>1, RequestLedger, ExecutingLedger, OtherLedger DEF Next
<1>2. CASE UNCHANGED vars
  BY <1>2 DEF LInv, vars, ledgerVars, StillTrue, LStep, Ledger!vars
<1>3. QED
  BY <1>1, <1>2

\* As long as manual retries do not overlap, the queue keeps the promise of
\* its ledger whatever crashes, restarts, duplicate deliveries and lease
\* expiries do: only pending and failed jobs run, each counted failure costs
\* one attempt, only an exhausted job dies and only a dead one is retried.
THEOREM LedgerImplemented == SingleCaller /\ Spec => LedgerPromise
<1>1. Init => LInv /\ Ledger!Init
  BY InitTypeInv DEF Init, LInv, StillTrue, IdleWorker, IdleCaller, Ledger!Init
<1>2. SingleCaller /\ LInv /\ [Next]_vars => LInv'
  BY NextTypeInv, NextLedger DEF LInv, LStep
<1>3. SingleCaller /\ LInv /\ [Next]_vars => [Ledger!Next]_(Ledger!vars)
  BY NextLedger DEF LStep
<1>4. SingleCaller => SingleCaller'
  BY DEF SingleCaller
<1>5. QED
  BY <1>1, <1>2, <1>3, <1>4, PTL DEF Spec, LedgerPromise, Ledger!Spec

-----------------------------------------------------------------------------
(* What follows from the promise alone.                                    *)

\* A step of the ledger runs no settled job and takes back no attempt but those
\* of a dead job; and it lets a job die only on its last attempt.
LEMMA LedgerStepFacts ==
    ASSUME TypeInv, [Ledger!Next]_(Ledger!vars), NEW j \in Jobs
    PROVE  /\ status[j] \in Settled => status'[j] # "running"
           /\ attempts'[j] < attempts[j] => status[j] = "dead"
           /\ /\ status'[j] = "dead"
              /\ status[j] = "dead" => attempts[j] = MaxAttempts - 1
              => attempts'[j] = MaxAttempts - 1
<1> DEFINE Facts ==
      /\ status[j] \in Settled => status'[j] # "running"
      /\ attempts'[j] < attempts[j] => status[j] = "dead"
      /\ /\ status'[j] = "dead"
         /\ status[j] = "dead" => attempts[j] = MaxAttempts - 1
         => attempts'[j] = MaxAttempts - 1
<1> USE MaxAttemptsAssumption DEF TypeInv, TypeOK, Settled
<1>1. ASSUME attempts' = attempts, status'[j] = "running" => status[j] \notin Settled,
             status'[j] = "dead" => status[j] = "dead" \/ attempts[j] = MaxAttempts - 1
      PROVE  Facts
  BY <1>1
<1>2. CASE UNCHANGED Ledger!vars
  BY <1>1, <1>2 DEF Ledger!vars
<1>3. ASSUME NEW k \in Jobs,
             Ledger!Submit(k) \/ Ledger!Run(k) \/ Ledger!Succeed(k) \/ Ledger!Defer(k)
      PROVE  Facts
  BY <1>1, <1>3 DEF Ledger!Submit, Ledger!Run, Ledger!Succeed, Ledger!Defer, Ledger!Goes
<1>4. ASSUME NEW k \in Jobs, Ledger!Fail(k)
      PROVE  Facts
  BY <1>4 DEF Ledger!Fail, Ledger!Goes
<1>5. ASSUME NEW k \in Jobs, Ledger!Die(k)
      PROVE  Facts
  BY <1>1, <1>5 DEF Ledger!Die, Ledger!Goes
<1>6. ASSUME NEW k \in Jobs, Ledger!Retry(k)
      PROVE  Facts
  BY <1>6 DEF Ledger!Retry, Ledger!Goes
<1>7. ASSUME NEW js \in SUBSET Jobs, Ledger!Recover(js)
      PROVE  Facts
  BY <1>1, <1>7 DEF Ledger!Recover
<1>8. ASSUME Ledger!Next
      PROVE  Facts
  <2> HIDE DEF Facts
  <2> QED BY <1>3, <1>4, <1>5, <1>6, <1>7, <1>8 DEF Ledger!Next
<1>9. QED
  BY <1>2, <1>8

\* LInv holds throughout, as long as manual retries do not overlap.
LEMMA LedgerInvariant ==
    /\ Init => LInv
    /\ SingleCaller /\ LInv /\ [Next]_vars => LInv' /\ [Ledger!Next]_(Ledger!vars)
<1>1. Init => LInv
  BY InitTypeInv DEF Init, LInv, StillTrue, IdleWorker, IdleCaller
<1>2. SingleCaller /\ LInv /\ [Next]_vars => LInv' /\ [Ledger!Next]_(Ledger!vars)
  BY NextTypeInv, NextLedger DEF LInv, LStep
<1>3. QED
  BY <1>1, <1>2

\* The duplicate messages of recover() never run a finished job again.
THEOREM FinishedStaysFinished == SingleCaller /\ Spec => FinishedNotRerun
<1>1. TypeInv /\ [Ledger!Next]_(Ledger!vars)
        => \A j \in Jobs : status[j] \in Settled => status'[j] # "running"
  BY LedgerStepFacts
<1>2. SingleCaller /\ LInv /\ [Next]_vars
        => [\A j \in Jobs : status[j] \in Settled => status'[j] # "running"]_vars
  BY <1>1, LedgerInvariant DEF LInv
<1>3. SingleCaller => SingleCaller'
  BY DEF SingleCaller
<1>4. QED
  BY <1>2, <1>3, LedgerInvariant, PTL DEF Spec, FinishedNotRerun

\* The attempts of a job go down only by the manual retry of a dead job.
THEOREM AttemptsKept == SingleCaller /\ Spec => AttemptsNeverLost
<1>1. TypeInv /\ [Ledger!Next]_(Ledger!vars)
        => \A j \in Jobs : attempts'[j] < attempts[j] => status[j] = "dead"
  BY LedgerStepFacts
<1>2. SingleCaller /\ LInv /\ [Next]_vars
        => [\A j \in Jobs : attempts'[j] < attempts[j] => status[j] = "dead"]_vars
  BY <1>1, LedgerInvariant DEF LInv
<1>3. SingleCaller => SingleCaller'
  BY DEF SingleCaller
<1>4. QED
  BY <1>2, <1>3, LedgerInvariant, PTL DEF Spec, AttemptsNeverLost

\* A job dies only when its whole budget is spent: no deferral, no crash and no
\* duplicate delivery costs an attempt.
THEOREM DeathExhausts == SingleCaller /\ Spec => []DeadMeansExhausted
<1>1. Init => DeadMeansExhausted
  BY DEF Init, DeadMeansExhausted
<1>2. TypeInv /\ DeadMeansExhausted /\ [Ledger!Next]_(Ledger!vars) => DeadMeansExhausted'
  BY LedgerStepFacts DEF DeadMeansExhausted
<1>3. SingleCaller /\ LInv /\ DeadMeansExhausted /\ [Next]_vars
        => LInv' /\ DeadMeansExhausted'
  BY <1>2, LedgerInvariant DEF LInv
<1>4. SingleCaller => SingleCaller'
  BY DEF SingleCaller
<1>5. QED
  BY <1>1, <1>3, <1>4, LedgerInvariant, PTL DEF Spec

-----------------------------------------------------------------------------
(* Before the first crash or restart a job is in one place: duplicates are *)
(* made by recover() alone, when manual retries do not overlap.            *)

NoRestart == used.crashes = 0 /\ used.stops = 0

Held(j) == worker.pc \in {"got", "claim", "run", "retry"} /\ worker.job = j
Called(j) == \E c \in Callers : retrier[c].pc \in {"callback", "send"} /\ retrier[c].job = j
Asked(j) == j \in submitting \union spawning

\* Of the places a job may be carried it has one at most.
Lone(j) ==
    /\ InQueue(j) => schedule[j] = 0 /\ ~ Asked(j) /\ ~ Held(j) /\ ~ Called(j)
    /\ schedule[j] > 0 => schedule[j] = 1 /\ ~ Asked(j) /\ ~ Held(j) /\ ~ Called(j)
    /\ j \notin submitting \intersect spawning
    /\ Asked(j) => ~ Held(j) /\ ~ Called(j)
    /\ Held(j) => ~ Called(j)
Uncarried(j) ==
    ~ InQueue(j) /\ schedule[j] = 0 /\ ~ Asked(j) /\ ~ Held(j) /\ ~ Called(j)

Distinct == \A i, k \in DOMAIN queue : queue[i] = queue[k] => i = k

OneMessage ==
    NoRestart =>
        /\ todo = {} /\ phase # "stopping"
        /\ phase = "down" => \A j \in Jobs : status[j] = "absent"
        /\ Distinct
        /\ \A j \in Jobs : /\ Lone(j)
                           /\ status[j] \in {"absent", "done", "dead"} => Uncarried(j)

MInv == LInv /\ OneMessage

\* A job that is sent and was not in the queue is there once.
LEMMA SendDistinct ==
    ASSUME queue \in Seq(Jobs), Distinct, NEW j \in Jobs, Send(j), ~ InQueue(j)
    PROVE  Distinct' /\ \A k \in Jobs : InQueue(k)' <=> InQueue(k) \/ k = j
<1>1. /\ Len(queue') = Len(queue) + 1 /\ queue'[Len(queue) + 1] = j
      /\ \A i \in 1 .. Len(queue) : queue'[i] = queue[i]
      /\ DOMAIN queue = 1 .. Len(queue) /\ DOMAIN queue' = 1 .. Len(queue')
      /\ Len(queue) \in Nat
  BY DEF Send
<1>2. \A i \in 1 .. Len(queue') : i \in 1 .. Len(queue) \/ i = Len(queue) + 1
  BY <1>1
<1>3. \A i \in 1 .. Len(queue) : queue[i] # j
  BY <1>1 DEF InQueue
<1>4. Distinct'
  BY <1>1, <1>2, <1>3 DEF Distinct
<1>5. ASSUME NEW k \in Jobs, InQueue(k)', k # j
      PROVE  InQueue(k)
  <2>1. PICK i \in 1 .. Len(queue') : queue'[i] = k
    BY <1>1, <1>5 DEF InQueue
  <2>2. i \in 1 .. Len(queue)
    BY <1>1, <1>2, <1>5, <2>1
  <2>3. QED
    BY <1>1, <2>1, <2>2 DEF InQueue
<1>6. QED
  BY <1>4, <1>5, SendFacts

\* The job at the head of the queue is there once, and gone when it is taken.
LEMMA DequeueDistinct ==
    ASSUME queue \in Seq(Jobs), Distinct, queue # <<>>, queue' = Tail(queue)
    PROVE  /\ Distinct' /\ InQueue(Head(queue))
           /\ \A k \in Jobs : InQueue(k)' <=> InQueue(k) /\ k # Head(queue)
<1>1. /\ queue' \in Seq(Jobs) /\ Head(queue) = queue[1] /\ Len(queue') = Len(queue) - 1
      /\ Len(queue) \in Nat \ {0}
      /\ DOMAIN queue = 1 .. Len(queue) /\ DOMAIN queue' = 1 .. Len(queue')
  OBVIOUS
<1>2. \A i \in 1 .. Len(queue') :
         queue'[i] = queue[i + 1] /\ i + 1 \in 1 .. Len(queue) /\ i + 1 # 1
  BY <1>1
<1>3. Distinct'
  BY <1>1, <1>2 DEF Distinct
<1>4. 1 \in DOMAIN queue /\ InQueue(Head(queue))
  BY <1>1 DEF InQueue
<1>5. ASSUME NEW k \in Jobs, InQueue(k)'
      PROVE  InQueue(k) /\ k # Head(queue)
  <2>1. PICK i \in 1 .. Len(queue') : queue'[i] = k
    BY <1>1, <1>5 DEF InQueue
  <2>2. queue[i + 1] = k /\ i + 1 \in DOMAIN queue /\ i + 1 # 1
    BY <1>1, <1>2, <2>1
  <2>3. QED
    BY <1>1, <1>4, <2>2 DEF InQueue, Distinct
<1>6. QED
  BY <1>3, <1>4, <1>5, DequeueFacts

\* Counts never go back, and neither a crash nor a stop is behind a step that
\* leaves the process without either.
LEMMA NoRestartYet ==
    ASSUME TypeInv, Next, NoRestart'
    PROVE  NoRestart /\ ~ Crash /\ ~ Stop
<1> USE DEF TypeInv, TypeOK, Bounds, Use, NoRestart
<1>1. CASE used' = used
  BY <1>1 DEF Crash, Stop
<1>2. ASSUME NEW b \in Bounds \ {"crashes", "stops"}, Use(b)
      PROVE  NoRestart /\ ~ Crash /\ ~ Stop
  BY <1>2 DEF Crash, Stop
<1>3. CASE Enqueuing
  BY <1>1, <1>3 DEF Enqueuing, CreateJob, SendCreated, SpawnJob, SendSpawned
<1>4. CASE Retrying
  <2> HIDE DEF Use
  <2> QED BY <1>1, <1>2, <1>4 DEF Retrying, RetryCheck, RetryReset, RetryCallback, RetrySend
<1>5. CASE Dequeue \/ \E j \in Jobs : ScheduleDue(j) \/ LeaseExpires(j)
  BY <1>1, <1>5 DEF Dequeue, ScheduleDue, LeaseExpires
<1>6. CASE Executing
  <2> HIDE DEF Use
  <2>1. CASE Defer
    BY <1>2, <2>1 DEF Defer
  <2>2. CASE LeaveChild
    BY <1>1, <1>2, <2>2 DEF LeaveChild
  <2>3. QED
    BY <1>1, <1>6, <2>1, <2>2
       DEF Executing, HandlerEnds, SkipDelivery, ReadRunnable, MarkRunning, MarkDone,
           FailRetryable, FailDead, DeadCallback, Reschedule
<1>7. CASE Lifecycle
  <2>1. ~ Crash /\ ~ Stop
    BY DEF Crash, Stop
  <2>2. QED
    BY <1>1, <1>7, <2>1 DEF Lifecycle, Restart, GiveBackOrphans, RecoverSend, Start, Stopped
<1>8. QED
  BY <1>3, <1>4, <1>5, <1>6, <1>7 DEF Next

\* Requests: a job that is created or reset was carried nowhere, and what is
\* sent leaves the hands of who sends it.
LEMMA RequestOne ==
    ASSUME SingleCaller, MInv, NoRestart, Enqueuing \/ Retrying
    PROVE  OneMessage'
<1> USE DEF MInv, LInv, TypeInv, TypeOK
<1>0. queue' = queue => Distinct' /\ \A k \in Jobs : InQueue(k)' <=> InQueue(k)
  BY DEF OneMessage, InQueue, Distinct
<1>1. ASSUME NEW j \in Jobs, CreateJob(j) \/ SpawnJob(j)
      PROVE  OneMessage'
  BY <1>0, <1>1 DEF CreateJob, SpawnJob, InsertRow, OneMessage, Lone, Uncarried, Held, Called, Asked,
     hueyVars, childVars, WorkerAt, Alive
<1>2. ASSUME NEW j \in Jobs, SendCreated(j) \/ SendSpawned(j)
      PROVE  OneMessage'
  <2>1. Distinct' /\ \A k \in Jobs : InQueue(k)' <=> InQueue(k) \/ k = j
    BY <1>2, SendDistinct DEF SendCreated, SendSpawned, OneMessage, Lone, Asked
  <2>2. QED
    BY <1>2, <2>1 DEF SendCreated, SendSpawned, OneMessage, Lone, Uncarried, Held, Called, Asked,
       ledgerVars, childVars, NoRestart
<1>3. ASSUME NEW c \in Callers, NEW j \in Jobs, RetryCheck(c, j)
      PROVE  OneMessage'
  BY <1>0, <1>3 DEF RetryCheck, OneMessage, Lone, Uncarried, Held, Called, Asked, ledgerVars,
     hueyVars, childVars
<1>4. ASSUME NEW c \in Callers, RetryReset(c)
      PROVE  OneMessage'
  <2>1. retrier[c].job \in Jobs /\ status[retrier[c].job] = "dead"
    BY <1>4 DEF RetryReset, CallerAt, Holding, StillTrue
  <2>2. QED
    BY <1>0, <1>4, <2>1 DEF RetryReset, CallerAt, OneMessage, Lone, Uncarried, Held, Called, Asked,
       hueyVars, childVars, SingleCaller, NoRestart
<1>5. ASSUME NEW c \in Callers, RetryCallback(c)
      PROVE  OneMessage'
  BY <1>0, <1>5 DEF RetryCallback, CallerAt, OneMessage, Lone, Uncarried, Held, Called, Asked,
     ledgerVars, hueyVars, childVars, NoRestart
<1>6. ASSUME NEW c \in Callers, RetrySend(c)
      PROVE  OneMessage'
  <2> DEFINE j == retrier[c].job
  <2>1. j \in Jobs /\ Called(j)
    BY <1>6 DEF RetrySend, CallerAt, Holding, Called
  <2>2. Distinct' /\ \A k \in Jobs : InQueue(k)' <=> InQueue(k) \/ k = j
    BY <1>6, <2>1, SendDistinct DEF RetrySend, OneMessage, Lone
  <2>3. ~ Called(j)' /\ \A k \in Jobs : ~ Called(k)'
    BY <1>6 DEF RetrySend, Called, SingleCaller, IdleCaller
  <2>4. QED
    BY <1>6, <2>1, <2>2, <2>3 DEF RetrySend, OneMessage, Lone, Uncarried, Held, Asked, ledgerVars,
       childVars, NoRestart
<1>7. QED
  BY <1>1, <1>2, <1>3, <1>4, <1>5, <1>6 DEF Enqueuing, Retrying

\* Delivery moves the only message of a job from one place to the next.
LEMMA DeliveryOne ==
    ASSUME MInv, NoRestart, Dequeue \/ \E j \in Jobs : ScheduleDue(j) \/ LeaseExpires(j)
    PROVE  OneMessage'
<1> USE DEF MInv, LInv, TypeInv, TypeOK
<1>1. CASE Dequeue
  <2> DEFINE j == Head(queue)
  <2>1. /\ Distinct' /\ InQueue(j) /\ j \in Jobs
        /\ \A k \in Jobs : InQueue(k)' <=> InQueue(k) /\ k # j
    BY <1>1, DequeueDistinct DEF Dequeue, OneMessage
  <2>2. worker' = [pc |-> "got", job |-> j, attempts |-> 0] /\ worker.pc = "idle"
    BY <1>1 DEF Dequeue
  <2> HIDE DEF j
  <2>3. \A k \in Jobs : Held(k)' <=> k = j
    BY <2>2 DEF Held
  <2>4. \A k \in Jobs : ~ Held(k)
    BY <2>2 DEF Held
  <2>5. \A k \in Jobs : (Called(k)' <=> Called(k)) /\ (Asked(k)' <=> Asked(k))
    BY <1>1 DEF Dequeue, Called, Asked, childVars
  <2>6. QED
    BY <1>1, <2>1, <2>3, <2>4, <2>5 DEF Dequeue, OneMessage, Lone, Uncarried, Asked, ledgerVars,
       childVars, NoRestart
<1>2. ASSUME NEW j \in Jobs, ScheduleDue(j)
      PROVE  OneMessage'
  <2>1. Distinct' /\ \A k \in Jobs : InQueue(k)' <=> InQueue(k) \/ k = j
    BY <1>2, SendDistinct DEF ScheduleDue, OneMessage, Lone
  <2>2. schedule'[j] = 0 /\ \A k \in Jobs : k # j => schedule'[k] = schedule[k]
    BY <1>2 DEF ScheduleDue, OneMessage, Lone
  <2>3. \A k \in Jobs : (Called(k)' <=> Called(k)) /\ (Asked(k)' <=> Asked(k)) /\ (Held(k)' <=> Held(k))
    BY <1>2 DEF ScheduleDue, Called, Asked, Held, childVars
  <2>4. schedule[j] > 0
    BY <1>2 DEF ScheduleDue
  <2>5. QED
    BY <1>2, <2>1, <2>2, <2>3, <2>4 DEF ScheduleDue, OneMessage, Lone, Uncarried, ledgerVars,
       childVars, NoRestart
<1>3. ASSUME NEW j \in Jobs, LeaseExpires(j)
      PROVE  OneMessage'
  BY <1>3 DEF LeaseExpires, OneMessage, InQueue, Distinct, Lone, Uncarried, Held, Called, Asked,
     hueyVars, childVars, NoRestart
<1>4. QED
  BY <1>1, <1>2, <1>3

\* The worker keeps the job it holds until it finishes it, loses it to its
\* death or puts it into the schedule; the child of its handler is another job.
LEMMA ExecutingOne ==
    ASSUME MInv, NoRestart, Executing
    PROVE  OneMessage'
<1> USE DEF MInv, LInv, TypeInv, TypeOK
<1>0. /\ Executing => UNCHANGED <<queue, retrier, phase, todo>>
      /\ UNCHANGED queue => Distinct' /\ \A k \in Jobs : InQueue(k)' <=> InQueue(k)
      /\ UNCHANGED retrier => \A k \in Jobs : Called(k)' <=> Called(k)
  <2>1. Executing => UNCHANGED <<queue, retrier, phase, todo>>
    BY DEF Executing, HandlerEnds, SkipDelivery, ReadRunnable, MarkRunning, MarkDone, Defer,
       FailRetryable, FailDead, MarkFailed, DeadCallback, Reschedule, hueyVars
  <2>2. QED
    BY <2>1 DEF OneMessage, InQueue, Distinct, Called
<1>00. /\ Distinct' /\ \A k \in Jobs : (InQueue(k)' <=> InQueue(k)) /\ (Called(k)' <=> Called(k))
       /\ UNCHANGED <<phase, todo>> /\ phase # "down"
  BY <1>0 DEF Executing, HandlerEnds, SkipDelivery, ReadRunnable, MarkRunning, MarkDone, Defer,
     FailRetryable, FailDead, DeadCallback, Reschedule, WorkerAt, Alive
<1>1. worker.pc # "idle" => worker.job \in Jobs
  BY DEF Holding
<1>2. ASSUME UNCHANGED schedule,
             \A k \in Jobs : Asked(k)' => Asked(k),
             (submitting \intersect spawning = {}) => (submitting' \intersect spawning' = {}),
             \A k \in Jobs : Held(k)' => Held(k),
             \A k \in Jobs : \/ status'[k] = status[k]
                             \/ Held(k) /\ status'[k] \notin {"absent", "done", "dead"}
                             \/ Held(k) /\ ~ Held(k)'
      PROVE  OneMessage'
  BY <1>00, <1>2 DEF OneMessage, Lone, Uncarried
<1>3. CASE SkipDelivery \/ DeadCallback
  BY <1>2, <1>3 DEF SkipDelivery, DeadCallback, IdleWorker, Held, Asked, ledgerVars, hueyVars, childVars
<1>4. CASE ReadRunnable \/ MarkRunning
  BY <1>1, <1>2, <1>4 DEF ReadRunnable, MarkRunning, WorkerAt, Held, Asked, ledgerVars, hueyVars, childVars
<1>5. CASE MarkDone
  BY <1>1, <1>2, <1>5 DEF MarkDone, WorkerAt, IdleWorker, Held, Asked, ledgerVars, hueyVars, childVars
<1>6. ASSUME NEW n, WorkerAt("run"), MarkFailed(n)
      PROVE  /\ UNCHANGED schedule /\ \A k \in Jobs : Held(k)' => Held(k)
             /\ \A k \in Jobs : \/ status'[k] = status[k]
                                \/ Held(k) /\ status'[k] \notin {"absent", "done", "dead"}
  BY <1>1, <1>6 DEF MarkFailed, WorkerAt, Held, hueyVars
<1>7. LeaveChild => /\ \A k \in Jobs : Asked(k)' => Asked(k)
                    /\ (submitting \intersect spawning = {}) => (submitting' \intersect spawning' = {})
  BY DEF LeaveChild, Asked
<1>8. CASE Defer
  BY <1>2, <1>6, <1>8 DEF Defer, Asked, childVars
<1>9. CASE FailRetryable
  BY <1>2, <1>6, <1>7, <1>9 DEF FailRetryable
<1>10. CASE FailDead
  BY <1>1, <1>2, <1>7, <1>10 DEF FailDead, WorkerAt, Held, hueyVars
<1>11. CASE Reschedule
  <2> DEFINE j == worker.job
  <2>1. j \in Jobs /\ Held(j) /\ status[j] \notin {"absent", "done", "dead"} /\ schedule[j] = 0
    BY <1>1, <1>11 DEF Reschedule, WorkerAt, Held, OneMessage, Uncarried, Lone
  <2>2. schedule'[j] = 1 /\ \A k \in Jobs : k # j => schedule'[k] = schedule[k]
    BY <1>11, <2>1 DEF Reschedule
  <2>3. \A k \in Jobs : ~ Held(k)' /\ (Asked(k)' <=> Asked(k))
    BY <1>11 DEF Reschedule, IdleWorker, Held, Asked, childVars
  <2>4. UNCHANGED <<status, submitting, spawning>>
    BY <1>11 DEF Reschedule, ledgerVars, childVars
  <2> HIDE DEF j
  <2>5. ASSUME NEW k \in Jobs
        PROVE  Lone(k)' /\ (status'[k] \in {"absent", "done", "dead"} => Uncarried(k)')
    <3>1. /\ InQueue(k)' <=> InQueue(k)
          /\ Called(k)' <=> Called(k)
          /\ Asked(k)' <=> Asked(k)
          /\ ~ Held(k)' /\ status'[k] = status[k]
      BY <1>00, <2>3, <2>4
    <3>2. Lone(k) /\ (status[k] \in {"absent", "done", "dead"} => Uncarried(k))
      BY DEF OneMessage
    <3>3. CASE k = j
      BY <2>1, <2>2, <2>4, <3>1, <3>2, <3>3 DEF Lone
    <3>4. CASE k # j
      BY <2>2, <2>4, <3>1, <3>2, <3>4 DEF Lone, Uncarried
    <3>5. QED
      BY <3>3, <3>4
  <2>6. QED
    BY <1>00, <2>5 DEF OneMessage
<1>12. QED
  BY <1>3, <1>4, <1>5, <1>8, <1>9, <1>10, <1>11 DEF Executing, HandlerEnds

\* The first start finds an empty ledger.
LEMMA LifecycleOne ==
    ASSUME MInv, NoRestart, Restart \/ (\E j \in Jobs : RecoverSend(j)) \/ Start \/ Stopped
    PROVE  OneMessage'
<1> USE DEF MInv, LInv, TypeInv, TypeOK
<1>1. /\ UNCHANGED <<queue, schedule, worker, submitting, spawning, retrier>>
      /\ phase' \in {"recovering", "up"}
      /\ todo' = {}
      /\ UNCHANGED status
  <2>1. CASE Restart
    <3>1. \A j \in Jobs : status[j] = "absent"
      BY <2>1 DEF Restart, GiveBackOrphans, OneMessage
    <3>2. ExpiredOrphans = {}
      BY <3>1 DEF ExpiredOrphans
    <3>3. status' = status
      BY <2>1, <3>2 DEF Restart, GiveBackOrphans
    <3>4. PendingJobs' = {}
      BY <3>1, <3>3 DEF PendingJobs
    <3>5. QED
      BY <2>1, <3>3, <3>4 DEF Restart, GiveBackOrphans, hueyVars
  <2>2. CASE Start
    BY <2>2 DEF Start, OneMessage, ledgerVars, hueyVars, childVars
  <2>3. QED
    BY <2>1, <2>2 DEF RecoverSend, Stopped, OneMessage
<1>2. QED
  BY <1>1 DEF OneMessage, InQueue, Distinct, Lone, Uncarried, Held, Called, Asked

LEMMA NextOne == SingleCaller /\ MInv /\ [Next]_vars => OneMessage'
<1> SUFFICES ASSUME SingleCaller, MInv, [Next]_vars PROVE OneMessage'
  OBVIOUS
<1>1. CASE Next
  <2>1. CASE NoRestart'
    <3>1. NoRestart /\ ~ Crash /\ ~ Stop
      BY <1>1, <2>1, NoRestartYet DEF MInv, LInv
    <3>2. QED
      BY <1>1, <3>1, RequestOne, DeliveryOne, ExecutingOne, LifecycleOne DEF Next, Lifecycle
  <2>2. QED
    BY <2>1 DEF OneMessage
<1>2. CASE UNCHANGED vars
  BY <1>2 DEF vars, ledgerVars, hueyVars, childVars, MInv, OneMessage, InQueue, Distinct, Lone,
     Uncarried, Held, Called, Asked, NoRestart
<1>3. QED
  BY <1>1, <1>2

LEMMA SingleMessage == SingleCaller /\ Spec => []MInv
<1>1. Init => OneMessage
  BY DEF Init, OneMessage, InQueue, Distinct, Lone, Uncarried, Held, Called, Asked, IdleWorker, IdleCaller
<1>2. SingleCaller /\ MInv /\ [Next]_vars => MInv'
  BY NextOne, NextTypeInv, NextLedger DEF MInv, LInv, LStep
<1>3. SingleCaller => SingleCaller'
  BY DEF SingleCaller
<1>4. Init => LInv
  BY InitTypeInv DEF LInv, Init, StillTrue, IdleWorker, IdleCaller
<1>5. Init => MInv
  BY <1>1, <1>4 DEF MInv
<1>6. QED
  BY <1>2, <1>3, <1>5, PTL DEF Spec

\* Before the first crash or restart no job has two messages, is handed to the
\* worker twice or is sent while it runs: a job that runs twice ran before a
\* restart or was retried by hand.  Only recover() makes duplicates.
THEOREM NoDuplicateMessage == SingleCaller /\ Spec => []OneMessage
<1>1. MInv => OneMessage
  BY DEF MInv
<1>2. QED
  BY <1>1, SingleMessage, PTL
=============================================================================

--------------------------- MODULE WatchSchedule ---------------------------
(***************************************************************************)
(* Watches: the schedule of one watched URL                                *)
(* (application/services/watch_service.py, api/routes/watches.py and the   *)
(* watches table of sqlite_store.py).                                      *)
(*                                                                         *)
(* The tick and the polls are tasks of the one worker; requests of clients *)
(* run beside them, each read and each write of a row a step of its own.   *)
(* Time goes on at any of them.  The names of this module are its own, so  *)
(* that it can be extended together with others.                           *)
(***************************************************************************)
EXTENDS Naturals, FiniteSets

CONSTANTS
    WatchClients,      \* clients, each with one request at a time
    Intervals,         \* interval_hours a client may ask for, in units of time
    WatchEnd,          \* bound: when time stops
    WatchIds,          \* bound: watches ever created, 1..WatchIds
    WatchRequests,     \* bound: requests that were made
    WatchTroubles      \* bound: crashes and enqueues that raised

\* interval_hours is at least 1 (api/schemas.py:761, 785).
ASSUME WatchAssumption == Intervals \subseteq Nat \ {0}

VARIABLES
    time,          \* the clock
    watch,         \* the row of watches, or NoWatch
    polls,         \* poll_watch jobs
    watchWorker,   \* the tick or the poll that runs
    watchClient,   \* the requests in progress
    crossed,       \* history: a request overlapped a write, or a tick cut off
    watchUsed      \* how much of the bounds has been used

watchVars == <<time, watch, polls, watchWorker, watchClient, crossed, watchUsed>>

NoWatch == [id |-> 0]
Never == 0
Resting == [at |-> "idle"]
MinOf(set) == CHOOSE x \in set : \A y \in set : x <= y
Request == watchUsed.requests < WatchRequests /\ watchUsed' = [watchUsed EXCEPT !.requests = @ + 1]
WatchTrouble == watchUsed.troubles < WatchTroubles /\ watchUsed' = [watchUsed EXCEPT !.troubles = @ + 1]

WatchInit ==
    /\ time = 1
    /\ watch = NoWatch
    /\ polls = {}
    /\ watchWorker = Resting
    /\ watchClient = [c \in WatchClients |-> Resting]
    /\ crossed = FALSE
    /\ watchUsed = [ids |-> 0, requests |-> 0, troubles |-> 0]

Passes ==
    /\ time < WatchEnd
    /\ time' = time + 1
    /\ UNCHANGED <<watch, polls, watchWorker, watchClient, crossed, watchUsed>>

-----------------------------------------------------------------------------
(* Writes to the row.                                                      *)

\* A write of one side while the other is between its read and its write.
Crossing(others) == crossed' = (crossed \/ others)
ClientsBusy == \E c \in WatchClients : watchClient[c] # Resting
OthersBusy(c) == watchWorker # Resting \/ \E d \in WatchClients \ {c} : watchClient[d] # Resting

\* mark_watch_run: UPDATE ... WHERE id, so that a watch that is gone stays so.
MarkRun(id, last, next) ==
    watch' = IF watch.id = id THEN [watch EXCEPT !.last = last, !.next = next] ELSE watch

\* record_watch_result.
RecordResult(id, status) ==
    watch' = IF watch.id = id THEN [watch EXCEPT !.status = status] ELSE watch

\* poll_watch_key: the time a poll was due, or the time of a manual request.
Key(id, at, manual) == [id |-> id, at |-> at, manual |-> manual]
Known(key) == \E p \in polls : p.key = key
EnqueuePoll(key, now) ==
    polls' = IF Known(key) THEN polls
             ELSE polls \union {[key |-> key, asked |-> now, status |-> "pending"]}

-----------------------------------------------------------------------------
(* Clients.                                                                *)

\* get_watch.
Find(id) == IF watch.id = id THEN watch ELSE NoWatch

\* create_watch: at most one watch of a kind and a URL.
InsertWatch(row) == watch = NoWatch /\ watch' = row

\* create: due at once.
CreateWatch(c) ==
    /\ watchClient[c] = Resting /\ watchUsed.ids < WatchIds
    /\ \E interval \in Intervals :
          InsertWatch([id |-> watchUsed.ids + 1, enabled |-> TRUE, interval |-> interval,
                       next |-> time, last |-> Never, status |-> "pending"])
    /\ watchUsed' = [watchUsed EXCEPT !.ids = @ + 1]
    /\ Crossing(OthersBusy(c))
    /\ UNCHANGED <<time, polls, watchWorker, watchClient>>

DeleteWatch(c) ==
    /\ watchClient[c] = Resting /\ watch # NoWatch /\ Request
    /\ watch' = NoWatch
    /\ Crossing(OthersBusy(c))
    /\ UNCHANGED <<time, polls, watchWorker, watchClient>>

\* update: get_watch, and the patch on what was read.  A new interval counts
\* from the last run.
Retuned(row, interval) ==
    IF interval = row.interval THEN row
    ELSE [row EXCEPT !.interval = interval,
                     !.next = (IF row.last = Never THEN time ELSE row.last) + interval]

UpdateRead(c) ==
    /\ watchClient[c] = Resting /\ watch # NoWatch /\ Request
    /\ \E row \in {[watch EXCEPT !.enabled = e] : e \in BOOLEAN}
                  \union {Retuned(watch, i) : i \in Intervals} :
          watchClient' = [watchClient EXCEPT ![c] = [at |-> "update", row |-> row]]
    /\ UNCHANGED <<time, watch, polls, watchWorker, crossed>>

\* update_watch: the full row, the schedule and the status included.
UpdateWrite(c) ==
    /\ watchClient[c].at = "update"
    /\ watch' = IF watch.id = watchClient[c].row.id THEN watchClient[c].row ELSE watch
    /\ watchClient' = [watchClient EXCEPT ![c] = Resting]
    /\ Crossing(OthersBusy(c) \/ (watch # NoWatch /\ Known(Key(watch.id, watch.next, FALSE))))
    /\ UNCHANGED <<time, polls, watchWorker, watchUsed>>

\* run_now: the poll is enqueued under a key of its own, then the schedule
\* moves to one interval from the request.
RunNow(c) ==
    /\ watchClient[c] = Resting /\ watch # NoWatch /\ Request
    /\ EnqueuePoll(Key(watch.id, time, TRUE), time)
    /\ watchClient' = [watchClient EXCEPT ![c] = [at |-> "run", row |-> watch, now |-> time]]
    /\ UNCHANGED <<time, watch, watchWorker, crossed>>

RunNowMark(c) ==
    LET run == watchClient[c] IN
    /\ run.at = "run"
    /\ MarkRun(run.row.id, run.now, run.now + run.row.interval)
    /\ watchClient' = [watchClient EXCEPT ![c] = Resting]
    /\ Crossing(OthersBusy(c))
    /\ UNCHANGED <<time, polls, watchWorker, watchUsed>>

-----------------------------------------------------------------------------
(* The tick.                                                               *)

\* list_due_watches; with one watch the LIMIT does not matter.
Due == watch # NoWatch /\ watch.enabled /\ watch.next <= time

TickRead ==
    /\ watchWorker = Resting /\ Due
    /\ watchWorker' = [at |-> "enqueue", row |-> watch, now |-> time]
    /\ UNCHANGED <<time, watch, polls, watchClient, crossed, watchUsed>>

\* Mutant: the key is the time of the tick.
TickEnqueueNow ==
    /\ watchWorker.at = "enqueue"
    /\ EnqueuePoll(Key(watchWorker.row.id, watchWorker.now, FALSE), watchWorker.now)
    /\ watchWorker' = [watchWorker EXCEPT !.at = "mark"]
    /\ UNCHANGED <<time, watch, watchClient, crossed, watchUsed>>

\* Mutant: a poll that is known already does not move the schedule.
TickEnqueueOrSkip ==
    LET key == Key(watchWorker.row.id, watchWorker.row.next, FALSE) IN
    /\ watchWorker.at = "enqueue"
    /\ EnqueuePoll(key, watchWorker.now)
    /\ watchWorker' = IF Known(key) THEN Resting ELSE [watchWorker EXCEPT !.at = "mark"]
    /\ UNCHANGED <<time, watch, watchClient, crossed, watchUsed>>

\* The enqueue, a duplicate of a tick that was cut off included; when it
\* raises the watch is left for the next tick.
TickEnqueue ==
    /\ watchWorker.at = "enqueue"
    /\ \/ /\ EnqueuePoll(Key(watchWorker.row.id, watchWorker.row.next, FALSE), watchWorker.now)
          /\ watchWorker' = [watchWorker EXCEPT !.at = "mark"]
          /\ UNCHANGED watchUsed
       \/ /\ WatchTrouble
          /\ watchWorker' = Resting
          /\ UNCHANGED polls
    /\ UNCHANGED <<time, watch, watchClient, crossed>>

\* The schedule advances from the tick, whatever will come of the poll.
TickMark ==
    LET tick == watchWorker IN
    /\ tick.at = "mark"
    /\ MarkRun(tick.row.id, tick.now, tick.now + tick.row.interval)
    /\ watchWorker' = Resting
    /\ Crossing(ClientsBusy)
    /\ UNCHANGED <<time, polls, watchClient, watchUsed>>

-----------------------------------------------------------------------------
(* The poll.                                                               *)

\* The job is done, or it has failed as often as it may.
PollEnds(poll) == polls' = (polls \ {poll}) \union {[poll EXCEPT !.status = "over"]}

\* handle_poll_watch: a watch that is gone or paused is skipped.
PollRead(poll) ==
    /\ watchWorker = Resting /\ poll.status = "pending"
    /\ IF Find(poll.key.id) # NoWatch /\ watch.enabled
       THEN watchWorker' = [at |-> "poll", poll |-> poll] /\ UNCHANGED polls
       ELSE PollEnds(poll) /\ UNCHANGED watchWorker
    /\ UNCHANGED <<time, watch, watchClient, crossed, watchUsed>>

\* The items are discovered and ingested, or at least one of them is; or the
\* source fails, or every item does, and the job fails with it.  Retries of
\* the job are those of JobQueue and poll again.
PollResult ==
    /\ watchWorker.at = "poll"
    /\ \E result \in {"ok", "error"} : RecordResult(watchWorker.poll.key.id, result)
    /\ PollEnds(watchWorker.poll)
    /\ watchWorker' = Resting
    /\ Crossing(ClientsBusy)
    /\ UNCHANGED <<time, watchClient, watchUsed>>

\* The process dies; what was enqueued stays and is recovered.
WatchCrash ==
    /\ WatchTrouble
    /\ watchWorker # Resting \/ ClientsBusy
    /\ watchWorker' = Resting
    /\ watchClient' = [c \in WatchClients |-> Resting]
    /\ UNCHANGED <<time, watch, polls, crossed>>

WatchWork ==
    \/ TickRead \/ TickEnqueue \/ TickMark
    \/ \E poll \in polls : PollRead(poll)
    \/ PollResult
WatchRequest(c) == UpdateWrite(c) \/ RunNowMark(c)

WatchNext ==
    \/ Passes
    \/ WatchWork
    \/ \E c \in WatchClients :
          \/ CreateWatch(c) \/ DeleteWatch(c) \/ UpdateRead(c) \/ RunNow(c)
          \/ WatchRequest(c)
    \/ WatchCrash

WatchSpec == WatchInit /\ [][WatchNext]_watchVars
\* The scheduler of the consumer ticks every minute, jobs run, requests end.
FairWatchSpec ==
    /\ WatchSpec
    /\ WF_watchVars(TickRead) /\ WF_watchVars(TickEnqueue) /\ WF_watchVars(TickMark)
    /\ WF_watchVars(PollResult)

-----------------------------------------------------------------------------
(* Properties.                                                             *)

\* The ticks that asked for two polls of a watch are the shortest interval
\* apart at least, whatever is cut off or repeated, as long as no request overlapped
\* another write, nor an update moved a schedule that a tick left unmarked.
PollsApart ==
    ~crossed =>
        \A p, q \in polls :
            p # q /\ p.key.id = q.key.id /\ ~p.key.manual /\ ~q.key.manual =>
                \/ p.asked >= q.asked + MinOf(Intervals)
                \/ q.asked >= p.asked + MinOf(Intervals)

\* A watch that is due is due no more after a while: failing polls, a tick
\* that was cut off, and stale rows written back do not freeze its schedule.
ScheduleAdvances == Due ~> ~Due
=============================================================================

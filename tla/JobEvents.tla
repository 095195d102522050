----------------------------- MODULE JobEvents -----------------------------
(***************************************************************************)
(* The job event bus (application/job_events.py) between the transitions   *)
(* of the job ledger and the streams of server-sent events                 *)
(* (api/routes/events.py).                                                 *)
(*                                                                         *)
(* A transition is committed first and published after, with the loop free *)
(* in between; an event carries the whole state of its job, here a version *)
(* that counts its transitions.  publish and close are synchronous.        *)
(* Heartbeats change nothing and are left out, as is the limit of the      *)
(* snapshot.  The names of this module are its own, so that it can be      *)
(* extended together with others.                                          *)
(***************************************************************************)
EXTENDS Naturals, Sequences, FiniteSets

CONSTANTS
    StreamJobs,       \* jobs of the ledger
    Streams,          \* requests for a stream
    QueueSize,        \* of a subscriber
    MaxSubscribers,   \* events.max_subscribers
    Transitions       \* bound: transitions of a job, its creation being the first

\* EventsSettings.queue_size is at least 1 (config.py:261).
ASSUME BusAssumption == QueueSize \in Nat \ {0}

VARIABLES
    ledger,      \* the version of each job, 0 before it is created
    announced,   \* the version each job was last published with
    stream,      \* what each request has come to
    busClosed    \* JobEventBus._closed

busVars == <<ledger, announced, stream, busClosed>>

NoVersion == [j \in StreamJobs |-> 0]
NewStream == [at |-> "asked", queue |-> <<>>, view |-> NoVersion, dropped |-> {}]
Subscribed == {s \in Streams : stream[s].at \in {"subscribed", "live"}}
HasCapacity == ~busClosed /\ Cardinality(Subscribed) < MaxSubscribers

BusInit ==
    /\ ledger = NoVersion /\ announced = NoVersion
    /\ stream = [s \in Streams |-> NewStream]
    /\ busClosed = FALSE

-----------------------------------------------------------------------------
(* Publishing.                                                             *)

\* A commit of the ledger; the next one of the job waits for _publish.
Transition(j) ==
    /\ ledger[j] < Transitions /\ announced[j] = ledger[j]
    /\ ledger' = [ledger EXCEPT ![j] = @ + 1]
    /\ UNCHANGED <<announced, stream, busClosed>>

Event(j) == [kind |-> "job", job |-> j, version |-> ledger[j]]
Sentinel == [kind |-> "close"]

\* Mutant: what does not fit is given up.
PutIfRoom(queue, item) == IF Len(queue) = QueueSize THEN queue ELSE Append(queue, item)

\* put_nowait; when the queue is full its oldest item makes room.
Put(queue, item) == Append(IF Len(queue) = QueueSize THEN Tail(queue) ELSE queue, item)

\* What is dropped, as long as no newer event of the same job follows it.
Dropped(s, j) ==
    LET full == Len(stream[s].queue) = QueueSize IN
    (stream[s].dropped \union (IF full THEN {stream[s].queue[1].job} ELSE {})) \ {j}

Deliver(s, j) ==
    [stream[s] EXCEPT !.queue = Put(@, Event(j)), !.dropped = Dropped(s, j)]

\* publish: nobody hears what comes after close.
Publish(j) ==
    /\ announced[j] # ledger[j]
    /\ announced' = [announced EXCEPT ![j] = ledger[j]]
    /\ stream' = [s \in Streams |->
                     IF s \in Subscribed /\ ~busClosed THEN Deliver(s, j) ELSE stream[s]]
    /\ UNCHANGED <<ledger, busClosed>>

\* Mutant: a full queue does not get the sentinel.
CloseIfRoom ==
    /\ ~busClosed
    /\ busClosed' = TRUE
    /\ stream' = [s \in Streams |->
                     IF s \in Subscribed /\ Len(stream[s].queue) < QueueSize
                     THEN [stream[s] EXCEPT !.queue = Append(@, Sentinel)] ELSE stream[s]]
    /\ UNCHANGED <<ledger, announced>>

\* close, the first step of Container.shutdown.
Close ==
    /\ ~busClosed
    /\ busClosed' = TRUE
    /\ stream' = [s \in Streams |->
                     IF s \in Subscribed THEN [stream[s] EXCEPT !.queue = Put(@, Sentinel)]
                                         ELSE stream[s]]
    /\ UNCHANGED <<ledger, announced>>

-----------------------------------------------------------------------------
(* Streams.                                                                *)

StreamGoes(s, at) == stream' = [stream EXCEPT ![s].at = at]

\* The route asks for room first and answers 503; the generator starts later.
Accept(s) ==
    /\ stream[s].at = "asked"
    /\ StreamGoes(s, IF HasCapacity THEN "accepted" ELSE "over")
    /\ UNCHANGED <<ledger, announced, busClosed>>

\* subscribed(): SubscriberLimitError when the room is gone.
Subscribe(s) ==
    /\ stream[s].at = "accepted"
    /\ StreamGoes(s, IF HasCapacity THEN "subscribed" ELSE "over")
    /\ UNCHANGED <<ledger, announced, busClosed>>

Snapshot(s) ==
    /\ stream[s].at = "subscribed"
    /\ stream' = [stream EXCEPT ![s].at = "live", ![s].view = ledger]
    /\ UNCHANGED <<ledger, announced, busClosed>>

\* queue.get; the sentinel ends the stream and unsubscribes it.
Receive(s) ==
    LET old == stream[s]
        item == Head(old.queue)
    IN
    /\ old.at = "live" /\ old.queue # <<>>
    /\ stream' = [stream EXCEPT ![s] =
                     IF item.kind = "close" THEN [NewStream EXCEPT !.at = "over"]
                     ELSE [old EXCEPT !.queue = Tail(old.queue), !.view[item.job] = item.version]]
    /\ UNCHANGED <<ledger, announced, busClosed>>

\* The client goes away: the generator is closed wherever it is.
Disconnect(s) ==
    /\ stream[s].at \in {"accepted", "subscribed", "live"}
    /\ stream' = [stream EXCEPT ![s] = [NewStream EXCEPT !.at = "over"]]
    /\ UNCHANGED <<ledger, announced, busClosed>>

StreamStep(s) == Accept(s) \/ Subscribe(s) \/ Snapshot(s) \/ Receive(s)

BusNext ==
    \/ \E j \in StreamJobs : Transition(j) \/ Publish(j)
    \/ Close
    \/ \E s \in Streams : StreamStep(s) \/ Disconnect(s)

BusSpec == BusInit /\ [][BusNext]_busVars
\* A client that stays reads what it is sent.
FairBusSpec == BusSpec /\ \A s \in Streams : WF_busVars(StreamStep(s))

-----------------------------------------------------------------------------
(* Properties.                                                             *)

\* A client that has received everything sent to it sees each job as it is,
\* unless the newest event of that job was dropped to make room for another
\* job: nothing falls between the snapshot and the first event, no old event
\* stays on top of a newer snapshot, and no subscriber gets more than its room.
ClientSeesLedger ==
    ~busClosed => \A s \in Subscribed :
        /\ Len(stream[s].queue) <= QueueSize
        /\ stream[s].at = "live" /\ stream[s].queue = <<>> =>
              \A j \in StreamJobs \ stream[s].dropped :
                  announced[j] = ledger[j] => stream[s].view[j] = ledger[j]

\* Every stream ends after close, however full its queue was, also one that
\* was accepted and had not subscribed.
StreamsEnd == \A s \in Streams : busClosed ~> stream[s].at = "over"
=============================================================================

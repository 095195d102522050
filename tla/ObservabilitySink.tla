------------------------- MODULE ObservabilitySink -------------------------
(***************************************************************************)
(* DuckDbSink (adapters/observability/duckdb_sink.py): rows of the query   *)
(* log and of the metrics go through a bounded queue to the thread that    *)
(* writes them in batches.                                                 *)
(*                                                                         *)
(* append and close run on the event loop, one call at a time; the thread  *)
(* gets in between any two operations on the queue, and between load and   *)
(* store of `dropped +=`, which both do without a lock.  Rows are named in *)
(* the order of their append.  That close waits ten seconds at most is     *)
(* left out: the process ends then, and the thread with it.                *)
(***************************************************************************)
EXTENDS Integers, Sequences, FiniteSets

CONSTANTS
    SinkRoom,      \* max_queue
    BatchMax,      \* _BATCH_MAX
    SinkRows       \* bound: rows that are appended

VARIABLES
    sinkQueue,     \* the queue: rows, and the sentinel 0 of close
    producer,      \* the call of append or of close that runs
    writer,        \* the thread: where it is, its batch, and whether it stops
    appended,      \* rows appended so far
    written,       \* rows that are in a table
    lossCount,     \* DuckDbSink.dropped
    loaded,        \* lossCount as each side has loaded it
    overwritten    \* history: what stores of a stale sum took back from lossCount

lossVars == <<lossCount, loaded, overwritten>>
sinkVars == <<sinkQueue, producer, writer, appended, written, lossVars>>

Stop == 0
Full == Len(sinkQueue) >= SinkRoom

SinkInit ==
    /\ sinkQueue = <<>>
    /\ producer = "idle"
    /\ writer = [at |-> "get", batch |-> <<>>, stopping |-> FALSE]
    /\ appended = 0 /\ written = {}
    /\ lossCount = 0 /\ loaded = [loop |-> 0, thread |-> 0] /\ overwritten = 0

\* dropped += n of either side.
Load(side) ==
    loaded' = [loaded EXCEPT ![side] = lossCount] /\ UNCHANGED <<lossCount, overwritten>>

Store(side, n) ==
    /\ lossCount' = loaded[side] + n
    /\ overwritten' = overwritten + (lossCount - loaded[side])
    /\ UNCHANGED loaded

-----------------------------------------------------------------------------
(* The event loop.                                                         *)

\* append: put_nowait, which succeeds or raises Full; then a row will be lost.
Offer ==
    /\ producer = "idle" /\ appended < SinkRows
    /\ appended' = appended + 1
    /\ IF Full THEN producer' = "full" /\ UNCHANGED sinkQueue
       ELSE sinkQueue' = Append(sinkQueue, appended + 1) /\ UNCHANGED producer
    /\ UNCHANGED <<writer, written, lossVars>>

CountFull ==
    /\ \/ producer = "full" /\ producer' = "counting" /\ Load("loop")
       \/ producer = "counting" /\ producer' = "evict" /\ Store("loop", 1)
    /\ UNCHANGED <<sinkQueue, writer, appended, written>>

\* get_nowait: the oldest row goes; when the thread has emptied the queue
\* meanwhile, the new one does.
Evict ==
    /\ producer = "evict"
    /\ IF sinkQueue = <<>> THEN producer' = "idle" /\ UNCHANGED sinkQueue
                           ELSE producer' = "put" /\ sinkQueue' = Tail(sinkQueue)
    /\ UNCHANGED <<writer, appended, written, lossVars>>

PutNewest ==
    /\ producer = "put"
    /\ producer' = "idle"
    /\ sinkQueue' = Append(sinkQueue, appended)
    /\ UNCHANGED <<writer, appended, written, lossVars>>

\* close: put blocks until there is room, and the loop with it; then join.
CloseSink ==
    /\ producer \in {"idle", "closing"}
    /\ IF Full THEN producer' = "closing" /\ UNCHANGED sinkQueue
       ELSE producer' = "closed" /\ sinkQueue' = Append(sinkQueue, Stop)
    /\ UNCHANGED <<writer, appended, written, lossVars>>

-----------------------------------------------------------------------------
(* The thread.                                                             *)

\* Mutant: the sentinel ends the thread where it is met.
GetOrQuit ==
    /\ writer.at \in {"get", "fill"} /\ sinkQueue # <<>> /\ Len(writer.batch) < BatchMax
    /\ sinkQueue' = Tail(sinkQueue)
    /\ writer' = IF Head(sinkQueue) = Stop THEN [writer EXCEPT !.at = "stopped", !.batch = <<>>]
                 ELSE [writer EXCEPT !.at = "fill", !.batch = Append(@, Head(sinkQueue))]
    /\ UNCHANGED <<producer, appended, written, lossVars>>

\* The first row, waited for, and those that follow at once; after the
\* sentinel nothing more is taken when the batch has begun.
Get ==
    /\ writer.at \in {"get", "fill"} /\ sinkQueue # <<>> /\ Len(writer.batch) < BatchMax
    /\ sinkQueue' = Tail(sinkQueue)
    /\ writer' = IF Head(sinkQueue) # Stop
                 THEN [writer EXCEPT !.at = "fill", !.batch = Append(@, Head(sinkQueue))]
                 ELSE [writer EXCEPT !.at = IF @ = "get" THEN "fill" ELSE "flush",
                                     !.stopping = TRUE]
    /\ UNCHANGED <<producer, appended, written, lossVars>>

EndBatch ==
    /\ writer.at = "fill" /\ (sinkQueue = <<>> \/ Len(writer.batch) = BatchMax)
    /\ writer' = [writer EXCEPT !.at = "flush"]
    /\ UNCHANGED <<sinkQueue, producer, appended, written, lossVars>>

NextBatch ==
    writer' = [writer EXCEPT !.at = IF writer.stopping THEN "stopped" ELSE "get", !.batch = <<>>]

\* _flush: all rows, or those of the tables that came before an error.
Batch == {writer.batch[i] : i \in DOMAIN writer.batch}
Flush ==
    /\ writer.at = "flush"
    /\ \/ NextBatch /\ written' = written \union Batch
       \/ /\ Batch # {}
          /\ \E some \in SUBSET Batch : written' = written \union some
          /\ writer' = [writer EXCEPT !.at = "failed"]
    /\ UNCHANGED <<sinkQueue, producer, appended, lossVars>>

\* After an error the whole batch is counted as lost.
CountBatch ==
    /\ \/ /\ writer.at = "failed" /\ Load("thread")
          /\ writer' = [writer EXCEPT !.at = "counting"]
       \/ /\ writer.at = "counting" /\ Store("thread", Cardinality(Batch))
          /\ NextBatch
    /\ UNCHANGED <<sinkQueue, producer, appended, written>>

WriterStep == Get \/ EndBatch \/ Flush \/ CountBatch
SinkNext == Offer \/ CountFull \/ Evict \/ PutNewest \/ CloseSink \/ WriterStep
SinkSpec == SinkInit /\ [][SinkNext]_sinkVars

\* The thread runs on, and close goes on once there is room.
ClosingGoesOn == producer = "closing" /\ CloseSink
FairSinkSpec == SinkSpec /\ WF_sinkVars(WriterStep) /\ WF_sinkVars(ClosingGoesOn)

-----------------------------------------------------------------------------
(* Properties.                                                             *)

\* Rows that are in the queue, in the batch, or in the hands of append.
Held == {sinkQueue[i] : i \in DOMAIN sinkQueue} \union Batch
           \union (IF producer \in {"full", "counting", "put"} THEN {appended} ELSE {})

\* No row is lost in silence: what is neither in a table nor on its way to one
\* is counted, but for counts that one side's store took back from the other,
\* however append and the thread interleave.
LossIsCounted == Cardinality((1..appended) \ (written \union Held)) <= lossCount + overwritten

\* Once close has begun the thread stops, with every row behind it.
SinkStops == producer \in {"closing", "closed"} ~> (writer.at = "stopped" /\ sinkQueue = <<>>)
=============================================================================

--------------------------- MODULE MetricsHistory ---------------------------
(***************************************************************************)
(* The history of a counter (adapters/observability/metrics_history.py):   *)
(* the registry is sampled from time to time, the samples go through the   *)
(* sink, which may lose some, and a reader turns those that are left into  *)
(* the rise over each window of time.  The process may restart, and the    *)
(* counter begins at zero then.                                            *)
(***************************************************************************)
EXTENDS Naturals, SequencesExt

CONSTANTS
    HistoryEnd,    \* bound: the last moment
    SampleEvery,   \* metrics_snapshot_interval_s
    WindowSizes,   \* values of step_s that are asked for
    MaxCount,      \* bound: increments of the counter, over a behaviour
    MaxRestarts    \* bound: restarts of the process

ASSUME HistoryAssumption ==
    /\ HistoryEnd \in Nat /\ SampleEvery \in Nat \ {0} /\ WindowSizes \subseteq Nat \ {0}
    /\ MaxCount \in Nat /\ MaxRestarts \in Nat

VARIABLES
    moment,    \* time
    counter,   \* the counter in the registry
    due,       \* when the snapshotter wakes
    samples,   \* metrics_samples: when, which value, and (history) the count of all and the life of the process
    total,     \* history: all increments
    life       \* history: restarts so far

historyVars == <<moment, counter, due, samples, total, life>>

HistoryInit ==
    /\ moment = 0 /\ counter = 0 /\ total = 0 /\ life = 0
    /\ samples = <<[ts |-> 0, value |-> 0, total |-> 0, life |-> 0]>>
    /\ due = SampleEvery

-----------------------------------------------------------------------------
(* The process.                                                            *)

Tick ==
    /\ moment < HistoryEnd
    /\ moment' = moment + 1
    /\ UNCHANGED <<counter, due, samples, total, life>>

Count ==
    /\ total < MaxCount
    /\ counter' = counter + 1 /\ total' = total + 1
    /\ UNCHANGED <<moment, due, samples, life>>

\* snapshot: the sample is written in the end, or lost.
Sampled(value, n) ==
    \/ samples' = Append(samples, [ts |-> moment, value |-> value, total |-> total, life |-> n])
    \/ UNCHANGED samples

\* _run: never before the interval is over, and late when the loop is busy.
Sample ==
    /\ moment >= due
    /\ Sampled(counter, life)
    /\ due' = moment + SampleEvery
    /\ UNCHANGED <<moment, counter, total, life>>

\* start: the first snapshot is taken at once.
RestartHistory ==
    /\ life < MaxRestarts
    /\ life' = life + 1 /\ counter' = 0
    /\ Sampled(0, life + 1)
    /\ due' = moment + SampleEvery
    /\ UNCHANGED <<moment, total>>

HistoryNext == Tick \/ Count \/ Sample \/ RestartHistory

HistorySpec == HistoryInit /\ [][HistoryNext]_historyVars

-----------------------------------------------------------------------------
(* The reader.                                                             *)

\* read_series: the samples from a time on, oldest first: by their positions.
read_series(since) == {i \in DOMAIN samples : samples[i].ts >= since}

\* The samples of a window, and the windows that have any.
Window(i, step) == samples[i].ts \div step
Windows(points, step) == {Window(i, step) : i \in points}
Inside(points, w, step) == {i \in points : Window(i, step) = w}

Rise(from, to) == IF to < from THEN 0 ELSE to - from
Oldest(points) == samples[Min(points)]
Latest(points) == samples[Max(points)]

\* Mutant: every window is measured against its own first sample.
OwnBaseline(points, step) ==
    [w \in Windows(points, step) |->
        Rise(Oldest(Inside(points, w, step)).value, Latest(Inside(points, w, step)).value)]

\* _downsample of a cumulative family: the rise of each window over the last
\* sample of the one before it, or over its own first in the first window;
\* never negative.
downsample(points, step) ==
    [w \in Windows(points, step) |->
        LET inside == Inside(points, w, step)
            earlier == {v \in Windows(points, step) : v < w}
            baseline == IF earlier = {} THEN Oldest(inside) ELSE Latest(Inside(points, Max(earlier), step))
        IN Rise(baseline.value, Latest(inside).value)]

-----------------------------------------------------------------------------
(* Properties.                                                             *)

\* What the windows tell together.
Told(rise) ==
    LET told[w \in 0..HistoryEnd] ==
            (IF w = 0 THEN 0 ELSE told[w - 1]) + (IF w \in DOMAIN rise THEN rise[w] ELSE 0)
    IN told[HistoryEnd]

\* No increment is told twice, whichever samples are lost, wherever windows
\* begin, and however often the process restarts; and between the first and
\* the last sample of one life of the process none is missing: the rise of
\* the windows adds up ("every window is a consistent within-window delta",
\* metrics_history.py:152-160).
RiseIsAccounted ==
    \A since \in 0..HistoryEnd, step \in WindowSizes :
        LET points == read_series(since)
            told == Told(downsample(points, step))
            counted == Latest(points).total - Oldest(points).total IN
        points # {} =>
            /\ told <= counted
            /\ Oldest(points).life = Latest(points).life => told = counted
=============================================================================

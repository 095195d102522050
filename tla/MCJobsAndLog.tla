---------------------------- MODULE MCJobsAndLog ----------------------------
(* Two jobs and one request to retry at a time; or a log of three queries  *)
(* of two texts and two models, with a replay; or a counter that is        *)
(* sampled.  They share no state: one of them moves in a behaviour.        *)
EXTENDS JobQueue, QueryLog, MetricsHistory, TLC

CONSTANTS j1, j2, c1, p1, p2

TwoJobs == {j1, j2}
OneCaller == {c1}
TwoPages == {p1, p2}

\* Jobs are interchangeable, and so are the pages that feedback is given on:
\* no definition names one of them.
Symmetry == Permutations(TwoJobs) \union Permutations(TwoPages)

ThreeRuns == <<[text |-> "a", model |-> "m1"], [text |-> "a", model |-> "m2"], [text |-> "b", model |-> "m1"]>>
SomeScores == {[since |-> 1, model |-> "any"], [since |-> 2, model |-> "m1"]}
SomeTraces == {[only |-> 0, limit |-> 2], [only |-> 1, limit |-> 1]}

VARIABLE service

JobsAndLogInit == service \in {"jobs", "log", "history"} /\ Init /\ LogInit /\ HistoryInit

JobsAndLogNext ==
    \/ service = "jobs" /\ UNCHANGED <<service, logVars, historyVars>> /\ Next
    \/ service = "log" /\ UNCHANGED <<service, vars, historyVars>> /\ LogNext
    \/ service = "history" /\ UNCHANGED <<service, vars, logVars>> /\ HistoryNext

JobsAndLogSpec == JobsAndLogInit /\ [][JobsAndLogNext]_<<vars, logVars, historyVars, service>>
=============================================================================

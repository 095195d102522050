------------------------------ MODULE QueryLog ------------------------------
(***************************************************************************)
(* The log of queries and the feedback on them                             *)
(* (adapters/observability/query_log.py, feedback_service.py), and what is *)
(* made of both: the scores of the logged runs and the golden queries of a *)
(* replay (query_log_reader.py, eval_service.py), which is a durable job   *)
(* with a durable result (admin_eval.py).                                  *)
(*                                                                         *)
(* The sink in between is ObservabilitySink, told by what becomes of a     *)
(* row: it waits, and is written in the order of the appends or lost. Runs *)
(* are numbered as they are logged. A reader and the thread of the sink    *)
(* shut each other out of the file, so that a read is one step and the two *)
(* reads of a report are two; reports are made one at a time. Texts are    *)
(* equal when _normalize makes them so; what a ranking is worth is         *)
(* Evaluation's.                                                           *)
(***************************************************************************)
EXTENDS Naturals, FiniteSets, SequencesExt

CONSTANTS
    LoggedRuns,      \* per run, its text and its model
    LabelPages,      \* pages that feedback is given on
    ScoreAsks,       \* the scores that are asked for: since which run, of which model
    TraceAsks,       \* the traces that are asked for: of which run (0: any), how many
    MaxLabels,       \* bound: feedback that is given
    ReplayAttempts,  \* JobsSettings.max_attempts
    LogTroubles      \* bound: lost rows, failed reads and replays, crashes

ASSUME QueryLogAssumption ==
    /\ \A q \in DOMAIN LoggedRuns : DOMAIN LoggedRuns[q] = {"text", "model"}
    /\ \A a \in ScoreAsks : DOMAIN a = {"since", "model"}
    /\ \A a \in TraceAsks : DOMAIN a = {"only", "limit"}
    /\ MaxLabels \in Nat /\ ReplayAttempts \in Nat \ {0} /\ LogTroubles \in Nat

VARIABLES
    rows,         \* query_log and feedback, in the order of the appends
    fate,         \* of each row: "buffered", "written" or "lost"
    reporting,        \* the report that is made
    replay,       \* the replay job: its status, attempts and stored result
    logTroubles   \* how much of LogTroubles has been used

logVars == <<rows, fate, reporting, replay, logTroubles>>

Queries == DOMAIN LoggedRuns
NoReport == [at |-> "idle"]
With(outcome) == {i \in DOMAIN rows : fate[i] = outcome}
LogTrouble == logTroubles < LogTroubles /\ logTroubles' = logTroubles + 1

LogInit ==
    /\ rows = <<>> /\ fate = <<>>
    /\ reporting = NoReport
    /\ replay = [status |-> "none", attempts |-> 0, result |-> "none"]
    /\ logTroubles = 0

-----------------------------------------------------------------------------
(* Writing.                                                                *)

\* append: the row waits; when the queue is full the oldest row is lost, or
\* the new one if the thread has emptied the queue meanwhile.
AppendRow(row) ==
    LET waiting == Append(fate, "buffered")
        oldest == Min(With("buffered") \union {Len(rows) + 1}) IN
    /\ rows' = Append(rows, row)
    /\ \/ fate' = waiting /\ UNCHANGED logTroubles
       \/ LogTrouble /\ \E i \in {oldest, Len(rows) + 1} : fate' = [waiting EXCEPT ![i] = "lost"]
    /\ UNCHANGED <<reporting, replay>>

Logged == Cardinality({i \in DOMAIN rows : rows[i].of = "query_log"})

LogQuery ==
    /\ Logged + 1 \in Queries
    /\ AppendRow([of |-> "query_log", query |-> Logged + 1])

FeedbackRow(q, p, word) == [of |-> "feedback", query |-> q, page |-> p, word |-> word]

\* The client has the id of a run from its answer.  Any other id is taken as
\* well, and is as that of a run whose row is lost.
LogFeedback(q, p, word) ==
    /\ q <= Logged /\ Len(rows) - Logged < MaxLabels
    /\ AppendRow(FeedbackRow(q, p, word))

\* _flush: a batch is written table by table, that of its first row first.
Sooner(i, j, batch) ==
    LET first(k) == rows[k].of = rows[Min(batch)].of IN
    (first(i) /\ ~first(j)) \/ (first(i) = first(j) /\ i < j)

\* A batch is all rows up to one; when it fails the rest of it is lost.
WriteBatch ==
    \E last \in With("buffered") :
        LET batch == {i \in With("buffered") : i <= last}
            rank(i) == Cardinality({j \in batch : Sooner(j, i, batch)})
            Writes(n) == fate' = [i \in DOMAIN fate |-> IF i \notin batch THEN fate[i]
                                                      ELSE IF rank(i) < n THEN "written" ELSE "lost"]
        IN
        /\ \/ Writes(Cardinality(batch)) /\ UNCHANGED logTroubles
           \/ LogTrouble /\ \E n \in 0 .. Cardinality(batch) - 1 : Writes(n)
        /\ UNCHANGED <<rows, reporting, replay>>

-----------------------------------------------------------------------------
(* Reading.                                                                *)

Table(name) ==
    LET written == SetToSortSeq(With("written"), <) IN
    SelectSeq([i \in DOMAIN written |-> rows[written[i]]], LAMBDA r : r.of = name)

\* read_runs: the queries logged since a run, oldest first.
read_runs(since) ==
    LET table == Table("query_log") IN
    SelectSeq([i \in DOMAIN table |-> table[i].query], LAMBDA q : q >= since)

\* No word on any page.
Unlabelled == [q \in Queries |-> [p \in LabelPages |-> "none"]]

\* Mutant: the first word on a page wins.
FirstLabels == FoldLeft(LAMBDA labels, r : [labels EXCEPT ![r.query][r.page] = IF @ = "none" THEN r.word ELSE @],
                        Unlabelled, Table("feedback"))

\* read_labels: the latest word on a page wins.
read_labels == FoldLeft(LAMBDA labels, r : [labels EXCEPT ![r.query][r.page] = r.word],
                        Unlabelled, Table("feedback"))

\* read_detailed_runs: each run with the words on its pages.
read_detailed_runs(runs) == [q \in ToSet(runs) |-> read_labels[q]]

IsLabelled(labels, q) == \E p \in LabelPages : labels[q][p] # "none"
Positives(labels, q) == {p \in LabelPages : labels[q][p] = "yes"}

\* score_log: every labelled run that has a positive is scored.
score_log(runs, labels) ==
    LET labelled == SelectSeq(runs, LAMBDA q : IsLabelled(labels, q))
        scores == SelectSeq(labelled, LAMBDA q : Positives(labels, q) # {}) IN
    [logged |-> Len(runs), labeled |-> Len(labelled), scored |-> Len(scores),
     skipped |-> Len(labelled) - Len(scores),
     relevant |-> [q \in ToSet(scores) |-> Positives(labels, q)]]

\* _by_model, _model_report: how many scores are of a model.
by_model(report) ==
    [m \in {LoggedRuns[q].model : q \in DOMAIN report.relevant} |->
        Cardinality({q \in DOMAIN report.relevant : LoggedRuns[q].model = m})]

\* Per text, in the order of its first labelled run, what its runs were given.
ByText(runs, labels) ==
    LET labelled == SelectSeq(runs, LAMBDA q : IsLabelled(labels, q))
        first == SelectSeq(labelled, LAMBDA q : \A r \in ToSet(labelled) :
                              LoggedRuns[r].text = LoggedRuns[q].text => q <= r)
        sources(q) == SelectSeq(labelled, LAMBDA r : LoggedRuns[r].text = LoggedRuns[q].text)
    IN [i \in DOMAIN first |->
          [text |-> LoggedRuns[first[i]].text, sources |-> sources(first[i]),
           relevant |-> UNION {Positives(labels, r) : r \in ToSet(sources(first[i]))}]]

\* build_golden_set: a text without a positive is left out.
build_golden_set(runs, labels) == SelectSeq(ByText(runs, labels), LAMBDA g : g.relevant # {})

-----------------------------------------------------------------------------
(* Reports.                                                                *)

AttemptFailed ==
    LET n == replay.attempts + 1 IN
    replay' = [replay EXCEPT !.attempts = n, !.status = IF n < ReplayAttempts THEN "pending" ELSE "dead"]

\* score_log: the runs of a time, of one model or of any.
AskScore(ask) ==
    /\ reporting = NoReport
    /\ LET runs == read_runs(ask.since) IN
       reporting' = [at |-> "labels", kind |-> "score",
                     runs |-> SelectSeq(runs, LAMBDA q : ask.model \in {"any", LoggedRuns[q].model})]
    /\ UNCHANGED <<rows, fate, replay, logTroubles>>

\* The traces of the newest runs, or of one that is asked for by its id.
Traced(ask) ==
    LET runs == SelectSeq(Reverse(read_runs(1)), LAMBDA q : ask.only \in {0, q}) IN
    SubSeq(runs, 1, Min({ask.limit, Len(runs)}))
AskTraces(ask) ==
    /\ reporting = NoReport
    /\ reporting' = [at |-> "labels", kind |-> "traces", runs |-> Traced(ask)]
    /\ UNCHANGED <<rows, fate, replay, logTroubles>>

EnqueueReplay ==
    /\ replay.status = "none"
    /\ replay' = [replay EXCEPT !.status = "pending"]
    /\ UNCHANGED <<rows, fate, reporting, logTroubles>>

BeginReplay ==
    /\ reporting = NoReport /\ replay.status = "pending"
    /\ replay' = [replay EXCEPT !.status = "running"]
    /\ reporting' = [at |-> "runs", kind |-> "replay"]
    /\ UNCHANGED <<rows, fate, logTroubles>>

ReplayRuns ==
    /\ reporting.at = "runs"
    /\ reporting' = [at |-> "labels", kind |-> "replay", runs |-> read_runs(1)]
    /\ UNCHANGED <<rows, fate, replay, logTroubles>>

ReadLabels ==
    /\ reporting.at = "labels"
    /\ \/ /\ reporting.kind = "score"
          /\ reporting' = [at |-> "answer", kind |-> "score", report |-> score_log(reporting.runs, read_labels)]
       \/ /\ reporting.kind = "traces"
          /\ reporting' = [at |-> "answer", kind |-> "traces", report |-> read_detailed_runs(reporting.runs)]
       \/ /\ reporting.kind = "replay"
          /\ \E limit \in {1, Len(LoggedRuns)} :
                LET golden == build_golden_set(reporting.runs, read_labels) IN
                reporting' = [at |-> "arms", kind |-> "replay", of |-> SubSeq(golden, 1, Min({limit, Len(golden)}))]
    /\ UNCHANGED <<rows, fate, replay, logTroubles>>

Answer ==
    /\ reporting.at = "answer"
    /\ reporting' = NoReport
    /\ UNCHANGED <<rows, fate, replay, logTroubles>>

\* replay: both arms of every golden query; one without positives has no
\* score, which is an error.
ReplayArms ==
    /\ reporting.at = "arms"
    /\ LET scorable == \A i \in DOMAIN reporting.of : reporting.of[i].relevant # {} IN
       reporting' = [at |-> "put", kind |-> "replay", result |-> IF scorable THEN "report" ELSE "error"]
    /\ UNCHANGED <<rows, fate, replay, logTroubles>>

\* open_read_only gives up, or an arm fails: a client is answered with an
\* error, a replay stores it.
ReportFails ==
    /\ reporting.at \in {"runs", "labels", "arms"} /\ LogTrouble
    /\ reporting' = IF reporting.kind = "replay" THEN [at |-> "put", kind |-> "replay", result |-> "error"]
                ELSE NoReport
    /\ UNCHANGED <<rows, fate, replay>>

\* Mutant: the result of an earlier attempt is kept.
PutFirstResult ==
    /\ reporting.at = "put"
    /\ replay' = [replay EXCEPT !.result = IF @ = "none" THEN reporting.result ELSE @]
    /\ reporting' = [reporting EXCEPT !.at = "end"]
    /\ UNCHANGED <<rows, fate, logTroubles>>

\* put_eval_replay_result: the last attempt to store one overwrites it.
PutResult ==
    /\ reporting.at = "put"
    /\ replay' = [replay EXCEPT !.result = reporting.result]
    /\ reporting' = [reporting EXCEPT !.at = "end"]
    /\ UNCHANGED <<rows, fate, logTroubles>>

EndReplay ==
    /\ reporting.at = "end"
    /\ reporting' = NoReport
    /\ IF reporting.result = "report" THEN replay' = [replay EXCEPT !.status = "done"] ELSE AttemptFailed
    /\ UNCHANGED <<rows, fate, logTroubles>>

\* The lease of the job runs out: a cancellation is no Exception, and stores
\* nothing.
ReplayCancelled ==
    /\ replay.status = "running" /\ LogTrouble
    /\ AttemptFailed
    /\ reporting' = NoReport
    /\ UNCHANGED <<rows, fate>>

\* The process dies, with the rows that wait, and starts again.
LogCrash ==
    /\ LogTrouble
    /\ fate' = [i \in DOMAIN fate |-> IF fate[i] = "buffered" THEN "lost" ELSE fate[i]]
    /\ replay' = [replay EXCEPT !.status = IF @ = "running" THEN "pending" ELSE @]
    /\ reporting' = NoReport
    /\ UNCHANGED rows

\* A dead replay is retried by an operator.
RetryReplay ==
    /\ replay.status = "dead" /\ LogTrouble
    /\ replay' = [replay EXCEPT !.status = "pending", !.attempts = 0]
    /\ UNCHANGED <<rows, fate, reporting>>

LogNext ==
    \/ LogQuery \/ WriteBatch
    \/ \E q \in Queries, p \in LabelPages, word \in {"yes", "no"} : LogFeedback(q, p, word)
    \/ \E ask \in ScoreAsks : AskScore(ask)
    \/ \E ask \in TraceAsks : AskTraces(ask)
    \/ ReadLabels \/ Answer \/ ReportFails
    \/ EnqueueReplay \/ BeginReplay \/ ReplayRuns \/ ReplayArms \/ PutResult \/ EndReplay
    \/ ReplayCancelled \/ RetryReplay \/ LogCrash

LogSpec == LogInit /\ [][LogNext]_logVars

-----------------------------------------------------------------------------
(* Properties.                                                             *)

\* The last word of the clients on a page that is in the table; it is their
\* last word altogether when no row is lost or waits.
LastWord(q, p) ==
    LET said == {i \in With("written") : rows[i].of = "feedback" /\ rows[i].query = q /\ rows[i].page = p}
    IN IF said = {} THEN "none" ELSE rows[Max(said)].word
Wanting(q) == {p \in LabelPages : LastWord(q, p) = "yes"}

\* A score counts a run once, and against the pages that the last surviving
\* word on them makes relevant, whatever was lost or written between its two
\* reads; feedback on a run it did not read counts nowhere; and a trace tells
\* of these words ("the latest label per page wins", query_log_reader.py:65).
ScoresAreTrue ==
    [][reporting.at = "labels" /\ reporting'.at = "answer" =>
         LET report == reporting'.report
             read == ToSet(reporting.runs)
         IN  IF reporting.kind = "traces" THEN report = [q \in read |-> [p \in LabelPages |-> LastWord(q, p)]]
             ELSE LET models == by_model(report) IN
                  /\ report.logged = Cardinality(read)
                  /\ report.relevant = [q \in {r \in read : Wanting(r) # {}} |-> Wanting(q)]
                  /\ report.scored = MapThenSumSet(LAMBDA m : models[m], DOMAIN models)
                  /\ report.skipped =
                        Cardinality({q \in read : Wanting(q) = {} /\ \E p \in LabelPages : LastWord(q, p) = "no"})]_logVars

\* A replay is of every text of which a score would score a run, once, with
\* the pages relevant to any of these, as far as its limit goes; so that none
\* of its queries is without positives, as eval_service.py:317 has it.
GoldenAgrees ==
    [][reporting.at = "labels" /\ reporting'.at = "arms" =>
         LET golden == reporting'.of
             relevant == score_log(reporting.runs, read_labels).relevant
             texts == {LoggedRuns[q].text : q \in DOMAIN relevant} IN
         /\ Cardinality({golden[i].text : i \in DOMAIN golden}) = Len(golden)
         /\ {golden[i].text : i \in DOMAIN golden} \subseteq texts
         /\ Len(golden) \in {1, Cardinality(texts)}
         /\ \A i \in DOMAIN golden :
               /\ golden[i].relevant # {}
               /\ golden[i].relevant =
                     UNION {relevant[q] : q \in {r \in DOMAIN relevant : LoggedRuns[r].text = golden[i].text}}]_logVars

\* What is made of the log is true of it, for scores, traces and replays.
ReportsAreTrue == ScoresAreTrue /\ GoldenAgrees

\* A replay that is done has its report, whatever its attempts before have
\* stored ("its completed report, or terminal failure", admin.py:402).
DoneHasReport == replay.status = "done" => replay.result = "report"
=============================================================================

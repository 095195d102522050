------------------------------ MODULE JobLedger ------------------------------
(***************************************************************************)
(* What the ledger of durable jobs promises to the rest of the program,    *)
(* with no message, worker or process in sight: the life of a job as the   *)
(* docstrings of the ledger methods in adapters/metadata/sqlite_store.py   *)
(* and the statuses of JobStatus tell it.  JobQueue implements it as long  *)
(* as manual retries of one job do not overlap.                            *)
(***************************************************************************)
EXTENDS Naturals

CONSTANTS Jobs, MaxAttempts

VARIABLES status, attempts

vars == <<status, attempts>>

Init == /\ status = [j \in Jobs |-> "absent"]
        /\ attempts = [j \in Jobs |-> 0]

Goes(j, from, to) == /\ status[j] \in from
                     /\ status' = [status EXCEPT ![j] = to]

\* The row is inserted once; a duplicate key changes nothing.
Submit(j) == Goes(j, {"absent"}, "pending") /\ UNCHANGED attempts

\* Only a pending or a failed job runs.
Run(j) == Goes(j, {"pending", "failed"}, "running") /\ UNCHANGED attempts

Succeed(j) == Goes(j, {"running"}, "done") /\ UNCHANGED attempts

\* A counted failure, with attempts left.
Fail(j) == /\ Goes(j, {"running"}, "failed")
           /\ attempts[j] + 1 < MaxAttempts
           /\ attempts' = [attempts EXCEPT ![j] = @ + 1]

\* An outage: the job is failed, the attempt is not counted.
Defer(j) == Goes(j, {"running"}, "failed") /\ UNCHANGED attempts

\* The last attempt failed.
Die(j) == /\ Goes(j, {"running"}, "dead")
          /\ attempts[j] + 1 = MaxAttempts
          /\ UNCHANGED attempts

\* Only a dead job is retried by hand, with its whole budget again.
Retry(j) == /\ Goes(j, {"dead"}, "pending")
            /\ attempts' = [attempts EXCEPT ![j] = 0]

\* Startup gives back the jobs that were running when the process died.
Recover(js) == /\ \A j \in js : status[j] = "running"
               /\ status' = [j \in Jobs |-> IF j \in js THEN "pending" ELSE status[j]]
               /\ UNCHANGED attempts

Next == \/ \E j \in Jobs : \/ Submit(j) \/ Run(j) \/ Succeed(j) \/ Fail(j)
                           \/ Defer(j) \/ Die(j) \/ Retry(j)
        \/ \E js \in SUBSET Jobs : Recover(js)

Spec == Init /\ [][Next]_vars
=============================================================================

--------------------------- MODULE CircuitBreaker ---------------------------
(***************************************************************************)
(* One circuit breaker and the calls it guards: the breaker of             *)
(* adapters/resilience/circuit_breaker.py, driven by _guarded_attempt of   *)
(* wrappers.py inside the retry loop of retry.py.                          *)
(*                                                                         *)
(* Everything runs on the event loop, so check() and the record_* methods  *)
(* are atomic; what interleaves is the calls: each is in flight or in its  *)
(* backoff while others come, end, time out or are cancelled.  A call that *)
(* was admitted while the breaker was closed may end in any later state.   *)
(***************************************************************************)
EXTENDS Naturals

CONSTANTS
    Calls,             \* calls that may be under way at a time
    FailureThreshold,  \* BreakerConfig.failure_threshold
    Attempts           \* RetryPolicy.attempts

ASSUME ThresholdAssumption == FailureThreshold \in Nat \ {0}
ASSUME AttemptsAssumption == Attempts \in Nat \ {0}

VARIABLES
    state,     \* BreakerState
    failures,  \* _consecutive_failures, saturated at the threshold: beyond it
               \* no comparison can tell two values apart
    cooling,   \* the cooldown that began at _opened_at is not over
    probing,   \* _probe_inflight
    call       \* of each call: where it is, its failed attempts, and whether
               \* its present attempt was admitted as a probe (history)

breakerVars == <<state, failures, cooling, probing>>
vars == <<breakerVars, call>>

CallState == [pc : {"idle", "flying", "backoff"},
              failed : 0 .. Attempts - 1,
              probe : BOOLEAN]

Idle == [pc |-> "idle", failed |-> 0, probe |-> FALSE]

Init ==
    /\ state = "closed"
    /\ failures = 0
    /\ cooling = FALSE
    /\ probing = FALSE
    /\ call = [c \in Calls |-> Idle]

-----------------------------------------------------------------------------
(* check()                                                                 *)

Admissible ==
    \/ state = "closed"
    \/ state = "open" /\ ~cooling
    \/ state = "half_open" /\ ~probing

Check ==
    /\ state' = IF state = "open" THEN "half_open" ELSE state
    /\ probing' = (probing \/ state # "closed")
    /\ UNCHANGED <<failures, cooling>>

Waiting(c) == call[c].pc \in {"idle", "backoff"}

Admit(c) ==
    /\ Waiting(c)
    /\ Admissible
    /\ Check
    /\ call' = [call EXCEPT ![c].pc = "flying", ![c].probe = (state # "closed")]

\* ProviderUnavailableError is not retryable: the call gives up at once.
FastFail(c) ==
    /\ Waiting(c)
    /\ ~Admissible
    /\ call' = [call EXCEPT ![c] = Idle]
    /\ UNCHANGED breakerVars

-----------------------------------------------------------------------------
(* record_success(), record_failure(), record_cancellation()               *)

Open == state' = "open" /\ cooling' = TRUE

RecordSuccess ==
    /\ state' = "closed"
    /\ failures' = 0
    /\ probing' = FALSE
    /\ UNCHANGED cooling

RecordFailure ==
    /\ failures' = IF failures < FailureThreshold THEN failures + 1 ELSE failures
    /\ probing' = FALSE
    /\ \/ /\ \/ state = "half_open"
             \/ state = "closed" /\ failures' >= FailureThreshold
          /\ Open
       \/ /\ \/ state = "open"
             \/ state = "closed" /\ failures' < FailureThreshold
          /\ UNCHANGED <<state, cooling>>

\* Mutant: a probe that is cancelled leaves no trace.
CancellationIgnored == UNCHANGED breakerVars

RecordCancellation ==
    \/ /\ state = "half_open" /\ probing
       /\ probing' = FALSE
       /\ Open
       /\ UNCHANGED failures
    \/ /\ ~(state = "half_open" /\ probing)
       /\ UNCHANGED breakerVars

-----------------------------------------------------------------------------
(* How an attempt ends.                                                    *)

Flying(c) == call[c].pc = "flying"

\* A result, or an error that is not transient: the provider responded.
Respond(c) ==
    /\ Flying(c)
    /\ RecordSuccess
    /\ call' = [call EXCEPT ![c] = Idle]

\* A transient error or the timeout of wait_for, retried while attempts last.
FailTransiently(c) ==
    /\ Flying(c)
    /\ RecordFailure
    /\ call' = [call EXCEPT ![c] =
                   IF @.failed + 1 < Attempts
                     THEN [pc |-> "backoff", failed |-> @.failed + 1, probe |-> FALSE]
                     ELSE Idle]

\* A lease timeout or a client that is gone; a backoff is cancelled unseen.
Cancel(c) ==
    /\ call[c].pc # "idle"
    /\ call' = [call EXCEPT ![c] = Idle]
    /\ \/ Flying(c) /\ RecordCancellation
       \/ ~Flying(c) /\ UNCHANGED breakerVars

CooldownEnds ==
    /\ cooling
    /\ cooling' = FALSE
    /\ UNCHANGED <<state, failures, probing, call>>

-----------------------------------------------------------------------------
Next == \/ CooldownEnds
        \/ \E c \in Calls : \/ Admit(c) \/ FastFail(c)
                            \/ Respond(c) \/ FailTransiently(c) \/ Cancel(c)

Spec == Init /\ [][Next]_vars

-----------------------------------------------------------------------------
(* Properties.                                                             *)

\* Every variable has its type; a saturated count never leaves its range.
TypeOK ==
    /\ state \in {"closed", "open", "half_open"}
    /\ failures \in 0 .. FailureThreshold
    /\ cooling \in BOOLEAN
    /\ probing \in BOOLEAN
    /\ call \in [Calls -> CallState]

\* A half-open breaker, which rejects everyone else, always has a probe under
\* way whose end will take it out of that state; a late end of a call from
\* before the outage cannot strand it (record_cancellation is there for this).
HalfOpenHasProbe ==
    state = "half_open" => probing /\ \E c \in Calls : Flying(c) /\ call[c].probe

\* A closed breaker is never at its threshold: whichever call closed it, late
\* or not, the failures of the outage before are forgotten.
ClosedBelowThreshold == state = "closed" => failures < FailureThreshold
=============================================================================

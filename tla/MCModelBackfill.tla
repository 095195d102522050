-------------------------- MODULE MCModelBackfill --------------------------
(* Instances of ModelBackfill for TLC: two models, one of them configured. *)
(* A behaviour has all the bounds and one client, or two clients whose     *)
(* requests meet, with one backfill and no trouble.                        *)
EXTENDS ModelBackfill

CONSTANTS m1, m2, c1, c2

OnlyNew == {m2}
TwoModels == {m1, m2}
TwoClients == {c1, c2}

VARIABLE course

\* What is cut off is the beginning of a request and a trouble, never a step
\* that fairness is about.
Bounded ==
    /\ course = "alone" => client'[c2] = Idle
    /\ course = "together" =>
         used'.troubles = used.troubles /\ Len(jobs') + Cardinality(Starting') <= 1

CourseInit == course \in {"alone", "together"} /\ Init

CourseSpec ==
    /\ CourseInit
    /\ [][Next /\ Bounded /\ UNCHANGED course]_<<vars, course>>
    /\ Fairness
=============================================================================

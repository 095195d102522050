------------------------- MODULE MCForgetTombstones -------------------------
(* Instances of ForgetTombstones for TLC: one or two pages of a domain.    *)
EXTENDS ForgetTombstones, TLC

CONSTANTS p1, p2, c1

OnePage == {p1}
TwoPages == {p1, p2}
OneIngest == {c1}

\* Pages are interchangeable: no definition names one of them.
Symmetry == Permutations(Pages)

\* A rule is asked for only while a page it names, or one of the domain, can
\* still be ingested: states that differ in other rules behave alike.
Blocked == {t \in rules : \E p \in Pages : row[p] = "none" /\ t \in {p, Domain}}
WithoutOldRules == <<row, Blocked, ingest, unsent, tombVars, ledgerVars, vectorVars,
                     worker, used>>
=============================================================================

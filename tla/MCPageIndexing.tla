--------------------------- MODULE MCPageIndexing ---------------------------
(* Instances of PageIndexing for TLC: one page, hence two jobs.            *)
EXTENDS PageIndexing

CONSTANTS p1, c1

OnePage == {p1}
PageJobs == [kind : {"index", "entities"}, page : OnePage]
OneCaller == {c1}

NoLateOps == {}
AllLateOps == {"upsert", "delete"}
=============================================================================

---------------------------- MODULE MCClusterRun ----------------------------
(* Three pages, two of which make a corpus and one a reason to run.        *)
EXTENDS ClusterRun
=============================================================================

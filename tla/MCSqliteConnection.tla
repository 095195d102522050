------------------------- MODULE MCSqliteConnection -------------------------
(* Instances of SqliteConnection for TLC: the worker and two requests.      *)
EXTENDS SqliteConnection, TLC

CONSTANTS c1, c2, c3, p1, p2, j1, m1, m2

ThreeCallers == {c1, c2, c3}
TwoPages == {p1, p2}
OnePage == {p1}
OneJob == {j1}
TwoModels == {m1, m2}

Do(method, arg) == [method |-> method, arg |-> arg]

EveryMethod ==
    c1 :> {Do("replace_chunks", p1), Do("mark_job_done", j1)} @@
    c2 :> {Do("insert_page", p2), Do("purge_and_blacklist", p1)} @@
    c3 :> {Do("create_job", j1), Do("activate_model", m2)}
=============================================================================

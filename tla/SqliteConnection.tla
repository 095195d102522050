-------------------------- MODULE SqliteConnection --------------------------
(***************************************************************************)
(* The one aiosqlite connection of adapters/metadata/sqlite_store.py.      *)
(* Its methods are coroutines that await one statement after the other.    *)
(* Statements go through the FIFO of the connection's thread, answers come *)
(* back in the same order, and nothing keeps the statements of a method    *)
(* together: there is one transaction, everybody's.                        *)
(*                                                                         *)
(* The methods here are those whose transactions differ in kind; other     *)
(* writes of the store are, as mark_job_done is, one statement and a       *)
(* commit.  A page stands for its URL too, and a rule is the URL it is for.*)
(* A crash at any time leaves `committed`, so there is no action for it.   *)
(***************************************************************************)
EXTENDS SequencesExt

CONSTANTS
    Callers,     \* coroutines that call methods of the store: requests and
    Worker,      \* the one worker of the queue
    Pages, Jobs, Models,
    Stored,      \* the pages that are there at the start, with their chunks
    FirstModel,  \* the model that is active at the start
    NoCaller,    \* whom the answers to a cancelled call are for
    Workload     \* the calls each of them makes: methods with their argument

Methods == {"insert_page", "create_job", "mark_job_done", "replace_chunks",
            "purge_and_blacklist", "activate_model"}

ASSUME StartAssumption == Stored \subseteq Pages /\ FirstModel \in Models
ASSUME CallerAssumption == Worker \in Callers /\ NoCaller \notin Callers
ASSUME WorkloadAssumption ==
    Workload \in [Callers -> SUBSET [method : Methods, arg : Pages \union Jobs \union Models]]

VARIABLES
    committed,  \* the database as a restart would find it
    working,    \* the database as this connection sees it
    open,       \* in_transaction
    call,       \* the call each caller has under way
    line,       \* statements on their way to the thread
    replies,    \* answers on their way back to the event loop
    cut,        \* history: callers in whose call another one rolled back
    loose       \* history: pages of cancelled calls whose writes nobody ended yet

dbVars == <<committed, working, open>>
vars == <<dbVars, call, line, replies, cut, loose>>

\* Each table is the set of its keys; done is a status of jobs, active a flag
\* of embedding_models.
Database == [pages : SUBSET Pages, chunks : SUBSET Pages, tombs : SUBSET Pages,
             rules : SUBSET Pages, jobs : SUBSET Jobs, done : SUBSET Jobs,
             active : SUBSET Models]

Idle == [method |-> "none", arg |-> NoCaller]
Running(c) == call[c] # Idle

Init ==
    /\ committed = [pages |-> Stored, chunks |-> Stored, tombs |-> {}, rules |-> {},
                    jobs |-> {}, done |-> {}, active |-> {FirstModel}]
    /\ working = committed
    /\ open = FALSE
    /\ call = [c \in Callers |-> Idle]
    /\ line = <<>>
    /\ replies = <<>>
    /\ cut = {} /\ loose = {}

-----------------------------------------------------------------------------
(* What a statement does.                                                  *)

\* The UNIQUE keys, the partial index on is_active, the foreign key of chunks.
Violates(s, a) ==
    \/ s = "insert page" /\ a \in working.pages
    \/ s = "insert job" /\ a \in working.jobs
    \/ s = "insert rule" /\ a \in working.rules
    \/ s = "activate" /\ working.active \ {a} # {}
    \/ s = "insert chunks" /\ a \notin working.pages

\* Chunks go with their page.
Written(s, a) ==
    CASE s = "insert page"   -> [working EXCEPT !.pages = @ \union {a}]
      [] s = "insert job"    -> [working EXCEPT !.jobs = @ \union {a}]
      [] s = "mark done"     -> [working EXCEPT !.done = @ \union (working.jobs \intersect {a})]
      [] s = "delete chunks" -> [working EXCEPT !.chunks = @ \ {a}]
      [] s = "insert chunks" -> [working EXCEPT !.chunks = @ \union {a}]
      [] s = "insert rule"   -> [working EXCEPT !.rules = @ \union {a}]
      [] s = "upsert tombs"  -> [working EXCEPT !.tombs = @ \union {a}]
      [] s = "delete pages"  -> [working EXCEPT !.pages = @ \ {a}, !.chunks = @ \ {a}]
      [] s = "deactivate"    -> [working EXCEPT !.active = @ \intersect {a}]
      [] s = "activate"      -> [working EXCEPT !.active = @ \union {a}]

Writes == {"insert page", "insert job", "mark done", "delete chunks", "insert chunks",
           "insert rule", "upsert tombs", "delete pages", "deactivate", "activate"}

\* The rows a SELECT has found come with a further trip, its fetch.
Found(s, a) ==
    \/ s = "select rule" /\ a \in working.rules
    \/ s = "select pages" /\ a \in working.pages

Reads == {"select rule", "fetch rule", "fetch no rule",
          "select pages", "fetch pages", "fetch no pages"}

Statements == Writes \union Reads \union {"begin", "commit", "rollback"}

-----------------------------------------------------------------------------
(* The thread of the connection: one statement at a time.                  *)

First(s) == line # <<>> /\ Head(line).do = s

Answer(says) ==
    /\ line' = Tail(line)
    /\ replies' = IF Head(line).for = NoCaller THEN replies
                  ELSE Append(replies, [for |-> Head(line).for, of |-> Head(line).do,
                                        says |-> says])
    /\ UNCHANGED call

\* sqlite3 begins a transaction before a write that is outside of one, and
\* leaves it open when the write fails; a statement that fails changes nothing.
Write(s) ==
    /\ First(s)
    /\ open' = TRUE
    /\ \/ Violates(s, Head(line).arg) /\ Answer("error") /\ UNCHANGED working
       \/ /\ ~Violates(s, Head(line).arg)
          /\ working' = Written(s, Head(line).arg)
          /\ Answer("ok")
    /\ UNCHANGED <<committed, cut, loose>>

Read(s) ==
    /\ First(s)
    /\ Answer(IF Found(s, Head(line).arg) THEN "found" ELSE "ok")
    /\ UNCHANGED <<dbVars, cut, loose>>

\* There is no transaction within a transaction.
Begin ==
    /\ First("begin")
    /\ open' = TRUE
    /\ Answer(IF open THEN "error" ELSE "ok")
    /\ UNCHANGED <<committed, working, cut, loose>>

\* A commit and a rollback end the writes of cancelled calls, but of those
\* with statements still to come.
Adrift(trips) == {trips[i].arg : i \in {j \in DOMAIN trips : trips[j].for = NoCaller}}

Commit ==
    /\ First("commit")
    /\ committed' = working
    /\ loose' = Adrift(Tail(line))
    /\ open' = FALSE
    /\ Answer("ok")
    /\ UNCHANGED <<working, cut>>

Rollback ==
    /\ First("rollback")
    /\ working' = committed
    /\ loose' = Adrift(Tail(line))
    /\ open' = FALSE
    /\ cut' = cut \union {c \in Callers : Running(c) /\ c # Head(line).for}
    /\ Answer("ok")
    /\ UNCHANGED committed

-----------------------------------------------------------------------------
(* The methods: after which statement and answer comes which statement.    *)

Then(of, says, next) == [of |-> of, says |-> says, next |-> next]
Commits(s) == {Then(s, "ok", "commit"), Then("commit", "ok", "return")}

insert_page == Commits("insert page")
    \union {Then("call", "ok", "insert page"), Then("insert page", "error", "raise")}

create_job == Commits("insert job")
    \union {Then("call", "ok", "insert job"),
            Then("insert job", "error", "rollback"), Then("rollback", "ok", "return")}

mark_job_done == Commits("mark done") \union {Then("call", "ok", "mark done")}

\* Mutant: a page without chunks is done after the DELETE.
replace_uncommitted == Commits("insert chunks")
    \union {Then("call", "ok", "delete chunks"),
            Then("delete chunks", "ok", "insert chunks"),
            Then("delete chunks", "ok", "return"),
            Then("insert chunks", "error", "raise")}

replace_chunks == Commits("insert chunks")
    \union {Then("call", "ok", "delete chunks"),
            Then("delete chunks", "ok", "insert chunks"),
            Then("insert chunks", "error", "raise")}

purge_and_blacklist == Commits("delete pages")
    \union {Then("call", "ok", "insert rule"),
            Then("insert rule", "ok", "select pages"),
            Then("insert rule", "error", "select rule"),
            Then("select rule", "found", "fetch rule"),
            Then("fetch rule", "ok", "select pages"),
            Then("select rule", "ok", "fetch no rule"),
            Then("fetch no rule", "ok", "raise"),
            Then("select pages", "found", "fetch pages"),
            Then("fetch pages", "ok", "upsert tombs"),
            Then("upsert tombs", "ok", "delete pages"),
            Then("select pages", "ok", "fetch no pages"),
            Then("fetch no pages", "ok", "commit")}

\* Mutant: the else that commits is gone.
activate_uncommitted ==
    {Then("call", "ok", "begin"), Then("begin", "error", "raise"),
     Then("begin", "ok", "deactivate"), Then("deactivate", "ok", "activate"),
     Then("activate", "error", "rollback"), Then("rollback", "ok", "raise"),
     Then("activate", "ok", "return")}

\* BEGIN is outside of the try that rolls back.
activate_model == Commits("activate")
    \union {Then("call", "ok", "begin"), Then("begin", "error", "raise"),
            Then("begin", "ok", "deactivate"), Then("deactivate", "ok", "activate"),
            Then("activate", "error", "rollback"), Then("rollback", "ok", "raise")}

Program == [insert_page |-> insert_page, create_job |-> create_job,
            mark_job_done |-> mark_job_done, replace_chunks |-> replace_chunks,
            purge_and_blacklist |-> purge_and_blacklist,
            activate_model |-> activate_model]

Follows(method, of, says) ==
    {t.next : t \in {x \in Program[method] : x.of = of /\ x.says = says}}
Issue(c, s, a) == line' = Append(line, [for |-> c, do |-> s, arg |-> a])

-----------------------------------------------------------------------------
(* The event loop.                                                         *)

\* What the callers know: page ids are new; the worker has read the row it works
\* on, and comes back only after what its cancelled handler sent was executed.
Sensible(c, w) ==
    /\ w.method = "insert_page" => w.arg \notin committed.tombs
    /\ w.method = "mark_job_done" => w.arg \in working.jobs
    /\ w.method = "replace_chunks" => w.arg \in working.pages
    /\ c = Worker => \A i \in DOMAIN line : line[i].for # NoCaller

Call(c, w) ==
    /\ ~Running(c)
    /\ Sensible(c, w)
    /\ call' = [call EXCEPT ![c] = w]
    /\ \E s \in Follows(w.method, "call", "ok") : Issue(c, s, w.arg)
    /\ cut' = cut \ {c}
    /\ UNCHANGED <<dbVars, replies, loose>>

Heard(c) ==
    /\ replies # <<>>
    /\ c = Head(replies).for
    /\ replies' = Tail(replies)

NextOf(c) == Follows(call[c].method, Head(replies).of, Head(replies).says)

Continue(c) ==
    /\ Heard(c)
    /\ \E s \in NextOf(c) \ {"return", "raise"} : Issue(c, s, call[c].arg)
    /\ UNCHANGED <<dbVars, call, cut, loose>>

Return(c) ==
    /\ Heard(c)
    /\ "return" \in NextOf(c)
    /\ call' = [call EXCEPT ![c] = Idle]
    /\ UNCHANGED <<dbVars, line, cut, loose>>

Raise(c) ==
    /\ Heard(c)
    /\ "raise" \in NextOf(c)
    /\ call' = [call EXCEPT ![c] = Idle]
    /\ UNCHANGED <<dbVars, line, cut, loose>>

\* The lease of a job runs out: its handler is cancelled, and with it the
\* answer that waits for it; what it sent to the thread is not.
Cancel(c) ==
    LET answers == {i \in DOMAIN replies : replies[i].for = c} IN
    /\ call[c].method = "replace_chunks"
    /\ call' = [call EXCEPT ![c] = Idle]
    /\ line' = [i \in DOMAIN line |->
                   IF line[i].for = c THEN [line[i] EXCEPT !.for = NoCaller] ELSE line[i]]
    /\ \/ answers = {} /\ UNCHANGED replies
       \/ \E i \in answers : replies' = RemoveAt(replies, i)
    /\ loose' = loose \union {call[c].arg}
    /\ UNCHANGED <<dbVars, cut>>

-----------------------------------------------------------------------------
Next ==
    \/ \E s \in Writes : Write(s)
    \/ \E s \in Reads : Read(s)
    \/ Begin \/ Commit \/ Rollback
    \/ \E c \in Callers :
         \/ \E w \in Workload[c] : Call(c, w)
         \/ Continue(c) \/ Return(c) \/ Raise(c) \/ Cancel(c)

Spec == Init /\ [][Next]_vars

-----------------------------------------------------------------------------
(* Properties.                                                             *)

\* Every variable has its type.  A statement in line is for the call of its
\* caller, unless that was cancelled, and no answer is for a caller at rest.
TypeOK ==
    /\ {committed, working} \subseteq Database
    /\ open \in BOOLEAN
    /\ \A c \in Callers : call[c] \in Workload[c] \union {Idle}
    /\ \A i \in DOMAIN line :
          /\ line[i].do \in Statements
          /\ line[i].for = NoCaller \/ line[i].arg = call[line[i].for].arg
    /\ \A i \in DOMAIN replies : Running(replies[i].for) /\ replies[i].of \in Statements
    /\ cut \subseteq Callers /\ loose \subseteq Pages

\* What a call has promised when it returns: its write, or a later one, is in
\* the database.
Kept(w) ==
    \/ w.method = "insert_page" /\ w.arg \in committed.pages \union committed.tombs
    \/ w.method = "create_job" /\ w.arg \in committed.jobs
    \/ w.method = "mark_job_done" /\ w.arg \in committed.done
    \/ w.method = "replace_chunks"
       /\ (w.arg \in committed.chunks \/ w.arg \notin committed.pages)
    \/ w.method = "purge_and_blacklist"
       /\ w.arg \in committed.rules /\ w.arg \notin committed.pages \intersect Stored
    \/ w.method = "activate_model"
       /\ \/ w.arg \in committed.active
          \/ \E c \in Callers : call[c].method = "activate_model" /\ call[c] # w

\* What a method wrote is in the database, whole, once it returned, although
\* any other method may have committed it half-way; the one thing that takes
\* writes away from a method that then returns as if nothing had happened is
\* the rollback of another.
LostOnlyByRollback == [][\A c \in Callers \ cut : Return(c) => Kept(call[c])]_vars

\* No method leaves writes behind for the next commit of someone else to
\* publish, one that fails included: a replace_chunks whose INSERT is refused
\* after its DELETE lost its page to a purge, and the chunks go with that.  Only
\* a call that is cancelled leaves some, its page's chunks, until a commit or a
\* rollback ends them.
Aside(db) == [db EXCEPT !.chunks = @ \ loose]
NothingLeftBehind == (\A c \in Callers : ~Running(c)) => Aside(working) = Aside(committed)

\* What a method wrote is in the database once it returned (module docstring:
\* the connection is "serialized behind an asyncio lock").
ReturnedIsDurable == [][\A c \in Callers : Return(c) => Kept(call[c])]_vars
=============================================================================

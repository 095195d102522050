----------------------- MODULE SqliteConnectionProofs -----------------------
(***************************************************************************)
(* Theorems about SqliteConnection, for any number of callers and any      *)
(* workload: no method of the store leaves writes behind, and what one     *)
(* wrote stays, but for the rollback of another.                           *)
(***************************************************************************)
EXTENDS SqliteConnection, TLAPS

Args == Pages \union Jobs \union Models
Tables == [pages : SUBSET Args, chunks : SUBSET Args, tombs : SUBSET Args, rules : SUBSET Args,
           jobs : SUBSET Args, done : SUBSET Args, active : SUBSET Args]
Trips == [for : Callers \union {NoCaller}, do : Statements, arg : Args]
Answers == [for : Callers, of : Statements, says : {"ok", "error", "found"}]

Elems(seq) == {seq[i] : i \in DOMAIN seq}
OneEach(seq) ==
    \A i, j \in DOMAIN seq : seq[i].for = seq[j].for /\ seq[i].for # NoCaller => i = j

\* The statements of a method.
Issued(method) == {t.next : t \in Program[method]} \ {"return", "raise"}

\* The statements of a method after which only a commit or a rollback of its
\* own remains to end it.
Ending == [insert_page |-> {"commit"},
           create_job |-> {"commit", "rollback"},
           mark_job_done |-> {"commit"},
           replace_chunks |-> {},
           purge_and_blacklist |-> {"select pages", "fetch pages", "fetch no pages",
                                    "upsert tombs", "delete pages", "commit"},
           activate_model |-> {"deactivate", "activate", "rollback", "commit"}]
Ends(method, of, says) ==
    /\ Follows(method, of, says) # {}
    /\ Follows(method, of, says) \subseteq Ending[method]

Typed ==
    /\ committed \in Tables /\ working \in Tables
    /\ call \in [Callers -> [method : Methods, arg : Args] \union {Idle}]
    /\ line \in Seq(Trips) /\ replies \in Seq(Answers)

\* A caller has one statement or one answer under way while its call runs, and
\* none at rest; what no caller waits for is of a replace_chunks.
Orderly ==
    /\ OneEach(line) /\ OneEach(replies)
    /\ \A e \in Elems(line) :
          \/ e.for = NoCaller /\ e.do \in Issued("replace_chunks")
          \/ e.for \in Callers /\ Running(e.for) /\ e.do \in Issued(call[e.for].method)
    /\ \A r \in Elems(replies) : Running(r.for) /\ r.of \in Issued(call[r.for].method)
    /\ \A e \in Elems(line), r \in Elems(replies) : e.for # r.for

Clean == working = [committed EXCEPT !.chunks = working.chunks]

\* A caller whose call can only end after a commit or a rollback.
Owing(c) ==
    \/ \E e \in Elems(line) : e.for = c /\ e.do \in Ending[call[c].method]
    \/ \E r \in Elems(replies) : r.for = c /\ Ends(call[c].method, r.of, r.says)

\* Writes that are not committed are owed by somebody.
Owed == \E c \in Callers : Owing(c)
ConnectionInv == Typed /\ Orderly /\ (Clean \/ Owed)

-----------------------------------------------------------------------------
(* The programs of the methods.                                            *)

\* A transition is made of its parts.
LEMMA Parts ==
    \A of, says, next : /\ Then(of, says, next).of = of
                        /\ Then(of, says, next).says = says
                        /\ Then(of, says, next).next = next
BY DEF Then

\* What a method does next is one of its transitions.
LEMMA FollowsMeans ==
    ASSUME NEW method \in Methods, NEW of, NEW says
    PROVE  \A s : s \in Follows(method, of, says) <=> Then(of, says, s) \in Program[method]
<1>1. ASSUME NEW t \in Program[method]
      PROVE  \E a, b, c : t = Then(a, b, c)
  <2>1. CASE method = "insert_page"
    BY <2>1 DEF Program, insert_page, Commits
  <2>2. CASE method = "create_job"
    BY <2>2 DEF Program, create_job, Commits
  <2>3. CASE method = "mark_job_done"
    BY <2>3 DEF Program, mark_job_done, Commits
  <2>4. CASE method = "replace_chunks"
    BY <2>4 DEF Program, replace_chunks, Commits
  <2>5. CASE method = "purge_and_blacklist"
    BY <2>5 DEF Program, purge_and_blacklist, Commits
  <2>6. CASE method = "activate_model"
    BY <2>6 DEF Program, activate_model, Commits
  <2>7. QED
    BY <2>1, <2>2, <2>3, <2>4, <2>5, <2>6 DEF Methods
<1> DEFINE P == Program[method]
<1> HIDE DEF P
<1>2. \A t \in P : t = Then(t.of, t.says, t.next)
  BY <1>1, Parts DEF P
<1>3. ASSUME NEW s, s \in Follows(method, of, says)
      PROVE  Then(of, says, s) \in P
  <2>1. PICK t \in P : t.of = of /\ t.says = says /\ t.next = s
    BY <1>3 DEF Follows, P
  <2>2. QED
    BY <1>2, <2>1
<1>4. ASSUME NEW s, Then(of, says, s) \in P
      PROVE  s \in Follows(method, of, says)
  <2>1. Then(of, says, s) \in {x \in P : x.of = of /\ x.says = says}
    BY <1>4, Parts
  <2>2. Then(of, says, s).next \in Follows(method, of, says)
    BY <2>1 DEF Follows, P
  <2>3. QED
    BY <2>2, Parts
<1>5. QED
  BY <1>3, <1>4 DEF P

\* The transitions of the methods, each with its statement, answer and next
\* statement.
PurgeRoutes ==
    {<<"call", "ok", "insert rule">>, <<"insert rule", "ok", "select pages">>,
     <<"insert rule", "error", "select rule">>,
     <<"select rule", "found", "fetch rule">>, <<"fetch rule", "ok", "select pages">>,
     <<"select rule", "ok", "fetch no rule">>, <<"fetch no rule", "ok", "raise">>,
     <<"select pages", "found", "fetch pages">>,
     <<"fetch pages", "ok", "upsert tombs">>, <<"upsert tombs", "ok", "delete pages">>,
     <<"select pages", "ok", "fetch no pages">>, <<"fetch no pages", "ok", "commit">>,
     <<"delete pages", "ok", "commit">>, <<"commit", "ok", "return">>}
Routes == [
    insert_page |->
       {<<"call", "ok", "insert page">>, <<"insert page", "error", "raise">>,
        <<"insert page", "ok", "commit">>, <<"commit", "ok", "return">>},
    create_job |->
       {<<"call", "ok", "insert job">>, <<"insert job", "error", "rollback">>,
        <<"rollback", "ok", "return">>, <<"insert job", "ok", "commit">>,
        <<"commit", "ok", "return">>},
    mark_job_done |->
       {<<"call", "ok", "mark done">>, <<"mark done", "ok", "commit">>,
        <<"commit", "ok", "return">>},
    replace_chunks |->
       {<<"call", "ok", "delete chunks">>, <<"delete chunks", "ok", "insert chunks">>,
        <<"insert chunks", "error", "raise">>, <<"insert chunks", "ok", "commit">>,
        <<"commit", "ok", "return">>},
    purge_and_blacklist |-> PurgeRoutes,
    activate_model |->
       {<<"call", "ok", "begin">>, <<"begin", "error", "raise">>,
        <<"begin", "ok", "deactivate">>, <<"deactivate", "ok", "activate">>,
        <<"activate", "error", "rollback">>, <<"rollback", "ok", "raise">>,
        <<"activate", "ok", "commit">>, <<"commit", "ok", "return">>}]

\* The longest program has these transitions.
LEMMA PurgeGoes ==
    ASSUME NEW of, NEW says, NEW s
    PROVE  Then(of, says, s) \in purge_and_blacklist <=> <<of, says, s>> \in PurgeRoutes
BY ZenonT(90) DEF purge_and_blacklist, Commits, Then, PurgeRoutes

\* The routes of the methods are those of their programs.
LEMMA ProgramRoutes ==
    ASSUME NEW method \in Methods, NEW of, NEW says, NEW s
    PROVE  s \in Follows(method, of, says) <=> <<of, says, s>> \in Routes[method]
<1>1. s \in Follows(method, of, says) <=> Then(of, says, s) \in Program[method]
  BY FollowsMeans
<1>2. CASE method = "insert_page"
  <2>1. Program["insert_page"] = insert_page
    BY DEF Program
  <2>2. Then(of, says, s) \in insert_page <=> <<of, says, s>> \in Routes["insert_page"]
    BY DEF insert_page, Commits, Then, Routes
  <2>3. QED
    BY <1>1, <1>2, <2>1, <2>2
<1>3. CASE method = "create_job"
  <2>1. Program["create_job"] = create_job
    BY DEF Program
  <2>2. Then(of, says, s) \in create_job <=> <<of, says, s>> \in Routes["create_job"]
    BY DEF create_job, Commits, Then, Routes
  <2>3. QED
    BY <1>1, <1>3, <2>1, <2>2
<1>4. CASE method = "mark_job_done"
  <2>1. Program["mark_job_done"] = mark_job_done
    BY DEF Program
  <2>2. Then(of, says, s) \in mark_job_done <=> <<of, says, s>> \in Routes["mark_job_done"]
    BY DEF mark_job_done, Commits, Then, Routes
  <2>3. QED
    BY <1>1, <1>4, <2>1, <2>2
<1>5. CASE method = "replace_chunks"
  <2>1. Program["replace_chunks"] = replace_chunks
    BY DEF Program
  <2>2. Then(of, says, s) \in replace_chunks <=> <<of, says, s>> \in Routes["replace_chunks"]
    BY DEF replace_chunks, Commits, Then, Routes
  <2>3. QED
    BY <1>1, <1>5, <2>1, <2>2
<1>6. CASE method = "purge_and_blacklist"
  <2>1. Program["purge_and_blacklist"] = purge_and_blacklist
    BY DEF Program
  <2>2. Then(of, says, s) \in purge_and_blacklist <=> <<of, says, s>> \in PurgeRoutes
    BY PurgeGoes
  <2>3. Routes["purge_and_blacklist"] = PurgeRoutes
    BY DEF Routes
  <2>4. QED
    BY <1>1, <1>6, <2>1, <2>2, <2>3
<1>7. CASE method = "activate_model"
  <2>1. Program["activate_model"] = activate_model
    BY DEF Program
  <2>2. Then(of, says, s) \in activate_model <=> <<of, says, s>> \in Routes["activate_model"]
    BY DEF activate_model, Commits, Then, Routes
  <2>3. QED
    BY <1>1, <1>7, <2>1, <2>2
<1>8. QED
  BY <1>2, <1>3, <1>4, <1>5, <1>6, <1>7 DEF Methods

\* Where each program goes: its statements, and those that only lead to a
\* commit or a rollback, to which every write but those of chunks leads.
Leads(method) ==
    /\ Issued(method) \subseteq Statements
    /\ \A s \in Ending[method] \ {"commit", "rollback"} :
          /\ Ends(method, s, "ok")
          /\ s = "select pages" => Ends(method, s, "found")
          /\ s = "activate" => Ends(method, s, "error")
          /\ s \in {"select pages", "fetch pages", "fetch no pages", "upsert tombs",
                    "delete pages", "deactivate", "activate"}
    /\ \A s \in (Issued(method) \intersect Writes) \ {"delete chunks", "insert chunks"} :
          Ends(method, s, "ok")
    /\ Ending[method] \intersect {"return", "raise"} = {}

LEMMA ProgramEnds ==
    /\ \A method \in Methods : Leads(method)
    /\ Issued("replace_chunks") = {"delete chunks", "insert chunks", "commit"}
    /\ Ending["replace_chunks"] = {}
<1>1. ASSUME NEW method \in Methods, NEW s
      PROVE  s \in Issued(method) <=>
                s \notin {"return", "raise"} /\ \E of, says : <<of, says, s>> \in Routes[method]
  <2>1. s \in {t.next : t \in Program[method]} <=> \E of, says : s \in Follows(method, of, says)
    BY DEF Follows
  <2>2. QED
    BY <2>1, ProgramRoutes DEF Issued
<1>2. ASSUME NEW s
      PROVE  s \in Issued("replace_chunks") <=> s \in {"delete chunks", "insert chunks", "commit"}
  <2>1. (\E of, says : <<of, says, s>> \in Routes["replace_chunks"])
           <=> s \in {"delete chunks", "insert chunks", "commit", "raise", "return"}
    BY DEF Routes
  <2>2. QED
    BY <1>1, <2>1 DEF Methods
<1>3. Ending["replace_chunks"] = {}
  BY DEF Ending
<1>4. Leads("insert_page")
  <2> DEFINE R == Routes["insert_page"]
  <2>1. \A of, says, s : s \in Follows("insert_page", of, says) <=> <<of, says, s>> \in R
    BY ProgramRoutes DEF Methods
  <2>2. \A s : (\E of, says : <<of, says, s>> \in R) <=>
           s \in {"commit", "insert page", "raise", "return"}
    BY DEF Routes
  <2>3. \A s : s \in Issued("insert_page") <=>
           s \notin {"return", "raise"} /\ \E of, says : <<of, says, s>> \in R
    BY <1>1 DEF Methods
  <2>4. /\ \A s : <<"insert page", "ok", s>> \in R <=> s = "commit"
    BY DEF Routes
  <2> HIDE DEF R
  <2>5. \A s : s \in Issued("insert_page") <=>
           s \in {"commit", "insert page"}
    BY <2>2, <2>3
  <2>6. /\ Ends("insert_page", "insert page", "ok")
    BY <2>1, <2>4 DEF Ends, Ending
  <2>7. QED
    BY <2>5, <2>6 DEF Leads, Ending, Statements, Writes, Reads
<1>5. Leads("create_job")
  <2> DEFINE R == Routes["create_job"]
  <2>1. \A of, says, s : s \in Follows("create_job", of, says) <=> <<of, says, s>> \in R
    BY ProgramRoutes DEF Methods
  <2>2. \A s : (\E of, says : <<of, says, s>> \in R) <=>
           s \in {"commit", "insert job", "return", "rollback"}
    BY DEF Routes
  <2>3. \A s : s \in Issued("create_job") <=>
           s \notin {"return", "raise"} /\ \E of, says : <<of, says, s>> \in R
    BY <1>1 DEF Methods
  <2>4. /\ \A s : <<"insert job", "ok", s>> \in R <=> s = "commit"
    BY DEF Routes
  <2> HIDE DEF R
  <2>5. \A s : s \in Issued("create_job") <=>
           s \in {"commit", "insert job", "rollback"}
    BY <2>2, <2>3
  <2>6. /\ Ends("create_job", "insert job", "ok")
    BY <2>1, <2>4 DEF Ends, Ending
  <2>7. QED
    BY <2>5, <2>6 DEF Leads, Ending, Statements, Writes, Reads
<1>6. Leads("mark_job_done")
  <2> DEFINE R == Routes["mark_job_done"]
  <2>1. \A of, says, s : s \in Follows("mark_job_done", of, says) <=> <<of, says, s>> \in R
    BY ProgramRoutes DEF Methods
  <2>2. \A s : (\E of, says : <<of, says, s>> \in R) <=>
           s \in {"commit", "mark done", "return"}
    BY DEF Routes
  <2>3. \A s : s \in Issued("mark_job_done") <=>
           s \notin {"return", "raise"} /\ \E of, says : <<of, says, s>> \in R
    BY <1>1 DEF Methods
  <2>4. /\ \A s : <<"mark done", "ok", s>> \in R <=> s = "commit"
    BY DEF Routes
  <2> HIDE DEF R
  <2>5. \A s : s \in Issued("mark_job_done") <=>
           s \in {"commit", "mark done"}
    BY <2>2, <2>3
  <2>6. /\ Ends("mark_job_done", "mark done", "ok")
    BY <2>1, <2>4 DEF Ends, Ending
  <2>7. QED
    BY <2>5, <2>6 DEF Leads, Ending, Statements, Writes, Reads
<1>7. Leads("replace_chunks")
  <2> DEFINE R == Routes["replace_chunks"]
  <2>1. \A of, says, s : s \in Follows("replace_chunks", of, says) <=> <<of, says, s>> \in R
    BY ProgramRoutes DEF Methods
  <2>2. \A s : (\E of, says : <<of, says, s>> \in R) <=>
           s \in {"commit", "delete chunks", "insert chunks", "raise", "return"}
    BY DEF Routes
  <2>3. \A s : s \in Issued("replace_chunks") <=>
           s \notin {"return", "raise"} /\ \E of, says : <<of, says, s>> \in R
    BY <1>1 DEF Methods
  <2> HIDE DEF R
  <2>4. \A s : s \in Issued("replace_chunks") <=>
           s \in {"commit", "delete chunks", "insert chunks"}
    BY <2>2, <2>3
  <2>5. QED
    BY <2>4 DEF Leads, Ending, Statements, Writes, Reads
<1>8. Leads("purge_and_blacklist")
  <2> DEFINE R == Routes["purge_and_blacklist"]
  <2>1. \A of, says, s : s \in Follows("purge_and_blacklist", of, says) <=> <<of, says, s>> \in R
    BY ProgramRoutes DEF Methods
  <2>2. \A s : (\E of, says : <<of, says, s>> \in R) <=>
           s \in {"commit", "delete pages", "fetch no pages", "fetch no rule",
                   "fetch pages", "fetch rule", "insert rule", "raise", "return",
                   "select pages", "select rule", "upsert tombs"}
    BY DEF Routes, PurgeRoutes
  <2>3. \A s : s \in Issued("purge_and_blacklist") <=>
           s \notin {"return", "raise"} /\ \E of, says : <<of, says, s>> \in R
    BY <1>1 DEF Methods
  <2>4. /\ \A s : <<"select pages", "ok", s>> \in R <=> s = "fetch no pages"
        /\ \A s : <<"fetch pages", "ok", s>> \in R <=> s = "upsert tombs"
        /\ \A s : <<"fetch no pages", "ok", s>> \in R <=> s = "commit"
        /\ \A s : <<"upsert tombs", "ok", s>> \in R <=> s = "delete pages"
        /\ \A s : <<"delete pages", "ok", s>> \in R <=> s = "commit"
        /\ \A s : <<"insert rule", "ok", s>> \in R <=> s = "select pages"
        /\ \A s : <<"select pages", "found", s>> \in R <=> s = "fetch pages"
    BY DEF Routes, PurgeRoutes
  <2> HIDE DEF R
  <2>5. \A s : s \in Issued("purge_and_blacklist") <=>
           s \in {"commit", "delete pages", "fetch no pages", "fetch no rule",
                   "fetch pages", "fetch rule", "insert rule", "select pages",
                   "select rule", "upsert tombs"}
    BY <2>2, <2>3
  <2>6. /\ Ends("purge_and_blacklist", "select pages", "ok")
        /\ Ends("purge_and_blacklist", "fetch pages", "ok")
        /\ Ends("purge_and_blacklist", "fetch no pages", "ok")
        /\ Ends("purge_and_blacklist", "upsert tombs", "ok")
        /\ Ends("purge_and_blacklist", "delete pages", "ok")
        /\ Ends("purge_and_blacklist", "insert rule", "ok")
        /\ Ends("purge_and_blacklist", "select pages", "found")
    BY <2>1, <2>4 DEF Ends, Ending
  <2>7. QED
    BY <2>5, <2>6 DEF Leads, Ending, Statements, Writes, Reads
<1>9. Leads("activate_model")
  <2> DEFINE R == Routes["activate_model"]
  <2>1. \A of, says, s : s \in Follows("activate_model", of, says) <=> <<of, says, s>> \in R
    BY ProgramRoutes DEF Methods
  <2>2. \A s : (\E of, says : <<of, says, s>> \in R) <=>
           s \in {"activate", "begin", "commit", "deactivate", "raise", "return",
                   "rollback"}
    BY DEF Routes
  <2>3. \A s : s \in Issued("activate_model") <=>
           s \notin {"return", "raise"} /\ \E of, says : <<of, says, s>> \in R
    BY <1>1 DEF Methods
  <2>4. /\ \A s : <<"deactivate", "ok", s>> \in R <=> s = "activate"
        /\ \A s : <<"activate", "ok", s>> \in R <=> s = "commit"
        /\ \A s : <<"activate", "error", s>> \in R <=> s = "rollback"
    BY DEF Routes
  <2> HIDE DEF R
  <2>5. \A s : s \in Issued("activate_model") <=>
           s \in {"activate", "begin", "commit", "deactivate", "rollback"}
    BY <2>2, <2>3
  <2>6. /\ Ends("activate_model", "deactivate", "ok")
        /\ Ends("activate_model", "activate", "ok")
        /\ Ends("activate_model", "activate", "error")
    BY <2>1, <2>4 DEF Ends, Ending
  <2>7. QED
    BY <2>5, <2>6 DEF Leads, Ending, Statements, Writes, Reads
<1>10. QED
  BY <1>2, <1>3, <1>4, <1>5, <1>6, <1>7, <1>8, <1>9 DEF Methods

-----------------------------------------------------------------------------
(* Queues in which a caller has one element.                               *)

\* An element is appended for a caller that has none, or for nobody.
LEMMA AppendQueue ==
    ASSUME NEW S, NEW seq \in Seq(S), OneEach(seq), NEW x \in S,
           \A e \in Elems(seq) : e.for = x.for => x.for = NoCaller
    PROVE  /\ Append(seq, x) \in Seq(S) /\ OneEach(Append(seq, x))
           /\ Elems(Append(seq, x)) = Elems(seq) \union {x}
<1> DEFINE longer == Append(seq, x)
<1>1. /\ Len(seq) \in Nat /\ longer \in Seq(S)
      /\ DOMAIN longer = 1..(Len(seq) + 1) /\ DOMAIN seq = 1..Len(seq)
      /\ \A i \in 1..Len(seq) : longer[i] = seq[i]
      /\ longer[Len(seq) + 1] = x
  OBVIOUS
<1> HIDE DEF longer
<1>2. \A i \in 1..(Len(seq) + 1) : i \in 1..Len(seq) \/ i = Len(seq) + 1
  BY <1>1
<1>3. /\ \A i \in 1..Len(seq) : i \in 1..(Len(seq) + 1) /\ seq[i] \in Elems(seq)
      /\ Len(seq) + 1 \in 1..(Len(seq) + 1)
  BY <1>1 DEF Elems
<1>4. Elems(longer) \subseteq Elems(seq) \union {x}
  BY <1>1, <1>2 DEF Elems
<1>5. Elems(seq) \union {x} \subseteq Elems(longer)
  BY <1>1, <1>3 DEF Elems
<1>6. ASSUME NEW i \in 1..(Len(seq) + 1), NEW j \in 1..(Len(seq) + 1),
             longer[i].for = longer[j].for, longer[i].for # NoCaller
      PROVE  i = j
  <2>1. CASE i \in 1..Len(seq) /\ j \in 1..Len(seq)
    BY <1>1, <1>6, <2>1 DEF OneEach
  <2>2. CASE i \in 1..Len(seq) /\ j = Len(seq) + 1
    BY <1>1, <1>3, <1>6, <2>2
  <2>3. CASE i = Len(seq) + 1 /\ j \in 1..Len(seq)
    BY <1>1, <1>3, <1>6, <2>3
  <2>4. CASE i = Len(seq) + 1 /\ j = Len(seq) + 1
    BY <2>4
  <2>5. QED
    BY <1>2, <2>1, <2>2, <2>3, <2>4
<1>7. OneEach(longer)
  BY <1>1, <1>6 DEF OneEach
<1>8. QED
  BY <1>1, <1>4, <1>5, <1>7 DEF longer

\* What is behind the head of the queue is not for the caller of the head.
LEMMA TailQueue ==
    ASSUME NEW S, NEW seq \in Seq(S), OneEach(seq), seq # <<>>
    PROVE  /\ Tail(seq) \in Seq(S) /\ OneEach(Tail(seq)) /\ Head(seq) \in S
           /\ Elems(seq) = Elems(Tail(seq)) \union {Head(seq)}
           /\ \A e \in Elems(Tail(seq)) : e.for = Head(seq).for => e.for = NoCaller
<1> DEFINE rest == Tail(seq) head == Head(seq)
<1>1. /\ Len(seq) \in Nat \ {0} /\ rest \in Seq(S) /\ head \in S
      /\ DOMAIN rest = 1..(Len(seq) - 1) /\ DOMAIN seq = 1..Len(seq)
      /\ \A i \in 1..(Len(seq) - 1) : rest[i] = seq[i + 1]
      /\ head = seq[1]
  OBVIOUS
<1> HIDE DEF rest, head
<1>2. /\ \A i \in 1..(Len(seq) - 1) : i + 1 \in 1..Len(seq) /\ i + 1 # 1
      /\ 1 \in 1..Len(seq)
  BY <1>1
<1>3. \A i \in 1..Len(seq) : i = 1 \/ (i - 1 \in 1..(Len(seq) - 1) /\ i = (i - 1) + 1)
  BY <1>1
<1>4. Elems(rest) \union {head} \subseteq Elems(seq)
  BY <1>1, <1>2 DEF Elems
<1>5. ASSUME NEW i \in 1..Len(seq)
      PROVE  seq[i] \in Elems(rest) \union {head}
  <2>1. CASE i = 1
    BY <1>1, <2>1
  <2>2. CASE i # 1
    <3>1. i - 1 \in 1..(Len(seq) - 1) /\ rest[i - 1] = seq[i]
      BY <1>1, <1>3, <2>2
    <3>2. QED
      BY <1>1, <3>1 DEF Elems
  <2>3. QED
    BY <2>1, <2>2
<1>6. Elems(seq) \subseteq Elems(rest) \union {head}
  BY <1>1, <1>5 DEF Elems
<1>7. OneEach(rest)
  <2>1. ASSUME NEW i \in 1..(Len(seq) - 1), NEW j \in 1..(Len(seq) - 1),
               rest[i].for = rest[j].for, rest[i].for # NoCaller
        PROVE  i = j
    <3>1. /\ i + 1 \in 1..Len(seq) /\ j + 1 \in 1..Len(seq)
          /\ seq[i + 1].for = seq[j + 1].for /\ seq[i + 1].for # NoCaller
      BY <1>1, <1>2, <2>1
    <3>2. i + 1 = j + 1
      BY <1>1, <3>1 DEF OneEach
    <3>3. QED
      BY <3>2
  <2>2. QED
    BY <1>1, <2>1 DEF OneEach
<1>8. ASSUME NEW i \in 1..(Len(seq) - 1), rest[i].for = head.for
      PROVE  rest[i].for = NoCaller
  BY <1>1, <1>2, <1>8 DEF OneEach
<1>9. \A e \in Elems(rest) : e.for = head.for => e.for = NoCaller
  BY <1>1, <1>8 DEF Elems
<1>10. QED
  BY <1>1, <1>4, <1>6, <1>7, <1>9 DEF rest, head

\* A caller has one element.
LEMMA OneElement ==
    ASSUME NEW seq, OneEach(seq), NEW e \in Elems(seq), NEW f \in Elems(seq),
           e.for = f.for, e.for # NoCaller
    PROVE  e = f
BY DEF Elems, OneEach

\* A slice of a queue.
LEMMA Slice ==
    ASSUME NEW S, NEW seq \in Seq(S), NEW a \in Int, NEW b \in Int, a >= 1, b <= Len(seq), a <= b + 1
    PROVE  /\ SubSeq(seq, a, b) \in Seq(S) /\ Len(SubSeq(seq, a, b)) = b - a + 1
           /\ \A i \in 1..(b - a + 1) : SubSeq(seq, a, b)[i] = seq[a + i - 1]
<1>1. Len(SubSeq(seq, a, b)) = b - a + 1
  OBVIOUS
<1>2. \A i \in 1..(b - a + 1) : SubSeq(seq, a, b)[i] = seq[a + i - 1]
  BY <1>1
<1>3. SubSeq(seq, a, b) \in Seq(S)
  <2>1. \A i \in a..b : seq[i] \in S
    OBVIOUS
  <2>2. QED
    BY <2>1
<1>4. QED
  BY <1>1, <1>2, <1>3

\* One after the other.
LEMMA Joined ==
    ASSUME NEW S, NEW s \in Seq(S), NEW t \in Seq(S)
    PROVE  /\ s \o t \in Seq(S) /\ Len(s \o t) = Len(s) + Len(t)
           /\ \A i \in 1..(Len(s) + Len(t)) :
                 (s \o t)[i] = IF i <= Len(s) THEN s[i] ELSE t[i - Len(s)]
<1>1. Len(s) \in Nat /\ Len(t) \in Nat
  OBVIOUS
<1>2. Len(s \o t) = Len(s) + Len(t)
  OBVIOUS
<1>3. s \o t \in Seq(S)
  OBVIOUS
<1>4. ASSUME NEW i \in 1..(Len(s) + Len(t))
      PROVE (s \o t)[i] = IF i <= Len(s) THEN s[i] ELSE t[i - Len(s)]
  BY <1>1
<1>5. QED
  BY <1>2, <1>3, <1>4
\* What is left of a queue when the element at k is taken out of it.
LEMMA Removed ==
    ASSUME NEW S, NEW seq \in Seq(S), NEW k \in DOMAIN seq
    PROVE  /\ RemoveAt(seq, k) \in Seq(S) /\ Len(RemoveAt(seq, k)) = Len(seq) - 1
           /\ \A i \in 1..(Len(seq) - 1) :
                 RemoveAt(seq, k)[i] = seq[IF i < k THEN i ELSE i + 1]
<1> DEFINE rest == RemoveAt(seq, k)
           left == SubSeq(seq, 1, k - 1)
           right == SubSeq(seq, k + 1, Len(seq))
<1>1. Len(seq) \in Nat \ {0} /\ DOMAIN seq = 1..Len(seq) /\ k \in 1..Len(seq)
  OBVIOUS
<1>2. /\ left \in Seq(S) /\ Len(left) = k - 1
      /\ \A i \in 1..(k - 1) : left[i] = seq[i]
  <2>1. /\ left \in Seq(S) /\ Len(left) = (k - 1) - 1 + 1
        /\ \A i \in 1..((k - 1) - 1 + 1) : left[i] = seq[1 + i - 1]
    BY <1>1, Slice
  <2> HIDE DEF left
  <2>2. QED
    BY <1>1, <2>1
<1>3. /\ right \in Seq(S) /\ Len(right) = Len(seq) - k
      /\ \A i \in 1..(Len(seq) - k) : right[i] = seq[k + i]
  <2>1. /\ right \in Seq(S) /\ Len(right) = Len(seq) - (k + 1) + 1
        /\ \A i \in 1..(Len(seq) - (k + 1) + 1) : right[i] = seq[(k + 1) + i - 1]
    BY <1>1, Slice
  <2> HIDE DEF right
  <2>2. Len(right) = Len(seq) - k
    BY <1>1, <2>1
  <2>3. ASSUME NEW i \in 1..(Len(seq) - k)
        PROVE  right[i] = seq[k + i]
    <3>1. i \in 1..(Len(seq) - (k + 1) + 1) /\ (k + 1) + i - 1 = k + i
      BY <1>1
    <3>2. right[i] = seq[(k + 1) + i - 1]
      BY <2>1, <3>1
    <3>3. QED
      BY <3>1, <3>2
  <2>4. QED
    BY <2>1, <2>2, <2>3
<1>4. rest = left \o right
  BY DEF RemoveAt
<1> HIDE DEF left, right, rest
<1>5. /\ rest \in Seq(S) /\ Len(rest) = Len(left) + Len(right)
      /\ \A i \in 1..(Len(left) + Len(right)) :
            rest[i] = IF i <= Len(left) THEN left[i] ELSE right[i - Len(left)]
  BY <1>2, <1>3, <1>4, Joined
<1>6. Len(left) + Len(right) = Len(seq) - 1
  <2>1. (k - 1) + (Len(seq) - k) = Len(seq) - 1
    BY <1>1
  <2>2. QED
    BY <1>2, <1>3, <2>1
<1>7. ASSUME NEW i \in 1..(Len(seq) - 1)
      PROVE  rest[i] = seq[IF i < k THEN i ELSE i + 1]
  <2>1. CASE i < k
    <3>1. rest[i] = left[i] /\ i \in 1..(k - 1)
      BY <1>1, <1>2, <1>5, <1>6, <2>1
    <3>2. QED
      BY <1>2, <2>1, <3>1
  <2>2. CASE ~(i < k)
    <3>1. i - (k - 1) \in 1..(Len(seq) - k) /\ k + (i - (k - 1)) = i + 1 /\ ~(i <= k - 1)
      BY <1>1, <2>2
    <3>2. rest[i] = right[i - (k - 1)]
      BY <1>2, <1>5, <1>6, <3>1
    <3>3. QED
      BY <1>3, <2>2, <3>1, <3>2
  <2>3. QED
    BY <2>1, <2>2
<1>8. QED
  BY <1>5, <1>6, <1>7 DEF rest

\* The element of a caller is taken out of the queue.
LEMMA RemoveQueue ==
    ASSUME NEW S, NEW seq \in Seq(S), OneEach(seq), NEW k \in DOMAIN seq
    PROVE  /\ RemoveAt(seq, k) \in Seq(S) /\ OneEach(RemoveAt(seq, k))
           /\ Elems(RemoveAt(seq, k)) \subseteq Elems(seq)
           /\ \A e \in Elems(seq) : e.for # seq[k].for => e \in Elems(RemoveAt(seq, k))
           /\ \A e \in Elems(RemoveAt(seq, k)) : e.for = seq[k].for => e.for = NoCaller
<1> DEFINE rest == RemoveAt(seq, k)
           Old(i) == IF i < k THEN i ELSE i + 1
<1>1. /\ Len(seq) \in Nat \ {0} /\ DOMAIN seq = 1..Len(seq) /\ k \in 1..Len(seq)
  OBVIOUS
<1>2. /\ rest \in Seq(S) /\ Len(rest) = Len(seq) - 1
      /\ \A i \in 1..(Len(seq) - 1) : rest[i] = seq[Old(i)]
  BY Removed
<1> HIDE DEF rest
<1>3. DOMAIN rest = 1..(Len(seq) - 1)
  BY <1>2
<1>4. \A i \in 1..(Len(seq) - 1) : Old(i) \in 1..Len(seq) /\ Old(i) # k
  BY <1>1
<1>5. \A i, j \in 1..(Len(seq) - 1) : Old(i) = Old(j) => i = j
  BY <1>1
<1>6. ASSUME NEW i \in 1..Len(seq), i # k
      PROVE  \E j \in 1..(Len(seq) - 1) : Old(j) = i
  <2>1. CASE i < k
    <3>1. i \in 1..(Len(seq) - 1) /\ Old(i) = i
      BY <1>1, <2>1
    <3>2. QED
      BY <3>1
  <2>2. CASE i > k
    <3>1. i - 1 \in 1..(Len(seq) - 1) /\ Old(i - 1) = i
      BY <1>1, <2>2
    <3>2. QED
      BY <3>1
  <2>3. QED
    BY <1>1, <1>6, <2>1, <2>2
<1> HIDE DEF Old
<1>7. OneEach(rest)
  BY <1>1, <1>2, <1>3, <1>4, <1>5 DEF OneEach
<1>8. Elems(rest) \subseteq Elems(seq)
  BY <1>1, <1>2, <1>3, <1>4 DEF Elems
<1>9. \A e \in Elems(seq) : e.for # seq[k].for => e \in Elems(rest)
  <2>1. ASSUME NEW i \in 1..Len(seq), seq[i].for # seq[k].for
        PROVE  seq[i] \in Elems(rest)
    <3>1. PICK j \in 1..(Len(seq) - 1) : Old(j) = i
      BY <1>6, <2>1
    <3>2. QED
      BY <1>2, <1>3, <3>1 DEF Elems
  <2>2. QED
    BY <1>1, <2>1 DEF Elems
<1>10. \A e \in Elems(rest) : e.for = seq[k].for => e.for = NoCaller
  <2>1. ASSUME NEW i \in 1..(Len(seq) - 1), rest[i].for = seq[k].for
        PROVE  rest[i].for = NoCaller
    BY <1>1, <1>2, <1>3, <1>4, <2>1 DEF OneEach
  <2>2. QED
    BY <1>2, <1>3, <2>1 DEF Elems
<1>11. QED
  BY <1>2, <1>3, <1>7, <1>8, <1>9, <1>10 DEF rest

-----------------------------------------------------------------------------
(* The invariant.                                                          *)

\* The statement at the head of the line is one of its method.
LEMMA HeadOfLine ==
    ASSUME ConnectionInv, line # <<>>
    PROVE  /\ Head(line) \in Trips /\ Head(line) \in Elems(line)
           /\ \/ Head(line).for = NoCaller /\ Head(line).do \in Issued("replace_chunks")
              \/ /\ Head(line).for \in Callers
                 /\ call[Head(line).for].method \in Methods
                 /\ Head(line).do \in Issued(call[Head(line).for].method)
<1>1. Head(line) \in Trips /\ Head(line) \in Elems(line)
  BY TailQueue DEF ConnectionInv, Typed, Orderly
<1>2. \A c \in Callers : Running(c) => call[c].method \in Methods
  BY DEF ConnectionInv, Typed, Running
<1>3. QED
  BY <1>1, <1>2 DEF ConnectionInv, Orderly

\* The caller whose answer comes next has nothing else under way.
LEMMA HeadOfReplies ==
    ASSUME ConnectionInv, NEW c \in Callers, replies # <<>>, c = Head(replies).for
    PROVE  /\ Head(replies) \in Answers /\ Head(replies) \in Elems(replies)
           /\ Running(c) /\ call[c] \in [method : Methods, arg : Args]
           /\ \A e \in Elems(line) : e.for # c
           /\ \A r \in Elems(replies) : r.for = c => r = Head(replies)
           /\ \A r \in Elems(Tail(replies)) : r.for # c
           /\ Owing(c) => Ends(call[c].method, Head(replies).of, Head(replies).says)
<1>1. /\ Head(replies) \in Answers /\ Head(replies) \in Elems(replies)
      /\ Elems(Tail(replies)) \subseteq Elems(replies)
      /\ \A e \in Elems(Tail(replies)) : e.for = c => e.for = NoCaller
  BY TailQueue DEF ConnectionInv, Typed, Orderly
<1>2. c # NoCaller
  BY CallerAssumption
<1>3. Running(c) /\ call[c] \in [method : Methods, arg : Args]
  BY <1>1 DEF ConnectionInv, Typed, Orderly, Running
<1>4. \A e \in Elems(line) : e.for # c
  BY <1>1 DEF ConnectionInv, Orderly
<1>5. \A r \in Elems(replies) : r.for = c => r = Head(replies)
  BY <1>1, <1>2, OneElement DEF ConnectionInv, Orderly
<1>6. QED
  BY <1>1, <1>2, <1>3, <1>4, <1>5 DEF Owing

\* What a method does next is one of its statements, or its end.
LEMMA NextIssued ==
    ASSUME NEW method \in Methods, NEW of, NEW says, NEW s \in Follows(method, of, says)
    PROVE  s \in Issued(method) \union {"return", "raise"}
BY DEF Follows, Issued

\* The thread answers a statement: the order of things stays, and so do debts,
\* but that of the caller whose commit or rollback this was.
LEMMA AnswerKeeps ==
    ASSUME ConnectionInv, line # <<>>, NEW says \in {"ok", "error", "found"}, Answer(says)
    PROVE  /\ call' \in [Callers -> [method : Methods, arg : Args] \union {Idle}]
           /\ line' \in Seq(Trips) /\ replies' \in Seq(Answers)
           /\ Orderly'
           /\ \A c \in Callers : Owing(c) =>
                 \/ Owing(c)'
                 \/ /\ c = Head(line).for /\ Head(line).do \in Ending[call[c].method]
                    /\ ~Ends(call[c].method, Head(line).do, says)
           /\ \A c \in Callers : c = Head(line).for /\ Ends(call[c].method, Head(line).do, says)
                                 => Owing(c)'
<1> DEFINE head == Head(line)
           reply == [for |-> head.for, of |-> head.do, says |-> says]
<1>1. /\ head \in Trips /\ head \in Elems(line)
      /\ \/ head.for = NoCaller /\ head.do \in Issued("replace_chunks")
         \/ head.for \in Callers /\ head.do \in Issued(call[head.for].method)
  BY HeadOfLine
<1>2. /\ line' \in Seq(Trips) /\ OneEach(line')
      /\ Elems(line) = Elems(line') \union {head}
      /\ \A e \in Elems(line') : e.for = head.for => e.for = NoCaller
  BY TailQueue DEF ConnectionInv, Typed, Orderly, Answer
<1>3. /\ call' = call /\ call \in [Callers -> [method : Methods, arg : Args] \union {Idle}]
      /\ NoCaller \notin Callers
      /\ \A e \in Elems(line) :
            \/ e.for = NoCaller /\ e.do \in Issued("replace_chunks")
            \/ e.for \in Callers /\ Running(e.for) /\ e.do \in Issued(call[e.for].method)
      /\ \A r \in Elems(replies) : Running(r.for) /\ r.of \in Issued(call[r.for].method)
      /\ \A e \in Elems(line), r \in Elems(replies) : e.for # r.for
      /\ replies \in Seq(Answers) /\ OneEach(replies)
  BY CallerAssumption DEF ConnectionInv, Typed, Orderly, Answer
<1>4. /\ replies' \in Seq(Answers) /\ OneEach(replies')
      /\ head.for = NoCaller => Elems(replies') = Elems(replies)
      /\ head.for # NoCaller => Elems(replies') = Elems(replies) \union {reply}
  <2>1. CASE head.for = NoCaller
    BY <1>3, <2>1 DEF Answer
  <2>2. CASE head.for # NoCaller
    <3>1. reply \in Answers
      BY <1>1, <2>2 DEF Trips, Answers
    <3>2. \A r \in Elems(replies) : r.for # reply.for
      BY <1>1, <1>3
    <3>3. replies' = Append(replies, reply)
      BY <2>2 DEF Answer
    <3> HIDE DEF reply
    <3>4. QED
      BY <1>3, <2>2, <3>1, <3>2, <3>3, AppendQueue
  <2>3. QED
    BY <2>1, <2>2
<1>5. \A c : Running(c)' <=> Running(c)
  BY <1>3 DEF Running
<1>6. Elems(line)' = Elems(line') /\ Elems(replies)' = Elems(replies')
      /\ OneEach(line)' = OneEach(line') /\ OneEach(replies)' = OneEach(replies')
  BY DEF Elems, OneEach
<1>7. /\ reply.for = head.for /\ reply.of = head.do /\ reply.says = says
  OBVIOUS
<1> HIDE DEF head, reply
<1>8. \A e \in Elems(line') :
         \/ e.for = NoCaller /\ e.do \in Issued("replace_chunks")
         \/ e.for \in Callers /\ Running(e.for) /\ e.do \in Issued(call[e.for].method)
  BY <1>2, <1>3
<1>9. \A r \in Elems(replies') : Running(r.for) /\ r.of \in Issued(call[r.for].method)
  <2>1. head.for # NoCaller => Running(head.for) /\ head.do \in Issued(call[head.for].method)
    BY <1>1, <1>3
  <2>2. QED
    BY <1>3, <1>4, <1>7, <2>1
<1>10. \A e \in Elems(line'), r \in Elems(replies') : e.for # r.for
  BY <1>1, <1>2, <1>3, <1>4, <1>7
<1>11. Orderly'
  <2>1. \A e \in Elems(line') :
           \/ e.for = NoCaller /\ e.do \in Issued("replace_chunks")
           \/ e.for \in Callers /\ Running(e.for)' /\ e.do \in Issued(call'[e.for].method)
    BY <1>3, <1>5, <1>8
  <2>2. \A r \in Elems(replies') : Running(r.for)' /\ r.of \in Issued(call'[r.for].method)
    BY <1>3, <1>5, <1>9
  <2>3. QED
    BY <1>2, <1>4, <1>6, <1>10, <2>1, <2>2 DEF Orderly
<1>12. \A c : Owing(c)' <=> 
           \/ \E e \in Elems(line') : e.for = c /\ e.do \in Ending[call[c].method]
           \/ \E r \in Elems(replies') : r.for = c /\ Ends(call[c].method, r.of, r.says)
  BY <1>3, <1>6 DEF Owing
<1>13. ASSUME NEW c \in Callers, Owing(c)
       PROVE  \/ Owing(c)'
              \/ /\ c = head.for /\ head.do \in Ending[call[c].method]
                 /\ ~Ends(call[c].method, head.do, says)
  <2>1. CASE \E r \in Elems(replies) : r.for = c /\ Ends(call[c].method, r.of, r.says)
    BY <1>4, <1>12, <2>1
  <2>2. CASE \E e \in Elems(line) : e.for = c /\ e.do \in Ending[call[c].method]
    <3>1. PICK e \in Elems(line) : e.for = c /\ e.do \in Ending[call[c].method]
      BY <2>2
    <3>2. CASE e \in Elems(line')
      BY <1>12, <3>1, <3>2
    <3>3. CASE e = head
      BY <1>3, <1>4, <1>7, <1>12, <3>1, <3>3
    <3>4. QED
      BY <1>2, <3>1, <3>2, <3>3
  <2>3. QED
    BY <1>13, <2>1, <2>2 DEF Owing
<1>14. \A c \in Callers : c = head.for /\ Ends(call[c].method, head.do, says) => Owing(c)'
  BY <1>3, <1>4, <1>7, <1>12
<1>15. QED
  BY <1>2, <1>3, <1>4, <1>11, <1>13, <1>14 DEF head

\* A statement writes rows of the tables.
LEMMA WrittenIsTables ==
    ASSUME working \in Tables, NEW s \in Writes, NEW a \in Args
    PROVE  Written(s, a) \in Tables
<1>1. CASE s = "insert page"
  BY <1>1 DEF Written, Tables
<1>2. CASE s = "insert job"
  BY <1>2 DEF Written, Tables
<1>3. CASE s = "mark done"
  BY <1>3 DEF Written, Tables
<1>4. CASE s = "delete chunks"
  BY <1>4 DEF Written, Tables
<1>5. CASE s = "insert chunks"
  BY <1>5 DEF Written, Tables
<1>6. CASE s = "insert rule"
  BY <1>6 DEF Written, Tables
<1>7. CASE s = "upsert tombs"
  BY <1>7 DEF Written, Tables
<1>8. CASE s = "delete pages"
  BY <1>8 DEF Written, Tables
<1>9. CASE s = "deactivate"
  BY <1>9 DEF Written, Tables
<1>10. CASE s = "activate"
  BY <1>10 DEF Written, Tables
<1>11. QED
  BY <1>1, <1>2, <1>3, <1>4, <1>5, <1>6, <1>7, <1>8, <1>9, <1>10 DEF Writes

\* The statements of replace_chunks write nothing but chunks.
LEMMA ChunksStayClean ==
    ASSUME working \in Tables, committed \in Tables, Clean, NEW a,
           NEW s \in {"delete chunks", "insert chunks"}, working' = Written(s, a),
           committed' = committed
    PROVE  Clean'
<1>1. working = [committed EXCEPT !.chunks = working.chunks]
  BY DEF Clean
<1>2. \E x : working' = [working EXCEPT !.chunks = x]
  <2>1. CASE s = "delete chunks"
    BY <2>1 DEF Written
  <2>2. CASE s = "insert chunks"
    BY <2>2 DEF Written
  <2>3. QED
    BY <2>1, <2>2
<1>3. PICK x : working' = [working EXCEPT !.chunks = x]
  BY <1>2
<1>4. working' = [committed EXCEPT !.chunks = x]
  BY <1>1, <1>3 DEF Tables
<1>5. working'.chunks = x
  BY <1>4 DEF Tables
<1>6. QED
  BY <1>4, <1>5 DEF Clean

\* A write that succeeds is owed by its caller, one that fails has written
\* nothing; neither pays a debt.
LEMMA WriteKeeps ==
    ASSUME ConnectionInv, NEW s \in Writes, Write(s)
    PROVE  /\ ConnectionInv'
           /\ Owed => Owed'
           /\ s \notin {"delete chunks", "insert chunks"} /\ ~Violates(s, Head(line).arg) => Owed'
<1> DEFINE head == Head(line)
<1>1. /\ line # <<>> /\ head.do = s /\ committed' = committed
      /\ \/ Violates(s, head.arg) /\ Answer("error") /\ UNCHANGED working
         \/ /\ ~Violates(s, head.arg) /\ working' = Written(s, head.arg) /\ Answer("ok")
  BY DEF Write, First
<1>2. /\ head \in Trips /\ head \in Elems(line)
      /\ \/ head.for = NoCaller /\ head.do \in Issued("replace_chunks")
         \/ /\ head.for \in Callers
            /\ call[head.for].method \in Methods /\ head.do \in Issued(call[head.for].method)
  BY <1>1, HeadOfLine
<1>3. /\ working \in Tables /\ committed \in Tables
      /\ Clean \/ Owed
  BY DEF ConnectionInv, Typed
<1>4. /\ \A method \in Methods : Leads(method)
      /\ Issued("replace_chunks") = {"delete chunks", "insert chunks", "commit"}
  BY ProgramEnds
<1>5. s \notin {"commit", "rollback"}
  BY DEF Writes
<1>6. CASE Violates(s, head.arg) /\ Answer("error") /\ UNCHANGED working
  <2>1. Orderly' /\ Typed'
    BY <1>1, <1>3, <1>6, AnswerKeeps DEF Typed
  <2>2. Clean => Clean'
    BY <1>1, <1>6 DEF Clean
  <2>3. s \in {"insert page", "insert job", "insert rule", "activate", "insert chunks"}
    BY <1>6 DEF Violates
  <2>4. ASSUME NEW c \in Callers, Owing(c)
        PROVE  Owing(c)'
    <3>1. \/ Owing(c)'
          \/ /\ c = head.for /\ s \in Ending[call[c].method]
             /\ ~Ends(call[c].method, s, "error")
      BY <1>1, <1>6, <2>4, AnswerKeeps
    <3>2. c = head.for /\ s \in Ending[call[c].method] => Ends(call[c].method, s, "error")
      <4>1. ASSUME c = head.for, s \in Ending[call[c].method]
            PROVE  Ends(call[c].method, s, "error")
        <5>1. Leads(call[c].method)
          BY <1>2, <1>4, <4>1, CallerAssumption
        <5>2. s = "activate"
          BY <1>5, <2>3, <4>1, <5>1 DEF Leads
        <5>3. QED
          BY <4>1, <5>1, <5>2 DEF Leads
      <4>2. QED
        BY <4>1
    <3>3. QED
      BY <3>1, <3>2
  <2>5. QED
    BY <1>3, <1>6, <2>1, <2>2, <2>4 DEF ConnectionInv, Owed
<1>7. CASE ~Violates(s, head.arg) /\ working' = Written(s, head.arg) /\ Answer("ok")
  <2>1. Written(s, head.arg) \in Tables
    BY <1>2, <1>3, WrittenIsTables DEF Trips
  <2>2. Orderly' /\ Typed'
    BY <1>1, <1>3, <1>7, <2>1, AnswerKeeps DEF Typed
  <2>3. CASE s \in {"delete chunks", "insert chunks"}
    <3>1. Clean => Clean'
      BY <1>1, <1>3, <1>7, <2>3, ChunksStayClean
    <3>2. ASSUME NEW c \in Callers, Owing(c)
          PROVE  Owing(c)'
      <4>1. \/ Owing(c)'
            \/ c = head.for /\ s \in Ending[call[c].method]
        BY <1>1, <1>7, <3>2, AnswerKeeps
      <4>2. c = head.for => s \notin Ending[call[c].method]
        <5>1. ASSUME c = head.for
              PROVE  Leads(call[c].method)
          BY <1>2, <1>4, <5>1, CallerAssumption
        <5>2. QED
          BY <1>5, <2>3, <5>1 DEF Leads
      <4>3. QED
        BY <4>1, <4>2
    <3>3. QED
      BY <1>3, <2>2, <2>3, <3>1, <3>2 DEF ConnectionInv, Owed
  <2>4. CASE s \notin {"delete chunks", "insert chunks"}
    <3>1. /\ head.for \in Callers
          /\ call[head.for].method \in Methods /\ s \in Issued(call[head.for].method)
      BY <1>1, <1>2, <1>4, <1>5, <2>4
    <3>2. Ends(call[head.for].method, s, "ok")
      BY <1>4, <2>4, <3>1 DEF Leads
    <3>3. \A c \in Callers : c = head.for => Owing(c)'
      BY <1>1, <1>7, <3>2, AnswerKeeps
    <3>4. \E c \in Callers : Owing(c)'
      BY <3>1, <3>3
    <3>5. QED
      BY <2>2, <3>4 DEF ConnectionInv, Owed
  <2>5. QED
    BY <2>3, <2>4
<1>8. QED
  BY <1>1, <1>6, <1>7

\* A read and BEGIN change nothing, and lead on to the commit if they did.
LEMMA ReadKeeps ==
    ASSUME ConnectionInv, (\E s \in Reads : Read(s)) \/ Begin
    PROVE  ConnectionInv' /\ (Owed => Owed')
<1> DEFINE head == Head(line)
<1>1. PICK says \in {"ok", "error", "found"} :
         /\ line # <<>> /\ UNCHANGED <<committed, working>> /\ Answer(says)
         /\ head.do \in Reads \union {"begin"}
         /\ says = "found" => head.do = "select pages" \/ head.do = "select rule"
         /\ says = "error" => head.do = "begin"
  BY DEF Read, Begin, First, Found, dbVars
<1>2. Orderly' /\ Typed'
  BY <1>1, AnswerKeeps DEF ConnectionInv, Typed
<1>3. Clean => Clean'
  BY <1>1 DEF Clean
<1>4. ASSUME NEW c \in Callers, Owing(c)
      PROVE  Owing(c)'
  <2>1. \/ Owing(c)'
        \/ /\ c = head.for /\ head.do \in Ending[call[c].method]
           /\ ~Ends(call[c].method, head.do, says)
    BY <1>1, <1>4, AnswerKeeps
  <2>2. ASSUME c = head.for, head.do \in Ending[call[c].method]
        PROVE  Ends(call[c].method, head.do, says)
    <3>1. Leads(call[c].method)
      BY <1>1, <2>2, HeadOfLine, ProgramEnds, CallerAssumption
    <3>2. head.do \notin {"commit", "rollback", "begin"}
          /\ head.do \in {"select pages", "fetch pages", "fetch no pages", "upsert tombs",
                          "delete pages", "deactivate", "activate"}
      BY <1>1, <2>2, <3>1 DEF Leads, Reads
    <3>3. says # "error"
      BY <1>1, <3>2
    <3>4. says = "found" => head.do = "select pages"
      BY <1>1, <3>2
    <3>5. says = "ok" \/ says = "found"
      BY <3>3
    <3>6. QED
      BY <2>2, <3>1, <3>2, <3>4, <3>5 DEF Leads
  <2>3. QED
    BY <2>1, <2>2
<1>5. QED
  BY <1>2, <1>3, <1>4 DEF ConnectionInv, Owed

\* After a commit and after a rollback there is nothing to owe.
LEMMA EndKeeps ==
    ASSUME ConnectionInv, Commit \/ Rollback
    PROVE  ConnectionInv'
<1>1. /\ line # <<>> /\ Answer("ok") /\ working' = committed'
      /\ committed' \in {committed, working}
  BY DEF Commit, Rollback, First
<1>2. Orderly' /\ Typed'
  BY <1>1, AnswerKeeps DEF ConnectionInv, Typed
<1>3. Clean'
  BY <1>1, <1>2 DEF Clean, Typed, Tables
<1>4. QED
  BY <1>2, <1>3 DEF ConnectionInv

\* A method begins with a statement.
LEMMA CallsBegin ==
    ASSUME NEW method \in Methods, NEW s, <<"call", "ok", s>> \in Routes[method]
    PROVE  s \notin {"return", "raise"}
<1>1. \A next : <<"call", "ok", next>> \in Routes["insert_page"] <=> next = "insert page"
  BY DEF Routes
<1>2. \A next : <<"call", "ok", next>> \in Routes["create_job"] <=> next = "insert job"
  BY DEF Routes
<1>3. \A next : <<"call", "ok", next>> \in Routes["mark_job_done"] <=> next = "mark done"
  BY DEF Routes
<1>4. \A next : <<"call", "ok", next>> \in Routes["replace_chunks"] <=> next = "delete chunks"
  BY DEF Routes
<1>5. \A next : <<"call", "ok", next>> \in Routes["purge_and_blacklist"] <=> next = "insert rule"
  BY DEF Routes, PurgeRoutes
<1>6. \A next : <<"call", "ok", next>> \in Routes["activate_model"] <=> next = "begin"
  BY DEF Routes
<1>7. QED
  BY <1>1, <1>2, <1>3, <1>4, <1>5, <1>6 DEF Methods

\* An answer is for a caller.
LEMMA AnswerFor ==
    ASSUME NEW seq \in Seq(Answers)
    PROVE  \A r \in Elems(seq) : r.for \in Callers
<1>1. \A r \in Elems(seq) : r \in Answers
  BY DEF Elems
<1>2. QED
  BY <1>1 DEF Answers

\* A call sends its first statement; its caller owed nothing before.
LEMMA CallKeeps ==
    ASSUME ConnectionInv, NEW c \in Callers, NEW w \in Workload[c], Call(c, w)
    PROVE  ConnectionInv' /\ (Owed => Owed')
<1>1. PICK s \in Follows(w.method, "call", "ok") :
         line' = Append(line, [for |-> c, do |-> s, arg |-> w.arg])
  BY DEF Call, Issue
<1> DEFINE sent == [for |-> c, do |-> s, arg |-> w.arg]
<1>2. /\ ~Running(c) /\ call' = [call EXCEPT ![c] = w]
      /\ UNCHANGED <<committed, working, replies>>
  BY DEF Call, dbVars
<1>3. w \in [method : Methods, arg : Args] /\ c # NoCaller /\ w # Idle
  BY WorkloadAssumption, CallerAssumption DEF Args, Idle, Methods
<1>4. /\ call \in [Callers -> [method : Methods, arg : Args] \union {Idle}]
      /\ line \in Seq(Trips) /\ replies \in Seq(Answers)
      /\ OneEach(line) /\ OneEach(replies)
      /\ \A e \in Elems(line) :
            \/ e.for = NoCaller /\ e.do \in Issued("replace_chunks")
            \/ e.for \in Callers /\ Running(e.for) /\ e.do \in Issued(call[e.for].method)
      /\ \A r \in Elems(replies) : Running(r.for) /\ r.of \in Issued(call[r.for].method)
      /\ \A e \in Elems(line), r \in Elems(replies) : e.for # r.for
  BY DEF ConnectionInv, Typed, Orderly
<1>5. /\ \A e \in Elems(line) : e.for # c
      /\ \A r \in Elems(replies) : r.for # c /\ r.for \in Callers
  <2>1. \A r \in Elems(replies) : r.for \in Callers
    BY <1>4, AnswerFor
  <2>2. QED
    BY <1>2, <1>3, <1>4, <2>1
<1>6. s \in Issued(w.method)
  <2>1. <<"call", "ok", s>> \in Routes[w.method]
    BY <1>1, <1>3, ProgramRoutes
  <2>2. s \notin {"return", "raise"}
    BY <1>3, <2>1, CallsBegin
  <2>3. QED
    BY <1>1, <1>3, <2>2, NextIssued
<1>7. sent \in Trips
  <2>1. s \in Statements
    BY <1>3, <1>6, ProgramEnds DEF Leads
  <2>2. QED
    BY <1>3, <2>1 DEF Trips
<1>8. /\ line' \in Seq(Trips) /\ OneEach(line') /\ Elems(line') = Elems(line) \union {sent}
  <2> HIDE DEF sent
  <2>1. \A e \in Elems(line) : e.for # sent.for
    BY <1>5 DEF sent
  <2>2. QED
    BY <1>1, <1>4, <1>7, <2>1, AppendQueue DEF sent
<1>9. call' \in [Callers -> [method : Methods, arg : Args] \union {Idle}]
      /\ call'[c] = w /\ \A d \in Callers : d # c => call'[d] = call[d]
  BY <1>2, <1>3, <1>4
<1>10. Typed'
  BY <1>2, <1>4, <1>8, <1>9 DEF ConnectionInv, Typed
<1>11. /\ Elems(line)' = Elems(line') /\ OneEach(line)' = OneEach(line')
       /\ Elems(replies)' = Elems(replies) /\ OneEach(replies)' = OneEach(replies)
  BY <1>2 DEF Elems, OneEach
<1>12. sent.for = c /\ sent.do = s
  OBVIOUS
<1> HIDE DEF sent
<1>13. Running(c)' /\ \A d \in Callers : d # c => Running(d)' = Running(d)
  BY <1>3, <1>9 DEF Running
<1>14. Orderly'
  <2>1. \A e \in Elems(line') :
           \/ e.for = NoCaller /\ e.do \in Issued("replace_chunks")
           \/ e.for \in Callers /\ Running(e.for)' /\ e.do \in Issued(call'[e.for].method)
    BY <1>4, <1>5, <1>6, <1>8, <1>9, <1>12, <1>13
  <2>2. \A r \in Elems(replies) : Running(r.for)' /\ r.of \in Issued(call'[r.for].method)
    BY <1>4, <1>5, <1>9, <1>13
  <2>3. \A e \in Elems(line'), r \in Elems(replies) : e.for # r.for
    BY <1>4, <1>5, <1>8, <1>12
  <2>4. QED
    BY <1>4, <1>8, <1>11, <2>1, <2>2, <2>3 DEF Orderly
<1>15. Clean => Clean'
  BY <1>2 DEF Clean
<1>16. ASSUME NEW d \in Callers, Owing(d)
       PROVE  Owing(d)'
  <2>1. d # c
    BY <1>5, <1>16 DEF Owing
  <2>2. QED
    BY <1>8, <1>9, <1>11, <1>16, <2>1 DEF Owing
<1>17. QED
  BY <1>10, <1>14, <1>15, <1>16 DEF ConnectionInv, Owed

\* The answer that a caller hears leaves the replies; the others stay.
LEMMA HeardOne ==
    ASSUME ConnectionInv, NEW c \in Callers, Heard(c)
    PROVE  /\ replies' \in Seq(Answers) /\ OneEach(replies')
           /\ Elems(replies) = Elems(replies') \union {Head(replies)}
           /\ \A r \in Elems(replies') : r.for # c /\ r.for \in Callers
           /\ Head(replies).for = c /\ Head(replies) \in Elems(replies)
           /\ Running(c) /\ call[c] \in [method : Methods, arg : Args]
           /\ \A e \in Elems(line) : e.for # c
           /\ Owing(c) => Ends(call[c].method, Head(replies).of, Head(replies).says)
<1>1. replies # <<>> /\ c = Head(replies).for /\ replies' = Tail(replies)
  BY DEF Heard
<1>2. replies' \in Seq(Answers)
  BY <1>1, TailQueue DEF ConnectionInv, Typed, Orderly
<1>3. \A r \in Elems(replies') : r.for \in Callers
  BY <1>2, AnswerFor
<1>4. QED
  BY <1>1, <1>3, HeadOfReplies, TailQueue DEF ConnectionInv, Typed, Orderly

\* The next statement of a method that owes is one that owes.
LEMMA ContinueKeeps ==
    ASSUME ConnectionInv, NEW c \in Callers, Continue(c)
    PROVE  ConnectionInv' /\ (Owed => Owed')
<1>1. Heard(c) /\ UNCHANGED <<committed, working, call>>
  BY DEF Continue, dbVars
<1>2. PICK s \in NextOf(c) \ {"return", "raise"} :
         line' = Append(line, [for |-> c, do |-> s, arg |-> call[c].arg])
  BY DEF Continue, Issue
<1> DEFINE sent == [for |-> c, do |-> s, arg |-> call[c].arg]
           heard == Head(replies)
<1>3. /\ replies' \in Seq(Answers) /\ OneEach(replies')
      /\ Elems(replies) = Elems(replies') \union {heard}
      /\ \A r \in Elems(replies') : r.for # c
      /\ heard.for = c /\ heard \in Elems(replies)
      /\ Running(c) /\ call[c] \in [method : Methods, arg : Args]
      /\ \A e \in Elems(line) : e.for # c
      /\ Owing(c) => Ends(call[c].method, heard.of, heard.says)
  BY <1>1, HeardOne
<1>4. /\ call \in [Callers -> [method : Methods, arg : Args] \union {Idle}]
      /\ line \in Seq(Trips) /\ OneEach(line) /\ c # NoCaller
      /\ \A e \in Elems(line) :
            \/ e.for = NoCaller /\ e.do \in Issued("replace_chunks")
            \/ e.for \in Callers /\ Running(e.for) /\ e.do \in Issued(call[e.for].method)
      /\ \A r \in Elems(replies) : Running(r.for) /\ r.of \in Issued(call[r.for].method)
      /\ \A e \in Elems(line), r \in Elems(replies) : e.for # r.for
  BY CallerAssumption DEF ConnectionInv, Typed, Orderly
<1>5. /\ s \in Issued(call[c].method)
      /\ Ends(call[c].method, heard.of, heard.says) => s \in Ending[call[c].method]
  BY <1>2, <1>3, NextIssued DEF NextOf, Ends
<1>6. sent \in Trips
  <2>1. s \in Statements
    BY <1>3, <1>5, ProgramEnds DEF Leads
  <2>2. QED
    BY <1>3, <2>1 DEF Trips
<1>7. line' \in Seq(Trips) /\ OneEach(line') /\ Elems(line') = Elems(line) \union {sent}
  <2> HIDE DEF sent
  <2>1. \A e \in Elems(line) : e.for # sent.for
    BY <1>3 DEF sent
  <2>2. QED
    BY <1>2, <1>4, <1>6, <2>1, AppendQueue DEF sent
<1>8. Typed'
  BY <1>1, <1>3, <1>7 DEF ConnectionInv, Typed
<1>9. /\ Elems(line)' = Elems(line') /\ OneEach(line)' = OneEach(line')
      /\ Elems(replies)' = Elems(replies') /\ OneEach(replies)' = OneEach(replies')
      /\ \A d : Running(d)' = Running(d)
  BY <1>1 DEF Elems, OneEach, Running
<1>10. sent.for = c /\ sent.do = s
  OBVIOUS
<1> HIDE DEF sent, heard
<1>11. Orderly'
  <2>1. \A e \in Elems(line') :
           \/ e.for = NoCaller /\ e.do \in Issued("replace_chunks")
           \/ e.for \in Callers /\ Running(e.for) /\ e.do \in Issued(call[e.for].method)
    BY <1>3, <1>4, <1>5, <1>7, <1>10
  <2>2. \A r \in Elems(replies') : Running(r.for) /\ r.of \in Issued(call[r.for].method)
    BY <1>3, <1>4
  <2>3. \A e \in Elems(line'), r \in Elems(replies') : e.for # r.for
    BY <1>3, <1>4, <1>7, <1>10
  <2>4. QED
    BY <1>1, <1>3, <1>7, <1>9, <2>1, <2>2, <2>3 DEF Orderly
<1>12. Clean => Clean'
  BY <1>1 DEF Clean
<1>13. ASSUME NEW d \in Callers, Owing(d)
       PROVE  Owing(d)'
  <2>1. CASE d = c
    <3>1. sent \in Elems(line') /\ sent.do \in Ending[call[d].method]
      BY <1>3, <1>5, <1>7, <1>10, <1>13, <2>1
    <3>2. QED
      BY <1>1, <1>9, <1>10, <2>1, <3>1 DEF Owing
  <2>2. CASE d # c
    BY <1>1, <1>3, <1>7, <1>9, <1>13, <2>2 DEF Owing
  <2>3. QED
    BY <2>1, <2>2
<1>14. QED
  BY <1>8, <1>11, <1>12, <1>13 DEF ConnectionInv, Owed

\* A method that owes does not end.
LEMMA EndsKeep ==
    ASSUME ConnectionInv, NEW c \in Callers, Return(c) \/ Raise(c)
    PROVE  ConnectionInv' /\ (Owed => Owed')
<1>1. /\ Heard(c) /\ NextOf(c) \intersect {"return", "raise"} # {}
      /\ call' = [call EXCEPT ![c] = Idle] /\ UNCHANGED <<committed, working, line>>
  BY DEF Return, Raise, dbVars
<1> DEFINE heard == Head(replies)
<1>2. /\ replies' \in Seq(Answers) /\ OneEach(replies')
      /\ Elems(replies) = Elems(replies') \union {heard}
      /\ \A r \in Elems(replies') : r.for # c /\ r.for \in Callers
      /\ heard.for = c
      /\ call[c] \in [method : Methods, arg : Args]
      /\ \A e \in Elems(line) : e.for # c
      /\ Owing(c) => Ends(call[c].method, heard.of, heard.says)
  BY <1>1, HeardOne
<1>3. /\ call \in [Callers -> [method : Methods, arg : Args] \union {Idle}]
      /\ line \in Seq(Trips) /\ OneEach(line)
      /\ \A e \in Elems(line) :
            \/ e.for = NoCaller /\ e.do \in Issued("replace_chunks")
            \/ e.for \in Callers /\ Running(e.for) /\ e.do \in Issued(call[e.for].method)
      /\ \A r \in Elems(replies) : Running(r.for) /\ r.of \in Issued(call[r.for].method)
      /\ \A e \in Elems(line), r \in Elems(replies) : e.for # r.for
  BY DEF ConnectionInv, Typed, Orderly
<1>4. ~Owing(c)
  <2>1. Ending[call[c].method] \intersect {"return", "raise"} = {}
    BY <1>2, ProgramEnds DEF Leads
  <2>2. QED
    BY <1>1, <1>2, <2>1 DEF Ends, NextOf
<1>5. /\ call' \in [Callers -> [method : Methods, arg : Args] \union {Idle}]
      /\ \A d \in Callers : d # c => call'[d] = call[d] /\ Running(d)' = Running(d)
  BY <1>1, <1>3 DEF Running
<1>6. Typed'
  BY <1>1, <1>2, <1>5 DEF ConnectionInv, Typed
<1>7. /\ Elems(line)' = Elems(line) /\ OneEach(line)' = OneEach(line)
      /\ Elems(replies)' = Elems(replies') /\ OneEach(replies)' = OneEach(replies')
  BY <1>1 DEF Elems, OneEach
<1> HIDE DEF heard
<1>8. Orderly'
  <2>1. \A e \in Elems(line) :
           \/ e.for = NoCaller /\ e.do \in Issued("replace_chunks")
           \/ e.for \in Callers /\ Running(e.for)' /\ e.do \in Issued(call'[e.for].method)
    BY <1>2, <1>3, <1>5
  <2>2. \A r \in Elems(replies') : Running(r.for)' /\ r.of \in Issued(call'[r.for].method)
    BY <1>2, <1>3, <1>5
  <2>3. \A e \in Elems(line), r \in Elems(replies') : e.for # r.for
    BY <1>2, <1>3
  <2>4. QED
    BY <1>2, <1>3, <1>7, <2>1, <2>2, <2>3 DEF Orderly
<1>9. Clean => Clean'
  BY <1>1 DEF Clean
<1>10. ASSUME NEW d \in Callers, Owing(d)
       PROVE  Owing(d)'
  <2>1. d # c
    BY <1>4, <1>10
  <2>2. QED
    BY <1>2, <1>5, <1>7, <1>10, <2>1 DEF Owing
<1>11. QED
  BY <1>6, <1>8, <1>9, <1>10 DEF ConnectionInv, Owed

\* The statement and the answer of a cancelled call are nobody's, and owed
\* nothing.
LEMMA CancelKeeps ==
    ASSUME ConnectionInv, NEW c \in Callers, Cancel(c)
    PROVE  ConnectionInv' /\ (Owed => Owed')
<1> DEFINE Nobodys(e) == IF e.for = c THEN [e EXCEPT !.for = NoCaller] ELSE e
<1>1. /\ call[c].method = "replace_chunks" /\ call' = [call EXCEPT ![c] = Idle]
      /\ line' = [i \in DOMAIN line |-> Nobodys(line[i])]
      /\ UNCHANGED <<committed, working>>
      /\ \/ /\ \A i \in DOMAIN replies : replies[i].for # c
            /\ replies' = replies
         \/ \E i \in DOMAIN replies : replies[i].for = c /\ replies' = RemoveAt(replies, i)
  BY DEF Cancel, dbVars
<1>2. /\ call \in [Callers -> [method : Methods, arg : Args] \union {Idle}]
      /\ line \in Seq(Trips) /\ OneEach(line) /\ c # NoCaller
      /\ replies \in Seq(Answers) /\ OneEach(replies)
      /\ \A e \in Elems(line) :
            \/ e.for = NoCaller /\ e.do \in Issued("replace_chunks")
            \/ e.for \in Callers /\ Running(e.for) /\ e.do \in Issued(call[e.for].method)
      /\ \A r \in Elems(replies) : Running(r.for) /\ r.of \in Issued(call[r.for].method)
      /\ \A e \in Elems(line), r \in Elems(replies) : e.for # r.for
  BY CallerAssumption DEF ConnectionInv, Typed, Orderly
<1>3. /\ replies' \in Seq(Answers) /\ OneEach(replies') /\ Elems(replies') \subseteq Elems(replies)
      /\ \A r \in Elems(replies) : r.for # c => r \in Elems(replies')
      /\ \A r \in Elems(replies') : r.for # c
  <2>1. CASE (\A i \in DOMAIN replies : replies[i].for # c) /\ replies' = replies
    BY <1>2, <2>1 DEF Elems
  <2>2. CASE \E i \in DOMAIN replies : replies[i].for = c /\ replies' = RemoveAt(replies, i)
    BY <1>2, <2>2, RemoveQueue
  <2>3. QED
    BY <1>1, <2>1, <2>2
<1>4. \A r \in Elems(replies') : r.for \in Callers
  BY <1>3, AnswerFor
<1>5. \A e \in Trips : /\ Nobodys(e) \in Trips /\ Nobodys(e).do = e.do
                       /\ Nobodys(e).for = IF e.for = c THEN NoCaller ELSE e.for
                       /\ e.for # c => Nobodys(e) = e
  BY DEF Trips
<1>6. DOMAIN line = 1..Len(line) /\ Len(line) \in Nat /\ \A i \in DOMAIN line : line[i] \in Trips
  BY <1>2
<1> HIDE DEF Nobodys
<1>7. /\ line' \in Seq(Trips) /\ DOMAIN line' = DOMAIN line
      /\ \A i \in DOMAIN line : line'[i] = Nobodys(line[i])
  <2>1. line' \in [1..Len(line) -> Trips]
    BY <1>1, <1>5, <1>6
  <2>2. line' \in Seq(Trips)
    BY <1>6, <2>1
  <2>3. QED
    BY <1>1, <1>6, <2>2
<1>8. OneEach(line')
  <2>1. ASSUME NEW i \in DOMAIN line, NEW j \in DOMAIN line,
               line'[i].for = line'[j].for, line'[i].for # NoCaller
        PROVE  i = j
    <3>1. line[i].for = line[j].for /\ line[i].for # NoCaller
      BY <1>5, <1>6, <1>7, <2>1
    <3>2. QED
      BY <1>2, <3>1 DEF OneEach
  <2>2. QED
    BY <1>7, <2>1 DEF OneEach
<1>9. /\ \A e \in Elems(line') : \E f \in Elems(line) : f \in Trips /\ e = Nobodys(f)
      /\ \A e \in Elems(line) : e \in Trips /\ Nobodys(e) \in Elems(line')
  BY <1>6, <1>7 DEF Elems
<1>10. /\ call' \in [Callers -> [method : Methods, arg : Args] \union {Idle}]
       /\ \A d \in Callers : d # c => call'[d] = call[d] /\ Running(d)' = Running(d)
  BY <1>1, <1>2 DEF Running
<1>11. Typed'
  BY <1>1, <1>3, <1>7, <1>10 DEF ConnectionInv, Typed
<1>12. /\ Elems(line)' = Elems(line') /\ OneEach(line)' = OneEach(line')
       /\ Elems(replies)' = Elems(replies') /\ OneEach(replies)' = OneEach(replies')
  BY DEF Elems, OneEach
<1>13. Orderly'
  <2>1. \A e \in Elems(line') :
           \/ e.for = NoCaller /\ e.do \in Issued("replace_chunks")
           \/ e.for \in Callers /\ Running(e.for)' /\ e.do \in Issued(call'[e.for].method)
    <3>1. ASSUME NEW e \in Elems(line')
          PROVE  \/ e.for = NoCaller /\ e.do \in Issued("replace_chunks")
                 \/ e.for \in Callers /\ Running(e.for)' /\ e.do \in Issued(call'[e.for].method)
      <4>1. PICK f \in Elems(line) : f \in Trips /\ e = Nobodys(f)
        BY <1>9
      <4>2. CASE f.for = c
        BY <1>1, <1>2, <1>5, <4>1, <4>2
      <4>3. CASE f.for # c
        BY <1>2, <1>5, <1>10, <4>1, <4>3
      <4>4. QED
        BY <4>2, <4>3
    <3>2. QED
      BY <3>1
  <2>2. \A r \in Elems(replies') : Running(r.for)' /\ r.of \in Issued(call'[r.for].method)
    BY <1>2, <1>3, <1>4, <1>10
  <2>3. \A e \in Elems(line'), r \in Elems(replies') : e.for # r.for
    <3>1. NoCaller \notin Callers
      BY CallerAssumption
    <3>2. QED
      BY <1>2, <1>3, <1>4, <1>5, <1>9, <3>1
  <2>4. QED
    BY <1>3, <1>8, <1>12, <2>1, <2>2, <2>3 DEF Orderly
<1>14. Clean => Clean'
  BY <1>1 DEF Clean
<1>15. ~Owing(c)
  <2>1. Ending["replace_chunks"] = {}
    BY ProgramEnds
  <2>2. QED
    BY <1>1, <2>1 DEF Owing, Ends
<1>16. ASSUME NEW d \in Callers, Owing(d)
       PROVE  Owing(d)'
  <2>1. d # c /\ call'[d] = call[d]
    BY <1>10, <1>15, <1>16
  <2>2. CASE \E e \in Elems(line) : e.for = d /\ e.do \in Ending[call[d].method]
    <3>1. PICK e \in Elems(line) : e.for = d /\ e.do \in Ending[call[d].method]
      BY <2>2
    <3>2. e \in Elems(line')
      BY <1>5, <1>9, <2>1, <3>1
    <3>3. QED
      BY <1>12, <2>1, <3>1, <3>2 DEF Owing
  <2>3. CASE \E r \in Elems(replies) : r.for = d /\ Ends(call[d].method, r.of, r.says)
    BY <1>3, <1>12, <2>1, <2>3 DEF Owing
  <2>4. QED
    BY <1>16, <2>2, <2>3 DEF Owing
<1>17. QED
  BY <1>11, <1>13, <1>14, <1>16 DEF ConnectionInv, Owed

\* Nothing is under way at the start.
LEMMA ConnectionStarts == Init => ConnectionInv
<1> SUFFICES ASSUME Init
             PROVE  ConnectionInv
  OBVIOUS
<1>1. Stored \in SUBSET Args /\ {FirstModel} \in SUBSET Args
  BY StartAssumption DEF Args
<1>2. committed \in Tables /\ working = committed
  BY <1>1 DEF Init, Tables
<1>3. line = <<>> /\ replies = <<>> /\ call = [c \in Callers |-> Idle]
  BY DEF Init
<1>4. Elems(line) = {} /\ Elems(replies) = {} /\ OneEach(line) /\ OneEach(replies)
  BY <1>3 DEF Elems, OneEach
<1>5. Typed /\ Orderly
  BY <1>2, <1>3, <1>4 DEF Typed, Orderly
<1>6. Clean
  BY <1>2 DEF Clean, Tables
<1>7. QED
  BY <1>5, <1>6 DEF ConnectionInv

\* Every step keeps the invariant.
LEMMA ConnectionKept == ConnectionInv /\ [Next]_vars => ConnectionInv'
<1> SUFFICES ASSUME ConnectionInv, [Next]_vars
             PROVE  ConnectionInv'
  OBVIOUS
<1>1. CASE \E s \in Writes : Write(s)
  BY <1>1, WriteKeeps
<1>2. CASE (\E s \in Reads : Read(s)) \/ Begin
  BY <1>2, ReadKeeps
<1>3. CASE Commit \/ Rollback
  BY <1>3, EndKeeps
<1>4. CASE \E c \in Callers : \E w \in Workload[c] : Call(c, w)
  BY <1>4, CallKeeps
<1>5. CASE \E c \in Callers : Continue(c)
  BY <1>5, ContinueKeeps
<1>6. CASE \E c \in Callers : Return(c) \/ Raise(c)
  BY <1>6, EndsKeep
<1>7. CASE \E c \in Callers : Cancel(c)
  BY <1>7, CancelKeeps
<1>8. CASE UNCHANGED vars
  <2>1. UNCHANGED <<committed, working, call, line, replies>>
    BY <1>8 DEF vars, dbVars
  <2>2. QED
    BY <2>1 DEF ConnectionInv, Typed, Orderly, Clean, Owed, Owing, OneEach, Elems, Running
<1>9. QED
  BY <1>1, <1>2, <1>3, <1>4, <1>5, <1>6, <1>7, <1>8 DEF Next

-----------------------------------------------------------------------------
(* What a method writes stays.                                             *)

Calls == UNION {Workload[c] : c \in Callers}
Purged(p) == \E w \in Calls : w.method = "purge_and_blacklist" /\ w.arg = p

\* The worker alone indexes.
OneWriter == \A c \in Callers : \A w \in Workload[c] : w.method = "replace_chunks" => c = Worker

\* What a purge selects is not what is being inserted: a page stands for a URL
\* and for an id at once, and a page that is inserted again has a new id.
NewPages == \A w \in Calls : w.method = "insert_page" => ~Purged(w.arg)

\* What a method is to leave in the tables. The chunks of a page go with it
\* when a purge deletes it, and NewPages keeps it from coming back.
Has(db, w) ==
    /\ w.method = "insert_page" => w.arg \in db.pages
    /\ w.method = "create_job" => w.arg \in db.jobs
    /\ w.method = "mark_job_done" => w.arg \in db.done
    /\ w.method = "replace_chunks" =>
          w.arg \in db.chunks \/ (w.arg \notin db.pages /\ Purged(w.arg))
    /\ w.method = "purge_and_blacklist" => w.arg \in db.rules /\ w.arg \notin db.pages

\* What holds of the tables where a method comes to a statement, or to its
\* return; of activate_model other callers decide.
Given(w, s, work, saved) ==
    /\ w.method = "create_job" /\ s = "rollback" => w.arg \in work.jobs
    /\ w.method = "mark_job_done" /\ s = "mark done" => w.arg \in work.jobs
    /\ w.method = "purge_and_blacklist" /\ s \notin {"insert rule", "raise"} =>
          w.arg \in work.rules
    /\ w.method = "purge_and_blacklist" /\ s = "fetch no pages" => w.arg \notin work.pages
    /\ s = "commit" => Has(work, w)
    /\ s = "return" => Has(work, w) /\ Has(saved, w)

Untouched == Callers \ cut

\* One element comes before the other in the queue.
Ahead(seq, x, y) == \E i, j \in DOMAIN seq : i < j /\ seq[i] = x /\ seq[j] = y

\* Statements are for the calls of their callers, and the worker waits for
\* the rest of a call that was cancelled.
Own ==
    /\ \A c \in Callers : Running(c) => call[c] \in Workload[c]
    /\ \A e \in Elems(line) : e.for \in Callers => e.arg = call[e.for].arg
    /\ Running(Worker) => \A e \in Elems(line) : e.for # NoCaller

Assured ==
    /\ \A e \in Elems(line) : e.for \in Untouched =>
          Given(call[e.for], e.do, working, committed)
    /\ \A r \in Elems(replies) : r.for \in Untouched =>
          \A s \in Follows(call[r.for].method, r.of, r.says) :
             Given(call[r.for], s, working, committed)

\* A job that is not committed will be: by its creator, if not before.
CommitComes == \E f \in Elems(line) : f.do = "commit"
Created(q) == q.of = "insert job" /\ q.says = "ok"
JobsOwed ==
    working.jobs # committed.jobs => CommitComes \/ \E q \in Elems(replies) : Created(q)

\* Whoever is to roll back because the job is there already comes after the
\* commit of who created it.
RollbackWaits ==
    /\ \A e \in Elems(line) :
          e.for \in Untouched /\ e.do = "rollback" /\ call[e.for].method = "create_job" =>
             \/ e.arg \in committed.jobs
             \/ \E f \in Elems(line) : f.do = "commit" /\ Ahead(line, f, e)
    /\ \A r \in Elems(replies) :
          r.for \in Untouched /\ r.of = "insert job" /\ r.says = "error" =>
             \/ call[r.for].arg \in committed.jobs
             \/ CommitComes
             \/ \E q \in Elems(replies) : Created(q) /\ Ahead(replies, q, r)

\* A model that was activated stays so, or the call that deactivated it comes
\* later in each of the queues, and so returns later.
Ousts(q, of, a) == q.of = of /\ call[q.for].arg # a
OusterNears(a) == \E q \in Elems(replies) : Ousts(q, "deactivate", a)
Activates(f, a) == f.do = "activate" /\ f.arg # a
Succeeded ==
    /\ \A r \in Elems(replies) :
          r.for \in Untouched /\ r.of = "activate" /\ r.says = "ok" =>
             \/ call[r.for].arg \in working.active
             \/ \E q \in Elems(replies) :
                   Ousts(q, "deactivate", call[r.for].arg) /\ Ahead(replies, r, q)
    /\ \A e \in Elems(line) :
          e.for \in Untouched /\ e.do = "commit" /\ call[e.for].method = "activate_model" =>
             \/ e.arg \in working.active
             \/ OusterNears(e.arg)
             \/ \E f \in Elems(line) : Activates(f, e.arg) /\ Ahead(line, e, f)
    /\ \A r \in Elems(replies) :
          r.for \in Untouched /\ r.of = "commit" /\ call[r.for].method = "activate_model" =>
             \/ call[r.for].arg \in working.active \intersect committed.active
             \/ OusterNears(call[r.for].arg)
             \/ \E f \in Elems(line) : Activates(f, call[r.for].arg)
             \/ \E q \in Elems(replies) :
                   Ousts(q, "activate", call[r.for].arg) /\ Ahead(replies, r, q)

WritesInv == Own /\ Assured /\ JobsOwed /\ RollbackWaits /\ Succeeded

\* Which method a statement is of.
LEMMA Issuers ==
    ASSUME NEW m \in Methods, NEW s \in Issued(m)
    PROVE  /\ s = "insert page" => m = "insert_page"
           /\ s = "insert job" => m = "create_job"
           /\ s \in {"insert rule", "select pages", "delete pages"} => m = "purge_and_blacklist"
           /\ s \in {"delete chunks", "insert chunks"} => m = "replace_chunks"
           /\ s \in {"begin", "deactivate", "activate"} => m = "activate_model"
<1>1. PICK of, says : <<of, says, s>> \in Routes[m]
  <2>1. PICK t \in Program[m] : s = t.next
    BY DEF Issued
  <2>2. s \in Follows(m, t.of, t.says)
    BY <2>1 DEF Follows
  <2>3. QED
    BY <2>2, ProgramRoutes
<1>2. s \notin {"return", "raise"}
  BY DEF Issued
<1>3. CASE m = "insert_page"
  BY <1>1, <1>2, <1>3 DEF Routes
<1>4. CASE m = "create_job"
  BY <1>1, <1>2, <1>4 DEF Routes
<1>5. CASE m = "mark_job_done"
  BY <1>1, <1>2, <1>5 DEF Routes
<1>6. CASE m = "replace_chunks"
  BY <1>1, <1>2, <1>6 DEF Routes
<1>7. CASE m = "purge_and_blacklist"
  BY <1>1, <1>2, <1>7 DEF Routes, PurgeRoutes
<1>8. CASE m = "activate_model"
  BY <1>1, <1>2, <1>8 DEF Routes
<1>9. QED
  BY <1>3, <1>4, <1>5, <1>6, <1>7, <1>8 DEF Methods

\* The steps of the methods that the order of statements is about.
LEMMA NextSteps ==
    ASSUME NEW m \in Methods, NEW of, NEW says, NEW s \in Follows(m, of, says)
    PROVE  /\ of = "insert job" =>
                 (says = "ok" /\ s = "commit") \/ (says = "error" /\ s = "rollback")
           /\ of = "deactivate" => s = "activate"
           /\ m = "activate_model" /\ s = "commit" => of = "activate" /\ says = "ok"
           /\ m = "create_job" /\ s = "rollback" => of = "insert job" /\ says = "error"
           /\ s = "return" => of = "commit" \/ (m = "create_job" /\ of = "rollback")
           /\ m # "create_job" /\ s = "return" => of = "commit"
<1>1. <<of, says, s>> \in Routes[m]
  BY ProgramRoutes
<1>3. CASE m = "insert_page"
  BY <1>1, <1>3 DEF Routes
<1>4. CASE m = "create_job"
  BY <1>1, <1>4 DEF Routes
<1>5. CASE m = "mark_job_done"
  BY <1>1, <1>5 DEF Routes
<1>6. CASE m = "replace_chunks"
  BY <1>1, <1>6 DEF Routes
<1>7. CASE m = "purge_and_blacklist"
  BY <1>1, <1>7 DEF Routes, PurgeRoutes
<1>8. CASE m = "activate_model"
  BY <1>1, <1>8 DEF Routes
<1>9. QED
  BY <1>3, <1>4, <1>5, <1>6, <1>7, <1>8 DEF Methods

\* What a successful write does to each table that matters here.
LEMMA WrittenParts ==
    ASSUME working \in Tables, NEW s \in Writes, NEW a
    PROVE  /\ \A x : x \in Written(s, a).pages <=>
                       \/ s = "insert page" /\ x = a
                       \/ x \in working.pages /\ ~(s = "delete pages" /\ x = a)
           /\ \A x : x \in Written(s, a).rules <=>
                       x \in working.rules \/ (s = "insert rule" /\ x = a)
           /\ \A x : x \in Written(s, a).jobs <=>
                       x \in working.jobs \/ (s = "insert job" /\ x = a)
           /\ s # "insert job" => Written(s, a).jobs = working.jobs
           /\ \A x : x \in working.done => x \in Written(s, a).done
           /\ s = "mark done" /\ a \in working.jobs => a \in Written(s, a).done
           /\ \A x : x \in working.chunks =>
                       \/ x \in Written(s, a).chunks
                       \/ s \in {"delete chunks", "delete pages"} /\ x = a
           /\ s = "insert chunks" => a \in Written(s, a).chunks
           /\ \A x : x \in working.active =>
                       x \in Written(s, a).active \/ (s = "deactivate" /\ x # a)
           /\ s = "activate" => a \in Written(s, a).active
<1>1. CASE s = "insert page"
  BY <1>1 DEF Written, Tables
<1>2. CASE s = "insert job"
  BY <1>2 DEF Written, Tables
<1>3. CASE s = "mark done"
  BY <1>3 DEF Written, Tables
<1>4. CASE s = "delete chunks"
  BY <1>4 DEF Written, Tables
<1>5. CASE s = "insert chunks"
  BY <1>5 DEF Written, Tables
<1>6. CASE s = "insert rule"
  BY <1>6 DEF Written, Tables
<1>7. CASE s = "upsert tombs"
  BY <1>7 DEF Written, Tables
<1>8. CASE s = "delete pages"
  BY <1>8 DEF Written, Tables
<1>9. CASE s = "deactivate"
  BY <1>9 DEF Written, Tables
<1>10. CASE s = "activate"
  BY <1>10 DEF Written, Tables
<1>11. QED
  BY <1>1, <1>2, <1>3, <1>4, <1>5, <1>6, <1>7, <1>8, <1>9, <1>10 DEF Writes

\* What the thread does with a statement.
Outcome(of, a, says) ==
    \/ /\ of \in Writes /\ says = "error" /\ Violates(of, a)
       /\ UNCHANGED <<working, committed>>
    \/ /\ of \in Writes /\ says = "ok" /\ ~Violates(of, a)
       /\ working' = Written(of, a) /\ committed' = committed
    \/ /\ of \in Reads /\ says = IF Found(of, a) THEN "found" ELSE "ok"
       /\ UNCHANGED <<working, committed>>
    \/ of = "begin" /\ says \in {"ok", "error"} /\ UNCHANGED <<working, committed>>
    \/ of = "commit" /\ says = "ok" /\ working' = working /\ committed' = working
    \/ of = "rollback" /\ says = "ok" /\ working' = committed /\ committed' = committed

Thread ==
    \/ \E s \in Writes : Write(s)
    \/ \E s \in Reads : Read(s)
    \/ Begin \/ Commit \/ Rollback

\* The thread executes what is first in line and answers.
LEMMA ThreadSteps ==
    ASSUME Thread
    PROVE  /\ line # <<>>
           /\ \E says \in {"ok", "error", "found"} :
                 Answer(says) /\ Outcome(Head(line).do, Head(line).arg, says)
           /\ cut' = IF Head(line).do = "rollback"
                     THEN cut \union {c \in Callers : Running(c) /\ c # Head(line).for}
                     ELSE cut
<1>1. CASE \E s \in Writes : Write(s)
  BY <1>1 DEF Write, First, Outcome, Writes
<1>2. CASE \E s \in Reads : Read(s)
  BY <1>2 DEF Read, First, Outcome, Reads, dbVars
<1>3. CASE Begin
  BY <1>3 DEF Begin, First, Outcome
<1>4. CASE Commit
  BY <1>4 DEF Commit, First, Outcome
<1>5. CASE Rollback
  BY <1>5 DEF Rollback, First, Outcome
<1>6. QED
  BY <1>1, <1>2, <1>3, <1>4, <1>5 DEF Thread

\* What the thread does to each table.
LEMMA Effects ==
    ASSUME working \in Tables, NEW of, NEW a, NEW says, Outcome(of, a, says), of # "rollback"
    PROVE  /\ \A x : x \in working'.pages <=>
                       \/ of = "insert page" /\ x = a
                       \/ x \in working.pages /\ ~(of = "delete pages" /\ x = a)
           /\ \A x : x \in working'.rules <=>
                       x \in working.rules \/ (of = "insert rule" /\ x = a)
           /\ \A x : x \in working'.jobs <=>
                       x \in working.jobs \/ (of = "insert job" /\ x = a)
           /\ of # "insert job" => working'.jobs = working.jobs
           /\ \A x : x \in working.done => x \in working'.done
           /\ of = "mark done" /\ a \in working.jobs => a \in working'.done
           /\ \A x : x \in working.chunks =>
                       x \in working'.chunks \/ (of \in {"delete chunks", "delete pages"} /\ x = a)
           /\ of = "insert chunks" /\ says = "ok" => a \in working'.chunks
           /\ \A x : x \in working.active =>
                       x \in working'.active \/ (of = "deactivate" /\ x # a)
           /\ of = "activate" /\ says = "ok" => a \in working'.active
           /\ committed' = IF of = "commit" THEN working ELSE committed
<1>1. CASE of \in Writes /\ ~Violates(of, a) /\ says = "ok"
  <2>1. of \notin {"commit", "rollback"}
    BY <1>1 DEF Writes
  <2>2. of \notin Reads \union {"begin"}
    BY <1>1 DEF Writes, Reads
  <2>3. working' = Written(of, a) /\ committed' = committed
    BY <1>1, <2>1, <2>2 DEF Outcome
  <2> DEFINE wrote == Written(of, a)
  <2>4. /\ \A x : x \in wrote.pages <=>
              \/ of = "insert page" /\ x = a
              \/ x \in working.pages /\ ~(of = "delete pages" /\ x = a)
        /\ \A x : x \in wrote.rules <=>
              x \in working.rules \/ (of = "insert rule" /\ x = a)
        /\ \A x : x \in wrote.jobs <=>
              x \in working.jobs \/ (of = "insert job" /\ x = a)
        /\ of # "insert job" => wrote.jobs = working.jobs
        /\ \A x : x \in working.done => x \in wrote.done
        /\ of = "mark done" /\ a \in working.jobs => a \in wrote.done
        /\ \A x : x \in working.chunks =>
              \/ x \in wrote.chunks
              \/ of \in {"delete chunks", "delete pages"} /\ x = a
        /\ of = "insert chunks" => a \in wrote.chunks
        /\ \A x : x \in working.active =>
              x \in wrote.active \/ (of = "deactivate" /\ x # a)
        /\ of = "activate" => a \in wrote.active
    BY <1>1, WrittenParts
  <2> HIDE DEF wrote
  <2>5. QED
    BY <1>1, <2>1, <2>3, <2>4 DEF wrote
<1>2. CASE of \in Writes /\ Violates(of, a) /\ says = "error"
  <2>1. of \notin {"commit", "rollback"}
    BY <1>2 DEF Writes
  <2>2. UNCHANGED <<working, committed>>
    BY <1>2, <2>1 DEF Outcome
  <2>3. /\ of = "insert page" => a \in working.pages
        /\ of = "insert job" => a \in working.jobs
        /\ of = "insert rule" => a \in working.rules
        /\ of \in {"insert page", "insert job", "insert rule", "activate", "insert chunks"}
    BY <1>2 DEF Violates
  <2>4. QED
    BY <1>2, <2>1, <2>2, <2>3
<1>3. CASE of \in Reads \union {"begin"}
  <2>1. of \notin Writes \union {"commit"}
    BY <1>3 DEF Writes, Reads
  <2>2. UNCHANGED <<working, committed>>
    BY <1>3, <2>1 DEF Outcome, Reads
  <2>3. of \notin {"insert page", "insert job", "insert rule", "activate", "insert chunks",
                   "delete pages", "mark done"}
    BY <2>1 DEF Writes
  <2>4. QED
    BY <2>1, <2>2, <2>3
<1>4. CASE of = "commit"
  BY <1>4 DEF Outcome, Reads, Writes
<1>5. QED
  BY <1>1, <1>2, <1>3, <1>4 DEF Outcome

\* A model is active when its UPDATE has gone through.
LEMMA Activated ==
    ASSUME working \in Tables, NEW a, Outcome("activate", a, "ok")
    PROVE  a \in working'.active
BY Effects

\* A statement of a method that has what it needs gives what the next needs.
LEMMA OwnSteps ==
    ASSUME working \in Tables, committed \in Tables,
           NEW w \in [method : Methods, arg : Args], NEW of, NEW says,
           NEW s \in Follows(w.method, of, says),
           Outcome(of, w.arg, says), Given(w, of, working, committed),
           of = "rollback" /\ w.method = "create_job" => w.arg \in committed.jobs
    PROVE  Given(w, s, working', committed')
<1>1. <<of, says, s>> \in Routes[w.method]
  BY ProgramRoutes
<1> DEFINE a == w.arg
<1>2. /\ of = "insert page" => a \in working'.pages
      /\ of = "insert job" => a \in working'.jobs
      /\ of = "insert rule" => a \in working'.rules
      /\ of # "rollback" /\ a \in working.rules => a \in working'.rules
      /\ of # "rollback" /\ a \in working.jobs => a \in working'.jobs
      /\ of = "mark done" /\ a \in working.jobs => a \in working'.done
      /\ of = "insert chunks" /\ says = "ok" => a \in working'.chunks
      /\ of = "delete pages" => a \notin working'.pages
      /\ of \in {"select pages", "fetch no pages"} => working'.pages = working.pages
      /\ of = "select pages" /\ says = "ok" => a \notin working.pages
      /\ of = "commit" => working' = working /\ committed' = working
      /\ of = "rollback" => working' = committed /\ committed' = committed
      /\ of # "call"
  <2>1. of # "rollback" =>
           /\ of = "insert page" => a \in working'.pages
           /\ of = "insert job" => a \in working'.jobs
           /\ of = "insert rule" => a \in working'.rules
           /\ a \in working.rules => a \in working'.rules
           /\ a \in working.jobs => a \in working'.jobs
           /\ of = "mark done" /\ a \in working.jobs => a \in working'.done
           /\ of = "insert chunks" /\ says = "ok" => a \in working'.chunks
           /\ of = "delete pages" => a \notin working'.pages
           /\ of \in {"select pages", "fetch no pages"} => working'.pages = working.pages
    <3> HIDE DEF a
    <3> SUFFICES ASSUME of # "rollback", Outcome(of, a, says)
                 PROVE  /\ of = "insert page" => a \in working'.pages
                        /\ of = "insert job" => a \in working'.jobs
                        /\ of = "insert rule" => a \in working'.rules
                        /\ a \in working.rules => a \in working'.rules
                        /\ a \in working.jobs => a \in working'.jobs
                        /\ of = "mark done" /\ a \in working.jobs => a \in working'.done
                        /\ of = "insert chunks" /\ says = "ok" => a \in working'.chunks
                        /\ of = "delete pages" => a \notin working'.pages
                        /\ of \in {"select pages", "fetch no pages"} => working'.pages = working.pages
      BY DEF a
    <3>1. QED
      BY Effects
  <2>2. of = "select pages" /\ says = "ok" => a \notin working.pages
    BY DEF Outcome, Writes, Reads, Found
  <2>3. of \in {"commit", "rollback"} => of \notin Writes \union Reads
    BY DEF Writes, Reads
  <2>4. of # "call"
    BY DEF Outcome, Writes, Reads
  <2>5. QED
    BY <2>1, <2>2, <2>3, <2>4 DEF Outcome
<1> HIDE DEF a
<1>3. CASE w.method = "insert_page"
  <2>1. <<of, says, s>> \in Routes["insert_page"]
    BY <1>1, <1>3
  <2>2. QED
    BY <1>2, <1>3, <2>1 DEF Routes, Given, Has, a
<1>4. CASE w.method = "create_job"
  <2>1. <<of, says, s>> \in Routes["create_job"]
    BY <1>1, <1>4
  <2>2. QED
    BY <1>2, <1>4, <2>1 DEF Routes, Given, Has, a
<1>5. CASE w.method = "mark_job_done"
  <2>1. <<of, says, s>> \in Routes["mark_job_done"]
    BY <1>1, <1>5
  <2>2. QED
    BY <1>2, <1>5, <2>1 DEF Routes, Given, Has, a
<1>6. CASE w.method = "replace_chunks"
  <2>1. <<of, says, s>> \in Routes["replace_chunks"]
    BY <1>1, <1>6
  <2>2. QED
    BY <1>2, <1>6, <2>1 DEF Routes, Given, Has, a
<1>7. CASE w.method = "purge_and_blacklist"
  <2>1. <<of, says, s>> \in Routes["purge_and_blacklist"]
    BY <1>1, <1>7
  <2>2. QED
    BY <1>2, <1>7, <2>1 DEF Routes, PurgeRoutes, Given, Has, a
<1>8. CASE w.method = "activate_model"
  <2>1. <<of, says, s>> \in Routes["activate_model"]
    BY <1>1, <1>8
  <2>2. QED
    BY <1>2, <1>8, <2>1 DEF Routes, Given, Has, a
<1>9. QED
  BY <1>3, <1>4, <1>5, <1>6, <1>7, <1>8 DEF Methods

\* What a method has, no statement of another takes away, but a rollback.
LEMMA OthersKeep ==
    ASSUME NewPages, working \in Tables, NEW w \in Calls, NEW of, NEW a, NEW says,
           Outcome(of, a, says), of # "rollback",
           of = "delete pages" => Purged(a), of = "insert page" => ~Purged(a),
           of = "delete chunks" /\ w.method = "replace_chunks" => a # w.arg,
           NEW s, Given(w, s, working, committed)
    PROVE  Given(w, s, working', committed')
<1> DEFINE b == w.arg
<1>1. /\ w.method = "insert_page" => ~Purged(b)
      /\ w.method = "purge_and_blacklist" => Purged(b)
      /\ of = "delete pages" /\ a = b => Purged(b)
      /\ of = "insert page" /\ a = b => ~Purged(b)
  BY DEF NewPages, Purged
<1>2. /\ b \in working.pages => b \in working'.pages \/ (of = "delete pages" /\ a = b)
      /\ b \in working'.pages => b \in working.pages \/ (of = "insert page" /\ a = b)
      /\ of = "delete pages" /\ a = b => b \notin working'.pages
      /\ b \in working.rules => b \in working'.rules
      /\ b \in working.jobs => b \in working'.jobs
      /\ b \in working.done => b \in working'.done
      /\ b \in working.chunks =>
            b \in working'.chunks \/ (of \in {"delete chunks", "delete pages"} /\ a = b)
      /\ committed' = IF of = "commit" THEN working ELSE committed
      /\ of = "commit" => working' = working
  <2>1. of = "commit" => working' = working
    BY DEF Outcome, Writes, Reads
  <2>2. /\ \A x : x \in working'.pages <=>
                    \/ of = "insert page" /\ x = a
                    \/ x \in working.pages /\ ~(of = "delete pages" /\ x = a)
        /\ \A x : x \in working.rules => x \in working'.rules
        /\ \A x : x \in working.jobs => x \in working'.jobs
    BY Effects
  <2>3. /\ \A x : x \in working.done => x \in working'.done
        /\ \A x : x \in working.chunks =>
              x \in working'.chunks \/ (of \in {"delete chunks", "delete pages"} /\ x = a)
        /\ committed' = IF of = "commit" THEN working ELSE committed
    BY Effects
  <2> HIDE DEF b
  <2>4. QED
    BY <2>1, <2>2, <2>3
<1>3. of = "delete chunks" /\ w.method = "replace_chunks" => a # b
  OBVIOUS
<1>4. Has(working, w) => Has(working', w)
  <2>1. ASSUME Has(working, w), w.method = "replace_chunks"
        PROVE  b \in working'.chunks \/ (b \notin working'.pages /\ Purged(b))
    <3>1. b \in working.chunks \/ (b \notin working.pages /\ Purged(b))
      BY <2>1 DEF Has
    <3> HIDE DEF b
    <3>2. QED
      BY <1>1, <1>2, <1>3, <2>1, <3>1
  <2>2. ASSUME Has(working, w), w.method = "purge_and_blacklist"
        PROVE  b \in working'.rules /\ b \notin working'.pages
    BY <1>1, <1>2, <2>2 DEF Has
  <2>3. ASSUME Has(working, w), w.method = "insert_page"
        PROVE  b \in working'.pages
    BY <1>1, <1>2, <2>3 DEF Has
  <2>4. QED
    BY <1>2, <2>1, <2>2, <2>3 DEF Has
<1>5. Has(working, w) /\ Has(committed, w) => Has(committed', w)
  BY <1>2
<1>6. w.method = "purge_and_blacklist" /\ b \notin working.pages => b \notin working'.pages
  BY <1>1, <1>2
<1>7. QED
  BY <1>2, <1>4, <1>5, <1>6 DEF Given

\* The order of a queue stays when an element is appended, which comes last.
LEMMA AppendOrder ==
    ASSUME NEW S, NEW seq \in Seq(S), NEW z \in S
    PROVE  /\ \A x, y : Ahead(seq, x, y) => Ahead(Append(seq, z), x, y)
           /\ \A x \in Elems(seq) : Ahead(Append(seq, z), x, z)
<1> DEFINE longer == Append(seq, z)
<1>1. /\ Len(seq) \in Nat /\ DOMAIN longer = 1..(Len(seq) + 1) /\ DOMAIN seq = 1..Len(seq)
      /\ \A i \in 1..Len(seq) : longer[i] = seq[i]
      /\ longer[Len(seq) + 1] = z
  OBVIOUS
<1> HIDE DEF longer
<1>2. \A i \in 1..Len(seq) : i \in 1..(Len(seq) + 1) /\ i < Len(seq) + 1
  BY <1>1
<1>3. ASSUME NEW x, NEW y, Ahead(seq, x, y)
      PROVE  Ahead(longer, x, y)
  <2>1. PICK i \in 1..Len(seq), j \in 1..Len(seq) : i < j /\ seq[i] = x /\ seq[j] = y
    BY <1>1, <1>3 DEF Ahead
  <2>2. longer[i] = x /\ longer[j] = y
    BY <1>1, <2>1
  <2>3. QED
    BY <1>1, <1>2, <2>1, <2>2 DEF Ahead
<1>4. ASSUME NEW x \in Elems(seq)
      PROVE  Ahead(longer, x, z)
  <2>1. PICK i \in 1..Len(seq) : seq[i] = x
    BY <1>1 DEF Elems
  <2>2. Len(seq) + 1 \in 1..(Len(seq) + 1)
    BY <1>1
  <2>3. QED
    BY <1>1, <1>2, <2>1, <2>2 DEF Ahead
<1>5. QED
  BY <1>3, <1>4 DEF longer

\* The order of a queue stays when its head leaves, of which nothing is ahead.
LEMMA TailOrder ==
    ASSUME NEW S, NEW seq \in Seq(S), OneEach(seq), seq # <<>>
    PROVE  /\ \A x, y : Ahead(seq, x, y) => x = Head(seq) \/ Ahead(Tail(seq), x, y)
           /\ \A x, y : Ahead(seq, x, y) => x \in Elems(seq) /\ y \in Elems(Tail(seq))
           /\ Head(seq).for # NoCaller => \A x : ~Ahead(seq, x, Head(seq))
<1> DEFINE rest == Tail(seq) head == Head(seq)
<1>1. /\ Len(seq) \in Nat \ {0}
      /\ DOMAIN rest = 1..(Len(seq) - 1) /\ DOMAIN seq = 1..Len(seq)
      /\ \A i \in 1..(Len(seq) - 1) : rest[i] = seq[i + 1]
      /\ head = seq[1]
  OBVIOUS
<1> HIDE DEF rest, head
<1>2. ASSUME NEW i \in 1..Len(seq), NEW j \in 1..Len(seq), i < j
      PROVE  /\ j - 1 \in 1..(Len(seq) - 1) /\ rest[j - 1] = seq[j] /\ j # 1
             /\ i # 1 => i - 1 \in 1..(Len(seq) - 1) /\ rest[i - 1] = seq[i] /\ i - 1 < j - 1
  <2>1. /\ j - 1 \in 1..(Len(seq) - 1) /\ (j - 1) + 1 = j /\ j # 1
        /\ i # 1 => i - 1 \in 1..(Len(seq) - 1) /\ (i - 1) + 1 = i /\ i - 1 < j - 1
    BY <1>1, <1>2
  <2>2. QED
    BY <1>1, <2>1
<1>3. ASSUME NEW x, NEW y, Ahead(seq, x, y)
      PROVE  /\ x = head \/ Ahead(rest, x, y)
             /\ x \in Elems(seq) /\ y \in Elems(rest)
             /\ head.for # NoCaller => y # head
  <2>1. PICK i \in 1..Len(seq), j \in 1..Len(seq) : i < j /\ seq[i] = x /\ seq[j] = y
    BY <1>1, <1>3 DEF Ahead
  <2>2. /\ j - 1 \in 1..(Len(seq) - 1) /\ rest[j - 1] = y /\ j # 1
        /\ i # 1 => i - 1 \in 1..(Len(seq) - 1) /\ rest[i - 1] = x /\ i - 1 < j - 1
    BY <1>2, <2>1
  <2>3. x = head \/ Ahead(rest, x, y)
    BY <1>1, <2>1, <2>2 DEF Ahead
  <2>4. x \in Elems(seq) /\ y \in Elems(rest)
    BY <1>1, <2>1, <2>2 DEF Elems
  <2>5. head.for # NoCaller => y # head
    <3>1. 1 \in 1..Len(seq)
      BY <1>1
    <3>2. QED
      BY <1>1, <2>1, <2>2, <3>1 DEF OneEach
  <2>6. QED
    BY <2>3, <2>4, <2>5
<1>4. QED
  BY <1>3 DEF rest, head

\* The order of a queue stays when one element is taken out of it.
LEMMA RemoveOrder ==
    ASSUME NEW S, NEW seq \in Seq(S), NEW k \in DOMAIN seq
    PROVE  \A x, y : Ahead(seq, x, y) /\ x # seq[k] /\ y # seq[k] =>
              Ahead(RemoveAt(seq, k), x, y)
<1> DEFINE rest == RemoveAt(seq, k)
           New(i) == IF i < k THEN i ELSE i - 1
<1>1. /\ Len(seq) \in Nat \ {0} /\ DOMAIN seq = 1..Len(seq) /\ k \in 1..Len(seq)
  OBVIOUS
<1>2. /\ DOMAIN rest = 1..(Len(seq) - 1)
      /\ \A i \in 1..Len(seq) : i # k => rest[New(i)] = seq[i]
  <2>1. /\ rest \in Seq(S) /\ Len(rest) = Len(seq) - 1
        /\ \A i \in 1..(Len(seq) - 1) : rest[i] = seq[IF i < k THEN i ELSE i + 1]
    BY Removed
  <2> HIDE DEF rest
  <2>2. ASSUME NEW i \in 1..Len(seq), i # k
        PROVE  New(i) \in 1..(Len(seq) - 1) /\ i = IF New(i) < k THEN New(i) ELSE New(i) + 1
    BY <1>1, <2>2
  <2> HIDE DEF New
  <2>3. ASSUME NEW i \in 1..Len(seq), i # k
        PROVE  rest[New(i)] = seq[i]
    <3>1. rest[New(i)] = seq[IF New(i) < k THEN New(i) ELSE New(i) + 1]
      BY <2>1, <2>2, <2>3
    <3>2. QED
      BY <2>2, <2>3, <3>1
  <2>4. DOMAIN rest = 1..(Len(seq) - 1)
    BY <2>1
  <2>5. QED
    BY <2>3, <2>4
<1> HIDE DEF rest
<1>3. ASSUME NEW i \in 1..Len(seq), NEW j \in 1..Len(seq), i < j, i # k, j # k
      PROVE  New(i) \in 1..(Len(seq) - 1) /\ New(j) \in 1..(Len(seq) - 1) /\ New(i) < New(j)
  BY <1>1, <1>3
<1> HIDE DEF New
<1>4. ASSUME NEW x, NEW y, Ahead(seq, x, y), x # seq[k], y # seq[k]
      PROVE  Ahead(rest, x, y)
  <2>1. PICK i \in 1..Len(seq), j \in 1..Len(seq) : i < j /\ seq[i] = x /\ seq[j] = y
    BY <1>1, <1>4 DEF Ahead
  <2>2. rest[New(i)] = x /\ rest[New(j)] = y
    BY <1>2, <1>4, <2>1
  <2>3. New(i) \in DOMAIN rest /\ New(j) \in DOMAIN rest /\ New(i) < New(j)
    BY <1>2, <1>3, <1>4, <2>1
  <2>4. QED
    BY <2>2, <2>3 DEF Ahead
<1>5. QED
  BY <1>4 DEF rest

-----------------------------------------------------------------------------
(* Steps of the thread.                                                    *)

\* What is under way is of the method of its caller.
LEMMA UnderWay ==
    ASSUME ConnectionInv
    PROVE  /\ NoCaller \notin Callers
           /\ working \in Tables /\ committed \in Tables
           /\ \A e \in Elems(line) :
                 \/ e.for = NoCaller /\ e.do \in Issued("replace_chunks")
                 \/ /\ e.for \in Callers /\ Running(e.for) /\ call[e.for].method \in Methods
                    /\ e.do \in Issued(call[e.for].method)
           /\ \A r \in Elems(replies) :
                 /\ r.for \in Callers /\ Running(r.for) /\ call[r.for].method \in Methods
                 /\ r.of \in Issued(call[r.for].method)
           /\ \A e \in Elems(line), r \in Elems(replies) : e.for # r.for
           /\ \A c \in Callers : Running(c) => call[c] \in [method : Methods, arg : Args]
<1>1. \A c \in Callers : Running(c) => call[c] \in [method : Methods, arg : Args]
  BY DEF ConnectionInv, Typed, Running
<1>2. \A r \in Elems(replies) : r.for \in Callers
  BY AnswerFor DEF ConnectionInv, Typed
<1>3. QED
  BY <1>1, <1>2, CallerAssumption DEF ConnectionInv, Typed, Orderly

\* A statement in line, or an answer, belongs to a call of the method it is of.
LEMMA WhoSends ==
    ASSUME ConnectionInv
    PROVE  /\ \A e \in Elems(line) :
                 /\ e.do = "insert page" => e.for \in Callers /\ call[e.for].method = "insert_page"
                 /\ e.do = "delete pages" =>
                       e.for \in Callers /\ call[e.for].method = "purge_and_blacklist"
                 /\ e.do = "insert job" => e.for \in Callers /\ call[e.for].method = "create_job"
                 /\ e.do \in {"deactivate", "activate"} =>
                       e.for \in Callers /\ call[e.for].method = "activate_model"
                 /\ e.do = "delete chunks" =>
                       e.for = NoCaller \/ call[e.for].method = "replace_chunks"
           /\ \A r \in Elems(replies) :
                 /\ r.of = "insert job" => call[r.for].method = "create_job"
                 /\ r.of \in {"deactivate", "activate"} => call[r.for].method = "activate_model"
<1>1. "replace_chunks" \in Methods
  BY DEF Methods
<1>2. ASSUME NEW e \in Elems(line)
      PROVE  /\ e.do = "insert page" => e.for \in Callers /\ call[e.for].method = "insert_page"
             /\ e.do = "delete pages" =>
                   e.for \in Callers /\ call[e.for].method = "purge_and_blacklist"
             /\ e.do = "insert job" => e.for \in Callers /\ call[e.for].method = "create_job"
             /\ e.do \in {"deactivate", "activate"} =>
                   e.for \in Callers /\ call[e.for].method = "activate_model"
             /\ e.do = "delete chunks" =>
                   e.for = NoCaller \/ call[e.for].method = "replace_chunks"
  <2>1. CASE e.for = NoCaller /\ e.do \in Issued("replace_chunks")
    BY <1>1, <2>1, Issuers
  <2>2. CASE e.for \in Callers /\ call[e.for].method \in Methods
             /\ e.do \in Issued(call[e.for].method)
    BY <2>2, Issuers
  <2>3. QED
    BY <2>1, <2>2, UnderWay
<1>3. ASSUME NEW r \in Elems(replies)
      PROVE  /\ r.of = "insert job" => call[r.for].method = "create_job"
             /\ r.of \in {"deactivate", "activate"} => call[r.for].method = "activate_model"
  BY UnderWay, Issuers
<1>4. QED
  BY <1>2, <1>3

Reply(says) == [for |-> Head(line).for, of |-> Head(line).do, says |-> says]

\* The thread takes the head of the line, and its answer comes last.
LEMMA Answered ==
    ASSUME ConnectionInv, line # <<>>, NEW says \in {"ok", "error", "found"}, Answer(says)
    PROVE  /\ call' = call /\ Elems(line) = Elems(line') \union {Head(line)}
           /\ \A e \in Elems(line') : e.for \in Callers => e.for # Head(line).for
           /\ \A x, y : Ahead(line, x, y) => x = Head(line) \/ Ahead(line', x, y)
           /\ \A x, y : Ahead(line, x, y) => x \in Elems(line) /\ y \in Elems(line')
           /\ \A x, y : Ahead(replies, x, y) => Ahead(replies', x, y)
           /\ Elems(replies) \subseteq Elems(replies')
           /\ Head(line).for \notin Callers => Elems(replies') = Elems(replies)
           /\ Head(line).for \in Callers =>
                 /\ Elems(replies') = Elems(replies) \union {Reply(says)}
                 /\ \A x \in Elems(replies) : Ahead(replies', x, Reply(says))
                 /\ \A x : ~Ahead(line, x, Head(line))
<1>1. /\ line \in Seq(Trips) /\ replies \in Seq(Answers) /\ OneEach(line) /\ OneEach(replies)
  BY DEF ConnectionInv, Typed, Orderly
<1>2. line' = Tail(line) /\ call' = call
  BY DEF Answer
<1>3. /\ Head(line) \in Trips /\ Head(line) \in Elems(line)
      /\ Head(line).for \in Callers \/ Head(line).for = NoCaller
      /\ NoCaller \notin Callers
  BY HeadOfLine, CallerAssumption
<1>4. CASE Head(line).for = NoCaller
  <2>1. replies' = replies
    BY <1>4 DEF Answer
  <2>2. QED
    BY <1>1, <1>2, <1>3, <1>4, <2>1, TailQueue, TailOrder
<1>5. CASE Head(line).for \in Callers
  <2>1. replies' = Append(replies, Reply(says))
    BY <1>3, <1>5 DEF Answer, Reply
  <2>2. Reply(says) \in Answers /\ Reply(says).for = Head(line).for
    BY <1>3, <1>5 DEF Trips, Answers, Reply
  <2>3. \A r \in Elems(replies) : r.for # Reply(says).for
    BY <1>3, <2>2, UnderWay
  <2>4. /\ Elems(replies') = Elems(replies) \union {Reply(says)}
        /\ \A x, y : Ahead(replies, x, y) => Ahead(replies', x, y)
        /\ \A x \in Elems(replies) : Ahead(replies', x, Reply(says))
    BY <1>1, <2>1, <2>2, <2>3, AppendQueue, AppendOrder
  <2>5. /\ Elems(line) = Elems(line') \union {Head(line)}
        /\ \A e \in Elems(line') : e.for \in Callers => e.for # Head(line).for
        /\ \A x, y : Ahead(line, x, y) => x = Head(line) \/ Ahead(line', x, y)
        /\ \A x, y : Ahead(line, x, y) => x \in Elems(line) /\ y \in Elems(line')
        /\ \A x : ~Ahead(line, x, Head(line))
    BY <1>1, <1>2, <1>3, <1>5, TailQueue, TailOrder
  <2>6. QED
    BY <1>2, <1>3, <1>5, <2>4, <2>5
<1>6. QED
  BY <1>3, <1>4, <1>5

\* What the thread does to what is not its caller's.
LEMMA Interference ==
    ASSUME OneWriter, NewPages, ConnectionInv, WritesInv, Thread,
           NEW c \in Callers, Running(c), c # Head(line).for, c \notin cut',
           NEW s, Given(call[c], s, working, committed)
    PROVE  Given(call[c], s, working', committed') /\ Head(line).do # "rollback"
<1> DEFINE head == Head(line) w == call[c]
<1>1. PICK says \in {"ok", "error", "found"} :
         line # <<>> /\ Answer(says) /\ Outcome(head.do, head.arg, says)
  BY ThreadSteps
<1>2. head.do # "rollback"
  <2>1. head.do = "rollback" => c \in cut'
    BY ThreadSteps
  <2>2. QED
    BY <2>1
<1>3. head \in Elems(line)
  BY <1>1, HeadOfLine
<1>4. w \in Workload[c] /\ w \in Calls
  BY DEF WritesInv, Own, Calls
<1>5. /\ head.for \in Callers =>
           /\ call[head.for] \in Workload[head.for] /\ call[head.for] \in Calls
           /\ head.arg = call[head.for].arg
      /\ Running(Worker) => head.for # NoCaller
  BY <1>3, UnderWay DEF WritesInv, Own, Calls
<1>6. head.do = "delete pages" => Purged(head.arg)
  BY <1>3, <1>5, WhoSends DEF Purged
<1>7. head.do = "insert page" => ~Purged(head.arg)
  BY <1>3, <1>5, WhoSends DEF NewPages
<1>8. ~(head.do = "delete chunks" /\ w.method = "replace_chunks")
  <2>1. ASSUME head.do = "delete chunks", w.method = "replace_chunks"
        PROVE  FALSE
    <3>1. c = Worker
      BY <1>4, <2>1 DEF OneWriter
    <3>2. head.for \in Callers /\ call[head.for].method = "replace_chunks"
      BY <1>3, <1>5, <2>1, <3>1, UnderWay, WhoSends
    <3>3. head.for = Worker
      BY <1>5, <3>2 DEF OneWriter
    <3>4. QED
      BY <3>1, <3>3
  <2>2. QED
    BY <2>1
<1> HIDE DEF head, w
<1>9. Given(w, s, working, committed) /\ working \in Tables
  BY UnderWay DEF w
<1>10. Given(w, s, working', committed')
  BY <1>1, <1>2, <1>4, <1>6, <1>7, <1>8, <1>9, OthersKeep
<1>11. QED
  BY <1>2, <1>10 DEF head, w

\* The thread leaves the callers and their calls as they are.
LEMMA ThreadOwn ==
    ASSUME ConnectionInv, WritesInv, Thread
    PROVE  Own'
<1>1. PICK says \in {"ok", "error", "found"} : line # <<>> /\ Answer(says)
  BY ThreadSteps
<1>2. call' = call /\ Elems(line') \subseteq Elems(line) /\ Elems(line)' = Elems(line')
  BY <1>1, Answered
<1>3. \A c : Running(c)' <=> Running(c)
  BY <1>2 DEF Running
<1>4. QED
  BY <1>2, <1>3 DEF WritesInv, Own

\* Nobody's rollback comes before the commit it waits for.
LEMMA RollbackFindsJob ==
    ASSUME ConnectionInv, WritesInv, line # <<>>, Head(line).do = "rollback",
           Head(line).for \in Untouched, call[Head(line).for].method = "create_job"
    PROVE  Head(line).arg \in committed.jobs
<1>1. Head(line) \in Elems(line) /\ Head(line).for # NoCaller
  BY HeadOfLine, UnderWay DEF Untouched
<1>2. \A f : ~Ahead(line, f, Head(line))
  BY <1>1, TailOrder DEF ConnectionInv, Typed, Orderly
<1>3. QED
  BY <1>1, <1>2 DEF WritesInv, RollbackWaits

\* What methods go by stays true, and what a statement gave is true.
LEMMA ThreadAssured ==
    ASSUME OneWriter, NewPages, ConnectionInv, WritesInv, Thread
    PROVE  Assured'
<1> DEFINE head == Head(line)
<1>1. PICK says \in {"ok", "error", "found"} :
         line # <<>> /\ Answer(says) /\ Outcome(head.do, head.arg, says)
  BY ThreadSteps
<1>2. /\ call' = call /\ Elems(line) = Elems(line') \union {head}
      /\ \A e \in Elems(line') : e.for \in Callers => e.for # head.for
      /\ head.for \notin Callers => Elems(replies') = Elems(replies)
      /\ head.for \in Callers => Elems(replies') = Elems(replies) \union {Reply(says)}
  BY <1>1, Answered
<1>3. cut \subseteq cut'
  BY ThreadSteps
<1>4. ASSUME NEW e \in Elems(line'), e.for \in Callers \ cut'
      PROVE  Given(call[e.for], e.do, working', committed')
  <2>1. e \in Elems(line) /\ e.for \in Untouched /\ Running(e.for) /\ e.for # head.for
    BY <1>2, <1>3, <1>4, UnderWay DEF Untouched
  <2>2. Given(call[e.for], e.do, working, committed)
    BY <2>1 DEF WritesInv, Assured
  <2>3. QED
    BY <1>4, <2>1, <2>2, Interference
<1>5. ASSUME NEW r \in Elems(replies), r.for \in Callers \ cut',
             NEW s \in Follows(call[r.for].method, r.of, r.says)
      PROVE  Given(call[r.for], s, working', committed')
  <2>1. r.for \in Untouched /\ Running(r.for) /\ r.for # head.for
    BY <1>2, <1>3, <1>5, UnderWay DEF Untouched
  <2>2. Given(call[r.for], s, working, committed)
    BY <1>5, <2>1 DEF WritesInv, Assured
  <2>3. QED
    BY <1>5, <2>1, <2>2, Interference
<1>6. ASSUME head.for \in Callers \ cut',
             NEW s \in Follows(call[head.for].method, head.do, says)
      PROVE  Given(call[head.for], s, working', committed')
  <2>1. head.for \in Untouched /\ head \in Elems(line)
    BY <1>2, <1>3, <1>6 DEF Untouched
  <2>2. /\ Given(call[head.for], head.do, working, committed)
        /\ head.arg = call[head.for].arg
        /\ call[head.for] \in [method : Methods, arg : Args]
    BY <1>6, <2>1, UnderWay DEF WritesInv, Assured, Own
  <2>3. head.do = "rollback" /\ call[head.for].method = "create_job" => head.arg \in committed.jobs
    BY <1>1, <2>1, RollbackFindsJob
  <2> DEFINE w == call[head.for]
  <2>4. /\ w \in [method : Methods, arg : Args] /\ s \in Follows(w.method, head.do, says)
        /\ Outcome(head.do, w.arg, says) /\ Given(w, head.do, working, committed)
        /\ head.do = "rollback" /\ w.method = "create_job" => w.arg \in committed.jobs
    BY <1>1, <1>6, <2>2, <2>3
  <2> HIDE DEF w, head
  <2>5. Given(w, s, working', committed')
    BY <2>4, UnderWay, OwnSteps
  <2>6. QED
    BY <2>5 DEF w
<1>7. ASSUME NEW r \in Elems(replies'), r.for \in Callers \ cut',
             NEW s \in Follows(call[r.for].method, r.of, r.says)
      PROVE  Given(call[r.for], s, working', committed')
  <2>1. CASE r \in Elems(replies)
    BY <1>5, <1>7, <2>1
  <2>2. CASE head.for \in Callers /\ r = Reply(says)
    <3>1. r.for = head.for /\ r.of = head.do /\ r.says = says
      BY <2>2 DEF Reply
    <3>2. QED
      BY <1>6, <1>7, <3>1
  <2>3. QED
    BY <1>2, <2>1, <2>2
<1>8. /\ Elems(line)' = Elems(line') /\ Elems(replies)' = Elems(replies')
      /\ Untouched' = Callers \ cut'
      /\ \A w, s : Given(w, s, working, committed)' <=> Given(w, s, working', committed')
  BY DEF Untouched, Given, Has
<1>9. \A e \in Elems(line') : e.for \in Callers \ cut' =>
          Given(call'[e.for], e.do, working', committed')
  BY <1>2, <1>4
<1>10. \A r \in Elems(replies') : r.for \in Callers \ cut' =>
          \A s \in Follows(call'[r.for].method, r.of, r.says) :
             Given(call'[r.for], s, working', committed')
  BY <1>2, <1>7
<1>11. QED
  BY <1>8, <1>9, <1>10 DEF Assured

\* A commit that was coming still is, unless it was this.
LEMMA ThreadCommits ==
    ASSUME ConnectionInv, Thread, CommitComes, Head(line).do # "commit"
    PROVE  CommitComes'
<1>1. PICK says \in {"ok", "error", "found"} : line # <<>> /\ Answer(says)
  BY ThreadSteps
<1>2. Elems(line) = Elems(line') \union {Head(line)} /\ Elems(line)' = Elems(line')
  BY <1>1, Answered
<1>3. PICK f \in Elems(line) : f.do = "commit"
  BY DEF CommitComes
<1>4. f \in Elems(line')
  BY <1>2, <1>3
<1>5. QED
  BY <1>2, <1>3, <1>4 DEF CommitComes

\* A job that the thread inserts has the commit of its creator to come.
LEMMA ThreadJobsOwed ==
    ASSUME ConnectionInv, WritesInv, Thread
    PROVE  JobsOwed'
<1> DEFINE head == Head(line)
<1>1. PICK says \in {"ok", "error", "found"} :
         line # <<>> /\ Answer(says) /\ Outcome(head.do, head.arg, says)
  BY ThreadSteps
<1>2. /\ Elems(replies) \subseteq Elems(replies') /\ Elems(replies)' = Elems(replies')
      /\ head.for \in Callers => Reply(says) \in Elems(replies')
  BY <1>1, Answered
<1>3. CASE head.do \in {"commit", "rollback"}
  <2>1. working' = committed'
    BY <1>1, <1>3 DEF Outcome, Writes, Reads
  <2>2. QED
    BY <2>1 DEF JobsOwed
<1>4. CASE head.do = "insert job" /\ says = "ok"
  <2>1. head.for \in Callers
    BY <1>1, <1>4, HeadOfLine, WhoSends
  <2>2. Created(Reply(says))
    BY <1>4 DEF Created, Reply
  <2>3. QED
    BY <1>2, <2>1, <2>2 DEF JobsOwed
<1>5. CASE head.do \notin {"commit", "rollback"} /\ ~(head.do = "insert job" /\ says = "ok")
  <2>1. working'.jobs = working.jobs /\ committed' = committed
    <3>1. committed' = committed
      BY <1>1, <1>5 DEF Outcome
    <3>2. CASE head.do = "insert job"
      <4>1. head.do \notin Reads /\ says # "ok"
        BY <1>5, <3>2 DEF Reads
      <4>2. working' = working
        BY <1>1, <1>5, <4>1, <3>2 DEF Outcome
      <4>3. QED
        BY <3>1, <4>2
    <3>3. CASE head.do # "insert job"
      <4> HIDE DEF head
      <4>1. working'.jobs = working.jobs
        BY <1>1, <1>5, <3>3, UnderWay, Effects
      <4>2. QED
        BY <3>1, <4>1
    <3>4. QED
      BY <3>2, <3>3
  <2>2. CommitComes => CommitComes'
    BY <1>5, ThreadCommits
  <2>3. QED
    BY <1>2, <2>1, <2>2 DEF WritesInv, JobsOwed, Created
<1>6. QED
  BY <1>3, <1>4, <1>5

\* Jobs do not get lost but by a rollback, and what is committed stays.
LEMMA ThreadJobs ==
    ASSUME ConnectionInv, Thread, Head(line).do # "rollback"
    PROVE  /\ \A j : j \in working.jobs => j \in working'.jobs
           /\ \A j : j \in committed.jobs /\ j \in working.jobs => j \in committed'.jobs
           /\ Head(line).do # "commit" => committed' = committed
           /\ Head(line).do = "commit" => committed' = working
<1> DEFINE head == Head(line)
<1>1. PICK says \in {"ok", "error", "found"} :
         Outcome(head.do, head.arg, says)
  BY ThreadSteps
<1>0. working \in Tables /\ head.do # "rollback"
  BY UnderWay
<1> HIDE DEF head
<1>2. /\ \A j : j \in working'.jobs <=>
             j \in working.jobs \/ (head.do = "insert job" /\ j = head.arg)
      /\ committed' = IF head.do = "commit" THEN working ELSE committed
  BY <1>0, <1>1, Effects
<1>3. QED
  BY <1>2 DEF head

\* The thread executes statements in line, and answers last: the commit stays
\* ahead of the rollback.
LEMMA ThreadRollbackWaits ==
    ASSUME OneWriter, NewPages, ConnectionInv, WritesInv, Thread
    PROVE  RollbackWaits'
<1> DEFINE head == Head(line)
<1>1. PICK says \in {"ok", "error", "found"} :
         line # <<>> /\ Answer(says) /\ Outcome(head.do, head.arg, says)
  BY ThreadSteps
<1>2. /\ call' = call /\ Elems(line) = Elems(line') \union {head}
      /\ \A e \in Elems(line') : e.for \in Callers => e.for # head.for
      /\ \A x, y : Ahead(line, x, y) => x = head \/ Ahead(line', x, y)
      /\ \A x, y : Ahead(replies, x, y) => Ahead(replies', x, y)
      /\ Elems(replies) \subseteq Elems(replies')
      /\ head.for \notin Callers => Elems(replies') = Elems(replies)
      /\ head.for \in Callers =>
            /\ Elems(replies') = Elems(replies) \union {Reply(says)}
            /\ \A x \in Elems(replies) : Ahead(replies', x, Reply(says))
  BY <1>1, Answered
<1>3. cut \subseteq cut' /\ head.do = "rollback" =>
         \A c \in Callers \ cut' : ~Running(c) \/ c = head.for
  BY ThreadSteps
<1>4. cut \subseteq cut'
  BY ThreadSteps
<1>5. ASSUME NEW e \in Elems(line'), e.for \in Callers \ cut', e.do = "rollback",
             call[e.for].method = "create_job"
      PROVE  \/ e.arg \in committed'.jobs
             \/ \E f \in Elems(line') : f.do = "commit" /\ Ahead(line', f, e)
  <2>1. /\ e \in Elems(line) /\ e.for \in Untouched /\ Running(e.for) /\ e.for # head.for
        /\ e.arg = call[e.for].arg
    BY <1>2, <1>4, <1>5, UnderWay DEF Untouched, WritesInv, Own
  <2>2. head.do # "rollback"
    BY <1>3, <1>4, <1>5, <2>1
  <2>3. e.arg \in working.jobs
    <3>1. Given(call[e.for], e.do, working, committed)
      BY <2>1 DEF WritesInv, Assured
    <3>2. QED
      BY <1>5, <2>1, <3>1 DEF Given
  <2>4. \/ e.arg \in committed.jobs
        \/ \E f \in Elems(line) : f.do = "commit" /\ Ahead(line, f, e)
    BY <1>5, <2>1 DEF WritesInv, RollbackWaits
  <2>5. CASE e.arg \in committed.jobs
    BY <2>2, <2>3, <2>5, ThreadJobs
  <2>6. CASE \E f \in Elems(line) : f.do = "commit" /\ Ahead(line, f, e)
    <3>1. PICK f \in Elems(line) : f.do = "commit" /\ Ahead(line, f, e)
      BY <2>6
    <3>2. CASE f = head
      BY <2>2, <2>3, <3>1, <3>2, ThreadJobs
    <3>3. CASE f # head
      BY <1>2, <3>1, <3>3
    <3>4. QED
      BY <3>2, <3>3
  <2>7. QED
    BY <2>4, <2>5, <2>6
<1>6. ASSUME NEW r \in Elems(replies'), r.for \in Callers \ cut', r.of = "insert job",
             r.says = "error"
      PROVE  \/ call[r.for].arg \in committed'.jobs
             \/ CommitComes'
             \/ \E q \in Elems(replies') : Created(q) /\ Ahead(replies', q, r)
  <2>1. CASE r \in Elems(replies)
    <3>1. r.for \in Untouched /\ Running(r.for) /\ r.for # head.for
      BY <1>2, <1>4, <1>6, <2>1, UnderWay DEF Untouched
    <3>2. head.do # "rollback"
      BY <1>3, <1>4, <1>6, <3>1
    <3>3. call[r.for].arg \in working.jobs
      <4>1. call[r.for].method = "create_job"
        BY <1>6, <2>1, WhoSends
      <4>2. "rollback" \in Follows("create_job", "insert job", "error")
        BY ProgramRoutes DEF Routes, Methods
      <4>3. Given(call[r.for], "rollback", working, committed)
        BY <1>6, <2>1, <3>1, <4>1, <4>2 DEF WritesInv, Assured
      <4>4. QED
        BY <4>1, <4>3 DEF Given
    <3>4. \/ call[r.for].arg \in committed.jobs
          \/ CommitComes
          \/ \E q \in Elems(replies) : Created(q) /\ Ahead(replies, q, r)
      BY <1>6, <2>1, <3>1 DEF WritesInv, RollbackWaits
    <3>5. CASE call[r.for].arg \in committed.jobs
      BY <3>2, <3>3, <3>5, ThreadJobs
    <3>6. CASE CommitComes
      BY <3>2, <3>3, <3>6, ThreadJobs, ThreadCommits
    <3>7. CASE \E q \in Elems(replies) : Created(q) /\ Ahead(replies, q, r)
      BY <1>2, <3>7
    <3>8. QED
      BY <3>4, <3>5, <3>6, <3>7
  <2>2. CASE head.for \in Callers /\ r = Reply(says)
    <3>1. r.for = head.for /\ head.do = "insert job" /\ says = "error"
      BY <1>6, <2>2 DEF Reply
    <3>2. head.arg \in working.jobs /\ committed' = committed
      BY <1>1, <3>1 DEF Outcome, Violates, Reads
    <3>3. head.arg = call[r.for].arg
      BY <1>2, <2>2, <3>1 DEF WritesInv, Own
    <3>4. CASE working.jobs = committed.jobs
      BY <3>2, <3>3, <3>4
    <3>5. CASE CommitComes
      BY <3>1, <3>5, ThreadCommits
    <3>6. CASE \E q \in Elems(replies) : Created(q)
      BY <1>2, <2>2, <3>6
    <3>7. QED
      BY <3>4, <3>5, <3>6 DEF WritesInv, JobsOwed
  <2>3. QED
    BY <1>2, <2>1, <2>2
<1>7. /\ Elems(line)' = Elems(line') /\ Elems(replies)' = Elems(replies')
      /\ Untouched' = Callers \ cut'
      /\ \A x, y : Ahead(line, x, y)' = Ahead(line', x, y)
      /\ \A x, y : Ahead(replies, x, y)' = Ahead(replies', x, y)
  BY DEF Untouched, Ahead, Elems
<1>8. QED
  BY <1>2, <1>5, <1>6, <1>7 DEF RollbackWaits

\* The thread deactivates a model only for a call that comes later.
LEMMA ThreadActive ==
    ASSUME ConnectionInv, WritesInv, Thread, Head(line).do # "rollback",
           NEW a, a \in working.active
    PROVE  \/ a \in working'.active
           \/ /\ Head(line).do = "deactivate" /\ Head(line).arg # a
              /\ Head(line).for \in Callers /\ Head(line).arg = call[Head(line).for].arg
<1> DEFINE head == Head(line)
<1>1. PICK says \in {"ok", "error", "found"} :
         line # <<>> /\ Answer(says) /\ Outcome(head.do, head.arg, says)
  BY ThreadSteps
<1>2. head \in Elems(line)
  BY <1>1, HeadOfLine
<1>3. head.do = "deactivate" => head.for \in Callers /\ head.arg = call[head.for].arg
  BY <1>2, WhoSends DEF WritesInv, Own
<1>4. working \in Tables /\ head.do # "rollback"
  BY UnderWay
<1> HIDE DEF head
<1>5. \A x : x \in working.active => x \in working'.active \/ (head.do = "deactivate" /\ x # head.arg)
  BY <1>1, <1>4, Effects
<1>6. QED
  BY <1>3, <1>5 DEF head

\* A model that the thread deactivates has its successor come later.
LEMMA ThreadSucceeded ==
    ASSUME ConnectionInv, WritesInv, Thread
    PROVE  Succeeded'
<1> DEFINE head == Head(line)
<1>1. PICK says \in {"ok", "error", "found"} :
         line # <<>> /\ Answer(says) /\ Outcome(head.do, head.arg, says)
  BY ThreadSteps
<1>2. /\ call' = call /\ Elems(line) = Elems(line') \union {head}
      /\ \A e \in Elems(line') : e.for \in Callers => e.for # head.for
      /\ \A x, y : Ahead(line, x, y) => x = head \/ Ahead(line', x, y)
      /\ \A x, y : Ahead(line, x, y) => x \in Elems(line) /\ y \in Elems(line')
      /\ \A x, y : Ahead(replies, x, y) => Ahead(replies', x, y)
      /\ Elems(replies) \subseteq Elems(replies')
      /\ head.for \notin Callers => Elems(replies') = Elems(replies)
      /\ head.for \in Callers =>
            /\ Elems(replies') = Elems(replies) \union {Reply(says)}
            /\ \A x \in Elems(replies) : Ahead(replies', x, Reply(says))
  BY <1>1, Answered
<1>3. ASSUME NEW c \in Callers \ cut', Running(c)
      PROVE  c \in Untouched /\ (c # head.for => head.do # "rollback")
  BY <1>3, ThreadSteps DEF Untouched
<1>4. Reply(says).for = head.for /\ Reply(says).of = head.do /\ Reply(says).says = says
  BY DEF Reply
<1> DEFINE Nears(a) == \E q \in Elems(replies') : Ousts(q, "deactivate", a)
<1>5. \A a : OusterNears(a) => Nears(a)
  BY <1>2 DEF OusterNears
<1>6. ASSUME NEW a, a \in working.active, head.do # "rollback"
      PROVE  \/ a \in working'.active
             \/ /\ head.for \in Callers /\ Reply(says) \in Elems(replies')
                /\ Ousts(Reply(says), "deactivate", a)
  <2>1. CASE a \in working'.active
    BY <2>1
  <2>2. CASE /\ head.do = "deactivate" /\ head.arg # a
             /\ head.for \in Callers /\ head.arg = call[head.for].arg
    BY <1>2, <1>4, <2>2 DEF Ousts
  <2>3. QED
    BY <1>6, <2>1, <2>2, ThreadActive
<1>7. ASSUME NEW r \in Elems(replies'), r.for \in Callers \ cut', r.of = "activate",
             r.says = "ok"
      PROVE  \/ call[r.for].arg \in working'.active
             \/ \E q \in Elems(replies') :
                   Ousts(q, "deactivate", call[r.for].arg) /\ Ahead(replies', r, q)
  <2>1. CASE r \in Elems(replies)
    <3>1. r.for \in Untouched /\ head.do # "rollback"
      <4>1. r.for # head.for /\ Running(r.for)
        BY <1>2, <2>1, UnderWay
      <4>2. QED
        BY <1>3, <1>7, <4>1
    <3>2. \/ call[r.for].arg \in working.active
          \/ \E q \in Elems(replies) :
                Ousts(q, "deactivate", call[r.for].arg) /\ Ahead(replies, r, q)
      BY <1>7, <2>1, <3>1 DEF WritesInv, Succeeded
    <3>3. CASE call[r.for].arg \in working.active
      BY <1>2, <1>6, <2>1, <3>1, <3>3
    <3>4. QED
      BY <1>2, <3>2, <3>3
  <2>2. CASE head.for \in Callers /\ r = Reply(says)
    <3>1. head.do = "activate" /\ says = "ok" /\ head \in Elems(line)
      BY <1>2, <1>4, <1>7, <2>2
    <3>2. head.arg = call[r.for].arg
      BY <1>4, <2>2, <3>1 DEF WritesInv, Own
    <3>3. working \in Tables /\ head.do # "rollback"
      BY <3>1, UnderWay
    <3> HIDE DEF head
    <3>4. head.arg \in working'.active
      BY <1>1, <3>1, <3>3, Activated
    <3>5. QED
      BY <3>2, <3>4
  <2>3. QED
    BY <1>2, <1>7, <2>1, <2>2
<1>8. ASSUME NEW e \in Elems(line'), e.for \in Callers \ cut', e.do = "commit",
             call[e.for].method = "activate_model"
      PROVE  \/ e.arg \in working'.active
             \/ Nears(e.arg)
             \/ \E f \in Elems(line') : Activates(f, e.arg) /\ Ahead(line', e, f)
  <2>1. e \in Elems(line) /\ e # head /\ e.for \in Untouched /\ head.do # "rollback"
    <3>1. e \in Elems(line) /\ e.for # head.for /\ Running(e.for)
      BY <1>2, <1>8, UnderWay
    <3>2. QED
      BY <1>3, <1>8, <3>1
  <2>2. \/ e.arg \in working.active
        \/ OusterNears(e.arg)
        \/ \E f \in Elems(line) : Activates(f, e.arg) /\ Ahead(line, e, f)
    BY <1>8, <2>1 DEF WritesInv, Succeeded
  <2>3. CASE e.arg \in working.active
    BY <1>6, <2>1, <2>3
  <2>4. CASE OusterNears(e.arg)
    BY <1>5, <2>4
  <2>5. CASE \E f \in Elems(line) : Activates(f, e.arg) /\ Ahead(line, e, f)
    BY <1>2, <2>1, <2>5
  <2>6. QED
    BY <2>2, <2>3, <2>4, <2>5
<1>9. ASSUME NEW r \in Elems(replies'), r.for \in Callers \ cut', r.of = "commit",
             call[r.for].method = "activate_model"
      PROVE  \/ call[r.for].arg \in working'.active \intersect committed'.active
             \/ Nears(call[r.for].arg)
             \/ \E f \in Elems(line') : Activates(f, call[r.for].arg)
             \/ \E q \in Elems(replies') :
                   Ousts(q, "activate", call[r.for].arg) /\ Ahead(replies', r, q)
  <2> DEFINE a == call[r.for].arg
  <2>1. CASE r \in Elems(replies)
    <3>1. r.for \in Untouched /\ head.do # "rollback"
      <4>1. r.for # head.for /\ Running(r.for)
        BY <1>2, <2>1, UnderWay
      <4>2. QED
        BY <1>3, <1>9, <4>1
    <3>2. \/ a \in working.active \intersect committed.active
          \/ OusterNears(a)
          \/ \E f \in Elems(line) : Activates(f, a)
          \/ \E q \in Elems(replies) : Ousts(q, "activate", a) /\ Ahead(replies, r, q)
      BY <1>9, <2>1, <3>1 DEF WritesInv, Succeeded
    <3>3. CASE a \in working.active \intersect committed.active
      <4>1. a \in committed'.active
        <5>1. committed' = committed \/ committed' = working
          BY <1>1, <3>1 DEF Outcome
        <5>2. QED
          BY <3>3, <5>1
      <4>2. QED
        BY <1>6, <3>1, <3>3, <4>1
    <3>4. CASE OusterNears(a)
      BY <1>5, <3>4
    <3>5. CASE \E f \in Elems(line) : Activates(f, a)
      <4>1. PICK f \in Elems(line) : Activates(f, a)
        BY <3>5
      <4>2. CASE f = head
        <5>1. head.for \in Callers /\ head.arg = call[head.for].arg /\ head.do = "activate"
          BY <4>1, <4>2, WhoSends DEF Activates, WritesInv, Own
        <5>2. Ousts(Reply(says), "activate", a)
          BY <1>4, <4>1, <4>2, <5>1 DEF Activates, Ousts
        <5>3. QED
          BY <1>2, <2>1, <5>1, <5>2
      <4>3. CASE f # head
        BY <1>2, <4>1, <4>3
      <4>4. QED
        BY <4>2, <4>3
    <3>6. CASE \E q \in Elems(replies) : Ousts(q, "activate", a) /\ Ahead(replies, r, q)
      BY <1>2, <3>6
    <3>7. QED
      BY <3>2, <3>3, <3>4, <3>5, <3>6
  <2>2. CASE head.for \in Callers /\ r = Reply(says)
    <3>1. head.do = "commit" /\ head \in Elems(line) /\ head.for = r.for
      BY <1>2, <1>4, <1>9, <2>2
    <3>2. head.arg = a /\ head.for \in Untouched
      BY <1>3, <1>9, <2>2, <3>1, UnderWay DEF WritesInv, Own
    <3>3. working' = working /\ committed' = working
      BY <1>1, <3>1 DEF Outcome, Writes, Reads
    <3>4. \/ a \in working.active
          \/ OusterNears(a)
          \/ \E f \in Elems(line) : Activates(f, a) /\ Ahead(line, head, f)
      BY <1>9, <3>1, <3>2 DEF WritesInv, Succeeded
    <3>5. CASE a \in working.active
      BY <3>3, <3>5
    <3>6. CASE OusterNears(a)
      BY <1>5, <3>6
    <3>7. CASE \E f \in Elems(line) : Activates(f, a) /\ Ahead(line, head, f)
      BY <1>2, <3>7
    <3>8. QED
      BY <3>4, <3>5, <3>6, <3>7
  <2>3. QED
    BY <1>2, <1>9, <2>1, <2>2
<1>10. /\ Elems(line)' = Elems(line') /\ Elems(replies)' = Elems(replies')
       /\ Untouched' = Callers \ cut'
       /\ \A x, y : Ahead(line, x, y)' = Ahead(line', x, y)
       /\ \A x, y : Ahead(replies, x, y)' = Ahead(replies', x, y)
       /\ \A a : OusterNears(a)' <=> Nears(a)
       /\ \A q, of, a : Ousts(q, of, a)' <=> Ousts(q, of, a)
  BY <1>2 DEF Untouched, Ahead, Elems, OusterNears, Ousts
<1> HIDE DEF Nears
<1>11. QED
  BY <1>2, <1>7, <1>8, <1>9, <1>10 DEF Succeeded

-----------------------------------------------------------------------------
(* Steps of the event loop.                                                *)

\* The caller hears the first answer, which nothing is ahead of.
LEMMA HeardOrder ==
    ASSUME ConnectionInv, NEW c \in Callers, Heard(c)
    PROVE  /\ Elems(replies) = Elems(replies') \union {Head(replies)}
           /\ \A r \in Elems(replies') : r.for # c
           /\ \A e \in Elems(line) : e.for # c
           /\ Head(replies).for = c
           /\ Running(c) /\ call[c] \in [method : Methods, arg : Args]
           /\ \A x, y : Ahead(replies, x, y) => x = Head(replies) \/ Ahead(replies', x, y)
           /\ \A x, y : Ahead(replies, x, y) => y \in Elems(replies')
           /\ \A x : ~Ahead(replies, x, Head(replies))
<1>1. replies # <<>> /\ c = Head(replies).for /\ replies' = Tail(replies)
  BY DEF Heard
<1>2. replies \in Seq(Answers) /\ OneEach(replies) /\ c # NoCaller
  BY CallerAssumption DEF ConnectionInv, Typed, Orderly
<1>3. QED
  BY <1>1, <1>2, HeardOne, TailOrder

\* A method hears an answer and sends its next statement.
LEMMA Continued ==
    ASSUME ConnectionInv, NEW c \in Callers, Continue(c)
    PROVE  /\ Heard(c) /\ UNCHANGED <<working, committed, call, cut>>
           /\ \E s \in NextOf(c) : LET sent == [for |-> c, do |-> s, arg |-> call[c].arg] IN
                 /\ Elems(line') = Elems(line) \union {sent}
                 /\ \A x, y : Ahead(line, x, y) => Ahead(line', x, y)
                 /\ \A x \in Elems(line) : Ahead(line', x, sent)
<1>1. Heard(c) /\ UNCHANGED <<working, committed, call, cut>>
  BY DEF Continue, dbVars
<1>2. PICK s \in NextOf(c) \ {"return", "raise"} :
         line' = Append(line, [for |-> c, do |-> s, arg |-> call[c].arg])
  BY DEF Continue, Issue
<1> DEFINE sent == [for |-> c, do |-> s, arg |-> call[c].arg]
<1>3. call[c] \in [method : Methods, arg : Args] /\ \A e \in Elems(line) : e.for # c
  BY <1>1, HeardOrder
<1>4. sent \in Trips
  <2>1. s \in Issued(call[c].method)
    BY <1>2, <1>3, NextIssued DEF NextOf
  <2>2. s \in Statements
    BY <1>3, <2>1, ProgramEnds DEF Leads
  <2>3. QED
    BY <1>3, <2>2 DEF Trips
<1>5. sent.for = c /\ line' = Append(line, sent)
  BY <1>2
<1> HIDE DEF sent
<1>6. /\ Elems(line') = Elems(line) \union {sent}
      /\ \A x, y : Ahead(line, x, y) => Ahead(line', x, y)
      /\ \A x \in Elems(line) : Ahead(line', x, sent)
  BY <1>3, <1>4, <1>5, AppendQueue, AppendOrder DEF ConnectionInv, Typed, Orderly
<1>7. QED
  BY <1>1, <1>2, <1>6 DEF sent

\* The next statement of a method goes to the end of the line, and its answer
\* leaves the head of the replies.
LEMMA ContinueWrites ==
    ASSUME ConnectionInv, WritesInv, NEW c \in Callers, Continue(c)
    PROVE  WritesInv'
<1> DEFINE heard == Head(replies)
<1>1. Heard(c) /\ UNCHANGED <<working, committed, call, cut>>
  BY Continued
<1>2. PICK s \in NextOf(c) : LET sent == [for |-> c, do |-> s, arg |-> call[c].arg] IN
         /\ Elems(line') = Elems(line) \union {sent}
         /\ \A x, y : Ahead(line, x, y) => Ahead(line', x, y)
         /\ \A x \in Elems(line) : Ahead(line', x, sent)
  BY Continued
<1> DEFINE sent == [for |-> c, do |-> s, arg |-> call[c].arg]
<1>3. /\ Elems(line') = Elems(line) \union {sent}
      /\ \A x, y : Ahead(line, x, y) => Ahead(line', x, y)
      /\ \A x \in Elems(line) : Ahead(line', x, sent)
      /\ sent.for = c /\ sent.do = s /\ sent.arg = call[c].arg
  BY <1>2
<1> HIDE DEF sent
<1>4. /\ Elems(replies) = Elems(replies') \union {heard}
      /\ \A r \in Elems(replies') : r.for # c
      /\ \A e \in Elems(line) : e.for # c
      /\ heard.for = c /\ heard \in Elems(replies)
      /\ Running(c) /\ call[c].method \in Methods
      /\ \A x, y : Ahead(replies, x, y) => x = heard \/ Ahead(replies', x, y)
      /\ \A x, y : Ahead(replies, x, y) => y \in Elems(replies')
      /\ \A x : ~Ahead(replies, x, heard)
  BY <1>1, HeardOrder
<1>5. s \in Follows(call[c].method, heard.of, heard.says) /\ c # NoCaller
  BY <1>2, CallerAssumption DEF NextOf
<1> HIDE DEF heard
<1>6. /\ heard.of = "insert job" =>
            (heard.says = "ok" /\ s = "commit") \/ (heard.says = "error" /\ s = "rollback")
      /\ heard.of = "deactivate" => s = "activate"
      /\ call[c].method = "activate_model" /\ s = "commit" =>
            heard.of = "activate" /\ heard.says = "ok"
      /\ call[c].method = "create_job" /\ s = "rollback" =>
            heard.of = "insert job" /\ heard.says = "error"
  <2> DEFINE m == call[c].method
             of == heard.of
             says == heard.says
  <2>1. m \in Methods /\ s \in Follows(m, of, says)
    BY <1>4, <1>5
  <2> HIDE DEF m, of, says
  <2>2. /\ of = "insert job" => (says = "ok" /\ s = "commit") \/ (says = "error" /\ s = "rollback")
        /\ of = "deactivate" => s = "activate"
        /\ m = "activate_model" /\ s = "commit" => of = "activate" /\ says = "ok"
        /\ m = "create_job" /\ s = "rollback" => of = "insert job" /\ says = "error"
    BY <2>1, NextSteps
  <2>3. QED
    BY <2>2 DEF m, of, says
<1>7. /\ Elems(line)' = Elems(line') /\ Elems(replies)' = Elems(replies')
      /\ Untouched' = Untouched
      /\ \A x, y : Ahead(line, x, y)' = Ahead(line', x, y)
      /\ \A x, y : Ahead(replies, x, y)' = Ahead(replies', x, y)
      /\ \A d : Running(d)' <=> Running(d)
      /\ \A w, t : Given(w, t, working, committed)' <=> Given(w, t, working, committed)
      /\ \A q, of, a : Ousts(q, of, a)' <=> Ousts(q, of, a)
      /\ \A a : OusterNears(a)' <=> \E q \in Elems(replies') : Ousts(q, "deactivate", a)
      /\ CommitComes' <=> \E f \in Elems(line') : f.do = "commit"
  BY <1>1 DEF Untouched, Ahead, Elems, Running, Ousts, OusterNears, CommitComes, Given, Has
<1>8. Own'
  BY <1>1, <1>3, <1>4, <1>5, <1>7 DEF WritesInv, Own
<1>9. Assured'
  <2>1. \A e \in Elems(line') : e.for \in Untouched => Given(call[e.for], e.do, working, committed)
    BY <1>3, <1>4, <1>5 DEF WritesInv, Assured
  <2>2. \A r \in Elems(replies') : r.for \in Untouched =>
          \A t \in Follows(call[r.for].method, r.of, r.says) :
             Given(call[r.for], t, working, committed)
    BY <1>4 DEF WritesInv, Assured
  <2>3. QED
    BY <1>1, <1>7, <2>1, <2>2 DEF Assured
<1>10. CommitComes \/ Created(heard) => CommitComes'
  BY <1>3, <1>6, <1>7 DEF CommitComes, Created
<1>11. JobsOwed'
  <2>1. \A q \in Elems(replies) : Created(q) => q = heard \/ q \in Elems(replies')
    BY <1>4
  <2>2. \A q : Created(q)' <=> Created(q)
    BY DEF Created
  <2>3. QED
    BY <1>1, <1>7, <1>10, <2>1, <2>2 DEF WritesInv, JobsOwed
<1>12. RollbackWaits'
  <2>1. ASSUME NEW e \in Elems(line'), e.for \in Untouched, e.do = "rollback",
               call[e.for].method = "create_job"
        PROVE  \/ e.arg \in committed.jobs
               \/ \E f \in Elems(line') : f.do = "commit" /\ Ahead(line', f, e)
    <3>1. CASE e \in Elems(line)
      BY <1>3, <2>1, <3>1 DEF WritesInv, RollbackWaits
    <3>2. CASE e = sent
      <4>1. heard.of = "insert job" /\ heard.says = "error"
        BY <1>3, <1>6, <2>1, <3>2
      <4>2. call[c].arg \in committed.jobs \/ CommitComes
        BY <1>3, <1>4, <2>1, <3>2, <4>1 DEF WritesInv, RollbackWaits
      <4>3. QED
        BY <1>3, <3>2, <4>2 DEF CommitComes
    <3>3. QED
      BY <1>3, <2>1, <3>1, <3>2
  <2>2. ASSUME NEW r \in Elems(replies'), r.for \in Untouched, r.of = "insert job",
               r.says = "error"
        PROVE  \/ call[r.for].arg \in committed.jobs
               \/ CommitComes'
               \/ \E q \in Elems(replies') : Created(q) /\ Ahead(replies', q, r)
    <3>1. r \in Elems(replies)
      BY <1>4
    <3>2. \/ call[r.for].arg \in committed.jobs
          \/ CommitComes
          \/ \E q \in Elems(replies) : Created(q) /\ Ahead(replies, q, r)
      BY <2>2, <3>1 DEF WritesInv, RollbackWaits
    <3>3. ASSUME NEW q \in Elems(replies), Created(q), Ahead(replies, q, r)
          PROVE  CommitComes' \/ (q \in Elems(replies') /\ Ahead(replies', q, r))
      BY <1>4, <1>10, <3>3
    <3>4. QED
      BY <1>10, <3>2, <3>3
  <2>3. QED
    BY <1>1, <1>7, <2>1, <2>2 DEF RollbackWaits, Created
<1>13. Succeeded'
  <2> DEFINE Nears(a) == \E q \in Elems(replies') : Ousts(q, "deactivate", a)
  <2>1. ASSUME NEW a, OusterNears(a)
        PROVE  Nears(a) \/ Activates(sent, a)
    <3>1. PICK q \in Elems(replies) : Ousts(q, "deactivate", a)
      BY <2>1 DEF OusterNears
    <3>2. q = heard => Activates(sent, a)
      BY <1>3, <1>4, <1>6, <3>1 DEF Ousts, Activates
    <3>3. QED
      BY <1>4, <3>1, <3>2
  <2>2. ASSUME NEW r \in Elems(replies'), r.for \in Untouched, r.of = "activate",
               r.says = "ok"
        PROVE  \/ call[r.for].arg \in working.active
               \/ \E q \in Elems(replies') :
                     Ousts(q, "deactivate", call[r.for].arg) /\ Ahead(replies', r, q)
    <3>1. r \in Elems(replies) /\ r # heard
      BY <1>4
    <3>2. \/ call[r.for].arg \in working.active
          \/ \E q \in Elems(replies) :
                Ousts(q, "deactivate", call[r.for].arg) /\ Ahead(replies, r, q)
      BY <2>2, <3>1 DEF WritesInv, Succeeded
    <3>3. QED
      BY <1>4, <3>1, <3>2
  <2>3. ASSUME NEW e \in Elems(line'), e.for \in Untouched, e.do = "commit",
               call[e.for].method = "activate_model"
        PROVE  \/ e.arg \in working.active
               \/ Nears(e.arg)
               \/ \E f \in Elems(line') : Activates(f, e.arg) /\ Ahead(line', e, f)
    <3>1. CASE e \in Elems(line)
      <4>1. \/ e.arg \in working.active
            \/ OusterNears(e.arg)
            \/ \E f \in Elems(line) : Activates(f, e.arg) /\ Ahead(line, e, f)
        BY <2>3, <3>1 DEF WritesInv, Succeeded
      <4>2. QED
        BY <1>3, <2>1, <3>1, <4>1
    <3>2. CASE e = sent
      <4>1. heard.of = "activate" /\ heard.says = "ok"
        BY <1>3, <1>6, <2>3, <3>2
      <4>2. \/ e.arg \in working.active
            \/ \E q \in Elems(replies) : Ousts(q, "deactivate", e.arg) /\ Ahead(replies, heard, q)
        BY <1>3, <1>4, <2>3, <3>2, <4>1 DEF WritesInv, Succeeded
      <4>3. QED
        BY <1>4, <4>2
    <3>3. QED
      BY <1>3, <2>3, <3>1, <3>2
  <2>4. ASSUME NEW r \in Elems(replies'), r.for \in Untouched, r.of = "commit",
               call[r.for].method = "activate_model"
        PROVE  \/ call[r.for].arg \in working.active \intersect committed.active
               \/ Nears(call[r.for].arg)
               \/ \E f \in Elems(line') : Activates(f, call[r.for].arg)
               \/ \E q \in Elems(replies') :
                     Ousts(q, "activate", call[r.for].arg) /\ Ahead(replies', r, q)
    <3> DEFINE a == call[r.for].arg
    <3>1. r \in Elems(replies) /\ r # heard
      BY <1>4
    <3>2. \/ a \in working.active \intersect committed.active
          \/ OusterNears(a)
          \/ \E f \in Elems(line) : Activates(f, a)
          \/ \E q \in Elems(replies) : Ousts(q, "activate", a) /\ Ahead(replies, r, q)
      BY <2>4, <3>1 DEF WritesInv, Succeeded
    <3>3. OusterNears(a) => Nears(a) \/ Activates(sent, a)
      BY <2>1
    <3> HIDE DEF a, Nears
    <3>4. \/ a \in working.active \intersect committed.active
          \/ Nears(a)
          \/ \E f \in Elems(line') : Activates(f, a)
          \/ \E q \in Elems(replies') : Ousts(q, "activate", a) /\ Ahead(replies', r, q)
      BY <1>3, <1>4, <3>1, <3>2, <3>3
    <3>5. QED
      BY <3>4 DEF a
  <2> HIDE DEF Nears
  <2>5. \A a : OusterNears(a)' <=> Nears(a)
    BY <1>7 DEF Nears
  <2>6. \A f, a : Activates(f, a)' <=> Activates(f, a)
    BY DEF Activates
  <2>7. QED
    BY <1>1, <1>7, <2>2, <2>3, <2>4, <2>5, <2>6 DEF Succeeded
<1>14. QED
  BY <1>8, <1>9, <1>11, <1>12, <1>13 DEF WritesInv

\* A call that returns or raises leaves the order of the others as it is.
LEMMA EndWrites ==
    ASSUME ConnectionInv, WritesInv, NEW c \in Callers, Return(c) \/ Raise(c)
    PROVE  WritesInv'
<1> DEFINE heard == Head(replies)
<1>1. /\ Heard(c) /\ UNCHANGED <<working, committed, line, cut>>
      /\ call' = [call EXCEPT ![c] = Idle]
      /\ NextOf(c) \intersect {"return", "raise"} # {}
  BY DEF Return, Raise, dbVars
<1>2. /\ Elems(replies) = Elems(replies') \union {heard}
      /\ \A r \in Elems(replies') : r.for # c
      /\ \A e \in Elems(line) : e.for # c
      /\ heard.for = c /\ call[c].method \in Methods
      /\ \A x, y : Ahead(replies, x, y) => x = heard \/ Ahead(replies', x, y)
      /\ \A x, y : Ahead(replies, x, y) => y \in Elems(replies')
  BY <1>1, HeardOrder
<1>3. heard.of # "deactivate" /\ ~Created(heard)
  <2>1. PICK s \in {"return", "raise"} : s \in Follows(call[c].method, heard.of, heard.says)
    BY <1>1 DEF NextOf
  <2> DEFINE m == call[c].method
             of == heard.of
             says == heard.says
  <2>2. m \in Methods /\ s \in Follows(m, of, says)
    BY <1>2, <2>1
  <2> HIDE DEF m, of, says
  <2>3. /\ of = "insert job" => (says = "ok" /\ s = "commit") \/ (says = "error" /\ s = "rollback")
        /\ of = "deactivate" => s = "activate"
    BY <2>2, NextSteps
  <2>4. QED
    BY <2>1, <2>3 DEF Created, of, says
<1> HIDE DEF heard
<1>4. \A d \in Callers : d # c => call'[d] = call[d] /\ (Running(d)' <=> Running(d))
  BY <1>1 DEF ConnectionInv, Typed, Running
<1>5. ~Running(c)'
  BY <1>1 DEF ConnectionInv, Typed, Running
<1>6. /\ \A r \in Elems(replies') : r.for \in Callers /\ r \in Elems(replies) /\ call'[r.for] = call[r.for]
      /\ \A e \in Elems(line) : e.for \in Callers => call'[e.for] = call[e.for]
  BY <1>2, <1>4, UnderWay
<1> DEFINE Still(q, of, a) == q.of = of /\ call'[q.for].arg # a
<1>7. /\ Elems(line)' = Elems(line) /\ Elems(replies)' = Elems(replies')
      /\ Untouched' = Untouched
      /\ \A x, y : Ahead(line, x, y)' = Ahead(line, x, y)
      /\ \A x, y : Ahead(replies, x, y)' = Ahead(replies', x, y)
      /\ \A w, t : Given(w, t, working, committed)' <=> Given(w, t, working, committed)
      /\ CommitComes' <=> CommitComes
      /\ \A q : Created(q)' <=> Created(q)
      /\ \A f, a : Activates(f, a)' <=> Activates(f, a)
      /\ \A a : OusterNears(a)' <=> \E q \in Elems(replies') : Still(q, "deactivate", a)
  BY <1>1 DEF Untouched, Ahead, Elems, Ousts, OusterNears, CommitComes, Given, Has, Created,
              Activates
<1> HIDE DEF Still
<1>8. \A q \in Elems(replies') : \A of, a : Still(q, of, a) <=> Ousts(q, of, a)
  <2>1. ASSUME NEW q \in Elems(replies'), NEW of, NEW a
        PROVE  Still(q, of, a) <=> Ousts(q, of, a)
    BY <1>6 DEF Ousts, Still
  <2>2. QED
    BY <2>1
<1>9. Own'
  <2>1. \A d \in Callers : Running(d)' => call'[d] \in Workload[d] /\ Running(d)
    BY <1>4, <1>5 DEF WritesInv, Own
  <2>2. \A e \in Elems(line) : e.for \in Callers => e.arg = call'[e.for].arg
    BY <1>6 DEF WritesInv, Own
  <2>3. Running(Worker)' => \A e \in Elems(line) : e.for # NoCaller
    BY <2>1, CallerAssumption DEF WritesInv, Own
  <2>4. QED
    BY <1>7, <2>1, <2>2, <2>3 DEF Own
<1>10. Assured'
  BY <1>1, <1>6, <1>7 DEF WritesInv, Assured
<1>11. JobsOwed'
  <2>1. \A q \in Elems(replies) : Created(q) => q \in Elems(replies')
    BY <1>2, <1>3
  <2>2. QED
    BY <1>1, <1>7, <2>1 DEF WritesInv, JobsOwed
<1>12. RollbackWaits'
  <2>1. \A q, r : Created(q) /\ Ahead(replies, q, r) /\ q \in Elems(replies)
                  => q \in Elems(replies') /\ Ahead(replies', q, r)
    BY <1>2, <1>3
  <2>2. \A r \in Elems(replies') : r.for \in Untouched /\ r.of = "insert job" /\ r.says = "error" =>
             \/ call'[r.for].arg \in committed.jobs
             \/ CommitComes
             \/ \E q \in Elems(replies') : Created(q) /\ Ahead(replies', q, r)
    BY <1>6, <2>1 DEF WritesInv, RollbackWaits
  <2>3. \A e \in Elems(line) :
          e.for \in Untouched /\ e.do = "rollback" /\ call'[e.for].method = "create_job" =>
             \/ e.arg \in committed.jobs
             \/ \E f \in Elems(line) : f.do = "commit" /\ Ahead(line, f, e)
    BY <1>6 DEF WritesInv, RollbackWaits, Untouched
  <2>4. QED
    BY <1>1, <1>7, <2>2, <2>3 DEF RollbackWaits
<1>13. Succeeded'
  <2>1. \A a : OusterNears(a) => \E q \in Elems(replies') : Ousts(q, "deactivate", a)
    BY <1>2, <1>3 DEF OusterNears, Ousts
  <2>2. \A r \in Elems(replies') : \A q : Ahead(replies, r, q)
                  => q \in Elems(replies') /\ Ahead(replies', r, q)
    <3>1. ASSUME NEW r \in Elems(replies'), NEW q, Ahead(replies, r, q)
          PROVE  q \in Elems(replies') /\ Ahead(replies', r, q)
      BY <1>2, <3>1
    <3>2. QED
      BY <3>1
  <2>3. ASSUME NEW r \in Elems(replies'), r.for \in Untouched, r.of = "activate",
               r.says = "ok"
        PROVE  \/ call'[r.for].arg \in working.active
               \/ \E q \in Elems(replies') :
                     Still(q, "deactivate", call'[r.for].arg) /\ Ahead(replies', r, q)
    <3>1. \/ call[r.for].arg \in working.active
          \/ \E q \in Elems(replies) :
                Ousts(q, "deactivate", call[r.for].arg) /\ Ahead(replies, r, q)
      BY <1>6, <2>3 DEF WritesInv, Succeeded
    <3>2. QED
      BY <1>2, <1>6, <1>8, <2>2, <3>1
  <2>4. ASSUME NEW e \in Elems(line), e.for \in Untouched, e.do = "commit",
               call'[e.for].method = "activate_model"
        PROVE  \/ e.arg \in working.active
               \/ \E q \in Elems(replies') : Still(q, "deactivate", e.arg)
               \/ \E f \in Elems(line) : Activates(f, e.arg) /\ Ahead(line, e, f)
    <3>1. \/ e.arg \in working.active
          \/ OusterNears(e.arg)
          \/ \E f \in Elems(line) : Activates(f, e.arg) /\ Ahead(line, e, f)
      BY <1>6, <2>4 DEF WritesInv, Succeeded, Untouched
    <3>2. QED
      BY <1>8, <2>1, <3>1
  <2>5. ASSUME NEW r \in Elems(replies'), r.for \in Untouched, r.of = "commit",
               call'[r.for].method = "activate_model"
        PROVE  \/ call'[r.for].arg \in working.active \intersect committed.active
               \/ \E q \in Elems(replies') : Still(q, "deactivate", call'[r.for].arg)
               \/ \E f \in Elems(line) : Activates(f, call'[r.for].arg)
               \/ \E q \in Elems(replies') :
                     Still(q, "activate", call'[r.for].arg) /\ Ahead(replies', r, q)
    <3>1. call'[r.for] = call[r.for] /\ r \in Elems(replies) /\ r.for # c
      BY <1>2, <1>6
    <3>2. \/ call[r.for].arg \in working.active \intersect committed.active
          \/ OusterNears(call[r.for].arg)
          \/ \E f \in Elems(line) : Activates(f, call[r.for].arg)
          \/ \E q \in Elems(replies) :
                Ousts(q, "activate", call[r.for].arg) /\ Ahead(replies, r, q)
      BY <2>5, <3>1 DEF WritesInv, Succeeded
    <3>3. QED
      BY <1>8, <2>1, <2>2, <3>1, <3>2
  <2>6. QED
    BY <1>1, <1>7, <2>3, <2>4, <2>5 DEF Succeeded, Still, Ousts
<1>14. QED
  BY <1>9, <1>10, <1>11, <1>12, <1>13 DEF WritesInv

\* A method that is called has what its first statement needs.
LEMMA CallGiven ==
    ASSUME NEW w \in [method : Methods, arg : Args], NEW s \in Follows(w.method, "call", "ok"),
           w.method = "mark_job_done" => w.arg \in working.jobs
    PROVE  Given(w, s, working, committed) /\ s \notin {"commit", "rollback"}
<1> DEFINE m == w.method
<1>1. m \in Methods /\ <<"call", "ok", s>> \in Routes[m]
  BY ProgramRoutes
<1> HIDE DEF m
<1>2. /\ s \notin {"commit", "rollback", "return"}
      /\ m = "purge_and_blacklist" => s = "insert rule"
      /\ m = "create_job" => s # "rollback"
  <2>1. CASE m = "insert_page"
    BY <1>1, <2>1 DEF Routes
  <2>2. CASE m = "create_job"
    BY <1>1, <2>2 DEF Routes
  <2>3. CASE m = "mark_job_done"
    BY <1>1, <2>3 DEF Routes
  <2>4. CASE m = "replace_chunks"
    BY <1>1, <2>4 DEF Routes
  <2>5. CASE m = "purge_and_blacklist"
    BY <1>1, <2>5 DEF Routes, PurgeRoutes
  <2>6. CASE m = "activate_model"
    BY <1>1, <2>6 DEF Routes
  <2>7. QED
    BY <1>1, <2>1, <2>2, <2>3, <2>4, <2>5, <2>6 DEF Methods
<1>3. QED
  BY <1>2 DEF Given, m

\* A call comes behind all there is.
LEMMA CallWrites ==
    ASSUME ConnectionInv, WritesInv, NEW c \in Callers, NEW w \in Workload[c], Call(c, w)
    PROVE  WritesInv'
<1>1. PICK s \in Follows(w.method, "call", "ok") :
         line' = Append(line, [for |-> c, do |-> s, arg |-> w.arg])
  BY DEF Call, Issue
<1>2. /\ ~Running(c) /\ Sensible(c, w) /\ call' = [call EXCEPT ![c] = w]
      /\ cut' = cut \ {c} /\ UNCHANGED <<working, committed, replies>>
  BY DEF Call, dbVars
<1>3. w \in [method : Methods, arg : Args] /\ c # NoCaller
  BY WorkloadAssumption, CallerAssumption DEF Args
<1>4. Given(w, s, working, committed) /\ s \notin {"commit", "rollback"}
  BY <1>2, <1>3, CallGiven DEF Sensible
<1>5. /\ \A e \in Elems(line) : e.for # c
      /\ \A r \in Elems(replies) : r.for # c
  BY <1>2, <1>3, UnderWay
<1> DEFINE sent == [for |-> c, do |-> s, arg |-> w.arg]
<1>6. sent \in Trips
  <2>1. <<"call", "ok", s>> \in Routes[w.method]
    BY <1>3, ProgramRoutes
  <2>2. s \in Issued(w.method)
    BY <1>3, <2>1, CallsBegin, NextIssued
  <2>3. s \in Statements
    BY <1>3, <2>2, ProgramEnds DEF Leads
  <2>4. QED
    BY <1>3, <2>3 DEF Trips
<1>7. sent.for = c /\ sent.do = s /\ sent.arg = w.arg /\ line' = Append(line, sent)
  BY <1>1
<1> HIDE DEF sent
<1>8. /\ Elems(line') = Elems(line) \union {sent}
      /\ \A x, y : Ahead(line, x, y) => Ahead(line', x, y)
  BY <1>5, <1>6, <1>7, AppendQueue, AppendOrder DEF ConnectionInv, Typed, Orderly
<1>9. /\ call'[c] = w
      /\ \A d \in Callers : d # c => call'[d] = call[d] /\ (Running(d)' <=> Running(d))
  BY <1>2 DEF ConnectionInv, Typed, Running
<1>10. /\ \A r \in Elems(replies) : call'[r.for] = call[r.for]
       /\ \A e \in Elems(line) : e.for \in Callers => call'[e.for] = call[e.for]
  BY <1>5, <1>9, UnderWay
<1> DEFINE Still(q, of, a) == q.of = of /\ call'[q.for].arg # a
<1>11. /\ Elems(line)' = Elems(line') /\ Elems(replies)' = Elems(replies)
       /\ Untouched' = Callers \ cut'
       /\ \A x, y : Ahead(line, x, y)' = Ahead(line', x, y)
       /\ \A x, y : Ahead(replies, x, y)' = Ahead(replies, x, y)
       /\ \A v, t : Given(v, t, working, committed)' <=> Given(v, t, working, committed)
       /\ \A q : Created(q)' <=> Created(q)
       /\ \A f, a : Activates(f, a)' <=> Activates(f, a)
       /\ CommitComes' <=> \E f \in Elems(line') : f.do = "commit"
       /\ \A a : OusterNears(a)' <=> \E q \in Elems(replies) : Still(q, "deactivate", a)
  BY <1>2 DEF Untouched, Ahead, Elems, Ousts, OusterNears, CommitComes, Given, Has, Created,
              Activates
<1>12. \A q \in Elems(replies) : \A of, a : Still(q, of, a) <=> Ousts(q, of, a)
  BY <1>10 DEF Ousts
<1>13. \A a : OusterNears(a)' <=> OusterNears(a)
  BY <1>11, <1>12 DEF OusterNears
<1> HIDE DEF Still
<1>14. /\ \A e \in Elems(line) : e.for \in Callers \ cut' => e.for \in Untouched
       /\ \A r \in Elems(replies) : r.for \in Callers \ cut' => r.for \in Untouched
  BY <1>2, <1>5 DEF Untouched
<1>15. Own'
  <2>1. \A d \in Callers : Running(d)' => call'[d] \in Workload[d]
    BY <1>9 DEF WritesInv, Own
  <2>2. \A e \in Elems(line') : e.for \in Callers => e.arg = call'[e.for].arg
    BY <1>7, <1>8, <1>9, <1>10 DEF WritesInv, Own
  <2>3. Running(Worker)' => \A e \in Elems(line') : e.for # NoCaller
    <3>1. CASE c = Worker
      <4>1. \A i \in DOMAIN line : line[i].for # NoCaller
        BY <1>2, <3>1 DEF Sensible
      <4>2. QED
        BY <1>3, <1>7, <1>8, <4>1 DEF Elems
    <3>2. CASE c # Worker
      BY <1>3, <1>7, <1>8, <1>9, <3>2, CallerAssumption DEF WritesInv, Own
    <3>3. QED
      BY <3>1, <3>2
  <2>4. QED
    BY <1>11, <2>1, <2>2, <2>3 DEF Own
<1>16. Assured'
  <2>1. \A e \in Elems(line') : e.for \in Callers \ cut' =>
           Given(call'[e.for], e.do, working, committed)
    BY <1>4, <1>7, <1>8, <1>9, <1>10, <1>14 DEF WritesInv, Assured
  <2>2. \A r \in Elems(replies) : r.for \in Callers \ cut' =>
           \A t \in Follows(call'[r.for].method, r.of, r.says) :
              Given(call'[r.for], t, working, committed)
    BY <1>10, <1>14 DEF WritesInv, Assured
  <2>3. QED
    BY <1>2, <1>11, <2>1, <2>2 DEF Assured
<1>17. CommitComes => CommitComes'
  BY <1>8, <1>11 DEF CommitComes
<1>18. JobsOwed'
  BY <1>2, <1>11, <1>17 DEF WritesInv, JobsOwed
<1>19. RollbackWaits'
  <2>1. \A e \in Elems(line') :
           e.for \in Callers \ cut' /\ e.do = "rollback" /\ call'[e.for].method = "create_job" =>
              \/ e.arg \in committed.jobs
              \/ \E f \in Elems(line') : f.do = "commit" /\ Ahead(line', f, e)
    <3>1. ASSUME NEW e \in Elems(line'), e.for \in Callers \ cut', e.do = "rollback",
                 call'[e.for].method = "create_job"
          PROVE  \/ e.arg \in committed.jobs
                 \/ \E f \in Elems(line') : f.do = "commit" /\ Ahead(line', f, e)
      <4>1. e \in Elems(line) /\ e.for \in Untouched /\ call[e.for].method = "create_job"
        BY <1>4, <1>7, <1>8, <1>10, <1>14, <3>1
      <4>2. \/ e.arg \in committed.jobs
            \/ \E f \in Elems(line) : f.do = "commit" /\ Ahead(line, f, e)
        BY <3>1, <4>1 DEF WritesInv, RollbackWaits
      <4>3. QED
        BY <1>8, <4>2
    <3>2. QED
      BY <3>1
  <2>2. \A r \in Elems(replies) :
           r.for \in Callers \ cut' /\ r.of = "insert job" /\ r.says = "error" =>
              \/ call'[r.for].arg \in committed.jobs
              \/ CommitComes
              \/ \E q \in Elems(replies) : Created(q) /\ Ahead(replies, q, r)
    BY <1>10, <1>14 DEF WritesInv, RollbackWaits
  <2>3. QED
    BY <1>2, <1>11, <1>17, <2>1, <2>2 DEF RollbackWaits
<1>20. Succeeded'
  <2>1. \A r \in Elems(replies) :
           r.for \in Callers \ cut' /\ r.of = "activate" /\ r.says = "ok" =>
              \/ call'[r.for].arg \in working.active
              \/ \E q \in Elems(replies) :
                    Still(q, "deactivate", call'[r.for].arg) /\ Ahead(replies, r, q)
    BY <1>10, <1>12, <1>14 DEF WritesInv, Succeeded
  <2>2. \A e \in Elems(line') :
           e.for \in Callers \ cut' /\ e.do = "commit" /\ call'[e.for].method = "activate_model" =>
              \/ e.arg \in working.active
              \/ OusterNears(e.arg)
              \/ \E f \in Elems(line') : Activates(f, e.arg) /\ Ahead(line', e, f)
    <3>1. ASSUME NEW e \in Elems(line'), e.for \in Callers \ cut', e.do = "commit",
                 call'[e.for].method = "activate_model"
          PROVE  \/ e.arg \in working.active
                 \/ OusterNears(e.arg)
                 \/ \E f \in Elems(line') : Activates(f, e.arg) /\ Ahead(line', e, f)
      <4>1. e \in Elems(line) /\ e.for \in Untouched /\ call[e.for].method = "activate_model"
        BY <1>4, <1>7, <1>8, <1>10, <1>14, <3>1
      <4>2. \/ e.arg \in working.active
            \/ OusterNears(e.arg)
            \/ \E f \in Elems(line) : Activates(f, e.arg) /\ Ahead(line, e, f)
        BY <3>1, <4>1 DEF WritesInv, Succeeded
      <4>3. QED
        BY <1>8, <4>2
    <3>2. QED
      BY <3>1
  <2>3. \A r \in Elems(replies) :
           r.for \in Callers \ cut' /\ r.of = "commit" /\ call'[r.for].method = "activate_model" =>
              \/ call'[r.for].arg \in working.active \intersect committed.active
              \/ OusterNears(call'[r.for].arg)
              \/ \E f \in Elems(line') : Activates(f, call'[r.for].arg)
              \/ \E q \in Elems(replies) :
                    Still(q, "activate", call'[r.for].arg) /\ Ahead(replies, r, q)
    <3>1. ASSUME NEW r \in Elems(replies), r.for \in Callers \ cut', r.of = "commit",
                 call'[r.for].method = "activate_model"
          PROVE  \/ call'[r.for].arg \in working.active \intersect committed.active
                 \/ OusterNears(call'[r.for].arg)
                 \/ \E f \in Elems(line') : Activates(f, call'[r.for].arg)
                 \/ \E q \in Elems(replies) :
                       Still(q, "activate", call'[r.for].arg) /\ Ahead(replies, r, q)
      <4>1. r.for \in Untouched /\ call'[r.for] = call[r.for]
        BY <1>10, <1>14, <3>1
      <4>2. \/ call[r.for].arg \in working.active \intersect committed.active
            \/ OusterNears(call[r.for].arg)
            \/ \E f \in Elems(line) : Activates(f, call[r.for].arg)
            \/ \E q \in Elems(replies) :
                  Ousts(q, "activate", call[r.for].arg) /\ Ahead(replies, r, q)
        BY <3>1, <4>1 DEF WritesInv, Succeeded
      <4>3. QED
        BY <1>8, <1>12, <4>1, <4>2
    <3>2. QED
      BY <3>1
  <2>4. QED
    BY <1>2, <1>11, <1>13, <2>1, <2>2, <2>3 DEF Succeeded, Still, Ousts
<1>21. QED
  BY <1>15, <1>16, <1>18, <1>19, <1>20 DEF WritesInv

\* What a cancelled call has in line stays where it is, for nobody; no other
\* element changes.
LEMMA CancelOrder ==
    ASSUME ConnectionInv, NEW c \in Callers, Cancel(c)
    PROVE  /\ \A e \in Elems(line') :
                 e.for \in Callers => e.for # c /\ e \in Elems(line)
           /\ \A e \in Elems(line) : e.for \in Callers \ {c} => e \in Elems(line')
           /\ CommitComes => \E f \in Elems(line') : f.do = "commit"
           /\ \A e, f \in Elems(line) :
                 Ahead(line, f, e) /\ e.for \in Callers \ {c} /\ f.do = "commit" =>
                    \E g \in Elems(line') : g.do = "commit" /\ Ahead(line', g, e)
           /\ \A e, f \in Elems(line) :
                 Ahead(line, e, f) /\ e.for \in Callers \ {c} /\ f.for \in Callers \ {c} =>
                    Ahead(line', e, f)
           /\ \A r \in Elems(replies') : r.for # c /\ r \in Elems(replies)
           /\ \A r \in Elems(replies) : r.for # c => r \in Elems(replies')
           /\ \A q, r \in Elems(replies) : Ahead(replies, q, r) /\ q.for # c /\ r.for # c =>
                 Ahead(replies', q, r)
<1> DEFINE Nobodys(e) == IF e.for = c THEN [e EXCEPT !.for = NoCaller] ELSE e
<1>1. /\ line' = [i \in DOMAIN line |-> Nobodys(line[i])]
      /\ \/ /\ \A i \in DOMAIN replies : replies[i].for # c
            /\ replies' = replies
         \/ \E i \in DOMAIN replies : replies[i].for = c /\ replies' = RemoveAt(replies, i)
  BY DEF Cancel
<1>2. line \in Seq(Trips) /\ replies \in Seq(Answers) /\ OneEach(replies) /\ NoCaller \notin Callers
  BY CallerAssumption DEF ConnectionInv, Typed, Orderly
<1>3. \A e \in Trips : /\ Nobodys(e).do = e.do
                       /\ Nobodys(e).for = IF e.for = c THEN NoCaller ELSE e.for
                       /\ e.for # c => Nobodys(e) = e
  BY DEF Trips
<1>4. \A i \in DOMAIN line : line[i] \in Trips
  BY <1>2
<1> HIDE DEF Nobodys
<1>5. DOMAIN line' = DOMAIN line /\ \A i \in DOMAIN line : line'[i] = Nobodys(line[i])
  BY <1>1
<1>6. \A e \in Elems(line') : e.for \in Callers => e.for # c /\ e \in Elems(line)
  <2>1. ASSUME NEW i \in DOMAIN line, line'[i].for \in Callers
        PROVE  line'[i].for # c /\ line'[i] = line[i]
    BY <1>2, <1>3, <1>4, <1>5, <2>1
  <2>2. QED
    BY <1>5, <2>1 DEF Elems
<1>7. \A e, f : Ahead(line, e, f) => Ahead(line', Nobodys(e), Nobodys(f))
  BY <1>5 DEF Ahead
<1>8. \A e \in Elems(line) : Nobodys(e) \in Elems(line') /\ e \in Trips
  BY <1>4, <1>5 DEF Elems
<1>9. CommitComes => \E f \in Elems(line') : f.do = "commit"
  BY <1>3, <1>8 DEF CommitComes
<1>10. \A e, f \in Elems(line) :
          Ahead(line, f, e) /\ e.for \in Callers \ {c} /\ f.do = "commit" =>
             \E g \in Elems(line') : g.do = "commit" /\ Ahead(line', g, e)
  <2>1. ASSUME NEW e \in Elems(line), NEW f \in Elems(line), Ahead(line, f, e),
               e.for \in Callers \ {c}, f.do = "commit"
        PROVE  \E g \in Elems(line') : g.do = "commit" /\ Ahead(line', g, e)
    <3>1. Nobodys(e) = e /\ Nobodys(f) \in Elems(line') /\ Nobodys(f).do = "commit"
      BY <1>3, <1>8, <2>1
    <3>2. QED
      BY <1>7, <2>1, <3>1
  <2>2. QED
    BY <2>1
<1>11. \A e, f \in Elems(line) :
          Ahead(line, e, f) /\ e.for \in Callers \ {c} /\ f.for \in Callers \ {c} =>
             Ahead(line', e, f)
  <2>1. \A e \in Elems(line) : e.for \in Callers \ {c} => Nobodys(e) = e
    BY <1>3, <1>8
  <2>2. QED
    BY <1>7, <2>1
<1>12. /\ \A r \in Elems(replies') : r.for # c /\ r \in Elems(replies)
       /\ \A r \in Elems(replies) : r.for # c => r \in Elems(replies')
       /\ \A q, r \in Elems(replies) : Ahead(replies, q, r) /\ q.for # c /\ r.for # c =>
             Ahead(replies', q, r)
  <2>1. CASE (\A i \in DOMAIN replies : replies[i].for # c) /\ replies' = replies
    BY <2>1 DEF Elems
  <2>2. CASE \E i \in DOMAIN replies : replies[i].for = c /\ replies' = RemoveAt(replies, i)
    <3>1. PICK k \in DOMAIN replies : replies[k].for = c /\ replies' = RemoveAt(replies, k)
      BY <2>2
    <3>2. /\ Elems(replies') \subseteq Elems(replies)
          /\ \A e \in Elems(replies) : e.for # c => e \in Elems(replies')
          /\ \A e \in Elems(replies') : e.for # c
      BY <1>2, <3>1, RemoveQueue
    <3>3. \A q, r : Ahead(replies, q, r) /\ q # replies[k] /\ r # replies[k] =>
             Ahead(replies', q, r)
      BY <1>2, <3>1, RemoveOrder
    <3>4. QED
      BY <3>1, <3>2, <3>3
  <2>3. QED
    BY <1>1, <2>1, <2>2
<1>13. \A e \in Elems(line) : e.for \in Callers \ {c} => e \in Elems(line')
  BY <1>3, <1>8
<1>14. QED
  BY <1>6, <1>9, <1>10, <1>11, <1>12, <1>13

\* Only replace_chunks is cancelled, of whose answers nothing else depends.
LEMMA CancelWrites ==
    ASSUME OneWriter, ConnectionInv, WritesInv, NEW c \in Callers, Cancel(c)
    PROVE  WritesInv'
<1>1. /\ call[c].method = "replace_chunks" /\ call' = [call EXCEPT ![c] = Idle]
      /\ UNCHANGED <<working, committed, cut>>
  BY DEF Cancel, dbVars
<1>2. /\ \A e \in Elems(line') : e.for \in Callers => e.for # c /\ e \in Elems(line)
      /\ \A e \in Elems(line) : e.for \in Callers \ {c} => e \in Elems(line')
      /\ CommitComes => \E f \in Elems(line') : f.do = "commit"
      /\ \A e, f \in Elems(line) :
            Ahead(line, f, e) /\ e.for \in Callers \ {c} /\ f.do = "commit" =>
               \E g \in Elems(line') : g.do = "commit" /\ Ahead(line', g, e)
      /\ \A e, f \in Elems(line) :
            Ahead(line, e, f) /\ e.for \in Callers \ {c} /\ f.for \in Callers \ {c} =>
               Ahead(line', e, f)
      /\ \A r \in Elems(replies') : r.for # c /\ r \in Elems(replies)
      /\ \A r \in Elems(replies) : r.for # c => r \in Elems(replies')
      /\ \A q, r \in Elems(replies) : Ahead(replies, q, r) /\ q.for # c /\ r.for # c =>
            Ahead(replies', q, r)
  BY CancelOrder
<1>3. /\ \A d \in Callers : d # c => call'[d] = call[d] /\ (Running(d)' <=> Running(d))
      /\ ~Running(c)' /\ Running(c)
  BY <1>1 DEF ConnectionInv, Typed, Running, Idle
<1>4. c = Worker
  BY <1>1, <1>3 DEF OneWriter, WritesInv, Own
<1>5. /\ \A r \in Elems(replies') : r.for \in Callers /\ call'[r.for] = call[r.for]
      /\ \A e \in Elems(line') : e.for \in Callers => call'[e.for] = call[e.for]
  BY <1>2, <1>3, UnderWay
<1>6. /\ \A q \in Elems(replies) : Created(q) \/ q.of \in {"deactivate", "activate"} => q.for # c
      /\ \A f \in Elems(line) : f.do = "activate" => f.for \in Callers \ {c}
  BY <1>1, WhoSends DEF Created
<1> DEFINE Still(q, of, a) == q.of = of /\ call'[q.for].arg # a
<1>7. /\ Elems(line)' = Elems(line') /\ Elems(replies)' = Elems(replies')
      /\ Untouched' = Untouched
      /\ \A x, y : Ahead(line, x, y)' = Ahead(line', x, y)
      /\ \A x, y : Ahead(replies, x, y)' = Ahead(replies', x, y)
      /\ \A v, t : Given(v, t, working, committed)' <=> Given(v, t, working, committed)
      /\ \A q : Created(q)' <=> Created(q)
      /\ \A f, a : Activates(f, a)' <=> Activates(f, a)
      /\ CommitComes' <=> \E f \in Elems(line') : f.do = "commit"
      /\ \A a : OusterNears(a)' <=> \E q \in Elems(replies') : Still(q, "deactivate", a)
  BY <1>1 DEF Untouched, Ahead, Elems, Ousts, OusterNears, CommitComes, Given, Has, Created,
              Activates
<1>8. \A q \in Elems(replies') : \A of, a : Still(q, of, a) <=> Ousts(q, of, a)
  BY <1>5 DEF Ousts
<1>9. \A a : OusterNears(a) => OusterNears(a)'
  BY <1>2, <1>6, <1>7, <1>8 DEF OusterNears, Ousts
<1> HIDE DEF Still
<1>10. Own'
  <2>1. \A d \in Callers : Running(d)' => call'[d] \in Workload[d]
    BY <1>3 DEF WritesInv, Own
  <2>2. \A e \in Elems(line') : e.for \in Callers => e.arg = call'[e.for].arg
    BY <1>2, <1>5 DEF WritesInv, Own
  <2>3. QED
    BY <1>3, <1>4, <1>7, <2>1, <2>2 DEF Own
<1>11. Assured'
  <2>1. \A e \in Elems(line') : e.for \in Untouched =>
           Given(call'[e.for], e.do, working, committed)
    BY <1>2, <1>5 DEF WritesInv, Assured, Untouched
  <2>2. \A r \in Elems(replies') : r.for \in Untouched =>
           \A t \in Follows(call'[r.for].method, r.of, r.says) :
              Given(call'[r.for], t, working, committed)
    BY <1>2, <1>5 DEF WritesInv, Assured
  <2>3. QED
    BY <1>1, <1>7, <2>1, <2>2 DEF Assured
<1>12. JobsOwed'
  <2>1. \A q \in Elems(replies) : Created(q) => q \in Elems(replies')
    BY <1>2, <1>6
  <2>2. QED
    BY <1>1, <1>2, <1>7, <2>1 DEF WritesInv, JobsOwed
<1>13. RollbackWaits'
  <2>1. ASSUME NEW e \in Elems(line'), e.for \in Untouched, e.do = "rollback",
               call'[e.for].method = "create_job"
        PROVE  \/ e.arg \in committed.jobs
               \/ \E f \in Elems(line') : f.do = "commit" /\ Ahead(line', f, e)
    <3>1. e \in Elems(line) /\ e.for \in Callers \ {c} /\ call[e.for].method = "create_job"
      BY <1>2, <1>5, <2>1 DEF Untouched
    <3>2. \/ e.arg \in committed.jobs
          \/ \E f \in Elems(line) : f.do = "commit" /\ Ahead(line, f, e)
      BY <2>1, <3>1 DEF WritesInv, RollbackWaits
    <3>3. QED
      BY <1>2, <3>1, <3>2
  <2>2. ASSUME NEW r \in Elems(replies'), r.for \in Untouched, r.of = "insert job",
               r.says = "error"
        PROVE  \/ call'[r.for].arg \in committed.jobs
               \/ CommitComes'
               \/ \E q \in Elems(replies') : Created(q) /\ Ahead(replies', q, r)
    <3>1. r \in Elems(replies) /\ r.for # c /\ call'[r.for] = call[r.for]
      BY <1>2, <1>5
    <3>2. \/ call[r.for].arg \in committed.jobs
          \/ CommitComes
          \/ \E q \in Elems(replies) : Created(q) /\ Ahead(replies, q, r)
      BY <2>2, <3>1 DEF WritesInv, RollbackWaits
    <3>3. QED
      BY <1>2, <1>6, <1>7, <3>1, <3>2
  <2>3. QED
    BY <1>1, <1>7, <2>1, <2>2 DEF RollbackWaits
<1>14. Succeeded'
  <2>1. ASSUME NEW r \in Elems(replies'), r.for \in Untouched, r.of = "activate",
               r.says = "ok"
        PROVE  \/ call'[r.for].arg \in working.active
               \/ \E q \in Elems(replies') :
                     Still(q, "deactivate", call'[r.for].arg) /\ Ahead(replies', r, q)
    <3>1. r \in Elems(replies) /\ r.for # c /\ call'[r.for] = call[r.for]
      BY <1>2, <1>5
    <3>2. \/ call[r.for].arg \in working.active
          \/ \E q \in Elems(replies) :
                Ousts(q, "deactivate", call[r.for].arg) /\ Ahead(replies, r, q)
      BY <2>1, <3>1 DEF WritesInv, Succeeded
    <3>3. \A q \in Elems(replies) : Ousts(q, "deactivate", call[r.for].arg) => q.for # c
      BY <1>6 DEF Ousts
    <3>4. QED
      BY <1>2, <1>8, <3>1, <3>2, <3>3
  <2>2. ASSUME NEW e \in Elems(line'), e.for \in Untouched, e.do = "commit",
               call'[e.for].method = "activate_model"
        PROVE  \/ e.arg \in working.active
               \/ OusterNears(e.arg)'
               \/ \E f \in Elems(line') : Activates(f, e.arg) /\ Ahead(line', e, f)
    <3>1. e \in Elems(line) /\ e.for \in Callers \ {c} /\ call[e.for].method = "activate_model"
      BY <1>2, <1>5, <2>2 DEF Untouched
    <3>2. \/ e.arg \in working.active
          \/ OusterNears(e.arg)
          \/ \E f \in Elems(line) : Activates(f, e.arg) /\ Ahead(line, e, f)
      BY <2>2, <3>1 DEF WritesInv, Succeeded
    <3>3. CASE e.arg \in working.active \/ OusterNears(e.arg)
      <4>1. \A a : OusterNears(a) => \E q \in Elems(replies') : Still(q, "deactivate", a)
        BY <1>7, <1>9
      <4>2. QED
        BY <1>7, <3>3, <4>1
    <3>4. CASE \E f \in Elems(line) : Activates(f, e.arg) /\ Ahead(line, e, f)
      BY <1>2, <1>6, <3>1, <3>4 DEF Activates
    <3>5. QED
      BY <3>2, <3>3, <3>4
  <2>3. ASSUME NEW r \in Elems(replies'), r.for \in Untouched, r.of = "commit",
               call'[r.for].method = "activate_model"
        PROVE  \/ call'[r.for].arg \in working.active \intersect committed.active
               \/ OusterNears(call[r.for].arg)'
               \/ \E f \in Elems(line') : Activates(f, call'[r.for].arg)
               \/ \E q \in Elems(replies') :
                     Still(q, "activate", call'[r.for].arg) /\ Ahead(replies', r, q)
    <3>1. r \in Elems(replies) /\ r.for # c /\ call'[r.for] = call[r.for]
      BY <1>2, <1>5
    <3>2. \/ call[r.for].arg \in working.active \intersect committed.active
          \/ OusterNears(call[r.for].arg)
          \/ \E f \in Elems(line) : Activates(f, call[r.for].arg)
          \/ \E q \in Elems(replies) :
                Ousts(q, "activate", call[r.for].arg) /\ Ahead(replies, r, q)
      BY <2>3, <3>1 DEF WritesInv, Succeeded
    <3>3. \A q \in Elems(replies) : Ousts(q, "activate", call[r.for].arg) => q.for # c
      BY <1>6 DEF Ousts
    <3>4. QED
      BY <1>2, <1>6, <1>7, <1>8, <1>9, <3>1, <3>2, <3>3 DEF Activates
  <2>4. QED
    BY <1>1, <1>7, <2>1, <2>2, <2>3 DEF Succeeded, Still, Ousts
<1>15. QED
  BY <1>10, <1>11, <1>12, <1>13, <1>14 DEF WritesInv

\* No call is under way at first.
LEMMA WritesStart == Init => WritesInv
<1> SUFFICES ASSUME Init
             PROVE  WritesInv
  OBVIOUS
<1>1. line = <<>> /\ replies = <<>> /\ call = [c \in Callers |-> Idle] /\ working = committed
  BY DEF Init
<1>2. Elems(line) = {} /\ Elems(replies) = {} /\ \A c \in Callers : ~Running(c)
  BY <1>1 DEF Elems, Running
<1>3. QED
  BY <1>1, <1>2, CallerAssumption DEF WritesInv, Own, Assured, JobsOwed, RollbackWaits, Succeeded

\* Every step keeps what the methods go by.
LEMMA WritesKept ==
    ASSUME OneWriter, NewPages, ConnectionInv, WritesInv, [Next]_vars
    PROVE  WritesInv'
<1>1. CASE Thread
  BY <1>1, ThreadOwn, ThreadAssured, ThreadJobsOwed, ThreadRollbackWaits, ThreadSucceeded
     DEF WritesInv
<1>2. CASE \E c \in Callers : \E w \in Workload[c] : Call(c, w)
  BY <1>2, CallWrites
<1>3. CASE \E c \in Callers : Continue(c)
  BY <1>3, ContinueWrites
<1>4. CASE \E c \in Callers : Return(c) \/ Raise(c)
  BY <1>4, EndWrites
<1>5. CASE \E c \in Callers : Cancel(c)
  BY <1>5, CancelWrites
<1>6. CASE UNCHANGED vars
  <2>1. UNCHANGED <<committed, working, call, line, replies, cut>>
    BY <1>6 DEF vars, dbVars
  <2>2. /\ Elems(line)' = Elems(line) /\ Elems(replies)' = Elems(replies)
        /\ Untouched' = Untouched /\ CommitComes' = CommitComes
        /\ \A c : Running(c)' = Running(c)
    BY <2>1 DEF Elems, Untouched, CommitComes, Running
  <2>3. Own'
    BY <2>1, <2>2 DEF WritesInv, Own
  <2>4. Assured'
    BY <2>1, <2>2 DEF WritesInv, Assured
  <2>5. JobsOwed'
    BY <2>1, <2>2 DEF WritesInv, JobsOwed
  <2>6. RollbackWaits'
    <3>1. \A x, y : /\ Ahead(line, x, y)' = Ahead(line, x, y)
                    /\ Ahead(replies, x, y)' = Ahead(replies, x, y)
      BY <2>1 DEF Ahead
    <3>2. QED
      BY <2>1, <2>2, <3>1 DEF WritesInv, RollbackWaits, Created
  <2>7. Succeeded'
    BY <2>1, <2>2 DEF WritesInv, Succeeded, Ahead, Ousts, OusterNears
  <2>8. QED
    BY <2>3, <2>4, <2>5, <2>6, <2>7 DEF WritesInv
<1>7. QED
  BY <1>1, <1>2, <1>3, <1>4, <1>5, <1>6 DEF Next, Thread

\* What a call that returns has given is in the database; if the model it
\* activated is not, another activation is under way.
LEMMA ReturnsKept ==
    ASSUME ConnectionInv, WritesInv, NEW c \in Untouched, Return(c)
    PROVE  Kept(call[c])
<1> DEFINE heard == Head(replies) w == call[c]
<1>1. Heard(c) /\ "return" \in Follows(w.method, heard.of, heard.says) /\ c \in Callers
  BY DEF Return, NextOf, Untouched
<1>2. /\ heard \in Elems(replies) /\ heard.for = c
      /\ Running(c) /\ w \in [method : Methods, arg : Args]
  BY <1>1, HeardOrder
<1>3. Given(w, "return", working, committed)
  BY <1>1, <1>2 DEF WritesInv, Assured
<1>4. Has(committed, w)
  BY <1>3 DEF Given
<1>5. CASE w.method # "activate_model"
  BY <1>2, <1>4, <1>5 DEF Has, Kept, Methods
<1>6. CASE w.method = "activate_model"
  <2>1. heard.of = "commit"
    <3> DEFINE m == w.method of == heard.of says == heard.says
    <3>1. m \in Methods /\ "return" \in Follows(m, of, says) /\ m = "activate_model"
      BY <1>1, <1>2, <1>6
    <3> HIDE DEF m, of, says
    <3>2. of = "commit"
      BY <3>1, NextSteps
    <3>3. QED
      BY <3>2 DEF of
  <2>2. \/ w.arg \in working.active \intersect committed.active
        \/ OusterNears(w.arg)
        \/ \E f \in Elems(line) : Activates(f, w.arg)
        \/ \E q \in Elems(replies) : Ousts(q, "activate", w.arg)
    BY <1>2, <1>6, <2>1 DEF WritesInv, Succeeded
  <2>3. ASSUME NEW q \in Elems(replies), NEW of \in {"deactivate", "activate"},
               Ousts(q, of, w.arg)
        PROVE  q.for \in Callers /\ call[q.for].method = "activate_model" /\ call[q.for] # w
    BY <2>3, UnderWay, WhoSends DEF Ousts
  <2>4. ASSUME NEW f \in Elems(line), Activates(f, w.arg)
        PROVE  f.for \in Callers /\ call[f.for].method = "activate_model" /\ call[f.for] # w
    BY <2>4, WhoSends DEF Activates, WritesInv, Own
  <2>5. \/ w.arg \in committed.active
        \/ \E d \in Callers : call[d].method = "activate_model" /\ call[d] # w
    BY <2>2, <2>3, <2>4 DEF OusterNears
  <2>6. QED
    BY <1>6, <2>5 DEF Kept
<1>7. QED
  BY <1>5, <1>6

\* A call that returns has its write in the database, or a later one, unless
\* another call was rolled back meanwhile (create_job and activate_model do so
\* when their INSERT or UPDATE fails): whatever the statements of other calls
\* in between, in the one transaction they share (sqlite_store.py, the writing
\* methods).  It goes by two things that the callers see to, OneWriter and
\* NewPages.
THEOREM WritesAreLostByRollback == OneWriter /\ NewPages /\ Spec => LostOnlyByRollback
<1>1. ASSUME ConnectionInv, WritesInv, [Next]_vars
      PROVE  [\A c \in Callers \ cut : Return(c) => Kept(call[c])]_vars
  BY <1>1, ReturnsKept DEF Untouched
<1>2. ASSUME OneWriter, NewPages, ConnectionInv, WritesInv, [Next]_vars
      PROVE  WritesInv'
  BY <1>2, WritesKept
<1>3. (OneWriter => OneWriter') /\ (NewPages => NewPages')
  BY DEF OneWriter, NewPages, Purged, Calls
<1>4. QED
  BY <1>1, <1>2, <1>3, ConnectionStarts, ConnectionKept, WritesStart, PTL
     DEF Spec, LostOnlyByRollback

-----------------------------------------------------------------------------
(* What is left behind.                                                    *)

\* A caller whose call has still to write chunks or to commit them.
Fills(c) ==
    /\ call[c].method = "replace_chunks"
    /\ \/ \E e \in Elems(line) : e.for = c
       \/ \E q \in Elems(replies) : q.for = c /\ q.of # "commit" /\ q.says # "error"

\* Nothing is uncommitted but chunks that somebody still writes, and those of
\* cancelled calls; or what somebody owes.
Differs(p) == p \in working.chunks <=> p \notin committed.chunks
Accounted(p) == p \in loose \/ \E c \in Callers : Fills(c) /\ call[c].arg = p
Tidy == Clean /\ \A p : Differs(p) => Accounted(p)

\* Whose a statement is, it is about what the call is about; the pages of
\* cancelled statements are loose.  Chunks have their page.
Addressed ==
    \A e \in Elems(line) : IF e.for = NoCaller THEN e.arg \in loose ELSE e.arg = call[e.for].arg
ChunksHavePages ==
    working.chunks \subseteq working.pages /\ committed.chunks \subseteq committed.pages

TidyInv == Addressed /\ ChunksHavePages /\ (Tidy \/ Owed)

\* A statement that is executed keeps chunks with their pages, and those of
\* replace_chunks change the chunks of their page.
LEMMA WrittenChunks ==
    ASSUME working \in Tables, working.chunks \subseteq working.pages,
           NEW s \in Writes, NEW a, ~Violates(s, a)
    PROVE  /\ Written(s, a).chunks \subseteq Written(s, a).pages
           /\ s \in {"delete chunks", "insert chunks"} =>
                 \A p : p # a => (p \in Written(s, a).chunks <=> p \in working.chunks)
<1>1. CASE s = "delete chunks"
  BY <1>1 DEF Written, Tables
<1>2. CASE s = "insert chunks"
  BY <1>2 DEF Written, Tables, Violates
<1>3. CASE s = "delete pages"
  BY <1>3 DEF Written, Tables
<1>4. CASE s = "insert page"
  BY <1>4 DEF Written, Tables
<1>5. CASE s \in {"insert job", "mark done", "insert rule", "upsert tombs", "deactivate",
                  "activate"}
  <2>1. Written(s, a).chunks = working.chunks /\ Written(s, a).pages = working.pages
    BY <1>5 DEF Written, Tables
  <2>2. QED
    BY <1>5, <2>1
<1>6. QED
  BY <1>1, <1>2, <1>3, <1>4, <1>5 DEF Writes

\* An answer that is neither of a commit nor an error leaves its caller filling.
LEMMA AnswerFills ==
    ASSUME ConnectionInv, Addressed, line # <<>>, NEW says \in {"ok", "error", "found"},
           Answer(says)
    PROVE  /\ \A e \in Elems(line') :
                 IF e.for = NoCaller THEN e.arg \in loose ELSE e.arg = call'[e.for].arg
           /\ \A c \in Callers : Fills(c) =>
                 \/ Fills(c)'
                 \/ c = Head(line).for /\ (Head(line).do = "commit" \/ says = "error")
           /\ \A c \in Callers :
                 /\ c = Head(line).for /\ call[c].method = "replace_chunks"
                 /\ Head(line).do # "commit" /\ says # "error"
                 => Fills(c)'
<1>1. /\ call' = call /\ Elems(line) = Elems(line') \union {Head(line)}
      /\ Elems(replies) \subseteq Elems(replies')
      /\ Head(line).for \in Callers => Elems(replies') = Elems(replies) \union {Reply(says)}
  BY Answered
<1>2. /\ Reply(says).for = Head(line).for /\ Reply(says).of = Head(line).do
      /\ Reply(says).says = says
  BY DEF Reply
<1>3. /\ Elems(line)' = Elems(line') /\ Elems(replies)' = Elems(replies')
      /\ NoCaller \notin Callers
  BY CallerAssumption DEF Elems
<1>4. ASSUME NEW c \in Callers, c = Head(line).for, call[c].method = "replace_chunks",
             Head(line).do # "commit", says # "error"
      PROVE  Fills(c)'
  BY <1>1, <1>2, <1>3, <1>4 DEF Fills
<1>5. ASSUME NEW c \in Callers, Fills(c)
      PROVE  \/ Fills(c)'
             \/ c = Head(line).for /\ (Head(line).do = "commit" \/ says = "error")
  <2>1. CASE \E q \in Elems(replies) : q.for = c /\ q.of # "commit" /\ q.says # "error"
    BY <1>1, <1>3, <1>5, <2>1 DEF Fills
  <2>2. CASE \E e \in Elems(line') : e.for = c
    BY <1>1, <1>3, <1>5, <2>2 DEF Fills
  <2>3. CASE Head(line).for = c
    BY <1>4, <1>5, <2>3 DEF Fills
  <2>4. QED
    BY <1>1, <1>5, <2>1, <2>2, <2>3 DEF Fills
<1>6. QED
  BY <1>1, <1>4, <1>5 DEF Addressed

\* A write that is refused has written nothing: an INSERT of chunks is refused
\* when the page is gone, and what it had deleted went with the page.
LEMMA RefusedTidy ==
    ASSUME ConnectionInv, TidyInv, Tidy, NEW s \in Writes, Write(s), Violates(s, Head(line).arg),
           Answer("error"), UNCHANGED working
    PROVE  Tidy'
<1> DEFINE head == Head(line)
<1>1. line # <<>> /\ head.do = s /\ UNCHANGED <<committed, loose>>
  BY DEF Write, First
<1>2. /\ call' = call /\ head \in Elems(line)
      /\ \A c \in Callers : Fills(c) => Fills(c)' \/ c = head.for
  <2>1. s # "commit"
    BY DEF Writes
  <2>2. QED
    BY <1>1, <2>1, AnswerFills, Answered DEF TidyInv
<1>3. Clean'
  BY <1>1 DEF Tidy, Clean
<1>4. ASSUME NEW p, Differs(p)', NEW c \in Callers, Fills(c), call[c].arg = p, c = head.for
      PROVE  FALSE
  <2>1. call[c].method = "replace_chunks" /\ head.arg = p
    BY <1>2, <1>4, CallerAssumption DEF Fills, TidyInv, Addressed
  <2>2. s \in {"delete chunks", "insert chunks", "commit"}
    BY <1>1, <1>2, <1>4, <2>1, UnderWay, ProgramEnds
  <2>3. p \notin working.pages
    BY <2>1, <2>2 DEF Violates
  <2>4. committed.pages = working.pages
    BY UnderWay DEF Tidy, Clean, Tables
  <2>5. p \notin working.chunks /\ p \notin committed.chunks
    BY <2>3, <2>4 DEF TidyInv, ChunksHavePages
  <2>6. QED
    BY <1>1, <1>4, <2>5 DEF Differs
<1>5. ASSUME NEW p, Differs(p)'
      PROVE  Accounted(p)'
  <2>1. Accounted(p)
    BY <1>1, <1>5 DEF Tidy, Differs
  <2>2. QED
    BY <1>1, <1>2, <1>4, <1>5, <2>1 DEF Accounted
<1>6. QED
  BY <1>3, <1>5 DEF Tidy

\* A statement of replace_chunks changes the chunks of the page of its call.
LEMMA ChunksTidy ==
    ASSUME ConnectionInv, TidyInv, Tidy, NEW s \in {"delete chunks", "insert chunks"}, Write(s),
           ~Violates(s, Head(line).arg), working' = Written(s, Head(line).arg), Answer("ok")
    PROVE  Tidy'
<1> DEFINE head == Head(line)
<1>1. line # <<>> /\ head.do = s /\ UNCHANGED <<committed, loose>> /\ s \in Writes
  BY DEF Write, First, Writes
<1>2. /\ call' = call /\ head \in Elems(line)
      /\ \A c \in Callers : Fills(c) => Fills(c)'
      /\ \A c \in Callers : c = head.for /\ call[c].method = "replace_chunks" => Fills(c)'
  BY <1>1, AnswerFills, Answered DEF TidyInv
<1>3. Clean'
  BY <1>1, UnderWay, ChunksStayClean DEF Tidy
<1>4. \A p : p # head.arg => (p \in working'.chunks <=> p \in working.chunks)
  BY <1>1, WrittenChunks, UnderWay DEF TidyInv, ChunksHavePages
<1>5. ASSUME NEW p, p = head.arg
      PROVE  Accounted(p)'
  <2>1. CASE head.for = NoCaller
    BY <1>1, <1>2, <1>5, <2>1 DEF TidyInv, Addressed, Accounted
  <2>2. CASE head.for # NoCaller
    <3>1. /\ head.for \in Callers /\ call[head.for].method \in Methods
          /\ s \in Issued(call[head.for].method) /\ head.arg = call[head.for].arg
      BY <1>1, <1>2, <2>2, UnderWay DEF TidyInv, Addressed
    <3>2. call[head.for].method = "replace_chunks"
      BY <3>1, Issuers
    <3>3. QED
      BY <1>1, <1>2, <1>5, <3>1, <3>2 DEF Accounted
  <2>3. QED
    BY <2>1, <2>2
<1>6. ASSUME NEW p, Differs(p)', p # head.arg
      PROVE  Accounted(p)'
  <2>1. Accounted(p)
    BY <1>1, <1>4, <1>6 DEF Tidy, Differs
  <2>2. QED
    BY <1>1, <1>2, <2>1 DEF Accounted
<1>7. \A p : Differs(p)' => Accounted(p)'
  BY <1>5, <1>6
<1>8. QED
  BY <1>3, <1>7 DEF Tidy

\* The thread's writes.
LEMMA WriteTidy ==
    ASSUME ConnectionInv, TidyInv, NEW s \in Writes, Write(s)
    PROVE  TidyInv'
<1>1. /\ line # <<>> /\ UNCHANGED <<committed, loose>>
      /\ \/ Violates(s, Head(line).arg) /\ Answer("error") /\ UNCHANGED working
         \/ /\ ~Violates(s, Head(line).arg) /\ working' = Written(s, Head(line).arg)
            /\ Answer("ok")
  BY DEF Write, First
<1>2. Addressed'
  <2>1. Elems(line)' = Elems(line')
    BY DEF Elems
  <2>2. QED
    BY <1>1, <2>1, AnswerFills DEF TidyInv, Addressed
<1>3. ChunksHavePages'
  BY <1>1, WrittenChunks, UnderWay DEF TidyInv, ChunksHavePages
<1>4. /\ Owed => Owed'
      /\ s \notin {"delete chunks", "insert chunks"} /\ ~Violates(s, Head(line).arg) => Owed'
  BY WriteKeeps
<1>5. Tidy => Tidy' \/ Owed'
  BY <1>1, <1>4, RefusedTidy, ChunksTidy
<1>6. QED
  BY <1>2, <1>3, <1>4, <1>5 DEF TidyInv

\* Reads and BEGIN write nothing; no replace_chunks sends them.
LEMMA ReadTidy ==
    ASSUME ConnectionInv, TidyInv, (\E s \in Reads : Read(s)) \/ Begin
    PROVE  TidyInv'
<1>1. PICK says \in {"ok", "error", "found"} :
         /\ line # <<>> /\ UNCHANGED <<committed, working, loose>> /\ Answer(says)
         /\ Head(line).do \in Reads \union {"begin"}
  BY DEF Read, Begin, First, dbVars
<1>2. /\ call' = call /\ Head(line) \in Elems(line)
      /\ \A e \in Elems(line') :
            IF e.for = NoCaller THEN e.arg \in loose ELSE e.arg = call'[e.for].arg
      /\ \A c \in Callers : Fills(c) => Fills(c)' \/ c = Head(line).for
  BY <1>1, AnswerFills, Answered DEF TidyInv
<1>3. \A c \in Callers : c = Head(line).for => call[c].method # "replace_chunks"
  BY <1>1, <1>2, UnderWay, ProgramEnds DEF Reads
<1>4. Addressed' /\ ChunksHavePages'
  <2>1. Elems(line)' = Elems(line')
    BY DEF Elems
  <2>2. QED
    BY <1>1, <1>2, <2>1 DEF TidyInv, Addressed, ChunksHavePages
<1>5. Tidy => Tidy'
  <2>1. \A c \in Callers : Fills(c) => Fills(c)'
    BY <1>2, <1>3 DEF Fills
  <2>2. QED
    BY <1>1, <1>2, <2>1 DEF Tidy, Clean, Differs, Accounted
<1>6. QED
  BY <1>4, <1>5, ReadKeeps DEF TidyInv

\* After a commit and after a rollback nothing differs.
LEMMA EndTidy ==
    ASSUME ConnectionInv, TidyInv, Commit \/ Rollback
    PROVE  TidyInv'
<1>1. /\ line # <<>> /\ Answer("ok") /\ working' = committed'
      /\ committed' \in {committed, working} /\ loose' = Adrift(Tail(line))
  BY DEF Commit, Rollback, First
<1>2. /\ line' = Tail(line) /\ Elems(line)' = Elems(line')
  BY <1>1 DEF Answer, Elems
<1>3. \A e \in Elems(line') : e.for = NoCaller => e.arg \in loose'
  BY <1>1, <1>2 DEF Elems, Adrift
<1>4. \A e \in Elems(line') : e.for # NoCaller => e.arg = call'[e.for].arg
  BY <1>1, AnswerFills DEF TidyInv
<1>5. Addressed'
  BY <1>2, <1>3, <1>4 DEF Addressed
<1>6. ChunksHavePages'
  BY <1>1 DEF TidyInv, ChunksHavePages
<1>7. Clean'
  BY <1>1, UnderWay DEF Clean, Tables
<1>8. Tidy'
  BY <1>1, <1>7 DEF Tidy, Differs
<1>9. QED
  BY <1>5, <1>6, <1>8 DEF TidyInv

\* A call that begins has written nothing.
LEMMA CallTidy ==
    ASSUME ConnectionInv, TidyInv, NEW c \in Callers, NEW w \in Workload[c], Call(c, w)
    PROVE  TidyInv'
<1>1. PICK s : line' = Append(line, [for |-> c, do |-> s, arg |-> w.arg])
  BY DEF Call, Issue
<1> DEFINE sent == [for |-> c, do |-> s, arg |-> w.arg]
<1>2. /\ ~Running(c) /\ call' = [call EXCEPT ![c] = w] /\ c # NoCaller
      /\ UNCHANGED <<committed, working, replies, loose>>
  BY CallerAssumption DEF Call, dbVars
<1>3. /\ \A e \in Elems(line) : e.for # c
      /\ \A q \in Elems(replies) : q.for # c
      /\ NoCaller \notin Callers
  BY <1>2, UnderWay
<1>4. /\ call'[c] = w /\ \A d \in Callers : d # c => call'[d] = call[d]
      /\ \A e \in Elems(line) : e.for = NoCaller \/ call'[e.for] = call[e.for]
  BY <1>2, <1>3, UnderWay DEF ConnectionInv, Typed
<1>5. Elems(line') = Elems(line) \union {sent}
  <2>1. DOMAIN line' = DOMAIN line \union {Len(line) + 1} /\ line'[Len(line) + 1] = sent
        /\ \A i \in DOMAIN line : line'[i] = line[i]
    BY <1>1 DEF ConnectionInv, Typed
  <2> HIDE DEF sent
  <2>2. QED
    BY <2>1 DEF Elems
<1>6. /\ Elems(line)' = Elems(line') /\ Elems(replies)' = Elems(replies)
      /\ sent.for = c /\ sent.arg = w.arg
  BY <1>2 DEF Elems
<1> HIDE DEF sent
<1>7. Addressed'
  <2>1. \A e \in Elems(line) :
           IF e.for = NoCaller THEN e.arg \in loose' ELSE e.arg = call'[e.for].arg
    BY <1>2, <1>4 DEF TidyInv, Addressed
  <2>2. QED
    BY <1>2, <1>4, <1>5, <1>6, <2>1 DEF Addressed
<1>8. Tidy => Tidy'
  <2>1. \A d \in Callers : Fills(d) => d # c
    BY <1>3 DEF Fills
  <2>2. \A d \in Callers : Fills(d) => Fills(d)' /\ call'[d] = call[d]
    BY <1>4, <1>5, <1>6, <2>1 DEF Fills
  <2>3. QED
    BY <1>2, <2>2 DEF Tidy, Clean, Differs, Accounted
<1>9. QED
  BY <1>2, <1>7, <1>8, CallKeeps DEF TidyInv, ChunksHavePages

\* A call that goes on still fills what it filled.
LEMMA ContinueTidy ==
    ASSUME ConnectionInv, TidyInv, NEW c \in Callers, Continue(c)
    PROVE  TidyInv'
<1>1. PICK s :
         Elems(line') = Elems(line) \union {[for |-> c, do |-> s, arg |-> call[c].arg]}
  BY Continued
<1> DEFINE sent == [for |-> c, do |-> s, arg |-> call[c].arg]
<1>2. /\ Heard(c) /\ UNCHANGED <<working, committed, call, loose>> /\ c # NoCaller
      /\ sent.for = c /\ sent.arg = call[c].arg
  BY CallerAssumption DEF Continue, dbVars
<1>3. /\ Elems(replies) = Elems(replies') \union {Head(replies)} /\ Head(replies).for = c
  BY <1>2, HeardOrder
<1>4. Elems(line)' = Elems(line') /\ Elems(replies)' = Elems(replies')
  BY DEF Elems
<1>5. Elems(line') = Elems(line) \union {sent}
  BY <1>1
<1> HIDE DEF sent
<1>6. Addressed'
  BY <1>2, <1>4, <1>5 DEF TidyInv, Addressed
<1>7. Tidy => Tidy'
  <2>1. \A d \in Callers : Fills(d) => Fills(d)'
    BY <1>2, <1>3, <1>4, <1>5 DEF Fills
  <2>2. QED
    BY <1>2, <2>1 DEF Tidy, Clean, Differs, Accounted
<1>8. QED
  BY <1>2, <1>6, <1>7, ContinueKeeps DEF TidyInv, ChunksHavePages

\* replace_chunks ends after its commit, or an INSERT that was refused.
LEMMA ReplaceEnds ==
    ASSUME NEW of, NEW says, Follows("replace_chunks", of, says) \intersect {"return", "raise"} # {}
    PROVE  of = "commit" \/ says = "error"
<1>1. PICK s \in {"return", "raise"} : s \in Follows("replace_chunks", of, says)
  OBVIOUS
<1>2. <<of, says, s>> \in Routes["replace_chunks"]
  BY <1>1, ProgramRoutes DEF Methods
<1>3. QED
  BY <1>1, <1>2 DEF Routes

\* A call that ends fills nothing any more.
LEMMA EndsTidy ==
    ASSUME ConnectionInv, TidyInv, NEW c \in Callers, Return(c) \/ Raise(c)
    PROVE  TidyInv'
<1>1. /\ Heard(c) /\ NextOf(c) \intersect {"return", "raise"} # {}
      /\ call' = [call EXCEPT ![c] = Idle] /\ UNCHANGED <<committed, working, line, loose>>
  BY DEF Return, Raise, dbVars
<1>2. /\ Elems(replies) = Elems(replies') \union {Head(replies)}
      /\ \A e \in Elems(line) : e.for # c
      /\ \A q \in Elems(replies') : q.for # c
  BY <1>1, HeardOrder
<1>3. /\ \A d \in Callers : d # c => call'[d] = call[d]
      /\ \A e \in Elems(line) : e.for = NoCaller \/ call'[e.for] = call[e.for]
  BY <1>1, <1>2, UnderWay DEF ConnectionInv, Typed
<1>4. Elems(line)' = Elems(line) /\ Elems(replies)' = Elems(replies')
  BY <1>1 DEF Elems
<1>5. Addressed'
  BY <1>1, <1>3, <1>4 DEF TidyInv, Addressed
<1>6. ~Fills(c)
  <2>1. ASSUME Fills(c)
        PROVE  FALSE
    <3>1. /\ call[c].method = "replace_chunks"
          /\ Head(replies).of # "commit" /\ Head(replies).says # "error"
      BY <1>2, <2>1 DEF Fills
    <3>2. QED
      BY <1>1, <3>1, ReplaceEnds DEF NextOf
  <2>2. QED
    BY <2>1
<1>7. Tidy => Tidy'
  <2>1. \A q \in Elems(replies) : q.for # c => q \in Elems(replies')
    <3>1. Head(replies).for = c
      BY <1>1, HeardOrder
    <3>2. QED
      BY <1>2, <3>1
  <2>2. \A d \in Callers : Fills(d) => d # c /\ Fills(d)' /\ call'[d] = call[d]
    BY <1>3, <1>4, <1>6, <2>1 DEF Fills
  <2>3. QED
    BY <1>1, <2>2 DEF Tidy, Clean, Differs, Accounted
<1>8. QED
  BY <1>1, <1>5, <1>7, EndsKeep DEF TidyInv, ChunksHavePages

\* What a cancelled call filled is loose.
LEMMA CancelTidy ==
    ASSUME ConnectionInv, TidyInv, NEW c \in Callers, Cancel(c)
    PROVE  TidyInv'
<1> DEFINE Nobodys(e) == IF e.for = c THEN [e EXCEPT !.for = NoCaller] ELSE e
<1>1. /\ call' = [call EXCEPT ![c] = Idle] /\ loose' = loose \union {call[c].arg}
      /\ line' = [i \in DOMAIN line |-> Nobodys(line[i])]
      /\ UNCHANGED <<committed, working>>
  BY DEF Cancel, dbVars
<1>2. /\ \A e \in Elems(line) : e.for \in Callers \ {c} => e \in Elems(line')
      /\ \A q \in Elems(replies) : q.for # c => q \in Elems(replies')
  BY CancelOrder
<1>3. \A d \in Callers : d # c => call'[d] = call[d]
  BY <1>1 DEF ConnectionInv, Typed
<1>4. /\ line \in Seq(Trips) /\ c # NoCaller /\ NoCaller \notin Callers
      /\ Elems(line)' = Elems(line') /\ Elems(replies)' = Elems(replies')
  BY CallerAssumption DEF ConnectionInv, Typed, Elems
<1>5. \A e \in Trips : /\ Nobodys(e).arg = e.arg
                       /\ Nobodys(e).for = IF e.for = c THEN NoCaller ELSE e.for
                       /\ e.for # c => Nobodys(e) = e
  BY DEF Trips
<1> HIDE DEF Nobodys
<1>6. \A e \in Elems(line') : \E f \in Elems(line) : f \in Trips /\ e = Nobodys(f)
  <2>1. DOMAIN line' = DOMAIN line /\ \A i \in DOMAIN line : line'[i] = Nobodys(line[i])
    BY <1>1, <1>4
  <2>2. \A i \in DOMAIN line : line[i] \in Trips
    BY <1>4
  <2>3. QED
    BY <2>1, <2>2 DEF Elems
<1>7. Addressed'
  <2>1. ASSUME NEW e \in Elems(line')
        PROVE  IF e.for = NoCaller THEN e.arg \in loose' ELSE e.arg = call'[e.for].arg
    <3>1. PICK f \in Elems(line) : f \in Trips /\ e = Nobodys(f)
      BY <1>6
    <3>2. CASE f.for = c
      BY <1>1, <1>4, <1>5, <3>1, <3>2 DEF TidyInv, Addressed
    <3>3. CASE f.for # c
      <4>1. f.for = NoCaller \/ f.for \in Callers
        BY UnderWay
      <4>2. QED
        BY <1>1, <1>3, <1>5, <3>1, <3>3, <4>1 DEF TidyInv, Addressed
    <3>4. QED
      BY <3>2, <3>3
  <2>2. QED
    BY <1>4, <2>1 DEF Addressed
<1>8. Tidy => Tidy'
  <2>1. \A d \in Callers : Fills(d) => d = c \/ (Fills(d)' /\ call'[d] = call[d])
    BY <1>2, <1>3, <1>4 DEF Fills
  <2>2. \A p : Accounted(p) => Accounted(p)'
    BY <1>1, <2>1 DEF Accounted
  <2>3. QED
    BY <1>1, <2>2 DEF Tidy, Clean, Differs
<1>9. QED
  BY <1>1, <1>7, <1>8, CancelKeeps DEF TidyInv, ChunksHavePages

\* Every step keeps the account of what is not committed.
LEMMA TidyKept == ConnectionInv /\ TidyInv /\ [Next]_vars => TidyInv'
<1> SUFFICES ASSUME ConnectionInv, TidyInv, [Next]_vars
             PROVE  TidyInv'
  OBVIOUS
<1>1. CASE \E s \in Writes : Write(s)
  BY <1>1, WriteTidy
<1>2. CASE (\E s \in Reads : Read(s)) \/ Begin
  BY <1>2, ReadTidy
<1>3. CASE Commit \/ Rollback
  BY <1>3, EndTidy
<1>4. CASE \E c \in Callers : \E w \in Workload[c] : Call(c, w)
  BY <1>4, CallTidy
<1>5. CASE \E c \in Callers : Continue(c)
  BY <1>5, ContinueTidy
<1>6. CASE \E c \in Callers : Return(c) \/ Raise(c)
  BY <1>6, EndsTidy
<1>7. CASE \E c \in Callers : Cancel(c)
  BY <1>7, CancelTidy
<1>8. CASE UNCHANGED vars
  <2>1. UNCHANGED <<committed, working, call, line, replies, loose>>
    BY <1>8 DEF vars, dbVars
  <2>2. Elems(line)' = Elems(line) /\ Elems(replies)' = Elems(replies)
    BY <2>1 DEF Elems
  <2>3. Owed' = Owed /\ Addressed' = Addressed /\ ChunksHavePages' = ChunksHavePages
    BY <2>1, <2>2 DEF Owed, Owing, Addressed, ChunksHavePages
  <2>4. Tidy' = Tidy
    BY <2>1, <2>2 DEF Tidy, Clean, Differs, Accounted, Fills
  <2>5. QED
    BY <2>3, <2>4 DEF TidyInv
<1>9. QED
  BY <1>1, <1>2, <1>3, <1>4, <1>5, <1>6, <1>7, <1>8 DEF Next

\* When no call is under way, the transaction that everybody shares holds
\* nothing that is not committed, but the chunks of the pages whose
\* replace_chunks was cancelled since the last commit or rollback: whatever the
\* calls were, however their statements interleaved, and whichever of them the
\* tables refused, an INSERT of chunks after its DELETE included
\* (sqlite_store.py, the writing methods).
THEOREM NothingIsLeft == Spec => []NothingLeftBehind
<1>1. ConnectionInv /\ TidyInv => NothingLeftBehind
  <2> SUFFICES ASSUME ConnectionInv, TidyInv, \A c \in Callers : ~Running(c)
               PROVE  Aside(working) = Aside(committed)
    BY DEF NothingLeftBehind
  <2>1. Elems(replies) = {} /\ \A e \in Elems(line) : e.for \notin Callers
    BY UnderWay
  <2>2. ~Owed /\ \A c \in Callers : ~Fills(c)
    BY <2>1 DEF Owed, Owing, Fills
  <2>3. Clean /\ \A p : Differs(p) => p \in loose
    BY <2>2 DEF TidyInv, Tidy, Accounted
  <2>4. working.chunks \ loose = committed.chunks \ loose
    BY <2>3 DEF Differs
  <2>5. QED
    BY <2>3, <2>4, UnderWay DEF Clean, Aside, Tables
<1>2. Init => TidyInv
  <2> SUFFICES ASSUME Init
               PROVE  TidyInv
    OBVIOUS
  <2>1. line = <<>> /\ working = committed /\ committed.chunks = committed.pages
    BY DEF Init
  <2>2. Elems(line) = {}
    BY <2>1 DEF Elems
  <2>3. Clean
    BY <2>1, ConnectionStarts DEF Clean, ConnectionInv, Typed, Tables
  <2>4. QED
    BY <2>1, <2>2, <2>3 DEF TidyInv, Addressed, ChunksHavePages, Tidy, Differs
<1>3. QED
  BY <1>1, <1>2, TidyKept, ConnectionStarts, ConnectionKept, PTL DEF Spec
=============================================================================

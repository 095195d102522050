------------------------------ MODULE PagesProofs ------------------------------
(***************************************************************************)
(* Theorems about the components that keep a page in its place, each for   *)
(* every value of the constants it is stated with.                         *)
(*                                                                         *)
(* ForgetTombstones: for every set of pages and ingest requests.  The      *)
(* invariant says what the worker may rely on at each of its places, since *)
(* only requests run beside it: a page in an index job is present or just  *)
(* forgotten, and the pages of a sweep are purged and, once counted,       *)
(* without texts but those that came too late.  Vectors without texts are  *)
(* torn, or the worker is about to delete them.                            *)
(*                                                                         *)
(* PageIdentity: for every set of clients, of batches and of targets.  The *)
(* invariant follows a submission from its look at the blacklist to its    *)
(* insert.                                                                 *)
(*                                                                         *)
(* PageSources: for every set of transcripts, descriptions and articles.   *)
(* The invariant says who will remove a directory, for as long as it is    *)
(* there.                                                                  *)
(***************************************************************************)
EXTENDS ForgetTombstones, PageIdentity, PageSources, TLAPS

IndexPcs == {"index", "chunked", "upserting", "upserted", "rolled", "raised", "cleaning"}
PurgePcs == {"purge", "purging", "purged", "recorded"}
SweepPcs == {"sweep", "verified", "reverted", "redriven"}
Pcs == {"idle"} \union IndexPcs \union PurgePcs \union SweepPcs

WorkerTyped ==
    worker \in [pc : Pcs, pages : SUBSET Pages, clean : SUBSET Pages, lying : SUBSET Pages]

WorkerKnows ==
    /\ worker.pc \in IndexPcs =>
          \A p \in worker.pages : Present(p) \/ tomb[p] = "pending"
    /\ worker.pc \in SweepPcs =>
          \A p \in worker.pages \union worker.clean \union worker.lying : row[p] = "purged"
    /\ worker.clean # {} => worker.pc = "sweep"

\* Pages counted without texts have none but those that came too late, and
\* vectors without texts are known to be torn, or about to be deleted.
CountKnows ==
    /\ worker.clean \intersect texts \subseteq missed
    /\ worker.clean \intersect vectors \subseteq torn
    /\ vectors \ texts \subseteq torn \union Halves

ForgetInv == WorkerTyped /\ WorkerKnows /\ CountKnows /\ StrayPointsTracked

IInv == TypeOK /\ ForgetInv

-----------------------------------------------------------------------------
\* Requests: the pages a forget purges get a pending tombstone in the same
\* commit, and no request takes a purged page back.
LEMMA RequestsKeep ==
    ASSUME IInv, Requests
    PROVE  IInv'
<1> USE DEF IInv, TypeOK, ForgetInv, CountKnows, Halves, At, tableVars
<1>1. ASSUME NEW c \in Ingests, NEW p \in Pages, IngestCheck(c, p)
      PROVE  IInv'
  BY <1>1 DEF IngestCheck, tombVars, ledgerVars, vectorVars, WorkerTyped, WorkerKnows,
              Present, StrayPointsTracked
<1>2. ASSUME NEW c \in Ingests, IngestInsert(c)
      PROVE  IInv'
  <2>1. ingest[c] \in Pages
    BY <1>2 DEF IngestInsert
  <2>2. QED
    BY <1>2, <2>1, NamesAssumption DEF IngestInsert, tombVars, ledgerVars, vectorVars,
       WorkerTyped, WorkerKnows, Present, StrayPointsTracked
<1>3. ASSUME NEW t \in Pages \union {Domain}, Forget(t)
      PROVE  IInv'
  <2> DEFINE ps == Matching(t)
  <2>1. ps \subseteq Pages /\ \A p \in ps : Present(p)
    BY DEF Matching
  <2>2. /\ row' = [p \in Pages |-> IF p \in ps THEN "purged" ELSE row[p]]
        /\ tomb' = [p \in Pages |-> IF p \in ps THEN "pending" ELSE tomb[p]]
        /\ stale' = stale \ ps
        /\ unsent' = IF ps = {} THEN unsent ELSE unsent \union {ps}
        /\ rules' = rules \union {t}
        /\ UNCHANGED <<ingest, ledgerVars, vectorVars, worker, used>>
    BY <1>3 DEF Forget, SetTombs
  <2> HIDE DEF ps
  <2>3. TypeOK'
    <3>1. ps = {} \/ ps \in Purges
      BY <2>1 DEF Purges
    <3>2. QED
      BY <2>2, <3>1 DEF vectorVars
  <2>4. WorkerTyped' /\ WorkerKnows' /\ CountKnows'
    BY <2>1, <2>2 DEF vectorVars, WorkerTyped, WorkerKnows, Present
  <2>5. StrayPointsTracked'
    BY <2>1, <2>2 DEF vectorVars, StrayPointsTracked
  <2>6. QED
    BY <2>3, <2>4, <2>5
<1>4. ASSUME NEW t \in Pages \union {Domain}, Unblacklist(t)
      PROVE  IInv'
  BY <1>4 DEF Unblacklist, tombVars, ledgerVars, vectorVars, WorkerTyped, WorkerKnows,
              Present, StrayPointsTracked
<1>5. ASSUME NEW ps \in Purges, EnqueuePurge(ps)
      PROVE  IInv'
  BY <1>5 DEF EnqueuePurge, tombVars, vectorVars, WorkerTyped, WorkerKnows,
              Present, StrayPointsTracked
<1>6. QED
  BY <1>1, <1>2, <1>3, <1>4, <1>5 DEF Requests

\* A thread that is left behind has one of the pages' tables before it.
LEMMA AbandonKeeps ==
    ASSUME IInv, NEW does \in {"store", "drop"}, NEW next \in {"texts", "vectors"},
           LeaveThread(does, next)
    PROVE  IInv'
<1>1. TypeOK /\ ForgetInv
  BY DEF IInv
<1>2. used \in [failures : Nat, crashes : Nat, lates : 0..MaxLates] /\ late \subseteq StoreThreads
  BY <1>1 DEF TypeOK
<1>3. worker.pages \subseteq Pages
  BY <1>1 DEF ForgetInv, WorkerTyped
<1>4. /\ used.lates < MaxLates
      /\ used' = [used EXCEPT !.lates = @ + 1]
      /\ late' = late \union {[id |-> used.lates + 1, does |-> does, next |-> next,
                                pages |-> worker.pages]}
      /\ worker' = IdleWorker
      /\ torn' = torn \union Halves
      /\ UNCHANGED <<row, rules, ingest, unsent, tomb, stale, texts, vectors, missed>>
  BY DEF LeaveThread, LeaveHalf, Rest, requestVars, tombVars
<1>5. used.lates + 1 \in 1..MaxLates
  BY <1>2, <1>4, BoundsAssumption
<1>6. used' \in [failures : Nat, crashes : Nat, lates : 0..MaxLates]
  BY <1>2, <1>4, <1>5
<1>7. late' \subseteq StoreThreads
  BY <1>2, <1>3, <1>4, <1>5 DEF StoreThreads
<1>8. Halves \subseteq Pages
  BY <1>3 DEF Halves
<1>9. TypeOK'
  BY <1>1, <1>4, <1>6, <1>7, <1>8 DEF TypeOK
<1>10. ForgetInv'
  BY <1>1, <1>4 DEF ForgetInv, IdleWorker, TypeOK, WorkerTyped, WorkerKnows, CountKnows, Halves, At,
         StrayPointsTracked, Pcs, IndexPcs, SweepPcs
<1>11. QED
  BY <1>9, <1>10 DEF IInv

LEMMA AbandonedKeep ==
    ASSUME IInv, IndexAbandoned \/ PurgeAbandoned
    PROVE  IInv'
<1>1. CASE LeaveThread("store", "texts")
  BY <1>1, AbandonKeeps
<1>2. CASE LeaveThread("store", "vectors")
  BY <1>2, AbandonKeeps
<1>3. CASE LeaveThread("drop", "texts")
  BY <1>3, AbandonKeeps
<1>4. CASE LeaveThread("drop", "vectors")
  BY <1>4, AbandonKeeps
<1>5. QED
  BY <1>1, <1>2, <1>3, <1>4 DEF IndexAbandoned, PurgeAbandoned

\* An index job: should its page be forgotten under its hands, the tombstone is
\* pending and stays so, because purge and sweep need the same worker.
LEMMA IndexKeeps ==
    ASSUME IInv, (\E p \in Pages : IndexBegin(p)) \/ IndexSteps
    PROVE  IInv'
<1> USE DEF IInv, TypeOK, ForgetInv, WorkerTyped, CountKnows, Halves, At,
            tableVars, Pcs, IndexPcs, PurgePcs, SweepPcs
<1>1. ASSUME NEW p \in Pages, IndexBegin(p)
      PROVE  IInv'
  BY <1>1 DEF IndexBegin, Indexing, Take, tombVars, ledgerVars, vectorVars, WorkerKnows,
              Present, StrayPointsTracked
<1>2. CASE IndexChunks \/ IndexRollup
  BY <1>2 DEF IndexChunks, IndexRollup, WriteOrRaise, Indexing, Go, tombVars, ledgerVars,
              vectorVars, WorkerKnows, Present, StrayPointsTracked
<1>3. CASE UpsertTexts
  BY <1>3 DEF UpsertTexts, Indexing, Go, tombVars, ledgerVars, WorkerKnows,
              Present, StrayPointsTracked
<1>4. CASE UpsertVectors
  BY <1>4 DEF UpsertVectors, Indexing, Go, tombVars, ledgerVars, WorkerKnows,
              Present, StrayPointsTracked
<1>5. CASE IndexFinish
  BY <1>5 DEF IndexFinish, Indexing, Rest, IdleWorker, tombVars, ledgerVars, vectorVars,
              WorkerKnows, Present, StrayPointsTracked
<1>6. CASE IndexRaises
  BY <1>6 DEF IndexRaises, Indexing, Go, tombVars, ledgerVars, vectorVars, WorkerKnows,
              Present, StrayPointsTracked
<1>7. CASE CleanTexts
  BY <1>7 DEF CleanTexts, DropTexts, Indexing, Go, tombVars, ledgerVars,
              WorkerKnows, Present, StrayPointsTracked
<1>8. CASE CleanVectors
  BY <1>8 DEF CleanVectors, DropVectors, Indexing, Rest, IdleWorker, tombVars, ledgerVars,
              WorkerKnows, Present, StrayPointsTracked
<1>9. CASE CleanBroken
  BY <1>9 DEF CleanBroken, LeaveHalf, Indexing, Rest, IdleWorker, tombVars, ledgerVars,
              WorkerKnows, Present, StrayPointsTracked
<1>10. CASE IndexCancelled
  BY <1>10 DEF IndexCancelled, Indexing, Rest, IdleWorker, tombVars, ledgerVars, vectorVars,
               WorkerKnows, Present, StrayPointsTracked
<1>11. CASE IndexAbandoned
  BY <1>11, AbandonedKeep
<1>12. QED
  BY <1>1, <1>2, <1>3, <1>4, <1>5, <1>6, <1>7, <1>8, <1>9, <1>10, <1>11 DEF IndexSteps

\* A purge job takes points away and moves tombstones to deleted, no further.
LEMMA PurgeKeeps ==
    ASSUME IInv, (\E ps \in Purges : PurgeBegin(ps)) \/ PurgeSteps
    PROVE  IInv'
<1> USE DEF IInv, TypeOK, ForgetInv, WorkerTyped, CountKnows, Halves, At,
            tableVars, Pcs, IndexPcs, PurgePcs, SweepPcs
<1>1. ASSUME NEW ps \in Purges, PurgeBegin(ps)
      PROVE  IInv'
  BY <1>1 DEF PurgeBegin, Purges, Take, requestVars, tombVars, vectorVars, WorkerKnows,
              Present, StrayPointsTracked
<1>2. CASE DeleteTexts
  BY <1>2 DEF DeleteTexts, DropTexts, Go, requestVars, tombVars, ledgerVars, WorkerKnows,
              Present, StrayPointsTracked
<1>3. CASE DeleteVectors
  BY <1>3 DEF DeleteVectors, DropVectors, Go, requestVars, tombVars, ledgerVars, WorkerKnows,
              Present, StrayPointsTracked
<1>4. CASE DeleteFails
  BY <1>4 DEF DeleteFails, LeaveHalf, Rest, IdleWorker, requestVars, tombVars, WorkerKnows,
              Present, StrayPointsTracked
<1>5. CASE PurgeAbandoned
  BY <1>5, AbandonedKeep
<1>6. CASE RecordDeleted
  BY <1>6 DEF RecordDeleted, SetTombs, Go, requestVars, ledgerVars, vectorVars, WorkerKnows,
              Present, StrayPointsTracked
<1>7. CASE PurgeDone
  BY <1>7 DEF PurgeDone, Rest, IdleWorker, requestVars, tombVars, vectorVars, WorkerKnows,
              Present, StrayPointsTracked
<1>8. QED
  BY <1>1, <1>2, <1>3, <1>4, <1>5, <1>6, <1>7 DEF PurgeSteps

\* A page counted without texts has no vectors either but torn ones.
LEMMA SweepCountKeeps ==
    ASSUME IInv, NEW p \in Pages, SweepCount(p)
    PROVE  IInv'
<1>1. TypeOK /\ WorkerTyped /\ WorkerKnows /\ CountKnows /\ StrayPointsTracked
  BY DEF IInv, ForgetInv
<1>2. /\ worker.pc = "sweep" /\ p \in worker.pages
      /\ worker' = IF p \in texts
                     THEN [worker EXCEPT !.pages = @ \ {p}, !.lying = @ \union {p}]
                     ELSE [worker EXCEPT !.pages = @ \ {p}, !.clean = @ \union {p}]
      /\ UNCHANGED <<row, rules, ingest, unsent, tomb, stale, texts, vectors, missed, torn,
                     late, used>>
  BY DEF SweepCount, Sweeping, At, requestVars, tombVars, vectorVars, tableVars
<1>3. /\ worker'.pc = worker.pc
      /\ worker'.pages = worker.pages \ {p}
      /\ worker'.clean = IF p \in texts THEN worker.clean ELSE worker.clean \union {p}
      /\ worker'.lying = IF p \in texts THEN worker.lying \union {p} ELSE worker.lying
      /\ WorkerTyped'
  BY <1>1, <1>2 DEF WorkerTyped
<1>4. TypeOK'
  BY <1>1, <1>2 DEF TypeOK
<1>5. WorkerKnows'
  BY <1>1, <1>2, <1>3 DEF WorkerKnows, Present, IndexPcs, SweepPcs
<1>6. Halves = {} /\ Halves' = {}
  BY <1>2, <1>3 DEF Halves, At
<1>7. CountKnows'
  BY <1>1, <1>2, <1>3, <1>6 DEF CountKnows
<1>8. StrayPointsTracked'
  BY <1>1, <1>2 DEF StrayPointsTracked
<1>9. QED
  BY <1>3, <1>4, <1>5, <1>7, <1>8 DEF IInv, ForgetInv

\* The sweep verifies only what it counted without texts, and collects only
\* what is verified.
LEMMA SweepKeeps ==
    ASSUME IInv, SweepList \/ SweepSteps
    PROVE  IInv'
<1> USE DEF IInv, TypeOK, ForgetInv, WorkerTyped, CountKnows, Halves, At,
            tableVars, Pcs, IndexPcs, PurgePcs, SweepPcs
<1>1. CASE SweepList
  BY <1>1 DEF SweepList, Sweeping, Tombs, Take, requestVars, tombVars, ledgerVars, vectorVars,
              WorkerKnows, Present, StrayPointsTracked
<1>2. ASSUME NEW p \in Pages, SweepCount(p)
      PROVE  IInv'
  BY <1>2, SweepCountKeeps
<1>3. CASE SweepVerify
  BY <1>3 DEF SweepVerify, Sweeping, SetTombs, requestVars, ledgerVars, vectorVars,
              WorkerKnows, Present, StrayPointsTracked
<1>4. CASE SweepRevert
  BY <1>4 DEF SweepRevert, Sweeping, SetTombs, Go, requestVars, ledgerVars, vectorVars,
              WorkerKnows, Present, StrayPointsTracked
<1>5. CASE SweepRedrive
  BY <1>5 DEF SweepRedrive, Sweeping, Go, requestVars, tombVars, vectorVars,
              WorkerKnows, Present, StrayPointsTracked
<1>6. CASE SweepCollect
  BY <1>6 DEF SweepCollect, Sweeping, SetTombs, Tombs, Rest, IdleWorker, requestVars, ledgerVars,
              vectorVars, WorkerKnows, Present, StrayPointsTracked
<1>7. QED
  BY <1>1, <1>2, <1>3, <1>4, <1>5, <1>6 DEF SweepSteps

\* StoreThreads that outlived their handler: what they store unseen is recorded.
LEMMA LateKeeps ==
    ASSUME IInv, NEW t \in late, LateTexts(t) \/ LateVectors(t)
    PROVE  IInv'
<1> USE DEF IInv, ForgetInv
<1>1. t \in StoreThreads /\ t.pages \subseteq Pages /\ [t EXCEPT !.next = "vectors"] \in StoreThreads
  BY DEF TypeOK, StoreThreads
<1>2. CASE LateTexts(t)
  <2>1. TypeOK'
    BY <1>1, <1>2 DEF LateTexts, requestVars, tombVars, ledgerVars, TypeOK
  <2>2. ForgetInv'
    BY <1>1, <1>2 DEF LateTexts, requestVars, tombVars, ledgerVars, TypeOK, Counted,
       WorkerTyped, WorkerKnows, Present, CountKnows, Halves, At, StrayPointsTracked, SweepPcs
  <2>3. QED
    BY <2>1, <2>2
<1>3. CASE LateVectors(t)
  <2>1. TypeOK'
    BY <1>1, <1>3 DEF LateVectors, requestVars, tombVars, ledgerVars, TypeOK
  <2>2. ForgetInv'
    BY <1>1, <1>3 DEF LateVectors, requestVars, tombVars, ledgerVars, TypeOK, Counted,
       WorkerTyped, WorkerKnows, Present, CountKnows, Halves, At, StrayPointsTracked, SweepPcs
  <2>3. QED
    BY <2>1, <2>2
<1>4. QED
  BY <1>2, <1>3

\* What runs beside everything: time and crashes.
LEMMA OthersKeep ==
    ASSUME IInv, (\E p \in Pages : TombstoneAges(p)) \/ Crash \/ UNCHANGED vars
    PROVE  IInv'
<1> USE DEF IInv, TypeOK, ForgetInv, WorkerTyped, CountKnows, Halves, At, tableVars,
            Pcs, IndexPcs, PurgePcs, SweepPcs
<1>1. ASSUME NEW p \in Pages, TombstoneAges(p)
      PROVE  IInv'
  BY <1>1 DEF TombstoneAges, requestVars, ledgerVars, vectorVars, WorkerKnows,
              Present, StrayPointsTracked
<1>2. CASE Crash
  BY <1>2 DEF Crash, LeaveHalf, Rest, IdleWorker, tombVars, WorkerKnows, Present,
              StrayPointsTracked
<1>3. CASE UNCHANGED vars
  BY <1>3 DEF vars, requestVars, tombVars, ledgerVars, vectorVars, WorkerKnows, Present,
              StrayPointsTracked
<1>4. QED
  BY <1>1, <1>2, <1>3

\* The points of a purged page are never left with no one to look for them,
\* whatever forgets, indexes, purges, sweeps, crashes or comes late, but for
\* what a thread stores after the sweep's count, and vectors the count cannot
\* know of because their texts are gone.
THEOREM StrayPointsKept == Spec => []StrayPointsTracked
<1>1. Init => IInv
  BY BoundsAssumption DEF Init, IInv, TypeOK, ForgetInv, WorkerTyped, Pcs, IndexPcs, SweepPcs,
         WorkerKnows, CountKnows, Halves, At, IdleWorker, StrayPointsTracked
<1>2. IInv /\ [Next]_vars => IInv'
  BY RequestsKeep, IndexKeeps, PurgeKeeps, SweepKeeps, LateKeeps, OthersKeep DEF Next
<1>3. IInv => StrayPointsTracked
  BY DEF IInv, ForgetInv
<1>4. QED
  BY <1>1, <1>2, <1>3, PTL DEF Spec

-----------------------------------------------------------------------------

Items == [url : Urls, body : {"none", "text", "html"}]
Somes(S) == {s \in Seq(S) : Len(s) > 0}
HostOf(u) == \E S : u.host \in Seq(S)
Places == {"blacklist", "domains", "lookup", "revisit", "insert"}
IdentityTyped ==
    /\ poster \in [Posters -> {NotPosting} \union
          [at : Places, items : Somes(Items), overtaken : BOOLEAN]]
    /\ \A p \in known : HostOf(p.url) /\ {"visits", "via", "url", "overtaken"} \subseteq DOMAIN p
    /\ \A rule \in blacklist : /\ rule.kind \in {"url", "domain"}
                               /\ rule.kind = "domain" => \E S : rule.pattern \in Seq(S)

\* Whom no rule rejects: a page, and the item of a client who has looked at
\* the rules, unless one came after that.
RejectedBy(kind, url) == \E rule \in blacklist : rule.kind = kind /\ FoundBy(rule, url)
Rejected(url) == RejectedBy("url", url) \/ RejectedBy("domain", url)
IdentityInv ==
    /\ IdentityTyped
    /\ \A p \in known : p.overtaken \/ ~Rejected(p.url)
    /\ \A c \in Posters, kind \in {"url", "domain"} :
         Looked(c, kind) => poster[c].overtaken \/ ~RejectedBy(kind, Url(c))

\* A host without its www. is still a sequence of labels.
LEMMA Stripped ==
    ASSUME NEW S, NEW host \in Seq(S)
    PROVE  strip_www(host) \in Seq(S)
<1>1. CASE Len(host) > 1
  <2>1. Tail(host) \in Seq(S)
    BY <1>1
  <2> QED
    BY <2>1 DEF strip_www
<1>2. CASE ~(Len(host) > 1)
  BY <1>2 DEF strip_www
<1> QED
  BY <1>1, <1>2

\* A canonical URL has a host, whatever its query becomes.
LEMMA CanonicalHost == \A u \in Urls : HostOf(canonicalize(u))
<1> SUFFICES ASSUME NEW u \in Urls
             PROVE  HostOf(canonicalize(u))
  OBVIOUS
<1> DEFINE bare == [u EXCEPT !.host = strip_www(@)]
           form == rewrite_to_watch(bare)
<1>1. bare.host \in Seq(STRING) /\ "host" \in DOMAIN bare
  <2>1. u.host \in Seq(STRING) /\ "host" \in DOMAIN u
    BY DEF Urls
  <2>2. bare.host = strip_www(u.host) /\ "host" \in DOMAIN bare
    BY <2>1
  <2> QED
    BY <2>1, <2>2, Stripped
<1>2. HostOf(form) /\ "host" \in DOMAIN form
  <2>1. Youtube \in Seq({"youtube", "com"})
    BY DEF Youtube
  <2> HIDE DEF bare
  <2>2. ASSUME NEW query
        PROVE  /\ [bare EXCEPT !.host = Youtube, !.path = <<"watch">>, !.query = query].host = Youtube
               /\ "host" \in DOMAIN [bare EXCEPT !.host = Youtube, !.path = <<"watch">>, !.query = query]
    BY <1>1
  <2>3. HostOf(bare)
    BY <1>1 DEF HostOf
  <2>4. ASSUME NEW w, w.host = Youtube
        PROVE  HostOf(w)
    BY <2>1, <2>4 DEF HostOf
  <2>5. \/ form = bare
        \/ \E query : form = [bare EXCEPT !.host = Youtube, !.path = <<"watch">>, !.query = query]
    BY DEF rewrite_to_watch
  <2> HIDE DEF form
  <2> QED
    BY <1>1, <2>2, <2>3, <2>4, <2>5
<1>3. canonicalize(u) = [form EXCEPT !.upper = FALSE, !.slash = FALSE, !.fragment = FALSE,
                 !.port = IF @ = DefaultPort[u.scheme] THEN 0 ELSE @,
                 !.query = canonical_query(form.host, form.query)]
  BY DEF canonicalize
<1> HIDE DEF form
<1>4. canonicalize(u).host = form.host
  BY <1>2, <1>3
<1> QED
  BY <1>2, <1>4 DEF HostOf

\* A rule that would reject a URL purges the pages of it: what is a suffix is
\* equal or shorter.
LEMMA SuffixIsShorter ==
    ASSUME NEW S, NEW s \in Seq(S), NEW T, NEW t \in Seq(T), IsSuffix(s, t)
    PROVE  s = t \/ Len(t) > Len(s)
<1> SUFFICES ASSUME Len(t) <= Len(s)
             PROVE  s = t
  OBVIOUS
<1>1. Reverse(s) \in Seq(S) /\ Reverse(t) \in Seq(T)
      /\ Len(Reverse(s)) = Len(s) /\ Len(Reverse(t)) = Len(t)
  BY DEF Reverse
<1>2. Len(s) = Len(t) /\ SubSeq(Reverse(s), 1, Len(s)) = SubSeq(Reverse(t), 1, Len(s))
  BY <1>1 DEF IsSuffix, IsPrefix
<1>3. ASSUME NEW i \in 1..Len(s)
      PROVE  s[i] = t[i]
  <2> DEFINE j == Len(s) - i + 1
  <2>1. j \in 1..Len(s) /\ Len(s) - j + 1 = i
    OBVIOUS
  <2>2. SubSeq(Reverse(s), 1, Len(s))[j] = Reverse(s)[j] /\ SubSeq(Reverse(t), 1, Len(s))[j] = Reverse(t)[j]
    BY <1>1, <1>2, <2>1
  <2>3. Reverse(s)[j] = s[i] /\ Reverse(t)[j] = t[i]
    BY <1>2, <2>1 DEF Reverse
  <2> QED
    BY <1>2, <2>2, <2>3
<1> QED
  BY <1>2, <1>3

\* The two readings of a rule: what add looks for, the purge finds.
LEMMA RejectedIsPurged ==
    ASSUME NEW rule, NEW p, HostOf(p.url), rule.kind # "url" => \E S : rule.pattern \in Seq(S),
           FoundBy(rule, p.url)
    PROVE  PurgedBy(rule, p)
  BY SuffixIsShorter DEF FoundBy, PurgedBy, domain_suffix_match, HostOf

\* What is left of a batch after an item is a batch, if it is not empty.
LEMMA RestOfBatch ==
    ASSUME NEW S, NEW s \in Somes(S), Len(s) # 1
    PROVE  Tail(s) \in Somes(S)
<1>0. s \in Seq(S) /\ Len(s) > 0
  BY DEF Somes
<1>3. Len(s) \in Nat
  BY <1>0
<1>1. Len(s) > 1
  <2>1. \A n \in Nat : n > 0 /\ n # 1 => n > 1
    OBVIOUS
  <2> QED
    BY <1>0, <1>3, <2>1
<1>2. Tail(s) \in Seq(S) /\ Len(Tail(s)) = Len(s) - 1
  BY <1>0, <1>1
<1> QED
  BY <1>0, <1>1, <1>2 DEF Somes

\* What the items of a client leave behind.
LEMMA NextItemTyped ==
    ASSUME IdentityTyped, NEW c \in Posters, ~Posting(c, "idle"), NextItem(c)
    PROVE  /\ poster' \in [Posters -> {NotPosting} \union
                [at : Places, items : Somes(Items), overtaken : BOOLEAN]]
           /\ ~(Looked(c, "url") \/ Looked(c, "domain"))'
           /\ \A d \in Posters : d # c => poster'[d] = poster[d]
<1> DEFINE New == IF Len(poster[c].items) = 1 THEN NotPosting
                  ELSE [at |-> "blacklist", items |-> Tail(poster[c].items), overtaken |-> FALSE]
<1>1. poster' = [poster EXCEPT ![c] = New]
  BY DEF NextItem
<1>2. poster[c].items \in Somes(Items)
  BY DEF IdentityTyped, Posting, NotPosting
<1>3. Len(poster[c].items) # 1 => Tail(poster[c].items) \in Somes(Items)
  BY <1>2, RestOfBatch
<1>4. New \in {NotPosting} \union [at : Places, items : Somes(Items), overtaken : BOOLEAN]
      /\ New.at \in {"idle", "blacklist"}
  BY <1>3 DEF NotPosting, Places
<1> HIDE DEF New
<1> QED
  BY <1>1, <1>4 DEF IdentityTyped, Posting, Looked

\* A client that stands at another place of the same item is still typed.
LEMMA StandsTyped ==
    ASSUME IdentityTyped, NEW c \in Posters, ~Posting(c, "idle"),
           NEW at \in Places \ {"blacklist"}, Stands(c, at)
    PROVE  /\ poster' \in [Posters -> {NotPosting} \union
                [at : Places, items : Somes(Items), overtaken : BOOLEAN]]
           /\ poster'[c].at = at /\ poster'[c].items = poster[c].items /\ poster'[c].overtaken = poster[c].overtaken
           /\ \A d \in Posters : d # c => poster'[d] = poster[d]
  BY DEF IdentityTyped, Posting, NotPosting, Stands

\* Who has not looked at the rules yet has nothing to fear from them.
LEMMA NextItemKeeps ==
    ASSUME IdentityInv, NEW c \in Posters, ~Posting(c, "idle"), NextItem(c),
           UNCHANGED blacklist,
           \A p \in known' : HostOf(p.url) /\ {"visits", "via", "url", "overtaken"} \subseteq DOMAIN p
                             /\ (p.overtaken \/ ~Rejected(p.url))
    PROVE  IdentityInv'
  BY NextItemTyped DEF IdentityInv, IdentityTyped, Posting, Rejected, RejectedBy, Looked, Url, Item

\* A step of an item that changes no page and no rule keeps the invariant if
\* nothing rejects the item.
LEMMA StandsKeeps ==
    ASSUME IdentityInv, NEW c \in Posters, ~Posting(c, "idle"), SamePages,
           NEW at \in Places \ {"blacklist"}, Stands(c, at),
           at # "revisit" => poster[c].overtaken \/ ~RejectedBy("url", Url(c)),
           at \in {"lookup", "insert"} => poster[c].overtaken \/ ~RejectedBy("domain", Url(c))
    PROVE  IdentityInv'
  BY StandsTyped DEF IdentityInv, IdentityTyped, Posting, Rejected, RejectedBy, Looked, Url, Item, SamePages

\* Nobody posts and no page is known.
LEMMA IdentityInvInit == IdentityInit => IdentityInv
  BY DEF IdentityInit, IdentityInv, IdentityTyped, Looked, Posting, NotPosting

\* A batch is taken up.
LEMMA AddKeeps ==
    ASSUME IdentityInv, NEW c \in Posters, NEW items \in Batches, AddPages(c, items)
    PROVE  IdentityInv'
<1>1. items \in Somes(Items)
  BY UrlsAssumption DEF Somes, Items
<1>2. poster' = [poster EXCEPT ![c] = [at |-> "blacklist", items |-> items, overtaken |-> FALSE]]
      /\ UNCHANGED <<known, blacklist>>
  BY DEF AddPages
<1>3. /\ poster' \in [Posters -> {NotPosting} \union
            [at : Places, items : Somes(Items), overtaken : BOOLEAN]]
      /\ poster'[c].at = "blacklist" /\ \A d \in Posters : d # c => poster'[d] = poster[d]
  BY <1>1, <1>2 DEF IdentityInv, IdentityTyped, Places
<1> QED
  BY <1>2, <1>3 DEF IdentityInv, IdentityTyped, Posting, Rejected, RejectedBy, Looked, Url, Item

\* The steps of an item: the rules are looked at before the page is looked up,
\* and that before it is inserted.
LEMMA ItemKeeps ==
    ASSUME IdentityInv, NEW c \in Posters,
           RejectItem(c) \/ FindUrlRule(c) \/ FindDomainRule(c) \/ GetPageByCanonicalUrl(c) \/ RecordRevisit(c) \/ InsertPage(c)
    PROVE  IdentityInv'
<1>1. ASSUME NEW s
      PROVE  (\A p \in s : HostOf(p.url) /\ {"visits", "via", "url", "overtaken"} \subseteq DOMAIN p
                              /\ (p.overtaken \/ ~Rejected(p.url)))
             <=> /\ \A p \in s : HostOf(p.url) /\ {"visits", "via", "url", "overtaken"} \subseteq DOMAIN p
                 /\ \A p \in s : p.overtaken \/ ~Rejected(p.url)
  OBVIOUS
<1>2. CASE RejectItem(c)
  BY <1>2, NextItemKeeps DEF RejectItem, Posting, SamePages, IdentityInv, IdentityTyped
<1>3. CASE FindUrlRule(c)
  <2>1. Posting(c, "blacklist") /\ SamePages
    BY <1>3 DEF FindUrlRule, FindRule
  <2>2. CASE RejectedBy("url", Url(c))
    <3>1. NextItem(c)
      BY <1>3, <2>2 DEF FindUrlRule, FindRule, RejectedBy
    <3> QED
      BY <2>1, <3>1, NextItemKeeps DEF Posting, SamePages, IdentityInv, IdentityTyped
  <2>3. CASE ~RejectedBy("url", Url(c))
    <3>1. Stands(c, "domains")
      BY <1>3, <2>3 DEF FindUrlRule, FindRule, RejectedBy
    <3> QED
      BY <2>1, <2>3, <3>1, StandsKeeps DEF Posting, Places
  <2> QED
    BY <2>2, <2>3
<1>7. CASE FindDomainRule(c)
  <2>1. Posting(c, "domains") /\ SamePages
    BY <1>7 DEF FindDomainRule, FindRule
  <2>2. CASE RejectedBy("domain", Url(c))
    <3>1. NextItem(c)
      BY <1>7, <2>2 DEF FindDomainRule, FindRule, RejectedBy
    <3> QED
      BY <2>1, <3>1, NextItemKeeps DEF Posting, SamePages, IdentityInv, IdentityTyped
  <2>3. CASE ~RejectedBy("domain", Url(c))
    <3>1. Stands(c, "lookup")
      BY <1>7, <2>3 DEF FindDomainRule, FindRule, RejectedBy
    <3>2. poster[c].overtaken \/ ~RejectedBy("url", Url(c))
      BY <2>1 DEF IdentityInv, Looked, Posting
    <3> QED
      BY <2>1, <2>3, <3>1, <3>2, StandsKeeps DEF Posting, Places
  <2> QED
    BY <2>2, <2>3
<1>4. CASE GetPageByCanonicalUrl(c)
  <2>1. Posting(c, "lookup") /\ SamePages
    BY <1>4 DEF GetPageByCanonicalUrl
  <2>2. \A kind \in {"url", "domain"} : poster[c].overtaken \/ ~RejectedBy(kind, Url(c))
    BY <2>1 DEF IdentityInv, Looked
  <2>3. Stands(c, "revisit") \/ Stands(c, "insert")
    BY <1>4 DEF GetPageByCanonicalUrl
  <2> QED
    BY <2>1, <2>2, <2>3, StandsKeeps DEF Posting, Places
<1>5. CASE RecordRevisit(c)
  <2>1. ASSUME NEW p \in known
        PROVE  LET q == [p EXCEPT !.visits = @ + 1] IN
               q.url = p.url /\ q.overtaken = p.overtaken /\ DOMAIN q = DOMAIN p
    BY DEF IdentityInv, IdentityTyped
  <2>2. \A q \in known' : \E p \in known : q.url = p.url /\ q.overtaken = p.overtaken /\ DOMAIN q = DOMAIN p
    BY <1>5, <2>1 DEF RecordRevisit
  <2>3. \A q \in known' : HostOf(q.url) /\ {"visits", "via", "url", "overtaken"} \subseteq DOMAIN q
                            /\ (q.overtaken \/ ~Rejected(q.url))
    BY <2>2 DEF IdentityInv, IdentityTyped, HostOf
  <2> QED
    BY <1>5, <2>3, NextItemKeeps DEF RecordRevisit, Posting
<1>6. CASE InsertPage(c)
  <2> DEFINE new == [url |-> Url(c), original |-> Item(c).url, visits |-> 1, overtaken |-> poster[c].overtaken,
                     via |-> IF Item(c).body = "none" THEN "none" ELSE "client"]
  <2>1. Item(c) \in Items
    BY <1>6 DEF InsertPage, Posting, IdentityInv, IdentityTyped, NotPosting, Item, Somes
  <2>2. HostOf(Url(c))
    BY <2>1, CanonicalHost DEF Url, Items
  <2>3. new.url = Url(c) /\ new.overtaken = poster[c].overtaken
        /\ {"visits", "via", "url", "overtaken"} \subseteq DOMAIN new
    OBVIOUS
  <2>4. new.overtaken \/ ~Rejected(new.url)
    BY <1>6, <2>3 DEF InsertPage, IdentityInv, Looked, Rejected
  <2>5. CASE \E p \in known : p.url = Url(c)
    <3>1. poster' = [poster EXCEPT ![c] = NotPosting] /\ known' = known /\ UNCHANGED blacklist
      BY <1>6, <2>5 DEF InsertPage
    <3>2. poster' \in [Posters -> {NotPosting} \union
             [at : Places, items : Somes(Items), overtaken : BOOLEAN]]
          /\ poster'[c].at = "idle" /\ \A d \in Posters : d # c => poster'[d] = poster[d]
      BY <3>1 DEF IdentityInv, IdentityTyped, NotPosting
    <3> QED
      BY <3>1, <3>2 DEF IdentityInv, IdentityTyped, Posting, Rejected, RejectedBy, Looked, Url, Item
  <2>6. CASE ~(\E p \in known : p.url = Url(c))
    <3> HIDE DEF new
    <3>1. known' = known \union {new} /\ NextItem(c) /\ UNCHANGED blacklist
      BY <1>6, <2>6 DEF InsertPage, new
    <3> QED
      BY <1>6, <2>2, <2>3, <2>4, <3>1, NextItemKeeps DEF InsertPage, Posting, IdentityInv, IdentityTyped
  <2> QED
    BY <2>5, <2>6
<1> QED
  BY <1>2, <1>3, <1>4, <1>5, <1>6, <1>7

\* A new rule purges what it rejects, and overtakes who has looked already.
LEMMA ForgetUrlKeeps ==
    ASSUME IdentityInv, NEW c \in Posters, NEW t \in Targets, ForgetUrl(c, t)
    PROVE  IdentityInv'
<1> DEFINE rule == [kind |-> t.kind, pattern |-> Pattern(t)]
<1>1. CASE ~Acceptable(t)
  BY <1>1 DEF ForgetUrl, IdentityInv, IdentityTyped, Posting, Rejected, RejectedBy, Looked, Url, Item
<1>2. CASE Acceptable(t)
  <2>1. t.url.host \in Seq(STRING)
    BY UrlsAssumption DEF Urls
  <2>2. rule.kind # "url" => \E S : rule.pattern \in Seq(S)
    BY <2>1, Stripped DEF Pattern, NormalizeDomain
  <2> HIDE DEF rule
  <2>3. /\ blacklist' = blacklist \union {rule}
        /\ known' = {p \in known : ~PurgedBy(rule, p)}
        /\ poster' = [d \in Posters |-> IF Looked(d, t.kind)
                                         THEN [poster[d] EXCEPT !.overtaken = TRUE] ELSE poster[d]]
    BY <1>2 DEF ForgetUrl, rule
  <2>4. \A p \in known' : p \in known /\ ~FoundBy(rule, p.url)
    BY <2>2, <2>3, RejectedIsPurged DEF IdentityInv, IdentityTyped
  <2>5. \A p \in known' : p.overtaken \/ ~Rejected(p.url)'
    BY <2>3, <2>4 DEF IdentityInv, Rejected, RejectedBy
  <2>6. ASSUME NEW d \in Posters
        PROVE  /\ poster'[d] \in {NotPosting} \union
                    [at : Places, items : Somes(Items), overtaken : BOOLEAN]
               /\ Looked(d, t.kind)' => poster'[d].overtaken
    <3>1. CASE Looked(d, t.kind)
      <4>1. poster[d] \in [at : Places, items : Somes(Items), overtaken : BOOLEAN]
        BY <3>1 DEF IdentityInv, IdentityTyped, Looked, Posting, NotPosting
      <4>2. poster'[d] = [poster[d] EXCEPT !.overtaken = TRUE]
        BY <2>3, <3>1
      <4> QED
        BY <4>1, <4>2
    <3>2. CASE ~Looked(d, t.kind)
      <4>1. poster'[d] = poster[d]
        BY <2>3, <3>2
      <4> QED
        BY <3>2, <4>1 DEF IdentityInv, IdentityTyped, Looked, Posting
    <3> QED
      BY <3>1, <3>2
  <2>7. rule.kind = t.kind /\ t.kind \in {"url", "domain"}
    BY UrlsAssumption DEF rule
  <2>8. IdentityTyped'
    BY <2>2, <2>3, <2>4, <2>6, <2>7 DEF IdentityInv, IdentityTyped
  <2>9. ASSUME NEW d \in Posters, NEW kind \in {"url", "domain"}, Looked(d, kind)'
        PROVE  poster'[d].overtaken \/ ~RejectedBy(kind, Url(d))'
    <3>1. CASE kind = t.kind
      BY <2>6, <2>9, <3>1
    <3>2. CASE kind # t.kind
      <4>1. RejectedBy(kind, Url(d)) <=> \E r \in blacklist' : r.kind = kind /\ FoundBy(r, Url(d))
        BY <2>3, <2>7, <3>2 DEF RejectedBy
      <4>2. poster'[d].overtaken \/ poster'[d] = poster[d]
        BY <2>3, <2>8 DEF IdentityInv, IdentityTyped, Looked, Posting, NotPosting
      <4>3. CASE poster'[d] = poster[d]
        BY <2>9, <4>1, <4>3 DEF IdentityInv, Looked, Posting, RejectedBy, Url, Item
      <4> QED
        BY <4>2, <4>3
    <3> QED
      BY <3>1, <3>2
  <2> QED
    BY <2>5, <2>8, <2>9 DEF IdentityInv
<1> QED
  BY <1>1, <1>2

\* Every step of a client or a request keeps it.
LEMMA IdentityInvStep == IdentityInv /\ [IdentityNext]_identityVars => IdentityInv'
<1> SUFFICES ASSUME IdentityInv, [IdentityNext]_identityVars
             PROVE  IdentityInv'
  OBVIOUS
<1> USE DEF IdentityInv, IdentityTyped, Posting, Rejected, RejectedBy, Looked, Url, Item
<1>1. CASE UNCHANGED identityVars
  BY <1>1 DEF identityVars
<1>2. ASSUME NEW c \in Posters, NEW rule \in blacklist, DeleteBlacklist(c, rule)
      PROVE  IdentityInv'
  BY <1>2 DEF DeleteBlacklist
<1>3. ASSUME NEW c \in Posters, NEW w \in Listings, CreateWatch(c, w)
      PROVE  IdentityInv'
  BY <1>3 DEF CreateWatch
<1>4. ASSUME NEW p \in known, FetchBody(p)
      PROVE  IdentityInv'
  <2> DEFINE q == [p EXCEPT !.via = RouteOf(p.original)]
  <2>1. q.url = p.url /\ q.overtaken = p.overtaken /\ DOMAIN q = DOMAIN p
    OBVIOUS
  <2> HIDE DEF q
  <2>2. known' = (known \ {p}) \union {q} /\ UNCHANGED <<blacklist, poster>>
    BY <1>4 DEF FetchBody, q
  <2>3. \A r \in known' : \E s \in known : r.url = s.url /\ r.overtaken = s.overtaken /\ DOMAIN r = DOMAIN s
    BY <2>1, <2>2
  <2> QED
    BY <2>2, <2>3 DEF HostOf
<1> HIDE DEF IdentityInv, IdentityTyped, Posting, Rejected, RejectedBy, Looked, Url, Item
<1> QED
  BY <1>1, <1>2, <1>3, <1>4, AddKeeps, ItemKeeps, ForgetUrlKeeps DEF IdentityNext

\* A rule rejects no page that is there, but for one whose client had looked
\* at the blacklist before the rule came: BlacklistService purges what the rule
\* matches with one reading of it, IngestService.add looks it up with another.
THEOREM NoPageRejected == IdentitySpec => []RulesHold
<1>1. IdentityInv => RulesHold
  BY DEF IdentityInv, IdentityTyped, RulesHold, Rejected, RejectedBy
<1> QED
  BY <1>1, IdentityInvInit, IdentityInvStep, PTL DEF IdentitySpec

-----------------------------------------------------------------------------

Fetching == fetching.at \notin {"idle", "done"}
HandlerTyped == "at" \in DOMAIN fetching /\ (Fetching => {"run", "outcome"} \subseteq DOMAIN fetching)

\* Who will remove a directory: a thread, or the handler that made it.
Removing == {t.run : t \in {u \in threads : u.does = "rmtree"}}
Held == IF fetching.at \in {"sound", "whisper", "rmtree"} THEN Mine ELSE {}
TempsHeld ==
    /\ temps \subseteq excused \union Removing \union Held
    /\ \A t \in threads : t.does # "rmtree" => t.run \in excused
SourcesInv == HandlerTyped /\ TempsHeld

\* Every step of the handler keeps its record a record, and what it holds.
LEMMA GoesKeeps ==
    ASSUME SourcesInv, Fetching, NEW at, NEW locals, Goes(at, locals),
           DOMAIN locals = DOMAIN fetching, locals.run = fetching.run,
           fetching.at \in {"sound", "whisper", "rmtree"} => at \in {"sound", "whisper", "rmtree"}
    PROVE  SourcesInv'
<1> USE DEF SourcesInv, HandlerTyped, Fetching
<1>1. fetching' = [locals EXCEPT !.at = at] /\ UNCHANGED <<article, temps, threads, excused, runs>>
  BY DEF Goes
<1>2. DOMAIN fetching' = DOMAIN fetching /\ fetching'.at = at /\ fetching'.run = fetching.run
  BY <1>1
<1>3. Held \subseteq Held'
  BY <1>2 DEF Held, Mine
<1>4. Removing' = Removing
  BY <1>1 DEF Removing
<1> QED
  BY <1>1, <1>2, <1>3, <1>4 DEF TempsHeld

\* A handler that is at rest holds no directory.
LEMMA RestKeeps ==
    ASSUME SourcesInv, fetching.at \notin {"sound", "whisper", "rmtree"},
           UNCHANGED <<temps, threads, excused>>,
           "at" \in DOMAIN fetching', Fetching' => {"run", "outcome"} \subseteq DOMAIN fetching'
    PROVE  SourcesInv'
<1>1. Removing' = Removing
  BY DEF Removing
<1>2. Held = {}
  BY DEF Held
<1> QED
  BY <1>1, <1>2 DEF SourcesInv, HandlerTyped, TempsHeld

\* A job that fails holding none leaves none.
LEMMA FailsKeeps ==
    ASSUME SourcesInv, fetching.at \notin {"sound", "whisper", "rmtree"}, JobFails
    PROVE  SourcesInv'
  BY RestKeeps DEF JobFails, Resting, Fetching

\* What wraps a body goes to the store, or fails if it is too short.
LEMMA WrappedKeeps ==
    ASSUME SourcesInv, Fetching, fetching.at \notin {"sound", "whisper", "rmtree"},
           NEW lines, NEW chapters, NEW sections, Wrapped(lines, chapters, sections)
    PROVE  SourcesInv'
<1> DEFINE body == [fetched |-> TRUE, length |-> LengthOf(lines), sections |-> sections,
                    lines |-> lines, chapters |-> chapters]
<1>1. CASE Goes("store", [fetching EXCEPT !.body = body])
  <2> HIDE DEF body
  <2> QED
    BY <1>1, GoesKeeps DEF SourcesInv, HandlerTyped
<1>2. CASE JobFails
  BY <1>2, FailsKeeps
<1> QED
  BY <1>1, <1>2 DEF Wrapped

\* The captions of a video fall back to its sound.
LEMMA FallBackKeeps ==
    ASSUME SourcesInv, Fetching, fetching.at \notin {"sound", "whisper", "rmtree"}, FallBack
    PROVE  SourcesInv'
  BY GoesKeeps DEF FallBack

\* The handler.
LEMMA HandlerKeeps ==
    ASSUME SourcesInv,
           \/ HandleFetchAndIndex \/ EpisodeTranscript \/ EpisodeChapters \/ Captions
           \/ MakeDirectory \/ DownloadSound \/ Transcribe \/ RemoveDirectory \/ WrapSound \/ Download
           \/ StoreBody \/ ChunkBody
    PROVE  SourcesInv'
<1> USE DEF Doing
<1>1. CASE HandleFetchAndIndex
  <2>1. {"run", "outcome", "at"} \subseteq DOMAIN fetching'
    BY <1>1 DEF HandleFetchAndIndex
  <2> QED
    BY <1>1, <2>1, RestKeeps DEF HandleFetchAndIndex
<1>2. CASE EpisodeTranscript
  <2>1. Fetching
    BY <1>2 DEF EpisodeTranscript, Fetching
  <2>2. ASSUME NEW lines, Goes("chapters", [fetching EXCEPT !.lines = Kept(Timed(lines))])
        PROVE  SourcesInv'
    <3> DEFINE kept == Kept(Timed(lines))
    <3> HIDE DEF kept
    <3>1. Goes("chapters", [fetching EXCEPT !.lines = kept])
      BY <2>2 DEF kept
    <3> QED
      BY <1>2, <2>1, <3>1, GoesKeeps DEF EpisodeTranscript, SourcesInv, HandlerTyped
  <2> QED
    BY <1>2, <2>1, <2>2, FallBackKeeps DEF EpisodeTranscript
<1>3. CASE EpisodeChapters
  <2>1. Fetching
    BY <1>3 DEF EpisodeChapters, Fetching
  <2> QED
    BY <1>3, <2>1, FallBackKeeps, WrappedKeeps DEF EpisodeChapters
<1>4. CASE Captions
  <2>1. Fetching
    BY <1>4 DEF Captions, Fetching
  <2>2. ASSUME NEW chapters, Goes("mkdtemp", [fetching EXCEPT !.chapters = chapters])
        PROVE  SourcesInv'
    BY <1>4, <2>1, <2>2, GoesKeeps DEF Captions, SourcesInv, HandlerTyped
  <2> QED
    BY <1>4, <2>1, <2>2, FailsKeeps, WrappedKeeps DEF Captions
<1>5. CASE MakeDirectory
  <2>1. /\ Fetching /\ DOMAIN fetching' = DOMAIN fetching
        /\ Held' = {fetching.run} /\ Held = {} /\ Removing' = Removing
    BY <1>5 DEF MakeDirectory, SourcesInv, HandlerTyped, Fetching, Held, Mine, Removing
  <2> QED
    BY <1>5, <2>1 DEF MakeDirectory, SourcesInv, HandlerTyped, TempsHeld
<1>6. ASSUME fetching.at \in {"sound", "whisper"}, FailSound
      PROVE  SourcesInv'
  BY <1>6, GoesKeeps DEF FailSound, Fetching, SourcesInv, HandlerTyped
<1>7. CASE DownloadSound
  BY <1>6, <1>7, GoesKeeps DEF DownloadSound, Fetching
<1>8. CASE Transcribe
  <2>1. ASSUME NEW lines, Goes("rmtree", [fetching EXCEPT !.outcome = "ok", !.lines = Segments(lines)])
        PROVE  SourcesInv'
    <3> DEFINE segments == Segments(lines)
    <3> HIDE DEF segments
    <3>1. Goes("rmtree", [fetching EXCEPT !.outcome = "ok", !.lines = segments])
      BY <2>1 DEF segments
    <3> QED
      BY <1>8, <3>1, GoesKeeps DEF Transcribe, Fetching, SourcesInv, HandlerTyped
  <2> QED
    BY <1>6, <1>8, <2>1 DEF Transcribe
<1>9. CASE RemoveDirectory
  <2>1. /\ Fetching /\ temps' = temps \ {fetching.run}
        /\ fetching' \in {[fetching EXCEPT !.at = "wrap"], Resting}
        /\ UNCHANGED <<threads, excused>>
    BY <1>9 DEF RemoveDirectory, Fetching
  <2>2. HandlerTyped'
    BY <2>1 DEF SourcesInv, HandlerTyped, Fetching, Resting
  <2>3. Held = {fetching.run} /\ Removing' = Removing
    BY <1>9, <2>1 DEF RemoveDirectory, Held, Mine, Removing
  <2> QED
    BY <2>1, <2>2, <2>3 DEF SourcesInv, TempsHeld
<1>10. CASE WrapSound
  <2>1. Fetching
    BY <1>10 DEF WrapSound, Fetching
  <2> QED
    BY <1>10, <2>1, WrappedKeeps DEF WrapSound
<1>11. CASE Download
  <2>1. Fetching
    BY <1>11 DEF Download, Fetching
  <2> QED
    BY <1>11, <2>1, WrappedKeeps, FailsKeeps DEF Download
<1>12. CASE StoreBody
  BY <1>12, RestKeeps DEF StoreBody, SourcesInv, HandlerTyped, Fetching
<1>13. CASE ChunkBody
  <2>1. fetching.at \notin {"sound", "whisper", "rmtree"}
    BY <1>13 DEF ChunkBody
  <2>2. CASE JobFails
    BY <2>1, <2>2, FailsKeeps
  <2>3. CASE fetching' = [at |-> "done"] /\ UNCHANGED <<temps, threads, excused, runs>>
    BY <2>1, <2>3, RestKeeps DEF Fetching
  <2> QED
    BY <1>13, <2>2, <2>3 DEF ChunkBody
<1> QED
  BY <1>1, <1>2, <1>3, <1>4, <1>5, <1>7, <1>8, <1>9, <1>10, <1>11, <1>12, <1>13

\* A cancellation, at whatever await it falls.
LEMMA CancelKeeps == SourcesInv /\ Cancel => SourcesInv'
<1> SUFFICES ASSUME SourcesInv, Cancel
             PROVE  SourcesInv'
  OBVIOUS
<1> USE DEF Doing, Abandon, Mine, Thread
<1>1. ASSUME fetching.at \notin {"sound", "whisper", "rmtree"}, fetching' = Resting, Abandon({}, {})
      PROVE  SourcesInv'
  BY <1>1, RestKeeps DEF Resting, Fetching
<1>2. ASSUME NEW does, NEW pardoned, fetching' = Resting, Abandon(does, pardoned),
             Held \subseteq pardoned \union {t.run : t \in {u \in does : u.does = "rmtree"}},
             \A t \in does : t.does # "rmtree" => t.run \in pardoned
      PROVE  SourcesInv'
  <2>1. HandlerTyped'
    BY <1>2 DEF HandlerTyped, Fetching, Resting
  <2>2. /\ Removing' = Removing \union {t.run : t \in {u \in does : u.does = "rmtree"}}
        /\ excused' = excused \union pardoned /\ temps' = temps /\ threads' = threads \union does
    BY <1>2 DEF Removing
  <2> QED
    BY <1>2, <2>1, <2>2 DEF SourcesInv, TempsHeld
<1>3. ASSUME fetching.at \in {"sound", "whisper"},
             fetching' = [fetching EXCEPT !.at = "rmtree", !.outcome = "cancelled"],
             NEW does, NEW pardoned, Abandon(does, pardoned),
             \A t \in does : t.does # "rmtree" /\ t.run \in pardoned
      PROVE  SourcesInv'
  <2>1. HandlerTyped' /\ Held' = Held
    BY <1>3 DEF SourcesInv, HandlerTyped, Fetching, Held
  <2>2. /\ Removing' = Removing /\ excused' = excused \union pardoned
        /\ temps' = temps /\ threads' = threads \union does
    BY <1>3 DEF Removing
  <2> QED
    BY <1>3, <2>1, <2>2 DEF SourcesInv, TempsHeld
<1>4. CASE Doing("mkdtemp") /\ fetching' = Resting
           /\ (Abandon({}, {}) \/ Abandon(Thread("mkdtemp"), Mine))
  <2>1. CASE Abandon({}, {})
    BY <1>1, <1>4, <2>1
  <2>2. CASE Abandon(Thread("mkdtemp"), Mine)
    <3> HIDE DEF Abandon
    <3> QED
      BY <1>2, <1>4, <2>2 DEF Held
  <2> QED
    BY <1>4, <2>1, <2>2
<1>5. CASE /\ Doing("sound")
           /\ fetching' = [fetching EXCEPT !.at = "rmtree", !.outcome = "cancelled"]
           /\ \/ Abandon({}, {})
              \/ article.origin = "video" /\ Abandon(Thread("write"), Mine)
  <2> HIDE DEF Abandon
  <2> QED
    BY <1>3, <1>5
<1>6. CASE /\ Doing("whisper")
           /\ fetching' = [fetching EXCEPT !.at = "rmtree", !.outcome = "cancelled"]
           /\ Abandon({}, {})
  <2> HIDE DEF Abandon
  <2> QED
    BY <1>3, <1>6
<1>7. CASE Doing("rmtree") /\ fetching' = Resting
           /\ (Abandon({}, Mine) \/ Abandon(Thread("rmtree"), {}))
  <2>1. Held = {fetching.run}
    BY <1>7 DEF Held
  <2>2. \A t \in Thread("rmtree") : t.does = "rmtree" /\ t.run = fetching.run
    OBVIOUS
  <2>5. \E t \in Thread("rmtree") : TRUE
    OBVIOUS
  <2> HIDE DEF Abandon, Thread
  <2>3. CASE Abandon({}, Mine)
    BY <1>2, <1>7, <2>1, <2>3
  <2>4. CASE Abandon(Thread("rmtree"), {})
    BY <1>2, <1>7, <2>1, <2>2, <2>4, <2>5
  <2> QED
    BY <1>7, <2>3, <2>4
<1> HIDE DEF Abandon, Mine, Thread
<1> QED
  BY <1>1, <1>4, <1>5, <1>6, <1>7 DEF Cancel

\* What an abandoned thread makes is excused, and what it removes is gone.
LEMMA ThreadKeeps ==
    ASSUME SourcesInv, NEW t \in threads, ThreadEnds(t)
    PROVE  SourcesInv'
<1>1. /\ UNCHANGED <<fetching, excused>> /\ threads' = threads \ {t}
      /\ \/ t.does = "rmtree" /\ temps' = temps \ {t.run}
         \/ t.does \in {"mkdtemp", "write"} /\ temps' \subseteq temps \union {t.run}
  BY DEF ThreadEnds
<1>2. HandlerTyped' /\ Held' = Held
  BY <1>1 DEF SourcesInv, HandlerTyped, Fetching, Held, Mine
<1>3. Removing \subseteq Removing' \union (IF t.does = "rmtree" THEN {t.run} ELSE {})
  BY <1>1 DEF Removing
<1> QED
  BY <1>1, <1>2, <1>3 DEF SourcesInv, TempsHeld

\* Every step of the handler, a cancellation and the threads keep it.
LEMMA SourcesInvStep == SourcesInv /\ [SourcesNext]_sourceVars => SourcesInv'
<1> SUFFICES ASSUME SourcesInv, [SourcesNext]_sourceVars
             PROVE  SourcesInv'
  OBVIOUS
<1>1. CASE UNCHANGED sourceVars
  BY <1>1 DEF sourceVars, SourcesInv, HandlerTyped, Fetching, TempsHeld, Removing, Held, Mine
<1> QED
  BY <1>1, HandlerKeeps, CancelKeeps, ThreadKeeps DEF SourcesNext

\* A temporary directory is one that its handler will remove, or a thread
\* that is still to run; or else a cancellation fell on the call that makes or
\* removes it, or on a download whose thread may make it again.
THEOREM DirectoriesAccounted == SourcesSpec => []TempsAccounted
<1>1. SourcesInit => SourcesInv
  BY DEF SourcesInit, SourcesInv, HandlerTyped, Fetching, Resting, TempsHeld
<1>2. SourcesInv => TempsAccounted
  BY DEF SourcesInv, TempsHeld, Removing, Held, TempsAccounted
<1> QED
  BY <1>1, <1>2, SourcesInvStep, PTL DEF SourcesSpec
================================================================================

----------------------------- MODULE Retrieval -----------------------------
(***************************************************************************)
(* Search and similarity: the pipeline of search_service.py, the           *)
(* mediations of similarity_service.py and their routes                    *)
(* (api/routes/search.py), await by await, over a corpus in two stores     *)
(* that someone else changes meanwhile.                                    *)
(*                                                                         *)
(* Both stores have writers of their own in other modules; here one change *)
(* happens meanwhile, commit by commit: a page is purged, or indexed, or   *)
(* indexed again, a cluster gives way to a new one, an entity is merged, a *)
(* model is activated or retired.  What only decorates a result, its       *)
(* texts, titles, scores and cluster, is left out.                          *)
(***************************************************************************)
EXTENDS Ranking, TLC

CONSTANTS
    Models,          \* embedding models, all of them ready
    First,           \* the one that is active
    Nearness,        \* per model and chunk, how near its vector is to the query
    Words,           \* per chunk, its BM25 score for the query, or 0
    Relevance,       \* per chunk, what the reranker says
    Kinship,         \* per page and page, the product of their vectors
    Membership,      \* per page, the probability of its cluster
    Waiting,         \* pages that are not indexed yet
    DomainOf, Age,   \* per page, the domain and how many half-lives ago it was
                     \* first seen, as the decay counts them
    SeenAt, Second,  \* per page, the tick it was first seen at; the ticks of a second
    About,           \* pairs of a page and an entity it mentions
    DomainLimit,     \* pinned pages of a bare domain
    MaxEntityPages,  \* _MAX_ENTITY_PAGES
    Requests,        \* bound: what a client may ask for
    Upheavals        \* bound: the pages that are purged or indexed, the models
                     \* that are activated or retired

ASSUME RetrievalAssumption ==
    /\ Second \in Nat \ {0}
    /\ \A p, q \in Pages : SeenAt[p] \in Nat \ {0} /\ (Age[p] < Age[q] => SeenAt[p] > SeenAt[q])

VARIABLES
    corpus,    \* what the two stores hold, and how often it has changed
    upheaval,  \* the change under way
    asking,    \* the request under way, with the locals of its coroutine
    shown      \* the answers given

retrievalVars == <<corpus, upheaval, asking, shown>>

NoLimit == 0
Nobody == 0
Idle == [at |-> "idle"]
Indexed(pages) == {p \in pages : corpus.status[p] = "indexed"}
ChunksOf(p) == {c \in Chunks : PageOf[c] = p}
Live(p) == corpus.home[p] \ corpus.buried
page_ids_for_entity(e) == {p \in Pages : <<p, e>> \in corpus.about}

RetrievalInit ==
    LET stored == {c \in Chunks : PageOf[c] \notin Waiting} IN
    /\ corpus = [status |-> [p \in Pages |-> IF p \in Waiting THEN "queued" ELSE "indexed"],
                 rows |-> stored, sparse |-> stored, dense |-> [m \in Models |-> stored],
                 pooled |-> [m \in Models |-> Pages \ Waiting],
                 space |-> Models, ready |-> Models, active |-> First,
                 home |-> [p \in Pages |-> IF p \in Waiting THEN {} ELSE {1}], buried |-> {},
                 about |-> {x \in About : x[1] \notin Waiting},
                 refers |-> [id |-> 1, alias |-> 1], version |-> 0]
    /\ upheaval = Idle
    /\ asking = Idle
    /\ shown = <<>>

-----------------------------------------------------------------------------
(* The coroutine of a request: a step is what happens between two awaits.  *)

At(where) == asking.at = where
Go(where, locals) ==
    /\ asking' = locals @@ ("at" :> where) @@ asking
    /\ UNCHANGED <<corpus, upheaval, shown>>

\* The answer, or the error, and what the properties ask of it: the corpus
\* before and after, and what the last filter and the last hydration saw.
Answer(outcome, locals) ==
    /\ shown' = Append(shown, locals @@ [outcome |-> outcome, ended |-> corpus.version] @@ asking)
    /\ asking' = Idle
    /\ UNCHANGED <<corpus, upheaval>>
Fail(error) == Answer(error, <<>>)

NoFilter == [domain |-> NoLimit, after |-> NoLimit, before |-> NoLimit, entity |-> "none", cluster |-> NoLimit]
Asked == asking.request
Fresh(r) ==
    [at |-> "model", request |-> r, began |-> corpus.version, results |-> <<>>,
     suggestions |-> <<>>, hydrated |-> <<>>, mode |-> "none",
     exact |-> <<>>, pages |-> Pages, done |-> {}, reranked |-> <<>>, fusion |-> <<>>]

Search(r) ==
    /\ asking = Idle /\ shown = <<>>
    /\ r.kind = "search"
    /\ asking' = Fresh(r)
    /\ UNCHANGED <<corpus, upheaval, shown>>

\* The client asks for the next slice of what it was shown.
SearchOn ==
    /\ asking = Idle /\ Len(shown) = 1 /\ shown[1].outcome = "ok"
    /\ shown[1].request.kind = "search" /\ shown[1].more
    /\ asking' = Fresh([shown[1].request EXCEPT !.offset = @ + shown[1].request.k])
    /\ UNCHANGED <<corpus, upheaval, shown>>

AfterEntity == IF Asked.filter.cluster # NoLimit THEN "filter_cluster" ELSE "exact"
ActiveModel ==
    /\ At("model")
    /\ Go(IF Asked.filter.entity # "none" THEN "filter_entity" ELSE AfterEntity,
          [model |-> corpus.active])

-----------------------------------------------------------------------------
(* _resolve_filters.                                                       *)

ResolveEntity ==
    /\ At("filter_entity")
    /\ LET e == corpus.refers[Asked.filter.entity] IN
       IF e = Nobody THEN Fail("no such entity") ELSE Go("mentions", [entity |-> e])

PagesForEntity ==
    /\ At("mentions")
    /\ LET matches == page_ids_for_entity(asking.entity) IN
       IF Cardinality(matches) > MaxEntityPages THEN Fail("too broad")
       ELSE Go(AfterEntity, [pages |-> matches])

\* A cluster that is unknown or tombstoned has no members to search.
GetCluster ==
    /\ At("filter_cluster")
    /\ IF Asked.filter.cluster \in UNION {Live(p) : p \in Pages}
       THEN Go("members", <<>>)
       ELSE Go("exact", [pages |-> {}])

ClusterMembers ==
    /\ At("members")
    /\ Go("exact", [pages |-> {p \in asking.pages : Asked.filter.cluster \in corpus.home[p]}])

\* StoreFilter.  A page is compared with the times as they are, its points
\* with whole seconds on both sides.
Epoch(tick, grain) == tick \div grain
Within(f, grain, p) ==
    /\ f.after = NoLimit \/ Epoch(SeenAt[p], grain) >= Epoch(f.after, grain)
    /\ f.before = NoLimit \/ Epoch(SeenAt[p], grain) < Epoch(f.before, grain)
Chosen(p) == Asked.filter.domain \in {NoLimit, DomainOf[p]} /\ p \in asking.pages
PageMatches(p) == Chosen(p) /\ Within(Asked.filter, 1, p)
PointMatches(c) == Chosen(PageOf[c]) /\ Within(Asked.filter, Second, PageOf[c])

-----------------------------------------------------------------------------
(* _exact_match_pages: a query that is a URL, or a bare domain.            *)

OfDomain(d) ==
    FirstOf(Descending({p \in Indexed(Pages) : DomainOf[p] = d}, [p \in Pages |-> -Age[p]]), DomainLimit)

ExactMatch ==
    /\ At("exact")
    /\ CASE Asked.text = "words" -> Go("embed", <<>>)
         [] Asked.text = "url" ->
              Go("embed", [exact |-> SelectSeq(<<Asked.target>>, LAMBDA p : p \in Indexed(Pages) /\ PageMatches(p))])
         [] Asked.text = "domain" ->
              Go(IF Asked.filter = NoFilter THEN "embed" ELSE "recheck",
                 [exact |-> OfDomain(DomainOf[Asked.target])])

ExactMatchRecheck ==
    /\ At("recheck")
    /\ Go("embed", [exact |-> SelectSeq(asking.exact, LAMBDA p : p \in Indexed(Pages) /\ PageMatches(p))])

Embed == At("embed") /\ (Go("arms", <<>>) \/ Fail("provider"))

-----------------------------------------------------------------------------
(* hybrid_query: both arms at once, each with the filter and the limit in  *)
(* the store; then the fusion.                                             *)

Admitted(points) == {c \in points : PointMatches(c)}

\* Mutant: the limit first, the filter after.
HitsCutFirst(points, score) ==
    SelectSeq(FirstOf(Descending(points, score), Candidates), PointMatches)

ArmHits(points, score) == FirstOf(Descending(Admitted(points), score), Candidates)

Matching == {c \in corpus.sparse : Words[c] > 0}

Cut(fusion) ==
    LET kept == FirstOf(Descending(DOMAIN fusion, fusion), Candidates) IN
    [c \in ToSet(kept) |-> fusion[c]]

Arm(name, hits) ==
    /\ At("arms") /\ name \notin asking.done
    /\ IF asking.done = {} THEN Go("arms", (name :> hits) @@ [done |-> {name}])
       ELSE LET both == (name :> hits) @@ asking
                fusion == Cut(rrf_fuse(both.dense, both.sparse))
            IN Go(IF Asked.rerank /\ fusion # <<>> THEN "texts" ELSE "pages",
                  (name :> hits) @@ [done |-> {}, fusion |-> fusion])

DenseArm ==
    /\ At("arms") /\ asking.model \in corpus.space
    /\ Arm("dense", ArmHits(corpus.dense[asking.model], Nearness[asking.model]))
SparseArm == Arm("sparse", ArmHits(Matching, Words))
ArmFails == At("arms") /\ Fail("store")

\* _rerank: chunks without a text keep the score of the fusion, and so do all
\* when the reranker fails.
RerankTexts == At("texts") /\ Go("rerank", [texts |-> DOMAIN asking.fusion \cap corpus.rows])
Scores == [c \in asking.texts |-> Unit * Relevance[c]]
Rerank == At("rerank") /\ Go("pages", [reranked |-> Scores, mode |-> "reranked"])
RerankFails == At("rerank") /\ Go("pages", [mode |-> "degraded"])

-----------------------------------------------------------------------------
(* _hydrate and the slice.                                                 *)

Ranked(alive, reranked) ==
    LET score == rollup_pages(asking.fusion, reranked, Asked.rollup)
        ages == [p \in alive \cap DOMAIN score |-> Age[p]]
    IN Descending(DOMAIN score, IF Asked.recency THEN apply_recency_decay(score, ages) ELSE score)

\* Pinned pages first, the others as they are ranked, if they are indexed.
Hydrated(alive, reranked) ==
    SelectSeq(asking.exact, LAMBDA p : p \in alive)
    \o SelectSeq(Ranked(alive, reranked), LAMBDA p : p \in alive \ ToSet(asking.exact))

\* Mutant: only the ranked pages are cut, the pinned ones come on top.
SliceRanked(hydrated) ==
    LET pinned == Len(SelectSeq(hydrated, LAMBDA p : Contains(asking.exact, p))) IN
    FirstOf(hydrated, pinned) \o
    SubSeq(hydrated, pinned + Asked.offset + 1, MinOf(Len(hydrated), Asked.offset + Asked.k))

Slice(hydrated) ==
    SubSeq(hydrated, Asked.offset + 1, MinOf(Len(hydrated), Asked.offset + Asked.k))

Suggest(results) == Asked.suggest > 0 /\ results # <<>>
Hydrate ==
    /\ At("pages")
    /\ LET alive == Indexed(ToSet(asking.exact) \union {PageOf[c] : c \in DOMAIN asking.fusion})
           hydrated == Hydrated(alive, asking.reranked)
           results == Slice(hydrated)
       IN Go(IF Suggest(results) THEN "source" ELSE "titles",
             [alive |-> alive, hydrated |-> hydrated, results |-> results,
              more |-> Len(hydrated) > Asked.offset + Asked.k]
             @@ (IF results # <<>> THEN [source |-> results[1]] ELSE <<>>)
             @@ [skip |-> ToSet(results)])

-----------------------------------------------------------------------------
(* similar(): the suggestions of a search, and the route of their own.     *)

Similar(r) ==
    /\ asking = Idle /\ shown = <<>>
    /\ r.kind = "similar"
    /\ asking' = [skip |-> {r.target}, source |-> r.target] @@ [at |-> "source"] @@ Fresh(r)
    /\ UNCHANGED <<corpus, upheaval, shown>>

\* A search survives whatever its suggestions meet.
Unavailable(error) ==
    IF Asked.kind = "search" THEN Go("titles", <<>>) ELSE Fail(error)

Top(score) ==
    [suggestions |-> FirstOf(Descending(DOMAIN score \ asking.skip, score), Asked.suggest)]

SimilarSource ==
    /\ At("source")
    /\ CASE corpus.status[asking.source] = "gone" -> Unavailable("no such page")
         [] corpus.status[asking.source] = "indexed" -> Go(Asked.mediation, <<>>)
         [] OTHER -> Go("titles", <<>>)

\* _vectors, for the mediations "vector" and "cluster".
SimilarModel == At("vector") /\ Go("vectors", [viewed |-> corpus.active])
PageVectors == At("vectors") /\ Go("vindexed", [vectors |-> corpus.pooled[asking.viewed]])

VectorsIndexed ==
    /\ At("vindexed")
    /\ LET known == Indexed(asking.vectors) IN
       IF Asked.mediation = "cluster" THEN Go("mindexed", [vectors |-> known])
       ELSE Go("titles", IF asking.source \in known
                         THEN Top([p \in known |-> Kinship[asking.source][p]]) ELSE <<>>)

\* _by_cluster: the other pages of its cluster, by their vectors where both
\* have one.
ClusterForPage ==
    /\ At("cluster")
    /\ IF Live(asking.source) = {} THEN Go("titles", <<>>)
       ELSE Go("kin", [home |-> Min(Live(asking.source))])

KinOfCluster ==
    /\ At("kin")
    /\ Go("vector", [kin |-> {p \in Pages : asking.home \in corpus.home[p]}])

RankMembers ==
    /\ At("mindexed")
    /\ Go("titles",
          Top([p \in Indexed(asking.kin) |->
                 IF {p, asking.source} \subseteq asking.vectors THEN Kinship[asking.source][p]
                 ELSE Membership[p]]))

\* _by_entity: weighted Jaccard over the entities of two pages, each of weight
\* one; Parts makes the quotients whole.
Entities == {x[2] : x \in About}
EntitiesOf(p) == {e \in Entities : <<p, e>> \in corpus.about}
Parts == ProductSet(1..Cardinality(Entities))

EntitiesForPage ==
    /\ At("entity")
    /\ LET topics == EntitiesOf(asking.source) IN
       IF topics = {} THEN Go("titles", <<>>)
       ELSE Go("sharing", [topics |-> topics, todo |-> topics, shared |-> [p \in Pages |-> 0]])

Sharing ==
    /\ At("sharing")
    /\ LET e == Min(asking.todo) IN
       Go(IF asking.todo = {e} THEN "eindexed" ELSE "sharing",
          [todo |-> asking.todo \ {e},
           shared |-> [p \in Pages |-> asking.shared[p] + (IF p \in page_ids_for_entity(e) THEN 1 ELSE 0)]])

Others(todo, weights) ==
    IF todo = {} THEN Go("titles", Top(weights)) ELSE Go("others", [todo |-> todo, weights |-> weights])
SharersIndexed ==
    /\ At("eindexed")
    /\ Others(Indexed({p \in Pages : asking.shared[p] > 0} \ asking.skip), <<>>)

UnionWeight ==
    /\ At("others")
    /\ LET p == Min(asking.todo)
           union == asking.shared[p] + Cardinality(EntitiesOf(p) \ asking.topics)
       IN Others(asking.todo \ {p}, asking.weights @@ (p :> (Parts \div union) * asking.shared[p]))

\* The titles of the suggestions: similar() leaves out what is gone by now.
Titles ==
    /\ At("titles")
    /\ IF Asked.kind = "search" THEN Answer("ok", <<>>)
       ELSE Answer("ok", [suggestions |-> SelectSeq(asking.suggestions, LAMBDA p : corpus.status[p] # "gone")])

Reads ==
    \/ \E r \in Requests : Search(r) \/ Similar(r)
    \/ SearchOn \/ ActiveModel \/ ResolveEntity \/ PagesForEntity \/ GetCluster \/ ClusterMembers
    \/ ExactMatch \/ ExactMatchRecheck \/ Embed \/ DenseArm \/ SparseArm \/ ArmFails
    \/ RerankTexts \/ Rerank \/ RerankFails \/ Hydrate
    \/ SimilarSource \/ SimilarModel \/ PageVectors \/ VectorsIndexed
    \/ ClusterForPage \/ KinOfCluster \/ RankMembers
    \/ EntitiesForPage \/ Sharing \/ SharersIndexed \/ UnionWeight \/ Titles

-----------------------------------------------------------------------------
(* Upheavals, commit by commit and table by table.                         *)

Change(next, changes) ==
    /\ upheaval' = next
    /\ corpus' = [version |-> corpus.version + 1] @@ changes @@ corpus
    /\ UNCHANGED <<asking, shown>>
Then(at) == [upheaval EXCEPT !.at = at]
Over == [at |-> "over"]
Without(p, perModel) == [m \in Models |-> perModel[m] \ p]
Status(p, status) == [status |-> [corpus.status EXCEPT ![p] = status]]

\* purge_and_blacklist, then delete_pages, table by table.
Purge(p) ==
    /\ upheaval = Idle /\ p \in Upheavals.purge
    /\ Change([at |-> "delete", page |-> p],
              Status(p, "gone") @@
              [rows |-> corpus.rows \ ChunksOf(p), pooled |-> Without({p}, corpus.pooled),
               home |-> [corpus.home EXCEPT ![p] = {}],
               about |-> {x \in corpus.about : x[1] # p}])

DeletePayload ==
    /\ upheaval.at = "delete"
    /\ Change(Then("delete_vectors"), [sparse |-> corpus.sparse \ ChunksOf(upheaval.page)])
DeleteVectors ==
    /\ upheaval.at = "delete_vectors"
    /\ Change(Over, [dense |-> Without(ChunksOf(upheaval.page), corpus.dense)])

\* A page is indexed, for the first time or by a job that is run again: its
\* chunks have the same ids each time.
Index(p) ==
    /\ upheaval = Idle /\ p \in Upheavals.index
    /\ Change([at |-> "replace", page |-> p], Status(p, "indexing"))

ReplaceChunks ==
    /\ upheaval.at = "replace"
    /\ Change(Then("upsert"), [rows |-> corpus.rows \union ChunksOf(upheaval.page)])
UpsertPayload ==
    /\ upheaval.at = "upsert"
    /\ Change(Then("upsert_vectors"), [sparse |-> corpus.sparse \union ChunksOf(upheaval.page)])
UpsertVectors ==
    /\ upheaval.at = "upsert_vectors"
    /\ Change(Then("pool"), [dense |-> [m \in Models |-> corpus.dense[m] \union
                                        (IF m \in corpus.space THEN ChunksOf(upheaval.page) ELSE {})]])
\* Of each model in turn; a request reads those of one.
PoolVectors ==
    /\ upheaval.at = "pool"
    /\ Change(Then("indexed"), [pooled |-> [m \in Models |-> corpus.pooled[m] \union
                                           (IF m \in corpus.ready THEN {upheaval.page} ELSE {})]])
SetIndexed == upheaval.at = "indexed" /\ Change(Over, Status(upheaval.page, "indexed"))
IndexingFails ==
    /\ upheaval.at \in {"replace", "upsert", "upsert_vectors", "pool"}
    /\ Change(Then("clear"), Status(upheaval.page, "failed"))
ClearArtifacts ==
    /\ upheaval.at = "clear"
    /\ Change(Then("delete"), [rows |-> corpus.rows \ ChunksOf(upheaval.page),
                               pooled |-> Without({upheaval.page}, corpus.pooled)])

\* The members of a new cluster are committed before the old one is buried.
Refit ==
    /\ upheaval = Idle
    /\ Change([at |-> "bury"],
              [home |-> [p \in Pages |-> IF corpus.home[p] = {} THEN {} ELSE corpus.home[p] \union {2}]])
Bury == upheaval.at = "bury" /\ Change(Over, [buried |-> {1}])

\* The first entity is merged into the second: its alias follows, its id is gone.
MergeAway ==
    /\ upheaval = Idle
    /\ Change(Over, [about |-> {IF x[2] = 1 THEN <<x[1], 2>> ELSE x : x \in corpus.about},
                     refers |-> [id |-> Nobody, alias |-> 2]])

Activate(m) == upheaval = Idle /\ m \in Upheavals.activate /\ m # corpus.active /\ Change(Over, [active |-> m])

\* Only a model that is not active is retired: the space first, then the row.
DropSpace(m) ==
    /\ upheaval = Idle /\ m \in Upheavals.retire /\ m # corpus.active
    /\ Change([at |-> "delete_model", model |-> m],
              [space |-> corpus.space \ {m}, dense |-> [corpus.dense EXCEPT ![m] = {}]])
DeleteModel ==
    /\ upheaval.at = "delete_model"
    /\ Change(Over, [ready |-> corpus.ready \ {upheaval.model},
                     pooled |-> [corpus.pooled EXCEPT ![upheaval.model] = {}]])

Upheaval ==
    \/ \E p \in Pages : Purge(p) \/ Index(p)
    \/ DeletePayload \/ DeleteVectors \/ ReplaceChunks \/ UpsertPayload \/ UpsertVectors
    \/ PoolVectors \/ SetIndexed \/ IndexingFails \/ ClearArtifacts
    \/ Refit \/ Bury \/ MergeAway
    \/ \E m \in Models : Activate(m) \/ DropSpace(m)
    \/ DeleteModel

-----------------------------------------------------------------------------
(* Properties.                                                             *)

Answered(kind) == {i \in DOMAIN shown : shown[i].request.kind = kind /\ shown[i].outcome = "ok"}
Calm(a) == a.began = a.ended
IsSet(s) == \A i, j \in DOMAIN s : i # j => s[i] # s[j]

\* The pages that a search is due while nothing changes: those of the pinned
\* URL or domain, and those with a point that an arm finds, if they are
\* indexed and pass the filter.  A page first seen in the very second of a
\* bound, before or after it, may be shown or not.
Passes(a, p) ==
    LET f == a.request.filter IN
    f.domain \in {NoLimit, DomainOf[p]} /\ p \in a.pages /\ Within(f, 1, p)
OnTheEdge(a) ==
    LET bounds == {a.request.filter.after, a.request.filter.before} \ {NoLimit} IN
    {p \in Pages : \E t \in bounds : Epoch(SeenAt[p], Second) = Epoch(t, Second)}
PointsFor(a) ==
    {c \in corpus.dense[a.model] \union Matching : Passes(a, PageOf[c]) \/ PageOf[c] \in OnTheEdge(a)}
Due(a) == ToSet(a.exact) \union Indexed({p \in {PageOf[c] : c \in PointsFor(a)} : Passes(a, p)})

\* What a search shows: no page twice, none as a suggestion that is a result
\* already, the pasted URL first, and nothing the filter excludes, but for an
\* unpinned page first seen in the second of a bound; and, while nothing
\* changes and the candidates suffice for what the filter admits, every page
\* that is due and, off the edge, no other (search_service.py:197-264, 344-353,
\* 389-458; lancedb_store.py:63-64, 78-81; "first-class filters, pushed into the
\* vector store").
SearchAnswers ==
    \A i \in Answered("search") :
        LET a == shown[i] IN
        /\ IsSet(a.hydrated) /\ IsSet(a.results) /\ IsSet(a.suggestions)
        /\ ToSet(a.results) \cap ToSet(a.suggestions) = {}
        /\ \A j \in DOMAIN a.results :
              \/ Passes(a, a.results[j])
              \/ a.results[j] \in OnTheEdge(a) \ ToSet(a.exact)
                 /\ Passes([a EXCEPT !.request.filter.after = NoLimit, !.request.filter.before = NoLimit],
                           a.results[j])
        /\ Calm(a) /\ a.ended = corpus.version =>
              /\ Cardinality(PointsFor(a)) <= Candidates =>
                    ToSet(a.hydrated) \ OnTheEdge(a) = Due(a) \ OnTheEdge(a)
              /\ a.request.text = "url" /\ a.request.target \in Due(a) => a.hydrated[1] = a.request.target
              /\ \A j \in DOMAIN a.suggestions : corpus.status[a.suggestions[j]] = "indexed"

\* Two slices of one ranking do not overlap and leave nothing out between
\* them, pinned pages included, and the first tells whether there is a second
\* (search_service.py:239-241), if nothing changes and the reranker answers
\* both times or neither.
SlicesTile ==
    LET a == shown[1]  b == shown[2] IN
    Answered("search") = {1, 2} /\ a.began = b.ended /\ a.mode = b.mode =>
        /\ b.results # <<>>
        /\ a.results \o b.results = FirstOf(a.hydrated, b.request.offset + b.request.k)
        /\ b.more <=> Len(a.hydrated) > Len(a.results) + Len(b.results)
=============================================================================

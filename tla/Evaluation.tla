----------------------------- MODULE Evaluation -----------------------------
(***************************************************************************)
(* The services that judge retrieval: /v1/compare, one query under several *)
(* models (compare_service.py); the replay of a query under two arms       *)
(* (eval_service.py and the job of admin_eval.py); and the lift of the     *)
(* reranker, computed from the log of a search.                            *)
(*                                                                         *)
(* Both are further requests of Retrieval, over the same corpus and its    *)
(* upheavals.                                                              *)
(***************************************************************************)
EXTENDS Retrieval

-----------------------------------------------------------------------------
(* An arm: a model, with or without the reranker.                          *)

ArmOf == asking.todo[1]
Compare(r) ==
    /\ asking = Idle /\ shown = <<>>
    /\ r.kind \in {"compare", "replay"}
    /\ asking' = [at |-> IF r.kind = "replay" THEN "active" ELSE "check", todo |-> r.arms, arms |-> <<>>] @@ Fresh(r)
    /\ UNCHANGED <<corpus, upheaval, shown>>

\* handle_job of a replay: an arm without a model is one of the active model.
ReplayActive ==
    /\ At("active")
    /\ Go("check", [todo |-> [i \in DOMAIN asking.todo |->
           IF asking.todo[i].model = "none" THEN [asking.todo[i] EXCEPT !.model = corpus.active]
           ELSE asking.todo[i]]])

\* A comparison checks all its models first, a replay each one in its turn.
CheckModel ==
    /\ At("check")
    /\ IF ArmOf.model \notin corpus.ready THEN Fail("model not comparable")
       ELSE IF Asked.kind = "replay" THEN Go("sparse", <<>>)
       ELSE IF Len(asking.todo) > 1 THEN Go("check", [todo |-> Tail(asking.todo)])
       ELSE Go("sparse", [todo |-> Asked.arms])

\* The sparse arm, once for a comparison and once per arm of a replay.
ArmSparse == At("sparse") /\ Go("require", [sparse |-> ArmHits(Matching, Words)])

\* _execute_arm.  A model that is retired by now is an error, and so is its
\* space, or the provider.
RequireModel ==
    /\ At("require")
    /\ IF ArmOf.model \in corpus.ready THEN Go("encode", <<>>) ELSE Fail("no such model")
EmbedArm == At("encode") /\ (Go("nearest", <<>>) \/ Fail("provider"))
ArmDense ==
    /\ At("nearest")
    /\ IF ArmOf.model \notin corpus.space THEN Fail("store")
       ELSE LET dense == ArmHits(corpus.dense[ArmOf.model], Nearness[ArmOf.model])
                fusion == Cut(rrf_fuse(dense, asking.sparse))
            IN Go(IF ArmOf.rerank /\ fusion # <<>> THEN "chunks" ELSE "rank",
                  [dense |-> dense, fusion |-> fusion, reranked |-> <<>>])

\* _rerank_scores; unlike in a search, a reranker that fails fails the request.
ArmTexts ==
    /\ At("chunks")
    /\ LET texts == DOMAIN asking.fusion \cap corpus.rows IN
       Go(IF texts = {} THEN "rank" ELSE "judge", [texts |-> texts])
ArmRerank == At("judge") /\ (Go("rank", [reranked |-> Scores]) \/ Fail("reranker"))

\* Mutant: the next arm of a comparison reads the sparse arm again.
NextArmAnew == "sparse"

NextArm == IF Asked.kind = "replay" THEN "check" ELSE "require"

\* _log_arm, and what the answer tells: a replay answers only, and logs nothing.
LoggedArm(ranked) ==
    [model |-> ArmOf.model, dense |-> asking.dense, sparse |-> asking.sparse,
     texts |-> DOMAIN asking.reranked, ranked |-> ranked]

\* _rank_pages: cut to k, then only the pages that are indexed.
RankPages ==
    /\ At("rank")
    /\ LET score == rollup_pages(asking.fusion, asking.reranked, "max")
           ranked == SelectSeq(FirstOf(Descending(DOMAIN score, score), Asked.k),
                               LAMBDA p : p \in Indexed(Pages))
           arms == Append(asking.arms, LoggedArm(ranked))
       IN IF Len(asking.todo) > 1 THEN Go(NextArm, [arms |-> arms, todo |-> Tail(asking.todo)])
          ELSE Answer("ok", [arms |-> arms])

Evaluates ==
    \/ \E r \in Requests : Compare(r)
    \/ ReplayActive \/ CheckModel \/ ArmSparse \/ RequireModel \/ EmbedArm \/ ArmDense
    \/ ArmTexts \/ ArmRerank \/ RankPages

-----------------------------------------------------------------------------
(* What is made of the rankings.                                           *)

\* PairAgreement of two arms.
agreement(a, b, k) ==
    [jaccard |-> jaccard_at_k(a, b, k), rbo |-> rbo_ext(a, b), tau |-> kendall_tau_intersection(a, b),
     size |-> Cardinality(ToSet(a) \cap ToSet(b))]

\* _log: the slice with the rank it begins at, and the candidates in the order
\* of the fusion; what was pinned and what was decayed is told by a flag.
LoggedRun(a) ==
    [final |-> a.results, first |-> a.request.offset + 1,
     candidates |-> Descending(DOMAIN a.fusion, a.fusion),
     reranked |-> a.mode = "reranked", rollup |-> a.request.rollup,
     exact |-> a.exact # <<>>, recency |-> a.request.recency]

\* prererank_page_ids: the pages of the candidates, by their first occurrence.
Prererank(run) ==
    FoldLeft(LAMBDA pages, c : IF Contains(pages, PageOf[c]) THEN pages ELSE Append(pages, PageOf[c]),
             <<>>, run.candidates)

\* Mutant: a slice is scored whatever its offset, and pinned pages too.
LiftedAll(run) == run.reranked /\ run.rollup = "max" /\ ~run.recency

\* The runs whose lift is computed.
Lifted(run) ==
    run.reranked /\ run.rollup = "max" /\ ~run.exact /\ run.first = 1 /\ ~run.recency

\* _score_run: what the logged slice gains over the order before the reranker,
\* at its own ranks; both are of the same ideal.
Lift(run, relevant, k) ==
    ndcg_at_k(run.final, relevant, run.first, k)[1] - ndcg_at_k(Prererank(run), relevant, 1, k)[1]

-----------------------------------------------------------------------------
(* Properties.                                                             *)

\* Rank-biased overlap by its definition: the common items of two prefixes.
Common(a, b, d) == Cardinality(ToSet(FirstOf(a, d)) \cap ToSet(FirstOf(b, d)))
CountsCommon(a, b) == Overlaps(a, b) = [d \in 1..Len(b) |-> Common(a, b, d)]

\* Two arms of one comparison that agree on their dense hits and on the texts
\* the reranker saw put the pages they share in one order, whatever became of
\* the corpus between them: the delta isolates the embedder (compare.py:24-29).
\* And the agreement they are given is the same in both directions, the
\* overlap at each depth that of the prefixes, and perfect for equal rankings
\* (ranking_metrics.py:31-91).
CompareIsolates ==
    \A i \in Answered("compare") :
        LET arms == shown[i].arms  k == shown[i].request.k IN
        \A m, n \in DOMAIN arms :
            LET a == arms[m].ranked  b == arms[n].ranked  both == agreement(a, b, k) IN
            /\ arms[m].dense = arms[n].dense /\ arms[m].texts = arms[n].texts =>
                   both.tau[1] = both.tau[2]
            /\ both = agreement(b, a, k)
            /\ Len(a) <= Len(b) => CountsCommon(a, b)
            /\ a = b => both.rbo = RboOne /\ both.jaccard[1] = both.jaccard[2]

\* The lift that is computed from the log of a search is that over the same
\* search without the reranker, for every set of relevant pages, as far as the
\* slice goes (eval_service.py:11-16), if every candidate page is still
\* indexed and no two of them tie before the reranker; and what can be
\* recalled at all is the same, for the reranker changes the order only.
Untied(a) ==
    LET plain == rollup_pages(a.fusion, <<>>, "max") IN
    \A p, q \in DOMAIN plain : p # q => plain[p] # plain[q]
WithoutReranker(a) ==
    LET plain == rollup_pages(a.fusion, <<>>, "max") IN
    SelectSeq(a.exact, LAMBDA p : p \in a.alive)
    \o SelectSeq(Descending(DOMAIN plain, plain), LAMBDA p : p \in a.alive \ ToSet(a.exact))
LiftIsExact ==
    \A i \in Answered("search") :
        LET a == shown[i]
            plain == WithoutReranker(a)
            k == a.request.k
            run == LoggedRun(a)
        IN Lifted(run) /\ Untied(a) /\ {PageOf[c] : c \in DOMAIN a.fusion} \subseteq a.alive =>
             \A relevant \in (SUBSET Pages) \ {{}} :
                 /\ Lift(run, relevant, k) = ndcg_at_k(a.hydrated, relevant, 1, k)[1] - ndcg_at_k(plain, relevant, 1, k)[1]
                 /\ recall_at_k(a.hydrated, relevant, 1, Len(plain)) = recall_at_k(plain, relevant, 1, Len(plain))
=============================================================================

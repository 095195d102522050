------------------------------ MODULE Ranking ------------------------------
(***************************************************************************)
(* The pure half of retrieval: reciprocal rank fusion, the rollup of       *)
(* chunks to pages and the decay by age (domain/retrieval.py), and the     *)
(* metrics that compare and judge rankings (domain/ranking_metrics.py).    *)
(*                                                                         *)
(* Chunks and pages are numbered as their ids are ordered.  Scores are     *)
(* integers, multiples of a unit that makes every division exact; a metric *)
(* that is a quotient is the pair of its parts.                            *)
(***************************************************************************)
EXTENDS Integers, Sequences, FiniteSetsExt, SequencesExt

CONSTANTS
    PageOf,        \* per chunk, its page
    RrfK,          \* the k of reciprocal rank fusion
    RollupM,       \* rollup_m
    Candidates     \* of a query, the limit of each arm and of the fused list

ASSUME RankingAssumption ==
    /\ RrfK \in Nat \ {0} /\ RollupM \in Nat \ {0} /\ Candidates \in Nat \ {0}
    /\ DOMAIN PageOf \subseteq Nat /\ \A c \in DOMAIN PageOf : PageOf[c] \in Nat \ {0}

Chunks == DOMAIN PageOf
Pages == {PageOf[c] : c \in Chunks}
MinOf(a, b) == IF a < b THEN a ELSE b
FirstOf(s, n) == SubSeq(s, 1, MinOf(n, Len(s)))
RankIn(s, x) == CHOOSE i \in DOMAIN s : s[i] = x

\* sorted by (-score, id).
Descending(things, score) ==
    LET above(x) == {y \in things : score[y] > score[x] \/ (score[y] = score[x] /\ y < x)} IN
    [i \in 1..Cardinality(things) |-> CHOOSE x \in things : Cardinality(above(x)) = i - 1]

-----------------------------------------------------------------------------
(* Fusion, rollup and decay.                                               *)

\* 1 / (RrfK + rank) is Unit \div (RrfK + rank).
Unit == ProductSet(RrfK + 1 .. RrfK + Candidates)

\* rrf_fuse: the score of every chunk either arm has; Descending orders them.
rrf_fuse(dense, sparse) ==
    LET of(arm, c) == IF Contains(arm, c) THEN Unit \div (RrfK + RankIn(arm, c)) ELSE 0 IN
    [c \in ToSet(dense) \union ToSet(sparse) |-> of(dense, c) + of(sparse, c)]

\* ScoredChunk.effective_score: the reranker's score, or that of the fusion.
effective_score(fusion, reranked) ==
    [c \in DOMAIN fusion |-> IF c \in DOMAIN reranked THEN reranked[c] ELSE fusion[c]]

\* Every mean of up to RollupM scores is a multiple of 1 / Whole.
Whole == ProductSet(1..RollupM)

\* rollup_pages: the score of every page of a chunk.
rollup_pages(fusion, reranked, strategy) ==
    LET effective == effective_score(fusion, reranked)
        chunks(p) == {c \in DOMAIN fusion : PageOf[c] = p}
        head(p) == FirstOf(Descending(chunks(p), effective), RollupM)
    IN [p \in {PageOf[c] : c \in DOMAIN fusion} |->
          CASE strategy = "max" -> Whole * effective[head(p)[1]]
            [] strategy = "mean_top_m" ->
                 MapThenSumSet(LAMBDA i : effective[head(p)[i]], DOMAIN head(p))
                 * (Whole \div Len(head(p)))
            [] strategy = "sum_rrf" -> Whole * MapThenSumSet(LAMBDA c : fusion[c], chunks(p))]

\* apply_recency_decay: halved for each half-life of its age; a page that was
\* not hydrated has no age and keeps its score.
apply_recency_decay(score, age) ==
    LET oldest == Max({0} \union {age[p] : p \in DOMAIN age}) IN
    [p \in DOMAIN score |-> score[p] * 2 ^ (oldest - (IF p \in DOMAIN age THEN age[p] ELSE 0))]

-----------------------------------------------------------------------------
(* Agreement of two rankings.                                              *)

jaccard_at_k(a, b, k) ==
    LET top == ToSet(FirstOf(a, k))  other == ToSet(FirstOf(b, k)) IN
    IF top \union other = {} THEN <<1, 1>>
    ELSE <<Cardinality(top \cap other), Cardinality(top \union other)>>

\* rbo_ext: the overlap at each depth is counted as the two lists are read
\* side by side.  p is 9/10; for up to three pages the value is a multiple of
\* 1 / RboOne.
RboOne == 36 * 10 ^ 3
Overlaps(shorter, longer) ==
    LET met(d) == (IF d <= Len(shorter) /\ Contains(FirstOf(longer, d - 1), shorter[d]) THEN 1 ELSE 0)
                  + (IF Contains(FirstOf(shorter, d), longer[d]) THEN 1 ELSE 0)
    IN [d \in 1..Len(longer) |-> MapThenSumSet(met, 1..d)]
rbo_ext(a, b) ==
    LET shorter == IF Len(a) <= Len(b) THEN a ELSE b
        longer == IF Len(a) <= Len(b) THEN b ELSE a
        s == Len(shorter)  l == Len(longer)
        x == Overlaps(shorter, longer)
        weight(d) == 9 ^ (d - 1) * 10 ^ (3 - d)
        beyond(d) == IF d > s THEN (x[s] * (d - s) * 36) \div (s * d) ELSE 0
    IN IF l = 0 THEN RboOne ELSE IF s = 0 THEN 0
       ELSE MapThenSumSet(LAMBDA d : ((x[d] * 36) \div d + beyond(d)) * weight(d), 1..l)
            + (((x[l] - x[s]) * 36) \div l + (x[s] * 36) \div s) * 9 * weight(l)

\* kendall_tau_intersection: concordant less discordant pairs, of all pairs;
\* there is none when fewer than two pages are common.
kendall_tau_intersection(a, b) ==
    LET common == ToSet(a) \cap ToSet(b)
        pairs == {<<x, y>> \in common \X common : RankIn(a, x) < RankIn(a, y)}
        concordant == {<<x, y>> \in pairs : RankIn(b, x) < RankIn(b, y)}
    IN <<2 * Cardinality(concordant) - Cardinality(pairs), Cardinality(pairs)>>

-----------------------------------------------------------------------------
(* Relevance.  A ranking is a sequence, its first item of rank first.      *)

\* 1 / log2(rank + 1), in thousandths.
Discount == <<1000, 631, 500, 431, 387, 356>>
Hits(ranked, relevant, first, k) ==
    {r \in first .. MinOf(k, first + Len(ranked) - 1) : ranked[r - first + 1] \in relevant}
Gain(ranks) == MapThenSumSet(LAMBDA r : Discount[r], ranks)

ndcg_at_k(ranked, relevant, first, k) ==
    <<Gain(Hits(ranked, relevant, first, k)), Gain(1 .. MinOf(Cardinality(relevant), k))>>
recall_at_k(ranked, relevant, first, k) ==
    <<Cardinality(Hits(ranked, relevant, first, k)), Cardinality(relevant)>>
=============================================================================

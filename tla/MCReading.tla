----------------------------- MODULE MCReading -----------------------------
(* Three pages of five chunks, three models of which two order the chunks  *)
(* alike, and requests that use every filter, strategy and mediation; one  *)
(* page whose body is fetched; or clients who post and forget URLs in many *)
(* forms.  The three share no state: one of them moves in a behaviour.     *)
EXTENDS Evaluation, PageSources, PageIdentity

VARIABLE service

Plain == [domain |-> NoLimit, after |-> NoLimit, before |-> NoLimit, entity |-> "none", cluster |-> NoLimit]
Ask == [kind |-> "search", text |-> "words", target |-> 3, filter |-> Plain, rerank |-> TRUE,
        rollup |-> "max", recency |-> FALSE, suggest |-> 1, mediation |-> "vector", offset |-> 0, k |-> 1]
Means == [Ask EXCEPT !.rerank = FALSE, !.rollup = "mean_top_m", !.recency = TRUE, !.mediation = "entity"]
Sums == [Ask EXCEPT !.rollup = "sum_rrf", !.recency = TRUE, !.mediation = "cluster", !.k = 2]
Filters ==
    {Plain, [Plain EXCEPT !.domain = 1], [Plain EXCEPT !.after = 3], [Plain EXCEPT !.before = 3],
     [Plain EXCEPT !.entity = "id"],
     [Plain EXCEPT !.entity = "alias", !.cluster = 1], [Plain EXCEPT !.cluster = 2]}

Searches ==
    {[Ask EXCEPT !.filter = f] : f \in Filters}
    \union {[Ask EXCEPT !.text = "url", !.filter = f] : f \in {Plain, [Plain EXCEPT !.domain = 1]}}
    \union {[Means EXCEPT !.text = "domain", !.filter = f] : f \in {Plain, [Plain EXCEPT !.after = 3]}}
    \union {Means, Sums, [Ask EXCEPT !.k = 2, !.suggest = 0]}
Similars == {[Ask EXCEPT !.kind = "similar", !.target = 1, !.mediation = m, !.suggest = 2] :
                m \in {"vector", "cluster", "entity"}}
Arms(models, rerank) == [i \in DOMAIN models |-> [model |-> models[i], rerank |-> rerank]]
Comparisons ==
    {[kind |-> "compare", arms |-> Arms(<<"m1", "m2", "m3">>, TRUE), filter |-> Plain, k |-> 2],
     [kind |-> "compare", arms |-> Arms(<<"m1", "m3">>, FALSE), filter |-> Plain, k |-> 3],
     [kind |-> "replay", arms |-> Arms(<<"none">>, TRUE) \o Arms(<<"m2">>, FALSE), filter |-> Plain, k |-> 2]}
AllRequests == Searches \union Similars \union Comparisons
AllUpheavals == [purge |-> {1, 3}, index |-> {1, 2}, activate |-> {"m1"}, retire |-> {"m1", "m3"}]

ThreeModels == {"m1", "m2", "m3"}
ChunkPage == <<2, 1, 1, 3, 2>>
ModelNearness == [m \in ThreeModels |-> IF m = "m2" THEN <<5, 2, 1, 3, 4>> ELSE <<5, 4, 3, 2, 1>>]
ChunkWords == <<3, 0, 0, 2, 4>>
ChunkRelevance == <<1, 0, 2, 1, 3>>
PageKinship == <<<<9, 3, 2>>, <<3, 9, 4>>, <<2, 4, 9>>>>
PageMembership == <<1, 1, 0>>
PageDomain == <<1, 2, 2>>
PageAge == <<2, 1, 0>>
PageSeenAt == <<1, 2, 3>>
PageAbout == {<<1, 1>>, <<1, 2>>, <<2, 1>>, <<3, 2>>}

\* What happens once the last answer is given is of no interest.
Waits ==
    \/ shown = <<>> \/ asking # Idle
    \/ Len(shown) = 1 /\ shown[1].outcome = "ok" /\ shown[1].request.kind = "search" /\ shown[1].more

\* Two or three lines, of which one may be blank, repeated, late or untimed.
Times == {Untimed, 0, 1, 2}
ShortTranscripts ==
    {<<>>} \union {<<[text |-> t, at |-> x]>> : t \in {"", "a"}, x \in Times}
    \union {<<[text |-> "a", at |-> x], [text |-> t, at |-> y], [text |-> "b", at |-> z]>> :
              t \in {"", "a", "b"}, x \in Times, y \in {0, 1}, z \in Times}
ShortChapters ==
    {<<>>} \union {<<[title |-> t, at |-> 1]>> : t \in {"none", "a"}}
    \union {<<[title |-> t, at |-> x], [title |-> u, at |-> y]>> :
              t \in {"a", "b"}, u \in {"none", "a"}, x \in {0, 2, 3}, y \in {0, 2, 3}}

\* Forms of two videos, of a page and of one of a subdomain.
Https(host, path, query) ==
    [scheme |-> "https", upper |-> FALSE, host |-> host, port |-> 0, path |-> path, slash |-> FALSE,
     query |-> query, fragment |-> FALSE]
Watch(host, query) == Https(host \o Youtube, <<"watch">>, query)
Example == Https(<<"example", "com">>, <<"p">>, <<<<"a", "2">>, <<"b", "1">>>>)
Videos ==
    {Https(YoutuBe, <<"id1">>, <<<<"si", "1">>>>), Watch(<<"www">>, <<<<"t", "1">>, <<"v", "id1">>>>),
     Https(<<"m">> \o Youtube, <<"shorts", "id1">>, <<<<"v", "id2">>>>),
     [Https(Youtube, <<"live", "id2">>, <<>>) EXCEPT !.port = 443], Watch(<<>>, <<<<"v", "">>, <<"v", "id2">>>>),
     Watch(<<>>, <<<<"v", "id2">>, <<"v", "id1">>>>), Watch(<<"m">>, <<<<"v", "id1">>>>),
     Https(YoutuBe, <<"x.mp3">>, <<>>), Https(<<>>, <<"p">>, <<>>)}
Articles ==
    {Example, [Example EXCEPT !.upper = TRUE, !.slash = TRUE, !.fragment = TRUE, !.port = 443],
     [Example EXCEPT !.host = <<"www">> \o @, !.query = <<<<"b", "1">>, <<"utm", "1">>, <<"a", "2">>>>],
     [Example EXCEPT !.port = 8080], [Example EXCEPT !.scheme = "http", !.port = 443],
     [Example EXCEPT !.host = <<"blog">> \o @], [Example EXCEPT !.host = <<"www", "www">> \o @],
     [Example EXCEPT !.path = <<"x.mp3">>, !.slash = TRUE, !.query = <<>>]}
One(u, body) == <<[url |-> u, body |-> body]>>
SomeBatches ==
    {One(u, "none") : u \in Videos \union Articles}
    \union {One(Example, "html"), One(Https(YoutuBe, <<"id1">>, <<>>), "none") \o One(Watch(<<>>, <<<<"v", "id1">>>>), "text"),
            One(Https(<<>>, <<"p">>, <<>>), "none") \o One(Example, "text")}
SomeTargets ==
    {[kind |-> k, url |-> u] : k \in {"url", "domain"},
         u \in {Https(<<"www">> \o Youtube, <<"shorts", "id1">>, <<>>), [Example EXCEPT !.host = <<"www">> \o @]}}
    \union {[kind |-> "domain", url |-> Https(h, <<>>, <<>>)] : h \in {<<"com">>, <<>>, <<"blog", "example", "com">>}}
SomeListings ==
    {[kind |-> "youtube", url |-> u] :
         u \in {Watch(<<>>, <<<<"list", "1">>>>), Watch(<<>>, <<<<"v", "id1">>, <<"list", "1">>>>),
                Https(Youtube, <<"@h">>, <<>>), Https(Youtube, <<"@h", "videos">>, <<>>),
                Https(Youtube, <<"channel", "id1">>, <<>>), Https(Youtube, <<"@h">>, <<<<"si", "1">>>>), Example}}
    \union {[kind |-> "podcast", url |-> Https(YoutuBe, <<"x.mp3">>, <<>>)]}
SomeNames == <<"", "1", "2", "a", "b", "id1", "id2", "list", "si", "t", "utm", "v">>

Init ==
    /\ service \in {"reading", "sources", "identity"} /\ RetrievalInit /\ SourcesInit /\ IdentityInit
    /\ service # "sources" => article.origin = "article"

Next ==
    \/ /\ service = "reading" /\ UNCHANGED <<service, sourceVars, identityVars>>
       /\ Reads \/ Evaluates \/ (Waits /\ Upheaval)
    \/ /\ service = "sources" /\ UNCHANGED <<service, retrievalVars, identityVars>>
       /\ SourcesNext
    \/ /\ service = "identity" /\ UNCHANGED <<service, retrievalVars, sourceVars>>
       /\ IdentityNext

Spec == Init /\ [][Next]_<<retrievalVars, sourceVars, identityVars, service>>
=============================================================================

---------------------------- MODULE PageIdentity ----------------------------
(***************************************************************************)
(* Which page a URL names: canonical_url.py and youtube.py, and those who  *)
(* rely on them: the ingest of pages, one by one or in batches             *)
(* (api/routes/pages.py, ingest.py), the rules of forget                   *)
(* (forget_service.py), the fetcher that is chosen for a page              *)
(* (routing_fetcher.py) and the creation of watches.                       *)
(*                                                                         *)
(* A URL is a record of its parts: the host as its labels, the path as its *)
(* segments, the query as its pairs.  "upper" says that scheme or host     *)
(* have capitals, "slash" that the path ends in one.  The statements of a  *)
(* purge, its job and that of a page belong to other modules.              *)
(***************************************************************************)
EXTENDS Integers, SequencesExt, TLC

CONSTANTS
    Batches,       \* bound: sequences of items [url, body] a client may post
    Targets,       \* bound: what it may forget, [kind, url]
    Listings,      \* bound: what it may watch, [kind, url]
    Posters,       \* the clients
    Asks,          \* bound: requests
    TrackingParams,
    VideoIds,      \* strings of the form of a video id
    Handles,       \* path segments that begin with an at sign
    AudioNames,    \* path segments that end like the name of an audio file
    NameOrder      \* the params and their values, as strings are ordered

Urls == [scheme : {"http", "https"}, upper : BOOLEAN, host : Seq(STRING), port : Nat, path : Seq(STRING),
         slash : BOOLEAN, query : Seq(STRING \X STRING), fragment : BOOLEAN]

ASSUME IdentityAssumption == Asks \in Nat /\ "v" \notin TrackingParams
ASSUME UrlsAssumption ==
    /\ \A b \in Batches : b \in Seq([url : Urls, body : {"none", "text", "html"}]) /\ Len(b) > 0
    /\ Targets \subseteq [kind : {"url", "domain"}, url : Urls]
    /\ Listings \subseteq [kind : {"youtube", "podcast"}, url : Urls]

VARIABLES
    known,    \* the rows of pages
    blacklist, \* the rules, [kind, pattern]
    watched,  \* the kind and URL of every watch
    poster,   \* per client, the request under way
    asked     \* how many requests there were

identityVars == <<known, blacklist, watched, poster, asked>>

-----------------------------------------------------------------------------
(* youtube.py.                                                             *)

YoutuBe == <<"youtu", "be">>
Youtube == <<"youtube", "com">>
strip_www(host) == IF Len(host) > 1 /\ host[1] = "www" THEN Tail(host) ELSE host

is_youtube_host(host) ==
    LET bare == strip_www(host) IN
    \/ bare = YoutuBe
    \/ \E domain \in {Youtube, <<"youtube-nocookie", "com">>} : IsSuffix(domain, bare)

\* parse_qs leaves blank values out.
Given(query, key) == SelectSeq(query, LAMBDA q : q[1] = key /\ q[2] # "")

\* _video_id_from_parts, of a host without www.
IdFromParts(host, path, query) ==
    LET at(n) == IF Len(path) >= n THEN path[n] ELSE "none"
        value == IF Given(query, "v") = <<>> THEN "none" ELSE Given(query, "v")[1][2]
        candidate ==
            CASE host = YoutuBe -> at(1)
              [] IsSuffix(Youtube, host) /\ at(1) = "watch" -> value
              [] IsSuffix(Youtube, host) /\ at(1) \in {"shorts", "live"} -> at(2)
              [] OTHER -> "none"
    IN IF candidate \in VideoIds THEN candidate ELSE "none"
video_id_from_url(u) == IdFromParts(strip_www(u.host), u.path, u.query)

\* Mutant: only the short host is folded.
RewriteShort(u) ==
    LET id == IdFromParts(u.host, u.path, u.query) IN
    IF u.host = YoutuBe /\ id # "none"
    THEN [u EXCEPT !.host = Youtube, !.path = <<"watch">>, !.query = <<<<"v", id>>>>] ELSE u

\* youtu.be, shorts and live become the watch page; what is one stays as it is.
rewrite_to_watch(u) ==
    LET id == IdFromParts(u.host, u.path, u.query) IN
    IF id # "none" /\ is_youtube_host(u.host) /\ (u.host = YoutuBe \/ u.path[1] # "watch")
    THEN [u EXCEPT !.host = Youtube, !.path = <<"watch">>, !.query = <<<<"v", id>>>>] ELSE u

classify_youtube_url(u) ==
    CASE ~is_youtube_host(u.host) -> "none"
      [] video_id_from_url(u) # "none" -> "video"
      [] u.path # <<>> /\ u.path[1] \in {"playlist", "watch"} /\ Given(u.query, "list") # <<>> -> "playlist"
      [] u.path # <<>> /\ u.path[1] \in Handles \union {"channel", "c", "user"} -> "channel"
      [] OTHER -> "none"

\* The tab of the uploads is put at the end of the URL, whatever that is.
WithTab(u) ==
    CASE u.fragment -> u
      [] u.query = <<>> -> [u EXCEPT !.slash = FALSE, !.path = Append(@, "videos")]
      [] OTHER -> [u EXCEPT !.query[Len(u.query)][2] = @ \o "/videos"]

\* What is listed when a playlist or a channel is polled.
normalize_listing_url(u) ==
    CASE classify_youtube_url(u) = "playlist" ->
           [scheme |-> "https", upper |-> FALSE, host |-> <<"www">> \o Youtube, port |-> 0,
            path |-> <<"playlist">>, slash |-> FALSE, fragment |-> FALSE,
            query |-> <<Given(u.query, "list")[1]>>]
      [] /\ classify_youtube_url(u) = "channel"
         /\ Len(u.path) = IF u.path[1] \in Handles THEN 1 ELSE 2 -> WithTab(u)
      [] OTHER -> u

-----------------------------------------------------------------------------
(* canonical_url.py.                                                       *)

DefaultPort == [http |-> 80, https |-> 443]
Place(name) == CHOOSE i \in DOMAIN NameOrder : NameOrder[i] = name
ParamLess(a, b) ==
    Place(a[1]) < Place(b[1]) \/ (a[1] = b[1] /\ Place(a[2]) < Place(b[2]))

canonical_query(host, query) ==
    LET kept(q) == IF IsSuffix(Youtube, host) THEN q[1] = "v" ELSE q[1] \notin TrackingParams
    IN SortSeq(SelectSeq(query, kept), ParamLess)

Absolute(u) == u.host # <<>>
canonicalize(u) ==
    LET form == rewrite_to_watch([u EXCEPT !.host = strip_www(@)]) IN
    [form EXCEPT !.upper = FALSE, !.slash = FALSE, !.fragment = FALSE,
                 !.port = IF @ = DefaultPort[u.scheme] THEN 0 ELSE @,
                 !.query = canonical_query(form.host, form.query)]

is_audio_url(u) == u.path # <<>> /\ Last(u.path) \in AudioNames

\* RoutingFetcher.fetch.
RouteOf(u) ==
    CASE video_id_from_url(u) # "none" -> "captions"
      [] video_id_from_url(u) = "none" /\ is_audio_url(u) -> "sound"
      [] OTHER -> "download"

-----------------------------------------------------------------------------
(* Rules.                                                                  *)

\* find_blacklist_match: a rule for a domain is one for its subdomains.
domain_suffix_match(domain, pattern) == IsSuffix(pattern, domain)
FoundBy(rule, url) ==
    IF rule.kind = "url" THEN rule.pattern = url ELSE domain_suffix_match(url.host, rule.pattern)

\* Mutant: the pages of subdomains stay.
PurgesDomain(rule, p) ==
    IF rule.kind = "url" THEN p.url = rule.pattern ELSE p.url.host = rule.pattern

\* purge_and_blacklist: equal, or LIKE '%.pattern'.
PurgedBy(rule, p) ==
    IF rule.kind = "url" THEN p.url = rule.pattern
    ELSE p.url.host = rule.pattern
         \/ (Len(p.url.host) > Len(rule.pattern) /\ IsSuffix(rule.pattern, p.url.host))

\* A domain may be given as a URL; it needs a dot.
NormalizeDomain(u) == strip_www(u.host)
Pattern(t) == IF t.kind = "url" THEN canonicalize(t.url) ELSE NormalizeDomain(t.url)
Acceptable(t) ==
    IF t.kind = "url" THEN Absolute(t.url) ELSE Len(NormalizeDomain(t.url)) > 1

-----------------------------------------------------------------------------
(* Requests.  A batch is ingested item by item.                            *)

NotPosting == [at |-> "idle"]
IdentityInit ==
    /\ known = {} /\ blacklist = {} /\ watched = {} /\ asked = 0
    /\ poster = [c \in Posters |-> NotPosting]

Begins(c) == poster[c].at = "idle" /\ asked < Asks /\ asked' = asked + 1
Posting(c, at) == poster[c].at = at
Item(c) == poster[c].items[1]
Url(c) == canonicalize(Item(c).url)
Stands(c, at) == poster' = [poster EXCEPT ![c].at = at]
SamePages == UNCHANGED <<known, blacklist, watched, asked>>

AddPages(c, items) ==
    /\ Begins(c)
    /\ poster' = [poster EXCEPT ![c] = [at |-> "blacklist", items |-> items, overtaken |-> FALSE]]
    /\ UNCHANGED <<known, blacklist, watched>>

\* The outcome of an item is put down, whatever it is; the next one follows.
NextItem(c) ==
    poster' = [poster EXCEPT ![c] =
        IF Len(@.items) = 1 THEN NotPosting
        ELSE [at |-> "blacklist", items |-> Tail(@.items), overtaken |-> FALSE]]

\* No host, or HTML that nothing can extract.
RejectItem(c) ==
    /\ \/ Posting(c, "blacklist") /\ ~Absolute(Item(c).url)
       \/ Posting(c, "insert") /\ Item(c).body = "html"
    /\ NextItem(c) /\ SamePages

\* find_blacklist_match: rules for the URL first, those for domains by a query
\* of their own.
FindRule(c, kind, next) ==
    /\ IF \E rule \in blacklist : rule.kind = kind /\ FoundBy(rule, Url(c))
       THEN NextItem(c) ELSE Stands(c, next)
    /\ SamePages
FindUrlRule(c) ==
    /\ Posting(c, "blacklist") /\ Absolute(Item(c).url)
    /\ FindRule(c, "url", "domains")
FindDomainRule(c) == Posting(c, "domains") /\ FindRule(c, "domain", "lookup")

GetPageByCanonicalUrl(c) ==
    /\ Posting(c, "lookup")
    /\ Stands(c, IF \E p \in known : p.url = Url(c) THEN "revisit" ELSE "insert")
    /\ SamePages

\* An update of no row, if the page was purged meanwhile.
RecordRevisit(c) ==
    /\ Posting(c, "revisit")
    /\ known' = {IF p.url = Url(c) THEN [p EXCEPT !.visits = @ + 1] ELSE p : p \in known}
    /\ NextItem(c)
    /\ UNCHANGED <<blacklist, watched, asked>>

\* Of two clients with one new URL the second one has an error, and the rest
\* of its batch is not looked at.
InsertPage(c) ==
    /\ Posting(c, "insert")
    /\ IF \E p \in known : p.url = Url(c)
       THEN poster' = [poster EXCEPT ![c] = NotPosting] /\ known' = known
       ELSE /\ known' = known \union
                 {[url |-> Url(c), original |-> Item(c).url, visits |-> 1, overtaken |-> poster[c].overtaken,
                   via |-> IF Item(c).body = "none" THEN "none" ELSE "client"]}
            /\ NextItem(c)
    /\ UNCHANGED <<blacklist, watched, asked>>

\* Whoever has looked at the rules of its kind by now does not see the new one.
Looked(d, kind) ==
    Posting(d, "lookup") \/ Posting(d, "insert") \/ (Posting(d, "domains") /\ kind = "url")
ForgetUrl(c, t) ==
    LET rule == [kind |-> t.kind, pattern |-> Pattern(t)] IN
    /\ Begins(c)
    /\ IF Acceptable(t)
       THEN /\ blacklist' = blacklist \union {rule}
            /\ known' = {p \in known : ~PurgedBy(rule, p)}
            /\ poster' = [d \in Posters |-> IF Looked(d, t.kind)
                                            THEN [poster[d] EXCEPT !.overtaken = TRUE] ELSE poster[d]]
       ELSE UNCHANGED <<blacklist, known, poster>>
    /\ UNCHANGED watched

DeleteBlacklist(c, rule) ==
    /\ Begins(c)
    /\ blacklist' = blacklist \ {rule}
    /\ UNCHANGED <<known, watched, poster>>

\* What a kind of watch can poll; a watch has the URL as it was given.
Watchable(w) ==
    /\ w.kind = "youtube" => classify_youtube_url(w.url) \in {"playlist", "channel"}
    /\ w.kind = "podcast" => ~is_audio_url(w.url)
CreateWatch(c, w) ==
    /\ Begins(c)
    /\ watched' = IF Watchable(w) THEN watched \union {w} ELSE watched
    /\ UNCHANGED <<known, blacklist, poster>>

\* The job of a page without a body fetches what the client gave.
FetchBody(p) ==
    /\ p \in known /\ p.via = "none"
    /\ known' = (known \ {p}) \union {[p EXCEPT !.via = RouteOf(p.original)]}
    /\ UNCHANGED <<blacklist, watched, poster, asked>>

IdentityNext ==
    \/ \E c \in Posters :
         \/ \E items \in Batches : AddPages(c, items)
         \/ RejectItem(c) \/ FindUrlRule(c) \/ FindDomainRule(c) \/ GetPageByCanonicalUrl(c)
         \/ RecordRevisit(c) \/ InsertPage(c)
         \/ \E t \in Targets : ForgetUrl(c, t)
         \/ \E rule \in blacklist : DeleteBlacklist(c, rule)
         \/ \E w \in Listings : CreateWatch(c, w)
    \/ \E p \in known : FetchBody(p)

IdentitySpec == IdentityInit /\ [][IdentityNext]_identityVars

-----------------------------------------------------------------------------
(* Properties.                                                             *)

\* No page is stored that a rule would reject, although the rule purges by a
\* query of its own, under another reading of its domain, and may be asked for
\* in another form of the URL than the page was; but for an ingest that was
\* under way when the rule came (sqlite_store.py:1750-1758, 1847-1875).
RulesHold ==
    \A p \in known, rule \in blacklist : FoundBy(rule, p.url) => p.overtaken

\* What makes two URLs one page: they are forms of one video, or they differ in
\* what does not count (canonical_url.py:3-6, 88-89).  The mobile watch page is
\* a form of its own (src/tests/unit/test_canonical_url.py:42).  Two videos in one
\* URL, or a second www, are beyond this.
Ordinary(u) == Len(SelectSeq(u.query, LAMBDA q : q[1] = "v")) <= 1 /\ strip_www(u.host)[1] # "www"
Forms(id) ==
    {<<YoutuBe, <<id>>>>, <<Youtube, <<"watch">>>>}
    \union {<<host, <<kind, id>>>> : host \in {Youtube, <<"m">> \o Youtube}, kind \in {"shorts", "live"}}
VideoOf(u) ==
    {id \in VideoIds : /\ <<strip_www(u.host), u.path>> \in Forms(id)
                       /\ u.path = <<"watch">> => Given(u.query, "v") = <<<<"v", id>>>>}
Counts(u) ==
    {q \in ToSet(u.query) : IF IsSuffix(Youtube, u.host) THEN q[1] = "v" ELSE q[1] \notin TrackingParams}
PortOf(u) == IF u.port = 0 THEN DefaultPort[u.scheme] ELSE u.port
SamePage(u, v) ==
    /\ u.scheme = v.scheme /\ PortOf(u) = PortOf(v)
    /\ IF VideoOf(u) \union VideoOf(v) # {} THEN VideoOf(u) = VideoOf(v)
       ELSE strip_www(u.host) = strip_www(v.host) /\ u.path = v.path /\ Counts(u) = Counts(v)

\* Every URL a client is posting leads to the page it names and to no other,
\* the URL the page is shown under included; the forms of a page are fetched
\* alike, so that it does not matter which one came first; and what is watched
\* as a listing is no video, before or after its URL is made explicit, which
\* is done once (youtube.py:92-131, routing_fetcher.py:35-41).
UrlsAgree ==
    /\ \A p \in known :
         /\ Ordinary(p.original) => canonicalize(p.url) = p.url /\ SamePage(p.url, p.original)
         /\ p.via \notin {"none", "client"} => p.via = RouteOf(p.url)
         /\ \A c \in Posters :
              ~Posting(c, "idle") /\ Absolute(Item(c).url) /\ Ordinary(Item(c).url) /\ Ordinary(p.original)
                => (Url(c) = p.url <=> SamePage(Item(c).url, p.original))
    /\ \A w \in watched :
         w.kind = "youtube" =>
             LET listing == normalize_listing_url(w.url) IN
             /\ classify_youtube_url(listing) = classify_youtube_url(w.url)
             /\ RouteOf(listing) = "download"
             /\ w.url.query = <<>> => normalize_listing_url(listing) = listing
=============================================================================

---------------------------- MODULE PageSources ----------------------------
(***************************************************************************)
(* Where the body of a page comes from: handle_fetch_and_index and its     *)
(* sources, a published podcast transcript (adapters/podcast), the         *)
(* captions or the sound of a video (adapters/youtube), the sound of an    *)
(* audio file (adapters/transcription), or a plain download.  Chapters     *)
(* become sections of the body and bounds of its chunks                    *)
(* (chapter_chunking.py).                                                  *)
(*                                                                         *)
(* The job is cancelled when its lease runs out and is run again.  Work in *)
(* a thread goes on when the coroutine that awaits it is cancelled.        *)
(* A line of a transcript has the length one, and so has a separator.      *)
(***************************************************************************)
EXTENDS Integers, FiniteSetsExt, SequencesExt, TLC

CONSTANTS
    Origins,       \* what a page may be: "video", "audio", "episode", "article";
                   \* the sources of all of them are configured
    Transcripts,   \* bound: the lines [text, at] a transcript may have
    ChapterLists,  \* bound: the chapters [title, at] it may come with
    ChunkChars,    \* the most a chunk may hold
    ChunkOverlap,  \* the most it may repeat of the one before it
    Runs           \* bound: runs of the job

ASSUME SourcesAssumption ==
    ChunkChars \in Nat \ {0} /\ ChunkOverlap \in 0..ChunkChars - 1 /\ Runs \in Nat \ {0}

VARIABLES
    article,    \* the page: its origin, and its body and sections if it has them
    fetching,   \* the handler, with its locals
    temps,      \* temporary directories that exist, by the run that made them
    threads,    \* what abandoned threads are still doing
    excused,    \* directories that nobody will remove
    runs

sourceVars == <<article, fetching, temps, threads, excused, runs>>

Untimed == -1
NoBody == [fetched |-> FALSE, length |-> 0, sections |-> <<>>, lines |-> <<>>, chapters |-> <<>>]
Resting == [at |-> "idle"]

SourcesInit ==
    /\ article \in {[origin |-> o, body |-> NoBody, chunks |-> <<>>] : o \in Origins}
    /\ fetching = Resting
    /\ temps = {} /\ threads = {} /\ excused = {} /\ runs = 0

-----------------------------------------------------------------------------
(* Transcripts: what is kept of the lines, and where each begins.          *)

Kept(lines) == SelectSeq(lines, LAMBDA l : l.text # "")
\* Captions repeat a line while it is shown: _joined_lines keeps it once.
Deduplicated(lines) ==
    FoldLeft(LAMBDA kept, l : IF kept # <<>> /\ Last(kept).text = l.text THEN kept ELSE Append(kept, l),
             <<>>, Kept(lines))

LengthOf(lines) == IF lines = <<>> THEN 0 ELSE 2 * Len(lines) - 1
Offsets(lines) ==
    SelectSeq([i \in DOMAIN lines |-> [char |-> 2 * (i - 1), at |-> lines[i].at]], LAMBDA o : o.at # Untimed)

\* The segments of a transcription are sorted; a segment has a time, or 0.
Timed(lines) == [i \in DOMAIN lines |-> [lines[i] EXCEPT !.at = Max({@, 0})]]
Segments(lines) == SortSeq(Kept(Timed(lines)), LAMBDA a, b : a.at < b.at)

\* _char_for_time: the first line at or after a chapter's start, or "beyond".
CharForTime(offsets, at, beyond) ==
    LET later == {i \in DOMAIN offsets : offsets[i].at >= at} IN
    IF later = {} THEN beyond ELSE offsets[Min(later)].char

Starts(b) == b[1]
Spans(bounds, length) ==
    [i \in DOMAIN bounds |->
        [title |-> bounds[i][2], start |-> bounds[i][3], from |-> bounds[i][1],
         to |-> IF i = Len(bounds) THEN length ELSE bounds[i + 1][1]]]

\* Text before the first chapter is a section of its own.
Leading(bounds) ==
    IF bounds # <<>> /\ Starts(bounds[1]) > 0 THEN <<<<0, "none", 0>>>> \o bounds ELSE bounds

\* Mutant: of the chapters that begin at one line the first gives the title.
KeepFirst(bounds, bound) == bounds

\* Of the chapters that begin at one line the last gives the title.
TakeOver(bounds, bound) == Append(Front(bounds), bound)

\* The sections of a video: chapters that begin after its last line are dropped.
VideoSections(chapters, lines) ==
    LET offsets == Offsets(lines)
        bound(c) == <<CharForTime(offsets, c.at, LengthOf(lines)), c.title, c.at>>
        add(bounds, c) ==
            CASE Starts(bound(c)) >= LengthOf(lines) -> bounds
              [] bounds # <<>> /\ Starts(Last(bounds)) = Starts(bound(c)) -> TakeOver(bounds, bound(c))
              [] OTHER -> Append(bounds, bound(c))
        sorted == SortSeq(chapters, LAMBDA a, b : a.at < b.at)
    IN IF offsets = <<>> THEN <<>> ELSE Spans(Leading(FoldLeft(add, <<>>, sorted)), LengthOf(lines))

\* Those of an episode are sorted as tuples, which fails if two begin at one
\* line and only one of them has a title; one beyond the end begins at the
\* last line.
Rank(title) == CHOOSE n \in 0..2 : <<"none", "a", "b">>[n + 1] = title
EpisodeBounds(chapters, lines) ==
    LET offsets == Offsets(lines) IN
    [i \in DOMAIN chapters |->
        <<CharForTime(offsets, chapters[i].at, Last(offsets).char), chapters[i].title, chapters[i].at>>]
Sortable(bounds) ==
    \A i, j \in DOMAIN bounds :
        Starts(bounds[i]) = Starts(bounds[j]) => (bounds[i][2] = "none" <=> bounds[j][2] = "none")
Before(a, b) ==
    \/ a[1] < b[1]
    \/ a[1] = b[1] /\ (Rank(a[2]) < Rank(b[2]) \/ (a[2] = b[2] /\ a[3] < b[3]))
EpisodeSections(chapters, lines) ==
    IF chapters = <<>> \/ lines = <<>> THEN <<>>
    ELSE SelectSeq(Spans(Leading(SortSeq(EpisodeBounds(chapters, lines), Before)), LengthOf(lines)),
                   LAMBDA s : s.from < s.to)

\* The validators of the envelopes and of the metadata of a page.
Tile(sections, length) ==
    \/ sections = <<>>
    \/ /\ sections[1].from = 0 /\ Last(sections).to = length
       /\ \A i \in DOMAIN sections : sections[i].from < sections[i].to
       /\ \A i \in 1..Len(sections) - 1 : sections[i].to = sections[i + 1].from

-----------------------------------------------------------------------------
(* The handler.                                                            *)

Doing(what) == fetching.at = what
Goes(at, locals) ==
    /\ fetching' = [locals EXCEPT !.at = at]
    /\ UNCHANGED <<article, temps, threads, excused, runs>>
JobFails == fetching' = Resting /\ UNCHANGED <<article, temps, threads, excused, runs>>

HandleFetchAndIndex ==
    /\ Doing("idle") /\ runs < Runs
    /\ runs' = runs + 1
    /\ fetching' = [run |-> runs + 1, chapters |-> <<>>, lines |-> <<>>, body |-> NoBody, outcome |-> "none",
                    at |-> IF article.body.fetched THEN "chunk"
                           ELSE CASE article.origin = "episode" -> "transcript"
                                  [] article.origin = "video" -> "captions"
                                  [] article.origin = "audio" -> "mkdtemp"
                                  [] article.origin = "article" -> "download"]
    /\ UNCHANGED <<article, temps, threads, excused>>

\* The envelope, its validator and its extractor.
Wrapped(lines, chapters, sections) ==
    IF Tile(sections, LengthOf(lines))
    THEN Goes("store", [fetching EXCEPT !.body = [fetched |-> TRUE, length |-> LengthOf(lines),
                                                  sections |-> sections, lines |-> lines, chapters |-> chapters]])
    ELSE JobFails

\* A podcast that has no usable transcript is fetched like any other page.
FallBack == \E at \in {"mkdtemp", "download"} : Goes(at, fetching)

EpisodeTranscript ==
    /\ Doing("transcript")
    /\ FallBack \/ \E lines \in Transcripts : Goes("chapters", [fetching EXCEPT !.lines = Kept(Timed(lines))])
EpisodeChapters ==
    /\ Doing("chapters")
    /\ \/ FallBack
       \/ \E chapters \in ChapterLists :
            IF fetching.lines # <<>> /\ ~Sortable(EpisodeBounds(chapters, fetching.lines)) THEN FallBack
            ELSE Wrapped(fetching.lines, chapters, EpisodeSections(chapters, fetching.lines))

\* The captions in the language that is preferred, if there are any; the
\* fallback to the sound may be switched off.
Captions ==
    /\ Doing("captions")
    /\ \/ JobFails
       \/ \E lines \in Transcripts, chapters \in ChapterLists :
            IF Deduplicated(lines) = <<>> THEN Goes("mkdtemp", [fetching EXCEPT !.chapters = chapters])
            ELSE Wrapped(Deduplicated(lines), chapters, VideoSections(chapters, Deduplicated(lines)))

MakeDirectory ==
    /\ Doing("mkdtemp")
    /\ temps' = temps \union {fetching.run}
    /\ fetching' = [fetching EXCEPT !.at = "sound"]
    /\ UNCHANGED <<article, threads, excused, runs>>

\* Mutant: a failure goes past the removal of the directory.
FailPastCleanup == JobFails

\* finally: the directory is removed whatever came of the sound.
FailSound == Goes("rmtree", [fetching EXCEPT !.outcome = "failed"])

DownloadSound == Doing("sound") /\ (FailSound \/ Goes("whisper", fetching))
Transcribe ==
    /\ Doing("whisper")
    /\ \/ FailSound
       \/ \E lines \in Transcripts : Goes("rmtree", [fetching EXCEPT !.outcome = "ok", !.lines = Segments(lines)])

RemoveDirectory ==
    /\ Doing("rmtree")
    /\ temps' = temps \ {fetching.run}
    /\ fetching' = IF fetching.outcome = "ok" /\ fetching.lines # <<>>
                   THEN [fetching EXCEPT !.at = "wrap"] ELSE Resting
    /\ UNCHANGED <<article, threads, excused, runs>>
WrapSound ==
    /\ Doing("wrap")
    /\ Wrapped(fetching.lines, fetching.chapters,
               IF article.origin = "video" THEN VideoSections(fetching.chapters, fetching.lines) ELSE <<>>)

\* A plain download, or a content type that nothing extracts.
Download == Doing("download") /\ (JobFails \/ \E lines \in Transcripts : Wrapped(Kept(lines), <<>>, <<>>))

StoreBody ==
    /\ Doing("store")
    /\ article' = [article EXCEPT !.body = fetching.body]
    /\ fetching' = [fetching EXCEPT !.at = "chunk"]
    /\ UNCHANGED <<temps, threads, excused, runs>>

\* ChonkieChunker.chunk: a piece begins before the end of the last one, by the
\* sentences that fit into the overlap.  No piece is cut of a blank text: here
\* an empty one, since the lines that are kept are not blank.
Pieces(from, to, overlap) ==
    LET step == ChunkChars - overlap IN
    IF from = to THEN <<>>
    ELSE [i \in 1..Max({1, (to - from - overlap + step - 1) \div step}) |->
             [from |-> from + (i - 1) * step, to |-> Min({to, from + (i - 1) * step + ChunkChars})]]

\* chunk_with_sections: every section is cut on its own, and the pieces are
\* numbered throughout.
ChunksOfBody(body, overlap) ==
    LET spans == IF body.sections = <<>> THEN <<[from |-> 0, to |-> body.length]>> ELSE body.sections
        pieces == FoldLeft(LAMBDA all, s : all \o Pieces(s.from, s.to, overlap), <<>>, spans)
    IN [i \in DOMAIN pieces |-> pieces[i] @@ [ordinal |-> i - 1]]
ChunkBody ==
    /\ Doing("chunk")
    /\ IF Tile(article.body.sections, article.body.length)
       THEN /\ \E overlap \in 0..ChunkOverlap :
                 article' = [article EXCEPT !.chunks = ChunksOfBody(article.body, overlap)]
            /\ fetching' = [at |-> "done"]
            /\ UNCHANGED <<temps, threads, excused, runs>>
       ELSE JobFails

-----------------------------------------------------------------------------
(* Cancellation, and the threads it leaves behind.                         *)

Abandon(does, pardoned) ==
    /\ threads' = threads \union does
    /\ excused' = excused \union pardoned
    /\ UNCHANGED <<article, temps, runs>>
Mine == {fetching.run}
Thread(does) == {[does |-> does, run |-> fetching.run]}

\* A thread that has not begun yet is cancelled with the coroutine.
Cancel ==
    \/ /\ fetching.at \in {"transcript", "chapters", "captions", "download", "store", "chunk"}
       /\ fetching' = Resting
       /\ Abandon({}, {})
    \/ /\ Doing("mkdtemp")
       /\ fetching' = Resting
       /\ Abandon({}, {}) \/ Abandon(Thread("mkdtemp"), Mine)
    \/ /\ Doing("sound")
       /\ fetching' = [fetching EXCEPT !.at = "rmtree", !.outcome = "cancelled"]
       /\ \/ Abandon({}, {})
          \/ article.origin = "video" /\ Abandon(Thread("write"), Mine)
    \/ /\ Doing("whisper")
       /\ fetching' = [fetching EXCEPT !.at = "rmtree", !.outcome = "cancelled"]
       /\ Abandon({}, {})
    \/ /\ Doing("rmtree")
       /\ fetching' = Resting
       /\ Abandon({}, Mine) \/ Abandon(Thread("rmtree"), {})

\* The download of a video that goes on may make its directory again.
ThreadEnds(t) ==
    /\ t \in threads
    /\ threads' = threads \ {t}
    /\ \/ t.does = "rmtree" /\ temps' = temps \ {t.run}
       \/ t.does \in {"mkdtemp", "write"} /\ temps' = temps \union {t.run}
       \/ t.does = "write" /\ temps' = temps
    /\ UNCHANGED <<article, fetching, excused, runs>>

SourcesNext ==
    \/ HandleFetchAndIndex \/ EpisodeTranscript \/ EpisodeChapters \/ Captions
    \/ MakeDirectory \/ DownloadSound \/ Transcribe \/ RemoveDirectory \/ WrapSound \/ Download
    \/ StoreBody \/ ChunkBody \/ Cancel
    \/ \E t \in threads : ThreadEnds(t)

SourcesSpec == SourcesInit /\ [][SourcesNext]_sourceVars

-----------------------------------------------------------------------------
(* Properties.                                                             *)

\* Sections that are stored tile the body, so that a job that runs again finds
\* them valid, and its chunks cover it in order: each is of just one section,
\* and neighbours share no more than the overlap, and nothing across sections;
\* and while the lines of a video are in the order of their times, each is
\* under the last chapter that begins no later (indexing.py:119-141,
\* chapter_chunking.py:17-59, chonkie_chunker.py:29-33, caption_fetcher.py:163-218).
InOrder(lines) == \A i, j \in DOMAIN lines : i < j => lines[i].at <= lines[j].at
UnderItsChapter(body) ==
    \A i \in DOMAIN body.lines, s \in ToSet(body.sections) :
        LET begun == {c.at : c \in {d \in ToSet(body.chapters) : d.at <= body.lines[i].at}} IN
        s.from <= 2 * (i - 1) /\ 2 * (i - 1) < s.to => s.start = Max({0} \union begun)
SectionsTile ==
    LET body == article.body  chunks == article.chunks IN
    /\ Tile(body.sections, body.length)
    /\ chunks # <<>> =>
         /\ \A n \in 0..body.length - 1 :
              \E i \in DOMAIN chunks : chunks[i].from <= n /\ n < chunks[i].to
         /\ \A i \in DOMAIN chunks :
              /\ chunks[i].ordinal = i - 1 /\ chunks[i].from < chunks[i].to
              /\ body.sections # <<>> =>
                   \E s \in ToSet(body.sections) : s.from <= chunks[i].from /\ chunks[i].to <= s.to
         /\ \A i \in 1..Len(chunks) - 1 :
              /\ chunks[i].from < chunks[i + 1].from /\ chunks[i].to < chunks[i + 1].to
              /\ chunks[i].to - chunks[i + 1].from <= ChunkOverlap
    /\ article.origin = "video" /\ (\A i \in DOMAIN body.lines : body.lines[i].at # Untimed) /\ InOrder(body.lines)
         => UnderItsChapter(body)

\* A temporary directory is left behind only by a cancellation that falls on
\* the call that makes or removes it, or on a download whose thread goes on
\* (caption_fetcher.py:111-127, audio_fetcher.py:70-86).
TempsAccounted ==
    temps \subseteq excused \union {t.run : t \in threads}
                    \union (IF fetching.at \in {"sound", "whisper", "rmtree"} THEN Mine ELSE {})
=============================================================================

---------------------------- MODULE EntityMerge ----------------------------
(***************************************************************************)
(* Entities: incremental linking of mentions, the periodic pass that       *)
(* merges near-duplicates (application/services/canonicalization.py), the  *)
(* undo of a merge (api/routes/entities.py) and the statements behind them *)
(* (adapters/metadata/sqlite_store.py).                                    *)
(*                                                                         *)
(* Both jobs run in the one worker; undo requests interleave with it at    *)
(* every statement, on the one connection, so that a statement is seen by  *)
(* all at once and any commit keeps what anybody has written so far: db is *)
(* what the connection sees, disk what has been committed.                 *)
(*                                                                         *)
(* Surface forms are numbered in the order of the strings, entities in the *)
(* order of their ids.  One type and one block: an alias joins an entity   *)
(* of its own block only, so that blocks have no entity in common.  A      *)
(* surface form is mentioned once on a page.                               *)
(***************************************************************************)
EXTENDS Naturals, Sequences, FiniteSets

CONSTANTS
    Surfaces,      \* surface forms, a set of numbers
    Norm,          \* normalize_surface_form
    LinkClose,     \* pairs of normalized forms that _best_match takes as one
    MergeClose,    \* pairs that _merge_block takes as one: it has a threshold
                   \* of its own, and the surface embedder may have changed
    Says,          \* per page, the surface forms of its mentions
    Clients,       \* concurrent undo requests
    Clocks,        \* what the wall clock may read at one merge after another: it
                   \* may repeat itself and step back
    MaxLinks,      \* bound: extraction jobs, over a behaviour
    MaxMerges,     \* bound: merges, over a behaviour
    MaxTroubles    \* bound: cancelled handlers, crashes and purges together

ASSUME FormsAssumption ==
    /\ Surfaces \subseteq Nat /\ IsFiniteSet(Surfaces)
    /\ \A s \in Surfaces : Norm[s] \in Surfaces
ASSUME PagesAssumption ==
    /\ IsFiniteSet(DOMAIN Says)
    /\ \A p \in DOMAIN Says : Says[p] \in Seq(Surfaces)
ASSUME ClocksAssumption == Clocks \subseteq Seq(Nat)
ASSUME BoundsAssumption == MaxLinks \in Nat /\ MaxMerges \in Nat /\ MaxTroubles \in Nat

VARIABLES
    db,        \* the tables as the connection sees them
    disk,      \* the tables as committed
    worker,    \* the handler that runs
    client,    \* per request, the undo under way
    linked,    \* history: page and surface form of every mention recorded
    crossed,   \* history: the entities of a merge and an undo that ran at once,
               \* of one that was cut off, of an undo let through before a newer
               \* merge of its target was undone, those that shared a mention,
               \* and what such were merged into or are restored from
    remerged,  \* history: an entity was merged while an undo was restoring it
    used       \* how much of each bound has been used

history == <<linked, crossed, remerged>>
vars == <<db, disk, worker, client, history, used>>

Pages == DOMAIN Says
Idle == [at |-> "idle"]
Use(what) == used' = [used EXCEPT ![what] = @ + 1]
Trouble == used.troubles < MaxTroubles /\ Use("troubles")

Entities == DOMAIN db.entity
AliasesOf(d, e) == {s \in Surfaces : <<s, e>> \in d.alias}
\* An entity without an alias is in no block.
entities_in_block(d) == {e \in DOMAIN d.entity : AliasesOf(d, e) # {}}
block_with_duplicates(d) ==
    IF Cardinality(entities_in_block(d)) > 1 THEN entities_in_block(d) ELSE {}
\* The row of a mention, a page and a surface form, held by an entity.
Row(m, e) == <<m[1], m[2], e>>
MentionsOf(d, e) == {m \in Pages \X Surfaces : Row(m, e) \in d.mention}
Shared(d) == {e \in DOMAIN d.entity : \E o \in DOMAIN d.entity \ {e} :
                 MentionsOf(d, e) \cap MentionsOf(d, o) # {}}
Close(rel, s, t) == Norm[s] = Norm[t] \/ {Norm[s], Norm[t]} \in rel

Init ==
    /\ db = [page |-> Pages, entity |-> <<>>, alias |-> {}, mention |-> {}, merges |-> <<>>]
    /\ disk = db
    /\ worker = Idle
    /\ client = [c \in Clients |-> Idle]
    /\ linked = {}
    /\ crossed = {}
    /\ remerged = FALSE
    /\ used = [links |-> 0, troubles |-> 0, ids |-> 0]

\* The entities of the undos under way, and of the merge.
Undoing(c) == client[c].at \in {"insert", "aliases", "mentions"}
Undone == UNION {{client[c].source, client[c].target} : c \in {c \in Clients : Undoing(c)}}
Restored == {client[c].source : c \in {c \in Clients : client[c].at \in {"aliases", "mentions"}}}
Merging == worker # Idle /\ worker.at \notin {"find", "match", "alias", "create", "merge"}
Merged == IF Merging THEN {worker.source, worker.target} ELSE {}

\* A statement, and a statement with its commit.
Writes(d) == db' = d /\ UNCHANGED disk
Commits(d) == db' = d /\ disk' = d

-----------------------------------------------------------------------------
(* Linking: an exact alias, else a close canonical form, else a new entity.*)
(* worker.todo are the forms to link, worker.links those that are.         *)

At(at) == worker.at = at
Form == Head(worker.todo)
Linked(e) == worker' = [worker EXCEPT !.at = "find", !.todo = Tail(@),
                                      !.links = @ \union {<<Form, e>>}]

Aliased(e) == [at |-> "alias", page |-> worker.page, todo |-> worker.todo,
               links |-> worker.links, entity |-> e]

BeginLink(p) ==
    /\ worker = Idle /\ p \in db.page /\ used.links < MaxLinks
    /\ worker' = [at |-> "find", page |-> p, todo |-> Says[p], links |-> {}]
    /\ Use("links")
    /\ UNCHANGED <<db, disk, client, history>>

\* find_entity_by_alias takes any of several.
FindAlias ==
    LET exact == {e \in Entities : \E s \in AliasesOf(db, e) : Norm[s] = Norm[Form]} IN
    /\ At("find") /\ worker.todo # <<>>
    /\ \/ \E e \in exact :
            worker' = Aliased(e)
       \/ exact = {} /\ worker' = [worker EXCEPT !.at = "match"]
    /\ UNCHANGED <<db, disk, client, history, used>>

MatchBlock ==
    LET close == {e \in entities_in_block(db) : Close(LinkClose, Form, db.entity[e].form)} IN
    /\ At("match")
    /\ \/ \E e \in close :
            worker' = Aliased(e)
       \/ close = {} /\ worker' = [worker EXCEPT !.at = "create"]
    /\ UNCHANGED <<db, disk, client, history, used>>

AddAlias ==
    /\ At("alias")
    /\ Commits([db EXCEPT !.alias = @ \union {<<Form, worker.entity>>}])
    /\ worker' = [at |-> "find", page |-> worker.page, todo |-> Tail(worker.todo),
                  links |-> worker.links \union {<<Form, worker.entity>>}]
    /\ UNCHANGED <<client, history, used>>

Inserted(d, e, form) ==
    [d EXCEPT !.entity = [o \in DOMAIN d.entity \union {e} |->
        IF o \in DOMAIN d.entity THEN d.entity[o] ELSE [form |-> form, count |-> 0]]]

\* A canonical form is unique in its type.
CreateEntity ==
    LET e == used.ids + 1 IN
    /\ At("create")
    /\ \/ /\ \A o \in Entities : db.entity[o].form # Form
          /\ Commits([Inserted(db, e, Form) EXCEPT !.alias = @ \union {<<Form, e>>}])
          /\ Linked(e)
          /\ Use("ids")
       \/ /\ \E o \in Entities : db.entity[o].form = Form
          /\ worker' = Idle
          /\ UNCHANGED <<db, disk, used>>
    /\ UNCHANGED <<client, history>>

Counted(d, S) ==
    [d EXCEPT !.entity = [e \in DOMAIN d.entity |->
        IF e \in S THEN [d.entity[e] EXCEPT !.count = Cardinality(MentionsOf(d, e))]
                   ELSE d.entity[e]]]

\* add_mentions; the page may have been purged meanwhile.  A mention that is
\* linked again, beside or after an undo, may go to another entity.
AddMentions ==
    LET p == worker.page
        rows == {<<p, l[1], l[2]>> : l \in worker.links}
        after == [db EXCEPT !.mention = @ \union rows]
    IN
    /\ At("find") /\ worker.todo = <<>>
    /\ IF p \in db.page
       THEN /\ Commits(Counted(after, {l[2] : l \in worker.links}))
            /\ linked' = linked \union {<<p, l[1]>> : l \in worker.links}
            /\ crossed' = crossed \union Shared(after)
                         \union (IF Shared(after) \cap Undone = {} THEN {} ELSE Undone)
       ELSE UNCHANGED <<db, disk, linked, crossed>>
    /\ worker' = Idle
    /\ UNCHANGED <<client, remerged, used>>

-----------------------------------------------------------------------------
(* The periodic pass: groups of close canonical forms, each merged into    *)
(* the member that is mentioned most.                                      *)

\* Single linkage, the connected component of e: what is in every set that has
\* e and all that is close to a member.
Near(e, o) == Close(MergeClose, db.entity[e].form, db.entity[o].form)
Group(es, e) ==
    {o \in es : \A C \in SUBSET es :
        e \in C /\ (\A q \in C, r \in es : Near(q, r) => r \in C) => o \in C}

Better(e, o) == \/ db.entity[e].count > db.entity[o].count
                \/ db.entity[e].count = db.entity[o].count /\ e <= o
Target(group) == CHOOSE e \in group : \A o \in group : Better(e, o)

\* The order in which the sources are merged is left open.
ReadBlock ==
    LET es == block_with_duplicates(db)
        Into(e) == Target(Group(es, e))
        plan == {<<e, Into(e)>> : e \in {e \in es : Into(e) # e}}
    IN
    /\ worker = Idle /\ plan # {} /\ Len(db.merges) + Cardinality(plan) <= MaxMerges
    /\ worker' = [at |-> "merge", plan |-> plan]
    /\ UNCHANGED <<db, disk, client, history, used>>

\* The entity, its aliases and its mentions are read; a source that is gone
\* fails the job.
MergeRead(m) ==
    LET s == m[1] IN
    /\ At("merge") /\ m \in worker.plan
    /\ \/ /\ s \in Entities
          /\ worker' = [at |-> "log", plan |-> worker.plan \ {m}, source |-> s, target |-> m[2],
                        form |-> db.entity[s].form, aliases |-> AliasesOf(db, s),
                        mentions |-> MentionsOf(db, s)]
          /\ crossed' = IF Undone = {} /\ s \notin crossed THEN crossed
                        ELSE crossed \union Undone \union {s, m[2]}
          /\ remerged' = (remerged \/ s \in Restored)
       \/ s \notin Entities /\ worker' = Idle /\ UNCHANGED <<crossed, remerged>>
    /\ UNCHANGED <<db, disk, client, linked, used>>

S == worker.source
T == worker.target

MergeStep(at, next, d) ==
    /\ At(at)
    /\ Writes(d)
    /\ worker' = [worker EXCEPT !.at = next]
    /\ UNCHANGED <<client, history, used>>

\* The row has the time the clock gave it, whatever it gave the rows before.
Logged(now) ==
    [db EXCEPT !.merges = Append(@, [source |-> S, target |-> T, form |-> worker.form,
                                     aliases |-> worker.aliases, mentions |-> worker.mentions,
                                     at |-> now, undone |-> FALSE])]
MergeLog == At("log") /\ \E clock \in Clocks :
    LET n == Len(db.merges) IN
    /\ n < Len(clock) /\ \A k \in 1..n : db.merges[k].at = clock[k]
    /\ MergeStep("log", "move_aliases", Logged(clock[n + 1]))

\* UPDATE OR IGNORE: what the target has already stays with the source.
MoveAliases == At("move_aliases") /\ MergeStep("move_aliases", "drop_aliases",
    [db EXCEPT !.alias = {a \in @ : a[2] # S \/ <<a[1], T>> \in @}
                         \union {<<s, T>> : s \in AliasesOf(db, S)}])

DropAliases == At("drop_aliases") /\ MergeStep("drop_aliases", "copy_mentions",
    [db EXCEPT !.alias = {a \in @ : a[2] # S}])

\* Mutant: the mentions of the source are deleted first.
DropFirst == At("copy_mentions") /\ MergeStep("copy_mentions", "drop_mentions",
    [db EXCEPT !.mention = {r \in @ : r[3] # S}])

CopyMentions == At("copy_mentions") /\ MergeStep("copy_mentions", "drop_mentions",
    [db EXCEPT !.mention = @ \union {Row(m, T) : m \in MentionsOf(db, S)}])

DropMentions == At("drop_mentions") /\ MergeStep("drop_mentions", "drop_entity",
    [db EXCEPT !.mention = {r \in @ : r[3] # S}])

\* The deletion cascades to what refers to the entity.
DropEntity == At("drop_entity") /\ MergeStep("drop_entity", "finish_merge",
    [db EXCEPT !.entity = [e \in DOMAIN @ \ {S} |-> @[e]],
               !.alias = {a \in @ : a[2] # S},
               !.mention = {r \in @ : r[3] # S}])

\* _recompute_canonical_form: the form mentioned most, the first of several;
\* UPDATE OR IGNORE leaves the entity its form when another one has the new.
Most(d, e) ==
    LET times(s) == Cardinality({p \in Pages : <<p, s, e>> \in d.mention})
        forms == {m[2] : m \in MentionsOf(d, e)}
    IN  CHOOSE s \in forms : \A t \in forms :
            times(s) > times(t) \/ (times(s) = times(t) /\ s <= t)
Recomputed(d, e) ==
    IF \/ e \notin DOMAIN d.entity \/ MentionsOf(d, e) = {}
       \/ \E o \in DOMAIN d.entity \ {e} : d.entity[o].form = Most(d, e)
    THEN d
    ELSE [d EXCEPT !.entity[e].form = Most(d, e)]

FinishMerge ==
    /\ At("finish_merge")
    /\ Commits(Counted(Recomputed(db, T), {T}))
    /\ worker' = IF worker.plan = {} THEN Idle ELSE [at |-> "merge", plan |-> worker.plan]
    /\ UNCHANGED <<client, history, used>>

-----------------------------------------------------------------------------
(* undo_merge, statement by statement.                                     *)

Undoes(c, at) == client[c].at = at
UndoNext(c, at) == client' = [client EXCEPT ![c].at = at]
UndoEnds(c, how) == client' = [client EXCEPT ![c] = [Idle EXCEPT !.at = how]]

\* The merges not undone that have to do with the target of merge i; that one
\* of them has a later time, which is what the code asks for; and that one came
\* later without one.
Touching(i) == {k \in DOMAIN db.merges : ~db.merges[k].undone
                   /\ db.merges[i].target \in {db.merges[k].target, db.merges[k].source}}
Later(i) == \E k \in Touching(i) : db.merges[k].at > db.merges[i].at
Misled(i) == \E k \in Touching(i) : k > i /\ db.merges[k].at <= db.merges[i].at

Undo(c, i) ==
    LET m == db.merges[i] IN
    /\ client' = [client EXCEPT ![c] = [at |-> "insert", merge |-> i, source |-> m.source,
                                        target |-> m.target, todo |-> m.mentions]]
    /\ crossed' = IF ~Merging /\ {m.source, m.target} \cap crossed = {} /\ ~Misled(i) THEN crossed
                  ELSE crossed \union Merged \union {m.source, m.target}
                       \union (IF Misled(i) THEN Undone ELSE {})
    /\ UNCHANGED <<db, disk, worker, linked, remerged, used>>

\* Mutant: merges may be undone in any order.
UndoAnyCheck(c, i) ==
    /\ ~Undoing(c) /\ ~db.merges[i].undone
    /\ Undo(c, i)

\* Newest first, as far as the times tell; what is out of order by them is
\* answered with 409.
UndoCheck(c, i) ==
    /\ ~Undoing(c) /\ ~db.merges[i].undone /\ ~Later(i)
    /\ Undo(c, i)

\* The id may be taken, by a merge cut off before it deleted its source, and
\* the canonical form, by the target the merge gave it to.
UndoInsert(c) ==
    LET m == db.merges[client[c].merge]
        free == m.source \notin Entities /\ \A o \in Entities : db.entity[o].form # m.form
    IN
    /\ Undoes(c, "insert")
    /\ IF free
       THEN /\ Writes(Inserted(db, m.source, m.form))
            /\ UndoNext(c, "aliases")
       ELSE UNCHANGED <<db, disk>> /\ UndoEnds(c, "failed")
    /\ UNCHANGED <<worker, history, used>>

UndoAliases(c) ==
    LET u == client[c]
        back == {s \in db.merges[u.merge].aliases :
                    <<s, u.target>> \in db.alias /\ <<s, u.source>> \notin db.alias}
    IN
    /\ Undoes(c, "aliases")
    /\ IF back = {} \/ u.source \in Entities
       THEN /\ Writes([db EXCEPT !.alias = (@ \ {<<s, u.target>> : s \in back})
                                           \union {<<s, u.source>> : s \in back}])
            /\ UndoNext(c, "mentions")
       ELSE UNCHANGED <<db, disk>> /\ UndoEnds(c, "failed")
    /\ UNCHANGED <<worker, history, used>>

\* One statement per mention; UPDATE OR IGNORE leaves a row that the source
\* has, and cannot move one to an entity that is gone.
UndoMention(c) ==
    LET u == client[c]
        here(m) == Row(m, u.target)
        there(m) == Row(m, u.source)
        moves(m) == here(m) \in db.mention /\ there(m) \notin db.mention
    IN
    /\ Undoes(c, "mentions")
    /\ \E m \in u.todo :
        \/ /\ moves(m) => u.source \in Entities
           /\ Writes(IF moves(m)
                     THEN [db EXCEPT !.mention = (@ \ {here(m)}) \union {there(m)}]
                     ELSE db)
           /\ client' = [client EXCEPT ![c].todo = @ \ {m}]
        \/ /\ moves(m) /\ u.source \notin Entities
           /\ UNCHANGED <<db, disk>>
           /\ UndoEnds(c, "failed")
    /\ UNCHANGED <<worker, history, used>>

UndoFinish(c) ==
    LET u == client[c] IN
    /\ Undoes(c, "mentions") /\ u.todo = {}
    /\ Commits(Counted(Recomputed([db EXCEPT !.merges[u.merge].undone = TRUE], u.target),
                       {u.source, u.target}))
    /\ UndoEnds(c, "idle")
    /\ UNCHANGED <<worker, history, used>>

-----------------------------------------------------------------------------
(* What happens beside them.                                               *)

\* purge_and_blacklist: the mentions of the page go with it, the counts stay.
Purge(p) ==
    /\ p \in db.page
    /\ Trouble
    /\ Commits([db EXCEPT !.page = @ \ {p}, !.mention = {r \in @ : r[1] # p}])
    /\ UNCHANGED <<worker, client, history>>

\* The lease of the job runs out: what was written is committed by the note
\* that the job failed.
Cancel ==
    /\ worker # Idle
    /\ Trouble
    /\ worker' = Idle
    /\ Commits(db)
    /\ crossed' = crossed \union Merged
    /\ UNCHANGED <<client, linked, remerged>>

Crash ==
    /\ Trouble
    /\ worker' = Idle
    /\ client' = [c \in Clients |-> Idle]
    /\ db' = disk
    /\ crossed' = crossed \union Merged \union Undone
    /\ UNCHANGED <<disk, linked, remerged>>

Link ==
    \/ \E p \in Pages : BeginLink(p)
    \/ FindAlias \/ MatchBlock \/ AddAlias \/ CreateEntity \/ AddMentions

Canonicalize ==
    \/ ReadBlock
    \/ At("merge") /\ \E m \in worker.plan : MergeRead(m)
    \/ MergeLog \/ MoveAliases \/ DropAliases \/ CopyMentions \/ DropMentions
    \/ DropEntity \/ FinishMerge

UndoRequest == \E c \in Clients :
    \/ \E i \in DOMAIN db.merges : UndoCheck(c, i)
    \/ UndoInsert(c) \/ UndoAliases(c) \/ UndoMention(c) \/ UndoFinish(c)

Next ==
    \/ Link
    \/ Canonicalize
    \/ UndoRequest
    \/ \E p \in Pages : Purge(p)
    \/ Cancel
    \/ Crash

Spec == Init /\ [][Next]_vars

-----------------------------------------------------------------------------
(* Properties.                                                             *)

\* A mention that was recorded is held by an entity for as long as its page is
\* there: through merges, undos between and beside them, handlers cancelled at
\* any statement and crashes (sqlite_store.py:491-511, 560-605).  Not when an
\* entity that an undo is restoring is merged again before the undo is over:
\* its deletion cascades to the rows the undo has moved to it.  With the same
\* exception "references survive merges" (api/routes/entities.py:48): what was
\* once linked resolves to an entity as an alias.
MentionsKept ==
    /\ db.alias \subseteq Surfaces \X Entities /\ db.mention \subseteq Pages \X Surfaces \X Entities
    /\ ~remerged => \A m \in linked :
          /\ m[1] \in db.page => \E e \in Entities : Row(m, e) \in db.mention
          /\ \E e \in Entities : <<m[2], e>> \in db.alias

\* An undo that succeeds gives the entity back every mention it had when it was
\* merged and whose page is still there: what the newest-first rule is for
\* (sqlite_store.py:538-551).  Not to crossed entities, which nothing guards in
\* the code: those of a merge and an undo that ran at once, of one that was cut
\* off, and of an undo that the rule let through although a newer merge of its
\* target stood, the two times being equal or the wrong way round (line 537).
UndoRestores ==
    [][\A c \in Clients :
         LET u == client[c] IN
         Undoing(c) /\ {u.source, u.target} \cap crossed = {} /\ ~db.merges[u.merge].undone /\ db'.merges[u.merge].undone =>
            \A m \in db.merges[u.merge].mentions :
                m[1] \in db.page => Row(m, u.source) \in db'.mention]_vars
=============================================================================

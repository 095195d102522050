-------------------------- MODULE EntityMergeProofs --------------------------
(***************************************************************************)
(* Two theorems about EntityMerge, for every set of pages, surface forms   *)
(* and clients, whatever is close to what, and every bound: linking,       *)
(* merges and undos lose no mention and no alias, and an undo gives back   *)
(* what a merge took.                                                      *)
(***************************************************************************)
EXTENDS EntityMerge, FiniteSetTheorems, WellFoundedInduction, TLAPS

Bound == Cardinality(Pages \X Surfaces)
EntityRow == [form : Surfaces, count : 0..Bound]
MergeRow == [source : Nat, target : Nat, form : Surfaces, aliases : SUBSET Surfaces,
             mentions : SUBSET (Pages \X Surfaces), at : Nat, undone : BOOLEAN]

\* The tables, and that rows of aliases and mentions are of entities there are.
Fits(d) ==
    /\ d = [page |-> d.page, entity |-> d.entity, alias |-> d.alias,
            mention |-> d.mention, merges |-> d.merges]
    /\ d.page \subseteq Pages
    /\ DOMAIN d.entity \subseteq Nat /\ d.entity \in [DOMAIN d.entity -> EntityRow]
    /\ d.alias \subseteq Surfaces \X DOMAIN d.entity
    /\ d.mention \subseteq Pages \X Surfaces \X DOMAIN d.entity
    /\ d.merges \in Seq(MergeRow)

Named(d, s) == \E e \in DOMAIN d.entity : <<s, e>> \in d.alias
Held(d, m) == \E e \in DOMAIN d.entity : Row(m, e) \in d.mention
Kept(d) == \A m \in linked : Named(d, m[2]) /\ (m[1] \in d.page => Held(d, m))

\* The merges still to do, the one under way among them: no entity is both.
Plan == IF Merging THEN worker.plan \union {<<S, T>>} ELSE worker.plan
MergeSteps == {"log", "move_aliases", "drop_aliases", "copy_mentions", "drop_mentions",
               "drop_entity", "finish_merge"}

WorkerTyped ==
    \/ worker = Idle
    \/ worker \in [at : {"find", "match", "create"}, page : Pages, todo : Seq(Surfaces),
                   links : SUBSET (Surfaces \X Nat)]
    \/ worker \in [at : {"alias"}, page : Pages, todo : Seq(Surfaces),
                   links : SUBSET (Surfaces \X Nat), entity : Nat]
    \/ worker \in [at : {"merge"}, plan : SUBSET (Nat \X Nat)]
    \/ worker \in [at : MergeSteps, plan : SUBSET (Nat \X Nat), source : Nat, target : Nat,
                   form : Surfaces, aliases : SUBSET Surfaces,
                   mentions : SUBSET (Pages \X Surfaces)]

\* A request, idle or at the undo of a merge in d.
Asks(r, d) ==
    \/ r \in [at : {"idle", "failed"}]
    \/ /\ r \in [at : {"insert", "aliases", "mentions"}, merge : DOMAIN d.merges,
                 source : Nat, target : Nat, todo : SUBSET (Pages \X Surfaces)]
       /\ r.source = d.merges[r.merge].source
ClientTyped == \A c \in Clients : Asks(client[c], db)

Typed == /\ WorkerTyped
         /\ DOMAIN client = Clients /\ ClientTyped
         /\ linked \subseteq Pages \X Surfaces
         /\ used \in [links : Nat, troubles : Nat, ids : Nat]
         /\ remerged \in BOOLEAN

\* What the linker has in hand: entities that are there, forms that are aliases.
LinkHolds ==
    /\ worker.at \in {"find", "match", "create", "alias"} =>
          \A l \in worker.links : l[2] \in Entities /\ Named(db, l[1])
    /\ worker.at \in {"match", "create", "alias"} => worker.todo # <<>>
    /\ worker.at = "alias" => worker.entity \in Entities

\* What an alias or a mention of the source is about, some other entity has.
SourceCovered ==
    /\ ~ remerged /\ worker.at \in {"drop_aliases", "copy_mentions", "drop_mentions", "drop_entity"} =>
          \A s \in AliasesOf(db, S) : \E e \in Entities \ {S} : <<s, e>> \in db.alias
    /\ ~ remerged /\ worker.at \in {"drop_mentions", "drop_entity"} =>
          \A m \in MentionsOf(db, S) : \E e \in Entities \ {S} : Row(m, e) \in db.mention

\* What the merge relies on: its target stays, and so does what it has copied.
MergeHolds ==
    /\ worker.at \in {"merge"} \union MergeSteps =>
          \A m, n \in Plan : m[2] \in Entities /\ m[2] # n[1]
    /\ worker.at \in MergeSteps \ {"finish_merge"} =>
          S \in Entities /\ (remerged \/ S \notin Restored)
    /\ SourceCovered

EntityInv ==
    /\ Fits(db) /\ Fits(disk) /\ Typed
    /\ ~ remerged => Kept(db) /\ Kept(disk)
    /\ LinkHolds /\ MergeHolds

-----------------------------------------------------------------------------
(* Choices: the best of some numbers by a score, and what a group is.      *)

\* Among numbers with a bounded score there is one with the best score, the
\* least of several.
LEMMA BestExists ==
    ASSUME NEW F \in SUBSET Nat, F # {}, NEW B \in Nat, NEW f \in [F -> 0..B]
    PROVE  \E x \in F : \A y \in F : f[x] > f[y] \/ (f[x] = f[y] /\ x <= y)
<1>1. IsWellFoundedOn(OpToRel(<, Nat), Nat)
  BY NatLessThanWellFounded
<1> DEFINE Gaps == {n \in Nat : \E x \in F : n = B - f[x]}
<1>2. PICK g \in Gaps : \A h \in Gaps : ~ (<<h, g>> \in OpToRel(<, Nat))
  <2>1. Gaps # {}
    <3>1. PICK x \in F : TRUE
      OBVIOUS
    <3>2. B - f[x] \in Nat
      OBVIOUS
    <3>3. QED
      BY <3>2
  <2> HIDE DEF Gaps
  <2>2. Gaps \in SUBSET Nat
    BY DEF Gaps
  <2>3. QED
    BY <1>1, <2>1, <2>2, WFMin
<1>3. \A x \in F : g <= B - f[x]
  <2>1. \A x \in F : B - f[x] \in Gaps
    OBVIOUS
  <2>2. \A h \in Gaps : ~ (h < g)
    BY <1>2 DEF OpToRel
  <2>3. QED
    BY <2>1, <2>2
<1> DEFINE Firsts == {x \in F : B - f[x] = g}
<1>4. PICK x \in Firsts : \A y \in Firsts : ~ (<<y, x>> \in OpToRel(<, Nat))
  <2>1. Firsts # {}
    OBVIOUS
  <2> HIDE DEF Firsts
  <2>2. Firsts \in SUBSET Nat
    BY DEF Firsts
  <2>3. QED
    BY <1>1, <2>1, <2>2, WFMin
<1>5. \A y \in Firsts : x <= y
  <2>1. \A y \in Firsts : ~ (y < x)
    BY <1>4 DEF OpToRel
  <2>2. QED
    BY <2>1
<1>6. ASSUME NEW y \in F
      PROVE  f[x] > f[y] \/ (f[x] = f[y] /\ x <= y)
  <2>1. x \in F /\ B - f[x] = g /\ B - f[y] >= g /\ f[x] \in 0..B /\ f[y] \in 0..B
    BY <1>3
  <2>2. CASE B - f[y] = g
    BY <1>5, <2>1, <2>2
  <2>3. CASE B - f[y] > g
    BY <2>1, <2>3
  <2>4. QED
    BY <2>1, <2>2, <2>3
<1>7. QED
  BY <1>6

\* Closeness goes both ways.
LEMMA NearBothWays == \A e, o : Near(e, o) <=> Near(o, e)
<1>1. \A x, y : {x, y} = {y, x}
  OBVIOUS
<1>2. QED
  BY <1>1 DEF Near, Close

\* Groups are classes: a member has the same group.
LEMMA GroupsAreClasses ==
    ASSUME NEW es, NEW e \in es
    PROVE  /\ e \in Group(es, e) /\ Group(es, e) \subseteq es
           /\ \A o \in Group(es, e) : Group(es, o) = Group(es, e)
<1> DEFINE Closed(C) == \A q \in C, r \in es : Near(q, r) => r \in C
<1>1. \A o : /\ Group(es, o) = {x \in es : \A C \in SUBSET es : o \in C /\ Closed(C) => x \in C}
  BY DEF Group
<1> HIDE DEF Closed
<1>2. ASSUME NEW o \in Group(es, e)
      PROVE  Group(es, o) = Group(es, e)
  <2>1. o \in es /\ \A C \in SUBSET es : e \in C /\ Closed(C) => o \in C
    BY <1>1
  <2>2. ASSUME NEW C \in SUBSET es, o \in C, Closed(C)
        PROVE  e \in C
    <3>1. SUFFICES ASSUME e \notin C PROVE FALSE
      OBVIOUS
    <3>2. Closed(es \ C)
      BY <2>2, NearBothWays DEF Closed
    <3>3. QED
      BY <2>1, <2>2, <3>1, <3>2
  <2>3. \A C \in SUBSET es : Closed(C) => (o \in C <=> e \in C)
    BY <2>1, <2>2
  <2>4. QED
    BY <1>1, <2>3
<1>3. QED
  BY <1>1, <1>2

-----------------------------------------------------------------------------
(* The counts and the canonical form: nothing else of the tables changes.  *)

LEMMA BoundIsNat ==
    /\ IsFiniteSet(Pages) /\ IsFiniteSet(Surfaces) /\ IsFiniteSet(Pages \X Surfaces)
    /\ Bound \in Nat
<1>1. IsFiniteSet(Pages) /\ IsFiniteSet(Surfaces)
  BY PagesAssumption, FormsAssumption DEF Pages
<1>2. IsFiniteSet(Pages \X Surfaces)
  BY <1>1, FS_Product
<1>3. QED
  BY <1>1, <1>2, FS_CardinalityType DEF Bound

LEMMA CountIsBounded ==
    \A d, e : Cardinality(MentionsOf(d, e)) \in 0..Bound
<1> SUFFICES ASSUME NEW d, NEW e PROVE Cardinality(MentionsOf(d, e)) \in 0..Bound
  OBVIOUS
<1>1. MentionsOf(d, e) \in SUBSET (Pages \X Surfaces)
  BY DEF MentionsOf
<1>2. IsFiniteSet(MentionsOf(d, e)) /\ Cardinality(MentionsOf(d, e)) <= Bound
  BY <1>1, BoundIsNat, FS_Subset DEF Bound
<1>3. Cardinality(MentionsOf(d, e)) \in Nat
  BY <1>2, FS_CardinalityType
<1>4. QED
  BY <1>2, <1>3, BoundIsNat

SameRows(d, b) == /\ d.page = b.page /\ d.alias = b.alias /\ d.mention = b.mention
                  /\ DOMAIN d.entity = DOMAIN b.entity /\ d.merges = b.merges

LEMMA CountedKeeps ==
    ASSUME NEW d, Fits(d), NEW E
    PROVE  Fits(Counted(d, E)) /\ SameRows(Counted(d, E), d)
<1> DEFINE F == [e \in DOMAIN d.entity |->
                    IF e \in E THEN [d.entity[e] EXCEPT !.count = Cardinality(MentionsOf(d, e))]
                               ELSE d.entity[e]]
<1>1. F \in [DOMAIN d.entity -> EntityRow]
  BY CountIsBounded DEF Fits, EntityRow
<1> HIDE DEF F
<1>2. DOMAIN F = DOMAIN d.entity
  BY <1>1
<1>3. Counted(d, E) = [d EXCEPT !.entity = F]
  BY DEF Counted, F
<1>4. Counted(d, E) = [page |-> d.page, entity |-> F, alias |-> d.alias,
                       mention |-> d.mention, merges |-> d.merges]
  BY <1>3 DEF Fits
<1>5. QED
  BY <1>1, <1>2, <1>4 DEF Fits, SameRows

LEMMA MostIsForm ==
    ASSUME NEW d, NEW e, MentionsOf(d, e) # {}
    PROVE  Most(d, e) \in Surfaces
<1> DEFINE forms == {m[2] : m \in MentionsOf(d, e)}
           times(s) == Cardinality({p \in Pages : <<p, s, e>> \in d.mention})
           f == [s \in forms |-> times(s)]
           B == Cardinality(Pages)
<1>1. forms # {} /\ forms \in SUBSET Surfaces
  BY DEF MentionsOf
<1>2. B \in Nat
  BY BoundIsNat, FS_CardinalityType
<1>3. \A s : times(s) \in 0..B
  <2> SUFFICES ASSUME NEW s PROVE times(s) \in 0..B
    OBVIOUS
  <2> DEFINE ps == {p \in Pages : <<p, s, e>> \in d.mention}
  <2>1. ps \in SUBSET Pages
    OBVIOUS
  <2> HIDE DEF ps
  <2>2. IsFiniteSet(ps) /\ Cardinality(ps) <= B
    BY <2>1, BoundIsNat, FS_Subset
  <2>3. Cardinality(ps) \in Nat
    BY <2>2, FS_CardinalityType
  <2>4. QED
    BY <1>2, <2>2, <2>3 DEF ps
<1> HIDE DEF B, times, forms
<1>4. f \in [forms -> 0..B] /\ \A s \in forms : f[s] = times(s)
  BY <1>3
<1>5. forms \in SUBSET Nat
  BY <1>1, FormsAssumption
<1> HIDE DEF f
<1>6. \E s \in forms : \A t \in forms : f[s] > f[t] \/ (f[s] = f[t] /\ s <= t)
  BY <1>1, <1>2, <1>4, <1>5, BestExists
<1>7. \E s \in forms : \A t \in forms : times(s) > times(t) \/ (times(s) = times(t) /\ s <= t)
  BY <1>4, <1>6
<1>8. (CHOOSE s \in forms : \A t \in forms :
          times(s) > times(t) \/ (times(s) = times(t) /\ s <= t)) \in forms
  BY <1>7
<1>9. Most(d, e) = CHOOSE s \in forms : \A t \in forms :
          times(s) > times(t) \/ (times(s) = times(t) /\ s <= t)
  BY DEF Most, forms, times
<1>10. QED
  BY <1>1, <1>8, <1>9

LEMMA RecomputedKeeps ==
    ASSUME NEW d, Fits(d), NEW e
    PROVE  Fits(Recomputed(d, e)) /\ SameRows(Recomputed(d, e), d)
<1>1. CASE Recomputed(d, e) = d
  BY <1>1 DEF SameRows
<1>2. CASE Recomputed(d, e) # d
  <2>1. /\ e \in DOMAIN d.entity /\ MentionsOf(d, e) # {}
        /\ Recomputed(d, e) = [d EXCEPT !.entity[e].form = Most(d, e)]
    BY <1>2 DEF Recomputed
  <2> DEFINE F == [d.entity EXCEPT ![e].form = Most(d, e)]
  <2>2. Most(d, e) \in Surfaces
    BY <2>1, MostIsForm
  <2>3. F \in [DOMAIN d.entity -> EntityRow]
    BY <2>1, <2>2 DEF Fits, EntityRow
  <2>4. Recomputed(d, e) = [d EXCEPT !.entity = F]
    BY <2>1 DEF Fits
  <2> HIDE DEF F
  <2>5. Recomputed(d, e) = [page |-> d.page, entity |-> F, alias |-> d.alias,
                            mention |-> d.mention, merges |-> d.merges]
    BY <2>4 DEF Fits
  <2>6. DOMAIN F = DOMAIN d.entity
    BY <2>3
  <2>7. QED
    BY <2>3, <2>5, <2>6 DEF Fits, SameRows
<1>3. QED
  BY <1>1, <1>2

LEMMA InsertedKeeps ==
    ASSUME NEW d, Fits(d), NEW e \in Nat, NEW form \in Surfaces
    PROVE  /\ Fits(Inserted(d, e, form))
           /\ DOMAIN Inserted(d, e, form).entity = DOMAIN d.entity \union {e}
           /\ Inserted(d, e, form).page = d.page /\ Inserted(d, e, form).alias = d.alias
           /\ Inserted(d, e, form).mention = d.mention /\ Inserted(d, e, form).merges = d.merges
<1> DEFINE F == [o \in DOMAIN d.entity \union {e} |->
                    IF o \in DOMAIN d.entity THEN d.entity[o] ELSE [form |-> form, count |-> 0]]
<1>1. F \in [DOMAIN d.entity \union {e} -> EntityRow]
  BY BoundIsNat DEF Fits, EntityRow
<1>2. Inserted(d, e, form) = [d EXCEPT !.entity = F]
  BY DEF Inserted
<1> HIDE DEF F
<1>3. Inserted(d, e, form) = [page |-> d.page, entity |-> F, alias |-> d.alias,
                              mention |-> d.mention, merges |-> d.merges]
  BY <1>2 DEF Fits
<1>4. DOMAIN F = DOMAIN d.entity \union {e}
  BY <1>1
<1>5. DOMAIN F \subseteq Nat /\ F \in [DOMAIN F -> EntityRow]
  BY <1>1, <1>4 DEF Fits
<1>6. QED
  BY <1>3, <1>4, <1>5 DEF Fits

-----------------------------------------------------------------------------
(* One table is written.                                                   *)

LEMMA WithAlias ==
    ASSUME NEW d, Fits(d), NEW x
    PROVE  [d EXCEPT !.alias = x] =
               [page |-> d.page, entity |-> d.entity, alias |-> x,
                mention |-> d.mention, merges |-> d.merges]
BY DEF Fits

LEMMA WithMention ==
    ASSUME NEW d, Fits(d), NEW x
    PROVE  [d EXCEPT !.mention = x] =
               [page |-> d.page, entity |-> d.entity, alias |-> d.alias,
                mention |-> x, merges |-> d.merges]
BY DEF Fits

LEMMA WithMerges ==
    ASSUME NEW d, Fits(d), NEW x
    PROVE  [d EXCEPT !.merges = x] =
               [page |-> d.page, entity |-> d.entity, alias |-> d.alias,
                mention |-> d.mention, merges |-> x]
BY DEF Fits

\* Two tables at once.
LEMMA SameFunction ==
    ASSUME NEW D, NEW f, NEW g, f = [k \in D |-> f[k]], g = [k \in D |-> g[k]],
           \A k \in D : f[k] = g[k]
    PROVE  f = g
OBVIOUS

LEMMA WithRows ==
    ASSUME NEW d, Fits(d), NEW x, NEW y, NEW z
    PROVE  [d EXCEPT !.entity = x, !.alias = y, !.mention = z] =
               [page |-> d.page, entity |-> x, alias |-> y, mention |-> z,
                merges |-> d.merges]
<1> DEFINE Tables == {"page", "entity", "alias", "mention", "merges"}
           b == [d EXCEPT !.entity = x, !.alias = y, !.mention = z]
           r == [page |-> d.page, entity |-> x, alias |-> y, mention |-> z,
                 merges |-> d.merges]
<1>1. DOMAIN b = Tables /\ DOMAIN r = Tables
  BY DEF Fits
<1>2. /\ b.page = r.page /\ b.entity = r.entity /\ b.alias = r.alias
      /\ b.mention = r.mention /\ b.merges = r.merges
  BY DEF Fits
<1>3. b = [k \in DOMAIN b |-> b[k]] /\ r = [k \in DOMAIN r |-> r[k]]
  OBVIOUS
<1> HIDE DEF b, r
<1>4. \A k \in Tables : b[k] = r[k]
  BY <1>2
<1>5. b = r
  BY <1>1, <1>3, <1>4, SameFunction
<1>6. QED
  BY <1>5 DEF b, r

LEMMA WithoutPage ==
    ASSUME NEW d, Fits(d), NEW x, NEW z
    PROVE  [d EXCEPT !.page = x, !.mention = z] =
               [page |-> x, entity |-> d.entity, alias |-> d.alias, mention |-> z,
                merges |-> d.merges]
<1> DEFINE Tables == {"page", "entity", "alias", "mention", "merges"}
           b == [d EXCEPT !.page = x, !.mention = z]
           r == [page |-> x, entity |-> d.entity, alias |-> d.alias, mention |-> z,
                 merges |-> d.merges]
<1>1. DOMAIN b = Tables /\ DOMAIN r = Tables
  BY DEF Fits
<1>2. /\ b.page = r.page /\ b.entity = r.entity /\ b.alias = r.alias
      /\ b.mention = r.mention /\ b.merges = r.merges
  BY DEF Fits
<1>3. b = [k \in DOMAIN b |-> b[k]] /\ r = [k \in DOMAIN r |-> r[k]]
  OBVIOUS
<1> HIDE DEF b, r
<1>4. \A k \in Tables : b[k] = r[k]
  BY <1>2
<1>5. b = r
  BY <1>1, <1>3, <1>4, SameFunction
<1>6. QED
  BY <1>5 DEF b, r

-----------------------------------------------------------------------------
(* The plan of a pass: what is merged into is merged nowhere.              *)

LEMMA TargetIsMember ==
    ASSUME Fits(db), NEW g \in SUBSET Entities, g # {}
    PROVE  Target(g) \in g
<1> DEFINE f == [e \in g |-> db.entity[e].count]
<1>1. f \in [g -> 0..Bound] /\ g \in SUBSET Nat /\ \A e \in g : f[e] = db.entity[e].count
  BY DEF Fits, Entities, EntityRow
<1> HIDE DEF f
<1>2. \E e \in g : \A o \in g : f[e] > f[o] \/ (f[e] = f[o] /\ e <= o)
  BY <1>1, BoundIsNat, BestExists
<1>3. \E e \in g : \A o \in g : Better(e, o)
  BY <1>1, <1>2 DEF Better
<1>4. (CHOOSE e \in g : \A o \in g : Better(e, o)) \in g
  BY <1>3
<1>5. QED
  BY <1>4 DEF Target

LEMMA TargetStays ==
    ASSUME Fits(db), NEW es \in SUBSET Entities, NEW e \in es
    PROVE  /\ Target(Group(es, e)) \in es
           /\ Target(Group(es, Target(Group(es, e)))) = Target(Group(es, e))
<1>1. e \in Group(es, e) /\ Group(es, e) \subseteq es
  BY GroupsAreClasses
<1>2. Target(Group(es, e)) \in Group(es, e)
  BY <1>1, TargetIsMember
<1>3. Group(es, Target(Group(es, e))) = Group(es, e)
  BY <1>2, GroupsAreClasses
<1>4. QED
  BY <1>1, <1>2, <1>3

-----------------------------------------------------------------------------
(* What a step of the tables leaves.                                       *)

\* From b to d, no name is lost, nor a mention of a page that is still there.
Preserved(b, d) ==
    /\ d.page \subseteq b.page
    /\ \A s : Named(b, s) => Named(d, s)
    /\ \A m : m[1] \in d.page /\ Held(b, m) => Held(d, m)

LEMMA KeptOn ==
    ASSUME NEW b, NEW d, Preserved(b, d), Kept(b)
    PROVE  Kept(d)
BY DEF Preserved, Kept

-----------------------------------------------------------------------------
(* Linking.                                                                *)

\* What the worker does not write stays as it is.
LEMMA WorkerReads ==
    ASSUME EntityInv, db' = db, disk' = disk, client' = client, linked' = linked,
           remerged \in BOOLEAN => remerged' \in BOOLEAN /\ (remerged => remerged'),
           used' \in [links : Nat, troubles : Nat, ids : Nat],
           WorkerTyped', LinkHolds', MergeHolds'
    PROVE  EntityInv'
<1>1. Fits(db)' /\ Fits(disk)'
  BY DEF EntityInv, Fits
<1>2. Typed'
  BY DEF EntityInv, Typed, ClientTyped, Asks
<1>3. (~ remerged)' => Kept(db)' /\ Kept(disk)'
  BY DEF EntityInv, Typed, Kept, Named, Held
<1>4. QED
  BY <1>1, <1>2, <1>3 DEF EntityInv

LEMMA LinkReads ==
    ASSUME EntityInv, (\E p \in Pages : BeginLink(p)) \/ FindAlias \/ MatchBlock
    PROVE  EntityInv'
<1> USE DEF At
<1>1. /\ db' = db /\ disk' = disk /\ client' = client /\ linked' = linked
      /\ remerged' = remerged
  BY DEF BeginLink, FindAlias, MatchBlock, history
<1>2. used' \in [links : Nat, troubles : Nat, ids : Nat]
  <2>1. used \in [links : Nat, troubles : Nat, ids : Nat]
    BY DEF EntityInv, Typed
  <2>2. used' = used \/ used' = [used EXCEPT !["links"] = @ + 1]
    BY DEF BeginLink, FindAlias, MatchBlock, Use
  <2>3. QED
    BY <2>1, <2>2
<1>3. CASE \E p \in Pages : BeginLink(p)
  <2>1. PICK p \in Pages : worker' = [at |-> "find", page |-> p, todo |-> Says[p], links |-> {}]
    BY <1>3 DEF BeginLink
  <2>2. Says[p] \in Seq(Surfaces)
    BY PagesAssumption DEF Pages
  <2>3. worker' \in [at : {"find", "match", "create"}, page : Pages, todo : Seq(Surfaces),
                     links : SUBSET (Surfaces \X Nat)]
    BY <2>1, <2>2
  <2>4. worker'.at = "find" /\ worker'.links = {}
    BY <2>1
  <2>5. WorkerTyped' /\ LinkHolds' /\ MergeHolds'
    BY <2>3, <2>4 DEF WorkerTyped, LinkHolds, MergeHolds, SourceCovered, MergeSteps
  <2>6. QED
    BY <1>1, <1>2, <2>5, WorkerReads
<1>4. CASE FindAlias \/ MatchBlock
  <2>1. /\ worker \in [at : {"find", "match", "create"}, page : Pages, todo : Seq(Surfaces),
                       links : SUBSET (Surfaces \X Nat)]
        /\ worker.todo # <<>>
    BY <1>4 DEF EntityInv, Typed, WorkerTyped, LinkHolds, FindAlias, MatchBlock, MergeSteps, Idle
  <2>2. \A l \in worker.links : l[2] \in Entities /\ Named(db, l[1])
    BY <2>1 DEF EntityInv, LinkHolds
  <2>3. \/ \E e \in Entities : worker' = Aliased(e)
        \/ worker' = [worker EXCEPT !.at = "match"]
        \/ worker' = [worker EXCEPT !.at = "create"]
    BY <1>4 DEF FindAlias, MatchBlock, entities_in_block, Entities
  <2>4. CASE \E e \in Entities : worker' = Aliased(e)
    <3>1. PICK e \in Entities : worker' = Aliased(e)
      BY <2>4
    <3>2. e \in Nat
      BY DEF EntityInv, Fits, Entities
    <3>3. worker' \in [at : {"alias"}, page : Pages, todo : Seq(Surfaces),
                       links : SUBSET (Surfaces \X Nat), entity : Nat]
      BY <2>1, <3>1, <3>2 DEF Aliased
    <3>4. /\ worker'.at = "alias" /\ worker'.links = worker.links
          /\ worker'.todo = worker.todo /\ worker'.entity = e
      BY <3>1 DEF Aliased
    <3>5. WorkerTyped' /\ LinkHolds' /\ MergeHolds'
      BY <1>1, <2>1, <2>2, <3>3, <3>4
         DEF WorkerTyped, LinkHolds, MergeHolds, SourceCovered, MergeSteps, Entities, Named
    <3>6. QED
      BY <1>1, <1>2, <3>5, WorkerReads
  <2>5. CASE worker' = [worker EXCEPT !.at = "match"] \/ worker' = [worker EXCEPT !.at = "create"]
    <3>1. worker' \in [at : {"find", "match", "create"}, page : Pages, todo : Seq(Surfaces),
                       links : SUBSET (Surfaces \X Nat)]
      BY <2>1, <2>5
    <3>2. /\ worker'.at \in {"match", "create"} /\ worker'.links = worker.links
          /\ worker'.todo = worker.todo
      BY <2>1, <2>5
    <3>3. WorkerTyped' /\ LinkHolds' /\ MergeHolds'
      BY <1>1, <2>1, <2>2, <3>1, <3>2
         DEF WorkerTyped, LinkHolds, MergeHolds, SourceCovered, MergeSteps, Entities, Named
    <3>4. QED
      BY <1>1, <1>2, <3>3, WorkerReads
  <2>6. QED
    BY <2>3, <2>4, <2>5
<1>5. QED
  BY <1>3, <1>4

\* A write that loses nothing, committed or not.
LEMMA WriteKeeps ==
    ASSUME EntityInv, Fits(db'), ~ remerged => Preserved(db, db'),
           disk' = disk \/ disk' = db', linked' = linked, remerged' = remerged
    PROVE  /\ Fits(db)' /\ Fits(disk)'
           /\ (~ remerged)' => Kept(db)' /\ Kept(disk)'
<1>1. Fits(db)' /\ Fits(disk)'
  BY DEF EntityInv, Fits
<1>2. ASSUME ~ remerged PROVE Kept(db') /\ Kept(disk')
  <2>1. Kept(db) /\ Kept(disk) /\ Preserved(db, db')
    BY <1>2 DEF EntityInv
  <2>2. Kept(db')
    BY <2>1, KeptOn
  <2>3. QED
    BY <2>1, <2>2
<1>3. \A d : Kept(d)' <=> \A m \in linked : Named(d', m[2]) /\ (m[1] \in d'.page => Held(d', m))
  BY DEF Kept, Named, Held
<1>4. QED
  BY <1>1, <1>2 DEF Kept, Named, Held

LEMMA AddAliasKeeps == EntityInv /\ AddAlias => EntityInv'
<1> SUFFICES ASSUME EntityInv, AddAlias PROVE EntityInv'
  OBVIOUS
<1>1. /\ worker \in [at : {"alias"}, page : Pages, todo : Seq(Surfaces),
                     links : SUBSET (Surfaces \X Nat), entity : Nat]
      /\ worker.todo # <<>> /\ worker.entity \in Entities
      /\ \A l \in worker.links : l[2] \in Entities /\ Named(db, l[1])
  BY DEF EntityInv, Typed, WorkerTyped, LinkHolds, AddAlias, At, MergeSteps, Idle
<1>2. Form \in Surfaces /\ Tail(worker.todo) \in Seq(Surfaces)
  BY <1>1 DEF Form
<1> DEFINE a == <<Form, worker.entity>>
<1>3. a \in Surfaces \X Entities /\ a[1] = Form /\ a[2] = worker.entity
  BY <1>1, <1>2
<1> HIDE DEF a
<1>4. /\ db' = [page |-> db.page, entity |-> db.entity, alias |-> db.alias \union {a},
                mention |-> db.mention, merges |-> db.merges]
      /\ disk' = db'
  BY DEF AddAlias, Commits, EntityInv, Fits, a
<1>5. /\ client' = client /\ linked' = linked /\ remerged' = remerged /\ used' = used
      /\ Entities' = Entities /\ db'.merges = db.merges
  BY <1>4 DEF AddAlias, history, Entities
<1>6. Fits(db')
  BY <1>3, <1>4 DEF EntityInv, Fits, Entities
<1>7. Preserved(db, db') /\ Named(db', Form)
  BY <1>1, <1>3, <1>4 DEF Preserved, Named, Held, Entities, a
<1>8. /\ worker' = [at |-> "find", page |-> worker.page, todo |-> Tail(worker.todo),
                    links |-> worker.links \union {a}]
  BY DEF AddAlias, a
<1>9. worker' \in [at : {"find", "match", "create"}, page : Pages, todo : Seq(Surfaces),
                   links : SUBSET (Surfaces \X Nat)]
  <2>1. a \in Surfaces \X Nat
    BY <1>3 DEF EntityInv, Fits, Entities
  <2>2. QED
    BY <1>1, <1>2, <1>8, <2>1
<1>10. worker'.at = "find" /\ worker'.links = worker.links \union {a}
  BY <1>8
<1>11. \A l \in worker'.links : l[2] \in Entities /\ Named(db', l[1])
  BY <1>1, <1>3, <1>7, <1>10 DEF Preserved
<1>12. LinkHolds' /\ MergeHolds' /\ WorkerTyped'
  <2>1. \A l : Named(db', l[1]) <=> Named(db, l[1])'
    BY DEF Named
  <2>2. QED
    BY <1>5, <1>9, <1>10, <1>11, <2>1 DEF LinkHolds, MergeHolds, SourceCovered, MergeSteps, WorkerTyped
<1>13. Typed'
  BY <1>5, <1>12 DEF EntityInv, Typed, ClientTyped, Asks
<1>14. QED
  BY <1>4, <1>5, <1>6, <1>7, <1>12, <1>13, WriteKeeps DEF EntityInv

\* The worker is idle: nothing is asked of the tables.
LEMMA IdleHolds ==
    ASSUME worker' = Idle
    PROVE  WorkerTyped' /\ LinkHolds' /\ MergeHolds'
BY DEF Idle, WorkerTyped, LinkHolds, MergeHolds, SourceCovered, MergeSteps

LEMMA CreateEntityKeeps == EntityInv /\ CreateEntity => EntityInv'
<1> SUFFICES ASSUME EntityInv, CreateEntity PROVE EntityInv'
  OBVIOUS
<1>1. /\ worker \in [at : {"find", "match", "create"}, page : Pages, todo : Seq(Surfaces),
                     links : SUBSET (Surfaces \X Nat)]
      /\ worker.todo # <<>>
      /\ \A l \in worker.links : l[2] \in Entities /\ Named(db, l[1])
  BY DEF EntityInv, Typed, WorkerTyped, LinkHolds, CreateEntity, At, MergeSteps, Idle
<1>2. Form \in Surfaces /\ Tail(worker.todo) \in Seq(Surfaces)
  BY <1>1 DEF Form
<1> DEFINE e == used.ids + 1
           a == <<Form, e>>
           i == Inserted(db, e, Form)
<1>3. used \in [links : Nat, troubles : Nat, ids : Nat] /\ e \in Nat
  BY DEF EntityInv, Typed
<1>4. client' = client /\ linked' = linked /\ remerged' = remerged
  BY DEF CreateEntity, history
<1>5. CASE db' = db /\ disk' = disk /\ used' = used /\ worker' = Idle
  BY <1>3, <1>4, <1>5, IdleHolds, WorkerReads
<1>6. CASE /\ db' = [i EXCEPT !.alias = @ \union {a}] /\ disk' = db'
           /\ Linked(e) /\ Use("ids")
  <2> HIDE DEF e
  <2>1. /\ Fits(i) /\ DOMAIN i.entity = Entities \union {e}
        /\ i.page = db.page /\ i.alias = db.alias /\ i.mention = db.mention
        /\ i.merges = db.merges
    BY <1>2, <1>3, InsertedKeeps DEF EntityInv, Entities
  <2>2. a \in Surfaces \X DOMAIN i.entity /\ a[1] = Form /\ a[2] = e
    BY <1>2, <2>1
  <2> HIDE DEF a, i
  <2>3. db' = [page |-> db.page, entity |-> i.entity, alias |-> db.alias \union {a},
               mention |-> db.mention, merges |-> db.merges]
    BY <1>6, <2>1 DEF Fits
  <2>4. Fits(db')
    BY <2>1, <2>2, <2>3 DEF Fits
  <2>5. Entities' = Entities \union {e} /\ db'.merges = db.merges
    BY <2>1, <2>3 DEF Entities
  <2>6. Preserved(db, db') /\ Named(db', Form)
    BY <2>1, <2>2, <2>3 DEF Preserved, Named, Held, Entities, a
  <2>7. worker' = [worker EXCEPT !.at = "find", !.todo = Tail(@), !.links = @ \union {a}]
    BY <1>6 DEF Linked, a
  <2>8. worker' \in [at : {"find", "match", "create"}, page : Pages, todo : Seq(Surfaces),
                     links : SUBSET (Surfaces \X Nat)]
    <3>1. a \in Surfaces \X Nat
      BY <1>2, <1>3 DEF a
    <3>2. QED
      BY <1>1, <1>2, <2>7, <3>1
  <2>9. worker'.at = "find" /\ worker'.links = worker.links \union {a}
    BY <1>1, <2>7
  <2>10. \A l \in worker'.links : l[2] \in Entities' /\ Named(db', l[1])
    BY <1>1, <2>2, <2>5, <2>6, <2>9 DEF Preserved
  <2>11. LinkHolds' /\ MergeHolds' /\ WorkerTyped'
    <3>1. \A l : Named(db', l[1]) <=> Named(db, l[1])'
      BY DEF Named
    <3>2. QED
      BY <2>8, <2>9, <2>10, <3>1 DEF LinkHolds, MergeHolds, SourceCovered, MergeSteps, WorkerTyped
  <2>12. Typed'
    <3>1. used' \in [links : Nat, troubles : Nat, ids : Nat]
      BY <1>3, <1>6 DEF Use
    <3>2. QED
      BY <1>4, <2>5, <2>11, <3>1 DEF EntityInv, Typed, ClientTyped, Asks
  <2>13. QED
    BY <1>4, <1>6, <2>4, <2>6, <2>11, <2>12, WriteKeeps DEF EntityInv
<1>7. QED
  BY <1>5, <1>6 DEF CreateEntity, Commits

LEMMA AddMentionsKeeps == EntityInv /\ AddMentions => EntityInv'
<1> SUFFICES ASSUME EntityInv, AddMentions PROVE EntityInv'
  OBVIOUS
<1>1. /\ worker \in [at : {"find", "match", "create"}, page : Pages, todo : Seq(Surfaces),
                     links : SUBSET (Surfaces \X Nat)]
      /\ \A l \in worker.links : l[2] \in Entities /\ Named(db, l[1])
  BY DEF EntityInv, Typed, WorkerTyped, LinkHolds, AddMentions, At, MergeSteps, Idle
<1> DEFINE p == worker.page
           rows == {<<p, l[1], l[2]>> : l \in worker.links}
           after == [db EXCEPT !.mention = @ \union rows]
           d == Counted(after, {l[2] : l \in worker.links})
<1>2. /\ worker' = Idle /\ client' = client /\ remerged' = remerged /\ used' = used
  BY DEF AddMentions
<1>3. used' \in [links : Nat, troubles : Nat, ids : Nat]
  BY <1>2 DEF EntityInv, Typed
<1>4. WorkerTyped' /\ LinkHolds' /\ MergeHolds'
  BY <1>2, IdleHolds
<1>5. CASE p \notin db.page
  <2>1. db' = db /\ disk' = disk /\ linked' = linked
    BY <1>5 DEF AddMentions
  <2>2. QED
    BY <1>2, <1>3, <1>4, <2>1, WorkerReads
<1>6. CASE p \in db.page
  <2>1. /\ db' = d /\ disk' = d
        /\ linked' = linked \union {<<p, l[1]>> : l \in worker.links}
    BY <1>6 DEF AddMentions, Commits
  <2>2. rows \subseteq Pages \X Surfaces \X Entities
    BY <1>1, <1>6 DEF EntityInv, Fits
  <2> HIDE DEF rows
  <2>3. after = [page |-> db.page, entity |-> db.entity, alias |-> db.alias,
                 mention |-> db.mention \union rows, merges |-> db.merges]
    BY WithMention DEF EntityInv
  <2> HIDE DEF after
  <2>4. Fits(after)
    BY <2>2, <2>3 DEF EntityInv, Fits, Entities
  <2>5. Fits(d) /\ SameRows(d, after)
    BY <2>4, CountedKeeps
  <2> HIDE DEF d
  <2>6. /\ d.page = db.page /\ DOMAIN d.entity = Entities /\ d.alias = db.alias
        /\ d.mention = db.mention \union rows /\ d.merges = db.merges
    BY <2>3, <2>5 DEF SameRows, Entities
  <2>7. Preserved(db, d)
    BY <2>6 DEF Preserved, Named, Held, Entities
  <2>8. ASSUME NEW m \in linked' PROVE m \in linked \/ (Named(d, m[2]) /\ Held(d, m))
    <3>1. SUFFICES ASSUME m \notin linked PROVE Named(d, m[2]) /\ Held(d, m)
      OBVIOUS
    <3>2. PICK l \in worker.links : m = <<p, l[1]>>
      BY <2>1, <3>1
    <3>3. Row(m, l[2]) \in rows /\ m[2] = l[1]
      BY <3>2 DEF Row, rows
    <3>4. Named(d, m[2])
      BY <1>1, <2>6, <3>3 DEF Named, Entities
    <3>5. QED
      BY <1>1, <2>6, <3>3, <3>4 DEF Held
  <2>9. ASSUME ~ remerged
        PROVE  \A m \in linked' : Named(d, m[2]) /\ (m[1] \in d.page => Held(d, m))
    <3>1. Kept(d)
      BY <2>7, <2>9, KeptOn DEF EntityInv
    <3>2. QED
      BY <2>8, <3>1 DEF Kept
  <2>10. (~ remerged)' => Kept(db)' /\ Kept(disk)'
    BY <1>2, <2>1, <2>9 DEF Kept, Named, Held
  <2>11. linked' \subseteq Pages \X Surfaces
    BY <1>1, <2>1 DEF EntityInv, Typed
  <2>12. Typed'
    BY <1>2, <1>3, <1>4, <2>1, <2>6, <2>11 DEF EntityInv, Typed, ClientTyped, Asks
  <2>13. Fits(db)' /\ Fits(disk)'
    BY <2>1, <2>5 DEF Fits
  <2>14. QED
    BY <1>4, <2>10, <2>12, <2>13 DEF EntityInv
<1>7. QED
  BY <1>5, <1>6

-----------------------------------------------------------------------------
(* The periodic pass.                                                      *)

LEMMA ReadBlockKeeps == EntityInv /\ ReadBlock => EntityInv'
<1> SUFFICES ASSUME EntityInv, ReadBlock PROVE EntityInv'
  OBVIOUS
<1> DEFINE es == block_with_duplicates(db)
           Into(e) == Target(Group(es, e))
           plan == {<<e, Into(e)>> : e \in {e \in es : Into(e) # e}}
<1>1. /\ worker' = [at |-> "merge", plan |-> plan]
      /\ db' = db /\ disk' = disk /\ client' = client /\ linked' = linked
      /\ remerged' = remerged /\ used' = used
  BY DEF ReadBlock, history
<1>2. es \in SUBSET Entities /\ Entities \subseteq Nat /\ Fits(db)
  BY DEF EntityInv, Fits, Entities, block_with_duplicates, entities_in_block
<1> HIDE DEF es
<1>3. \A e \in es : Into(e) \in es /\ Into(Into(e)) = Into(e)
  BY <1>2, TargetStays
<1> HIDE DEF Into
<1>4. \A m \in plan : \E e \in es : Into(e) # e /\ m = <<e, Into(e)>>
  OBVIOUS
<1> HIDE DEF plan
<1>5. plan \in SUBSET (Nat \X Nat)
  <2>1. \A e \in es : <<e, Into(e)>> \in Nat \X Nat
    BY <1>2, <1>3
  <2>2. QED
    BY <1>4, <2>1
<1>6. ASSUME NEW m \in plan, NEW n \in plan PROVE m[2] \in Entities /\ m[2] # n[1]
  <2>1. PICK e \in es : m = <<e, Into(e)>>
    BY <1>4
  <2>2. PICK o \in es : Into(o) # o /\ n = <<o, Into(o)>>
    BY <1>4
  <2>3. m[2] = Into(e) /\ n[1] = o
    BY <2>1, <2>2
  <2>4. QED
    BY <1>2, <1>3, <2>2, <2>3
<1>7. WorkerTyped'
  BY <1>1, <1>5 DEF WorkerTyped
<1>8. worker'.at = "merge" /\ worker'.plan = plan
  BY <1>1
<1>9. LinkHolds' /\ MergeHolds'
  BY <1>1, <1>6, <1>8 DEF LinkHolds, MergeHolds, SourceCovered, MergeSteps, Plan, Merging, Entities
<1>10. QED
  BY <1>1, <1>7, <1>9, WorkerReads DEF EntityInv, Typed

LEMMA MergeReadKeeps ==
    ASSUME NEW m, EntityInv, MergeRead(m)
    PROVE  EntityInv'
<1>1. /\ worker \in [at : {"merge"}, plan : SUBSET (Nat \X Nat)] /\ m \in worker.plan
      /\ db' = db /\ disk' = disk /\ client' = client /\ linked' = linked /\ used' = used
  BY DEF MergeRead, At, EntityInv, Typed, WorkerTyped, MergeSteps, Idle
<1>2. CASE worker' = Idle /\ remerged' = remerged
  BY <1>1, <1>2, IdleHolds, WorkerReads DEF EntityInv, Typed
<1>3. CASE /\ m[1] \in Entities
           /\ worker' = [at |-> "log", plan |-> worker.plan \ {m}, source |-> m[1],
                         target |-> m[2], form |-> db.entity[m[1]].form,
                         aliases |-> AliasesOf(db, m[1]), mentions |-> MentionsOf(db, m[1])]
           /\ remerged' = (remerged \/ m[1] \in Restored)
  <2>1. m \in Nat \X Nat /\ m = <<m[1], m[2]>> /\ m[1] \in Nat /\ m[2] \in Nat
    BY <1>1
  <2>2. /\ db.entity[m[1]].form \in Surfaces /\ AliasesOf(db, m[1]) \subseteq Surfaces
        /\ MentionsOf(db, m[1]) \subseteq Pages \X Surfaces
    BY <1>3 DEF EntityInv, Fits, EntityRow, Entities, AliasesOf, MentionsOf
  <2>3. WorkerTyped'
    <3>1. worker' \in [at : MergeSteps, plan : SUBSET (Nat \X Nat), source : Nat, target : Nat,
                       form : Surfaces, aliases : SUBSET Surfaces,
                       mentions : SUBSET (Pages \X Surfaces)]
      BY <1>1, <1>3, <2>1, <2>2 DEF MergeSteps
    <3>2. QED
      BY <3>1 DEF WorkerTyped
  <2>4. worker'.at = "log" /\ worker'.plan = worker.plan \ {m} /\ S' = m[1] /\ T' = m[2]
    BY <1>3 DEF S, T
  <2>5. Plan' = worker.plan
    BY <1>1, <2>1, <2>4 DEF Plan, Merging, Idle
  <2>6. \A k, n \in worker.plan : k[2] \in Entities /\ k[2] # n[1]
    BY <1>1 DEF EntityInv, MergeHolds, SourceCovered, Plan, Merging
  <2>7. Entities' = Entities /\ Restored' = Restored
    BY <1>1 DEF Entities, Restored
  <2>8. LinkHolds' /\ MergeHolds'
    BY <1>3, <2>4, <2>5, <2>6, <2>7 DEF LinkHolds, MergeHolds, SourceCovered, MergeSteps
  <2>9. QED
    BY <1>1, <1>3, <2>3, <2>8, WorkerReads DEF EntityInv, Typed
<1>4. QED
  BY <1>2, <1>3 DEF MergeRead

\* What a statement of a merge finds and what it leaves alone.
LEMMA MergeStepFrame ==
    ASSUME EntityInv, NEW at \in MergeSteps \ {"finish_merge"}, NEW next \in MergeSteps,
           NEW d, MergeStep(at, next, d)
    PROVE  /\ worker.at = at /\ worker'.at = next /\ S' = S /\ T' = T /\ Plan' = Plan
           /\ S \in Entities /\ T \in Entities /\ T # S
           /\ \A m, n \in Plan : m[2] \in Entities /\ m[2] # n[1] /\ m[2] # S
           /\ remerged \/ S \notin Restored
           /\ worker.aliases \subseteq Surfaces /\ worker.mentions \subseteq Pages \X Surfaces
           /\ worker.form \in Surfaces /\ S \in Nat /\ T \in Nat
           /\ db' = d /\ disk' = disk /\ client' = client /\ linked' = linked
           /\ remerged' = remerged /\ used' = used /\ Restored' = Restored
           /\ WorkerTyped' /\ LinkHolds'
<1>1. /\ worker \in [at : MergeSteps, plan : SUBSET (Nat \X Nat), source : Nat, target : Nat,
                     form : Surfaces, aliases : SUBSET Surfaces,
                     mentions : SUBSET (Pages \X Surfaces)]
      /\ worker.at = at
  BY DEF EntityInv, Typed, WorkerTyped, MergeStep, At, Idle, MergeSteps
<1>2. worker' = [worker EXCEPT !.at = next]
  BY DEF MergeStep
<1>3. /\ worker' \in [at : MergeSteps, plan : SUBSET (Nat \X Nat), source : Nat, target : Nat,
                      form : Surfaces, aliases : SUBSET Surfaces,
                      mentions : SUBSET (Pages \X Surfaces)]
      /\ worker'.at = next /\ worker'.plan = worker.plan /\ S' = S /\ T' = T
  BY <1>1, <1>2 DEF S, T
<1>4. Merging /\ Merging' /\ Plan' = Plan /\ <<S, T>> \in Plan
  <2>1. Merging
    BY <1>1 DEF Merging, MergeSteps, Idle
  <2>2. Merging'
    BY <1>3 DEF Merging, MergeSteps, Idle
  <2>3. QED
    BY <1>3, <2>1, <2>2 DEF Plan
<1>5. /\ \A m, n \in Plan : m[2] \in Entities /\ m[2] # n[1]
      /\ S \in Entities /\ (remerged \/ S \notin Restored)
  BY <1>1 DEF EntityInv, MergeHolds, SourceCovered
<1>6. T \in Entities /\ \A m \in Plan : m[2] # S
  BY <1>4, <1>5
<1>7. /\ db' = d /\ disk' = disk /\ client' = client /\ linked' = linked
      /\ remerged' = remerged /\ used' = used
  BY DEF MergeStep, Writes, history
<1>8. Restored' = Restored
  BY <1>7 DEF Restored
<1>9. WorkerTyped' /\ LinkHolds'
  BY <1>3 DEF WorkerTyped, LinkHolds, MergeSteps
<1>10. QED
  BY <1>1, <1>3, <1>4, <1>5, <1>6, <1>7, <1>8, <1>9 DEF S, T

LEMMA MergeStepKeeps ==
    ASSUME EntityInv, NEW at \in MergeSteps \ {"finish_merge"}, NEW next \in MergeSteps,
           NEW d, MergeStep(at, next, d),
           Fits(d), ~ remerged => Preserved(db, d), ClientTyped', MergeHolds'
    PROVE  EntityInv'
<1>1. /\ db' = d /\ disk' = disk /\ client' = client /\ linked' = linked
      /\ remerged' = remerged /\ used' = used /\ WorkerTyped' /\ LinkHolds'
  BY MergeStepFrame
<1>2. Typed'
  BY <1>1 DEF EntityInv, Typed
<1>3. QED
  BY <1>1, <1>2, WriteKeeps DEF EntityInv

\* The time of the row is a number.
LEMMA LogIs ==
    ASSUME EntityInv, MergeLog
    PROVE  \E now \in Nat : MergeStep("log", "move_aliases", Logged(now))
<1> DEFINE n == Len(db.merges)
<1>1. PICK clock \in Clocks : n < Len(clock) /\ MergeStep("log", "move_aliases", Logged(clock[n + 1]))
  BY DEF MergeLog
<1>2. clock \in Seq(Nat) /\ n \in Nat
  BY <1>1, ClocksAssumption DEF EntityInv, Fits
<1>3. clock[n + 1] \in Nat
  BY <1>1, <1>2
<1> QED
  BY <1>1, <1>3

LEMMA MergeLogKeeps == EntityInv /\ MergeLog => EntityInv'
<1> SUFFICES ASSUME EntityInv, MergeLog PROVE EntityInv'
  OBVIOUS
<1>0. PICK now \in Nat : MergeStep("log", "move_aliases", Logged(now))
  BY LogIs
<1> DEFINE row == [source |-> S, target |-> T, form |-> worker.form, aliases |-> worker.aliases,
                   mentions |-> worker.mentions, at |-> now, undone |-> FALSE]
           d == [db EXCEPT !.merges = Append(@, row)]
<1>1. MergeStep("log", "move_aliases", d)
  BY <1>0 DEF Logged
<1>2. "log" \in MergeSteps \ {"finish_merge"} /\ "move_aliases" \in MergeSteps
  BY DEF MergeSteps
<1>3. /\ worker'.at = "move_aliases" /\ Plan' = Plan /\ S' = S
      /\ \A m, n \in Plan : m[2] \in Entities /\ m[2] # n[1]
      /\ S \in Entities /\ (remerged \/ S \notin Restored)
      /\ row \in MergeRow
      /\ db' = d /\ client' = client /\ remerged' = remerged /\ Restored' = Restored
  BY <1>1, <1>2, MergeStepFrame DEF MergeRow
<1> HIDE DEF row
<1>4. d = [page |-> db.page, entity |-> db.entity, alias |-> db.alias,
           mention |-> db.mention, merges |-> Append(db.merges, row)]
  BY WithMerges DEF EntityInv
<1> HIDE DEF d
<1>5. Fits(d)
  BY <1>3, <1>4 DEF EntityInv, Fits
<1>6. Preserved(db, d)
  BY <1>4 DEF Preserved, Named, Held
<1>7. /\ DOMAIN db.merges \subseteq DOMAIN d.merges
      /\ \A k \in DOMAIN db.merges : d.merges[k] = db.merges[k]
  BY <1>3, <1>4 DEF EntityInv, Fits
<1>8. ClientTyped'
  BY <1>3, <1>7 DEF EntityInv, Typed, ClientTyped, Asks
<1>9. Entities' = Entities
  BY <1>3, <1>4 DEF Entities
<1>10. MergeHolds'
  BY <1>3, <1>9 DEF MergeHolds, SourceCovered, MergeSteps
<1>11. QED
  BY <1>1, <1>2, <1>5, <1>6, <1>8, <1>10, MergeStepKeeps

\* A statement that writes no merge leaves what the requests have read of them.
LEMMA ClientReads ==
    ASSUME EntityInv, client' = client, db'.merges = db.merges
    PROVE  ClientTyped'
BY DEF EntityInv, Typed, ClientTyped, Asks

LEMMA MoveAliasesKeeps == EntityInv /\ MoveAliases => EntityInv'
<1> SUFFICES ASSUME EntityInv, MoveAliases PROVE EntityInv'
  OBVIOUS
<1> DEFINE kept == {a \in db.alias : a[2] # S \/ <<a[1], T>> \in db.alias}
           moved == {<<s, T>> : s \in AliasesOf(db, S)}
           d == [db EXCEPT !.alias = {a \in @ : a[2] # S \/ <<a[1], T>> \in @} \union moved]
<1>1. MergeStep("move_aliases", "drop_aliases", d)
  BY DEF MoveAliases
<1>2. "move_aliases" \in MergeSteps \ {"finish_merge"} /\ "drop_aliases" \in MergeSteps
  BY DEF MergeSteps
<1>3. /\ worker'.at = "drop_aliases" /\ Plan' = Plan /\ S' = S /\ T' = T
      /\ \A m, n \in Plan : m[2] \in Entities /\ m[2] # n[1]
      /\ S \in Entities /\ T \in Entities /\ T # S /\ (remerged \/ S \notin Restored)
      /\ db' = d /\ client' = client /\ remerged' = remerged /\ Restored' = Restored
  BY <1>1, <1>2, MergeStepFrame
<1>4. d = [page |-> db.page, entity |-> db.entity, alias |-> kept \union moved,
           mention |-> db.mention, merges |-> db.merges]
  BY WithAlias DEF EntityInv
<1> HIDE DEF d
<1>5. kept \subseteq db.alias /\ moved \subseteq Surfaces \X Entities
  <2>1. \A s \in AliasesOf(db, S) : <<s, T>> \in Surfaces \X Entities
    BY <1>3 DEF AliasesOf
  <2>2. QED
    BY <2>1
<1>6. Fits(d) /\ Entities' = Entities
  BY <1>3, <1>4, <1>5 DEF EntityInv, Fits, Entities
<1>7. \A s \in Surfaces : <<s, S>> \in db.alias => <<s, T>> \in kept \union moved
  BY DEF AliasesOf
<1>8. \A s \in Surfaces, e \in Entities : e # S /\ <<s, e>> \in db.alias => <<s, e>> \in kept
  OBVIOUS
<1>9. Preserved(db, d)
  <2>1. ASSUME NEW s, Named(db, s) PROVE Named(d, s)
    <3>1. PICK e \in Entities : <<s, e>> \in db.alias
      BY <2>1 DEF Named, Entities
    <3>2. s \in Surfaces
      BY <3>1 DEF EntityInv, Fits
    <3>3. <<s, e>> \in kept \/ <<s, T>> \in kept \union moved
      BY <1>7, <1>8, <3>1, <3>2
    <3>4. QED
      BY <1>3, <1>4, <3>1, <3>3 DEF Named, Entities
  <2>2. QED
    BY <1>4, <2>1 DEF Preserved, Held
<1>10. MergeHolds'
  <2>1. \A s \in AliasesOf(db', S) : \E e \in Entities \ {S} : <<s, e>> \in db'.alias
    <3>1. \A s \in AliasesOf(db', S) : <<s, T>> \in db'.alias
      <4>1. \A s \in AliasesOf(db', S) : <<s, S>> \in kept \union moved
        BY <1>3, <1>4 DEF AliasesOf
      <4>2. \A s : <<s, S>> \notin moved
        BY <1>3
      <4>3. \A s : <<s, S>> \in kept => <<s, T>> \in kept
        BY <1>3
      <4>4. QED
        BY <1>3, <1>4, <4>1, <4>2, <4>3
    <3>2. QED
      BY <1>3, <3>1
  <2>2. AliasesOf(db, S)' = AliasesOf(db', S)
    BY <1>3 DEF AliasesOf
  <2>3. QED
    BY <1>3, <1>6, <2>1, <2>2 DEF MergeHolds, SourceCovered, MergeSteps
<1>11. ClientTyped'
  BY <1>3, <1>4, ClientReads
<1>12. QED
  BY <1>1, <1>2, <1>6, <1>9, <1>10, <1>11, MergeStepKeeps

LEMMA DropAliasesKeeps == EntityInv /\ DropAliases => EntityInv'
<1> SUFFICES ASSUME EntityInv, DropAliases PROVE EntityInv'
  OBVIOUS
<1> DEFINE kept == {a \in db.alias : a[2] # S}
           d == [db EXCEPT !.alias = {a \in @ : a[2] # S}]
<1>1. MergeStep("drop_aliases", "copy_mentions", d)
  BY DEF DropAliases
<1>2. "drop_aliases" \in MergeSteps \ {"finish_merge"} /\ "copy_mentions" \in MergeSteps
  BY DEF MergeSteps
<1>3. /\ worker.at = "drop_aliases" /\ worker'.at = "copy_mentions" /\ Plan' = Plan /\ S' = S
      /\ \A m, n \in Plan : m[2] \in Entities /\ m[2] # n[1]
      /\ S \in Entities /\ (remerged \/ S \notin Restored)
      /\ db' = d /\ client' = client /\ remerged' = remerged /\ Restored' = Restored
  BY <1>1, <1>2, MergeStepFrame
<1>4. d = [page |-> db.page, entity |-> db.entity, alias |-> kept,
           mention |-> db.mention, merges |-> db.merges]
  BY WithAlias DEF EntityInv
<1> HIDE DEF d
<1>5. Fits(d) /\ Entities' = Entities
  BY <1>3, <1>4 DEF EntityInv, Fits, Entities
<1>6. ~ remerged => Preserved(db, d)
  <2>1. ASSUME ~ remerged, NEW s, Named(db, s) PROVE Named(d, s)
    <3>1. PICK e \in Entities : <<s, e>> \in db.alias
      BY <2>1 DEF Named, Entities
    <3>2. s \in Surfaces
      BY <3>1 DEF EntityInv, Fits
    <3>3. \E o \in Entities \ {S} : <<s, o>> \in db.alias
      <4>1. CASE e # S
        BY <3>1, <4>1
      <4>2. CASE e = S
        <5>1. s \in AliasesOf(db, S)
          BY <3>1, <3>2, <4>2 DEF AliasesOf
        <5>2. QED
          BY <1>3, <2>1, <5>1 DEF EntityInv, MergeHolds, SourceCovered
      <4>3. QED
        BY <4>1, <4>2
    <3>4. PICK o \in Entities : <<s, o>> \in kept
      BY <3>3
    <3>5. QED
      BY <1>4, <3>4 DEF Named, Entities
  <2>2. QED
    BY <1>4, <2>1 DEF Preserved, Held
<1>7. MergeHolds'
  <2>1. AliasesOf(db, S)' = {}
    BY <1>3, <1>4 DEF AliasesOf
  <2>2. QED
    BY <1>3, <1>5, <2>1 DEF MergeHolds, SourceCovered, MergeSteps
<1>8. ClientTyped'
  BY <1>3, <1>4, ClientReads
<1>9. QED
  BY <1>1, <1>2, <1>5, <1>6, <1>7, <1>8, MergeStepKeeps

LEMMA CopyMentionsKeeps == EntityInv /\ CopyMentions => EntityInv'
<1> SUFFICES ASSUME EntityInv, CopyMentions PROVE EntityInv'
  OBVIOUS
<1> DEFINE copies == {Row(m, T) : m \in MentionsOf(db, S)}
           d == [db EXCEPT !.mention = @ \union copies]
<1>1. MergeStep("copy_mentions", "drop_mentions", d)
  BY DEF CopyMentions
<1>2. "copy_mentions" \in MergeSteps \ {"finish_merge"} /\ "drop_mentions" \in MergeSteps
  BY DEF MergeSteps
<1>3. /\ worker.at = "copy_mentions" /\ worker'.at = "drop_mentions" /\ Plan' = Plan /\ S' = S
      /\ \A m, n \in Plan : m[2] \in Entities /\ m[2] # n[1]
      /\ S \in Entities /\ T \in Entities /\ T # S /\ (remerged \/ S \notin Restored)
      /\ db' = d /\ client' = client /\ remerged' = remerged /\ Restored' = Restored
  BY <1>1, <1>2, MergeStepFrame
<1>4. d = [page |-> db.page, entity |-> db.entity, alias |-> db.alias,
           mention |-> db.mention \union copies, merges |-> db.merges]
  BY WithMention DEF EntityInv
<1> HIDE DEF d
<1>5. copies \subseteq Pages \X Surfaces \X Entities
  <2>1. \A m \in MentionsOf(db, S) : Row(m, T) \in Pages \X Surfaces \X Entities
    BY <1>3 DEF MentionsOf, Row
  <2>2. QED
    BY <2>1
<1>6. \A m \in MentionsOf(db, S) : Row(m, T) \in copies
  OBVIOUS
<1>7. \A m : Row(m, S) \notin copies
  BY <1>3 DEF Row
<1> HIDE DEF copies
<1>8. Fits(d) /\ Entities' = Entities
  BY <1>3, <1>4, <1>5 DEF EntityInv, Fits, Entities
<1>9. Preserved(db, d)
  BY <1>4 DEF Preserved, Named, Held
<1>10. MergeHolds'
  <2>1. MentionsOf(db, S)' = MentionsOf(db, S)
    BY <1>3, <1>4, <1>7 DEF MentionsOf
  <2>2. \A m \in MentionsOf(db, S) : \E e \in Entities \ {S} : Row(m, e) \in db'.mention
    BY <1>3, <1>4, <1>6
  <2>3. ~ remerged => \A s \in AliasesOf(db, S) : \E e \in Entities \ {S} : <<s, e>> \in db.alias
    BY <1>3 DEF EntityInv, MergeHolds, SourceCovered
  <2>4. AliasesOf(db, S)' = AliasesOf(db, S) /\ db'.alias = db.alias
    BY <1>3, <1>4 DEF AliasesOf
  <2>5. \A m, e : Row(m, e)' = Row(m, e)
    BY DEF Row
  <2>6. QED
    BY <1>3, <1>8, <2>1, <2>2, <2>3, <2>4, <2>5 DEF MergeHolds, SourceCovered, MergeSteps
<1>11. ClientTyped'
  BY <1>3, <1>4, ClientReads
<1>12. QED
  BY <1>1, <1>2, <1>8, <1>9, <1>10, <1>11, MergeStepKeeps

\* A mention is not lost with the rows of the source.
LEMMA HeldElsewhere ==
    ASSUME EntityInv, ~ remerged, worker.at \in {"drop_mentions", "drop_entity"},
           NEW m, Held(db, m)
    PROVE  \E e \in Entities \ {S} : Row(m, e) \in db.mention
<1>1. PICK e \in Entities : Row(m, e) \in db.mention
  BY DEF Held, Entities
<1>2. CASE e # S
  BY <1>1, <1>2
<1>3. CASE e = S
  <2> DEFINE n == <<m[1], m[2]>>
  <2>1. \A o : Row(n, o) = Row(m, o)
    BY DEF Row
  <2>2. n \in MentionsOf(db, S)
    <3>1. n \in Pages \X Surfaces
      BY <1>1 DEF EntityInv, Fits, Row
    <3>2. QED
      BY <1>1, <1>3, <2>1, <3>1 DEF MentionsOf
  <2>3. \E o \in Entities \ {S} : Row(n, o) \in db.mention
    BY <2>2 DEF EntityInv, MergeHolds, SourceCovered
  <2>4. QED
    BY <2>1, <2>3
<1>4. QED
  BY <1>2, <1>3

LEMMA DropMentionsKeeps == EntityInv /\ DropMentions => EntityInv'
<1> SUFFICES ASSUME EntityInv, DropMentions PROVE EntityInv'
  OBVIOUS
<1> DEFINE kept == {r \in db.mention : r[3] # S}
           d == [db EXCEPT !.mention = {r \in @ : r[3] # S}]
<1>1. MergeStep("drop_mentions", "drop_entity", d)
  BY DEF DropMentions
<1>2. "drop_mentions" \in MergeSteps \ {"finish_merge"} /\ "drop_entity" \in MergeSteps
  BY DEF MergeSteps
<1>3. /\ worker.at = "drop_mentions" /\ worker'.at = "drop_entity" /\ Plan' = Plan /\ S' = S
      /\ \A m, n \in Plan : m[2] \in Entities /\ m[2] # n[1]
      /\ S \in Entities /\ (remerged \/ S \notin Restored)
      /\ db' = d /\ client' = client /\ remerged' = remerged /\ Restored' = Restored
  BY <1>1, <1>2, MergeStepFrame
<1>4. d = [page |-> db.page, entity |-> db.entity, alias |-> db.alias,
           mention |-> kept, merges |-> db.merges]
  BY WithMention DEF EntityInv
<1> HIDE DEF d
<1>5. Fits(d) /\ Entities' = Entities
  BY <1>3, <1>4 DEF EntityInv, Fits, Entities
<1>6. \A m, e : Row(m, e)[3] = e
  BY DEF Row
<1>7. ~ remerged => Preserved(db, d)
  <2>1. ASSUME ~ remerged, NEW m, Held(db, m) PROVE Held(d, m)
    <3>1. PICK e \in Entities \ {S} : Row(m, e) \in db.mention
      BY <1>3, <2>1, HeldElsewhere
    <3>2. Row(m, e) \in kept
      BY <1>6, <3>1
    <3>3. QED
      BY <1>4, <3>1, <3>2 DEF Held, Entities
  <2>2. QED
    BY <1>4, <2>1 DEF Preserved, Named
<1>8. MergeHolds'
  <2>1. MentionsOf(db, S)' = {}
    BY <1>3, <1>4, <1>6 DEF MentionsOf
  <2>2. ~ remerged => \A s \in AliasesOf(db, S) : \E e \in Entities \ {S} : <<s, e>> \in db.alias
    BY <1>3 DEF EntityInv, MergeHolds, SourceCovered
  <2>3. AliasesOf(db, S)' = AliasesOf(db, S) /\ db'.alias = db.alias
    BY <1>3, <1>4 DEF AliasesOf
  <2>4. QED
    BY <1>3, <1>5, <2>1, <2>2, <2>3 DEF MergeHolds, SourceCovered, MergeSteps
<1>9. ClientTyped'
  BY <1>3, <1>4, ClientReads
<1>10. QED
  BY <1>1, <1>2, <1>5, <1>7, <1>8, <1>9, MergeStepKeeps

LEMMA DropEntityKeeps == EntityInv /\ DropEntity => EntityInv'
<1> SUFFICES ASSUME EntityInv, DropEntity PROVE EntityInv'
  OBVIOUS
<1> DEFINE left == [e \in Entities \ {S} |-> db.entity[e]]
           names == {a \in db.alias : a[2] # S}
           rows == {r \in db.mention : r[3] # S}
           d == [db EXCEPT !.entity = [e \in DOMAIN @ \ {S} |-> @[e]],
                           !.alias = {a \in @ : a[2] # S},
                           !.mention = {r \in @ : r[3] # S}]
<1>1. MergeStep("drop_entity", "finish_merge", d)
  BY DEF DropEntity
<1>2. "drop_entity" \in MergeSteps \ {"finish_merge"} /\ "finish_merge" \in MergeSteps
  BY DEF MergeSteps
<1>3. /\ worker.at = "drop_entity" /\ worker'.at = "finish_merge" /\ Plan' = Plan
      /\ \A m, n \in Plan : m[2] \in Entities /\ m[2] # n[1] /\ m[2] # S
      /\ db' = d /\ client' = client
  BY <1>1, <1>2, MergeStepFrame
<1>4. d = [page |-> db.page, entity |-> left, alias |-> names,
           mention |-> rows, merges |-> db.merges]
  <2>1. [e \in DOMAIN db.entity \ {S} |-> db.entity[e]] = left
    BY DEF Entities
  <2>2. d = [db EXCEPT !.entity = left, !.alias = names, !.mention = rows]
    BY <2>1
  <2> HIDE DEF d, left, names, rows
  <2>3. QED
    BY <2>2, WithRows DEF EntityInv
<1> HIDE DEF d
<1>5. DOMAIN left = Entities \ {S} /\ left \in [Entities \ {S} -> EntityRow]
  BY DEF EntityInv, Fits, Entities
<1> HIDE DEF left
<1>6. names \subseteq Surfaces \X (Entities \ {S})
  BY DEF EntityInv, Fits, Entities
<1>7. rows \subseteq Pages \X Surfaces \X (Entities \ {S})
  BY DEF EntityInv, Fits, Entities
<1>8. Fits(d) /\ Entities' = Entities \ {S}
  <2>1. Entities \subseteq Nat
    BY DEF EntityInv, Fits, Entities
  <2>2. QED
    BY <1>3, <1>4, <1>5, <1>6, <1>7, <2>1 DEF EntityInv, Fits, Entities
<1>9. ~ remerged => Preserved(db, d)
  <2>1. ASSUME ~ remerged, NEW m, Held(db, m) PROVE Held(d, m)
    <3>1. PICK e \in Entities \ {S} : Row(m, e) \in db.mention
      BY <1>3, <2>1, HeldElsewhere
    <3>2. Row(m, e) \in rows
      BY <3>1 DEF Row
    <3>3. QED
      BY <1>4, <1>5, <3>1, <3>2 DEF Held
  <2>2. ASSUME ~ remerged, NEW s, Named(db, s) PROVE Named(d, s)
    <3>1. PICK e \in Entities : <<s, e>> \in db.alias
      BY <2>2 DEF Named, Entities
    <3>2. s \in Surfaces
      BY <3>1 DEF EntityInv, Fits
    <3>3. \E o \in Entities \ {S} : <<s, o>> \in db.alias
      <4>1. CASE e # S
        BY <3>1, <4>1
      <4>2. CASE e = S
        <5>1. s \in AliasesOf(db, S)
          BY <3>1, <3>2, <4>2 DEF AliasesOf
        <5>2. QED
          BY <1>3, <2>2, <5>1 DEF EntityInv, MergeHolds, SourceCovered
      <4>3. QED
        BY <4>1, <4>2
    <3>4. PICK o \in Entities \ {S} : <<s, o>> \in names
      BY <3>3
    <3>5. QED
      BY <1>4, <1>5, <3>4 DEF Named
  <2>3. QED
    BY <1>4, <2>1, <2>2 DEF Preserved
<1>10. MergeHolds'
  BY <1>3, <1>8 DEF MergeHolds, SourceCovered, MergeSteps
<1>11. ClientTyped'
  BY <1>3, <1>4, ClientReads
<1>12. QED
  BY <1>1, <1>2, <1>8, <1>9, <1>10, <1>11, MergeStepKeeps

LEMMA FinishMergeKeeps == EntityInv /\ FinishMerge => EntityInv'
<1> SUFFICES ASSUME EntityInv, FinishMerge PROVE EntityInv'
  OBVIOUS
<1> DEFINE d == Counted(Recomputed(db, T), {T})
<1>1. Fits(d) /\ SameRows(d, db)
  <2>1. Fits(Recomputed(db, T)) /\ SameRows(Recomputed(db, T), db)
    BY RecomputedKeeps DEF EntityInv
  <2>2. Fits(d) /\ SameRows(d, Recomputed(db, T))
    BY <2>1, CountedKeeps
  <2>3. QED
    BY <2>1, <2>2 DEF SameRows
<1>2. /\ db' = d /\ disk' = d /\ client' = client /\ linked' = linked
      /\ remerged' = remerged /\ used' = used
      /\ worker' = IF worker.plan = {} THEN Idle ELSE [at |-> "merge", plan |-> worker.plan]
  BY DEF FinishMerge, Commits, history
<1> HIDE DEF d
<1>3. Entities' = Entities /\ Preserved(db, d)
  BY <1>1, <1>2 DEF SameRows, Entities, Preserved, Named, Held
<1>4. ClientTyped'
  BY <1>1, <1>2, ClientReads DEF SameRows
<1>5. /\ worker.at = "finish_merge" /\ worker.plan \in SUBSET (Nat \X Nat)
      /\ \A m, n \in worker.plan : m[2] \in Entities /\ m[2] # n[1]
  <2>1. worker \in [at : MergeSteps, plan : SUBSET (Nat \X Nat), source : Nat, target : Nat,
                    form : Surfaces, aliases : SUBSET Surfaces,
                    mentions : SUBSET (Pages \X Surfaces)]
    BY DEF FinishMerge, At, EntityInv, Typed, WorkerTyped, Idle, MergeSteps
  <2>2. worker.at = "finish_merge" /\ worker.plan \subseteq Plan
    BY DEF FinishMerge, At, Plan
  <2>3. \A m, n \in Plan : m[2] \in Entities /\ m[2] # n[1]
    BY <2>1 DEF EntityInv, MergeHolds
  <2>4. QED
    BY <2>1, <2>2, <2>3
<1>6. WorkerTyped' /\ LinkHolds' /\ MergeHolds'
  <2>1. CASE worker.plan = {}
    BY <1>2, <2>1, IdleHolds
  <2>2. CASE worker.plan # {}
    <3>1. worker' = [at |-> "merge", plan |-> worker.plan]
      BY <1>2, <2>2
    <3>2. worker'.at = "merge" /\ worker'.plan = worker.plan /\ Plan' = worker.plan
      BY <3>1 DEF Plan, Merging, Idle
    <3>3. WorkerTyped'
      BY <1>5, <3>1 DEF WorkerTyped
    <3>4. QED
      BY <1>3, <1>5, <3>2, <3>3 DEF LinkHolds, MergeHolds, SourceCovered, MergeSteps
  <2>3. QED
    BY <2>1, <2>2
<1>7. Typed'
  BY <1>2, <1>4, <1>6 DEF EntityInv, Typed
<1>8. QED
  BY <1>1, <1>2, <1>3, <1>6, <1>7, WriteKeeps DEF EntityInv

-----------------------------------------------------------------------------
(* The undo.                                                               *)

\* A request moves on: its record is of the kind, what it restores is named.
LEMMA RequestMoves ==
    ASSUME EntityInv, NEW c \in Clients, NEW r, client' = [client EXCEPT ![c] = r],
           Asks(r, db'), DOMAIN db'.merges = DOMAIN db.merges,
           \A k \in DOMAIN db.merges : db'.merges[k].source = db.merges[k].source
    PROVE  /\ DOMAIN client' = Clients /\ ClientTyped'
           /\ \A e \in Restored' :
                 e \in Restored \/ (r.at \in {"aliases", "mentions"} /\ e = r.source)
<1>1. DOMAIN client = Clients /\ \A o \in Clients : Asks(client[o], db)
  BY DEF EntityInv, Typed, ClientTyped
<1>2. \A o \in Clients : client'[o] = IF o = c THEN r ELSE client[o]
  BY <1>1
<1>3. \A o \in Clients : Asks(client'[o], db')
  BY <1>1, <1>2 DEF Asks
<1>4. ClientTyped'
  BY <1>3 DEF ClientTyped, Asks
<1>5. \A e \in Restored' :
          e \in Restored \/ (r.at \in {"aliases", "mentions"} /\ e = r.source)
  BY <1>2 DEF Restored
<1>6. DOMAIN client' = Clients
  BY <1>1
<1>7. QED
  BY <1>4, <1>5, <1>6

LEMMA RequestKeeps ==
    ASSUME EntityInv, worker' = worker, linked' = linked, remerged' = remerged, used' = used,
           disk' = disk \/ disk' = db', Fits(db'), Preserved(db, db'), Entities \subseteq Entities',
           DOMAIN client' = Clients, ClientTyped', SourceCovered',
           worker.at \in MergeSteps \ {"finish_merge"} => remerged \/ S \notin Restored'
    PROVE  EntityInv'
<1>1. LinkHolds'
  <2>1. \A s : Named(db, s)' <=> Named(db', s)
    BY DEF Named
  <2>2. QED
    BY <2>1 DEF EntityInv, LinkHolds, Preserved
<1>2. S' = S /\ Plan' = Plan
  BY DEF S, T, Plan, Merging
<1>3. MergeHolds'
  BY <1>2 DEF EntityInv, MergeHolds
<1>4. Typed'
  BY DEF EntityInv, Typed, WorkerTyped
<1>5. QED
  BY <1>1, <1>3, <1>4, WriteKeeps DEF EntityInv

\* Where the rows of the source are as they were, they are covered as before.
LEMMA SameRowsCovered ==
    ASSUME EntityInv, worker' = worker, remerged' = remerged, Entities \subseteq Entities',
           db'.alias = db.alias, db'.mention = db.mention
    PROVE  SourceCovered'
<1>1. S' = S /\ AliasesOf(db, S)' = AliasesOf(db, S) /\ MentionsOf(db, S)' = MentionsOf(db, S)
  BY DEF S, AliasesOf, MentionsOf, Row
<1>2. \A m, e : Row(m, e)' = Row(m, e)
  BY DEF Row
<1>3. QED
  BY <1>1, <1>2 DEF EntityInv, MergeHolds, SourceCovered

\* A step of a request that leaves the rows: only the request moves.
LEMMA RequestRests ==
    ASSUME EntityInv, NEW c \in Clients, NEW r, client' = [client EXCEPT ![c] = r],
           Asks(r, db), db' = db, disk' = disk, worker' = worker,
           linked' = linked, remerged' = remerged, used' = used,
           r.at \in {"aliases", "mentions"} => r.source \in Restored
    PROVE  EntityInv'
<1>1. DOMAIN client' = Clients /\ ClientTyped' /\ \A e \in Restored' : e \in Restored
  BY RequestMoves
<1>2. Fits(db') /\ Preserved(db, db') /\ Entities \subseteq Entities'
  BY DEF EntityInv, Entities, Preserved
<1>3. SourceCovered'
  BY <1>2, SameRowsCovered
<1>4. worker.at \in MergeSteps \ {"finish_merge"} => remerged \/ S \notin Restored'
  BY <1>1 DEF EntityInv, MergeHolds
<1>5. QED
  BY <1>1, <1>2, <1>3, <1>4, RequestKeeps

LEMMA RequestEnds ==
    ASSUME EntityInv, NEW c \in Clients, UndoEnds(c, "failed"), db' = db, disk' = disk,
           worker' = worker, linked' = linked, remerged' = remerged, used' = used
    PROVE  EntityInv'
<1> DEFINE r == [Idle EXCEPT !.at = "failed"]
<1>1. Asks(r, db) /\ r.at = "failed"
  BY DEF Asks, Idle
<1>2. client' = [client EXCEPT ![c] = r]
  BY DEF UndoEnds
<1> HIDE DEF r
<1>3. QED
  BY <1>1, <1>2, RequestRests

LEMMA UndoCheckKeeps ==
    ASSUME EntityInv, NEW c \in Clients, NEW i \in DOMAIN db.merges, UndoCheck(c, i)
    PROVE  EntityInv'
<1> DEFINE m == db.merges[i]
           r == [at |-> "insert", merge |-> i, source |-> m.source, target |-> m.target,
                 todo |-> m.mentions]
<1>1. /\ client' = [client EXCEPT ![c] = r]
      /\ db' = db /\ disk' = disk /\ worker' = worker /\ linked' = linked
      /\ remerged' = remerged /\ used' = used
  BY DEF UndoCheck, Undo
<1>2. m \in MergeRow
  BY DEF EntityInv, Fits
<1>3. Asks(r, db) /\ r.at = "insert"
  BY <1>2 DEF Asks, MergeRow
<1> HIDE DEF r
<1>4. QED
  BY <1>1, <1>3, RequestRests

LEMMA RequestIs ==
    ASSUME EntityInv, NEW c \in Clients, client[c].at \in {"insert", "aliases", "mentions"}
    PROVE  /\ client[c] \in [at : {"insert", "aliases", "mentions"}, merge : DOMAIN db.merges,
                             source : Nat, target : Nat, todo : SUBSET (Pages \X Surfaces)]
           /\ client[c].source = db.merges[client[c].merge].source
           /\ db.merges[client[c].merge] \in MergeRow
           /\ client[c].at # "insert" => client[c].source \in Restored
<1>1. Asks(client[c], db)
  BY DEF EntityInv, Typed, ClientTyped
<1>2. /\ client[c] \in [at : {"insert", "aliases", "mentions"}, merge : DOMAIN db.merges,
                        source : Nat, target : Nat, todo : SUBSET (Pages \X Surfaces)]
      /\ client[c].source = db.merges[client[c].merge].source
  BY <1>1 DEF Asks
<1>3. db.merges[client[c].merge] \in MergeRow
  BY <1>2 DEF EntityInv, Fits
<1>4. client[c].at # "insert" => client[c].source \in Restored
  BY <1>2 DEF Restored
<1>5. QED
  BY <1>2, <1>3, <1>4

LEMMA UndoInsertKeeps ==
    ASSUME EntityInv, NEW c \in Clients, UndoInsert(c)
    PROVE  EntityInv'
<1> DEFINE u == client[c]
           m == db.merges[u.merge]
           r == [u EXCEPT !.at = "aliases"]
           d == Inserted(db, m.source, m.form)
<1>1. /\ u \in [at : {"insert", "aliases", "mentions"}, merge : DOMAIN db.merges,
                source : Nat, target : Nat, todo : SUBSET (Pages \X Surfaces)]
      /\ u.source = m.source /\ m.source \in Nat /\ m.form \in Surfaces
  BY RequestIs DEF UndoInsert, Undoes, MergeRow
<1>2. worker' = worker /\ linked' = linked /\ remerged' = remerged /\ used' = used
  BY DEF UndoInsert, history
<1>3. CASE db' = db /\ disk' = disk /\ UndoEnds(c, "failed")
  BY <1>2, <1>3, RequestEnds
<1>4. CASE /\ m.source \notin Entities /\ db' = d /\ disk' = disk
           /\ client' = [client EXCEPT ![c].at = "aliases"]
  <2>1. /\ Fits(d) /\ DOMAIN d.entity = Entities \union {m.source}
        /\ d.page = db.page /\ d.alias = db.alias
        /\ d.mention = db.mention /\ d.merges = db.merges
    <3>1. Fits(db)
      BY DEF EntityInv
    <3>2. QED
      BY <1>1, <3>1, InsertedKeeps DEF Entities
  <2> HIDE DEF d
  <2>2. Entities' = Entities \union {m.source} /\ Preserved(db, db')
    BY <1>4, <2>1 DEF Entities, Preserved, Named, Held
  <2>3. client' = [client EXCEPT ![c] = r]
    BY <1>4
  <2>4. Asks(r, db) /\ r.source = m.source
    BY <1>1 DEF Asks
  <2> HIDE DEF r
  <2>5. Asks(r, db')
    BY <1>4, <2>1, <2>4 DEF Asks
  <2>6. /\ DOMAIN client' = Clients /\ ClientTyped'
        /\ \A e \in Restored' : e \in Restored \/ e = r.source
    <3>1. db'.merges = db.merges
      BY <1>4, <2>1
    <3>2. QED
      BY <2>3, <2>5, <3>1, RequestMoves
  <2>7. worker.at \in MergeSteps \ {"finish_merge"} => remerged \/ S \notin Restored'
    BY <1>4, <2>4, <2>6 DEF EntityInv, MergeHolds
  <2>8. SourceCovered'
    BY <1>2, <1>4, <2>1, <2>2, SameRowsCovered
  <2>9. QED
    BY <1>2, <1>4, <2>1, <2>2, <2>6, <2>7, <2>8, RequestKeeps
<1>5. QED
  BY <1>3, <1>4 DEF UndoInsert, Writes, UndoNext

LEMMA UndoAliasesKeeps ==
    ASSUME EntityInv, NEW c \in Clients, UndoAliases(c)
    PROVE  EntityInv'
<1> DEFINE u == client[c]
           back == {s \in db.merges[u.merge].aliases :
                       <<s, u.target>> \in db.alias /\ <<s, u.source>> \notin db.alias}
           from == {<<s, u.target>> : s \in back}
           to == {<<s, u.source>> : s \in back}
           r == [u EXCEPT !.at = "mentions"]
           d == [db EXCEPT !.alias = (@ \ from) \union to]
<1>1. /\ u \in [at : {"insert", "aliases", "mentions"}, merge : DOMAIN db.merges,
                source : Nat, target : Nat, todo : SUBSET (Pages \X Surfaces)]
      /\ u.source = db.merges[u.merge].source /\ u.source \in Restored
      /\ db.merges[u.merge].aliases \subseteq Surfaces
  BY RequestIs DEF UndoAliases, Undoes, MergeRow
<1>2. worker' = worker /\ linked' = linked /\ remerged' = remerged /\ used' = used
  BY DEF UndoAliases, history
<1>3. CASE db' = db /\ disk' = disk /\ UndoEnds(c, "failed")
  BY <1>2, <1>3, RequestEnds
<1>4. CASE /\ back = {} \/ u.source \in Entities
           /\ db' = d /\ disk' = disk
           /\ client' = [client EXCEPT ![c].at = "mentions"]
  <2>1. d = [page |-> db.page, entity |-> db.entity, alias |-> (db.alias \ from) \union to,
             mention |-> db.mention, merges |-> db.merges]
    BY WithAlias DEF EntityInv
  <2> HIDE DEF d
  <2>2. to \subseteq Surfaces \X Entities
    <3>1. \A s \in back : s \in Surfaces
      BY <1>1
    <3>2. back # {} => u.source \in Entities
      BY <1>4
    <3> HIDE DEF back
    <3>3. \A s \in back : <<s, u.source>> \in Surfaces \X Entities
      BY <3>1, <3>2
    <3>4. QED
      BY <3>3
  <2>3. \A s, e : <<s, e>> \in from => <<s, u.source>> \in to
    OBVIOUS
  <2>4. \A s, e : <<s, e>> \in to => e = u.source /\ e \in Entities
    BY <1>4
  <2> HIDE DEF back, from, to
  <2>5. Fits(d) /\ Entities' = Entities
    BY <1>4, <2>1, <2>2 DEF EntityInv, Fits, Entities
  <2>6. \A s, e : <<s, e>> \in db.alias => <<s, e>> \in d.alias \/ <<s, u.source>> \in to
    BY <2>1, <2>3
  <2>7. Preserved(db, db')
    BY <1>4, <2>1, <2>4, <2>6 DEF Preserved, Named, Held, Entities
  <2>8. client' = [client EXCEPT ![c] = r]
    BY <1>4
  <2>9. Asks(r, db) /\ r.source = u.source
    BY <1>1 DEF Asks
  <2> HIDE DEF r
  <2>10. Asks(r, db') /\ db'.merges = db.merges
    BY <1>4, <2>1, <2>9 DEF Asks
  <2>11. DOMAIN client' = Clients /\ ClientTyped' /\ \A e \in Restored' : e \in Restored
    BY <1>1, <2>8, <2>9, <2>10, RequestMoves
  <2>12. worker.at \in MergeSteps \ {"finish_merge"} => remerged \/ S \notin Restored'
    BY <2>11 DEF EntityInv, MergeHolds
  <2>13. SourceCovered'
    <3>1. S' = S /\ MentionsOf(db, S)' = MentionsOf(db, S)
      BY <1>2, <1>4, <2>1 DEF S, MentionsOf, Row
    <3>2. \A m, e : Row(m, e)' = Row(m, e)
      BY DEF Row
    <3>3. ASSUME ~ remerged,
                 worker.at \in {"drop_aliases", "copy_mentions", "drop_mentions", "drop_entity"},
                 NEW s \in AliasesOf(db', S)
          PROVE  \E e \in Entities \ {S} : <<s, e>> \in db'.alias
      <4>1. u.source # S
        BY <1>1, <3>3 DEF EntityInv, MergeHolds, MergeSteps
      <4>2. s \in AliasesOf(db, S)
        BY <1>4, <2>1, <2>4, <3>3, <4>1 DEF AliasesOf
      <4>3. PICK e \in Entities \ {S} : <<s, e>> \in db.alias
        BY <3>3, <4>2 DEF EntityInv, MergeHolds, SourceCovered
      <4>4. QED
        BY <1>4, <2>1, <2>4, <2>6, <4>1, <4>3
    <3>4. AliasesOf(db, S)' = AliasesOf(db', S)
      BY <3>1 DEF AliasesOf
    <3>5. ~ remerged /\ worker.at \in {"drop_mentions", "drop_entity"} =>
              \A m \in MentionsOf(db, S) : \E e \in Entities \ {S} : Row(m, e) \in db.mention
      BY DEF EntityInv, MergeHolds, SourceCovered
    <3>6. db'.mention = db.mention
      BY <1>4, <2>1
    <3>7. QED
      BY <1>2, <2>5, <3>1, <3>2, <3>3, <3>4, <3>5, <3>6 DEF SourceCovered
  <2>14. QED
    BY <1>2, <1>4, <2>5, <2>7, <2>11, <2>12, <2>13, RequestKeeps
<1>5. QED
  BY <1>3, <1>4 DEF UndoAliases, Writes, UndoNext

LEMMA UndoMentionKeeps ==
    ASSUME EntityInv, NEW c \in Clients, UndoMention(c)
    PROVE  EntityInv'
<1> DEFINE u == client[c]
           here(m) == Row(m, u.target)
           there(m) == Row(m, u.source)
           moves(m) == here(m) \in db.mention /\ there(m) \notin db.mention
<1>1. /\ u \in [at : {"insert", "aliases", "mentions"}, merge : DOMAIN db.merges,
                source : Nat, target : Nat, todo : SUBSET (Pages \X Surfaces)]
      /\ u.at = "mentions"
      /\ u.source = db.merges[u.merge].source /\ u.source \in Restored
  BY RequestIs DEF UndoMention, Undoes
<1>2. worker' = worker /\ linked' = linked /\ remerged' = remerged /\ used' = used
  BY DEF UndoMention, history
<1>3. CASE db' = db /\ disk' = disk /\ UndoEnds(c, "failed")
  BY <1>2, <1>3, RequestEnds
<1>4. ASSUME NEW m \in u.todo, disk' = disk, moves(m) => u.source \in Entities,
             db' = IF moves(m)
                   THEN [db EXCEPT !.mention = (@ \ {here(m)}) \union {there(m)}] ELSE db,
             client' = [client EXCEPT ![c].todo = @ \ {m}]
      PROVE  EntityInv'
  <2> DEFINE r == [u EXCEPT !.todo = @ \ {m}]
             d == [db EXCEPT !.mention = (@ \ {here(m)}) \union {there(m)}]
  <2>1. client' = [client EXCEPT ![c] = r]
    BY <1>4
  <2>2. Asks(r, db) /\ r.source = u.source
    BY <1>1 DEF Asks
  <2> HIDE DEF r
  <2>3. CASE db' = db
    BY <1>1, <1>2, <1>4, <2>1, <2>2, <2>3, RequestRests
  <2>4. CASE u.source \in Entities /\ db' = d
    <3>1. d = [page |-> db.page, entity |-> db.entity, alias |-> db.alias,
               mention |-> (db.mention \ {here(m)}) \union {there(m)}, merges |-> db.merges]
      BY WithMention DEF EntityInv
    <3> HIDE DEF d
    <3>2. there(m) \in Pages \X Surfaces \X Entities
      BY <1>1, <1>4, <2>4 DEF Row
    <3>3. \A n, e : Row(n, e) = here(m) => Row(n, u.source) = there(m)
      BY DEF Row
    <3>4. \A n, e : Row(n, e) = there(m) => e = u.source
      BY DEF Row
    <3> HIDE DEF here, there
    <3>5. Fits(d) /\ Entities' = Entities
      BY <2>4, <3>1, <3>2 DEF EntityInv, Fits, Entities
    <3>6. \A n, e : Row(n, e) \in db.mention =>
              Row(n, e) \in d.mention \/ Row(n, u.source) \in d.mention
      BY <3>1, <3>3
    <3>7. Preserved(db, db')
      BY <2>4, <3>1, <3>6 DEF Preserved, Named, Held, Entities
    <3>8. Asks(r, db') /\ db'.merges = db.merges
      BY <2>2, <2>4, <3>1 DEF Asks
    <3>9. DOMAIN client' = Clients /\ ClientTyped' /\ \A e \in Restored' : e \in Restored
      BY <1>1, <2>1, <2>2, <3>8, RequestMoves
    <3>10. worker.at \in MergeSteps \ {"finish_merge"} => remerged \/ S \notin Restored'
      BY <3>9 DEF EntityInv, MergeHolds
    <3>11. SourceCovered'
      <4>1. S' = S /\ AliasesOf(db, S)' = AliasesOf(db, S) /\ db'.alias = db.alias
        BY <1>2, <2>4, <3>1 DEF S, AliasesOf
      <4>2. ASSUME ~ remerged, worker.at \in {"drop_mentions", "drop_entity"},
                   NEW n \in MentionsOf(db', S)
            PROVE  \E e \in Entities \ {S} : Row(n, e) \in db'.mention
        <5>1. u.source # S
          BY <1>1, <4>2 DEF EntityInv, MergeHolds, MergeSteps
        <5>2. Row(n, S) \in db.mention
          BY <2>4, <3>1, <3>4, <4>2, <5>1 DEF MentionsOf
        <5>3. n \in MentionsOf(db, S)
          BY <4>2, <5>2 DEF MentionsOf
        <5>4. PICK e \in Entities \ {S} : Row(n, e) \in db.mention
          BY <4>2, <5>3 DEF EntityInv, MergeHolds, SourceCovered
        <5>5. QED
          BY <2>4, <3>6, <5>1, <5>4
      <4>3. MentionsOf(db, S)' = MentionsOf(db', S)
        BY <4>1 DEF MentionsOf, Row
      <4>4. \A k, e : Row(k, e)' = Row(k, e)
        BY DEF Row
      <4>5. ~ remerged
            /\ worker.at \in {"drop_aliases", "copy_mentions", "drop_mentions", "drop_entity"} =>
                \A s \in AliasesOf(db, S) : \E e \in Entities \ {S} : <<s, e>> \in db.alias
        BY DEF EntityInv, MergeHolds, SourceCovered
      <4>6. QED
        BY <1>2, <3>5, <4>1, <4>2, <4>3, <4>4, <4>5 DEF SourceCovered
    <3>12. QED
      BY <1>2, <1>4, <2>4, <3>5, <3>7, <3>9, <3>10, <3>11, RequestKeeps
  <2>5. QED
    BY <1>4, <2>3, <2>4
<1>5. QED
  BY <1>3, <1>4 DEF UndoMention, Writes

LEMMA UndoFinishKeeps ==
    ASSUME EntityInv, NEW c \in Clients, UndoFinish(c)
    PROVE  EntityInv'
<1> DEFINE u == client[c]
           r == [Idle EXCEPT !.at = "idle"]
           b == [db EXCEPT !.merges[u.merge].undone = TRUE]
           d == Counted(Recomputed(b, u.target), {u.source, u.target})
           ms == [db.merges EXCEPT ![u.merge].undone = TRUE]
<1>1. u.merge \in DOMAIN db.merges
  BY RequestIs DEF UndoFinish, Undoes
<1>2. /\ worker' = worker /\ linked' = linked /\ remerged' = remerged /\ used' = used
      /\ db' = d /\ disk' = d /\ client' = [client EXCEPT ![c] = r]
  BY DEF UndoFinish, history, Commits, UndoEnds
<1>3. /\ ms \in Seq(MergeRow) /\ DOMAIN ms = DOMAIN db.merges
      /\ \A k \in DOMAIN db.merges : ms[k].source = db.merges[k].source
  <2>1. db.merges \in Seq(MergeRow)
    BY DEF EntityInv, Fits
  <2>2. [db.merges[u.merge] EXCEPT !.undone = TRUE] \in MergeRow
    <3>1. db.merges[u.merge] \in MergeRow
      BY <1>1, <2>1
    <3>2. QED
      BY <3>1 DEF MergeRow
  <2>3. ms \in Seq(MergeRow) /\ DOMAIN ms = DOMAIN db.merges
    BY <1>1, <2>1, <2>2
  <2>4. \A k \in DOMAIN db.merges : ms[k].source = db.merges[k].source
    <3>1. \A k \in DOMAIN db.merges : db.merges[k] \in MergeRow
      BY <2>1
    <3>2. QED
      BY <3>1 DEF MergeRow
  <2>5. QED
    BY <2>3, <2>4
<1>4. b = [page |-> db.page, entity |-> db.entity, alias |-> db.alias,
           mention |-> db.mention, merges |-> ms]
  BY WithMerges DEF EntityInv
<1> HIDE DEF b, ms
<1>5. Fits(b)
  BY <1>3, <1>4 DEF EntityInv, Fits
<1>6. Fits(Recomputed(b, u.target)) /\ SameRows(Recomputed(b, u.target), b)
  BY <1>5, RecomputedKeeps
<1>7. Fits(d) /\ SameRows(d, Recomputed(b, u.target))
  BY <1>6, CountedKeeps
<1> HIDE DEF d
<1>8. /\ db'.page = db.page /\ Entities' = Entities /\ db'.alias = db.alias
      /\ db'.mention = db.mention /\ db'.merges = ms
  BY <1>2, <1>4, <1>6, <1>7 DEF SameRows, Entities
<1>9. Preserved(db, db')
  BY <1>8 DEF Preserved, Named, Held, Entities
<1>10. Asks(r, db') /\ r.at = "idle"
  BY DEF Asks, Idle
<1> HIDE DEF r
<1>11. DOMAIN client' = Clients /\ ClientTyped' /\ \A e \in Restored' : e \in Restored
  BY <1>2, <1>3, <1>8, <1>10, RequestMoves
<1>12. worker.at \in MergeSteps \ {"finish_merge"} => remerged \/ S \notin Restored'
  BY <1>11 DEF EntityInv, MergeHolds
<1>13. SourceCovered'
  BY <1>2, <1>8, SameRowsCovered
<1>14. QED
  BY <1>2, <1>7, <1>8, <1>9, <1>11, <1>12, <1>13, RequestKeeps

-----------------------------------------------------------------------------
(* Beside them.                                                            *)

LEMMA PurgeKeeps ==
    ASSUME EntityInv, NEW p \in Pages, Purge(p)
    PROVE  EntityInv'
<1> DEFINE rows == {r \in db.mention : r[1] # p}
           d == [db EXCEPT !.page = @ \ {p}, !.mention = {r \in @ : r[1] # p}]
<1>1. /\ worker' = worker /\ client' = client /\ linked' = linked /\ remerged' = remerged
      /\ db' = d /\ disk' = d
  BY DEF Purge, history, Commits
<1>2. d = [page |-> db.page \ {p}, entity |-> db.entity, alias |-> db.alias,
           mention |-> rows, merges |-> db.merges]
  BY WithoutPage DEF EntityInv
<1> HIDE DEF d
<1>3. Fits(d) /\ Entities' = Entities
  BY <1>1, <1>2 DEF EntityInv, Fits, Entities
<1>4. \A m, e : Row(m, e) \in db.mention /\ m[1] # p => Row(m, e) \in rows
  BY DEF Row
<1>5. Preserved(db, d)
  BY <1>2, <1>4 DEF Preserved, Named, Held
<1>6. ClientTyped'
  BY <1>1, <1>2, ClientReads
<1>7. used' \in [links : Nat, troubles : Nat, ids : Nat]
  <2>1. used \in [links : Nat, troubles : Nat, ids : Nat]
    BY DEF EntityInv, Typed
  <2>2. QED
    BY <2>1 DEF Purge, Trouble, Use
<1>8. Typed'
  BY <1>1, <1>6, <1>7 DEF EntityInv, Typed, WorkerTyped
<1>9. LinkHolds'
  <2>1. \A s : Named(db, s)' <=> Named(db, s)
    BY <1>1, <1>2 DEF Named
  <2>2. QED
    BY <1>1, <1>3, <2>1 DEF EntityInv, LinkHolds
<1>10. SourceCovered'
  <2>1. S' = S /\ AliasesOf(db, S)' = AliasesOf(db, S) /\ db'.alias = db.alias
    BY <1>1, <1>2 DEF S, AliasesOf
  <2>2. ASSUME NEW m \in MentionsOf(db', S)
        PROVE  m \in MentionsOf(db, S) /\ m[1] # p
    BY <1>1, <1>2 DEF MentionsOf, Row
  <2>3. MentionsOf(db, S)' = MentionsOf(db', S) /\ db'.mention = rows
    BY <1>1, <1>2, <2>1 DEF MentionsOf, Row
  <2>4. \A m, e : Row(m, e)' = Row(m, e)
    BY DEF Row
  <2> HIDE DEF rows
  <2>5. SourceCovered
    BY DEF EntityInv, MergeHolds
  <2>6. QED
    BY <1>1, <1>3, <1>4, <2>1, <2>2, <2>3, <2>4, <2>5 DEF SourceCovered
<1>11. MergeHolds'
  <2>1. S' = S /\ Plan' = Plan /\ Restored' = Restored
    BY <1>1 DEF S, T, Plan, Merging, Restored
  <2>2. QED
    BY <1>1, <1>3, <1>10, <2>1 DEF EntityInv, MergeHolds
<1>12. QED
  BY <1>1, <1>3, <1>5, <1>8, <1>9, <1>11, WriteKeeps DEF EntityInv

LEMMA StopsKeep == EntityInv /\ (Cancel \/ Crash) => EntityInv'
<1> SUFFICES ASSUME EntityInv, Cancel \/ Crash PROVE EntityInv'
  OBVIOUS
<1>1. worker' = Idle /\ linked' = linked /\ remerged' = remerged
  BY DEF Cancel, Crash, history
<1>2. used' \in [links : Nat, troubles : Nat, ids : Nat]
  <2>1. used \in [links : Nat, troubles : Nat, ids : Nat]
    BY DEF EntityInv, Typed
  <2>2. QED
    BY <2>1 DEF Cancel, Crash, Trouble, Use
<1>3. WorkerTyped' /\ LinkHolds' /\ MergeHolds'
  BY <1>1, IdleHolds
<1>4. \/ db' = db /\ disk' = db /\ client' = client
      \/ db' = disk /\ disk' = disk /\ client' = [c \in Clients |-> Idle]
  BY DEF Cancel, Crash, Commits
<1>5. Fits(db)' /\ Fits(disk)' /\ ((~ remerged)' => Kept(db)' /\ Kept(disk)')
  BY <1>1, <1>4 DEF EntityInv, Fits, Kept, Named, Held, Row
<1>6. DOMAIN client' = Clients /\ ClientTyped'
  <2>1. CASE client' = client /\ db' = db
    BY <2>1 DEF EntityInv, Typed, ClientTyped, Asks
  <2>2. CASE client' = [c \in Clients |-> Idle]
    BY <2>2 DEF ClientTyped, Asks, Idle
  <2>3. QED
    BY <1>4, <2>1, <2>2
<1>7. Typed'
  BY <1>1, <1>2, <1>3, <1>6 DEF EntityInv, Typed
<1>8. QED
  BY <1>3, <1>5, <1>7 DEF EntityInv

-----------------------------------------------------------------------------
(* The theorem.                                                            *)

LEMMA EntityInvInit == Init => EntityInv
<1> SUFFICES ASSUME Init PROVE EntityInv
  OBVIOUS
<1>1. /\ db = [page |-> Pages, entity |-> <<>>, alias |-> {}, mention |-> {}, merges |-> <<>>]
      /\ disk = db /\ worker = Idle /\ client = [c \in Clients |-> Idle]
      /\ linked = {} /\ remerged = FALSE /\ used = [links |-> 0, troubles |-> 0, ids |-> 0]
  BY DEF Init
<1>2. DOMAIN db.entity = {} /\ db.entity \in [DOMAIN db.entity -> EntityRow]
  BY <1>1
<1>3. Fits(db)
  BY <1>1, <1>2 DEF Fits
<1>4. Kept(db)
  BY <1>1 DEF Kept
<1>5. WorkerTyped /\ LinkHolds /\ MergeHolds
  BY <1>1 DEF Idle, WorkerTyped, LinkHolds, MergeHolds, SourceCovered, MergeSteps
<1>6. Typed
  BY <1>1, <1>5 DEF Typed, ClientTyped, Asks, Idle
<1>7. QED
  BY <1>1, <1>3, <1>4, <1>5, <1>6 DEF EntityInv

LEMMA EntityInvStep == EntityInv /\ [Next]_vars => EntityInv'
<1> SUFFICES ASSUME EntityInv, [Next]_vars PROVE EntityInv'
  OBVIOUS
<1>1. CASE Link
  BY <1>1, LinkReads, AddAliasKeeps, CreateEntityKeeps, AddMentionsKeeps DEF Link
<1>2. CASE Canonicalize
  BY <1>2, ReadBlockKeeps, MergeReadKeeps, MergeLogKeeps, MoveAliasesKeeps, DropAliasesKeeps,
     CopyMentionsKeeps, DropMentionsKeeps, DropEntityKeeps, FinishMergeKeeps DEF Canonicalize
<1>3. CASE UndoRequest
  BY <1>3, UndoCheckKeeps, UndoInsertKeeps, UndoAliasesKeeps, UndoMentionKeeps, UndoFinishKeeps
     DEF UndoRequest
<1>4. CASE \E p \in Pages : Purge(p)
  BY <1>4, PurgeKeeps
<1>5. CASE Cancel \/ Crash
  BY <1>5, StopsKeep
<1>6. CASE UNCHANGED vars
  <2>1. /\ db' = db /\ disk' = disk /\ worker' = worker /\ client' = client
        /\ linked' = linked /\ remerged' = remerged /\ used' = used
    BY <1>6 DEF vars, history
  <2>2. WorkerTyped' /\ LinkHolds' /\ MergeHolds'
    <3>1. /\ Entities' = Entities /\ Plan' = Plan /\ Restored' = Restored /\ S' = S
          /\ AliasesOf(db, S)' = AliasesOf(db, S) /\ MentionsOf(db, S)' = MentionsOf(db, S)
      BY <2>1 DEF Entities, Plan, Merging, Restored, S, T, AliasesOf, MentionsOf, Row
    <3>2. WorkerTyped'
      BY <2>1 DEF EntityInv, Typed, WorkerTyped
    <3>3. LinkHolds'
      BY <2>1, <3>1 DEF EntityInv, LinkHolds, Named
    <3>4. SourceCovered'
      BY <2>1, <3>1, SameRowsCovered
    <3>5. MergeHolds'
      BY <2>1, <3>1, <3>4 DEF EntityInv, MergeHolds
    <3>6. QED
      BY <3>2, <3>3, <3>5
  <2>3. QED
    BY <2>1, <2>2, WorkerReads DEF EntityInv, Typed
<1>7. QED
  BY <1>1, <1>2, <1>3, <1>4, <1>5, <1>6 DEF Next

\* However linking, merges, undos, purges, cancelled handlers and crashes
\* interleave, a mention that was recorded is held by an entity for as long as
\* its page is there, and what was linked is an alias of one, unless an entity
\* was merged while an undo was restoring it (sqlite_store.py:491-605).
THEOREM MentionsAreKept == Spec => []MentionsKept
<1>1. EntityInv => MentionsKept
  <2> SUFFICES ASSUME EntityInv PROVE MentionsKept
    OBVIOUS
  <2>1. db.alias \subseteq Surfaces \X Entities /\ db.mention \subseteq Pages \X Surfaces \X Entities
    BY DEF EntityInv, Fits, Entities
  <2>2. ~ remerged => \A m \in linked :
            /\ m[1] \in db.page => \E e \in Entities : Row(m, e) \in db.mention
            /\ \E e \in Entities : <<m[2], e>> \in db.alias
    BY DEF EntityInv, Kept, Named, Held, Entities
  <2>3. QED
    BY <2>1, <2>2 DEF MentionsKept
<1>2. QED
  BY EntityInvInit, EntityInvStep, <1>1, PTL DEF Spec

-----------------------------------------------------------------------------
(* Merges are undone.  The tables, those of the connection and those a     *)
(* crash falls back to, are good: a mention has one entity, the target of  *)
(* a merge holds what it got, or it was merged after that and its row has  *)
(* it, the source is gone, and rows that meet are told apart.  All this    *)
(* but for crossed entities and for the rows of what is under way.         *)

\* A row of the log whose merge has not been undone.
ActiveRow(d, i) == i \in DOMAIN d.merges /\ ~ d.merges[i].undone

\* A merge that came after merge i, and has not been undone, has to do with its
\* target: newest first, that of i is not to be undone.  What the code asks for
\* is Later; the two agree where the times are in the order of the merges.
Newer(i) ==
    \E k \in DOMAIN db.merges : k > i /\ ~db.merges[k].undone
        /\ db.merges[i].target \in {db.merges[k].target, db.merges[k].source}

\* The mentions M whose page is still there are held by e.
Has(d, e, M) == \A m \in M : m[1] \in d.page => Row(m, e) \in d.mention
\* The mentions of row i, of a page still there, are all, or none, in row k.
Within(d, i, k) == \A m \in d.merges[i].mentions : m[1] \in d.page => m \in d.merges[k].mentions
Beside(d, i, k) == \A m \in d.merges[i].mentions : m[1] \in d.page => m \notin d.merges[k].mentions

\* The target of row i was merged after it, by row k, with what it had got.
Follows(d, i, k) ==
    k > i /\ ActiveRow(d, k) /\ d.merges[k].source = d.merges[i].target /\ Within(d, i, k)
Settled(d, i) ==
    Has(d, d.merges[i].target, d.merges[i].mentions) \/ \E k \in DOMAIN d.merges : Follows(d, i, k)

\* No mention has two entities, unless both are in X or both in Y.
Apart(d, X, Y) ==
    \A e, o \in DOMAIN d.entity : \A m \in MentionsOf(d, e) :
        e # o /\ Row(m, o) \in d.mention => {e, o} \subseteq X \/ {e, o} \subseteq Y
\* But for the rows E, what a merge gave its target is there.
TargetsHave(d, X, E) ==
    \A i \in DOMAIN d.merges : ActiveRow(d, i) => d.merges[i].target \in X \/ i \in E \/ Settled(d, i)
\* But for the rows U, what was merged is gone.
SourcesGone(d, X, U) ==
    \A i \in DOMAIN d.merges :
        ActiveRow(d, i) /\ d.merges[i].source \in DOMAIN d.entity => d.merges[i].source \in X \/ i \in U
\* What was merged takes no part in a later merge, and two merges into one
\* target gave it different mentions.
RowsApart(d, X) ==
    \A i, j \in DOMAIN d.merges : ActiveRow(d, i) /\ ActiveRow(d, j) /\ i < j =>
        LET a == d.merges[i]  b == d.merges[j] IN
        /\ a.source \notin X => a.source # b.source /\ a.source # b.target
        /\ a.target \notin X /\ a.target = b.target => Beside(d, i, j)
Good(d, X, Y, E, U) == Apart(d, X, Y) /\ TargetsHave(d, X, E) /\ SourcesGone(d, X, U) /\ RowsApart(d, X)

\* What is under way excuses: the entities that share the mentions being moved,
\* the rows whose target has not all yet or has given some back, the rows whose
\* source is there; and the entities that a crash would leave in the middle.
PastInsert(c) == client[c].at \in {"aliases", "mentions"}
Copying == {"move_aliases", "drop_aliases", "copy_mentions"}
Dropping == {"drop_mentions", "drop_entity"}
Sharing == IF worker.at \in Dropping THEN {S, T} ELSE {}
Exempt == {i \in DOMAIN db.merges : \/ \E c \in Clients : client[c].at = "mentions" /\ client[c].merge = i
                                    \/ worker.at \in Copying /\ i = Len(db.merges)}
InUse == {i \in DOMAIN db.merges : \/ \E c \in Clients : PastInsert(c) /\ client[c].merge = i
                                   \/ worker.at \in Copying \union Dropping /\ i = Len(db.merges)}
Busy == {e \in Nat : e \in Merged \/ \E c \in Clients : PastInsert(c) /\ e \in {client[c].source, client[c].target}}

DbGood == Good(db, crossed, Sharing, Exempt, InUse)
DiskGood == Good(disk, crossed \union Busy, {}, {}, {})

\* The merge under way: it runs beside no undo but crossed ones, its row is the
\* last of the log, and its source holds what the row says until it is copied.
UndoCrossed(c) == client[c].source \in crossed /\ client[c].target \in crossed
Flight ==
    /\ Merging => \A c \in Clients : Undoing(c) => UndoCrossed(c) /\ S \in crossed /\ T \in crossed
    /\ Merging /\ S \in crossed => T \in crossed
    /\ worker.at = "log" /\ S \notin crossed =>
         Has(db, S, worker.mentions) /\ MentionsOf(db, S) \subseteq worker.mentions
    /\ worker.at \in Copying \union Dropping =>
         LET n == Len(db.merges) IN
         /\ n > 0 /\ db.merges[n].source = S /\ db.merges[n].target = T
         /\ S \notin crossed =>
              /\ ~ db.merges[n].undone
              /\ worker.at \in Copying => Has(db, S, db.merges[n].mentions)
              /\ \A i \in DOMAIN db.merges : i < n /\ ActiveRow(db, i) /\ db.merges[i].target = S => Within(db, i, n)

\* An undo under way: crossed; or beaten by another undo of its merge, so that
\* its insert will fail; or restoring, with every mention of the row at the
\* source, or at the target and still to do.
TooLate(c) == /\ db.merges[client[c].merge].undone
              /\ client[c].at = "insert" /\ client[c].source \in Entities
Restoring(c) ==
    LET u == client[c]  m == db.merges[u.merge] IN
    /\ u.source \notin crossed /\ u.target \notin crossed
    /\ ~ m.undone /\ ~ Newer(u.merge)
    /\ PastInsert(c) => /\ u.source \in Entities
                        /\ \A o \in Clients \ {c} : PastInsert(o) => client[o].source # u.source
    /\ \A p \in m.mentions : p[1] \in db.page =>
         Row(p, u.source) \in db.mention \/ (p \in u.todo /\ Row(p, u.target) \in db.mention)
Requests ==
    \A c \in Clients : Undoing(c) =>
        /\ client[c].target = db.merges[client[c].merge].target
        /\ client[c].todo \subseteq db.merges[client[c].merge].mentions
        /\ UndoCrossed(c) \/ TooLate(c) \/ Restoring(c)

\* No id is given twice, and of the log only the row of the merge under way is
\* not committed.
Numbers ==
    /\ \A e \in Entities \union DOMAIN disk.entity : e <= used.ids
    /\ \A i \in DOMAIN db.merges : db.merges[i].source <= used.ids
    /\ db.page = disk.page
    /\ Len(disk.merges) <= Len(db.merges) /\ \A i \in DOMAIN disk.merges : disk.merges[i] = db.merges[i]
    /\ ~ Merging => Len(disk.merges) = Len(db.merges)

RestoreInv == DbGood /\ DiskGood /\ Flight /\ Requests /\ Numbers

\* Tables that differ in forms, counts and aliases at most.
SameTables(d, b) == /\ d.page = b.page /\ d.mention = b.mention /\ d.merges = b.merges
                    /\ DOMAIN d.entity = DOMAIN b.entity

\* What is good of tables is good of the same, whatever else is excused.
LEMMA GoodGrows ==
    ASSUME NEW d, NEW b, NEW X, NEW X2, NEW Y, NEW Y2, NEW E, NEW E2, NEW U, NEW U2,
           Good(d, X, Y, E, U), SameTables(d, b), X \subseteq X2,
           Y \subseteq X2 \/ Y \subseteq Y2,
           \A i \in E : ActiveRow(d, i) => i \in E2 \/ d.merges[i].target \in X2,
           \A i \in U : ActiveRow(d, i) /\ d.merges[i].source \in DOMAIN d.entity => i \in U2 \/ d.merges[i].source \in X2
    PROVE  Good(b, X2, Y2, E2, U2)
<1> USE DEF SameTables
<1>1. \A i : ActiveRow(b, i) <=> ActiveRow(d, i)
  BY DEF ActiveRow
<1>2. Apart(b, X2, Y2)
  BY DEF Good, Apart, MentionsOf
<1>3. TargetsHave(b, X2, E2)
  BY <1>1 DEF Good, TargetsHave, Settled, Has, Follows, Within
<1>4. SourcesGone(b, X2, U2)
  BY <1>1 DEF Good, SourcesGone
<1>5. RowsApart(b, X2)
  BY <1>1 DEF Good, RowsApart, Beside
<1> QED
  BY <1>2, <1>3, <1>4, <1>5 DEF Good

\* The merge under way.
LEMMA MergingIs == EntityInv => (Merging <=> worker.at \in MergeSteps)
<1> SUFFICES ASSUME EntityInv PROVE Merging <=> worker.at \in MergeSteps
  OBVIOUS
<1> QED
  BY DEF EntityInv, Typed, WorkerTyped, Merging, MergeSteps, Idle

\* Its entities are there, and they are two.
LEMMA MergeFacts ==
    EntityInv /\ worker.at \in MergeSteps \ {"finish_merge"} =>
        S \in Entities /\ T \in Entities /\ S # T /\ S \in Nat /\ T \in Nat
<1> SUFFICES ASSUME EntityInv, worker.at \in MergeSteps \ {"finish_merge"}
             PROVE  S \in Entities /\ T \in Entities /\ S # T /\ S \in Nat /\ T \in Nat
  OBVIOUS
<1>1. <<S, T>> \in Plan /\ S \in Entities
  BY MergingIs DEF EntityInv, MergeHolds, Plan
<1>2. T \in Entities /\ T # S
  BY <1>1 DEF EntityInv, MergeHolds
<1> QED
  BY <1>1, <1>2 DEF EntityInv, Fits, Entities

\* The request that runs an undo.
LEMMA UndoFacts ==
    ASSUME EntityInv, NEW c \in Clients, Undoing(c)
    PROVE  /\ client[c] \in [at : {"insert", "aliases", "mentions"}, merge : DOMAIN db.merges,
                             source : Nat, target : Nat, todo : SUBSET (Pages \X Surfaces)]
           /\ client[c].source = db.merges[client[c].merge].source
           /\ db.merges[client[c].merge] \in MergeRow
  BY RequestIs DEF Undoing

\* The rows of the log.
LEMMA RowsTyped ==
    EntityInv => /\ \A i \in DOMAIN db.merges : db.merges[i] \in MergeRow
                 /\ DOMAIN db.merges = 1..Len(db.merges) /\ Len(db.merges) \in Nat
  BY DEF EntityInv, Fits

\* What is written on the connection is as good when it is committed, with the
\* entities of what is under way.
LEMMA WrittenIsGood ==
    EntityInv /\ DbGood /\ Flight /\ Requests => Good(db, crossed \union Busy, {}, {}, {})
<1> SUFFICES ASSUME EntityInv, DbGood, Flight, Requests
             PROVE  Good(db, crossed \union Busy, {}, {}, {})
  OBVIOUS
<1> DEFINE X == crossed \union Busy
<1>1. SameTables(db, db) /\ crossed \subseteq X
  BY DEF SameTables
<1>2. Sharing \subseteq X
  <2>1. CASE worker.at \in Dropping
    <3>1. S \in Nat /\ T \in Nat /\ Merging
      BY <2>1, MergeFacts, MergingIs DEF Dropping, MergeSteps
    <3> QED
      BY <3>1, <2>1 DEF Sharing, Busy, Merged, S, T
  <2>2. CASE worker.at \notin Dropping
    BY <2>2 DEF Sharing
  <2> QED
    BY <2>1, <2>2
<1>3. \A i \in Exempt : db.merges[i].target \in X
  <2> SUFFICES ASSUME NEW i \in Exempt PROVE db.merges[i].target \in X
    OBVIOUS
  <2>1. CASE worker.at \in Copying /\ i = Len(db.merges)
    <3>1. S \in Nat /\ T \in Nat /\ Merging
      BY <2>1, MergeFacts, MergingIs DEF Copying, MergeSteps
    <3>2. db.merges[i].target = T
      BY <2>1 DEF Flight
    <3> QED
      BY <3>1, <3>2 DEF Busy, Merged, S, T
  <2>2. ASSUME NEW c \in Clients, client[c].at = "mentions", client[c].merge = i
        PROVE  db.merges[i].target \in X
    <3>1. Undoing(c) /\ PastInsert(c)
      BY <2>2 DEF Undoing, PastInsert
    <3>2. client[c].target \in Nat /\ client[c].target = db.merges[i].target
      BY <3>1, <2>2, UndoFacts DEF Requests
    <3> QED
      BY <3>1, <3>2 DEF Busy
  <2> QED
    BY <2>1, <2>2 DEF Exempt
<1>4. \A i \in InUse : db.merges[i].source \in X
  <2> SUFFICES ASSUME NEW i \in InUse PROVE db.merges[i].source \in X
    OBVIOUS
  <2>1. CASE worker.at \in Copying \union Dropping /\ i = Len(db.merges)
    <3>1. S \in Nat /\ T \in Nat /\ Merging
      BY <2>1, MergeFacts, MergingIs DEF Copying, Dropping, MergeSteps
    <3>2. db.merges[i].source = S
      BY <2>1 DEF Flight
    <3> QED
      BY <3>1, <3>2 DEF Busy, Merged, S, T
  <2>2. ASSUME NEW c \in Clients, PastInsert(c), client[c].merge = i
        PROVE  db.merges[i].source \in X
    <3>1. Undoing(c)
      BY <2>2 DEF Undoing, PastInsert
    <3>2. client[c].source \in Nat /\ client[c].source = db.merges[i].source
      BY <3>1, <2>2, UndoFacts
    <3> QED
      BY <3>2, <2>2 DEF Busy
  <2> QED
    BY <2>1, <2>2 DEF InUse
<1> HIDE DEF X
<1>5. Good(db, X, {}, {}, {})
  BY <1>1, <1>2, <1>3, <1>4, GoodGrows DEF DbGood
<1> QED
  BY <1>5 DEF X

\* So a commit leaves both tables good.
LEMMA CommittedIsGood ==
    EntityInv' /\ DbGood' /\ Flight' /\ Requests' /\ disk' = db' => DiskGood'
<1>1. (EntityInv /\ DbGood /\ Flight /\ Requests => Good(db, crossed \union Busy, {}, {}, {}))'
  BY WrittenIsGood, PTL
<1> QED
  BY <1>1 DEF DiskGood

-----------------------------------------------------------------------------
\* A step that leaves the log and numbers entities as it should.
LEMMA NumbersKeep ==
    ASSUME EntityInv, EntityInv', Numbers, db'.merges = db.merges, used'.ids >= used.ids,
           \A e \in Entities' : e <= used'.ids,
           \/ disk' = db'
           \/ disk' = disk /\ db'.page = db.page /\ (Merging => Merging')
    PROVE  Numbers'
<1>1. used.ids \in Nat /\ used'.ids \in Nat
  BY DEF EntityInv, Typed
<1>2. \A i \in DOMAIN db'.merges : db'.merges[i].source <= used'.ids
  <2> SUFFICES ASSUME NEW i \in DOMAIN db.merges PROVE db.merges[i].source <= used'.ids
    OBVIOUS
  <2>1. db.merges[i].source \in Nat /\ db.merges[i].source <= used.ids
    BY RowsTyped DEF Numbers, MergeRow
  <2> QED
    BY <2>1, <1>1
<1>3. Len(db.merges) \in Nat
  BY RowsTyped
<1>4. CASE disk' = db'
  <2>1. \A e \in DOMAIN disk'.entity : e <= used'.ids
    BY <1>4 DEF Entities
  <2> QED
    BY <1>1, <1>2, <1>3, <1>4, <2>1 DEF Numbers
<1>5. CASE disk' = disk /\ db'.page = db.page /\ (Merging => Merging')
  <2>1. \A e \in DOMAIN disk'.entity : e <= used'.ids
    <3> SUFFICES ASSUME NEW e \in DOMAIN disk.entity PROVE e <= used'.ids
      BY <1>5
    <3>1. e \in Nat /\ e <= used.ids
      BY DEF EntityInv, Fits, Numbers
    <3> QED
      BY <3>1, <1>1
  <2> QED
    BY <1>1, <1>2, <1>5, <2>1 DEF Numbers
<1> QED
  BY <1>4, <1>5

\* What is committed stays good while nothing is committed.
LEMMA DiskStays ==
    ASSUME DiskGood, disk' = disk, crossed \subseteq crossed', Busy \subseteq crossed' \union Busy'
    PROVE  DiskGood'
<1> DEFINE X == crossed \union Busy
           Y == crossed' \union Busy'
<1>1. X \subseteq Y /\ SameTables(disk, disk)
  BY DEF SameTables
<1> HIDE DEF X, Y
<1>2. Good(disk, X, {}, {}, {})
  BY DEF DiskGood, X
<1>3. Good(disk, Y, {}, {}, {})
  BY <1>1, <1>2, GoodGrows
<1> QED
  BY <1>3 DEF DiskGood, Y

\* A step of the worker between merges that changes no table of ours.
LEMMA QuietKeeps ==
    ASSUME EntityInv, EntityInv', RestoreInv, SameTables(db, db'), disk' = disk \/ disk' = db',
           client' = client, crossed' = crossed, used'.ids = used.ids,
           worker.at \notin MergeSteps, worker'.at \notin MergeSteps
    PROVE  RestoreInv'
<1> USE DEF SameTables
<1>1. ~Merging /\ ~Merging'
  <2>1. (EntityInv => (Merging <=> worker.at \in MergeSteps))'
    BY MergingIs, PTL
  <2> QED
    BY <2>1, MergingIs DEF MergeSteps
<1>2. worker.at \notin Copying \union Dropping /\ worker'.at \notin Copying \union Dropping
  BY DEF Copying, Dropping, MergeSteps
<1>3. DbGood'
  <2>1. Sharing \subseteq crossed' /\ Exempt \subseteq Exempt' /\ InUse \subseteq InUse'
    BY <1>2 DEF Sharing, Exempt, InUse, PastInsert
  <2>2. Good(db, crossed, Sharing, Exempt, InUse)
    BY DEF RestoreInv, DbGood
  <2>3. Good(db', crossed', Sharing', Exempt', InUse')
    BY <2>1, <2>2, GoodGrows
  <2> QED
    BY <2>3 DEF DbGood
<1>4. Flight'
  BY <1>1, <1>2 DEF Flight, MergeSteps
<1>5. Requests'
  BY DEF RestoreInv, Requests, Undoing, UndoCrossed, TooLate, Restoring, PastInsert, Newer, Entities
<1>6. DiskGood'
  <2>1. CASE disk' = disk
    <3>1. Busy \subseteq Busy'
      BY <1>1 DEF Busy, Merged, PastInsert
    <3> QED
      BY <2>1, <3>1, DiskStays DEF RestoreInv
  <2>2. CASE disk' = db'
    BY <2>2, <1>3, <1>4, <1>5, CommittedIsGood
  <2> QED
    BY <2>1, <2>2
<1>7. Numbers'
  BY <1>1, NumbersKeep DEF RestoreInv, Numbers, Entities, EntityInv, Typed
<1> QED
  BY <1>3, <1>4, <1>5, <1>6, <1>7 DEF RestoreInv

\* What is under way beside a merge is crossed, and stays so.
LEMMA CrossedStay ==
    ASSUME EntityInv, Flight, Requests, Merging, client' = client, crossed \subseteq crossed',
           \A i \in DOMAIN db.merges : i \in DOMAIN db'.merges /\ db'.merges[i] = db.merges[i]
    PROVE  /\ Requests'
           /\ \A c \in Clients : Undoing(c)' => UndoCrossed(c)' /\ UndoCrossed(c) /\ S \in crossed /\ T \in crossed
<1> SUFFICES ASSUME NEW c \in Clients, Undoing(c)'
             PROVE  /\ client'[c].target = db'.merges[client'[c].merge].target
                    /\ client'[c].todo \subseteq db'.merges[client'[c].merge].mentions
                    /\ UndoCrossed(c)' /\ UndoCrossed(c) /\ S \in crossed /\ T \in crossed
  BY DEF Requests
<1>1. Undoing(c)
  BY DEF Undoing
<1>2. client[c].merge \in DOMAIN db.merges
  BY <1>1, UndoFacts
<1>3. UndoCrossed(c) /\ S \in crossed /\ T \in crossed
  BY <1>1 DEF Flight
<1> QED
  BY <1>1, <1>2, <1>3 DEF Requests, UndoCrossed

-----------------------------------------------------------------------------
\* Linking.
LEMMA QuietSteps ==
    ASSUME EntityInv, EntityInv', RestoreInv,
           (\E p \in Pages : BeginLink(p)) \/ FindAlias \/ MatchBlock \/ ReadBlock \/ AddAlias
    PROVE  RestoreInv'
<1>1. CASE (\E p \in Pages : BeginLink(p)) \/ FindAlias \/ MatchBlock \/ ReadBlock
  <2>1. /\ db' = db /\ disk' = disk /\ client' = client /\ crossed' = crossed
        /\ used'.ids = used.ids
    BY <1>1 DEF BeginLink, FindAlias, MatchBlock, ReadBlock, history, Use, EntityInv, Typed
  <2>2. worker.at \notin MergeSteps /\ worker'.at \notin MergeSteps
    BY <1>1 DEF BeginLink, FindAlias, MatchBlock, ReadBlock, At, Aliased, MergeSteps, Idle,
                EntityInv, Typed, WorkerTyped
  <2> QED
    BY <2>1, <2>2, QuietKeeps DEF SameTables
<1>2. CASE AddAlias
  <2>1. SameTables(db, db') /\ disk' = db'
    BY <1>2, WithAlias DEF AddAlias, Commits, EntityInv, SameTables
  <2>2. /\ client' = client /\ crossed' = crossed /\ used'.ids = used.ids
        /\ worker.at = "alias" /\ worker'.at = "find"
    BY <1>2 DEF AddAlias, At, history
  <2> QED
    BY <2>1, <2>2, QuietKeeps DEF MergeSteps
<1> QED
  BY <1>1, <1>2

\* A new entity holds nothing.
LEMMA GoodInserted ==
    ASSUME NEW d, NEW b, NEW X, NEW Y, NEW E, NEW E2, NEW U, NEW U2, NEW e,
           Fits(d), Good(d, X, Y, E, U), e \notin DOMAIN d.entity,
           b.page = d.page, b.mention = d.mention, b.merges = d.merges,
           DOMAIN b.entity = DOMAIN d.entity \union {e}, E \subseteq E2, U \subseteq U2,
           \A i \in DOMAIN d.merges : ActiveRow(d, i) /\ d.merges[i].source = e => e \in X \/ i \in U2
    PROVE  Good(b, X, Y, E2, U2)
<1>1. \A i : ActiveRow(b, i) <=> ActiveRow(d, i)
  BY DEF ActiveRow
<1>2. Apart(b, X, Y)
  <2>1. \A m : Row(m, e) \notin d.mention
    BY DEF Fits, Row
  <2> QED
    BY <2>1 DEF Good, Apart, MentionsOf
<1>3. TargetsHave(b, X, E2)
  BY <1>1 DEF Good, TargetsHave, Settled, Has, Follows, Within
<1>4. SourcesGone(b, X, U2)
  BY <1>1 DEF Good, SourcesGone
<1>5. RowsApart(b, X)
  BY <1>1 DEF Good, RowsApart, Beside
<1> QED
  BY <1>2, <1>3, <1>4, <1>5 DEF Good

\* A new entity is in no row: its id is new.
LEMMA CreateEntityRestores ==
    ASSUME EntityInv, EntityInv', RestoreInv, CreateEntity
    PROVE  RestoreInv'
<1>1. /\ worker \in [at : {"find", "match", "create"}, page : Pages, todo : Seq(Surfaces),
                     links : SUBSET (Surfaces \X Nat)]
      /\ worker.at = "create" /\ worker.todo # <<>> /\ client' = client /\ crossed' = crossed
  BY DEF EntityInv, Typed, WorkerTyped, LinkHolds, CreateEntity, At, MergeSteps, Idle, history
<1>2. Form \in Surfaces
  BY <1>1 DEF Form
<1> DEFINE e == used.ids + 1
           a == <<Form, e>>
           i == Inserted(db, e, Form)
<1>3. used \in [links : Nat, troubles : Nat, ids : Nat] /\ e \in Nat
  BY DEF EntityInv, Typed
<1>4. CASE db' = db /\ disk' = disk /\ used' = used /\ worker' = Idle
  BY <1>1, <1>4, QuietKeeps DEF SameTables, Idle, MergeSteps
<1>5. CASE /\ db' = [i EXCEPT !.alias = @ \union {a}] /\ disk' = db'
           /\ Linked(e) /\ Use("ids")
  <2>1. used'.ids = e /\ used.ids \in Nat /\ used'.ids >= used.ids
    BY <1>3, <1>5 DEF Use
  <2>2. \A o \in Entities : o \in Nat /\ o # e /\ o <= used.ids
    BY <2>1 DEF RestoreInv, Numbers, EntityInv, Fits, Entities
  <2>3. \A k \in DOMAIN db.merges : db.merges[k].source # e
    <3> SUFFICES ASSUME NEW k \in DOMAIN db.merges PROVE db.merges[k].source # e
      OBVIOUS
    <3>1. db.merges[k].source \in Nat /\ db.merges[k].source <= used.ids
      BY RowsTyped DEF RestoreInv, Numbers, MergeRow
    <3> QED
      BY <2>1, <3>1
  <2>4. e \in Nat /\ e = used'.ids
    BY <1>3, <2>1
  <2> HIDE DEF e
  <2>5. /\ Fits(i) /\ DOMAIN i.entity = Entities \union {e}
        /\ i.page = db.page /\ i.alias = db.alias /\ i.mention = db.mention
        /\ i.merges = db.merges
    BY <1>2, <1>3, InsertedKeeps DEF EntityInv, Entities
  <2> HIDE DEF a, i
  <2>6. /\ db'.page = db.page /\ db'.mention = db.mention /\ db'.merges = db.merges
        /\ DOMAIN db'.entity = DOMAIN db.entity \union {e}
    BY <1>5, <2>5 DEF Fits, Entities
  <2>7. worker'.at = "find"
    BY <1>1, <1>5 DEF Linked
  <2>8. ~Merging /\ ~Merging'
    BY <1>1, <2>7 DEF Merging
  <2>9. DbGood'
    <3>1. Sharing' = Sharing /\ Exempt \subseteq Exempt' /\ InUse \subseteq InUse'
      BY <1>1, <2>6, <2>7 DEF Sharing, Exempt, InUse, PastInsert, Dropping, Copying
    <3>2. Good(db, crossed, Sharing, Exempt, InUse) /\ Fits(db) /\ e \notin DOMAIN db.entity
      BY <2>2 DEF RestoreInv, DbGood, EntityInv, Entities
    <3>3. Good(db', crossed, Sharing, Exempt', InUse')
      BY <2>3, <2>6, <3>1, <3>2, GoodInserted
    <3> QED
      BY <1>1, <3>1, <3>3 DEF DbGood
  <2>10. Flight'
    BY <2>7, <2>8 DEF Flight, Copying, Dropping
  <2>11. Requests'
    BY <1>1, <2>6 DEF RestoreInv, Requests, Undoing, UndoCrossed, TooLate, Restoring, PastInsert, Newer, Entities
  <2>12. DiskGood'
    BY <1>5, <2>9, <2>10, <2>11, CommittedIsGood
  <2>13. Numbers'
    <3>1. \A o \in Entities' : o <= used'.ids
      <4> SUFFICES ASSUME NEW o \in Entities' PROVE o <= used'.ids
        OBVIOUS
      <4>1. o \in Entities \/ o = e
        BY <2>6 DEF Entities
      <4> QED
        BY <4>1, <2>1, <2>2, <2>4
    <3> QED
      BY <1>5, <2>1, <2>6, <2>8, <3>1, NumbersKeep DEF RestoreInv
  <2> QED
    BY <2>9, <2>10, <2>11, <2>12, <2>13 DEF RestoreInv
<1> QED
  BY <1>4, <1>5 DEF CreateEntity, Commits

\* Mentions are added: more is held than was.
LEMMA GoodAdded ==
    ASSUME NEW d, NEW b, NEW X, NEW X2, NEW Y, NEW Y2, NEW E, NEW E2, NEW U, NEW U2,
           Good(d, X, Y, E, U), Apart(b, X2, Y2), X \subseteq X2, U \subseteq U2,
           b.page = d.page, d.mention \subseteq b.mention, b.merges = d.merges,
           DOMAIN b.entity = DOMAIN d.entity,
           \A i \in E : i \in DOMAIN d.merges =>
               i \in E2 \/ d.merges[i].target \in X2 \/ Has(b, d.merges[i].target, d.merges[i].mentions)
    PROVE  Good(b, X2, Y2, E2, U2)
<1>1. \A i : ActiveRow(b, i) <=> ActiveRow(d, i)
  BY DEF ActiveRow
<1>2. TargetsHave(b, X2, E2)
  BY <1>1 DEF Good, TargetsHave, Settled, Has, Follows, Within
<1>3. SourcesGone(b, X2, U2)
  BY <1>1 DEF Good, SourcesGone
<1>4. RowsApart(b, X2)
  BY <1>1 DEF Good, RowsApart, Beside
<1> QED
  BY <1>2, <1>3, <1>4 DEF Good

\* A mention that is linked again crosses the entities that share it.
LEMMA AddMentionsRestores ==
    ASSUME EntityInv, EntityInv', RestoreInv, AddMentions
    PROVE  RestoreInv'
<1> DEFINE p == worker.page
           rows == {<<p, l[1], l[2]>> : l \in worker.links}
           after == [db EXCEPT !.mention = @ \union rows]
           d == Counted(after, {l[2] : l \in worker.links})
<1>1. /\ worker' = Idle /\ worker.at = "find" /\ client' = client /\ used' = used
  BY DEF AddMentions, At
<1>2. worker'.at \notin MergeSteps /\ worker.at \notin MergeSteps
  BY <1>1 DEF Idle, MergeSteps
<1>3. CASE p \notin db.page
  <2>1. db' = db /\ disk' = disk /\ crossed' = crossed
    BY <1>3 DEF AddMentions
  <2> QED
    BY <1>1, <1>2, <2>1, QuietKeeps DEF SameTables
<1>4. CASE p \in db.page
  <2>1. /\ db' = d /\ disk' = d
        /\ crossed' = crossed \union Shared(after)
                      \union (IF Shared(after) \cap Undone = {} THEN {} ELSE Undone)
    BY <1>4 DEF AddMentions, Commits
  <2>2. /\ worker \in [at : {"find", "match", "create"}, page : Pages, todo : Seq(Surfaces),
                       links : SUBSET (Surfaces \X Nat)]
        /\ \A l \in worker.links : l[2] \in Entities
    BY <1>1 DEF EntityInv, Typed, WorkerTyped, LinkHolds, MergeSteps, Idle
  <2>3. rows \subseteq Pages \X Surfaces \X Entities
    BY <2>2, <1>4 DEF EntityInv, Fits
  <2> HIDE DEF rows
  <2>4. after = [page |-> db.page, entity |-> db.entity, alias |-> db.alias,
                 mention |-> db.mention \union rows, merges |-> db.merges]
    BY WithMention DEF EntityInv
  <2> HIDE DEF after
  <2>5. Fits(after)
    BY <2>3, <2>4 DEF EntityInv, Fits, Entities
  <2>6. SameRows(d, after)
    BY <2>5, CountedKeeps
  <2> HIDE DEF d
  <2>7. /\ db'.page = db.page /\ DOMAIN db'.entity = DOMAIN db.entity
        /\ db'.mention = after.mention /\ db.mention \subseteq db'.mention /\ db'.merges = db.merges
        /\ DOMAIN after.entity = DOMAIN db.entity /\ disk' = db'
    BY <2>1, <2>4, <2>6 DEF SameRows
  <2>8. ~Merging /\ ~Merging'
    BY <1>1 DEF Merging, Idle
  <2>9. DbGood'
    <3>1. Apart(db', crossed', {})
      <4> SUFFICES ASSUME NEW e \in DOMAIN db'.entity, NEW o \in DOMAIN db'.entity,
                          NEW m \in MentionsOf(db', e), e # o, Row(m, o) \in db'.mention
                   PROVE  {e, o} \subseteq crossed'
        BY DEF Apart
      <4>1. m \in MentionsOf(after, e) /\ m \in MentionsOf(after, o)
        BY <2>7 DEF MentionsOf
      <4>2. e \in Shared(after) /\ o \in Shared(after)
        BY <2>7, <4>1 DEF Shared
      <4> QED
        BY <2>1, <4>2
    <3>2. Sharing' = {} /\ Exempt \subseteq Exempt' /\ InUse \subseteq InUse'
      BY <1>1, <2>7 DEF Sharing, Exempt, InUse, PastInsert, Dropping, Copying, Idle
    <3>3. Good(db, crossed, Sharing, Exempt, InUse) /\ crossed \subseteq crossed'
      BY <2>1 DEF RestoreInv, DbGood
    <3>4. Good(db', crossed', {}, Exempt', InUse')
      BY <2>7, <3>1, <3>2, <3>3, GoodAdded
    <3> QED
      BY <3>2, <3>4 DEF DbGood
  <2>10. Flight'
    BY <1>1, <2>8 DEF Flight, Copying, Dropping, Idle
  <2>11. Requests'
    <3> SUFFICES ASSUME NEW c \in Clients, Undoing(c)
                 PROVE  /\ client[c].target = db'.merges[client[c].merge].target
                        /\ client[c].todo \subseteq db'.merges[client[c].merge].mentions
                        /\ UndoCrossed(c)' \/ TooLate(c)' \/ Restoring(c)'
      BY <1>1 DEF Requests, Undoing
    <3>1. client[c].source \in Undone /\ client[c].target \in Undone
      BY DEF Undone
    <3>2. CASE Shared(after) \cap Undone = {}
      <4>1. \A e \in Undone : e \in crossed' <=> e \in crossed
        BY <2>1, <3>2
      <4> QED
        BY <1>1, <2>7, <3>1, <4>1 DEF RestoreInv, Requests, UndoCrossed, TooLate, Restoring,
           PastInsert, Newer, Entities
    <3>3. CASE Shared(after) \cap Undone # {}
      BY <1>1, <2>1, <2>7, <3>1, <3>3 DEF RestoreInv, Requests, UndoCrossed
    <3> QED
      BY <3>2, <3>3
  <2>12. DiskGood'
    BY <2>7, <2>9, <2>10, <2>11, CommittedIsGood
  <2>13. Numbers'
    BY <1>1, <2>7, <2>8, NumbersKeep DEF RestoreInv, Numbers, Entities, EntityInv, Typed
  <2> QED
    BY <2>9, <2>10, <2>11, <2>12, <2>13 DEF RestoreInv
<1> QED
  BY <1>3, <1>4

-----------------------------------------------------------------------------
\* The periodic pass.
LEMMA MergeReadRestores ==
    ASSUME EntityInv, EntityInv', RestoreInv, NEW m, MergeRead(m)
    PROVE  RestoreInv'
<1>1. /\ db' = db /\ disk' = disk /\ client' = client /\ used' = used /\ worker.at = "merge"
  BY DEF MergeRead, At
<1>2. CASE worker' = Idle /\ crossed' = crossed
  BY <1>1, <1>2, QuietKeeps DEF SameTables, Idle, MergeSteps
<1>3. CASE /\ worker' = [at |-> "log", plan |-> worker.plan \ {m}, source |-> m[1], target |-> m[2],
                         form |-> db.entity[m[1]].form, aliases |-> AliasesOf(db, m[1]),
                         mentions |-> MentionsOf(db, m[1])]
           /\ crossed' = IF Undone = {} /\ m[1] \notin crossed THEN crossed
                         ELSE crossed \union Undone \union {m[1], m[2]}
  <2>1. worker'.at = "log" /\ S' = m[1] /\ T' = m[2] /\ worker'.mentions = MentionsOf(db, m[1])
    BY <1>3 DEF S, T
  <2>2. ~Merging /\ Merging' /\ crossed \subseteq crossed'
    BY <1>1, <1>3, <2>1 DEF Merging, Idle
  <2>3. /\ S' \in crossed' => T' \in crossed'
        /\ \A c \in Clients : Undoing(c) => UndoCrossed(c)' /\ S' \in crossed' /\ T' \in crossed'
    <3>1. \A c \in Clients : Undoing(c) => client[c].source \in Undone /\ client[c].target \in Undone
      BY DEF Undone
    <3> QED
      BY <1>1, <1>3, <2>1, <3>1 DEF UndoCrossed
  <2>4. DbGood'
    <3>1. Sharing \subseteq crossed' /\ Exempt \subseteq Exempt' /\ InUse \subseteq InUse'
      BY <1>1, <2>1 DEF Sharing, Exempt, InUse, PastInsert, Dropping, Copying
    <3>2. Good(db, crossed, Sharing, Exempt, InUse) /\ SameTables(db, db')
      BY <1>1 DEF RestoreInv, DbGood, SameTables
    <3>3. Good(db', crossed', Sharing', Exempt', InUse')
      BY <2>2, <3>1, <3>2, GoodGrows
    <3> QED
      BY <3>3 DEF DbGood
  <2>5. Flight'
    <3>1. Has(db', S', worker'.mentions) /\ MentionsOf(db', S') = worker'.mentions
      BY <1>1, <2>1 DEF Has, MentionsOf
    <3> QED
      BY <1>1, <2>1, <2>3, <3>1 DEF Flight, Undoing, Copying, Dropping
  <2>6. Requests'
    BY <1>1, <2>3 DEF RestoreInv, Requests, Undoing
  <2>7. DiskGood'
    <3>1. Busy \subseteq Busy'
      BY <1>1, <2>2 DEF Busy, Merged, PastInsert
    <3> QED
      BY <1>1, <2>2, <3>1, DiskStays DEF RestoreInv
  <2>8. Numbers'
    BY <1>1, <2>2, NumbersKeep DEF RestoreInv, Numbers, Entities, EntityInv, Typed
  <2> QED
    BY <2>4, <2>5, <2>6, <2>7, <2>8 DEF RestoreInv
<1> QED
  BY <1>2, <1>3 DEF MergeRead

\* What every statement of a merge keeps: what is committed, and the requests
\* beside it.
LEMMA MergeStepCarries ==
    ASSUME EntityInv, EntityInv', RestoreInv, worker.at \in MergeSteps, worker'.at \in MergeSteps,
           S' = S, T' = T, client' = client, disk' = disk, crossed' = crossed,
           \A i \in DOMAIN db.merges : i \in DOMAIN db'.merges /\ db'.merges[i] = db.merges[i]
    PROVE  /\ Merging /\ Merging' /\ Requests' /\ DiskGood'
           /\ \A c \in Clients : Undoing(c)' => UndoCrossed(c)' /\ S' \in crossed' /\ T' \in crossed'
           /\ S' \in crossed' => T' \in crossed'
<1>1. Merging /\ Merging'
  <2>1. (EntityInv => (Merging <=> worker.at \in MergeSteps))'
    BY MergingIs, PTL
  <2> QED
    BY <2>1, MergingIs
<1>2. /\ Requests'
      /\ \A c \in Clients : Undoing(c)' => UndoCrossed(c)' /\ S' \in crossed' /\ T' \in crossed'
  BY <1>1, CrossedStay DEF RestoreInv
<1>3. S' \in crossed' => T' \in crossed'
  BY <1>1 DEF RestoreInv, Flight
<1>4. DiskGood'
  <2>1. Busy \subseteq Busy'
    BY <1>1 DEF Busy, Merged, PastInsert, S, T
  <2> QED
    BY <2>1, DiskStays DEF RestoreInv
<1> QED
  BY <1>1, <1>2, <1>3, <1>4

\* The source of an active row is gone, unless it was crossed or is in use; so
\* no row follows another into an entity that is there.
LEMMA NoneFollows ==
    ASSUME NEW d, NEW X, NEW U, SourcesGone(d, X, U), NEW i \in DOMAIN d.merges,
           d.merges[i].target \in DOMAIN d.entity, d.merges[i].target \notin X, Settled(d, i),
           \A k \in U : ~ActiveRow(d, k) \/ d.merges[k].source # d.merges[i].target
    PROVE  Has(d, d.merges[i].target, d.merges[i].mentions)
  BY DEF Settled, Follows, SourcesGone, ActiveRow

\* A row is logged: its source is the source of no other, and nothing it
\* moves is what another one has moved to its target.
LEMMA MergeLogRestores ==
    ASSUME EntityInv, EntityInv', RestoreInv, MergeLog
    PROVE  RestoreInv'
<1>0. PICK now \in Nat : MergeStep("log", "move_aliases", Logged(now))
  BY LogIs
<1> DEFINE row == [source |-> S, target |-> T, form |-> worker.form, aliases |-> worker.aliases,
                   mentions |-> worker.mentions, at |-> now, undone |-> FALSE]
           d == [db EXCEPT !.merges = Append(@, row)]
           n == Len(db.merges) + 1
           M == worker.mentions
<1>1. MergeStep("log", "move_aliases", d)
  BY <1>0 DEF Logged
<1>2. "log" \in MergeSteps \ {"finish_merge"} /\ "move_aliases" \in MergeSteps
  BY DEF MergeSteps
<1>3. /\ worker.at = "log" /\ worker'.at = "move_aliases" /\ S' = S /\ T' = T
      /\ S \in Entities /\ T \in Entities /\ T # S /\ S \in Nat /\ T \in Nat
      /\ M \subseteq Pages \X Surfaces
      /\ db' = d /\ disk' = disk /\ client' = client /\ used' = used /\ crossed' = crossed
  BY <1>1, <1>2, MergeStepFrame DEF MergeStep, history
<1>4. d = [page |-> db.page, entity |-> db.entity, alias |-> db.alias,
           mention |-> db.mention, merges |-> Append(db.merges, row)]
  BY WithMerges DEF EntityInv
<1>5. row.source = S /\ row.target = T /\ row.mentions = M /\ ~row.undone
  OBVIOUS
<1> HIDE DEF row, d, M
<1>6. /\ Len(db.merges) \in Nat /\ n \in Nat /\ n > Len(db.merges) /\ n > 0
      /\ DOMAIN db.merges = 1..Len(db.merges) /\ n \notin DOMAIN db.merges
      /\ Len(db'.merges) = n /\ DOMAIN db'.merges = DOMAIN db.merges \union {n}
      /\ db'.merges[n] = row /\ \A i \in DOMAIN db.merges : db'.merges[i] = db.merges[i] /\ i < n
  BY <1>3, <1>4, RowsTyped DEF EntityInv, Fits
<1> HIDE DEF n
<1>7. /\ db'.page = db.page /\ db'.mention = db.mention /\ db'.entity = db.entity
      /\ Entities' = Entities
  BY <1>3, <1>4 DEF Entities
<1>8. /\ \A i \in DOMAIN db.merges : ActiveRow(db', i) <=> ActiveRow(db, i)
      /\ ActiveRow(db', n)
  BY <1>5, <1>6 DEF ActiveRow
<1>9. /\ Merging /\ Merging' /\ Requests' /\ DiskGood'
      /\ \A c \in Clients : Undoing(c)' => UndoCrossed(c)' /\ S' \in crossed' /\ T' \in crossed'
      /\ S' \in crossed' => T' \in crossed'
  BY <1>2, <1>3, <1>6, MergeStepCarries
\* Beside an uncrossed source nothing is under way.
<1>10. ASSUME S \notin crossed
       PROVE  /\ Sharing = {} /\ Exempt = {} /\ InUse = {}
              /\ Has(db, S, M) /\ MentionsOf(db, S) \subseteq M
  <2>1. \A c \in Clients : ~Undoing(c)
    BY <1>3, <1>9, <1>10 DEF Undoing
  <2> QED
    BY <1>3, <1>10, <2>1 DEF Sharing, Exempt, InUse, Undoing, PastInsert, Copying, Dropping,
                             RestoreInv, Flight, M
<1>11. /\ Apart(db, crossed, Sharing) /\ TargetsHave(db, crossed, Exempt)
       /\ SourcesGone(db, crossed, InUse) /\ RowsApart(db, crossed)
  BY DEF RestoreInv, DbGood, Good
<1>12. ASSUME S \notin crossed, NEW i \in DOMAIN db.merges, ActiveRow(db, i), db.merges[i].target \in {S, T},
              db.merges[i].target \notin crossed
       PROVE  Has(db, db.merges[i].target, db.merges[i].mentions)
  BY <1>3, <1>10, <1>11, <1>12, NoneFollows DEF TargetsHave, Entities
<1>13. RowsApart(db', crossed)
  <2> SUFFICES ASSUME NEW i \in DOMAIN db'.merges, NEW j \in DOMAIN db'.merges,
                      ActiveRow(db', i), ActiveRow(db', j), i < j
               PROVE  LET a == db'.merges[i]  b == db'.merges[j] IN
                      /\ a.source \notin crossed => a.source # b.source /\ a.source # b.target
                      /\ a.target \notin crossed /\ a.target = b.target => Beside(db', i, j)
    BY DEF RowsApart
  <2>0. i \in DOMAIN db.merges /\ db'.merges[i] = db.merges[i] /\ ActiveRow(db, i)
    <3>1. i # n
      BY <1>6
    <3> QED
      BY <3>1, <1>6, <1>8
  <2>1. CASE j # n
    BY <1>6, <1>7, <1>8, <1>11, <2>0, <2>1 DEF RowsApart, Beside
  <2>2. CASE j = n /\ S \in crossed
    BY <1>3, <1>5, <1>6, <1>9, <2>0, <2>2
  <2>3. CASE j = n /\ S \notin crossed
    <3>1. db.merges[i].source \notin crossed => db.merges[i].source # S /\ db.merges[i].source # T
      BY <1>3, <1>10, <1>11, <2>0, <2>3 DEF SourcesGone, Entities
    <3>2. ASSUME db.merges[i].target \notin crossed, db.merges[i].target = T,
                 NEW q \in db.merges[i].mentions, q[1] \in db.page, q \in M
          PROVE  FALSE
      <4>1. Row(q, T) \in db.mention
        BY <1>12, <2>0, <2>3, <3>2 DEF Has
      <4>2. Row(q, S) \in db.mention
        BY <1>10, <2>3, <3>2 DEF Has
      <4>3. q \in MentionsOf(db, S)
        BY <1>3, <3>2, <4>2 DEF MentionsOf
      <4> QED
        BY <1>3, <1>10, <1>11, <2>3, <4>1, <4>3 DEF Apart, Entities
    <3> QED
      BY <1>5, <1>6, <1>7, <2>0, <2>3, <3>1, <3>2 DEF Beside
  <2> QED
    BY <2>1, <2>2, <2>3
<1>14. Exempt' = Exempt \union {n} /\ InUse' = InUse \union {n} /\ Sharing' = Sharing
  <2>1. \A c \in Clients : Undoing(c) => client[c].merge \in DOMAIN db.merges
    BY UndoFacts
  <2> QED
    BY <1>3, <1>6, <2>1 DEF Exempt, InUse, Sharing, Copying, Dropping, PastInsert, Undoing
<1>15. TargetsHave(db', crossed, Exempt')
  <2> SUFFICES ASSUME NEW i \in DOMAIN db'.merges, ActiveRow(db', i), i \notin Exempt'
               PROVE  db'.merges[i].target \in crossed \/ Settled(db', i)
    BY DEF TargetsHave
  <2>1. i \in DOMAIN db.merges /\ ActiveRow(db, i) /\ i \notin Exempt
    BY <1>6, <1>8, <1>14
  <2>2. db.merges[i].target \in crossed \/ Settled(db, i)
    BY <1>11, <2>1 DEF TargetsHave
  <2>3. ASSUME NEW k \in DOMAIN db.merges, Follows(db, i, k)
        PROVE  Follows(db', i, k)
    BY <1>6, <1>7, <1>8, <2>1, <2>3 DEF Follows, Within
  <2>4. Has(db, db.merges[i].target, db.merges[i].mentions) => Has(db', db'.merges[i].target, db'.merges[i].mentions)
    BY <1>6, <1>7, <2>1 DEF Has
  <2> QED
    BY <1>6, <2>1, <2>2, <2>3, <2>4 DEF Settled
<1>16. SourcesGone(db', crossed, InUse')
  BY <1>6, <1>7, <1>8, <1>11, <1>14 DEF SourcesGone
<1>17. DbGood'
  <2>1. Apart(db', crossed, Sharing')
    BY <1>7, <1>11, <1>14 DEF Apart, MentionsOf
  <2> QED
    BY <1>3, <1>13, <1>15, <1>16, <2>1 DEF DbGood, Good
<1>18. Flight'
  <2>1. ASSUME S \notin crossed, NEW i \in DOMAIN db.merges, ActiveRow(db, i), db.merges[i].target = S
        PROVE  Within(db', i, n)
    <3>1. \A q \in db.merges[i].mentions : q \in Pages \X Surfaces
      BY RowsTyped DEF MergeRow
    <3>2. Has(db, S, db.merges[i].mentions)
      BY <1>12, <2>1
    <3> QED
      BY <1>5, <1>6, <1>7, <1>10, <2>1, <3>1, <3>2 DEF Has, Within, MentionsOf
  <2>2. S \notin crossed => Has(db', S, row.mentions)
    BY <1>5, <1>7, <1>10 DEF Has
  <2>3. \A i \in DOMAIN db'.merges : i < n => i \in DOMAIN db.merges
    BY <1>6
  <2> QED
    BY <1>3, <1>5, <1>6, <1>8, <1>9, <2>1, <2>2, <2>3 DEF Flight, Copying, Dropping
<1>19. Numbers'
  <2>1. S <= used.ids
    BY <1>3 DEF RestoreInv, Numbers
  <2>2. Len(disk.merges) \in Nat /\ Len(disk.merges) <= Len(db.merges) /\ DOMAIN disk.merges = 1..Len(disk.merges)
    BY DEF EntityInv, Fits, RestoreInv, Numbers
  <2>3. DOMAIN disk.merges \subseteq DOMAIN db.merges /\ Len(disk.merges) <= n
    BY <1>6, <2>2
  <2>4. \A i \in DOMAIN disk.merges : disk.merges[i] = db'.merges[i]
    BY <1>6, <2>3 DEF RestoreInv, Numbers
  <2>5. \A i \in DOMAIN db'.merges : db'.merges[i].source <= used.ids
    BY <1>5, <1>6, <2>1 DEF RestoreInv, Numbers
  <2> QED
    BY <1>3, <1>6, <1>7, <1>9, <2>3, <2>4, <2>5 DEF RestoreInv, Numbers
<1> QED
  BY <1>9, <1>17, <1>18, <1>19 DEF RestoreInv

\* The aliases are not what this is about.
LEMMA AliasStepsRestore ==
    ASSUME EntityInv, EntityInv', RestoreInv, MoveAliases \/ DropAliases
    PROVE  RestoreInv'
<1>1. \E at \in {"move_aliases", "drop_aliases"}, next \in {"drop_aliases", "copy_mentions"} : \E x :
         MergeStep(at, next, [db EXCEPT !.alias = x])
  BY DEF MoveAliases, DropAliases
<1>2. PICK at \in {"move_aliases", "drop_aliases"}, next \in {"drop_aliases", "copy_mentions"} :
         \E x : MergeStep(at, next, [db EXCEPT !.alias = x])
  BY <1>1
<1>3. PICK x : MergeStep(at, next, [db EXCEPT !.alias = x])
  BY <1>2
<1>4. at \in MergeSteps \ {"finish_merge"} /\ next \in MergeSteps
  BY DEF MergeSteps
<1>5. /\ worker.at = at /\ worker'.at = next /\ S' = S /\ T' = T
      /\ db' = [db EXCEPT !.alias = x] /\ disk' = disk /\ client' = client /\ used' = used /\ crossed' = crossed
  BY <1>3, <1>4, MergeStepFrame DEF MergeStep, history
<1>6. SameTables(db, db') /\ Entities' = Entities
  BY <1>5, WithAlias DEF EntityInv, SameTables, Entities
<1>7. /\ Merging /\ Merging' /\ Requests' /\ DiskGood'
      /\ \A c \in Clients : Undoing(c)' => UndoCrossed(c)' /\ S' \in crossed' /\ T' \in crossed'
      /\ S' \in crossed' => T' \in crossed'
  BY <1>4, <1>5, <1>6, MergeStepCarries DEF SameTables
<1>8. DbGood'
  <2>1. Sharing' = Sharing /\ Exempt' = Exempt /\ InUse' = InUse
    BY <1>5, <1>6 DEF Sharing, Exempt, InUse, PastInsert, Dropping, Copying, SameTables
  <2>2. Good(db, crossed, Sharing, Exempt, InUse) /\ crossed' = crossed
    BY <1>5 DEF RestoreInv, DbGood
  <2>3. Good(db', crossed', Sharing', Exempt', InUse')
    BY <1>6, <2>1, <2>2, GoodGrows
  <2> QED
    BY <2>3 DEF DbGood
<1>9. Flight'
  <2>1. worker.at \in Copying /\ worker'.at \in Copying \ Dropping /\ worker'.at # "log"
    BY <1>5 DEF Copying, Dropping
  <2> QED
    BY <1>5, <1>6, <1>7, <2>1 DEF RestoreInv, Flight, SameTables, Has, Within, ActiveRow
<1>10. Numbers'
  BY <1>5, <1>6, <1>7, NumbersKeep DEF RestoreInv, Numbers, Entities, EntityInv, Typed, SameTables
<1> QED
  BY <1>7, <1>8, <1>9, <1>10 DEF RestoreInv

\* What the source holds the target now holds as well.
LEMMA CopyMentionsRestores ==
    ASSUME EntityInv, EntityInv', RestoreInv, CopyMentions
    PROVE  RestoreInv'
<1> DEFINE copies == {Row(m, T) : m \in MentionsOf(db, S)}
           d == [db EXCEPT !.mention = @ \union copies]
           n == Len(db.merges)
<1>1. MergeStep("copy_mentions", "drop_mentions", d)
  BY DEF CopyMentions
<1>2. "copy_mentions" \in MergeSteps \ {"finish_merge"} /\ "drop_mentions" \in MergeSteps
  BY DEF MergeSteps
<1>3. /\ worker.at = "copy_mentions" /\ worker'.at = "drop_mentions" /\ S' = S /\ T' = T
      /\ S \in Entities /\ T \in Entities /\ T # S
      /\ db' = d /\ disk' = disk /\ client' = client /\ used' = used /\ crossed' = crossed
  BY <1>1, <1>2, MergeStepFrame DEF MergeStep, history
<1>4. d = [page |-> db.page, entity |-> db.entity, alias |-> db.alias,
           mention |-> db.mention \union copies, merges |-> db.merges]
  BY WithMention DEF EntityInv
<1>5. /\ \A m \in MentionsOf(db, S) : Row(m, T) \in copies
      /\ \A m \in Pages \X Surfaces : \A e : Row(m, e) \in copies => m \in MentionsOf(db, S) /\ e = T
  <2>1. ASSUME NEW m \in Pages \X Surfaces, NEW e, NEW q \in MentionsOf(db, S), Row(m, e) = Row(q, T)
        PROVE  m = q /\ e = T
    BY <2>1 DEF Row, MentionsOf
  <2> QED
    BY <2>1
<1> HIDE DEF d, copies
<1>6. /\ db'.page = db.page /\ db'.mention = db.mention \union copies /\ db'.entity = db.entity
      /\ db'.merges = db.merges /\ Entities' = Entities
  BY <1>3, <1>4 DEF Entities
<1>7. /\ Merging /\ Merging' /\ Requests' /\ DiskGood'
      /\ \A c \in Clients : Undoing(c)' => UndoCrossed(c)' /\ S' \in crossed' /\ T' \in crossed'
      /\ S' \in crossed' => T' \in crossed'
  BY <1>2, <1>3, <1>6, MergeStepCarries
<1>8. /\ Apart(db, crossed, {}) /\ Good(db, crossed, {}, Exempt, InUse)
      /\ n > 0 /\ n \in DOMAIN db.merges /\ db.merges[n].source = S /\ db.merges[n].target = T
      /\ S \notin crossed => Has(db, S, db.merges[n].mentions) /\ ~db.merges[n].undone
  BY <1>3, RowsTyped DEF RestoreInv, DbGood, Good, Flight, Sharing, Copying, Dropping
<1>9. DbGood'
  <2>1. Apart(db', crossed, {S, T})
    <3> SUFFICES ASSUME NEW e \in Entities, NEW o \in Entities, NEW m \in MentionsOf(db', e),
                        e # o, Row(m, o) \in db'.mention
                 PROVE  {e, o} \subseteq crossed \/ {e, o} \subseteq {S, T}
      BY <1>6 DEF Apart, Entities
    <3>1. m \in Pages \X Surfaces /\ Row(m, e) \in db'.mention
      BY DEF MentionsOf
    <3>2. CASE Row(m, e) \in db.mention /\ Row(m, o) \in db.mention
      BY <1>8, <3>1, <3>2 DEF Apart, MentionsOf, Entities
    <3>3. ASSUME NEW x \in Entities, NEW y \in Entities, x # y, Row(m, x) \in copies, Row(m, y) \in db.mention
          PROVE  {x, y} \subseteq crossed \/ {x, y} \subseteq {S, T}
      <4>1. x = T /\ m \in MentionsOf(db, S)
        BY <1>5, <3>1, <3>3
      <4>2. CASE y = S
        BY <4>1, <4>2
      <4>3. CASE y # S
        <5>1. {S, y} \subseteq crossed
          BY <1>3, <1>8, <3>3, <4>1, <4>3 DEF Apart, Entities
        <5> QED
          BY <1>3, <1>7, <4>1, <5>1
      <4> QED
        BY <4>2, <4>3
    <3>4. ~(Row(m, e) \in copies /\ Row(m, o) \in copies)
      BY <1>5, <3>1
    <3>5. /\ Row(m, e) \in db.mention \/ Row(m, e) \in copies
          /\ Row(m, o) \in db.mention \/ Row(m, o) \in copies
      BY <1>6, <3>1
    <3> QED
      BY <3>2, <3>3, <3>4, <3>5
  <2>2. Has(db', T, db.merges[n].mentions) \/ T \in crossed
    <3> SUFFICES ASSUME T \notin crossed, NEW m \in db.merges[n].mentions, m[1] \in db.page
                 PROVE  Row(m, T) \in db'.mention
      BY <1>6 DEF Has
    <3>1. S \notin crossed
      BY <1>3, <1>7
    <3>2. Row(m, S) \in db.mention /\ m \in Pages \X Surfaces
      BY <1>8, <3>1, RowsTyped DEF Has, MergeRow
    <3> QED
      BY <1>5, <1>6, <3>2 DEF MentionsOf
  <2>3. /\ Sharing' = {S, T} /\ InUse \subseteq InUse'
        /\ \A i \in Exempt : i \in Exempt' \/ i = n
    BY <1>3, <1>6 DEF Sharing, Exempt, InUse, PastInsert, Dropping, Copying
  <2>4. \A i \in Exempt : i \in DOMAIN db.merges =>
           i \in Exempt' \/ db.merges[i].target \in crossed \/ Has(db', db.merges[i].target, db.merges[i].mentions)
    BY <1>8, <2>2, <2>3
  <2>5. db.mention \subseteq db'.mention /\ DOMAIN db'.entity = DOMAIN db.entity
    BY <1>6
  <2>6. Good(db', crossed, {S, T}, Exempt', InUse')
    BY <1>6, <1>8, <2>1, <2>3, <2>4, <2>5, GoodAdded
  <2> QED
    BY <1>3, <2>3, <2>6 DEF DbGood
<1>10. Flight'
  BY <1>3, <1>6, <1>7, RowsTyped DEF RestoreInv, Flight, Within, ActiveRow, Copying, Dropping
<1>11. Numbers'
  BY <1>3, <1>6, <1>7, NumbersKeep DEF RestoreInv, Numbers, Entities, EntityInv, Typed
<1> QED
  BY <1>7, <1>9, <1>10, <1>11 DEF RestoreInv

\* What the source held goes: the rows that had moved it there are followed.
LEMMA DropsRestore ==
    ASSUME EntityInv, EntityInv', RestoreInv, DropMentions \/ DropEntity
    PROVE  RestoreInv'
<1> DEFINE left == [e \in Entities \ {S} |-> db.entity[e]]
           rows == {r \in db.mention : r[3] # S}
           n == Len(db.merges)
<1>1. /\ worker.at \in Dropping /\ worker'.at \in MergeSteps /\ S' = S /\ T' = T
      /\ S \in Entities /\ T \in Entities /\ T # S
      /\ disk' = disk /\ client' = client /\ used' = used /\ crossed' = crossed
      /\ db'.page = db.page /\ db'.mention = rows /\ db'.merges = db.merges
      /\ \/ worker'.at = "drop_entity" /\ Entities' = Entities
         \/ worker'.at = "finish_merge" /\ Entities' = Entities \ {S}
  <2>1. CASE DropMentions
    <3>1. MergeStep("drop_mentions", "drop_entity", [db EXCEPT !.mention = rows])
      BY <2>1 DEF DropMentions
    <3>2. "drop_mentions" \in MergeSteps \ {"finish_merge"} /\ "drop_entity" \in MergeSteps
      BY DEF MergeSteps
    <3> HIDE DEF rows
    <3>3. [db EXCEPT !.mention = rows] =
             [page |-> db.page, entity |-> db.entity, alias |-> db.alias, mention |-> rows, merges |-> db.merges]
      BY WithMention DEF EntityInv
    <3> QED
      BY <3>1, <3>2, <3>3, MergeStepFrame DEF MergeStep, history, Dropping, Entities
  <2>2. CASE DropEntity
    <3> DEFINE names == {a \in db.alias : a[2] # S}
               d == [db EXCEPT !.entity = [e \in DOMAIN @ \ {S} |-> @[e]],
                               !.alias = {a \in @ : a[2] # S},
                               !.mention = {r \in @ : r[3] # S}]
    <3>1. MergeStep("drop_entity", "finish_merge", d)
      BY <2>2 DEF DropEntity
    <3>2. "drop_entity" \in MergeSteps \ {"finish_merge"} /\ "finish_merge" \in MergeSteps
      BY DEF MergeSteps
    <3>3. [e \in DOMAIN db.entity \ {S} |-> db.entity[e]] = left /\ DOMAIN left = Entities \ {S}
      BY DEF Entities
    <3>4. d = [db EXCEPT !.entity = left, !.alias = names, !.mention = rows]
      BY <3>3
    <3> HIDE DEF d, left, names, rows
    <3>5. d = [page |-> db.page, entity |-> left, alias |-> names, mention |-> rows, merges |-> db.merges]
      BY <3>4, WithRows DEF EntityInv
    <3> QED
      BY <3>1, <3>2, <3>3, <3>5, MergeStepFrame DEF MergeStep, history, Dropping, Entities
  <2> QED
    BY <2>1, <2>2
<1>2. \A m, e : e # S => (Row(m, e) \in rows <=> Row(m, e) \in db.mention)
  BY DEF Row
<1>3. \A m : Row(m, S) \notin rows
  BY DEF Row
<1>4. rows \subseteq db.mention
  OBVIOUS
<1> HIDE DEF rows, left
<1>5. worker.at \in MergeSteps
  BY <1>1 DEF Dropping, MergeSteps
<1>6. /\ Merging /\ Merging' /\ Requests' /\ DiskGood'
      /\ \A c \in Clients : Undoing(c)' => UndoCrossed(c)' /\ S' \in crossed' /\ T' \in crossed'
      /\ S' \in crossed' => T' \in crossed'
  BY <1>1, <1>5, MergeStepCarries
<1>7. /\ n > 0 /\ n \in DOMAIN db.merges /\ db.merges[n].source = S /\ db.merges[n].target = T
      /\ S \notin crossed =>
           /\ ActiveRow(db, n)
           /\ \A i \in DOMAIN db.merges : i < n /\ ActiveRow(db, i) /\ db.merges[i].target = S => Within(db, i, n)
      /\ \A i \in DOMAIN db.merges : i < n \/ i = n
  BY <1>1, RowsTyped DEF RestoreInv, Flight, ActiveRow
<1>8. /\ Apart(db, crossed, {S, T}) /\ TargetsHave(db, crossed, Exempt)
      /\ SourcesGone(db, crossed, InUse) /\ RowsApart(db, crossed)
  BY <1>1 DEF RestoreInv, DbGood, Good, Sharing
<1>9. \A i : ActiveRow(db', i) <=> ActiveRow(db, i)
  BY <1>1 DEF ActiveRow
<1>10. Entities' \subseteq Entities
  BY <1>1
<1>11. DbGood'
  <2>1. Apart(db', crossed, {})
    <3> SUFFICES ASSUME NEW e \in Entities', NEW o \in Entities', NEW m \in MentionsOf(db', e),
                        e # o, Row(m, o) \in db'.mention
                 PROVE  {e, o} \subseteq crossed
      BY DEF Apart, Entities
    <3>1. m \in Pages \X Surfaces /\ Row(m, e) \in rows /\ Row(m, o) \in rows
      BY <1>1 DEF MentionsOf
    <3>2. e # S /\ o # S
      BY <1>3, <3>1
    <3>3. m \in MentionsOf(db, e) /\ Row(m, o) \in db.mention
      BY <1>4, <3>1 DEF MentionsOf
    <3>4. {e, o} \subseteq crossed \/ {e, o} \subseteq {S, T}
      BY <1>8, <1>10, <3>3 DEF Apart, Entities
    <3> QED
      BY <3>2, <3>4
  <2>2. TargetsHave(db', crossed, Exempt')
    <3> SUFFICES ASSUME NEW i \in DOMAIN db.merges, ActiveRow(db, i), i \notin Exempt', db.merges[i].target \notin crossed
                 PROVE  Settled(db', i)
      BY <1>1, <1>9 DEF TargetsHave
    <3>1. i \notin Exempt
      BY <1>1 DEF Exempt, Copying, Dropping
    <3>2. Settled(db, i)
      BY <1>8, <3>1 DEF TargetsHave
    <3>3. CASE db.merges[i].target = S
      <4>1. i < n /\ Within(db, i, n) /\ ActiveRow(db, n)
        BY <1>1, <1>7, <3>3
      <4>2. Follows(db', i, n)
        BY <1>1, <1>7, <1>9, <3>3, <4>1, RowsTyped DEF Follows, Within
      <4> QED
        BY <1>1, <1>7, <4>2 DEF Settled
    <3>4. CASE db.merges[i].target # S
      <4>1. Has(db, db.merges[i].target, db.merges[i].mentions) => Has(db', db'.merges[i].target, db'.merges[i].mentions)
        BY <1>1, <1>2, <3>4 DEF Has
      <4>2. \A k \in DOMAIN db.merges : Follows(db, i, k) => Follows(db', i, k)
        BY <1>1, <1>9 DEF Follows, Within
      <4> QED
        BY <1>1, <3>2, <4>1, <4>2 DEF Settled
    <3> QED
      BY <3>3, <3>4
  <2>3. SourcesGone(db', crossed, InUse')
    <3> SUFFICES ASSUME NEW i \in DOMAIN db.merges, ActiveRow(db, i), db.merges[i].source \in Entities',
                        db.merges[i].source \notin crossed
                 PROVE  i \in InUse'
      BY <1>1, <1>9 DEF SourcesGone, Entities
    <3>1. i \in InUse
      BY <1>8, <1>10 DEF SourcesGone, Entities
    <3>2. worker'.at = "drop_entity" \/ i # n
      BY <1>1, <1>7
    <3> QED
      BY <1>1, <3>1, <3>2 DEF InUse, PastInsert, Copying, Dropping
  <2>4. RowsApart(db', crossed)
    BY <1>1, <1>8, <1>9 DEF RowsApart, Beside
  <2>5. {} \subseteq Sharing' /\ SameTables(db', db')
    BY DEF SameTables
  <2>6. Good(db', crossed, Sharing', Exempt', InUse')
    BY <2>1, <2>2, <2>3, <2>4, <2>5, GoodGrows DEF Good
  <2> QED
    BY <1>1, <2>6 DEF DbGood
<1>12. Flight'
  <2>1. worker'.at \notin Copying /\ worker'.at # "log"
    BY <1>1 DEF Copying
  <2> QED
    BY <1>1, <1>6, <1>7, <1>9, <2>1 DEF Flight, ActiveRow, Within
<1>13. Numbers'
  BY <1>1, <1>6, <1>10, NumbersKeep DEF RestoreInv, Numbers, EntityInv, Typed
<1> QED
  BY <1>6, <1>11, <1>12, <1>13 DEF RestoreInv

\* Between merges nothing is excused.
LEMMA FinishMergeRestores ==
    ASSUME EntityInv, EntityInv', RestoreInv, FinishMerge
    PROVE  RestoreInv'
<1> DEFINE d == Counted(Recomputed(db, T), {T})
<1>1. SameRows(d, db)
  <2>1. Fits(Recomputed(db, T)) /\ SameRows(Recomputed(db, T), db)
    BY RecomputedKeeps DEF EntityInv
  <2>2. SameRows(d, Recomputed(db, T))
    BY <2>1, CountedKeeps
  <2> QED
    BY <2>1, <2>2 DEF SameRows
<1>2. /\ db' = d /\ disk' = d /\ client' = client /\ crossed' = crossed /\ used' = used
      /\ worker' = IF worker.plan = {} THEN Idle ELSE [at |-> "merge", plan |-> worker.plan]
      /\ worker.at = "finish_merge"
  BY DEF FinishMerge, Commits, history, At
<1> HIDE DEF d
<1>3. SameTables(db, db') /\ disk' = db' /\ Entities' = Entities
  BY <1>1, <1>2 DEF SameRows, SameTables, Entities
<1>4. worker'.at \in {"idle", "merge"} /\ ~Merging' /\ Merging
  <2>1. Merging
    BY <1>2, MergingIs DEF MergeSteps
  <2> QED
    BY <1>2, <2>1 DEF Idle, Merging
<1>5. /\ Requests'
      /\ \A c \in Clients : Undoing(c)' => UndoCrossed(c)' /\ UndoCrossed(c) /\ S \in crossed /\ T \in crossed
  BY <1>2, <1>3, <1>4, CrossedStay DEF RestoreInv, SameTables
<1>6. DbGood'
  <2>1. Sharing \subseteq Sharing' /\ Exempt \subseteq Exempt' /\ InUse \subseteq InUse'
    BY <1>2, <1>3 DEF Sharing, Exempt, InUse, PastInsert, Dropping, Copying, SameTables
  <2>2. Good(db, crossed, Sharing, Exempt, InUse)
    BY DEF RestoreInv, DbGood
  <2>3. Good(db', crossed, Sharing', Exempt', InUse')
    BY <1>3, <2>1, <2>2, GoodGrows
  <2> QED
    BY <1>2, <2>3 DEF DbGood
<1>7. Flight'
  BY <1>4 DEF Flight, Copying, Dropping
<1>8. DiskGood'
  BY <1>3, <1>5, <1>6, <1>7, CommittedIsGood
<1>9. Numbers'
  BY <1>2, <1>3, NumbersKeep DEF RestoreInv, Numbers, Entities, EntityInv, Typed, SameTables
<1> QED
  BY <1>5, <1>6, <1>7, <1>8, <1>9 DEF RestoreInv

-----------------------------------------------------------------------------
\* The undo.
LEMMA RequestBecomes ==
    ASSUME EntityInv, NEW c \in Clients, NEW r, client' = [client EXCEPT ![c] = r]
    PROVE  client'[c] = r /\ \A o \in Clients \ {c} : client'[o] = client[o]
  BY DEF EntityInv, Typed

\* An undo begins: newest first, so that its target still has what it got.
LEMMA UndoCheckRestores ==
    ASSUME EntityInv, EntityInv', RestoreInv, NEW c \in Clients, NEW i \in DOMAIN db.merges, UndoCheck(c, i)
    PROVE  RestoreInv'
<1> DEFINE m == db.merges[i]
           r == [at |-> "insert", merge |-> i, source |-> m.source, target |-> m.target, todo |-> m.mentions]
<1>1. /\ ~Undoing(c) /\ ActiveRow(db, i) /\ ~Later(i)
      /\ client' = [client EXCEPT ![c] = r]
      /\ db' = db /\ disk' = disk /\ worker' = worker /\ used' = used
      /\ crossed' = IF ~Merging /\ {m.source, m.target} \cap crossed = {} /\ ~Misled(i) THEN crossed
                    ELSE crossed \union Merged \union {m.source, m.target}
                         \union (IF Misled(i) THEN Undone ELSE {})
  BY DEF UndoCheck, Undo, ActiveRow
<1>12. Newer(i) => Misled(i)
  BY <1>1, RowsTyped DEF Newer, Misled, Later, Touching, MergeRow
<1>2. client'[c] = r /\ \A o \in Clients \ {c} : client'[o] = client[o]
  BY <1>1, RequestBecomes
<1>3. /\ client'[c].at = "insert" /\ client'[c].merge = i /\ client'[c].source = m.source
      /\ client'[c].target = m.target /\ client'[c].todo = m.mentions
  BY <1>2
<1> HIDE DEF r
<1>4. crossed \subseteq crossed' /\ Merging' = Merging /\ Merged' = Merged /\ S' = S /\ T' = T /\ Entities' = Entities
  BY <1>1 DEF Merging, Merged, S, T, Entities
<1>5. \/ crossed' = crossed /\ ~Merging /\ m.source \notin crossed /\ m.target \notin crossed /\ ~Newer(i)
      \/ /\ m.source \in crossed' /\ m.target \in crossed' /\ (Merging => S \in crossed' /\ T \in crossed')
         /\ ~Merging => \/ Undone \subseteq crossed'
                        \/ crossed' = crossed \union {m.source, m.target} /\ ~Newer(i)
  BY <1>1, <1>12 DEF Merged, S, T
<1>6. /\ Sharing' = Sharing /\ Exempt \subseteq Exempt' /\ InUse \subseteq InUse' /\ Busy \subseteq Busy'
      /\ \A o \in Clients : PastInsert(o)' <=> PastInsert(o)
      /\ \A o \in Clients \ {c} : Undoing(o)' <=> Undoing(o)
  BY <1>1, <1>2, <1>3, <1>4 DEF Sharing, Exempt, InUse, Busy, PastInsert, Undoing, S, T
<1>7. DbGood'
  <2>1. Good(db, crossed, Sharing, Exempt, InUse) /\ SameTables(db, db')
    BY <1>1 DEF RestoreInv, DbGood, SameTables
  <2>2. Good(db', crossed', Sharing', Exempt', InUse')
    BY <1>4, <1>6, <2>1, GoodGrows
  <2> QED
    BY <2>2 DEF DbGood
<1>8. Flight'
  <2>1. ASSUME Merging, NEW o \in Clients, Undoing(o)'
        PROVE  UndoCrossed(o)' /\ S \in crossed' /\ T \in crossed'
    <3>1. CASE o = c
      BY <1>3, <1>5, <2>1, <3>1 DEF UndoCrossed
    <3>2. CASE o # c
      BY <1>2, <1>4, <1>6, <2>1, <3>2 DEF UndoCrossed, RestoreInv, Flight
    <3> QED
      BY <3>1, <3>2
  <2>2. Merging /\ S \in crossed' => T \in crossed'
    BY <1>4, <1>5 DEF RestoreInv, Flight
  <2> QED
    BY <1>1, <1>4, <2>1, <2>2 DEF RestoreInv, Flight
<1>9. Requests'
  <2> SUFFICES ASSUME NEW o \in Clients, Undoing(o)'
               PROVE  /\ client'[o].target = db'.merges[client'[o].merge].target
                      /\ client'[o].todo \subseteq db'.merges[client'[o].merge].mentions
                      /\ UndoCrossed(o)' \/ TooLate(o)' \/ Restoring(o)'
    BY DEF Requests
  <2>1. CASE o = c
    <3>1. CASE m.source \in crossed' /\ m.target \in crossed'
      BY <1>1, <1>3, <2>1, <3>1 DEF UndoCrossed
    <3>2. CASE crossed' = crossed /\ ~Merging /\ m.source \notin crossed /\ m.target \notin crossed /\ ~Newer(i)
      <4>1. ASSUME NEW p \in m.mentions, p[1] \in db.page
            PROVE  Row(p, m.source) \in db.mention \/ Row(p, m.target) \in db.mention
        <5>1. i \in Exempt \/ Settled(db, i)
          BY <1>1, <3>2 DEF RestoreInv, DbGood, Good, TargetsHave
        <5>2. CASE Settled(db, i)
          <6>1. ~(\E k \in DOMAIN db.merges : Follows(db, i, k))
            BY <1>1, <3>2 DEF Follows, Newer, ActiveRow
          <6> QED
            BY <4>1, <5>2, <6>1 DEF Settled, Has
        <5>3. CASE i \in Exempt
          <6>1. worker.at \notin Copying
            BY <3>2, MergingIs DEF Copying, MergeSteps
          <6>2. PICK k \in Clients : client[k].at = "mentions" /\ client[k].merge = i
            BY <5>3, <6>1 DEF Exempt
          <6>3. Undoing(k) /\ client[k].source = m.source /\ client[k].target = m.target
            BY <6>2, UndoFacts DEF RestoreInv, Requests, Undoing
          <6>4. Restoring(k)
            BY <3>2, <6>2, <6>3 DEF RestoreInv, Requests, UndoCrossed, TooLate
          <6> QED
            BY <4>1, <6>2, <6>3, <6>4 DEF Restoring
        <5> QED
          BY <5>1, <5>2, <5>3
      <4>2. Restoring(o)'
        BY <1>1, <1>3, <2>1, <3>2, <4>1 DEF Restoring, PastInsert, Newer, ActiveRow
      <4> QED
        BY <1>1, <1>3, <2>1, <4>2
    <3> QED
      BY <1>5, <3>1, <3>2
  <2>2. CASE o # c
    <3>1. client'[o] = client[o] /\ Undoing(o)
      BY <1>2, <1>6, <2>2
    <3>2. CASE UndoCrossed(o) \/ TooLate(o)
      BY <1>1, <1>4, <3>1, <3>2 DEF RestoreInv, Requests, UndoCrossed, TooLate
    <3>3. CASE Restoring(o) /\ client[o].source \notin crossed' /\ client[o].target \notin crossed'
      <4>1. \A k \in Clients \ {o} : PastInsert(k)' => PastInsert(k) /\ client'[k].source = client[k].source
        BY <1>2, <1>3, <1>6 DEF PastInsert
      <4>2. PastInsert(o)' => PastInsert(o) /\ \A k \in Clients \ {o} : PastInsert(k)' => client'[k].source # client[o].source
        BY <1>6, <3>3, <4>1 DEF Restoring
      <4>3. Newer(client[o].merge)' <=> Newer(client[o].merge)
        BY <1>1, <3>1 DEF Newer
      <4>4. Restoring(o)'
        BY <1>1, <1>4, <3>1, <3>3, <4>2, <4>3 DEF Restoring
      <4> QED
        BY <1>1, <3>1, <4>4 DEF RestoreInv, Requests
    <3>4. CASE Restoring(o) /\ (client[o].source \in crossed' \/ client[o].target \in crossed')
      <4> DEFINE j == client[o].merge
      <4>1. /\ j \in DOMAIN db.merges /\ ActiveRow(db, j) /\ ~Newer(j)
            /\ db.merges[j].source = client[o].source /\ db.merges[j].target = client[o].target
            /\ client[o].source \notin crossed /\ client[o].target \notin crossed
        BY <3>1, <3>4, UndoFacts DEF Restoring, ActiveRow, RestoreInv, Requests
      <4>2. m.source \in crossed' /\ m.target \in crossed' /\ ~Merging
        <5>1. ~Merging
          BY <3>1, <4>1 DEF RestoreInv, Flight, UndoCrossed
        <5> QED
          BY <1>5, <3>4, <4>1, <5>1
      <4>8. CASE Undone \subseteq crossed'
        <5>1. {client[o].source, client[o].target} \subseteq Undone
          BY <3>1 DEF Undone
        <5>2. UndoCrossed(o)'
          BY <3>1, <4>8, <5>1 DEF UndoCrossed
        <5> QED
          BY <1>1, <3>1, <5>2 DEF RestoreInv, Requests
      <4>9. CASE crossed' = crossed \union {m.source, m.target} /\ ~Newer(i)
        <5>3. j \in Nat /\ i \in Nat
          BY <4>1, RowsTyped
        <5>4. CASE j = i
          BY <1>1, <3>1, <4>1, <4>2, <5>4 DEF UndoCrossed, RestoreInv, Requests
        <5>5. CASE j < i
          <6>1. client[o].source # m.source /\ client[o].source # m.target
            BY <1>1, <4>1, <5>5 DEF RestoreInv, DbGood, Good, RowsApart
          <6>2. client[o].target # m.source /\ client[o].target # m.target
            BY <1>1, <4>1, <5>5 DEF Newer, ActiveRow
          <6> QED
            BY <3>4, <4>1, <4>9, <6>1, <6>2
        <5>6. CASE i < j
          <6>1. m.target # client[o].source /\ m.target # client[o].target
            BY <1>1, <4>1, <4>9, <5>6 DEF Newer, ActiveRow
          <6>2. m.source # client[o].source /\ m.source # client[o].target
            BY <1>1, <4>1, <5>6 DEF RestoreInv, DbGood, Good, RowsApart
          <6> QED
            BY <3>4, <4>1, <4>9, <6>1, <6>2
        <5> HIDE DEF j
        <5>7. j = i \/ j < i \/ i < j
          BY <5>3
        <5> QED
          BY <5>4, <5>5, <5>6, <5>7
      <4> QED
        BY <1>5, <3>4, <4>1, <4>2, <4>8, <4>9
    <3> QED
      BY <3>1, <3>2, <3>3, <3>4 DEF RestoreInv, Requests
  <2> QED
    BY <2>1, <2>2
<1>10. DiskGood'
  BY <1>1, <1>4, <1>6, DiskStays DEF RestoreInv
<1>11. Numbers'
  BY <1>1, <1>4, NumbersKeep DEF RestoreInv, Numbers, EntityInv, Typed
<1> QED
  BY <1>7, <1>8, <1>9, <1>10, <1>11 DEF RestoreInv

\* The claim of an undo, from what it reads of the state.
LEMMA RestoringStays ==
    ASSUME NEW o \in Clients, Restoring(o), client'[o] = client[o],
           client[o].source \notin crossed', client[o].target \notin crossed',
           ~db'.merges[client[o].merge].undone, Newer(client[o].merge)' => Newer(client[o].merge),
           db'.merges[client[o].merge].mentions = db.merges[client[o].merge].mentions,
           PastInsert(o) => /\ client[o].source \in Entities'
                            /\ \A k \in Clients \ {o} : PastInsert(k)' => client'[k].source # client[o].source,
           \A p \in db.merges[client[o].merge].mentions : p[1] \in db'.page =>
              /\ p[1] \in db.page
              /\ Row(p, client[o].source) \in db.mention => Row(p, client[o].source) \in db'.mention
              /\ Row(p, client[o].target) \in db.mention =>
                    Row(p, client[o].target) \in db'.mention \/ Row(p, client[o].source) \in db'.mention
    PROVE  Restoring(o)'
<1>1. PastInsert(o)' <=> PastInsert(o)
  BY DEF PastInsert
<1> QED
  BY <1>1 DEF Restoring

\* What is still there for an undo that has inserted its source.
LEMMA PastInsertHas ==
    ASSUME RestoreInv, NEW c \in Clients, PastInsert(c)
    PROVE  UndoCrossed(c) \/ (Restoring(c) /\ client[c].source \in Entities)
<1>1. Undoing(c) /\ ~TooLate(c)
  BY DEF PastInsert, Undoing, TooLate
<1> QED
  BY <1>1 DEF RestoreInv, Requests, Restoring

\* An undo that fails has not begun, or was crossed.
LEMMA UndoFailsRestores ==
    ASSUME EntityInv, EntityInv', RestoreInv, NEW c \in Clients, Undoing(c),
           client[c].at = "insert" \/ client[c].source \notin Entities,
           UndoEnds(c, "failed"), db' = db, disk' = disk, worker' = worker, crossed' = crossed, used' = used
    PROVE  RestoreInv'
<1> DEFINE r == [Idle EXCEPT !.at = "failed"]
<1>1. client' = [client EXCEPT ![c] = r] /\ r.at = "failed"
  BY DEF UndoEnds, Idle
<1> HIDE DEF r
<1>2. client'[c].at = "failed" /\ \A o \in Clients \ {c} : client'[o] = client[o]
  BY <1>1, RequestBecomes
<1>3. PastInsert(c) => UndoCrossed(c) /\ client[c].source \notin Entities
  <2> SUFFICES ASSUME PastInsert(c) PROVE UndoCrossed(c) /\ client[c].source \notin Entities
    OBVIOUS
  <2>1. client[c].source \notin Entities
    BY DEF PastInsert
  <2> QED
    BY <2>1, PastInsertHas
<1>4. /\ Merging' = Merging /\ S' = S /\ T' = T /\ Entities' = Entities /\ Merged' = Merged
      /\ \A i : Newer(i)' <=> Newer(i)
  BY DEF Merging, S, T, Entities, Merged, Newer
<1>5. /\ \A o \in Clients : PastInsert(o)' <=> PastInsert(o) /\ o # c
      /\ \A o \in Clients : Undoing(o)' <=> Undoing(o) /\ o # c
  BY <1>2 DEF PastInsert, Undoing
<1>6. DbGood'
  <2>1. Sharing' = Sharing
    BY <1>4 DEF Sharing
  <2>2. \A i \in Exempt : i \in Exempt' \/ db.merges[i].target \in crossed'
    <3> SUFFICES ASSUME NEW i \in Exempt, i \notin Exempt' PROVE db.merges[i].target \in crossed
      OBVIOUS
    <3>1. client[c].at = "mentions" /\ client[c].merge = i
      BY <1>2 DEF Exempt
    <3> QED
      BY <1>3, <3>1 DEF PastInsert, UndoCrossed, RestoreInv, Requests
  <2>3. \A i \in InUse : db.merges[i].source \in DOMAIN db.entity => i \in InUse'
    <3> SUFFICES ASSUME NEW i \in InUse, i \notin InUse' PROVE db.merges[i].source \notin Entities
      BY DEF Entities
    <3>1. PastInsert(c) /\ client[c].merge = i
      BY <1>2, <1>5 DEF InUse
    <3> QED
      BY <1>3, <3>1, UndoFacts
  <2>4. Good(db, crossed, Sharing, Exempt, InUse) /\ SameTables(db, db')
    BY DEF RestoreInv, DbGood, SameTables
  <2>5. Good(db', crossed', Sharing', Exempt', InUse')
    BY <2>1, <2>2, <2>3, <2>4, GoodGrows
  <2> QED
    BY <2>5 DEF DbGood
<1>7. Flight'
  BY <1>2, <1>4, <1>5 DEF RestoreInv, Flight, UndoCrossed
<1>8. Requests'
  <2> SUFFICES ASSUME NEW o \in Clients \ {c}, Undoing(o)
               PROVE  /\ client[o].target = db'.merges[client[o].merge].target
                      /\ client[o].todo \subseteq db'.merges[client[o].merge].mentions
                      /\ UndoCrossed(o)' \/ TooLate(o)' \/ Restoring(o)'
    BY <1>2, <1>5 DEF Requests
  <2>1. CASE Restoring(o)
    <3>1. /\ client'[o] = client[o] /\ client[o].source \notin crossed' /\ client[o].target \notin crossed'
          /\ ~db'.merges[client[o].merge].undone /\ client'[o].merge = client[o].merge
          /\ PastInsert(o) => /\ client[o].source \in Entities'
                              /\ \A k \in Clients \ {o} : PastInsert(k)' => client'[k].source # client[o].source
      BY <1>2, <1>4, <1>5, <2>1 DEF Restoring
    <3>2. Restoring(o)'
      BY <1>4, <2>1, <3>1, RestoringStays
    <3> QED
      BY <3>2 DEF RestoreInv, Requests
  <2>2. CASE UndoCrossed(o) \/ TooLate(o)
    BY <1>2, <1>4, <2>2 DEF RestoreInv, Requests, UndoCrossed, TooLate
  <2> QED
    BY <2>1, <2>2 DEF RestoreInv, Requests
<1>9. DiskGood'
  <2>1. Busy \subseteq crossed' \union Busy'
    BY <1>2, <1>3, <1>4, <1>5 DEF Busy, UndoCrossed
  <2> QED
    BY <2>1, DiskStays DEF RestoreInv
<1>10. Numbers'
  BY <1>4, NumbersKeep DEF RestoreInv, Numbers, EntityInv, Typed
<1> QED
  BY <1>6, <1>7, <1>8, <1>9, <1>10 DEF RestoreInv

\* The source is there again, and holds nothing yet.
LEMMA UndoInsertRestores ==
    ASSUME EntityInv, EntityInv', RestoreInv, NEW c \in Clients, UndoInsert(c)
    PROVE  RestoreInv'
<1> DEFINE u == client[c]
           m == db.merges[u.merge]
           r == [u EXCEPT !.at = "aliases"]
           d == Inserted(db, m.source, m.form)
<1>1. /\ u \in [at : {"insert", "aliases", "mentions"}, merge : DOMAIN db.merges,
                source : Nat, target : Nat, todo : SUBSET (Pages \X Surfaces)]
      /\ u.source = m.source /\ m.source \in Nat /\ m.form \in Surfaces /\ u.at = "insert" /\ Undoing(c)
  BY RequestIs DEF UndoInsert, Undoes, MergeRow, Undoing
<1>2. worker' = worker /\ crossed' = crossed /\ used' = used
  BY DEF UndoInsert, history
<1>3. CASE db' = db /\ disk' = disk /\ UndoEnds(c, "failed")
  BY <1>1, <1>2, <1>3, UndoFailsRestores
<1>4. CASE /\ m.source \notin Entities /\ db' = d /\ disk' = disk
           /\ client' = [client EXCEPT ![c].at = "aliases"]
  <2>1. /\ DOMAIN d.entity = Entities \union {m.source}
        /\ d.page = db.page /\ d.mention = db.mention /\ d.merges = db.merges
    <3>1. Fits(db)
      BY DEF EntityInv
    <3> QED
      BY <1>1, <3>1, InsertedKeeps DEF Entities
  <2> HIDE DEF d
  <2>2. client' = [client EXCEPT ![c] = r]
    BY <1>4
  <2>3. r.at = "aliases" /\ r.merge = u.merge /\ r.source = u.source /\ r.target = u.target /\ r.todo = u.todo
    BY <1>1
  <2> HIDE DEF r
  <2>4. client'[c] = r /\ \A o \in Clients \ {c} : client'[o] = client[o]
    BY <2>2, RequestBecomes
  <2>5. /\ \A o \in Clients : PastInsert(o)' <=> PastInsert(o) \/ o = c
        /\ \A o \in Clients : Undoing(o)' <=> Undoing(o)
        /\ \A o \in Clients : UndoCrossed(o)' <=> UndoCrossed(o)
        /\ ~PastInsert(c)
    BY <1>1, <1>2, <2>3, <2>4 DEF PastInsert, Undoing, UndoCrossed
  <2>6. /\ Merging' = Merging /\ S' = S /\ T' = T /\ Merged' = Merged
        /\ db'.page = db.page /\ db'.mention = db.mention /\ db'.merges = db.merges
        /\ Entities' = Entities \union {u.source} /\ u.source \notin Entities
        /\ \A i : Newer(i)' <=> Newer(i)
    BY <1>1, <1>2, <1>4, <2>1 DEF Merging, S, T, Merged, Entities, Newer
  <2>7. UndoCrossed(c) \/ Restoring(c)
    BY <1>1, <2>6 DEF RestoreInv, Requests, TooLate
  <2>8. DbGood'
    <3>1. Sharing' = Sharing /\ Exempt \subseteq Exempt' /\ InUse \subseteq InUse' /\ u.merge \in InUse'
      BY <1>1, <1>2, <2>3, <2>4, <2>5, <2>6 DEF Sharing, Exempt, InUse
    <3>2. \A i \in DOMAIN db.merges : ActiveRow(db, i) /\ db.merges[i].source = u.source => u.source \in crossed \/ i \in InUse'
      <4> SUFFICES ASSUME NEW i \in DOMAIN db.merges, ActiveRow(db, i), db.merges[i].source = u.source,
                          u.source \notin crossed, i # u.merge
                   PROVE  FALSE
        BY <3>1
      <4>1. ActiveRow(db, u.merge) /\ u.merge \in DOMAIN db.merges
        BY <1>1, <2>7 DEF UndoCrossed, Restoring, ActiveRow
      <4>2. i < u.merge \/ u.merge < i
        BY <4>1, RowsTyped
      <4> QED
        BY <1>1, <4>1, <4>2 DEF RestoreInv, DbGood, Good, RowsApart
    <3>3. Good(db, crossed, Sharing, Exempt, InUse) /\ Fits(db) /\ DOMAIN db'.entity = DOMAIN db.entity \union {u.source}
      BY <2>6 DEF RestoreInv, DbGood, EntityInv, Entities
    <3>4. Good(db', crossed, Sharing, Exempt', InUse')
      BY <2>6, <3>1, <3>2, <3>3, GoodInserted DEF Entities
    <3> QED
      BY <1>2, <3>1, <3>4 DEF DbGood
  <2>9. Flight'
    BY <1>2, <2>5, <2>6 DEF RestoreInv, Flight, Has, Within, ActiveRow, MentionsOf
  <2>10. Requests'
    <3> SUFFICES ASSUME NEW o \in Clients, Undoing(o)
                 PROVE  /\ client'[o].target = db'.merges[client'[o].merge].target
                        /\ client'[o].todo \subseteq db'.merges[client'[o].merge].mentions
                        /\ UndoCrossed(o)' \/ TooLate(o)' \/ Restoring(o)'
      BY <2>5 DEF Requests
    <3>1. /\ client'[o].merge = client[o].merge /\ client'[o].source = client[o].source
          /\ client'[o].target = client[o].target /\ client'[o].todo = client[o].todo
      BY <2>3, <2>4
    <3>2. UndoCrossed(o)' \/ TooLate(o)' \/ Restoring(o)'
      <4>1. CASE o = c /\ Restoring(c)
        <5>1. ASSUME NEW k \in Clients \ {c}, PastInsert(k) PROVE client[k].source # u.source
          <6>1. UndoCrossed(k) \/ client[k].source \in Entities
            BY <5>1, PastInsertHas
          <6> QED
            BY <2>6, <4>1, <6>1 DEF Restoring, UndoCrossed
        <5>2. \A k \in Clients \ {c} : PastInsert(k)' => client'[k].source # client'[c].source
          BY <2>3, <2>4, <2>5, <5>1
        <5> QED
          BY <1>2, <2>3, <2>4, <2>6, <4>1, <5>2 DEF Restoring
      <4>2. CASE UndoCrossed(o)
        BY <2>5, <4>2
      <4>3. CASE o # c /\ TooLate(o)
        BY <2>4, <2>6, <4>3 DEF TooLate
      <4>4. CASE o # c /\ Restoring(o)
        <5>1. client'[o] = client[o]
          BY <2>4, <4>4
        <5>2. ASSUME PastInsert(o)
              PROVE  /\ client[o].source \in Entities'
                     /\ \A k \in Clients \ {o} : PastInsert(k)' => client'[k].source # client[o].source
          <6>1. client[o].source \in Entities /\ \A k \in Clients \ {o} : PastInsert(k) => client[k].source # client[o].source
            BY <4>4, <5>2 DEF Restoring
          <6> QED
            BY <2>3, <2>4, <2>5, <2>6, <6>1
        <5>3. client[o].source \notin crossed' /\ client[o].target \notin crossed' /\ ~db'.merges[client[o].merge].undone
          BY <1>2, <2>6, <4>4 DEF Restoring
        <5>4. Restoring(o)'
          BY <2>6, <3>1, <4>4, <5>1, <5>2, <5>3, RestoringStays
        <5> QED
          BY <5>4
      <4> QED
        BY <2>7, <4>1, <4>2, <4>3, <4>4 DEF RestoreInv, Requests
    <3> QED
      BY <2>6, <3>1, <3>2 DEF RestoreInv, Requests
  <2>11. DiskGood'
    <3>1. Busy \subseteq Busy'
      BY <2>3, <2>4, <2>5, <2>6 DEF Busy
    <3> QED
      BY <1>2, <1>4, <3>1, DiskStays DEF RestoreInv
  <2>12. Numbers'
    <3>1. \A e \in Entities' : e <= used'.ids
      BY <1>1, <1>2, <2>6 DEF RestoreInv, Numbers
    <3> QED
      BY <1>2, <1>4, <2>6, <3>1, NumbersKeep DEF RestoreInv, EntityInv, Typed
  <2> QED
    BY <2>8, <2>9, <2>10, <2>11, <2>12 DEF RestoreInv
<1> QED
  BY <1>3, <1>4 DEF UndoInsert, Writes, UndoNext

\* The aliases go back; nothing else moves.
LEMMA UndoAliasesRestores ==
    ASSUME EntityInv, EntityInv', RestoreInv, NEW c \in Clients, UndoAliases(c)
    PROVE  RestoreInv'
<1> DEFINE u == client[c]
           r == [u EXCEPT !.at = "mentions"]
           back == {s \in db.merges[u.merge].aliases :
                       <<s, u.target>> \in db.alias /\ <<s, u.source>> \notin db.alias}
           names == (db.alias \ {<<s, u.target>> : s \in back}) \union {<<s, u.source>> : s \in back}
<1>1. /\ u \in [at : {"insert", "aliases", "mentions"}, merge : DOMAIN db.merges,
                source : Nat, target : Nat, todo : SUBSET (Pages \X Surfaces)]
      /\ u.at = "aliases" /\ Undoing(c)
  BY RequestIs DEF UndoAliases, Undoes, Undoing
<1>2. worker' = worker /\ crossed' = crossed /\ used' = used
  BY DEF UndoAliases, history
<1>3. CASE u.source \notin Entities /\ db' = db /\ disk' = disk /\ UndoEnds(c, "failed")
  BY <1>1, <1>2, <1>3, UndoFailsRestores
<1>4. CASE /\ db' = [db EXCEPT !.alias = names] /\ disk' = disk
           /\ client' = [client EXCEPT ![c].at = "mentions"]
  <2> HIDE DEF names, back
  <2>1. SameTables(db, db') /\ Entities' = Entities
    BY <1>4, WithAlias DEF EntityInv, SameTables, Entities
  <2>2. client' = [client EXCEPT ![c] = r]
    BY <1>4
  <2>3. r.at = "mentions" /\ r.merge = u.merge /\ r.source = u.source /\ r.target = u.target /\ r.todo = u.todo
    BY <1>1
  <2> HIDE DEF r
  <2>4. client'[c] = r /\ \A o \in Clients \ {c} : client'[o] = client[o]
    BY <2>2, RequestBecomes
  <2>5. /\ \A o \in Clients : PastInsert(o)' <=> PastInsert(o)
        /\ \A o \in Clients : Undoing(o)' <=> Undoing(o)
        /\ \A o \in Clients : UndoCrossed(o)' <=> UndoCrossed(o)
        /\ \A o \in Clients : /\ client'[o].merge = client[o].merge /\ client'[o].source = client[o].source
                              /\ client'[o].target = client[o].target /\ client'[o].todo = client[o].todo
    BY <1>1, <1>2, <2>3, <2>4 DEF PastInsert, Undoing, UndoCrossed
  <2>6. /\ Merging' = Merging /\ S' = S /\ T' = T /\ Merged' = Merged
        /\ \A i : Newer(i)' <=> Newer(i)
    BY <1>2, <2>1 DEF Merging, S, T, Merged, Newer, SameTables
  <2>7. DbGood'
    <3>1. Sharing' = Sharing /\ Exempt \subseteq Exempt' /\ InUse \subseteq InUse'
      BY <1>1, <1>2, <2>1, <2>3, <2>4, <2>5, <2>6 DEF Sharing, Exempt, InUse, SameTables
    <3>2. Good(db, crossed, Sharing, Exempt, InUse)
      BY DEF RestoreInv, DbGood
    <3>3. Good(db', crossed, Sharing', Exempt', InUse')
      BY <2>1, <3>1, <3>2, GoodGrows
    <3> QED
      BY <1>2, <3>3 DEF DbGood
  <2>8. Flight'
    BY <1>2, <2>1, <2>5, <2>6 DEF RestoreInv, Flight, Has, Within, ActiveRow, MentionsOf, SameTables
  <2>9. Requests'
    <3> SUFFICES ASSUME NEW o \in Clients, Undoing(o)
                 PROVE  /\ client'[o].target = db'.merges[client'[o].merge].target
                        /\ client'[o].todo \subseteq db'.merges[client'[o].merge].mentions
                        /\ UndoCrossed(o)' \/ TooLate(o)' \/ Restoring(o)'
      BY <2>5 DEF Requests
    <3>1. CASE UndoCrossed(o)
      BY <2>1, <2>5, <3>1 DEF RestoreInv, Requests, SameTables
    <3>2. CASE TooLate(o)
      <4>1. client'[o].at = client[o].at
        BY <1>1, <2>4, <3>2 DEF TooLate
      <4> QED
        BY <2>1, <2>5, <3>2, <4>1 DEF RestoreInv, Requests, TooLate, SameTables
    <3>3. CASE Restoring(o)
      <4>1. Restoring(o)'
        BY <1>2, <2>1, <2>5, <2>6, <3>3 DEF Restoring, SameTables
      <4> QED
        BY <2>1, <2>5, <4>1 DEF RestoreInv, Requests, SameTables
    <3> QED
      BY <3>1, <3>2, <3>3 DEF RestoreInv, Requests
  <2>10. DiskGood'
    <3>1. Busy \subseteq Busy'
      BY <2>5, <2>6 DEF Busy
    <3> QED
      BY <1>2, <1>4, <3>1, DiskStays DEF RestoreInv
  <2>11. Numbers'
    BY <1>2, <1>4, <2>1, <2>6, NumbersKeep DEF RestoreInv, Numbers, EntityInv, Typed, SameTables
  <2> QED
    BY <2>7, <2>8, <2>9, <2>10, <2>11 DEF RestoreInv
<1>5. back = {} => names = db.alias
  OBVIOUS
<1> QED
  BY <1>3, <1>4 DEF UndoAliases, Writes, UndoNext

\* A mention moves from the target of an undo to its source: it was of no other
\* entity, and of no other merge into the target, unless the undo is crossed.
LEMMA GoodMoved ==
    ASSUME EntityInv, RestoreInv, NEW c \in Clients, client[c].at = "mentions",
           NEW m \in client[c].todo, NEW b,
           client[c].source # client[c].target,
           Row(m, client[c].target) \in db.mention,
           \A n \in Pages \X Surfaces : \A e : Row(n, e) \in b.mention <=>
              \/ Row(n, e) \in db.mention /\ ~ (n = m /\ e = client[c].target)
              \/ n = m /\ e = client[c].source,
           b.page = db.page, b.merges = db.merges, DOMAIN b.entity = Entities
    PROVE  Good(b, crossed, Sharing, Exempt, InUse)
<1> DEFINE u == client[c]
           s == u.source
           t == u.target
           j == u.merge
<1>1. /\ u \in [at : {"insert", "aliases", "mentions"}, merge : DOMAIN db.merges,
                source : Nat, target : Nat, todo : SUBSET (Pages \X Surfaces)]
      /\ s = db.merges[j].source /\ t = db.merges[j].target /\ m \in db.merges[j].mentions
      /\ Undoing(c) /\ m \in Pages \X Surfaces
  BY UndoFacts DEF Undoing, RestoreInv, Requests
<1>2. UndoCrossed(c) \/ (Restoring(c) /\ s \in Entities)
  BY PastInsertHas DEF PastInsert
<1>3. t \notin crossed => Restoring(c) /\ ActiveRow(db, j)
  BY <1>1, <1>2 DEF UndoCrossed, Restoring, ActiveRow
<1>4. Sharing # {} => Sharing \subseteq crossed
  <2>1. worker.at \in Dropping => Merging
    BY MergingIs DEF Dropping, MergeSteps
  <2> QED
    BY <1>1, <2>1 DEF Sharing, RestoreInv, Flight
<1>5. t \in Entities
  <2>1. Row(m, t) \in Pages \X Surfaces \X Entities
    BY DEF EntityInv, Fits, Entities
  <2> QED
    BY <2>1 DEF Row
<1>6. Apart(b, crossed, Sharing)
  <2>1. Apart(db, crossed, Sharing)
    BY DEF RestoreInv, DbGood, Good
  <2>2. ASSUME NEW e \in Entities, NEW o \in Entities, NEW n \in Pages \X Surfaces,
               Row(n, e) \in db.mention, e # o, Row(n, o) \in db.mention
        PROVE  {e, o} \subseteq crossed
    BY <1>4, <2>1, <2>2 DEF Apart, MentionsOf, Entities
  <2>3. ASSUME NEW o \in Entities, o # s, Row(m, o) \in b.mention
        PROVE  {s, o} \subseteq crossed
    <3>1. Row(m, o) \in db.mention /\ o # t
      BY <1>1, <2>3
    <3>2. {t, o} \subseteq crossed
      BY <1>1, <1>5, <2>2, <3>1
    <3>3. s \in crossed
      BY <1>2, <3>2 DEF UndoCrossed, Restoring
    <3> QED
      BY <3>2, <3>3
  <2>4. ASSUME NEW e \in Entities, NEW o \in Entities, NEW n \in MentionsOf(b, e),
               e # o, Row(n, o) \in b.mention
        PROVE  {e, o} \subseteq crossed
    <3>1. n \in Pages \X Surfaces /\ Row(n, e) \in b.mention
      BY DEF MentionsOf
    <3>2. CASE n = m /\ (e = s \/ o = s)
      BY <2>3, <2>4, <3>1, <3>2
    <3>3. CASE ~ (n = m /\ (e = s \/ o = s))
      <4>1. Row(n, e) \in db.mention /\ Row(n, o) \in db.mention
        BY <2>4, <3>1, <3>3
      <4> QED
        BY <2>2, <2>4, <3>1, <4>1
    <3> QED
      BY <3>2, <3>3
  <2> QED
    BY <2>4 DEF Apart
<1>7. \A i : ActiveRow(b, i) <=> ActiveRow(db, i)
  BY DEF ActiveRow
<1>8. TargetsHave(b, crossed, Exempt)
  <2> SUFFICES ASSUME NEW i \in DOMAIN db.merges, ActiveRow(db, i),
                      db.merges[i].target \notin crossed, i \notin Exempt
               PROVE  Settled(b, i)
    BY <1>7 DEF TargetsHave
  <2>1. Settled(db, i)
    BY DEF RestoreInv, DbGood, Good, TargetsHave
  <2>2. \A k : Follows(b, i, k) <=> Follows(db, i, k)
    BY <1>7 DEF Follows, Within
  <2>3. CASE Has(db, db.merges[i].target, db.merges[i].mentions)
    <3>1. ASSUME NEW n \in db.merges[i].mentions, n[1] \in db.page
          PROVE  Row(n, db.merges[i].target) \in b.mention
      <4>1. n \in Pages \X Surfaces /\ Row(n, db.merges[i].target) \in db.mention
        BY <2>3, <3>1, RowsTyped DEF Has, MergeRow
      <4>2. CASE n = m /\ db.merges[i].target = t
        <5>1. ActiveRow(db, j)
          BY <1>3, <4>2
        <5>2. i # j
          BY DEF Exempt
        <5>3. i < j \/ j < i
          BY <1>1, <5>2, RowsTyped
        <5>4. Beside(db, i, j) \/ Beside(db, j, i)
          BY <1>1, <4>2, <5>1, <5>3 DEF RestoreInv, DbGood, Good, RowsApart
        <5> QED
          BY <1>1, <3>1, <4>2, <5>4 DEF Beside
      <4> QED
        BY <4>1, <4>2
    <3> QED
      BY <3>1 DEF Settled, Has
  <2>4. CASE \E k \in DOMAIN db.merges : Follows(db, i, k)
    BY <2>2, <2>4 DEF Settled
  <2> QED
    BY <2>1, <2>3, <2>4 DEF Settled
<1>9. SourcesGone(b, crossed, InUse)
  BY <1>7 DEF RestoreInv, DbGood, Good, SourcesGone, Entities
<1>10. RowsApart(b, crossed)
  BY <1>7 DEF RestoreInv, DbGood, Good, RowsApart, Beside
<1> QED
  BY <1>6, <1>8, <1>9, <1>10 DEF Good

\* A mention goes back, or stays where it is already.
LEMMA UndoMentionRestores ==
    ASSUME EntityInv, EntityInv', RestoreInv, NEW c \in Clients, UndoMention(c)
    PROVE  RestoreInv'
<1> DEFINE u == client[c]
           s == u.source
           t == u.target
           j == u.merge
           here(m) == Row(m, t)
           there(m) == Row(m, s)
           moves(m) == here(m) \in db.mention /\ there(m) \notin db.mention
<1>1. /\ u \in [at : {"insert", "aliases", "mentions"}, merge : DOMAIN db.merges,
                source : Nat, target : Nat, todo : SUBSET (Pages \X Surfaces)]
      /\ u.at = "mentions" /\ Undoing(c)
      /\ s = db.merges[j].source /\ t = db.merges[j].target
      /\ db.merges[j].mentions \subseteq Pages \X Surfaces
  BY RequestIs DEF UndoMention, Undoes, Undoing, RestoreInv, Requests, MergeRow
<1>2. worker' = worker /\ crossed' = crossed /\ used' = used
  BY DEF UndoMention, history
<1>3. CASE s \notin Entities /\ db' = db /\ disk' = disk /\ UndoEnds(c, "failed")
  BY <1>1, <1>2, <1>3, UndoFailsRestores
<1>4. ASSUME NEW m \in u.todo, disk' = disk, moves(m) => s \in Entities,
             db' = IF moves(m)
                   THEN [db EXCEPT !.mention = (@ \ {here(m)}) \union {there(m)}] ELSE db,
             client' = [client EXCEPT ![c].todo = @ \ {m}]
      PROVE  RestoreInv'
  <2> DEFINE r == [u EXCEPT !.todo = @ \ {m}]
             Holds(n, e) == \/ Row(n, e) \in db.mention /\ ~ (moves(m) /\ n = m /\ e = t)
                            \/ moves(m) /\ n = m /\ e = s
  <2>1. client' = [client EXCEPT ![c] = r]
    BY <1>4
  <2>2. r.at = u.at /\ r.merge = j /\ r.source = s /\ r.target = t /\ r.todo = u.todo \ {m}
    BY <1>1
  <2> HIDE DEF r
  <2>3. client'[c] = r /\ \A o \in Clients \ {c} : client'[o] = client[o]
    BY <2>1, RequestBecomes
  <2>4. /\ \A o \in Clients : PastInsert(o)' <=> PastInsert(o)
        /\ \A o \in Clients : Undoing(o)' <=> Undoing(o)
        /\ \A o \in Clients : UndoCrossed(o)' <=> UndoCrossed(o)
        /\ \A o \in Clients : client'[o].at = client[o].at
        /\ \A o \in Clients : /\ client'[o].merge = client[o].merge /\ client'[o].source = client[o].source
                              /\ client'[o].target = client[o].target
    BY <1>2, <2>2, <2>3 DEF PastInsert, Undoing, UndoCrossed
  <2>5. m \in Pages \X Surfaces /\ m \in db.merges[j].mentions
    BY <1>1 DEF RestoreInv, Requests
  <2>6. /\ db'.page = db.page /\ db'.merges = db.merges /\ DOMAIN db'.entity = DOMAIN db.entity
        /\ \A n \in Pages \X Surfaces : \A e : Row(n, e) \in db'.mention <=> Holds(n, e)
    <3>1. CASE moves(m)
      <4>1. db' = [page |-> db.page, entity |-> db.entity, alias |-> db.alias,
                   mention |-> (db.mention \ {here(m)}) \union {there(m)}, merges |-> db.merges]
        BY <1>4, <3>1, WithMention DEF EntityInv
      <4>2. \A n \in Pages \X Surfaces : \A e, o : Row(n, e) = Row(m, o) <=> n = m /\ e = o
        BY <2>5 DEF Row
      <4> QED
        BY <3>1, <4>1, <4>2
    <3>2. CASE ~ moves(m)
      BY <1>4, <3>2
    <3> QED
      BY <3>1, <3>2
  <2>7. moves(m) => s # t
    OBVIOUS
  <2>8. /\ Merging' = Merging /\ S' = S /\ T' = T /\ Merged' = Merged /\ Entities' = Entities
        /\ \A i : Newer(i)' <=> Newer(i)
    BY <1>2, <2>6 DEF Merging, S, T, Merged, Newer, Entities
  <2>9. UndoCrossed(c) \/ (Restoring(c) /\ s \in Entities)
    BY <1>1, PastInsertHas DEF PastInsert
  <2>10. DbGood'
    <3>1. Sharing' = Sharing /\ Exempt' = Exempt /\ InUse' = InUse
      BY <1>2, <2>4, <2>6, <2>8 DEF Sharing, Exempt, InUse
    <3>2. Good(db', crossed, Sharing, Exempt, InUse)
      <4>1. CASE moves(m)
        <5>1. \A n \in Pages \X Surfaces : \A e : Row(n, e) \in db'.mention <=>
                  \/ Row(n, e) \in db.mention /\ ~ (n = m /\ e = client[c].target)
                  \/ n = m /\ e = client[c].source
          BY <2>6, <4>1
        <5> QED
          BY <1>1, <2>6, <2>7, <4>1, <5>1, GoodMoved DEF Entities
      <4>2. CASE ~ moves(m)
        BY <1>4, <4>2 DEF RestoreInv, DbGood
      <4> QED
        BY <4>1, <4>2
    <3> QED
      BY <1>2, <3>1, <3>2 DEF DbGood
  <2>11. Flight'
    <3>1. Merging => S \in crossed
      BY <1>1 DEF RestoreInv, Flight
    <3>2. worker.at \in {"log"} \union Copying \union Dropping => Merging
      BY MergingIs DEF Copying, Dropping, MergeSteps
    <3> QED
      BY <1>2, <2>4, <2>6, <2>8, <3>1, <3>2 DEF RestoreInv, Flight
  <2>12. Requests'
    <3> SUFFICES ASSUME NEW o \in Clients, Undoing(o)
                 PROVE  /\ client'[o].target = db'.merges[client'[o].merge].target
                        /\ client'[o].todo \subseteq db'.merges[client'[o].merge].mentions
                        /\ UndoCrossed(o)' \/ TooLate(o)' \/ Restoring(o)'
      BY <2>4 DEF Requests
    <3>1. client'[o].todo \subseteq client[o].todo
      BY <2>2, <2>3
    <3>2. UndoCrossed(o)' \/ TooLate(o)' \/ Restoring(o)'
      <4>1. CASE UndoCrossed(o)
        BY <2>4, <4>1
      <4>2. CASE TooLate(o)
        BY <2>4, <2>6, <2>8, <4>2 DEF TooLate
      <4>3. CASE o = c /\ Restoring(o)
        <5>1. ASSUME NEW p \in db.merges[j].mentions, p[1] \in db.page
              PROVE  Row(p, s) \in db'.mention \/ (p \in r.todo /\ Row(p, t) \in db'.mention)
          <6>1. Row(p, s) \in db.mention \/ (p \in u.todo /\ Row(p, t) \in db.mention)
            BY <4>3, <5>1 DEF Restoring
          <6>2. p \in Pages \X Surfaces
            BY <1>1
          <6> QED
            BY <2>2, <2>6, <2>7, <6>1, <6>2
        <5> QED
          BY <1>2, <2>2, <2>3, <2>4, <2>6, <2>8, <4>3, <5>1 DEF Restoring
      <4>4. CASE o # c /\ Restoring(o)
        <5>1. client'[o] = client[o]
          BY <2>3, <4>4
        <5>2. /\ client[o].source \notin crossed /\ client[o].target \notin crossed
              /\ ActiveRow(db, client[o].merge) /\ ~ Newer(client[o].merge)
              /\ client[o].merge \in DOMAIN db.merges
              /\ client[o].source = db.merges[client[o].merge].source
              /\ client[o].target = db.merges[client[o].merge].target
              /\ db.merges[client[o].merge].mentions \subseteq Pages \X Surfaces
          BY <4>4, UndoFacts DEF Restoring, ActiveRow, RestoreInv, Requests, MergeRow
        <5>3. \/ client[o].source # t /\ client[o].target # t
              \/ client[o].source = s /\ client[o].target = t /\ client[o].source # t
              \/ ~ moves(m)
          <6> SUFFICES ASSUME moves(m), client[o].source = t \/ client[o].target = t,
                              client[o].merge # j
                       PROVE  FALSE
            BY <1>1, <2>7, <5>2
          <6>1. ActiveRow(db, j) /\ ~ Newer(j) /\ j \in DOMAIN db.merges
                /\ s \notin crossed /\ t \notin crossed
            BY <1>1, <2>9, <5>2 DEF UndoCrossed, Restoring, ActiveRow
          <6>2. client[o].merge < j \/ j < client[o].merge
            BY <5>2, <6>1, RowsTyped
          <6>3. CASE client[o].merge < j
            <7>1. client[o].target # t
              BY <1>1, <5>2, <6>1, <6>3 DEF Newer, ActiveRow
            <7>2. client[o].source # t
              BY <1>1, <5>2, <6>1, <6>3 DEF RestoreInv, DbGood, Good, RowsApart
            <7> QED
              BY <7>1, <7>2
          <6>4. CASE j < client[o].merge
            BY <1>1, <5>2, <6>1, <6>4 DEF Newer, ActiveRow
          <6> QED
            BY <6>2, <6>3, <6>4
        <5>4. ASSUME NEW p \in db.merges[client[o].merge].mentions
              PROVE  /\ Row(p, client[o].source) \in db.mention => Row(p, client[o].source) \in db'.mention
                     /\ Row(p, client[o].target) \in db.mention =>
                          Row(p, client[o].target) \in db'.mention \/ Row(p, client[o].source) \in db'.mention
          <6>1. p \in Pages \X Surfaces
            BY <5>2
          <6> QED
            BY <2>6, <5>3, <6>1
        <5>5. PastInsert(o) => /\ client[o].source \in Entities'
                               /\ \A k \in Clients \ {o} : PastInsert(k)' => client'[k].source # client[o].source
          BY <2>4, <2>8, <4>4 DEF Restoring
        <5>6. Restoring(o)'
          BY <1>2, <2>4, <2>6, <2>8, <4>4, <5>1, <5>2, <5>4, <5>5, RestoringStays DEF ActiveRow
        <5> QED
          BY <5>6
      <4> QED
        BY <4>1, <4>2, <4>3, <4>4 DEF RestoreInv, Requests
    <3> QED
      BY <2>4, <2>6, <3>1, <3>2 DEF RestoreInv, Requests
  <2>13. DiskGood'
    <3>1. Busy \subseteq Busy'
      BY <2>4, <2>8 DEF Busy
    <3> QED
      BY <1>2, <1>4, <3>1, DiskStays DEF RestoreInv
  <2>14. Numbers'
    BY <1>2, <1>4, <2>6, <2>8, NumbersKeep DEF RestoreInv, Numbers, EntityInv, Typed
  <2> QED
    BY <2>10, <2>11, <2>12, <2>13, <2>14 DEF RestoreInv
<1> QED
  BY <1>3, <1>4 DEF UndoMention, Writes

\* What the end of an undo changes of the rows is that one of them is undone.
LEMMA UndoFinishIs ==
    ASSUME EntityInv, NEW c \in Clients, UndoFinish(c)
    PROVE  /\ client[c].merge \in DOMAIN db.merges /\ client[c].at = "mentions"
           /\ client[c].todo = {} /\ Undoing(c)
           /\ worker' = worker /\ crossed' = crossed /\ used' = used /\ disk' = db'
           /\ client' = [client EXCEPT ![c] = [Idle EXCEPT !.at = "idle"]]
           /\ db'.page = db.page /\ Entities' = Entities /\ db'.mention = db.mention
           /\ DOMAIN db'.merges = DOMAIN db.merges /\ Len(db'.merges) = Len(db.merges)
           /\ \A k \in DOMAIN db.merges :
                 /\ db'.merges[k].source = db.merges[k].source /\ db'.merges[k].target = db.merges[k].target
                 /\ db'.merges[k].mentions = db.merges[k].mentions
                 /\ db'.merges[k].undone <=> db.merges[k].undone \/ k = client[c].merge
<1> DEFINE u == client[c]
           s == u.source
           t == u.target
           j == u.merge
           r == [Idle EXCEPT !.at = "idle"]
           b == [db EXCEPT !.merges[j].undone = TRUE]
           d == Counted(Recomputed(b, t), {s, t})
           ms == [db.merges EXCEPT ![j].undone = TRUE]
<1>1. /\ j \in DOMAIN db.merges /\ u.at = "mentions" /\ u.todo = {} /\ Undoing(c)
  BY RequestIs DEF UndoFinish, Undoes, Undoing
<1>2. /\ worker' = worker /\ crossed' = crossed /\ used' = used
      /\ db' = d /\ disk' = d /\ client' = [client EXCEPT ![c] = r]
  BY DEF UndoFinish, history, Commits, UndoEnds
<1>3. /\ ms \in Seq(MergeRow) /\ DOMAIN ms = DOMAIN db.merges /\ Len(ms) = Len(db.merges)
      /\ \A k \in DOMAIN db.merges :
            /\ ms[k].source = db.merges[k].source /\ ms[k].target = db.merges[k].target
            /\ ms[k].mentions = db.merges[k].mentions
            /\ ms[k].undone <=> db.merges[k].undone \/ k = j
  <2>1. db.merges \in Seq(MergeRow)
    BY DEF EntityInv, Fits
  <2>2. \A k \in DOMAIN db.merges : db.merges[k] \in MergeRow
    BY <2>1
  <2>3. [db.merges[j] EXCEPT !.undone = TRUE] \in MergeRow
    BY <1>1, <2>2 DEF MergeRow
  <2>4. ms \in Seq(MergeRow) /\ DOMAIN ms = DOMAIN db.merges /\ Len(ms) = Len(db.merges)
    BY <1>1, <2>1, <2>3
  <2>5. \A k \in DOMAIN db.merges : ms[k] = IF k = j THEN [db.merges[j] EXCEPT !.undone = TRUE] ELSE db.merges[k]
    BY <1>1, <2>1
  <2> HIDE DEF ms
  <2>6. /\ [db.merges[j] EXCEPT !.undone = TRUE].source = db.merges[j].source
        /\ [db.merges[j] EXCEPT !.undone = TRUE].target = db.merges[j].target
        /\ [db.merges[j] EXCEPT !.undone = TRUE].mentions = db.merges[j].mentions
        /\ [db.merges[j] EXCEPT !.undone = TRUE].undone = TRUE
    BY <1>1, <2>2 DEF MergeRow
  <2> QED
    BY <2>4, <2>5, <2>6
<1>4. b = [page |-> db.page, entity |-> db.entity, alias |-> db.alias,
           mention |-> db.mention, merges |-> ms]
  BY WithMerges DEF EntityInv
<1> HIDE DEF b, ms
<1>5. Fits(b)
  BY <1>3, <1>4 DEF EntityInv, Fits
<1>6. Fits(Recomputed(b, t)) /\ SameRows(Recomputed(b, t), b)
  BY <1>5, RecomputedKeeps
<1>7. Fits(d) /\ SameRows(d, Recomputed(b, t))
  BY <1>6, CountedKeeps
<1> HIDE DEF d
<1>8. /\ db'.page = db.page /\ Entities' = Entities /\ db'.mention = db.mention
      /\ DOMAIN db'.merges = DOMAIN db.merges /\ Len(db'.merges) = Len(db.merges)
      /\ \A k \in DOMAIN db.merges :
            /\ db'.merges[k].source = db.merges[k].source /\ db'.merges[k].target = db.merges[k].target
            /\ db'.merges[k].mentions = db.merges[k].mentions
            /\ db'.merges[k].undone <=> db.merges[k].undone \/ k = j
  BY <1>2, <1>3, <1>4, <1>6, <1>7 DEF SameRows, Entities
<1> QED
  BY <1>1, <1>2, <1>8

\* The row of an undo that is over is out of the way: what followed it has what
\* the undo has given back.
LEMMA UndoFinishRestores ==
    ASSUME EntityInv, EntityInv', RestoreInv, NEW c \in Clients, UndoFinish(c)
    PROVE  RestoreInv'
<1> DEFINE u == client[c]
           s == u.source
           t == u.target
           j == u.merge
           r == [Idle EXCEPT !.at = "idle"]
<1>1. /\ j \in DOMAIN db.merges /\ u.at = "mentions" /\ u.todo = {} /\ Undoing(c)
      /\ s = db.merges[j].source /\ t = db.merges[j].target
  BY RequestIs DEF UndoFinish, Undoes, Undoing, RestoreInv, Requests
<1>2. /\ worker' = worker /\ crossed' = crossed /\ used' = used
      /\ disk' = db' /\ client' = [client EXCEPT ![c] = r]
  BY UndoFinishIs
<1>3. /\ db'.page = db.page /\ Entities' = Entities /\ db'.mention = db.mention
      /\ DOMAIN db'.merges = DOMAIN db.merges /\ Len(db'.merges) = Len(db.merges)
      /\ \A k \in DOMAIN db.merges :
            /\ db'.merges[k].source = db.merges[k].source /\ db'.merges[k].target = db.merges[k].target
            /\ db'.merges[k].mentions = db.merges[k].mentions
            /\ db'.merges[k].undone <=> db.merges[k].undone \/ k = j
  BY UndoFinishIs
<1>4. r.at = "idle"
  BY DEF Idle
<1> HIDE DEF r
<1>5. client'[c].at = "idle" /\ \A o \in Clients \ {c} : client'[o] = client[o]
  BY <1>2, <1>4, RequestBecomes
<1>6. /\ \A o \in Clients : PastInsert(o)' <=> PastInsert(o) /\ o # c
      /\ \A o \in Clients : Undoing(o)' <=> Undoing(o) /\ o # c
      /\ Merging' = Merging /\ S' = S /\ T' = T
  BY <1>2, <1>5 DEF PastInsert, Undoing, Merging, S, T
<1>7. \A i : ActiveRow(db', i) <=> ActiveRow(db, i) /\ i # j
  BY <1>3 DEF ActiveRow
<1>8. UndoCrossed(c) \/ (Restoring(c) /\ s \in Entities)
  BY <1>1, PastInsertHas DEF PastInsert
<1>9. \A i \in DOMAIN db.merges : Newer(i)' => Newer(i)
  BY <1>3 DEF Newer
<1>10. DbGood'
  <2>1. /\ Sharing' = Sharing /\ Exempt \subseteq Exempt' \union {j}
        /\ InUse \subseteq InUse' \union {j}
    BY <1>2, <1>3, <1>5, <1>6 DEF Sharing, Exempt, InUse
  <2>2. Apart(db', crossed', Sharing')
    BY <1>2, <1>3, <2>1 DEF RestoreInv, DbGood, Good, Apart, MentionsOf, Entities
  <2>3. TargetsHave(db', crossed', Exempt')
    <3> SUFFICES ASSUME NEW i \in DOMAIN db.merges, ActiveRow(db, i), i # j,
                        db.merges[i].target \notin crossed, i \notin Exempt
                 PROVE  Settled(db', i)
      BY <1>2, <1>3, <1>7, <2>1 DEF TargetsHave
    <3>1. Settled(db, i)
      BY DEF RestoreInv, DbGood, Good, TargetsHave
    <3>2. CASE Has(db, db.merges[i].target, db.merges[i].mentions)
      BY <1>3, <3>2 DEF Settled, Has
    <3>3. ASSUME NEW k \in DOMAIN db.merges, Follows(db, i, k)
          PROVE  Settled(db', i)
      <4>1. CASE k # j
        <5>1. Follows(db', i, k)
          BY <1>3, <1>7, <3>3, <4>1 DEF Follows, Within
        <5> QED
          BY <1>3, <5>1 DEF Settled
      <4>2. CASE k = j
        <5>1. Restoring(c) /\ s = db.merges[i].target
          BY <1>1, <1>8, <3>3, <4>2 DEF Follows, UndoCrossed
        <5>2. \A p \in db.merges[j].mentions : p[1] \in db.page => Row(p, s) \in db.mention
          BY <1>1, <5>1 DEF Restoring
        <5>3. Has(db', db'.merges[i].target, db'.merges[i].mentions)
          BY <1>3, <3>3, <4>2, <5>1, <5>2 DEF Has, Follows, Within
        <5> QED
          BY <5>3 DEF Settled
      <4> QED
        BY <4>1, <4>2
    <3> QED
      BY <3>1, <3>2, <3>3 DEF Settled
  <2>4. SourcesGone(db', crossed', InUse')
    BY <1>2, <1>3, <1>7, <2>1 DEF RestoreInv, DbGood, Good, SourcesGone, Entities
  <2>5. RowsApart(db', crossed')
    BY <1>2, <1>3, <1>7 DEF RestoreInv, DbGood, Good, RowsApart, Beside
  <2> QED
    BY <2>2, <2>3, <2>4, <2>5 DEF DbGood, Good
<1>11. Flight'
  <2>1. Merging => S \in crossed /\ Len(db.merges) \in Nat /\ DOMAIN db.merges = 1..Len(db.merges)
    BY <1>1, RowsTyped DEF RestoreInv, Flight
  <2>2. worker.at \in {"log"} \union Copying \union Dropping => Merging
    BY MergingIs DEF Copying, Dropping, MergeSteps
  <2>3. \A o \in Clients : UndoCrossed(o)' <=> IF o = c THEN UndoCrossed(c)' ELSE UndoCrossed(o)
    BY <1>2, <1>5 DEF UndoCrossed
  <2>4. worker.at \in Copying \union Dropping =>
            /\ Len(db.merges) > 0 /\ Len(db.merges) \in DOMAIN db.merges
            /\ db.merges[Len(db.merges)].source = S /\ db.merges[Len(db.merges)].target = T
    BY <2>1, <2>2 DEF RestoreInv, Flight
  <2>5. /\ Merging => \A o \in Clients : Undoing(o) => UndoCrossed(o) /\ S \in crossed /\ T \in crossed
        /\ Merging /\ S \in crossed => T \in crossed
    BY DEF RestoreInv, Flight
  <2> QED
    BY <1>2, <1>3, <1>6, <2>1, <2>2, <2>3, <2>4, <2>5 DEF Flight
<1>12. Requests'
  <2> SUFFICES ASSUME NEW o \in Clients \ {c}, Undoing(o)
               PROVE  /\ client[o].target = db'.merges[client[o].merge].target
                      /\ client[o].todo \subseteq db'.merges[client[o].merge].mentions
                      /\ UndoCrossed(o)' \/ TooLate(o)' \/ Restoring(o)'
    BY <1>5, <1>6 DEF Requests
  <2>1. client[o].merge \in DOMAIN db.merges /\ client[o].source = db.merges[client[o].merge].source
    BY UndoFacts
  <2>2. CASE UndoCrossed(o) \/ TooLate(o)
    BY <1>2, <1>3, <1>5, <2>1, <2>2 DEF RestoreInv, Requests, UndoCrossed, TooLate
  <2>3. CASE Restoring(o) /\ client[o].merge = j
    <3>1. client[o].source = s /\ Restoring(c) /\ s \in Entities
      BY <1>1, <1>8, <2>1, <2>3 DEF UndoCrossed, Restoring
    <3>2. ~ PastInsert(o)
      BY <1>1, <3>1 DEF Restoring, PastInsert
    <3>3. TooLate(o)'
      BY <1>3, <1>5, <2>1, <2>3, <3>1, <3>2 DEF TooLate, PastInsert, Undoing
    <3> QED
      BY <1>3, <2>1, <3>3 DEF RestoreInv, Requests
  <2>4. CASE Restoring(o) /\ client[o].merge # j
    <3>1. /\ client'[o] = client[o] /\ client[o].source \notin crossed' /\ client[o].target \notin crossed'
          /\ ~db'.merges[client[o].merge].undone
          /\ db'.merges[client[o].merge].mentions = db.merges[client[o].merge].mentions
      <4>1. ~ db.merges[client[o].merge].undone /\ client[o].source \notin crossed /\ client[o].target \notin crossed
        BY <2>4 DEF Restoring
      <4>2. client'[o] = client[o]
        BY <1>5
      <4>3. ~ db'.merges[client[o].merge].undone /\ db'.merges[client[o].merge].mentions = db.merges[client[o].merge].mentions
        BY <1>3, <2>1, <2>4, <4>1
      <4> QED
        BY <1>2, <4>1, <4>2, <4>3
    <3>2. Newer(client[o].merge)' => Newer(client[o].merge)
      BY <1>5, <1>9, <2>1
    <3>3. PastInsert(o) => /\ client[o].source \in Entities'
                           /\ \A k \in Clients \ {o} : PastInsert(k)' => client'[k].source # client[o].source
      <4>1. \A k \in Clients : PastInsert(k)' => PastInsert(k) /\ client'[k] = client[k]
        BY <1>5, <1>6
      <4> QED
        BY <1>3, <2>4, <4>1 DEF Restoring
    <3>4. Restoring(o)'
      BY <1>3, <2>4, <3>1, <3>2, <3>3, RestoringStays
    <3> QED
      BY <1>3, <2>1, <3>4 DEF RestoreInv, Requests
  <2> QED
    BY <2>2, <2>3, <2>4 DEF RestoreInv, Requests
<1>13. DiskGood'
  BY <1>2, <1>10, <1>11, <1>12, CommittedIsGood
<1>14. Numbers'
  <2>1. /\ \A e \in Entities' \union DOMAIN disk'.entity : e <= used'.ids
        /\ \A i \in DOMAIN db'.merges : db'.merges[i].source <= used'.ids
    BY <1>2, <1>3 DEF RestoreInv, Numbers, Entities
  <2>2. Len(db'.merges) \in Nat
    BY <1>3, RowsTyped
  <2> QED
    BY <1>2, <2>1, <2>2 DEF Numbers
<1> QED
  BY <1>10, <1>11, <1>12, <1>13, <1>14 DEF RestoreInv

\* What goes with a page is asked for no more.
LEMMA PurgeRestores ==
    ASSUME EntityInv, EntityInv', RestoreInv, NEW p \in Pages, Purge(p)
    PROVE  RestoreInv'
<1> DEFINE rows == {r \in db.mention : r[1] # p}
           d == [db EXCEPT !.page = @ \ {p}, !.mention = {r \in @ : r[1] # p}]
<1>1. /\ worker' = worker /\ client' = client /\ crossed' = crossed
      /\ db' = d /\ disk' = d
  BY DEF Purge, history, Commits
<1>2. d = [page |-> db.page \ {p}, entity |-> db.entity, alias |-> db.alias,
           mention |-> rows, merges |-> db.merges]
  BY WithoutPage DEF EntityInv
<1> HIDE DEF d
<1>3. used'.ids = used.ids
  BY DEF Purge, Trouble, Use, EntityInv, Typed
<1>4. /\ db'.page = db.page \ {p} /\ db'.merges = db.merges /\ db'.entity = db.entity
      /\ Entities' = Entities
      /\ \A n, e : Row(n, e) \in db'.mention <=> Row(n, e) \in db.mention /\ n[1] # p
  BY <1>1, <1>2 DEF Row, Entities
<1> HIDE DEF rows
<1>5. /\ Merging' = Merging /\ S' = S /\ T' = T /\ Sharing' = Sharing
      /\ Exempt' = Exempt /\ InUse' = InUse
      /\ \A i : Newer(i)' <=> Newer(i)
  BY <1>1, <1>4 DEF Merging, S, T, Sharing, Exempt, InUse, PastInsert, Newer
<1>6. \A i : ActiveRow(db', i) <=> ActiveRow(db, i)
  BY <1>4 DEF ActiveRow
<1>7. /\ \A e, M : Has(db, e, M) => Has(db', e, M)
      /\ \A i, k : Within(db, i, k) => Within(db', i, k)
      /\ \A i, k : Beside(db, i, k) => Beside(db', i, k)
  BY <1>4 DEF Has, Within, Beside
<1>8. DbGood'
  <2>1. Apart(db', crossed, Sharing)
    BY <1>4 DEF RestoreInv, DbGood, Good, Apart, MentionsOf, Entities
  <2>2. TargetsHave(db', crossed, Exempt)
    <3>1. \A i \in DOMAIN db.merges : Settled(db, i) => Settled(db', i)
      BY <1>4, <1>6, <1>7 DEF Settled, Follows
    <3> QED
      BY <1>4, <1>6, <3>1 DEF RestoreInv, DbGood, Good, TargetsHave
  <2>3. SourcesGone(db', crossed, InUse)
    BY <1>4, <1>6 DEF RestoreInv, DbGood, Good, SourcesGone
  <2>4. RowsApart(db', crossed)
    BY <1>4, <1>6, <1>7 DEF RestoreInv, DbGood, Good, RowsApart
  <2> QED
    BY <1>1, <1>5, <2>1, <2>2, <2>3, <2>4 DEF DbGood, Good
<1>9. Flight'
  <2>1. \A e : MentionsOf(db', e) \subseteq MentionsOf(db, e)
    BY <1>4 DEF MentionsOf
  <2>2. \A c \in Clients : Undoing(c)' = Undoing(c) /\ UndoCrossed(c)' = UndoCrossed(c)
    BY <1>1 DEF Undoing, UndoCrossed
  <2> QED
    BY <1>1, <1>4, <1>5, <1>6, <1>7, <2>1, <2>2 DEF RestoreInv, Flight
<1>10. Requests'
  <2> SUFFICES ASSUME NEW o \in Clients, Undoing(o)
               PROVE  /\ client[o].target = db'.merges[client[o].merge].target
                      /\ client[o].todo \subseteq db'.merges[client[o].merge].mentions
                      /\ UndoCrossed(o)' \/ TooLate(o)' \/ Restoring(o)'
    BY <1>1 DEF Requests, Undoing
  <2>1. CASE UndoCrossed(o) \/ TooLate(o)
    BY <1>1, <1>4, <2>1 DEF RestoreInv, Requests, UndoCrossed, TooLate
  <2>2. CASE Restoring(o)
    <3>1. Restoring(o)'
      BY <1>1, <1>4, <1>5, <2>2 DEF Restoring, PastInsert
    <3> QED
      BY <1>4, <3>1 DEF RestoreInv, Requests
  <2> QED
    BY <2>1, <2>2 DEF RestoreInv, Requests
<1>11. DiskGood'
  BY <1>1, <1>8, <1>9, <1>10, CommittedIsGood
<1>12. Numbers'
  BY <1>1, <1>3, <1>4, NumbersKeep DEF RestoreInv, Numbers, EntityInv, Typed
<1> QED
  BY <1>8, <1>9, <1>10, <1>11, <1>12 DEF RestoreInv

\* A merge that is cut off leaves its entities crossed, and so does a crash with
\* what it cuts off.
LEMMA CancelRestores ==
    ASSUME EntityInv, EntityInv', RestoreInv, Cancel
    PROVE  RestoreInv'
<1>1. /\ worker # Idle /\ worker' = Idle /\ db' = db /\ disk' = db /\ client' = client
      /\ crossed' = crossed \union Merged
  BY DEF Cancel, Commits
<1>2. used'.ids = used.ids
  BY DEF Cancel, Trouble, Use, EntityInv, Typed
<1>3. ~ Merging' /\ worker'.at = "idle" /\ Sharing' = {} /\ Entities' = Entities
  BY <1>1 DEF Merging, Idle, Sharing, Dropping, Entities
<1>4. /\ \A o \in Clients : PastInsert(o)' = PastInsert(o) /\ Undoing(o)' = Undoing(o)
      /\ \A i : Newer(i)' <=> Newer(i)
  BY <1>1 DEF PastInsert, Undoing, Newer
<1>5. worker.at \in Copying \union Dropping =>
         /\ S \in crossed' /\ T \in crossed'
         /\ db.merges[Len(db.merges)].source = S /\ db.merges[Len(db.merges)].target = T
  BY <1>1, MergingIs DEF Merged, S, T, Copying, Dropping, MergeSteps, RestoreInv, Flight
<1>6. DbGood'
  <2>1. crossed \subseteq crossed' /\ SameTables(db, db)
    BY <1>1 DEF SameTables
  <2>2. Sharing \subseteq crossed'
    BY <1>5 DEF Sharing
  <2>3. \A i \in Exempt : i \in Exempt' \/ db.merges[i].target \in crossed'
    BY <1>1, <1>5 DEF Exempt
  <2>4. \A i \in InUse : i \in InUse' \/ db.merges[i].source \in crossed'
    BY <1>1, <1>4, <1>5 DEF InUse
  <2>5. Good(db, crossed, Sharing, Exempt, InUse)
    BY DEF RestoreInv, DbGood
  <2>6. Good(db, crossed', Sharing', Exempt', InUse')
    BY <2>1, <2>2, <2>3, <2>4, <2>5, GoodGrows
  <2> QED
    BY <1>1, <2>6 DEF DbGood
<1>7. Flight'
  BY <1>3 DEF Flight, Copying, Dropping
<1>8. Requests'
  <2> SUFFICES ASSUME NEW o \in Clients, Undoing(o)
               PROVE  UndoCrossed(o)' \/ TooLate(o)' \/ Restoring(o)'
    BY <1>1, <1>4 DEF RestoreInv, Requests
  <2>1. CASE UndoCrossed(o)
    BY <1>1, <2>1 DEF UndoCrossed
  <2>2. CASE ~ UndoCrossed(o)
    <3>1. ~ Merging
      BY <2>2 DEF RestoreInv, Flight
    <3>2. crossed' = crossed
      BY <1>1, <3>1 DEF Merged
    <3>3. TooLate(o) \/ Restoring(o)
      BY <2>2 DEF RestoreInv, Requests
    <3> QED
      BY <1>1, <1>3, <1>4, <3>2, <3>3 DEF TooLate, Restoring
  <2> QED
    BY <2>1, <2>2
<1>9. DiskGood'
  BY <1>1, <1>6, <1>7, <1>8, CommittedIsGood
<1>10. Numbers'
  BY <1>1, <1>2, <1>3, NumbersKeep DEF RestoreInv, Numbers, EntityInv, Typed
<1> QED
  BY <1>6, <1>7, <1>8, <1>9, <1>10 DEF RestoreInv

\* A crash falls back to what was committed.
LEMMA CrashRestores ==
    ASSUME EntityInv, EntityInv', RestoreInv, Crash
    PROVE  RestoreInv'
<1>1. /\ worker' = Idle /\ client' = [c \in Clients |-> Idle] /\ db' = disk /\ disk' = disk
      /\ crossed' = crossed \union Merged \union Undone
  BY DEF Crash
<1>2. used'.ids = used.ids
  BY DEF Crash, Trouble, Use, EntityInv, Typed
<1>3. /\ ~ Merging' /\ worker'.at = "idle" /\ Sharing' = {}
      /\ \A c \in Clients : client'[c].at = "idle"
  BY <1>1 DEF Merging, Idle, Sharing, Dropping
<1>4. \A c \in Clients : ~ Undoing(c)' /\ ~ PastInsert(c)'
  BY <1>3 DEF Undoing, PastInsert
<1>5. Exempt' = {} /\ InUse' = {}
  BY <1>3, <1>4 DEF Exempt, InUse, Copying, Dropping
<1>6. crossed \union Busy \subseteq crossed'
  <2>1. ASSUME NEW c \in Clients, PastInsert(c)
        PROVE  client[c].source \in Undone /\ client[c].target \in Undone
    BY <2>1 DEF Undone, Undoing, PastInsert
  <2> QED
    BY <1>1, <2>1 DEF Busy
<1>7. Good(disk, crossed', {}, {}, {})
  <2>1. SameTables(disk, disk)
    BY DEF SameTables
  <2>2. Good(disk, crossed \union Busy, {}, {}, {})
    BY DEF RestoreInv, DiskGood
  <2> DEFINE X == crossed \union Busy
  <2>3. X \subseteq crossed' /\ Good(disk, X, {}, {}, {})
    BY <1>6, <2>2
  <2> HIDE DEF X
  <2> QED
    BY <2>1, <2>3, GoodGrows
<1>8. DbGood'
  BY <1>1, <1>3, <1>5, <1>7 DEF DbGood
<1>9. Flight'
  BY <1>3 DEF Flight, Copying, Dropping
<1>10. Requests'
  BY <1>4 DEF Requests
<1>11. DiskGood'
  <2>1. crossed' \subseteq crossed' \union Busy' /\ SameTables(disk, disk)
    BY DEF SameTables
  <2> DEFINE X == crossed' \union Busy'
  <2>2. crossed' \subseteq X
    OBVIOUS
  <2> HIDE DEF X
  <2>3. Good(disk, X, {}, {}, {})
    BY <1>7, <2>1, <2>2, GoodGrows
  <2> QED
    BY <1>1, <2>3 DEF DiskGood, X
<1>12. Numbers'
  <2>1. \A i \in DOMAIN disk.merges : disk.merges[i].source <= used.ids
    <3>1. Len(disk.merges) \in Nat /\ DOMAIN disk.merges = 1..Len(disk.merges)
      BY DEF EntityInv, Fits
    <3>2. \A i \in DOMAIN disk.merges : i \in DOMAIN db.merges
      BY <3>1, RowsTyped DEF RestoreInv, Numbers
    <3> QED
      BY <3>2 DEF RestoreInv, Numbers
  <2>2. Len(disk.merges) \in Nat
    BY DEF EntityInv, Fits
  <2> QED
    BY <1>1, <1>2, <2>1, <2>2 DEF RestoreInv, Numbers, Entities
<1> QED
  BY <1>8, <1>9, <1>10, <1>11, <1>12 DEF RestoreInv

-----------------------------------------------------------------------------
\* At first there is nothing to restore.
LEMMA RestoreInvInit == Init => RestoreInv
<1> SUFFICES ASSUME Init PROVE RestoreInv
  OBVIOUS
<1>1. /\ db.merges = <<>> /\ disk = db /\ DOMAIN db.entity = {} /\ db.page = Pages
      /\ worker = Idle /\ client = [c \in Clients |-> Idle]
  BY DEF Init
<1>2. DOMAIN db.merges = {} /\ Len(db.merges) = 0
  BY <1>1
<1>3. \A c \in Clients : ~ Undoing(c)
  BY <1>1 DEF Undoing, Idle
<1>4. ~ Merging /\ worker.at = "idle"
  BY <1>1 DEF Merging, Idle
<1>5. \A X, Y, E, U : Good(db, X, Y, E, U)
  BY <1>1, <1>2 DEF Good, Apart, TargetsHave, SourcesGone, RowsApart
<1>6. DbGood /\ DiskGood
  BY <1>1, <1>5 DEF DbGood, DiskGood
<1>7. Flight /\ Requests
  BY <1>3, <1>4 DEF Flight, Requests, Copying, Dropping
<1>8. Numbers
  BY <1>1, <1>2 DEF Numbers, Entities
<1> QED
  BY <1>6, <1>7, <1>8 DEF RestoreInv

\* Every step keeps it.
LEMMA RestoreInvStep == EntityInv /\ RestoreInv /\ [Next]_vars => RestoreInv'
<1> SUFFICES ASSUME EntityInv, RestoreInv, [Next]_vars PROVE RestoreInv'
  OBVIOUS
<1>1. EntityInv'
  BY EntityInvStep
<1>2. CASE Link
  BY <1>1, <1>2, QuietSteps, CreateEntityRestores, AddMentionsRestores DEF Link
<1>3. CASE Canonicalize
  BY <1>1, <1>3, QuietSteps, MergeReadRestores, MergeLogRestores, AliasStepsRestore,
     CopyMentionsRestores, DropsRestore, FinishMergeRestores DEF Canonicalize
<1>4. CASE UndoRequest
  BY <1>1, <1>4, UndoCheckRestores, UndoInsertRestores, UndoAliasesRestores,
     UndoMentionRestores, UndoFinishRestores DEF UndoRequest
<1>5. CASE \E p \in Pages : Purge(p)
  BY <1>1, <1>5, PurgeRestores
<1>6. CASE Cancel \/ Crash
  BY <1>1, <1>6, CancelRestores, CrashRestores
<1>7. CASE UNCHANGED vars
  <2>1. db' = db /\ disk' = disk /\ worker' = worker /\ client' = client /\ crossed' = crossed /\ used' = used
    BY <1>7 DEF vars, history
  <2>2. /\ Merging' = Merging /\ S' = S /\ T' = T /\ Sharing' = Sharing /\ Exempt' = Exempt
        /\ InUse' = InUse /\ Busy' = Busy /\ Entities' = Entities
        /\ \A i : Newer(i)' <=> Newer(i)
    BY <2>1 DEF Merging, S, T, Sharing, Exempt, InUse, Busy, Merged, PastInsert, Entities, Newer
  <2>3. DbGood' /\ DiskGood'
    BY <2>1, <2>2 DEF RestoreInv, DbGood, DiskGood
  <2>4. Flight'
    BY <2>1, <2>2 DEF RestoreInv, Flight, Undoing, UndoCrossed
  <2>5. Requests'
    BY <2>1, <2>2 DEF RestoreInv, Requests, Undoing, UndoCrossed, TooLate, Restoring, PastInsert
  <2>6. Numbers'
    BY <2>1, <2>2 DEF RestoreInv, Numbers
  <2> QED
    BY <2>3, <2>4, <2>5, <2>6 DEF RestoreInv
<1> QED
  BY <1>2, <1>3, <1>4, <1>5, <1>6, <1>7 DEF Next

\* Between merges, the rows of the log change when an undo is over, and no other
\* step or loss takes or adds one.
LEMMA RowsStay ==
    ASSUME EntityInv, RestoreInv, ~ Merging, [Next]_vars,
           \A c \in Clients : ~ UndoFinish(c)
    PROVE  \A i \in DOMAIN db.merges : db'.merges[i] = db.merges[i]
<1>1. worker.at \notin MergeSteps
  BY MergingIs
<1>2. Fits(db)
  BY DEF EntityInv
<1>3. CASE Link
  <2>1. CASE AddMentions
    <3> DEFINE x == db.mention \union {<<worker.page, l[1], l[2]>> : l \in worker.links}
    <3>1. CASE db' = Counted([db EXCEPT !.mention = x], {l[2] : l \in worker.links})
      <4>1. [db EXCEPT !.mention = x] = [page |-> db.page, entity |-> db.entity, alias |-> db.alias,
                                         mention |-> x, merges |-> db.merges]
        BY <1>2, WithMention
      <4> HIDE DEF x
      <4>2. db'.merges = db.merges
        BY <3>1, <4>1 DEF Counted
      <4> QED
        BY <4>2
    <3> QED
      BY <2>1, <3>1 DEF AddMentions, Commits
  <2>2. CASE CreateEntity
    <3> DEFINE e == used.ids + 1
               i == Inserted(db, e, Form)
    <3>1. CASE db' = [i EXCEPT !.alias = @ \union {<<Form, e>>}]
      <4>1. i.merges = db.merges /\ DOMAIN i = DOMAIN db /\ "merges" \in DOMAIN db
        BY <1>2 DEF Inserted, Fits
      <4> HIDE DEF i
      <4> QED
        BY <3>1, <4>1
    <3> QED
      BY <2>2, <3>1 DEF CreateEntity, Commits
  <2>3. CASE AddAlias
    BY <1>2, <2>3, WithAlias DEF AddAlias, Commits
  <2>4. CASE (\E p \in Pages : BeginLink(p)) \/ FindAlias \/ MatchBlock
    BY <2>4 DEF BeginLink, FindAlias, MatchBlock
  <2> QED
    BY <1>3, <2>1, <2>2, <2>3, <2>4 DEF Link
<1>4. CASE Canonicalize
  <2>1. ~ (MergeLog \/ MoveAliases \/ DropAliases \/ CopyMentions \/ DropMentions \/ DropEntity \/ FinishMerge)
    BY <1>1 DEF MergeLog, MoveAliases, DropAliases, CopyMentions, DropMentions, DropEntity,
                FinishMerge, At, MergeSteps
  <2>2. db' = db
    BY <1>4, <2>1 DEF Canonicalize, ReadBlock, MergeRead
  <2> QED
    BY <2>2
<1>5. CASE UndoRequest
  <2>1. PICK c \in Clients : \/ \E i \in DOMAIN db.merges : UndoCheck(c, i)
                             \/ UndoInsert(c) \/ UndoAliases(c) \/ UndoMention(c)
    BY <1>5 DEF UndoRequest
  <2>2. CASE \E i \in DOMAIN db.merges : UndoCheck(c, i)
    BY <2>2 DEF UndoCheck, Undo
  <2>3. CASE UndoInsert(c)
    BY <1>2, <2>3 DEF UndoInsert, Writes, Inserted, Fits
  <2>4. CASE UndoAliases(c)
    BY <1>2, <2>4, WithAlias DEF UndoAliases, Writes
  <2>5. CASE UndoMention(c)
    <3>1. \A x : [db EXCEPT !.mention = x].merges = db.merges
      BY <1>2, WithMention
    <3> QED
      BY <2>5, <3>1 DEF UndoMention, Writes
  <2> QED
    BY <2>1, <2>2, <2>3, <2>4, <2>5
<1>6. CASE \E p \in Pages : Purge(p)
  BY <1>2, <1>6, WithoutPage DEF Purge, Commits
<1>7. CASE Cancel
  BY <1>7 DEF Cancel, Commits
<1>8. CASE Crash
  <2>1. db' = disk /\ Len(disk.merges) = Len(db.merges)
        /\ \A i \in DOMAIN disk.merges : disk.merges[i] = db.merges[i]
    BY <1>8 DEF Crash, RestoreInv, Numbers
  <2>2. DOMAIN disk.merges = 1..Len(disk.merges) /\ DOMAIN db.merges = 1..Len(db.merges)
    BY DEF EntityInv, Fits
  <2> QED
    BY <2>1, <2>2
<1>9. CASE UNCHANGED vars
  BY <1>9 DEF vars
<1> QED
  BY <1>3, <1>4, <1>5, <1>6, <1>7, <1>8, <1>9 DEF Next

\* Whatever runs beside it, an undo that succeeds gives the entity back every
\* mention it had when it was merged and whose page is still there, unless its
\* entities are crossed: of a merge and an undo at once, or of one that was cut
\* off (sqlite_store.py:538-605).
THEOREM MergesAreUndone == Spec => UndoRestores
<1> DEFINE Gives(c) ==
      LET u == client[c] IN
      Undoing(c) /\ {u.source, u.target} \cap crossed = {}
      /\ ~db.merges[u.merge].undone /\ db'.merges[u.merge].undone =>
          \A m \in db.merges[u.merge].mentions : m[1] \in db.page => Row(m, u.source) \in db'.mention
<1>1. EntityInv /\ RestoreInv /\ [Next]_vars => \A c \in Clients : Gives(c)
  <2> SUFFICES ASSUME EntityInv, RestoreInv, [Next]_vars, NEW c \in Clients, Undoing(c),
                      client[c].source \notin crossed, client[c].target \notin crossed,
                      ~ db.merges[client[c].merge].undone, db'.merges[client[c].merge].undone,
                      NEW m \in db.merges[client[c].merge].mentions, m[1] \in db.page
               PROVE  Row(m, client[c].source) \in db'.mention
    OBVIOUS
  <2>1. /\ client[c].merge \in DOMAIN db.merges
        /\ client[c].source = db.merges[client[c].merge].source
    BY UndoFacts
  <2>2. ~ Merging
    BY DEF RestoreInv, Flight, UndoCrossed
  <2>3. PICK k \in Clients : UndoFinish(k)
    BY <2>1, <2>2, RowsStay
  <2>4. /\ client[k].merge = client[c].merge /\ client[k].todo = {} /\ Undoing(k)
        /\ client[k].at = "mentions" /\ db'.mention = db.mention
    BY <2>1, <2>3, UndoFinishIs
  <2>5. client[k].source = client[c].source
    BY <2>1, <2>4, UndoFacts
  <2>6. Restoring(k)
    BY <2>4, <2>5, PastInsertHas DEF PastInsert, UndoCrossed
  <2> QED
    BY <2>4, <2>5, <2>6 DEF Restoring
<1>2. EntityInv /\ RestoreInv /\ [Next]_vars => (EntityInv /\ RestoreInv)'
  BY EntityInvStep, RestoreInvStep
<1>3. [\A c \in Clients : Gives(c)]_vars => 
        [\A c \in Clients :
         LET u == client[c] IN
         Undoing(c) /\ {u.source, u.target} \cap crossed = {} /\ ~db.merges[u.merge].undone /\ db'.merges[u.merge].undone =>
            \A m \in db.merges[u.merge].mentions :
                m[1] \in db.page => Row(m, u.source) \in db'.mention]_vars
  OBVIOUS
<1> QED
  BY EntityInvInit, RestoreInvInit, <1>1, <1>2, <1>3, PTL DEF Spec, UndoRestores
=============================================================================

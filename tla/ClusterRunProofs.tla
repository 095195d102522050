-------------------------- MODULE ClusterRunProofs --------------------------
(***************************************************************************)
(* Theorems about ClusterRun, for every number of pages, of requests and   *)
(* of troubles.  The invariant follows a run: which clusters its parts are *)
(* given, what is written of them and what is left of the old ones, and    *)
(* what the lineage owes meanwhile.  It needs nothing of the fit but that  *)
(* its parts are disjoint, and of the matching but that it pairs.  That    *)
(* ids are stable needs what the matching maximizes as well, so its sums   *)
(* are reasoned about in the second half.                                  *)
(***************************************************************************)
EXTENDS ClusterRun, FiniteSetTheorems, WellFoundedInduction, TLAPS

Rows == [members : SUBSET Pages, live : BOOLEAN]
RunPlaces == {"persist", "members", "tombstone", "lineage", "projection", "finalize", "chain"}
InRun == worker.at \in RunPlaces

\* What holds between the record of a run and the rows of the clusters.
RunTyped(w, rows) ==
    /\ w = [at |-> w.at, job |-> w.job, input |-> w.input, heir |-> w.heir, old |-> w.old,
            todo |-> w.todo, part |-> w.part, gone |-> w.gone]
    /\ DOMAIN w.heir \subseteq SUBSET Pages /\ {} \notin DOMAIN w.heir
    /\ \A p, q \in DOMAIN w.heir : p # q => p \cap q = {}
    /\ w.heir \in [DOMAIN w.heir -> DOMAIN rows \union {NoHeir}]
    /\ DOMAIN w.old \subseteq DOMAIN rows
    /\ w.todo \subseteq DOMAIN w.heir
    /\ w.gone = {c \in DOMAIN w.old : w.old[c] # {} /\ \A p \in DOMAIN w.heir : w.heir[p] # c}

Places(w) ==
    /\ w.at = "persist" => w.todo # {}
    /\ w.at \notin {"persist", "members"} => w.todo = {}
    /\ w.at = "members" => w.part \in DOMAIN w.heir \ w.todo

\* A part that is to be written has an old cluster or none, one that is written
\* has a cluster of its own.
Heirs(w, rows) ==
    /\ \A p \in w.todo : w.heir[p] \in DOMAIN w.old \union {NoHeir}
    /\ \A p \in DOMAIN w.heir \ w.todo : w.heir[p] # NoHeir /\ rows[w.heir[p]].live
    /\ \A p, q \in DOMAIN w.heir : w.heir[p] = w.heir[q] /\ w.heir[p] # NoHeir => p = q

\* A cluster that lives is old, or has its part.
Written(w, rows) ==
    /\ \A p \in DOMAIN w.heir \ w.todo :
          (w.at = "members" /\ p = w.part) \/ rows[w.heir[p]].members \subseteq p
    /\ \A c \in DOMAIN rows : rows[c].live =>
          c \in DOMAIN w.old \/ \E p \in DOMAIN w.heir \ w.todo : w.heir[p] = c
    /\ \A c \in DOMAIN w.old :
          (\A p \in DOMAIN w.heir : w.heir[p] # c) => rows[c].members \subseteq w.old[c]
    /\ w.at \in {"persist", "members", "tombstone"} => \A c \in DOMAIN w.old : rows[c].live
    /\ w.at \in {"lineage", "projection", "finalize", "chain"} => \A c \in w.gone : ~rows[c].live

RunHolds(w, rows) == RunTyped(w, rows) /\ Places(w) /\ Heirs(w, rows) /\ Written(w, rows)

\* What the record of the run has yet to tell of births and of deaths.
BornOf(w) == {w.heir[p] : p \in DOMAIN w.heir \ w.todo} \ DOMAIN w.old
Untold(w) == IF w.at \in {"persist", "members", "tombstone", "lineage"} THEN BornOf(w) ELSE {}
Unburied(w) == IF w.at = "lineage" THEN w.gone ELSE {}

Told ==
    /\ \A c \in Ids \ (cut \union Untold(worker)) : \E event \in Births : <<event, c>> \in lineage
    /\ \A c \in Ids \ (cut \union Unburied(worker)) :
          ~clusters[c].live => \E event \in Deaths : <<event, c>> \in lineage
    /\ \A event \in Deaths, c \in Nat :
          <<event, c>> \in lineage => c \in Ids /\ ~clusters[c].live

Typed ==
    /\ clusters \in Seq(Rows) /\ indexed \subseteq Pages
    /\ runs = [finished |-> runs.finished, newest |-> runs.newest]
    /\ worker.at \in {"idle", "input", "fit"} \union RunPlaces
    /\ worker.at = "fit" => worker.input \subseteq Pages

ClusterInv ==
    /\ Typed
    /\ worker.at \in {"fit"} \union (RunPlaces \ {"chain"}) => ~runs.newest
    /\ InRun => RunHolds(worker, clusters)
    /\ Told
    /\ OnePlace

-----------------------------------------------------------------------------
\* Clusters of which nothing changes but that members are taken out.
Shrunk ==
    /\ clusters' \in Seq(Rows) /\ DOMAIN clusters' = DOMAIN clusters
    /\ \A c \in DOMAIN clusters : /\ clusters'[c].live = clusters[c].live
                                  /\ clusters'[c].members \subseteq clusters[c].members

\* Clusters that are apart stay so when members are taken out.
LEMMA ShrunkApart ==
    ASSUME OnePlace, Shrunk, runs'.newest => runs.newest
    PROVE  OnePlace'
BY DEF OnePlace, Shrunk, Live, Ids

\* A run that goes on, or none, while pages are purged and jobs asked for.
LEMMA ShrunkKeeps ==
    ASSUME ClusterInv, Shrunk, UNCHANGED <<lineage, cut, worker, runs>>, indexed' \subseteq Pages
    PROVE  ClusterInv'
<1>1. Typed'
  BY DEF ClusterInv, Typed, Shrunk
<1>2. OnePlace'
  BY ShrunkApart DEF ClusterInv
<1>3. InRun' => RunHolds(worker, clusters')
  <2>1. ASSUME RunHolds(worker, clusters)
        PROVE  RunHolds(worker, clusters')
    <3>1. RunTyped(worker, clusters') /\ Places(worker)
      BY <2>1 DEF RunHolds, RunTyped, Shrunk
    <3>2. Heirs(worker, clusters')
      BY <2>1 DEF RunHolds, RunTyped, Heirs, Shrunk
    <3>3. Written(worker, clusters')
      BY <2>1 DEF RunHolds, RunTyped, Heirs, Written, Shrunk
    <3>4. QED
      BY <3>1, <3>2, <3>3 DEF RunHolds
  <2>2. QED
    BY <2>1 DEF ClusterInv, InRun
<1>4. Told'
  <2>1. Untold(worker)' = Untold(worker) /\ Unburied(worker)' = Unburied(worker)
    BY DEF Untold, Unburied, BornOf
  <2>2. QED
    BY <2>1 DEF ClusterInv, Told, Shrunk, Ids
<1>5. QED
  BY <1>1, <1>2, <1>3, <1>4 DEF ClusterInv

\* An attempt ends, and what it left unrecorded is remembered; or the handler
\* goes on that has written nothing yet.
LEMMA EndKeeps ==
    ASSUME ClusterInv, clusters' \in Seq(Rows), DOMAIN clusters' = DOMAIN clusters,
           \A c \in DOMAIN clusters : clusters'[c].live = clusters[c].live,
           Shrunk \/ worker.at = "members",
           UNCHANGED lineage, cut' = cut \union Unrecorded,
           indexed' \subseteq Pages,
           runs' = [runs EXCEPT !.newest = FALSE] \/ (runs' = runs /\ worker'.at # "fit"),
           worker'.at \in {"idle", "input", "fit"}, worker'.at = "fit" => worker'.input \subseteq Pages
    PROVE  ClusterInv'
<1>1. Typed' /\ (worker'.at = "fit" => ~runs'.newest) /\ (runs'.newest => runs.newest)
  BY DEF ClusterInv, Typed
<1>2. OnePlace'
  <2>1. CASE Shrunk
    BY <1>1, <2>1, ShrunkApart DEF ClusterInv
  <2>2. CASE worker.at = "members"
    BY <1>1, <2>2 DEF ClusterInv, RunPlaces, OnePlace
  <2>3. QED
    BY <2>1, <2>2
<1>3. ~InRun'
  BY DEF InRun, RunPlaces
<1>4. Untold(worker') = {} /\ Unburied(worker') = {}
  BY DEF Untold, Unburied
<1>5. /\ Untold(worker) \subseteq Unrecorded
      /\ \A c \in Unburied(worker) : ~clusters[c].live => c \in Unrecorded
  BY DEF Untold, Unburied, Unrecorded, BornOf, Born
<1>6. Told'
  <2>1. Ids' = Ids /\ Untold(worker)' = {} /\ Unburied(worker)' = {}
    BY <1>4 DEF Ids, Untold, Unburied
  <2>2. QED
    BY <1>5, <2>1 DEF ClusterInv, Told, Ids
<1>7. QED
  BY <1>1, <1>2, <1>3, <1>6 DEF ClusterInv, InRun, RunPlaces

-----------------------------------------------------------------------------
\* A matching gives a part an old cluster or none, and no two parts the same.
LEMMA MatchesPair ==
    ASSUME NEW parts, NEW old, NoHeir \notin DOMAIN old, NEW heir \in Matches(parts, old)
    PROVE  /\ heir \in [parts -> DOMAIN old \union {NoHeir}]
           /\ \A p, q \in parts : heir[p] = heir[q] /\ heir[p] # NoHeir => p = q
<1>1. PICK f \in Assignments(parts, old) : heir = Inherits(f, old)
  BY DEF Matches
<1>2. f \in Pairings(parts, old)
  BY DEF Assignments
<1>3. /\ f \in [parts -> DOMAIN old \union {NoHeir}]
      /\ \A p, q \in parts : p # q /\ f[p] # NoHeir => f[p] # f[q]
  BY <1>2 DEF Pairings
<1>4. heir = [p \in parts |-> IF f[p] # NoHeir /\ 2 * Jaccard(p, old[f[p]]) >= Unit
                                 THEN f[p] ELSE NoHeir]
  BY <1>1, <1>3 DEF Inherits
<1>5. \A p \in parts : heir[p] = f[p] \/ heir[p] = NoHeir
  BY <1>4
<1>6. heir \in [parts -> DOMAIN old \union {NoHeir}]
  BY <1>3, <1>4
<1>7. QED
  BY <1>3, <1>5, <1>6

\* The fit begins a run of which nothing is written.
LEMMA FitKeeps ==
    ASSUME ClusterInv, worker.at = "fit",
           NEW parts \in Fits(worker.input), NEW heir \in Matches(parts, OldMembers),
           worker' = [at |-> NextPart(parts), job |-> worker.job, input |-> worker.input,
                      heir |-> heir, old |-> OldMembers, todo |-> parts, part |-> {},
                      gone |-> {c \in Live : OldMembers[c] # {} /\ \A p \in parts : heir[p] # c}],
           UNCHANGED <<indexed, clusters, lineage, runs, cut>>
    PROVE  ClusterInv'
<1>1. Typed /\ Told /\ ~runs.newest /\ worker.input \subseteq Pages
  BY DEF ClusterInv, Typed
<1>2. DOMAIN OldMembers = Live /\ Live \subseteq DOMAIN clusters /\ NoHeir \notin Live
  BY <1>1 DEF OldMembers, Live, Ids, NoHeir, Typed
<1>3. /\ heir \in [parts -> Live \union {NoHeir}]
      /\ \A p, q \in parts : heir[p] = heir[q] /\ heir[p] # NoHeir => p = q
  BY <1>2, MatchesPair
<1>4. /\ parts \subseteq SUBSET Pages /\ {} \notin parts
      /\ \A p, q \in parts : p # q => p \cap q = {}
  BY <1>1 DEF Fits
<1>5. /\ worker'.at = NextPart(parts) /\ worker'.heir = heir /\ worker'.old = OldMembers
      /\ worker'.todo = parts /\ DOMAIN heir = parts
      /\ \/ worker'.at = "persist" /\ parts # {}
         \/ worker'.at = "tombstone" /\ parts = {}
  <2>1. DOMAIN heir = parts
    BY <1>3
  <2>2. \/ NextPart(parts) = "persist" /\ parts # {}
        \/ NextPart(parts) = "tombstone" /\ parts = {}
    BY DEF NextPart
  <2>3. QED
    BY <2>1, <2>2
<1>6. Typed'
  BY <1>1, <1>5 DEF Typed, RunPlaces
<1>7. RunTyped(worker', clusters)
  <2>1. worker' = [at |-> worker'.at, job |-> worker'.job, input |-> worker'.input,
                   heir |-> worker'.heir, old |-> worker'.old, todo |-> worker'.todo,
                   part |-> worker'.part, gone |-> worker'.gone]
    OBVIOUS
  <2>2. heir \in [parts -> DOMAIN clusters \union {NoHeir}]
    BY <1>2, <1>3
  <2>3. worker'.gone = {c \in Live : OldMembers[c] # {} /\ \A p \in parts : heir[p] # c}
    OBVIOUS
  <2>4. QED
    BY <1>2, <1>4, <1>5, <2>1, <2>2, <2>3 DEF RunTyped
<1>8. Places(worker') /\ Heirs(worker', clusters)
  BY <1>2, <1>3, <1>5 DEF Places, Heirs
<1>9. Written(worker', clusters)
  BY <1>2, <1>5 DEF Written, OldMembers, Live, Ids
<1>10. Told'
  <2>1. Untold(worker) = {} /\ Unburied(worker) = {}
    BY DEF Untold, Unburied
  <2>2. Untold(worker') = {} /\ Unburied(worker') = {}
    BY <1>5 DEF Untold, Unburied, BornOf
  <2>3. Untold(worker)' = {} /\ Unburied(worker)' = {} /\ Ids' = Ids
    BY <2>2 DEF Untold, Unburied, BornOf, Ids
  <2>4. QED
    BY <1>1, <2>1, <2>3 DEF Told
<1>11. OnePlace'
  BY <1>1 DEF OnePlace
<1>12. QED
  BY <1>1, <1>5, <1>6, <1>7, <1>8, <1>9, <1>10, <1>11 DEF ClusterInv, InRun, RunHolds, RunPlaces

\* A set of numbers has a least one.
LEMMA MinIsLeast ==
    ASSUME NEW S \in SUBSET Nat, S # {}
    PROVE  Min(S) \in S /\ \A x \in S : Min(S) <= x
<1> DEFINE R == {ss \in Nat \X Nat : ss[1] < ss[2]}
<1>1. R = OpToRel(<, Nat)
  BY Zenon DEF OpToRel
<1>2. IsWellFoundedOn(R, Nat)
  BY <1>1, NatLessThanWellFounded, Zenon
<1> HIDE DEF R
<1>3. \E n \in S : \A x \in S : ~(<<x, n>> \in R)
  BY <1>2, WFMin
<1>4. PICK n \in S : \A x \in S : ~(<<x, n>> \in R)
  BY <1>3
<1>5. ASSUME NEW x \in S
      PROVE  n <= x
  <2>1. <<x, n>> \in Nat \X Nat
    OBVIOUS
  <2>2. ~(x < n)
    BY <1>4, <2>1 DEF R
  <2>3. QED
    BY <2>2
<1>6. QED
  BY <1>5 DEF Min

\* Among the parts that are not written there is one with the least first page.
LEMMA NextPartExists ==
    ASSUME NEW todo \in SUBSET (SUBSET Pages), {} \notin todo, todo # {}
    PROVE  (CHOOSE q \in todo : \A r \in todo : Min(q) <= Min(r)) \in todo
<1> DEFINE Firsts == {Min(q) : q \in todo}
<1>1. Pages \subseteq Nat
  BY SizesAssumption DEF Pages
<1>2. \A q \in todo : Min(q) \in Nat
  <2> SUFFICES ASSUME NEW q \in todo PROVE Min(q) \in Nat
    OBVIOUS
  <2>1. q \in SUBSET Nat /\ q # {}
    BY <1>1
  <2>2. Min(q) \in q
    BY <2>1, MinIsLeast
  <2>3. QED
    BY <2>1, <2>2
<1>3. Firsts \in SUBSET Nat /\ Firsts # {}
  BY <1>2
<1>4. Min(Firsts) \in Firsts /\ \A x \in Firsts : Min(Firsts) <= x
  <2> HIDE DEF Firsts
  <2>1. QED
    BY <1>3, MinIsLeast
<1>5. PICK q \in todo : Min(Firsts) = Min(q)
  BY <1>4
<1>6. \A r \in todo : Min(q) <= Min(r)
  BY <1>4, <1>5
<1>7. QED
  BY <1>6

\* A part is given its cluster, its own or a new one.
LEMMA UpsertKeeps ==
    ASSUME ClusterInv, UpsertCluster
    PROVE  ClusterInv'
<1> DEFINE p == CHOOSE q \in worker.todo : \A r \in worker.todo : Min(q) <= Min(r)
           c == IF worker.heir[p] = NoHeir THEN Len(clusters) + 1 ELSE worker.heir[p]
<1>1. /\ worker.at = "persist"
      /\ clusters' = IF c \in Ids THEN [clusters EXCEPT ![c].live = TRUE]
                                  ELSE Append(clusters, [members |-> {}, live |-> TRUE])
      /\ worker' = [worker EXCEPT !.at = "members", !.todo = @ \ {p}, !.heir[p] = c, !.part = p]
      /\ UNCHANGED <<indexed, lineage, runs, cut>>
  BY DEF UpsertCluster, At, pageVars
<1>2. /\ Typed /\ Told /\ ~runs.newest /\ RunTyped(worker, clusters) /\ Places(worker)
      /\ Heirs(worker, clusters) /\ Written(worker, clusters)
  BY <1>1 DEF ClusterInv, InRun, RunPlaces, RunHolds
<1>3. p \in worker.todo /\ p \in DOMAIN worker.heir
  BY <1>1, <1>2, NextPartExists DEF Places, RunTyped
<1> HIDE DEF p
<1>4. /\ worker.heir[p] \in DOMAIN worker.old \union {NoHeir}
      /\ DOMAIN worker.old \subseteq DOMAIN clusters /\ Ids = DOMAIN clusters
      /\ DOMAIN clusters = 1..Len(clusters) /\ Len(clusters) \in Nat
      /\ NoHeir \notin DOMAIN clusters
  BY <1>2, <1>3 DEF Heirs, RunTyped, Typed, Ids, NoHeir
<1>5. /\ c # NoHeir /\ clusters' \in Seq(Rows) /\ DOMAIN clusters' = DOMAIN clusters \union {c}
      /\ \A d \in DOMAIN clusters : clusters'[d] = clusters[d]
      /\ clusters'[c].live
      /\ \/ c \notin DOMAIN clusters /\ worker.heir[p] = NoHeir
         \/ c \in DOMAIN worker.old /\ worker.heir[p] = c
  <2>1. CASE worker.heir[p] = NoHeir
    <3>1. c = Len(clusters) + 1 /\ c \notin DOMAIN clusters /\ c # NoHeir
      BY <1>4, <2>1 DEF NoHeir
    <3>2. clusters' = Append(clusters, [members |-> {}, live |-> TRUE])
      BY <1>1, <1>4, <3>1
    <3>3. [members |-> {}, live |-> TRUE] \in Rows
      BY DEF Rows
    <3>4. QED
      BY <1>2, <1>4, <2>1, <3>1, <3>2, <3>3 DEF Typed
  <2>2. CASE worker.heir[p] # NoHeir
    <3>1. c = worker.heir[p] /\ c \in DOMAIN worker.old /\ c \in DOMAIN clusters /\ c # NoHeir
      BY <1>4, <2>2
    <3>2. clusters' = [clusters EXCEPT ![c].live = TRUE]
      BY <1>1, <1>4, <3>1
    <3>3. clusters[c].live
      BY <1>1, <1>2, <3>1 DEF Written
    <3>4. clusters[c] \in Rows
      BY <1>2, <3>1 DEF Typed
    <3>5. [clusters[c] EXCEPT !.live = TRUE] = clusters[c]
      BY <3>3, <3>4 DEF Rows
    <3>6. clusters' = [clusters EXCEPT ![c] = [clusters[c] EXCEPT !.live = TRUE]]
      BY <3>2
    <3>7. clusters' = clusters
      BY <1>2, <3>1, <3>5, <3>6 DEF Typed
    <3>8. QED
      BY <1>2, <3>1, <3>3, <3>7 DEF Typed
  <2>3. QED
    BY <2>1, <2>2
<1> HIDE DEF c
<1>6. /\ worker'.at = "members" /\ worker'.todo = worker.todo \ {p} /\ worker'.part = p
      /\ worker'.old = worker.old /\ worker'.gone = worker.gone
      /\ worker'.heir = [worker.heir EXCEPT ![p] = c]
      /\ DOMAIN worker'.heir = DOMAIN worker.heir
  BY <1>1, <1>2 DEF RunTyped
<1>7. /\ worker'.heir[p] = c
      /\ worker.heir[p] # c => c \notin DOMAIN clusters /\ worker.heir[p] = NoHeir
      /\ \A q \in DOMAIN worker.heir \ {p} : worker'.heir[q] = worker.heir[q]
      /\ \A q \in DOMAIN worker.heir : worker.heir[q] = NoHeir \/ worker.heir[q] \in DOMAIN clusters
  BY <1>2, <1>3, <1>5, <1>6 DEF RunTyped
<1>8. \A d \in DOMAIN clusters : (\A q \in DOMAIN worker.heir : worker'.heir[q] # d)
                                 <=> (\A q \in DOMAIN worker.heir : worker.heir[q] # d)
  <2> SUFFICES ASSUME NEW d \in DOMAIN clusters, NEW q \in DOMAIN worker.heir
               PROVE  worker'.heir[q] = d <=> worker.heir[q] = d
    OBVIOUS
  <2>1. CASE q = p
    BY <1>4, <1>7, <2>1
  <2>2. CASE q # p
    BY <1>7, <2>2
  <2>3. QED
    BY <2>1, <2>2
<1>9. Typed'
  BY <1>1, <1>2, <1>5, <1>6 DEF Typed, RunPlaces
<1>10. RunTyped(worker', clusters')
  <2>1. worker' = [at |-> worker'.at, job |-> worker'.job, input |-> worker'.input,
                   heir |-> worker'.heir, old |-> worker'.old, todo |-> worker'.todo,
                   part |-> worker'.part, gone |-> worker'.gone]
    BY <1>1, <1>2 DEF RunTyped
  <2>2. worker'.heir \in [DOMAIN worker.heir -> DOMAIN clusters' \union {NoHeir}]
    <3>1. \A q \in DOMAIN worker.heir : worker'.heir[q] \in DOMAIN clusters' \union {NoHeir}
      BY <1>5, <1>7
    <3>2. worker'.heir = [q \in DOMAIN worker.heir |-> worker'.heir[q]]
      BY <1>6
    <3>3. QED
      BY <3>1, <3>2
  <2>3. worker'.gone = {d \in DOMAIN worker.old :
                         worker.old[d] # {} /\ \A q \in DOMAIN worker.heir : worker'.heir[q] # d}
    BY <1>2, <1>6, <1>8 DEF RunTyped
  <2>4. QED
    BY <1>2, <1>5, <1>6, <2>1, <2>2, <2>3 DEF RunTyped
<1>11. Places(worker')
  BY <1>2, <1>3, <1>6 DEF Places
<1>12. Heirs(worker', clusters')
  <2>1. \A q \in worker'.todo : worker'.heir[q] \in DOMAIN worker.old \union {NoHeir}
    BY <1>2, <1>6, <1>7 DEF Heirs, RunTyped
  <2>2. \A q \in DOMAIN worker.heir \ worker'.todo :
           worker'.heir[q] # NoHeir /\ clusters'[worker'.heir[q]].live
    BY <1>2, <1>5, <1>6, <1>7 DEF Heirs, RunTyped
  <2>3. \A q, r \in DOMAIN worker.heir :
           worker'.heir[q] = worker'.heir[r] /\ worker'.heir[q] # NoHeir => q = r
    BY <1>2, <1>3, <1>5, <1>6, <1>7 DEF Heirs
  <2>4. QED
    BY <1>6, <2>1, <2>2, <2>3 DEF Heirs
<1>13. Written(worker', clusters')
  <2>1. \A q \in DOMAIN worker.heir \ worker'.todo :
           q = p \/ clusters'[worker'.heir[q]].members \subseteq q
    BY <1>1, <1>2, <1>5, <1>6, <1>7 DEF Written, Heirs
  <2>2. \A d \in DOMAIN clusters' : clusters'[d].live =>
           d \in DOMAIN worker.old
           \/ \E q \in DOMAIN worker.heir \ worker'.todo : worker'.heir[q] = d
    BY <1>2, <1>3, <1>5, <1>6, <1>7 DEF Written
  <2>3. \A d \in DOMAIN worker.old :
           (\A q \in DOMAIN worker.heir : worker'.heir[q] # d)
              => clusters'[d].members \subseteq worker.old[d]
    BY <1>2, <1>4, <1>5, <1>8 DEF Written
  <2>4. \A d \in DOMAIN worker.old : clusters'[d].live
    BY <1>1, <1>2, <1>4, <1>5 DEF Written
  <2>5. QED
    BY <1>6, <2>1, <2>2, <2>3, <2>4 DEF Written
<1>14. Told'
  <2>1. /\ Ids' = Ids \union {c} /\ Ids = DOMAIN clusters
        /\ Unburied(worker)' = {} /\ Unburied(worker) = {}
        /\ c \notin Ids => c \in Untold(worker)'
        /\ Untold(worker) \subseteq Untold(worker)'
    <3>1. Untold(worker)' = Untold(worker') /\ Unburied(worker)' = Unburied(worker')
      BY DEF Untold, Unburied, BornOf
    <3>2. Untold(worker') = BornOf(worker') /\ Untold(worker) = BornOf(worker)
          /\ Unburied(worker') = {} /\ Unburied(worker) = {}
      BY <1>1, <1>6 DEF Untold, Unburied
    <3>3. BornOf(worker) \subseteq BornOf(worker')
      BY <1>3, <1>6, <1>7 DEF BornOf
    <3>4. c \notin Ids => c \in BornOf(worker')
      BY <1>3, <1>4, <1>6, <1>7 DEF BornOf
    <3>5. QED
      BY <1>4, <1>5, <3>1, <3>2, <3>3, <3>4 DEF Ids
  <2>2. \A d \in Ids : clusters'[d] = clusters[d]
    BY <1>4, <1>5
  <2>3. QED
    BY <1>1, <1>2, <1>5, <2>1, <2>2 DEF Told
<1>15. OnePlace'
  BY <1>1, <1>2 DEF OnePlace
<1>16. QED
  BY <1>1, <1>2, <1>6, <1>9, <1>10, <1>11, <1>12, <1>13, <1>14, <1>15
  DEF ClusterInv, RunHolds

\* The handler goes on, and the rest of its record stays.
LEMMA GoesOn ==
    ASSUME RunTyped(worker, clusters), NEW to, Go(to), DOMAIN clusters' = DOMAIN clusters
    PROVE  /\ worker'.at = to /\ worker'.heir = worker.heir /\ worker'.old = worker.old
           /\ worker'.todo = worker.todo /\ worker'.part = worker.part /\ worker'.gone = worker.gone
           /\ RunTyped(worker', clusters')
BY DEF Go, RunTyped

\* The rows of a part take the place of those its cluster had.
LEMMA ReplaceKeeps ==
    ASSUME ClusterInv, worker.at = "members", Go(NextPart(worker.todo)),
           clusters' = [clusters EXCEPT ![worker.heir[worker.part]].members = worker.part],
           UNCHANGED <<indexed, lineage, runs, cut>>
    PROVE  ClusterInv'
<1> DEFINE p == worker.part
           c == worker.heir[p]
<1>1. /\ Typed /\ Told /\ ~runs.newest /\ RunTyped(worker, clusters) /\ Places(worker)
      /\ Heirs(worker, clusters) /\ Written(worker, clusters)
  BY DEF ClusterInv, InRun, RunPlaces, RunHolds
<1>2. /\ p \in DOMAIN worker.heir \ worker.todo /\ p \subseteq Pages
      /\ c # NoHeir /\ c \in DOMAIN clusters
  BY <1>1 DEF Places, Heirs, RunTyped
<1>3. /\ clusters' \in Seq(Rows) /\ DOMAIN clusters' = DOMAIN clusters
      /\ \A d \in DOMAIN clusters : /\ clusters'[d].live = clusters[d].live
                                    /\ d # c => clusters'[d] = clusters[d]
      /\ clusters'[c].members = p
  <2>1. clusters[c] \in Rows
    BY <1>1, <1>2 DEF Typed
  <2>2. [clusters[c] EXCEPT !.members = p] = [members |-> p, live |-> clusters[c].live]
    BY <2>1 DEF Rows
  <2>3. clusters' = [clusters EXCEPT ![c] = [members |-> p, live |-> clusters[c].live]]
    BY <2>2
  <2>4. [members |-> p, live |-> clusters[c].live] \in Rows
    BY <1>2, <2>1 DEF Rows
  <2>5. clusters' \in Seq(Rows) /\ DOMAIN clusters' = DOMAIN clusters
    BY <1>1, <1>2, <2>3, <2>4 DEF Typed
  <2>6. QED
    BY <1>1, <1>2, <2>3, <2>5 DEF Typed
<1>4. /\ worker'.at = NextPart(worker.todo) /\ worker'.heir = worker.heir /\ worker'.old = worker.old
      /\ worker'.todo = worker.todo /\ worker'.part = worker.part /\ worker'.gone = worker.gone
      /\ RunTyped(worker', clusters')
  BY <1>1, <1>3, GoesOn
<1> HIDE DEF p, c
<1>5. \/ worker'.at = "persist" /\ worker.todo # {}
      \/ worker'.at = "tombstone" /\ worker.todo = {}
  BY <1>4 DEF NextPart
<1>6. Typed'
  BY <1>1, <1>3, <1>5 DEF Typed, RunPlaces
<1>7. Places(worker')
  BY <1>4, <1>5 DEF Places
<1>8. Heirs(worker', clusters')
  BY <1>1, <1>3, <1>4 DEF Heirs, RunTyped
<1>9. Written(worker', clusters')
  <2>1. \A q \in DOMAIN worker.heir \ worker.todo : clusters'[worker.heir[q]].members \subseteq q
    <3> SUFFICES ASSUME NEW q \in DOMAIN worker.heir \ worker.todo
                 PROVE  clusters'[worker.heir[q]].members \subseteq q
      OBVIOUS
    <3>1. CASE q = p
      BY <1>3, <3>1 DEF c
    <3>2. CASE q # p
      <4>1. worker.heir[q] # c /\ worker.heir[q] \in DOMAIN clusters
        BY <1>1, <1>2, <3>2 DEF Heirs, RunTyped, c
      <4>2. clusters[worker.heir[q]].members \subseteq q
        BY <1>1, <3>2 DEF Written, p
      <4>3. QED
        BY <1>3, <4>1, <4>2
    <3>3. QED
      BY <3>1, <3>2
  <2>2. \A d \in DOMAIN worker.old :
           (\A q \in DOMAIN worker.heir : worker.heir[q] # d)
              => clusters'[d].members \subseteq worker.old[d]
    BY <1>1, <1>2, <1>3 DEF Written, RunTyped, c
  <2>3. \A d \in DOMAIN clusters' : clusters'[d].live =>
           d \in DOMAIN worker.old \/ \E q \in DOMAIN worker.heir \ worker.todo : worker.heir[q] = d
    BY <1>1, <1>3 DEF Written
  <2>4. \A d \in DOMAIN worker.old : clusters'[d].live
    BY <1>1, <1>3 DEF Written, RunTyped
  <2>5. worker'.at \notin {"lineage", "projection", "finalize", "chain"}
    BY <1>5
  <2>6. \A q \in DOMAIN worker'.heir \ worker'.todo :
           (worker'.at = "members" /\ q = worker'.part) \/ clusters'[worker'.heir[q]].members \subseteq q
    BY <1>4, <2>1
  <2>7. \A d \in DOMAIN clusters' : clusters'[d].live =>
           \/ d \in DOMAIN worker'.old
           \/ \E q \in DOMAIN worker'.heir \ worker'.todo : worker'.heir[q] = d
    BY <1>4, <2>3
  <2>8. /\ \A d \in DOMAIN worker'.old :
              (\A q \in DOMAIN worker'.heir : worker'.heir[q] # d)
                 => clusters'[d].members \subseteq worker'.old[d]
        /\ \A d \in DOMAIN worker'.old : clusters'[d].live
    BY <1>4, <2>2, <2>4
  <2>9. QED
    BY <2>5, <2>6, <2>7, <2>8 DEF Written
<1>10. Told'
  <2>1. Untold(worker)' = Untold(worker) /\ Unburied(worker)' = Unburied(worker) /\ Ids' = Ids
    BY <1>3, <1>4, <1>5 DEF Untold, Unburied, BornOf, Ids
  <2>2. QED
    BY <1>1, <1>3, <2>1 DEF Told, Ids
<1>11. OnePlace'
  BY <1>1 DEF OnePlace
<1>12. QED
  BY <1>1, <1>4, <1>5, <1>6, <1>7, <1>8, <1>9, <1>10, <1>11 DEF ClusterInv, RunHolds

\* The old clusters that have no part in the new ones are buried.
LEMMA TombstoneKeeps ==
    ASSUME ClusterInv, Tombstone
    PROVE  ClusterInv'
<1>1. /\ worker.at = "tombstone" /\ Go("lineage")
      /\ clusters' = [c \in Ids |-> [clusters[c] EXCEPT !.live = @ /\ c \notin worker.gone]]
      /\ UNCHANGED <<indexed, lineage, runs, cut>>
  BY DEF Tombstone, At, pageVars
<1>2. /\ Typed /\ Told /\ ~runs.newest /\ RunTyped(worker, clusters) /\ Places(worker)
      /\ Heirs(worker, clusters) /\ Written(worker, clusters)
  BY <1>1 DEF ClusterInv, InRun, RunPlaces, RunHolds
<1>3. /\ clusters' \in Seq(Rows) /\ DOMAIN clusters' = DOMAIN clusters
      /\ \A c \in DOMAIN clusters : /\ clusters'[c].live <=> clusters[c].live /\ c \notin worker.gone
                                    /\ clusters'[c].members = clusters[c].members
  <2>1. /\ DOMAIN clusters = 1..Len(clusters) /\ Len(clusters) \in Nat
        /\ DOMAIN clusters' = DOMAIN clusters
    BY <1>1, <1>2 DEF Typed, Ids
  <2>2. ASSUME NEW c \in DOMAIN clusters
        PROVE  /\ clusters'[c] \in Rows
               /\ clusters'[c].live <=> clusters[c].live /\ c \notin worker.gone
               /\ clusters'[c].members = clusters[c].members
    <3> DEFINE lives == clusters[c].live /\ c \notin worker.gone
    <3>1. clusters'[c] = [clusters[c] EXCEPT !.live = lives]
      BY <1>1 DEF Ids
    <3>2. clusters[c] \in Rows /\ lives \in BOOLEAN
      BY <1>2 DEF Typed
    <3>3. clusters'[c].live <=> lives
      <4> HIDE DEF lives
      <4>1. QED
        BY <3>1, <3>2 DEF Rows
    <3>4. clusters'[c] \in Rows /\ clusters'[c].members = clusters[c].members
      <4> HIDE DEF lives
      <4>1. QED
        BY <3>1, <3>2 DEF Rows
    <3>5. QED
      BY <3>3, <3>4
  <2>3. clusters' = [c \in 1..Len(clusters) |-> clusters'[c]]
    BY <1>1, <2>1 DEF Ids
  <2>4. clusters' \in Seq(Rows)
    BY <2>1, <2>2, <2>3
  <2>5. QED
    BY <2>1, <2>2, <2>4
<1>4. /\ worker'.at = "lineage" /\ worker'.heir = worker.heir /\ worker'.old = worker.old
      /\ worker'.todo = worker.todo /\ worker'.part = worker.part /\ worker'.gone = worker.gone
      /\ RunTyped(worker', clusters')
  BY <1>1, <1>2, <1>3, GoesOn
<1>5. Typed'
  BY <1>1, <1>2, <1>3, <1>4 DEF Typed, RunPlaces
<1>6. Places(worker')
  BY <1>1, <1>2, <1>4 DEF Places
<1>7. worker.todo = {} /\ \A p \in DOMAIN worker.heir :
         worker.heir[p] \in DOMAIN clusters /\ worker.heir[p] \notin worker.gone
  BY <1>1, <1>2 DEF Places, Heirs, RunTyped
<1>8. Heirs(worker', clusters')
  BY <1>2, <1>3, <1>4, <1>7 DEF Heirs
<1>9. Written(worker', clusters')
  <2>1. \A p \in DOMAIN worker.heir \ worker.todo : clusters'[worker.heir[p]].members \subseteq p
    BY <1>1, <1>2, <1>3, <1>7 DEF Written
  <2>2. \A c \in DOMAIN worker.old :
           (\A p \in DOMAIN worker.heir : worker.heir[p] # c)
              => clusters'[c].members \subseteq worker.old[c]
    BY <1>2, <1>3 DEF Written, RunTyped
  <2>3. \A c \in DOMAIN clusters' : clusters'[c].live =>
           c \in DOMAIN worker.old \/ \E p \in DOMAIN worker.heir \ worker.todo : worker.heir[p] = c
    BY <1>2, <1>3 DEF Written
  <2>4. \A c \in worker.gone : ~clusters'[c].live
    BY <1>2, <1>3 DEF RunTyped
  <2>5. QED
    BY <1>4, <2>1, <2>2, <2>3, <2>4 DEF Written
<1>10. Told'
  <2>1. /\ Untold(worker)' = Untold(worker) /\ Ids' = Ids
        /\ Unburied(worker)' = worker.gone /\ Unburied(worker) = {}
    BY <1>1, <1>3, <1>4 DEF Untold, Unburied, BornOf, Ids
  <2>2. QED
    BY <1>1, <1>2, <1>3, <2>1 DEF Told, Ids
<1>11. OnePlace'
  BY <1>1, <1>2 DEF OnePlace
<1>12. QED
  BY <1>1, <1>2, <1>4, <1>5, <1>6, <1>8, <1>9, <1>10, <1>11 DEF ClusterInv, RunHolds

\* What a run that has written its clusters knows of them.
LEMMA WrittenRun ==
    ASSUME ClusterInv, worker.at \in {"lineage", "projection", "finalize"}
    PROVE  /\ Typed /\ Told /\ ~runs.newest /\ worker.todo = {}
           /\ RunTyped(worker, clusters) /\ Heirs(worker, clusters) /\ Written(worker, clusters)
BY DEF ClusterInv, InRun, RunPlaces, RunHolds, Places

\* A run goes on whose clusters are written.
LEMMA StaysWritten ==
    ASSUME ClusterInv, worker.at \in {"lineage", "projection", "finalize"}, NEW to,
           Go(to), to \in {"projection", "finalize", "chain"}, UNCHANGED <<clusters, indexed>>,
           runs' = [finished |-> runs'.finished, newest |-> runs'.newest]
    PROVE  /\ Typed' /\ InRun' /\ RunHolds(worker', clusters')
           /\ worker'.at = to /\ Untold(worker') = {} /\ Unburied(worker') = {}
<1>1. /\ Typed /\ worker.todo = {}
      /\ RunTyped(worker, clusters) /\ Heirs(worker, clusters) /\ Written(worker, clusters)
  BY WrittenRun
<1>2. /\ worker'.at = to /\ worker'.heir = worker.heir /\ worker'.old = worker.old
      /\ worker'.todo = worker.todo /\ worker'.part = worker.part /\ worker'.gone = worker.gone
      /\ RunTyped(worker', clusters')
  BY <1>1, GoesOn
<1>3. Typed' /\ InRun'
  BY <1>1, <1>2 DEF Typed, InRun, RunPlaces
<1>4. Places(worker') /\ Heirs(worker', clusters') /\ Written(worker', clusters')
  BY <1>1, <1>2 DEF Places, Heirs, Written
<1>5. QED
  BY <1>2, <1>3, <1>4 DEF RunHolds, Untold, Unburied

\* The lineage of a run tells of the clusters it bore and of those it buried.
LEMMA LineageKeeps ==
    ASSUME ClusterInv, Lineage
    PROVE  ClusterInv'
<1> DEFINE parts == DOMAIN worker.heir
           born == {p \in parts : worker.heir[p] \in Born}
<1>1. /\ worker.at = "lineage" /\ Go("projection") /\ UNCHANGED <<indexed, clusters, runs, cut>>
      /\ lineage' = lineage
           \union {<<Birth(p, worker.old), worker.heir[p]>> : p \in born}
           \union {<<"persisted", worker.heir[p]>> : p \in parts \ born}
           \union {<<Death(worker.old[c], parts), c>> : c \in worker.gone}
  BY DEF Lineage, At, pageVars
<1>2. /\ Typed /\ Told /\ ~runs.newest /\ worker.todo = {}
      /\ RunTyped(worker, clusters) /\ Heirs(worker, clusters) /\ Written(worker, clusters)
  BY <1>1, WrittenRun
<1>3. /\ Typed' /\ InRun' /\ RunHolds(worker', clusters')
      /\ worker'.at = "projection" /\ Untold(worker') = {} /\ Unburied(worker') = {}
  BY <1>1, <1>2, StaysWritten DEF Typed
<1>4. /\ \A p \in born : Birth(p, worker.old) \in Births
      /\ \A c \in worker.gone : Death(worker.old[c], parts) \in Deaths
  BY DEF Birth, Death, Births, Deaths
<1>5. \A c \in Untold(worker) : \E event \in Births : <<event, c>> \in lineage'
  <2> SUFFICES ASSUME NEW c \in Untold(worker)
               PROVE  \E event \in Births : <<event, c>> \in lineage'
    OBVIOUS
  <2>1. PICK p \in born : worker.heir[p] = c
    BY <1>1, <1>2 DEF Untold, BornOf, Born
  <2>2. <<Birth(p, worker.old), c>> \in lineage'
    BY <1>1, <2>1
  <2>3. QED
    BY <1>4, <2>2
<1>6. \A c \in worker.gone : \E event \in Deaths : <<event, c>> \in lineage'
  <2> SUFFICES ASSUME NEW c \in worker.gone
               PROVE  \E event \in Deaths : <<event, c>> \in lineage'
    OBVIOUS
  <2>1. <<Death(worker.old[c], parts), c>> \in lineage'
    BY <1>1
  <2>2. QED
    BY <1>4, <2>1
<1>7. \A event \in Deaths, c \in Nat :
         <<event, c>> \in lineage' => <<event, c>> \in lineage \/ c \in worker.gone
  <2> SUFFICES ASSUME NEW event \in Deaths, NEW c \in Nat, <<event, c>> \in lineage',
                      <<event, c>> \notin lineage
               PROVE  c \in worker.gone
    OBVIOUS
  <2>1. \A p \in born : <<event, c>> # <<Birth(p, worker.old), worker.heir[p]>>
    BY <1>4 DEF Births, Deaths
  <2>2. \A p \in parts : <<event, c>> # <<"persisted", worker.heir[p]>>
    BY DEF Deaths
  <2>3. QED
    BY <1>1, <2>1, <2>2
<1>8. Told'
  <2>1. /\ Untold(worker)' = {} /\ Unburied(worker)' = {} /\ Ids' = Ids /\ Ids = DOMAIN clusters
        /\ Unburied(worker) = worker.gone /\ lineage \subseteq lineage'
        /\ \A c \in worker.gone : c \in Ids /\ ~clusters[c].live
    <3>1. Untold(worker)' = Untold(worker') /\ Unburied(worker)' = Unburied(worker')
      BY DEF Untold, Unburied, BornOf
    <3>2. \A c \in worker.gone : c \in DOMAIN clusters /\ ~clusters[c].live
      BY <1>1, <1>2 DEF RunTyped, Written
    <3>3. QED
      BY <1>1, <1>3, <3>1, <3>2 DEF Unburied, Ids
  <2>2. \A c \in Ids \ cut : \E event \in Births : <<event, c>> \in lineage'
    BY <1>2, <1>5, <2>1 DEF Told
  <2>3. \A c \in Ids \ cut : ~clusters[c].live => \E event \in Deaths : <<event, c>> \in lineage'
    BY <1>2, <1>6, <2>1 DEF Told
  <2>4. \A event \in Deaths, c \in Nat :
           <<event, c>> \in lineage' => c \in Ids /\ ~clusters[c].live
    BY <1>2, <1>7, <2>1 DEF Told
  <2>5. QED
    BY <1>1, <2>1, <2>2, <2>3, <2>4 DEF Told
<1>9. OnePlace'
  BY <1>1, <1>2 DEF OnePlace
<1>10. QED
  BY <1>1, <1>2, <1>3, <1>8, <1>9 DEF ClusterInv

\* A live cluster of a run that has written them all is empty, or has its part.
LEMMA WrittenApart ==
    ASSUME ClusterInv, worker.at = "finalize"
    PROVE  \A c, d \in Live : c # d => clusters[c].members \cap clusters[d].members = {}
<1>1. /\ worker.todo = {} /\ RunTyped(worker, clusters) /\ Written(worker, clusters)
  BY WrittenRun
<1>2. ASSUME NEW c \in Live
      PROVE  \/ clusters[c].members = {}
             \/ \E p \in DOMAIN worker.heir : worker.heir[p] = c /\ clusters[c].members \subseteq p
  <2>1. c \in DOMAIN clusters /\ clusters[c].live
    BY DEF Live, Ids
  <2>2. CASE \E p \in DOMAIN worker.heir : worker.heir[p] = c
    BY <1>1, <2>2 DEF Written
  <2>3. CASE \A p \in DOMAIN worker.heir : worker.heir[p] # c
    <3>1. c \in DOMAIN worker.old /\ clusters[c].members \subseteq worker.old[c]
      BY <1>1, <2>1, <2>3 DEF Written
    <3>2. c \notin worker.gone
      BY <1>1, <2>1 DEF Written
    <3>3. worker.old[c] = {}
      BY <1>1, <2>3, <3>1, <3>2 DEF RunTyped
    <3>4. QED
      BY <3>1, <3>3
  <2>4. QED
    BY <2>2, <2>3
<1>3. SUFFICES ASSUME NEW c \in Live, NEW d \in Live, c # d
               PROVE  clusters[c].members \cap clusters[d].members = {}
  OBVIOUS
<1>4. CASE clusters[c].members = {} \/ clusters[d].members = {}
  BY <1>4
<1>5. CASE clusters[c].members # {} /\ clusters[d].members # {}
  <2>1. PICK p \in DOMAIN worker.heir : worker.heir[p] = c /\ clusters[c].members \subseteq p
    BY <1>2, <1>5
  <2>2. PICK q \in DOMAIN worker.heir : worker.heir[q] = d /\ clusters[d].members \subseteq q
    BY <1>2, <1>5
  <2>3. p \cap q = {}
    BY <1>1, <1>3, <2>1, <2>2 DEF RunTyped
  <2>4. QED
    BY <2>1, <2>2, <2>3
<1>6. QED
  BY <1>4, <1>5

\* The run finishes, or goes on to.
LEMMA FinishKeeps ==
    ASSUME ClusterInv,
           Finalize \/ (At("projection") /\ Go("finalize")
                          /\ UNCHANGED <<pageVars, clusters, lineage, runs, cut>>)
    PROVE  ClusterInv'
<1>1. /\ UNCHANGED <<indexed, clusters, lineage, cut>>
      /\ \/ /\ worker.at = "finalize" /\ Go("chain")
            /\ runs' = [finished |-> runs.finished + 1, newest |-> TRUE]
         \/ worker.at = "projection" /\ Go("finalize") /\ runs' = runs
  BY DEF Finalize, At, pageVars
<1>2. Typed /\ Told /\ ~runs.newest
  BY <1>1, WrittenRun
<1>3. runs' = [finished |-> runs'.finished, newest |-> runs'.newest]
  BY <1>1, <1>2 DEF Typed
<1>4. /\ Typed' /\ InRun' /\ RunHolds(worker', clusters')
      /\ Untold(worker') = {} /\ Unburied(worker') = {}
      /\ worker'.at = "chain" \/ (worker'.at = "finalize" /\ ~runs'.newest)
  BY <1>1, <1>2, <1>3, StaysWritten
<1>5. Told'
  <2>1. Untold(worker) = {} /\ Unburied(worker) = {}
    BY <1>1 DEF Untold, Unburied
  <2>2. Untold(worker)' = {} /\ Unburied(worker)' = {} /\ Ids' = Ids
    BY <1>1, <1>4 DEF Untold, Unburied, BornOf, Ids
  <2>3. QED
    BY <1>1, <1>2, <2>1, <2>2 DEF Told
<1>6. OnePlace'
  <2>1. CASE worker.at = "finalize"
    BY <1>1, <2>1, WrittenApart DEF OnePlace, Live, Ids
  <2>2. CASE worker.at # "finalize"
    BY <1>1, <1>2, <2>2 DEF OnePlace
  <2>3. QED
    BY <2>1, <2>2
<1>7. QED
  BY <1>4, <1>5, <1>6 DEF ClusterInv

-----------------------------------------------------------------------------
\* The attempt ends, with the clusters as they are.
LEMMA StopKeeps ==
    ASSUME ClusterInv, UNCHANGED <<pageVars, clusters, lineage>>,
           runs' = [runs EXCEPT !.newest = FALSE] \/ (runs' = runs /\ worker'.at # "fit"),
           cut' = cut \union Unrecorded,
           worker'.at \in {"idle", "input", "fit"}, worker'.at = "fit" => worker'.input \subseteq Pages
    PROVE  ClusterInv'
<1>1. clusters \in Seq(Rows) /\ indexed \subseteq Pages /\ indexed' = indexed
  BY DEF ClusterInv, Typed, pageVars
<1>2. Shrunk
  BY <1>1 DEF Shrunk
<1>3. QED
  BY <1>1, <1>2, EndKeeps

\* Rows of a part that are refused leave some of them, and the attempt ends.
LEMMA RefusedKeeps ==
    ASSUME ClusterInv, worker.at = "members", NEW some \in SUBSET (worker.part \ purged),
           clusters' = [clusters EXCEPT ![worker.heir[worker.part]].members = some],
           UNCHANGED <<pageVars, lineage, runs>>, AttemptFails
    PROVE  ClusterInv'
<1> DEFINE c == worker.heir[worker.part]
<1>1. /\ Typed /\ RunTyped(worker, clusters) /\ Places(worker) /\ Heirs(worker, clusters)
  BY DEF ClusterInv, InRun, RunPlaces, RunHolds
<1>2. worker.part \subseteq Pages /\ c \in DOMAIN clusters
  BY <1>1 DEF Places, Heirs, RunTyped
<1>3. /\ clusters' \in Seq(Rows) /\ DOMAIN clusters' = DOMAIN clusters
      /\ \A d \in DOMAIN clusters : clusters'[d].live = clusters[d].live
  <2>1. clusters[c] \in Rows
    BY <1>1, <1>2 DEF Typed
  <2>2. [clusters[c] EXCEPT !.members = some] = [members |-> some, live |-> clusters[c].live]
    BY <2>1 DEF Rows
  <2>3. clusters' = [clusters EXCEPT ![c] = [members |-> some, live |-> clusters[c].live]]
    BY <2>2
  <2>4. [members |-> some, live |-> clusters[c].live] \in Rows
    BY <1>2, <2>1 DEF Rows
  <2>5. clusters' \in Seq(Rows) /\ DOMAIN clusters' = DOMAIN clusters
    BY <1>1, <1>2, <2>3, <2>4 DEF Typed
  <2>6. QED
    BY <1>1, <1>2, <2>3, <2>5 DEF Typed
<1>4. /\ worker'.at = "idle" /\ cut' = cut \union Unrecorded
      /\ indexed' \subseteq Pages /\ runs' = runs /\ lineage' = lineage
  BY <1>1 DEF AttemptFails, Idle, Typed, pageVars
<1>5. QED
  BY <1>3, <1>4, EndKeeps

\* A page is purged, and its rows of the clusters with it.
LEMMA PurgeKeeps ==
    ASSUME ClusterInv, NEW p \in Pages, Purge(p)
    PROVE  ClusterInv'
<1>1. /\ clusters' = [c \in Ids |-> [clusters[c] EXCEPT !.members = @ \ {p}]]
      /\ indexed' = indexed \ {p} /\ UNCHANGED <<lineage, runs, worker, cut>>
  BY DEF Purge
<1>2. clusters \in Seq(Rows) /\ indexed \subseteq Pages
  BY DEF ClusterInv, Typed
<1>3. DOMAIN clusters = 1..Len(clusters) /\ Len(clusters) \in Nat /\ DOMAIN clusters' = DOMAIN clusters
  BY <1>1, <1>2 DEF Ids
<1>4. ASSUME NEW c \in DOMAIN clusters
      PROVE  /\ clusters'[c] \in Rows /\ clusters'[c].live = clusters[c].live
             /\ clusters'[c].members \subseteq clusters[c].members
  <2>1. clusters[c] \in Rows
    BY <1>2
  <2>2. clusters'[c] = [clusters[c] EXCEPT !.members = @ \ {p}]
    BY <1>1 DEF Ids
  <2>3. clusters'[c] = [members |-> clusters[c].members \ {p}, live |-> clusters[c].live]
    BY <2>1, <2>2 DEF Rows
  <2>4. QED
    BY <2>1, <2>3 DEF Rows
<1>5. clusters' = [c \in 1..Len(clusters) |-> clusters'[c]]
  BY <1>1, <1>3 DEF Ids
<1>6. clusters' \in Seq(Rows)
  BY <1>3, <1>4, <1>5
<1>7. Shrunk
  BY <1>3, <1>4, <1>6 DEF Shrunk
<1>8. QED
  BY <1>1, <1>2, <1>7, ShrunkKeeps

\* Every step keeps the invariant.
LEMMA ClusterStep ==
    ASSUME ClusterInv, [Next]_vars
    PROVE  ClusterInv'
<1>1. clusters \in Seq(Rows) /\ indexed \subseteq Pages
  BY DEF ClusterInv, Typed
<1>2. clusters' = clusters => Shrunk
  BY <1>1 DEF Shrunk
<1>3. CASE Enqueue \/ RequestRun \/ IdleTick
  BY <1>1, <1>2, <1>3, ShrunkKeeps DEF Enqueue, RequestRun, IdleTick, pageVars
<1>4. ASSUME NEW j \in DOMAIN jobs, Begin(j)
      PROVE  ClusterInv'
  <2>1. /\ worker'.at = "input" /\ runs' = runs /\ Unrecorded = {} /\ cut' = cut
        /\ UNCHANGED <<pageVars, clusters, lineage>>
    BY <1>4 DEF Begin, Idle, Unrecorded
  <2>2. QED
    BY <2>1, StopKeeps
<1>5. CASE ReadInput
  <2>1. /\ Unrecorded = {} /\ cut' = cut /\ UNCHANGED <<pageVars, clusters, lineage>>
        /\ \/ /\ worker'.at = "fit" /\ worker'.input = indexed
              /\ runs' = [runs EXCEPT !.newest = FALSE]
           \/ worker'.at = "idle" /\ runs' = runs
    BY <1>5 DEF ReadInput, At, InsertRun, Idle, Unrecorded
  <2>2. QED
    BY <1>1, <2>1, StopKeeps
<1>6. ASSUME AttemptFails, UNCHANGED <<pageVars, clusters, lineage, runs>>
      PROVE  ClusterInv'
  BY <1>6, StopKeeps DEF AttemptFails, Idle
<1>7. CASE Fit
  <2>1. CASE Trouble /\ AttemptFails
    BY <1>6, <1>7, <2>1 DEF Fit
  <2>2. CASE ~(Trouble /\ AttemptFails)
    <3>1. PICK parts \in Fits(worker.input) : \E heir \in Matches(parts, OldMembers) :
             worker' = [at |-> NextPart(parts), job |-> worker.job, input |-> worker.input,
                        heir |-> heir, old |-> OldMembers, todo |-> parts, part |-> {},
                        gone |-> {c \in Live : OldMembers[c] # {} /\ \A p \in parts : heir[p] # c}]
             /\ cut' = cut
      BY <1>7, <2>2 DEF Fit
    <3>2. PICK heir \in Matches(parts, OldMembers) :
             worker' = [at |-> NextPart(parts), job |-> worker.job, input |-> worker.input,
                        heir |-> heir, old |-> OldMembers, todo |-> parts, part |-> {},
                        gone |-> {c \in Live : OldMembers[c] # {} /\ \A p \in parts : heir[p] # c}]
             /\ cut' = cut
      BY <3>1
    <3>3. worker.at = "fit" /\ UNCHANGED <<indexed, clusters, lineage, runs>>
      BY <1>7 DEF Fit, At, pageVars
    <3>4. QED
      BY <3>2, <3>3, FitKeeps
  <2>3. QED
    BY <2>1, <2>2
<1>8. CASE ReplaceMembers
  <2>1. worker.at = "members" /\ UNCHANGED <<pageVars, indexed, lineage, runs>>
    BY <1>8 DEF ReplaceMembers, At, pageVars
  <2>2. CASE worker.part \cap purged = {}
    BY <1>8, <2>1, <2>2, ReplaceKeeps DEF ReplaceMembers
  <2>3. CASE worker.part \cap purged # {}
    BY <1>8, <2>1, <2>3, RefusedKeeps DEF ReplaceMembers
  <2>4. QED
    BY <2>2, <2>3
<1>9. CASE Projection
  BY <1>6, <1>9, FinishKeeps DEF Projection
<1>10. CASE Chain
  <2>1. /\ worker'.at = "idle" /\ runs' = runs /\ Unrecorded = {} /\ cut' = cut
        /\ UNCHANGED <<pageVars, clusters, lineage>>
    BY <1>10 DEF Chain, At, Idle, Unrecorded
  <2>2. QED
    BY <2>1, StopKeeps
<1>11. CASE IndexPage
  <2>1. indexed' \subseteq Pages /\ UNCHANGED <<clusters, lineage, cut, worker, runs>>
    BY <1>1, <1>11 DEF IndexPage
  <2>2. QED
    BY <1>2, <2>1, ShrunkKeeps
<1>12. CASE LeaseExpires
  BY <1>6, <1>12 DEF LeaseExpires
<1>13. CASE Crash
  BY <1>13, StopKeeps DEF Crash, Idle
<1>14. CASE UNCHANGED vars
  <2>1. indexed' \subseteq Pages /\ UNCHANGED <<clusters, lineage, cut, worker, runs>>
    BY <1>1, <1>14 DEF vars, pageVars
  <2>2. QED
    BY <1>2, <2>1, ShrunkKeeps
<1>15. QED
  BY <1>3, <1>4, <1>5, <1>7, <1>8, <1>9, <1>10, <1>11, <1>12, <1>13, <1>14,
     UpsertKeeps, TombstoneKeeps, LineageKeeps, FinishKeeps, PurgeKeeps DEF Next, Run

\* The invariant of the run holds of every reachable state.
THEOREM ClusterInvariant == Spec => []ClusterInv
<1>1. Init => ClusterInv
  <2> SUFFICES ASSUME Init PROVE ClusterInv
    OBVIOUS
  <2>1. worker.at = "idle" /\ clusters = <<>> /\ lineage = {}
    BY DEF Init, Idle
  <2>2. Typed
    BY <2>1 DEF Init, Typed
  <2>3. Ids = {}
    BY <2>1 DEF Ids
  <2>4. Told
    BY <2>1, <2>3 DEF Told
  <2>5. OnePlace
    BY <2>3 DEF OnePlace, Live
  <2>6. QED
    BY <2>1, <2>2, <2>4, <2>5 DEF ClusterInv, InRun, RunPlaces
<1>2. ClusterInv /\ [Next]_vars => ClusterInv'
  BY ClusterStep
<1>3. QED
  BY <1>1, <1>2, PTL DEF Spec

\* When the newest run has finished, no page is in two live clusters, whatever
\* attempts were cut short before it and pages purged during it.
THEOREM PagesInOnePlace == Spec => []OnePlace
<1>1. ClusterInv => OnePlace
  BY DEF ClusterInv
<1>2. QED
  BY <1>1, ClusterInvariant, PTL

\* When the newest run has finished, the lineage tells of the birth of every
\* cluster and of the death of every tombstoned one, but for those an attempt
\* cut short left untold.
THEOREM LineageIsTold == Spec => []LineageAccounts
<1>1. ClusterInv => LineageAccounts
  <2> SUFFICES ASSUME ClusterInv, runs.newest, NEW c \in Ids \ cut
               PROVE  /\ \E event \in Births : <<event, c>> \in lineage
                      /\ (\E event \in Deaths : <<event, c>> \in lineage) <=> ~clusters[c].live
    BY DEF LineageAccounts
  <2>1. Untold(worker) = {} /\ Unburied(worker) = {}
    BY DEF ClusterInv, RunPlaces, Untold, Unburied
  <2>2. c \in Nat
    BY DEF ClusterInv, Typed, Ids
  <2>3. QED
    BY <2>1, <2>2 DEF ClusterInv, Told
<1>2. QED
  BY <1>1, ClusterInvariant, PTL
-----------------------------------------------------------------------------
(* Folds over finite sets.                                                 *)

\* A set of numbers that no number is the first of has none.
LEMMA NoFirst ==
    ASSUME NEW B \in SUBSET Nat, 0 \notin B, \A n \in Nat : n + 1 \in B => n \in B
    PROVE  B = {}
<1> SUFFICES ASSUME B # {}
             PROVE  FALSE
  OBVIOUS
<1>1. PICK n \in B : \A x \in B : n <= x
  BY MinIsLeast
<1>2. n - 1 \in Nat /\ (n - 1) + 1 = n
  BY <1>1
<1>3. n - 1 \in B
  BY <1>2
<1>4. QED
  BY <1>1, <1>2, <1>3

\* The fold of a finite set that takes the elements in the order of pick.
Folds(S, base, pick, step, h) ==
    \A s \in SUBSET S : h[s] = IF s = {} THEN base ELSE step[<<pick[s], h[s \ {pick[s]}]>>]

\* There is such a fold.
LEMMA FoldExists ==
    ASSUME NEW S, IsFiniteSet(S), NEW V, NEW base \in V,
           NEW pick, \A s \in SUBSET S : s # {} => pick[s] \in s,
           NEW step \in [S \X V -> V]
    PROVE  \E h \in [SUBSET S -> V] : Folds(S, base, pick, step, h)
<1> DEFINE Small(n) == {s \in SUBSET S : Cardinality(s) <= n}
           Good(n, h) == \A s \in Small(n) :
                            h[s] = IF s = {} THEN base ELSE step[<<pick[s], h[s \ {pick[s]}]>>]
           Bad == {n \in Nat : ~ \E h \in [Small(n) -> V] : Good(n, h)}
<1>1. \A s \in SUBSET S : IsFiniteSet(s) /\ Cardinality(s) \in Nat
  BY FS_Subset, FS_CardinalityType
<1>2. \A s \in SUBSET S : s # {} => /\ s \ {pick[s]} \in SUBSET S /\ pick[s] \in S
                                    /\ Cardinality(s \ {pick[s]}) = Cardinality(s) - 1
  BY <1>1, FS_RemoveElement
<1>3. \A s \in SUBSET S : Cardinality(s) = 0 <=> s = {}
  BY <1>1, FS_EmptySet
<1>4. 0 \notin Bad
  <2> DEFINE h == [s \in Small(0) |-> base]
  <2>1. h \in [Small(0) -> V]
    OBVIOUS
  <2>2. \A s \in Small(0) : s = {}
    BY <1>1, <1>3
  <2>3. Good(0, h)
    BY <2>2
  <2>4. QED
    BY <2>1, <2>3
<1>5. ASSUME NEW n \in Nat, n \notin Bad
      PROVE  n + 1 \notin Bad
  <2>1. PICK h \in [Small(n) -> V] : Good(n, h)
    BY <1>5
  <2> DEFINE g == [s \in Small(n + 1) |-> IF s \in Small(n) THEN h[s]
                                         ELSE step[<<pick[s], h[s \ {pick[s]}]>>]]
  <2>2. \A s \in Small(n + 1) : s # {} => s \ {pick[s]} \in Small(n) /\ pick[s] \in S
    BY <1>1, <1>2
  <2>3. {} \in Small(n) /\ \A s \in Small(n) : s \in Small(n + 1)
    BY <1>1, <1>3
  <2>4. g \in [Small(n + 1) -> V]
    <3>1. ASSUME NEW s \in Small(n + 1)
          PROVE  (IF s \in Small(n) THEN h[s] ELSE step[<<pick[s], h[s \ {pick[s]}]>>]) \in V
      <4>1. CASE s \in Small(n)
        BY <4>1
      <4>2. CASE s \notin Small(n)
        <5>1. s # {}
          BY <2>3, <4>2
        <5>2. <<pick[s], h[s \ {pick[s]}]>> \in S \X V
          BY <2>2, <5>1
        <5>3. QED
          BY <4>2, <5>2
      <4>3. QED
        BY <4>1, <4>2
    <3>2. QED
      BY <3>1
  <2>5. ASSUME NEW s \in Small(n + 1)
        PROVE  g[s] = IF s = {} THEN base ELSE step[<<pick[s], g[s \ {pick[s]}]>>]
    <3>1. CASE s = {}
      BY <2>1, <2>3, <3>1
    <3>2. CASE s # {}
      <4>1. g[s \ {pick[s]}] = h[s \ {pick[s]}]
        BY <2>2, <2>3, <3>2
      <4>2. g[s] = step[<<pick[s], h[s \ {pick[s]}]>>]
        BY <2>1, <3>2
      <4>3. QED
        BY <3>2, <4>1, <4>2
    <3>3. QED
      BY <3>1, <3>2
  <2>6. Good(n + 1, g)
    BY <2>5
  <2>7. QED
    BY <2>4, <2>6
<1>6. Bad = {}
  <2> HIDE DEF Bad
  <2>1. Bad \in SUBSET Nat
    BY DEF Bad
  <2>2. QED
    BY <1>4, <1>5, <2>1, NoFirst
<1>7. Cardinality(S) \in Nat /\ Small(Cardinality(S)) = SUBSET S
  BY <1>1, FS_Subset, FS_CardinalityType
<1>8. PICK h \in [Small(Cardinality(S)) -> V] : Good(Cardinality(S), h)
  BY <1>6, <1>7
<1>9. QED
  BY <1>7, <1>8 DEF Folds

\* And only one.
LEMMA FoldUnique ==
    ASSUME NEW S, IsFiniteSet(S), NEW base,
           NEW pick, \A s \in SUBSET S : s # {} => pick[s] \in s,
           NEW step, NEW h, NEW g, Folds(S, base, pick, step, h), Folds(S, base, pick, step, g)
    PROVE  \A s \in SUBSET S : h[s] = g[s]
<1> DEFINE Bad == {n \in Nat : \E s \in SUBSET S : Cardinality(s) = n /\ h[s] # g[s]}
<1>1. \A s \in SUBSET S : IsFiniteSet(s) /\ Cardinality(s) \in Nat
  BY FS_Subset, FS_CardinalityType
<1>2. ASSUME NEW n \in Nat, n \in Bad
      PROVE  n # 0 /\ n - 1 \in Bad
  <2>1. PICK s \in SUBSET S : Cardinality(s) = n /\ h[s] # g[s]
    BY <1>2
  <2>2. s # {}
    BY <2>1 DEF Folds
  <2>3. h[s \ {pick[s]}] # g[s \ {pick[s]}]
    BY <2>1, <2>2 DEF Folds
  <2>4. Cardinality(s \ {pick[s]}) = n - 1 /\ s \ {pick[s]} \in SUBSET S
    BY <1>1, <2>1, <2>2, FS_RemoveElement
  <2>5. n - 1 \in Nat
    BY <1>1, <2>4
  <2>6. QED
    BY <2>3, <2>4, <2>5
<1>3. Bad = {}
  <2> HIDE DEF Bad
  <2>1. Bad \in SUBSET Nat
    BY DEF Bad
  <2>2. ASSUME NEW n \in Nat, n + 1 \in Bad
        PROVE  n \in Bad
    <3>1. n + 1 \in Nat /\ (n + 1) - 1 = n
      OBVIOUS
    <3>2. QED
      BY <1>2, <2>2, <3>1
  <2>3. 0 \notin Bad
    BY <1>2
  <2>4. QED
    BY <2>1, <2>2, <2>3, NoFirst
<1>4. QED
  BY <1>1, <1>3

-----------------------------------------------------------------------------
(* The worth of a pairing.                                                 *)

\* What a part adds to it.
Value(f, old) == [p \in DOMAIN f |-> IF f[p] = NoHeir THEN 0 ELSE Jaccard(p, old[f[p]])]

\* The sum of the values of a set of parts, taken in the order of CHOOSE.
Sums(v, S, h) ==
    /\ h \in [SUBSET S -> Nat]
    /\ \A s \in SUBSET S :
          h[s] = IF s = {} THEN 0
                 ELSE v[CHOOSE x \in s : TRUE] + h[s \ {CHOOSE x \in s : TRUE}]

\* Numbers on a finite set can be summed up.
LEMMA SumExists ==
    ASSUME NEW S, IsFiniteSet(S), NEW v \in [S -> Nat]
    PROVE  \E h : Sums(v, S, h)
<1> DEFINE pick == [s \in SUBSET S |-> CHOOSE x \in s : TRUE]
           step == [e \in S \X Nat |-> v[e[1]] + e[2]]
<1>1. \A s \in SUBSET S : s # {} => pick[s] \in s
  OBVIOUS
<1>2. step \in [S \X Nat -> Nat]
  OBVIOUS
<1> HIDE DEF step, pick
<1>3. PICK h \in [SUBSET S -> Nat] : Folds(S, 0, pick, step, h)
  BY <1>1, <1>2, FoldExists
<1>4. ASSUME NEW s \in SUBSET S
      PROVE  h[s] = IF s = {} THEN 0
                    ELSE v[CHOOSE x \in s : TRUE] + h[s \ {CHOOSE x \in s : TRUE}]
  <2>1. CASE s = {}
    BY <1>3, <2>1 DEF Folds
  <2>2. CASE s # {}
    <3>1. h[s] = step[<<pick[s], h[s \ {pick[s]}]>>]
      BY <1>3, <2>2 DEF Folds
    <3>2. pick[s] \in S /\ h[s \ {pick[s]}] \in Nat
      BY <1>1, <2>2
    <3>3. h[s] = v[pick[s]] + h[s \ {pick[s]}]
      BY <3>1, <3>2 DEF step
    <3>4. pick[s] = CHOOSE x \in s : TRUE
      BY DEF pick
    <3>5. QED
      BY <2>2, <3>3, <3>4
  <2>3. QED
    BY <2>1, <2>2
<1>5. QED
  BY <1>3, <1>4 DEF Sums

\* The worth of a pairing is such a sum.
LEMMA WorthIsSum ==
    ASSUME NEW f, NEW old, IsFiniteSet(DOMAIN f), Value(f, old) \in [DOMAIN f -> Nat]
    PROVE  \E h : Sums(Value(f, old), DOMAIN f, h) /\ Worth(f, old) = h[DOMAIN f]
<1> DEFINE S == DOMAIN f
           val(p) == IF f[p] = NoHeir THEN 0 ELSE Jaccard(p, old[f[p]])
           Is(g) == g = [s \in SUBSET S |->
                   IF s = {} THEN 0
                   ELSE val(CHOOSE x \in s : TRUE) + g[s \ {CHOOSE x \in s : TRUE}]]
           G == CHOOSE g : Is(g)
<1>1. Worth(f, old) = G[S]
  BY DEF Worth, MapThenSumSet, MapThenFoldSet
<1>2. PICK h : Sums(Value(f, old), S, h)
  BY SumExists
<1>3. Is(h)
  <2>1. h \in [SUBSET S -> Nat]
    BY <1>2 DEF Sums
  <2>2. ASSUME NEW s \in SUBSET S
        PROVE  h[s] = IF s = {} THEN 0
                   ELSE val(CHOOSE x \in s : TRUE) + h[s \ {CHOOSE x \in s : TRUE}]
    <3>1. h[s] = IF s = {} THEN 0
                 ELSE Value(f, old)[CHOOSE x \in s : TRUE] + h[s \ {CHOOSE x \in s : TRUE}]
      BY <1>2 DEF Sums
    <3>2. s # {} => (CHOOSE x \in s : TRUE) \in S
      OBVIOUS
    <3>3. QED
      BY <3>1, <3>2 DEF Value
  <2>3. QED
    BY <2>1, <2>2
<1>4. Is(G)
  <2> HIDE DEF Is
  <2>1. QED
    BY <1>3
<1>5. \A s \in SUBSET S : G[s] = h[s]
  <2> DEFINE pick == [s \in SUBSET S |-> CHOOSE x \in s : TRUE]
             step == [e \in S \X (Nat \union {G[s] : s \in SUBSET S}) |-> val(e[1]) + e[2]]
  <2> HIDE DEF G
  <2>1. \A s \in SUBSET S : s # {} => pick[s] \in s /\ pick[s] \in S
    OBVIOUS
  <2>2. h \in [SUBSET S -> Nat]
    BY <1>2 DEF Sums
  <2>3. \A p \in S, s \in SUBSET S : /\ step[<<p, h[s]>>] = val(p) + h[s]
                                    /\ step[<<p, G[s]>>] = val(p) + G[s]
    BY <2>2
  <2> HIDE DEF step, val
  <2>4. ASSUME NEW s \in SUBSET S
        PROVE  /\ h[s] = IF s = {} THEN 0 ELSE step[<<pick[s], h[s \ {pick[s]}]>>]
               /\ G[s] = IF s = {} THEN 0 ELSE step[<<pick[s], G[s \ {pick[s]}]>>]
    <3>1. s \ {pick[s]} \in SUBSET S /\ pick[s] = CHOOSE x \in s : TRUE
      OBVIOUS
    <3>2. /\ h[s] = IF s = {} THEN 0 ELSE val(pick[s]) + h[s \ {pick[s]}]
          /\ G[s] = IF s = {} THEN 0 ELSE val(pick[s]) + G[s \ {pick[s]}]
      BY <1>3, <1>4, <3>1
    <3>3. CASE s = {}
      BY <3>2, <3>3
    <3>4. CASE s # {}
      <4>1. pick[s] \in S
        BY <2>1, <3>4
      <4> HIDE DEF pick
      <4>2. /\ step[<<pick[s], h[s \ {pick[s]}]>>] = val(pick[s]) + h[s \ {pick[s]}]
            /\ step[<<pick[s], G[s \ {pick[s]}]>>] = val(pick[s]) + G[s \ {pick[s]}]
        BY <2>3, <3>1, <4>1
      <4>3. QED
        BY <3>2, <3>4, <4>2
    <3>5. QED
      BY <3>3, <3>4
  <2> HIDE DEF pick
  <2>5. Folds(S, 0, pick, step, h) /\ Folds(S, 0, pick, step, G)
    BY <2>4 DEF Folds
  <2>6. QED
    BY <2>1, <2>5, FoldUnique
<1>6. QED
  BY <1>1, <1>2, <1>5

\* What is worth more in one part, and no less in the others, is worth more.
LEMMA SumsGrow ==
    ASSUME NEW S, IsFiniteSet(S), NEW v \in [S -> Nat], NEW w \in [S -> Nat],
           NEW h, NEW g, Sums(v, S, h), Sums(w, S, g), \A p \in S : v[p] <= w[p]
    PROVE  /\ h[S] <= g[S] /\ h[S] \in Nat /\ g[S] \in Nat
           /\ (\E p \in S : v[p] < w[p]) => h[S] < g[S]
<1> DEFINE Fine(s) == h[s] <= g[s] /\ ((\E p \in s : v[p] < w[p]) => h[s] < g[s])
           Bad == {n \in Nat : \E s \in SUBSET S : Cardinality(s) = n /\ ~Fine(s)}
<1>1. \A s \in SUBSET S : IsFiniteSet(s) /\ Cardinality(s) \in Nat
  BY FS_Subset, FS_CardinalityType
<1>2. h \in [SUBSET S -> Nat] /\ g \in [SUBSET S -> Nat]
  BY DEF Sums
<1>3. ASSUME NEW s \in SUBSET S, s # {}, Fine(s \ {CHOOSE x \in s : TRUE})
      PROVE  Fine(s)
  <2> DEFINE p == CHOOSE x \in s : TRUE
             rest == s \ {p}
  <2>1. p \in s /\ rest \in SUBSET S
    BY <1>3
  <2>2. h[s] = v[p] + h[rest] /\ g[s] = w[p] + g[rest]
    BY <1>3 DEF Sums
  <2>3. Fine(rest)
    BY <1>3
  <2>4. \A q \in s : q = p \/ q \in rest
    OBVIOUS
  <2> HIDE DEF p, rest
  <2>5. /\ h[rest] \in Nat /\ g[rest] \in Nat /\ v[p] \in Nat /\ w[p] \in Nat /\ v[p] <= w[p]
        /\ h[rest] <= g[rest]
    BY <1>2, <2>1, <2>3
  <2>6. h[s] <= g[s]
    BY <2>2, <2>5
  <2>7. ASSUME NEW q \in s, v[q] < w[q]
        PROVE  h[s] < g[s]
    <3>1. CASE q = p
      BY <2>2, <2>5, <2>7, <3>1
    <3>2. CASE q \in rest
      <4>1. h[rest] < g[rest]
        BY <2>3, <2>7, <3>2
      <4>2. QED
        BY <2>2, <2>5, <4>1
    <3>3. QED
      BY <2>4, <3>1, <3>2
  <2>8. QED
    BY <2>6, <2>7
<1>4. ASSUME NEW s \in SUBSET S, s = {}
      PROVE  Fine(s)
  BY <1>4 DEF Sums
<1> HIDE DEF Fine
<1>5. 0 \notin Bad
  BY <1>1, <1>4, FS_EmptySet
<1>6. ASSUME NEW n \in Nat, n + 1 \in Bad
      PROVE  n \in Bad
  <2>1. PICK s \in SUBSET S : Cardinality(s) = n + 1 /\ ~Fine(s)
    BY <1>6
  <2> DEFINE rest == s \ {CHOOSE x \in s : TRUE}
  <2>2. s # {} /\ (CHOOSE x \in s : TRUE) \in s /\ ~Fine(rest)
    BY <1>3, <1>4, <2>1
  <2>3. rest \in SUBSET S /\ Cardinality(rest) = n
    <3>1. IsFiniteSet(s)
      BY <1>1
    <3>2. Cardinality(rest) = Cardinality(s) - 1
      BY <2>2, <3>1, FS_RemoveElement
    <3>3. QED
      BY <2>1, <3>2
  <2> HIDE DEF rest
  <2>4. QED
    BY <2>2, <2>3
<1>7. Bad = {}
  <2> HIDE DEF Bad
  <2>1. Bad \in SUBSET Nat
    BY DEF Bad
  <2>2. QED
    BY <1>5, <1>6, <2>1, NoFirst
<1>8. Fine(S)
  BY <1>1, <1>7
<1>9. QED
  BY <1>2, <1>8 DEF Fine

\* Bounded numbers have a greatest.
LEMMA MaxIsGreatest ==
    ASSUME NEW B \in Nat, NEW A \in SUBSET (0..B), A # {}
    PROVE  Max(A) \in A /\ \A a \in A : a <= Max(A)
<1> DEFINE Gaps == {n \in Nat : \E a \in A : n = B - a}
<1>1. PICK g \in Gaps : \A n \in Gaps : g <= n
  <2>1. \A a \in A : B - a \in Nat /\ B - a \in Gaps
    OBVIOUS
  <2> HIDE DEF Gaps
  <2>2. Gaps # {}
    BY <2>1
  <2>3. Gaps \in SUBSET Nat
    BY DEF Gaps
  <2>4. QED
    BY <2>2, <2>3, MinIsLeast
<1>2. PICK a \in A : g = B - a
  OBVIOUS
<1>3. ASSUME NEW b \in A
      PROVE  a >= b
  <2>1. B - b \in Gaps
    OBVIOUS
  <2>2. QED
    BY <1>1, <1>2, <2>1
<1>4. QED
  BY <1>3 DEF Max

\* The greatest of the first numbers is the last.
LEMMA LastIsMax ==
    ASSUME NEW n \in Nat \ {0}
    PROVE  Max(1..n) = n /\ (1..n) \ {n} = 1..(n - 1)
<1>1. n \in 1..n /\ \A y \in 1..n : n >= y
  OBVIOUS
<1>2. \A x \in 1..n : (\A y \in 1..n : x >= y) => x = n
  OBVIOUS
<1>3. Max(1..n) = n
  BY <1>1, <1>2 DEF Max
<1>4. QED
  BY <1>3

\* The factorials, as the fold in Unit makes them.
Products(h) ==
    \A s \in SUBSET Pages :
        h[s] = IF s = {} THEN 1 ELSE h[s \ {Max(s)}] * Max(s)

\* Unit is the fold over all pages.
LEMMA UnitIsProduct ==
    \E h : h \in [SUBSET Pages -> Nat] /\ Products(h) /\ Unit = h[Pages]
<1> DEFINE S == DOMAIN [k \in Pages |-> k]
           Is(g) == g = [s \in SUBSET S |->
                   IF s = {} THEN 1 ELSE g[s \ {Max(s)}] * [k \in Pages |-> k][Max(s)]]
           G == CHOOSE g : Is(g)
           pick == [s \in SUBSET Pages |-> Max(s)]
           step == [e \in Pages \X Nat |-> e[2] * e[1]]
<1>1. Unit = G[S] /\ S = Pages
  BY DEF Unit, FoldLeft, MapThenFoldSet
<1>2. IsFiniteSet(Pages)
  BY SizesAssumption, FS_Interval DEF Pages
<1>3. ASSUME NEW s \in SUBSET Pages, s # {}
      PROVE  Max(s) \in s
  <2>1. s \in SUBSET (0..NPages) /\ NPages \in Nat
    BY SizesAssumption DEF Pages
  <2>2. QED
    BY <1>3, <2>1, MaxIsGreatest
<1>4. \A s \in SUBSET Pages : s # {} => pick[s] \in s
  BY <1>3
<1>5. step \in [Pages \X Nat -> Nat]
  BY SizesAssumption DEF Pages
<1> HIDE DEF pick, step
<1>6. PICK h \in [SUBSET Pages -> Nat] : Folds(Pages, 1, pick, step, h)
  BY <1>2, <1>4, <1>5, FoldExists
<1>7. ASSUME NEW s \in SUBSET Pages
      PROVE  h[s] = IF s = {} THEN 1 ELSE h[s \ {Max(s)}] * Max(s)
  <2>1. CASE s = {}
    BY <1>6, <2>1 DEF Folds
  <2>2. CASE s # {}
    <3>1. h[s] = step[<<pick[s], h[s \ {pick[s]}]>>]
      BY <1>6, <2>2 DEF Folds
    <3>2. pick[s] = Max(s) /\ Max(s) \in Pages /\ h[s \ {Max(s)}] \in Nat
      BY <1>3, <2>2 DEF pick
    <3>3. QED
      BY <2>2, <3>1, <3>2 DEF step
  <2>3. QED
    BY <2>1, <2>2
<1>8. Is(h)
  <2>1. \A s \in SUBSET Pages : s # {} => [k \in Pages |-> k][Max(s)] = Max(s)
    BY <1>3
  <2>2. S = Pages /\ h = [s \in SUBSET Pages |-> h[s]]
    BY <1>1, <1>6
  <2>3. \A s \in SUBSET Pages :
           h[s] = IF s = {} THEN 1 ELSE h[s \ {Max(s)}] * [k \in Pages |-> k][Max(s)]
    BY <1>7, <2>1
  <2>4. QED
    BY <2>2, <2>3
<1>9. Is(G)
  <2> HIDE DEF Is
  <2>1. QED
    BY <1>8
<1>10. G \in [SUBSET Pages -> Nat] /\ Products(G)
  <2> DEFINE all == Nat \union {G[s] : s \in SUBSET Pages}
             turn == [e \in Pages \X all |-> e[2] * e[1]]
  <2> HIDE DEF G
  <2>1. \A s \in SUBSET Pages :
           G[s] = IF s = {} THEN 1 ELSE G[s \ {Max(s)}] * Max(s)
    BY <1>1, <1>3, <1>9
  <2>2. \A p \in Pages, s \in SUBSET Pages :
           turn[<<p, h[s]>>] = h[s] * p /\ turn[<<p, G[s]>>] = G[s] * p
    OBVIOUS
  <2> HIDE DEF turn
  <2>3. ASSUME NEW s \in SUBSET Pages
        PROVE  /\ h[s] = IF s = {} THEN 1 ELSE turn[<<pick[s], h[s \ {pick[s]}]>>]
               /\ G[s] = IF s = {} THEN 1 ELSE turn[<<pick[s], G[s \ {pick[s]}]>>]
    <3>1. pick[s] = Max(s) /\ s \ {Max(s)} \in SUBSET Pages /\ (s # {} => Max(s) \in Pages)
      BY <1>3 DEF pick
    <3>2. CASE s = {}
      BY <1>7, <2>1, <3>2
    <3>3. CASE s # {}
      <4>1. /\ turn[<<Max(s), h[s \ {Max(s)}]>>] = h[s \ {Max(s)}] * Max(s)
            /\ turn[<<Max(s), G[s \ {Max(s)}]>>] = G[s \ {Max(s)}] * Max(s)
        BY <2>2, <3>1, <3>3
      <4>2. /\ h[s] = h[s \ {Max(s)}] * Max(s)
            /\ G[s] = G[s \ {Max(s)}] * Max(s)
        BY <1>7, <2>1, <3>3
      <4>3. QED
        BY <3>1, <3>3, <4>1, <4>2
    <3>4. QED
      BY <3>2, <3>3
  <2>4. Folds(Pages, 1, pick, turn, h) /\ Folds(Pages, 1, pick, turn, G)
    BY <2>3 DEF Folds
  <2>5. \A s \in SUBSET Pages : G[s] = h[s]
    BY <1>2, <1>4, <2>4, FoldUnique
  <2>6. DOMAIN G = SUBSET Pages /\ G = [s \in SUBSET Pages |-> G[s]]
    BY <1>1, <1>9
  <2>7. G \in [SUBSET Pages -> Nat]
    BY <1>6, <2>5, <2>6
  <2>8. QED
    BY <2>1, <2>7 DEF Products
<1>11. QED
  BY <1>1, <1>10

\* Every number of pages divides the unit.
LEMMA UnitDivides ==
    /\ Unit \in Nat \ {0}
    /\ \A k \in Pages : \E m \in Nat : Unit = m * k
<1>1. PICK h \in [SUBSET Pages -> Nat] : Products(h) /\ Unit = h[Pages]
  BY UnitIsProduct
<1>2. NPages \in Nat
  BY SizesAssumption
<1> DEFINE U(n) == h[1..n]
           Fine(n) == U(n) \in Nat \ {0} /\ \A k \in 1..n : \E m \in Nat : U(n) = m * k
           Bad == {n \in Nat : n <= NPages /\ ~Fine(n)}
<1>3. U(0) = 1
  <2>1. 1..0 = {} /\ {} \in SUBSET Pages
    OBVIOUS
  <2>2. h[{}] = 1
    BY <1>1, <2>1 DEF Products
  <2>3. QED
    BY <2>1, <2>2
<1>4. ASSUME NEW n \in Nat, n + 1 <= NPages
      PROVE  U(n + 1) = U(n) * (n + 1)
  <2>1. 1..(n + 1) \in SUBSET Pages /\ 1..(n + 1) # {}
    BY <1>2, <1>4 DEF Pages
  <2>2. Max(1..(n + 1)) = n + 1 /\ (1..(n + 1)) \ {n + 1} = 1..((n + 1) - 1)
    BY LastIsMax
  <2>3. (n + 1) - 1 = n
    OBVIOUS
  <2>4. QED
    BY <1>1, <2>1, <2>2, <2>3 DEF Products
<1>5. ASSUME NEW n \in Nat, n + 1 <= NPages, Fine(n)
      PROVE  Fine(n + 1)
  <2> DEFINE u == U(n)
  <2>1. u \in Nat \ {0} /\ \A k \in 1..n : \E m \in Nat : u = m * k
    BY <1>5
  <2>2. U(n + 1) = u * (n + 1)
    BY <1>4, <1>5
  <2> HIDE DEF u
  <2>3. u * (n + 1) \in Nat \ {0}
    BY <2>1
  <2>4. ASSUME NEW k \in 1..(n + 1)
        PROVE  \E m \in Nat : u * (n + 1) = m * k
    <3>1. CASE k = n + 1
      BY <2>1, <3>1
    <3>2. CASE k # n + 1
      <4>0. k \in 1..n
        BY <3>2
      <4>1. PICK m \in Nat : u = m * k
        BY <2>1, <4>0
      <4>2. (m * k) * (n + 1) = (m * (n + 1)) * k /\ m * (n + 1) \in Nat
        BY <4>1
      <4>3. QED
        BY <4>1, <4>2
    <3>3. QED
      BY <3>1, <3>2
  <2>5. QED
    BY <2>2, <2>3, <2>4
<1>6. Fine(0)
  BY <1>3
<1> HIDE DEF Fine
<1>7. Bad = {}
  <2>1. 0 \notin Bad
    BY <1>6
  <2>2. \A n \in Nat : n + 1 \in Bad => n \in Bad
    BY <1>2, <1>5
  <2>3. Bad \in SUBSET Nat
    OBVIOUS
  <2> HIDE DEF Bad
  <2>4. QED
    BY <2>1, <2>2, <2>3, NoFirst
<1>8. Fine(NPages)
  BY <1>2, <1>7
<1>9. QED
  BY <1>1, <1>8 DEF Fine, Pages

-----------------------------------------------------------------------------
(* Who has the pages of a part exactly is its heir.                        *)

\* Jaccard's coefficient is 1 for equal sets, 0 for sets that are apart, and
\* less than 1 for different ones.
LEMMA JaccardRange ==
    ASSUME NEW a \in SUBSET Pages, NEW b \in SUBSET Pages, a # {}
    PROVE  /\ Jaccard(a, b) \in Nat
           /\ Jaccard(a, a) = Unit
           /\ a # b => Jaccard(a, b) < Unit
           /\ a \cap b = {} => Jaccard(a, b) = 0
<1> DEFINE n == Cardinality(a \cap b)
           u == Cardinality(a \union b)
<1>1. IsFiniteSet(Pages) /\ Cardinality(Pages) = NPages /\ NPages \in Nat
  BY SizesAssumption, FS_Interval DEF Pages
<1>2. ASSUME NEW s \in SUBSET Pages
      PROVE  /\ IsFiniteSet(s) /\ Cardinality(s) \in Nat /\ Cardinality(s) <= NPages
             /\ s # {} => Cardinality(s) \in Pages
             /\ Cardinality(s) = 0 <=> s = {}
  <2>1. IsFiniteSet(s) /\ Cardinality(s) \in Nat /\ Cardinality(s) <= NPages
    BY <1>1, FS_Subset, FS_CardinalityType
  <2>2. Cardinality(s) = 0 <=> s = {}
    BY <2>1, FS_EmptySet
  <2>3. s # {} => Cardinality(s) \in 1..NPages
    BY <1>1, <2>1, <2>2
  <2>4. QED
    BY <2>1, <2>2, <2>3 DEF Pages
<1>3. ASSUME NEW k \in Pages
      PROVE  Unit \div k \in Nat \ {0} /\ k * (Unit \div k) = Unit
  <2>1. PICK m \in Nat : Unit = m * k
    BY UnitDivides
  <2>2. k \in Nat \ {0} /\ Unit \in Nat \ {0}
    BY UnitDivides, SizesAssumption DEF Pages
  <2>3. (m * k) \div k = m
    BY <2>2
  <2>4. m # 0
    BY <2>1, <2>2
  <2>5. QED
    BY <2>1, <2>2, <2>3, <2>4
<1>4. /\ a \union b \in SUBSET Pages /\ a \union b # {} /\ a \cap b \in SUBSET Pages
  OBVIOUS
<1>5. Jaccard(a, b) = n * (Unit \div u)
  BY <1>4 DEF Jaccard
<1>6. n \in Nat /\ u \in Pages /\ u \in Nat
  BY <1>2, <1>4
<1>7. Unit \div u \in Nat \ {0} /\ u * (Unit \div u) = Unit
  BY <1>3, <1>6
<1>8. Jaccard(a, b) \in Nat
  BY <1>5, <1>6, <1>7
<1>9. Jaccard(a, a) = Unit
  <2>1. a \union a = a /\ a \cap a = a /\ Cardinality(a) \in Pages
    BY <1>2
  <2>2. Jaccard(a, a) = Cardinality(a) * (Unit \div Cardinality(a))
    BY <2>1 DEF Jaccard
  <2>3. QED
    BY <1>3, <2>1, <2>2
<1>10. ASSUME a # b
       PROVE  Jaccard(a, b) < Unit
  <2>1. a \cap b \in SUBSET (a \union b) /\ a \cap b # a \union b
    BY <1>10
  <2>2. IsFiniteSet(a \union b)
    BY <1>2, <1>4
  <2>3. n <= u /\ n # u
    BY <2>1, <2>2, FS_Subset
  <2> DEFINE d == Unit \div u
  <2>4. n \in Nat /\ u \in Nat /\ n < u /\ d \in Nat \ {0}
    BY <1>6, <1>7, <2>3
  <2> HIDE DEF n, u, d
  <2>5. n * d < u * d
    BY <2>4
  <2>6. QED
    BY <1>5, <1>7, <2>5 DEF d
<1>11. ASSUME a \cap b = {}
       PROVE  Jaccard(a, b) = 0
  <2>1. n = 0
    BY <1>11, FS_EmptySet
  <2>2. QED
    BY <1>5, <1>7, <2>1
<1>12. QED
  BY <1>8, <1>9, <1>10, <1>11

\* The worths of pairings are numbers, and bounded.
LEMMA WorthBounded ==
    ASSUME NEW parts \in SUBSET (SUBSET Pages), {} \notin parts,
           NEW old, \A c \in DOMAIN old : old[c] \in SUBSET Pages
    PROVE  /\ IsFiniteSet(parts)
           /\ \A f \in Pairings(parts, old) :
                 DOMAIN f = parts /\ Value(f, old) \in [parts -> 0..Unit]
           /\ \E B \in Nat : \A f \in Pairings(parts, old) : Worth(f, old) \in 0..B
<1>1. IsFiniteSet(parts)
  <2>1. IsFiniteSet(SUBSET Pages)
    <3>1. IsFiniteSet(Pages)
      BY SizesAssumption, FS_Interval DEF Pages
    <3>2. QED
      BY <3>1, FS_SUBSET
  <2>2. QED
    BY <2>1, FS_Subset
<1>2. ASSUME NEW f \in Pairings(parts, old)
      PROVE  DOMAIN f = parts /\ Value(f, old) \in [parts -> 0..Unit]
  <2>1. f \in [parts -> DOMAIN old \union {NoHeir}]
    BY DEF Pairings
  <2>2. ASSUME NEW p \in parts
        PROVE  (IF f[p] = NoHeir THEN 0 ELSE Jaccard(p, old[f[p]])) \in 0..Unit
    <3>1. p \in SUBSET Pages /\ p # {} /\ Unit \in Nat
      BY UnitDivides
    <3>2. CASE f[p] = NoHeir
      BY <3>1, <3>2
    <3>3. CASE f[p] # NoHeir
      <4>1. old[f[p]] \in SUBSET Pages
        BY <2>1, <3>3
      <4>2. Jaccard(p, old[f[p]]) \in Nat /\ Jaccard(p, old[f[p]]) <= Unit
        BY <3>1, <4>1, JaccardRange
      <4>3. QED
        BY <3>1, <3>3, <4>2
    <3>4. QED
      BY <3>2, <3>3
  <2>3. QED
    BY <2>1, <2>2 DEF Value
<1>3. \E B \in Nat : \A f \in Pairings(parts, old) : Worth(f, old) \in 0..B
  <2> DEFINE most == [p \in parts |-> Unit]
  <2>1. Unit \in Nat /\ most \in [parts -> Nat] /\ \A p \in parts : most[p] = Unit
    BY UnitDivides
  <2> HIDE DEF most
  <2>2. PICK g : Sums(most, parts, g)
    BY <1>1, <2>1, SumExists
  <2>3. g[parts] \in Nat
    BY <2>2 DEF Sums
  <2>4. ASSUME NEW f \in Pairings(parts, old)
        PROVE  Worth(f, old) \in 0..g[parts]
    <3> DEFINE v == Value(f, old)
    <3>1. DOMAIN f = parts /\ v \in [parts -> 0..Unit]
      BY <1>2
    <3>2. v \in [parts -> Nat]
      BY <2>1, <3>1
    <3>3. PICK h : Sums(v, parts, h) /\ Worth(f, old) = h[parts]
      BY <1>1, <3>1, <3>2, WorthIsSum
    <3> HIDE DEF v
    <3>4. \A p \in parts : v[p] <= most[p]
      BY <2>1, <3>1
    <3>5. h[parts] <= g[parts] /\ h[parts] \in Nat
      BY <1>1, <2>1, <2>2, <3>2, <3>3, <3>4, SumsGrow
    <3>6. QED
      BY <2>3, <3>3, <3>5
  <2>5. QED
    BY <2>3, <2>4
<1>4. QED
  BY <1>1, <1>2, <1>3

\* No pairing is worth more than an assignment.
LEMMA AssignmentIsBest ==
    ASSUME NEW parts \in SUBSET (SUBSET Pages), {} \notin parts,
           NEW old, \A c \in DOMAIN old : old[c] \in SUBSET Pages,
           NEW f \in Assignments(parts, old), NEW g \in Pairings(parts, old)
    PROVE  f \in Pairings(parts, old) /\ Worth(g, old) <= Worth(f, old)
<1> DEFINE worths == {Worth(e, old) : e \in Pairings(parts, old)}
<1>1. f \in Pairings(parts, old) /\ Worth(f, old) = Max(worths)
  BY DEF Assignments
<1>2. PICK B \in Nat : \A e \in Pairings(parts, old) : Worth(e, old) \in 0..B
  BY WorthBounded
<1>3. worths \in SUBSET (0..B) /\ Worth(g, old) \in worths
  BY <1>2
<1> HIDE DEF worths
<1>4. QED
  BY <1>1, <1>3, MaxIsGreatest

\* If it pairs a part with other pages than it could, there is a better one.
LEMMA SamePagesInherit ==
    ASSUME NEW parts \in SUBSET (SUBSET Pages), {} \notin parts,
           \A p, q \in parts : p # q => p \cap q = {},
           NEW old, \A c \in DOMAIN old : old[c] \in SUBSET Pages, NoHeir \notin DOMAIN old,
           NEW heir \in Matches(parts, old),
           NEW p \in parts, NEW c \in DOMAIN old, old[c] = p
    PROVE  heir[p] \in DOMAIN old /\ old[heir[p]] = p
<1>1. PICK f \in Assignments(parts, old) : heir = Inherits(f, old)
  BY DEF Matches
<1>2. f \in Pairings(parts, old)
  BY DEF Assignments
<1>3. /\ f \in [parts -> DOMAIN old \union {NoHeir}]
      /\ \A q, r \in parts : q # r /\ f[q] # NoHeir => f[q] # f[r]
  BY <1>2 DEF Pairings
<1>4. p \in SUBSET Pages /\ p # {} /\ Unit \in Nat \ {0}
  BY UnitDivides
<1>5. ASSUME f[p] = NoHeir \/ old[f[p]] # p
      PROVE  FALSE
  <2> DEFINE g == [q \in parts |-> IF q = p THEN c ELSE IF f[q] = c THEN NoHeir ELSE f[q]]
  <2>1. g \in Pairings(parts, old)
    <3>1. g \in [parts -> DOMAIN old \union {NoHeir}]
      BY <1>3
    <3>2. \A q, r \in parts : q # r /\ g[q] # NoHeir => g[q] # g[r]
      BY <1>3
    <3>3. QED
      BY <3>1, <3>2 DEF Pairings
  <2>0. g[p] = c /\ c # NoHeir /\ \A q \in parts : q # p /\ f[q] # c => g[q] = f[q]
    OBVIOUS
  <2> HIDE DEF g
  <2> DEFINE v == Value(f, old)
             w == Value(g, old)
  <2>2. /\ IsFiniteSet(parts)
        /\ DOMAIN f = parts /\ v \in [parts -> Nat]
        /\ DOMAIN g = parts /\ w \in [parts -> Nat]
    <3>1. v \in [parts -> 0..Unit] /\ w \in [parts -> 0..Unit]
      BY <1>2, <2>1, WorthBounded
    <3>2. IsFiniteSet(parts) /\ DOMAIN f = parts /\ DOMAIN g = parts
      BY <1>2, <2>1, WorthBounded
    <3> HIDE DEF v, w
    <3>3. QED
      BY <1>4, <3>1, <3>2
  <2>3. PICK h : Sums(v, parts, h) /\ Worth(f, old) = h[parts]
    BY <2>2, WorthIsSum
  <2>4. PICK k : Sums(w, parts, k) /\ Worth(g, old) = k[parts]
    BY <2>2, WorthIsSum
  <2>5. \A q \in parts : /\ v[q] = IF f[q] = NoHeir THEN 0 ELSE Jaccard(q, old[f[q]])
                         /\ w[q] = IF g[q] = NoHeir THEN 0 ELSE Jaccard(q, old[g[q]])
    BY <2>2 DEF Value
  <2> HIDE DEF v, w
  <2>6. v[p] < w[p]
    <3>1. w[p] = Unit
      <4>1. Jaccard(p, p) = Unit
        BY <1>4, JaccardRange
      <4>2. QED
        BY <2>0, <2>5, <4>1
    <3>2. v[p] < Unit
      <4>1. CASE f[p] = NoHeir
        BY <1>4, <2>5, <4>1
      <4>2. CASE f[p] # NoHeir
        <5>1. old[f[p]] \in SUBSET Pages /\ p # old[f[p]]
          BY <1>3, <1>5, <4>2
        <5>2. Jaccard(p, old[f[p]]) < Unit
          BY <1>4, <5>1, JaccardRange
        <5>3. QED
          BY <2>5, <4>2, <5>2
      <4>3. QED
        BY <4>1, <4>2
    <3>3. QED
      BY <3>1, <3>2
  <2>7. ASSUME NEW q \in parts
        PROVE  v[q] <= w[q]
    <3>1. CASE q = p
      BY <2>2, <2>6, <3>1
    <3>2. CASE q # p /\ f[q] # c
      <4>1. g[q] = f[q]
        BY <2>0, <3>2
      <4>2. v[q] = w[q]
        BY <2>5, <4>1
      <4>3. QED
        BY <2>2, <4>2
    <3>3. CASE q # p /\ f[q] = c
      <4>1. q \in SUBSET Pages /\ q # {} /\ q \cap p = {}
        <5>1. q \cap p = {}
          BY <3>3
        <5>2. QED
          BY <5>1
      <4>2. Jaccard(q, p) = 0
        BY <1>4, <4>1, JaccardRange
      <4>3. v[q] = 0
        BY <2>5, <3>3, <4>2
      <4>4. QED
        BY <2>2, <4>3
    <3>4. QED
      BY <3>1, <3>2, <3>3
  <2>8. h[parts] < k[parts] /\ h[parts] \in Nat /\ k[parts] \in Nat
    BY <2>2, <2>3, <2>4, <2>6, <2>7, SumsGrow
  <2>9. Worth(g, old) <= Worth(f, old)
    BY <2>1, AssignmentIsBest
  <2>10. QED
    BY <2>3, <2>4, <2>8, <2>9
<1>6. f[p] \in DOMAIN old /\ old[f[p]] = p
  BY <1>3, <1>5
<1>7. heir[p] = f[p]
  <2>1. heir[p] = IF f[p] # NoHeir /\ 2 * Jaccard(p, old[f[p]]) >= Unit THEN f[p] ELSE NoHeir
    BY <1>1, <1>3 DEF Inherits
  <2>2. Jaccard(p, old[f[p]]) = Unit
    BY <1>4, <1>6, JaccardRange
  <2>3. QED
    BY <1>4, <1>6, <2>1, <2>2
<1>8. QED
  BY <1>6, <1>7

\* A part with the pages of a live cluster, exactly, gets the id of one: the
\* assignment has the greatest total, and no other part has pages of it
\* (domain/clustering.py, match_clusters).
THEOREM SamePagesKeepId == Spec => StableIds
<1>1. ASSUME ClusterInv, [Next]_vars
      PROVE  [At("fit") /\ worker'.at = "persist" =>
                \A p \in DOMAIN worker'.heir :
                   (\E c \in Live : clusters[c].members = p) =>
                      \E c \in Live : worker'.heir[p] = c /\ clusters[c].members = p]_vars
  <2> SUFFICES ASSUME Next, At("fit"), worker'.at = "persist"
               PROVE  \A p \in DOMAIN worker'.heir :
                         (\E c \in Live : clusters[c].members = p) =>
                            \E c \in Live : worker'.heir[p] = c /\ clusters[c].members = p
    BY <1>1
  <2>0. PICK parts \in Fits(worker.input) :
           \E heir \in Matches(parts, OldMembers) : worker'.heir = heir
    <3>1. CASE Fit
      <4>1. ~AttemptFails
        BY DEF AttemptFails, Idle
      <4>2. QED
        BY <3>1, <4>1 DEF Fit
    <3>2. CASE ~Fit
      BY <3>2 DEF Next, Run, At, Go, RequestRun, IdleTick, Enqueue, Begin, ReadInput, UpsertCluster,
                  ReplaceMembers, Tombstone, Lineage, Projection, Finalize, Chain, IndexPage, Purge,
                  LeaseExpires, Crash, AttemptFails, Idle
    <3>3. QED
      BY <3>1, <3>2
  <2>1. PICK heir \in Matches(parts, OldMembers) : worker'.heir = heir
    BY <2>0
  <2>2. worker.input \subseteq Pages /\ clusters \in Seq(Rows)
    BY <1>1 DEF ClusterInv, Typed, At
  <2>3. /\ parts \in SUBSET (SUBSET Pages) /\ {} \notin parts
        /\ \A p, q \in parts : p # q => p \cap q = {}
    BY <2>2 DEF Fits
  <2>4. /\ DOMAIN OldMembers = Live /\ NoHeir \notin Live
        /\ \A c \in Live : OldMembers[c] = clusters[c].members /\ OldMembers[c] \in SUBSET Pages
    <3>1. Live \subseteq DOMAIN clusters /\ NoHeir \notin DOMAIN clusters
      BY <2>2 DEF Live, Ids, NoHeir
    <3>2. \A c \in Live : clusters[c] \in Rows
      BY <2>2, <3>1
    <3>3. \A c \in Live : clusters[c].members \in SUBSET Pages
      BY <3>2 DEF Rows
    <3>4. QED
      BY <3>1, <3>3 DEF OldMembers
  <2>5. DOMAIN heir = parts
    BY <2>3, <2>4, MatchesPair
  <2>6. ASSUME NEW p \in parts, NEW c \in Live, clusters[c].members = p
        PROVE  heir[p] \in Live /\ clusters[heir[p]].members = p
    <3> DEFINE old == OldMembers
    <3>1. /\ DOMAIN old = Live /\ NoHeir \notin DOMAIN old /\ old[c] = p
          /\ \A d \in DOMAIN old : old[d] = clusters[d].members /\ old[d] \in SUBSET Pages
      BY <2>4, <2>6
    <3>2. heir \in Matches(parts, old)
      OBVIOUS
    <3> HIDE DEF old
    <3>3. heir[p] \in DOMAIN old /\ old[heir[p]] = p
      BY <2>3, <3>1, <3>2, SamePagesInherit
    <3>4. QED
      BY <3>1, <3>3
  <2>7. QED
    BY <2>1, <2>5, <2>6
<1>2. QED
  BY <1>1, ClusterInvariant, PTL DEF Spec, StableIds
=============================================================================

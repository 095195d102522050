------------------------ MODULE ModelBackfillProofs ------------------------
(***************************************************************************)
(* Theorems about ModelBackfill, for every set of models, every number of  *)
(* pages and of admin requests at once, batch size and bound: one model is *)
(* active and can be searched, and what is searched has every page, but    *)
(* for models that were raced for.  The worker, crashes, expired leases,   *)
(* purges and refused startups run beside the requests.                    *)
(***************************************************************************)
EXTENDS ModelBackfill, FiniteSetTheorems, WellFoundedInduction, TLAPS

Statuses == {"absent", "registered", "backfilling", "ready"}
Places == {"add_model", "register_model", "activate", "drop", "delete",
           "reset", "mark", "enqueue"}
\* The places of a request that registers or retires.
Lone == {"add_model", "register_model", "drop", "delete"}

\* What a request knows of its model at each of its places, from its check, if
\* nobody raced for the model.
Claims(c) ==
    LET m == client[c].model IN
    m \notin raced =>
    /\ client[c].at = "add_model" => ~Registered(m)
    /\ client[c].at = "register_model" => ~Registered(m) /\ m \in space
    /\ client[c].at = "activate" => Registered(m) /\ m \in space
    /\ client[c].at \in {"drop", "delete"} => m \notin active

\* One that registers or retires is alone with its model.
Alone ==
    \A c, d \in Clients :
        client[c].at \in Lone /\ client[d].at \in Places /\ client[c].model = client[d].model =>
            c = d \/ client[c].model \in raced

RegistryTyped ==
    /\ row \in [Models -> Statuses]
    /\ space \subseteq Models /\ raced \subseteq Models
    /\ pooled = [m \in Models |-> pooled[m]]

ClientTyped ==
    /\ client \in [Clients -> {Idle} \union [at : Places, model : Models]]
    /\ phase # "up" => \A c \in Clients : client[c] = Idle

\* There is at most one active model, and one unless a race lost it, and it
\* has a row; a row has its vector space, but between the halves of a retirement
\* and after a race.
OneActive ==
    /\ active \subseteq Models /\ \A a \in active : Registered(a)
    /\ \E a \in Models : active \subseteq {a}
    /\ raced = {} => active # {}
Spaced ==
    phase = "up" =>
        \A m \in Models : Registered(m) => m \in space \union raced \union Doing("delete")
NoOrphans == \A m \in Models : ~Registered(m) => pooled[m] = {}

RegistryInv ==
    /\ RegistryTyped
    /\ ClientTyped
    /\ OneActive
    /\ Spaced
    /\ NoOrphans
    /\ Alone
    /\ \A c \in Clients : Claims(c)

-----------------------------------------------------------------------------
\* The invariant gives the property: the active model is not being deleted, so
\* that it has its space.
LEMMA RegistryGivesOneModel ==
    ASSUME RegistryInv
    PROVE  OneModelActive
<1>1. Cardinality(active) <= 1 /\ (Cardinality(active) = 1 \/ raced # {})
  <2>1. PICK a \in Models : active = {} \/ active = {a}
    BY DEF RegistryInv, OneActive
  <2>2. active # {} \/ raced # {}
    BY DEF RegistryInv, OneActive
  <2>3. QED
    <3>1. CASE active = {}
      BY <2>2, <3>1, FS_EmptySet
    <3>2. CASE active = {a}
      <4>1. Cardinality({a}) = 1
        BY FS_Singleton
      <4>2. QED
        BY <3>2, <4>1
    <3>3. QED
      BY <2>1, <3>1, <3>2
<1>2. ASSUME phase = "up", NEW a \in active
      PROVE  a \in space \union raced
  <2>1. a \in Models /\ Registered(a)
    BY DEF RegistryInv, OneActive
  <2>2. a \in Doing("delete") => a \in raced
    BY DEF RegistryInv, Claims, Doing
  <2>3. QED
    BY <1>2, <2>1, <2>2 DEF RegistryInv, Spaced
<1>3. \A m \in Models : ~Registered(m) => m \notin active /\ pooled[m] = {}
  BY DEF RegistryInv, OneActive, NoOrphans
<1>4. QED
  BY <1>1, <1>2, <1>3 DEF OneModelActive, RegistryInv, RegistryTyped, Statuses

\* The first startup establishes the invariant.
LEMMA InitRegistry ==
    ASSUME Init
    PROVE  RegistryInv
BY ModelsAssumption DEF Init, RegistryInv, RegistryTyped, ClientTyped, OneActive, Spaced,
   NoOrphans, Claims, Alone, Statuses, Places, Lone, Registered, Idle, Doing, Pages

\* The requests under way at a place, when one of them moves.
LEMMA DoingMoves ==
    ASSUME ClientTyped, NEW c \in Clients, NEW r, client' = [client EXCEPT ![c] = r]
    PROVE  /\ client'[c] = r /\ \A d \in Clients \ {c} : client'[d] = client[d]
           /\ \A at : r.at # at => Doing(at)' \subseteq Doing(at)
           /\ \A at : r.at = at => r.model \in Doing(at)'
           /\ \A at : \A m \in Doing(at) : m \in Doing(at)' \/ (client[c].at = at /\ client[c].model = m)
<1>1. client'[c] = r /\ \A d \in Clients \ {c} : client'[d] = client[d]
  BY DEF ClientTyped
<1>2. \A at, m : m \in Doing(at) <=> \E d \in Clients : client[d].at = at /\ client[d].model = m
  BY DEF Doing
<1>3. \A at, m : m \in Doing(at)' <=> \E d \in Clients : client'[d].at = at /\ client'[d].model = m
  BY DEF Doing
<1>4. ASSUME NEW at
      PROVE  /\ r.at # at => Doing(at)' \subseteq Doing(at)
             /\ r.at = at => r.model \in Doing(at)'
             /\ \A m \in Doing(at) : m \in Doing(at)' \/ (client[c].at = at /\ client[c].model = m)
  <2>1. ASSUME NEW m \in Doing(at)
        PROVE  m \in Doing(at)' \/ (client[c].at = at /\ client[c].model = m)
    BY <1>1, <1>2, <1>3, <2>1
  <2>2. ASSUME NEW m \in Doing(at)'
        PROVE  m \in Doing(at) \/ (r.at = at /\ r.model = m)
    BY <1>1, <1>2, <1>3, <2>2
  <2>3. r.at = at => r.model \in Doing(at)'
    BY <1>1, <1>3
  <2>4. QED
    BY <2>1, <2>2, <2>3
<1>5. QED
  BY <1>1, <1>4

\* A step of a request about model n leaves the other models as they are, and
\* the request knows what it should of n at its next place, r.
OthersStay(n) ==
    /\ \A m \in Models \ {n} :
          /\ Registered(m)' <=> Registered(m)
          /\ m \in space => m \in space'
          /\ m \in active' => m \in active
          /\ pooled'[m] = pooled[m]
    /\ ~Registered(n)' => pooled'[n] = {}

Knows(c, n, r) ==
    n \notin raced' =>
        /\ Registered(n)' => n \in space' \/ r.at = "delete"
        /\ r.at = "add_model" => ~Registered(n)'
        /\ r.at = "register_model" => ~Registered(n)' /\ n \in space'
        /\ r.at = "activate" => Registered(n)'
        /\ r.at \in {"drop", "delete"} => n \notin active'
        /\ \A d \in Clients \ {c} :
              client[d].at \in Places /\ client[d].model = n =>
                 /\ r.at \notin Lone /\ client[d].at \notin Lone
                 /\ client[d].at = "activate" => Registered(n)'

\* Such a step keeps the invariant: who else is about n, if nobody raced for it,
\* neither registers nor retires it and finds it where it was.
LEMMA RequestFrame ==
    ASSUME RegistryInv, NEW c \in Clients, NEW n \in Models,
           NEW r \in {Idle} \union [at : Places, model : {n}],
           client' = [client EXCEPT ![c] = r],
           client[c] = Idle \/ client[c].model = n,
           phase = "up", phase' = "up", raced \subseteq raced', RegistryTyped', OneActive',
           OthersStay(n), Knows(c, n, r)
    PROVE  RegistryInv'
<1> USE DEF RegistryInv, OthersStay, Knows
<1>1. client'[c] = r /\ \A d \in Clients \ {c} : client'[d] = client[d]
  BY DoingMoves
<1>2. /\ \A d \in Clients : client[d].at \in Places => client[d].model \in Models
      /\ \A d \in Clients : client[d] = Idle \/ client[d].at \in Places
      /\ r.at \in Places => r.model = n
      /\ r = Idle \/ r.at \in Places
      /\ Idle.at \notin Places /\ Lone \subseteq Places
  BY DEF ClientTyped, Idle, Places, Lone
<1>3. NoOrphans'
  BY DEF NoOrphans
<1>4. ClientTyped'
  BY DEF ClientTyped
<1>5. Spaced'
  <2> SUFFICES ASSUME NEW m \in Models, Registered(m)', m \notin raced', m \notin space'
               PROVE  m \in Doing("delete")'
    BY DEF Spaced
  <2>1. CASE m = n
    <3>1. r.at = "delete" /\ r.model = n
      BY <1>2, <2>1 DEF Places
    <3>2. r.model \in Doing("delete")'
      BY <3>1, DoingMoves
    <3>3. QED
      BY <2>1, <3>1, <3>2
  <2>2. CASE m # n
    <3>1. m \in Doing("delete")
      BY <2>2 DEF Spaced
    <3>2. ~(client[c].at = "delete" /\ client[c].model = m)
      BY <2>2 DEF Idle
    <3>3. QED
      BY <3>1, <3>2, DoingMoves
  <2>3. QED
    BY <2>1, <2>2
<1>6. Alone'
  <2> SUFFICES ASSUME NEW d \in Clients, NEW o \in Clients,
                      client'[d].at \in Lone, client'[o].at \in Places,
                      client'[d].model = client'[o].model,
                      client'[d].model \notin raced'
               PROVE  d = o
    BY DEF Alone
  <2>1. CASE d # c /\ o # c
    BY <1>1, <2>1 DEF Alone
  <2>2. CASE d = c /\ o # c
    <3>1. r.at \in Lone /\ client[o].at \in Places /\ r.model = n /\ client[o].model = n
      BY <1>1, <1>2, <2>2
    <3>2. QED
      BY <1>1, <2>2, <3>1
  <2>3. CASE d # c /\ o = c
    <3>1. client[d].at \in Lone /\ client[d].at \in Places /\ r.model = n /\ client[d].model = n
      BY <1>1, <1>2, <2>3
    <3>2. QED
      BY <1>1, <2>3, <3>1
  <2>4. QED
    BY <2>1, <2>2, <2>3
<1>7. ASSUME NEW d \in Clients
      PROVE  Claims(d)'
  <2>1. CASE d = c
    <3>1. r.at = "activate" /\ n \notin raced' => n \in space'
      BY DEF Places
    <3>2. QED
      BY <1>1, <1>2, <2>1, <3>1 DEF Claims, Idle, Places
  <2>2. CASE d # c /\ client[d].at \in Places /\ client[d].model # n
    BY <1>1, <1>2, <2>2 DEF Claims
  <2>3. CASE d # c /\ client[d].at \in Places /\ client[d].model = n
    <3> SUFFICES ASSUME n \notin raced' PROVE Claims(d)'
      BY <1>1, <2>3 DEF Claims
    <3>1. client[d].at \notin Lone /\ r.at \notin Lone /\ (client[d].at = "activate" => Registered(n)')
      BY <2>3
    <3>2. r.at # "delete"
      BY <3>1 DEF Lone
    <3>3. QED
      BY <1>1, <2>3, <3>1, <3>2 DEF Claims, Lone
  <2>4. CASE d # c /\ client[d] = Idle
    BY <1>1, <2>4 DEF Claims, Idle
  <2>5. QED
    BY <1>2, <2>1, <2>2, <2>3, <2>4
<1>8. QED
  BY <1>3, <1>4, <1>5, <1>6, <1>7

\* A request keeps it: what it checked still holds when it acts, unless another
\* one raced with it.
LEMMA RequestsKeepRegistry ==
    ASSUME RegistryInv, Requests
    PROVE  RegistryInv'
<1> USE DEF RegistryInv
<1>0. PICK c \in Clients :
        \/ \E m \in Models :
              RegisterCheck(c, m) \/ ActivateCheck(c, m) \/ RetireCheck(c, m) \/ StartRead(c, m)
        \/ RegisterAdd(c) \/ RegisterRow(c) \/ ActivateFlip(c)
        \/ RetireDrop(c) \/ RetireDelete(c)
        \/ StartReset(c) \/ StartMark(c) \/ StartEnqueue(c)
  BY DEF Requests
<1>n. PICK n : n = client[c].model
  OBVIOUS
<1> USE <1>n
<1>2. client[c] = Idle \/ client[c] \in [at : Places, model : Models]
  BY DEF ClientTyped
<1>3. client[c].at \in Places => n \in Models
  BY <1>2 DEF Idle, Places
<1>4. /\ phase = "up" /\ phase' = "up"
      /\ row \in [Models -> Statuses] /\ space \subseteq Models /\ raced \subseteq Models
      /\ pooled = [m \in Models |-> pooled[m]]
  BY <1>0 DEF RegisterCheck, ActivateCheck, RetireCheck, StartRead, RegisterAdd,
     RegisterRow, ActivateFlip, RetireDrop, RetireDelete, StartReset, StartMark,
     StartEnqueue, Asks, Does, RegistryTyped
<1>13. client[c].at \in Lone /\ n \notin raced =>
         \A d \in Clients \ {c} : ~(client[d].at \in Places /\ client[d].model = n)
  BY DEF Alone
<1>14. client[c].at \in Places /\ n \notin raced =>
         \A d \in Clients \ {c} : client[d].at \in Places /\ client[d].model = n =>
            /\ client[d].at \notin Lone
            /\ client[d].at = "activate" => Registered(n)
  BY DEF Alone, Claims
\* The checks.
<1>5. ASSUME NEW m \in Models,
             RegisterCheck(c, m) \/ ActivateCheck(c, m) \/ RetireCheck(c, m) \/ StartRead(c, m)
      PROVE  RegistryInv'
  <2>1. PICK next \in Places :
          /\ client[c] = Idle
          /\ client' = [client EXCEPT ![c] = [at |-> next, model |-> m]]
          /\ next = "add_model" => ~Registered(m)
          /\ next \in {"activate", "reset", "mark"} => Registered(m)
          /\ next = "drop" => m \notin active
          /\ next \in {"add_model", "drop", "activate", "reset", "mark"}
          /\ raced' = raced \union ({m} \intersect IF next \in Lone THEN Asked ELSE Retiring)
    BY <1>5 DEF RegisterCheck, ActivateCheck, RetireCheck, StartRead, Asks, Step, Places,
       Registered, Beside, Lone
  <2>2. UNCHANGED <<row, active, space, pooled>>
    BY <1>5 DEF RegisterCheck, ActivateCheck, RetireCheck, StartRead, registryVars, vectorVars
  <2>3. raced \subseteq raced' /\ raced' \subseteq Models
    BY <1>4, <2>1
  <2>4. RegistryTyped' /\ OneActive' /\ OthersStay(m)
    BY <2>2, <2>3 DEF RegistryTyped, OneActive, Registered, OthersStay, NoOrphans
  <2>5. PICK r \in {Idle} \union [at : Places, model : {m}] :
          r.at = next /\ client' = [client EXCEPT ![c] = r]
    BY <2>1
  <2>6. ASSUME m \notin raced', NEW d \in Clients \ {c}, client[d].at \in Places, client[d].model = m
        PROVE  /\ next \notin Lone /\ client[d].at \notin Lone
               /\ client[d].at = "activate" => Registered(m)
    <3>1. m \in Asked
      BY <2>6 DEF Asked, Idle, Places
    <3>2. next \notin Lone /\ m \notin Retiring
      BY <2>1, <2>6, <3>1
    <3>3. client[d].at \notin {"drop", "delete"}
      BY <2>6, <3>2 DEF Retiring, Doing
    <3>4. Registered(m)
      BY <2>1, <3>2 DEF Lone
    <3>5. client[d].at \notin {"add_model", "register_model"}
      BY <2>3, <2>6, <3>4 DEF Claims
    <3>6. QED
      BY <3>2, <3>3, <3>4, <3>5 DEF Lone
  <2>7. ASSUME m \notin raced', Registered(m)
        PROVE  m \in space
    <3>1. m \notin Retiring
      <4>1. CASE next \in Lone
        <5>1. m \notin Asked
          BY <2>1, <2>7, <4>1
        <5>2. Retiring \subseteq Asked
          BY DEF Retiring, Doing, Asked, Idle
        <5>3. QED
          BY <5>1, <5>2
      <4>2. CASE next \notin Lone
        BY <2>1, <2>7, <4>2
      <4>3. QED
        BY <4>1, <4>2
    <3>2. QED
      BY <1>4, <2>3, <2>7, <3>1 DEF Spaced, Retiring
  <2>8. Knows(c, m, r)
    BY <2>1, <2>2, <2>5, <2>6, <2>7 DEF Knows, Registered
  <2>9. QED
    BY <1>4, <2>1, <2>3, <2>4, <2>5, <2>8, RequestFrame
\* What follows a check.
<1>6. CASE RegisterAdd(c)
  <2>1. /\ client[c].at = "add_model" /\ n \in Models /\ client[c].at \in Lone
        /\ space' = space \union {n}
        /\ client' = [client EXCEPT ![c] = [at |-> "register_model", model |-> n]]
        /\ UNCHANGED <<row, active, pooled, raced>>
    BY <1>3, <1>6 DEF RegisterAdd, Does, Step, registryVars, historyVars, Places, Lone
  <2>2. RegistryTyped' /\ OneActive' /\ OthersStay(n)
    BY <1>4, <2>1 DEF RegistryTyped, OneActive, Registered, OthersStay, NoOrphans
  <2>3. PICK r \in {Idle} \union [at : Places, model : {n}] :
          r.at = "register_model" /\ client' = [client EXCEPT ![c] = r]
    BY <2>1 DEF Places
  <2>4. n \notin raced => ~Registered(n)
    BY <2>1 DEF Claims
  <2>5. Knows(c, n, r)
    BY <1>13, <2>1, <2>3, <2>4 DEF Knows, Registered
  <2>6. QED
    BY <1>4, <2>1, <2>2, <2>3, <2>5, RequestFrame
<1>7. CASE RegisterRow(c)
  <2>1. /\ client[c].at = "register_model" /\ n \in Models /\ client[c].at \in Lone
        /\ client' = [client EXCEPT ![c] = Idle]
        /\ UNCHANGED <<active, pooled, raced>>
    BY <1>3, <1>7 DEF RegisterRow, Does, Ends, Places, Lone
  <2>2. n \notin raced => ~Registered(n) /\ n \in space
    BY <2>1 DEF Claims
  <2>3. /\ Registered(n) => space' = space \ {n} /\ row' = row
        /\ ~Registered(n) => space' = space /\ row' = [row EXCEPT ![n] = "registered"]
    BY <1>7 DEF RegisterRow, register_model
  <2>4. /\ row' \in [Models -> Statuses] /\ space' \subseteq Models /\ Registered(n)'
        /\ \A m \in Models \ {n} : (Registered(m)' <=> Registered(m)) /\ (m \in space => m \in space')
    <3>1. CASE Registered(n)
      BY <1>4, <2>1, <2>3, <3>1 DEF Registered
    <3>2. CASE ~Registered(n)
      <4>1. row' = [row EXCEPT ![n] = "registered"] /\ space' = space
        BY <2>3, <3>2
      <4>2. \A m \in Models : row'[m] = IF m = n THEN "registered" ELSE row[m]
        BY <1>4, <4>1
      <4>3. QED
        BY <1>4, <2>1, <4>1, <4>2 DEF Registered, Statuses
    <3>3. QED
      BY <3>1, <3>2
  <2>5. RegistryTyped' /\ OneActive' /\ OthersStay(n)
    BY <1>4, <2>1, <2>4 DEF RegistryTyped, OneActive, OthersStay, NoOrphans
  <2>6. PICK r \in {Idle} \union [at : Places, model : {n}] :
          r.at = "idle" /\ client' = [client EXCEPT ![c] = r]
    BY <2>1 DEF Idle
  <2>7. Knows(c, n, r)
    BY <1>13, <2>1, <2>2, <2>3, <2>6 DEF Knows
  <2>8. QED
    BY <1>4, <2>1, <2>5, <2>6, <2>7, RequestFrame
<1>8. CASE ActivateFlip(c)
  <2>1. /\ client[c].at = "activate" /\ client[c].at \in Places /\ n \in Models
        /\ active' = {n} \intersect {m \in Models : Registered(m)}
        /\ client' = [client EXCEPT ![c] = Idle]
        /\ UNCHANGED <<row, space, pooled, raced>>
    BY <1>3, <1>8 DEF ActivateFlip, Does, Ends, vectorVars, historyVars, Places
  <2>2. n \notin raced => Registered(n) /\ n \in space
    BY <2>1 DEF Claims
  <2>3. OneActive'
    BY <2>1, <2>2 DEF OneActive, Registered
  <2>4. RegistryTyped' /\ OthersStay(n)
    BY <2>1 DEF RegistryTyped, OthersStay, Registered, NoOrphans
  <2>5. PICK r \in {Idle} \union [at : Places, model : {n}] :
          r.at = "idle" /\ r.at \notin Lone /\ client' = [client EXCEPT ![c] = r]
    BY <2>1 DEF Idle, Lone
  <2>6. Knows(c, n, r)
    BY <1>14, <2>1, <2>2, <2>5 DEF Knows, Registered
  <2>7. QED
    BY <1>4, <2>1, <2>3, <2>4, <2>5, <2>6, RequestFrame
<1>9. CASE RetireDrop(c)
  <2>1. /\ client[c].at = "drop" /\ client[c].at \in Lone /\ n \in Models
        /\ space' = space \ {n}
        /\ client' = [client EXCEPT ![c] = [at |-> "delete", model |-> n]]
        /\ UNCHANGED <<row, active, pooled, raced>>
    BY <1>3, <1>9 DEF RetireDrop, Does, Step, registryVars, historyVars, Places, Lone
  <2>2. RegistryTyped' /\ OneActive' /\ OthersStay(n)
    BY <1>4, <2>1 DEF RegistryTyped, OneActive, Registered, OthersStay, NoOrphans
  <2>3. PICK r \in {Idle} \union [at : Places, model : {n}] :
          r.at = "delete" /\ client' = [client EXCEPT ![c] = r]
    BY <2>1 DEF Places
  <2>4. n \notin raced => n \notin active
    BY <2>1 DEF Claims
  <2>5. Knows(c, n, r)
    BY <1>13, <2>1, <2>3, <2>4 DEF Knows
  <2>6. QED
    BY <1>4, <2>1, <2>2, <2>3, <2>5, RequestFrame
<1>10. CASE RetireDelete(c)
  <2>1. /\ client[c].at = "delete" /\ client[c].at \in Lone /\ n \in Models
        /\ row' = [row EXCEPT ![n] = "absent"]
        /\ pooled' = [pooled EXCEPT ![n] = {}]
        /\ active' = active \ {n}
        /\ client' = [client EXCEPT ![c] = Idle]
        /\ UNCHANGED <<space, raced>>
    BY <1>3, <1>10 DEF RetireDelete, Does, Ends, Places, Lone
  <2>2. n \notin raced => n \notin active
    BY <2>1 DEF Claims
  <2>3. /\ row' \in [Models -> Statuses] /\ pooled' = [m \in Models |-> pooled'[m]]
        /\ ~Registered(n)' /\ pooled'[n] = {}
        /\ \A m \in Models \ {n} : (Registered(m)' <=> Registered(m)) /\ pooled'[m] = pooled[m]
    <3>1. /\ \A m \in Models : row'[m] = IF m = n THEN "absent" ELSE row[m]
          /\ \A m \in Models : pooled'[m] = IF m = n THEN {} ELSE pooled[m]
      BY <1>4, <2>1
    <3>2. row' \in [Models -> Statuses]
      BY <1>4, <2>1 DEF Statuses
    <3>3. pooled' = [m \in Models |-> pooled'[m]]
      BY <1>4, <2>1
    <3>4. QED
      BY <2>1, <3>1, <3>2, <3>3 DEF Registered
  <2>4. RegistryTyped' /\ OneActive' /\ OthersStay(n)
    BY <1>4, <2>1, <2>2, <2>3 DEF RegistryTyped, OneActive, OthersStay
  <2>5. PICK r \in {Idle} \union [at : Places, model : {n}] :
          r.at = "idle" /\ client' = [client EXCEPT ![c] = r]
    BY <2>1 DEF Idle
  <2>6. Knows(c, n, r)
    BY <1>13, <2>1, <2>3, <2>5 DEF Knows
  <2>7. QED
    BY <1>4, <2>1, <2>4, <2>5, <2>6, RequestFrame
<1>11. CASE StartReset(c) \/ StartMark(c) \/ StartEnqueue(c)
  <2>1. PICK r \in {Idle, [at |-> "mark", model |-> n], [at |-> "enqueue", model |-> n]} :
        /\ client[c].at \in {"reset", "mark", "enqueue"} /\ n \in Models
        /\ row' = row \/ row' = [row EXCEPT ![n] = IF @ = "absent" THEN @ ELSE "backfilling"]
        /\ client' = [client EXCEPT ![c] = r]
        /\ UNCHANGED <<active, space, pooled, raced>>
    BY <1>3, <1>11 DEF StartReset, StartMark, StartEnqueue, Does, Step, Ends, SetStatus,
       registryVars, vectorVars, historyVars, Places
  <2>2. row' \in [Models -> Statuses] /\ \A m \in Models : Registered(m)' <=> Registered(m)
    BY <1>4, <2>1 DEF Registered, Statuses
  <2>3. RegistryTyped' /\ OneActive' /\ OthersStay(n)
    BY <2>1, <2>2 DEF RegistryTyped, OneActive, OthersStay, NoOrphans
  <2>4. /\ r \in {Idle} \union [at : Places, model : {n}] /\ client[c].at \in Places
        /\ r.at \in {"idle", "mark", "enqueue"} /\ r.at \notin Lone
    BY <2>1 DEF Idle, Places, Lone
  <2>5. n \notin raced /\ Registered(n) => n \in space
    <3>1. n \in Doing("delete") => n \in raced
      BY <2>1, <2>4 DEF Doing, Alone, Lone
    <3>2. QED
      BY <1>4, <2>1, <3>1 DEF Spaced
  <2>6. Knows(c, n, r)
    BY <1>14, <2>1, <2>2, <2>4, <2>5 DEF Knows
  <2>7. QED
    BY <1>4, <2>1, <2>3, <2>4, <2>6, RequestFrame
<1>12. QED
  BY <1>0, <1>5, <1>6, <1>7, <1>8, <1>9, <1>10, <1>11

\* A step that leaves the request alone, neither registers nor retires a model,
\* and writes page vectors only where there is a row, keeps it.
LEMMA RowsKeepRegistry ==
    ASSUME RegistryInv,
           UNCHANGED <<phase, active, space, client, raced>>,
           row' = row \/ SetStatus(worker.model, "ready"),
           pooled' = [m \in Models |-> pooled'[m]],
           \A m \in Models : ~Registered(m) => pooled'[m] = {}
    PROVE  RegistryInv'
<1>1. row' \in [Models -> Statuses] /\ \A m \in Models : Registered(m)' <=> Registered(m)
  BY DEF RegistryInv, RegistryTyped, SetStatus, Registered, Statuses
<1>2. \A c \in Clients : Claims(c)'
  <2> SUFFICES ASSUME NEW c \in Clients PROVE Claims(c)'
    OBVIOUS
  <2>1. client[c] = Idle \/ (client[c].at \in Places /\ client[c].model \in Models)
    BY DEF RegistryInv, ClientTyped
  <2>2. QED
    BY <1>1, <2>1 DEF RegistryInv, Claims, Idle
<1>3. Doing("delete")' = Doing("delete")
  BY DEF Doing
<1>4. QED
  BY <1>1, <1>2, <1>3 DEF RegistryInv, RegistryTyped, ClientTyped, OneActive, Spaced, NoOrphans,
     Alone

\* Purges, index jobs, backfill jobs and expired leases are of that kind: the
\* worker pools vectors only for models that have a row at that commit.
LEMMA WorkerKeepsRegistry ==
    ASSUME RegistryInv,
           \/ \E p \in Pages : Purge(p)
           \/ IndexJob
           \/ \E j \in DOMAIN jobs : BeginBackfill(j)
           \/ BackfillStep
           \/ LeaseExpires
    PROVE  RegistryInv'
<1> USE DEF RegistryInv, RegistryTyped, NoOrphans, registryVars, vectorVars, pageVars, historyVars
<1>1. ASSUME NEW p \in Pages, Purge(p)
      PROVE  RegistryInv'
  BY <1>1, RowsKeepRegistry DEF Purge
<1>2. CASE IndexJob
  <2>1. UNCHANGED <<phase, active, space, client, row, raced>>
    BY <1>2 DEF IndexJob, BeginIndex, ReplaceChunks, UpsertPoints, PoolVectors, SetIndexed,
       IndexFails
  <2>2. /\ pooled' = [m \in Models |-> pooled'[m]]
        /\ \A m \in Models : ~Registered(m) => pooled'[m] = {}
    <3>1. CASE IndexFails
      BY <3>1 DEF IndexFails
    <3>2. CASE PoolVectors
      BY <3>1, <3>2 DEF PoolVectors
    <3>3. CASE UNCHANGED pooled
      BY <3>3
    <3>4. QED
      BY <1>2, <3>1, <3>2, <3>3
      DEF IndexJob, BeginIndex, ReplaceChunks, UpsertPoints, SetIndexed
  <2>3. QED
    BY <2>1, <2>2, RowsKeepRegistry
<1>3. ASSUME NEW j \in DOMAIN jobs, BeginBackfill(j)
      PROVE  RegistryInv'
  BY <1>3, RowsKeepRegistry DEF BeginBackfill
<1>4. CASE BackfillStep
  <2>1. UNCHANGED <<phase, active, space, client, raced>>
    BY <1>4 DEF BackfillStep, LoadState, ListPages, EmbedPage, BackfillVectors,
       UpsertPageVector, SaveCursor, SaveFinished, MarkReady
  <2>2. row' = row \/ SetStatus(worker.model, "ready")
    BY <1>4 DEF BackfillStep, LoadState, ListPages, EmbedPage, BackfillVectors,
       UpsertPageVector, SaveCursor, SaveFinished, MarkReady
  <2>3. /\ pooled' = [m \in Models |-> pooled'[m]]
        /\ \A m \in Models : ~Registered(m) => pooled'[m] = {}
    <3>1. CASE UpsertPageVector
      BY <3>1 DEF UpsertPageVector
    <3>2. CASE UNCHANGED pooled
      BY <3>2
    <3>3. QED
      BY <1>4, <3>1, <3>2
      DEF BackfillStep, LoadState, ListPages, EmbedPage, BackfillVectors, SaveCursor,
          SaveFinished, MarkReady
  <2>4. QED
    BY <2>1, <2>2, <2>3, RowsKeepRegistry
<1>5. CASE LeaseExpires
  BY <1>5, RowsKeepRegistry DEF LeaseExpires
<1>6. QED
  BY <1>1, <1>2, <1>3, <1>4, <1>5

\* A crash forgets the requests; a startup gives every row its space, and takes
\* a configured model that is not registered for none of its own, unless a race
\* has left no model active.
LEMMA ProcessKeepsRegistry ==
    ASSUME RegistryInv, Crash \/ \E m \in Models : Startup(m)
    PROVE  RegistryInv'
<1> USE DEF RegistryInv
<1>1. CASE Crash
  <2>1. /\ phase' = "down" /\ UNCHANGED <<row, active, space, pooled, raced>>
        /\ client' = [c \in Clients |-> Idle]
    BY <1>1 DEF Crash, registryVars, vectorVars
  <2>2. RegistryTyped' /\ OneActive' /\ Spaced' /\ NoOrphans'
    BY <2>1 DEF RegistryTyped, OneActive, Spaced, NoOrphans, Registered
  <2>3. ClientTyped' /\ Alone' /\ \A c \in Clients : Claims(c)'
    BY <2>1 DEF ClientTyped, Claims, Alone, Idle, Lone
  <2>4. QED
    BY <2>2, <2>3
<1>2. ASSUME NEW m \in Models, Startup(m)
      PROVE  RegistryInv'
  <2>1. /\ phase # "up" /\ UNCHANGED <<pooled, client>> /\ raced \subseteq raced' /\ raced' \subseteq Models
        /\ active = {} => active' = {m} /\ raced' = raced \union {m}
        /\ active # {} => active' = active /\ raced' = raced
    BY <1>2 DEF Startup, RegistryTyped
  <2>2. CASE ~Registered(m) /\ active # {}
    <3>1. phase' = "refused" /\ row' = row /\ space' \subseteq Models
      BY <1>2, <2>2 DEF Startup, RegistryTyped
    <3>2. QED
      BY <2>1, <2>2, <3>1 DEF RegistryTyped, ClientTyped, OneActive, Spaced, NoOrphans, Alone, Claims,
         Registered, Idle, Lone
  <2>3. CASE Registered(m) \/ active = {}
    <3>1. /\ phase' = "up"
          /\ row' = IF Registered(m) THEN row ELSE [row EXCEPT ![m] = "ready"]
          /\ space' = space \union {o \in Models : row'[o] # "absent"}
      BY <1>2, <2>3 DEF Startup, register_model
    <3>2. /\ row' \in [Models -> Statuses] /\ Registered(m)'
          /\ \A o \in Models : Registered(o) => Registered(o)'
      BY <3>1 DEF RegistryTyped, Registered, Statuses
    <3>3. RegistryTyped' /\ OneActive' /\ Spaced' /\ NoOrphans'
      BY <2>1, <3>1, <3>2 DEF RegistryTyped, OneActive, Spaced, NoOrphans, Registered
    <3>4. ClientTyped' /\ Alone' /\ \A c \in Clients : Claims(c)'
      BY <2>1, <3>1 DEF ClientTyped, Claims, Alone, Idle, Lone
    <3>5. QED
      BY <3>3, <3>4
  <2>4. QED
    BY <2>2, <2>3
<1>3. QED
  BY <1>1, <1>2

\* The registry invariant is inductive.
LEMMA RegistryKept ==
    ASSUME RegistryInv, [Next]_vars
    PROVE  RegistryInv'
<1>1. CASE UNCHANGED vars
  BY <1>1, RowsKeepRegistry DEF vars, registryVars, vectorVars, historyVars, RegistryInv, RegistryTyped,
     NoOrphans
<1>2. CASE Next
  BY <1>2, RequestsKeepRegistry, WorkerKeepsRegistry, ProcessKeepsRegistry DEF Next
<1>3. QED
  BY <1>1, <1>2

\* However many requests run at once, there is exactly one active model, as long
\* as no two of them raced for a model, and it has its vector space whenever the
\* process is up, unless it was raced for itself; no page vector refers to a
\* model without a row (api/routes/models.py:176-186, 204-215).
THEOREM ActiveModelServes == Spec => []OneModelActive
<1>1. ASSUME RegistryInv, [Next]_vars
      PROVE  RegistryInv'
  BY <1>1, RegistryKept
<1>2. Init => RegistryInv
  BY InitRegistry
<1>3. RegistryInv => OneModelActive
  BY RegistryGivesOneModel
<1>4. QED
  BY <1>1, <1>2, <1>3, PTL DEF Spec

-----------------------------------------------------------------------------
(* What is searched covers the corpus.  The invariant follows a page from  *)
(* both sides: an index job writes the vectors of every model that is      *)
(* searched or whose backfill has passed a page, because those models were *)
(* indexable when it began; a backfill job has left no indexed page behind *)
(* its cursor, because its batch is what comes next in the order of ids.   *)

IndexPlaces == {"chunks", "points", "pool", "indexed"}
BackfillPlaces == {"state", "list", "embed", "vectors", "pool", "save", "finish", "ready"}
IndexWork == [at : IndexPlaces, kind : {"index"}, page : Pages, models : SUBSET Models]
BackfillWork == [at : BackfillPlaces, kind : {"backfill"}, job : Nat, model : Models,
                 cursor : 0..NumPages, finished : BOOLEAN, batch : SUBSET Pages]
JobRows == [model : Models, status : {"pending", "running", "done", "dead"}, attempts : Nat]
States == [cursor : 0..NumPages, finished : BOOLEAN, kept : BOOLEAN]

\* Models SearchSeesCorpus speaks of; a page with both vectors of a model; a
\* backfill that has left nothing behind its cursor; what is searched or may be
\* made to be, or is about to.
Whole(m) == m \notin holed /\ m \notin raced /\ m \notin Doing("delete")
Have(m, p) == p \in points[m] /\ p \in pooled[m]
Through(m, cursor) == \A p \in Pages : page[p] = "indexed" /\ p <= cursor => Have(m, p)
Served(m) == m \in active \/ row[m] = "ready" \/ m \in Doing("activate")
Reached(m) == Served(m) \/ state[m].cursor > 0

CorpusTyped ==
    /\ page \in [Pages -> {"queued", "indexed", "gone"}]
    /\ chunked \subseteq Pages
    /\ points = [m \in Models |-> points[m]]
    /\ state \in [Models -> States]
    /\ jobs \in Seq(JobRows)
    /\ \A p \in Pages : page[p] = "indexed" => p \in chunked

WorkerTyped ==
    /\ worker \in {Idle} \union IndexWork \union BackfillWork
    /\ phase # "up" => worker = Idle

\* A model that is active or about to be, has jobs to come or a cursor under way
\* is indexable.
RowsKnow ==
    /\ active \ raced \subseteq Indexable
    /\ \A c \in Clients : client[c].model \notin raced =>
          /\ client[c].at \in {"activate", "enqueue"} => client[c].model \in Indexable
          /\ client[c].at \in {"reset", "mark"} => Registered(client[c].model)
    /\ \A m \in Models : Whole(m) /\ (Outstanding(m) \/ state[m].cursor > 0) => m \in Indexable

CoveredThrough ==
    \A m \in Indexable : Whole(m) =>
        /\ Through(m, state[m].cursor)
        /\ Served(m) => Covers(m)

IndexKnows ==
    worker \in IndexWork =>
        /\ page[worker.page] # "indexed"
        /\ worker.at # "chunks" /\ page[worker.page] # "gone" => worker.page \in chunked
        /\ \A m \in Indexable :
              Whole(m) /\ Reached(m) =>
                  /\ m \in worker.models
                  /\ worker.at \in {"pool", "indexed"} => worker.page \in points[m]
                  /\ worker.at = "indexed" /\ page[worker.page] # "gone"
                        => worker.page \in pooled[m]

BatchKnows ==
    worker \in BackfillWork /\ worker.at \in {"embed", "vectors", "pool", "save"} =>
        /\ worker.batch # {}
        /\ \A b \in worker.batch : worker.cursor < b
        /\ \A q \in chunked, b \in worker.batch :
              worker.cursor < q /\ q <= b => q \in worker.batch

BackfillKnows ==
    worker \in BackfillWork =>
        /\ worker.job \in DOMAIN jobs
        /\ jobs[worker.job].model = worker.model /\ jobs[worker.job].status = "running"
        /\ Whole(worker.model) =>
              /\ worker.at # "state" => Through(worker.model, worker.cursor)
              /\ worker.at = "pool" => NextPage \in points[worker.model]
              /\ worker.at = "save" /\ page[NextPage] = "indexed" => Have(worker.model, NextPage)
              /\ worker.at \in {"finish", "ready"} => Covers(worker.model)

CorpusInv ==
    /\ CorpusTyped /\ WorkerTyped /\ RowsKnow
    /\ CoveredThrough /\ IndexKnows /\ BatchKnows /\ BackfillKnows

-----------------------------------------------------------------------------
\* A nonempty set of naturals has a least element, the one Min chooses.
LEMMA MinIsLeast ==
    ASSUME NEW S \in SUBSET Nat, S # {}
    PROVE  Min(S) \in S /\ \A x \in S : Min(S) <= x
<1> DEFINE R == {ss \in Nat \X Nat : ss[1] < ss[2]}
<1>1. R = OpToRel(<, Nat)
  BY Zenon DEF OpToRel
<1>2. IsWellFoundedOn(R, Nat)
  BY <1>1, NatLessThanWellFounded, Zenon
<1> HIDE DEF R
<1>3. \E n \in S : \A x \in S : ~(<<x, n>> \in R)
  BY <1>2, WFMin
<1>4. PICK n \in S : \A x \in S : ~(<<x, n>> \in R)
  BY <1>3
<1>5. ASSUME NEW x \in S
      PROVE  n <= x
  <2>1. <<x, n>> \in Nat \X Nat
    OBVIOUS
  <2>2. ~(x < n)
    BY <1>4, <2>1 DEF R
  <2>3. QED
    BY <2>2
<1>6. QED
  BY <1>5 DEF Min

\* The next page of a batch that is not empty is in it, and the least of it.
LEMMA NextPageIsLeast ==
    ASSUME worker \in BackfillWork, worker.batch # {}
    PROVE  NextPage \in worker.batch /\ \A b \in worker.batch : NextPage <= b
BY MinIsLeast DEF NextPage, BackfillWork, Pages

\* A batch is an initial part of the pages after the cursor, and is empty only
\* when there are none.
LEMMA BatchIsNext ==
    ASSUME chunked \subseteq Pages, NEW cursor \in 0..NumPages
    PROVE  /\ NextPages(cursor) \subseteq After(cursor)
           /\ \A q \in chunked, b \in NextPages(cursor) :
                 cursor < q /\ q <= b => q \in NextPages(cursor)
           /\ NextPages(cursor) = {} => After(cursor) = {}
<1> DEFINE Upto(p) == {q \in After(cursor) : q <= p}
<1>1. After(cursor) \subseteq Pages /\ After(cursor) \subseteq Nat /\ IsFiniteSet(Pages)
  <2>1. 1 \in Int /\ NumPages \in Int
    BY SizesAssumption
  <2>2. IsFiniteSet(Pages)
    BY <2>1, FS_Interval DEF Pages
  <2>3. After(cursor) \subseteq Pages
    BY DEF After
  <2>4. Pages \subseteq Nat
    BY <2>1 DEF Pages
  <2>5. QED
    BY <2>2, <2>3, <2>4
<1>2. \A p \in Pages : IsFiniteSet(Upto(p)) /\ Cardinality(Upto(p)) \in Nat
  <2> SUFFICES ASSUME NEW p \in Pages
               PROVE  IsFiniteSet(Upto(p)) /\ Cardinality(Upto(p)) \in Nat
    OBVIOUS
  <2>1. Upto(p) \in SUBSET Pages
    BY <1>1
  <2>2. IsFiniteSet(Upto(p))
    BY <1>1, <2>1, FS_Subset
  <2>3. QED
    BY <2>2, FS_CardinalityType
<1>3. ASSUME NEW q \in chunked, NEW b \in NextPages(cursor), cursor < q, q <= b
      PROVE  q \in NextPages(cursor)
  <2>1. q \in After(cursor) /\ b \in After(cursor)
    BY <1>3 DEF NextPages, After
  <2>2. Upto(q) \in SUBSET Upto(b)
    BY <1>1, <1>3, <2>1
  <2>3. Cardinality(Upto(q)) <= Cardinality(Upto(b))
    BY <1>1, <1>2, <2>1, <2>2, FS_Subset
  <2>4. Cardinality(Upto(b)) <= PageBatch
    BY DEF NextPages
  <2>5. Cardinality(Upto(q)) <= PageBatch
    BY <1>1, <1>2, <2>1, <2>3, <2>4, SizesAssumption
  <2>6. QED
    BY <2>1, <2>5 DEF NextPages
<1>4. ASSUME After(cursor) # {}
      PROVE  NextPages(cursor) # {}
  <2> DEFINE least == Min(After(cursor))
  <2>1. least \in After(cursor) /\ \A x \in After(cursor) : least <= x
    BY <1>1, <1>4, MinIsLeast
  <2>2. Upto(least) = {least}
    BY <1>1, <2>1
  <2>3. Cardinality(Upto(least)) = 1
    BY <2>2, FS_Singleton
  <2>4. QED
    BY <2>1, <2>3, SizesAssumption DEF NextPages
<1>5. NextPages(cursor) \subseteq After(cursor)
  BY DEF NextPages
<1>6. QED
  BY <1>3, <1>4, <1>5

\* The property is the part of the invariant a reader sees.
LEMMA CorpusGivesSearch ==
    ASSUME RegistryInv, CorpusInv
    PROVE  SearchSeesCorpus
BY DEF CorpusInv, RowsKnow, CoveredThrough, SearchSeesCorpus, Whole, Served, Indexable,
   list_models, RegistryInv, RegistryTyped, OneActive

\* An empty corpus is covered.
LEMMA InitCorpus ==
    ASSUME Init
    PROVE  CorpusInv
<1> USE ModelsAssumption, SizesAssumption
<1>1. CorpusTyped
  BY DEF Init, CorpusTyped, NoState, States, Pages
<1>2. WorkerTyped
  BY DEF Init, WorkerTyped
<1>3. RowsKnow
  BY DEF Init, RowsKnow, Idle, Indexable, list_models, Outstanding, NoState, Registered
<1>4. CoveredThrough
  BY DEF Init, CoveredThrough, Through, Covers
<1>5. worker \notin IndexWork /\ worker \notin BackfillWork
  BY DEF Init, Idle, IndexWork, BackfillWork, IndexPlaces, BackfillPlaces
<1>6. QED
  BY <1>1, <1>2, <1>3, <1>4, <1>5 DEF CorpusInv, IndexKnows, BatchKnows, BackfillKnows

\* The worker, from the place it is at.
LEMMA WorkerPlaces ==
    ASSUME WorkerTyped
    PROVE  /\ \A at \in IndexPlaces : At(at, "index") => worker \in IndexWork
           /\ \A at \in BackfillPlaces : At(at, "backfill") => worker \in BackfillWork
           /\ Idle \notin IndexWork /\ Idle \notin BackfillWork
           /\ worker \in IndexWork => worker \notin BackfillWork
BY DEF WorkerTyped, At, Idle, IndexWork, BackfillWork, IndexPlaces, BackfillPlaces

\* A step of anyone but the worker, or one that ends what the worker did: it
\* writes no page and no vector, and the models that are whole, indexable and
\* reached afterwards were so before, with the same vectors and no later cursor.
LEMMA CarriedOn ==
    ASSUME CorpusInv,
           worker' = worker \/ worker' = Idle,
           UNCHANGED <<page, chunked>>,
           state' \in [Models -> States],
           worker' = worker =>
               \A j \in DOMAIN jobs : j \in DOMAIN jobs' /\ jobs'[j] = jobs[j],
           \A m \in Indexable' : Whole(m)' /\ Reached(m)' =>
               /\ Whole(m) /\ m \in Indexable
               /\ points'[m] = points[m] /\ pooled'[m] = pooled[m]
               /\ state'[m].cursor <= state[m].cursor
               /\ Served(m)' => Served(m),
           \A m \in Models : worker \in BackfillWork /\ worker.model = m /\ Whole(m)' =>
               Whole(m) /\ points'[m] = points[m] /\ pooled'[m] = pooled[m]
    PROVE  CoveredThrough' /\ IndexKnows' /\ BatchKnows' /\ BackfillKnows'
<1> USE DEF CorpusInv
<1>0. /\ \A m \in Indexable' : m \in Models
      /\ \A m \in Models : state[m].cursor \in 0..NumPages /\ state'[m].cursor \in 0..NumPages
      /\ NumPages \in Nat
  BY SizesAssumption DEF CorpusTyped, States, Indexable, list_models
<1>1. ASSUME NEW m \in Indexable', Whole(m)'
      PROVE  Through(m, state[m].cursor)' /\ (Served(m) => Covers(m))'
  <2>1. CASE Reached(m)'
    <3>1. Through(m, state[m].cursor) /\ (Served(m) => Covers(m))
      BY <1>1, <2>1 DEF CoveredThrough
    <3>2. QED
      BY <1>0, <1>1, <2>1, <3>1 DEF Through, Have, Covers, Pages
  <2>2. CASE ~Reached(m)'
    <3>1. state'[m].cursor = 0 /\ ~Served(m)'
      BY <1>0, <2>2 DEF Reached
    <3>2. QED
      BY <3>1 DEF Through, Pages
  <2>3. QED
    BY <2>1, <2>2
<1>2. CoveredThrough'
  BY <1>1 DEF CoveredThrough
<1>3. CASE worker' = Idle
  BY <1>2, <1>3, WorkerPlaces DEF IndexKnows, BatchKnows, BackfillKnows
<1>4. CASE worker' = worker
  <2>1. IndexKnows'
    <3> SUFFICES ASSUME worker \in IndexWork
                 PROVE  IndexKnows'
      BY <1>4 DEF IndexKnows
    <3>1. \A m \in Indexable' : Whole(m)' /\ Reached(m)' =>
            m \in Indexable /\ Whole(m) /\ Reached(m) /\ points'[m] = points[m] /\ pooled'[m] = pooled[m]
      BY <1>0 DEF Reached
    <3>2. QED
      BY <1>4, <3>1 DEF IndexKnows
  <2>2. BatchKnows'
    BY <1>4 DEF BatchKnows
  <2>3. BackfillKnows'
    <3> SUFFICES ASSUME worker \in BackfillWork
                 PROVE  BackfillKnows'
      BY <1>4 DEF BackfillKnows
    <3>1. worker.model \in Models
      BY DEF BackfillWork
    <3>2. worker.job \in DOMAIN jobs' /\ jobs'[worker.job] = jobs[worker.job]
      BY <1>4 DEF BackfillKnows
    <3>3. NextPage' = NextPage
      BY <1>4 DEF NextPage
    <3>4. QED
      BY <1>4, <3>1, <3>2, <3>3 DEF BackfillKnows, Through, Have, Covers
  <2>4. QED
    BY <1>2, <2>1, <2>2, <2>3
<1>5. QED
  BY <1>3, <1>4

\* A step of a request about model n leaves the vectors, the state and the rows of
\* the others, and every job, as they are.
OthersKept(n) ==
    /\ \A m \in Models \ {n} :
          /\ row'[m] = row[m] /\ (m \in active' => m \in active)
          /\ points'[m] = points[m] /\ pooled'[m] = pooled[m] /\ state'[m] = state[m]
    /\ raced \subseteq raced' /\ raced' \subseteq raced \union {n}
    /\ holed \subseteq holed' /\ holed' \subseteq holed \union {n}
    /\ \A j \in DOMAIN jobs : j \in DOMAIN jobs' /\ jobs'[j] = jobs[j]
    /\ \A j \in DOMAIN jobs' : j \in DOMAIN jobs \/ jobs'[j].model = n

\* The row of n is what the requests about it count on, of which r is one.
RowStays(c, n, r) ==
    n \notin raced' =>
        /\ n \in active' \/ r.at \in {"activate", "enqueue"} => n \in Indexable'
        /\ r.at \in {"reset", "mark"} => Registered(n)'
        /\ \A d \in Clients \ {c} :
              client[d].at \in Places /\ client[d].model = n =>
                 /\ n \in Indexable => n \in Indexable'
                 /\ Registered(n) => Registered(n)'

\* If n is reached or being backfilled, it was so before, with the same vectors.
VectorsStay(n) ==
    Whole(n)' =>
        /\ Outstanding(n)' \/ state'[n].cursor > 0 => n \in Indexable'
        /\ n \in Indexable' /\ Reached(n)' =>
              /\ Whole(n) /\ n \in Indexable
              /\ points'[n] = points[n] /\ pooled'[n] = pooled[n]
              /\ state'[n].cursor <= state[n].cursor
              /\ Served(n)' => Served(n)
        /\ worker \in BackfillWork /\ worker.model = n =>
              Whole(n) /\ points'[n] = points[n] /\ pooled'[n] = pooled[n]

\* Such a step keeps the invariant.
LEMMA CorpusFrame ==
    ASSUME RegistryInv, RegistryInv', CorpusInv, CorpusTyped',
           NEW c \in Clients, NEW n \in Models,
           NEW r \in {Idle} \union [at : Places, model : {n}],
           client' = [client EXCEPT ![c] = r],
           client[c] = Idle \/ client[c].model = n,
           phase = "up", phase' = "up", UNCHANGED <<page, chunked, worker>>,
           OthersKept(n), RowStays(c, n, r), VectorsStay(n)
    PROVE  CorpusInv'
<1> USE DEF CorpusInv
<1>1. /\ client'[c] = r /\ \A d \in Clients \ {c} : client'[d] = client[d]
      /\ \A d \in Clients : client[d] = Idle \/ (client[d].at \in Places /\ client[d].model \in Models)
      /\ Idle.at = "idle" /\ (r = Idle \/ r.model = n)
      /\ ClientTyped
  BY DoingMoves DEF RegistryInv, ClientTyped, Idle
<1>2. \A m \in Models \ {n}, at \in Places : m \in Doing(at)' <=> m \in Doing(at)
  <2> SUFFICES ASSUME NEW m \in Models \ {n}, NEW at \in Places
               PROVE  m \in Doing(at)' <=> m \in Doing(at)
    OBVIOUS
  <2>1. \A d \in Clients : client'[d].at = at /\ client'[d].model = m <=>
                           client[d].at = at /\ client[d].model = m
    BY <1>1 DEF Places
  <2>2. QED
    BY <2>1 DEF Doing
<1>3. \A m \in Models \ {n} : /\ Whole(m)' <=> Whole(m)
                              /\ Served(m)' => Served(m)
                              /\ Reached(m)' => Reached(m)
                              /\ Registered(m)' <=> Registered(m)
                              /\ Outstanding(m)' => Outstanding(m)
                              /\ m \in Indexable' <=> m \in Indexable
  <2>1. "delete" \in Places /\ "activate" \in Places
    BY DEF Places
  <2>2. \A m \in Models \ {n} : (Whole(m)' <=> Whole(m)) /\ (Served(m)' => Served(m))
    BY <1>2, <2>1 DEF Whole, Served, OthersKept
  <2>3. \A m \in Models \ {n} : /\ Registered(m)' <=> Registered(m)
                                /\ m \in Indexable' <=> m \in Indexable
    BY DEF OthersKept, Registered, Indexable, list_models
  <2>4. \A m \in Models \ {n} : Outstanding(m)' => Outstanding(m)
    BY DEF OthersKept, Outstanding
  <2>5. \A m \in Models \ {n} : Reached(m)' => Reached(m)
    BY <2>2 DEF Reached, OthersKept
  <2>6. QED
    BY <2>2, <2>3, <2>4, <2>5
<1>4. \A m \in Models : state[m].cursor \in Nat /\ state'[m].cursor \in Nat
  BY SizesAssumption DEF CorpusTyped, States
<1>5. \A m \in Indexable' : m \in Models
  BY DEF Indexable, list_models
<1>6. RowsKnow'
  <2>1. active' \ raced' \subseteq Indexable'
    BY <1>3 DEF RowsKnow, RowStays, OthersKept, RegistryInv, OneActive
  <2>2. ASSUME NEW d \in Clients, NEW k \in Models, client'[d].model = k, k \notin raced'
        PROVE  /\ client'[d].at \in {"activate", "enqueue"} => k \in Indexable'
               /\ client'[d].at \in {"reset", "mark"} => Registered(k)'
    <3>1. CASE d = c
      BY <1>1, <2>2, <3>1 DEF RowStays, Idle
    <3>2. CASE d # c /\ client[d] = Idle
      BY <1>1, <3>2 DEF Idle
    <3>3. CASE d # c /\ client[d].at \in Places
      <4>1. client'[d] = client[d] /\ client[d].model = k /\ k \notin raced
        BY <1>1, <2>2, <3>3 DEF OthersKept
      <4>2. /\ client[d].at \in {"activate", "enqueue"} => k \in Indexable
            /\ client[d].at \in {"reset", "mark"} => Registered(k)
        BY <4>1 DEF RowsKnow
      <4>3. CASE k = n
        BY <2>2, <3>3, <4>1, <4>2, <4>3 DEF RowStays
      <4>4. CASE k # n
        BY <1>3, <4>1, <4>2, <4>4
      <4>5. QED
        BY <4>3, <4>4
    <3>4. QED
      BY <1>1, <3>1, <3>2, <3>3
  <2>5. \A d \in Clients : client'[d] = Idle \/ client'[d].model \in Models
    BY <1>1
  <2>3. \A m \in Models : Whole(m)' /\ (Outstanding(m)' \/ state'[m].cursor > 0) => m \in Indexable'
    BY <1>3 DEF RowsKnow, VectorsStay, OthersKept
  <2>4. RowsKnow'
    BY <1>1, <2>1, <2>2, <2>3, <2>5 DEF RowsKnow, Idle
  <2>6. QED
    BY <2>4
<1>7. \A m \in Indexable' : Whole(m)' /\ Reached(m)' =>
         /\ Whole(m) /\ m \in Indexable
         /\ points'[m] = points[m] /\ pooled'[m] = pooled[m]
         /\ state'[m].cursor <= state[m].cursor
         /\ Served(m)' => Served(m)
  BY <1>3, <1>4, <1>5 DEF VectorsStay, OthersKept
<1>8. \A m \in Models : worker \in BackfillWork /\ worker.model = m /\ Whole(m)' =>
         Whole(m) /\ points'[m] = points[m] /\ pooled'[m] = pooled[m]
  BY <1>3 DEF VectorsStay, OthersKept
<1>9. CoveredThrough' /\ IndexKnows' /\ BatchKnows' /\ BackfillKnows'
  <2>1. \A j \in DOMAIN jobs : j \in DOMAIN jobs' /\ jobs'[j] = jobs[j]
    BY DEF OthersKept
  <2>2. state' \in [Models -> States]
    BY DEF CorpusTyped
  <2>3. QED
    BY <1>7, <1>8, <2>1, <2>2, CarriedOn
<1>10. WorkerTyped'
  BY DEF WorkerTyped
<1>11. QED
  BY <1>6, <1>9, <1>10

\* Requests: a model is retired with its state, and is holed when its backfill
\* was not over; a status is set only on a model that is registered.
LEMMA RequestsKeepCorpus ==
    ASSUME RegistryInv, RegistryInv', CorpusInv, Requests
    PROVE  CorpusInv'
<1> USE DEF CorpusInv
<1>0. PICK c \in Clients :
        \/ \E m \in Models :
              RegisterCheck(c, m) \/ ActivateCheck(c, m) \/ RetireCheck(c, m) \/ StartRead(c, m)
        \/ RegisterAdd(c) \/ RegisterRow(c) \/ ActivateFlip(c)
        \/ RetireDrop(c) \/ RetireDelete(c)
        \/ StartReset(c) \/ StartMark(c) \/ StartEnqueue(c)
  BY DEF Requests
<1>n. PICK n : n = client[c].model
  OBVIOUS
<1> USE <1>n
<1>2. client[c] = Idle \/ client[c] \in [at : Places, model : Models]
  BY DEF RegistryInv, ClientTyped
<1>3. client[c].at \in Places => n \in Models
  BY <1>2 DEF Idle, Places
<1>4. /\ phase = "up" /\ phase' = "up" /\ UNCHANGED <<page, chunked, worker>>
  BY <1>0 DEF RegisterCheck, ActivateCheck, RetireCheck, StartRead, RegisterAdd,
     RegisterRow, ActivateFlip, RetireDrop, RetireDelete, StartReset, StartMark,
     StartEnqueue, Asks, Does, pageVars
<1>5. /\ row \in [Models -> Statuses] /\ active \subseteq Models
      /\ pooled = [m \in Models |-> pooled[m]]
      /\ points = [m \in Models |-> points[m]]
      /\ state \in [Models -> States] /\ jobs \in Seq(JobRows)
      /\ \A m \in Models : state[m].cursor \in Nat
  BY SizesAssumption DEF RegistryInv, RegistryTyped, OneActive, CorpusTyped, States
<1>c. ClientTyped
  BY DEF RegistryInv
<1>6. NoState \in States /\ NoState.cursor = 0
  BY SizesAssumption DEF NoState, States
<1>7. client[c].at \in Lone /\ n \notin raced =>
         \A d \in Clients \ {c} : ~(client[d].at \in Places /\ client[d].model = n)
  BY DEF RegistryInv, Alone
\* What is read of n, where neither the row nor the state of n is written.
<1>8. ASSUME NEW m \in Models, m \notin raced
      PROVE  /\ m \in active => m \in Indexable
             /\ m \in Doing("activate") => m \in Indexable
             /\ Whole(m) /\ (Outstanding(m) \/ state[m].cursor > 0) => m \in Indexable
             /\ worker \in BackfillWork /\ worker.model = m => Outstanding(m)
  <2>1. m \in Doing("activate") => m \in Indexable
    BY <1>8 DEF RowsKnow, Doing
  <2>2. worker \in BackfillWork /\ worker.model = m => Outstanding(m)
    BY DEF BackfillKnows, Outstanding
  <2>3. QED
    BY <1>8, <2>1, <2>2 DEF RowsKnow
\* The checks.
<1>9. ASSUME NEW m \in Models,
             RegisterCheck(c, m) \/ ActivateCheck(c, m) \/ RetireCheck(c, m) \/ StartRead(c, m)
      PROVE  CorpusInv'
  <2>1. PICK next \in Places :
          /\ client[c] = Idle
          /\ client' = [client EXCEPT ![c] = [at |-> next, model |-> m]]
          /\ next = "activate" => row[m] = "ready"
          /\ next \in {"reset", "mark"} => Registered(m)
          /\ next \notin {"delete", "enqueue"}
          /\ raced \subseteq raced' /\ raced' \subseteq raced \union {m}
    BY <1>9 DEF RegisterCheck, ActivateCheck, RetireCheck, StartRead, Asks, Step, Places,
       Registered, Beside
  <2>2. UNCHANGED <<row, active, points, pooled, state, jobs, holed>>
    BY <1>9 DEF RegisterCheck, ActivateCheck, RetireCheck, StartRead, registryVars, vectorVars,
       historyVars
  <2>3. PICK r \in {Idle} \union [at : Places, model : {m}] :
          r.at = next /\ r.model = m /\ client' = [client EXCEPT ![c] = r]
    BY <2>1
  <2>4. Indexable' = Indexable /\ (row[m] = "ready" => m \in Indexable)
    BY <2>2 DEF Indexable, list_models
  <2>5. CorpusTyped' /\ OthersKept(m)
    BY <1>4, <2>1, <2>2 DEF CorpusTyped, OthersKept
  <2>6. RowStays(c, m, r)
    BY <1>8, <2>1, <2>2, <2>3, <2>4 DEF RowStays, Registered
  <2>7. VectorsStay(m)
    <3>1. Idle.at = "idle"
      BY DEF Idle
    <3>2. /\ m \in Doing("delete") => m \in Doing("delete")'
          /\ m \in Doing("activate")' => m \in Doing("activate") \/ row[m] = "ready"
      <4>1. client[c].at = "idle" /\ r.at = next
        BY <2>1, <2>3, <3>1
      <4>2. m \in Doing("delete") => m \in Doing("delete")'
        BY <1>c, <2>3, <4>1, DoingMoves
      <4>3. next # "activate" => Doing("activate")' \subseteq Doing("activate")
        BY <1>c, <2>3, <4>1, DoingMoves
      <4>4. QED
        BY <2>1, <4>2, <4>3
    <3>3. /\ Whole(m)' => Whole(m) /\ m \notin raced
          /\ Served(m)' => Served(m)
          /\ Reached(m)' => Reached(m)
          /\ Outstanding(m)' <=> Outstanding(m)
      BY <2>1, <2>2, <3>2 DEF Whole, Served, Reached, Outstanding
    <3>4. QED
      BY <1>5, <1>8, <2>2, <2>4, <3>3 DEF VectorsStay
  <2>8. QED
    BY <1>4, <2>1, <2>3, <2>5, <2>6, <2>7, CorpusFrame
\* What follows a check: the facts each of them needs of n.
<1>10. ASSUME n \in Models, client[c].at \in Places \ {"delete"},
              NEW r \in {Idle} \union [at : Places, model : {n}], r.at # "delete",
              r.at = "activate" => FALSE,
              client' = [client EXCEPT ![c] = r], UNCHANGED raced, holed \subseteq holed'
       PROVE  /\ Whole(n)' => Whole(n) /\ n \notin raced /\ n \notin holed'
              /\ n \in Doing("activate")' => n \in Doing("activate")
  <2>1. n \in Doing("delete") => n \in Doing("delete")'
    BY <1>c, <1>10, DoingMoves
  <2>2. Doing("activate")' \subseteq Doing("activate")
    BY <1>c, <1>10, DoingMoves
  <2>3. QED
    BY <1>10, <2>1, <2>2 DEF Whole
<1>11. CASE RegisterAdd(c)
  <2>1. /\ client[c].at = "add_model" /\ n \in Models
        /\ client' = [client EXCEPT ![c] = [at |-> "register_model", model |-> n]]
        /\ UNCHANGED <<row, active, points, pooled, state, jobs, holed, raced>>
    BY <1>3, <1>11 DEF RegisterAdd, Does, Step, registryVars, historyVars, Places
  <2>2. PICK r \in {Idle} \union [at : Places, model : {n}] :
          r.at = "register_model" /\ client' = [client EXCEPT ![c] = r]
    BY <2>1 DEF Places
  <2>3. Indexable' = Indexable
    BY <2>1 DEF Indexable, list_models
  <2>4. CorpusTyped' /\ OthersKept(n)
    BY <1>4, <2>1 DEF CorpusTyped, OthersKept
  <2>5. RowStays(c, n, r)
    BY <1>8, <2>1, <2>2, <2>3 DEF RowStays, Registered
  <2>6. VectorsStay(n)
    <3>1. /\ Whole(n)' => Whole(n) /\ n \notin raced
          /\ n \in Doing("activate")' => n \in Doing("activate")
      BY <1>10, <2>1, <2>2 DEF Places
    <3>2. /\ Served(n)' => Served(n)
          /\ Reached(n)' => Reached(n)
          /\ Outstanding(n)' <=> Outstanding(n)
      BY <2>1, <3>1 DEF Served, Reached, Outstanding
    <3>3. QED
      BY <1>5, <1>8, <2>1, <2>3, <3>1, <3>2 DEF VectorsStay
  <2>7. QED
    BY <1>4, <2>1, <2>2, <2>4, <2>5, <2>6, CorpusFrame
<1>12. CASE RegisterRow(c)
  <2>1. /\ client[c].at = "register_model" /\ client[c].at \in Lone /\ n \in Models
        /\ client' = [client EXCEPT ![c] = Idle]
        /\ UNCHANGED <<active, pooled, state, jobs, raced>>
    BY <1>3, <1>12 DEF RegisterRow, Does, Ends, Places, Lone
  <2>2. /\ Registered(n) => /\ points' = [points EXCEPT ![n] = {}]
                            /\ holed' = holed \union {n} /\ row' = row
        /\ ~Registered(n) => /\ row' = [row EXCEPT ![n] = "registered"]
                             /\ UNCHANGED <<points, holed>>
    BY <1>12 DEF RegisterRow, register_model
  <2>3. PICK r \in {Idle} \union [at : Places, model : {n}] :
          r.at = "idle" /\ client' = [client EXCEPT ![c] = r]
    BY <2>1 DEF Idle
  <2>4. \A m \in Models : /\ row'[m] = IF m = n /\ ~Registered(n) THEN "registered" ELSE row[m]
                          /\ points'[m] = IF m = n /\ Registered(n) THEN {} ELSE points[m]
    <3>1. CASE Registered(n)
      BY <1>5, <2>2, <3>1
    <3>2. CASE ~Registered(n)
      BY <1>5, <2>2, <3>2
    <3>3. QED
      BY <3>1, <3>2
  <2>5. CorpusTyped'
    <3>1. points' = [m \in Models |-> points'[m]]
      <4>1. CASE Registered(n)
        BY <1>5, <2>2, <4>1
      <4>2. CASE ~Registered(n)
        BY <1>5, <2>2, <4>2
      <4>3. QED
        BY <4>1, <4>2
    <3>2. QED
      BY <1>4, <2>1, <3>1 DEF CorpusTyped
  <2>6. holed \subseteq holed' /\ holed' \subseteq holed \union {n}
    BY <2>2
  <2>7. OthersKept(n)
    BY <2>1, <2>4, <2>6 DEF OthersKept
  <2>8. n \notin raced => ~Registered(n) /\ n \notin active
    BY <2>1 DEF RegistryInv, Claims, OneActive
  <2>9. ~Registered(n) => n \notin Indexable /\ n \notin Indexable'
    BY <2>1, <2>4 DEF Indexable, list_models, Registered
  <2>10. RowStays(c, n, r)
    BY <1>7, <2>1, <2>3, <2>8 DEF RowStays
  <2>11. VectorsStay(n)
    <3>1. Whole(n)' => Whole(n) /\ n \notin raced
      BY <1>10, <2>1, <2>3, <2>6 DEF Places
    <3>2. Outstanding(n)' <=> Outstanding(n)
      BY <2>1 DEF Outstanding
    <3>3. Whole(n)' => ~Registered(n) /\ ~Outstanding(n) /\ ~(state'[n].cursor > 0)
      BY <1>8, <2>1, <2>8, <2>9, <3>1
    <3>4. QED
      BY <1>8, <2>1, <2>8, <2>9, <3>1, <3>2, <3>3 DEF VectorsStay
  <2>12. QED
    BY <1>4, <2>1, <2>3, <2>5, <2>7, <2>10, <2>11, CorpusFrame
<1>13. CASE ActivateFlip(c)
  <2>1. /\ client[c].at = "activate" /\ n \in Models
        /\ active' \subseteq {n}
        /\ client' = [client EXCEPT ![c] = Idle]
        /\ UNCHANGED <<row, points, pooled, state, jobs, holed, raced>>
    BY <1>3, <1>13 DEF ActivateFlip, Does, Ends, vectorVars, historyVars, Places
  <2>2. PICK r \in {Idle} \union [at : Places, model : {n}] :
          r.at = "idle" /\ client' = [client EXCEPT ![c] = r]
    BY <2>1 DEF Idle
  <2>3. Indexable' = Indexable /\ n \in Doing("activate")
    BY <2>1 DEF Indexable, list_models, Doing
  <2>4. CorpusTyped' /\ OthersKept(n)
    BY <1>4, <2>1 DEF CorpusTyped, OthersKept
  <2>5. RowStays(c, n, r)
    BY <1>8, <2>1, <2>2, <2>3 DEF RowStays, Registered
  <2>6. VectorsStay(n)
    <3>1. Whole(n)' => Whole(n) /\ n \notin raced
      BY <1>10, <2>1, <2>2 DEF Places
    <3>2. Served(n) /\ Reached(n) /\ (Outstanding(n)' <=> Outstanding(n))
      BY <2>1, <2>3 DEF Served, Reached, Outstanding
    <3>3. QED
      BY <1>5, <1>8, <2>1, <2>3, <3>1, <3>2 DEF VectorsStay
  <2>7. QED
    BY <1>4, <2>1, <2>2, <2>4, <2>5, <2>6, CorpusFrame
<1>14. CASE RetireDrop(c)
  <2>1. /\ client[c].at = "drop" /\ client[c].at \in Lone /\ n \in Models
        /\ points' = [points EXCEPT ![n] = {}]
        /\ client' = [client EXCEPT ![c] = [at |-> "delete", model |-> n]]
        /\ UNCHANGED <<row, active, pooled, state, jobs, holed, raced>>
    BY <1>3, <1>14 DEF RetireDrop, Does, Step, registryVars, historyVars, Places, Lone
  <2>2. PICK r \in {Idle} \union [at : Places, model : {n}] :
          r.at = "delete" /\ r.model = n /\ client' = [client EXCEPT ![c] = r]
    BY <2>1 DEF Places
  <2>3. CorpusTyped' /\ OthersKept(n)
    BY <1>4, <1>5, <2>1 DEF CorpusTyped, OthersKept
  <2>4. RowStays(c, n, r)
    <3>1. n \notin raced => n \notin active
      BY <2>1 DEF RegistryInv, Claims
    <3>2. QED
      BY <1>7, <2>1, <2>2, <3>1 DEF RowStays
  <2>5. VectorsStay(n)
    <3>1. n \in Doing("delete")'
      BY <1>c, <2>1, <2>2, DoingMoves
    <3>2. QED
      BY <3>1 DEF VectorsStay, Whole
  <2>6. QED
    BY <1>4, <2>1, <2>2, <2>3, <2>4, <2>5, CorpusFrame
<1>15. CASE RetireDelete(c)
  <2>1. /\ client[c].at = "delete" /\ client[c].at \in Lone /\ n \in Models
        /\ row' = [row EXCEPT ![n] = "absent"]
        /\ pooled' = [pooled EXCEPT ![n] = {}]
        /\ state' = [state EXCEPT ![n] = NoState]
        /\ active' = active \ {n}
        /\ holed' = IF Outstanding(n) THEN holed \union {n} ELSE holed
        /\ client' = [client EXCEPT ![c] = Idle]
        /\ UNCHANGED <<points, jobs, raced>>
    BY <1>3, <1>15 DEF RetireDelete, Does, Ends, Places, Lone
  <2>2. PICK r \in {Idle} \union [at : Places, model : {n}] :
          r.at = "idle" /\ client' = [client EXCEPT ![c] = r]
    BY <2>1 DEF Idle
  <2>3. /\ \A m \in Models : row'[m] = IF m = n THEN "absent" ELSE row[m]
        /\ \A m \in Models : pooled'[m] = IF m = n THEN {} ELSE pooled[m]
        /\ \A m \in Models : state'[m] = IF m = n THEN NoState ELSE state[m]
    BY <1>5, <2>1
  <2>4. state' \in [Models -> States]
    BY <1>5, <1>6, <2>1
  <2>5. CorpusTyped'
    BY <1>4, <2>1, <2>4 DEF CorpusTyped
  <2>6. OthersKept(n)
    BY <2>1, <2>3 DEF OthersKept
  <2>7. n \notin Indexable' /\ n \notin active'
    BY <2>1, <2>3 DEF Indexable, list_models
  <2>8. RowStays(c, n, r)
    BY <1>7, <2>1, <2>2, <2>7 DEF RowStays
  <2>9. VectorsStay(n)
    <3>1. Whole(n)' => ~Outstanding(n) /\ ~Outstanding(n)' /\ n \notin raced
      BY <2>1 DEF Whole, Outstanding
    <3>2. state'[n].cursor = 0
      BY <1>6, <2>1, <2>3
    <3>3. QED
      BY <1>8, <2>1, <2>7, <3>1, <3>2 DEF VectorsStay
  <2>10. QED
    BY <1>4, <2>1, <2>2, <2>5, <2>6, <2>8, <2>9, CorpusFrame
<1>16. CASE StartReset(c)
  <2>1. PICK s0 : /\ s0 = [cursor |-> 0, finished |-> FALSE, kept |-> TRUE]
                  /\ client[c].at = "reset" /\ n \in Models
                  /\ state' = [state EXCEPT ![n] = s0]
                  /\ client' = [client EXCEPT ![c] = [at |-> "mark", model |-> n]]
                  /\ UNCHANGED <<row, active, points, pooled, jobs, holed, raced>>
    BY <1>3, <1>16 DEF StartReset, Does, Step, registryVars, vectorVars, historyVars, Places
  <2>2. s0 \in States /\ s0.cursor = 0
    BY <2>1, SizesAssumption DEF States
  <2>3. PICK r \in {Idle} \union [at : Places, model : {n}] :
          r.at = "mark" /\ client' = [client EXCEPT ![c] = r]
    BY <2>1 DEF Places
  <2>4. /\ \A m \in Models : state'[m] = IF m = n THEN s0 ELSE state[m]
        /\ state' \in [Models -> States]
    BY <1>5, <2>1, <2>2
  <2>5. Indexable' = Indexable
    BY <2>1 DEF Indexable, list_models
  <2>6. CorpusTyped' /\ OthersKept(n)
    BY <1>4, <2>1, <2>4 DEF CorpusTyped, OthersKept
  <2>7. RowStays(c, n, r)
    <3>1. n \notin raced => Registered(n)
      BY <2>1 DEF RowsKnow
    <3>2. QED
      BY <1>8, <2>1, <2>3, <2>5, <3>1 DEF RowStays, Registered
  <2>8. VectorsStay(n)
    <3>1. /\ Whole(n)' => Whole(n) /\ n \notin raced
          /\ n \in Doing("activate")' => n \in Doing("activate")
      BY <1>10, <2>1, <2>3 DEF Places
    <3>2. /\ Served(n)' => Served(n)
          /\ Outstanding(n)' <=> Outstanding(n)
          /\ state'[n].cursor = 0
      BY <2>1, <2>2, <2>4, <3>1 DEF Served, Outstanding
    <3>3. QED
      BY <1>5, <1>8, <2>1, <2>5, <3>1, <3>2 DEF VectorsStay
  <2>9. QED
    BY <1>4, <2>1, <2>3, <2>6, <2>7, <2>8, CorpusFrame
<1>17. CASE StartMark(c)
  <2>1. /\ client[c].at = "mark" /\ n \in Models
        /\ row' = [row EXCEPT ![n] = IF @ = "absent" THEN @ ELSE "backfilling"]
        /\ client' = [client EXCEPT ![c] = [at |-> "enqueue", model |-> n]]
        /\ UNCHANGED <<active, points, pooled, state, jobs, holed, raced>>
    BY <1>3, <1>17 DEF StartMark, SetStatus, Does, Step, vectorVars, historyVars, Places
  <2>2. PICK r \in {Idle} \union [at : Places, model : {n}] :
          r.at = "enqueue" /\ client' = [client EXCEPT ![c] = r]
    BY <2>1 DEF Places
  <2>3. \A m \in Models : row'[m] = IF m = n /\ Registered(n) THEN "backfilling" ELSE row[m]
    BY <1>5, <2>1 DEF Registered
  <2>4. CorpusTyped' /\ OthersKept(n)
    BY <1>4, <2>1, <2>3 DEF CorpusTyped, OthersKept
  <2>5. n \notin raced => Registered(n) /\ n \in Indexable'
    <3>1. n \notin raced => Registered(n)
      BY <2>1 DEF RowsKnow
    <3>2. QED
      BY <2>1, <2>3, <3>1 DEF Indexable, list_models
  <2>6. RowStays(c, n, r)
    BY <2>1, <2>3, <2>5 DEF RowStays, Registered
  <2>7. VectorsStay(n)
    <3>1. /\ Whole(n)' => Whole(n) /\ n \notin raced
          /\ n \in Doing("activate")' => n \in Doing("activate")
      BY <1>10, <2>1, <2>2 DEF Places
    <3>2. n \notin raced /\ Served(n)' => Served(n) /\ n \in Indexable
      BY <1>8, <2>1, <2>3, <2>5, <3>1 DEF Served
    <3>3. Whole(n)' /\ Reached(n)' => n \in Indexable
      BY <1>8, <2>1, <3>1, <3>2 DEF Reached
    <3>4. QED
      BY <1>5, <2>1, <2>5, <3>1, <3>2, <3>3 DEF VectorsStay
  <2>8. QED
    BY <1>4, <2>1, <2>2, <2>4, <2>6, <2>7, CorpusFrame
<1>18. CASE StartEnqueue(c)
  <2>1. /\ client[c].at = "enqueue" /\ n \in Models
        /\ jobs' = Append(jobs, [model |-> n, status |-> "pending", attempts |-> 0])
        /\ client' = [client EXCEPT ![c] = Idle]
        /\ UNCHANGED <<row, active, points, pooled, state, holed, raced>>
    BY <1>3, <1>18 DEF StartEnqueue, Does, Ends, registryVars, vectorVars, historyVars, Places
  <2>2. PICK r \in {Idle} \union [at : Places, model : {n}] :
          r.at = "idle" /\ client' = [client EXCEPT ![c] = r]
    BY <2>1 DEF Idle
  <2>3. /\ jobs' \in Seq(JobRows)
        /\ \A j \in DOMAIN jobs : j \in DOMAIN jobs' /\ jobs'[j] = jobs[j]
        /\ \A j \in DOMAIN jobs' : j \in DOMAIN jobs \/ jobs'[j].model = n
    BY <1>5, <2>1 DEF JobRows
  <2>4. Indexable' = Indexable
    BY <2>1 DEF Indexable, list_models
  <2>5. CorpusTyped' /\ OthersKept(n)
    BY <1>4, <2>1, <2>3 DEF CorpusTyped, OthersKept
  <2>6. n \notin raced => n \in Indexable
    BY <2>1 DEF RowsKnow
  <2>7. RowStays(c, n, r)
    BY <1>8, <2>1, <2>2, <2>4, <2>6 DEF RowStays, Registered
  <2>8. VectorsStay(n)
    <3>1. /\ Whole(n)' => Whole(n) /\ n \notin raced
          /\ n \in Doing("activate")' => n \in Doing("activate")
      BY <1>10, <2>1, <2>2 DEF Places
    <3>2. (Served(n)' => Served(n)) /\ (Reached(n)' => Reached(n))
      BY <2>1, <3>1 DEF Served, Reached
    <3>3. QED
      BY <1>5, <2>1, <2>4, <2>6, <3>1, <3>2 DEF VectorsStay
  <2>9. QED
    BY <1>4, <2>1, <2>2, <2>5, <2>7, <2>8, CorpusFrame
<1>19. QED
  BY <1>0, <1>9, <1>11, <1>12, <1>13, <1>14, <1>15, <1>16, <1>17, <1>18

\* What is read of a model stays with its row, its state and the requests.
LEMMA SameModels ==
    ASSUME UNCHANGED <<row, active, state, holed, raced, client>>
    PROVE  /\ Indexable' = Indexable
           /\ \A m : Whole(m)' <=> Whole(m)
           /\ \A m : Served(m)' <=> Served(m)
           /\ \A m : Reached(m)' <=> Reached(m)
BY DEF Indexable, list_models, Whole, Doing, Served, Reached

\* A page that is purged is no longer to be found, and its vectors go with it.
LEMMA PurgeKeepsCorpus ==
    ASSUME CorpusInv, NEW p \in Pages, Purge(p)
    PROVE  CorpusInv'
<1> USE DEF CorpusInv
<1>1. /\ page' = [page EXCEPT ![p] = "gone"]
      /\ chunked' = chunked \ {p}
      /\ pooled' = [m \in Models |-> pooled[m] \ {p}]
      /\ UNCHANGED <<phase, row, active, points, state, jobs, worker, client, holed, raced>>
  BY DEF Purge, registryVars, historyVars
<1>2. \A q \in Pages : page'[q] = IF q = p THEN "gone" ELSE page[q]
  BY <1>1 DEF CorpusTyped
<1>3. CorpusTyped' /\ WorkerTyped'
  BY <1>1, <1>2 DEF CorpusTyped, WorkerTyped
<1>4. Indexable' = Indexable /\ \A m \in Indexable : m \in Models
  BY <1>1, SameModels DEF Indexable, list_models
<1>5. RowsKnow'
  BY <1>1, <1>4, SameModels DEF RowsKnow, Outstanding, Registered
<1>6. \A m \in Models, q \in Pages : q # p /\ Have(m, q) => Have(m, q)'
  BY <1>1 DEF Have
<1>7. \A m \in Models : /\ \A k : Through(m, k) => Through(m, k)'
                        /\ Covers(m) => Covers(m)'
  BY <1>2, <1>6 DEF Through, Covers, Have
<1>8. CoveredThrough'
  BY <1>1, <1>4, <1>7, SameModels DEF CoveredThrough
<1>9. IndexKnows'
  <2> SUFFICES ASSUME worker \in IndexWork
               PROVE  IndexKnows'
    BY <1>1 DEF IndexKnows
  <2>1. worker.page \in Pages
    BY DEF IndexWork
  <2>2. QED
    BY <1>1, <1>2, <1>4, <2>1, SameModels DEF IndexKnows
<1>10. BatchKnows'
  BY <1>1 DEF BatchKnows
<1>11. BackfillKnows'
  <2> SUFFICES ASSUME worker \in BackfillWork
               PROVE  BackfillKnows'
    BY <1>1 DEF BackfillKnows
  <2>1. worker.model \in Models
    BY DEF BackfillWork
  <2>2. worker.at = "save" => NextPage \in Pages
    BY NextPageIsLeast DEF BatchKnows, BackfillWork
  <2>3. NextPage' = NextPage
    BY <1>1 DEF NextPage
  <2>4. QED
    BY <1>1, <1>2, <1>6, <1>7, <2>1, <2>2, <2>3, SameModels DEF BackfillKnows
<1>12. QED
  BY <1>3, <1>5, <1>8, <1>9, <1>10, <1>11

\* A handler that stops where it is takes nothing with it.
LEMMA WorkerRests ==
    ASSUME CorpusInv,
           worker' = Idle,
           UNCHANGED <<page, chunked, points, pooled, state, row, active, holed, raced, client>>,
           jobs' \in Seq(JobRows),
           \A m \in Models : Outstanding(m)' => Outstanding(m)
    PROVE  CorpusInv'
<1> USE DEF CorpusInv
<1>1. CorpusTyped' /\ WorkerTyped'
  BY DEF CorpusTyped, WorkerTyped
<1>2. RowsKnow'
  BY SameModels DEF RowsKnow, Registered
<1>3. CoveredThrough'
  BY SameModels DEF CoveredThrough, Through, Covers, Have
<1>4. worker' \notin IndexWork /\ worker' \notin BackfillWork
  BY WorkerPlaces
<1>5. QED
  BY <1>1, <1>2, <1>3, <1>4 DEF IndexKnows, BatchKnows, BackfillKnows

\* An index job that fails takes the vectors of its page away, which is not
\* indexed.
LEMMA IndexFailsKeepsCorpus ==
    ASSUME CorpusInv, worker \in IndexWork, IndexFails,
           UNCHANGED <<phase, row, active, state, jobs, client, holed, raced>>
    PROVE  CorpusInv'
<1> USE DEF CorpusInv
<1> DEFINE p == worker.page
<1>1. /\ chunked' = chunked \ {p}
      /\ points' = [m \in Models |-> points[m] \ {p}]
      /\ pooled' = [m \in Models |-> pooled[m] \ {p}]
      /\ worker' = Idle /\ page' = page
      /\ page[p] # "indexed"
  BY DEF IndexFails, Rest, IndexKnows
<1>2. CorpusTyped' /\ WorkerTyped'
  BY <1>1 DEF CorpusTyped, WorkerTyped
<1>3. RowsKnow'
  BY SameModels DEF RowsKnow, Registered, Outstanding
<1>4. \A m \in Models : /\ \A k : Through(m, k) => Through(m, k)'
                        /\ Covers(m) => Covers(m)'
  BY <1>1 DEF Through, Have, Covers
<1>5. CoveredThrough'
  <2>1. \A m \in Indexable : m \in Models
    BY DEF Indexable, list_models
  <2>2. QED
    BY <1>4, <2>1, SameModels DEF CoveredThrough
<1>6. worker' \notin IndexWork /\ worker' \notin BackfillWork
  BY <1>1, WorkerPlaces
<1>7. QED
  BY <1>2, <1>3, <1>5, <1>6 DEF IndexKnows, BatchKnows, BackfillKnows

\* An index job: the page becomes indexed with the vectors of every model that
\* is reached, since a model is reached only by the worker or when it was
\* indexable at the beginning of the job.
LEMMA IndexKeepsCorpus ==
    ASSUME RegistryInv, CorpusInv, IndexJob
    PROVE  CorpusInv'
<1> USE DEF CorpusInv
<1>1. UNCHANGED <<phase, row, active, state, jobs, client, holed, raced>>
  BY DEF IndexJob, BeginIndex, ReplaceChunks, UpsertPoints, PoolVectors, SetIndexed,
     registryVars, historyVars
<1>2. RowsKnow'
  BY <1>1, SameModels DEF RowsKnow, Registered, Outstanding
<1>3. \A m \in Indexable : m \in Models
  BY DEF Indexable, list_models
<1>4. ASSUME NEW p \in Pages, BeginIndex(p)
      PROVE  CorpusInv'
  <2>1. /\ page[p] = "queued" /\ phase = "up"
        /\ worker' = [at |-> "chunks", kind |-> "index", page |-> p, models |-> Indexable]
        /\ UNCHANGED <<page, chunked, points, pooled>>
    BY <1>4 DEF BeginIndex, pageVars, vectorVars
  <2>2. worker' \in IndexWork
    BY <1>3, <2>1 DEF IndexWork, IndexPlaces
  <2>3. CorpusTyped' /\ WorkerTyped'
    BY <1>1, <2>1, <2>2 DEF CorpusTyped, WorkerTyped
  <2>4. CoveredThrough'
    BY <1>1, <1>3, <2>1, SameModels DEF CoveredThrough, Through, Covers, Have
  <2>5. IndexKnows'
    BY <1>1, <2>1, SameModels DEF IndexKnows
  <2>6. worker' \notin BackfillWork
    BY <2>1 DEF BackfillWork
  <2>7. QED
    BY <1>2, <2>3, <2>4, <2>5, <2>6 DEF BatchKnows, BackfillKnows
<1> DEFINE p == worker.page
<1>5. CASE IndexFails /\ worker \in IndexWork
  BY <1>1, <1>5, IndexFailsKeepsCorpus
<1>6. ASSUME worker \in IndexWork, ~IndexFails, ReplaceChunks
      PROVE  CorpusInv'
  <2>1. /\ phase = "up" /\ worker.at = "chunks" /\ p \in Pages /\ page[p] # "gone"
        /\ chunked' = chunked \union {p}
        /\ worker' = [worker EXCEPT !.at = "points"]
        /\ UNCHANGED <<page, points, pooled>>
    BY <1>6 DEF ReplaceChunks, At, Go, vectorVars, IndexWork
  <2>2. worker' \in IndexWork /\ worker'.page = p /\ worker'.models = worker.models
        /\ worker'.at = "points"
    BY <1>6, <2>1 DEF IndexWork, IndexPlaces
  <2>3. CorpusTyped' /\ WorkerTyped'
    BY <1>1, <2>1, <2>2 DEF CorpusTyped, WorkerTyped
  <2>4. CoveredThrough'
    BY <1>1, <1>3, <2>1, SameModels DEF CoveredThrough, Through, Covers, Have
  <2>5. IndexKnows'
    BY <1>1, <1>6, <2>1, <2>2, SameModels DEF IndexKnows
  <2>6. worker' \notin BackfillWork
    BY <2>2 DEF BackfillWork, IndexWork
  <2>7. QED
    BY <1>2, <2>3, <2>4, <2>5, <2>6 DEF BatchKnows, BackfillKnows
<1>7. ASSUME worker \in IndexWork, ~IndexFails, UpsertPoints
      PROVE  CorpusInv'
  <2>1. /\ phase = "up" /\ worker.at = "points" /\ p \in Pages
        /\ points' = [m \in Models |->
                        IF m \in worker.models THEN points[m] \union {p} ELSE points[m]]
        /\ worker' = [worker EXCEPT !.at = "pool"]
        /\ UNCHANGED <<page, chunked, pooled>>
    BY <1>7 DEF UpsertPoints, At, Go, pageVars, IndexWork
  <2>2. worker' \in IndexWork /\ worker'.page = p /\ worker'.models = worker.models
        /\ worker'.at = "pool"
    BY <1>7, <2>1 DEF IndexWork, IndexPlaces
  <2>3. CorpusTyped' /\ WorkerTyped'
    BY <1>1, <2>1, <2>2 DEF CorpusTyped, WorkerTyped
  <2>4. CoveredThrough'
    <3>1. \A m \in Models : \A q : Have(m, q) => Have(m, q)'
      BY <2>1 DEF Have
    <3>2. QED
      BY <1>1, <1>3, <2>1, <3>1, SameModels DEF CoveredThrough, Through, Covers, Have
  <2>5. IndexKnows'
    BY <1>1, <1>3, <1>7, <2>1, <2>2, SameModels DEF IndexKnows
  <2>6. worker' \notin BackfillWork
    BY <2>2 DEF BackfillWork, IndexWork
  <2>7. QED
    BY <1>2, <2>3, <2>4, <2>5, <2>6 DEF BatchKnows, BackfillKnows
<1>8. ASSUME worker \in IndexWork, ~IndexFails, PoolVectors
      PROVE  CorpusInv'
  <2>1. /\ phase = "up" /\ worker.at = "pool" /\ p \in Pages
        /\ pooled' = [m \in Models |->
                        IF m \in worker.models THEN pooled[m] \union {p} ELSE pooled[m]]
        /\ worker' = [worker EXCEPT !.at = "indexed"]
        /\ UNCHANGED <<page, chunked, points>>
    BY <1>8 DEF PoolVectors, At, Go, pageVars, IndexWork
  <2>2. worker' \in IndexWork /\ worker'.page = p /\ worker'.models = worker.models
        /\ worker'.at = "indexed"
    BY <1>8, <2>1 DEF IndexWork, IndexPlaces
  <2>3. CorpusTyped' /\ WorkerTyped'
    BY <1>1, <2>1, <2>2 DEF CorpusTyped, WorkerTyped
  <2>4. CoveredThrough'
    <3>1. \A m \in Models : \A q : Have(m, q) => Have(m, q)'
      BY <2>1 DEF Have
    <3>2. QED
      BY <1>1, <1>3, <2>1, <3>1, SameModels DEF CoveredThrough, Through, Covers, Have
  <2>5. IndexKnows'
    BY <1>1, <1>3, <1>8, <2>1, <2>2, SameModels DEF IndexKnows
  <2>6. worker' \notin BackfillWork
    BY <2>2 DEF BackfillWork, IndexWork
  <2>7. QED
    BY <1>2, <2>3, <2>4, <2>5, <2>6 DEF BatchKnows, BackfillKnows
<1>9. ASSUME worker \in IndexWork, SetIndexed
      PROVE  CorpusInv'
  <2>1. /\ worker.at = "indexed" /\ p \in Pages
        /\ page' = [page EXCEPT ![p] = IF @ = "gone" THEN @ ELSE "indexed"]
        /\ worker' = Idle
        /\ UNCHANGED <<chunked, points, pooled>>
    BY <1>9 DEF SetIndexed, At, Rest, vectorVars, IndexWork
  <2>2. \A q \in Pages : page'[q] = "indexed" <=> page[q] = "indexed" \/ (q = p /\ page[p] # "gone")
    BY <2>1 DEF CorpusTyped
  <2>3. CorpusTyped' /\ WorkerTyped'
    BY <1>1, <1>9, <2>1, <2>2 DEF CorpusTyped, WorkerTyped, IndexKnows
  <2>4. CoveredThrough'
    <3> SUFFICES ASSUME NEW m \in Indexable, Whole(m)
                 PROVE  Through(m, state[m].cursor)' /\ (Served(m) => Covers(m)')
      BY <1>1, SameModels DEF CoveredThrough
    <3>1. Through(m, state[m].cursor) /\ (Served(m) => Covers(m))
      BY DEF CoveredThrough
    <3>2. page[p] # "gone" /\ Reached(m) => Have(m, p)
      BY <1>9, <2>1 DEF IndexKnows, Have
    <3>3. p <= state[m].cursor => Reached(m)
      BY <1>3, <2>1 DEF Reached, CorpusTyped, States, Pages
    <3>4. Served(m) => Reached(m)
      BY DEF Reached
    <3>5. Through(m, state[m].cursor)'
      BY <1>1, <2>1, <2>2, <3>1, <3>2, <3>3 DEF Through, Have
    <3>6. Served(m) => Covers(m)'
      BY <2>1, <2>2, <3>1, <3>2, <3>4 DEF Covers, Have
    <3>7. QED
      BY <3>5, <3>6
  <2>5. worker' \notin IndexWork /\ worker' \notin BackfillWork
    BY <2>1, WorkerPlaces
  <2>6. QED
    BY <1>2, <2>3, <2>4, <2>5 DEF IndexKnows, BatchKnows, BackfillKnows
<1>10. ReplaceChunks \/ UpsertPoints \/ PoolVectors \/ SetIndexed => worker \in IndexWork
  BY WorkerPlaces DEF ReplaceChunks, UpsertPoints, PoolVectors, SetIndexed, IndexPlaces
<1>11. QED
  BY <1>4, <1>5, <1>6, <1>7, <1>8, <1>9, <1>10 DEF IndexJob

\* What a job row becomes when its attempt ends leaves no job outstanding that
\* was not.
LEMMA JobEnds ==
    ASSUME CorpusInv, worker \in BackfillWork,
           AttemptFails \/ Outcome("done")
    PROVE  /\ jobs' \in Seq(JobRows)
           /\ \A m \in Models : Outstanding(m)' => Outstanding(m)
<1> USE DEF CorpusInv
<1> DEFINE j == worker.job
<1>1. /\ jobs \in Seq(JobRows) /\ j \in DOMAIN jobs
      /\ jobs[j] \in JobRows /\ jobs[j].status = "running"
  BY DEF CorpusTyped, BackfillKnows
<1>2. PICK r \in JobRows : jobs' = [jobs EXCEPT ![j] = r] /\ r.model = jobs[j].model
  <2>1. CASE AttemptFails
    <3> DEFINE n == jobs[j].attempts + 1
               r == [jobs[j] EXCEPT !.attempts = n,
                                    !.status = IF n < MaxAttempts THEN "pending" ELSE "dead"]
    <3>1. r \in JobRows /\ r.model = jobs[j].model
      <4>1. n \in Nat /\ (IF n < MaxAttempts THEN "pending" ELSE "dead") \in {"pending", "dead"}
        BY <1>1 DEF JobRows
      <4> HIDE DEF n
      <4>2. QED
        BY <1>1, <4>1 DEF JobRows
    <3>2. jobs' = [jobs EXCEPT ![j] = r]
      BY <1>1, <2>1 DEF AttemptFails
    <3>3. QED
      BY <3>1, <3>2
  <2>2. CASE Outcome("done")
    <3> DEFINE r == [jobs[j] EXCEPT !.status = "done"]
    <3>1. r \in JobRows /\ r.model = jobs[j].model
      BY <1>1 DEF JobRows
    <3>2. jobs' = [jobs EXCEPT ![j] = r]
      BY <1>1, <2>2 DEF Outcome
    <3>3. QED
      BY <3>1, <3>2
  <2>3. QED
    BY <2>1, <2>2
<1>3. jobs' \in Seq(JobRows) /\ DOMAIN jobs' = DOMAIN jobs
  BY <1>1, <1>2
<1>4. \A k \in DOMAIN jobs : jobs'[k].model = jobs[k].model /\ (k # j => jobs'[k] = jobs[k])
  BY <1>1, <1>2
<1>5. QED
  BY <1>1, <1>3, <1>4 DEF Outstanding

\* A place within a backfill job: vectors are only added, and only the state of
\* the model of the job changes.
LEMMA BackfillGoesOn ==
    ASSUME CorpusInv, worker \in BackfillWork, worker' \in BackfillWork,
           worker'.job = worker.job, worker'.model = worker.model,
           UNCHANGED <<phase, page, chunked, row, active, holed, raced, client, jobs>>,
           points' = [m \in Models |-> points'[m]],
           \A m \in Models : points[m] \subseteq points'[m] /\ pooled[m] \subseteq pooled'[m],
           state' \in [Models -> States],
           \A m \in Models : m # worker.model => state'[m] = state[m],
           Whole(worker.model) =>
              /\ Through(worker.model, state'[worker.model].cursor)
              /\ worker'.at # "state" => Through(worker.model, worker.cursor)'
              /\ worker'.at = "pool" => NextPage' \in points'[worker.model]
              /\ worker'.at = "save" /\ page[NextPage'] = "indexed"
                    => NextPage' \in points'[worker.model] /\ NextPage' \in pooled'[worker.model]
              /\ worker'.at \in {"finish", "ready"} => Covers(worker.model)',
           BatchKnows'
    PROVE  CorpusInv'
<1> USE DEF CorpusInv
<1>1. PICK n \in Models : n = worker.model
  BY DEF BackfillWork
<1> USE <1>1
<1>2. CorpusTyped' /\ WorkerTyped'
  BY WorkerPlaces DEF CorpusTyped, WorkerTyped
<1>3. Indexable' = Indexable /\ \A m \in Indexable : m \in Models
  BY DEF Indexable, list_models
<1>4. \A m \in Models : (Whole(m)' <=> Whole(m)) /\ (Served(m)' <=> Served(m))
  BY DEF Whole, Served, Doing
<1>5. Outstanding(n)
  BY DEF BackfillKnows, Outstanding
<1>6. RowsKnow'
  <2>1. \A m \in Models : Outstanding(m)' <=> Outstanding(m)
    BY DEF Outstanding
  <2>2. \A m \in Models : Whole(m) /\ (Outstanding(m) \/ state'[m].cursor > 0) => m \in Indexable
    BY <1>5 DEF RowsKnow
  <2>3. QED
    BY <1>3, <1>4, <2>1, <2>2 DEF RowsKnow, Registered
<1>7. \A m \in Models : \A q : Have(m, q) => Have(m, q)'
  BY DEF Have
<1>8. \A m \in Models : /\ \A k : Through(m, k) => Through(m, k)'
                        /\ Covers(m) => Covers(m)'
  BY <1>7 DEF Through, Covers, Have
<1>9. CoveredThrough'
  <2>1. ASSUME NEW m \in Indexable, Whole(m)
        PROVE  Through(m, state[m].cursor)'
    <3>1. CASE m = n
      <4>1. Through(n, state'[n].cursor)
        BY <2>1, <3>1
      <4>2. QED
        BY <3>1, <4>1, <1>8
    <3>2. CASE m # n
      BY <1>3, <1>8, <2>1, <3>2 DEF CoveredThrough
    <3>3. QED
      BY <3>1, <3>2
  <2>2. QED
    BY <1>3, <1>4, <1>8, <2>1 DEF CoveredThrough
<1>10. IndexKnows'
  BY WorkerPlaces, <1>2 DEF IndexKnows, IndexWork, BackfillWork
<1>11. BackfillKnows'
  <2>1. worker'.job \in DOMAIN jobs' /\ jobs'[worker'.job].model = n
        /\ jobs'[worker'.job].status = "running"
    BY DEF BackfillKnows
  <2>2. QED
    BY <1>4, <2>1 DEF BackfillKnows, Have
<1>12. QED
  BY <1>2, <1>6, <1>9, <1>10, <1>11

\* A backfill job begins with the row of its model as it is.
LEMMA BeginKeepsCorpus ==
    ASSUME CorpusInv, NEW j \in DOMAIN jobs, BeginBackfill(j)
    PROVE  CorpusInv'
<1> USE DEF CorpusInv
<1> DEFINE r == [jobs[j] EXCEPT !.status = "running"]
<1>1. /\ phase = "up" /\ jobs[j].status = "pending"
      /\ jobs' = [jobs EXCEPT ![j] = r]
      /\ worker' = [at |-> "state", kind |-> "backfill", job |-> j, model |-> jobs[j].model,
                    cursor |-> 0, finished |-> FALSE, batch |-> {}]
      /\ UNCHANGED <<phase, page, chunked, row, active, points, pooled, state, holed, raced, client>>
  BY DEF BeginBackfill, registryVars, vectorVars, pageVars, historyVars
<1>2. jobs \in Seq(JobRows) /\ jobs[j] \in JobRows
  BY DEF CorpusTyped
<1>3. r \in JobRows /\ r.model = jobs[j].model /\ r.status = "running"
  BY <1>2 DEF JobRows
<1>4. /\ jobs' \in Seq(JobRows) /\ DOMAIN jobs' = DOMAIN jobs /\ jobs'[j] = r
      /\ \A k \in DOMAIN jobs : k # j => jobs'[k] = jobs[k]
  BY <1>1, <1>2, <1>3
<1>5. worker' \in BackfillWork
  BY <1>1, <1>2, SizesAssumption DEF BackfillWork, BackfillPlaces, JobRows
<1>6. CorpusTyped' /\ WorkerTyped'
  BY <1>1, <1>4, <1>5 DEF CorpusTyped, WorkerTyped
<1>7. RowsKnow'
  <2>1. \A m \in Models : Outstanding(m)' => Outstanding(m)
    BY <1>1, <1>3, <1>4 DEF Outstanding
  <2>2. QED
    BY <1>1, <2>1, SameModels DEF RowsKnow, Registered
<1>8. CoveredThrough'
  BY <1>1, SameModels DEF CoveredThrough, Through, Covers, Have
<1>9. worker' \notin IndexWork
  BY <1>5 DEF IndexWork, BackfillWork
<1>10. BatchKnows'
  BY <1>1 DEF BatchKnows
<1>11. BackfillKnows'
  BY <1>1, <1>3, <1>4 DEF BackfillKnows
<1>12. QED
  BY <1>6, <1>7, <1>8, <1>9, <1>10, <1>11 DEF IndexKnows

\* A backfill job: it takes the pages with chunks in the order of their ids, so
\* that nothing indexed is behind its cursor, and ends when nothing is ahead.
LEMMA BackfillKeepsCorpus ==
    ASSUME RegistryInv, CorpusInv, BackfillStep
    PROVE  CorpusInv'
<1> USE DEF CorpusInv
<1>0. worker \in BackfillWork
  BY WorkerPlaces DEF BackfillStep, LoadState, ListPages, EmbedPage, BackfillVectors,
     UpsertPageVector, SaveCursor, SaveFinished, MarkReady, BackfillPlaces
<1>n. PICK n \in Models : n = worker.model
  BY <1>0 DEF BackfillWork
<1>h. PICK h : h = NextPage
  OBVIOUS
<1> USE <1>n, <1>h
<1>1. /\ UNCHANGED <<phase, page, chunked, active, holed, raced, client>>
      /\ \A m \in Models : points[m] \subseteq points[m] /\ pooled[m] \subseteq pooled[m]
  BY DEF BackfillStep, LoadState, ListPages, EmbedPage, BackfillVectors, UpsertPageVector,
     SaveCursor, SaveFinished, MarkReady, registryVars, pageVars, historyVars
<1>2. /\ points = [m \in Models |-> points[m]] /\ pooled = [m \in Models |-> pooled[m]]
      /\ state \in [Models -> States] /\ row \in [Models -> Statuses]
  BY DEF CorpusTyped, RegistryInv, RegistryTyped
<1>3. Whole(n) => n \in Indexable /\ Through(n, state[n].cursor)
  BY <1>0 DEF BackfillKnows, RowsKnow, CoveredThrough, Outstanding
<1>4. ASSUME UNCHANGED <<row, points, pooled, state>>, worker' = Idle,
             AttemptFails \/ Outcome("done")
      PROVE  CorpusInv'
  BY <1>0, <1>1, <1>4, JobEnds, WorkerRests
<1>5. worker.at \in {"embed", "vectors", "pool", "save"} =>
        h \in worker.batch /\ h \in Pages /\ \A b \in worker.batch : h <= b
  BY <1>0, NextPageIsLeast DEF BatchKnows, BackfillWork
<1>6. CASE LoadState
  <2>1. UNCHANGED <<row, points, pooled, state>>
    BY <1>6 DEF LoadState, registryVars, vectorVars
  <2>2. CASE AttemptFails \/ (Outcome("done") /\ Rest)
    BY <1>4, <2>1, <2>2 DEF AttemptFails, Rest
  <2>3. ASSUME NEW t \in get_backfill(n),
               worker' = [worker EXCEPT !.at = "list", !.cursor = t.cursor,
                                        !.finished = t.finished],
               UNCHANGED jobs
        PROVE  CorpusInv'
    <3>1. t = state[n] /\ t \in States
      BY <1>2, <2>3 DEF get_backfill
    <3>2. /\ worker' \in BackfillWork /\ worker'.job = worker.job /\ worker'.model = n
          /\ worker'.at = "list" /\ worker'.cursor = state[n].cursor
      BY <1>0, <2>3, <3>1 DEF BackfillWork, BackfillPlaces, States
    <3>3. Whole(n) => Through(n, worker.cursor)'
      BY <1>1, <1>3, <2>1, <3>2 DEF Through, Have
    <3>4. BatchKnows'
      BY <3>2 DEF BatchKnows
    <3>5. QED
      BY <1>0, <1>1, <1>2, <1>3, <2>1, <2>3, <3>2, <3>3, <3>4, BackfillGoesOn
  <2>4. QED
    BY <1>6, <2>2, <2>3 DEF LoadState
<1>7. CASE ListPages
  <2>1. /\ worker.at = "list"
        /\ worker' = [worker EXCEPT !.batch = NextPages(worker.cursor),
                                    !.at = IF After(worker.cursor) = {} THEN "finish" ELSE "embed"]
        /\ UNCHANGED <<row, points, pooled, state, jobs>>
    BY <1>7 DEF ListPages, At, registryVars, vectorVars
  <2>2. worker.cursor \in 0..NumPages /\ chunked \subseteq Pages
    BY <1>0 DEF BackfillWork, CorpusTyped
  <2>3. After(worker.cursor) \subseteq Pages
    BY <2>2 DEF After
  <2>4. /\ NextPages(worker.cursor) \subseteq After(worker.cursor)
        /\ \A q \in chunked, b \in NextPages(worker.cursor) :
              worker.cursor < q /\ q <= b => q \in NextPages(worker.cursor)
        /\ NextPages(worker.cursor) = {} => After(worker.cursor) = {}
    BY <2>2, BatchIsNext
  <2>5. /\ worker' \in BackfillWork /\ worker'.job = worker.job /\ worker'.model = n
        /\ worker'.cursor = worker.cursor /\ worker'.batch = NextPages(worker.cursor)
        /\ worker'.at = IF After(worker.cursor) = {} THEN "finish" ELSE "embed"
    BY <1>0, <2>1, <2>3, <2>4 DEF BackfillWork, BackfillPlaces
  <2>6. Whole(n) => Through(n, worker.cursor) /\ Through(n, worker.cursor)'
    BY <1>0, <1>1, <2>1, <2>5 DEF BackfillKnows, Through, Have
  <2>7. Whole(n) /\ worker'.at = "finish" => Covers(n)'
    <3>1. After(worker.cursor) = {} => \A p \in Pages : page[p] = "indexed" => p <= worker.cursor
      BY <2>2 DEF CorpusTyped, After, Pages
    <3>2. QED
      BY <1>1, <2>1, <2>5, <2>6, <3>1 DEF Through, Have, Covers
  <2>8. BatchKnows'
    BY <1>1, <2>4, <2>5 DEF BatchKnows, After
  <2>9. QED
    BY <1>0, <1>1, <1>2, <1>3, <2>1, <2>5, <2>6, <2>7, <2>8, BackfillGoesOn
<1>8. CASE EmbedPage
  <2>1. worker.at = "embed" /\ UNCHANGED <<row, points, pooled, state>>
    BY <1>8 DEF EmbedPage, At, registryVars, vectorVars
  <2>2. CASE AttemptFails
    BY <1>4, <2>1, <2>2 DEF AttemptFails, Rest
  <2>3. ASSUME worker' = [worker EXCEPT !.at = IF h \in chunked THEN "vectors" ELSE "save"],
               UNCHANGED jobs
        PROVE  CorpusInv'
    <3>1. /\ worker' \in BackfillWork /\ worker'.job = worker.job /\ worker'.model = n
          /\ worker'.cursor = worker.cursor /\ worker'.batch = worker.batch
          /\ worker'.at = IF h \in chunked THEN "vectors" ELSE "save"
      BY <1>0, <2>3 DEF BackfillWork, BackfillPlaces
    <3>2. NextPage' = h
      BY <3>1 DEF NextPage
    <3>3. Whole(n) => Through(n, worker.cursor)'
      BY <1>0, <1>1, <2>1, <3>1 DEF BackfillKnows, Through, Have
    <3>4. worker'.at = "save" => page[h] # "indexed"
      BY <1>5, <2>1, <3>1 DEF CorpusTyped
    <3>5. BatchKnows'
      BY <1>0, <1>1, <2>1, <3>1 DEF BatchKnows
    <3>6. QED
      BY <1>0, <1>1, <1>2, <1>3, <2>1, <2>3, <3>1, <3>2, <3>3, <3>4, <3>5, BackfillGoesOn
  <2>4. QED
    BY <1>8, <2>2, <2>3 DEF EmbedPage, Go
<1>9. CASE BackfillVectors
  <2>1. worker.at = "vectors" /\ UNCHANGED <<row, pooled, state>>
    BY <1>9 DEF BackfillVectors, At, registryVars
  <2>2. CASE AttemptFails /\ UNCHANGED points
    BY <1>4, <2>1, <2>2 DEF AttemptFails, Rest
  <2>3. ASSUME worker' = [worker EXCEPT !.at = "pool"],
               points' = [points EXCEPT ![n] = @ \union {h}], UNCHANGED jobs
        PROVE  CorpusInv'
    <3>1. /\ worker' \in BackfillWork /\ worker'.job = worker.job /\ worker'.model = n
          /\ worker'.cursor = worker.cursor /\ worker'.batch = worker.batch
          /\ worker'.at = "pool"
      BY <1>0, <2>3 DEF BackfillWork, BackfillPlaces
    <3>2. NextPage' = h
      BY <3>1 DEF NextPage
    <3>3. /\ points' = [m \in Models |-> points'[m]] /\ h \in points'[n]
          /\ \A m \in Models : points[m] \subseteq points'[m]
      BY <1>2, <2>3
    <3>4. Whole(n) => Through(n, worker.cursor)'
      BY <1>0, <1>1, <2>1, <3>1, <3>3 DEF BackfillKnows, Through, Have
    <3>5. BatchKnows'
      BY <1>0, <1>1, <2>1, <3>1 DEF BatchKnows
    <3>6. QED
      BY <1>0, <1>1, <1>2, <1>3, <2>1, <2>3, <3>1, <3>2, <3>3, <3>4, <3>5, BackfillGoesOn
  <2>4. QED
    BY <1>9, <2>2, <2>3 DEF BackfillVectors, Go
<1>10. CASE UpsertPageVector
  <2>1. worker.at = "pool" /\ UNCHANGED <<row, points, state>>
    BY <1>10 DEF UpsertPageVector, At, registryVars
  <2>2. CASE AttemptFails /\ UNCHANGED pooled
    BY <1>4, <2>1, <2>2 DEF AttemptFails, Rest
  <2>3. ASSUME worker' = [worker EXCEPT !.at = "save"],
               pooled' = [pooled EXCEPT ![n] = @ \union {h}], UNCHANGED jobs
        PROVE  CorpusInv'
    <3>1. /\ worker' \in BackfillWork /\ worker'.job = worker.job /\ worker'.model = n
          /\ worker'.cursor = worker.cursor /\ worker'.batch = worker.batch
          /\ worker'.at = "save"
      BY <1>0, <2>3 DEF BackfillWork, BackfillPlaces
    <3>2. NextPage' = h
      BY <3>1 DEF NextPage
    <3>3. h \in pooled'[n] /\ \A m \in Models : pooled[m] \subseteq pooled'[m]
      BY <1>2, <2>3
    <3>4. Whole(n) => Through(n, worker.cursor)' /\ h \in points[n]
      BY <1>0, <1>1, <2>1, <3>1, <3>3 DEF BackfillKnows, Through, Have
    <3>5. BatchKnows'
      BY <1>0, <1>1, <2>1, <3>1 DEF BatchKnows
    <3>6. QED
      BY <1>0, <1>1, <1>2, <1>3, <2>1, <2>3, <3>1, <3>2, <3>3, <3>4, <3>5, BackfillGoesOn
  <2>4. QED
    BY <1>10, <2>2, <2>3 DEF UpsertPageVector, Go
<1>11. CASE SaveCursor
  <2> DEFINE rest == worker.batch \ {h}
  <2>1. /\ worker.at = "save" /\ UNCHANGED <<row, points, pooled, jobs>>
        /\ state' = [state EXCEPT ![n] = [cursor |-> h, finished |-> worker.finished,
                                          kept |-> TRUE]]
        /\ worker' = [worker EXCEPT !.cursor = h, !.batch = rest,
                                    !.at = IF rest = {} THEN "list" ELSE "embed"]
    BY <1>11 DEF SaveCursor, Saved, At, registryVars, vectorVars
  <2>2. /\ worker' \in BackfillWork /\ worker'.job = worker.job /\ worker'.model = n
        /\ worker'.cursor = h /\ worker'.batch = rest
        /\ worker'.at = IF rest = {} THEN "list" ELSE "embed"
    <3>1. h \in 0..NumPages /\ rest \subseteq Pages
      BY <1>0, <1>5, <2>1 DEF BackfillWork, Pages
    <3> HIDE DEF rest
    <3>2. QED
      BY <1>0, <2>1, <3>1 DEF BackfillWork, BackfillPlaces
  <2>3. state' \in [Models -> States] /\ state'[n].cursor = h
        /\ \A m \in Models : m # n => state'[m] = state[m]
    BY <1>0, <1>2, <1>5, <2>1 DEF States, BackfillWork, Pages
  <2>4. Whole(n) => Through(n, h)
    <3> SUFFICES ASSUME Whole(n), NEW q \in Pages, page[q] = "indexed", q <= h
                 PROVE  Have(n, q)
      BY DEF Through
    <3>1. q \in chunked
      BY DEF CorpusTyped
    <3>2. CASE q <= worker.cursor
      BY <1>0, <2>1, <3>2 DEF BackfillKnows, Through
    <3>3. CASE worker.cursor < q
      <4>1. q \in worker.batch
        BY <1>0, <1>5, <2>1, <3>1, <3>3 DEF BatchKnows
      <4>2. q = h
        BY <1>5, <2>1, <4>1 DEF Pages
      <4>3. QED
        BY <1>0, <2>1, <4>2 DEF BackfillKnows
    <3>4. QED
      BY <1>0, <3>2, <3>3 DEF BackfillWork, Pages
  <2>5. Whole(n) => Through(n, worker.cursor)'
    BY <1>1, <2>1, <2>2, <2>4 DEF Through, Have
  <2>6. BatchKnows'
    <3> SUFFICES ASSUME rest # {}
                 PROVE  BatchKnows'
      BY <2>2 DEF BatchKnows
    <3>1. \A b \in rest : h < b
      BY <1>0, <1>5, <2>1 DEF BackfillWork, Pages
    <3>2. worker.cursor < h
      BY <1>0, <1>5, <2>1 DEF BatchKnows
    <3>3. ASSUME NEW q \in chunked, NEW b \in rest, h < q, q <= b
          PROVE  q \in rest
      <4>1. q \in Pages /\ h \in Pages /\ worker.cursor \in 0..NumPages
        BY <1>0, <1>5, <2>1 DEF CorpusTyped, BackfillWork
      <4>2. worker.cursor < q /\ q # h
        BY <3>2, <3>3, <4>1 DEF Pages
      <4>3. QED
        BY <1>0, <2>1, <3>3, <4>2 DEF BatchKnows
    <3>4. QED
      BY <1>1, <2>2, <3>1, <3>3 DEF BatchKnows
  <2>7. QED
    BY <1>0, <1>1, <1>2, <2>1, <2>2, <2>3, <2>4, <2>5, <2>6, BackfillGoesOn
<1>12. CASE SaveFinished
  <2>1. /\ worker.at = "finish" /\ UNCHANGED <<row, points, pooled, jobs>>
        /\ state' = [state EXCEPT ![n] = [cursor |-> worker.cursor, finished |-> TRUE,
                                          kept |-> TRUE]]
        /\ worker' = [worker EXCEPT !.at = "ready"]
    BY <1>12 DEF SaveFinished, Saved, Go, At, registryVars, vectorVars
  <2>2. /\ worker' \in BackfillWork /\ worker'.job = worker.job /\ worker'.model = n
        /\ worker'.cursor = worker.cursor /\ worker'.at = "ready"
    BY <1>0, <2>1 DEF BackfillWork, BackfillPlaces
  <2>3. state' \in [Models -> States] /\ state'[n].cursor = worker.cursor
        /\ \A m \in Models : m # n => state'[m] = state[m]
    BY <1>0, <1>2, <2>1 DEF States, BackfillWork
  <2>4. Whole(n) => Through(n, worker.cursor) /\ Through(n, worker.cursor)' /\ Covers(n)'
    BY <1>0, <1>1, <2>1, <2>2 DEF BackfillKnows, Through, Have, Covers
  <2>5. BatchKnows'
    BY <2>2 DEF BatchKnows
  <2>6. QED
    BY <1>0, <1>1, <1>2, <2>1, <2>2, <2>3, <2>4, <2>5, BackfillGoesOn
<1>13. CASE MarkReady
  <2>1. /\ worker.at = "ready" /\ UNCHANGED <<points, pooled, state>>
        /\ row' = [row EXCEPT ![n] = IF @ = "absent" THEN @ ELSE "ready"]
        /\ Outcome("done") /\ worker' = Idle
    BY <1>13 DEF MarkReady, SetStatus, Rest, At, vectorVars
  <2>2. jobs' \in Seq(JobRows) /\ \A m \in Models : Outstanding(m)' => Outstanding(m)
    BY <1>0, <2>1, JobEnds
  <2>3. CorpusTyped' /\ WorkerTyped'
    BY <1>1, <2>1, <2>2 DEF CorpusTyped, WorkerTyped
  <2>4. \A m \in Models : Whole(m)' <=> Whole(m)
    BY <1>1 DEF Whole, Doing
  <2>5. /\ Indexable \subseteq Indexable' /\ Indexable' \subseteq Indexable \union {n}
        /\ \A m \in Indexable' : m \in Models
    BY <1>2, <2>1 DEF Indexable, list_models
  <2>6. RowsKnow'
    <3>1. \A m : /\ row[m] = "ready" /\ m \in Models => row'[m] = "ready"
                 /\ m \in Models => (row'[m] = "absent" <=> row[m] = "absent")
      BY <1>2, <2>1
    <3>2. \A c \in Clients : client[c].at \in Places => client[c].model \in Models
      BY DEF RegistryInv, ClientTyped, Idle, Places
    <3>3. QED
      BY <1>1, <2>1, <2>2, <2>4, <2>5, <3>1, <3>2 DEF RowsKnow, Registered, Places
  <2>7. CoveredThrough'
    <3> SUFFICES ASSUME NEW m \in Indexable', Whole(m)
                 PROVE  Through(m, state[m].cursor)' /\ (Served(m)' => Covers(m)')
      BY <2>4, <2>5 DEF CoveredThrough
    <3>1. CASE m = n
      <4>1. Covers(n)
        BY <1>0, <2>1, <3>1 DEF BackfillKnows
      <4>2. QED
        BY <1>1, <2>1, <3>1, <4>1 DEF Covers, Through, Have
    <3>2. CASE m # n
      <4>1. m \in Indexable /\ (Served(m)' => Served(m))
        <5>1. Doing("activate")' = Doing("activate")
          BY <1>1 DEF Doing
        <5>2. QED
          BY <1>1, <1>2, <2>1, <2>5, <3>2, <5>1 DEF Served
      <4>2. QED
        BY <1>1, <2>1, <4>1 DEF CoveredThrough, Through, Have, Covers
    <3>3. QED
      BY <3>1, <3>2
  <2>8. worker' \notin IndexWork /\ worker' \notin BackfillWork
    BY <2>1, WorkerPlaces
  <2>9. QED
    BY <2>3, <2>6, <2>7, <2>8 DEF IndexKnows, BatchKnows, BackfillKnows
<1>14. QED
  BY <1>6, <1>7, <1>8, <1>9, <1>10, <1>11, <1>12, <1>13 DEF BackfillStep

\* A lease that runs out ends the attempt, a crash everything in memory; both
\* leave what was written.  A crash between the halves of a retirement makes
\* the model holed.
LEMMA CutsKeepCorpus ==
    ASSUME RegistryInv, CorpusInv, LeaseExpires \/ Crash
    PROVE  CorpusInv'
<1> USE DEF CorpusInv
<1>1. CASE LeaseExpires
  <2>1. UNCHANGED <<page, chunked, points, pooled, state, row, active, holed, raced, client>>
    BY <1>1 DEF LeaseExpires, registryVars, vectorVars, pageVars, historyVars
  <2>2. CASE Rest /\ UNCHANGED jobs
    BY <2>1, <2>2, WorkerRests DEF Rest, CorpusTyped, Outstanding
  <2>3. CASE worker.kind = "backfill" /\ AttemptFails
    <3>1. worker \in BackfillWork
      BY <1>1, <2>3 DEF LeaseExpires, WorkerTyped, IndexWork
    <3>2. QED
      BY <2>1, <2>3, <3>1, JobEnds, WorkerRests DEF AttemptFails, Rest
  <2>4. QED
    BY <1>1, <2>2, <2>3 DEF LeaseExpires
<1>2. CASE Crash
  <2>1. /\ worker' = Idle /\ client' = [c \in Clients |-> Idle]
        /\ holed' = holed \union Doing("delete")
        /\ jobs' = [j \in DOMAIN jobs |->
                      [jobs[j] EXCEPT !.status = IF @ = "running" THEN "pending" ELSE @]]
        /\ UNCHANGED <<page, chunked, points, pooled, state, row, active, raced>>
    BY <1>2 DEF Crash, Rest, registryVars, vectorVars, pageVars
  <2>2. jobs \in Seq(JobRows)
    BY DEF CorpusTyped
  <2>3. /\ jobs' \in Seq(JobRows)
        /\ \A m \in Models : Outstanding(m)' => Outstanding(m)
    <3>1. \A j \in DOMAIN jobs : jobs[j] \in JobRows
      BY <2>2
    <3>2. \A j \in DOMAIN jobs :
            [jobs[j] EXCEPT !.status = IF @ = "running" THEN "pending" ELSE @] \in JobRows
      BY <3>1 DEF JobRows
    <3>3. DOMAIN jobs = 1..Len(jobs) /\ Len(jobs) \in Nat
      BY <2>2
    <3>4. jobs' \in [1..Len(jobs) -> JobRows]
      BY <2>1, <3>2, <3>3
    <3>5. jobs' \in Seq(JobRows)
      BY <3>3, <3>4
    <3>6. \A j \in DOMAIN jobs :
            /\ jobs'[j].model = jobs[j].model
            /\ jobs'[j].status \in {"pending", "running"} => jobs[j].status \in {"pending", "running"}
      BY <2>1, <3>1 DEF JobRows
    <3>7. DOMAIN jobs' = DOMAIN jobs
      BY <2>1
    <3>8. QED
      BY <3>5, <3>6, <3>7 DEF Outstanding
  <2>4. \A m : Whole(m)' <=> Whole(m)
    BY <2>1 DEF Whole, Doing, Idle
  <2>5. Indexable' = Indexable /\ \A m \in Models : Served(m)' => Served(m)
    BY <2>1 DEF Indexable, list_models, Served, Doing, Idle
  <2>6. CorpusTyped' /\ WorkerTyped'
    BY <2>1, <2>3 DEF CorpusTyped, WorkerTyped
  <2>7. RowsKnow'
    BY <2>1, <2>3, <2>4, <2>5 DEF RowsKnow, Idle
  <2>8. CoveredThrough'
    <3>1. \A m \in Indexable : m \in Models
      BY DEF Indexable, list_models
    <3>2. QED
      BY <2>1, <2>4, <2>5, <3>1 DEF CoveredThrough, Through, Covers, Have
  <2>9. worker' \notin IndexWork /\ worker' \notin BackfillWork
    BY <2>1, WorkerPlaces
  <2>10. QED
    BY <2>6, <2>7, <2>8, <2>9 DEF IndexKnows, BatchKnows, BackfillKnows
<1>3. QED
  BY <1>1, <1>2

\* A startup that registers a model makes it active for want of another one, and
\* that model was raced for.
LEMMA StartupKeepsCorpus ==
    ASSUME RegistryInv, RegistryInv', CorpusInv, NEW m \in Models, Startup(m)
    PROVE  CorpusInv'
<1> USE DEF CorpusInv
<1>1. /\ phase # "up" /\ UNCHANGED <<pooled, state, page, chunked, jobs, worker, client>>
      /\ \A d \in Clients : client[d] = Idle
      /\ row \in [Models -> Statuses] /\ active \subseteq Models
  BY DEF Startup, pageVars, RegistryInv, RegistryTyped, ClientTyped, OneActive
<1>2. worker = Idle /\ worker \notin IndexWork /\ worker \notin BackfillWork
  BY <1>1, WorkerPlaces DEF WorkerTyped
<1>3. \A n : Doing("activate")' = Doing("activate") /\ Doing("delete")' = Doing("delete")
  BY <1>1 DEF Doing
<1>4. /\ CorpusTyped' /\ holed \subseteq holed' /\ raced \subseteq raced'
      /\ \A n \in Models : n \notin raced' /\ n \notin holed' =>
            /\ row'[n] = row[n]
            /\ n \in active' => n \in active
            /\ n \in Indexable => points'[n] = points[n]
  <2>1. CASE active = {}
    <3>1. /\ active' = {m} /\ raced' = raced \union {m} /\ points' = points /\ holed \subseteq holed'
          /\ row' = row \/ row' = [row EXCEPT ![m] = "ready"]
      BY <2>1 DEF Startup, register_model
    <3>2. \A n \in Models : n # m => row'[n] = row[n]
      BY <1>1, <3>1
    <3>3. QED
      BY <1>1, <3>1, <3>2 DEF CorpusTyped
  <2>2. CASE active # {}
    <3>1. /\ active' = active /\ raced' = raced /\ row' = row /\ holed \subseteq holed'
          /\ points' = points \/ (~Registered(m) /\ points' = [points EXCEPT ![m] = {}])
      BY <2>2 DEF Startup
    <3>2. \A n \in Indexable : points'[n] = points[n]
      BY <3>1 DEF Indexable, list_models, Registered, CorpusTyped
    <3>3. points' = [n \in Models |-> points'[n]]
      BY <3>1 DEF CorpusTyped
    <3>4. QED
      BY <1>1, <3>1, <3>2, <3>3 DEF CorpusTyped
  <2>3. QED
    BY <2>1, <2>2
<1>5. WorkerTyped'
  BY <1>1, <1>2 DEF WorkerTyped
<1>6. \A n \in Models : Whole(n)' =>
         /\ Whole(n) /\ (n \in Indexable' <=> n \in Indexable)
         /\ Served(n)' => Served(n)
         /\ n \in Indexable => points'[n] = points[n]
  BY <1>3, <1>4 DEF Whole, Served, Indexable, list_models
<1>7. RowsKnow'
  <2>1. active' \ raced' \subseteq Indexable'
    <3>1. CASE active = {}
      BY <3>1 DEF Startup
    <3>2. CASE active # {}
      BY <3>2 DEF Startup, RowsKnow, Indexable, list_models
    <3>3. QED
      BY <3>1, <3>2
  <2>2. \A n \in Models : Outstanding(n)' <=> Outstanding(n)
    BY <1>1 DEF Outstanding
  <2>3. \A n \in Models : Whole(n)' /\ (Outstanding(n)' \/ state'[n].cursor > 0) => n \in Indexable'
    BY <1>1, <1>6, <2>2 DEF RowsKnow
  <2>4. QED
    BY <1>1, <2>1, <2>3 DEF RowsKnow, Idle
<1>8. CoveredThrough'
  <2>1. \A n \in Indexable' : n \in Models
    BY DEF Indexable, list_models
  <2>2. QED
    BY <1>1, <1>6, <2>1 DEF CoveredThrough, Through, Covers, Have
<1>9. QED
  BY <1>1, <1>2, <1>4, <1>5, <1>7, <1>8 DEF IndexKnows, BatchKnows, BackfillKnows

\* However many requests run at once, what is searched, or may be made to be, has
\* both vectors of every indexed page, for every number of pages and batch size:
\* the backfill and the indexing beside it leave no page out between them
\* (backfill.py:157-174, indexing.py:333), but for models that were raced for or
\* retired before their backfill was over.
THEOREM CorpusIsSearched == Spec => []SearchSeesCorpus
<1>1. ASSUME RegistryInv, CorpusInv, [Next]_vars
      PROVE  RegistryInv' /\ CorpusInv'
  <2>1. RegistryInv'
    BY <1>1, RegistryKept
  <2>2. CASE Next
    <3>1. CASE Requests
      BY <1>1, <2>1, <3>1, RequestsKeepCorpus
    <3>2. CASE IndexJob \/ BackfillStep
      BY <1>1, <2>1, <3>2, IndexKeepsCorpus, BackfillKeepsCorpus
    <3>3. CASE LeaseExpires \/ Crash
      BY <1>1, <2>1, <3>3, CutsKeepCorpus
    <3>4. ASSUME NEW p \in Pages, Purge(p)
          PROVE  CorpusInv'
      BY <1>1, <3>4, PurgeKeepsCorpus
    <3>5. ASSUME NEW j \in DOMAIN jobs, BeginBackfill(j)
          PROVE  CorpusInv'
      BY <1>1, <3>5, BeginKeepsCorpus
    <3>6. ASSUME NEW m \in Models, Startup(m)
          PROVE  CorpusInv'
      BY <1>1, <2>1, <3>6, StartupKeepsCorpus
    <3>7. QED
      BY <2>1, <2>2, <3>1, <3>2, <3>3, <3>4, <3>5, <3>6 DEF Next
  <2>3. CASE UNCHANGED vars
    <3>1. /\ UNCHANGED <<phase, page, chunked, points, pooled, state, row, active, holed, raced>>
          /\ UNCHANGED <<client, jobs, worker>>
      BY <2>3 DEF vars, registryVars, vectorVars, pageVars, historyVars
    <3>2. NextPage' = NextPage
      BY <3>1 DEF NextPage
    <3>3. CorpusTyped' /\ WorkerTyped' /\ RowsKnow'
      BY <1>1, <3>1, SameModels DEF CorpusInv, CorpusTyped, WorkerTyped, RowsKnow, Registered,
         Outstanding
    <3>4. CoveredThrough' /\ IndexKnows' /\ BatchKnows' /\ BackfillKnows'
      BY <1>1, <3>1, <3>2, SameModels DEF CorpusInv, CoveredThrough, IndexKnows, BatchKnows,
         BackfillKnows, Through, Have, Covers
    <3>5. QED
      BY <2>1, <3>3, <3>4 DEF CorpusInv
  <2>4. QED
    BY <1>1, <2>1, <2>2, <2>3
<1>2. Init => RegistryInv /\ CorpusInv
  BY InitRegistry, InitCorpus
<1>3. RegistryInv /\ CorpusInv => SearchSeesCorpus
  BY CorpusGivesSearch
<1>4. QED
  BY <1>1, <1>2, <1>3, PTL DEF Spec
=============================================================================

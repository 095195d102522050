--------------------------- MODULE ServicesProofs ---------------------------
(***************************************************************************)
(* Theorems about six services that share no state: the schedule of a      *)
(* watch, the job event bus, the sink of the observability log, the replay *)
(* of what is logged, the history of a counter, and a circuit breaker.     *)
(* They hold for every number of clients, streams, jobs, rows and calls,   *)
(* every size of a queue or window, and every bound.                       *)
(***************************************************************************)
EXTENDS WatchSchedule, JobEvents, ObservabilitySink, QueryLog, MetricsHistory,
        CircuitBreaker, FiniteSetTheorems, WellFoundedInduction, TLAPS

(***************************************************************************)
(* Watches.                                                                *)
(***************************************************************************)
Least == MinOf(Intervals)
Keys == [id : Nat \ {0}, at : Nat, manual : BOOLEAN]
Polls == [key : Keys, asked : Nat, status : {"pending", "over"}]
Watches == [id : Nat \ {0}, enabled : BOOLEAN, interval : Intervals, next : Nat,
            last : Nat, status : {"pending", "ok", "error"}]

\* The polls the ticks asked for, and those of one watch.
Timed == {p \in polls : ~p.key.manual}
Of(id) == {p \in Timed : p.key.id = id}

WatchTyped ==
    /\ time \in Nat \ {0}
    /\ watch \in {NoWatch} \union Watches
    /\ polls \subseteq Polls
    /\ watchWorker \in {Resting}
          \union [at : {"enqueue", "mark"}, row : Watches, now : Nat \ {0}]
          \union [at : {"poll"}, poll : Polls]
    /\ watchClient \in [WatchClients ->
          {Resting} \union [at : {"update"}, row : Watches]
                    \union [at : {"run"}, row : Watches, now : Nat \ {0}]]
    /\ watchUsed \in [ids : Nat, requests : Nat, troubles : Nat]

\* The keys of polls are unique, and a watch that is created has none.
PollsKnown ==
    /\ \A p \in polls : p.key.id <= watchUsed.ids /\ p.asked <= time
    /\ \A p, q \in polls : p.key = q.key => p = q
    /\ watch.id <= watchUsed.ids
    /\ watchWorker.at \in {"enqueue", "mark"} =>
          watchWorker.row.id <= watchUsed.ids /\ watchWorker.now <= time
    /\ watchWorker.at = "poll" => watchWorker.poll \in polls

\* A poll of the watch is the one that is due, enqueued by a tick that was cut
\* off before it marked the watch, or one interval away from the next.
Scheduled ==
    \A p \in Of(watch.id) :
        \/ p.key.at = watch.next
        \/ watch.last # Never /\ p.asked <= watch.last /\ p.asked + Least <= watch.next

\* What a tick read still holds, and it is not behind any poll.
TickHolds ==
    watchWorker.at \in {"enqueue", "mark"} =>
        /\ watch = watchWorker.row /\ watch.next <= watchWorker.now
        /\ \A p \in Of(watch.id) : p.asked <= watchWorker.now

\* What a request is about to write leaves room for the interval.
RequestHolds(c) ==
    LET run == watchClient[c] IN
    /\ run.at = "update" /\ watch.id = run.row.id =>
          /\ run.row.last = watch.last
          /\ run.row.next = watch.next \/ (watch.last # Never => watch.last + Least <= run.row.next)
    /\ run.at = "run" /\ watchWorker.at # "mark" =>
          \A p \in Of(run.row.id) : p.asked <= run.now

Apart ==
    \A p, q \in Timed :
        p.key # q.key /\ p.key.id = q.key.id =>
            p.asked >= q.asked + Least \/ q.asked >= p.asked + Least

WatchHolds ==
    /\ Scheduled /\ TickHolds /\ Apart
    /\ \A c \in WatchClients : RequestHolds(c)

WatchInv == WatchTyped /\ PollsKnown /\ (~crossed => WatchHolds)

-----------------------------------------------------------------------------
\* The least of the intervals is one of them.
LEMMA LeastInterval ==
    ASSUME NEW i \in Intervals
    PROVE  Least \in Nat /\ Least <= i
<1> DEFINE R == {ss \in Nat \X Nat : ss[1] < ss[2]}
<1>1. R = OpToRel(<, Nat)
  BY Zenon DEF OpToRel
<1>2. IsWellFoundedOn(R, Nat)
  BY <1>1, NatLessThanWellFounded, Zenon
<1> HIDE DEF R
<1>3. Intervals \subseteq Nat /\ Intervals # {}
  BY WatchAssumption
<1>4. \E n \in Intervals : \A x \in Intervals : ~(<<x, n>> \in R)
  BY <1>2, <1>3, WFMin
<1>5. PICK n \in Intervals : \A x \in Intervals : ~(<<x, n>> \in R)
  BY <1>4
<1>6. ASSUME NEW x \in Intervals
      PROVE  n <= x
  <2>1. <<x, n>> \in Nat \X Nat /\ x \in Nat /\ n \in Nat
    BY <1>3
  <2>2. ~(x < n)
    BY <1>5, <2>1 DEF R
  <2>3. QED
    BY <2>1, <2>2
<1>7. Least \in Intervals /\ \A x \in Intervals : Least <= x
  BY <1>6 DEF Least, MinOf
<1>8. QED
  BY <1>3, <1>7

\* enqueue under a key adds at most one poll, and only under a new key.
LEMMA EnqueueAdds ==
    ASSUME polls \subseteq Polls, \A p, q \in polls : p.key = q.key => p = q,
           NEW key \in Keys, NEW now \in Nat, EnqueuePoll(key, now)
    PROVE  /\ polls' \subseteq Polls /\ polls \subseteq polls'
           /\ \A p, q \in polls' : p.key = q.key => p = q
           /\ \A p \in polls' \ polls : p.key = key /\ p.asked = now /\ ~Known(key)
BY DEF EnqueuePoll, Known, Polls

\* A poll that ends keeps its key and the time it was asked for.
LEMMA EndKeeps ==
    ASSUME polls \subseteq Polls, \A p, q \in polls : p.key = q.key => p = q,
           NEW poll \in polls, PollEnds(poll)
    PROVE  /\ polls' \subseteq Polls
           /\ \A p, q \in polls' : p.key = q.key => p = q
           /\ \A p \in polls' : \E q \in polls : p.key = q.key /\ p.asked = q.asked
<1> DEFINE over == [poll EXCEPT !.status = "over"]
<1>1. over \in Polls /\ over.key = poll.key /\ over.asked = poll.asked
  BY DEF Polls
<1>2. polls' = (polls \ {poll}) \union {over}
  BY DEF PollEnds
<1> HIDE DEF over
<1>3. QED
  BY <1>1, <1>2

\* Adding an interval to a time gives a time.
LEMMA IntervalAdds ==
    ASSUME NEW row \in Watches, NEW t \in Nat
    PROVE  t + row.interval \in Nat
<1>1. row.interval \in Intervals
  BY DEF Watches
<1>2. row.interval \in Nat
  BY <1>1, WatchAssumption
<1>3. QED
  BY <1>2

\* Neither the schedule nor the result of a run makes it another watch.
LEMMA MarkKeeps ==
    ASSUME watch \in {NoWatch} \union Watches, NEW id \in Nat \ {0},
           \/ \E last \in Nat, next \in Nat : MarkRun(id, last, next)
           \/ \E result \in {"ok", "error"} : RecordResult(id, result)
    PROVE  watch' \in {NoWatch} \union Watches /\ watch'.id = watch.id
BY DEF MarkRun, RecordResult, NoWatch, Watches

\* Types, and the uniqueness of keys.
LEMMA WatchTypes ==
    ASSUME WatchTyped, PollsKnown, WatchNext
    PROVE  WatchTyped' /\ PollsKnown'
<1> USE DEF WatchTyped, PollsKnown
<1>0. polls \subseteq Polls /\ \A p, q \in polls : p.key = q.key => p = q
  OBVIOUS
<1>1. CASE Passes
  <2>1. time' = time + 1 /\ UNCHANGED <<watch, polls, watchWorker, watchClient, watchUsed>>
    BY <1>1 DEF Passes
  <2>2. \A k \in Nat : k <= time => k <= time'
    BY <2>1
  <2>3. \A p \in polls : p.asked \in Nat
    BY DEF Polls
  <2>4. watchWorker.at \in {"enqueue", "mark"} => watchWorker.now \in Nat
    BY DEF Resting
  <2>5. WatchTyped'
    BY <2>1
  <2>6. PollsKnown'
    BY <2>1, <2>2, <2>3, <2>4
  <2>7. QED
    BY <2>5, <2>6
<1>2. ASSUME NEW c \in WatchClients, CreateWatch(c)
      PROVE  WatchTyped' /\ PollsKnown'
  <2>1. PICK i \in Intervals :
          watch' = [id |-> watchUsed.ids + 1, enabled |-> TRUE, interval |-> i,
                    next |-> time, last |-> Never, status |-> "pending"]
    BY <1>2 DEF CreateWatch, InsertWatch
  <2>2. /\ watchUsed' = [watchUsed EXCEPT !.ids = @ + 1]
        /\ UNCHANGED <<time, polls, watchWorker, watchClient>>
    BY <1>2 DEF CreateWatch
  <2>3. watchUsed.ids \in Nat /\ watchUsed'.ids = watchUsed.ids + 1
    BY <2>2
  <2>4. watch' \in Watches
    BY <2>1, <2>3 DEF Watches, Never
  <2>5. watchUsed' \in [ids : Nat, requests : Nat, troubles : Nat]
    BY <2>2, <2>3
  <2>6. WatchTyped'
    BY <2>2, <2>4, <2>5
  <2>7. PollsKnown'
    <3>1. \A k \in Nat : k <= watchUsed.ids => k <= watchUsed'.ids
      BY <2>3
    <3>2. watch'.id = watchUsed'.ids
      BY <2>1, <2>3
    <3>3. watchWorker.at \in {"enqueue", "mark"} => watchWorker.row.id \in Nat
      BY DEF Watches, Resting
    <3>4. \A p \in polls : p.key.id \in Nat
      BY DEF Polls, Keys
    <3>5. QED
      BY <2>2, <2>3, <3>1, <3>2, <3>3, <3>4
  <2>8. QED
    BY <2>6, <2>7
<1>3. ASSUME NEW c \in WatchClients, DeleteWatch(c)
      PROVE  WatchTyped' /\ PollsKnown'
  BY <1>3 DEF DeleteWatch, Request, NoWatch
<1>4. ASSUME NEW c \in WatchClients, UpdateRead(c)
      PROVE  WatchTyped' /\ PollsKnown'
  <2>1. watch \in Watches
    BY <1>4 DEF UpdateRead
  <2>2. \A i \in Intervals : Retuned(watch, i) \in Watches
    <3> SUFFICES ASSUME NEW i \in Intervals
                 PROVE  Retuned(watch, i) \in Watches
      OBVIOUS
    <3>1. (IF watch.last = Never THEN time ELSE watch.last) + i \in Nat
      BY <2>1, WatchAssumption DEF Watches
    <3>2. QED
      BY <2>1, <3>1 DEF Retuned, Watches
  <2>3. \A e \in BOOLEAN : [watch EXCEPT !.enabled = e] \in Watches
    BY <2>1 DEF Watches
  <2>4. QED
    BY <1>4, <2>2, <2>3 DEF UpdateRead, Request
<1>5. ASSUME NEW c \in WatchClients, UpdateWrite(c)
      PROVE  WatchTyped' /\ PollsKnown'
  BY <1>5 DEF UpdateWrite, Resting
<1>6. ASSUME NEW c \in WatchClients, RunNow(c)
      PROVE  WatchTyped' /\ PollsKnown'
  <2>1. watch \in Watches
    BY <1>6 DEF RunNow
  <2>2. Key(watch.id, time, TRUE) \in Keys
    BY <2>1 DEF Key, Keys, Watches
  <2>3. /\ polls' \subseteq Polls /\ polls \subseteq polls'
        /\ \A p, q \in polls' : p.key = q.key => p = q
        /\ \A p \in polls' \ polls : p.key = Key(watch.id, time, TRUE) /\ p.asked = time
    BY <1>6, <2>2, EnqueueAdds DEF RunNow
  <2>4. WatchTyped'
    BY <1>6, <2>1, <2>3 DEF RunNow, Request
  <2>5. PollsKnown'
    BY <1>6, <2>3 DEF RunNow, Request, Key, Polls
  <2>6. QED
    BY <2>4, <2>5
<1>7. ASSUME NEW c \in WatchClients, RunNowMark(c)
      PROVE  WatchTyped' /\ PollsKnown'
  <2>1. watchClient[c].row \in Watches /\ watchClient[c].now \in Nat
    BY <1>7 DEF RunNowMark, Resting
  <2>2. watchClient[c].now + watchClient[c].row.interval \in Nat
    BY <2>1, IntervalAdds
  <2>3. watch' \in {NoWatch} \union Watches /\ watch'.id = watch.id
    <3>1. watchClient[c].row.id \in Nat \ {0}
      BY <2>1 DEF Watches
    <3>2. QED
      BY <1>7, <2>1, <2>2, <3>1, MarkKeeps DEF RunNowMark
  <2>4. QED
    BY <1>7, <2>3 DEF RunNowMark
<1>8. CASE TickRead
  BY <1>8 DEF TickRead, Due
<1>9. CASE TickEnqueue
  <2>1. watchWorker.at = "enqueue" /\ watchWorker.row \in Watches /\ watchWorker.now \in Nat
    BY <1>9 DEF TickEnqueue, Resting
  <2>2. CASE WatchTrouble /\ watchWorker' = Resting /\ UNCHANGED polls
    BY <1>9, <2>2 DEF TickEnqueue, WatchTrouble, Resting
  <2>3. CASE /\ EnqueuePoll(Key(watchWorker.row.id, watchWorker.row.next, FALSE), watchWorker.now)
             /\ watchWorker' = [watchWorker EXCEPT !.at = "mark"]
             /\ UNCHANGED watchUsed
    <3> DEFINE key == Key(watchWorker.row.id, watchWorker.row.next, FALSE)
    <3>1. key \in Keys /\ key.id = watchWorker.row.id
      BY <2>1 DEF Key, Keys, Watches
    <3>2. /\ polls' \subseteq Polls /\ polls \subseteq polls'
          /\ \A p, q \in polls' : p.key = q.key => p = q
          /\ \A p \in polls' \ polls : p.key = key /\ p.asked = watchWorker.now
      <4> HIDE DEF key, WatchTyped, PollsKnown
      <4>1. EnqueuePoll(key, watchWorker.now)
        BY <2>3 DEF key
      <4>2. QED
        BY <1>0, <2>1, <3>1, <4>1, EnqueueAdds
    <3>3. watchWorker' \in [at : {"enqueue", "mark"}, row : Watches, now : Nat \ {0}]
          /\ watchWorker'.at = "mark" /\ watchWorker'.row = watchWorker.row
          /\ watchWorker'.now = watchWorker.now
      BY <2>1, <2>3 DEF Resting
    <3>4. WatchTyped'
      BY <1>9, <2>3, <3>2, <3>3 DEF TickEnqueue
    <3>5. PollsKnown'
      BY <1>9, <2>1, <2>3, <3>1, <3>2, <3>3 DEF TickEnqueue
    <3>6. QED
      BY <3>4, <3>5
  <2>4. QED
    BY <1>9, <2>2, <2>3 DEF TickEnqueue
<1>10. CASE TickMark
  <2>1. watchWorker.row \in Watches /\ watchWorker.now \in Nat
    BY <1>10 DEF TickMark, Resting
  <2>2. watchWorker.now + watchWorker.row.interval \in Nat
    BY <2>1, IntervalAdds
  <2>3. watch' \in {NoWatch} \union Watches /\ watch'.id = watch.id
    <3>1. watchWorker.row.id \in Nat \ {0}
      BY <2>1 DEF Watches
    <3>2. QED
      BY <1>10, <2>1, <2>2, <3>1, MarkKeeps DEF TickMark
  <2>4. QED
    BY <1>10, <2>3 DEF TickMark, Resting
<1>11. ASSUME NEW poll \in polls, PollRead(poll)
      PROVE  WatchTyped' /\ PollsKnown'
  <2>1. CASE PollEnds(poll) /\ UNCHANGED watchWorker
    <3>1. /\ polls' \subseteq Polls
          /\ \A p, q \in polls' : p.key = q.key => p = q
          /\ \A p \in polls' : \E q \in polls : p.key = q.key /\ p.asked = q.asked
      BY <1>0, <2>1, EndKeeps
    <3>2. watchWorker' = Resting
      BY <1>11, <2>1 DEF PollRead
    <3>3. QED
      BY <1>11, <3>1, <3>2 DEF PollRead, Resting
  <2>2. CASE watchWorker' = [at |-> "poll", poll |-> poll] /\ UNCHANGED polls
    BY <1>11, <2>2 DEF PollRead
  <2>3. QED
    BY <1>11, <2>1, <2>2 DEF PollRead
<1>12. CASE PollResult
  <2>1. watchWorker.poll \in polls /\ watchWorker.poll.key.id \in Nat \ {0}
    BY <1>12 DEF PollResult, Polls, Keys
  <2>2. watch' \in {NoWatch} \union Watches /\ watch'.id = watch.id
    BY <1>12, <2>1, MarkKeeps DEF PollResult
  <2>3. /\ polls' \subseteq Polls
        /\ \A p, q \in polls' : p.key = q.key => p = q
        /\ \A p \in polls' : \E q \in polls : p.key = q.key /\ p.asked = q.asked
    BY <1>12, <2>1, EndKeeps DEF PollResult
  <2>4. QED
    BY <1>12, <2>2, <2>3 DEF PollResult, Resting
<1>13. CASE WatchCrash
  BY <1>13 DEF WatchCrash, WatchTrouble, Resting
<1>14. QED
  BY <1>1, <1>2, <1>3, <1>4, <1>5, <1>6, <1>7, <1>8, <1>9, <1>10, <1>11, <1>12, <1>13
  DEF WatchNext, WatchWork, WatchRequest

-----------------------------------------------------------------------------
\* A request that overlaps nothing leaves the polls of a watch an interval
\* apart, and the schedule behind them.
LEMMA RequestsKeepSchedule ==
    ASSUME WatchTyped, PollsKnown, ~crossed => WatchHolds, ~crossed',
           NEW c \in WatchClients,
           \/ CreateWatch(c) \/ DeleteWatch(c) \/ UpdateRead(c) \/ RunNow(c)
           \/ UpdateWrite(c) \/ RunNowMark(c)
    PROVE  WatchHolds'
<1> USE DEF WatchTyped, PollsKnown
<1>0. /\ \A p \in polls : p.asked \in Nat /\ p.key \in Keys
      /\ \A p \in polls : p.key.id \in Nat \ {0} /\ p.key.at \in Nat /\ p.key.manual \in BOOLEAN
  BY DEF Polls, Keys
<1>a. watch.id \in Nat /\ (watch # NoWatch => watch \in Watches /\ watch.last \in Nat /\ watch.next \in Nat)
  BY DEF NoWatch, Watches
<1>1. CASE CreateWatch(c)
  <2>1. PICK i \in Intervals :
          watch' = [id |-> watchUsed.ids + 1, enabled |-> TRUE, interval |-> i,
                    next |-> time, last |-> Never, status |-> "pending"]
    BY <1>1 DEF CreateWatch, InsertWatch
  <2>2. /\ ~crossed /\ watchWorker = Resting
        /\ \A d \in WatchClients : watchClient[d] = Resting
        /\ UNCHANGED <<polls, watchWorker, watchClient>>
    BY <1>1 DEF CreateWatch, Crossing, OthersBusy
  <2>3. \A p \in polls : p.key.id # watch'.id
    BY <1>0, <2>1
  <2>4. Scheduled'
    BY <2>2, <2>3 DEF Scheduled, Of, Timed
  <2>5. Apart'
    BY <2>2 DEF WatchHolds, Apart, Timed
  <2>6. TickHolds' /\ \A d \in WatchClients : RequestHolds(d)'
    BY <2>2 DEF TickHolds, RequestHolds, Resting
  <2>7. QED
    BY <2>4, <2>5, <2>6 DEF WatchHolds
<1>2. CASE DeleteWatch(c)
  <2>1. /\ ~crossed /\ watchWorker = Resting /\ watch' = NoWatch
        /\ \A d \in WatchClients : watchClient[d] = Resting
        /\ UNCHANGED <<polls, watchWorker, watchClient>>
    BY <1>2 DEF DeleteWatch, Crossing, OthersBusy
  <2>2. \A p \in polls : p.key.id # watch'.id
    BY <1>0, <2>1 DEF NoWatch
  <2>3. Scheduled'
    BY <2>1, <2>2 DEF Scheduled, Of, Timed
  <2>4. Apart'
    BY <2>1 DEF WatchHolds, Apart, Timed
  <2>5. TickHolds' /\ \A d \in WatchClients : RequestHolds(d)'
    BY <2>1 DEF TickHolds, RequestHolds, Resting
  <2>6. QED
    BY <2>3, <2>4, <2>5 DEF WatchHolds
<1>3. CASE UpdateRead(c)
  <2>1. /\ ~crossed /\ watch \in Watches
        /\ UNCHANGED <<time, watch, polls, watchWorker, crossed>>
    BY <1>3 DEF UpdateRead
  <2>2. PICK row \in {[watch EXCEPT !.enabled = e] : e \in BOOLEAN}
                       \union {Retuned(watch, i) : i \in Intervals} :
          watchClient' = [watchClient EXCEPT ![c] = [at |-> "update", row |-> row]]
    BY <1>3 DEF UpdateRead
  <2>3. row.last = watch.last
    <3>1. \A e \in BOOLEAN : [watch EXCEPT !.enabled = e].last = watch.last
      BY <2>1 DEF Watches
    <3>2. \A i \in Intervals : Retuned(watch, i).last = watch.last
      BY <2>1 DEF Retuned, Watches
    <3>3. \/ \E e \in BOOLEAN : row = [watch EXCEPT !.enabled = e]
          \/ \E i \in Intervals : row = Retuned(watch, i)
      BY <2>2
    <3>4. CASE \E e \in BOOLEAN : row = [watch EXCEPT !.enabled = e]
      BY <3>1, <3>4
    <3>5. CASE \E i \in Intervals : row = Retuned(watch, i)
      BY <3>2, <3>5
    <3>6. QED
      BY <3>3, <3>4, <3>5
  <2>4. row.next = watch.next \/ (watch.last # Never => watch.last + Least <= row.next)
    <3>1. \A e \in BOOLEAN : [watch EXCEPT !.enabled = e].next = watch.next
      BY <2>1 DEF Watches
    <3>2. ASSUME NEW i \in Intervals, Retuned(watch, i).next # watch.next, watch.last # Never
          PROVE  watch.last + Least <= Retuned(watch, i).next
      <4>1. Retuned(watch, i).next = watch.last + i
        BY <2>1, <3>2 DEF Retuned, Watches
      <4>2. Least \in Nat /\ Least <= i /\ i \in Nat
        BY LeastInterval, WatchAssumption
      <4>3. QED
        BY <1>a, <2>1, <4>1, <4>2 DEF NoWatch, Watches
    <3>3. \/ \E e \in BOOLEAN : row = [watch EXCEPT !.enabled = e]
          \/ \E i \in Intervals : row = Retuned(watch, i)
      BY <2>2
    <3>4. CASE \E e \in BOOLEAN : row = [watch EXCEPT !.enabled = e]
      BY <3>1, <3>4
    <3>5. CASE \E i \in Intervals : row = Retuned(watch, i)
      <4>1. PICK i \in Intervals : row = Retuned(watch, i)
        BY <3>5
      <4>2. QED
        BY <3>2, <4>1
    <3>6. QED
      BY <3>3, <3>4, <3>5
  <2>5. /\ watchClient'[c] = [at |-> "update", row |-> row]
        /\ \A d \in WatchClients \ {c} : watchClient'[d] = watchClient[d]
    BY <2>2
  <2>6. RequestHolds(c)'
    BY <2>1, <2>3, <2>4, <2>5 DEF RequestHolds
  <2>7. \A d \in WatchClients \ {c} : RequestHolds(d)'
    BY <2>1, <2>5 DEF WatchHolds, RequestHolds, Of, Timed
  <2>8. Scheduled' /\ TickHolds' /\ Apart'
    BY <2>1 DEF WatchHolds, Scheduled, TickHolds, Apart, Of, Timed
  <2>9. QED
    BY <2>6, <2>7, <2>8 DEF WatchHolds
<1>4. CASE RunNow(c)
  <2>1. /\ ~crossed /\ watch \in Watches
        /\ UNCHANGED <<time, watch, watchWorker, crossed>>
    BY <1>4 DEF RunNow
  <2>2. Timed' = Timed
    BY <1>4 DEF RunNow, EnqueuePoll, Key, Timed
  <2>3. /\ watchClient'[c] = [at |-> "run", row |-> watch, now |-> time]
        /\ \A d \in WatchClients \ {c} : watchClient'[d] = watchClient[d]
    BY <1>4 DEF RunNow
  <2>4. RequestHolds(c)'
    BY <2>1, <2>2, <2>3 DEF RequestHolds, Of, Timed
  <2>5. \A d \in WatchClients \ {c} : RequestHolds(d)'
    BY <2>1, <2>2, <2>3 DEF WatchHolds, RequestHolds, Of
  <2>6. Scheduled' /\ TickHolds' /\ Apart'
    BY <2>1, <2>2 DEF WatchHolds, Scheduled, TickHolds, Apart, Of
  <2>7. QED
    BY <2>4, <2>5, <2>6 DEF WatchHolds
<1>5. CASE UpdateWrite(c)
  <2> DEFINE row == watchClient[c].row
  <2>1. /\ ~crossed /\ watchWorker = Resting
        /\ \A d \in WatchClients \ {c} : watchClient[d] = Resting
        /\ watch # NoWatch => ~Known(Key(watch.id, watch.next, FALSE))
        /\ watchClient' = [watchClient EXCEPT ![c] = Resting]
        /\ watch' = IF watch.id = row.id THEN row ELSE watch
        /\ watchClient[c].at = "update"
        /\ UNCHANGED <<polls, watchWorker>>
    BY <1>5 DEF UpdateWrite, Crossing, OthersBusy
  <2>2. \A d \in WatchClients : watchClient'[d] = Resting
    BY <2>1
  <2>3. TickHolds' /\ \A d \in WatchClients : RequestHolds(d)'
    BY <2>1, <2>2 DEF TickHolds, RequestHolds, Resting
  <2>4. Apart'
    BY <2>1 DEF WatchHolds, Apart, Timed
  <2>5. Scheduled'
    <3>1. CASE watch.id # row.id
      BY <2>1, <3>1 DEF WatchHolds, Scheduled, Of, Timed
    <3>2. CASE watch.id = row.id
      <4>1. row \in Watches /\ row.next \in Nat /\ row.last \in Nat /\ watch' = row
        BY <2>1, <3>2 DEF Resting, Watches
      <4>2. watch # NoWatch
        BY <3>2, <4>1 DEF NoWatch, Watches
      <4>3. /\ row.last = watch.last
            /\ row.next = watch.next \/ (watch.last # Never => watch.last + Least <= row.next)
        BY <2>1, <3>2 DEF WatchHolds, RequestHolds
      <4>4. ASSUME NEW p \in Of(watch.id)
            PROVE  row.last # Never /\ p.asked <= row.last /\ p.asked + Least <= row.next
        <5>1. p \in polls /\ p.key = Key(p.key.id, p.key.at, p.key.manual)
              /\ p.key.id = watch.id /\ p.key.manual = FALSE
          BY <1>0 DEF Of, Timed, Key, Keys
        <5>2. p.key.at # watch.next
          BY <2>1, <4>2, <5>1 DEF Known
        <5>3. watch.last # Never /\ p.asked <= watch.last /\ p.asked + Least <= watch.next
          BY <2>1, <4>4, <5>2 DEF WatchHolds, Scheduled
        <5>4. Least \in Nat
          BY LeastInterval, <4>1 DEF Watches
        <5>5. QED
          BY <1>0, <1>a, <4>1, <4>2, <4>3, <5>1, <5>3, <5>4
      <4>5. Of(watch.id)' = Of(watch.id)
        BY <2>1, <3>2, <4>1 DEF Of, Timed
      <4>6. QED
        BY <4>1, <4>4, <4>5 DEF Scheduled
    <3>3. QED
      BY <3>1, <3>2
  <2>6. QED
    BY <2>3, <2>4, <2>5 DEF WatchHolds
<1>6. CASE RunNowMark(c)
  <2> DEFINE run == watchClient[c]
  <2>1. /\ ~crossed /\ watchWorker = Resting
        /\ \A d \in WatchClients \ {c} : watchClient[d] = Resting
        /\ watchClient' = [watchClient EXCEPT ![c] = Resting]
        /\ MarkRun(run.row.id, run.now, run.now + run.row.interval)
        /\ run.at = "run"
        /\ UNCHANGED <<polls, watchWorker>>
    BY <1>6 DEF RunNowMark, Crossing, OthersBusy
  <2>2. \A d \in WatchClients : watchClient'[d] = Resting
    BY <2>1
  <2>3. TickHolds' /\ \A d \in WatchClients : RequestHolds(d)'
    BY <2>1, <2>2 DEF TickHolds, RequestHolds, Resting
  <2>4. Apart'
    BY <2>1 DEF WatchHolds, Apart, Timed
  <2>5. run.row \in Watches /\ run.now \in Nat \ {0} /\ run.row.id \in Nat \ {0}
    BY <2>1 DEF Resting, Watches
  <2>6. \A p \in Of(run.row.id) : p.asked <= run.now
    BY <2>1 DEF WatchHolds, RequestHolds, Resting
  <2>7. Scheduled'
    <3>1. CASE watch.id # run.row.id
      BY <2>1, <3>1 DEF MarkRun, WatchHolds, Scheduled, Of, Timed
    <3>2. CASE watch.id = run.row.id
      <4>1. watch \in Watches
        BY <2>5, <3>2 DEF NoWatch
      <4>2. watch' = [watch EXCEPT !.last = run.now, !.next = run.now + run.row.interval]
        BY <2>1, <3>2 DEF MarkRun
      <4>3. /\ watch'.id = watch.id /\ watch'.last = run.now
            /\ watch'.next = run.now + run.row.interval
        BY <4>1, <4>2 DEF Watches
      <4>4. Of(watch.id)' = Of(run.row.id)
        BY <2>1, <3>2, <4>3 DEF Of, Timed
      <4>5. run.row.interval \in Nat /\ Least \in Nat /\ Least <= run.row.interval
        <5>1. run.row.interval \in Intervals
          BY <2>5 DEF Watches
        <5>2. QED
          BY <5>1, LeastInterval, WatchAssumption
      <4>6. \A p \in Of(run.row.id) : p.asked \in Nat
        BY <1>0 DEF Of, Timed
      <4>7. \A p \in Of(run.row.id) : p.asked + Least <= watch'.next
        BY <2>5, <2>6, <4>3, <4>5, <4>6
      <4>8. QED
        BY <2>5, <2>6, <4>3, <4>4, <4>7 DEF Scheduled, Never
    <3>3. QED
      BY <3>1, <3>2
  <2>8. QED
    BY <2>3, <2>4, <2>7 DEF WatchHolds
<1>7. QED
  BY <1>1, <1>2, <1>3, <1>4, <1>5, <1>6
\* What holds of every poll still holds when one of them ends.
LEMMA EndKeepsSchedule ==
    ASSUME WatchTyped, PollsKnown, WatchHolds, NEW poll \in polls, PollEnds(poll),
           watch'.id = watch.id, watch'.next = watch.next, watch'.last = watch.last
    PROVE  Scheduled' /\ Apart'
<1>1. \A p \in polls' : \E q \in polls : p.key = q.key /\ p.asked = q.asked
  BY EndKeeps DEF WatchTyped, PollsKnown
<1>2. Scheduled'
  BY <1>1 DEF WatchHolds, Scheduled, Of, Timed
<1>3. Apart'
  <2> SUFFICES ASSUME NEW p \in Timed', NEW q \in Timed', p.key # q.key, p.key.id = q.key.id
               PROVE  p.asked >= q.asked + Least \/ q.asked >= p.asked + Least
    BY DEF Apart
  <2>1. PICK r \in polls : p.key = r.key /\ p.asked = r.asked
    BY <1>1 DEF Timed
  <2>2. PICK t \in polls : q.key = t.key /\ q.asked = t.asked
    BY <1>1 DEF Timed
  <2>3. r \in Timed /\ t \in Timed
    BY <2>1, <2>2 DEF Timed
  <2>4. QED
    BY <2>1, <2>2, <2>3 DEF WatchHolds, Apart
<1>4. QED
  BY <1>2, <1>3

\* So does a step of the tick or of a poll.
LEMMA WorkKeepsSchedule ==
    ASSUME WatchTyped, PollsKnown, ~crossed => WatchHolds, ~crossed', WatchWork
    PROVE  WatchHolds'
<1> USE DEF WatchTyped, PollsKnown
<1>0. /\ \A p \in polls : p.asked \in Nat /\ p.key \in Keys
      /\ \A p \in polls : p.key.id \in Nat \ {0} /\ p.key.at \in Nat /\ p.key.manual \in BOOLEAN
  BY DEF Polls, Keys
<1>1. CASE TickRead
  <2>1. /\ ~crossed /\ watch \in Watches /\ watch.next <= time
        /\ watchWorker' = [at |-> "enqueue", row |-> watch, now |-> time]
        /\ UNCHANGED <<watch, polls, watchClient>> /\ watchWorker = Resting
    BY <1>1 DEF TickRead, Due
  <2>2. TickHolds'
    BY <2>1 DEF TickHolds, Of, Timed
  <2>3. Scheduled' /\ Apart' /\ \A c \in WatchClients : RequestHolds(c)'
    BY <2>1 DEF WatchHolds, Scheduled, Apart, RequestHolds, Of, Timed, Resting
  <2>4. QED
    BY <2>2, <2>3 DEF WatchHolds
<1>2. CASE TickEnqueue
  <2> DEFINE tick == watchWorker
             key == Key(watch.id, watch.next, FALSE)
  <2>1. /\ ~crossed /\ tick.at = "enqueue" /\ tick.row \in Watches /\ tick.now \in Nat
        /\ UNCHANGED <<watch, watchClient>>
    BY <1>2 DEF TickEnqueue, Resting
  <2>2. /\ watch = tick.row /\ watch.next <= tick.now
        /\ \A p \in Of(watch.id) : p.asked <= tick.now
    BY <2>1 DEF WatchHolds, TickHolds
  <2>3. CASE watchWorker' = Resting /\ UNCHANGED polls
    <3>1. TickHolds' /\ Scheduled' /\ Apart'
      BY <2>1, <2>3 DEF WatchHolds, Scheduled, Apart, TickHolds, Of, Timed, Resting
    <3>2. \A c \in WatchClients : RequestHolds(c)'
      BY <2>1, <2>3 DEF WatchHolds, RequestHolds, Of, Timed
    <3>3. QED
      BY <3>1, <3>2 DEF WatchHolds
  <2>4. CASE /\ EnqueuePoll(key, tick.now)
             /\ watchWorker' = [watchWorker EXCEPT !.at = "mark"]
    <3>1. key \in Keys /\ key.id = watch.id /\ key.at = watch.next /\ key.manual = FALSE
      BY <2>1, <2>2 DEF Key, Keys, Watches
    <3>2. /\ polls \subseteq polls'
          /\ \A p \in polls' \ polls : p.key = key /\ p.asked = tick.now
      <4> HIDE DEF key, WatchTyped, PollsKnown
      <4>1. polls \subseteq Polls /\ \A p, q \in polls : p.key = q.key => p = q
        BY DEF WatchTyped, PollsKnown
      <4>2. QED
        BY <2>1, <2>4, <3>1, <4>1, EnqueueAdds
    <3>3. watchWorker'.at = "mark" /\ watchWorker'.row = tick.row /\ watchWorker'.now = tick.now
      BY <2>1, <2>4 DEF Resting
    <3> HIDE DEF key
    <3>4. Scheduled'
      BY <2>1, <3>1, <3>2 DEF WatchHolds, Scheduled, Of, Timed
    <3>5. TickHolds'
      <4>1. \A p \in Of(watch.id)' : p.asked <= tick.now
        <5> SUFFICES ASSUME NEW p \in Of(watch.id)'
                     PROVE  p.asked <= tick.now
          OBVIOUS
        <5>1. p \in polls => p \in Of(watch.id)
          BY <2>1 DEF Of, Timed
        <5>2. p \in polls'
          BY DEF Of, Timed
        <5>3. QED
          BY <2>1, <2>2, <3>2, <5>1, <5>2
      <4>2. QED
        BY <2>1, <2>2, <3>3, <4>1 DEF TickHolds
    <3>6. Apart'
      <4>1. ASSUME NEW p \in polls, NEW q \in polls' \ polls, ~p.key.manual,
                   p.key.id = q.key.id, p.key # q.key
            PROVE  q.asked >= p.asked + Least
        <5>1. q.key = key /\ q.asked = tick.now
          BY <3>2, <4>1
        <5>2. p \in Of(watch.id)
          BY <3>1, <4>1, <5>1 DEF Of, Timed
        <5>3. p.key = Key(p.key.id, p.key.at, p.key.manual)
          BY <1>0 DEF Keys, Key
        <5>4. p.key.at # watch.next
          <6>1. p.key.manual = FALSE /\ p.key.id = watch.id
            BY <1>0, <3>1, <4>1, <5>1
          <6>2. p.key.at = watch.next => p.key = key
            BY <5>3, <6>1 DEF key
          <6>3. QED
            BY <4>1, <5>1, <6>2
        <5>5. p.asked + Least <= watch.next
          BY <2>1, <5>2, <5>4 DEF WatchHolds, Scheduled
        <5>6. watch.next \in Nat /\ p.asked \in Nat /\ Least \in Nat
          <6>1. tick.row.interval \in Intervals /\ tick.row.next \in Nat
            BY <2>1 DEF Watches
          <6>2. QED
            BY <1>0, <2>2, <6>1, LeastInterval
        <5>7. QED
          BY <2>1, <2>2, <5>1, <5>5, <5>6
      <4>2. \A p, q \in polls' \ polls : p.key = q.key
        BY <3>2
      <4>3. \A p, q \in polls : ~p.key.manual /\ ~q.key.manual
               /\ p.key # q.key /\ p.key.id = q.key.id =>
                    p.asked >= q.asked + Least \/ q.asked >= p.asked + Least
        BY <2>1 DEF WatchHolds, Apart, Timed
      <4>4. QED
        BY <4>1, <4>2, <4>3 DEF Apart, Timed
    <3>7. \A c \in WatchClients : RequestHolds(c)'
      BY <2>1, <3>3 DEF WatchHolds, RequestHolds
    <3>8. QED
      BY <3>4, <3>5, <3>6, <3>7 DEF WatchHolds
  <2>5. QED
    BY <1>2, <2>2, <2>3, <2>4 DEF TickEnqueue
<1>3. CASE TickMark
  <2> DEFINE tick == watchWorker
  <2>0. tick.at = "mark" /\ tick.row \in Watches /\ tick.now \in Nat \ {0}
    BY <1>3 DEF TickMark, Resting
  <2>1. /\ ~crossed
        /\ \A c \in WatchClients : watchClient[c] = Resting
        /\ UNCHANGED <<polls, watchClient>> /\ watchWorker' = Resting
        /\ MarkRun(tick.row.id, tick.now, tick.now + tick.row.interval)
    BY <1>3 DEF TickMark, Crossing, ClientsBusy
  <2>2. /\ watch = tick.row /\ watch.next <= tick.now
        /\ \A p \in Of(watch.id) : p.asked <= tick.now
    BY <2>0, <2>1 DEF WatchHolds, TickHolds
  <2>3. watch' = [watch EXCEPT !.last = tick.now, !.next = tick.now + tick.row.interval]
    BY <2>0, <2>1, <2>2 DEF MarkRun
  <2>4. /\ watch'.id = watch.id /\ watch'.last = tick.now
        /\ watch'.next = tick.now + tick.row.interval
    BY <2>0, <2>1, <2>2, <2>3 DEF Watches
  <2>5. tick.row.interval \in Nat /\ Least \in Nat /\ Least <= tick.row.interval
    <3>1. tick.row.interval \in Intervals
      BY <2>0 DEF Watches
    <3>2. QED
      BY <3>1, LeastInterval, WatchAssumption
  <2>6. Of(watch.id)' = Of(watch.id) /\ \A p \in Of(watch.id) : p.asked \in Nat
    BY <1>0, <2>1, <2>4 DEF Of, Timed
  <2>7. \A p \in Of(watch.id) : p.asked + Least <= watch'.next
    BY <2>0, <2>1, <2>2, <2>4, <2>5, <2>6
  <2>8. Scheduled'
    BY <2>0, <2>1, <2>2, <2>4, <2>6, <2>7 DEF Scheduled, Never
  <2>9. Apart' /\ TickHolds' /\ \A c \in WatchClients : RequestHolds(c)'
    BY <2>1 DEF WatchHolds, Apart, Timed, TickHolds, RequestHolds, Resting
  <2>10. QED
    BY <2>8, <2>9 DEF WatchHolds
<1>4. ASSUME NEW poll \in polls, PollRead(poll)
      PROVE  WatchHolds'
  <2>1. ~crossed /\ watchWorker = Resting /\ UNCHANGED <<watch, watchClient>>
    BY <1>4 DEF PollRead
  <2>2. watchWorker'.at \notin {"enqueue", "mark"}
    BY <1>4 DEF PollRead, Resting
  <2>3. \A p \in polls' : \E q \in polls : p.key = q.key /\ p.asked = q.asked
    BY <1>4, EndKeeps DEF PollRead
  <2>4. Scheduled' /\ Apart'
    <3>1. CASE PollEnds(poll)
      BY <2>1, <3>1, EndKeepsSchedule
    <3>2. CASE UNCHANGED polls
      BY <2>1, <3>2 DEF WatchHolds, Scheduled, Apart, Of, Timed
    <3>3. QED
      BY <1>4, <3>1, <3>2 DEF PollRead
  <2>5. TickHolds'
    BY <2>2 DEF TickHolds
  <2>6. \A c \in WatchClients : RequestHolds(c)'
    BY <2>1, <2>3 DEF WatchHolds, RequestHolds, Of, Timed, Resting
  <2>7. QED
    BY <2>4, <2>5, <2>6 DEF WatchHolds
<1>5. CASE PollResult
  <2>1. /\ ~crossed /\ watchWorker.poll \in polls /\ PollEnds(watchWorker.poll)
        /\ \A c \in WatchClients : watchClient[c] = Resting
        /\ watchWorker' = Resting /\ UNCHANGED watchClient
    BY <1>5 DEF PollResult, Crossing, ClientsBusy
  <2>2. watch'.id = watch.id /\ watch'.next = watch.next /\ watch'.last = watch.last
    <3>1. PICK result \in {"ok", "error"} : RecordResult(watchWorker.poll.key.id, result)
      BY <1>5 DEF PollResult
    <3>2. watch = NoWatch => watchWorker.poll.key.id # watch.id
      BY <1>0, <2>1 DEF NoWatch
    <3>3. QED
      BY <3>1, <3>2 DEF RecordResult, Watches
  <2>3. Scheduled' /\ Apart'
    BY <2>1, <2>2, EndKeepsSchedule
  <2>4. TickHolds' /\ \A c \in WatchClients : RequestHolds(c)'
    BY <2>1 DEF TickHolds, RequestHolds, Resting
  <2>5. QED
    BY <2>3, <2>4 DEF WatchHolds
<1>6. QED
  BY <1>1, <1>2, <1>3, <1>4, <1>5 DEF WatchWork

\* Every step keeps the invariant.
LEMMA WatchKept ==
    ASSUME WatchInv, [WatchNext]_watchVars
    PROVE  WatchInv'
<1>1. CASE UNCHANGED watchVars
  BY <1>1 DEF watchVars, WatchInv, WatchTyped, PollsKnown, WatchHolds, Scheduled, TickHolds,
              RequestHolds, Apart, Of, Timed
<1>2. CASE WatchNext
  <2>1. WatchTyped' /\ PollsKnown'
    BY <1>2, WatchTypes DEF WatchInv
  <2>2. ASSUME ~crossed'
        PROVE  WatchHolds'
    <3>1. CASE Passes
      BY <2>2, <3>1 DEF Passes, WatchInv, WatchHolds, Scheduled, TickHolds, RequestHolds, Apart,
                        Of, Timed
    <3>2. CASE WatchWork
      BY <2>2, <3>2, WorkKeepsSchedule DEF WatchInv
    <3>3. CASE \E c \in WatchClients :
                 \/ CreateWatch(c) \/ DeleteWatch(c) \/ UpdateRead(c) \/ RunNow(c)
                 \/ UpdateWrite(c) \/ RunNowMark(c)
      BY <2>2, <3>3, RequestsKeepSchedule DEF WatchInv
    <3>4. CASE WatchCrash
      <4>1. /\ ~crossed /\ UNCHANGED <<watch, polls>> /\ watchWorker' = Resting
            /\ \A c \in WatchClients : watchClient'[c] = Resting
        BY <2>2, <3>4 DEF WatchCrash
      <4>2. QED
        BY <4>1 DEF WatchInv, WatchHolds, Scheduled, TickHolds, RequestHolds, Apart, Of, Timed,
                    Resting
    <3>5. QED
      BY <1>2, <3>1, <3>2, <3>3, <3>4 DEF WatchNext, WatchRequest
  <2>3. QED
    BY <2>1, <2>2 DEF WatchInv
<1>3. QED
  BY <1>1, <1>2

\* The ticks never ask for two polls of a watch in less than the shortest
\* interval, whatever is cut off, repeated, failed or crashed, as long as no
\* request overlapped another write (watch_service.py: tick, run_now, update).
THEOREM WatchPollsApart == WatchSpec => []PollsApart
<1>1. WatchInit => WatchInv
  BY DEF WatchInit, WatchInv, WatchTyped, PollsKnown, WatchHolds, Scheduled, TickHolds,
         RequestHolds, Apart, Of, Timed, NoWatch, Resting
<1>2. WatchInv /\ [WatchNext]_watchVars => WatchInv'
  BY WatchKept
<1>3. WatchInv => PollsApart
  BY DEF WatchInv, PollsKnown, WatchHolds, Apart, Timed, PollsApart, Least
<1>4. QED
  BY <1>1, <1>2, <1>3, PTL DEF WatchSpec
-----------------------------------------------------------------------------
(***************************************************************************)
(* The job event bus.                                                      *)
(***************************************************************************)
Events == [kind : {"job"}, job : StreamJobs, version : Nat]

\* The newest event of a job in a queue carries what was announced last; when
\* there is none, the client saw the job as it is, or as it was announced.
Follows(row, j) ==
    /\ \A i \in 1..Len(row.queue) :
          row.queue[i].job = j /\ (\A k \in 1..Len(row.queue) : k > i => row.queue[k].job # j) =>
             row.queue[i].version = announced[j]
    /\ row.at = "live" /\ (\A i \in 1..Len(row.queue) : row.queue[i].job # j) =>
          row.view[j] \in {announced[j], ledger[j]}

StreamRows == [at : {"asked", "accepted", "subscribed", "live", "over"}, queue : Seq(Events),
               view : [StreamJobs -> Nat], dropped : SUBSET StreamJobs]

\* A subscriber follows every job but those of which an event was dropped.
StreamHolds(row) ==
    /\ row \in StreamRows
    /\ Len(row.queue) <= QueueSize
    /\ row.at \notin {"subscribed", "live"} => row.queue = <<>> /\ row.dropped = {}
    /\ row.at \in {"subscribed", "live"} =>
          \A j \in StreamJobs \ row.dropped : Follows(row, j)

BusInv ==
    ~busClosed =>
        /\ ledger \in [StreamJobs -> Nat] /\ announced \in [StreamJobs -> Nat]
        /\ DOMAIN stream = Streams
        /\ \A s \in Streams : StreamHolds(stream[s])

\* put_nowait with its retry: the newest event is last, and the others keep
\* their order; the oldest is gone when there was no room.
LEMMA PutQueue ==
    ASSUME NEW queue \in Seq(Events), Len(queue) <= QueueSize, NEW event \in Events
    PROVE  /\ Put(queue, event) \in Seq(Events)
           /\ Len(Put(queue, event)) \in Nat \ {0}
           /\ Len(Put(queue, event)) <= QueueSize
           /\ Put(queue, event)[Len(Put(queue, event))] = event
           /\ Len(queue) = QueueSize =>
                /\ Len(queue) \in Nat \ {0} /\ queue[1] \in Events
                /\ Len(Put(queue, event)) = Len(queue)
                /\ \A i \in 1..Len(queue) : i < Len(queue) => Put(queue, event)[i] = queue[i + 1]
           /\ Len(queue) # QueueSize =>
                /\ Len(Put(queue, event)) = Len(queue) + 1
                /\ \A i \in 1..Len(queue) : Put(queue, event)[i] = queue[i]
<1>0. QueueSize \in Nat \ {0} /\ Len(queue) \in Nat
  BY BusAssumption
<1>1. CASE Len(queue) = QueueSize
  <2>1. queue # <<>>
    BY <1>0, <1>1
  <2>2. Tail(queue) \in Seq(Events) /\ Len(Tail(queue)) = Len(queue) - 1
        /\ \A i \in 1..Len(Tail(queue)) : Tail(queue)[i] = queue[i + 1]
    BY <1>0, <2>1
  <2>3. queue[1] \in Events
    BY <1>0, <1>1
  <2>4. Put(queue, event) = Append(Tail(queue), event)
    BY <1>1 DEF Put
  <2> DEFINE rest == Tail(queue)
  <2> HIDE DEF rest
  <2>5. /\ Append(rest, event) \in Seq(Events) /\ Len(Append(rest, event)) = Len(queue)
        /\ Append(rest, event)[Len(queue)] = event
        /\ \A i \in 1..Len(queue) : i < Len(queue) => Append(rest, event)[i] = queue[i + 1]
    BY <1>0, <1>1, <2>2 DEF rest
  <2>6. QED
    BY <1>0, <1>1, <2>3, <2>4, <2>5 DEF rest
<1>2. CASE Len(queue) # QueueSize
  <2>1. Put(queue, event) = Append(queue, event)
    BY <1>2 DEF Put
  <2>2. QED
    BY <1>0, <1>2, <2>1
<1>3. QED
  BY <1>1, <1>2

\* A view is a view when an event is read.
LEMMA ViewUpdated ==
    ASSUME NEW f \in [StreamJobs -> Nat], NEW j \in StreamJobs, NEW n \in Nat
    PROVE  [f EXCEPT ![j] = n] \in [StreamJobs -> Nat]
  OBVIOUS

\* A client that gets the event of a job follows it, and every other job as
\* before; when the oldest event was dropped its job is dropped.
LEMMA DeliverKeeps ==
    ASSUME NEW row, StreamHolds(row), row.at \in {"subscribed", "live"},
           NEW j \in StreamJobs, ledger[j] \in Nat,
           ledger' = ledger, announced' = [announced EXCEPT ![j] = ledger[j]],
           announced \in [StreamJobs -> Nat],
           NEW new,
           new = [row EXCEPT !.queue = Put(row.queue, Event(j)),
                             !.dropped = (row.dropped \union
                                (IF Len(row.queue) = QueueSize THEN {row.queue[1].job} ELSE {}))
                                \ {j}]
    PROVE  StreamHolds(new)'
<1>0. Event(j) \in Events /\ Event(j).job = j /\ Event(j).version = ledger[j]
  BY DEF Event, Events
<1> DEFINE old == row.queue
           put == Put(old, Event(j))
<1>1. /\ row \in StreamRows /\ old \in Seq(Events) /\ Len(old) <= QueueSize
      /\ row.dropped \in SUBSET StreamJobs /\ Len(old) \in Nat
      /\ \A i \in 1..Len(old) : old[i] \in Events
  BY DEF StreamHolds, StreamRows
<1>2. /\ put \in Seq(Events) /\ Len(put) \in Nat \ {0} /\ Len(put) <= QueueSize
      /\ put[Len(put)] = Event(j)
      /\ Len(old) = QueueSize =>
           /\ Len(old) \in Nat \ {0} /\ old[1] \in Events
           /\ Len(put) = Len(old)
           /\ \A i \in 1..Len(old) : i < Len(old) => put[i] = old[i + 1]
      /\ Len(old) # QueueSize =>
           /\ Len(put) = Len(old) + 1
           /\ \A i \in 1..Len(old) : put[i] = old[i]
  BY <1>0, <1>1, PutQueue
<1> HIDE DEF old, put
<1>3. /\ new.queue = put /\ new.at = row.at /\ new.view = row.view
      /\ new.dropped = (row.dropped \union (IF Len(old) = QueueSize THEN {old[1].job} ELSE {}))
                       \ {j}
  BY <1>1 DEF StreamRows, old, put
<1>4. new.dropped \in SUBSET StreamJobs
  BY <1>1, <1>2, <1>3 DEF Events
<1>5. new \in StreamRows
  <2>1. new = [row EXCEPT !.queue = put, !.dropped = new.dropped]
    BY <1>3 DEF old, put
  <2>2. QED
    BY <1>1, <1>2, <1>4, <2>1 DEF StreamRows
<1>6. ASSUME NEW k \in StreamJobs \ new.dropped
      PROVE  Follows(new, k)'
  <2>1. CASE k = j
    <3>1. put[Len(put)].job = j /\ put[Len(put)].version = announced'[j]
      BY <1>0, <1>2
    <3>2. ASSUME NEW i \in 1..Len(put), i # Len(put)
          PROVE  ~(\A n \in 1..Len(put) : n > i => put[n].job # j)
      <4>1. Len(put) \in 1..Len(put) /\ Len(put) > i
        BY <1>2, <3>2
      <4>2. QED
        BY <3>1, <4>1
    <3>3. Len(put) \in 1..Len(put)
      BY <1>2
    <3>4. QED
      BY <1>3, <2>1, <3>1, <3>2, <3>3 DEF Follows
  <2>2. CASE k # j
    <3>1. announced'[k] = announced[k] /\ ledger'[k] = ledger[k]
      BY <2>2
    <3>2. k \notin row.dropped /\ (Len(old) = QueueSize => old[1].job # k)
      BY <1>3, <1>6, <2>2
    <3>3. Follows(row, k)
      BY <1>6, <3>2 DEF StreamHolds
    <3>4. put[Len(put)].job # k
      BY <1>0, <1>2, <2>2
    <3>5. CASE Len(old) = QueueSize
      <4>1. /\ Len(put) = Len(old) /\ Len(old) \in Nat \ {0}
            /\ \A i \in 1..Len(old) : i < Len(old) => put[i] = old[i + 1]
        BY <1>2, <3>5
      <4>2. ASSUME NEW i \in 1..Len(put), put[i].job = k,
                   \A n \in 1..Len(put) : n > i => put[n].job # k
            PROVE  put[i].version = announced'[k]
        <5>1. i < Len(old) /\ i + 1 \in 1..Len(old) /\ put[i] = old[i + 1]
          <6>1. i # Len(put)
            BY <3>4, <4>2
          <6>2. QED
            BY <4>1, <6>1
        <5>2. ASSUME NEW n \in 1..Len(old), n > i + 1
              PROVE  old[n].job # k
          <6>1. n - 1 \in 1..Len(put) /\ n - 1 > i /\ n - 1 < Len(old) /\ n = (n - 1) + 1
            BY <4>1, <5>2
          <6>2. put[n - 1] = old[n]
            BY <4>1, <6>1
          <6>3. QED
            BY <4>2, <6>1, <6>2
        <5>3. old[i + 1].job = k /\ old[i + 1].version = announced[k]
          BY <3>3, <4>2, <5>1, <5>2 DEF Follows, old
        <5>4. QED
          BY <3>1, <5>1, <5>3
      <4>3. ASSUME \A i \in 1..Len(put) : put[i].job # k
            PROVE  \A i \in 1..Len(old) : old[i].job # k
        <5> SUFFICES ASSUME NEW i \in 1..Len(old)
                     PROVE  old[i].job # k
          OBVIOUS
        <5>1. CASE i = 1
          BY <3>2, <3>5, <5>1
        <5>2. CASE i # 1
          <6>1. i - 1 \in 1..Len(put) /\ i - 1 < Len(old) /\ i = (i - 1) + 1
            BY <4>1, <5>2
          <6>2. QED
            BY <4>1, <4>3, <6>1
        <5>3. QED
          BY <5>1, <5>2
      <4>4. QED
        BY <1>3, <3>1, <3>3, <4>2, <4>3 DEF Follows, old
    <3>6. CASE Len(old) # QueueSize
      <4>1. /\ Len(put) = Len(old) + 1 /\ Len(old) \in Nat
            /\ \A i \in 1..Len(old) : put[i] = old[i] /\ i \in 1..Len(put) /\ i # Len(put)
        BY <1>1, <1>2, <3>6
      <4>2. ASSUME NEW i \in 1..Len(put), put[i].job = k,
                   \A n \in 1..Len(put) : n > i => put[n].job # k
            PROVE  put[i].version = announced'[k]
        <5>1. i \in 1..Len(old)
          <6>1. i # Len(put)
            BY <3>4, <4>2
          <6>2. QED
            BY <4>1, <6>1
        <5>2. \A n \in 1..Len(old) : n > i => old[n].job # k
          BY <4>1, <4>2
        <5>3. put[i] = old[i] /\ old[i].job = k
          BY <4>1, <4>2, <5>1
        <5>4. QED
          BY <3>1, <3>3, <5>1, <5>2, <5>3 DEF Follows, old
      <4>3. ASSUME \A i \in 1..Len(put) : put[i].job # k
            PROVE  \A i \in 1..Len(old) : old[i].job # k
        BY <4>1, <4>3
      <4>4. QED
        BY <1>3, <3>1, <3>3, <4>2, <4>3 DEF Follows, old
    <3>7. QED
      BY <3>5, <3>6
  <2>3. QED
    BY <2>1, <2>2
<1>7. QED
  BY <1>2, <1>3, <1>5, <1>6 DEF StreamHolds
\* A client that takes the next event follows every job as before.
LEMMA ReceiveKeeps ==
    ASSUME NEW row, StreamHolds(row), row.at = "live", row.queue # <<>>,
           UNCHANGED <<ledger, announced>>,
           NEW new,
           new = [row EXCEPT !.queue = Tail(row.queue),
                             !.view[Head(row.queue).job] = Head(row.queue).version]
    PROVE  StreamHolds(new)'
<1> DEFINE old == row.queue
           item == Head(old)
           rest == Tail(old)
<1>1. /\ row \in StreamRows /\ old \in Seq(Events) /\ Len(old) <= QueueSize
      /\ row.dropped \in SUBSET StreamJobs /\ row.view \in [StreamJobs -> Nat]
      /\ Len(old) \in Nat \ {0} /\ old # <<>>
  BY DEF StreamHolds, StreamRows
<1>2. /\ rest \in Seq(Events) /\ Len(rest) = Len(old) - 1
      /\ \A i \in 1..Len(rest) : rest[i] = old[i + 1]
      /\ item = old[1] /\ item \in Events
  BY <1>1
<1>3. item.job \in StreamJobs /\ item.version \in Nat
  BY <1>2 DEF Events
<1> HIDE DEF old, item, rest
<1>4. /\ new.queue = rest /\ new.at = "live" /\ new.dropped = row.dropped
      /\ new.view = [row.view EXCEPT ![item.job] = item.version]
  BY <1>1 DEF StreamRows, old, item, rest
<1>5. new \in StreamRows
  <2>1. new = [row EXCEPT !.queue = rest, !.view = new.view]
    BY <1>1, <1>4 DEF old, item, rest, StreamRows
  <2>2. new.view \in [StreamJobs -> Nat]
    <3>1. [row.view EXCEPT ![item.job] = item.version] \in [StreamJobs -> Nat]
      BY <1>1, <1>3, ViewUpdated
    <3>2. QED
      BY <1>4, <3>1
  <2>3. QED
    BY <1>1, <1>2, <2>1, <2>2 DEF StreamRows
<1>6. Len(rest) <= QueueSize
  BY <1>1, <1>2, BusAssumption
<1>7. ASSUME NEW k \in StreamJobs \ new.dropped
      PROVE  Follows(new, k)'
  <2>1. Follows(row, k)
    BY <1>4, <1>7 DEF StreamHolds
  <2>2. ASSUME NEW i \in 1..Len(rest), rest[i].job = k,
               \A n \in 1..Len(rest) : n > i => rest[n].job # k
        PROVE  rest[i].version = announced[k]
    <3>1. i + 1 \in 1..Len(old) /\ rest[i] = old[i + 1]
      BY <1>1, <1>2
    <3>2. ASSUME NEW n \in 1..Len(old), n > i + 1
          PROVE  old[n].job # k
      <4>1. n - 1 \in 1..Len(rest) /\ n - 1 > i /\ n = (n - 1) + 1
        BY <1>1, <1>2, <3>2
      <4>2. rest[n - 1] = old[n]
        BY <1>2, <4>1
      <4>3. QED
        BY <2>2, <4>1, <4>2
    <3>3. QED
      BY <2>1, <2>2, <3>1, <3>2 DEF Follows, old
  <2>3. ASSUME \A i \in 1..Len(rest) : rest[i].job # k
        PROVE  new.view[k] \in {announced[k], ledger[k]}
    <3>1. ASSUME NEW n \in 1..Len(old), n > 1
          PROVE  old[n].job # k
      <4>1. n - 1 \in 1..Len(rest) /\ n = (n - 1) + 1
        BY <1>1, <1>2, <3>1
      <4>2. rest[n - 1] = old[n]
        BY <1>2, <4>1
      <4>3. QED
        BY <2>3, <4>1, <4>2
    <3>2. CASE item.job = k
      <4>1. 1 \in 1..Len(old)
        BY <1>1
      <4>2. item.version = announced[k]
        BY <1>2, <2>1, <3>1, <3>2, <4>1 DEF Follows, old
      <4>3. new.view[k] = item.version
        BY <1>1, <1>3, <1>4, <3>2
      <4>4. QED
        BY <4>2, <4>3
    <3>3. CASE item.job # k
      <4>1. \A n \in 1..Len(old) : old[n].job # k
        <5> SUFFICES ASSUME NEW n \in 1..Len(old)
                     PROVE  old[n].job # k
          OBVIOUS
        <5>1. n = 1 \/ n > 1
          BY <1>1
        <5>2. QED
          BY <1>2, <3>1, <3>3, <5>1
      <4>2. row.view[k] \in {announced[k], ledger[k]}
        BY <2>1, <4>1 DEF Follows, old
      <4>3. new.view[k] = row.view[k]
        BY <1>1, <1>4, <3>3
      <4>4. QED
        BY <4>2, <4>3
    <3>4. QED
      BY <3>2, <3>3
  <2>4. QED
    BY <1>4, <2>2, <2>3 DEF Follows
<1>8. QED
  BY <1>4, <1>5, <1>6, <1>7 DEF StreamHolds

\* A request that has nothing has nothing to lose.
LEMMA NewHolds ==
    ASSUME NEW at \in {"asked", "accepted", "over"}, NEW row,
           row = [NewStream EXCEPT !.at = at]
    PROVE  StreamHolds(row)
<1>1. row = [at |-> at, queue |-> <<>>, view |-> NoVersion, dropped |-> {}]
  BY DEF NewStream
<1>2. row \in StreamRows
  <2>1. <<>> \in Seq(Events) /\ NoVersion \in [StreamJobs -> Nat] /\ {} \in SUBSET StreamJobs
    BY DEF NoVersion
  <2>2. /\ row.at \in {"asked", "accepted", "subscribed", "live", "over"}
        /\ row.queue \in Seq(Events) /\ row.view \in [StreamJobs -> Nat]
        /\ row.dropped \in SUBSET StreamJobs
    <3>1. row.at = at
      BY <1>1
    <3>2. row.queue = <<>> /\ row.view = NoVersion /\ row.dropped = {}
      BY <1>1
    <3>3. QED
      BY <2>1, <3>1, <3>2
  <2>3. row = [at |-> row.at, queue |-> row.queue, view |-> row.view, dropped |-> row.dropped]
    BY <1>1
  <2>4. QED
    BY <2>2, <2>3, Zenon DEF StreamRows
<1>3. Len(row.queue) <= QueueSize
  BY <1>1, BusAssumption
<1>4. QED
  BY <1>1, <1>2, <1>3 DEF StreamHolds

\* A commit of the ledger is no news until it is published.
LEMMA TransitionKeeps ==
    ASSUME BusInv, ~busClosed, NEW j \in StreamJobs, Transition(j)
    PROVE  BusInv'
<1>1. /\ announced[j] = ledger[j] /\ ledger' = [ledger EXCEPT ![j] = @ + 1]
      /\ UNCHANGED <<announced, stream, busClosed>>
      /\ ledger \in [StreamJobs -> Nat] /\ announced \in [StreamJobs -> Nat]
  BY DEF Transition, BusInv
<1>2. ledger' \in [StreamJobs -> Nat]
  BY <1>1
<1>3. ASSUME NEW row, StreamHolds(row)
      PROVE  StreamHolds(row)'
  <2>1. ASSUME NEW k \in StreamJobs, Follows(row, k)
        PROVE  Follows(row, k)'
    BY <1>1, <2>1 DEF Follows
  <2>2. QED
    BY <1>3, <2>1 DEF StreamHolds
<1>4. QED
  BY <1>1, <1>2, <1>3 DEF BusInv

\* Every step keeps the invariant.
LEMMA BusKept ==
    ASSUME BusInv, [BusNext]_busVars
    PROVE  BusInv'
<1> SUFFICES ASSUME ~busClosed'
             PROVE  BusInv'
  BY DEF BusInv
<1>1. CASE UNCHANGED busVars
  BY <1>1 DEF busVars, BusInv, StreamHolds, Follows
<1>2. ASSUME NEW j \in StreamJobs, Transition(j)
      PROVE  BusInv'
  <2>1. ~busClosed
    BY <1>2 DEF Transition
  <2>2. QED
    BY <1>2, <2>1, TransitionKeeps
<1>3. ASSUME NEW j \in StreamJobs, Publish(j)
      PROVE  BusInv'
  <2>1. /\ ~busClosed /\ UNCHANGED <<ledger, busClosed>>
        /\ announced' = [announced EXCEPT ![j] = ledger[j]]
        /\ stream' = [s \in Streams |-> IF s \in Subscribed THEN Deliver(s, j) ELSE stream[s]]
    BY <1>3 DEF Publish
  <2>2. ledger \in [StreamJobs -> Nat] /\ announced \in [StreamJobs -> Nat]
    BY <2>1 DEF BusInv
  <2>3. ASSUME NEW s \in Streams, NEW row, row = stream[s], NEW new, new = stream'[s]
        PROVE  StreamHolds(new)'
    <3>1. StreamHolds(row)
      BY <2>1, <2>3 DEF BusInv
    <3>2. CASE row.at \in {"subscribed", "live"}
      <4>1. s \in Subscribed
        BY <2>3, <3>2 DEF Subscribed
      <4>2. new = [row EXCEPT !.queue = Put(row.queue, Event(j)),
                              !.dropped = (row.dropped \union
                                 (IF Len(row.queue) = QueueSize THEN {row.queue[1].job} ELSE {}))
                                 \ {j}]
        BY <2>1, <2>3, <3>1, <4>1 DEF Deliver, Dropped, StreamHolds, StreamRows
      <4>3. QED
        BY <2>1, <2>2, <3>1, <3>2, <4>2, DeliverKeeps
    <3>3. CASE row.at \notin {"subscribed", "live"}
      <4>1. new = row
        BY <2>1, <2>3, <3>3 DEF Subscribed
      <4>2. QED
        BY <3>1, <3>3, <4>1 DEF StreamHolds
    <3>4. QED
      BY <3>2, <3>3
  <2>4. QED
    BY <2>1, <2>2, <2>3 DEF BusInv
<1>4. CASE Close
  BY <1>4 DEF Close, BusInv
<1>5. ASSUME NEW s \in Streams, StreamStep(s) \/ Disconnect(s)
      PROVE  BusInv'
  <2>1. /\ ~busClosed /\ UNCHANGED <<ledger, announced, busClosed>>
    BY <1>5 DEF StreamStep, Disconnect, Accept, Subscribe, Snapshot, Receive
  <2>2. /\ ledger \in [StreamJobs -> Nat] /\ announced \in [StreamJobs -> Nat]
        /\ DOMAIN stream = Streams /\ \A t \in Streams : StreamHolds(stream[t])
    BY <2>1 DEF BusInv
  <2>3. SUFFICES ASSUME NEW row, row = stream[s], NEW new, new = stream'[s]
                 PROVE  /\ StreamHolds(new)' /\ DOMAIN stream' = Streams
                        /\ \A t \in Streams \ {s} : stream'[t] = stream[t]
    <3>1. /\ DOMAIN stream' = Streams /\ StreamHolds(stream[s])'
          /\ \A t \in Streams \ {s} : stream'[t] = stream[t]
      BY <2>3
    <3>2. \A t \in Streams \ {s} : StreamHolds(stream[t])'
      <4> SUFFICES ASSUME NEW t \in Streams \ {s}
                   PROVE  StreamHolds(stream[t])'
        OBVIOUS
      <4>1. StreamHolds(stream[t]) /\ stream'[t] = stream[t]
        BY <2>2, <3>1
      <4>2. QED
        BY <2>1, <4>1 DEF StreamHolds, Follows
    <3>3. QED
      BY <2>1, <2>2, <3>1, <3>2 DEF BusInv
  <2>4. /\ DOMAIN stream' = Streams
        /\ \A t \in Streams \ {s} : stream'[t] = stream[t]
    BY <1>5, <2>2 DEF StreamStep, Disconnect, Accept, Subscribe, Snapshot, Receive, StreamGoes
  <2>5. StreamHolds(row) /\ row \in StreamRows
    BY <2>2, <2>3 DEF StreamHolds
  <2>6. CASE \/ stream[s].at = "asked" /\ \E at \in {"accepted", "over"} : StreamGoes(s, at)
             \/ stream[s].at = "accepted" /\ StreamGoes(s, "over")
    <3>1. PICK at \in {"accepted", "over"} : new = [row EXCEPT !.at = at]
      BY <2>2, <2>3, <2>6 DEF StreamGoes
    <3>2. new.at = at /\ new.queue = <<>> /\ new.dropped = {} /\ new \in StreamRows
      BY <2>3, <2>5, <2>6, <3>1 DEF StreamHolds, StreamRows
    <3>3. Len(new.queue) <= QueueSize
      BY <3>2, BusAssumption
    <3>4. StreamHolds(new)'
      BY <3>2, <3>3 DEF StreamHolds
    <3>5. QED
      BY <2>4, <3>4
  <2>7. CASE stream[s].at = "accepted" /\ StreamGoes(s, "subscribed")
    <3>1. new = [row EXCEPT !.at = "subscribed"]
      BY <2>2, <2>3, <2>7 DEF StreamGoes
    <3>2. new.at = "subscribed" /\ new.queue = <<>> /\ new \in StreamRows
      BY <2>3, <2>5, <2>7, <3>1 DEF StreamHolds, StreamRows
    <3>3. Len(new.queue) <= QueueSize /\ Len(new.queue) = 0
      BY <3>2, BusAssumption
    <3>4. \A k \in StreamJobs : Follows(new, k)'
      BY <3>2, <3>3 DEF Follows
    <3>5. StreamHolds(new)'
      BY <3>2, <3>3, <3>4 DEF StreamHolds
    <3>6. QED
      BY <2>4, <3>5
  <2>8. CASE Snapshot(s)
    <3>1. new = [row EXCEPT !.at = "live", !.view = ledger] /\ row.at = "subscribed"
      BY <2>2, <2>3, <2>8 DEF Snapshot
    <3>2. /\ new.at = "live" /\ new.queue = row.queue /\ new.dropped = row.dropped
          /\ new.view = ledger /\ new \in StreamRows
      BY <2>2, <2>5, <3>1 DEF StreamRows
    <3>3. ASSUME NEW k \in StreamJobs \ row.dropped
          PROVE  Follows(new, k)'
      <4>1. Follows(row, k)
        BY <2>5, <3>1, <3>3 DEF StreamHolds
      <4>2. QED
        BY <2>1, <3>2, <4>1 DEF Follows
    <3>4. StreamHolds(new)'
      BY <2>5, <3>2, <3>3 DEF StreamHolds
    <3>5. QED
      BY <2>4, <3>4
  <2>9. CASE Receive(s)
    <3>1. row.at = "live" /\ row.queue # <<>> /\ Head(row.queue) \in Events
      BY <2>3, <2>5, <2>9 DEF Receive, StreamRows
    <3>2. Head(row.queue).kind # "close"
      BY <3>1 DEF Events
    <3>3. new = [row EXCEPT !.queue = Tail(row.queue),
                            !.view[Head(row.queue).job] = Head(row.queue).version]
      <4> DEFINE item == Head(row.queue)
      <4>1. stream' = [stream EXCEPT ![s] =
                          IF item.kind = "close" THEN [NewStream EXCEPT !.at = "over"]
                          ELSE [row EXCEPT !.queue = Tail(row.queue),
                                           !.view[item.job] = item.version]]
        BY <2>3, <2>9 DEF Receive
      <4>2. QED
        BY <2>2, <2>3, <3>2, <4>1
    <3>4. StreamHolds(new)'
      BY <2>1, <2>5, <3>1, <3>3, ReceiveKeeps
    <3>5. QED
      BY <2>4, <3>4
  <2>10. CASE Disconnect(s)
    <3>1. new = [NewStream EXCEPT !.at = "over"]
      BY <2>2, <2>3, <2>10 DEF Disconnect
    <3>2. StreamHolds(new) /\ new.at = "over"
      BY <3>1, NewHolds DEF NewStream
    <3>3. StreamHolds(new)'
      BY <3>2 DEF StreamHolds
    <3>4. QED
      BY <2>4, <3>3
  <2>11. QED
    BY <1>5, <2>6, <2>7, <2>8, <2>9, <2>10 DEF StreamStep, Accept, Subscribe
<1>6. QED
  BY <1>1, <1>2, <1>3, <1>4, <1>5 DEF BusNext

\* A client that stays and keeps up sees every job as the ledger has it, up to
\* the events that were dropped to make room, and no subscriber holds more
\* than its room (job_events.py: publish, subscribe; routes/events.py).
THEOREM ClientsSeeLedger == BusSpec => []ClientSeesLedger
<1>1. BusInit => BusInv
  <2> SUFFICES ASSUME BusInit
               PROVE  BusInv
    OBVIOUS
  <2>1. /\ ledger \in [StreamJobs -> Nat] /\ announced \in [StreamJobs -> Nat]
        /\ DOMAIN stream = Streams
    BY DEF BusInit, NoVersion
  <2>2. \A s \in Streams : StreamHolds(stream[s])
    <3>1. NewStream = [NewStream EXCEPT !.at = "asked"]
      BY DEF NewStream
    <3>2. StreamHolds(NewStream)
      BY <3>1, NewHolds
    <3>3. QED
      BY <3>2 DEF BusInit
  <2>3. QED
    BY <2>1, <2>2 DEF BusInv
<1>2. BusInv /\ [BusNext]_busVars => BusInv'
  BY BusKept
<1>3. BusInv => ClientSeesLedger
  <2> SUFFICES ASSUME BusInv, ~busClosed, NEW s \in Subscribed
               PROVE  /\ Len(stream[s].queue) <= QueueSize
                      /\ stream[s].at = "live" /\ stream[s].queue = <<>> =>
                            \A j \in StreamJobs \ stream[s].dropped :
                                announced[j] = ledger[j] => stream[s].view[j] = ledger[j]
    BY DEF ClientSeesLedger
  <2>1. StreamHolds(stream[s]) /\ stream[s].at \in {"subscribed", "live"}
    BY DEF BusInv, Subscribed
  <2>2. ASSUME stream[s].at = "live", stream[s].queue = <<>>,
               NEW j \in StreamJobs \ stream[s].dropped, announced[j] = ledger[j]
        PROVE  stream[s].view[j] = ledger[j]
    <3>1. Follows(stream[s], j) /\ Len(stream[s].queue) = 0
      BY <2>1, <2>2 DEF StreamHolds
    <3>2. QED
      BY <2>2, <3>1 DEF Follows
  <2>3. QED
    BY <2>1, <2>2 DEF StreamHolds
<1>4. QED
  BY <1>1, <1>2, <1>3, PTL DEF BusSpec
-----------------------------------------------------------------------------
(***************************************************************************)
(* The sink of the observability log.                                      *)
(***************************************************************************)
Elems(seq) == {seq[i] : i \in DOMAIN seq}
Lost == (1..appended) \ (written \union Held)

WriterStates ==
    [at : {"get", "fill", "flush", "failed", "counting", "stopped"}, batch : Seq(Nat),
     stopping : BOOLEAN]

\* Rows are numbers that were given out.  While the oldest is taken out, the
\* one that waits for room is nowhere yet, so that the loss that was counted
\* for it stands until it is put in.
SinkInv ==
    /\ sinkQueue \in Seq(Nat) /\ appended \in Nat
    /\ lossCount \in Nat /\ overwritten \in Int /\ loaded \in [{"loop", "thread"} -> Nat]
    /\ writer \in WriterStates
    /\ \A row \in written \union Elems(sinkQueue) \union Elems(writer.batch) : row <= appended
    /\ written \subseteq Nat
    /\ producer \in {"full", "counting", "evict"} =>
          appended \in 1..appended /\ appended \notin written \union Elems(sinkQueue)
                                                        \union Elems(writer.batch)
    /\ Cardinality(Lost) <= lossCount + overwritten

\* The items of a queue after put and after get.
LEMMA ElemsOfQueue ==
    ASSUME NEW seq \in Seq(Nat)
    PROVE  /\ \A row \in Nat : /\ Append(seq, row) \in Seq(Nat)
                               /\ Elems(Append(seq, row)) = Elems(seq) \union {row}
           /\ seq # <<>> => /\ Tail(seq) \in Seq(Nat) /\ Head(seq) \in Nat
                            /\ Elems(seq) = Elems(Tail(seq)) \union {Head(seq)}
           /\ Elems(<<>>) = {} /\ Elems(seq) \subseteq Nat
<1>1. ASSUME NEW row \in Nat
      PROVE  /\ Append(seq, row) \in Seq(Nat)
             /\ Elems(Append(seq, row)) = Elems(seq) \union {row}
  <2>1. /\ Len(seq) \in Nat /\ Append(seq, row) \in Seq(Nat)
        /\ DOMAIN Append(seq, row) = 1..(Len(seq) + 1) /\ DOMAIN seq = 1..Len(seq)
        /\ \A i \in 1..Len(seq) : Append(seq, row)[i] = seq[i]
        /\ Append(seq, row)[Len(seq) + 1] = row
    OBVIOUS
  <2>2. Elems(Append(seq, row)) \subseteq Elems(seq) \union {row}
    BY <2>1 DEF Elems
  <2>3. Elems(seq) \subseteq Elems(Append(seq, row))
    <3>1. \A i \in 1..Len(seq) : i \in 1..(Len(seq) + 1)
      BY <2>1
    <3>2. QED
      BY <2>1, <3>1 DEF Elems
  <2>4. row \in Elems(Append(seq, row))
    <3>1. Len(seq) + 1 \in 1..(Len(seq) + 1)
      BY <2>1
    <3>2. QED
      BY <2>1, <3>1 DEF Elems
  <2>5. QED
    BY <2>1, <2>2, <2>3, <2>4
<1>2. ASSUME seq # <<>>
      PROVE  /\ Tail(seq) \in Seq(Nat) /\ Head(seq) \in Nat
             /\ Elems(seq) = Elems(Tail(seq)) \union {Head(seq)}
  <2>1. /\ Len(seq) \in Nat \ {0} /\ Tail(seq) \in Seq(Nat) /\ Head(seq) \in Nat
        /\ DOMAIN Tail(seq) = 1..(Len(seq) - 1) /\ DOMAIN seq = 1..Len(seq)
        /\ \A i \in 1..(Len(seq) - 1) : Tail(seq)[i] = seq[i + 1]
        /\ Head(seq) = seq[1]
    BY <1>2
  <2>2. Elems(Tail(seq)) \subseteq Elems(seq)
    <3>1. \A i \in 1..(Len(seq) - 1) : i + 1 \in 1..Len(seq)
      BY <2>1
    <3>2. QED
      BY <2>1, <3>1 DEF Elems
  <2>3. Head(seq) \in Elems(seq)
    <3>1. 1 \in 1..Len(seq)
      BY <2>1
    <3>2. QED
      BY <2>1, <3>1 DEF Elems
  <2>4. ASSUME NEW i \in 1..Len(seq)
        PROVE  seq[i] \in Elems(Tail(seq)) \union {Head(seq)}
    <3>1. CASE i = 1
      BY <2>1, <3>1
    <3>2. CASE i # 1
      <4>1. i - 1 \in 1..(Len(seq) - 1) /\ (i - 1) + 1 = i
        BY <2>1, <3>2
      <4>2. Tail(seq)[i - 1] = seq[i]
        BY <2>1, <4>1
      <4>3. QED
        BY <2>1, <4>1, <4>2 DEF Elems
    <3>3. QED
      BY <3>1, <3>2
  <2>5. Elems(seq) \subseteq Elems(Tail(seq)) \union {Head(seq)}
    BY <2>1, <2>4 DEF Elems
  <2>6. QED
    BY <2>1, <2>2, <2>3, <2>5
<1>3. Elems(<<>>) = {}
  BY DEF Elems
<1>4. Elems(seq) \subseteq Nat
  BY DEF Elems
<1>5. QED
  BY <1>1, <1>2, <1>3, <1>4

\* What is lost is finite, so its size is a number, and it grows by what is
\* added at most.
LEMMA LostGrows ==
    ASSUME SinkInv, NEW more, IsFiniteSet(more), NEW after \in SUBSET (Lost \union more)
    PROVE  /\ IsFiniteSet(Lost) /\ Cardinality(Lost) \in Nat /\ Cardinality(more) \in Nat
           /\ Cardinality(after) \in Nat
           /\ Cardinality(after) <= Cardinality(Lost) + Cardinality(more)
           /\ after \subseteq Lost => Cardinality(after) <= Cardinality(Lost)
<1>1. IsFiniteSet(Lost)
  <2>1. IsFiniteSet(1..appended)
    BY FS_Interval DEF SinkInv
  <2>2. Lost \in SUBSET (1..appended)
    BY DEF Lost
  <2>3. QED
    BY <2>1, <2>2, FS_Subset
<1> DEFINE lost == Lost
<1> HIDE DEF lost
<1>2. IsFiniteSet(lost)
  BY <1>1 DEF lost
<1>3. /\ IsFiniteSet(lost \union more)
      /\ Cardinality(lost \union more) =
            Cardinality(lost) + Cardinality(more) - Cardinality(lost \cap more)
  BY <1>2, FS_Union
<1>4. IsFiniteSet(lost \cap more)
  BY <1>2, FS_Intersection
<1>5. /\ Cardinality(lost) \in Nat /\ Cardinality(more) \in Nat
      /\ Cardinality(lost \cap more) \in Nat /\ Cardinality(lost \union more) \in Nat
  BY <1>2, <1>3, <1>4, FS_CardinalityType
<1>6. after \in SUBSET (lost \union more)
  BY DEF lost
<1>7. IsFiniteSet(after) /\ Cardinality(after) <= Cardinality(lost \union more)
  BY <1>3, <1>6, FS_Subset
<1>8. Cardinality(after) \in Nat
  BY <1>7, FS_CardinalityType
<1>9. after \subseteq lost => Cardinality(after) <= Cardinality(lost)
  BY <1>2, FS_Subset
<1>10. QED
  BY <1>2, <1>3, <1>5, <1>7, <1>8, <1>9 DEF lost

\* A step after which nothing more is lost keeps the count.
LEMMA NothingMoreLost ==
    ASSUME SinkInv, Lost' \subseteq Lost, UNCHANGED lossVars
    PROVE  Cardinality(Lost') <= lossCount' + overwritten'
<1>1. IsFiniteSet({})
  BY FS_EmptySet
<1>2. Lost' \in SUBSET (Lost \union {})
  OBVIOUS
<1>3. Cardinality(Lost') <= Cardinality(Lost) /\ Cardinality(Lost') \in Nat
      /\ Cardinality(Lost) \in Nat
  BY <1>1, <1>2, LostGrows
<1>4. QED
  BY <1>3 DEF SinkInv, lossVars

\* A store adds n to what was counted, in lossCount or in what was overwritten.
LEMMA StoreCounts ==
    ASSUME SinkInv, NEW side \in {"loop", "thread"}, NEW n \in Nat, Store(side, n)
    PROVE  /\ lossCount' \in Nat /\ overwritten' \in Int /\ loaded' = loaded
           /\ lossCount' + overwritten' = lossCount + overwritten + n
<1>1. loaded[side] \in Nat /\ lossCount \in Nat /\ overwritten \in Int
  BY DEF SinkInv, lossVars
<1>2. QED
  BY <1>1 DEF Store

\* The next batch is empty.
LEMMA NextEmpty ==
    ASSUME writer \in WriterStates, NextBatch
    PROVE  writer' \in WriterStates /\ Elems(writer'.batch) = {} /\ Elems(writer.batch)' = {}
<1>1. <<>> \in Seq(Nat)
  OBVIOUS
<1>2. writer' \in WriterStates /\ writer'.batch = <<>>
  BY <1>1 DEF NextBatch, WriterStates
<1>3. QED
  BY <1>2 DEF Elems

\* Every step keeps the invariant.
LEMMA SinkKept ==
    ASSUME SinkInv, [SinkNext]_sinkVars
    PROVE  SinkInv'
<1> DEFINE queue == sinkQueue
           batch == writer.batch
<1>0. /\ sinkQueue \in Seq(Nat) /\ appended \in Nat /\ lossCount \in Nat
      /\ overwritten \in Int /\ loaded \in [{"loop", "thread"} -> Nat] /\ writer \in WriterStates
      /\ batch \in Seq(Nat) /\ written \subseteq Nat
      /\ Elems(queue) \subseteq Nat /\ Elems(batch) \subseteq Nat
      /\ \A row \in written \union Elems(queue) \union Elems(batch) : row <= appended
      /\ Held = Elems(queue) \union Elems(batch)
                   \union (IF producer \in {"full", "counting", "put"} THEN {appended} ELSE {})
  BY ElemsOfQueue DEF SinkInv, WriterStates, Held, Batch, Elems
<1>h. Held' = Elems(queue)' \union Elems(batch)'
                 \union (IF producer' \in {"full", "counting", "put"} THEN {appended'} ELSE {})
  BY DEF Held, Batch, Elems
<1>e. Elems(queue)' = Elems(sinkQueue') /\ Elems(batch)' = Elems(writer'.batch)
  BY DEF Elems
<1>1. CASE UNCHANGED sinkVars
  <2>1. Lost' = Lost
    BY <1>1 DEF Lost, Held, Batch, sinkVars
  <2>2. QED
    BY <1>1, <2>1 DEF SinkInv, sinkVars, lossVars, Elems
<1>2. CASE Offer
  <2>1. /\ producer = "idle" /\ appended' = appended + 1 /\ UNCHANGED <<writer, written>>
        /\ \A row \in written \union Elems(queue) \union Elems(batch) :
              row # appended + 1 /\ row <= appended + 1
    BY <1>0, <1>2 DEF Offer
  <2>2. CASE Full
    <3>1. producer' = "full" /\ UNCHANGED <<sinkQueue, lossVars>>
      BY <1>2, <2>2 DEF Offer
    <3>2. /\ Elems(queue)' = Elems(queue) /\ Elems(batch)' = Elems(batch)
          /\ Held' = Held \union {appended + 1}
      BY <1>0, <1>h, <2>1, <3>1 DEF Elems
    <3>3. Lost' \subseteq Lost
      <4>1. 1..(appended + 1) = (1..appended) \union {appended + 1}
        BY <1>0
      <4>2. QED
        BY <2>1, <3>2, <4>1 DEF Lost
    <3>4. Cardinality(Lost') <= lossCount' + overwritten'
      BY <3>1, <3>3, NothingMoreLost
    <3>5. appended' \in 1..appended'
      BY <1>0, <2>1
    <3>6. QED
      BY <1>0, <2>1, <3>1, <3>2, <3>4, <3>5 DEF SinkInv, lossVars
  <2>3. CASE ~Full
    <3>1. sinkQueue' = Append(queue, appended + 1) /\ UNCHANGED <<producer, lossVars>>
      BY <1>2, <2>3 DEF Offer
    <3>2. Elems(queue)' = Elems(queue) \union {appended + 1} /\ sinkQueue' \in Seq(Nat)
      BY <1>0, <1>e, <3>1, ElemsOfQueue
    <3>3. Lost' \subseteq Lost
      <4>1. 1..(appended + 1) = (1..appended) \union {appended + 1}
        BY <1>0
      <4>2. Held' = Held \union {appended + 1}
        BY <1>0, <1>h, <2>1, <3>1, <3>2 DEF Elems
      <4>3. QED
        BY <2>1, <4>1, <4>2 DEF Lost
    <3>4. Cardinality(Lost') <= lossCount' + overwritten'
      BY <3>1, <3>3, NothingMoreLost
    <3>5. Elems(batch)' = Elems(batch)
      BY <2>1 DEF Elems
    <3>6. \A row \in (written \union Elems(queue) \union Elems(batch))' : row <= appended'
      BY <1>0, <2>1, <3>2, <3>5
    <3>7. QED
      BY <1>0, <2>1, <3>1, <3>2, <3>4, <3>6 DEF SinkInv, lossVars
  <2>4. QED
    BY <2>2, <2>3
<1>3. CASE Evict
  <2>1. /\ producer = "evict" /\ UNCHANGED <<writer, appended, written, lossVars>>
        /\ Elems(batch)' = Elems(batch)
    BY <1>3 DEF Evict, Elems
  <2>2. CASE sinkQueue = <<>>
    <3>1. producer' = "idle" /\ UNCHANGED sinkQueue
      BY <1>3, <2>2 DEF Evict
    <3>2. Elems(queue)' = Elems(queue)
      BY <3>1 DEF Elems
    <3>3. Held' = Held
      BY <1>0, <1>h, <2>1, <3>1, <3>2
    <3>4. Lost' \subseteq Lost
      BY <2>1, <3>3 DEF Lost
    <3>5. Cardinality(Lost') <= lossCount' + overwritten'
      BY <2>1, <3>4, NothingMoreLost
    <3>6. QED
      BY <1>0, <2>1, <3>1, <3>2, <3>5 DEF SinkInv, lossVars
  <2>3. CASE sinkQueue # <<>>
    <3>1. producer' = "put" /\ sinkQueue' = Tail(sinkQueue)
      BY <1>3, <2>3 DEF Evict
    <3>2. /\ sinkQueue' \in Seq(Nat) /\ Head(sinkQueue) \in Nat
          /\ Elems(queue) = Elems(queue)' \union {Head(sinkQueue)}
      BY <1>0, <1>e, <2>3, <3>1, ElemsOfQueue
    <3>3. Lost' \subseteq (Lost \ {appended}) \union {Head(sinkQueue)}
      BY <1>0, <1>h, <2>1, <3>1, <3>2 DEF Lost
    <3>4. appended \in Lost
      BY <1>0, <2>1 DEF SinkInv, Lost
    <3>5. Cardinality(Lost') <= Cardinality(Lost) /\ Cardinality(Lost) \in Nat
          /\ Cardinality(Lost') \in Nat
      <4> DEFINE lost == Lost
                 rest == lost \ {appended}
                 after == Lost'
      <4>1. IsFiniteSet(lost)
        BY <3>4, FS_Singleton, LostGrows
      <4> HIDE DEF lost, after
      <4>2. IsFiniteSet(rest) /\ Cardinality(rest) = Cardinality(lost) - 1
        BY <3>4, <4>1, FS_RemoveElement DEF lost
      <4> HIDE DEF rest
      <4>3. IsFiniteSet(rest \union {Head(sinkQueue)})
            /\ Cardinality(rest \union {Head(sinkQueue)}) <= Cardinality(rest) + 1
            /\ Cardinality(rest) \in Nat
        <5>1. Cardinality(rest) \in Nat
          BY <4>2, FS_CardinalityType
        <5>2. /\ IsFiniteSet(rest \union {Head(sinkQueue)})
              /\ Cardinality(rest \union {Head(sinkQueue)}) =
                    IF Head(sinkQueue) \in rest THEN Cardinality(rest) ELSE Cardinality(rest) + 1
          BY <4>2, FS_AddElement
        <5>3. QED
          BY <5>1, <5>2
      <4>4. after \in SUBSET (rest \union {Head(sinkQueue)})
        BY <3>3 DEF after, rest, lost
      <4>5. IsFiniteSet(after)
            /\ Cardinality(after) <= Cardinality(rest \union {Head(sinkQueue)})
        BY <4>3, <4>4, FS_Subset
      <4>6. Cardinality(after) \in Nat /\ Cardinality(rest \union {Head(sinkQueue)}) \in Nat
            /\ Cardinality(lost) \in Nat
        BY <4>1, <4>3, <4>5, FS_CardinalityType
      <4>7. QED
        BY <4>2, <4>3, <4>5, <4>6 DEF lost, after
    <3>6. Cardinality(Lost') <= lossCount' + overwritten'
      BY <1>0, <2>1, <3>5 DEF SinkInv, lossVars
    <3>7. QED
      BY <1>0, <2>1, <3>1, <3>2, <3>6 DEF SinkInv, lossVars
  <2>4. QED
    BY <2>2, <2>3
<1>4. CASE PutNewest
  <2>1. /\ producer = "put" /\ producer' = "idle" /\ sinkQueue' = Append(sinkQueue, appended)
        /\ UNCHANGED <<writer, appended, written, lossVars>> /\ Elems(batch)' = Elems(batch)
    BY <1>4 DEF PutNewest, Elems
  <2>2. sinkQueue' \in Seq(Nat) /\ Elems(queue)' = Elems(queue) \union {appended}
    BY <1>0, <1>e, <2>1, ElemsOfQueue
  <2>3. Lost' \subseteq Lost
    BY <1>0, <1>h, <2>1, <2>2 DEF Lost
  <2>4. Cardinality(Lost') <= lossCount' + overwritten'
    BY <2>1, <2>3, NothingMoreLost
  <2>5. QED
    BY <1>0, <2>1, <2>2, <2>4 DEF SinkInv, lossVars
<1>5. CASE CloseSink
  <2>1. /\ producer \in {"idle", "closing"} /\ producer' \in {"closing", "closed"}
        /\ UNCHANGED <<writer, appended, written, lossVars>> /\ Elems(batch)' = Elems(batch)
    BY <1>5 DEF CloseSink, Elems
  <2>2. /\ sinkQueue' \in Seq(Nat)
        /\ Elems(queue)' = Elems(queue) \/ Elems(queue)' = Elems(queue) \union {Stop}
    <3>1. sinkQueue' = sinkQueue \/ (sinkQueue' = Append(sinkQueue, Stop) /\ Stop \in Nat)
      BY <1>5 DEF CloseSink, Stop
    <3>2. Stop \in Nat =>
             /\ Append(sinkQueue, Stop) \in Seq(Nat)
             /\ Elems(Append(sinkQueue, Stop)) = Elems(sinkQueue) \union {Stop}
      BY <1>0, ElemsOfQueue
    <3>3. QED
      BY <1>0, <1>e, <3>1, <3>2
  <2>3. Lost' \subseteq Lost
    BY <1>0, <1>h, <2>1, <2>2 DEF Lost
  <2>4. Cardinality(Lost') <= lossCount' + overwritten'
    BY <2>1, <2>3, NothingMoreLost
  <2>5. QED
    BY <1>0, <2>1, <2>2, <2>4 DEF SinkInv, lossVars, Stop
<1>6. CASE Get
  <2>1. /\ sinkQueue # <<>> /\ sinkQueue' = Tail(sinkQueue)
        /\ UNCHANGED <<producer, appended, written, lossVars>>
    BY <1>6 DEF Get
  <2>2. /\ sinkQueue' \in Seq(Nat) /\ Head(sinkQueue) \in Nat
        /\ Elems(queue) = Elems(queue)' \union {Head(sinkQueue)}
    BY <1>0, <1>e, <2>1, ElemsOfQueue
  <2>3. writer' \in WriterStates
        /\ Elems(batch)' = Elems(batch) \union (IF Head(sinkQueue) # Stop THEN {Head(sinkQueue)}
                                                                         ELSE {})
    <3>1. CASE Head(sinkQueue) # Stop
      <4>1. writer' = [writer EXCEPT !.at = "fill", !.batch = Append(batch, Head(sinkQueue))]
        BY <1>6, <3>1 DEF Get
      <4>2. /\ Append(batch, Head(sinkQueue)) \in Seq(Nat)
            /\ Elems(Append(batch, Head(sinkQueue))) = Elems(batch) \union {Head(sinkQueue)}
        BY <1>0, <2>2, ElemsOfQueue
      <4>3. writer'.batch = Append(batch, Head(sinkQueue))
        BY <1>0, <4>1
      <4>4. QED
        BY <1>0, <1>e, <3>1, <4>1, <4>2, <4>3 DEF WriterStates
    <3>2. CASE Head(sinkQueue) = Stop
      BY <1>0, <1>e, <1>6, <3>2 DEF Get, WriterStates
    <3>3. QED
      BY <3>1, <3>2
  <2>4. Lost' \subseteq Lost
    BY <1>0, <1>h, <2>1, <2>2, <2>3 DEF Lost, Stop
  <2>5. Cardinality(Lost') <= lossCount' + overwritten'
    BY <2>1, <2>4, NothingMoreLost
  <2>6. \A row \in (written \union Elems(queue) \union Elems(batch))' :
            row \in written \union Elems(queue) \union Elems(batch)
    BY <2>1, <2>2, <2>3
  <2>7. QED
    BY <1>0, <2>1, <2>2, <2>3, <2>5, <2>6 DEF SinkInv, lossVars
<1>7. CASE EndBatch
  <2>1. /\ UNCHANGED <<sinkQueue, producer, appended, written, lossVars>>
        /\ writer' \in WriterStates /\ writer'.batch = writer.batch
    BY <1>0, <1>7 DEF EndBatch, WriterStates
  <2>2. Elems(queue)' = Elems(queue) /\ Elems(batch)' = Elems(batch)
    BY <2>1 DEF Elems
  <2>3. Lost' \subseteq Lost
    BY <1>0, <1>h, <2>1, <2>2 DEF Lost
  <2>4. Cardinality(Lost') <= lossCount' + overwritten'
    BY <2>1, <2>3, NothingMoreLost
  <2>5. QED
    BY <1>0, <2>1, <2>2, <2>4 DEF SinkInv, lossVars
<1>8. CASE Flush
  <2>1. /\ UNCHANGED <<sinkQueue, producer, appended, lossVars>> /\ Elems(queue)' = Elems(queue)
        /\ \/ NextBatch /\ written' = written \union Elems(batch)
           \/ /\ \E some \in SUBSET Elems(batch) : written' = written \union some
              /\ writer' = [writer EXCEPT !.at = "failed"]
    BY <1>8 DEF Flush, Batch, Elems
  <2>2. CASE NextBatch /\ written' = written \union Elems(batch)
    <3>1. writer' \in WriterStates /\ Elems(batch)' = {}
      BY <1>0, <2>2, NextEmpty
    <3>2. Lost' \subseteq Lost
      BY <1>0, <1>h, <2>1, <2>2, <3>1 DEF Lost
    <3>3. Cardinality(Lost') <= lossCount' + overwritten'
      BY <2>1, <3>2, NothingMoreLost
    <3>4. QED
      BY <1>0, <2>1, <2>2, <3>1, <3>3 DEF SinkInv, lossVars
  <2>3. CASE /\ \E some \in SUBSET Elems(batch) : written' = written \union some
             /\ writer' = [writer EXCEPT !.at = "failed"]
    <3>1. writer' \in WriterStates /\ writer'.batch = batch
      BY <1>0, <2>3 DEF WriterStates
    <3>2. Elems(batch)' = Elems(batch)
      BY <3>1 DEF Elems
    <3>3. Lost' \subseteq Lost
      BY <1>0, <1>h, <2>1, <2>3, <3>2 DEF Lost
    <3>4. Cardinality(Lost') <= lossCount' + overwritten'
      BY <2>1, <3>3, NothingMoreLost
    <3>5. /\ \A row \in (written \union Elems(queue) \union Elems(batch))' :
                row \in written \union Elems(queue) \union Elems(batch)
          /\ written' \subseteq Nat
      BY <1>0, <2>1, <2>3, <3>2
    <3>6. QED
      BY <1>0, <2>1, <3>1, <3>2, <3>4, <3>5 DEF SinkInv, lossVars
  <2>4. QED
    BY <2>1, <2>2, <2>3
<1>9. CASE CountFull
  <2>1. /\ UNCHANGED <<sinkQueue, writer, appended, written>>
        /\ Elems(queue)' = Elems(queue) /\ Elems(batch)' = Elems(batch)
        /\ \/ producer = "full" /\ producer' = "counting" /\ Load("loop")
           \/ producer = "counting" /\ producer' = "evict" /\ Store("loop", 1)
    BY <1>9 DEF CountFull, Elems
  <2>2. CASE producer = "full" /\ producer' = "counting" /\ Load("loop")
    <3>1. /\ lossCount' = lossCount /\ overwritten' = overwritten
          /\ loaded' \in [{"loop", "thread"} -> Nat]
      BY <1>0, <2>2 DEF Load
    <3>2. Lost' = Lost
      BY <1>0, <1>h, <2>1, <2>2 DEF Lost
    <3>3. QED
      BY <1>0, <2>1, <2>2, <3>1, <3>2 DEF SinkInv
  <2>3. CASE producer = "counting" /\ producer' = "evict" /\ Store("loop", 1)
    <3>1. /\ lossCount' \in Nat /\ overwritten' \in Int /\ loaded' = loaded
          /\ lossCount' + overwritten' = lossCount + overwritten + 1
      BY <2>3, StoreCounts
    <3>2. Lost' \subseteq Lost \union {appended}
      BY <1>0, <1>h, <2>1, <2>3 DEF Lost
    <3>3. IsFiniteSet({appended}) /\ Cardinality({appended}) = 1
      BY FS_Singleton
    <3>4. /\ Cardinality(Lost') <= Cardinality(Lost) + 1
          /\ Cardinality(Lost') \in Nat /\ Cardinality(Lost) \in Nat
      BY <3>2, <3>3, LostGrows
    <3>5. Cardinality(Lost') <= lossCount' + overwritten'
      <4> DEFINE before == Cardinality(Lost) after == Cardinality(Lost')
      <4>1. before <= lossCount + overwritten /\ lossCount \in Nat /\ overwritten \in Int
        BY DEF SinkInv
      <4>2. after <= before + 1 /\ after \in Nat /\ before \in Nat
        BY <3>4
      <4> HIDE DEF before, after
      <4>3. after <= lossCount + overwritten + 1
        BY <4>1, <4>2
      <4>4. after <= lossCount' + overwritten'
        BY <3>1, <4>3
      <4>5. QED
        BY <4>4 DEF after
    <3>6. QED
      BY <1>0, <2>1, <2>3, <3>1, <3>5 DEF SinkInv
  <2>4. QED
    BY <2>1, <2>2, <2>3
<1>10. CASE CountBatch
  <2>1. /\ UNCHANGED <<sinkQueue, producer, appended, written>> /\ Elems(queue)' = Elems(queue)
        /\ \/ Load("thread") /\ writer' = [writer EXCEPT !.at = "counting"]
           \/ Store("thread", Cardinality(Elems(batch))) /\ NextBatch
    BY <1>10 DEF CountBatch, Batch, Elems
  <2>2. CASE Load("thread") /\ writer' = [writer EXCEPT !.at = "counting"]
    <3>1. /\ lossCount' = lossCount /\ overwritten' = overwritten
          /\ loaded' \in [{"loop", "thread"} -> Nat]
      BY <1>0, <2>2 DEF Load
    <3>2. writer' \in WriterStates /\ writer'.batch = batch
      BY <1>0, <2>2 DEF WriterStates
    <3>3. Elems(batch)' = Elems(batch)
      BY <3>2 DEF Elems
    <3>4. Lost' = Lost
      BY <1>0, <1>h, <2>1, <3>3 DEF Lost
    <3>5. QED
      BY <1>0, <2>1, <3>1, <3>2, <3>3, <3>4 DEF SinkInv
  <2>3. CASE Store("thread", Cardinality(Elems(batch))) /\ NextBatch
    <3>1. IsFiniteSet(Elems(batch)) /\ Cardinality(Elems(batch)) \in Nat
      BY <1>0, FS_BoundedSetOfNaturals, FS_CardinalityType
    <3>2. /\ lossCount' \in Nat /\ overwritten' \in Int /\ loaded' = loaded
          /\ lossCount' + overwritten' = lossCount + overwritten + Cardinality(Elems(batch))
      <4> DEFINE n == Cardinality(Elems(batch))
      <4>1. n \in Nat /\ Store("thread", n)
        BY <2>3, <3>1
      <4> HIDE DEF n
      <4>2. /\ lossCount' \in Nat /\ overwritten' \in Int /\ loaded' = loaded
            /\ lossCount' + overwritten' = lossCount + overwritten + n
        BY <4>1, StoreCounts
      <4>3. QED
        BY <4>2 DEF n
    <3>3. writer' \in WriterStates /\ Elems(batch)' = {}
      BY <1>0, <2>3, NextEmpty
    <3>4. Lost' \subseteq Lost \union Elems(batch)
      BY <1>0, <1>h, <2>1, <3>3 DEF Lost
    <3>5. /\ Cardinality(Lost') <= Cardinality(Lost) + Cardinality(Elems(batch))
          /\ Cardinality(Lost') \in Nat /\ Cardinality(Lost) \in Nat
      BY <3>1, <3>4, LostGrows
    <3>6. Cardinality(Lost') <= lossCount' + overwritten'
      BY <1>0, <3>1, <3>2, <3>5 DEF SinkInv
    <3>7. QED
      BY <1>0, <2>1, <3>2, <3>3, <3>6 DEF SinkInv
  <2>4. QED
    BY <2>1, <2>2, <2>3
<1>11. QED
  BY <1>1, <1>2, <1>3, <1>4, <1>5, <1>6, <1>7, <1>8, <1>9, <1>10 DEF SinkNext, WriterStep

\* No row is lost in silence, however append, close and the thread interleave
\* (duckdb_sink.py: append, _writer_loop, _flush): the rows that are neither
\* written nor held are no more than `dropped` and what the unlocked additions of
\* the two sides took back from it.
THEOREM SinkCountsLosses == SinkSpec => []LossIsCounted
<1>1. SinkInit => SinkInv
  <2> SUFFICES ASSUME SinkInit
               PROVE  SinkInv
    OBVIOUS
  <2>1. /\ sinkQueue = <<>> /\ writer.batch = <<>> /\ writer.at = "get" /\ appended = 0
        /\ written = {} /\ lossCount = 0 /\ overwritten = 0 /\ producer = "idle"
        /\ writer = [at |-> "get", batch |-> <<>>, stopping |-> FALSE]
    BY DEF SinkInit
  <2>2. <<>> \in Seq(Nat)
    OBVIOUS
  <2>3. Elems(<<>>) = {}
    BY DEF Elems
  <2>4. 1..appended = {}
    BY <2>1
  <2>5. Lost = {}
    BY <2>4 DEF Lost
  <2>6. Cardinality(Lost) = 0
    BY <2>5, FS_EmptySet
  <2>7. writer \in WriterStates /\ loaded \in [{"loop", "thread"} -> Nat]
    BY <2>1, <2>2 DEF WriterStates, SinkInit
  <2>8. QED
    BY <2>1, <2>2, <2>3, <2>6, <2>7 DEF SinkInv
<1>2. SinkInv /\ [SinkNext]_sinkVars => SinkInv'
  BY SinkKept
<1>3. SinkInv => LossIsCounted
  BY DEF SinkInv, LossIsCounted, Lost
<1>4. QED
  BY <1>1, <1>2, <1>3, PTL DEF SinkSpec
-----------------------------------------------------------------------------
(***************************************************************************)
(* The replay of the query log.                                            *)
(***************************************************************************)
Replays == [status : {"none", "pending", "running", "done", "dead"}, attempts : Nat,
            result : {"none", "report", "error"}]
Results == [at : {"put", "end"}, kind : {"replay"}, result : {"report", "error"}]

\* A replay is made while its job runs, and what is stored when it ends is its
\* own result, not that of an attempt before it.
ReplayInv ==
    /\ replay \in Replays
    /\ reporting.at \in {"runs", "arms", "put", "end"}
         \/ (reporting.at = "labels" /\ reporting.kind = "replay") => replay.status = "running"
    /\ reporting.at \in {"runs", "arms"} => reporting.kind = "replay"
    /\ reporting.at \in {"put", "end"} => reporting \in Results
    /\ reporting.at = "end" => reporting.result = replay.result
    /\ DoneHasReport

\* A failed attempt is tried again, or the job is dead.
LEMMA AttemptFails ==
    ASSUME replay \in Replays, AttemptFailed
    PROVE  replay' \in Replays /\ replay'.status \in {"pending", "dead"}
<1>1. PICK n : n = replay.attempts + 1
  OBVIOUS
<1>2. PICK status \in {"pending", "dead"} :
         replay' = [replay EXCEPT !.attempts = n, !.status = status]
  BY <1>1 DEF AttemptFailed
<1>3. n \in Nat
  BY <1>1 DEF Replays
<1>4. QED
  BY <1>2, <1>3 DEF Replays

\* Every step keeps the invariant.
LEMMA ReplayKept ==
    ASSUME ReplayInv, [LogNext]_logVars
    PROVE  ReplayInv'
<1> USE DEF ReplayInv, DoneHasReport
<1>1. CASE UNCHANGED logVars
  BY <1>1 DEF logVars
<1>2. ASSUME UNCHANGED <<reporting, replay>>
      PROVE  ReplayInv'
  BY <1>2
<1>3. CASE LogQuery \/ WriteBatch
           \/ \E q \in Queries, p \in LabelPages, word \in {"yes", "no"} : LogFeedback(q, p, word)
  BY <1>2, <1>3 DEF LogQuery, WriteBatch, LogFeedback, AppendRow
<1>4. CASE \/ \E ask \in ScoreAsks : AskScore(ask)
           \/ \E ask \in TraceAsks : AskTraces(ask)
  <2>1. UNCHANGED replay /\ reporting'.at = "labels" /\ reporting'.kind \in {"score", "traces"}
    <3>1. ASSUME NEW ask \in ScoreAsks, AskScore(ask)
          PROVE  UNCHANGED replay /\ \E runs :
                    reporting' = [at |-> "labels", kind |-> "score", runs |-> runs]
      BY <3>1, Zenon DEF AskScore
    <3>2. ASSUME NEW ask \in TraceAsks, AskTraces(ask)
          PROVE  UNCHANGED replay /\ \E runs :
                    reporting' = [at |-> "labels", kind |-> "traces", runs |-> runs]
      BY <3>2, Zenon DEF AskTraces
    <3>3. QED
      BY <1>4, <3>1, <3>2
  <2>2. QED
    BY <2>1
<1>5. CASE ReadLabels
  <2>1. CASE reporting.kind \in {"score", "traces"}
    <3>1. UNCHANGED replay /\ reporting'.at = "answer"
      BY <1>5, <2>1 DEF ReadLabels
    <3>2. QED
      BY <3>1
  <2>2. CASE reporting.kind = "replay"
    <3>1. /\ UNCHANGED replay /\ reporting'.at = "arms" /\ reporting'.kind = "replay"
          /\ reporting.at = "labels"
      BY <1>5, <2>2 DEF ReadLabels
    <3>2. QED
      BY <2>2, <3>1
  <2>3. QED
    BY <1>5, <2>1, <2>2 DEF ReadLabels
<1>6. CASE Answer
  BY <1>6 DEF Answer, NoReport
<1>7. CASE ReportFails
  <2>1. UNCHANGED replay /\ reporting.at \in {"runs", "labels", "arms"}
    BY <1>7 DEF ReportFails
  <2>2. CASE reporting.kind = "replay"
    <3>1. reporting' = [at |-> "put", kind |-> "replay", result |-> "error"]
      BY <1>7, <2>2 DEF ReportFails
    <3>2. replay.status = "running"
      BY <2>1, <2>2
    <3>3. QED
      BY <2>1, <3>1, <3>2 DEF Results
  <2>3. CASE reporting.kind # "replay"
    BY <1>7, <2>1, <2>3 DEF ReportFails, NoReport
  <2>4. QED
    BY <2>2, <2>3
<1>8. CASE EnqueueReplay
  <2>1. /\ replay.status = "none" /\ replay' = [replay EXCEPT !.status = "pending"]
        /\ UNCHANGED reporting
    BY <1>8 DEF EnqueueReplay
  <2>2. replay' \in Replays /\ replay'.status = "pending" /\ replay'.result = replay.result
    BY <2>1 DEF Replays
  <2>3. QED
    BY <2>1, <2>2
<1>9. CASE BeginReplay
  <2>1. /\ replay' = [replay EXCEPT !.status = "running"]
        /\ reporting' = [at |-> "runs", kind |-> "replay"]
    BY <1>9 DEF BeginReplay
  <2>2. replay' \in Replays /\ replay'.status = "running"
    BY <2>1 DEF Replays
  <2>3. QED
    BY <2>1, <2>2
<1>10. CASE ReplayRuns
  <2>1. /\ UNCHANGED replay /\ reporting.at = "runs"
        /\ reporting'.at = "labels" /\ reporting'.kind = "replay"
    BY <1>10 DEF ReplayRuns
  <2>2. QED
    BY <2>1
<1>11. CASE ReplayArms
  <2>1. UNCHANGED replay /\ reporting.at = "arms"
    BY <1>11 DEF ReplayArms
  <2>2. PICK result \in {"report", "error"} :
          reporting' = [at |-> "put", kind |-> "replay", result |-> result]
    BY <1>11 DEF ReplayArms
  <2>3. QED
    BY <2>1, <2>2 DEF Results
<1>12. CASE PutResult
  <2>1. /\ reporting \in Results /\ replay.status = "running"
        /\ replay' = [replay EXCEPT !.result = reporting.result]
        /\ reporting' = [reporting EXCEPT !.at = "end"]
    BY <1>12 DEF PutResult
  <2>2. /\ replay' \in Replays /\ replay'.status = "running"
        /\ replay'.result = reporting.result
    BY <2>1 DEF Replays, Results
  <2>3. reporting' \in Results /\ reporting'.at = "end" /\ reporting'.result = reporting.result
    BY <2>1 DEF Results
  <2>4. QED
    BY <2>2, <2>3
<1>13. CASE EndReplay
  <2>1. reporting' = NoReport /\ reporting.result = replay.result
    BY <1>13 DEF EndReplay
  <2>2. CASE reporting.result = "report"
    <3>1. replay' = [replay EXCEPT !.status = "done"]
      BY <1>13, <2>2 DEF EndReplay
    <3>2. replay' \in Replays /\ replay'.result = "report"
      BY <2>1, <2>2, <3>1 DEF Replays
    <3>3. QED
      BY <2>1, <3>2 DEF NoReport
  <2>3. CASE reporting.result # "report"
    <3>1. AttemptFailed
      BY <1>13, <2>3 DEF EndReplay
    <3>2. replay' \in Replays /\ replay'.status \in {"pending", "dead"}
      BY <3>1, AttemptFails
    <3>3. QED
      BY <2>1, <3>2 DEF NoReport
  <2>4. QED
    BY <2>2, <2>3
<1>14. CASE ReplayCancelled
  <2>1. AttemptFailed /\ reporting' = NoReport
    BY <1>14 DEF ReplayCancelled
  <2>2. replay' \in Replays /\ replay'.status \in {"pending", "dead"}
    BY <2>1, AttemptFails
  <2>3. QED
    BY <2>1, <2>2 DEF NoReport
<1>15. CASE RetryReplay
  <2>1. /\ replay.status = "dead" /\ UNCHANGED reporting
        /\ replay' = [replay EXCEPT !.status = "pending", !.attempts = 0]
    BY <1>15 DEF RetryReplay
  <2>2. replay' \in Replays /\ replay'.status = "pending" /\ replay'.result = replay.result
    BY <2>1 DEF Replays
  <2>3. QED
    BY <2>1, <2>2
<1>16. CASE LogCrash
  <2>1. reporting' = NoReport
    BY <1>16 DEF LogCrash
  <2>2. replay' = [replay EXCEPT !.status = IF @ = "running" THEN "pending" ELSE @]
    BY <1>16 DEF LogCrash
  <2>3. /\ replay' \in Replays /\ replay'.result = replay.result
        /\ replay'.status = "done" => replay.status = "done"
    BY <2>2 DEF Replays
  <2>4. QED
    BY <2>1, <2>3 DEF NoReport
<1>17. QED
  BY <1>1, <1>3, <1>4, <1>5, <1>6, <1>7, <1>8, <1>9, <1>10, <1>11, <1>12, <1>13, <1>14, <1>15,
     <1>16 DEF LogNext

\* A replay that is done has its report, whichever of its attempts failed,
\* were cancelled or died before (admin_eval.py, durable_queue.py:248-272).
THEOREM DoneReplayHasReport == LogSpec => []DoneHasReport
<1>1. LogInit => ReplayInv
  BY DEF LogInit, ReplayInv, Replays, NoReport, DoneHasReport
<1>2. ReplayInv /\ [LogNext]_logVars => ReplayInv'
  BY ReplayKept
<1>3. ReplayInv => DoneHasReport
  BY DEF ReplayInv
<1>4. QED
  BY <1>1, <1>2, <1>3, PTL DEF LogSpec

(***************************************************************************)
(* The history of a counter.                                               *)
(***************************************************************************)

\* What a sample says of a later one of the same counter: in one life of the
\* process both counts rise together, and in another the counter has counted
\* no more than came since.
Precedes(a, b) ==
    /\ a.ts <= b.ts /\ a.total <= b.total /\ a.life <= b.life
    /\ IF a.life = b.life THEN a.value + b.total = b.value + a.total
       ELSE b.value + a.total <= b.total

Moments == [ts : 0..HistoryEnd, value : Nat, total : Nat, life : Nat]
Present == [ts |-> moment, value |-> counter, total |-> total, life |-> life]

\* Samples are taken of a counter that goes on: each follows from those
\* before it, and the counter from all of them.
HistoryInv ==
    /\ Present \in Moments /\ due \in Nat
    /\ samples \in Seq(Moments)
    /\ \A i, j \in DOMAIN samples : i <= j => Precedes(samples[i], samples[j])
    /\ \A i \in DOMAIN samples : Precedes(samples[i], Present)

\* One more sample keeps the order.
LEMMA AppendPrecedes ==
    ASSUME NEW s \in Seq(Moments), \A i, j \in DOMAIN s : i <= j => Precedes(s[i], s[j]),
           NEW b \in Moments, \A i \in DOMAIN s : Precedes(s[i], b)
    PROVE  /\ Append(s, b) \in Seq(Moments)
           /\ \A i, j \in DOMAIN Append(s, b) : i <= j => Precedes(Append(s, b)[i], Append(s, b)[j])
           /\ \A i \in DOMAIN Append(s, b) : Precedes(Append(s, b)[i], b)
<1>1. Precedes(b, b)
  BY DEF Precedes, Moments
<1>2. Append(s, b) \in Seq(Moments) /\ DOMAIN Append(s, b) = 1..Len(s) + 1 /\ DOMAIN s = 1..Len(s) /\ Len(s) \in Nat
  OBVIOUS
<1>3. \A i \in 1..Len(s) + 1 : Append(s, b)[i] = IF i \in 1..Len(s) THEN s[i] ELSE b
  OBVIOUS
<1>4. \A i \in 1..Len(s) + 1 : Precedes(Append(s, b)[i], b)
  BY <1>1, <1>2, <1>3
<1>5. ASSUME NEW i \in 1..Len(s) + 1, NEW j \in 1..Len(s) + 1, i <= j
      PROVE  Precedes(Append(s, b)[i], Append(s, b)[j])
  <2>1. CASE j \in 1..Len(s)
    BY <1>2, <1>3, <1>5, <2>1
  <2>2. CASE j \notin 1..Len(s)
    BY <1>3, <1>4, <2>2
  <2>3. QED
    BY <2>1, <2>2
<1>6. QED
  BY <1>2, <1>4, <1>5

\* Counts that rise together stay apart as they are.
LEMMA CountedTogether ==
    \A v, w, x, y \in Nat : v + x = y + w => v + (x + 1) = (y + 1) + w
  OBVIOUS

\* HistoryInv is inductive.
LEMMA HistoryGoesOn == HistoryInv /\ [HistoryNext]_historyVars => HistoryInv'
<1> SUFFICES ASSUME HistoryInv, [HistoryNext]_historyVars
             PROVE  HistoryInv'
  OBVIOUS
<1>1. /\ moment \in 0..HistoryEnd /\ counter \in Nat /\ total \in Nat /\ life \in Nat /\ due \in Nat
      /\ samples \in Seq(Moments) /\ DOMAIN samples = 1..Len(samples) /\ Len(samples) \in Nat
      /\ \A i \in DOMAIN samples : samples[i] \in Moments
  <2>1. moment \in 0..HistoryEnd /\ counter \in Nat /\ total \in Nat /\ life \in Nat /\ due \in Nat
    BY DEF HistoryInv, Present, Moments
  <2>2. samples \in Seq(Moments)
    BY DEF HistoryInv
  <2>3. QED
    BY <2>1, <2>2
<1>2. ASSUME UNCHANGED samples, Present' \in Moments, due' \in Nat,
             \A a \in Moments : Precedes(a, Present) => Precedes(a, Present')
      PROVE  HistoryInv'
  <2>1. \A i \in DOMAIN samples : Precedes(samples[i], Present')
    BY <1>1, <1>2 DEF HistoryInv
  <2>2. \A i, j \in DOMAIN samples : i <= j => Precedes(samples[i], samples[j])
    BY DEF HistoryInv
  <2>3. QED
    BY <1>1, <1>2, <2>1, <2>2 DEF HistoryInv
<1>3. ASSUME samples' = Append(samples, Present'), Present' \in Moments, due' \in Nat,
             \A a \in Moments : Precedes(a, Present) => Precedes(a, Present')
      PROVE  HistoryInv'
  <2>1. \A i \in DOMAIN samples : Precedes(samples[i], Present')
    BY <1>1, <1>3 DEF HistoryInv
  <2>2. \A i, j \in DOMAIN samples : i <= j => Precedes(samples[i], samples[j])
    BY DEF HistoryInv
  <2>3. QED
    BY <1>1, <1>3, <2>1, <2>2, AppendPrecedes DEF HistoryInv
<1>4. CASE Tick
  BY <1>1, <1>2, <1>4, HistoryAssumption DEF Tick, Present, Moments, Precedes
<1>5. CASE Count
  <2>1. Present' = [ts |-> moment, value |-> counter + 1, total |-> total + 1, life |-> life] /\ UNCHANGED samples /\ due' = due
    BY <1>5 DEF Count, Present
  <2>2. ASSUME NEW a \in Moments, Precedes(a, Present)
        PROVE  Precedes(a, Present')
    <3>1. a.ts \in Nat /\ a.value \in Nat /\ a.total \in Nat /\ a.life \in Nat
      BY HistoryAssumption DEF Moments
    <3> counter \in Nat /\ total \in Nat
      BY <1>1
    <3>2. /\ a.ts <= moment /\ a.total <= total /\ a.life <= life
          /\ IF a.life = life THEN a.value + total = counter + a.total ELSE counter + a.total <= total
      BY <2>2 DEF Precedes, Present
    <3>3. /\ a.ts <= moment /\ a.total <= total + 1 /\ a.life <= life
          /\ IF a.life = life THEN a.value + (total + 1) = (counter + 1) + a.total
             ELSE (counter + 1) + a.total <= total + 1
      <4>1. CASE a.life = life
        <5>1. a.value + total = counter + a.total /\ a.ts <= moment /\ a.total <= total
          BY <3>2, <4>1
        <5>2. a.value + (total + 1) = (counter + 1) + a.total
          BY <3>1, <5>1, CountedTogether
        <5>3. a.total <= total + 1
          BY <3>1, <5>1
        <5>4. QED
          BY <3>2, <4>1, <5>1, <5>2, <5>3
      <4>2. CASE a.life # life
        <5>1. counter + a.total <= total /\ a.ts <= moment /\ a.total <= total
          BY <3>2, <4>2
        <5>2. (counter + 1) + a.total <= total + 1 /\ a.total <= total + 1
          BY <3>1, <5>1
        <5>3. QED
          BY <3>2, <4>2, <5>2
      <4>3. QED
        BY <4>1, <4>2
    <3>4. QED
      BY <2>1, <3>3 DEF Precedes
  <2>3. Present' \in Moments /\ due' \in Nat
    BY <1>1, <2>1 DEF Moments
  <2>4. QED
    BY <1>2, <2>1, <2>2, <2>3
<1>6. CASE Sample
  <2>1. Present' = Present /\ due' \in Nat /\ Present \in Moments
    BY <1>1, <1>6, HistoryAssumption DEF Sample, Present, HistoryInv
  <2>2. \/ samples' = Append(samples, Present')
        \/ UNCHANGED samples
    BY <1>6, <2>1 DEF Sample, Sampled, Present
  <2>3. QED
    BY <1>2, <1>3, <2>1, <2>2
<1>7. CASE RestartHistory
  <2>1. /\ Present' = [ts |-> moment, value |-> 0, total |-> total, life |-> life + 1]
        /\ due' \in Nat /\ Present' \in Moments
    BY <1>1, <1>7, HistoryAssumption DEF RestartHistory, Present, Moments
  <2>2. \/ samples' = Append(samples, Present')
        \/ UNCHANGED samples
    BY <1>7, <2>1 DEF RestartHistory, Sampled
  <2>3. ASSUME NEW a \in Moments, Precedes(a, Present)
        PROVE  Precedes(a, Present')
    BY <1>1, <2>1, <2>3 DEF Present, Moments, Precedes
  <2>4. QED
    BY <1>2, <1>3, <2>1, <2>2, <2>3
<1>8. CASE UNCHANGED historyVars
  BY <1>8 DEF historyVars, HistoryInv, Present
<1>9. QED
  BY <1>4, <1>5, <1>6, <1>7, <1>8 DEF HistoryNext

-----------------------------------------------------------------------------
(* Numbers.                                                                *)

\* A set of numbers has a least one.
LEMMA MinIsLeast ==
    ASSUME NEW S \in SUBSET Nat, S # {}
    PROVE  Min(S) \in S /\ \A x \in S : Min(S) <= x
<1> DEFINE R == {ss \in Nat \X Nat : ss[1] < ss[2]}
<1>1. R = OpToRel(<, Nat)
  BY Zenon DEF OpToRel
<1>2. IsWellFoundedOn(R, Nat)
  BY <1>1, NatLessThanWellFounded, Zenon
<1> HIDE DEF R
<1>3. \E n \in S : \A x \in S : ~(<<x, n>> \in R)
  BY <1>2, WFMin
<1>4. PICK n \in S : \A x \in S : ~(<<x, n>> \in R)
  BY <1>3
<1>5. ASSUME NEW x \in S
      PROVE  n <= x
  <2>1. <<x, n>> \in Nat \X Nat
    OBVIOUS
  <2>2. ~(x < n)
    BY <1>4, <2>1 DEF R
  <2>3. QED
    BY <2>2
<1>6. QED
  BY <1>5 DEF Min

\* And if it is bounded a greatest one.
LEMMA MaxIsGreatest ==
    ASSUME NEW n \in Nat, NEW S \in SUBSET (0..n), S # {}
    PROVE  Max(S) \in S /\ \A x \in S : x <= Max(S)
<1> DEFINE T == {b \in Nat : \A x \in S : x <= b}
<1>1. T \in SUBSET Nat /\ n \in T
  OBVIOUS
<1>2. Min(T) \in T /\ \A b \in T : Min(T) <= b
  BY <1>1, MinIsLeast
<1>3. PICK m \in Nat : (\A x \in S : x <= m) /\ \A b \in T : m <= b
  BY <1>2
<1>4. m \in S
  <2>1. SUFFICES ASSUME m \notin S
                 PROVE  FALSE
    OBVIOUS
  <2>2. \A x \in S : x \in Nat /\ x <= m - 1
    BY <1>3, <2>1
  <2>3. m - 1 \in Nat
    <3>1. PICK x \in S : TRUE
      OBVIOUS
    <3>2. QED
      BY <2>2, <3>1
  <2>4. m - 1 \in T
    BY <2>2, <2>3
  <2>5. QED
    BY <1>3, <2>4
<1>5. QED
  BY <1>3, <1>4 DEF Max

\* A set of numbers that no number is the first of has none.
LEMMA NoFirst ==
    ASSUME NEW B \in SUBSET Nat, 0 \notin B, \A n \in Nat : n + 1 \in B => n \in B
    PROVE  B = {}
<1> SUFFICES ASSUME B # {}
             PROVE  FALSE
  OBVIOUS
<1>1. PICK n \in B : \A x \in B : n <= x
  BY MinIsLeast
<1>2. n - 1 \in Nat /\ (n - 1) + 1 = n
  BY <1>1
<1>3. n - 1 \in B
  BY <1>2
<1>4. QED
  BY <1>1, <1>2, <1>3

\* Windows are in the order of moments.
LEMMA WindowsInOrder ==
    ASSUME NEW a \in Nat, NEW b \in Nat, a <= b, NEW step \in Nat \ {0}
    PROVE  /\ a \div step \in Nat /\ a \div step <= a
           /\ a \div step <= b \div step
<1> DEFINE q == a \div step
           r == b \div step
<1>1. /\ q \in Int /\ a = step * q + (a % step) /\ a % step \in 0..step - 1
      /\ r \in Int /\ b = step * r + (b % step) /\ b % step \in 0..step - 1
  OBVIOUS
<1> HIDE DEF q, r
<1>2. q >= 0
  <2>1. ASSUME q <= -1 PROVE FALSE
    <3>1. step * q <= -step
      BY <1>1, <2>1
    <3>2. QED
      BY <1>1, <3>1
  <2>2. QED
    BY <1>1, <2>1
<1>3. q <= a
  <2>1. step * q >= q
    BY <1>1, <1>2
  <2>2. QED
    BY <1>1, <2>1
<1>4. q <= r
  <2>1. ASSUME r + 1 <= q PROVE FALSE
    <3>1. step * (r + 1) <= step * q
      BY <1>1, <2>1
    <3>2. step * (r + 1) = step * r + step
      BY <1>1
    <3>3. QED
      BY <1>1, <3>1, <3>2
  <2>2. QED
    BY <1>1, <2>1
<1>5. QED
  BY <1>1, <1>2, <1>3, <1>4 DEF q, r

-----------------------------------------------------------------------------
(* What the windows tell.                                                  *)

\* Told adds up window by window.
LEMMA ToldAddsUp ==
    ASSUME NEW rise, \A w \in DOMAIN rise : rise[w] \in Nat
    PROVE  \E t \in [0..HistoryEnd -> Nat] :
             /\ Told(rise) = t[HistoryEnd]
             /\ \A w \in 0..HistoryEnd :
                  t[w] = (IF w = 0 THEN 0 ELSE t[w - 1]) + (IF w \in DOMAIN rise THEN rise[w] ELSE 0)
<1> DEFINE more == [w \in Nat |-> IF w \in DOMAIN rise THEN rise[w] ELSE 0]
           Adds(n, t) == \A w \in 0..n : t[w] = (IF w = 0 THEN 0 ELSE t[w - 1]) + more[w]
           Bad == {n \in Nat : ~ \E t \in [0..n -> Nat] : Adds(n, t)}
<1>1. more \in [Nat -> Nat]
  OBVIOUS
<1> HIDE DEF more
<1>2. 0 \notin Bad
  <2>1. Adds(0, [w \in 0..0 |-> more[0]]) /\ [w \in 0..0 |-> more[0]] \in [0..0 -> Nat]
    BY <1>1
  <2>2. QED
    BY <2>1
<1>3. ASSUME NEW n \in Nat, n \notin Bad
      PROVE  n + 1 \notin Bad
  <2>1. PICK t \in [0..n -> Nat] : Adds(n, t)
    BY <1>3
  <2> DEFINE u == [w \in 0..n + 1 |-> IF w \in 0..n THEN t[w] ELSE t[n] + more[n + 1]]
  <2>2. u \in [0..n + 1 -> Nat]
    <3> HIDE DEF Adds
    <3>1. t[n] + more[n + 1] \in Nat
      <4>1. n \in 0..n /\ n + 1 \in Nat
        OBVIOUS
      <4>2. t[n] \in Nat /\ more[n + 1] \in Nat
        BY <1>1, <4>1
      <4>3. QED
        BY <4>2
    <3>2. QED
      BY <3>1
  <2>3. ASSUME NEW w \in 0..n + 1
        PROVE  u[w] = (IF w = 0 THEN 0 ELSE u[w - 1]) + more[w]
    <3>1. CASE w \in 0..n
      <4>1. u[w] = t[w] /\ (w # 0 => w - 1 \in 0..n /\ u[w - 1] = t[w - 1])
        BY <3>1
      <4>2. QED
        BY <2>1, <3>1, <4>1
    <3>2. CASE w = n + 1
      <4>1. u[w] = t[n] + more[n + 1] /\ u[w - 1] = t[n] /\ w # 0
        BY <3>2
      <4>2. QED
        BY <3>2, <4>1
    <3>3. QED
      BY <3>1, <3>2
  <2>4. QED
    BY <2>2, <2>3
<1>4. Bad = {}
  <2> HIDE DEF Bad
  <2>1. Bad \in SUBSET Nat
    BY DEF Bad
  <2>2. QED
    BY <1>2, <1>3, <2>1, NoFirst
<1>5. PICK t \in [0..HistoryEnd -> Nat] : Adds(HistoryEnd, t)
  BY <1>4, HistoryAssumption
<1> DEFINE Is(g) == g = [w \in 0..HistoryEnd |->
                   (IF w = 0 THEN 0 ELSE g[w - 1]) + (IF w \in DOMAIN rise THEN rise[w] ELSE 0)]
           G == CHOOSE g : Is(g)
<1>6. \A w \in 0..HistoryEnd : more[w] = IF w \in DOMAIN rise THEN rise[w] ELSE 0
  BY DEF more
<1>7. Told(rise) = G[HistoryEnd]
  BY DEF Told
<1>8. Is(t)
  BY <1>5, <1>6
<1>9. Is(G)
  <2> HIDE DEF Is
  <2>1. QED
    BY <1>8
<1> HIDE DEF G
<1>10. G = t
  <2> DEFINE Off == {n \in Nat : n <= HistoryEnd /\ G[n] # t[n]}
  <2>1. 0 \notin Off
    BY <1>8, <1>9
  <2>2. ASSUME NEW n \in Nat, n + 1 \in Off
        PROVE  n \in Off
    <3>1. n \in 0..HistoryEnd /\ n + 1 \in 0..HistoryEnd /\ n + 1 # 0 /\ (n + 1) - 1 = n
      BY <2>2, HistoryAssumption
    <3>2. /\ G[n + 1] = G[n] + (IF n + 1 \in DOMAIN rise THEN rise[n + 1] ELSE 0)
          /\ t[n + 1] = t[n] + (IF n + 1 \in DOMAIN rise THEN rise[n + 1] ELSE 0)
      BY <1>8, <1>9, <3>1
    <3>3. QED
      BY <2>2, <3>1, <3>2
  <2>3. Off = {}
    <3> HIDE DEF Off
    <3>1. Off \in SUBSET Nat
      BY DEF Off
    <3>2. QED
      BY <2>1, <2>2, <3>1, NoFirst
  <2>4. \A n \in 0..HistoryEnd : G[n] = t[n]
    BY <2>3, HistoryAssumption
  <2>5. DOMAIN G = 0..HistoryEnd
    BY <1>9
  <2>6. G = [w \in 0..HistoryEnd |-> G[w]]
    BY <1>9
  <2>7. QED
    BY <2>4, <2>6
<1>11. QED
  BY <1>7, <1>8, <1>10

\* Up to a window the samples before it have told so much: nothing if there
\* are none, and the rise from the first to the last of them otherwise.
Accounts(a, b, told) ==
    /\ told + a.total <= b.total
    /\ a.life = b.life => told + a.total = b.total
Settled(points, step, n, told) ==
    \/ told = 0 /\ \A i \in points : Window(i, step) >= n
    \/ \E k \in points :
          /\ Window(k, step) < n
          /\ \A i \in points : Window(i, step) < n => i <= k
          /\ Accounts(Oldest(points), samples[k], told)

\* A rise is never more than what was counted, and all of it in one life.
LEMMA RiseCounts ==
    ASSUME NEW a \in Moments, NEW b \in Moments, NEW c \in Moments, NEW told \in Nat,
           Precedes(a, b), Precedes(b, c), Accounts(a, b, told)
    PROVE  /\ Rise(b.value, c.value) \in Nat
           /\ Accounts(a, c, told + Rise(b.value, c.value))
<1>1. /\ a.value \in Nat /\ a.total \in Nat /\ a.life \in Nat
      /\ b.value \in Nat /\ b.total \in Nat /\ b.life \in Nat
      /\ c.value \in Nat /\ c.total \in Nat /\ c.life \in Nat
  BY DEF Moments
<1> DEFINE r == Rise(b.value, c.value)
<1>2. r \in Nat
  BY <1>1 DEF Rise
<1>3. r + b.total <= c.total /\ (b.life = c.life => r + b.total = c.total)
  <2>1. CASE b.life = c.life
    <3>1. b.value + c.total = c.value + b.total /\ b.total <= c.total
      BY <2>1 DEF Precedes
    <3>2. r = c.value - b.value
      BY <1>1, <3>1 DEF Rise
    <3>3. QED
      BY <1>1, <3>1, <3>2
  <2>2. CASE b.life # c.life
    <3>1. c.value + b.total <= c.total /\ b.total <= c.total
      BY <2>2 DEF Precedes
    <3>2. r <= c.value
      BY <1>1 DEF Rise
    <3>3. QED
      BY <1>1, <1>2, <2>2, <3>1, <3>2
  <2>3. QED
    BY <2>1, <2>2
<1> HIDE DEF r
<1>4. told + a.total <= b.total /\ (a.life = b.life => told + a.total = b.total)
  BY DEF Accounts
<1>5. a.life <= b.life /\ b.life <= c.life
  BY DEF Precedes
<1>6. (told + r) + a.total <= c.total
  BY <1>1, <1>2, <1>3, <1>4
<1>7. a.life = c.life => (told + r) + a.total = c.total
  <2>1. ASSUME a.life = c.life
        PROVE  (told + r) + a.total = c.total
    <3>1. a.life = b.life /\ b.life = c.life
      BY <1>1, <1>5, <2>1
    <3>2. QED
      BY <1>1, <1>2, <1>3, <1>4, <3>1
  <2>2. QED
    BY <2>1
<1>8. QED
  BY <1>2, <1>6, <1>7 DEF Accounts, r

\* What is known of the samples that are read.
LEMMA PointsInOrder ==
    ASSUME HistoryInv, NEW since, NEW step \in WindowSizes,
           NEW points, points = read_series(since)
    PROVE  /\ points \subseteq DOMAIN samples /\ points \in SUBSET (0..Len(samples)) /\ Len(samples) \in Nat
           /\ \A i \in points : samples[i] \in Moments /\ Window(i, step) \in 0..HistoryEnd
           /\ \A i, j \in points : i <= j =>
                Precedes(samples[i], samples[j]) /\ Window(i, step) <= Window(j, step)
<1>1. /\ samples \in Seq(Moments) /\ Len(samples) \in Nat /\ DOMAIN samples = 1..Len(samples)
      /\ \A i \in DOMAIN samples : samples[i] \in Moments
  BY DEF HistoryInv
<1>2. points \subseteq DOMAIN samples
  BY DEF read_series
<1>3. step \in Nat \ {0} /\ HistoryEnd \in Nat
  BY HistoryAssumption
<1>4. \A i \in points : samples[i] \in Moments /\ samples[i].ts \in 0..HistoryEnd
  BY <1>1, <1>2 DEF Moments
<1>5. ASSUME NEW i \in points
      PROVE  Window(i, step) \in 0..HistoryEnd
  <2>1. samples[i].ts \in Nat /\ samples[i].ts <= HistoryEnd
    BY <1>3, <1>4
  <2>2. Window(i, step) \in Nat /\ Window(i, step) <= samples[i].ts
    BY <1>3, <2>1, WindowsInOrder DEF Window
  <2>3. QED
    BY <1>3, <2>1, <2>2
<1>6. ASSUME NEW i \in points, NEW j \in points, i <= j
      PROVE  Precedes(samples[i], samples[j]) /\ Window(i, step) <= Window(j, step)
  <2>1. Precedes(samples[i], samples[j])
    BY <1>2, <1>6 DEF HistoryInv
  <2>2. samples[i].ts \in Nat /\ samples[j].ts \in Nat /\ samples[i].ts <= samples[j].ts
    BY <1>3, <1>4, <2>1 DEF Precedes
  <2>3. QED
    BY <1>3, <2>1, <2>2, WindowsInOrder DEF Window
<1>7. QED
  BY <1>1, <1>2, <1>4, <1>5, <1>6

\* A window more.
LEMMA WindowSettles ==
    ASSUME HistoryInv, NEW since, NEW step \in WindowSizes,
           NEW points, points = read_series(since), points # {},
           NEW n \in 0..HistoryEnd, NEW told \in Nat, Settled(points, step, n, told),
           NEW rise, rise = downsample(points, step)
    PROVE  /\ n \in DOMAIN rise => rise[n] \in Nat
           /\ Settled(points, step, n + 1, told + (IF n \in DOMAIN rise THEN rise[n] ELSE 0))
<1>1. /\ points \subseteq DOMAIN samples /\ points \in SUBSET (0..Len(samples)) /\ Len(samples) \in Nat
      /\ \A i \in points : samples[i] \in Moments /\ Window(i, step) \in 0..HistoryEnd
      /\ \A i, j \in points : i <= j =>
           Precedes(samples[i], samples[j]) /\ Window(i, step) <= Window(j, step)
  BY PointsInOrder
<1>2. HistoryEnd \in Nat /\ n \in Nat
  BY HistoryAssumption
<1>3. DOMAIN rise = Windows(points, step)
  BY DEF downsample
<1> DEFINE W(i) == Window(i, step)
           m == Min(points)
<1>4. m \in points /\ \A i \in points : m <= i
  <2>1. points \in SUBSET Nat
    BY <1>1
  <2>2. QED
    BY <2>1, MinIsLeast
<1>5. CASE n \notin DOMAIN rise
  <2>1. \A i \in points : W(i) # n
    BY <1>3, <1>5 DEF Windows
  <2>2. \A i \in points : (W(i) < n + 1 <=> W(i) < n) /\ (W(i) >= n => W(i) >= n + 1)
    BY <1>1, <1>2, <2>1
  <2>3. Settled(points, step, n + 1, told)
    BY <2>2 DEF Settled
  <2>4. QED
    BY <1>5, <2>3
<1>6. CASE n \in DOMAIN rise
  <2> DEFINE inside == Inside(points, n, step)
             earlier == {v \in Windows(points, step) : v < n}
             L == Max(inside)
             baseline == IF earlier = {} THEN Oldest(inside) ELSE Latest(Inside(points, Max(earlier), step))
  <2>1. rise[n] = Rise(baseline.value, samples[L].value)
    BY <1>3, <1>6 DEF downsample, Latest
  <2>2. inside # {} /\ inside \subseteq points /\ \A i \in points : i \in inside <=> W(i) = n
    BY <1>3, <1>6 DEF Windows, Inside
  <2>3. L \in points /\ W(L) = n /\ \A i \in inside : i <= L
    <3>1. inside \in SUBSET (0..Len(samples))
      BY <1>1, <2>2
    <3>2. QED
      BY <1>1, <2>2, <3>1, MaxIsGreatest
  <2>4. ASSUME NEW i \in points, W(i) < n + 1
        PROVE  i <= L
    <3>1. i \in Nat /\ L \in Nat
      BY <1>1, <2>3
    <3>2. CASE W(i) = n
      BY <2>2, <2>3, <3>2
    <3>3. CASE W(i) < n
      BY <1>1, <1>2, <2>3, <3>1, <3>3
    <3>4. QED
      BY <1>1, <1>2, <2>4, <3>2, <3>3
  <2>5. PICK k \in points : /\ baseline = samples[k] /\ k <= L
                            /\ Accounts(samples[m], samples[k], told)
    <3>1. CASE told = 0 /\ \A i \in points : W(i) >= n
      <4>1. earlier = {}
        BY <1>1, <1>2, <3>1 DEF Windows
      <4>2. W(m) = n
        <5>1. W(m) <= W(L)
          BY <1>1, <1>4, <2>3
        <5>2. QED
          BY <1>1, <1>2, <1>4, <2>3, <3>1, <5>1
      <4>3. Min(inside) = m
        <5>1. inside \in SUBSET Nat /\ m \in inside
          BY <1>1, <1>4, <2>2, <4>2
        <5>2. Min(inside) \in inside /\ Min(inside) <= m
          BY <5>1, MinIsLeast
        <5>3. m <= Min(inside) /\ m \in Nat /\ Min(inside) \in Nat
          BY <1>4, <2>2, <5>1, <5>2
        <5>4. QED
          BY <5>2, <5>3
      <4>4. baseline = samples[m]
        BY <4>1, <4>3 DEF Oldest
      <4>5. Accounts(samples[m], samples[m], told)
        <5>1. samples[m].total \in Nat
          BY <1>1, <1>4 DEF Moments
        <5>2. QED
          BY <3>1, <5>1 DEF Accounts
      <4>6. m <= L
        BY <1>4, <2>3
      <4>7. QED
        BY <1>4, <4>4, <4>5, <4>6
    <3>2. ASSUME NEW k \in points, W(k) < n, \A i \in points : W(i) < n => i <= k,
                 Accounts(Oldest(points), samples[k], told)
          PROVE  baseline = samples[k] /\ k <= L /\ Accounts(samples[m], samples[k], told)
      <4> DEFINE v == Max(earlier)
      <4>1. W(k) \in earlier /\ earlier \in SUBSET (0..HistoryEnd)
        BY <1>1, <3>2 DEF Windows
      <4>2. v \in earlier /\ W(k) <= v
        BY <1>2, <4>1, MaxIsGreatest
      <4>3. PICK i \in points : W(i) = v
        BY <4>2 DEF Windows
      <4>4. v = W(k)
        <5>1. v < n
          BY <4>2
        <5>2. i <= k
          BY <3>2, <4>3, <5>1
        <5>3. v <= W(k)
          BY <1>1, <4>3, <5>2
        <5>4. QED
          BY <1>1, <4>2, <4>3, <5>3
      <4>5. Max(Inside(points, v, step)) = k
        <5>1. k \in Inside(points, v, step) /\ Inside(points, v, step) \in SUBSET (0..Len(samples))
          BY <1>1, <4>4 DEF Inside
        <5>2. \A j \in Inside(points, v, step) : j <= k
          BY <3>2, <4>4 DEF Inside
        <5>3. /\ Max(Inside(points, v, step)) \in Inside(points, v, step)
              /\ k <= Max(Inside(points, v, step))
          BY <1>1, <5>1, MaxIsGreatest
        <5>4. Max(Inside(points, v, step)) <= k /\ Max(Inside(points, v, step)) \in Nat /\ k \in Nat
          BY <1>1, <5>1, <5>2, <5>3
        <5>5. QED
          BY <5>3, <5>4
      <4>6. baseline = samples[k]
        BY <4>1, <4>5 DEF Latest
      <4>7. k <= L
        BY <1>1, <1>2, <2>4, <3>2
      <4>8. QED
        BY <3>2, <4>6, <4>7 DEF Oldest
    <3>3. QED
      BY <3>1, <3>2 DEF Settled
  <2>6. /\ rise[n] \in Nat
        /\ Accounts(samples[m], samples[L], told + rise[n])
    <3>1. Precedes(samples[m], samples[k]) /\ Precedes(samples[k], samples[L])
      BY <1>1, <1>4, <2>3, <2>5
    <3>2. samples[m] \in Moments /\ samples[k] \in Moments /\ samples[L] \in Moments
      BY <1>1, <1>4, <2>3
    <3> HIDE DEF baseline, L, m
    <3>3. QED
      BY <2>1, <2>5, <3>1, <3>2, RiseCounts
  <2>7. Settled(points, step, n + 1, told + rise[n])
    <3>1. W(L) < n + 1
      BY <1>2, <2>3
    <3>2. Accounts(Oldest(points), samples[L], told + rise[n])
      BY <2>6 DEF Oldest
    <3>3. QED
      BY <2>3, <2>4, <3>1, <3>2 DEF Settled
  <2>8. QED
    BY <1>6, <2>6, <2>7
<1>7. QED
  BY <1>5, <1>6

\* What is read accounts for what was counted.
LEMMA HistoryAccounts == HistoryInv => RiseIsAccounted
<1> SUFFICES ASSUME HistoryInv, NEW since \in 0..HistoryEnd, NEW step \in WindowSizes,
                    NEW points, points = read_series(since), points # {}
             PROVE  LET told == Told(downsample(points, step))
                        counted == Latest(points).total - Oldest(points).total
                    IN told <= counted /\ (Oldest(points).life = Latest(points).life => told = counted)
  BY DEF RiseIsAccounted
<1> DEFINE rise == downsample(points, step)
<1>1. /\ points \in SUBSET (0..Len(samples)) /\ Len(samples) \in Nat
      /\ \A i \in points : samples[i] \in Moments /\ Window(i, step) \in 0..HistoryEnd
  BY PointsInOrder
<1>2. HistoryEnd \in Nat
  BY HistoryAssumption
<1>3. DOMAIN rise \subseteq 0..HistoryEnd
  BY <1>1 DEF downsample, Windows
<1> DEFINE More(n) == IF n \in DOMAIN rise THEN rise[n] ELSE 0
           Before(n) == \E told \in Nat : Settled(points, step, n, told)
<1>4. Settled(points, step, 0, 0)
  BY <1>1 DEF Settled
<1>5. ASSUME NEW n \in 0..HistoryEnd, NEW told \in Nat, Settled(points, step, n, told)
      PROVE  More(n) \in Nat /\ Settled(points, step, n + 1, told + More(n))
  BY <1>5, WindowSettles
<1> HIDE DEF rise
<1>6. \A n \in DOMAIN rise : rise[n] \in Nat
  <2> DEFINE Bad == {n \in Nat : n <= HistoryEnd /\ ~Before(n)}
  <2>1. 0 \notin Bad
    BY <1>4
  <2>2. ASSUME NEW n \in Nat, n + 1 \in Bad
        PROVE  n \in Bad
    <3>1. n \in 0..HistoryEnd
      BY <1>2, <2>2
    <3>2. ASSUME NEW told \in Nat, Settled(points, step, n, told)
          PROVE  FALSE
      <4>1. told + More(n) \in Nat /\ Settled(points, step, n + 1, told + More(n))
        BY <1>5, <3>1, <3>2
      <4> HIDE DEF More
      <4>2. QED
        BY <2>2, <4>1
    <3>3. QED
      BY <3>1, <3>2
  <2>3. Bad = {}
    <3> HIDE DEF Bad
    <3>1. Bad \in SUBSET Nat
      BY DEF Bad
    <3>2. QED
      BY <2>1, <2>2, <3>1, NoFirst
  <2>4. \A n \in 0..HistoryEnd : Before(n)
    BY <1>2, <2>3
  <2>5. QED
    BY <1>3, <1>5, <2>4
<1>7. PICK t \in [0..HistoryEnd -> Nat] :
        /\ Told(rise) = t[HistoryEnd]
        /\ \A w \in 0..HistoryEnd : t[w] = (IF w = 0 THEN 0 ELSE t[w - 1]) + More(w)
  BY <1>6, ToldAddsUp
<1> HIDE DEF More, Before
<1>8. \A n \in 0..HistoryEnd : Settled(points, step, n + 1, t[n])
  <2> DEFINE Bad == {n \in Nat : n <= HistoryEnd /\ ~Settled(points, step, n + 1, t[n])}
  <2>1. 0 \notin Bad
    <3>1. 0 \in 0..HistoryEnd
      BY <1>2
    <3>2. More(0) \in Nat /\ Settled(points, step, 0 + 1, 0 + More(0)) /\ t[0] = 0 + More(0)
      BY <1>4, <1>5, <1>7, <3>1
    <3>3. QED
      BY <3>2
  <2>2. ASSUME NEW n \in Nat, n + 1 \in Bad
        PROVE  n \in Bad
    <3>1. n \in 0..HistoryEnd /\ n + 1 \in 0..HistoryEnd /\ n + 1 # 0 /\ (n + 1) - 1 = n
      BY <1>2, <2>2
    <3>2. t[n + 1] = t[n] + More(n + 1) /\ t[n] \in Nat
      BY <1>7, <3>1
    <3>3. Settled(points, step, n + 1, t[n]) => Settled(points, step, (n + 1) + 1, t[n] + More(n + 1))
      BY <1>5, <3>1, <3>2
    <3>4. QED
      BY <2>2, <3>1, <3>2, <3>3
  <2>3. Bad = {}
    <3> HIDE DEF Bad
    <3>1. Bad \in SUBSET Nat
      BY DEF Bad
    <3>2. QED
      BY <2>1, <2>2, <3>1, NoFirst
  <2>4. QED
    BY <1>2, <2>3
<1>9. HistoryEnd \in 0..HistoryEnd /\ t[HistoryEnd] \in Nat
  BY <1>2, <1>7
<1>10. Settled(points, step, HistoryEnd + 1, t[HistoryEnd])
  BY <1>8, <1>9
<1>11. \A i \in points : Window(i, step) < HistoryEnd + 1
  BY <1>1, <1>2
<1>12. PICK k \in points : /\ \A i \in points : i <= k
                           /\ Accounts(Oldest(points), samples[k], t[HistoryEnd])
  BY <1>2, <1>10, <1>11, <1>1 DEF Settled
<1>13. Max(points) = k
  <2>1. Max(points) \in points /\ k <= Max(points) /\ Max(points) <= k
    BY <1>1, <1>12, MaxIsGreatest
  <2>2. QED
    BY <1>1, <2>1
<1>14. Min(points) \in points
  BY <1>1, MinIsLeast
<1>15. Latest(points).total \in Nat /\ Oldest(points).total \in Nat
  BY <1>1, <1>13, <1>14 DEF Latest, Oldest, Moments
<1>16. Accounts(Oldest(points), Latest(points), t[HistoryEnd])
  BY <1>12, <1>13 DEF Latest
<1>17. Told(rise) = t[HistoryEnd]
  BY <1>7
<1>18. QED
  BY <1>9, <1>15, <1>16, <1>17 DEF Accounts, rise

\* No increment of a counter is told twice, and none is missing between two
\* samples of one life of the process, whichever samples are lost and however
\* often the process restarts.
THEOREM RisesAddUp == HistorySpec => []RiseIsAccounted
<1>1. HistoryInit => HistoryInv
  <2> SUFFICES ASSUME HistoryInit
               PROVE  HistoryInv
    OBVIOUS
  <2>1. /\ Present = [ts |-> 0, value |-> 0, total |-> 0, life |-> 0]
        /\ samples = <<Present>> /\ due \in Nat /\ Present \in Moments
    BY HistoryAssumption DEF HistoryInit, Present, Moments
  <2>2. samples \in Seq(Moments) /\ DOMAIN samples = {1} /\ samples[1] = Present
    BY <2>1
  <2>3. Precedes(Present, Present)
    BY <2>1 DEF Precedes, Moments
  <2>4. QED
    BY <2>1, <2>2, <2>3 DEF HistoryInv
<1>2. QED
  BY <1>1, HistoryGoesOn, HistoryAccounts, PTL DEF HistorySpec

(***************************************************************************)
(* The breaker, for every set of calls, threshold and number of attempts.  *)
(* Each invariant is inductive with the types; what makes them so is that  *)
(* every end of a call leaves the half-open state.                         *)
(***************************************************************************)
\* What a call may become at the end of an attempt is a state of a call.
LEMMA CallStates ==
    ASSUME NEW r \in CallState
    PROVE  /\ Idle \in CallState
           /\ \A p \in BOOLEAN : [r EXCEPT !.pc = "flying", !.probe = p] \in CallState
           /\ r.failed + 1 < Attempts =>
                [pc |-> "backoff", failed |-> r.failed + 1, probe |-> FALSE] \in CallState
<1>1. Attempts - 1 \in Nat /\ 0 \in 0 .. Attempts - 1
  BY AttemptsAssumption
<1>2. Idle \in CallState
  BY <1>1 DEF CallState, Idle
<1>3. \A p \in BOOLEAN : [r EXCEPT !.pc = "flying", !.probe = p] \in CallState
  BY DEF CallState
<1>4. r.failed + 1 < Attempts =>
        [pc |-> "backoff", failed |-> r.failed + 1, probe |-> FALSE] \in CallState
  <2>1. r.failed \in 0 .. Attempts - 1
    BY DEF CallState
  <2>2. r.failed + 1 < Attempts => r.failed + 1 \in 0 .. Attempts - 1
    BY <2>1, AttemptsAssumption
  <2> QED BY <2>2 DEF CallState
<1> QED BY <1>2, <1>3, <1>4

\* The types are kept: the count saturates, and attempts are counted.
LEMMA NextTypes == ASSUME TypeOK, [Next]_vars PROVE TypeOK'
<1> USE ThresholdAssumption DEF TypeOK
<1>1. CASE CooldownEnds
  BY <1>1 DEF CooldownEnds
<1>2. ASSUME NEW c \in Calls, Admit(c) PROVE TypeOK'
  <2>1. call' = [call EXCEPT ![c] = [call[c] EXCEPT !.pc = "flying",
                                                    !.probe = (state # "closed")]]
    BY <1>2 DEF Admit
  <2>2. (state # "closed") \in BOOLEAN
    OBVIOUS
  <2>3. [call[c] EXCEPT !.pc = "flying", !.probe = (state # "closed")] \in CallState
    BY <2>2, CallStates
  <2>4. call' \in [Calls -> CallState]
    BY <2>1, <2>3
  <2>5. Check
    BY <1>2 DEF Admit
  <2> QED BY <2>4, <2>5 DEF Check
<1>3. ASSUME NEW c \in Calls, FastFail(c) PROVE TypeOK'
  BY <1>3, CallStates DEF FastFail, breakerVars
<1>4. ASSUME NEW c \in Calls, Respond(c) PROVE TypeOK'
  <2>1. call' \in [Calls -> CallState]
    <3>1. call[c] \in CallState
      OBVIOUS
    <3>2. Idle \in CallState
      BY <3>1, CallStates
    <3> QED BY <1>4, <3>2 DEF Respond
  <2>2. 0 \in 0 .. FailureThreshold
    OBVIOUS
  <2>3. RecordSuccess
    BY <1>4 DEF Respond
  <2> QED BY <2>1, <2>2, <2>3 DEF RecordSuccess
<1>5. ASSUME NEW c \in Calls, FailTransiently(c) PROVE TypeOK'
  <2>1. call' \in [Calls -> CallState]
    BY <1>5, CallStates DEF FailTransiently
  <2>2. RecordFailure
    BY <1>5 DEF FailTransiently
  <2>3. failures' \in 0 .. FailureThreshold
    BY <2>2 DEF RecordFailure
  <2>4. \/ state' = "open" /\ cooling' = TRUE
        \/ state' = state /\ cooling' = cooling
    BY <2>2 DEF RecordFailure, Open
  <2> QED BY <2>1, <2>2, <2>3, <2>4 DEF RecordFailure
<1>6. ASSUME NEW c \in Calls, Cancel(c) PROVE TypeOK'
  BY <1>6, CallStates DEF Cancel, RecordCancellation, Open, breakerVars
<1>7. CASE UNCHANGED vars
  BY <1>7 DEF vars, breakerVars
<1> QED BY <1>1, <1>2, <1>3, <1>4, <1>5, <1>6, <1>7 DEF Next

\* The breaker and its calls keep their types (BreakerState, RetryPolicy).
THEOREM TypeCorrect == Spec => []TypeOK
<1>1. Init => TypeOK
  <2>1. Idle \in CallState
    BY AttemptsAssumption DEF Idle, CallState
  <2>2. 0 \in 0 .. FailureThreshold
    BY ThresholdAssumption
  <2> QED BY <2>1, <2>2 DEF Init, TypeOK
<1> QED BY <1>1, NextTypes, PTL DEF Spec

\* No step leaves a half-open breaker without a probe: only an admission leads
\* to that state or finds the breaker in it, and every end of a call leaves it.
LEMMA NextProbe ==
    ASSUME TypeOK, HalfOpenHasProbe, [Next]_vars
    PROVE  HalfOpenHasProbe'
<1> USE DEF HalfOpenHasProbe, Flying, TypeOK, CallState
<1>1. CASE CooldownEnds
  BY <1>1 DEF CooldownEnds
<1>2. ASSUME NEW c \in Calls, Admit(c) PROVE HalfOpenHasProbe'
  <2>1. CASE state = "half_open"
    BY <1>2, <2>1 DEF Admit, Admissible
  <2>2. CASE state # "half_open"
    BY <1>2, <2>2 DEF Admit, Check
  <2> QED BY <2>1, <2>2
<1>3. ASSUME NEW c \in Calls, FastFail(c) PROVE HalfOpenHasProbe'
  <2> SUFFICES ASSUME state' = "half_open"
               PROVE  probing' /\ \E d \in Calls : call'[d].pc = "flying" /\ call'[d].probe
    OBVIOUS
  <2>1. state = "half_open" /\ probing' = probing
    BY <1>3 DEF FastFail, breakerVars
  <2>2. PICK d \in Calls : call[d].pc = "flying" /\ call[d].probe
    BY <2>1
  <2>3. d # c
    BY <1>3, <2>2 DEF FastFail, Waiting
  <2> QED BY <1>3, <2>1, <2>2, <2>3 DEF FastFail
<1>4. ASSUME NEW c \in Calls, Respond(c) PROVE HalfOpenHasProbe'
  BY <1>4 DEF Respond, RecordSuccess
<1>5. ASSUME NEW c \in Calls, FailTransiently(c) PROVE HalfOpenHasProbe'
  BY <1>5 DEF FailTransiently, RecordFailure, Open
<1>6. ASSUME NEW c \in Calls, Cancel(c) PROVE HalfOpenHasProbe'
  <2> SUFFICES ASSUME state' = "half_open"
               PROVE  probing' /\ \E d \in Calls : call'[d].pc = "flying" /\ call'[d].probe
    OBVIOUS
  <2>1. ~Flying(c) /\ UNCHANGED breakerVars
    BY <1>6 DEF Cancel, RecordCancellation, Open, breakerVars
  <2>2. PICK d \in Calls : call[d].pc = "flying" /\ call[d].probe
    BY <2>1 DEF breakerVars
  <2> QED BY <1>6, <2>1, <2>2 DEF Cancel, breakerVars
<1>7. CASE UNCHANGED vars
  BY <1>7 DEF vars, breakerVars
<1> QED BY <1>1, <1>2, <1>3, <1>4, <1>5, <1>6, <1>7 DEF Next

\* A half-open breaker always has a probe under way, so record_cancellation
\* leaves no way for it to reject every call for good.
THEOREM ProbeNeverStranded == Spec => []HalfOpenHasProbe
<1>1. Init => HalfOpenHasProbe
  BY DEF Init, HalfOpenHasProbe
<1>2. TypeOK /\ HalfOpenHasProbe /\ [Next]_vars => HalfOpenHasProbe'
  BY NextProbe
<1> QED BY <1>1, <1>2, TypeCorrect, PTL DEF Spec

\* A breaker that is closed, again or still, has room for a failure.
THEOREM ClosedHasRoom == Spec => []ClosedBelowThreshold
<1>1. Init => ClosedBelowThreshold
  BY ThresholdAssumption DEF Init, ClosedBelowThreshold
<1>2. TypeOK /\ ClosedBelowThreshold /\ [Next]_vars => ClosedBelowThreshold'
  <2> SUFFICES ASSUME TypeOK, ClosedBelowThreshold, [Next]_vars
               PROVE  ClosedBelowThreshold'
    OBVIOUS
  <2> USE ThresholdAssumption DEF ClosedBelowThreshold, TypeOK
  <2>1. CASE CooldownEnds
    BY <2>1 DEF CooldownEnds
  <2>2. ASSUME NEW c \in Calls, Admit(c) PROVE ClosedBelowThreshold'
    BY <2>2 DEF Admit, Check
  <2>3. ASSUME NEW c \in Calls, FastFail(c) PROVE ClosedBelowThreshold'
    BY <2>3 DEF FastFail, breakerVars
  <2>4. ASSUME NEW c \in Calls, Respond(c) PROVE ClosedBelowThreshold'
    BY <2>4 DEF Respond, RecordSuccess
  <2>5. ASSUME NEW c \in Calls, FailTransiently(c) PROVE ClosedBelowThreshold'
    BY <2>5 DEF FailTransiently, RecordFailure, Open
  <2>6. ASSUME NEW c \in Calls, Cancel(c) PROVE ClosedBelowThreshold'
    BY <2>6 DEF Cancel, RecordCancellation, Open, breakerVars
  <2>7. CASE UNCHANGED vars
    BY <2>7 DEF vars, breakerVars
  <2> QED BY <2>1, <2>2, <2>3, <2>4, <2>5, <2>6, <2>7 DEF Next
<1> QED BY <1>1, <1>2, TypeCorrect, PTL DEF Spec
=============================================================================

----------------------------- MODULE MCServices -----------------------------
(* Four components that share no state: one of them moves in a behaviour,  *)
(* the others rest in their initial state.                                 *)
EXTENDS CircuitBreaker, WatchSchedule, JobEvents, ObservabilitySink

CONSTANTS c1, c2, c3

ThreeCalls == {c1, c2, c3}

VARIABLE service

services == <<vars, watchVars, busVars, sinkVars, service>>

ServicesInit ==
    /\ service \in {"breaker", "watches", "events", "sink"}
    /\ Init /\ WatchInit /\ BusInit /\ SinkInit

Only(name, unmoved) == service = name /\ UNCHANGED <<service, unmoved>>

Guarding(A) == A /\ Only("breaker", <<watchVars, busVars, sinkVars>>)
Watching(A) == A /\ Only("watches", <<vars, busVars, sinkVars>>)
Streaming(A) == A /\ Only("events", <<vars, watchVars, sinkVars>>)
Sinking(A) == A /\ Only("sink", <<vars, watchVars, busVars>>)

ServicesNext == Guarding(Next) \/ Watching(WatchNext) \/ Streaming(BusNext) \/ Sinking(SinkNext)

ServicesFairness ==
    /\ WF_services(Watching(TickRead)) /\ WF_services(Watching(TickEnqueue))
    /\ WF_services(Watching(TickMark)) /\ WF_services(Watching(PollResult))
    /\ \A s \in Streams : WF_services(Streaming(StreamStep(s)))
    /\ WF_services(Sinking(WriterStep)) /\ WF_services(Sinking(ClosingGoesOn))

ServicesSpec == ServicesInit /\ [][ServicesNext]_services /\ ServicesFairness

\* Both bounded queues let their sentinel through: after close every stream of
\* the bus ends and so does the thread of the sink, however full the queues.
ClosesEnd == StreamsEnd /\ SinkStops
=============================================================================

----------------------------- MODULE EventQueue -----------------------------
(***************************************************************************)
(* What pqueue.h promises of the event queue: a total, deterministic       *)
(* order - earliest execution_time, then lowest priority_weight, then the  *)
(* order of insertion.  A queue is the sequence of its pending events in   *)
(* the order in which pq_pop will serve them, so the field seq of the      *)
(* code, which only breaks ties, is the position of the event.  BinaryHeap *)
(* describes the heap that implements this order.                          *)
(***************************************************************************)
EXTENDS Integers, SequencesExt, FiniteSets

\* PriorityWeight: the lower weight is served first at equal times.
PRIO_EMERGENCY == 0
PRIO_LANDING   == 1
PRIO_TAKEOFF   == 2
PRIO_ROUTINE   == 3

EventType == {"EVENT_AIRCRAFT_ARRIVE", "EVENT_RUNWAY_REQUEST",
              "EVENT_TOUCHDOWN", "EVENT_TAXI_TO_GATE", "EVENT_GATE_RELEASE",
              "EVENT_TAKEOFF_READY", "EVENT_TAKEOFF_CLEAR",
              "EVENT_EMERGENCY_FUEL", "EVENT_DEPART_SECTOR",
              "EVENT_WEATHER_CHANGE"}

\* The events of flights in F.
AtcEvent(F) == [flight : F, type : EventType, time : Nat,
                weight : PRIO_EMERGENCY .. PRIO_ROUTINE]

\* ev_less on events whose insertion order is not compared.
ev_less(a, b) == \/ a.time < b.time
                 \/ a.time = b.time /\ a.weight < b.weight

\* pq_push: the new event has the highest seq, so it is served after every
\* pending event that it does not beat on time and weight.  (The first form is
\* a faulty variant that forgets the order: see Sector.)
pq_push_Last(q, e) == Append(q, e)
pq_push(q, e) ==
    InsertAt(q, 1 + Cardinality({i \in DOMAIN q : ~ ev_less(e, q[i])}), e)

\* No event is served after one that it beats.
Ordered(q) == \A i, j \in DOMAIN q : i < j => ~ ev_less(q[j], q[i])
=============================================================================

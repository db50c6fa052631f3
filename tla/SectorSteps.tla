----------------------------- MODULE SectorSteps -----------------------------
(***************************************************************************)
(* What a step may do: who is served, in which order, how the fuel checks   *)
(* go on, and what is counted.                                             *)
(*                                                                         *)
(* The properties here speak of a step, of the flights it serves and of    *)
(* those it passes.  Instead of asking each property of each handler, every *)
(* handler is shown to have one of a few shapes: it takes no runway for a   *)
(* waiting flight (Quiet), or lets one join the ring (Joins), or declares   *)
(* an emergency (Declared), or checks fuel again (Rechecked), or gives an   *)
(* idle runway to the flight it is about (TakesIdle), or offers the runway  *)
(* it releases to the ring (Offered, Served, Requeued).  Each property      *)
(* then follows by cases over the shapes.  It rests on AllTied of           *)
(* SectorProofs and on invariants of its own: EmergenciesLow, Watched,     *)
(* InLine and OneCheck.                                                    *)
(*                                                                         *)
(* The counters are treated the same way: every helper is shown to pay     *)
(* into them what it changes in the one flight it is about (Paid), and     *)
(* the sums over all flights then change by as much.                       *)
(***************************************************************************)
EXTENDS SectorProofs

-----------------------------------------------------------------------------
(* The pending fuel checks of a flight.                                    *)

\* When they are due.
Checks(q, f) ==
    {q[i].time : i \in {j \in DOMAIN q : q[j].flight = f /\ q[j].type \in Fuel}}

SameChecks(q, r, f) == /\ Checks(r, f) = Checks(q, f)
                       /\ Count(r, f, Fuel) = Count(q, f, Fuel)

LEMMA ChecksSchedule ==
  ASSUME NEW q \in Seq(AtcEvent(Flights)), NEW g \in Flights,
         NEW type \in EventType, NEW time \in Nat,
         NEW weight \in PRIO_EMERGENCY .. PRIO_ROUTINE, NEW f
  PROVE  Checks(schedule(q, g, type, time, weight), f)
           = Checks(q, f) \cup (IF f = g /\ type \in Fuel THEN {time} ELSE {})
<1> DEFINE e == [flight |-> g, type |-> type, time |-> time, weight |-> weight]
           p == 1 + Cardinality({i \in DOMAIN q : ~ ev_less(e, q[i])})
           r == InsertAt(q, p, e)
           n == Len(q)
           IsCheck(s, i) == s[i].flight = f /\ s[i].type \in Fuel
<1>1. /\ e \in AtcEvent(Flights)
      /\ e.flight = g /\ e.type = type /\ e.time = time
  BY DEF AtcEvent
<1>2. schedule(q, g, type, time, weight) = r
  BY DEF schedule, pq_push
<1>3. n \in Nat /\ DOMAIN q = 1..n
  BY LenProperties
<1>4. p \in 1 .. n + 1
  <2>1. {i \in DOMAIN q : ~ ev_less(e, q[i])} \in SUBSET (1..n)
    BY <1>3
  <2> HIDE DEF e
  <2> QED BY <1>3, <2>1, Positions
<1> HIDE DEF e, p
<1>5. r \in Seq(AtcEvent(Flights)) /\ Len(r) = n + 1
  BY <1>1, <1>4, InsertAtType
<1>6. DOMAIN r = 1 .. n + 1
  BY <1>5, LenProperties
<1>7. \A k \in 1 .. n + 1 : /\ k < p => r[k] = q[k]
                            /\ k = p => r[k] = e
                            /\ k > p => r[k] = q[k - 1]
  BY <1>1, <1>4, InsertAtElements
<1> HIDE DEF r, n
<1>8. ASSUME NEW i \in 1..n PROVE \E k \in 1 .. n + 1 : r[k] = q[i]
  <2>1. CASE i < p
    BY <1>3, <1>7, <2>1
  <2>2. CASE ~ (i < p)
    <3>1. i + 1 \in 1 .. n + 1 /\ i + 1 > p /\ (i + 1) - 1 = i
      BY <1>3, <1>4, <2>2
    <3> QED BY <1>7, <3>1
  <2> QED BY <2>1, <2>2
<1>9. ASSUME NEW k \in 1 .. n + 1, k # p PROVE \E i \in 1..n : r[k] = q[i]
  <2>1. CASE k < p
    BY <1>3, <1>4, <1>7, <2>1
  <2>2. CASE k > p
    <3>1. k - 1 \in 1..n
      BY <1>3, <1>4, <2>2
    <3> QED BY <1>7, <2>2, <3>1
  <2> QED BY <1>3, <1>4, <1>9, <2>1, <2>2
<1>10. ASSUME NEW t PROVE t \in Checks(r, f) <=> \E k \in 1 .. n + 1 : IsCheck(r, k) /\ r[k].time = t
  BY <1>6 DEF Checks
<1>11. ASSUME NEW t PROVE t \in Checks(q, f) <=> \E i \in 1..n : IsCheck(q, i) /\ q[i].time = t
  BY <1>3 DEF Checks
<1>12. ASSUME NEW t
       PROVE  t \in Checks(r, f) <=> \/ t \in Checks(q, f)
                                     \/ f = g /\ type \in Fuel /\ t = time
  <2>1. ASSUME NEW k \in 1 .. n + 1, IsCheck(r, k), r[k].time = t
        PROVE  \/ \E i \in 1..n : IsCheck(q, i) /\ q[i].time = t
               \/ f = g /\ type \in Fuel /\ t = time
    <3>1. CASE k = p
      BY <1>1, <1>7, <2>1, <3>1
    <3>2. CASE k # p
      BY <1>9, <2>1, <3>2
    <3> QED BY <3>1, <3>2
  <2>2. ASSUME NEW i \in 1..n, IsCheck(q, i), q[i].time = t
        PROVE  \E k \in 1 .. n + 1 : IsCheck(r, k) /\ r[k].time = t
    BY <1>8, <2>2
  <2>3. ASSUME f = g, type \in Fuel, t = time
        PROVE  \E k \in 1 .. n + 1 : IsCheck(r, k) /\ r[k].time = t
    BY <1>1, <1>4, <1>7, <2>3
  <2> QED BY <1>10, <1>11, <2>1, <2>2, <2>3
<1> QED BY <1>2, <1>12

\* Popping an event of another flight, or of another kind, loses none.
LEMMA ChecksTail ==
  ASSUME NEW q \in Seq(AtcEvent(Flights)), q # <<>>, NEW f
  PROVE  /\ Checks(Tail(q), f) \subseteq Checks(q, f)
         /\ f = Head(q).flight /\ Head(q).type \in Fuel => Head(q).time \in Checks(q, f)
         /\ ~ (f = Head(q).flight /\ Head(q).type \in Fuel) => Checks(Tail(q), f) = Checks(q, f)
<1> DEFINE n == Len(q)
           IsCheck(s, i) == s[i].flight = f /\ s[i].type \in Fuel
<1>1. n \in Nat /\ n # 0 /\ DOMAIN q = 1..n
  BY LenProperties, EmptySeq
<1>2. Head(q) = q[1] /\ 1 \in 1..n
  BY <1>1, HeadTailProperties
<1>3. /\ Tail(q) \in Seq(AtcEvent(Flights)) /\ Len(Tail(q)) = n - 1
      /\ \A i \in 1 .. n - 1 : Tail(q)[i] = q[i + 1]
  BY <1>1, HeadTailProperties
<1>4. DOMAIN Tail(q) = 1 .. n - 1
  BY <1>3, LenProperties
<1> HIDE DEF n
<1>5. ASSUME NEW t PROVE t \in Checks(Tail(q), f)
          <=> \E k \in 1 .. n - 1 : IsCheck(q, k + 1) /\ q[k + 1].time = t
  BY <1>3, <1>4 DEF Checks
<1>6. ASSUME NEW t PROVE t \in Checks(q, f) <=> \E i \in 1..n : IsCheck(q, i) /\ q[i].time = t
  BY <1>1 DEF Checks
<1>7. \A k \in 1 .. n - 1 : k + 1 \in 1..n
  BY <1>1
<1>8. \A i \in 1..n : i # 1 => i - 1 \in 1 .. n - 1 /\ (i - 1) + 1 = i
  BY <1>1
<1>9. Checks(Tail(q), f) \subseteq Checks(q, f)
  BY <1>5, <1>6, <1>7
<1>10. ASSUME ~ (f = Head(q).flight /\ Head(q).type \in Fuel), NEW t \in Checks(q, f)
       PROVE  t \in Checks(Tail(q), f)
  <2>1. PICK i \in 1..n : IsCheck(q, i) /\ q[i].time = t
    BY <1>6
  <2>2. i # 1
    BY <1>2, <1>10, <2>1
  <2> QED BY <1>5, <1>8, <2>1, <2>2
<1> QED BY <1>2, <1>6, <1>9, <1>10

\* SameChecks from one queue to the next.
LEMMA SameTail ==
  ASSUME NEW q \in Seq(AtcEvent(Flights)), q # <<>>, NEW f \in Flights,
         ~ (f = Head(q).flight /\ Head(q).type \in Fuel)
  PROVE  SameChecks(q, Tail(q), f)
<1>1. Count(Tail(q), f, Fuel) = Count(q, f, Fuel) - 0
  BY CountTail
<1>2. Count(q, f, Fuel) \in Nat
  BY CountType
<1> QED BY <1>1, <1>2, ChecksTail DEF SameChecks

LEMMA SameSchedule ==
  ASSUME NEW q \in Seq(AtcEvent(Flights)), NEW g \in Flights,
         NEW type \in EventType, NEW time \in Nat,
         NEW weight \in PRIO_EMERGENCY .. PRIO_ROUTINE, NEW f \in Flights,
         ~ (f = g /\ type \in Fuel)
  PROVE  SameChecks(q, schedule(q, g, type, time, weight), f)
<1> DEFINE r == schedule(q, g, type, time, weight)
<1>1. Count(r, f, Fuel) = Count(q, f, Fuel) + (IF f = g /\ type \in Fuel THEN 1 ELSE 0)
  BY CountSchedule
<1>2. Count(q, f, Fuel) \in Nat
  BY CountType
<1>3. Checks(r, f) = Checks(q, f) \cup (IF f = g /\ type \in Fuel THEN {time} ELSE {})
  BY ChecksSchedule
<1> HIDE DEF r
<1>4. Count(r, f, Fuel) = Count(q, f, Fuel)
  BY <1>1, <1>2
<1>5. Checks(r, f) = Checks(q, f)
  BY <1>3
<1> QED BY <1>4, <1>5 DEF r, SameChecks

\* None at all.
LEMMA NoChecks ==
  ASSUME NEW q \in Seq(AtcEvent(Flights)), NEW f, Count(q, f, Fuel) = 0
  PROVE  Checks(q, f) = {}
<1> DEFINE A == {i \in DOMAIN q : q[i].flight = f /\ q[i].type \in Fuel}
<1>1. Len(q) \in Nat /\ A \in SUBSET (1 .. Len(q))
  BY LenProperties
<1>2. IsFiniteSet(A)
  BY <1>1, Positions
<1>3. A = {}
  BY <1>2, FS_EmptySet DEF Count
<1> QED BY <1>3 DEF Checks

\* Flight f has no more checks pending than before.
NoMore(q, r, f) == Count(r, f, Fuel) <= Count(q, f, Fuel)

LEMMA SameNoMore ==
  ASSUME TypeOK, NEW q, NEW f, SameChecks(pq, q, f) PROVE NoMore(pq, q, f)
<1>1. Count(pq, f, Fuel) \in Nat
  BY CountType DEF TypeOK
<1> QED BY <1>1 DEF SameChecks, NoMore

LEMMA SameTrans ==
  ASSUME NEW p, NEW q, NEW r, NEW f, SameChecks(p, q, f), SameChecks(q, r, f)
  PROVE  SameChecks(p, r, f)
BY DEF SameChecks

LEMMA SameSelf ==
  ASSUME NEW q, NEW f PROVE SameChecks(q, q, f)
BY DEF SameChecks

\* One more check of flight g at that time, nothing else for anybody.
Adds(q, r, g, time) ==
    /\ r \in Seq(AtcEvent(Flights))
    /\ Checks(r, g) = Checks(q, g) \cup {time}
    /\ Count(r, g, Fuel) = Count(q, g, Fuel) + 1
    /\ \A f \in Flights \ {g} : SameChecks(q, r, f)

LEMMA AddsSchedule ==
  ASSUME NEW q \in Seq(AtcEvent(Flights)), NEW g \in Flights, NEW time \in Nat,
         NEW weight \in PRIO_EMERGENCY .. PRIO_ROUTINE
  PROVE  Adds(q, schedule(q, g, "EVENT_EMERGENCY_FUEL", time, weight), g, time)
<1> DEFINE r == schedule(q, g, "EVENT_EMERGENCY_FUEL", time, weight)
<1>1. "EVENT_EMERGENCY_FUEL" \in EventType /\ "EVENT_EMERGENCY_FUEL" \in Fuel
  BY Types DEF Fuel
<1>2. r \in Seq(AtcEvent(Flights))
  BY <1>1, ScheduleType
<1>3. Checks(r, g) = Checks(q, g) \cup {time}
  BY <1>1, ChecksSchedule
<1>4. Count(r, g, Fuel) = Count(q, g, Fuel) + 1
  BY <1>1, CountSchedule
<1>5. \A f \in Flights \ {g} : SameChecks(q, r, f)
  BY <1>1, SameSchedule
<1> QED BY <1>2, <1>3, <1>4, <1>5 DEF Adds

LEMMA AddsCheckFuel ==
  ASSUME NEW q \in Seq(AtcEvent(Flights)), NEW g \in Flights, NEW a,
         NEW delay \in Nat, now' \in Nat
  PROVE  Adds(q, CheckFuelAfter(q, g, a, delay), g, now' + delay)
<1>1. now' + delay \in Nat
  BY Later
<1>2. LandingWeight(a) \in PRIO_EMERGENCY .. PRIO_ROUTINE
  BY WeightType
<1> QED BY <1>1, <1>2, AddsSchedule DEF CheckFuelAfter

-----------------------------------------------------------------------------
(* What a step does to the waiting flights.  Each handler first deals with *)
(* its own flight f, which gives fl, ring and q, and then may serve the    *)
(* ring from there.                                                        *)

Rechecks == {HOLD_RECHECK, EMERGENCY_RECHECK, GO_AROUND_RECHECK}

\* Nobody starts to wait or to land, no check is moved, and the ring at most
\* loses flights.
Quiet(fl, ring, q) ==
    /\ \A g \in Flights :
           /\ fl[g].state = "AC_HOLDING" => fl[g] = flights[g]
           /\ fl[g].state = "AC_INBOUND" =>
                  /\ flights[g].state = "AC_INBOUND"
                  /\ \/ Checks(q, g) = {}
                     \/ fl[g].queue_enter_time = flights[g].queue_enter_time
           /\ fl[g].state \in {"AC_HOLDING", "AC_INBOUND"} => SameChecks(pq, q, g)
           /\ flights[g].state = "AC_HOLDING" => NoMore(pq, q, g)
           /\ fl[g].state = "AC_LANDING" => flights[g].state = "AC_LANDING"
           /\ fl[g].state = "AC_DEPARTING" =>
                  flights[g].state = "AC_DEPARTING" \/ holding = <<>>
    /\ Thinned(ring, holding)

\* Flight f starts to wait and its fuel, now up to date, will be checked.
Joins(f, fl, ring, q) ==
    /\ f \in Flights /\ OnlyBy(f, flights, fl)
    /\ flights[f].state # "AC_HOLDING" /\ fl[f].state = "AC_HOLDING"
    /\ now' <= fl[f].last_update
    /\ \/ fl[f].queue_enter_time = now'
       \/ /\ flights[f].state = "AC_INBOUND" /\ now' \in Checks(pq, f)
          /\ fl[f].queue_enter_time = flights[f].queue_enter_time
    /\ ring = holding_push(holding, f)
    /\ \E d \in Rechecks : now' + d \in Checks(q, f)
    /\ \A g \in Flights \ {f} : SameChecks(pq, q, g)

\* Flight f declares an emergency on its arrival: its fuel is checked at once.
Declared(f) ==
    /\ OnlyBy(f, flights, flights')
    /\ flights[f].state = "AC_INBOUND" /\ flights'[f].state = "AC_INBOUND"
    /\ flights'[f].queue_enter_time = now' /\ Checks(pq', f) = {now'}
    /\ holding' = holding
    /\ \A g \in Flights \ {f} : SameChecks(pq, pq', g)

\* A check finds flight f waiting, and it goes on.
Rechecked(f) ==
    /\ OnlyBy(f, flights, flights')
    /\ flights[f].state = "AC_HOLDING" /\ flights'[f].state = "AC_HOLDING"
    /\ now' <= flights'[f].last_update
    /\ flights'[f].queue_enter_time = flights[f].queue_enter_time
    /\ holding' = holding
    /\ \E d \in Rechecks : now' + d \in Checks(pq', f)
    /\ Count(pq', f, Fuel) = Count(pq, f, Fuel)
    /\ \A g \in Flights \ {f} : SameChecks(pq, pq', g)

\* Nobody waits in the ring and flight f is cleared.
TakesIdle(f) ==
    /\ OnlyBy(f, flights, flights') /\ flights'[f].state = "AC_LANDING"
    /\ holding = <<>> /\ holding' = <<>>
    /\ NoMore(pq, pq', f) /\ \A g \in Flights \ {f} : SameChecks(pq, pq', g)

\* Flight f goes to the end of the ring, with one more check.
Requeued(f) ==
    /\ OnlyBy(f, flights, flights')
    /\ flights[f].state = "AC_HOLDING" /\ flights'[f].state = "AC_HOLDING"
    /\ flights'[f].last_update = flights[f].last_update
    /\ \E t \in Nat : Adds(pq, pq', f, t)

\* Of the ring as it is then, the flight preferred is cleared.
Served(f, fl, ring, q) ==
    /\ \E k \in holding_pop_priority(ring, fl) :
           f = ring[k] /\ holding' = RemoveAt(ring, k)
    /\ OnlyBy(f, fl, flights') /\ flights'[f].state = "AC_LANDING"
    /\ flights'[f].fuel = fl[f].fuel /\ flights'[f].emergency = fl[f].emergency
    /\ flights'[f].user_priority = fl[f].user_priority
    /\ \A g \in Flights : SameChecks(q, pq', g)

\* Flight f leaves its runway, and the flights in the ring see it.
Offered(f, fl, ring, q) ==
    /\ fl \in [Flights -> Aircraft] /\ ring \in Seq(Flights)
    /\ \/ Quiet(fl, ring, q) /\ ring = holding
       \/ Joins(f, fl, ring, q)
    /\ \A g \in Flights : InRing(holding, g) => fl[g] = flights[g]
    /\ \E g \in Flights : Served(g, fl, ring, q)

Shape ==
    \/ Quiet(flights', holding', pq')
    \/ \E f \in Flights :
           \/ Joins(f, flights', holding', pq')
           \/ Declared(f) \/ Rechecked(f) \/ TakesIdle(f)
           \/ \E fl, ring, q : Offered(f, fl, ring, q)

-----------------------------------------------------------------------------
(* Steps that leave the waiting flights alone.                             *)

LEMMA ThinnedSelf ==
  ASSUME NEW ring \in Seq(Flights) PROVE Thinned(ring, ring)
<1> DEFINE m == [k \in DOMAIN ring |-> k]
<1>1. m \in [DOMAIN ring -> DOMAIN ring]
  OBVIOUS
<1>2. /\ \A k \in DOMAIN ring : ring[k] = ring[m[k]]
      /\ \A j, k \in DOMAIN ring : j < k => m[j] < m[k]
  OBVIOUS
<1> HIDE DEF m
<1> QED BY <1>1, <1>2 DEF Thinned

\* The flights that wait or use a runway keep their records.
LEMMA QuietElse ==
  ASSUME TypeOK, NEW fl, NEW ring, NEW q, Thinned(ring, holding),
         \A g \in Flights :
             fl[g].state \in {"AC_HOLDING", "AC_INBOUND", "AC_LANDING", "AC_DEPARTING"}
             => fl[g] = flights[g],
         \A g \in Flights :
             \/ fl[g].state \in {"AC_HOLDING", "AC_INBOUND"}
             \/ flights[g].state = "AC_HOLDING"
             => SameChecks(pq, q, g)
  PROVE  Quiet(fl, ring, q)
BY SameNoMore DEF Quiet

\* Only the handler's own flight changes.
LEMMA QuietBut ==
  ASSUME TypeOK, NEW f, NEW fl, NEW ring, NEW q, Thinned(ring, holding),
         OnlyBy(f, flights, fl), fl[f].state # "AC_HOLDING",
         flights[f].state = "AC_HOLDING" => NoMore(pq, q, f),
         fl[f].state = "AC_INBOUND" =>
             /\ flights[f].state = "AC_INBOUND"
             /\ fl[f].queue_enter_time = flights[f].queue_enter_time
             /\ SameChecks(pq, q, f),
         fl[f].state = "AC_LANDING" => flights[f].state = "AC_LANDING",
         fl[f].state = "AC_DEPARTING" =>
             flights[f].state = "AC_DEPARTING" \/ holding = <<>>,
         \A g \in Flights \ {f} : SameChecks(pq, q, g)
  PROVE  Quiet(fl, ring, q)
<1> SUFFICES ASSUME NEW g \in Flights
             PROVE  /\ fl[g].state = "AC_HOLDING" => fl[g] = flights[g]
                    /\ fl[g].state = "AC_INBOUND" =>
                           /\ flights[g].state = "AC_INBOUND"
                           /\ fl[g].queue_enter_time = flights[g].queue_enter_time
                    /\ fl[g].state \in {"AC_HOLDING", "AC_INBOUND"}
                           => SameChecks(pq, q, g)
                    /\ flights[g].state = "AC_HOLDING" => NoMore(pq, q, g)
                    /\ fl[g].state = "AC_LANDING" => flights[g].state = "AC_LANDING"
                    /\ fl[g].state = "AC_DEPARTING" =>
                           flights[g].state = "AC_DEPARTING" \/ holding = <<>>
  BY DEF Quiet
<1>1. CASE g = f
  BY <1>1
<1>2. CASE g # f
  BY <1>2, SameNoMore DEF OnlyBy
<1> QED BY <1>1, <1>2

\* The event popped is no fuel check, or a check of flight f.
LEMMA PoppedSame ==
  ASSUME TypeOK, pq # <<>>
  PROVE  /\ Head(pq).type # "EVENT_EMERGENCY_FUEL"
              => \A g \in Flights : SameChecks(pq, Tail(pq), g)
         /\ \A g \in Flights : g # Head(pq).flight => SameChecks(pq, Tail(pq), g)
BY SameTail DEF TypeOK, Fuel

LEMMA PlannedSame ==
  ASSUME NEW q \in Seq(AtcEvent(Flights)), NEW f \in Flights, NEW type \in EventType,
         type # "EVENT_EMERGENCY_FUEL", NEW time \in Nat,
         NEW weight \in PRIO_EMERGENCY .. PRIO_ROUTINE,
         NEW g \in Flights, SameChecks(pq, q, g)
  PROVE  SameChecks(pq, schedule(q, f, type, time, weight), g)
BY SameSchedule, SameTrans DEF Fuel

\* A step of the event sources.
LEMMA SourceShape ==
  ASSUME TypeOK, AllTied,
         \/ queue_exhausted \/ drop_stale \/ spawn_aircraft_table_full
         \/ spawn_aircraft \/ on_weather_change \/ AdvanceClock \/ UNCHANGED vars
  PROVE  Quiet(flights', holding', pq')
<1>1. Thinned(holding, holding)
  BY ThinnedSelf DEF TypeOK
<1>2. pq \in Seq(AtcEvent(Flights)) /\ flights \in [Flights -> Aircraft]
  BY DEF TypeOK
<1>3. /\ 0 \in Flights /\ PRIO_ROUTINE \in PRIO_EMERGENCY .. PRIO_ROUTINE
      /\ PRIO_LANDING \in PRIO_EMERGENCY .. PRIO_ROUTINE
  BY SizeAssumption, Weights DEF Positive, Flights
<1>4. CASE queue_exhausted \/ AdvanceClock \/ UNCHANGED vars
  <2>1. flights' = flights /\ holding' = holding /\ pq' = pq
    BY <1>4 DEF queue_exhausted, AdvanceClock, vars
  <2> QED BY <1>1, <2>1, SameSelf, QuietElse
<1>5. CASE drop_stale
  <2>1. /\ flights' = flights /\ holding' = holding /\ pq' = Tail(pq) /\ pq # <<>>
        /\ flights[Head(pq).flight].state \in Gone
    BY <1>5 DEF drop_stale
  <2>2. \A g \in Flights : \/ flights'[g].state \in {"AC_HOLDING", "AC_INBOUND"}
                           \/ flights[g].state = "AC_HOLDING"
                           => SameChecks(pq, pq', g)
    BY <2>1, PoppedSame DEF Gone
  <2> QED BY <1>1, <2>1, <2>2, QuietElse
<1>6. CASE spawn_aircraft_table_full
  <2>1. /\ flights' = flights /\ holding' = holding /\ pq' = Tail(pq) /\ pq # <<>>
        /\ Head(pq).type # "EVENT_EMERGENCY_FUEL"
    BY <1>6 DEF spawn_aircraft_table_full, Pop
  <2> QED BY <1>1, <2>1, PoppedSame, QuietElse
<1>7. CASE on_weather_change
  <2>1. /\ flights' = flights /\ holding' = holding /\ pq # <<>>
        /\ Head(pq).type # "EVENT_EMERGENCY_FUEL"
        /\ Tail(pq) \in Seq(AtcEvent(Flights)) /\ now' \in Nat
    BY <1>7, PopType DEF on_weather_change, Pop
  <2>2. PICK gap \in WeatherGaps : pq' = schedule_weather(Tail(pq), now', gap)
    BY <1>7 DEF on_weather_change
  <2>3. now' + gap \in Nat
    BY <2>1, TimeAssumption, Later
  <2>4. \A g \in Flights : SameChecks(pq, Tail(pq), g)
    BY <2>1, PoppedSame
  <2>5. \A g \in Flights : SameChecks(pq, pq', g)
    <3>1. CASE now' + gap <= horizon
      <4>1. pq' = schedule(Tail(pq), 0, "EVENT_WEATHER_CHANGE", now' + gap, PRIO_ROUTINE)
        BY <2>2, <3>1 DEF schedule_weather
      <4> QED BY <1>3, <2>1, <2>3, <2>4, <4>1, Types, PlannedSame
    <3>2. CASE ~ (now' + gap <= horizon)
      BY <2>2, <2>4, <3>2 DEF schedule_weather
    <3> QED BY <3>1, <3>2
  <2> QED BY <1>1, <2>1, <2>5, QuietElse
<1>8. CASE spawn_aircraft
  <2> DEFINE f == flight_count
             q == RequestRunway(Tail(pq), f)
  <2>1. /\ pq # <<>> /\ Head(pq).type # "EVENT_EMERGENCY_FUEL" /\ f < MAX_FLIGHTS
        /\ Tail(pq) \in Seq(AtcEvent(Flights)) /\ now' \in Nat
        /\ holding' = holding
        /\ \E fuel, wake : flights' = [flights EXCEPT ![f] =
               [Blank EXCEPT !.fuel = fuel, !.wake = wake, !.last_update = now']]
    BY <1>8, PopType DEF spawn_aircraft, Pop
  <2>2. PICK gap \in ArrivalGaps :
            pq' = IF spawning_done' THEN q
                  ELSE schedule(q, 0, "EVENT_AIRCRAFT_ARRIVE", now' + gap, PRIO_ROUTINE)
    BY <1>8 DEF spawn_aircraft
  <2>3. f \in Flights
    BY <2>1, CountFits, SizeAssumption DEF Flights, Positive
  <2>4. /\ flights[f].state = "AC_INBOUND" /\ Count(pq, f, Fuel) = 0
    <3>1. DrivenFor(f, {}, flights, taxi_wait, pq, f)
      BY <2>3 DEF AllTied, Tied, DriveTied
    <3>2. ~ (f < f) /\ Fuel \in SUBSET (Movers \cup Fuel)
      BY CountFits
    <3> QED BY <3>1, <3>2 DEF DrivenFor
  <2>5. \A g \in Flights : SameChecks(pq, Tail(pq), g)
    BY <2>1, PoppedSame
  <2>6. now' + gap \in Nat
    <3>1. gap \in Nat /\ now' \in Nat
      BY <2>1, TimeAssumption
    <3> QED BY <3>1, Later
  <2>7. q \in Seq(AtcEvent(Flights)) /\ \A g \in Flights : SameChecks(pq, q, g)
    <3>1. q = schedule(Tail(pq), f, "EVENT_RUNWAY_REQUEST", now', PRIO_LANDING)
      BY DEF RequestRunway
    <3> HIDE DEF q, f
    <3> QED BY <1>3, <2>1, <2>3, <2>5, <3>1, Types, PlannedSame, ScheduleType
  <2>8. \A g \in Flights : SameChecks(pq, pq', g)
    <3>1. CASE spawning_done'
      BY <2>2, <2>7, <3>1
    <3>2. CASE ~ spawning_done'
      <4>1. pq' = schedule(q, 0, "EVENT_AIRCRAFT_ARRIVE", now' + gap, PRIO_ROUTINE)
        BY <2>2, <3>2
      <4> HIDE DEF q
      <4> QED BY <1>3, <2>6, <2>7, <4>1, Types, PlannedSame
    <3> QED BY <3>1, <3>2
  <2>9. Checks(pq', f) = {}
    <3>1. Checks(pq, f) = {}
      BY <1>2, <2>4, NoChecks
    <3> QED BY <2>3, <2>8, <3>1 DEF SameChecks
  <2>10. /\ \A g \in Flights \ {f} : flights'[g] = flights[g]
         /\ flights'[f].state = "AC_INBOUND"
    BY <1>2, <2>1, <2>3 DEF Blank
  <2> HIDE DEF f, q
  <2> QED BY <1>1, <2>1, <2>4, <2>8, <2>9, <2>10, SameNoMore DEF Quiet, f
<1> QED BY <1>4, <1>5, <1>6, <1>7, <1>8

\* Handlers of flights on the ground, and flights that leave.
LEMMA GroundShape ==
  ASSUME TypeOK, AllTied, NEW f \in Flights,
         on_emergency_moved_on(f) \/ on_emergency_lost(f) \/ on_depart_sector(f)
  PROVE  Quiet(flights', holding', pq')
<1>1. /\ pq # <<>> /\ f = Head(pq).flight /\ flights[f].state \notin Gone
      /\ pq' = Tail(pq)
  BY DEF on_emergency_moved_on, on_emergency_lost, on_depart_sector, Dispatch, Pop
<1>2. \A g \in Flights \ {f} : SameChecks(pq, pq', g)
  BY <1>1, PoppedSame
<1>3. OnlyBy(f, flights, flights')
  BY FlightsTable DEF on_emergency_moved_on, on_emergency_lost, on_depart_sector,
                      OnlyBy, IsTable
<1>4. /\ decay_fuel(flights[f]) \in Aircraft /\ flights \in [Flights -> Aircraft]
      /\ decay_fuel(flights[f]).state = flights[f].state
  <2>1. now' \in Nat
    BY <1>1, PopType DEF on_emergency_moved_on, on_emergency_lost, on_depart_sector,
                         Dispatch, Pop
  <2> QED BY <2>1, DecayType, DecayKeeps DEF TypeOK
<1>5. Thinned(holding', holding)
  <2>1. Thinned(holding, holding) /\ Thinned(holding_remove(holding, f), holding)
    BY ThinnedSelf, RemoveThins DEF TypeOK
  <2> QED BY <2>1 DEF on_emergency_moved_on, on_emergency_lost, on_depart_sector, Unqueued
<1>6. NoMore(pq, pq', f)
  <2>1. /\ Count(pq', f, Fuel) = Count(pq, f, Fuel) - (IF Head(pq).type \in Fuel THEN 1 ELSE 0)
        /\ Count(pq, f, Fuel) \in Nat
    BY <1>1, CountTail, CountType DEF TypeOK
  <2> QED BY <2>1 DEF NoMore
<1>7. CASE on_emergency_moved_on(f)
  <2>1. /\ flights[f].state \notin {"AC_HOLDING", "AC_INBOUND"}
        /\ flights' = [flights EXCEPT ![f] = decay_fuel(flights[f])]
    BY <1>7 DEF on_emergency_moved_on
  <2>2. flights'[f].state = flights[f].state
    BY <1>4, <2>1
  <2> QED BY <1>2, <1>3, <1>5, <1>6, <2>1, <2>2, QuietBut
<1>8. CASE on_emergency_lost(f)
  <2>1. flights' = [flights EXCEPT ![f] =
                       [decay_fuel(flights[f]) EXCEPT !.state = "AC_LOST"]]
    BY <1>8 DEF on_emergency_lost
  <2>2. flights'[f].state = "AC_LOST"
    BY <1>4, <2>1 DEF Aircraft
  <2> QED BY <1>2, <1>3, <1>5, <1>6, <2>2, QuietBut
<1>9. CASE on_depart_sector(f)
  <2>1. flights'[f].state = "AC_DONE"
    BY <1>4, <1>9 DEF on_depart_sector, Aircraft
  <2> QED BY <1>2, <1>3, <1>5, <1>6, <2>1, QuietBut
<1> QED BY <1>7, <1>8, <1>9

\* Gates concern flights on the ground.
LEMMA TryAssignGateQuiet ==
  ASSUME NEW f \in Flights, NEW fl \in [Flights -> Aircraft], NEW gts, NEW ring,
         NEW q \in Seq(AtcEvent(Flights)), now' \in Nat,
         \A g \in Flights : SameChecks(pq, q, g),
         fl[f].state = "AC_TAXI_IN", try_assign_gate(f, fl, gts, ring, q)
  PROVE  /\ OnlyBy(f, fl, flights')
         /\ flights'[f].state \in {"AC_TAXI_IN", "AC_AT_GATE"}
         /\ \A g \in Flights : SameChecks(pq, pq', g)
<1>1. IsTable(fl)
  BY DEF IsTable
<1>2. OnlyBy(f, fl, flights')
  BY <1>1, TryAssignGateTakes
<1>3. flights'[f].state \in {"AC_TAXI_IN", "AC_AT_GATE"}
  <2>1. \/ \E g : flights' = [fl EXCEPT ![f].assigned_gate = g, ![f].state = "AC_AT_GATE",
                                        ![f].total_wait = @ + Waited(fl[f])]
        \/ flights' = fl
    BY Zenon DEF try_assign_gate
  <2> QED BY <2>1 DEF Aircraft
<1>4. \A g \in Flights : SameChecks(pq, pq', g)
  <2>1. now' + GATE_TURNAROUND \in Nat /\ now' + TAXI_RETRY \in Nat
    BY Delays, Later
  <2>2. \/ pq' = schedule(q, f, "EVENT_GATE_RELEASE", now' + GATE_TURNAROUND, PRIO_ROUTINE)
        \/ pq' = q
        \/ pq' = schedule(q, f, "EVENT_TAXI_TO_GATE", now' + TAXI_RETRY, PRIO_ROUTINE)
    BY Zenon DEF try_assign_gate, AwaitGate
  <2> QED BY <2>1, <2>2, Types, Weights, PlannedSame
<1> QED BY <1>2, <1>3, <1>4

LEMMA GateShape ==
  ASSUME TypeOK, AllTied, NEW f \in Flights, on_taxi_to_gate(f) \/ on_gate_release(f)
  PROVE  Quiet(flights', holding', pq')
<1>1. /\ pq # <<>> /\ f = Head(pq).flight /\ Head(pq).type # "EVENT_EMERGENCY_FUEL"
      /\ holding' = holding /\ now' = Head(pq).time
  BY DEF on_taxi_to_gate, on_gate_release, Dispatch, Pop
<1>2. /\ Tail(pq) \in Seq(AtcEvent(Flights)) /\ now' \in Nat
      /\ \A g \in Flights : SameChecks(pq, Tail(pq), g)
  BY <1>1, PopType, PoppedSame
<1>3. flights \in [Flights -> Aircraft] /\ Thinned(holding, holding)
  BY ThinnedSelf DEF TypeOK
<1>4. CASE on_taxi_to_gate(f)
  <2>1. /\ try_assign_gate(f, flights, gates, taxi_wait, Tail(pq))
        /\ Dispatch("EVENT_TAXI_TO_GATE", f) /\ "EVENT_TAXI_TO_GATE" \in Movers
    BY <1>4, MoverTypes DEF on_taxi_to_gate
  <2>2. flights[f].state = "AC_TAXI_IN"
    <3>1. /\ flights[f].state \in AircraftState \ Gone
          /\ Awaited[flights[f].state] = "EVENT_TAXI_TO_GATE"
      BY <2>1, Popped
    <3> QED BY <3>1, StateAwaiting
  <2>3. /\ OnlyBy(f, flights, flights')
        /\ flights'[f].state \in {"AC_TAXI_IN", "AC_AT_GATE"}
        /\ \A g \in Flights : SameChecks(pq, pq', g)
    BY <1>2, <1>3, <2>1, <2>2, TryAssignGateQuiet
  <2> QED BY <1>1, <1>3, <2>2, <2>3, QuietBut
<1>5. CASE on_gate_release(f)
  <2> DEFINE fl == [flights EXCEPT ![f].assigned_gate = None, ![f].state = "AC_TAXI_OUT"]
             q  == schedule(Tail(pq), f, "EVENT_TAKEOFF_READY", now' + TAXI_DURATION,
                            PRIO_TAKEOFF)
  <2>1. /\ Dispatch("EVENT_GATE_RELEASE", f)
        /\ \/ flights' = fl /\ pq' = q
           \/ /\ taxi_wait # <<>>
              /\ \E gts : try_assign_gate(Head(taxi_wait), fl, gts, Tail(taxi_wait), q)
    BY <1>5, Zenon DEF on_gate_release
  <2>2. /\ fl \in [Flights -> Aircraft] /\ OnlyBy(f, flights, fl)
        /\ fl[f].state = "AC_TAXI_OUT"
    <3> DEFINE a == [flights[f] EXCEPT !.assigned_gate = None, !.state = "AC_TAXI_OUT"]
    <3>1. fl = [flights EXCEPT ![f] = a]
      BY <1>3
    <3>2. a \in Aircraft /\ a.state = "AC_TAXI_OUT"
      BY <1>3 DEF Aircraft, AircraftState
    <3> HIDE DEF a, fl
    <3> QED BY <1>3, <3>1, <3>2, Replaced
  <2>3. /\ q \in Seq(AtcEvent(Flights))
        /\ \A g \in Flights : SameChecks(pq, q, g)
    <3>1. now' + TAXI_DURATION \in Nat
      BY <1>2, Delays, Later
    <3>2. q \in Seq(AtcEvent(Flights))
      BY <1>2, <3>1, Types, Weights, ScheduleType
    <3>3. \A g \in Flights : SameChecks(pq, q, g)
      BY <1>2, <3>1, Types, Weights, PlannedSame
    <3> QED BY <3>2, <3>3
  <2> HIDE DEF fl, q
  <2>4. flights[f].state = "AC_AT_GATE"
    BY <2>1, MoverTypes, Popped, StateAwaiting
  <2>5. CASE flights' = fl /\ pq' = q
    BY <1>1, <1>3, <2>2, <2>3, <2>5, <2>4, QuietBut
  <2>6. CASE /\ taxi_wait # <<>>
             /\ \E gts : try_assign_gate(Head(taxi_wait), fl, gts, Tail(taxi_wait), q)
    <3> DEFINE h == Head(taxi_wait)
    <3>1. h \in Flights /\ flights[h].state = "AC_TAXI_IN"
      <4>1. 1 \in DOMAIN taxi_wait /\ Head(taxi_wait) = taxi_wait[1]
        BY <2>6, EmptySeq, LenProperties DEF TypeOK
      <4>2. taxi_wait[1] \in Flights
        BY <4>1, ElementOfSeq DEF TypeOK
      <4> QED BY <4>1, <4>2 DEF AllTied, Tied, RingsTied, Waiting
    <3>2. fl[h].state = "AC_TAXI_IN"
      BY <2>2, <2>4, <3>1 DEF OnlyBy
    <3> HIDE DEF h
    <3>3. /\ OnlyBy(h, fl, flights')
          /\ flights'[h].state \in {"AC_TAXI_IN", "AC_AT_GATE"}
          /\ \A g \in Flights : SameChecks(pq, pq', g)
      BY <1>2, <2>2, <2>3, <2>6, <3>1, <3>2, TryAssignGateQuiet DEF h
    <3>4. \A g \in Flights :
              flights'[g].state \in {"AC_HOLDING", "AC_INBOUND", "AC_LANDING", "AC_DEPARTING"}
              => flights'[g] = flights[g]
      BY <2>2, <3>3 DEF OnlyBy
    <3> QED BY <1>1, <1>3, <3>3, <3>4, QuietElse
  <2> QED BY <2>1, <2>5, <2>6
<1> QED BY <1>4, <1>5

\* A departure starts only while nobody waits in the ring.
LEMMA TakeoffReadyShape ==
  ASSUME TypeOK, AllTied, NothingIdleWhileWanted, NEW f \in Flights, on_takeoff_ready(f)
  PROVE  Quiet(flights', holding', pq')
<1> DEFINE fl == [flights EXCEPT ![f].queue_enter_time = now']
<1>1. /\ Dispatch("EVENT_TAKEOFF_READY", f) /\ holding' = holding
      /\ \/ /\ \E rw \in find_idle_runway(runways) :
                   flights' = [fl EXCEPT ![f].assigned_runway = rw,
                                         ![f].state = "AC_DEPARTING",
                                         ![f].total_wait = @ + Waited(fl[f])]
            /\ pq' = schedule(Tail(pq), f, "EVENT_TAKEOFF_CLEAR",
                              now' + Occupancy(TAKEOFF_PREP, fl[f].wake), PRIO_TAKEOFF)
         \/ /\ flights' = fl
            /\ pq' = schedule(Tail(pq), f, "EVENT_TAKEOFF_READY", now' + TAKEOFF_RETRY,
                              PRIO_TAKEOFF)
  BY Zenon DEF on_takeoff_ready
<1>2. /\ pq # <<>> /\ f = Head(pq).flight /\ Head(pq).type # "EVENT_EMERGENCY_FUEL"
      /\ now' = Head(pq).time
  BY <1>1 DEF Dispatch, Pop
<1>3. /\ Tail(pq) \in Seq(AtcEvent(Flights)) /\ now' \in Nat
      /\ \A g \in Flights : SameChecks(pq, Tail(pq), g)
  BY <1>2, PopType, PoppedSame
<1>4. /\ flights \in [Flights -> Aircraft] /\ weather \in Weather
      /\ Thinned(holding, holding)
  BY ThinnedSelf DEF TypeOK
<1>5. flights[f].state = "AC_TAXI_OUT"
  BY <1>1, MoverTypes, Popped, StateAwaiting
<1>6. /\ fl[f].state = "AC_TAXI_OUT" /\ fl[f].wake \in Wake /\ OnlyBy(f, flights, fl)
      /\ IsTable(fl) /\ fl[f] = [flights[f] EXCEPT !.queue_enter_time = now']
  BY <1>4, <1>5 DEF Aircraft, OnlyBy, IsTable
<1>7. \A g \in Flights : SameChecks(pq, pq', g)
  <2>1. now' + Occupancy(TAKEOFF_PREP, fl[f].wake) \in Nat
    BY <1>3, <1>4, <1>6, Delays, OccupancyType, Later
  <2>2. now' + TAKEOFF_RETRY \in Nat
    BY <1>3, Delays, Later
  <2> HIDE DEF fl
  <2>3. \E time \in Nat, type \in EventType \ {"EVENT_EMERGENCY_FUEL"} :
            pq' = schedule(Tail(pq), f, type, time, PRIO_TAKEOFF)
    BY <1>1, <2>1, <2>2, Types
  <2> QED BY <1>3, <2>3, Weights, PlannedSame
<1>8. OnlyBy(f, flights, flights')
  BY <1>1, <1>6 DEF OnlyBy, IsTable
<1> HIDE DEF fl
<1>9. CASE \E rw \in find_idle_runway(runways) :
               flights' = [fl EXCEPT ![f].assigned_runway = rw,
                                     ![f].state = "AC_DEPARTING",
                                     ![f].total_wait = @ + Waited(fl[f])]
  <2>1. ~ NoIdleRunway(runways)
    BY <1>9 DEF find_idle_runway, NoIdleRunway
  <2>2. holding = <<>>
    BY <2>1 DEF NothingIdleWhileWanted
  <2>3. flights'[f].state = "AC_DEPARTING"
    BY <1>4, <1>6, <1>9 DEF IsTable, Aircraft
  <2> QED BY <1>1, <1>4, <1>5, <1>7, <1>8, <2>2, <2>3, QuietBut
<1>10. CASE flights' = fl
  BY <1>1, <1>4, <1>5, <1>6, <1>7, <1>8, <1>10, QuietBut
<1> QED BY <1>1, <1>9, <1>10

\* Commands that set a flag.
LEMMA FlagShape ==
  ASSUME TypeOK, NEW f \in Flights,
         sim_cmd_prioritize_inbound(f) \/ sim_cmd_go_around(f)
  PROVE  Quiet(flights', holding', pq')
<1>1. pq' = pq /\ holding' = holding /\ flights[f].state \in {"AC_INBOUND", "AC_LANDING"}
  BY DEF sim_cmd_prioritize_inbound, sim_cmd_go_around, Commanded
<1>2. /\ OnlyBy(f, flights, flights') /\ flights'[f].state = flights[f].state
      /\ flights'[f].queue_enter_time = flights[f].queue_enter_time
  <2>1. flights \in [Flights -> Aircraft]
    BY DEF TypeOK
  <2>2. \/ flights' = [flights EXCEPT ![f].user_priority = TRUE]
        \/ flights' = [flights EXCEPT ![f].force_go_around = TRUE]
    BY DEF sim_cmd_prioritize_inbound, sim_cmd_go_around
  <2> QED BY <2>1, <2>2 DEF OnlyBy, Aircraft
<1>3. Thinned(holding, holding)
  BY ThinnedSelf DEF TypeOK
<1> QED BY <1>1, <1>2, <1>3, SameSelf, QuietBut

-----------------------------------------------------------------------------
(* Steps that clear flights to land, and steps that make them wait.        *)

LEMMA Clears ==
  ASSUME NEW f \in Flights, NEW rw, NEW fl \in [Flights -> Aircraft], NEW rws, NEW ring,
         NEW q \in Seq(AtcEvent(Flights)), NEW st,
         NEW weight \in PRIO_EMERGENCY .. PRIO_ROUTINE, now' \in Nat, weather \in Weather,
         ClearToLand(f, rw, fl, rws, ring, q, st, weight)
  PROVE  /\ OnlyBy(f, fl, flights') /\ flights'[f].state = "AC_LANDING"
         /\ flights'[f].fuel = fl[f].fuel /\ flights'[f].emergency = fl[f].emergency
         /\ flights'[f].user_priority = fl[f].user_priority
         /\ holding' = ring
         /\ \A g \in Flights : SameChecks(q, pq', g)
<1> DEFINE w == Waited(fl[f])
           a == [fl[f] EXCEPT !.assigned_runway = rw, !.state = "AC_LANDING",
                              !.total_wait = @ + w]
<1>1. fl[f] \in Aircraft /\ fl[f].wake \in Wake
  BY DEF Aircraft
<1>2. /\ flights' = [fl EXCEPT ![f] = a] /\ holding' = ring
      /\ pq' = schedule(q, f, "EVENT_TOUCHDOWN",
                        now' + Occupancy(RUNWAY_LANDING_T, fl[f].wake), weight)
  BY <1>1 DEF ClearToLand
<1>3. /\ a.state = "AC_LANDING" /\ a.fuel = fl[f].fuel
      /\ a.emergency = fl[f].emergency /\ a.user_priority = fl[f].user_priority
  BY <1>1 DEF Aircraft
<1> HIDE DEF a
<1>4. OnlyBy(f, fl, flights') /\ flights'[f] = a
  BY <1>2, Replaced
<1>5. now' + Occupancy(RUNWAY_LANDING_T, fl[f].wake) \in Nat
  BY <1>1, Delays, OccupancyType, Later
<1>6. \A g \in Flights : SameChecks(q, pq', g)
  BY <1>2, <1>5, Types, SameSchedule DEF Fuel
<1> QED BY <1>2, <1>3, <1>4, <1>6

\* free_runway has an idle runway to give: the one that it released.
LEMMA FreeRunwayServes ==
  ASSUME NEW rw \in Runways, NEW fl \in [Flights -> Aircraft], NEW ring \in Seq(Flights),
         NEW q \in Seq(AtcEvent(Flights)), NEW st, runways \in [Runways -> Runway],
         now' \in Nat, weather \in Weather, free_runway(rw, fl, ring, q, st)
  PROVE  \/ flights' = fl /\ holding' = ring /\ pq' = q
         \/ \E f \in Flights : Served(f, fl, ring, q)
<1> DEFINE rws == [runways EXCEPT ![rw] = [state |-> "RW_IDLE", occupant |-> None]]
<1>1. ~ NoIdleRunway(rws)
  BY DEF NoIdleRunway
<1>2. \/ flights' = fl /\ holding' = ring /\ pq' = q
      \/ \E k \in holding_pop_priority(ring, fl) :
             try_assign_landing(ring[k], fl, rws, RemoveAt(ring, k), q, st)
  BY Zenon DEF free_runway
<1> HIDE DEF rws
<1>3. ASSUME NEW k \in holding_pop_priority(ring, fl),
             try_assign_landing(ring[k], fl, rws, RemoveAt(ring, k), q, st)
      PROVE  \E f \in Flights : Served(f, fl, ring, q)
  <2> DEFINE f == ring[k]
  <2>1. f \in Flights
    <3>1. k \in DOMAIN ring
      BY <1>3 DEF holding_pop_priority
    <3> QED BY <3>1, ElementOfSeq
  <2>2. \E r \in find_idle_runway(rws) :
            ClearToLand(f, r, fl, rws, RemoveAt(ring, k), q, st, LandingWeight(fl[f]))
    BY <1>1, <1>3 DEF try_assign_landing
  <2>3. LandingWeight(fl[f]) \in PRIO_EMERGENCY .. PRIO_ROUTINE
    BY WeightType
  <2> HIDE DEF f
  <2>4. /\ OnlyBy(f, fl, flights') /\ flights'[f].state = "AC_LANDING"
        /\ flights'[f].fuel = fl[f].fuel /\ flights'[f].emergency = fl[f].emergency
        /\ flights'[f].user_priority = fl[f].user_priority
        /\ holding' = RemoveAt(ring, k)
        /\ \A g \in Flights : SameChecks(q, pq', g)
    BY <2>1, <2>2, <2>3, Clears
  <2>5. \E j \in holding_pop_priority(ring, fl) : f = ring[j] /\ holding' = RemoveAt(ring, j)
    BY <1>3, <2>4 DEF f
  <2> QED BY <2>1, <2>4, <2>5 DEF Served
<1> QED BY <1>2, <1>3

\* The flights in the ring hold, and the flight f of a handler is not one of
\* them unless it holds too.
LEMMA RingKept ==
  ASSUME TypeOK, AllTied, NEW f, flights[f].state # "AC_HOLDING",
         NEW fl, OnlyBy(f, flights, fl)
  PROVE  /\ ~ InRing(holding, f)
         /\ \A g \in Flights : InRing(holding, g) => fl[g] = flights[g]
<1>1. ~ InRing(holding, f)
  BY DEF AllTied, Tied, RingsTied, Waiting, InRing
<1> QED BY <1>1 DEF OnlyBy, InRing

LEMMA ReleaseShape ==
  ASSUME TypeOK, AllTied, now' \in Nat,
         NEW f \in Flights, flights[f].state # "AC_HOLDING",
         NEW fl \in [Flights -> Aircraft], OnlyBy(f, flights, fl),
         NEW rw \in Runways, NEW ring \in Seq(Flights),
         NEW q \in Seq(AtcEvent(Flights)), NEW st,
         \/ Quiet(fl, ring, q) /\ ring = holding
         \/ Joins(f, fl, ring, q),
         free_runway(rw, fl, ring, q, st)
  PROVE  Shape
<1>1. \/ flights' = fl /\ holding' = ring /\ pq' = q
      \/ \E g \in Flights : Served(g, fl, ring, q)
  BY FreeRunwayServes DEF TypeOK
<1>2. CASE flights' = fl /\ holding' = ring /\ pq' = q
  BY <1>2 DEF Shape
<1>3. CASE \E g \in Flights : Served(g, fl, ring, q)
  <2>1. Offered(f, fl, ring, q)
    BY <1>3, RingKept DEF Offered
  <2> QED BY <2>1 DEF Shape
<1> QED BY <1>1, <1>2, <1>3

\* Bringing the fuel up to date.
LEMMA DecayDoes ==
  ASSUME NEW a \in Aircraft, now' \in Nat
  PROVE  /\ decay_fuel(a).emergency = a.emergency
         /\ decay_fuel(a).user_priority = a.user_priority
         /\ decay_fuel(a).fuel <= a.fuel
         /\ now' <= decay_fuel(a).last_update
<1>1. CASE now' > a.last_update
  <2> DEFINE burnt == FUEL_BURN_RATE * (now' - a.last_update)
             left  == IF burnt < a.fuel THEN a.fuel - burnt ELSE 0
  <2>1. burnt \in Nat
    <3>1. FUEL_BURN_RATE \in Nat /\ now' - a.last_update \in Nat
      BY <1>1, FuelAssumption DEF Aircraft, Positive
    <3> QED BY <3>1
  <2>2. a.fuel \in Nat
    BY DEF Aircraft
  <2>3. decay_fuel(a) = [a EXCEPT !.fuel = left, !.last_update = now']
    BY <1>1 DEF decay_fuel, Aircraft
  <2> HIDE DEF burnt
  <2>4. left <= a.fuel
    BY <2>1, <2>2
  <2> HIDE DEF left
  <2> QED BY <2>3, <2>4 DEF Aircraft
<1>2. CASE ~ (now' > a.last_update)
  BY <1>2 DEF decay_fuel, Aircraft
<1> QED BY <1>1, <1>2

LEMMA TouchdownShape ==
  ASSUME TypeOK, AllTied, NEW f \in Flights, on_touchdown(f) PROVE Shape
<1> DEFINE b == decay_fuel(flights[f])
           a == [b EXCEPT !.assigned_runway = None, !.state = "AC_TAXI_IN",
                          !.queue_enter_time = now']
           fl == [flights EXCEPT ![f] = a]
           q == schedule(Tail(pq), f, "EVENT_TAXI_TO_GATE", now' + TAXI_DURATION,
                         PRIO_ROUTINE)
<1>1. /\ Dispatch("EVENT_TOUCHDOWN", f) /\ "EVENT_TOUCHDOWN" \in Movers
      /\ \E st : free_runway(b.assigned_runway, fl, holding, q, st)
  BY MoverTypes, Zenon DEF on_touchdown
<1>2. /\ pq # <<>> /\ f = Head(pq).flight /\ Head(pq).type # "EVENT_EMERGENCY_FUEL"
      /\ now' = Head(pq).time
  BY <1>1 DEF Dispatch, Pop
<1>3. /\ Tail(pq) \in Seq(AtcEvent(Flights)) /\ now' \in Nat
      /\ \A g \in Flights : SameChecks(pq, Tail(pq), g)
  BY <1>2, PopType, PoppedSame
<1>4. flights \in [Flights -> Aircraft] /\ holding \in Seq(Flights) /\ flights[f] \in Aircraft
  BY DEF TypeOK
<1>5. flights[f].state = "AC_LANDING"
  <2>1. /\ flights[f].state \in AircraftState \ Gone
        /\ Awaited[flights[f].state] = "EVENT_TOUCHDOWN"
    BY <1>1, Popped
  <2> QED BY <2>1, StateAwaiting
<1>6. b \in Aircraft /\ b.assigned_runway = flights[f].assigned_runway
  BY <1>3, <1>4, DecayType, DecayKeeps
<1>7. b.assigned_runway \in Runways
  BY <1>5, <1>6, OnRunway
<1> HIDE DEF b
<1>8. a \in Aircraft /\ a.state = "AC_TAXI_IN"
  BY <1>3, <1>6 DEF Aircraft, AircraftState
<1> HIDE DEF a
<1>9. fl \in [Flights -> Aircraft] /\ OnlyBy(f, flights, fl) /\ fl[f].state = "AC_TAXI_IN"
  BY <1>4, <1>8, Replaced
<1>10. q \in Seq(AtcEvent(Flights)) /\ \A g \in Flights : SameChecks(pq, q, g)
  <2>1. now' + TAXI_DURATION \in Nat
    BY <1>3, Delays, Later
  <2> QED BY <1>3, <2>1, Types, Weights, PlannedSame, ScheduleType
<1> HIDE DEF fl, q
<1>11. Quiet(fl, holding, q)
  BY <1>4, <1>5, <1>9, <1>10, ThinnedSelf, QuietBut
<1> QED BY <1>1, <1>3, <1>4, <1>5, <1>7, <1>9, <1>10, <1>11, ReleaseShape

LEMMA TakeoffClearShape ==
  ASSUME TypeOK, AllTied, NEW f \in Flights, on_takeoff_clear(f) PROVE Shape
<1> DEFINE a == [flights[f] EXCEPT !.assigned_runway = None, !.state = "AC_AIRBORNE_OUT"]
           fl == [flights EXCEPT ![f] = a]
           q == schedule(Tail(pq), f, "EVENT_DEPART_SECTOR", now' + RUNWAY_TAKEOFF_T,
                         PRIO_ROUTINE)
<1>1. flights \in [Flights -> Aircraft] /\ holding \in Seq(Flights) /\ flights[f] \in Aircraft
  BY DEF TypeOK
<1>2. [flights EXCEPT ![f].assigned_runway = None, ![f].state = "AC_AIRBORNE_OUT"] = fl
  BY <1>1
<1>3. /\ Dispatch("EVENT_TAKEOFF_CLEAR", f) /\ "EVENT_TAKEOFF_CLEAR" \in Movers
      /\ free_runway(flights[f].assigned_runway, fl, holding, q, stats)
  BY <1>2, MoverTypes DEF on_takeoff_clear
<1>4. /\ pq # <<>> /\ f = Head(pq).flight /\ Head(pq).type # "EVENT_EMERGENCY_FUEL"
      /\ now' = Head(pq).time
  BY <1>3 DEF Dispatch, Pop
<1>5. /\ Tail(pq) \in Seq(AtcEvent(Flights)) /\ now' \in Nat
      /\ \A g \in Flights : SameChecks(pq, Tail(pq), g)
  BY <1>4, PopType, PoppedSame
<1>6. flights[f].state = "AC_DEPARTING"
  <2>1. /\ flights[f].state \in AircraftState \ Gone
        /\ Awaited[flights[f].state] = "EVENT_TAKEOFF_CLEAR"
    BY <1>3, Popped
  <2> QED BY <2>1, StateAwaiting
<1>7. flights[f].assigned_runway \in Runways
  BY <1>6, OnRunway
<1>8. a \in Aircraft /\ a.state = "AC_AIRBORNE_OUT"
  BY <1>1 DEF Aircraft, AircraftState
<1> HIDE DEF a
<1>9. fl \in [Flights -> Aircraft] /\ OnlyBy(f, flights, fl) /\ fl[f].state = "AC_AIRBORNE_OUT"
  BY <1>1, <1>8, Replaced
<1>10. q \in Seq(AtcEvent(Flights)) /\ \A g \in Flights : SameChecks(pq, q, g)
  <2>1. now' + RUNWAY_TAKEOFF_T \in Nat
    BY <1>5, Delays, Later
  <2> QED BY <1>5, <2>1, Types, Weights, PlannedSame, ScheduleType
<1> HIDE DEF fl, q
<1>11. Quiet(fl, holding, q)
  BY <1>1, <1>6, <1>9, <1>10, ThinnedSelf, QuietBut
<1> QED BY <1>1, <1>3, <1>5, <1>6, <1>7, <1>9, <1>10, <1>11, ReleaseShape

LEMMA GoAroundShape ==
  ASSUME TypeOK, AllTied, NEW f \in Flights, on_touchdown_go_around(f) PROVE Shape
<1> DEFINE b == decay_fuel(flights[f])
           a == [b EXCEPT !.force_go_around = FALSE, !.assigned_runway = None,
                          !.go_arounds = @ + 1, !.state = "AC_HOLDING",
                          !.queue_enter_time = now']
           fl == [flights EXCEPT ![f] = a]
           ring == holding_push(holding, f)
           q == CheckFuelAfter(Tail(pq), f, b, GO_AROUND_RECHECK)
<1>1. /\ Dispatch("EVENT_TOUCHDOWN", f) /\ "EVENT_TOUCHDOWN" \in Movers
      /\ \E st : free_runway(b.assigned_runway, fl, ring, q, st)
  BY MoverTypes, Zenon DEF on_touchdown_go_around
<1>2. /\ pq # <<>> /\ f = Head(pq).flight /\ Head(pq).type # "EVENT_EMERGENCY_FUEL"
      /\ now' = Head(pq).time
  BY <1>1 DEF Dispatch, Pop
<1>3. /\ Tail(pq) \in Seq(AtcEvent(Flights)) /\ now' \in Nat
      /\ \A g \in Flights : SameChecks(pq, Tail(pq), g)
  BY <1>2, PopType, PoppedSame
<1>4. flights \in [Flights -> Aircraft] /\ flights[f] \in Aircraft
  BY DEF TypeOK
<1>5. flights[f].state = "AC_LANDING"
  <2>1. /\ flights[f].state \in AircraftState \ Gone
        /\ Awaited[flights[f].state] = "EVENT_TOUCHDOWN"
    BY <1>1, Popped
  <2> QED BY <2>1, StateAwaiting
<1>6. /\ b \in Aircraft /\ b.assigned_runway = flights[f].assigned_runway
      /\ now' <= b.last_update
  BY <1>3, <1>4, DecayType, DecayKeeps, DecayDoes
<1>7. b.assigned_runway \in Runways
  BY <1>5, <1>6, OnRunway
<1>8. Adds(Tail(pq), q, f, now' + GO_AROUND_RECHECK)
  BY <1>3, Delays, AddsCheckFuel
<1>9. ring \in Seq(Flights)
  BY PushRingType DEF TypeOK
<1> HIDE DEF b, q
<1>10. /\ a \in Aircraft /\ a.state = "AC_HOLDING" /\ a.queue_enter_time = now'
       /\ a.last_update = b.last_update
  <2> DEFINE count == b.go_arounds + 1
  <2>1. count \in Nat
    BY <1>6 DEF Aircraft
  <2>2. a = [b EXCEPT !.force_go_around = FALSE, !.assigned_runway = None,
                      !.go_arounds = count, !.state = "AC_HOLDING",
                      !.queue_enter_time = now']
    BY <1>6 DEF Aircraft
  <2> HIDE DEF count, a
  <2>3. a \in Aircraft
    BY <1>3, <1>6, <2>1, <2>2 DEF Aircraft, AircraftState
  <2> QED BY <1>6, <2>2, <2>3 DEF Aircraft
<1> HIDE DEF a
<1>11. fl \in [Flights -> Aircraft] /\ OnlyBy(f, flights, fl) /\ fl[f] = a
  BY <1>4, <1>10, Replaced
<1> HIDE DEF fl, ring
<1>12. Joins(f, fl, ring, q)
  <2>1. \A g \in Flights \ {f} : SameChecks(pq, q, g)
    BY <1>3, <1>8, SameTrans DEF Adds
  <2>2. \E d \in Rechecks : now' + d \in Checks(q, f)
    BY <1>8 DEF Adds, Rechecks
  <2> QED BY <1>5, <1>6, <1>10, <1>11, <2>1, <2>2 DEF Joins, ring
<1>13. q \in Seq(AtcEvent(Flights))
  BY <1>8 DEF Adds
<1> QED BY <1>1, <1>3, <1>5, <1>7, <1>9, <1>11, <1>12, <1>13, ReleaseShape

LEMMA DivertShape ==
  ASSUME TypeOK, AllTied, NEW f \in Flights, sim_cmd_divert(f) PROVE Shape
<1> DEFINE a  == [flights[f] EXCEPT !.assigned_runway = None, !.emergency = FALSE,
                                    !.state = "AC_DIVERTED"]
           fl == [flights EXCEPT ![f] = a]
<1>1. /\ flights[f].state \in {"AC_INBOUND", "AC_HOLDING", "AC_LANDING"} /\ now' = now
      /\ \/ /\ flights[f].assigned_runway # None
            /\ \E st : free_runway(flights[f].assigned_runway, fl, Unqueued(f), pq, st)
         \/ flights' = fl /\ holding' = Unqueued(f) /\ pq' = pq
  BY Zenon DEF sim_cmd_divert, Commanded, Diverted, DivertedIn
<1>2. /\ flights \in [Flights -> Aircraft] /\ flights[f] \in Aircraft
      /\ pq \in Seq(AtcEvent(Flights)) /\ now' \in Nat /\ holding \in Seq(Flights)
  BY <1>1 DEF TypeOK
<1>3. a \in Aircraft /\ a.state = "AC_DIVERTED"
  BY <1>2 DEF Aircraft, AircraftState
<1> HIDE DEF a
<1>4. fl \in [Flights -> Aircraft] /\ OnlyBy(f, flights, fl) /\ fl[f].state = "AC_DIVERTED"
  BY <1>2, <1>3, Replaced
<1> HIDE DEF fl
<1>5. Thinned(Unqueued(f), holding)
  BY <1>2, ThinnedSelf, RemoveThins DEF Unqueued
<1>6. Quiet(fl, Unqueued(f), pq)
  BY <1>4, <1>5, SameSelf, SameNoMore, QuietBut
<1>7. CASE flights' = fl /\ holding' = Unqueued(f) /\ pq' = pq
  BY <1>6, <1>7 DEF Shape
<1>8. CASE /\ flights[f].assigned_runway # None
           /\ \E st : free_runway(flights[f].assigned_runway, fl, Unqueued(f), pq, st)
  <2>1. flights[f].state = "AC_LANDING"
    <3>1. flights[f].assigned_runway # None
            => flights[f].state \in {"AC_LANDING", "AC_DEPARTING"}
      BY RunwayOf DEF TypeOK, AllTied, Tied
    <3> QED BY <1>1, <1>8, <3>1
  <2>2. flights[f].assigned_runway \in Runways
    BY <2>1, OnRunway
  <2>3. Unqueued(f) = holding
    BY <2>1 DEF Unqueued
  <2> QED BY <1>2, <1>4, <1>6, <1>8, <2>1, <2>2, <2>3, ReleaseShape
<1> QED BY <1>1, <1>7, <1>8

\* A handler that finds a runway idle finds the ring empty.
LEMMA IdleTakes ==
  ASSUME TypeOK, NothingIdleWhileWanted, now' \in Nat, NEW f \in Flights,
         NEW fl \in [Flights -> Aircraft], OnlyBy(f, flights, fl), NEW ring,
         holding = <<>> => ring = <<>>,
         NEW q \in Seq(AtcEvent(Flights)), NoMore(pq, q, f),
         \A g \in Flights \ {f} : SameChecks(pq, q, g),
         NEW st, NEW weight \in PRIO_EMERGENCY .. PRIO_ROUTINE,
         \E rw \in find_idle_runway(runways) :
             ClearToLand(f, rw, fl, runways, ring, q, st, weight)
  PROVE  TakesIdle(f)
<1>1. ~ NoIdleRunway(runways)
  BY DEF find_idle_runway, NoIdleRunway
<1>2. holding = <<>>
  BY <1>1 DEF NothingIdleWhileWanted
<1>3. /\ OnlyBy(f, fl, flights') /\ flights'[f].state = "AC_LANDING"
      /\ holding' = ring /\ \A g \in Flights : SameChecks(q, pq', g)
  BY Clears DEF TypeOK
<1>4. OnlyBy(f, flights, flights')
  BY <1>3 DEF OnlyBy
<1>5. \A g \in Flights \ {f} : SameChecks(pq, pq', g)
  BY <1>3, SameTrans
<1>6. NoMore(pq, pq', f)
  BY <1>3 DEF NoMore, SameChecks
<1> QED BY <1>2, <1>3, <1>4, <1>5, <1>6 DEF TakesIdle

LEMMA RequestShape ==
  ASSUME TypeOK, AllTied, NothingIdleWhileWanted, NEW f \in Flights, on_runway_request(f)
  PROVE  Shape
<1> DEFINE b  == decay_fuel(flights[f])
           a  == [b EXCEPT !.queue_enter_time = now']
           fl == [flights EXCEPT ![f] = a]
           q  == Tail(pq)
<1>1. Dispatch("EVENT_RUNWAY_REQUEST", f) /\ "EVENT_RUNWAY_REQUEST" \in Movers
  BY MoverTypes DEF on_runway_request
<1>2. \/ /\ flights' = [fl EXCEPT ![f].emergency = TRUE]
         /\ pq' = schedule(q, f, "EVENT_EMERGENCY_FUEL", now', PRIO_EMERGENCY)
         /\ holding' = holding
      \/ \E rw \in find_idle_runway(runways) :
             ClearToLand(f, rw, fl, runways, holding, q, stats, LandingWeight(fl[f]))
      \/ EnterHolding(f, fl, runways, holding, q, stats, HOLD_RECHECK)
  BY Zenon DEF on_runway_request, try_assign_landing
<1>3. /\ pq # <<>> /\ f = Head(pq).flight /\ Head(pq).type = "EVENT_RUNWAY_REQUEST"
      /\ now' = Head(pq).time
  BY <1>1 DEF Dispatch, Pop
<1>4. /\ q \in Seq(AtcEvent(Flights)) /\ now' \in Nat
      /\ \A g \in Flights : SameChecks(pq, q, g)
  BY <1>3, PopType, PoppedSame
<1>5. /\ flights \in [Flights -> Aircraft] /\ flights[f] \in Aircraft
      /\ pq \in Seq(AtcEvent(Flights))
  BY DEF TypeOK
<1>6. f < flight_count /\ flights[f].state = "AC_INBOUND"
  <2>1. /\ flights[f].state \in AircraftState \ Gone /\ f < flight_count
        /\ Awaited[flights[f].state] = "EVENT_RUNWAY_REQUEST"
    BY <1>1, Popped
  <2> QED BY <2>1, StateAwaiting
<1>7. b \in Aircraft /\ now' <= b.last_update /\ b.state = flights[f].state
  BY <1>4, <1>5, DecayType, DecayKeeps, DecayDoes
<1> HIDE DEF b
<1>8. /\ a \in Aircraft /\ a.queue_enter_time = now' /\ now' <= a.last_update
      /\ a.state = "AC_INBOUND"
  BY <1>4, <1>6, <1>7 DEF Aircraft
<1> HIDE DEF a
<1>9. fl \in [Flights -> Aircraft] /\ OnlyBy(f, flights, fl) /\ fl[f] = a
  BY <1>5, <1>8, Replaced
<1> HIDE DEF fl
<1>10. CASE /\ flights' = [fl EXCEPT ![f].emergency = TRUE]
            /\ pq' = schedule(q, f, "EVENT_EMERGENCY_FUEL", now', PRIO_EMERGENCY)
            /\ holding' = holding
  <2>1. /\ OnlyBy(f, flights, flights') /\ flights'[f].state = "AC_INBOUND"
        /\ flights'[f].queue_enter_time = now'
    BY <1>8, <1>9, <1>10 DEF OnlyBy, Aircraft
  <2>2. Adds(q, pq', f, now')
    BY <1>4, <1>10, Weights, AddsSchedule
  <2>3. Checks(pq, f) = {}
    <3>1. Driven("AC_INBOUND", InRing(taxi_wait, f), pq, f)
      BY <1>6 DEF AllTied, Tied, DriveTied, DrivenFor, Gone
    <3>2. Count(pq, f, Asking \cup Fuel) = 1
      BY <3>1 DEF Driven
    <3>3. Count(q, f, Asking \cup Fuel) = Count(pq, f, Asking \cup Fuel) - 1
      BY <1>3, <1>5, CountTail DEF Asking
    <3>4. Count(q, f, Fuel) <= Count(q, f, Asking \cup Fuel)
      BY <1>4, CountMono
    <3>5. Count(q, f, Fuel) \in Nat
      BY <1>4, CountType
    <3>6. Count(q, f, Fuel) = 0
      BY <3>2, <3>3, <3>4, <3>5
    <3>7. Checks(q, f) = {}
      BY <1>4, <3>6, NoChecks
    <3> QED BY <1>4, <3>7 DEF SameChecks
  <2>4. Checks(pq', f) = {now'}
    BY <1>4, <2>2, <2>3 DEF Adds, SameChecks
  <2>5. \A g \in Flights \ {f} : SameChecks(pq, pq', g)
    BY <1>4, <2>2, SameTrans DEF Adds
  <2>6. Declared(f)
    BY <1>6, <1>10, <2>1, <2>4, <2>5 DEF Declared
  <2> QED BY <2>6 DEF Shape
<1>11. CASE \E rw \in find_idle_runway(runways) :
                ClearToLand(f, rw, fl, runways, holding, q, stats, LandingWeight(fl[f]))
  <2>1. TakesIdle(f)
    BY <1>4, <1>9, <1>11, WeightType, SameNoMore, IdleTakes
  <2> QED BY <2>1 DEF Shape
<1>12. CASE EnterHolding(f, fl, runways, holding, q, stats, HOLD_RECHECK)
  <2>1. /\ flights' = [fl EXCEPT ![f].state = "AC_HOLDING"]
        /\ holding' = holding_push(holding, f)
        /\ pq' = CheckFuelAfter(q, f, fl[f], HOLD_RECHECK)
    BY <1>12 DEF EnterHolding
  <2>2. /\ OnlyBy(f, flights, flights') /\ flights'[f].state = "AC_HOLDING"
        /\ flights'[f].queue_enter_time = now' /\ now' <= flights'[f].last_update
    BY <1>8, <1>9, <2>1 DEF OnlyBy, Aircraft
  <2>3. Adds(q, pq', f, now' + HOLD_RECHECK)
    BY <1>4, <2>1, Delays, AddsCheckFuel
  <2>4. \A g \in Flights \ {f} : SameChecks(pq, pq', g)
    BY <1>4, <2>3, SameTrans DEF Adds
  <2>5. \E d \in Rechecks : now' + d \in Checks(pq', f)
    BY <2>3 DEF Adds, Rechecks
  <2>6. Joins(f, flights', holding', pq')
    BY <1>6, <2>1, <2>2, <2>4, <2>5 DEF Joins
  <2> QED BY <2>6 DEF Shape
<1> QED BY <1>2, <1>10, <1>11, <1>12

LEMMA EmergencyShape ==
  ASSUME TypeOK, AllTied, NothingIdleWhileWanted, NEW f \in Flights, on_emergency(f)
  PROVE  Shape
<1> DEFINE b  == decay_fuel(flights[f])
           a  == [b EXCEPT !.emergency = @ \/ Declares(b)]
           fl == [flights EXCEPT ![f] = a]
           q  == Tail(pq)
<1>1. /\ Dispatch("EVENT_EMERGENCY_FUEL", f)
      /\ flights[f].state \in {"AC_HOLDING", "AC_INBOUND"}
      /\ \/ \E rw \in find_idle_runway(runways) : \E st :
                ClearToLand(f, rw, fl, runways, Unqueued(f), q, st, PRIO_EMERGENCY)
         \/ /\ flights' = [fl EXCEPT ![f].state = "AC_HOLDING"]
            /\ holding' = IF b.state = "AC_INBOUND"
                          THEN holding_push(holding, f) ELSE holding
            /\ pq' = CheckFuelAfter(q, f, fl[f], EMERGENCY_RECHECK)
  BY Zenon DEF on_emergency
<1>2. /\ pq # <<>> /\ f = Head(pq).flight /\ Head(pq).type \in Fuel
      /\ now' = Head(pq).time
  BY <1>1 DEF Dispatch, Pop, Fuel
<1>3. /\ q \in Seq(AtcEvent(Flights)) /\ now' \in Nat
      /\ \A g \in Flights \ {f} : SameChecks(pq, q, g)
  BY <1>2, PopType, PoppedSame
<1>4. /\ flights \in [Flights -> Aircraft] /\ flights[f] \in Aircraft
      /\ pq \in Seq(AtcEvent(Flights))
  BY DEF TypeOK
<1>5. now' \in Checks(pq, f)
  BY <1>2, <1>4, ChecksTail
<1>6. Count(q, f, Fuel) = Count(pq, f, Fuel) - 1 /\ Count(pq, f, Fuel) \in Nat
  BY <1>2, <1>4, CountTail, CountType
<1>7. /\ b \in Aircraft /\ now' <= b.last_update /\ b.state = flights[f].state
      /\ b.queue_enter_time = flights[f].queue_enter_time
  BY <1>3, <1>4, DecayType, DecayKeeps, DecayDoes
<1> HIDE DEF b
<1>8. /\ a \in Aircraft /\ now' <= a.last_update
      /\ a.queue_enter_time = flights[f].queue_enter_time
  <2>1. (b.emergency \/ Declares(b)) \in BOOLEAN
    OBVIOUS
  <2> QED BY <1>7, <2>1 DEF Aircraft
<1> HIDE DEF a
<1>9. fl \in [Flights -> Aircraft] /\ OnlyBy(f, flights, fl) /\ fl[f] = a
  BY <1>4, <1>8, Replaced
<1> HIDE DEF fl, q
<1>10. CASE \E rw \in find_idle_runway(runways) : \E st :
                ClearToLand(f, rw, fl, runways, Unqueued(f), q, st, PRIO_EMERGENCY)
  <2>1. PICK st : \E rw \in find_idle_runway(runways) :
                ClearToLand(f, rw, fl, runways, Unqueued(f), q, st, PRIO_EMERGENCY)
    BY <1>10
  <2>2. NoMore(pq, q, f)
    BY <1>6 DEF NoMore
  <2>3. TakesIdle(f)
    BY <1>3, <1>9, <2>1, <2>2, UnqueuedEmpty, Weights, IdleTakes
  <2> QED BY <2>3 DEF Shape
<1>11. CASE /\ flights' = [fl EXCEPT ![f].state = "AC_HOLDING"]
            /\ holding' = IF b.state = "AC_INBOUND"
                          THEN holding_push(holding, f) ELSE holding
            /\ pq' = CheckFuelAfter(q, f, fl[f], EMERGENCY_RECHECK)
  <2>1. /\ OnlyBy(f, flights, flights') /\ flights'[f].state = "AC_HOLDING"
        /\ flights'[f].queue_enter_time = flights[f].queue_enter_time
        /\ now' <= flights'[f].last_update
    BY <1>8, <1>9, <1>11 DEF OnlyBy, Aircraft
  <2>2. Adds(q, pq', f, now' + EMERGENCY_RECHECK)
    BY <1>3, <1>11, Delays, AddsCheckFuel
  <2>3. \A g \in Flights \ {f} : SameChecks(pq, pq', g)
    BY <1>3, <2>2, SameTrans DEF Adds
  <2>4. \E d \in Rechecks : now' + d \in Checks(pq', f)
    BY <2>2 DEF Adds, Rechecks
  <2>5. Count(pq', f, Fuel) = Count(pq, f, Fuel)
    BY <1>6, <2>2 DEF Adds
  <2>6. CASE flights[f].state = "AC_INBOUND"
    <3>1. Joins(f, flights', holding', pq')
      BY <1>5, <1>7, <1>11, <2>1, <2>3, <2>4, <2>6 DEF Joins
    <3> QED BY <3>1 DEF Shape
  <2>7. CASE flights[f].state = "AC_HOLDING"
    <3>1. Rechecked(f)
      BY <1>7, <1>11, <2>1, <2>3, <2>4, <2>5, <2>7 DEF Rechecked
    <3> QED BY <3>1 DEF Shape
  <2> QED BY <1>1, <2>6, <2>7
<1> QED BY <1>1, <1>10, <1>11

\* The one step that gives a waiting flight a second check.
LEMMA ExpediteShape ==
  ASSUME TypeOK, NothingIdleWhileWanted, NEW f \in Flights,
         sim_cmd_prioritize_holding(f)
  PROVE  TakesIdle(f) \/ Requeued(f)
<1> DEFINE a    == [flights[f] EXCEPT !.user_priority = TRUE]
           fl   == [flights EXCEPT ![f] = a]
           ring == holding_remove(holding, f)
<1>1. /\ flights \in [Flights -> Aircraft] /\ flights[f] \in Aircraft
      /\ pq \in Seq(AtcEvent(Flights))
  BY DEF TypeOK
<1>2. [flights EXCEPT ![f].user_priority = TRUE] = fl
  BY <1>1
<1>3. /\ flights[f].state = "AC_HOLDING" /\ now' = now
      /\ try_assign_landing(f, fl, runways, ring, pq, stats)
  BY <1>2 DEF sim_cmd_prioritize_holding, Commanded
<1>4. now' \in Nat
  BY <1>3 DEF TypeOK
<1>5. /\ a \in Aircraft /\ a.state = "AC_HOLDING"
      /\ a.last_update = flights[f].last_update
  BY <1>1, <1>3 DEF Aircraft
<1> HIDE DEF a
<1>6. fl \in [Flights -> Aircraft] /\ OnlyBy(f, flights, fl) /\ fl[f] = a
  BY <1>1, <1>5, Replaced
<1>7. holding = <<>> => ring = <<>>
  BY RemoveFromEmpty
<1> HIDE DEF fl, ring
<1>8. CASE \E rw \in find_idle_runway(runways) :
               ClearToLand(f, rw, fl, runways, ring, pq, stats, LandingWeight(fl[f]))
  <2>1. NoMore(pq, pq, f) /\ \A g \in Flights \ {f} : SameChecks(pq, pq, g)
    BY SameSelf, SameNoMore
  <2> QED BY <1>1, <1>4, <1>6, <1>7, <1>8, <2>1, WeightType, IdleTakes
<1>9. CASE EnterHolding(f, fl, runways, ring, pq, stats, HOLD_RECHECK)
  <2>1. /\ flights' = [fl EXCEPT ![f].state = "AC_HOLDING"]
        /\ pq' = CheckFuelAfter(pq, f, fl[f], HOLD_RECHECK)
    BY <1>9 DEF EnterHolding
  <2>2. /\ OnlyBy(f, flights, flights') /\ flights'[f].state = "AC_HOLDING"
        /\ flights'[f].last_update = flights[f].last_update
    BY <1>5, <1>6, <2>1 DEF OnlyBy, Aircraft
  <2>3. Adds(pq, pq', f, now' + HOLD_RECHECK) /\ now' + HOLD_RECHECK \in Nat
    BY <1>1, <1>4, <2>1, Delays, AddsCheckFuel, Later
  <2> QED BY <1>3, <2>2, <2>3 DEF Requeued
<1> QED BY <1>3, <1>8, <1>9 DEF try_assign_landing

LEMMA QuietShape == ASSUME Quiet(flights', holding', pq') PROVE Shape
BY DEF Shape

LEMMA EventShape ==
  ASSUME TypeOK, AllTied, NothingIdleWhileWanted, [sim_step]_vars
  PROVE  Shape
<1>1. CASE \/ queue_exhausted \/ drop_stale \/ spawn_aircraft_table_full
           \/ spawn_aircraft \/ on_weather_change \/ UNCHANGED vars
  BY <1>1, SourceShape, QuietShape
<1>2. ASSUME NEW f \in Flights,
             \/ on_emergency_moved_on(f) \/ on_emergency_lost(f) \/ on_depart_sector(f)
      PROVE  Shape
  BY <1>2, GroundShape, QuietShape
<1>3. ASSUME NEW f \in Flights, on_taxi_to_gate(f) \/ on_gate_release(f) PROVE Shape
  BY <1>3, GateShape, QuietShape
<1>4. ASSUME NEW f \in Flights, on_takeoff_ready(f) PROVE Shape
  BY <1>4, TakeoffReadyShape, QuietShape
<1>5. ASSUME NEW f \in Flights, on_runway_request(f) \/ on_emergency(f) PROVE Shape
  BY <1>5, RequestShape, EmergencyShape
<1>6. ASSUME NEW f \in Flights,
             \/ on_touchdown(f) \/ on_touchdown_go_around(f) \/ on_takeoff_clear(f)
      PROVE  Shape
  BY <1>6, TouchdownShape, GoAroundShape, TakeoffClearShape
<1> QED BY <1>1, <1>2, <1>3, <1>4, <1>5, <1>6, Zenon DEF sim_step

LEMMA StepShape ==
  ASSUME TypeOK, AllTied, NothingIdleWhileWanted, [Next]_vars
  PROVE  \/ Shape
         \/ \E f \in Flights : sim_cmd_prioritize_holding(f) /\ Requeued(f)
<1>1. CASE [sim_step]_vars
  BY <1>1, EventShape
<1>2. CASE AdvanceClock
  BY <1>2, SourceShape, QuietShape
<1>3. CASE Command
  <2>1. PICK f \in Flights : \/ sim_cmd_prioritize_inbound(f)
                             \/ sim_cmd_prioritize_holding(f)
                             \/ sim_cmd_divert(f) \/ sim_cmd_go_around(f)
    BY <1>3 DEF Command
  <2>2. CASE sim_cmd_prioritize_inbound(f) \/ sim_cmd_go_around(f)
    BY <2>2, FlagShape, QuietShape
  <2>3. CASE sim_cmd_divert(f)
    BY <2>3, DivertShape
  <2>4. CASE sim_cmd_prioritize_holding(f)
    BY <2>4, ExpediteShape DEF Shape
  <2> QED BY <2>1, <2>2, <2>3, <2>4
<1> QED BY <1>1, <1>2, <1>3 DEF Next

-----------------------------------------------------------------------------
(* Who is served.                                                          *)

\* The others stay in the ring when the flight in one slot leaves it.
LEMMA OthersStay ==
  ASSUME NEW ring \in Seq(Flights), NEW i \in DOMAIN ring, NEW j \in DOMAIN ring, j # i
  PROVE  InRing(RemoveAt(ring, i), ring[j])
<1> DEFINE n == Len(ring)
           r == RemoveAt(ring, i)
<1>1. n \in Nat /\ DOMAIN ring = 1..n
  BY LenProperties
<1>2. /\ r \in Seq(Flights) /\ Len(r) = n - 1
      /\ \A k \in DOMAIN r : r[k] = IF k < i THEN ring[k] ELSE ring[k + 1]
  BY <1>1, RemoveAtType, RemoveAtThins
<1>3. DOMAIN r = 1 .. n - 1
  BY <1>2, LenProperties
<1> HIDE DEF r, n
<1>4. CASE j < i
  <2>1. j \in DOMAIN r
    BY <1>1, <1>3, <1>4
  <2> QED BY <1>2, <1>4, <2>1 DEF InRing, r
<1>5. CASE ~ (j < i)
  <2>1. j - 1 \in DOMAIN r /\ ~ (j - 1 < i) /\ (j - 1) + 1 = j
    BY <1>1, <1>3, <1>5
  <2> QED BY <1>2, <2>1 DEF InRing, r
<1> QED BY <1>4, <1>5

\* A flight that joins the ring pushes nobody out.
LEMMA PushKeeps ==
  ASSUME NEW ring \in Seq(Flights), NEW f \in Flights, NEW g, InRing(ring, g)
  PROVE  InRing(holding_push(ring, f), g)
<1>1. PICK k \in DOMAIN ring : ring[k] = g
  BY DEF InRing
<1>2. CASE Len(ring) < MAX_HOLDING_SLOTS
  <2>1. holding_push(ring, f) = Append(ring, f)
    BY <1>2 DEF holding_push
  <2>2. k \in 1 .. Len(ring) /\ Len(ring) \in Nat
    BY <1>1, LenProperties
  <2>3. /\ Append(ring, f) \in Seq(Flights) /\ Len(Append(ring, f)) = Len(ring) + 1
        /\ Append(ring, f)[k] = ring[k]
    BY <2>2, AppendProperties
  <2>4. k \in DOMAIN Append(ring, f)
    BY <2>2, <2>3, LenProperties
  <2> QED BY <1>1, <2>1, <2>3, <2>4 DEF InRing
<1>3. CASE ~ (Len(ring) < MAX_HOLDING_SLOTS)
  BY <1>3 DEF holding_push
<1> QED BY <1>2, <1>3

\* A flight is cleared to land past the ring, by the handler that finds the ring
\* empty, or it is the one that holding_pop_priority prefers to all in the ring.
LEMMA ClearedHow ==
  ASSUME TypeOK, AllTied, NothingIdleWhileWanted, [Next]_vars,
         NEW f \in Flights, ClearedNow(f)
  PROVE  \/ holding = <<>>
         \/ \E fl, ring, q, k :
                /\ ring \in Seq(Flights) /\ fl \in [Flights -> Aircraft]
                /\ k \in holding_pop_priority(ring, fl) /\ ring[k] = f
                /\ Served(f, fl, ring, q) /\ holding' = RemoveAt(ring, k)
                /\ \A g \in Flights : InRing(holding, g)
                       => InRing(ring, g) /\ fl[g] = flights[g]
<1>1. flights[f].state # "AC_LANDING" /\ flights'[f].state = "AC_LANDING"
  BY DEF ClearedNow
<1>2. \A g \in Flights : OnlyBy(g, flights, flights') => f = g
  BY <1>1 DEF OnlyBy
<1>3. ~ Quiet(flights', holding', pq')
  BY <1>1 DEF Quiet
<1>4. ASSUME NEW h \in Flights,
             \/ Joins(h, flights', holding', pq') \/ Declared(h) \/ Rechecked(h)
             \/ Requeued(h)
      PROVE  FALSE
  BY <1>1, <1>2, <1>4 DEF Joins, Declared, Rechecked, Requeued
<1>5. ASSUME NEW h \in Flights, TakesIdle(h) PROVE holding = <<>>
  BY <1>5 DEF TakesIdle
<1>6. ASSUME NEW h \in Flights, NEW fl, NEW ring, NEW q, Offered(h, fl, ring, q)
      PROVE  \E k : /\ ring \in Seq(Flights) /\ fl \in [Flights -> Aircraft]
                    /\ k \in holding_pop_priority(ring, fl) /\ ring[k] = f
                    /\ Served(f, fl, ring, q) /\ holding' = RemoveAt(ring, k)
                    /\ \A g \in Flights : InRing(holding, g)
                           => InRing(ring, g) /\ fl[g] = flights[g]
  <2>1. /\ ring \in Seq(Flights) /\ fl \in [Flights -> Aircraft]
        /\ \A g \in Flights : InRing(holding, g) => fl[g] = flights[g]
    BY <1>6 DEF Offered
  <2>2. PICK s \in Flights : Served(s, fl, ring, q)
    BY <1>6 DEF Offered
  <2>3. fl[f].state # "AC_LANDING"
    <3>1. CASE Quiet(fl, ring, q)
      BY <1>1, <3>1 DEF Quiet
    <3>2. CASE Joins(h, fl, ring, q)
      BY <1>1, <3>2 DEF Joins, OnlyBy
    <3> QED BY <1>6, <3>1, <3>2 DEF Offered
  <2>4. s = f
    BY <1>1, <2>2, <2>3 DEF Served, OnlyBy
  <2>5. \E k \in holding_pop_priority(ring, fl) :
            f = ring[k] /\ holding' = RemoveAt(ring, k)
    BY <2>2, <2>4 DEF Served
  <2>6. \A g \in Flights : InRing(holding, g) => InRing(ring, g)
    <3>1. holding \in Seq(Flights)
      BY DEF TypeOK
    <3>2. ring = holding \/ ring = holding_push(holding, h)
      BY <1>6 DEF Offered, Joins
    <3> QED BY <3>1, <3>2, PushKeeps
  <2> QED BY <2>1, <2>2, <2>4, <2>5, <2>6
<1> QED BY <1>3, <1>4, <1>5, <1>6, StepShape DEF Shape

LEMMA DepartureStep ==
  ASSUME TypeOK, AllTied, NothingIdleWhileWanted, [Next]_vars,
         NEW f \in Flights, flights'[f].state = "AC_DEPARTING",
         flights[f].state # "AC_DEPARTING"
  PROVE  holding = <<>>
<1>1. \A g \in Flights : OnlyBy(g, flights, flights') => f = g
  BY DEF OnlyBy
<1>2. CASE Quiet(flights', holding', pq')
  BY <1>2 DEF Quiet
<1>3. ASSUME NEW h \in Flights,
             \/ Joins(h, flights', holding', pq') \/ Declared(h) \/ Rechecked(h)
             \/ Requeued(h) \/ TakesIdle(h)
      PROVE  FALSE
  BY <1>1, <1>3 DEF Joins, Declared, Rechecked, Requeued, TakesIdle
<1>4. ASSUME NEW h \in Flights, NEW fl, NEW ring, NEW q, Offered(h, fl, ring, q)
      PROVE  holding = <<>>
  <2>1. fl[f].state = "AC_DEPARTING"
    BY <1>4 DEF Offered, Served, OnlyBy
  <2>2. CASE Quiet(fl, ring, q)
    BY <2>1, <2>2 DEF Quiet
  <2>3. CASE Joins(h, fl, ring, q)
    BY <2>1, <2>3 DEF Joins, OnlyBy
  <2> QED BY <1>4, <2>2, <2>3 DEF Offered
<1> QED BY <1>2, <1>3, <1>4, StepShape DEF Shape

\* Landings go before departures: on_takeoff_ready takes a runway only when it
\* finds one idle, and then nobody waits in the holding ring, since every runway
\* released was offered to the ring first.
THEOREM DeparturesAlwaysYield == Spec => DeparturesYield
<1>1. TypeOK /\ AllTied /\ NothingIdleWhileWanted /\ [Next]_vars
        => [\A f \in Flights : flights'[f].state = "AC_DEPARTING"
                               /\ flights[f].state # "AC_DEPARTING"
                               => holding = <<>>]_vars
  BY DepartureStep
<1> QED BY <1>1, TypeCorrect, AlwaysTied, HandedOver, PTL DEF Spec, DeparturesYield

\* A gate changes hands with the two events that concern it.
LEMMA GateEvents ==
  ASSUME [Next]_vars, gates' # gates
  PROVE  \E f \in Flights : on_taxi_to_gate(f) \/ on_gate_release(f)
<1>1. sim_step
  BY Zenon
  DEF Next, vars, Command, AdvanceClock, sim_cmd_prioritize_inbound,
      sim_cmd_prioritize_holding, sim_cmd_divert, sim_cmd_go_around
<1> QED BY <1>1, Zenon
        DEF sim_step, queue_exhausted, drop_stale, spawn_aircraft_table_full,
            spawn_aircraft, on_weather_change, on_runway_request,
            on_emergency_moved_on, on_emergency_lost, on_emergency,
            on_touchdown_go_around, on_touchdown, on_takeoff_ready,
            on_takeoff_clear, on_depart_sector, vars

LEMMA TaxiwayStep ==
  ASSUME TypeOK, AllTied, NothingIdleWhileWanted, [Next]_vars, taxi_wait # <<>>,
         NEW f \in Flights, flights[f].state = "AC_TAXI_IN",
         flights'[f].state = "AC_AT_GATE"
  PROVE  f = Head(taxi_wait)
<1> DEFINE here == flights'[f].assigned_gate
<1>1. GatesExclusive /\ GatesExclusive' /\ TypeOK'
  <2>1. GatesExclusive
    BY TiedGates
  <2>2. AllTied' /\ TypeOK'
    BY TiedStep, StepType
  <2>3. AllTied' => GatesExclusive'
    BY TiedGates, PTL
  <2> QED BY <2>1, <2>2, <2>3
<1>2. here \in Gates /\ gates'[here].occupant = f
  <2>1. here # None /\ here \in Gates \cup {None}
    BY <1>1 DEF GatesExclusive, TypeOK, Aircraft
  <2> QED BY <1>1, <2>1 DEF GatesExclusive
\* The gate was not its own before.
<1>3. gates[here].occupant # f
  BY <1>1, <1>2, NoneApart DEF GatesExclusive
<1>4. gates \in [Gates -> Gate] /\ f # None
  BY NoneApart DEF TypeOK
<1>5. PICK h \in Flights : on_taxi_to_gate(h) \/ on_gate_release(h)
  BY <1>2, <1>3, GateEvents
<1>6. CASE on_taxi_to_gate(h)
  <2>1. \A g \in Gates : gates[g].state # "GATE_VACANT"
    BY DEF NothingIdleWhileWanted, NoVacantGate
  <2>2. gates' = gates
    BY <1>6, <2>1 DEF on_taxi_to_gate, try_assign_gate, find_vacant_gate
  <2> QED BY <1>2, <1>3, <2>2
<1>7. CASE on_gate_release(h)
  <2> DEFINE free == [state |-> "GATE_VACANT", occupant |-> None]
             gts  == [gates EXCEPT ![flights[h].assigned_gate] = free]
  <2>1. gts[here].occupant # f /\ gts \in [Gates -> Gate]
    <3>1. free \in Gate
      BY DEF Gate
    <3> QED BY <1>2, <1>3, <1>4, <3>1
  <2>2. \/ gates' = gts
        \/ \E g \in Gates :
               gates' = [gts EXCEPT ![g] = [state |-> "GATE_OCCUPIED",
                                            occupant |-> Head(taxi_wait)]]
    BY <1>7 DEF on_gate_release, try_assign_gate, find_vacant_gate
  <2> HIDE DEF gts
  <2> QED BY <1>2, <2>1, <2>2
<1> QED BY <1>5, <1>6, <1>7

\* Flights get gates in the order in which they came to the taxiway:
\* on_gate_release serves the head of the ring, and on_taxi_to_gate finds no gate
\* vacant while the ring is not empty.
THEOREM TaxiwayStaysInOrder == Spec => TaxiwayInOrder
<1>1. TypeOK /\ AllTied /\ NothingIdleWhileWanted /\ [Next]_vars
        => [\A f \in Flights : /\ flights[f].state = "AC_TAXI_IN"
                               /\ flights'[f].state = "AC_AT_GATE"
                               /\ taxi_wait # <<>>
                               => f = Head(taxi_wait)]_vars
  BY TaxiwayStep
<1> QED BY <1>1, TypeCorrect, AlwaysTied, HandedOver, PTL DEF Spec, TaxiwayInOrder

LEMMA ExpediteStep ==
  ASSUME TypeOK, AllTied, NothingIdleWhileWanted, [Next]_vars,
         NEW f \in Flights, NEW g \in Flights, ClearedNow(f), f # g,
         InRing(holding, g), flights[g].user_priority
  PROVE  \/ flights'[f].user_priority \/ flights'[f].emergency
         \/ \E k \in DOMAIN holding' : flights'[holding'[k]].emergency
<1>1. holding # <<>>
  BY EmptyRing DEF InRing
<1>2. PICK fl, ring, q, k :
          /\ ring \in Seq(Flights) /\ fl \in [Flights -> Aircraft]
          /\ k \in holding_pop_priority(ring, fl) /\ ring[k] = f
          /\ Served(f, fl, ring, q) /\ holding' = RemoveAt(ring, k)
          /\ InRing(ring, g) /\ fl[g] = flights[g]
  BY <1>1, ClearedHow
<1>3. /\ k \in DOMAIN ring
      /\ \A h \in Flights \ {f} : flights'[h] = fl[h]
      /\ flights'[f].emergency = fl[f].emergency
      /\ flights'[f].user_priority = fl[f].user_priority
  BY <1>2 DEF holding_pop_priority, Served, OnlyBy
<1>4. CASE \E j \in DOMAIN ring : fl[ring[j]].emergency
  <2>1. PICK j \in DOMAIN ring : fl[ring[j]].emergency
    BY <1>4
  <2>2. ring[j] \in Flights
    BY <1>2, <2>1, ElementOfSeq
  <2>3. CASE ring[j] = f
    BY <1>3, <2>1, <2>3
  <2>4. CASE ring[j] # f
    <3>1. InRing(holding', ring[j])
      BY <1>2, <1>3, <2>1, <2>4, OthersStay
    <3> QED BY <1>3, <2>1, <2>2, <2>4, <3>1 DEF InRing
  <2> QED BY <2>3, <2>4
<1>5. CASE ~ \E j \in DOMAIN ring : fl[ring[j]].emergency
  <2>1. \E j \in DOMAIN ring : fl[ring[j]].user_priority
    BY <1>2 DEF InRing
  <2>2. fl[ring[k]].user_priority
    BY <1>2, <1>5, <2>1 DEF holding_pop_priority
  <2> QED BY <1>2, <1>3, <2>2
<1> QED BY <1>4, <1>5

\* The controller's request is kept: while an expedited flight is in the ring, a
\* runway goes to another one only if that one was expedited too or an emergency
\* is waiting, whichever handler or command releases or finds the runway.
THEOREM ExpeditesAlwaysPreempt == Spec => ExpeditePreempts
<1>1. TypeOK /\ AllTied /\ NothingIdleWhileWanted /\ [Next]_vars
        => [\A f, g \in Flights :
               /\ ClearedNow(f) /\ f # g
               /\ \E k \in DOMAIN holding : holding[k] = g
               /\ flights[g].user_priority
               => \/ flights'[f].user_priority \/ flights'[f].emergency
                  \/ \E k \in DOMAIN holding' : flights'[holding'[k]].emergency]_vars
  BY ExpediteStep DEF InRing
<1> QED BY <1>1, TypeCorrect, AlwaysTied, HandedOver, PTL DEF Spec, ExpeditePreempts

-----------------------------------------------------------------------------
(* Who has declared an emergency is short of fuel; and who has declared one *)
(* does not take that back, unless the controller diverts the flight.       *)

Low(a) == a.emergency => a.fuel <= FUEL_EMERGENCY

\* The flights of D have declared, and all who have are low.
AllLow(D, fl) == /\ \A f \in Flights : Low(fl[f])
                 /\ \A f \in D : fl[f].emergency
EmergenciesLow == AllLow({}, flights)

SameFuel(fl, gl) ==
    \A f \in Flights : gl[f].fuel = fl[f].fuel /\ gl[f].emergency = fl[f].emergency

LEMMA SameFuelLow ==
  ASSUME NEW D \in SUBSET Flights, NEW fl, NEW gl, AllLow(D, fl), SameFuel(fl, gl)
  PROVE  AllLow(D, gl)
BY DEF AllLow, Low, SameFuel

LEMMA OneLow ==
  ASSUME NEW D \in SUBSET Flights, NEW fl \in [Flights -> Aircraft], NEW f \in Flights,
         NEW a, AllLow(D, fl), Low(a), f \in D => a.emergency
  PROVE  AllLow(D, [fl EXCEPT ![f] = a])
BY DEF AllLow

LEMMA DecayLow ==
  ASSUME NEW a \in Aircraft, now' \in Nat, Low(a)
  PROVE  Low(decay_fuel(a))
<1>1. a.fuel \in Nat /\ decay_fuel(a).fuel \in Nat
  BY DecayType DEF Aircraft
<1> QED BY <1>1, DecayDoes, FuelAssumption DEF Low

LEMMA OneSameFuel ==
  ASSUME NEW fl \in [Flights -> Aircraft], NEW f \in Flights, NEW a,
         a.fuel = fl[f].fuel, a.emergency = fl[f].emergency
  PROVE  SameFuel(fl, [fl EXCEPT ![f] = a])
BY DEF SameFuel

LEMMA ClearToLandFuel ==
  ASSUME NEW f \in Flights, NEW rw, NEW fl \in [Flights -> Aircraft], NEW rws, NEW ring,
         NEW q, NEW st, NEW weight, ClearToLand(f, rw, fl, rws, ring, q, st, weight)
  PROVE  SameFuel(fl, flights')
<1> DEFINE w == Waited(fl[f])
           a == [fl[f] EXCEPT !.assigned_runway = rw, !.state = "AC_LANDING",
                              !.total_wait = @ + w]
<1>1. fl[f] \in Aircraft
  OBVIOUS
<1>2. flights' = [fl EXCEPT ![f] = a]
  BY <1>1 DEF ClearToLand
<1>3. a.fuel = fl[f].fuel /\ a.emergency = fl[f].emergency
  BY <1>1 DEF Aircraft
<1> HIDE DEF a
<1> QED BY <1>2, <1>3, OneSameFuel

LEMMA TryAssignFuel ==
  ASSUME NEW f \in Flights, NEW fl \in [Flights -> Aircraft], NEW rws, NEW ring, NEW q, NEW st,
         try_assign_landing(f, fl, rws, ring, q, st)
  PROVE  SameFuel(fl, flights')
<1>1. CASE \E rw \in find_idle_runway(rws) :
               ClearToLand(f, rw, fl, rws, ring, q, st, LandingWeight(fl[f]))
  BY <1>1, ClearToLandFuel
<1>2. CASE EnterHolding(f, fl, rws, ring, q, st, HOLD_RECHECK)
  BY <1>2 DEF EnterHolding, SameFuel, Aircraft
<1> QED BY <1>1, <1>2 DEF try_assign_landing

LEMMA FreeRunwayFuel ==
  ASSUME NEW rw, NEW fl \in [Flights -> Aircraft], NEW ring \in Seq(Flights), NEW q, NEW st,
         free_runway(rw, fl, ring, q, st)
  PROVE  SameFuel(fl, flights')
<1>1. \/ flights' = fl
      \/ \E k \in holding_pop_priority(ring, fl) : \E rws :
             try_assign_landing(ring[k], fl, rws, RemoveAt(ring, k), q, st)
  BY Zenon DEF free_runway
<1>2. \A k \in holding_pop_priority(ring, fl) : ring[k] \in Flights
  BY ElementOfSeq DEF holding_pop_priority
<1> QED BY <1>1, <1>2, TryAssignFuel DEF SameFuel

LEMMA TryAssignGateFuel ==
  ASSUME NEW f \in Flights, NEW fl \in [Flights -> Aircraft], NEW gts, NEW ring, NEW q,
         try_assign_gate(f, fl, gts, ring, q)
  PROVE  SameFuel(fl, flights')
<1> DEFINE w == Waited(fl[f])
           a(g) == [fl[f] EXCEPT !.assigned_gate = g, !.state = "AC_AT_GATE",
                                 !.total_wait = @ + w]
<1>1. fl[f] \in Aircraft
  OBVIOUS
<1>2. \/ \E g : flights' = [fl EXCEPT ![f].assigned_gate = g, ![f].state = "AC_AT_GATE",
                                      ![f].total_wait = @ + w]
      \/ flights' = fl
  BY Zenon DEF try_assign_gate
<1>3. ASSUME NEW g, flights' = [fl EXCEPT ![f].assigned_gate = g, ![f].state = "AC_AT_GATE",
                                          ![f].total_wait = @ + w]
      PROVE  SameFuel(fl, flights')
  <2>1. flights' = [fl EXCEPT ![f] = a(g)]
    BY <1>1, <1>3
  <2>2. a(g).fuel = fl[f].fuel /\ a(g).emergency = fl[f].emergency
    BY <1>1 DEF Aircraft
  <2> HIDE DEF a
  <2> QED BY <2>1, <2>2, OneSameFuel
<1> QED BY <1>2, <1>3 DEF SameFuel

LEMMA SourceLow ==
  ASSUME TypeOK, NEW D \in SUBSET Flights, AllLow(D, flights),
         \/ queue_exhausted \/ drop_stale \/ spawn_aircraft_table_full
         \/ spawn_aircraft /\ flight_count \notin D
         \/ on_weather_change \/ AdvanceClock \/ UNCHANGED vars
  PROVE  AllLow(D, flights')
<1>1. CASE spawn_aircraft /\ flight_count \notin D
  <2>1. PICK fuel, wake : flights' = [flights EXCEPT ![flight_count] =
               [Blank EXCEPT !.fuel = fuel, !.wake = wake, !.last_update = now']]
    BY <1>1 DEF spawn_aircraft
  <2> DEFINE a == [Blank EXCEPT !.fuel = fuel, !.wake = wake, !.last_update = now']
  <2>2. Low(a)
    BY DEF Low, Blank
  <2>3. \A f \in Flights : flights'[f] = IF f = flight_count THEN a ELSE flights[f]
    BY <2>1 DEF TypeOK
  <2> HIDE DEF a
  <2> QED BY <1>1, <2>2, <2>3 DEF AllLow
<1>2. CASE ~ (spawn_aircraft /\ flight_count \notin D)
  <2>1. flights' = flights
    BY <1>2 DEF queue_exhausted, drop_stale, spawn_aircraft_table_full, on_weather_change,
                AdvanceClock, vars
  <2> QED BY <2>1
<1> QED BY <1>1, <1>2

\* Handlers that bring the fuel of their flight up to date, and those that
\* declare emergencies.
LEMMA FuelHandlersLow ==
  ASSUME TypeOK, NEW D \in SUBSET Flights, AllLow(D, flights), NEW f \in Flights,
         \/ on_runway_request(f) \/ on_emergency_moved_on(f) \/ on_emergency_lost(f)
         \/ on_emergency(f)
  PROVE  AllLow(D, flights')
<1> DEFINE b == decay_fuel(flights[f])
<1>1. now' \in Nat
  <2>1. pq # <<>> /\ now' = Head(pq).time
    BY Zenon DEF on_runway_request, on_emergency_moved_on, on_emergency_lost, on_emergency,
                 Dispatch, Pop
  <2> QED BY <2>1, PopType
<1>2. /\ flights \in [Flights -> Aircraft] /\ flights[f] \in Aircraft
      /\ AllLow(D, flights) /\ Low(flights[f])
      /\ f \in D => flights[f].emergency
  BY DEF TypeOK, AllLow
<1>3. b \in Aircraft /\ Low(b) /\ (f \in D => b.emergency)
  BY <1>1, <1>2, DecayType, DecayLow, DecayDoes
<1> HIDE DEF b
<1>4. CASE on_runway_request(f)
  <2> DEFINE a  == [b EXCEPT !.queue_enter_time = now']
             fl == [flights EXCEPT ![f] = a]
  <2>1. \/ Declares(a) /\ flights' = [fl EXCEPT ![f].emergency = TRUE]
        \/ try_assign_landing(f, fl, runways, holding, Tail(pq), stats)
    BY <1>4, Zenon DEF on_runway_request, b
  <2>2. a \in Aircraft /\ Low(a) /\ [a EXCEPT !.emergency = TRUE] \in Aircraft
        /\ (f \in D => a.emergency) /\ [a EXCEPT !.emergency = TRUE].emergency
    BY <1>1, <1>3 DEF Aircraft, Low
  <2>3. Declares(a) => Low([a EXCEPT !.emergency = TRUE])
    BY <2>2 DEF Declares, Low, Aircraft
  <2> HIDE DEF a
  <2>4. fl \in [Flights -> Aircraft] /\ AllLow(D, fl)
    BY <1>2, <2>2, OneLow
  <2>5. [fl EXCEPT ![f].emergency = TRUE] = [flights EXCEPT ![f] = [a EXCEPT !.emergency = TRUE]]
    BY <1>2
  <2> HIDE DEF fl
  <2>6. CASE Declares(a) /\ flights' = [fl EXCEPT ![f].emergency = TRUE]
    BY <1>2, <2>2, <2>3, <2>5, <2>6, OneLow
  <2>7. CASE try_assign_landing(f, fl, runways, holding, Tail(pq), stats)
    BY <2>4, <2>7, TryAssignFuel, SameFuelLow
  <2> QED BY <2>1, <2>6, <2>7
<1>5. CASE on_emergency_moved_on(f)
  <2>1. flights' = [flights EXCEPT ![f] = b]
    BY <1>5 DEF on_emergency_moved_on, b
  <2> QED BY <1>2, <1>3, <2>1, OneLow
<1>6. CASE on_emergency_lost(f)
  <2>1. flights' = [flights EXCEPT ![f] = [b EXCEPT !.state = "AC_LOST"]]
    BY <1>6 DEF on_emergency_lost, b
  <2>2. /\ Low([b EXCEPT !.state = "AC_LOST"])
        /\ f \in D => [b EXCEPT !.state = "AC_LOST"].emergency
    BY <1>3 DEF Low, Aircraft
  <2> QED BY <1>2, <2>1, <2>2, OneLow
<1>7. CASE on_emergency(f)
  <2> DEFINE a  == [b EXCEPT !.emergency = @ \/ Declares(b)]
             fl == [flights EXCEPT ![f] = a]
  <2>1. \/ \E rw \in find_idle_runway(runways) : \E st :
               ClearToLand(f, rw, fl, runways, Unqueued(f), Tail(pq), st, PRIO_EMERGENCY)
        \/ flights' = [fl EXCEPT ![f].state = "AC_HOLDING"]
    BY <1>7, Zenon DEF on_emergency, b
  <2>2. a \in Aircraft /\ Low(a) /\ (f \in D => a.emergency)
    <3>1. (b.emergency \/ Declares(b)) \in BOOLEAN
      OBVIOUS
    <3>2. a \in Aircraft /\ a.fuel = b.fuel /\ a.emergency = (b.emergency \/ Declares(b))
      BY <1>3, <3>1 DEF Aircraft
    <3> HIDE DEF a
    <3> QED BY <1>3, <3>2 DEF Low, Declares
  <2> HIDE DEF a
  <2>3. fl \in [Flights -> Aircraft] /\ AllLow(D, fl)
    BY <1>2, <2>2, OneLow
  <2> HIDE DEF fl
  <2>4. SameFuel(fl, flights')
    <3>1. CASE flights' = [fl EXCEPT ![f].state = "AC_HOLDING"]
      BY <2>3, <3>1 DEF SameFuel, Aircraft
    <3> QED BY <2>1, <2>3, <3>1, ClearToLandFuel
  <2> QED BY <2>3, <2>4, SameFuelLow
<1> QED BY <1>4, <1>5, <1>6, <1>7

\* Handlers and commands that release a runway.
LEMMA ReleaseLow ==
  ASSUME TypeOK, NEW D \in SUBSET Flights, AllLow(D, flights), NEW f \in Flights,
         \/ on_touchdown_go_around(f) \/ on_touchdown(f) \/ on_takeoff_clear(f)
         \/ sim_cmd_divert(f) /\ f \notin D
  PROVE  AllLow(D, flights')
<1> DEFINE b == decay_fuel(flights[f])
<1>1. now' \in Nat
  <2>1. \/ pq # <<>> /\ now' = Head(pq).time
        \/ now' = now
    BY Zenon DEF on_touchdown_go_around, on_touchdown, on_takeoff_clear, sim_cmd_divert, Diverted, DivertedIn,
                 Dispatch, Pop, Commanded
  <2> QED BY <2>1, PopType DEF TypeOK
<1>2. /\ flights \in [Flights -> Aircraft] /\ flights[f] \in Aircraft
      /\ AllLow(D, flights) /\ Low(flights[f])
      /\ f \in D => flights[f].emergency
  BY DEF TypeOK, AllLow
<1>3. b \in Aircraft /\ Low(b) /\ (f \in D => b.emergency)
  BY <1>1, <1>2, DecayType, DecayLow, DecayDoes
<1>4. ASSUME NEW a \in Aircraft, Low(a), f \in D => a.emergency,
             NEW rw, NEW ring \in Seq(Flights), NEW q, NEW st,
             free_runway(rw, [flights EXCEPT ![f] = a], ring, q, st)
      PROVE  AllLow(D, flights')
  <2> DEFINE fl == [flights EXCEPT ![f] = a]
  <2>1. fl \in [Flights -> Aircraft] /\ AllLow(D, fl)
    BY <1>2, <1>4, OneLow
  <2>2. free_runway(rw, fl, ring, q, st)
    BY <1>4
  <2> HIDE DEF fl
  <2> QED BY <1>4, <2>1, <2>2, FreeRunwayFuel, SameFuelLow
<1>5. /\ holding \in Seq(Flights) /\ holding_push(holding, f) \in Seq(Flights)
      /\ Unqueued(f) \in Seq(Flights)
  BY PushRingType, UnqueuedType DEF TypeOK
<1>6. CASE on_touchdown_go_around(f)
  <2> DEFINE a == [b EXCEPT !.force_go_around = FALSE, !.assigned_runway = None,
                            !.go_arounds = @ + 1, !.state = "AC_HOLDING",
                            !.queue_enter_time = now']
  <2>1. \E rw, q, st : free_runway(rw, [flights EXCEPT ![f] = a],
                                   holding_push(holding, f), q, st)
    BY <1>6, Zenon DEF on_touchdown_go_around, b
  <2> HIDE DEF b
  <2>2. a \in Aircraft
    <3> DEFINE count == b.go_arounds + 1
    <3>1. count \in Nat
      BY <1>3 DEF Aircraft
    <3>2. a = [b EXCEPT !.force_go_around = FALSE, !.assigned_runway = None,
                        !.go_arounds = count, !.state = "AC_HOLDING",
                        !.queue_enter_time = now']
      BY <1>3 DEF Aircraft
    <3> HIDE DEF count, a
    <3> QED BY <1>1, <1>3, <3>1, <3>2 DEF Aircraft, AircraftState
  <2>3. a.fuel = b.fuel /\ a.emergency = b.emergency
    BY <1>3 DEF Aircraft
  <2> HIDE DEF a
  <2>4. Low(a) /\ (f \in D => a.emergency)
    BY <1>3, <2>3 DEF Low
  <2> QED BY <1>4, <1>5, <2>1, <2>2, <2>4
<1>7. CASE on_touchdown(f)
  <2> DEFINE a == [b EXCEPT !.assigned_runway = None, !.state = "AC_TAXI_IN",
                            !.queue_enter_time = now']
  <2>1. \E rw, q, st : free_runway(rw, [flights EXCEPT ![f] = a], holding, q, st)
    BY <1>7, Zenon DEF on_touchdown, b
  <2> HIDE DEF b
  <2>2. a \in Aircraft /\ Low(a) /\ (f \in D => a.emergency)
    BY <1>1, <1>3 DEF Aircraft, AircraftState, Low
  <2> HIDE DEF a
  <2> QED BY <1>4, <1>5, <2>1, <2>2
<1>8. CASE on_takeoff_clear(f)
  <2> DEFINE a == [flights[f] EXCEPT !.assigned_runway = None, !.state = "AC_AIRBORNE_OUT"]
  <2>1. [flights EXCEPT ![f].assigned_runway = None, ![f].state = "AC_AIRBORNE_OUT"]
          = [flights EXCEPT ![f] = a]
    BY <1>2
  <2>2. \E rw, q, st : free_runway(rw, [flights EXCEPT ![f] = a], holding, q, st)
    BY <1>8, <2>1 DEF on_takeoff_clear
  <2>3. a \in Aircraft /\ Low(a) /\ (f \in D => a.emergency)
    BY <1>2 DEF Aircraft, AircraftState, Low
  <2> HIDE DEF a
  <2> QED BY <1>4, <1>5, <2>2, <2>3
<1>9. CASE sim_cmd_divert(f) /\ f \notin D
  <2> DEFINE a == [flights[f] EXCEPT !.assigned_runway = None, !.emergency = FALSE,
                                     !.state = "AC_DIVERTED"]
  <2>1. \/ \E rw, q, st : free_runway(rw, [flights EXCEPT ![f] = a], Unqueued(f), q, st)
        \/ flights' = [flights EXCEPT ![f] = a]
    BY <1>9, Zenon DEF sim_cmd_divert, Diverted, DivertedIn
  <2>2. a \in Aircraft /\ Low(a)
    BY <1>2 DEF Aircraft, AircraftState, Low
  <2> HIDE DEF a
  <2>3. CASE flights' = [flights EXCEPT ![f] = a]
    BY <1>2, <1>9, <2>2, <2>3, OneLow
  <2> QED BY <1>4, <1>5, <1>9, <2>1, <2>2, <2>3
<1> QED BY <1>6, <1>7, <1>8, <1>9

LEMMA OtherLow ==
  ASSUME TypeOK, NEW D \in SUBSET Flights, AllLow(D, flights), NEW f \in Flights,
         \/ on_taxi_to_gate(f) \/ on_gate_release(f) \/ on_takeoff_ready(f)
         \/ on_depart_sector(f) \/ sim_cmd_prioritize_inbound(f)
         \/ sim_cmd_prioritize_holding(f) \/ sim_cmd_go_around(f)
  PROVE  AllLow(D, flights')
<1>1. /\ flights \in [Flights -> Aircraft] /\ AllLow(D, flights)
      /\ taxi_wait \in Seq(Flights)
  BY DEF TypeOK
<1>2. CASE on_taxi_to_gate(f)
  <2>1. SameFuel(flights, flights')
    BY <1>1, <1>2, TryAssignGateFuel DEF on_taxi_to_gate
  <2> QED BY <1>1, <2>1, SameFuelLow
<1>3. CASE on_gate_release(f)
  <2> DEFINE fl == [flights EXCEPT ![f].assigned_gate = None, ![f].state = "AC_TAXI_OUT"]
  <2>1. \/ flights' = fl
        \/ /\ taxi_wait # <<>>
           /\ \E gts, q : try_assign_gate(Head(taxi_wait), fl, gts, Tail(taxi_wait), q)
    BY <1>3, Zenon DEF on_gate_release
  <2>2. fl \in [Flights -> Aircraft] /\ SameFuel(flights, fl)
    <3> DEFINE a == [flights[f] EXCEPT !.assigned_gate = None, !.state = "AC_TAXI_OUT"]
    <3>1. fl = [flights EXCEPT ![f] = a]
      BY <1>1
    <3>2. /\ a \in Aircraft
          /\ a.fuel = flights[f].fuel /\ a.emergency = flights[f].emergency
      BY <1>1 DEF Aircraft, AircraftState
    <3> HIDE DEF a, fl
    <3> QED BY <1>1, <3>1, <3>2, OneSameFuel
  <2> HIDE DEF fl
  <2>3. taxi_wait # <<>> => Head(taxi_wait) \in Flights
    BY <1>1, HeadTailProperties
  <2>4. AllLow(D, fl)
    BY <1>1, <2>2, SameFuelLow
  <2>5. CASE flights' = fl
    BY <2>4, <2>5
  <2>6. CASE /\ taxi_wait # <<>>
             /\ \E gts, q : try_assign_gate(Head(taxi_wait), fl, gts, Tail(taxi_wait), q)
    <3>1. SameFuel(fl, flights')
      BY <2>2, <2>3, <2>6, TryAssignGateFuel
    <3> QED BY <2>4, <3>1, SameFuelLow
  <2> QED BY <2>1, <2>5, <2>6
<1>4. CASE on_takeoff_ready(f)
  <2> DEFINE w == Waited([flights EXCEPT ![f].queue_enter_time = now'][f])
             a == [flights[f] EXCEPT !.queue_enter_time = now']
             b(rw) == [a EXCEPT !.assigned_runway = rw, !.state = "AC_DEPARTING",
                                !.total_wait = @ + w]
  <2>1. \/ \E rw : flights' =
               [[flights EXCEPT ![f].queue_enter_time = now']
                   EXCEPT ![f].assigned_runway = rw, ![f].state = "AC_DEPARTING",
                          ![f].total_wait = @ + w]
        \/ flights' = [flights EXCEPT ![f].queue_enter_time = now']
    BY <1>4, Zenon DEF on_takeoff_ready
  <2> HIDE DEF w
  <2>2. \/ \E rw : flights' = [flights EXCEPT ![f] = b(rw)]
        \/ flights' = [flights EXCEPT ![f] = a]
    BY <1>1, <2>1
  <2>3. flights[f] \in Aircraft
    BY <1>1
  <2>4. /\ a.fuel = flights[f].fuel /\ a.emergency = flights[f].emergency
        /\ \A rw : b(rw).fuel = flights[f].fuel /\ b(rw).emergency = flights[f].emergency
    BY <2>3 DEF Aircraft
  <2> HIDE DEF a, b
  <2>5. PICK c : /\ flights' = [flights EXCEPT ![f] = c]
                 /\ c.fuel = flights[f].fuel /\ c.emergency = flights[f].emergency
    BY <2>2, <2>4
  <2>6. SameFuel(flights, flights')
    BY <1>1, <2>5, OneSameFuel
  <2> QED BY <1>1, <2>6, SameFuelLow
<1>5. CASE on_depart_sector(f) \/ sim_cmd_prioritize_inbound(f) \/ sim_cmd_go_around(f)
  <2>1. \/ flights' = [flights EXCEPT ![f].state = "AC_DONE"]
        \/ flights' = [flights EXCEPT ![f].user_priority = TRUE]
        \/ flights' = [flights EXCEPT ![f].force_go_around = TRUE]
    BY <1>5, Zenon DEF on_depart_sector, sim_cmd_prioritize_inbound, sim_cmd_go_around
  <2>2. flights[f] \in Aircraft
    BY <1>1
  <2>3. PICK a : /\ flights' = [flights EXCEPT ![f] = a]
                 /\ a.fuel = flights[f].fuel /\ a.emergency = flights[f].emergency
    <3>1. CASE flights' = [flights EXCEPT ![f].state = "AC_DONE"]
      <4> DEFINE a == [flights[f] EXCEPT !.state = "AC_DONE"]
      <4>1. flights' = [flights EXCEPT ![f] = a]
        BY <3>1
      <4>2. a.fuel = flights[f].fuel /\ a.emergency = flights[f].emergency
        BY <2>2 DEF Aircraft
      <4> QED BY <4>1, <4>2
    <3>2. CASE flights' = [flights EXCEPT ![f].user_priority = TRUE]
      <4> DEFINE a == [flights[f] EXCEPT !.user_priority = TRUE]
      <4>1. flights' = [flights EXCEPT ![f] = a]
        BY <3>2
      <4>2. a.fuel = flights[f].fuel /\ a.emergency = flights[f].emergency
        BY <2>2 DEF Aircraft
      <4> QED BY <4>1, <4>2
    <3>3. CASE flights' = [flights EXCEPT ![f].force_go_around = TRUE]
      <4> DEFINE a == [flights[f] EXCEPT !.force_go_around = TRUE]
      <4>1. flights' = [flights EXCEPT ![f] = a]
        BY <3>3
      <4>2. a.fuel = flights[f].fuel /\ a.emergency = flights[f].emergency
        BY <2>2 DEF Aircraft
      <4> QED BY <4>1, <4>2
    <3> QED BY <2>1, <3>1, <3>2, <3>3
  <2>4. SameFuel(flights, flights')
    BY <1>1, <2>3, OneSameFuel
  <2> QED BY <1>1, <2>4, SameFuelLow
<1>6. CASE sim_cmd_prioritize_holding(f)
  <2> DEFINE fl == [flights EXCEPT ![f].user_priority = TRUE]
  <2>1. try_assign_landing(f, fl, runways, holding_remove(holding, f), pq, stats)
    BY <1>6 DEF sim_cmd_prioritize_holding
  <2>2. fl \in [Flights -> Aircraft] /\ SameFuel(flights, fl)
    BY <1>1 DEF SameFuel, Aircraft
  <2> HIDE DEF fl
  <2>3. SameFuel(fl, flights')
    BY <2>1, <2>2, TryAssignFuel
  <2> QED BY <1>1, <2>2, <2>3, SameFuelLow
<1> QED BY <1>2, <1>3, <1>4, <1>5, <1>6

LEMMA DeclaredStep ==
  ASSUME TypeOK, NEW D \in SUBSET Flights, AllLow(D, flights), [Next]_vars,
         spawn_aircraft => flight_count \notin D,
         \A f \in D : ~ sim_cmd_divert(f)
  PROVE  AllLow(D, flights')
<1>1. CASE \/ queue_exhausted \/ drop_stale \/ spawn_aircraft_table_full
           \/ spawn_aircraft \/ on_weather_change \/ AdvanceClock \/ UNCHANGED vars
  BY <1>1, SourceLow
<1>2. ASSUME NEW f \in Flights,
             \/ on_runway_request(f) \/ on_emergency_moved_on(f) \/ on_emergency_lost(f)
             \/ on_emergency(f)
      PROVE  AllLow(D, flights')
  BY <1>2, FuelHandlersLow
<1>3. ASSUME NEW f \in Flights,
             \/ on_touchdown_go_around(f) \/ on_touchdown(f) \/ on_takeoff_clear(f)
             \/ sim_cmd_divert(f)
      PROVE  AllLow(D, flights')
  BY <1>3, ReleaseLow
<1>4. ASSUME NEW f \in Flights,
             \/ on_taxi_to_gate(f) \/ on_gate_release(f) \/ on_takeoff_ready(f)
             \/ on_depart_sector(f) \/ sim_cmd_prioritize_inbound(f)
             \/ sim_cmd_prioritize_holding(f) \/ sim_cmd_go_around(f)
      PROVE  AllLow(D, flights')
  BY <1>4, OtherLow
<1> QED BY <1>1, <1>2, <1>3, <1>4, Zenon DEF Next, sim_step, Command

LEMMA LowStep == TypeOK /\ EmergenciesLow /\ [Next]_vars => EmergenciesLow'
<1> SUFFICES ASSUME TypeOK, EmergenciesLow, [Next]_vars PROVE AllLow({}, flights')
  BY DEF EmergenciesLow, AllLow, Low
<1> QED BY DeclaredStep DEF EmergenciesLow

LEMMA EmergencyStep ==
  ASSUME TypeOK, AllTied, NothingIdleWhileWanted, EmergenciesLow, [Next]_vars,
         NEW f \in Flights, NEW g \in Flights, ClearedNow(f),
         InRing(holding, g), flights[g].emergency
  PROVE  flights'[f].fuel <= FUEL_EMERGENCY
<1>1. holding # <<>>
  BY EmptyRing DEF InRing
<1>2. PICK fl, ring, q, k :
          /\ ring \in Seq(Flights) /\ fl \in [Flights -> Aircraft]
          /\ k \in holding_pop_priority(ring, fl) /\ ring[k] = f
          /\ Served(f, fl, ring, q) /\ holding' = RemoveAt(ring, k)
          /\ InRing(ring, g) /\ fl[g] = flights[g]
  BY <1>1, ClearedHow
<1>3. flights'[f].fuel = fl[f].fuel
  BY <1>2 DEF Served
<1>4. PICK j \in DOMAIN ring : ring[j] = g
  BY <1>2 DEF InRing
<1>5. fl[ring[j]].emergency
  BY <1>2, <1>4
<1>6. fl[ring[k]].fuel <= fl[ring[j]].fuel
  BY <1>2, <1>4, <1>5 DEF holding_pop_priority
<1>7. fl[f].fuel <= flights[g].fuel /\ flights[g].fuel <= FUEL_EMERGENCY
  BY <1>2, <1>4, <1>6 DEF EmergenciesLow, AllLow, Low
<1>8. fl[f].fuel \in Nat /\ flights[g].fuel \in Nat
  BY <1>2 DEF TypeOK, Aircraft
<1> QED BY <1>3, <1>7, <1>8, FuelAssumption

\* Whoever is short of fuel goes first: while a flight that declared an emergency
\* is in the ring, a runway goes to a flight recorded no better than the threshold
\* of an emergency, whichever handler or command releases or finds the runway.
THEOREM EmergenciesAlwaysPreempt == Spec => EmergencyPreempts
<1>1. Init => EmergenciesLow
  BY DEF Init, Blank, EmergenciesLow, AllLow, Low
<1>2. TypeOK /\ AllTied /\ NothingIdleWhileWanted /\ EmergenciesLow /\ [Next]_vars
        => [\A f, g \in Flights :
               /\ ClearedNow(f)
               /\ \E k \in DOMAIN holding : holding[k] = g
               /\ flights[g].emergency /\ f # g
               => flights'[f].fuel <= FUEL_EMERGENCY]_vars
  BY EmergencyStep DEF InRing
<1> QED BY <1>1, <1>2, LowStep, TypeCorrect, AlwaysTied, HandedOver,
           PTL DEF Spec, EmergencyPreempts

-----------------------------------------------------------------------------
(* How the fuel checks go on.                                              *)

LEMMA GrowStep ==
  ASSUME TypeOK, AllTied, NothingIdleWhileWanted, [Next]_vars,
         NEW f \in Flights, flights[f].state = "AC_HOLDING",
         ~ NoMore(pq, pq', f)
  PROVE  /\ Count(pq', f, Fuel) = Count(pq, f, Fuel) + 1
         /\ sim_cmd_prioritize_holding(f)
<1>1. ~ SameChecks(pq, pq', f)
  BY SameNoMore
<1>2. CASE Quiet(flights', holding', pq')
  BY <1>2 DEF Quiet
<1>3. ASSUME NEW h \in Flights,
             \/ Joins(h, flights', holding', pq') \/ Declared(h) \/ Rechecked(h)
             \/ TakesIdle(h)
      PROVE  FALSE
  <2>1. CASE h = f
    <3>1. Count(pq, f, Fuel) \in Nat
      BY CountType DEF TypeOK
    <3> QED BY <1>3, <2>1, <3>1 DEF Joins, Declared, Rechecked, TakesIdle, NoMore
  <2>2. CASE h # f
    BY <1>1, <1>3, <2>2 DEF Joins, Declared, Rechecked, TakesIdle
  <2> QED BY <2>1, <2>2
<1>4. ASSUME NEW h \in Flights, NEW fl, NEW ring, NEW q, Offered(h, fl, ring, q)
      PROVE  FALSE
  <2>1. SameChecks(q, pq', f)
    BY <1>4 DEF Offered, Served
  <2>2. CASE Quiet(fl, ring, q)
    BY <2>1, <2>2 DEF Quiet, NoMore, SameChecks
  <2>3. CASE Joins(h, fl, ring, q)
    <3>1. SameChecks(pq, q, f)
      BY <2>3 DEF Joins
    <3> QED BY <1>1, <2>1, <3>1, SameTrans
  <2> QED BY <1>4, <2>2, <2>3 DEF Offered
<1>5. ASSUME NEW h \in Flights, sim_cmd_prioritize_holding(h), Requeued(h)
      PROVE  /\ Count(pq', f, Fuel) = Count(pq, f, Fuel) + 1
             /\ sim_cmd_prioritize_holding(f)
  BY <1>1, <1>5 DEF Requeued, Adds
<1> QED BY <1>2, <1>3, <1>4, <1>5, StepShape DEF Shape

\* No chain of fuel checks splits: a check that fires plans at most one more, the
\* waits that begin plan one, and only Expedite gives a flight that waits another.
THEOREM ChecksOnlyByExpedite == Spec => ChecksGrowByExpedite
<1>1. ASSUME TypeOK, AllTied, NothingIdleWhileWanted, [Next]_vars
      PROVE  [\A f \in InUse :
                 flights[f].state = "AC_HOLDING" /\ FuelChecks(f)' > FuelChecks(f)
                 => /\ FuelChecks(f)' = FuelChecks(f) + 1
                    /\ sim_cmd_prioritize_holding(f)]_vars
  <2>1. InUse \subseteq Flights
    BY <1>1, CountFits, SizeAssumption DEF InUse, Flights, Positive
  <2>2. ASSUME NEW f
        PROVE  FuelChecks(f) = Count(pq, f, Fuel) /\ FuelChecks(f)' = Count(pq', f, Fuel)
    BY DEF FuelChecks, Pending, Count, Fuel
  <2>3. \A f \in Flights : Count(pq, f, Fuel) \in Nat /\ Count(pq', f, Fuel) \in Nat
    <3>1. TypeOK'
      BY <1>1, StepType
    <3> QED BY <1>1, <3>1, CountType DEF TypeOK
  <2>4. \A f \in Flights :
            flights[f].state = "AC_HOLDING" /\ FuelChecks(f)' > FuelChecks(f)
            => /\ FuelChecks(f)' = FuelChecks(f) + 1
               /\ sim_cmd_prioritize_holding(f)
    BY <1>1, <2>2, <2>3, GrowStep DEF NoMore
  <2> QED BY <2>1, <2>4
<1> QED BY <1>1, TypeCorrect, AlwaysTied, HandedOver, PTL DEF Spec, ChecksGrowByExpedite

\* A check is pending for every flight that waits, no later than one delay
\* after its fuel was last brought up to date.
WatchedIn(fl, q) ==
    \A f \in Flights :
        fl[f].state = "AC_HOLDING" =>
            \E d \in Rechecks : \E t \in Checks(q, f) : t <= fl[f].last_update + d
Watched == WatchedIn(flights, pq)

LEMMA WatchedSoon ==
  ASSUME NEW f, NEW fl \in [Flights -> Aircraft], f \in Flights, NEW q, now' \in Nat,
         now' <= fl[f].last_update, \E d \in Rechecks : now' + d \in Checks(q, f)
  PROVE  \E d \in Rechecks : \E t \in Checks(q, f) : t <= fl[f].last_update + d
<1>1. PICK d \in Rechecks : now' + d \in Checks(q, f)
  OBVIOUS
<1>2. d \in Nat
  BY Delays DEF Rechecks
<1>3. fl[f].last_update \in Nat
  BY DEF Aircraft
<1>4. now' + d <= fl[f].last_update + d
  BY <1>2, <1>3
<1> QED BY <1>1, <1>4

LEMMA WatchedJoin ==
  ASSUME TypeOK, Watched, NEW f, NEW fl \in [Flights -> Aircraft], now' \in Nat,
         NEW ring, NEW q, Quiet(fl, ring, q) \/ Joins(f, fl, ring, q)
  PROVE  WatchedIn(fl, q)
<1> SUFFICES ASSUME NEW g \in Flights, fl[g].state = "AC_HOLDING"
             PROVE  \E d \in Rechecks : \E t \in Checks(q, g) : t <= fl[g].last_update + d
  BY DEF WatchedIn
<1>1. CASE g = f /\ Joins(f, fl, ring, q)
  BY <1>1, WatchedSoon DEF Joins
<1>2. CASE fl[g] = flights[g] /\ SameChecks(pq, q, g)
  BY <1>2 DEF Watched, WatchedIn, SameChecks
<1> QED BY <1>1, <1>2 DEF Quiet, Joins, OnlyBy

LEMMA WatchedStep ==
  TypeOK /\ AllTied /\ NothingIdleWhileWanted /\ Watched /\ [Next]_vars => Watched'
<1> SUFFICES ASSUME TypeOK, AllTied, NothingIdleWhileWanted, Watched, [Next]_vars
             PROVE  WatchedIn(flights', pq')
  BY DEF Watched, WatchedIn, Checks
<1>1. flights' \in [Flights -> Aircraft] /\ now' \in Nat
  <2>1. TypeOK'
    BY StepType
  <2> QED BY <2>1 DEF TypeOK
<1>2. CASE Quiet(flights', holding', pq')
  BY <1>1, <1>2, WatchedJoin
<1>3. ASSUME NEW f \in Flights, Joins(f, flights', holding', pq')
      PROVE  WatchedIn(flights', pq')
  BY <1>1, <1>3, WatchedJoin
<1>4. ASSUME NEW f \in Flights, \/ Declared(f) \/ Rechecked(f) \/ TakesIdle(f)
                                \/ Requeued(f)
      PROVE  WatchedIn(flights', pq')
  <2> SUFFICES ASSUME NEW g \in Flights, flights'[g].state = "AC_HOLDING"
               PROVE  \E d \in Rechecks : \E t \in Checks(pq', g) :
                          t <= flights'[g].last_update + d
    BY DEF WatchedIn
  <2>1. CASE g # f
    <3>1. flights'[g] = flights[g] /\ SameChecks(pq, pq', g)
      BY <1>4, <2>1 DEF Declared, Rechecked, TakesIdle, Requeued, OnlyBy, Adds
    <3> QED BY <3>1 DEF Watched, WatchedIn, SameChecks
  <2>2. CASE g = f /\ Rechecked(f)
    BY <1>1, <2>2, WatchedSoon DEF Rechecked
  <2>3. CASE g = f /\ Requeued(f)
    <3>1. /\ flights[g].state = "AC_HOLDING"
          /\ flights'[g].last_update = flights[g].last_update
          /\ Checks(pq, g) \subseteq Checks(pq', g)
      BY <2>3 DEF Requeued, Adds
    <3> QED BY <3>1 DEF Watched, WatchedIn
  <2> QED BY <1>4, <2>1, <2>2, <2>3 DEF Declared, TakesIdle
<1>5. ASSUME NEW h \in Flights, NEW fl, NEW ring, NEW q, Offered(h, fl, ring, q)
      PROVE  WatchedIn(flights', pq')
  <2>1. WatchedIn(fl, q)
    BY <1>1, <1>5, WatchedJoin DEF Offered
  <2>2. PICK s \in Flights : Served(s, fl, ring, q)
    BY <1>5 DEF Offered
  <2>3. \A g \in Flights : flights'[g].state = "AC_HOLDING"
                           => flights'[g] = fl[g] /\ Checks(pq', g) = Checks(q, g)
    BY <2>2 DEF Served, OnlyBy, SameChecks
  <2> QED BY <2>1, <2>3 DEF WatchedIn
<1> QED BY <1>2, <1>3, <1>4, <1>5, StepShape DEF Shape

LEMMA WatchedEnough == TypeOK /\ NothingOverdue /\ Watched => FuelWatched
<1> SUFFICES ASSUME TypeOK, NothingOverdue, Watched,
                    NEW f \in Live, flights[f].state = "AC_HOLDING"
             PROVE  \E d \in Rechecks : now <= flights[f].last_update + d
  BY DEF FuelWatched, Rechecks
<1>1. f \in Flights
  BY CountFits, SizeAssumption DEF Live, InUse, Flights, Positive
<1>2. PICK d \in Rechecks : \E t \in Checks(pq, f) : t <= flights[f].last_update + d
  BY <1>1 DEF Watched, WatchedIn
<1>3. PICK t \in Checks(pq, f) : t <= flights[f].last_update + d
  BY <1>2
<1>4. PICK i \in DOMAIN pq : pq[i].time = t
  BY <1>3 DEF Checks
<1>5. now <= t
  BY <1>4 DEF NothingOverdue
<1>6. pq[i] \in AtcEvent(Flights)
  BY <1>4, ElementOfSeq, LenProperties DEF TypeOK
<1>7. now \in Nat /\ t \in Nat /\ d \in Nat /\ flights[f].last_update \in Nat
  <2>1. t \in Nat
    BY <1>4, <1>6 DEF AtcEvent
  <2>2. d \in Nat
    BY Delays DEF Rechecks
  <2> QED BY <1>1, <2>1, <2>2 DEF TypeOK, Aircraft
<1>8. now <= flights[f].last_update + d
  BY <1>3, <1>5, <1>7
<1> QED BY <1>8

\* No waiting flight runs dry unseen: in the ring or dropped from a full one,
\* through go-arounds and Expedite, its recorded fuel is never older than the
\* longest delay between two checks.
THEOREM AlwaysWatched == Spec => []FuelWatched
<1>1. Init => Watched
  <2> SUFFICES ASSUME Init PROVE \A f \in Flights : flights[f].state # "AC_HOLDING"
    BY DEF Watched, WatchedIn
  <2> QED BY DEF Init, Blank
<1> QED BY <1>1, WatchedStep, WatchedEnough, TypeCorrect, AlwaysTied, HandedOver,
           NeverOverdue, PTL DEF Spec

\* How far recorded fuel can be from the fuel that is left.
LEMMA BurntSince ==
  ASSUME NEW a \in Aircraft, now' \in Nat, NEW d \in Nat, now' <= a.last_update + d
  PROVE  a.fuel <= decay_fuel(a).fuel + FUEL_BURN_RATE * d
<1>1. /\ FUEL_BURN_RATE \in Nat /\ a.fuel \in Nat /\ a.last_update \in Nat
      /\ FUEL_BURN_RATE * d \in Nat
  BY FuelAssumption DEF Positive, Aircraft
<1>2. CASE now' > a.last_update
  <2> DEFINE since == now' - a.last_update
             burnt == FUEL_BURN_RATE * since
             left  == IF burnt < a.fuel THEN a.fuel - burnt ELSE 0
  <2>1. since \in Nat /\ since <= d
    BY <1>1, <1>2
  <2> HIDE DEF since
  <2>2. burnt \in Nat /\ burnt <= FUEL_BURN_RATE * d
    <3>1. \A r, x, y \in Nat : x <= y => r * x \in Nat /\ r * x <= r * y
      OBVIOUS
    <3> QED BY <1>1, <2>1, <3>1
  <2>3. decay_fuel(a) = [a EXCEPT !.fuel = left, !.last_update = now']
    BY <1>2 DEF decay_fuel, since
  <2> HIDE DEF burnt
  <2>4. a.fuel <= left + FUEL_BURN_RATE * d
    BY <1>1, <2>2
  <2> HIDE DEF left
  <2> QED BY <2>3, <2>4 DEF Aircraft
<1>3. CASE ~ (now' > a.last_update)
  BY <1>1, <1>3 DEF decay_fuel
<1> QED BY <1>2, <1>3

LEMMA LeastFuelStep ==
  ASSUME TypeOK, AllTied, NothingIdleWhileWanted, TypeOK', AllTied', FuelWatched',
         [Next]_vars, NEW f \in Flights, NEW g \in Flights, ClearedNow(f),
         InRing(holding, f), InRing(holding, g),
         \E k \in DOMAIN holding : flights[holding[k]].emergency
  PROVE  \E d \in Rechecks : FuelLeft(flights[f])
                                 <= FuelLeft(flights[g]) + FUEL_BURN_RATE * d
<1>1. /\ flights[f] \in Aircraft /\ flights[g] \in Aircraft /\ now' \in Nat
      /\ holding \in Seq(Flights) /\ FUEL_BURN_RATE \in Nat
  BY FuelAssumption DEF TypeOK, Positive
<1>2. PICK fl, ring, q, k :
          /\ ring \in Seq(Flights) /\ fl \in [Flights -> Aircraft]
          /\ k \in holding_pop_priority(ring, fl) /\ ring[k] = f
          /\ Served(f, fl, ring, q) /\ holding' = RemoveAt(ring, k)
          /\ \A h \in Flights : InRing(holding, h)
                 => InRing(ring, h) /\ fl[h] = flights[h]
  <2>1. holding # <<>>
    BY EmptyRing DEF InRing
  <2> QED BY <2>1, ClearedHow
<1>3. \E j \in DOMAIN ring : fl[ring[j]].emergency
  <2>1. PICK j \in DOMAIN holding : flights[holding[j]].emergency
    OBVIOUS
  <2>2. holding[j] \in Flights /\ InRing(holding, holding[j])
    BY <1>1, <2>1, ElementOfSeq DEF InRing
  <2>3. InRing(ring, holding[j]) /\ fl[holding[j]] = flights[holding[j]]
    BY <1>2, <2>2
  <2> QED BY <2>1, <2>3 DEF InRing
<1>4. flights[f].fuel <= flights[g].fuel
  <2>1. \A j \in DOMAIN ring : fl[f].fuel <= fl[ring[j]].fuel
    BY <1>2, <1>3 DEF holding_pop_priority
  <2> QED BY <1>2, <2>1 DEF InRing
<1>5. FuelLeft(flights[f]) <= flights[f].fuel
  BY <1>1, DecayDoes DEF FuelLeft
<1>6. PICK d \in Rechecks : flights[g].fuel <= FuelLeft(flights[g]) + FUEL_BURN_RATE * d
                            \/ f = g
  <2>1. CASE f = g
    BY <2>1 DEF Rechecks
  \* The other flight still waits after the step, and is watched.
  <2>2. CASE f # g
    <3>1. InRing(holding', g) /\ flights'[g] = flights[g]
      <4>1. PICK j \in DOMAIN ring : ring[j] = g
        BY <1>2 DEF InRing
      <4>2. j # k /\ k \in DOMAIN ring
        BY <1>2, <2>2, <4>1 DEF holding_pop_priority
      <4> QED BY <1>2, <2>2, <4>1, <4>2, OthersStay DEF Served, OnlyBy
    <3>2. RingsHoldWaiting'
      <4>1. AllTied' => RingsHoldWaiting'
        BY TiedRings, PTL
      <4> QED BY <4>1
    <3>3. g \in InUse' /\ flights'[g].state = "AC_HOLDING"
      BY <3>1, <3>2 DEF RingsHoldWaiting, InRing
    <3>4. PICK d \in Rechecks : now' <= flights[g].last_update + d
      BY <3>1, <3>3 DEF FuelWatched, Rechecks, Live, Gone
    <3>5. d \in Nat
      BY Delays DEF Rechecks
    <3> QED BY <1>1, <3>4, <3>5, BurntSince DEF FuelLeft
  <2> QED BY <2>1, <2>2
<1>7. /\ FuelLeft(flights[f]) \in Nat /\ FuelLeft(flights[g]) \in Nat
      /\ flights[f].fuel \in Nat /\ flights[g].fuel \in Nat
      /\ FUEL_BURN_RATE * d \in Nat
  <2>1. decay_fuel(flights[f]) \in Aircraft /\ decay_fuel(flights[g]) \in Aircraft
    BY <1>1, DecayType
  <2>2. d \in Nat
    BY Delays DEF Rechecks
  <2>3. \A x \in Aircraft : x.fuel \in Nat
    BY DEF Aircraft
  <2>4. \A r, x \in Nat : r * x \in Nat
    OBVIOUS
  <2> QED BY <1>1, <2>1, <2>2, <2>3, <2>4 DEF FuelLeft
<1>8. FuelLeft(flights[f]) <= FuelLeft(flights[g]) + FUEL_BURN_RATE * d
  BY <1>4, <1>5, <1>6, <1>7
<1> QED BY <1>8

\* holding_pop_priority compares recorded fuel, which may be old.  Whom it prefers
\* in an emergency has little more left than any other flight in the ring, since
\* no recorded fuel is older than a delay between two checks.
THEOREM LeastFuelAlwaysFirst == Spec => LeastFuelFirst
<1>1. TypeOK /\ AllTied /\ NothingIdleWhileWanted /\ TypeOK' /\ AllTied'
        /\ FuelWatched' /\ [Next]_vars
        => [\A i, j \in DOMAIN holding :
              /\ \E k \in DOMAIN holding : flights[holding[k]].emergency
              /\ ClearedNow(holding[i])
              => \E d \in {HOLD_RECHECK, EMERGENCY_RECHECK, GO_AROUND_RECHECK} :
                     FuelLeft(flights[holding[i]])
                         <= FuelLeft(flights[holding[j]]) + FUEL_BURN_RATE * d]_vars
  <2> SUFFICES ASSUME TypeOK, AllTied, NothingIdleWhileWanted, TypeOK', AllTied',
                      FuelWatched', [Next]_vars,
                      NEW i \in DOMAIN holding, NEW j \in DOMAIN holding,
                      \E k \in DOMAIN holding : flights[holding[k]].emergency,
                      ClearedNow(holding[i])
               PROVE  \E d \in Rechecks :
                         FuelLeft(flights[holding[i]])
                             <= FuelLeft(flights[holding[j]]) + FUEL_BURN_RATE * d
    BY DEF Rechecks
  <2>1. holding \in Seq(Flights)
    BY DEF TypeOK
  <2>2. /\ holding[i] \in Flights /\ InRing(holding, holding[i])
        /\ holding[j] \in Flights /\ InRing(holding, holding[j])
    BY <2>1, ElementOfSeq DEF InRing
  <2> QED BY <2>2, LeastFuelStep
<1> QED BY <1>1, TypeCorrect, AlwaysTied, HandedOver, AlwaysWatched, PTL
        DEF Spec, LeastFuelFirst

-----------------------------------------------------------------------------
(* Without commands, first come, first in the ring.                        *)

\* The ring is in the order of the times that its flights began to wait, and
\* none lies ahead of time t.
Lined(fl, ring, t) ==
    /\ \A i, j \in DOMAIN ring :
           i < j => fl[ring[i]].queue_enter_time <= fl[ring[j]].queue_enter_time
    /\ \A k \in DOMAIN ring : fl[ring[k]].queue_enter_time <= t

\* An arrival that declares an emergency waits for the check at the same time.
Prompt(fl, q) ==
    \A f \in Flights : fl[f].state = "AC_INBOUND" =>
        \A t \in Checks(q, f) : t = fl[f].queue_enter_time

InLine == Lined(flights, holding, now) /\ Prompt(flights, pq)

LEMMA LinedLater ==
  ASSUME NEW fl \in [Flights -> Aircraft], NEW ring \in Seq(Flights),
         NEW t \in Nat, NEW u \in Nat, t <= u, Lined(fl, ring, t)
  PROVE  Lined(fl, ring, u)
<1>1. ASSUME NEW k \in DOMAIN ring PROVE fl[ring[k]].queue_enter_time <= u
  <2>1. ring[k] \in Flights
    BY <1>1, ElementOfSeq
  <2>2. fl[ring[k]].queue_enter_time \in Nat
    BY <2>1 DEF Aircraft
  <2> QED BY <1>1, <2>2 DEF Lined
<1> QED BY <1>1 DEF Lined

LEMMA LinedThinned ==
  ASSUME NEW fl, NEW gl, NEW ring, NEW r, NEW t, Lined(fl, ring, t), Thinned(r, ring),
         \A k \in DOMAIN r : gl[r[k]] = fl[r[k]]
  PROVE  Lined(gl, r, t)
<1>1. PICK m \in [DOMAIN r -> DOMAIN ring] :
          /\ \A k \in DOMAIN r : r[k] = ring[m[k]]
          /\ \A j, k \in DOMAIN r : j < k => m[j] < m[k]
  BY DEF Thinned
<1>2. ASSUME NEW j \in DOMAIN r, NEW k \in DOMAIN r, j < k
      PROVE  gl[r[j]].queue_enter_time <= gl[r[k]].queue_enter_time
  <2>1. m[j] \in DOMAIN ring /\ m[k] \in DOMAIN ring /\ m[j] < m[k]
    BY <1>1, <1>2
  <2>2. fl[ring[m[j]]].queue_enter_time <= fl[ring[m[k]]].queue_enter_time
    BY <2>1 DEF Lined
  <2> QED BY <1>1, <1>2, <2>2
<1>3. ASSUME NEW k \in DOMAIN r PROVE gl[r[k]].queue_enter_time <= t
  <2>1. m[k] \in DOMAIN ring
    BY <1>1, <1>3
  <2>2. fl[ring[m[k]]].queue_enter_time <= t
    BY <2>1 DEF Lined
  <2> QED BY <1>1, <1>3, <2>2
<1> QED BY <1>2, <1>3 DEF Lined

\* Who joins the ring now joins it behind all that are in it.
LEMMA LinedPushed ==
  ASSUME NEW fl \in [Flights -> Aircraft], NEW ring \in Seq(Flights), NEW f \in Flights,
         NEW t \in Nat, Lined(fl, ring, t), fl[f].queue_enter_time = t
  PROVE  Lined(fl, holding_push(ring, f), t)
<1>1. CASE Len(ring) < MAX_HOLDING_SLOTS
  <2> DEFINE n == Len(ring)
             r == Append(ring, f)
  <2>1. n \in Nat /\ DOMAIN ring = 1..n
    BY LenProperties
  <2>2. /\ r \in Seq(Flights) /\ Len(r) = n + 1
        /\ \A k \in 1..n : r[k] = ring[k]
        /\ r[n + 1] = f
    BY <2>1, AppendProperties
  <2>3. DOMAIN r = 1 .. n + 1
    BY <2>2, LenProperties
  <2>4. holding_push(ring, f) = r
    BY <1>1 DEF holding_push
  <2> HIDE DEF r, n
  <2>5. ASSUME NEW k \in DOMAIN r PROVE fl[r[k]].queue_enter_time <= t
    <3>1. CASE k \in 1..n
      <4>1. fl[ring[k]].queue_enter_time <= t
        BY <2>1, <3>1 DEF Lined
      <4> QED BY <2>2, <3>1, <4>1
    <3>2. CASE k = n + 1
      BY <2>2, <3>2
    <3> QED BY <2>1, <2>3, <2>5, <3>1, <3>2
  <2>6. ASSUME NEW i \in DOMAIN r, NEW j \in DOMAIN r, i < j
        PROVE  fl[r[i]].queue_enter_time <= fl[r[j]].queue_enter_time
    <3>1. CASE j \in 1..n
      <4>1. i \in 1..n
        BY <2>1, <2>3, <2>6, <3>1
      <4>2. fl[ring[i]].queue_enter_time <= fl[ring[j]].queue_enter_time
        BY <2>1, <2>6, <3>1, <4>1 DEF Lined
      <4> QED BY <2>2, <3>1, <4>1, <4>2
    <3>2. CASE j = n + 1
      BY <2>2, <2>5, <3>2
    <3> QED BY <2>1, <2>3, <2>6, <3>1, <3>2
  <2> QED BY <2>4, <2>5, <2>6 DEF Lined
<1>2. CASE ~ (Len(ring) < MAX_HOLDING_SLOTS)
  BY <1>2 DEF holding_push
<1> QED BY <1>1, <1>2

LEMMA LinedJoin ==
  ASSUME TypeOK, AllTied, InLine, now' \in Nat, now <= now', NEW f,
         NEW fl \in [Flights -> Aircraft], NEW ring, NEW q, Joins(f, fl, ring, q)
  PROVE  Lined(fl, ring, now')
<1>1. /\ f \in Flights /\ OnlyBy(f, flights, fl) /\ flights[f].state # "AC_HOLDING"
      /\ ring = holding_push(holding, f)
  BY DEF Joins
<1>2. /\ holding \in Seq(Flights) /\ flights \in [Flights -> Aircraft] /\ now \in Nat
  BY DEF TypeOK
<1>3. Lined(flights, holding, now')
  BY <1>2, LinedLater DEF InLine
<1>4. \A k \in DOMAIN holding : fl[holding[k]] = flights[holding[k]]
  <2>1. \A k \in DOMAIN holding : holding[k] \in Flights /\ InRing(holding, holding[k])
    BY <1>2, ElementOfSeq DEF InRing
  <2> QED BY <1>1, <2>1, RingKept
<1>5. Lined(fl, holding, now')
  BY <1>2, <1>3, <1>4, ThinnedSelf, LinedThinned
<1>6. fl[f].queue_enter_time = now'
  BY DEF Joins, InLine, Prompt
<1> QED BY <1>1, <1>2, <1>5, <1>6, LinedPushed

LEMMA PromptKept ==
  ASSUME InLine, NEW f, NEW fl, NEW ring, NEW q,
         Quiet(fl, ring, q) \/ Joins(f, fl, ring, q)
  PROVE  Prompt(fl, q)
<1> SUFFICES ASSUME NEW g \in Flights, fl[g].state = "AC_INBOUND", NEW t \in Checks(q, g)
             PROVE  t = fl[g].queue_enter_time
  BY DEF Prompt
<1>1. CASE Quiet(fl, ring, q)
  BY <1>1 DEF Quiet, SameChecks, InLine, Prompt
<1>2. CASE Joins(f, fl, ring, q)
  BY <1>2 DEF Joins, OnlyBy, SameChecks, InLine, Prompt
<1> QED BY <1>1, <1>2

LEMMA InLineStep ==
  ASSUME TypeOK, AllTied, NothingIdleWhileWanted, InLine, now <= now',
         TypeOK', AllTied', [sim_step]_vars
  PROVE  InLine'
<1> SUFFICES Lined(flights', holding', now') /\ Prompt(flights', pq')
  BY DEF InLine, Lined, Prompt, Checks
<1>1. /\ flights' \in [Flights -> Aircraft] /\ now' \in Nat /\ holding' \in Seq(Flights)
      /\ flights \in [Flights -> Aircraft] /\ now \in Nat /\ holding \in Seq(Flights)
  BY DEF TypeOK
<1>2. \A k \in DOMAIN holding' : /\ holding'[k] \in Flights
                                 /\ flights'[holding'[k]].state = "AC_HOLDING"
  BY <1>1, ElementOfSeq DEF AllTied, Tied, RingsTied, Waiting
<1>3. Lined(flights, holding, now')
  BY <1>1, LinedLater DEF InLine
<1>4. CASE Quiet(flights', holding', pq')
  <2>1. \A k \in DOMAIN holding' : flights'[holding'[k]] = flights[holding'[k]]
    BY <1>2, <1>4 DEF Quiet
  <2>2. Thinned(holding', holding)
    BY <1>4 DEF Quiet
  <2> QED BY <1>3, <1>4, <2>1, <2>2, LinedThinned, PromptKept
<1>5. ASSUME NEW f \in Flights, Joins(f, flights', holding', pq')
      PROVE  Lined(flights', holding', now') /\ Prompt(flights', pq')
  BY <1>1, <1>5, LinedJoin, PromptKept
<1>6. ASSUME NEW f \in Flights, Declared(f) \/ Rechecked(f)
      PROVE  Lined(flights', holding', now') /\ Prompt(flights', pq')
  <2>1. /\ OnlyBy(f, flights, flights') /\ holding' = holding
        /\ \A g \in Flights \ {f} : SameChecks(pq, pq', g)
    BY <1>6 DEF Declared, Rechecked
  <2>2. Lined(flights', holding', now')
    <3>1. \A k \in DOMAIN holding :
              flights'[holding[k]].queue_enter_time = flights[holding[k]].queue_enter_time
      BY <1>2, <1>6, <2>1 DEF Declared, Rechecked, OnlyBy
    <3> QED BY <1>3, <2>1, <3>1 DEF Lined
  <2>3. Prompt(flights', pq')
    <3> SUFFICES ASSUME NEW g \in Flights, flights'[g].state = "AC_INBOUND",
                        NEW t \in Checks(pq', g)
                 PROVE  t = flights'[g].queue_enter_time
      BY DEF Prompt
    <3>1. CASE g = f
      BY <1>6, <3>1 DEF Declared, Rechecked
    <3>2. CASE g # f
      BY <2>1, <3>2 DEF OnlyBy, SameChecks, InLine, Prompt
    <3> QED BY <3>1, <3>2
  <2> QED BY <2>2, <2>3
<1>7. ASSUME NEW f \in Flights, TakesIdle(f)
      PROVE  Lined(flights', holding', now') /\ Prompt(flights', pq')
  <2>1. Lined(flights', holding', now')
    BY <1>7 DEF TakesIdle, Lined
  <2>2. Prompt(flights', pq')
    BY <1>7 DEF TakesIdle, OnlyBy, SameChecks, InLine, Prompt
  <2> QED BY <2>1, <2>2
<1>8. ASSUME NEW h \in Flights, NEW fl, NEW ring, NEW q, Offered(h, fl, ring, q)
      PROVE  Lined(flights', holding', now') /\ Prompt(flights', pq')
  <2>1. /\ fl \in [Flights -> Aircraft] /\ ring \in Seq(Flights)
        /\ \A g \in Flights : InRing(holding, g) => fl[g] = flights[g]
        /\ \/ Quiet(fl, ring, q) /\ ring = holding
           \/ Joins(h, fl, ring, q)
    BY <1>8 DEF Offered
  <2>2. PICK s \in Flights : Served(s, fl, ring, q)
    BY <1>8 DEF Offered
  <2>3. Lined(fl, ring, now')
    <3>1. CASE ring = holding
      <4>1. \A k \in DOMAIN holding : fl[holding[k]] = flights[holding[k]]
        BY <1>1, <2>1, ElementOfSeq DEF InRing
      <4> QED BY <1>1, <1>3, <3>1, <4>1, ThinnedSelf, LinedThinned
    <3>2. CASE Joins(h, fl, ring, q)
      BY <1>1, <2>1, <3>2, LinedJoin
    <3> QED BY <2>1, <3>1, <3>2
  <2>4. Thinned(holding', ring)
    <3>1. PICK k \in DOMAIN ring : holding' = RemoveAt(ring, k)
      BY <2>2 DEF Served, holding_pop_priority
    <3>2. k \in 1 .. Len(ring)
      BY <2>1, LenProperties
    <3> QED BY <2>1, <3>1, <3>2, RemoveAtThins
  <2>5. \A k \in DOMAIN holding' : flights'[holding'[k]] = fl[holding'[k]]
    BY <1>2, <2>2 DEF Served, OnlyBy
  <2>6. Lined(flights', holding', now')
    BY <2>3, <2>4, <2>5, LinedThinned
  <2>7. Prompt(fl, q)
    BY <2>1, PromptKept
  <2>8. Prompt(flights', pq')
    BY <2>2, <2>7 DEF Served, OnlyBy, SameChecks, Prompt
  <2> QED BY <2>6, <2>8
<1> QED BY <1>4, <1>5, <1>6, <1>7, <1>8, EventShape DEF Shape

\* Without commands, plain first-in first-out service of the ring is fair: the
\* ring is in the order in which its flights began to wait, though fuel checks
\* and go-arounds put flights into it as well as arrivals.
THEOREM RingStaysInOrder == BatchSpec => []HoldingInOrder
<1>1. Init => InLine
  <2> SUFFICES ASSUME Init PROVE Lined(flights, holding, now) /\ Prompt(flights, pq)
    BY DEF InLine
  <2>1. holding = <<>> /\ DOMAIN holding = {}
    BY DEF Init
  <2>2. ASSUME NEW f \in Flights PROVE Checks(pq, f) = {}
    <3>1. flight_count = 0 /\ ~ (f < 0) /\ Fuel \in SUBSET (Movers \cup Fuel)
      BY DEF Init, Flights
    <3>2. DrivenFor(f, {}, flights, taxi_wait, pq, 0)
      BY <3>1, InitTied DEF AllTied, Tied, DriveTied
    <3>3. Count(pq, f, Fuel) = 0
      BY <3>1, <3>2 DEF DrivenFor
    <3> QED BY <3>3, InitType, NoChecks DEF TypeOK
  <2> QED BY <2>1, <2>2 DEF Lined, Prompt
<1>2. InLine => HoldingInOrder
  BY DEF InLine, Lined, HoldingInOrder
<1>3. /\ TypeOK /\ AllTied /\ NothingIdleWhileWanted /\ InLine
      /\ [now <= now']_vars /\ [sim_step]_vars /\ TypeOK' /\ AllTied'
      => InLine'
  <2> SUFFICES ASSUME TypeOK, [now <= now']_vars PROVE now <= now'
    BY InLineStep
  <2> QED BY DEF vars, TypeOK
<1> QED BY <1>1, <1>2, <1>3, BatchIsSpec, TypeCorrect, AlwaysTied, HandedOver, NeverBack,
           PTL DEF BatchSpec, ClockForward

-----------------------------------------------------------------------------
(* What a handler pushes.                                                  *)

Touching == {"EVENT_TOUCHDOWN"}

\* The handler of the first event may plan a check of flight f: it is the
\* flight of that event, nothing else moves it on, and a check is pending for it
\* only if the event is one of those that may find a check pending.
Rechecking(f) ==
    /\ f = Head(pq).flight /\ Count(Tail(pq), f, Movers) = 0
    /\ Head(pq).type \in Fuel \cup Touching \/ Count(Tail(pq), f, Fuel) = 0

\* The events that a step may push, as far as checks and touchdowns go.
Planned == {e \in AtcEvent(Flights) :
               /\ e.type \in Fuel =>
                      /\ Rechecking(e.flight)
                      /\ \E d \in Rechecks \cup {0} : e.time = now' + d
               /\ e.type \in Touching =>
                      \E w \in Wake : e.time = now' + Occupancy(RUNWAY_LANDING_T, w)}
Uncheck == {e \in Planned : e.type \notin Fuel}

\* From q to r at most one event is pushed, one in X.
Pushes(q, r, X) == r = q \/ \E e \in X : r = pq_push(q, e)

\* A step pops an event and pushes at most two, and one check at most.
StepPushes == \E q : Pushes(Tail(pq), q, Planned) /\ Pushes(q, pq', Uncheck)

LEMMA PushElements ==
  ASSUME NEW q \in Seq(AtcEvent(Flights)), NEW e \in AtcEvent(Flights)
  PROVE  /\ pq_push(q, e) \in Seq(AtcEvent(Flights))
         /\ Range(pq_push(q, e)) = Range(q) \cup {e}
<1> DEFINE p == 1 + Cardinality({i \in DOMAIN q : ~ ev_less(e, q[i])})
           r == InsertAt(q, p, e)
           n == Len(q)
<1>1. pq_push(q, e) = r
  BY DEF pq_push
<1>2. n \in Nat /\ DOMAIN q = 1..n
  BY LenProperties
<1>3. p \in 1 .. n + 1
  <2>1. {i \in DOMAIN q : ~ ev_less(e, q[i])} \in SUBSET (1..n)
    BY <1>2
  <2> QED BY <1>2, <2>1, Positions
<1> HIDE DEF p
<1>4. r \in Seq(AtcEvent(Flights)) /\ Len(r) = n + 1
  BY <1>3, InsertAtType
<1>5. DOMAIN r = 1 .. n + 1
  BY <1>4, LenProperties
<1>6. \A k \in 1 .. n + 1 : /\ k < p => r[k] = q[k]
                            /\ k = p => r[k] = e
                            /\ k > p => r[k] = q[k - 1]
  BY <1>3, InsertAtElements
<1> HIDE DEF r, n
<1>7. ASSUME NEW k \in 1 .. n + 1 PROVE r[k] = e \/ \E i \in 1..n : r[k] = q[i]
  <2>1. CASE k < p
    <3>1. k \in 1..n
      BY <1>2, <1>3, <2>1
    <3> QED BY <1>6, <2>1, <3>1
  <2>2. CASE k > p
    <3>1. k - 1 \in 1..n
      BY <1>2, <1>3, <2>2
    <3> QED BY <1>6, <2>2, <3>1
  <2>3. CASE k = p
    BY <1>6, <2>3
  <2> QED BY <1>2, <1>3, <2>1, <2>2, <2>3
<1>8. ASSUME NEW i \in 1..n PROVE \E k \in 1 .. n + 1 : r[k] = q[i]
  <2>1. CASE i < p
    <3>1. i \in 1 .. n + 1
      BY <1>2
    <3> QED BY <1>6, <2>1, <3>1
  <2>2. CASE ~ (i < p)
    <3>1. i + 1 \in 1 .. n + 1 /\ i + 1 > p /\ (i + 1) - 1 = i
      BY <1>2, <1>3, <2>2
    <3> QED BY <1>6, <3>1
  <2> QED BY <2>1, <2>2
<1>9. r[p] = e
  BY <1>3, <1>6
<1>10. Range(r) = {r[k] : k \in 1 .. n + 1} /\ Range(q) = {q[i] : i \in 1..n}
  BY <1>2, <1>5 DEF Range
<1>11. Range(r) = Range(q) \cup {e}
  BY <1>3, <1>7, <1>8, <1>9, <1>10
<1> QED BY <1>1, <1>4, <1>11

LEMMA TailElements ==
  ASSUME NEW q \in Seq(AtcEvent(Flights)), q # <<>>
  PROVE  /\ Tail(q) \in Seq(AtcEvent(Flights))
         /\ Range(q) = {Head(q)} \cup Range(Tail(q))
<1> DEFINE n == Len(q)
<1>1. n \in Nat /\ n # 0 /\ DOMAIN q = 1..n
  BY LenProperties, EmptySeq
<1>2. Head(q) = q[1] /\ 1 \in 1..n
  BY <1>1, HeadTailProperties
<1>3. /\ Tail(q) \in Seq(AtcEvent(Flights)) /\ Len(Tail(q)) = n - 1
      /\ \A i \in 1 .. n - 1 : Tail(q)[i] = q[i + 1]
  BY <1>1, HeadTailProperties
<1>4. DOMAIN Tail(q) = 1 .. n - 1
  BY <1>3, LenProperties
<1> HIDE DEF n
<1>5. \A k \in 1 .. n - 1 : k + 1 \in 1..n
  BY <1>1
<1>6. \A i \in 1..n : i # 1 => i - 1 \in 1 .. n - 1 /\ (i - 1) + 1 = i
  BY <1>1
<1>7. Range(Tail(q)) = {q[k + 1] : k \in 1 .. n - 1} /\ Range(q) = {q[i] : i \in 1..n}
  BY <1>1, <1>3, <1>4 DEF Range
<1>8. ASSUME NEW i \in 1..n PROVE q[i] = q[1] \/ \E k \in 1 .. n - 1 : q[i] = q[k + 1]
  BY <1>6
<1> QED BY <1>2, <1>3, <1>5, <1>7, <1>8

LEMMA PushesElements ==
  ASSUME NEW q \in Seq(AtcEvent(Flights)), NEW r, NEW X \in SUBSET AtcEvent(Flights),
         Pushes(q, r, X)
  PROVE  /\ r \in Seq(AtcEvent(Flights))
         /\ Range(q) \subseteq Range(r) /\ Range(r) \subseteq Range(q) \cup X
BY PushElements DEF Pushes

LEMMA PlannedEvents == Planned \subseteq AtcEvent(Flights) /\ Uncheck \subseteq Planned
BY DEF Planned, Uncheck

\* The events of a step, as sets: what was pending stays, what is new is planned.
LEMMA StepElements ==
  ASSUME TypeOK, pq # <<>>, StepPushes
  PROVE  /\ pq' \in Seq(AtcEvent(Flights))
         /\ Range(Tail(pq)) \subseteq Range(pq')
         /\ Range(pq') \subseteq Range(Tail(pq)) \cup Planned
<1>1. PICK q : Pushes(Tail(pq), q, Planned) /\ Pushes(q, pq', Uncheck)
  BY DEF StepPushes
<1>2. Tail(pq) \in Seq(AtcEvent(Flights))
  BY TailElements DEF TypeOK
<1>3. /\ q \in Seq(AtcEvent(Flights)) /\ Range(Tail(pq)) \subseteq Range(q)
      /\ Range(q) \subseteq Range(Tail(pq)) \cup Planned
  BY <1>1, <1>2, PlannedEvents, PushesElements
<1>4. /\ pq' \in Seq(AtcEvent(Flights)) /\ Range(q) \subseteq Range(pq')
      /\ Range(pq') \subseteq Range(q) \cup Uncheck
  BY <1>1, <1>3, PlannedEvents, PushesElements
<1> QED BY <1>3, <1>4, PlannedEvents

LEMMA PlanEvent ==
  ASSUME NEW q, NEW f \in Flights, NEW type \in EventType, type \notin Fuel \cup Touching,
         NEW time \in Nat, NEW weight \in PRIO_EMERGENCY .. PRIO_ROUTINE
  PROVE  Pushes(q, schedule(q, f, type, time, weight), Uncheck)
<1> DEFINE e == [flight |-> f, type |-> type, time |-> time, weight |-> weight]
<1>1. e \in AtcEvent(Flights) /\ e.type = type
  BY DEF AtcEvent
<1>2. schedule(q, f, type, time, weight) = pq_push(q, e)
  BY DEF schedule
<1> HIDE DEF e
<1>3. e \in Uncheck
  BY <1>1 DEF Uncheck, Planned
<1> QED BY <1>2, <1>3 DEF Pushes

LEMMA PlanTouchdown ==
  ASSUME NEW q, NEW f \in Flights, NEW wake \in Wake, now' \in Nat, weather \in Weather,
         NEW weight \in PRIO_EMERGENCY .. PRIO_ROUTINE
  PROVE  Pushes(q, schedule(q, f, "EVENT_TOUCHDOWN",
                            now' + Occupancy(RUNWAY_LANDING_T, wake), weight), Uncheck)
<1> DEFINE t == now' + Occupancy(RUNWAY_LANDING_T, wake)
           e == [flight |-> f, type |-> "EVENT_TOUCHDOWN", time |-> t, weight |-> weight]
<1>1. t \in Nat
  BY Delays, OccupancyType, Later
<1>2. e \in AtcEvent(Flights) /\ e.type = "EVENT_TOUCHDOWN" /\ e.time = t
  BY <1>1, Types DEF AtcEvent
<1>3. schedule(q, f, "EVENT_TOUCHDOWN", t, weight) = pq_push(q, e)
  BY DEF schedule
<1> HIDE DEF e
<1>4. e \in Uncheck
  BY <1>2 DEF Uncheck, Planned, Fuel
<1> QED BY <1>3, <1>4 DEF Pushes

LEMMA PlanCheck ==
  ASSUME NEW q, NEW f \in Flights, Rechecking(f), now' \in Nat, NEW d \in Rechecks \cup {0},
         NEW weight \in PRIO_EMERGENCY .. PRIO_ROUTINE
  PROVE  Pushes(q, schedule(q, f, "EVENT_EMERGENCY_FUEL", now' + d, weight), Planned)
<1> DEFINE e == [flight |-> f, type |-> "EVENT_EMERGENCY_FUEL", time |-> now' + d,
                 weight |-> weight]
<1>1. now' + d \in Nat
  BY Delays, Later DEF Rechecks
<1>2. /\ e \in AtcEvent(Flights) /\ e.type = "EVENT_EMERGENCY_FUEL"
      /\ e.flight = f /\ e.time = now' + d
  BY <1>1, Types DEF AtcEvent
<1>3. schedule(q, f, "EVENT_EMERGENCY_FUEL", now' + d, weight) = pq_push(q, e)
  BY DEF schedule
<1> HIDE DEF e
<1>4. e \in Planned
  BY <1>2 DEF Planned, Touching
<1> QED BY <1>3, <1>4 DEF Pushes

LEMMA PlanRecheck ==
  ASSUME NEW q, NEW f \in Flights, Rechecking(f), now' \in Nat, NEW d \in Rechecks, NEW a
  PROVE  Pushes(q, CheckFuelAfter(q, f, a, d), Planned)
<1>1. LandingWeight(a) \in PRIO_EMERGENCY .. PRIO_ROUTINE
  BY WeightType
<1> QED BY <1>1, PlanCheck DEF CheckFuelAfter

\* A step that pushes one event only, or none.
LEMMA PushesOne ==
  /\ Pushes(Tail(pq), pq', Planned) => StepPushes
  /\ Pushes(Tail(pq), pq', Uncheck) => StepPushes
BY DEF StepPushes, Pushes

LEMMA PushesTwo ==
  ASSUME NEW q, Pushes(Tail(pq), q, Uncheck), Pushes(q, pq', Uncheck)
  PROVE  StepPushes
<1>1. Pushes(Tail(pq), q, Planned)
  BY PlannedEvents DEF Pushes
<1> QED BY <1>1 DEF StepPushes

-----------------------------------------------------------------------------
(* ... handler by handler.                                                 *)

LEMMA ClearPushes ==
  ASSUME NEW f \in Flights, NEW rw, NEW fl, NEW rws, NEW ring, NEW q, NEW st,
         NEW weight \in PRIO_EMERGENCY .. PRIO_ROUTINE,
         Wakeful(fl), now' \in Nat, weather \in Weather,
         ClearToLand(f, rw, fl, rws, ring, q, st, weight)
  PROVE  Pushes(q, pq', Uncheck)
<1>1. pq' = schedule(q, f, "EVENT_TOUCHDOWN",
                     now' + Occupancy(RUNWAY_LANDING_T, fl[f].wake), weight)
  BY DEF ClearToLand
<1> QED BY <1>1, PlanTouchdown DEF Wakeful

\* The runway released is idle, so whoever is served is cleared.
LEMMA FreeRunwayPushes ==
  ASSUME NEW rw \in Runways, NEW fl, NEW ring \in Seq(Flights), NEW q, NEW st,
         runways \in [Runways -> Runway], Wakeful(fl), now' \in Nat, weather \in Weather,
         free_runway(rw, fl, ring, q, st)
  PROVE  Pushes(q, pq', Uncheck)
<1> DEFINE rws == [runways EXCEPT ![rw] = [state |-> "RW_IDLE", occupant |-> None]]
<1>1. ~ NoIdleRunway(rws)
  BY DEF NoIdleRunway
<1>2. \/ pq' = q
      \/ \E k \in holding_pop_priority(ring, fl) :
             try_assign_landing(ring[k], fl, rws, RemoveAt(ring, k), q, st)
  BY Zenon DEF free_runway
<1> HIDE DEF rws
<1>3. ASSUME NEW k \in holding_pop_priority(ring, fl),
             try_assign_landing(ring[k], fl, rws, RemoveAt(ring, k), q, st)
      PROVE  Pushes(q, pq', Uncheck)
  <2> DEFINE f == ring[k]
  <2>1. f \in Flights
    <3>1. k \in DOMAIN ring
      BY <1>3 DEF holding_pop_priority
    <3> QED BY <3>1, ElementOfSeq
  <2>2. \E r \in find_idle_runway(rws) :
            ClearToLand(f, r, fl, rws, RemoveAt(ring, k), q, st, LandingWeight(fl[f]))
    BY <1>1, <1>3 DEF try_assign_landing
  <2>3. LandingWeight(fl[f]) \in PRIO_EMERGENCY .. PRIO_ROUTINE
    BY WeightType
  <2> HIDE DEF f
  <2> QED BY <2>1, <2>2, <2>3, ClearPushes
<1>4. CASE pq' = q
  BY <1>4 DEF Pushes
<1> QED BY <1>2, <1>3, <1>4

LEMMA TryAssignGatePushes ==
  ASSUME NEW f \in Flights, NEW fl, NEW gts, NEW ring, NEW q, now' \in Nat,
         try_assign_gate(f, fl, gts, ring, q)
  PROVE  Pushes(q, pq', Uncheck)
<1>1. \/ pq' = q
      \/ pq' = schedule(q, f, "EVENT_GATE_RELEASE", now' + GATE_TURNAROUND,
                        PRIO_ROUTINE)
      \/ pq' = schedule(q, f, "EVENT_TAXI_TO_GATE", now' + TAXI_RETRY,
                        PRIO_ROUTINE)
  BY Zenon DEF try_assign_gate, AwaitGate
<1>2. now' + GATE_TURNAROUND \in Nat /\ now' + TAXI_RETRY \in Nat
  BY Delays, Later
<1>3. CASE pq' = q
  BY <1>3 DEF Pushes
<1> QED BY <1>1, <1>2, <1>3, Types, Weights, PlanEvent DEF Fuel, Touching

\* What is known when an event has been popped.
LEMMA StepParts ==
  ASSUME TypeOK, pq # <<>>, now' = Head(pq).time
  PROVE  /\ now' \in Nat /\ Tail(pq) \in Seq(AtcEvent(Flights)) /\ pq \in Seq(AtcEvent(Flights))
         /\ flights \in [Flights -> Aircraft] /\ runways \in [Runways -> Runway]
         /\ holding \in Seq(Flights) /\ weather \in Weather
BY PopType DEF TypeOK

LEMMA RequestPushes ==
  ASSUME TypeOK, AllTied, NEW f \in Flights, on_runway_request(f) PROVE StepPushes
<1> DEFINE b  == decay_fuel(flights[f])
           a  == [b EXCEPT !.queue_enter_time = now']
           fl == [flights EXCEPT ![f] = a]
           q  == Tail(pq)
<1>1. Dispatch("EVENT_RUNWAY_REQUEST", f) /\ "EVENT_RUNWAY_REQUEST" \in Movers
  BY MoverTypes DEF on_runway_request
<1>2. \/ pq' = schedule(q, f, "EVENT_EMERGENCY_FUEL", now', PRIO_EMERGENCY)
      \/ \E rw : ClearToLand(f, rw, fl, runways, holding, q, stats, LandingWeight(fl[f]))
      \/ pq' = CheckFuelAfter(q, f, fl[f], HOLD_RECHECK)
  BY Zenon DEF on_runway_request, try_assign_landing, EnterHolding
<1>3. /\ pq # <<>> /\ f = Head(pq).flight /\ Head(pq).type = "EVENT_RUNWAY_REQUEST"
      /\ now' = Head(pq).time
  BY <1>1 DEF Dispatch, Pop
<1>4. /\ now' \in Nat /\ q \in Seq(AtcEvent(Flights)) /\ pq \in Seq(AtcEvent(Flights))
      /\ flights \in [Flights -> Aircraft] /\ weather \in Weather /\ b.wake \in Wake
      /\ b \in Aircraft
  BY <1>3, StepParts, DecayWake
<1>5. Wakeful(fl)
  <2>1. a.wake \in Wake
    BY <1>4 DEF Aircraft
  <2> HIDE DEF a
  <2> QED BY <1>4, <2>1, WakefulExcept
<1> HIDE DEF fl
<1>6. Rechecking(f)
  <2>1. /\ f < flight_count /\ flights[f].state = "AC_INBOUND"
        /\ DriveTied({f}, flights, taxi_wait, q, flight_count)
    <3>1. /\ flights[f].state \in AircraftState \ Gone /\ f < flight_count
          /\ Awaited[flights[f].state] = "EVENT_RUNWAY_REQUEST"
          /\ DriveTied({f}, flights, taxi_wait, q, flight_count)
      BY <1>1, Popped
    <3> QED BY <3>1, StateAwaiting
  <2>2. Count(q, f, Movers) = 0
    BY <2>1 DEF DriveTied, DrivenFor
  <2>3. Driven("AC_INBOUND", InRing(taxi_wait, f), pq, f)
    BY <2>1 DEF AllTied, Tied, DriveTied, DrivenFor, Gone
  <2>4. Count(pq, f, Asking \cup Fuel) = 1
    BY <2>3 DEF Driven
  <2>5. Count(q, f, Asking \cup Fuel) = Count(pq, f, Asking \cup Fuel) - 1
    BY <1>3, <1>4, CountTail DEF Asking
  <2>6. Count(q, f, Fuel) <= Count(q, f, Asking \cup Fuel) /\ Count(q, f, Fuel) \in Nat
    BY <1>4, CountMono, CountType
  <2>7. Count(q, f, Fuel) = 0
    BY <2>4, <2>5, <2>6
  <2> QED BY <1>3, <2>2, <2>7 DEF Rechecking
<1>7. CASE pq' = schedule(q, f, "EVENT_EMERGENCY_FUEL", now', PRIO_EMERGENCY)
  <2>1. Pushes(q, schedule(q, f, "EVENT_EMERGENCY_FUEL", now' + 0, PRIO_EMERGENCY), Planned)
    BY <1>4, <1>6, Weights, PlanCheck
  <2>2. now' + 0 = now'
    BY <1>4, NotEarlier
  <2> QED BY <1>7, <2>1, <2>2, PushesOne
<1>8. CASE \E rw : ClearToLand(f, rw, fl, runways, holding, q, stats, LandingWeight(fl[f]))
  <2>1. Pushes(q, pq', Uncheck)
    BY <1>4, <1>5, <1>8, WeightType, ClearPushes
  <2> QED BY <2>1, PushesOne
<1>9. CASE pq' = CheckFuelAfter(q, f, fl[f], HOLD_RECHECK)
  <2>1. Pushes(q, pq', Planned)
    BY <1>4, <1>6, <1>9, PlanRecheck DEF Rechecks
  <2> QED BY <2>1, PushesOne
<1> QED BY <1>2, <1>7, <1>8, <1>9

LEMMA EmergencyPushes ==
  ASSUME TypeOK, AllTied, NEW f \in Flights, on_emergency(f) PROVE StepPushes
<1> DEFINE b  == decay_fuel(flights[f])
           a  == [b EXCEPT !.emergency = @ \/ Declares(b)]
           fl == [flights EXCEPT ![f] = a]
           q  == Tail(pq)
<1>1. /\ Dispatch("EVENT_EMERGENCY_FUEL", f)
      /\ flights[f].state \in {"AC_HOLDING", "AC_INBOUND"}
      /\ \/ \E rw, ring, st : ClearToLand(f, rw, fl, runways, ring, q, st, PRIO_EMERGENCY)
         \/ pq' = CheckFuelAfter(q, f, fl[f], EMERGENCY_RECHECK)
  BY Zenon DEF on_emergency
<1>2. /\ pq # <<>> /\ f = Head(pq).flight /\ Head(pq).type \in Fuel
      /\ now' = Head(pq).time
  BY <1>1 DEF Dispatch, Pop, Fuel
<1>3. /\ now' \in Nat /\ flights \in [Flights -> Aircraft] /\ weather \in Weather
      /\ b.wake \in Wake /\ b \in Aircraft
  BY <1>2, StepParts, DecayWake
<1>4. Wakeful(fl)
  <2>1. a.wake \in Wake
    BY <1>3 DEF Aircraft
  <2> HIDE DEF a
  <2> QED BY <1>3, <2>1, WakefulExcept
<1> HIDE DEF fl
<1>5. Rechecking(f)
  <2>1. DriveTied({f}, flights, taxi_wait, q, flight_count)
    BY <1>1, FuelInHand DEF Tied
  <2>2. Count(q, f, Movers) = 0
    BY <2>1 DEF DriveTied, DrivenFor
  <2> QED BY <1>2, <2>2 DEF Rechecking
<1>6. CASE \E rw, ring, st : ClearToLand(f, rw, fl, runways, ring, q, st, PRIO_EMERGENCY)
  <2>1. Pushes(q, pq', Uncheck)
    BY <1>3, <1>4, <1>6, Weights, ClearPushes
  <2> QED BY <2>1, PushesOne
<1>7. CASE pq' = CheckFuelAfter(q, f, fl[f], EMERGENCY_RECHECK)
  <2>1. Pushes(q, pq', Planned)
    BY <1>3, <1>5, <1>7, PlanRecheck DEF Rechecks
  <2> QED BY <2>1, PushesOne
<1> QED BY <1>1, <1>6, <1>7

LEMMA ReleasePushes ==
  ASSUME TypeOK, AllTied, NEW f \in Flights,
         on_touchdown_go_around(f) \/ on_touchdown(f) \/ on_takeoff_clear(f)
  PROVE  StepPushes
<1> DEFINE b == decay_fuel(flights[f])
<1>1. /\ pq # <<>> /\ f = Head(pq).flight /\ now' = Head(pq).time
      /\ on_touchdown_go_around(f) \/ on_touchdown(f) => Dispatch("EVENT_TOUCHDOWN", f)
      /\ on_takeoff_clear(f) => Dispatch("EVENT_TAKEOFF_CLEAR", f)
  BY DEF on_touchdown_go_around, on_touchdown, on_takeoff_clear, Dispatch, Pop
<1>2. /\ now' \in Nat /\ flights \in [Flights -> Aircraft] /\ weather \in Weather
      /\ runways \in [Runways -> Runway] /\ holding \in Seq(Flights)
      /\ b.wake \in Wake /\ b \in Aircraft /\ flights[f] \in Aircraft
  BY <1>1, StepParts, DecayWake
<1>3. "EVENT_TOUCHDOWN" \in Movers /\ "EVENT_TAKEOFF_CLEAR" \in Movers
  BY MoverTypes
<1>4. /\ flights[f].state \in {"AC_LANDING", "AC_DEPARTING"}
      /\ DriveTied({f}, flights, taxi_wait, Tail(pq), flight_count)
  <2>1. /\ flights[f].state \in AircraftState \ Gone
        /\ Awaited[flights[f].state] \in {"EVENT_TOUCHDOWN", "EVENT_TAKEOFF_CLEAR"}
        /\ DriveTied({f}, flights, taxi_wait, Tail(pq), flight_count)
    BY <1>1, <1>3, Popped
  <2> QED BY <2>1, StateAwaiting
<1>5. /\ flights[f].assigned_runway \in Runways
      /\ b.assigned_runway = flights[f].assigned_runway
  BY <1>2, <1>4, OnRunway, DecayKeeps
<1>6. CASE on_touchdown_go_around(f)
  <2> DEFINE a == [b EXCEPT !.force_go_around = FALSE, !.assigned_runway = None,
                            !.go_arounds = @ + 1, !.state = "AC_HOLDING",
                            !.queue_enter_time = now']
             fl == [flights EXCEPT ![f] = a]
             ring == holding_push(holding, f)
             q == CheckFuelAfter(Tail(pq), f, b, GO_AROUND_RECHECK)
  <2>1. \E st : free_runway(b.assigned_runway, fl, ring, q, st)
    BY <1>6, Zenon DEF on_touchdown_go_around
  <2>2. Wakeful(fl)
    <3>1. a.wake \in Wake
      BY <1>2 DEF Aircraft
    <3> HIDE DEF a
    <3> QED BY <1>2, <3>1, WakefulExcept
  <2>3. ring \in Seq(Flights)
    BY PushRingType DEF TypeOK
  <2>4. Rechecking(f)
    <3>1. Count(Tail(pq), f, Movers) = 0
      BY <1>4 DEF DriveTied, DrivenFor
    <3>2. Head(pq).type \in Touching
      BY <1>1, <1>6 DEF Dispatch, Pop, Touching
    <3> QED BY <1>1, <3>1, <3>2 DEF Rechecking
  <2>5. Pushes(Tail(pq), q, Planned)
    BY <1>2, <2>4, PlanRecheck DEF Rechecks
  <2> HIDE DEF fl, ring, q
  <2>6. Pushes(q, pq', Uncheck)
    BY <1>2, <1>5, <2>1, <2>2, <2>3, FreeRunwayPushes
  <2> QED BY <2>5, <2>6 DEF StepPushes
<1>7. CASE on_touchdown(f)
  <2> DEFINE a == [b EXCEPT !.assigned_runway = None, !.state = "AC_TAXI_IN",
                            !.queue_enter_time = now']
             fl == [flights EXCEPT ![f] = a]
             q == schedule(Tail(pq), f, "EVENT_TAXI_TO_GATE", now' + TAXI_DURATION,
                           PRIO_ROUTINE)
  <2>1. \E st : free_runway(b.assigned_runway, fl, holding, q, st)
    BY <1>7, Zenon DEF on_touchdown
  <2>2. Wakeful(fl)
    <3>1. a.wake \in Wake
      BY <1>2 DEF Aircraft
    <3> HIDE DEF a
    <3> QED BY <1>2, <3>1, WakefulExcept
  <2>3. now' + TAXI_DURATION \in Nat
    BY <1>2, Delays, Later
  <2>4. Pushes(Tail(pq), q, Uncheck)
    BY <2>3, Types, Weights, PlanEvent DEF Fuel, Touching
  <2> HIDE DEF fl, q
  <2>5. Pushes(q, pq', Uncheck)
    BY <1>2, <1>5, <2>1, <2>2, FreeRunwayPushes
  <2> QED BY <2>4, <2>5, PushesTwo
<1>8. CASE on_takeoff_clear(f)
  <2> DEFINE a == [flights[f] EXCEPT !.assigned_runway = None, !.state = "AC_AIRBORNE_OUT"]
             fl == [flights EXCEPT ![f] = a]
             q == schedule(Tail(pq), f, "EVENT_DEPART_SECTOR", now' + RUNWAY_TAKEOFF_T,
                           PRIO_ROUTINE)
  <2>1. free_runway(flights[f].assigned_runway, fl, holding, q, stats)
    <3>1. [flights EXCEPT ![f].assigned_runway = None, ![f].state = "AC_AIRBORNE_OUT"] = fl
      BY <1>2
    <3> QED BY <1>8, <3>1 DEF on_takeoff_clear
  <2>2. Wakeful(fl)
    <3>1. a.wake \in Wake
      BY <1>2 DEF Aircraft
    <3> HIDE DEF a
    <3> QED BY <1>2, <3>1, WakefulExcept
  <2>3. now' + RUNWAY_TAKEOFF_T \in Nat
    BY <1>2, Delays, Later
  <2>4. Pushes(Tail(pq), q, Uncheck)
    BY <2>3, Types, Weights, PlanEvent DEF Fuel, Touching
  <2> HIDE DEF fl, q
  <2>5. Pushes(q, pq', Uncheck)
    BY <1>2, <1>5, <2>1, <2>2, FreeRunwayPushes
  <2> QED BY <2>4, <2>5, PushesTwo
<1> QED BY <1>6, <1>7, <1>8

LEMMA TakeoffReadyPushes ==
  ASSUME TypeOK, NEW f \in Flights, on_takeoff_ready(f) PROVE StepPushes
<1> DEFINE fl == [flights EXCEPT ![f].queue_enter_time = now']
           d  == Occupancy(TAKEOFF_PREP, fl[f].wake)
           q  == Tail(pq)
<1>1. pq # <<>> /\ now' = Head(pq).time
  BY DEF on_takeoff_ready, Dispatch, Pop
<1>2. now' \in Nat /\ flights \in [Flights -> Aircraft] /\ weather \in Weather
  BY <1>1, StepParts
<1>3. now' + d \in Nat /\ now' + TAKEOFF_RETRY \in Nat
  <2>1. fl[f].wake \in Wake
    BY <1>2 DEF Aircraft
  <2> HIDE DEF fl
  <2> QED BY <1>2, <2>1, Delays, OccupancyType, Later
<1>4. \/ pq' = schedule(q, f, "EVENT_TAKEOFF_CLEAR", now' + d, PRIO_TAKEOFF)
      \/ pq' = schedule(q, f, "EVENT_TAKEOFF_READY", now' + TAKEOFF_RETRY, PRIO_TAKEOFF)
  BY Zenon DEF on_takeoff_ready
<1> HIDE DEF d, q
<1>5. /\ Pushes(q, schedule(q, f, "EVENT_TAKEOFF_CLEAR", now' + d, PRIO_TAKEOFF), Uncheck)
      /\ Pushes(q, schedule(q, f, "EVENT_TAKEOFF_READY", now' + TAKEOFF_RETRY, PRIO_TAKEOFF),
                Uncheck)
  BY <1>3, Types, Weights, PlanEvent DEF Fuel, Touching
<1> QED BY <1>4, <1>5, PushesOne DEF q

\* The handlers that touch gates, or nothing.
LEMMA GroundPushes ==
  ASSUME TypeOK, NEW f \in Flights,
         \/ on_emergency_moved_on(f) \/ on_emergency_lost(f)
         \/ on_taxi_to_gate(f) \/ on_gate_release(f) \/ on_depart_sector(f)
  PROVE  StepPushes
<1>1. pq # <<>> /\ now' = Head(pq).time
  BY DEF on_emergency_moved_on, on_emergency_lost, on_taxi_to_gate,
         on_gate_release, on_depart_sector, Dispatch, Pop
<1>2. now' \in Nat
  BY <1>1, StepParts
<1>3. CASE on_emergency_moved_on(f) \/ on_emergency_lost(f) \/ on_depart_sector(f)
  <2>1. pq' = Tail(pq)
    BY <1>3 DEF on_emergency_moved_on, on_emergency_lost, on_depart_sector
  <2> QED BY <2>1, PushesOne DEF Pushes
<1>4. CASE on_taxi_to_gate(f)
  <2>1. Pushes(Tail(pq), pq', Uncheck)
    BY <1>2, <1>4, TryAssignGatePushes DEF on_taxi_to_gate
  <2> QED BY <2>1, PushesOne
<1>5. CASE on_gate_release(f)
  <2> DEFINE q == schedule(Tail(pq), f, "EVENT_TAKEOFF_READY",
                           now' + TAXI_DURATION, PRIO_TAKEOFF)
  <2>1. now' + TAXI_DURATION \in Nat
    BY <1>2, Delays, Later
  <2>2. Pushes(Tail(pq), q, Uncheck)
    BY <2>1, Types, Weights, PlanEvent DEF Fuel, Touching
  <2>3. \/ pq' = q
        \/ /\ taxi_wait # <<>>
           /\ \E fl, gts : try_assign_gate(Head(taxi_wait), fl, gts,
                                           Tail(taxi_wait), q)
    BY <1>5, Zenon DEF on_gate_release
  <2> HIDE DEF q
  <2>4. taxi_wait # <<>> => Head(taxi_wait) \in Flights
    BY HeadTailProperties DEF TypeOK
  <2>5. Pushes(q, pq', Uncheck)
    <3>1. CASE pq' = q
      BY <3>1 DEF Pushes
    <3> QED BY <1>2, <2>3, <2>4, <3>1, TryAssignGatePushes
  <2> QED BY <2>2, <2>5, PushesTwo
<1> QED BY <1>3, <1>4, <1>5

LEMMA SourcePushes ==
  ASSUME TypeOK,
         \/ drop_stale \/ spawn_aircraft_table_full \/ spawn_aircraft
         \/ on_weather_change
  PROVE  StepPushes
<1>1. pq # <<>> /\ now' = Head(pq).time
  BY DEF drop_stale, spawn_aircraft_table_full, spawn_aircraft,
         on_weather_change, Pop
<1>2. now' \in Nat /\ 0 \in Flights
  BY <1>1, StepParts, SizeAssumption DEF Flights, Positive
<1>3. CASE drop_stale \/ spawn_aircraft_table_full
  <2>1. pq' = Tail(pq)
    BY <1>3 DEF drop_stale, spawn_aircraft_table_full
  <2> QED BY <2>1, PushesOne DEF Pushes
<1>4. CASE spawn_aircraft
  <2> DEFINE q == RequestRunway(Tail(pq), flight_count)
  <2>1. PICK gap \in ArrivalGaps :
             \/ pq' = q
             \/ pq' = schedule(q, 0, "EVENT_AIRCRAFT_ARRIVE", now' + gap,
                               PRIO_ROUTINE)
    BY <1>4 DEF spawn_aircraft
  <2>2. now' + gap \in Nat
    BY <1>2, TimeAssumption, Later
  <2>3. flight_count \in Flights
    <3>1. flight_count \in 0 .. MAX_FLIGHTS
      BY DEF TypeOK
    <3>2. flight_count < MAX_FLIGHTS /\ MAX_FLIGHTS \in Nat
      BY <1>4, SizeAssumption DEF spawn_aircraft, Positive
    <3> QED BY <3>1, <3>2 DEF Flights
  <2>4. Pushes(Tail(pq), q, Uncheck)
    BY <1>2, <2>3, Types, Weights, PlanEvent DEF RequestRunway, Fuel, Touching
  <2> HIDE DEF q
  <2>5. Pushes(q, schedule(q, 0, "EVENT_AIRCRAFT_ARRIVE", now' + gap, PRIO_ROUTINE), Uncheck)
    BY <1>2, <2>2, Types, Weights, PlanEvent DEF Fuel, Touching
  <2>6. Pushes(q, pq', Uncheck)
    <3>1. CASE pq' = q
      BY <3>1 DEF Pushes
    <3> QED BY <2>1, <2>5, <3>1
  <2> QED BY <2>4, <2>6, PushesTwo
<1>5. CASE on_weather_change
  <2>1. PICK gap \in WeatherGaps : pq' = schedule_weather(Tail(pq), now', gap)
    BY <1>5 DEF on_weather_change
  <2>2. now' + gap \in Nat
    BY <1>2, TimeAssumption, Later
  <2>3. Pushes(Tail(pq), schedule(Tail(pq), 0, "EVENT_WEATHER_CHANGE", now' + gap,
                                  PRIO_ROUTINE), Uncheck)
    BY <1>2, <2>2, Types, Weights, PlanEvent DEF Fuel, Touching
  <2>4. \/ pq' = Tail(pq)
        \/ pq' = schedule(Tail(pq), 0, "EVENT_WEATHER_CHANGE", now' + gap,
                          PRIO_ROUTINE)
    BY <2>1 DEF schedule_weather
  <2> QED BY <2>3, <2>4, PushesOne DEF Pushes
<1> QED BY <1>3, <1>4, <1>5

LEMMA AllPush ==
  ASSUME TypeOK, AllTied, sim_step, pq # <<>> PROVE StepPushes
<1>1. ~ queue_exhausted
  BY DEF queue_exhausted
<1>2. ASSUME NEW f \in Flights,
             \/ on_touchdown_go_around(f) \/ on_touchdown(f) \/ on_takeoff_clear(f)
             \/ on_runway_request(f) \/ on_emergency(f) \/ on_takeoff_ready(f)
      PROVE  StepPushes
  BY <1>2, ReleasePushes, RequestPushes, EmergencyPushes, TakeoffReadyPushes
<1>3. ASSUME NEW f \in Flights,
             \/ on_emergency_moved_on(f) \/ on_emergency_lost(f)
             \/ on_taxi_to_gate(f) \/ on_gate_release(f) \/ on_depart_sector(f)
      PROVE  StepPushes
  BY <1>3, GroundPushes
<1>4. CASE \/ drop_stale \/ spawn_aircraft_table_full \/ spawn_aircraft
           \/ on_weather_change
  BY <1>4, SourcePushes
<1> QED BY <1>1, <1>2, <1>3, <1>4, Zenon DEF sim_step

\* What is pending when an event has been popped was pending before; the event
\* is among the first ones.
LEMMA HeadFirst ==
  ASSUME TypeOK, NothingOverdue, pq # <<>>
  PROVE  /\ Head(pq) \in Range(pq) /\ Head(pq) \in AtcEvent(Flights)
         /\ now <= Head(pq).time
         /\ \A e \in Range(pq) : /\ e \in AtcEvent(Flights)
                                 /\ Head(pq).time <= e.time
<1>1. Range(pq) = {Head(pq)} \cup Range(Tail(pq))
  BY TailElements DEF TypeOK
<1>2. pq \in Seq(AtcEvent(Flights)) /\ Len(pq) \in Nat /\ DOMAIN pq = 1 .. Len(pq)
  BY LenProperties DEF TypeOK
<1>3. Len(pq) # 0 /\ Head(pq) = pq[1] /\ 1 \in DOMAIN pq
  BY <1>2, EmptySeq, HeadTailProperties
<1>4. ASSUME NEW i \in DOMAIN pq
      PROVE  pq[i] \in AtcEvent(Flights) /\ pq[1].time <= pq[i].time
  <2>1. pq[i] \in AtcEvent(Flights) /\ pq[1] \in AtcEvent(Flights)
    BY <1>2, <1>3, ElementOfSeq
  <2>2. CASE i = 1
    BY <2>1, <2>2 DEF AtcEvent
  <2>3. CASE 1 < i
    <3>1. ~ ev_less(pq[i], pq[1])
      BY <1>3, <2>3 DEF NothingOverdue, Ordered
    <3> QED BY <2>1, <3>1, EvLessOrder
  <2> QED BY <1>2, <2>2, <2>3
<1>5. now <= Head(pq).time
  BY <1>3 DEF NothingOverdue
<1>6. Head(pq) \in AtcEvent(Flights)
  BY <1>3, <1>4
<1> QED BY <1>1, <1>3, <1>4, <1>5, <1>6 DEF Range

-----------------------------------------------------------------------------
(* Without commands, one check at a time.                                  *)

LEMMA CountPush ==
  ASSUME NEW q \in Seq(AtcEvent(Flights)), NEW e \in AtcEvent(Flights), NEW f, NEW T
  PROVE  Count(pq_push(q, e), f, T)
           = Count(q, f, T) + (IF f = e.flight /\ e.type \in T THEN 1 ELSE 0)
<1>1. /\ e.flight \in Flights /\ e.type \in EventType /\ e.time \in Nat
      /\ e.weight \in PRIO_EMERGENCY .. PRIO_ROUTINE
      /\ e = [flight |-> e.flight, type |-> e.type, time |-> e.time, weight |-> e.weight]
  BY DEF AtcEvent
<1>2. pq_push(q, e) = schedule(q, e.flight, e.type, e.time, e.weight)
  BY <1>1 DEF schedule
<1> QED BY <1>1, <1>2, CountSchedule

\* Nothing counted, nothing there.
LEMMA NoneCounted ==
  ASSUME NEW q \in Seq(AtcEvent(Flights)), NEW f, NEW T
  PROVE  Count(q, f, T) = 0 <=> \A e \in Range(q) : ~ (e.flight = f /\ e.type \in T)
<1> DEFINE A == {i \in DOMAIN q : q[i].flight = f /\ q[i].type \in T}
<1>1. Len(q) \in Nat /\ A \in SUBSET (1 .. Len(q))
  BY LenProperties
<1>2. IsFiniteSet(A)
  BY <1>1, Positions
<1>3. Cardinality(A) = 0 <=> A = {}
  BY <1>2, FS_EmptySet
<1>4. Count(q, f, T) = Cardinality(A)
  BY DEF Count
<1>5. A = {} <=> \A i \in DOMAIN q : ~ (q[i].flight = f /\ q[i].type \in T)
  OBVIOUS
<1> QED BY <1>3, <1>4, <1>5 DEF Range

\* No flight has two checks pending, every check is near, and a flight whose
\* touchdown is planned is checked, if at all, before it touches down.
OneCheck ==
    /\ \A f \in Flights : Count(pq, f, Fuel) <= 1
    /\ \A e \in Range(pq) : e.type \in Fuel => \E d \in Rechecks : e.time <= now + d
    /\ \A a, b \in Range(pq) :
           a.type \in Fuel /\ b.type \in Touching /\ a.flight = b.flight => a.time < b.time

\* A step that plans a check for a flight leaves it no other: the check was
\* the event popped, or there was none, or it came before the touchdown.
LEMMA RecheckedAlone ==
  ASSUME TypeOK, NothingOverdue, OneCheck, pq # <<>>, NEW f \in Flights, Rechecking(f)
  PROVE  Count(Tail(pq), f, Fuel) = 0
<1>1. /\ pq \in Seq(AtcEvent(Flights)) /\ Tail(pq) \in Seq(AtcEvent(Flights))
      /\ Range(pq) = {Head(pq)} \cup Range(Tail(pq))
  BY TailElements DEF TypeOK
<1>2. CASE Head(pq).type \in Fuel
  <2>1. Count(Tail(pq), f, Fuel) = Count(pq, f, Fuel) - 1
    BY <1>1, <1>2, CountTail DEF Rechecking
  <2>2. Count(Tail(pq), f, Fuel) \in Nat /\ Count(pq, f, Fuel) <= 1
        /\ Count(pq, f, Fuel) \in Nat
    BY <1>1, CountType DEF OneCheck
  <2> QED BY <2>1, <2>2
<1>3. CASE Head(pq).type \in Touching
  <2>1. ASSUME NEW e \in Range(Tail(pq)), e.flight = f, e.type \in Fuel PROVE FALSE
    <3>1. e.time < Head(pq).time
      BY <1>1, <1>3, <2>1, HeadFirst DEF OneCheck, Rechecking
    <3>2. Head(pq).time <= e.time /\ e.time \in Nat /\ Head(pq).time \in Nat
      BY <1>1, HeadFirst DEF AtcEvent
    <3> QED BY <3>1, <3>2
  <2> QED BY <1>1, <2>1, NoneCounted
<1> QED BY <1>2, <1>3 DEF Rechecking

LEMMA Sums ==
  ASSUME NEW n \in Nat, NEW t \in Nat, NEW d \in Nat
  PROVE  /\ \A o \in Nat : t <= n + d /\ d < o => t < n + o
         /\ t = n + d => t <= n + d
         /\ \A c \in Nat : t = n + 0 => t <= n + c
OBVIOUS

\* An approach outlasts a check that is near.
LEMMA CheckBeforeLanding ==
  ASSUME NEW t \in Nat, NEW d \in Rechecks, NEW w \in Wake, weather \in Weather, now' \in Nat,
         t <= now' + d
  PROVE  t < now' + Occupancy(RUNWAY_LANDING_T, w)
<1>1. d < Occupancy(RUNWAY_LANDING_T, w)
  BY ApproachAssumption DEF Occupancy, Rechecks
<1>2. Occupancy(RUNWAY_LANDING_T, w) \in Nat /\ d \in Nat
  BY Delays, OccupancyType DEF Rechecks
<1> HIDE DEF Occupancy
<1> QED BY <1>1, <1>2, Sums

LEMMA OneCheckStep ==
  TypeOK /\ AllTied /\ NothingOverdue /\ OneCheck /\ [sim_step]_vars => OneCheck'
<1> SUFFICES ASSUME TypeOK, AllTied, NothingOverdue, OneCheck, [sim_step]_vars
             PROVE  OneCheck'
  OBVIOUS
<1>1. CASE UNCHANGED vars
  BY <1>1 DEF vars, OneCheck, Count, Range
<1>2. CASE pq = <<>> /\ sim_step
  <2>1. UNCHANGED vars
    BY <1>2, Zenon DEF sim_step, queue_exhausted, drop_stale, spawn_aircraft_table_full,
       spawn_aircraft, on_weather_change, on_runway_request, on_emergency_moved_on,
       on_emergency_lost, on_emergency, on_touchdown_go_around, on_touchdown,
       on_taxi_to_gate, on_gate_release, on_takeoff_ready, on_takeoff_clear,
       on_depart_sector, Dispatch, Pop
  <2> QED BY <1>1, <2>1
<1>3. CASE pq # <<>> /\ sim_step
  <2>1. StepPushes
    BY <1>3, AllPush
  <2>2. /\ pq' \in Seq(AtcEvent(Flights))
        /\ Range(pq') \subseteq Range(Tail(pq)) \cup Planned
    BY <1>3, <2>1, StepElements
  <2>3. /\ pq \in Seq(AtcEvent(Flights)) /\ Tail(pq) \in Seq(AtcEvent(Flights))
        /\ Range(pq) = {Head(pq)} \cup Range(Tail(pq))
    BY <1>3, TailElements DEF TypeOK
  <2>4. now' = Head(pq).time
    BY <1>3, Zenon DEF sim_step, queue_exhausted, drop_stale, spawn_aircraft_table_full,
       spawn_aircraft, on_weather_change, on_runway_request, on_emergency_moved_on,
       on_emergency_lost, on_emergency, on_touchdown_go_around, on_touchdown,
       on_taxi_to_gate, on_gate_release, on_takeoff_ready, on_takeoff_clear,
       on_depart_sector, Dispatch, Pop
  <2>5. now \in Nat /\ now' \in Nat /\ now <= now' /\ weather \in Weather
    BY <1>3, <2>4, HeadFirst, StepParts DEF TypeOK
  <2>6. \A f \in Flights : Count(pq', f, Fuel) <= 1
    <3> SUFFICES ASSUME NEW f \in Flights PROVE Count(pq', f, Fuel) <= 1
      OBVIOUS
    <3>1. PICK q : Pushes(Tail(pq), q, Planned) /\ Pushes(q, pq', Uncheck)
      BY <2>1 DEF StepPushes
    <3>2. Count(Tail(pq), f, Fuel) \in Nat /\ Count(Tail(pq), f, Fuel) <= 1
      <4>1. /\ Count(Tail(pq), f, Fuel) = Count(pq, f, Fuel)
                 - (IF f = Head(pq).flight /\ Head(pq).type \in Fuel THEN 1 ELSE 0)
            /\ Count(Tail(pq), f, Fuel) \in Nat /\ Count(pq, f, Fuel) \in Nat
            /\ Count(pq, f, Fuel) <= 1
        BY <1>3, <2>3, CountTail, CountType DEF OneCheck
      <4> QED BY <4>1
    <3>3. /\ q \in Seq(AtcEvent(Flights))
          /\ Count(q, f, Fuel) \in Nat /\ Count(q, f, Fuel) <= 1
      <4>1. CASE q = Tail(pq)
        BY <2>3, <3>2, <4>1
      <4>2. ASSUME NEW e \in Planned, q = pq_push(Tail(pq), e)
            PROVE  /\ q \in Seq(AtcEvent(Flights))
                   /\ Count(q, f, Fuel) \in Nat /\ Count(q, f, Fuel) <= 1
        <5>1. e \in AtcEvent(Flights)
          BY PlannedEvents
        <5>2. Count(pq_push(Tail(pq), e), f, Fuel)
                = Count(Tail(pq), f, Fuel)
                  + (IF f = e.flight /\ e.type \in Fuel THEN 1 ELSE 0)
          <6> DEFINE s == Tail(pq)
          <6>1. s \in Seq(AtcEvent(Flights))
            BY <2>3
          <6> HIDE DEF s
          <6>2. Count(pq_push(s, e), f, Fuel)
                  = Count(s, f, Fuel) + (IF f = e.flight /\ e.type \in Fuel THEN 1 ELSE 0)
            BY <5>1, <6>1, CountPush
          <6> QED BY <6>2 DEF s
        <5>3. f = e.flight /\ e.type \in Fuel => Count(Tail(pq), f, Fuel) = 0
          BY <1>3, RecheckedAlone DEF Planned
        <5>4. q \in Seq(AtcEvent(Flights))
          BY <2>3, <4>2, <5>1, PushElements
        <5> QED BY <3>2, <4>2, <5>2, <5>3, <5>4
      <4> QED BY <3>1, <4>1, <4>2 DEF Pushes
    <3>4. Count(pq', f, Fuel) = Count(q, f, Fuel)
      <4>1. ASSUME NEW e \in Uncheck, pq' = pq_push(q, e)
            PROVE  Count(pq', f, Fuel) = Count(q, f, Fuel)
        <5>1. e \in AtcEvent(Flights) /\ e.type \notin Fuel
          BY PlannedEvents DEF Uncheck
        <5>2. Count(pq', f, Fuel) = Count(q, f, Fuel) + 0
          BY <3>3, <4>1, <5>1, CountPush
        <5> QED BY <3>3, <5>2
      <4> QED BY <3>1, <4>1 DEF Pushes
    <3> QED BY <3>3, <3>4
  <2>7. ASSUME NEW e \in Range(pq'), e.type \in Fuel
        PROVE  \E d \in Rechecks : e.time <= now' + d
    <3>1. CASE e \in Range(pq)
      <4>1. PICK d \in Rechecks : e.time <= now + d
        BY <2>7, <3>1 DEF OneCheck
      <4>2. e.time \in Nat /\ d \in Nat
        BY <1>3, <3>1, Delays, HeadFirst DEF AtcEvent, Rechecks
      <4>3. e.time <= now' + d
        BY <2>5, <4>1, <4>2
      <4> QED BY <4>3
    <3>2. CASE e \in Planned
      <4>1. PICK d \in Rechecks \cup {0} : e.time = now' + d
        BY <2>7, <3>2 DEF Planned
      <4>2. /\ HOLD_RECHECK \in Nat /\ HOLD_RECHECK \in Rechecks /\ d \in Nat
            /\ e.time \in Nat
        BY <3>2, Delays, PlannedEvents DEF Rechecks, AtcEvent
      <4>3. CASE d = 0
        <5>1. e.time <= now' + HOLD_RECHECK
          BY <2>5, <4>1, <4>2, <4>3, Sums
        <5> QED BY <4>2, <5>1
      <4>4. CASE d \in Rechecks
        <5>1. e.time <= now' + d
          BY <2>5, <4>1, <4>2, Sums
        <5> QED BY <4>4, <5>1
      <4> QED BY <4>3, <4>4
    <3> QED BY <2>2, <2>3, <3>1, <3>2
  <2>8. ASSUME NEW a \in Range(pq'), NEW b \in Range(pq'),
               a.type \in Fuel, b.type \in Touching, a.flight = b.flight
        PROVE  a.time < b.time
    <3>1. CASE a \in Range(pq) /\ b \in Range(pq)
      BY <2>8, <3>1 DEF OneCheck
    <3>2. CASE b \in Planned
      <4>1. PICK w \in Wake : b.time = now' + Occupancy(RUNWAY_LANDING_T, w)
        BY <2>8, <3>2 DEF Planned
      <4>2. PICK d \in Rechecks : a.time <= now' + d
        BY <2>7, <2>8
      <4>3. a.time \in Nat
        BY <1>3, <2>2, <2>3, HeadFirst, PlannedEvents DEF AtcEvent
      <4> QED BY <2>5, <4>1, <4>2, <4>3, CheckBeforeLanding
    <3>3. CASE a \in Planned /\ b \in Range(Tail(pq))
      <4>1. Count(Tail(pq), a.flight, Movers) = 0
        BY <2>8, <3>3 DEF Planned, Rechecking
      <4>2. b.type \in Movers
        BY <2>8, MoverTypes DEF Touching
      <4> QED BY <2>3, <2>8, <3>3, <4>1, <4>2, NoneCounted
    <3> QED BY <2>2, <2>3, <3>1, <3>2, <3>3
  <2> QED BY <2>6, <2>7, <2>8 DEF OneCheck, Count, Range
<1> QED BY <1>1, <1>2, <1>3

\* Chains of checks do not multiply: without commands no flight ever has two
\* fuel checks pending, through holds, go-arounds, losses and landings.  A check
\* left over when the flight is cleared fires before the touchdown that may
\* start another chain, for an approach outlasts it (ApproachAssumption).
THEOREM OneCheckAtATime == BatchSpec => []OneFuelCheck
<1>1. Init => OneCheck
  <2> SUFFICES ASSUME Init PROVE OneCheck
    OBVIOUS
  <2>1. pq \in Seq(AtcEvent(Flights))
    BY InitType DEF TypeOK
  <2>2. ASSUME NEW f \in Flights PROVE Count(pq, f, Fuel) = 0
    <3>1. flight_count = 0 /\ ~ (f < 0) /\ Fuel \in SUBSET (Movers \cup Fuel)
      BY DEF Init, Flights
    <3>2. DrivenFor(f, {}, flights, taxi_wait, pq, 0)
      BY <3>1, InitTied DEF AllTied, Tied, DriveTied
    <3> QED BY <3>1, <3>2 DEF DrivenFor
  <2>3. ASSUME NEW e \in Range(pq), e.type \in Fuel PROVE FALSE
    <3>1. e \in AtcEvent(Flights)
      BY <2>1, ElementOfSeq DEF Range
    <3>2. e.flight \in Flights
      BY <3>1 DEF AtcEvent
    <3> QED BY <2>1, <2>2, <2>3, <3>2, NoneCounted
  <2> QED BY <2>2, <2>3 DEF OneCheck
<1>2. TypeOK /\ OneCheck => OneFuelCheck
  <2> SUFFICES ASSUME TypeOK, OneCheck, NEW f \in Live
               PROVE  Cardinality(Pending(f, {"EVENT_EMERGENCY_FUEL"})) <= 1
    BY DEF OneFuelCheck
  <2>1. f \in Flights
    BY CountFits, SizeAssumption DEF Live, InUse, Flights, Positive
  <2>2. Cardinality(Pending(f, {"EVENT_EMERGENCY_FUEL"})) = Count(pq, f, Fuel)
    BY PendingFinite DEF TypeOK, Fuel
  <2> QED BY <2>1, <2>2 DEF OneCheck
<1> QED BY <1>1, <1>2, OneCheckStep, BatchIsSpec, TypeCorrect, AlwaysTied, NeverOverdue,
           PTL DEF BatchSpec

-----------------------------------------------------------------------------
(* What the counters owe to each flight.                                   *)

Landed == {"AC_TAXI_IN", "AC_AT_GATE", "AC_TAXI_OUT", "AC_DEPARTING",
           "AC_AIRBORNE_OUT", "AC_DONE"}

\* The first n flights of table fl that are in one of these states.
Among(fl, n, states) == {f \in 0 .. n-1 : fl[f].state \in states}
GoArounds(fl, n) == SumFunction([f \in 0 .. n-1 |-> fl[f].go_arounds])
Waits(fl, n) == SumFunction([f \in 0 .. n-1 |-> fl[f].total_wait])
Earned(fl, n) == SumFunction([f \in Among(fl, n, {"AC_DONE"}) |-> 10 + Bonus(fl[f])])

\* Counters st agree with the first n flights of table fl: AccountsBalance, of
\* the parts a handler works on.
Balanced(fl, n, st) ==
    /\ st.flights_spawned = n
    /\ st.flights_landed = Cardinality(Among(fl, n, Landed))
    /\ st.flights_departed = Cardinality(Among(fl, n, {"AC_DONE"}))
    /\ st.flights_lost = Cardinality(Among(fl, n, {"AC_LOST"}))
    /\ st.flights_diverted = Cardinality(Among(fl, n, {"AC_DIVERTED"}))
    /\ st.go_arounds = GoArounds(fl, n)
    /\ st.cumulative_wait = Waits(fl, n)
    /\ st.score = Earned(fl, n) - 6 * st.emergencies - 50 * st.flights_lost
                  - 3 * st.go_arounds - 12 * st.flights_diverted

LEMMA BalancedNow == AccountsBalance <=> Balanced(flights, flight_count, stats)
BY DEF AccountsBalance, Balanced, Landed, Among, GoArounds, Waits, Earned, Flown, InUse

\* One flight changes: what the counters gain is what the flight brings in.
Has(a, states) == IF a.state \in states THEN 1 ELSE 0
Worth(a) == IF a.state = "AC_DONE" THEN 10 + Bonus(a) ELSE 0

Paid(a, b, st, su) ==
    /\ su.flights_spawned = st.flights_spawned
    /\ su.flights_landed = st.flights_landed + Has(b, Landed) - Has(a, Landed)
    /\ su.flights_departed
           = st.flights_departed + Has(b, {"AC_DONE"}) - Has(a, {"AC_DONE"})
    /\ su.flights_lost = st.flights_lost + Has(b, {"AC_LOST"}) - Has(a, {"AC_LOST"})
    /\ su.flights_diverted
           = st.flights_diverted + Has(b, {"AC_DIVERTED"}) - Has(a, {"AC_DIVERTED"})
    /\ su.go_arounds = st.go_arounds + b.go_arounds - a.go_arounds
    /\ su.cumulative_wait = st.cumulative_wait + b.total_wait - a.total_wait
    /\ su.score = st.score + Worth(b)
                  - 6 * (su.emergencies - st.emergencies)
                  - 50 * (su.flights_lost - st.flights_lost)
                  - 3 * (su.go_arounds - st.go_arounds)
                  - 12 * (su.flights_diverted - st.flights_diverted)

LEMMA AmongFinite ==
  ASSUME NEW fl, NEW n \in Nat, NEW states
  PROVE  /\ IsFiniteSet(0 .. n-1) /\ IsFiniteSet(Among(fl, n, states))
         /\ Cardinality(Among(fl, n, states)) \in Nat
<1>1. IsFiniteSet(0 .. n-1)
  BY FS_Interval
<1>2. Among(fl, n, states) \subseteq 0 .. n-1
  BY DEF Among
<1> QED BY <1>1, <1>2, FS_Subset, FS_CardinalityType

LEMMA AmongChanges ==
  ASSUME NEW n \in Nat, n <= MAX_FLIGHTS, NEW f \in 0 .. n-1, NEW fl, NEW fl2,
         OnlyBy(f, fl, fl2), NEW states
  PROVE  Cardinality(Among(fl2, n, states))
           = Cardinality(Among(fl, n, states)) + Has(fl2[f], states) - Has(fl[f], states)
<1> DEFINE A == Among(fl, n, states)
           B == Among(fl2, n, states)
<1>1. \A g \in 0 .. n-1 : g # f => fl2[g] = fl[g]
  <2>1. MAX_FLIGHTS \in Nat
    BY SizeAssumption DEF Positive
  <2>2. \A g \in 0 .. n-1 : g \in Flights
    BY <2>1 DEF Flights
  <2> QED BY <2>2 DEF OnlyBy
<1>2. /\ IsFiniteSet(A) /\ IsFiniteSet(B)
      /\ Cardinality(A) \in Nat /\ Cardinality(B) \in Nat
  BY AmongFinite
<1>3. A \ {f} = B \ {f}
  BY <1>1 DEF Among
<1>4. /\ Cardinality(A \ {f}) = IF f \in A THEN Cardinality(A) - 1 ELSE Cardinality(A)
      /\ Cardinality(B \ {f}) = IF f \in B THEN Cardinality(B) - 1 ELSE Cardinality(B)
  BY <1>2, FS_RemoveElement
<1>5. /\ f \in A <=> fl[f].state \in states
      /\ f \in B <=> fl2[f].state \in states
  BY DEF Among
<1> HIDE DEF A, B
<1>6. /\ fl[f].state \in states => Has(fl[f], states) = 1
      /\ fl[f].state \notin states => Has(fl[f], states) = 0
      /\ fl2[f].state \in states => Has(fl2[f], states) = 1
      /\ fl2[f].state \notin states => Has(fl2[f], states) = 0
  BY DEF Has
<1>7. Cardinality(A \ {f}) = Cardinality(B \ {f})
  BY <1>3
<1>8. Cardinality(A \ {f}) = Cardinality(A) - Has(fl[f], states)
  BY <1>2, <1>4, <1>5, <1>6
<1>9. Cardinality(B \ {f}) = Cardinality(B) - Has(fl2[f], states)
  BY <1>2, <1>4, <1>5, <1>6
<1>10. Has(fl[f], states) \in Int /\ Has(fl2[f], states) \in Int
  BY <1>6
<1>11. Cardinality(B) = Cardinality(A) + Has(fl2[f], states) - Has(fl[f], states)
  <2> DEFINE k == Cardinality(A)
             l == Cardinality(B)
             i == Has(fl[f], states)
             j == Has(fl2[f], states)
  <2>1. k \in Int /\ l \in Int /\ i \in Int /\ j \in Int
    BY <1>2, <1>10
  <2>2. k - i = l - j
    BY <1>7, <1>8, <1>9, Zenon
  <2> HIDE DEF k, l, i, j
  <2>3. l = k + j - i
    BY <2>1, <2>2
  <2> QED BY <2>3 DEF k, l, i, j
<1> QED BY <1>11 DEF A, B

LEMMA SumsChange ==
  ASSUME NEW n \in Nat, n <= MAX_FLIGHTS, NEW f \in 0 .. n-1, NEW fl \in [Flights -> Aircraft],
         NEW fl2 \in [Flights -> Aircraft], OnlyBy(f, fl, fl2)
  PROVE  /\ GoArounds(fl, n) \in Int /\ Waits(fl, n) \in Int
         /\ GoArounds(fl2, n) = GoArounds(fl, n) - fl[f].go_arounds + fl2[f].go_arounds
         /\ Waits(fl2, n) = Waits(fl, n) - fl[f].total_wait + fl2[f].total_wait
<1> DEFINE S == 0 .. n-1
           x  == [g \in S |-> fl[g].go_arounds]
           x2 == [g \in S |-> fl2[g].go_arounds]
           y  == [g \in S |-> fl[g].total_wait]
           y2 == [g \in S |-> fl2[g].total_wait]
<1>1. \A g \in S : g \in Flights
  <2>1. MAX_FLIGHTS \in Nat
    BY SizeAssumption DEF Positive
  <2> QED BY <2>1 DEF Flights
<1>2. \A g \in S : g # f => fl2[g] = fl[g]
  BY <1>1 DEF OnlyBy
<1>3. \A g \in S : fl[g] \in Aircraft /\ fl2[g] \in Aircraft
  BY <1>1
<1>4. /\ x \in [S -> Int] /\ x2 \in [S -> Int]
      /\ y \in [S -> Int] /\ y2 \in [S -> Int]
  BY <1>3 DEF Aircraft
<1>5. (\A g \in S \ {f} : x2[g] = x[g]) /\ (\A g \in S \ {f} : y2[g] = y[g])
  BY <1>2
<1>6. IsFiniteSet(S) /\ f \in S
  BY FS_Interval
<1>7. /\ x[f] = fl[f].go_arounds /\ x2[f] = fl2[f].go_arounds
      /\ y[f] = fl[f].total_wait /\ y2[f] = fl2[f].total_wait
  OBVIOUS
<1>8. /\ GoArounds(fl, n) = SumFunction(x) /\ GoArounds(fl2, n) = SumFunction(x2)
      /\ Waits(fl, n) = SumFunction(y) /\ Waits(fl2, n) = SumFunction(y2)
  BY DEF GoArounds, Waits
<1> HIDE DEF S, x, x2, y, y2
<1>9. SumFunction(x) \in Int /\ SumFunction(x2) = SumFunction(x) - x[f] + x2[f]
  <2>1. x \in [S -> Int]
    BY <1>4
  <2>2. x2 \in [S -> Int]
    BY <1>4
  <2>3. \A g \in S \ {f} : x2[g] = x[g]
    BY <1>5
  <2>4. f \in S
    BY <1>6
  <2>5. IsFiniteSet(S)
    BY <1>6
  <2> QED BY <2>1, <2>2, <2>3, <2>4, <2>5, SumChanges
<1>10. SumFunction(y) \in Int /\ SumFunction(y2) = SumFunction(y) - y[f] + y2[f]
  <2>1. y \in [S -> Int]
    BY <1>4
  <2>2. y2 \in [S -> Int]
    BY <1>4
  <2>3. \A g \in S \ {f} : y2[g] = y[g]
    BY <1>5
  <2>4. f \in S
    BY <1>6
  <2>5. IsFiniteSet(S)
    BY <1>6
  <2> QED BY <2>1, <2>2, <2>3, <2>4, <2>5, SumChanges
<1> QED BY <1>7, <1>8, <1>9, <1>10

LEMMA EarnedType ==
  ASSUME NEW fl, NEW n \in 0 .. MAX_FLIGHTS PROVE Earned(fl, n) \in Int
<1> DEFINE S == Among(fl, n, {"AC_DONE"})
           x == [g \in S |-> 10 + Bonus(fl[g])]
<1>1. n \in Nat
  BY SizeAssumption DEF Positive
<1>2. IsFiniteSet(S)
  BY <1>1, AmongFinite
<1>3. x \in [S -> Int]
  BY DEF Bonus
<1>4. Earned(fl, n) = SumFunction(x)
  BY DEF Earned
<1> HIDE DEF S, x
<1> QED BY <1>2, <1>3, <1>4, SumType

\* The score of the flights that are done grows by what one more brings in.
LEMMA EarnedChanges ==
  ASSUME NEW n \in Nat, n <= MAX_FLIGHTS, NEW f \in 0 .. n-1, NEW fl \in [Flights -> Aircraft],
         NEW fl2 \in [Flights -> Aircraft], OnlyBy(f, fl, fl2), fl[f].state # "AC_DONE"
  PROVE  Earned(fl, n) \in Int /\ Earned(fl2, n) = Earned(fl, n) + Worth(fl2[f])
<1> DEFINE S  == Among(fl, n, {"AC_DONE"})
           S2 == Among(fl2, n, {"AC_DONE"})
           x  == [g \in S |-> 10 + Bonus(fl[g])]
           x2 == [g \in S2 |-> 10 + Bonus(fl2[g])]
<1>1. \A g \in 0 .. n-1 : g \in Flights
  <2>1. MAX_FLIGHTS \in Nat
    BY SizeAssumption DEF Positive
  <2> QED BY <2>1 DEF Flights
<1>2. \A g \in 0 .. n-1 : g # f => fl2[g] = fl[g]
  BY <1>1 DEF OnlyBy
<1>3. IsFiniteSet(S) /\ f \notin S
  BY AmongFinite DEF Among
<1>4. \A a : Bonus(a) \in Int
  BY DEF Bonus
<1>5. x \in [S -> Int] /\ x2 \in [S2 -> Int]
  BY <1>4
<1>6. \A g \in S : g \in S2 => x2[g] = x[g]
  BY <1>2, <1>3 DEF Among
<1>7. Earned(fl, n) = SumFunction(x) /\ Earned(fl2, n) = SumFunction(x2)
  BY DEF Earned
<1>8. CASE fl2[f].state = "AC_DONE"
  <2>1. S2 = S \cup {f}
    BY <1>2, <1>8 DEF Among
  <2>2. x2[f] = 10 + Bonus(fl2[f])
    BY <1>8 DEF Among
  <2>3. Worth(fl2[f]) = 10 + Bonus(fl2[f])
    BY <1>8 DEF Worth
  <2> HIDE DEF S, S2, x, x2
  <2>4. x2 \in [S \cup {f} -> Int] /\ \A g \in S : x2[g] = x[g]
    BY <1>5, <1>6, <2>1
  <2>5. SumFunction(x) \in Int /\ SumFunction(x2) = SumFunction(x) + x2[f]
    BY <1>3, <1>5, <2>4, SumAdds
  <2> QED BY <1>7, <2>2, <2>3, <2>5
<1>9. CASE fl2[f].state # "AC_DONE"
  <2>1. S2 = S
    BY <1>2, <1>9 DEF Among
  <2>2. Worth(fl2[f]) = 0
    BY <1>9 DEF Worth
  <2> HIDE DEF S, S2, x, x2
  <2>3. x2 = x
    BY <1>5, <1>6, <2>1
  <2>4. SumFunction(x) \in Int
    BY <1>3, <1>5, SumType
  <2> QED BY <1>7, <2>2, <2>3, <2>4
<1> QED BY <1>8, <1>9

\* The counters and the table fit, and agree.
Accounted(fl, n, st) == /\ fl \in [Flights -> Aircraft] /\ n \in 0 .. MAX_FLIGHTS
                        /\ st \in SimStats /\ Balanced(fl, n, st)

LEMMA AccountedNow ==
  ASSUME TypeOK
  PROVE  AccountsBalance <=> Accounted(flights, flight_count, stats)
BY BalancedNow DEF TypeOK, Accounted

LEMMA AccountedNext ==
  ASSUME Accounted(flights', flight_count', stats')
  PROVE  AccountsBalance'
BY DEF AccountsBalance, Balanced, Landed, Among, GoArounds, Waits, Earned, Flown, InUse,
       Accounted

LEMMA Balance ==
  ASSUME NEW n, NEW f \in 0 .. n-1, NEW fl, NEW st, NEW fl2 \in [Flights -> Aircraft],
         NEW su \in SimStats, OnlyBy(f, fl, fl2), fl[f].state # "AC_DONE",
         Accounted(fl, n, st), Paid(fl[f], fl2[f], st, su)
  PROVE  Accounted(fl2, n, su)
<1>1. /\ fl \in [Flights -> Aircraft] /\ fl2 \in [Flights -> Aircraft]
      /\ st \in SimStats /\ su \in SimStats /\ n \in Nat /\ n <= MAX_FLIGHTS
      /\ n \in 0 .. MAX_FLIGHTS /\ Balanced(fl, n, st)
  BY SizeAssumption DEF Accounted, Positive
<1>2. \A states : Cardinality(Among(fl2, n, states))
          = Cardinality(Among(fl, n, states)) + Has(fl2[f], states) - Has(fl[f], states)
  BY <1>1, AmongChanges
<1>3. /\ GoArounds(fl2, n) = GoArounds(fl, n) - fl[f].go_arounds + fl2[f].go_arounds
      /\ Waits(fl2, n) = Waits(fl, n) - fl[f].total_wait + fl2[f].total_wait
  BY <1>1, SumsChange
<1>4. Earned(fl, n) \in Int /\ Earned(fl2, n) = Earned(fl, n) + Worth(fl2[f])
  BY <1>1, EarnedChanges
<1>5. f \in Flights
  <2>1. MAX_FLIGHTS \in Nat
    BY SizeAssumption DEF Positive
  <2> QED BY <1>1, <2>1 DEF Flights
<1>6. /\ fl[f].go_arounds \in Int /\ fl2[f].go_arounds \in Int
      /\ fl[f].total_wait \in Int /\ fl2[f].total_wait \in Int
  BY <1>1, <1>5 DEF Aircraft
<1>7. /\ st.go_arounds \in Int /\ su.go_arounds \in Int
      /\ st.cumulative_wait \in Int /\ su.cumulative_wait \in Int
      /\ st.flights_lost \in Int /\ su.flights_lost \in Int
      /\ st.flights_diverted \in Int /\ su.flights_diverted \in Int
      /\ st.emergencies \in Int /\ su.emergencies \in Int
  BY <1>1 DEF SimStats
<1>8. /\ su.flights_spawned = n
      /\ su.flights_landed = Cardinality(Among(fl2, n, Landed))
      /\ su.flights_departed = Cardinality(Among(fl2, n, {"AC_DONE"}))
      /\ su.flights_lost = Cardinality(Among(fl2, n, {"AC_LOST"}))
      /\ su.flights_diverted = Cardinality(Among(fl2, n, {"AC_DIVERTED"}))
  BY <1>1, <1>2 DEF Balanced, Paid
<1>9. su.go_arounds = GoArounds(fl2, n) /\ su.cumulative_wait = Waits(fl2, n)
  BY <1>1, <1>3, <1>6, <1>7 DEF Balanced, Paid
<1>10. Worth(fl2[f]) \in Int
  BY DEF Worth, Bonus
<1>11. su.score = Earned(fl2, n) - 6 * su.emergencies - 50 * su.flights_lost
                  - 3 * su.go_arounds - 12 * su.flights_diverted
  BY <1>1, <1>4, <1>7, <1>10 DEF Balanced, Paid
<1> QED BY <1>1, <1>8, <1>9, <1>11 DEF Balanced, Accounted

\* The record of one flight is replaced.
LEMMA BalanceRecord ==
  ASSUME NEW n, NEW f \in Flights, f < n, NEW fl, NEW st, NEW a \in Aircraft,
         NEW su \in SimStats, fl[f].state # "AC_DONE", Accounted(fl, n, st),
         Paid(fl[f], a, st, su)
  PROVE  Accounted([fl EXCEPT ![f] = a], n, su)
<1>1. fl \in [Flights -> Aircraft] /\ n \in Nat
  BY SizeAssumption DEF Accounted, Positive
<1>2. /\ [fl EXCEPT ![f] = a] \in [Flights -> Aircraft]
      /\ [fl EXCEPT ![f] = a][f] = a /\ OnlyBy(f, fl, [fl EXCEPT ![f] = a])
  BY <1>1, Replaced
<1>3. f \in 0 .. n-1
  BY <1>1 DEF Flights
<1> QED BY <1>2, <1>3, Balance

\* What is counted is whole.
LEMMA WholeNumbers ==
  ASSUME NEW a \in Aircraft, NEW st \in SimStats
  PROVE  /\ a.go_arounds \in Int /\ a.total_wait \in Int
         /\ st.flights_landed \in Int /\ st.flights_departed \in Int
         /\ st.flights_lost \in Int /\ st.flights_diverted \in Int
         /\ st.go_arounds \in Int /\ st.cumulative_wait \in Int
         /\ st.emergencies \in Int /\ st.score \in Int
BY DEF Aircraft, SimStats

-----------------------------------------------------------------------------
(* Changes that cost nothing but a wait.                                   *)

Aloft == {"AC_INBOUND", "AC_HOLDING", "AC_LANDING"}
Afoot == Landed \ {"AC_DONE"}

Alike(a, b) == \/ a.state \in Aloft /\ b.state \in Aloft
               \/ a.state \in Afoot /\ b.state \in Afoot

LEMMA AlikePaid ==
  ASSUME NEW a \in Aircraft, NEW b \in Aircraft, Alike(a, b),
         b.go_arounds = a.go_arounds, b.total_wait = a.total_wait, NEW st \in SimStats
  PROVE  Paid(a, b, st, st)
<1>1. /\ a.state # "AC_DONE" /\ b.state # "AC_DONE"
      /\ a.state # "AC_LOST" /\ b.state # "AC_LOST"
      /\ a.state # "AC_DIVERTED" /\ b.state # "AC_DIVERTED"
      /\ a.state \in Landed <=> b.state \in Landed
  BY DEF Alike, Aloft, Afoot, Landed
<1>2. /\ Has(a, Landed) = Has(b, Landed) /\ Has(a, Landed) \in Int
      /\ Has(a, {"AC_DONE"}) = 0 /\ Has(b, {"AC_DONE"}) = 0
      /\ Has(a, {"AC_LOST"}) = 0 /\ Has(b, {"AC_LOST"}) = 0
      /\ Has(a, {"AC_DIVERTED"}) = 0 /\ Has(b, {"AC_DIVERTED"}) = 0
      /\ Worth(b) = 0
  BY <1>1 DEF Has, Worth
<1> QED BY <1>2, WholeNumbers DEF Paid

LEMMA WaitPaid ==
  ASSUME NEW a \in Aircraft, NEW b \in Aircraft, Alike(a, b), NEW w \in Nat,
         b.go_arounds = a.go_arounds, b.total_wait = a.total_wait + w,
         NEW st \in SimStats
  PROVE  Paid(a, b, st, record_wait(st, w))
<1> DEFINE c == [b EXCEPT !.total_wait = a.total_wait]
           su == record_wait(st, w)
<1>1. a.total_wait \in Nat
  BY DEF Aircraft
<1>2. c \in Aircraft /\ c.state = b.state /\ c.go_arounds = b.go_arounds /\ c.total_wait = a.total_wait
  BY <1>1 DEF Aircraft
<1>3. Paid(a, c, st, st)
  <2> HIDE DEF c
  <2>1. Alike(a, c)
    BY <1>2 DEF Alike
  <2> QED BY <1>2, <2>1, AlikePaid
<1>4. \A S : Has(c, S) = Has(b, S)
  BY <1>2 DEF Has
<1>5. Worth(b) = 0 /\ Worth(c) = 0
  BY <1>2 DEF Worth, Alike, Aloft, Afoot
<1>6. /\ su.flights_spawned = st.flights_spawned
      /\ su.flights_landed = st.flights_landed
      /\ su.flights_departed = st.flights_departed
      /\ su.flights_lost = st.flights_lost
      /\ su.flights_diverted = st.flights_diverted
      /\ su.go_arounds = st.go_arounds /\ su.emergencies = st.emergencies
      /\ su.score = st.score
      /\ su.cumulative_wait = st.cumulative_wait + w
  BY DEF record_wait, SimStats
<1>7. st.cumulative_wait \in Nat
  BY DEF SimStats
<1> HIDE DEF c, su
<1>8. su.cumulative_wait = st.cumulative_wait + b.total_wait - a.total_wait
  BY <1>1, <1>6, <1>7
<1>9. b.go_arounds = c.go_arounds
  BY <1>2
<1> QED BY <1>3, <1>4, <1>5, <1>6, <1>8, <1>9 DEF Paid, su

LEMMA DecayAlike ==
  ASSUME NEW a \in Aircraft
  PROVE  /\ decay_fuel(a).state = a.state
         /\ decay_fuel(a).go_arounds = a.go_arounds
         /\ decay_fuel(a).total_wait = a.total_wait
         /\ decay_fuel(a).emergency = a.emergency
<1>1. CASE now' > a.last_update
  BY <1>1 DEF decay_fuel, Aircraft
<1>2. CASE ~ (now' > a.last_update)
  BY <1>2 DEF decay_fuel
<1> QED BY <1>1, <1>2

-----------------------------------------------------------------------------
(* What the helpers do to the accounts.                                    *)

\* A flight is cleared: its wait is added to its own total and to the sum.
LEMMA ClearAccounts ==
  ASSUME NEW f \in Flights, NEW rw \in Runways, NEW n, f < n, NEW fl, NEW rws, NEW ring,
         NEW q, NEW st, NEW weight, now' \in Nat, Accounted(fl, n, st),
         fl[f].state \in Aloft, ClearToLand(f, rw, fl, rws, ring, q, st, weight)
  PROVE  Accounted(flights', n, stats')
<1> DEFINE w == Waited(fl[f])
           a == [fl[f] EXCEPT !.assigned_runway = rw, !.state = "AC_LANDING",
                              !.total_wait = @ + w]
<1>1. fl \in [Flights -> Aircraft] /\ fl[f] \in Aircraft /\ st \in SimStats
  BY DEF Accounted
<1>2. w \in Nat
  BY <1>1, WaitedType
<1>3. flights' = [fl EXCEPT ![f] = a] /\ stats' = record_wait(st, w)
  BY <1>1 DEF ClearToLand
<1> HIDE DEF w
<1>4. /\ a \in Aircraft /\ a.state = "AC_LANDING"
      /\ a.go_arounds = fl[f].go_arounds /\ a.total_wait = fl[f].total_wait + w
  <2>1. fl[f].total_wait + w \in Nat
    BY <1>1, <1>2 DEF Aircraft
  <2> QED BY <1>1, <2>1 DEF Aircraft, AircraftState
<1>5. stats' \in SimStats
  BY <1>1, <1>2, <1>3, RecordWaitType
<1> HIDE DEF a
<1>6. Alike(fl[f], a)
  BY <1>4 DEF Alike, Aloft
<1>7. Paid(fl[f], a, st, stats')
  BY <1>1, <1>2, <1>3, <1>4, <1>6, WaitPaid
<1>8. fl[f].state # "AC_DONE"
  BY DEF Aloft
<1> QED BY <1>3, <1>4, <1>5, <1>7, <1>8, BalanceRecord

LEMMA HoldAccounts ==
  ASSUME NEW f \in Flights, NEW n, f < n, NEW fl, NEW rws, NEW ring,
         NEW q, NEW st, NEW delay, Accounted(fl, n, st),
         fl[f].state \in Aloft, EnterHolding(f, fl, rws, ring, q, st, delay)
  PROVE  Accounted(flights', n, stats')
<1> DEFINE a == [fl[f] EXCEPT !.state = "AC_HOLDING"]
<1>1. fl \in [Flights -> Aircraft] /\ fl[f] \in Aircraft /\ st \in SimStats
  BY DEF Accounted
<1>2. flights' = [fl EXCEPT ![f] = a] /\ stats' = st
  BY <1>1 DEF EnterHolding
<1>3. /\ a \in Aircraft /\ a.state = "AC_HOLDING"
      /\ a.go_arounds = fl[f].go_arounds /\ a.total_wait = fl[f].total_wait
  BY <1>1 DEF Aircraft, AircraftState
<1> HIDE DEF a
<1>4. Alike(fl[f], a) /\ fl[f].state # "AC_DONE"
  BY <1>3 DEF Alike, Aloft
<1>5. Paid(fl[f], a, st, st)
  BY <1>1, <1>3, <1>4, AlikePaid
<1> QED BY <1>1, <1>2, <1>3, <1>4, <1>5, BalanceRecord

LEMMA TryAssignAccounts ==
  ASSUME NEW f \in Flights, NEW n, f < n, NEW fl, NEW rws, NEW ring, NEW q, NEW st,
         now' \in Nat, Accounted(fl, n, st), fl[f].state \in Aloft,
         try_assign_landing(f, fl, rws, ring, q, st)
  PROVE  Accounted(flights', n, stats')
<1>1. ASSUME NEW rw \in find_idle_runway(rws),
             ClearToLand(f, rw, fl, rws, ring, q, st, LandingWeight(fl[f]))
      PROVE  Accounted(flights', n, stats')
  <2>1. rw \in Runways
    BY DEF find_idle_runway
  <2> QED BY <1>1, <2>1, ClearAccounts
<1>2. ASSUME EnterHolding(f, fl, rws, ring, q, st, HOLD_RECHECK)
      PROVE  Accounted(flights', n, stats')
  BY <1>2, HoldAccounts
<1> QED BY <1>1, <1>2 DEF try_assign_landing

\* The flight that is served next pays for its own wait.
LEMMA FreeRunwayAccounts ==
  ASSUME NEW rw, NEW n, NEW fl, NEW ring \in Seq(Flights), NEW q, NEW st,
         now' \in Nat, Accounted(fl, n, st), Waiting(ring, {}, fl, n, "AC_HOLDING"),
         free_runway(rw, fl, ring, q, st)
  PROVE  Accounted(flights', n, stats')
<1>1. CASE flights' = fl /\ stats' = st
  BY <1>1
<1>2. ASSUME NEW k \in holding_pop_priority(ring, fl), NEW rws,
             try_assign_landing(ring[k], fl, rws, RemoveAt(ring, k), q, st)
      PROVE  Accounted(flights', n, stats')
  <2>1. k \in DOMAIN ring
    BY DEF holding_pop_priority
  <2>2. ring[k] \in 0 .. n-1 /\ fl[ring[k]].state = "AC_HOLDING"
    BY <2>1 DEF Waiting
  <2>3. ring[k] \in Flights
    BY <2>1, ElementOfSeq
  <2>4. ring[k] < n
    BY <2>2, SizeAssumption DEF Accounted, Positive
  <2>5. fl[ring[k]].state \in Aloft
    BY <2>2 DEF Aloft
  <2> QED BY <1>2, <2>3, <2>4, <2>5, TryAssignAccounts
<1> QED BY <1>1, <1>2 DEF free_runway

\* A flight that has landed gets a gate, or waits on.
LEMMA TryAssignGateAccounts ==
  ASSUME NEW f \in Flights, NEW n, f < n, NEW fl, NEW gts, NEW ring, NEW q,
         now' \in Nat, Accounted(fl, n, stats), fl[f].state = "AC_TAXI_IN",
         try_assign_gate(f, fl, gts, ring, q)
  PROVE  Accounted(flights', n, stats')
<1>1. CASE flights' = fl /\ UNCHANGED stats
  BY <1>1
<1>2. ASSUME NEW g \in find_vacant_gate(gts),
             flights' = [fl EXCEPT ![f].assigned_gate = g, ![f].state = "AC_AT_GATE",
                                   ![f].total_wait = @ + Waited(fl[f])],
             stats' = record_wait(stats, Waited(fl[f]))
      PROVE  Accounted(flights', n, stats')
  <2> DEFINE w == Waited(fl[f])
             a == [fl[f] EXCEPT !.assigned_gate = g, !.state = "AC_AT_GATE",
                                !.total_wait = @ + w]
  <2>1. /\ fl \in [Flights -> Aircraft] /\ fl[f] \in Aircraft /\ stats \in SimStats
        /\ g \in Gates
    BY DEF Accounted, find_vacant_gate
  <2>2. w \in Nat
    BY <2>1, WaitedType
  <2>3. flights' = [fl EXCEPT ![f] = a] /\ stats' = record_wait(stats, w)
    BY <1>2, <2>1
  <2> HIDE DEF w
  <2>4. /\ a \in Aircraft /\ a.state = "AC_AT_GATE"
        /\ a.go_arounds = fl[f].go_arounds /\ a.total_wait = fl[f].total_wait + w
    <3>1. fl[f].total_wait + w \in Nat
      BY <2>1, <2>2 DEF Aircraft
    <3> QED BY <2>1, <3>1 DEF Aircraft, AircraftState
  <2>5. stats' \in SimStats
    BY <2>1, <2>2, <2>3, RecordWaitType
  <2> HIDE DEF a
  <2>6. Alike(fl[f], a)
    BY <2>4 DEF Alike, Afoot, Landed
  <2>7. Paid(fl[f], a, stats, stats')
    BY <2>1, <2>2, <2>3, <2>4, <2>6, WaitPaid
  <2> QED BY <2>3, <2>4, <2>5, <2>7, BalanceRecord
<1> QED BY <1>1, <1>2, Zenon DEF try_assign_gate

\* A record that counts for as much is put in the place of another.
LEMMA AlikeAccounts ==
  ASSUME NEW n, NEW f \in Flights, f < n, NEW fl, NEW st, NEW a \in Aircraft,
         Accounted(fl, n, st), Alike(fl[f], a),
         a.go_arounds = fl[f].go_arounds, a.total_wait = fl[f].total_wait
  PROVE  Accounted([fl EXCEPT ![f] = a], n, st)
<1>1. fl[f] \in Aircraft /\ st \in SimStats
  BY DEF Accounted
<1>2. Paid(fl[f], a, st, st)
  BY <1>1, AlikePaid
<1>3. fl[f].state # "AC_DONE"
  BY DEF Alike, Aloft, Afoot
<1> QED BY <1>1, <1>2, <1>3, BalanceRecord

\* An emergency costs 6, whoever declares it.
LEMMA DeclaredAccounts ==
  ASSUME NEW n, NEW fl, NEW st, Accounted(fl, n, st)
  PROVE  Accounted(fl, n, DeclaredIn(st))
<1> DEFINE su == DeclaredIn(st)
<1>1. st \in SimStats /\ su \in SimStats
  BY DeclaredType DEF Accounted
<1>2. /\ su.flights_spawned = st.flights_spawned
      /\ su.flights_landed = st.flights_landed
      /\ su.flights_departed = st.flights_departed
      /\ su.flights_lost = st.flights_lost
      /\ su.flights_diverted = st.flights_diverted
      /\ su.go_arounds = st.go_arounds
      /\ su.cumulative_wait = st.cumulative_wait
      /\ su.emergencies = st.emergencies + 1 /\ su.score = st.score - 6
  BY <1>1 DEF DeclaredIn, SimStats
<1>3. /\ st.flights_lost \in Int /\ st.flights_diverted \in Int
      /\ st.go_arounds \in Int /\ st.emergencies \in Int /\ st.score \in Int
  BY <1>1 DEF SimStats
<1> HIDE DEF su
<1>4. su.score = Earned(fl, n) - 6 * su.emergencies - 50 * su.flights_lost
                 - 3 * su.go_arounds - 12 * su.flights_diverted
  <2> DEFINE e == Earned(fl, n)
  <2>1. e \in Int
    BY EarnedType DEF Accounted
  <2>2. st.score = e - 6 * st.emergencies - 50 * st.flights_lost
                   - 3 * st.go_arounds - 12 * st.flights_diverted
    BY DEF Accounted, Balanced
  <2> HIDE DEF e
  <2>3. su.score = e - 6 * su.emergencies - 50 * su.flights_lost
                   - 3 * su.go_arounds - 12 * su.flights_diverted
    BY <1>2, <1>3, <2>1, <2>2
  <2> QED BY <2>3 DEF e
<1> QED BY <1>1, <1>2, <1>4 DEF Accounted, Balanced, su

\* The ring that waits while a flight outside of it moves on.
LEMMA StillQueued ==
  ASSUME TypeOK, AllTied, NEW f \in Flights, ~ InRing(holding, f), NEW a
  PROVE  Waiting(holding, {}, [flights EXCEPT ![f] = a], flight_count, "AC_HOLDING")
<1>1. flights \in [Flights -> Aircraft] /\ flight_count \in Nat /\ flight_count <= MAX_FLIGHTS
  BY CountFits DEF TypeOK
<1>2. OnlyBy(f, flights, [flights EXCEPT ![f] = a])
  BY <1>1, Replaced
<1>3. Waiting(holding, {}, flights, flight_count, "AC_HOLDING")
  BY DEF AllTied, Tied, RingsTied
<1>4. flight_count <= flight_count /\ {} \in {{}, {f}}
  BY <1>1
<1> QED BY <1>1, <1>2, <1>3, <1>4, WaitingQuiet

-----------------------------------------------------------------------------
(* The handlers.  What is known when the event of a flight is popped:      *)

LEMMA PoppedAccounts ==
  ASSUME TypeOK, AccountsBalance, NEW type, NEW f \in Flights, Dispatch(type, f)
  PROVE  /\ Accounted(flights, flight_count, stats)
         /\ now' \in Nat /\ flights[f] \in Aircraft
         /\ flights \in [Flights -> Aircraft] /\ holding \in Seq(Flights)
         /\ stats \in SimStats
<1>1. Accounted(flights, flight_count, stats)
  BY AccountedNow
<1>2. now' \in Nat
  BY PoppedParts DEF Dispatch, Pop
<1> QED BY <1>1, <1>2 DEF TypeOK

LEMMA RequestAccounts ==
  ASSUME TypeOK, AllTied, AccountsBalance, NEW f \in Flights, on_runway_request(f)
  PROVE  AccountsBalance'
<1> DEFINE a  == [decay_fuel(flights[f]) EXCEPT !.queue_enter_time = now']
           fl == [flights EXCEPT ![f] = a]
           n  == flight_count
<1>1. /\ Dispatch("EVENT_RUNWAY_REQUEST", f) /\ "EVENT_RUNWAY_REQUEST" \in Movers
      /\ flight_count' = flight_count
  BY MoverTypes DEF on_runway_request
<1>2. \/ flights' = [fl EXCEPT ![f].emergency = TRUE] /\ stats' = DeclaredIn(stats)
      \/ try_assign_landing(f, fl, runways, holding, Tail(pq), stats)
  BY Zenon DEF on_runway_request
<1>3. /\ Accounted(flights, n, stats) /\ now' \in Nat /\ flights[f] \in Aircraft
      /\ flights \in [Flights -> Aircraft]
  BY <1>1, PoppedAccounts
<1>4. f < n /\ flights[f].state = "AC_INBOUND"
  <2>1. /\ flights[f].state \in AircraftState \ Gone /\ f < n
        /\ Awaited[flights[f].state] = "EVENT_RUNWAY_REQUEST"
    BY <1>1, Popped
  <2> QED BY <2>1, StateAwaiting
<1>5. /\ a \in Aircraft /\ a.state = "AC_INBOUND"
      /\ a.go_arounds = flights[f].go_arounds /\ a.total_wait = flights[f].total_wait
  <2>1. /\ decay_fuel(flights[f]).state = "AC_INBOUND"
        /\ decay_fuel(flights[f]).go_arounds = flights[f].go_arounds
        /\ decay_fuel(flights[f]).total_wait = flights[f].total_wait
        /\ decay_fuel(flights[f]) \in Aircraft
    BY <1>3, <1>4, DecayAlike, DecayType
  <2> QED BY <1>3, <2>1 DEF Aircraft
<1> HIDE DEF a, n
<1>6. Accounted(fl, n, stats)
  BY <1>3, <1>4, <1>5, AlikeAccounts DEF Alike, Aloft
<1>7. fl[f] = a
  BY <1>3
<1> HIDE DEF fl
<1>8. CASE flights' = [fl EXCEPT ![f].emergency = TRUE] /\ stats' = DeclaredIn(stats)
  <2> DEFINE b == [a EXCEPT !.emergency = TRUE]
  <2>1. /\ b \in Aircraft /\ b.state = "AC_INBOUND"
        /\ b.go_arounds = fl[f].go_arounds /\ b.total_wait = fl[f].total_wait
    BY <1>5, <1>7 DEF Aircraft
  <2>2. flights' = [fl EXCEPT ![f] = b]
    BY <1>6, <1>7, <1>8 DEF Accounted
  <2> HIDE DEF b
  <2>3. Alike(fl[f], b)
    BY <1>5, <1>7, <2>1 DEF Alike, Aloft
  <2>4. Accounted(flights', n, stats)
    BY <1>4, <1>6, <2>1, <2>2, <2>3, AlikeAccounts
  <2>5. Accounted(flights', n, stats')
    BY <1>8, <2>4, DeclaredAccounts
  <2> QED BY <1>1, <2>5, AccountedNext DEF n
<1>9. CASE try_assign_landing(f, fl, runways, holding, Tail(pq), stats)
  <2>1. fl[f].state \in Aloft
    BY <1>5, <1>7 DEF Aloft
  <2>2. Accounted(flights', n, stats')
    BY <1>3, <1>4, <1>6, <1>9, <2>1, TryAssignAccounts
  <2> QED BY <1>1, <2>2, AccountedNext DEF n
<1> QED BY <1>2, <1>8, <1>9

\* A fuel check of a flight that does not wait any more only burns its fuel.
LEMMA MovedOnAccounts ==
  ASSUME TypeOK, AllTied, AccountsBalance, NEW f \in Flights, on_emergency_moved_on(f)
  PROVE  AccountsBalance'
<1> DEFINE a == decay_fuel(flights[f])
           n == flight_count
<1>1. /\ Dispatch("EVENT_EMERGENCY_FUEL", f) /\ flights[f].state \notin Gone
      /\ flights[f].state \notin {"AC_HOLDING", "AC_INBOUND"}
      /\ flights' = [flights EXCEPT ![f] = a]
      /\ UNCHANGED <<flight_count, stats>>
  BY DEF on_emergency_moved_on, Dispatch
<1>2. /\ Accounted(flights, n, stats) /\ now' \in Nat /\ flights[f] \in Aircraft
  BY <1>1, PoppedAccounts
<1>3. f < n
  <2>1. DrivenFor(f, {}, flights, taxi_wait, pq, flight_count)
    BY DEF AllTied, Tied, DriveTied
  <2> QED BY <1>1, <2>1 DEF DrivenFor
<1>4. /\ a \in Aircraft /\ a.state = flights[f].state
      /\ a.go_arounds = flights[f].go_arounds /\ a.total_wait = flights[f].total_wait
  BY <1>2, DecayAlike, DecayType
<1> HIDE DEF a, n
<1>5. flights[f].state \in Aloft \/ flights[f].state \in Afoot
  <2>1. flights[f].state \in AircraftState
    BY <1>2 DEF Aircraft
  <2> QED BY <1>1, <2>1 DEF AircraftState, Gone, Aloft, Afoot, Landed
<1>6. Alike(flights[f], a)
  BY <1>4, <1>5 DEF Alike
<1>7. Accounted(flights', n, stats)
  BY <1>1, <1>2, <1>3, <1>4, <1>6, AlikeAccounts
<1> QED BY <1>1, <1>7, AccountedNext DEF n

LEMMA LostAccounts ==
  ASSUME TypeOK, AllTied, AccountsBalance, NEW f \in Flights, on_emergency_lost(f)
  PROVE  AccountsBalance'
<1> DEFINE a  == [decay_fuel(flights[f]) EXCEPT !.state = "AC_LOST"]
           su == [stats EXCEPT !.flights_lost = @ + 1, !.score = @ - 50]
           n  == flight_count
<1>1. /\ Dispatch("EVENT_EMERGENCY_FUEL", f)
      /\ flights[f].state \in {"AC_HOLDING", "AC_INBOUND"}
      /\ flights' = [flights EXCEPT ![f] = a] /\ stats' = su
      /\ flight_count' = flight_count
  BY DEF on_emergency_lost
<1>2. /\ Accounted(flights, n, stats) /\ now' \in Nat /\ flights[f] \in Aircraft
      /\ stats \in SimStats
  BY <1>1, PoppedAccounts
<1>3. f < n
  <2>1. Tied({f}, flights, runways, gates, Unqueued(f), taxi_wait, Tail(pq), flight_count)
    BY <1>1, FuelInHand
  <2> QED BY <2>1, HandKnown DEF Tied
<1>4. /\ a \in Aircraft /\ a.state = "AC_LOST"
      /\ a.go_arounds = flights[f].go_arounds /\ a.total_wait = flights[f].total_wait
  <2>1. /\ decay_fuel(flights[f]).go_arounds = flights[f].go_arounds
        /\ decay_fuel(flights[f]).total_wait = flights[f].total_wait
        /\ decay_fuel(flights[f]) \in Aircraft
    BY <1>2, DecayAlike, DecayType
  <2> QED BY <2>1 DEF Aircraft, AircraftState
<1>5. /\ su \in SimStats
      /\ su.flights_spawned = stats.flights_spawned
      /\ su.flights_landed = stats.flights_landed
      /\ su.flights_departed = stats.flights_departed
      /\ su.flights_lost = stats.flights_lost + 1
      /\ su.flights_diverted = stats.flights_diverted
      /\ su.go_arounds = stats.go_arounds
      /\ su.cumulative_wait = stats.cumulative_wait
      /\ su.emergencies = stats.emergencies /\ su.score = stats.score - 50
  <2>1. stats.flights_lost + 1 \in Nat /\ stats.score - 50 \in Int
    BY <1>2 DEF SimStats
  <2> QED BY <1>2, <2>1 DEF SimStats
<1>6. /\ Has(flights[f], Landed) = 0 /\ Has(a, Landed) = 0
      /\ Has(flights[f], {"AC_DONE"}) = 0 /\ Has(a, {"AC_DONE"}) = 0
      /\ Has(flights[f], {"AC_LOST"}) = 0 /\ Has(a, {"AC_LOST"}) = 1
      /\ Has(flights[f], {"AC_DIVERTED"}) = 0 /\ Has(a, {"AC_DIVERTED"}) = 0
      /\ Worth(a) = 0 /\ flights[f].state # "AC_DONE"
  BY <1>1, <1>4 DEF Has, Worth, Landed
<1> HIDE DEF a, su, n
<1>7. Paid(flights[f], a, stats, su)
  BY <1>2, <1>4, <1>5, <1>6, WholeNumbers DEF Paid
<1>8. Accounted(flights', n, stats')
  BY <1>1, <1>2, <1>3, <1>4, <1>5, <1>6, <1>7, BalanceRecord
<1> QED BY <1>1, <1>8, AccountedNext DEF n

LEMMA EmergencyAccounts ==
  ASSUME TypeOK, AllTied, AccountsBalance, NEW f \in Flights, on_emergency(f)
  PROVE  AccountsBalance'
<1> DEFINE b  == decay_fuel(flights[f])
           a  == [b EXCEPT !.emergency = @ \/ Declares(b)]
           st == IF Declares(b) THEN DeclaredIn(stats) ELSE stats
           fl == [flights EXCEPT ![f] = a]
           q  == Tail(pq)
           n  == flight_count
<1>1. /\ Dispatch("EVENT_EMERGENCY_FUEL", f)
      /\ flights[f].state \in {"AC_HOLDING", "AC_INBOUND"}
      /\ flight_count' = flight_count
      /\ \/ \E rw \in find_idle_runway(runways) :
                ClearToLand(f, rw, fl, runways, Unqueued(f), q, st, PRIO_EMERGENCY)
         \/ flights' = [fl EXCEPT ![f].state = "AC_HOLDING"] /\ stats' = st
  BY Zenon DEF on_emergency
<1>2. /\ Accounted(flights, n, stats) /\ now' \in Nat /\ flights[f] \in Aircraft
      /\ flights \in [Flights -> Aircraft]
  BY <1>1, PoppedAccounts
<1>3. f < n
  <2>1. Tied({f}, flights, runways, gates, Unqueued(f), taxi_wait, Tail(pq), flight_count)
    BY <1>1, FuelInHand
  <2> QED BY <2>1, HandKnown DEF Tied
<1>4. /\ b \in Aircraft /\ b.state = flights[f].state
      /\ b.go_arounds = flights[f].go_arounds /\ b.total_wait = flights[f].total_wait
  BY <1>2, DecayAlike, DecayType
<1>5. Accounted(flights, n, st)
  BY <1>2, DeclaredAccounts
<1> HIDE DEF b, st
<1>6. /\ a \in Aircraft /\ a.state = b.state
      /\ a.go_arounds = b.go_arounds /\ a.total_wait = b.total_wait
  <2>1. (b.emergency \/ Declares(b)) \in BOOLEAN
    OBVIOUS
  <2> QED BY <1>4, <2>1 DEF Aircraft
<1> HIDE DEF a, n
<1>7. a.state \in Aloft /\ Alike(flights[f], a)
  BY <1>1, <1>4, <1>6 DEF Alike, Aloft
<1>8. Accounted(fl, n, st)
  BY <1>3, <1>4, <1>5, <1>6, <1>7, AlikeAccounts
<1>9. fl[f] = a
  BY <1>2
<1> HIDE DEF fl
<1>10. ASSUME NEW rw \in find_idle_runway(runways),
              ClearToLand(f, rw, fl, runways, Unqueued(f), q, st, PRIO_EMERGENCY)
       PROVE  Accounted(flights', n, stats')
  <2>1. rw \in Runways
    BY DEF find_idle_runway
  <2> QED BY <1>2, <1>3, <1>7, <1>8, <1>9, <1>10, <2>1, ClearAccounts
<1>11. ASSUME flights' = [fl EXCEPT ![f].state = "AC_HOLDING"], stats' = st
       PROVE  Accounted(flights', n, stats')
  <2> DEFINE c == [a EXCEPT !.state = "AC_HOLDING"]
  <2>1. /\ c \in Aircraft /\ c.state = "AC_HOLDING"
        /\ c.go_arounds = fl[f].go_arounds /\ c.total_wait = fl[f].total_wait
    BY <1>6, <1>9 DEF Aircraft, AircraftState
  <2>2. flights' = [fl EXCEPT ![f] = c]
    BY <1>8, <1>9, <1>11 DEF Accounted
  <2> HIDE DEF c
  <2>3. Alike(fl[f], c)
    BY <1>7, <1>9, <2>1 DEF Alike, Aloft
  <2>4. Accounted(flights', n, st)
    BY <1>3, <1>8, <2>1, <2>2, <2>3, AlikeAccounts
  <2> QED BY <1>11, <2>4
<1>12. Accounted(flights', n, stats')
  BY <1>1, <1>10, <1>11
<1> QED BY <1>1, <1>12, AccountedNext DEF n

\* A landing, a wave-off, a take-off: then the runway goes to the next.
LEMMA TouchdownAccounts ==
  ASSUME TypeOK, AllTied, AccountsBalance, NEW f \in Flights, on_touchdown(f)
  PROVE  AccountsBalance'
<1> DEFINE b  == decay_fuel(flights[f])
           a  == [b EXCEPT !.assigned_runway = None, !.state = "AC_TAXI_IN",
                           !.queue_enter_time = now']
           fl == [flights EXCEPT ![f] = a]
           su == [stats EXCEPT !.flights_landed = @ + 1]
           n  == flight_count
<1>1. /\ Dispatch("EVENT_TOUCHDOWN", f) /\ "EVENT_TOUCHDOWN" \in Movers
      /\ \E q : free_runway(b.assigned_runway, fl, holding, q, su)
      /\ flight_count' = flight_count
  BY MoverTypes, Zenon DEF on_touchdown
<1>2. /\ Accounted(flights, n, stats) /\ now' \in Nat /\ flights[f] \in Aircraft
      /\ flights \in [Flights -> Aircraft] /\ holding \in Seq(Flights)
      /\ stats \in SimStats
  BY <1>1, PoppedAccounts
<1>3. f < n /\ flights[f].state = "AC_LANDING" /\ ~ InRing(holding, f)
  <2>1. /\ flights[f].state \in AircraftState \ Gone /\ f < n /\ ~ InRing(holding, f)
        /\ Awaited[flights[f].state] = "EVENT_TOUCHDOWN"
    BY <1>1, Popped
  <2> QED BY <2>1, StateAwaiting
<1>4. /\ b \in Aircraft
      /\ b.go_arounds = flights[f].go_arounds /\ b.total_wait = flights[f].total_wait
  BY <1>2, DecayAlike, DecayType
<1> HIDE DEF b
<1>5. /\ a \in Aircraft /\ a.state = "AC_TAXI_IN"
      /\ a.go_arounds = flights[f].go_arounds /\ a.total_wait = flights[f].total_wait
  BY <1>2, <1>4 DEF Aircraft, AircraftState
<1>6. /\ su \in SimStats
      /\ su.flights_spawned = stats.flights_spawned
      /\ su.flights_landed = stats.flights_landed + 1
      /\ su.flights_departed = stats.flights_departed
      /\ su.flights_lost = stats.flights_lost
      /\ su.flights_diverted = stats.flights_diverted
      /\ su.go_arounds = stats.go_arounds
      /\ su.cumulative_wait = stats.cumulative_wait
      /\ su.emergencies = stats.emergencies /\ su.score = stats.score
  <2>1. stats.flights_landed + 1 \in Nat
    BY <1>2 DEF SimStats
  <2> QED BY <1>2, <2>1 DEF SimStats
<1>7. /\ Has(flights[f], Landed) = 0 /\ Has(a, Landed) = 1
      /\ Has(flights[f], {"AC_DONE"}) = 0 /\ Has(a, {"AC_DONE"}) = 0
      /\ Has(flights[f], {"AC_LOST"}) = 0 /\ Has(a, {"AC_LOST"}) = 0
      /\ Has(flights[f], {"AC_DIVERTED"}) = 0 /\ Has(a, {"AC_DIVERTED"}) = 0
      /\ Worth(a) = 0 /\ flights[f].state # "AC_DONE"
  BY <1>3, <1>5 DEF Has, Worth, Landed
<1> HIDE DEF a, su, n
<1>8. Paid(flights[f], a, stats, su)
  <2>1. flights[f].go_arounds \in Int /\ flights[f].total_wait \in Int
    BY <1>2, WholeNumbers
  <2>2. /\ stats.flights_landed \in Int /\ stats.flights_departed \in Int
        /\ stats.flights_lost \in Int /\ stats.flights_diverted \in Int
        /\ stats.go_arounds \in Int /\ stats.cumulative_wait \in Int
        /\ stats.emergencies \in Int /\ stats.score \in Int
    BY <1>2, WholeNumbers
  <2> QED BY <1>5, <1>6, <1>7, <2>1, <2>2 DEF Paid
<1>9. Accounted(fl, n, su)
  BY <1>2, <1>3, <1>5, <1>6, <1>7, <1>8, BalanceRecord
<1>10. Waiting(holding, {}, fl, n, "AC_HOLDING")
  BY <1>2, <1>3, StillQueued DEF n
<1> HIDE DEF fl
<1>11. Accounted(flights', n, stats')
  BY <1>1, <1>2, <1>9, <1>10, FreeRunwayAccounts
<1> QED BY <1>1, <1>11, AccountedNext DEF n

LEMMA TakeoffClearAccounts ==
  ASSUME TypeOK, AllTied, AccountsBalance, NEW f \in Flights, on_takeoff_clear(f)
  PROVE  AccountsBalance'
<1> DEFINE a  == [flights[f] EXCEPT !.assigned_runway = None, !.state = "AC_AIRBORNE_OUT"]
           fl == [flights EXCEPT ![f] = a]
           n  == flight_count
<1>1. flights \in [Flights -> Aircraft] /\ flights[f] \in Aircraft
  BY DEF TypeOK
<1>2. [flights EXCEPT ![f].assigned_runway = None, ![f].state = "AC_AIRBORNE_OUT"] = fl
  BY <1>1
<1>3. /\ Dispatch("EVENT_TAKEOFF_CLEAR", f) /\ "EVENT_TAKEOFF_CLEAR" \in Movers
      /\ \E q : free_runway(flights[f].assigned_runway, fl, holding, q, stats)
      /\ flight_count' = flight_count
  <2> HIDE DEF fl
  <2> QED BY <1>2, MoverTypes DEF on_takeoff_clear
<1>4. /\ Accounted(flights, n, stats) /\ now' \in Nat /\ holding \in Seq(Flights)
  BY <1>3, PoppedAccounts
<1>5. f < n /\ flights[f].state = "AC_DEPARTING" /\ ~ InRing(holding, f)
  <2>1. /\ flights[f].state \in AircraftState \ Gone /\ f < n /\ ~ InRing(holding, f)
        /\ Awaited[flights[f].state] = "EVENT_TAKEOFF_CLEAR"
    BY <1>3, Popped
  <2> QED BY <2>1, StateAwaiting
<1>6. /\ a \in Aircraft /\ a.state = "AC_AIRBORNE_OUT"
      /\ a.go_arounds = flights[f].go_arounds /\ a.total_wait = flights[f].total_wait
  BY <1>1 DEF Aircraft, AircraftState
<1> HIDE DEF a, n
<1>7. Alike(flights[f], a)
  BY <1>5, <1>6 DEF Alike, Afoot, Landed
<1>8. Accounted(fl, n, stats)
  BY <1>4, <1>5, <1>6, <1>7, AlikeAccounts
<1>9. Waiting(holding, {}, fl, n, "AC_HOLDING")
  BY <1>1, <1>5, StillQueued DEF n
<1> HIDE DEF fl
<1>10. Accounted(flights', n, stats')
  BY <1>3, <1>4, <1>8, <1>9, FreeRunwayAccounts
<1> QED BY <1>3, <1>10, AccountedNext DEF n

LEMMA GoAroundAccounts ==
  ASSUME TypeOK, AllTied, AccountsBalance, NEW f \in Flights, on_touchdown_go_around(f)
  PROVE  AccountsBalance'
<1> DEFINE b  == decay_fuel(flights[f])
           a  == [b EXCEPT !.force_go_around = FALSE, !.assigned_runway = None,
                           !.go_arounds = @ + 1, !.state = "AC_HOLDING",
                           !.queue_enter_time = now']
           fl == [flights EXCEPT ![f] = a]
           su == [stats EXCEPT !.go_arounds = @ + 1, !.score = @ - 3]
           ring == holding_push(holding, f)
           n  == flight_count
<1>1. /\ Dispatch("EVENT_TOUCHDOWN", f) /\ "EVENT_TOUCHDOWN" \in Movers
      /\ \E q : free_runway(b.assigned_runway, fl, ring, q, su)
      /\ flight_count' = flight_count
  BY MoverTypes, Zenon DEF on_touchdown_go_around
<1>2. /\ Accounted(flights, n, stats) /\ now' \in Nat /\ flights[f] \in Aircraft
      /\ flights \in [Flights -> Aircraft] /\ holding \in Seq(Flights)
      /\ stats \in SimStats
  BY <1>1, PoppedAccounts
<1>3. f < n /\ flights[f].state = "AC_LANDING" /\ ~ InRing(holding, f)
  <2>1. /\ flights[f].state \in AircraftState \ Gone /\ f < n /\ ~ InRing(holding, f)
        /\ Awaited[flights[f].state] = "EVENT_TOUCHDOWN"
    BY <1>1, Popped
  <2> QED BY <2>1, StateAwaiting
<1>4. /\ b \in Aircraft
      /\ b.go_arounds = flights[f].go_arounds /\ b.total_wait = flights[f].total_wait
  BY <1>2, DecayAlike, DecayType
<1> HIDE DEF b
<1>5. /\ a \in Aircraft /\ a.state = "AC_HOLDING"
      /\ a.go_arounds = flights[f].go_arounds + 1 /\ a.total_wait = flights[f].total_wait
  <2> DEFINE count == b.go_arounds + 1
  <2>1. count \in Nat /\ count = flights[f].go_arounds + 1
    BY <1>4 DEF Aircraft
  <2>2. a = [b EXCEPT !.force_go_around = FALSE, !.assigned_runway = None,
                      !.go_arounds = count, !.state = "AC_HOLDING",
                      !.queue_enter_time = now']
    BY <1>4 DEF Aircraft
  <2> HIDE DEF count, a
  <2> QED BY <1>2, <1>4, <2>1, <2>2 DEF Aircraft, AircraftState
<1>6. /\ su \in SimStats
      /\ su.flights_spawned = stats.flights_spawned
      /\ su.flights_landed = stats.flights_landed
      /\ su.flights_departed = stats.flights_departed
      /\ su.flights_lost = stats.flights_lost
      /\ su.flights_diverted = stats.flights_diverted
      /\ su.go_arounds = stats.go_arounds + 1
      /\ su.cumulative_wait = stats.cumulative_wait
      /\ su.emergencies = stats.emergencies /\ su.score = stats.score - 3
  <2>1. stats.go_arounds + 1 \in Nat /\ stats.score - 3 \in Int
    BY <1>2 DEF SimStats
  <2> QED BY <1>2, <2>1 DEF SimStats
<1>7. /\ Has(flights[f], Landed) = 0 /\ Has(a, Landed) = 0
      /\ Has(flights[f], {"AC_DONE"}) = 0 /\ Has(a, {"AC_DONE"}) = 0
      /\ Has(flights[f], {"AC_LOST"}) = 0 /\ Has(a, {"AC_LOST"}) = 0
      /\ Has(flights[f], {"AC_DIVERTED"}) = 0 /\ Has(a, {"AC_DIVERTED"}) = 0
      /\ Worth(a) = 0 /\ flights[f].state # "AC_DONE"
  BY <1>3, <1>5 DEF Has, Worth, Landed
<1> HIDE DEF a, su, n
<1>8. Paid(flights[f], a, stats, su)
  <2>1. flights[f].go_arounds \in Int /\ flights[f].total_wait \in Int
    BY <1>2, WholeNumbers
  <2>2. /\ stats.flights_landed \in Int /\ stats.flights_departed \in Int
        /\ stats.flights_lost \in Int /\ stats.flights_diverted \in Int
        /\ stats.go_arounds \in Int /\ stats.cumulative_wait \in Int
        /\ stats.emergencies \in Int /\ stats.score \in Int
    BY <1>2, WholeNumbers
  <2> QED BY <1>5, <1>6, <1>7, <2>1, <2>2 DEF Paid
<1>9. Accounted(fl, n, su)
  BY <1>2, <1>3, <1>5, <1>6, <1>7, <1>8, BalanceRecord
<1>10. fl[f] = a /\ OnlyBy(f, flights, fl)
  BY <1>2, <1>5, Replaced
<1>11. Waiting(ring, {}, fl, n, "AC_HOLDING") /\ ring \in Seq(Flights)
  <2>1. Waiting(holding, {f}, flights, n, "AC_HOLDING")
    BY <1>3, WaitingInHand DEF AllTied, Tied, RingsTied, n
  <2>2. n \in Nat /\ n <= MAX_FLIGHTS
    BY CountFits DEF n
  <2>3. Waiting(ring, {}, fl, n, "AC_HOLDING")
    BY <1>2, <1>3, <1>5, <1>10, <2>1, <2>2, WaitingPushed
  <2>4. ring \in Seq(Flights)
    BY PushRingType DEF TypeOK
  <2> QED BY <2>3, <2>4
<1> HIDE DEF fl, ring
<1>12. Accounted(flights', n, stats')
  BY <1>1, <1>2, <1>9, <1>11, FreeRunwayAccounts
<1> QED BY <1>1, <1>12, AccountedNext DEF n

\* Gates: a flight that is parked has paid for its wait on the taxiway.
LEMMA TaxiAccounts ==
  ASSUME TypeOK, AllTied, AccountsBalance, NEW f \in Flights, on_taxi_to_gate(f)
  PROVE  AccountsBalance'
<1> DEFINE n == flight_count
<1>1. /\ Dispatch("EVENT_TAXI_TO_GATE", f) /\ "EVENT_TAXI_TO_GATE" \in Movers
      /\ try_assign_gate(f, flights, gates, taxi_wait, Tail(pq))
      /\ flight_count' = flight_count
  BY MoverTypes DEF on_taxi_to_gate
<1>2. Accounted(flights, n, stats) /\ now' \in Nat
  BY <1>1, PoppedAccounts
<1>3. f < n /\ flights[f].state = "AC_TAXI_IN"
  <2>1. /\ flights[f].state \in AircraftState \ Gone /\ f < n
        /\ Awaited[flights[f].state] = "EVENT_TAXI_TO_GATE"
    BY <1>1, Popped
  <2> QED BY <2>1, StateAwaiting
<1>4. Accounted(flights', n, stats')
  BY <1>1, <1>2, <1>3, TryAssignGateAccounts
<1> QED BY <1>1, <1>4, AccountedNext

LEMMA GateReleaseAccounts ==
  ASSUME TypeOK, AllTied, AccountsBalance, NEW f \in Flights, on_gate_release(f)
  PROVE  AccountsBalance'
<1> DEFINE a   == [flights[f] EXCEPT !.assigned_gate = None, !.state = "AC_TAXI_OUT"]
           fl  == [flights EXCEPT ![f] = a]
           gts == [gates EXCEPT ![flights[f].assigned_gate] =
                      [state |-> "GATE_VACANT", occupant |-> None]]
           g   == Head(taxi_wait)
           n   == flight_count
<1>1. flights \in [Flights -> Aircraft] /\ flights[f] \in Aircraft /\ taxi_wait \in Seq(Flights)
  BY DEF TypeOK
<1>2. [flights EXCEPT ![f].assigned_gate = None, ![f].state = "AC_TAXI_OUT"] = fl
  BY <1>1
<1>3. /\ Dispatch("EVENT_GATE_RELEASE", f) /\ "EVENT_GATE_RELEASE" \in Movers
      /\ flight_count' = flight_count
      /\ \/ flights' = fl /\ UNCHANGED stats
         \/ /\ taxi_wait # <<>>
            /\ \E q : try_assign_gate(g, fl, gts, Tail(taxi_wait), q)
  <2> HIDE DEF fl, gts
  <2> QED BY <1>2, MoverTypes DEF on_gate_release, gts
<1>4. Accounted(flights, n, stats) /\ now' \in Nat
  BY <1>3, PoppedAccounts
<1>5. f < n /\ flights[f].state = "AC_AT_GATE" /\ ~ InRing(taxi_wait, f)
  <2>1. /\ flights[f].state \in AircraftState \ Gone /\ f < n /\ ~ InRing(taxi_wait, f)
        /\ Awaited[flights[f].state] = "EVENT_GATE_RELEASE"
    BY <1>3, Popped
  <2> QED BY <2>1, StateAwaiting
<1>6. /\ a \in Aircraft /\ a.state = "AC_TAXI_OUT"
      /\ a.go_arounds = flights[f].go_arounds /\ a.total_wait = flights[f].total_wait
  BY <1>1 DEF Aircraft, AircraftState
<1> HIDE DEF a, n
<1>7. Alike(flights[f], a)
  BY <1>5, <1>6 DEF Alike, Afoot, Landed
<1>8. Accounted(fl, n, stats)
  BY <1>4, <1>5, <1>6, <1>7, AlikeAccounts
<1>9. taxi_wait # <<>> => g \in Flights /\ g < n /\ fl[g].state = "AC_TAXI_IN"
  <2> SUFFICES ASSUME taxi_wait # <<>>
               PROVE  g \in Flights /\ g < n /\ fl[g].state = "AC_TAXI_IN"
    OBVIOUS
  <2>1. g = taxi_wait[1] /\ 1 \in DOMAIN taxi_wait
    BY <1>1, HeadTailProperties, LenProperties, EmptySeq
  <2>2. g \in 0 .. n-1 /\ flights[g].state = "AC_TAXI_IN"
    BY <2>1 DEF AllTied, Tied, RingsTied, Waiting, n
  <2>3. g \in Flights /\ n \in Nat
    BY <1>1, <2>1, ElementOfSeq, CountFits DEF n
  <2>4. g # f
    BY <1>5, <2>1 DEF InRing
  <2>5. fl[g] = flights[g]
    BY <1>1, <2>3, <2>4
  <2> QED BY <2>2, <2>3, <2>5
<1> HIDE DEF fl, g, gts
<1>10. ASSUME NEW q, taxi_wait # <<>>, try_assign_gate(g, fl, gts, Tail(taxi_wait), q)
       PROVE  Accounted(flights', n, stats')
  BY <1>4, <1>8, <1>9, <1>10, TryAssignGateAccounts
<1>11. Accounted(flights', n, stats')
  BY <1>3, <1>8, <1>10
<1> QED BY <1>3, <1>11, AccountedNext DEF n

\* A take-off pays for the wait since the last poll.
LEMMA TakeoffReadyAccounts ==
  ASSUME TypeOK, AllTied, AccountsBalance, NEW f \in Flights, on_takeoff_ready(f)
  PROVE  AccountsBalance'
<1> DEFINE a  == [flights[f] EXCEPT !.queue_enter_time = now']
           fl == [flights EXCEPT ![f] = a]
           w  == Waited(fl[f])
           b(rw) == [a EXCEPT !.assigned_runway = rw, !.state = "AC_DEPARTING",
                              !.total_wait = @ + w]
           n  == flight_count
<1>1. flights \in [Flights -> Aircraft] /\ flights[f] \in Aircraft
  BY DEF TypeOK
<1>2. fl = [flights EXCEPT ![f].queue_enter_time = now'] /\ fl[f] = a
  BY <1>1
<1>3. /\ Dispatch("EVENT_TAKEOFF_READY", f) /\ "EVENT_TAKEOFF_READY" \in Movers
      /\ flight_count' = flight_count
      /\ \/ \E rw \in find_idle_runway(runways) :
                /\ flights' = [fl EXCEPT ![f].assigned_runway = rw,
                                         ![f].state = "AC_DEPARTING",
                                         ![f].total_wait = @ + w]
                /\ stats' = record_wait(stats, w)
         \/ flights' = fl /\ UNCHANGED stats
  <2> HIDE DEF fl
  <2> QED BY <1>2, MoverTypes DEF on_takeoff_ready
<1>4. /\ Accounted(flights, n, stats) /\ now' \in Nat /\ stats \in SimStats
  BY <1>3, PoppedAccounts
<1>5. f < n /\ flights[f].state = "AC_TAXI_OUT"
  <2>1. /\ flights[f].state \in AircraftState \ Gone /\ f < n
        /\ Awaited[flights[f].state] = "EVENT_TAKEOFF_READY"
    BY <1>3, Popped
  <2> QED BY <2>1, StateAwaiting
<1>6. /\ a \in Aircraft /\ a.state = "AC_TAXI_OUT"
      /\ a.go_arounds = flights[f].go_arounds /\ a.total_wait = flights[f].total_wait
  BY <1>1, <1>4, <1>5 DEF Aircraft
<1> HIDE DEF a, n
<1>7. Alike(flights[f], a)
  BY <1>5, <1>6 DEF Alike, Afoot, Landed
<1>8. Accounted(fl, n, stats)
  BY <1>4, <1>5, <1>6, <1>7, AlikeAccounts
<1>9. w \in Nat
  BY <1>2, <1>4, <1>6, WaitedType
<1> HIDE DEF fl, w
<1>10. ASSUME NEW rw \in find_idle_runway(runways), stats' = record_wait(stats, w),
              flights' = [fl EXCEPT ![f].assigned_runway = rw,
                                    ![f].state = "AC_DEPARTING",
                                    ![f].total_wait = @ + w]
       PROVE  Accounted(flights', n, stats')
  <2>1. rw \in Runways
    BY DEF find_idle_runway
  <2>2. /\ b(rw) \in Aircraft /\ b(rw).state = "AC_DEPARTING"
        /\ b(rw).go_arounds = fl[f].go_arounds
        /\ b(rw).total_wait = fl[f].total_wait + w
    <3>1. a.total_wait + w \in Nat
      BY <1>6, <1>9 DEF Aircraft
    <3> QED BY <1>2, <1>6, <2>1, <3>1 DEF Aircraft, AircraftState
  <2>3. flights' = [fl EXCEPT ![f] = b(rw)]
    BY <1>2, <1>8, <1>10 DEF Accounted
  <2> HIDE DEF b
  <2>4. Alike(fl[f], b(rw))
    BY <1>2, <1>6, <2>2 DEF Alike, Afoot, Landed
  <2>5. stats' \in SimStats
    BY <1>4, <1>9, <1>10, RecordWaitType
  <2>6. fl[f] \in Aircraft /\ fl[f].state # "AC_DONE"
    BY <1>2, <1>6
  <2>7. Paid(fl[f], b(rw), stats, stats')
    BY <1>4, <1>9, <1>10, <2>2, <2>4, <2>6, WaitPaid
  <2> QED BY <1>5, <1>8, <2>2, <2>3, <2>5, <2>6, <2>7, BalanceRecord
<1>11. Accounted(flights', n, stats')
  BY <1>3, <1>8, <1>10
<1> QED BY <1>3, <1>11, AccountedNext DEF n

\* The last event of a flight earns its points.
LEMMA DepartAccounts ==
  ASSUME TypeOK, AllTied, AccountsBalance, NEW f \in Flights, on_depart_sector(f)
  PROVE  AccountsBalance'
<1> DEFINE b  == flights[f]
           a  == [b EXCEPT !.state = "AC_DONE"]
           quick == IF b.total_wait < LOW_DELAY THEN 5 ELSE 0
           clean == IF b.go_arounds = 0 /\ ~ b.emergency THEN 2 ELSE 0
           su == [stats EXCEPT !.flights_departed = @ + 1, !.score = @ + 10 + quick + clean]
           n  == flight_count
<1>1. flights \in [Flights -> Aircraft] /\ b \in Aircraft /\ stats \in SimStats
  BY DEF TypeOK
<1>2. /\ Dispatch("EVENT_DEPART_SECTOR", f) /\ "EVENT_DEPART_SECTOR" \in Movers
      /\ flights' = [flights EXCEPT ![f] = a] /\ stats' = su /\ flight_count' = flight_count
  BY <1>1, MoverTypes DEF on_depart_sector
<1>3. Accounted(flights, n, stats)
  BY <1>2, PoppedAccounts
<1>4. f < n /\ b.state = "AC_AIRBORNE_OUT"
  <2>1. /\ b.state \in AircraftState \ Gone /\ f < n
        /\ Awaited[b.state] = "EVENT_DEPART_SECTOR"
    BY <1>2, Popped
  <2> QED BY <2>1, StateAwaiting
<1>5. /\ a \in Aircraft /\ a.state = "AC_DONE" /\ a.go_arounds = b.go_arounds
      /\ a.total_wait = b.total_wait /\ a.emergency = b.emergency
  BY <1>1 DEF Aircraft, AircraftState
<1>6. quick \in Int /\ clean \in Int /\ Worth(a) = 10 + quick + clean
  BY <1>5 DEF Worth, Bonus
<1> HIDE DEF quick, clean
<1>7. /\ su \in SimStats
      /\ su.flights_spawned = stats.flights_spawned
      /\ su.flights_landed = stats.flights_landed
      /\ su.flights_departed = stats.flights_departed + 1
      /\ su.flights_lost = stats.flights_lost
      /\ su.flights_diverted = stats.flights_diverted
      /\ su.go_arounds = stats.go_arounds
      /\ su.cumulative_wait = stats.cumulative_wait
      /\ su.emergencies = stats.emergencies
      /\ su.score = stats.score + 10 + quick + clean
  <2>1. stats.flights_departed + 1 \in Nat /\ stats.score + 10 + quick + clean \in Int
    BY <1>1, <1>6 DEF SimStats
  <2> QED BY <1>1, <2>1 DEF SimStats
<1>8. /\ Has(b, Landed) = 1 /\ Has(a, Landed) = 1
      /\ Has(b, {"AC_DONE"}) = 0 /\ Has(a, {"AC_DONE"}) = 1
      /\ Has(b, {"AC_LOST"}) = 0 /\ Has(a, {"AC_LOST"}) = 0
      /\ Has(b, {"AC_DIVERTED"}) = 0 /\ Has(a, {"AC_DIVERTED"}) = 0
      /\ b.state # "AC_DONE"
  BY <1>4, <1>5 DEF Has, Landed
<1>9. /\ b.go_arounds \in Int /\ b.total_wait \in Int
      /\ stats.flights_landed \in Int /\ stats.flights_departed \in Int
      /\ stats.flights_lost \in Int /\ stats.flights_diverted \in Int
      /\ stats.go_arounds \in Int /\ stats.cumulative_wait \in Int
      /\ stats.emergencies \in Int /\ stats.score \in Int
  BY <1>1, WholeNumbers
<1> HIDE DEF a, su, n
<1>10. Paid(b, a, stats, su)
  BY <1>5, <1>6, <1>7, <1>8, <1>9 DEF Paid
<1>11. Accounted(flights', n, stats')
  BY <1>2, <1>3, <1>4, <1>5, <1>7, <1>8, <1>10, BalanceRecord
<1> QED BY <1>2, <1>11, AccountedNext DEF n

\* Commands.  A diverted flight costs 12, and its runway serves the next.
LEMMA DivertAccounts ==
  ASSUME TypeOK, AllTied, AccountsBalance, NEW f \in Flights, sim_cmd_divert(f)
  PROVE  AccountsBalance'
<1> DEFINE b  == flights[f]
           a  == [b EXCEPT !.assigned_runway = None, !.emergency = FALSE,
                           !.state = "AC_DIVERTED"]
           fl == [flights EXCEPT ![f] = a]
           su == [stats EXCEPT !.flights_diverted = @ + 1, !.score = @ - 12]
           n  == flight_count
<1>1. /\ flights \in [Flights -> Aircraft] /\ b \in Aircraft /\ stats \in SimStats
      /\ now \in Nat /\ n \in Nat /\ n <= MAX_FLIGHTS
  BY CountFits DEF TypeOK
<1>2. /\ f < n /\ b.state \in {"AC_INBOUND", "AC_HOLDING", "AC_LANDING"}
      /\ now' = now /\ flight_count' = flight_count
      /\ \/ \E rw : free_runway(rw, fl, Unqueued(f), pq, su)
         \/ flights' = fl /\ stats' = su
  BY Zenon DEF sim_cmd_divert, Commanded, Diverted, DivertedIn
<1>3. Accounted(flights, n, stats)
  BY AccountedNow
<1>4. /\ a \in Aircraft /\ a.state = "AC_DIVERTED" /\ a.go_arounds = b.go_arounds
      /\ a.total_wait = b.total_wait
  BY <1>1 DEF Aircraft, AircraftState
<1>5. /\ su \in SimStats
      /\ su.flights_spawned = stats.flights_spawned
      /\ su.flights_landed = stats.flights_landed
      /\ su.flights_departed = stats.flights_departed
      /\ su.flights_lost = stats.flights_lost
      /\ su.flights_diverted = stats.flights_diverted + 1
      /\ su.go_arounds = stats.go_arounds
      /\ su.cumulative_wait = stats.cumulative_wait
      /\ su.emergencies = stats.emergencies /\ su.score = stats.score - 12
  <2>1. stats.flights_diverted + 1 \in Nat /\ stats.score - 12 \in Int
    BY <1>1 DEF SimStats
  <2> QED BY <1>1, <2>1 DEF SimStats
<1>6. /\ Has(b, Landed) = 0 /\ Has(a, Landed) = 0
      /\ Has(b, {"AC_DONE"}) = 0 /\ Has(a, {"AC_DONE"}) = 0
      /\ Has(b, {"AC_LOST"}) = 0 /\ Has(a, {"AC_LOST"}) = 0
      /\ Has(b, {"AC_DIVERTED"}) = 0 /\ Has(a, {"AC_DIVERTED"}) = 1
      /\ Worth(a) = 0 /\ b.state # "AC_DONE" /\ b.state # "AC_TAXI_IN"
  BY <1>2, <1>4 DEF Has, Worth, Landed
<1>7. /\ b.go_arounds \in Int /\ b.total_wait \in Int
      /\ stats.flights_landed \in Int /\ stats.flights_departed \in Int
      /\ stats.flights_lost \in Int /\ stats.flights_diverted \in Int
      /\ stats.go_arounds \in Int /\ stats.cumulative_wait \in Int
      /\ stats.emergencies \in Int /\ stats.score \in Int
  BY <1>1, WholeNumbers
<1> HIDE DEF a, su
<1>8. Paid(b, a, stats, su)
  BY <1>4, <1>5, <1>6, <1>7 DEF Paid
<1>9. Accounted(fl, n, su)
  BY <1>2, <1>3, <1>4, <1>5, <1>6, <1>8, BalanceRecord
<1>10. Waiting(Unqueued(f), {}, fl, n, "AC_HOLDING") /\ Unqueued(f) \in Seq(Flights)
  <2>1. OnlyBy(f, flights, fl)
    BY <1>1, Replaced
  <2>2. Waiting(Unqueued(f), {f}, flights, n, "AC_HOLDING")
    BY <1>6, UnqueuedTies
  <2>3. ~ InRing(Unqueued(f), f)
    BY <2>2, HandNotWaiting
  <2>4. n <= n /\ {f} \in {{}, {f}}
    BY <1>1
  <2>5. Waiting(Unqueued(f), {}, fl, n, "AC_HOLDING")
    BY <1>1, <2>1, <2>2, <2>3, <2>4, WaitingQuiet
  <2>6. Unqueued(f) \in Seq(Flights)
    BY UnqueuedType DEF TypeOK
  <2> QED BY <2>5, <2>6
<1> HIDE DEF fl, n
<1>11. ASSUME NEW rw, free_runway(rw, fl, Unqueued(f), pq, su)
       PROVE  Accounted(flights', n, stats')
  <2>1. now' \in Nat
    BY <1>1, <1>2
  <2> QED BY <1>9, <1>10, <1>11, <2>1, FreeRunwayAccounts
<1>12. Accounted(flights', n, stats')
  BY <1>2, <1>9, <1>11
<1> QED BY <1>2, <1>12, AccountedNext DEF n

LEMMA PrioritizeAccounts ==
  ASSUME TypeOK, AllTied, AccountsBalance, NEW f \in Flights, sim_cmd_prioritize_holding(f)
  PROVE  AccountsBalance'
<1> DEFINE a  == [flights[f] EXCEPT !.user_priority = TRUE]
           fl == [flights EXCEPT ![f] = a]
           n  == flight_count
<1>1. /\ flights \in [Flights -> Aircraft] /\ flights[f] \in Aircraft /\ now \in Nat
  BY DEF TypeOK
<1>2. [flights EXCEPT ![f].user_priority = TRUE] = fl /\ fl[f] = a
  BY <1>1
<1>3. /\ f < n /\ flights[f].state = "AC_HOLDING" /\ now' = now
      /\ flight_count' = flight_count
      /\ \E ring : try_assign_landing(f, fl, runways, ring, pq, stats)
  <2> HIDE DEF fl
  <2> QED BY <1>2 DEF sim_cmd_prioritize_holding, Commanded
<1>4. Accounted(flights, n, stats) /\ now' \in Nat
  BY <1>1, <1>3, AccountedNow
<1>5. /\ a \in Aircraft /\ a.state = "AC_HOLDING"
      /\ a.go_arounds = flights[f].go_arounds /\ a.total_wait = flights[f].total_wait
  BY <1>1, <1>3 DEF Aircraft
<1> HIDE DEF a, n
<1>6. Alike(flights[f], a) /\ fl[f].state \in Aloft
  BY <1>2, <1>3, <1>5 DEF Alike, Aloft
<1>7. Accounted(fl, n, stats)
  BY <1>3, <1>4, <1>5, <1>6, AlikeAccounts
<1> HIDE DEF fl
<1>8. Accounted(flights', n, stats')
  BY <1>3, <1>4, <1>6, <1>7, TryAssignAccounts
<1> QED BY <1>3, <1>8, AccountedNext DEF n

\* The other commands set a flag.
LEMMA FlagAccounts ==
  ASSUME TypeOK, AccountsBalance, NEW f \in Flights,
         sim_cmd_prioritize_inbound(f) \/ sim_cmd_go_around(f)
  PROVE  AccountsBalance'
<1> DEFINE n == flight_count
<1>1. flights \in [Flights -> Aircraft] /\ flights[f] \in Aircraft
  BY DEF TypeOK
<1>2. /\ f < n /\ flights[f].state \in {"AC_INBOUND", "AC_LANDING"}
      /\ UNCHANGED <<flight_count, stats>>
      /\ \/ flights' = [flights EXCEPT ![f].user_priority = TRUE]
         \/ flights' = [flights EXCEPT ![f].force_go_around = TRUE]
  BY DEF sim_cmd_prioritize_inbound, sim_cmd_go_around, Commanded
<1>3. PICK a \in Aircraft :
          /\ flights' = [flights EXCEPT ![f] = a] /\ a.state = flights[f].state
          /\ a.go_arounds = flights[f].go_arounds /\ a.total_wait = flights[f].total_wait
  <2>1. CASE flights' = [flights EXCEPT ![f].user_priority = TRUE]
    <3> DEFINE a == [flights[f] EXCEPT !.user_priority = TRUE]
    <3>1. a \in Aircraft
      BY <1>1 DEF Aircraft
    <3> QED BY <1>1, <2>1, <3>1 DEF Aircraft
  <2>2. CASE flights' = [flights EXCEPT ![f].force_go_around = TRUE]
    <3> DEFINE a == [flights[f] EXCEPT !.force_go_around = TRUE]
    <3>1. a \in Aircraft
      BY <1>1 DEF Aircraft
    <3> QED BY <1>1, <2>2, <3>1 DEF Aircraft
  <2> QED BY <1>2, <2>1, <2>2
<1>4. Alike(flights[f], a)
  BY <1>2, <1>3 DEF Alike, Aloft
<1>5. Accounted(flights', n, stats)
  BY <1>2, <1>3, <1>4, AccountedNow, AlikeAccounts
<1> QED BY <1>2, <1>5, AccountedNext

\* A new flight has not waited, flown around or earned anything.
LEMMA SpawnAccounts ==
  ASSUME TypeOK, AccountsBalance, spawn_aircraft PROVE AccountsBalance'
<1> DEFINE n  == flight_count
           S  == 0 .. n-1
           su == [stats EXCEPT !.flights_spawned = @ + 1]
<1>1. /\ flights \in [Flights -> Aircraft] /\ stats \in SimStats
      /\ n \in Nat /\ MAX_FLIGHTS \in Nat
  BY CountFits, SizeAssumption DEF TypeOK, Positive
<1>2. /\ n < MAX_FLIGHTS /\ flight_count' = n + 1 /\ stats' = su
  BY DEF spawn_aircraft
<1>3. PICK fuel \in SpawnFuel, wake \in Wakes :
          flights' = [flights EXCEPT ![n] = [Blank EXCEPT !.fuel = fuel, !.wake = wake,
                                                          !.last_update = now']]
  BY DEF spawn_aircraft
<1> DEFINE a == [Blank EXCEPT !.fuel = fuel, !.wake = wake, !.last_update = now']
<1>4. a.state = "AC_INBOUND" /\ a.go_arounds = 0 /\ a.total_wait = 0
  BY DEF Blank
<1>5. TypeOK'
  BY SpawnType
<1>6. S \subseteq Flights /\ n \in Flights /\ n \notin S /\ 0 .. (n + 1) - 1 = S \cup {n}
  BY <1>1, <1>2 DEF Flights
<1>7. flights'[n] = a /\ \A g \in S : flights'[g] = flights[g]
  <2> HIDE DEF a
  <2> QED BY <1>1, <1>3, <1>6 DEF a
<1> HIDE DEF a
<1>8. IsFiniteSet(S)
  BY <1>1, FS_Interval
<1>9. \A states : "AC_INBOUND" \notin states
          => Among(flights', n + 1, states) = Among(flights, n, states)
  <2> HIDE DEF S
  <2> QED BY <1>4, <1>6, <1>7 DEF Among, S
<1>10. Earned(flights', n + 1) = Earned(flights, n)
  <2> DEFINE D == Among(flights, n, {"AC_DONE"})
  <2>1. Among(flights', n + 1, {"AC_DONE"}) = D
    BY <1>9
  <2>2. \A g \in D : flights'[g] = flights[g]
    BY <1>7 DEF Among
  <2> HIDE DEF D
  <2>3. [g \in D |-> 10 + Bonus(flights'[g])] = [g \in D |-> 10 + Bonus(flights[g])]
    BY <2>2
  <2> QED BY <2>1, <2>3 DEF Earned, D
<1>11. GoArounds(flights', n + 1) = GoArounds(flights, n)
  <2> DEFINE x == [g \in S |-> flights[g].go_arounds]
             y == [g \in S \cup {n} |-> flights'[g].go_arounds]
  <2>1. x \in [S -> Int]
    BY <1>1, <1>6 DEF Aircraft
  <2>2. y \in [S \cup {n} -> Int]
    BY <1>4, <1>7, <2>1
  <2>3. (\A g \in S : y[g] = x[g]) /\ y[n] = 0
    BY <1>4, <1>7
  <2>4. GoArounds(flights, n) = SumFunction(x) /\ GoArounds(flights', n + 1) = SumFunction(y)
    BY <1>6 DEF GoArounds
  <2> HIDE DEF S, x, y, n
  <2>5. SumFunction(x) \in Int /\ SumFunction(y) = SumFunction(x) + y[n]
    BY <1>6, <1>8, <2>1, <2>2, <2>3, SumAdds
  <2> QED BY <2>3, <2>4, <2>5
<1>12. Waits(flights', n + 1) = Waits(flights, n)
  <2> DEFINE x == [g \in S |-> flights[g].total_wait]
             y == [g \in S \cup {n} |-> flights'[g].total_wait]
  <2>1. x \in [S -> Int]
    BY <1>1, <1>6 DEF Aircraft
  <2>2. y \in [S \cup {n} -> Int]
    BY <1>4, <1>7, <2>1
  <2>3. (\A g \in S : y[g] = x[g]) /\ y[n] = 0
    BY <1>4, <1>7
  <2>4. Waits(flights, n) = SumFunction(x) /\ Waits(flights', n + 1) = SumFunction(y)
    BY <1>6 DEF Waits
  <2> HIDE DEF S, x, y, n
  <2>5. SumFunction(x) \in Int /\ SumFunction(y) = SumFunction(x) + y[n]
    BY <1>6, <1>8, <2>1, <2>2, <2>3, SumAdds
  <2> QED BY <2>3, <2>4, <2>5
<1>13. /\ su.flights_spawned = stats.flights_spawned + 1
       /\ su.flights_landed = stats.flights_landed
       /\ su.flights_departed = stats.flights_departed
       /\ su.flights_lost = stats.flights_lost
       /\ su.flights_diverted = stats.flights_diverted
       /\ su.go_arounds = stats.go_arounds
       /\ su.cumulative_wait = stats.cumulative_wait
       /\ su.emergencies = stats.emergencies /\ su.score = stats.score
  BY <1>1 DEF SimStats
<1> HIDE DEF su
<1>14. /\ Among(flights', n + 1, Landed) = Among(flights, n, Landed)
       /\ Among(flights', n + 1, {"AC_DONE"}) = Among(flights, n, {"AC_DONE"})
       /\ Among(flights', n + 1, {"AC_LOST"}) = Among(flights, n, {"AC_LOST"})
       /\ Among(flights', n + 1, {"AC_DIVERTED"}) = Among(flights, n, {"AC_DIVERTED"})
  BY <1>9 DEF Landed
<1>15. Balanced(flights, n, stats)
  BY BalancedNow
<1>16. Balanced(flights', n + 1, su)
  BY <1>10, <1>11, <1>12, <1>13, <1>14, <1>15 DEF Balanced
<1>17. Accounted(flights', flight_count', stats')
  BY <1>2, <1>5, <1>16 DEF Accounted, TypeOK
<1> QED BY <1>17, AccountedNext

\* The other steps leave flights and counters alone.
LEMMA IdleAccounts ==
  ASSUME AccountsBalance, UNCHANGED <<flights, flight_count, stats>>
  PROVE  AccountsBalance'
BY DEF AccountsBalance, Flown, InUse

LEMMA InitAccounts == Init => AccountsBalance
<1> SUFFICES ASSUME Init PROVE AccountsBalance
  OBVIOUS
<1>1. flight_count = 0 /\ 0 .. 0 - 1 = {}
  BY DEF Init
<1>2. /\ stats.flights_spawned = 0 /\ stats.flights_landed = 0
      /\ stats.flights_departed = 0 /\ stats.flights_lost = 0
      /\ stats.flights_diverted = 0 /\ stats.emergencies = 0
      /\ stats.go_arounds = 0 /\ stats.cumulative_wait = 0 /\ stats.score = 0
  BY DEF Init
<1>3. \A states : Among(flights, 0, states) = {}
  BY <1>1 DEF Among
<1>4. Cardinality({}) = 0
  BY FS_EmptySet
<1>5. /\ GoArounds(flights, 0) = 0 /\ Waits(flights, 0) = 0 /\ Earned(flights, 0) = 0
  <2> DEFINE x == [g \in 0 .. 0 - 1 |-> flights[g].go_arounds]
             y == [g \in 0 .. 0 - 1 |-> flights[g].total_wait]
             z == [g \in Among(flights, 0, {"AC_DONE"}) |-> 10 + Bonus(flights[g])]
  <2>1. DOMAIN x = {} /\ DOMAIN y = {} /\ DOMAIN z = {}
    BY <1>1, <1>3
  <2>2. /\ GoArounds(flights, 0) = SumFunction(x) /\ Waits(flights, 0) = SumFunction(y)
        /\ Earned(flights, 0) = SumFunction(z)
    BY DEF GoArounds, Waits, Earned
  <2> HIDE DEF x, y, z
  <2> QED BY <2>1, <2>2, SumEmpty
<1>6. \A states : Cardinality(Among(flights, 0, states)) = 0
  BY <1>3, <1>4, Zenon
<1>7. stats.score = Earned(flights, 0) - 6 * stats.emergencies - 50 * stats.flights_lost
                    - 3 * stats.go_arounds - 12 * stats.flights_diverted
  <2> DEFINE e == Earned(flights, 0)
  <2>1. e = 0
    BY <1>5
  <2> HIDE DEF e
  <2>2. 0 = e - 6 * 0 - 50 * 0 - 3 * 0 - 12 * 0
    BY <2>1
  <2> QED BY <2>2, <1>2 DEF e
<1>8. /\ stats.flights_landed = Cardinality(Among(flights, 0, Landed))
      /\ stats.flights_departed = Cardinality(Among(flights, 0, {"AC_DONE"}))
      /\ stats.flights_lost = Cardinality(Among(flights, 0, {"AC_LOST"}))
      /\ stats.flights_diverted = Cardinality(Among(flights, 0, {"AC_DIVERTED"}))
  BY <1>2, <1>6, Zenon
<1>9. Balanced(flights, 0, stats)
  BY <1>2, <1>5, <1>7, <1>8, Zenon DEF Balanced
<1>10. Balanced(flights, flight_count, stats)
  BY <1>1, <1>9, Zenon
<1> QED BY <1>10, BalancedNow

LEMMA AccountsStep ==
  TypeOK /\ AllTied /\ AccountsBalance /\ [Next]_vars => AccountsBalance'
<1> SUFFICES ASSUME TypeOK, AllTied, AccountsBalance, [Next]_vars PROVE AccountsBalance'
  OBVIOUS
<1>1. CASE sim_step
  <2>1. CASE queue_exhausted \/ drop_stale \/ spawn_aircraft_table_full \/ on_weather_change
    <3>1. UNCHANGED <<flights, flight_count, stats>>
      BY <2>1 DEF queue_exhausted, drop_stale, spawn_aircraft_table_full,
                  on_weather_change, vars
    <3> QED BY <3>1, IdleAccounts
  <2>2. CASE spawn_aircraft
    BY <2>2, SpawnAccounts
  <2>3. ASSUME NEW f \in Flights,
               \/ on_runway_request(f)
               \/ on_emergency_moved_on(f)
               \/ on_emergency_lost(f)
               \/ on_emergency(f)
               \/ on_touchdown_go_around(f)
               \/ on_touchdown(f)
               \/ on_taxi_to_gate(f)
               \/ on_gate_release(f)
               \/ on_takeoff_ready(f)
               \/ on_takeoff_clear(f)
               \/ on_depart_sector(f)
        PROVE  AccountsBalance'
    BY <2>3, RequestAccounts, MovedOnAccounts, LostAccounts, EmergencyAccounts,
       GoAroundAccounts, TouchdownAccounts, TaxiAccounts, GateReleaseAccounts,
       TakeoffReadyAccounts, TakeoffClearAccounts, DepartAccounts
  <2> QED BY <1>1, <2>1, <2>2, <2>3 DEF sim_step
<1>2. CASE Command
  BY <1>2, FlagAccounts, PrioritizeAccounts, DivertAccounts DEF Command
<1>3. CASE AdvanceClock \/ UNCHANGED vars
  <2>1. UNCHANGED <<flights, flight_count, stats>>
    BY <1>3 DEF AdvanceClock, vars
  <2> QED BY <2>1, IdleAccounts
<1> QED BY <1>1, <1>2, <1>3 DEF Next

\* The dashboard's counters always agree with the flights they count, whatever
\* the controller orders: on_touchdown counts a landing exactly when it clears
\* the flight's runway, record_wait and the flight's own total_wait grow
\* together in every helper, and each step of the score is taken once.
THEOREM AccountsStayBalanced == Spec => []AccountsBalance
<1>1. TypeOK /\ AllTied /\ AccountsBalance /\ [Next]_vars => AccountsBalance'
  BY AccountsStep
<1> QED BY InitAccounts, TypeCorrect, AlwaysTied, <1>1, PTL DEF Spec

=============================================================================

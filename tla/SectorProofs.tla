---------------------------- MODULE SectorProofs ----------------------------
(***************************************************************************)
(* Theorems about the simulation core, for every size of the tables, every *)
(* number of runways and gates and every tuning of the constants.  First   *)
(* the types; then the time, which never runs past an event: the queue     *)
(* stays in the order in which its events are due and none of them lies    *)
(* behind the clock.                                                       *)
(*                                                                         *)
(* Then flights, what they hold and what is pending for them.  One part    *)
(* proves that nothing stays idle while a flight waits for it; the next    *)
(* proves the invariant AllTied, which ties every flight to its runway,    *)
(* its gate, its place in a ring and its pending events.                   *)
(* None of these is inductive alone: that a touchdown finds a runway to    *)
(* release follows from the events pending, that a flight taken from the   *)
(* ring has no runway from the states, that a pending event finds its      *)
(* flight in the state that awaits it from all of them.  The lemmas follow *)
(* the helpers of the code: each takes a flight "in hand", tied to nothing,*)
(* and puts it down.  The last part derives the properties of module       *)
(* SectorProperties from it.                                               *)
(***************************************************************************)
EXTENDS SectorProperties, CountingLemmas, TLAPS, FiniteSetTheorems, SequenceTheorems

-----------------------------------------------------------------------------
(* The helpers on sequences.                                               *)

\* Inserting and deleting at a position keep the type of a sequence.
LEMMA InsertAtType ==
  ASSUME NEW S, NEW s \in Seq(S), NEW i \in 1 .. Len(s) + 1, NEW e \in S
  PROVE  /\ InsertAt(s, i, e) \in Seq(S)
         /\ Len(InsertAt(s, i, e)) = Len(s) + 1
         /\ \A k \in 1 .. Len(s) + 1 :
                /\ k < i => InsertAt(s, i, e)[k] = s[k]
                /\ k = i => InsertAt(s, i, e)[k] = e
                /\ k > i => InsertAt(s, i, e)[k] = s[k - 1]
<1> DEFINE r == InsertAt(s, i, e)
<1>1. r = SubSeq(s, 1, i - 1) \o <<e>> \o SubSeq(s, i, Len(s))
  BY DEF InsertAt
<1> HIDE DEF r
<1>2. /\ r \in Seq(S) /\ Len(r) = Len(s) + 1
      /\ \A k \in 1 .. Len(s) + 1 : /\ k < i => r[k] = s[k]
                                    /\ k = i => r[k] = e
                                    /\ k > i => r[k] = s[k - 1]
  <2> DEFINE n == Len(s)
  <2>1. i \in 1 .. n + 1 /\ Len(s) = n
    OBVIOUS
  <2> HIDE DEF n
  <2>2. /\ r \in Seq(S) /\ Len(r) = n + 1
        /\ \A k \in 1 .. n + 1 : /\ k < i => r[k] = s[k]
                                 /\ k = i => r[k] = e
                                 /\ k > i => r[k] = s[k - 1]
    BY <1>1, <2>1, Insertion
  <2> QED BY <2>2 DEF n
<1> QED BY <1>2 DEF r

LEMMA RemoveAtType ==
  ASSUME NEW S, NEW s \in Seq(S), NEW i \in 1 .. Len(s)
  PROVE  /\ RemoveAt(s, i) \in Seq(S)
         /\ Len(RemoveAt(s, i)) = Len(s) - 1
<1> DEFINE front == SubSeq(s, 1, i-1)
           back  == SubSeq(s, i+1, Len(s))
<1>1. front \in Seq(S) /\ Len(front) = i - 1
  BY SubSeqProperties, ElementOfSeq
<1>2. back \in Seq(S) /\ Len(back) = Len(s) - i
  BY SubSeqProperties, ElementOfSeq
<1>3. RemoveAt(s, i) = front \o back
  BY DEF RemoveAt
<1> HIDE DEF front, back
<1>4. Len(s) \in Nat /\ i \in Int
  BY LenProperties
<1>5. Len(front) + Len(back) = Len(s) - 1
  BY <1>1, <1>2, <1>4
<1> QED BY <1>1, <1>2, <1>3, <1>5, ConcatProperties

\* A pushed event joins the queue and the queue keeps its type.
LEMMA PushType ==
  ASSUME NEW S, NEW q \in Seq(S), NEW e \in S
  PROVE  pq_push(q, e) \in Seq(S) /\ Len(pq_push(q, e)) = Len(q) + 1
<1> DEFINE T == {i \in DOMAIN q : ~ ev_less(e, q[i])}
<1>1. T \subseteq 1 .. Len(q)
  OBVIOUS
<1>2. Cardinality(T) \in Nat /\ Cardinality(T) <= Len(q)
  BY <1>1, Positions
<1>3. 1 + Cardinality(T) \in 1 .. Len(q) + 1
  BY <1>2
<1> QED BY <1>3, InsertAtType DEF pq_push

\* holding_remove leaves a ring of the same flights, no longer than before.
LEMMA RemoveType ==
  ASSUME NEW ring \in Seq(Flights), NEW f
  PROVE  /\ holding_remove(ring, f) \in Seq(Flights)
         /\ Len(holding_remove(ring, f)) <= Len(ring)
<1> DEFINE keep == {i \in DOMAIN ring : ring[i] # f}
           slot(k) == CHOOSE i \in keep : Cardinality(keep \cap 1..i) = k
<1>1. keep \in SUBSET (1 .. Len(ring))
  OBVIOUS
<1>2. Cardinality(keep) \in Nat /\ Cardinality(keep) <= Len(ring)
  BY <1>1, Positions
<1>3. \A k \in 1 .. Cardinality(keep) : ring[slot(k)] \in Flights
  <2> SUFFICES ASSUME NEW k \in 1 .. Cardinality(keep)
               PROVE  ring[slot(k)] \in Flights
    OBVIOUS
  <2> HIDE DEF keep
  <2>1. \E i \in keep : Cardinality(keep \cap 1..i) = k
    <3>1. Len(ring) \in Nat
      OBVIOUS
    <3> QED BY <1>1, <3>1, Rank
  <2>2. (CHOOSE i \in keep : Cardinality(keep \cap 1..i) = k) \in keep
    BY <2>1, Zenon
  <2> QED BY <1>1, <2>2, ElementOfSeq
<1> DEFINE r == [k \in 1 .. Cardinality(keep) |-> ring[slot(k)]]
<1>4. r \in Seq(Flights) /\ Len(r) = Cardinality(keep)
  <2> DEFINE m == Cardinality(keep)
  <2>1. m \in Nat /\ r \in [1..m -> Flights]
    BY <1>2, <1>3
  <2> HIDE DEF m, r
  <2>2. r \in Seq(Flights)
    BY <2>1
  <2>3. Len(r) \in Nat /\ 1..Len(r) = 1..m
    BY <2>1, <2>2, LenProperties
  <2>4. Len(r) = m
    BY <2>1, <2>3
  <2> QED BY <2>2, <2>4 DEF m
<1>5. holding_remove(ring, f) = r
  BY DEF holding_remove
<1> QED BY <1>2, <1>4, <1>5

-----------------------------------------------------------------------------
(* Types of the helpers.                                                   *)

\* The parts of the state that the helpers of sim.c hand on half updated.
Parts(fl, rws, ring, q, st) ==
    /\ fl \in [Flights -> Aircraft]
    /\ rws \in [Runways -> Runway]
    /\ ring \in Seq(Flights) /\ Len(ring) <= MAX_HOLDING_SLOTS
    /\ q \in Seq(AtcEvent(Flights))
    /\ st \in SimStats

\* A delay leads to a later tick.
LEMMA Later ==
  ASSUME NEW t \in Nat, NEW d \in Nat PROVE t + d \in Nat
OBVIOUS

LEMMA ScheduleType ==
  ASSUME NEW q \in Seq(AtcEvent(Flights)), NEW f \in Flights,
         NEW type \in EventType, NEW time \in Nat,
         NEW weight \in PRIO_EMERGENCY .. PRIO_ROUTINE
  PROVE  schedule(q, f, type, time, weight) \in Seq(AtcEvent(Flights))
<1> DEFINE e == [flight |-> f, type |-> type, time |-> time, weight |-> weight]
<1>1. e \in AtcEvent(Flights)
  BY DEF AtcEvent
<1> HIDE DEF e
<1> QED BY <1>1, PushType DEF schedule, e

\* How long a flight occupies a runway is a number of ticks.
LEMMA OccupancyType ==
  ASSUME NEW base \in Nat, NEW wake \in Wake, weather \in Weather
  PROVE  Occupancy(base, wake) \in Nat
<1>1. wake_factor[wake] \in Nat
  BY DEF wake_factor, Wake
<1>2. weather_runway_factor[weather] \in Nat
  BY DEF weather_runway_factor, Weather
<1>3. base * wake_factor[wake] * weather_runway_factor[weather] \in Nat
  BY <1>1, <1>2
<1> QED BY <1>3 DEF Occupancy

LEMMA WeightType ==
  ASSUME NEW a PROVE LandingWeight(a) \in PRIO_EMERGENCY .. PRIO_ROUTINE
BY DEF LandingWeight, PRIO_EMERGENCY, PRIO_LANDING, PRIO_ROUTINE

LEMMA DecayType ==
  ASSUME NEW a \in Aircraft, now' \in Nat
  PROVE  decay_fuel(a) \in Aircraft
<1> DEFINE burnt == FUEL_BURN_RATE * (now' - a.last_update)
           left  == IF burnt < a.fuel THEN a.fuel - burnt ELSE 0
<1>1. CASE now' > a.last_update
  <2>1. a.last_update \in Nat /\ a.fuel \in Nat
    BY DEF Aircraft
  <2>2. now' - a.last_update \in Nat
    BY <1>1, <2>1
  <2>3. burnt \in Nat
    BY <2>2, FuelAssumption DEF Positive
  <2>4. left \in Nat
    BY <2>1, <2>3
  <2>5. decay_fuel(a) = [a EXCEPT !.fuel = left, !.last_update = now']
    BY <1>1 DEF decay_fuel
  <2> HIDE DEF left
  <2> QED BY <2>4, <2>5 DEF Aircraft
<1>2. CASE ~ (now' > a.last_update)
  BY <1>2 DEF decay_fuel
<1> QED BY <1>1, <1>2

LEMMA WaitedType ==
  ASSUME NEW a \in Aircraft, now' \in Nat
  PROVE  Waited(a) \in Nat
BY DEF Waited, Aircraft

LEMMA RecordWaitType ==
  ASSUME NEW st \in SimStats, NEW w \in Nat
  PROVE  record_wait(st, w) \in SimStats
<1> DEFINE sum     == st.cumulative_wait + w
           longest == IF w > st.max_wait THEN w ELSE st.max_wait
           count   == st.wait_samples + 1
<1>1. sum \in Nat /\ longest \in Nat /\ count \in Nat
  BY DEF SimStats
<1>2. record_wait(st, w) = [st EXCEPT !.cumulative_wait = sum,
                                      !.max_wait = longest,
                                      !.wait_samples = count]
  BY DEF record_wait, SimStats
<1> HIDE DEF sum, longest, count
<1> QED BY <1>1, <1>2 DEF SimStats

LEMMA PushRingType ==
  ASSUME NEW ring \in Seq(Flights), Len(ring) <= MAX_HOLDING_SLOTS,
         NEW f \in Flights
  PROVE  /\ holding_push(ring, f) \in Seq(Flights)
         /\ Len(holding_push(ring, f)) <= MAX_HOLDING_SLOTS
BY SizeAssumption, AppendProperties DEF holding_push, Positive

LEMMA CheckFuelType ==
  ASSUME NEW q \in Seq(AtcEvent(Flights)), NEW f \in Flights, NEW a,
         NEW delay \in Nat, now' \in Nat
  PROVE  CheckFuelAfter(q, f, a, delay) \in Seq(AtcEvent(Flights))
<1>1. now' + delay \in Nat
  BY Later
<1>2. "EVENT_EMERGENCY_FUEL" \in EventType
  BY DEF EventType
<1>3. LandingWeight(a) \in PRIO_EMERGENCY .. PRIO_ROUTINE
  BY WeightType
<1> QED BY <1>1, <1>2, <1>3, ScheduleType DEF CheckFuelAfter

LEMMA ClearToLandType ==
  ASSUME NEW f \in Flights, NEW rw \in Runways, NEW fl, NEW rws, NEW ring,
         NEW q, NEW st, NEW weight \in PRIO_EMERGENCY .. PRIO_ROUTINE,
         Parts(fl, rws, ring, q, st), now' \in Nat, weather \in Weather,
         ClearToLand(f, rw, fl, rws, ring, q, st, weight)
  PROVE  Parts(flights', runways', holding', pq', stats')
<1> DEFINE w == Waited(fl[f])
<1>1. fl[f] \in Aircraft
  BY DEF Parts
<1>2. w \in Nat
  BY <1>1, WaitedType
<1> HIDE DEF w
<1>3. flights' \in [Flights -> Aircraft]
  <2> DEFINE total == fl[f].total_wait + w
             a == [fl[f] EXCEPT !.assigned_runway = rw, !.state = "AC_LANDING",
                                !.total_wait = total]
  <2>1. total \in Nat
    BY <1>1, <1>2 DEF Aircraft
  <2>2. flights' = [fl EXCEPT ![f] = a]
    BY DEF ClearToLand, w, Parts
  <2> HIDE DEF total
  <2>3. a \in Aircraft
    BY <1>1, <2>1 DEF Aircraft, AircraftState
  <2> HIDE DEF a
  <2> QED BY <2>2, <2>3 DEF Parts
<1>4. runways' \in [Runways -> Runway]
  BY DEF ClearToLand, Parts, Runway
<1>5. stats' \in SimStats
  BY <1>2, RecordWaitType DEF ClearToLand, Parts, w
<1>6. pq' \in Seq(AtcEvent(Flights))
  <2>1. Occupancy(RUNWAY_LANDING_T, fl[f].wake) \in Nat
    BY <1>1, OccupancyType, TimeAssumption DEF Aircraft, Positive
  <2>2. now' + Occupancy(RUNWAY_LANDING_T, fl[f].wake) \in Nat
    BY <2>1
  <2>3. "EVENT_TOUCHDOWN" \in EventType
    BY DEF EventType
  <2> QED BY <2>2, <2>3, ScheduleType DEF ClearToLand, Parts
<1> QED BY <1>3, <1>4, <1>5, <1>6 DEF ClearToLand, Parts

LEMMA EnterHoldingType ==
  ASSUME NEW f \in Flights, NEW fl, NEW rws, NEW ring, NEW q, NEW st,
         NEW delay \in Nat, Parts(fl, rws, ring, q, st), now' \in Nat,
         EnterHolding(f, fl, rws, ring, q, st, delay)
  PROVE  Parts(flights', runways', holding', pq', stats')
<1>1. flights' \in [Flights -> Aircraft]
  <2>1. fl[f] \in Aircraft
    BY DEF Parts
  <2> DEFINE a == [fl[f] EXCEPT !.state = "AC_HOLDING"]
  <2>2. a \in Aircraft
    BY <2>1 DEF Aircraft, AircraftState
  <2>3. flights' = [fl EXCEPT ![f] = a]
    BY DEF EnterHolding, Parts
  <2> HIDE DEF a
  <2> QED BY <2>2, <2>3 DEF Parts
<1>2. holding' \in Seq(Flights) /\ Len(holding') <= MAX_HOLDING_SLOTS
  BY PushRingType DEF EnterHolding, Parts
<1>3. pq' \in Seq(AtcEvent(Flights))
  BY CheckFuelType DEF EnterHolding, Parts
<1> QED BY <1>1, <1>2, <1>3 DEF EnterHolding, Parts

LEMMA TryAssignLandingType ==
  ASSUME NEW f \in Flights, NEW fl, NEW rws, NEW ring, NEW q, NEW st,
         Parts(fl, rws, ring, q, st), now' \in Nat, weather \in Weather,
         try_assign_landing(f, fl, rws, ring, q, st)
  PROVE  Parts(flights', runways', holding', pq', stats')
<1>1. CASE \E rw \in find_idle_runway(rws) :
             ClearToLand(f, rw, fl, rws, ring, q, st, LandingWeight(fl[f]))
  <2>1. PICK rw \in find_idle_runway(rws) :
             ClearToLand(f, rw, fl, rws, ring, q, st, LandingWeight(fl[f]))
    BY <1>1
  <2>2. rw \in Runways
    BY DEF find_idle_runway
  <2>3. LandingWeight(fl[f]) \in PRIO_EMERGENCY .. PRIO_ROUTINE
    BY WeightType
  <2> QED BY <2>1, <2>2, <2>3, ClearToLandType
<1>2. CASE EnterHolding(f, fl, rws, ring, q, st, HOLD_RECHECK)
  <2>1. HOLD_RECHECK \in Nat
    BY TimeAssumption DEF Positive
  <2> QED BY <1>2, <2>1, EnterHoldingType
<1> QED BY <1>1, <1>2 DEF try_assign_landing

LEMMA FreeRunwayType ==
  ASSUME NEW rw, NEW fl, NEW ring, NEW q, NEW st,
         Parts(fl, runways, ring, q, st), now' \in Nat, weather \in Weather,
         free_runway(rw, fl, ring, q, st)
  PROVE  Parts(flights', runways', holding', pq', stats')
<1> DEFINE free == [state |-> "RW_IDLE", occupant |-> None]
           rws  == [runways EXCEPT ![rw] = free]
<1>1. Parts(fl, rws, ring, q, st)
  <2>1. free \in Runway
    BY DEF Runway
  <2> HIDE DEF free
  <2> QED BY <2>1 DEF Parts
<1> HIDE DEF rws
<1>2. CASE /\ ring = <<>> /\ flights' = fl /\ runways' = rws
           /\ holding' = ring /\ pq' = q /\ stats' = st
  BY <1>1, <1>2 DEF Parts
<1>3. CASE \E k \in holding_pop_priority(ring, fl) :
             try_assign_landing(ring[k], fl, rws, RemoveAt(ring, k), q, st)
  <2>1. PICK k \in holding_pop_priority(ring, fl) :
             try_assign_landing(ring[k], fl, rws, RemoveAt(ring, k), q, st)
    BY <1>3
  <2>2. k \in DOMAIN ring
    BY DEF holding_pop_priority
  <2>3. ring \in Seq(Flights) /\ Len(ring) <= MAX_HOLDING_SLOTS
    BY <1>1 DEF Parts
  <2>4. k \in 1 .. Len(ring) /\ ring[k] \in Flights
    BY <2>2, <2>3, ElementOfSeq
  <2>5. /\ RemoveAt(ring, k) \in Seq(Flights)
        /\ Len(RemoveAt(ring, k)) <= MAX_HOLDING_SLOTS
    BY <2>3, <2>4, RemoveAtType, SizeAssumption DEF Positive
  <2>6. Parts(fl, rws, RemoveAt(ring, k), q, st)
    BY <1>1, <2>5 DEF Parts
  <2> QED BY <2>1, <2>4, <2>6, TryAssignLandingType
<1> QED BY <1>2, <1>3 DEF free_runway, rws

-----------------------------------------------------------------------------
(* Type correctness, one lemma for each kind of step.                      *)

LEMMA InitType == Init => TypeOK
<1> SUFFICES ASSUME Init PROVE TypeOK
  OBVIOUS
<1>1. now \in Nat
  BY DEF Init
<1>2. pq \in Seq(AtcEvent(Flights))
  <2>1. PICK gap \in ArrivalGaps, wgap \in WeatherGaps :
             pq = schedule_weather(schedule(<<>>, 0, "EVENT_AIRCRAFT_ARRIVE",
                                            gap, PRIO_ROUTINE), 0, wgap)
    BY DEF Init
  <2> DEFINE q == schedule(<<>>, 0, "EVENT_AIRCRAFT_ARRIVE", gap, PRIO_ROUTINE)
  <2>2. gap \in Nat /\ 0 + wgap \in Nat
    BY TimeAssumption DEF Positive
  <2>3. 0 \in Flights
    BY SizeAssumption DEF Flights, Positive
  <2>4. "EVENT_AIRCRAFT_ARRIVE" \in EventType /\ "EVENT_WEATHER_CHANGE" \in EventType
    BY DEF EventType
  <2>5. PRIO_ROUTINE \in PRIO_EMERGENCY .. PRIO_ROUTINE
    BY DEF PRIO_EMERGENCY, PRIO_ROUTINE
  <2>6. <<>> \in Seq(AtcEvent(Flights))
    OBVIOUS
  <2>7. q \in Seq(AtcEvent(Flights))
    BY <2>2, <2>3, <2>4, <2>5, <2>6, ScheduleType
  <2> HIDE DEF q
  <2>8. schedule_weather(q, 0, wgap) \in Seq(AtcEvent(Flights))
    BY <2>2, <2>3, <2>4, <2>5, <2>7, ScheduleType DEF schedule_weather
  <2> QED BY <2>1, <2>8 DEF q
<1>3. flights \in [Flights -> Aircraft]
  <2>1. Blank \in Aircraft
    BY DEF Blank, Aircraft, AircraftState, Wake
  <2> QED BY <2>1 DEF Init
<1>4. flight_count \in 0 .. MAX_FLIGHTS
  BY SizeAssumption DEF Init, Positive
<1>5. runways \in [Runways -> Runway] /\ gates \in [Gates -> Gate]
  BY DEF Init, Runway, Gate
<1>6. holding \in Seq(Flights) /\ Len(holding) <= MAX_HOLDING_SLOTS
  BY SizeAssumption DEF Init, Positive
<1>7. taxi_wait \in Seq(Flights) /\ Len(taxi_wait) <= MAX_TAXI_SLOTS
  BY SizeAssumption DEF Init, Positive
<1>8. weather \in Weather /\ spawning_done \in BOOLEAN
  BY DEF Init, Weather
<1>9. stats \in SimStats
  BY DEF Init, SimStats
<1> QED BY <1>1, <1>2, <1>3, <1>4, <1>5, <1>6, <1>7, <1>8, <1>9 DEF TypeOK

\* The queue without its first event, and that event.
LEMMA PopType ==
  ASSUME TypeOK, pq # <<>>
  PROVE  /\ Tail(pq) \in Seq(AtcEvent(Flights))
         /\ Head(pq) \in AtcEvent(Flights)
         /\ Head(pq).time \in Nat
         /\ Head(pq).flight \in Flights
<1>1. pq \in Seq(AtcEvent(Flights))
  BY DEF TypeOK
<1>2. Tail(pq) \in Seq(AtcEvent(Flights)) /\ Head(pq) \in AtcEvent(Flights)
  BY <1>1, HeadTailProperties
<1> QED BY <1>2 DEF AtcEvent

\* The parts of the state as a handler finds them.
LEMMA PoppedParts ==
  ASSUME TypeOK, pq # <<>>, now' = Head(pq).time
  PROVE  /\ Parts(flights, runways, holding, Tail(pq), stats)
         /\ now' \in Nat
BY PopType DEF TypeOK, Parts

\* ... and as it leaves them.
LEMMA KeptType ==
  ASSUME TypeOK, now' \in Nat,
         Parts(flights', runways', holding', pq', stats'),
         UNCHANGED <<flight_count, gates, taxi_wait, weather, spawning_done>>
  PROVE  TypeOK'
BY DEF TypeOK, Parts

LEMMA DeclaredType ==
  ASSUME NEW st \in SimStats PROVE DeclaredIn(st) \in SimStats
<1> DEFINE count == st.emergencies + 1
           score == st.score - 6
<1>1. count \in Nat /\ score \in Int
  BY DEF SimStats
<1>2. DeclaredIn(st) = [st EXCEPT !.emergencies = count, !.score = score]
  BY DEF DeclaredIn, SimStats
<1> HIDE DEF count, score
<1> QED BY <1>1, <1>2 DEF SimStats

\* Steps that only take an event from the queue or add one.
LEMMA QueueStepType ==
  ASSUME TypeOK, now' \in Nat, pq' \in Seq(AtcEvent(Flights)),
         weather' \in Weather,
         UNCHANGED <<flights, flight_count, runways, gates, holding, taxi_wait,
                     spawning_done, stats>>
  PROVE  TypeOK'
BY DEF TypeOK

LEMMA DropType == ASSUME TypeOK, drop_stale PROVE TypeOK'
<1>1. pq' \in Seq(AtcEvent(Flights)) /\ now' \in Nat
  BY PopType DEF drop_stale
<1>2. weather' \in Weather
  BY DEF TypeOK, drop_stale
<1> QED BY <1>1, <1>2, QueueStepType DEF drop_stale

LEMMA TableFullType == ASSUME TypeOK, spawn_aircraft_table_full PROVE TypeOK'
<1>1. pq' \in Seq(AtcEvent(Flights)) /\ now' \in Nat
  BY PopType DEF spawn_aircraft_table_full, Pop
<1>2. weather' \in Weather
  BY DEF TypeOK, spawn_aircraft_table_full
<1> QED BY <1>1, <1>2, QueueStepType DEF spawn_aircraft_table_full

LEMMA WeatherType == ASSUME TypeOK, on_weather_change PROVE TypeOK'
<1>1. PICK gap \in WeatherGaps : pq' = schedule_weather(Tail(pq), now', gap)
  BY DEF on_weather_change
<1>2. Tail(pq) \in Seq(AtcEvent(Flights)) /\ now' \in Nat
  BY PopType DEF on_weather_change, Pop
<1>3. now' + gap \in Nat
  <2>1. gap \in Nat
    BY TimeAssumption DEF Positive
  <2> QED BY <1>2, <2>1, Later
<1>4. 0 \in Flights
  BY SizeAssumption DEF Flights, Positive
<1>5. "EVENT_WEATHER_CHANGE" \in EventType
  BY DEF EventType
<1>6. PRIO_ROUTINE \in PRIO_EMERGENCY .. PRIO_ROUTINE
  BY DEF PRIO_EMERGENCY, PRIO_ROUTINE
<1>7. pq' \in Seq(AtcEvent(Flights))
  BY <1>1, <1>2, <1>3, <1>4, <1>5, <1>6, ScheduleType DEF schedule_weather
<1>8. weather' \in Weather
  BY DrawAssumption DEF on_weather_change
<1> QED BY <1>2, <1>7, <1>8, QueueStepType DEF on_weather_change

LEMMA SpawnType == ASSUME TypeOK, spawn_aircraft PROVE TypeOK'
<1>1. Tail(pq) \in Seq(AtcEvent(Flights)) /\ now' \in Nat
  BY PopType DEF spawn_aircraft, Pop
<1>2. flight_count \in Flights /\ flight_count' \in 0 .. MAX_FLIGHTS
  BY SizeAssumption DEF TypeOK, spawn_aircraft, Flights, Positive
<1>3. flights' \in [Flights -> Aircraft]
  <2>1. PICK fuel \in SpawnFuel, wake \in Wakes :
             flights' = [flights EXCEPT ![flight_count] =
                            [Blank EXCEPT !.fuel = fuel, !.wake = wake,
                                          !.last_update = now']]
    BY DEF spawn_aircraft
  <2> DEFINE a == [Blank EXCEPT !.fuel = fuel, !.wake = wake,
                                !.last_update = now']
  <2>2. fuel \in Nat /\ wake \in Wake
    BY FuelAssumption, DrawAssumption
  <2>3. a \in Aircraft
    BY <1>1, <2>2 DEF Blank, Aircraft, AircraftState
  <2> HIDE DEF a
  <2> QED BY <2>1, <2>3 DEF TypeOK, a
<1>4. stats' \in SimStats
  <2> DEFINE count == stats.flights_spawned + 1
  <2>1. stats \in SimStats
    BY DEF TypeOK
  <2>2. count \in Nat
    BY <2>1 DEF SimStats
  <2>3. stats' = [stats EXCEPT !.flights_spawned = count]
    BY <2>1 DEF spawn_aircraft, SimStats
  <2> HIDE DEF count
  <2> QED BY <2>1, <2>2, <2>3 DEF SimStats
<1>5. pq' \in Seq(AtcEvent(Flights)) /\ spawning_done' \in BOOLEAN
  <2> DEFINE q == RequestRunway(Tail(pq), flight_count)
  <2>1. PICK gap \in ArrivalGaps :
             /\ spawning_done' = (spawning_done \/ now' + gap > horizon)
             /\ pq' = IF spawning_done' THEN q
                      ELSE schedule(q, 0, "EVENT_AIRCRAFT_ARRIVE", now' + gap,
                                    PRIO_ROUTINE)
    BY DEF spawn_aircraft
  <2>2. now' + gap \in Nat
    <3>1. gap \in Nat
      BY TimeAssumption DEF Positive
    <3> QED BY <1>1, <3>1, Later
  <2>3. 0 \in Flights
    BY SizeAssumption DEF Flights, Positive
  <2>4. "EVENT_AIRCRAFT_ARRIVE" \in EventType /\ "EVENT_RUNWAY_REQUEST" \in EventType
    BY DEF EventType
  <2>5. /\ PRIO_ROUTINE \in PRIO_EMERGENCY .. PRIO_ROUTINE
        /\ PRIO_LANDING \in PRIO_EMERGENCY .. PRIO_ROUTINE
    BY DEF PRIO_EMERGENCY, PRIO_ROUTINE, PRIO_LANDING
  <2>6. q \in Seq(AtcEvent(Flights))
    BY <1>1, <1>2, <2>4, <2>5, ScheduleType DEF RequestRunway
  <2> HIDE DEF q
  <2>7. pq' \in Seq(AtcEvent(Flights))
    BY <2>1, <2>2, <2>3, <2>4, <2>5, <2>6, ScheduleType
  <2>8. spawning_done' \in BOOLEAN
    BY <2>1, Zenon
  <2> QED BY <2>7, <2>8
<1> QED BY <1>1, <1>2, <1>3, <1>4, <1>5 DEF TypeOK, spawn_aircraft

LEMMA RequestType ==
  ASSUME TypeOK, NEW f \in Flights, on_runway_request(f) PROVE TypeOK'
<1> DEFINE a  == [decay_fuel(flights[f]) EXCEPT !.queue_enter_time = now']
           fl == [flights EXCEPT ![f] = a]
<1>1. /\ Parts(flights, runways, holding, Tail(pq), stats)
      /\ now' \in Nat
  BY PoppedParts DEF on_runway_request, Dispatch, Pop
<1>2. a \in Aircraft
  <2>1. decay_fuel(flights[f]) \in Aircraft
    BY <1>1, DecayType DEF Parts
  <2> QED BY <1>1, <2>1 DEF Aircraft
<1> HIDE DEF a
<1>3. Parts(fl, runways, holding, Tail(pq), stats)
  BY <1>1, <1>2 DEF Parts
<1>4. CASE /\ flights' = [fl EXCEPT ![f].emergency = TRUE]
           /\ stats' = DeclaredIn(stats)
           /\ pq' = schedule(Tail(pq), f, "EVENT_EMERGENCY_FUEL", now',
                             PRIO_EMERGENCY)
           /\ UNCHANGED <<runways, holding>>
  <2>1. flights' \in [Flights -> Aircraft]
    <3> DEFINE b == [a EXCEPT !.emergency = TRUE]
    <3>1. b \in Aircraft
      BY <1>2 DEF Aircraft
    <3>2. flights' = [flights EXCEPT ![f] = b]
      BY <1>1, <1>4 DEF Parts
    <3> HIDE DEF b
    <3> QED BY <1>1, <3>1, <3>2 DEF Parts
  <2>2. stats' \in SimStats
    BY <1>1, <1>4, DeclaredType DEF Parts
  <2>3. "EVENT_EMERGENCY_FUEL" \in EventType
    BY DEF EventType
  <2>4. PRIO_EMERGENCY \in PRIO_EMERGENCY .. PRIO_ROUTINE
    BY DEF PRIO_EMERGENCY, PRIO_ROUTINE
  <2>5. pq' \in Seq(AtcEvent(Flights))
    BY <1>1, <1>4, <2>3, <2>4, ScheduleType DEF Parts
  <2>6. Parts(flights', runways', holding', pq', stats')
    BY <1>1, <1>4, <2>1, <2>2, <2>5 DEF Parts
  <2> QED BY <1>1, <2>6, KeptType DEF on_runway_request
<1>5. CASE try_assign_landing(f, fl, runways, holding, Tail(pq), stats)
  <2>1. weather \in Weather
    BY DEF TypeOK
  <2> HIDE DEF fl
  <2>2. Parts(flights', runways', holding', pq', stats')
    BY <1>1, <1>3, <1>5, <2>1, TryAssignLandingType
  <2> QED BY <1>1, <2>2, KeptType DEF on_runway_request
<1> QED BY <1>4, <1>5 DEF on_runway_request, a

LEMMA UnqueuedType ==
  ASSUME TypeOK, NEW f \in Flights
  PROVE  Unqueued(f) \in Seq(Flights) /\ Len(Unqueued(f)) <= MAX_HOLDING_SLOTS
<1>1. holding \in Seq(Flights) /\ Len(holding) <= MAX_HOLDING_SLOTS
  BY DEF TypeOK
<1>2. /\ holding_remove(holding, f) \in Seq(Flights)
      /\ Len(holding_remove(holding, f)) <= Len(holding)
  BY <1>1, RemoveType
<1>3. Len(holding_remove(holding, f)) <= MAX_HOLDING_SLOTS
  BY <1>1, <1>2, SizeAssumption, LenProperties DEF Positive
<1> QED BY <1>1, <1>2, <1>3 DEF Unqueued

LEMMA MovedOnType ==
  ASSUME TypeOK, NEW f \in Flights, on_emergency_moved_on(f) PROVE TypeOK'
<1>1. /\ Parts(flights, runways, holding, Tail(pq), stats)
      /\ now' \in Nat
  BY PoppedParts DEF on_emergency_moved_on, Dispatch, Pop
<1>2. decay_fuel(flights[f]) \in Aircraft
  BY <1>1, DecayType DEF Parts
<1>3. flights' = [flights EXCEPT ![f] = decay_fuel(flights[f])]
  BY DEF on_emergency_moved_on
<1>4. Parts(flights', runways', holding', pq', stats')
  BY <1>1, <1>2, <1>3 DEF Parts, on_emergency_moved_on
<1> QED BY <1>1, <1>4, KeptType DEF on_emergency_moved_on

LEMMA LostType ==
  ASSUME TypeOK, NEW f \in Flights, on_emergency_lost(f) PROVE TypeOK'
<1>1. /\ Parts(flights, runways, holding, Tail(pq), stats)
      /\ now' \in Nat
  BY PoppedParts DEF on_emergency_lost, Dispatch, Pop
<1> DEFINE a == [decay_fuel(flights[f]) EXCEPT !.state = "AC_LOST"]
<1>2. a \in Aircraft
  <2>1. decay_fuel(flights[f]) \in Aircraft
    BY <1>1, DecayType DEF Parts
  <2> QED BY <2>1 DEF Aircraft, AircraftState
<1>3. flights' = [flights EXCEPT ![f] = a]
  BY DEF on_emergency_lost
<1> HIDE DEF a
<1>4. flights' \in [Flights -> Aircraft]
  BY <1>1, <1>2, <1>3 DEF Parts
<1>5. stats' \in SimStats
  <2> DEFINE count == stats.flights_lost + 1
             score == stats.score - 50
  <2>1. count \in Nat /\ score \in Int
    BY <1>1 DEF Parts, SimStats
  <2>2. stats' = [stats EXCEPT !.flights_lost = count, !.score = score]
    BY <1>1 DEF on_emergency_lost, Parts, SimStats
  <2> HIDE DEF count, score
  <2> QED BY <1>1, <2>1, <2>2 DEF Parts, SimStats
<1>6. holding' \in Seq(Flights) /\ Len(holding') <= MAX_HOLDING_SLOTS
  BY UnqueuedType DEF on_emergency_lost
<1>7. Parts(flights', runways', holding', pq', stats')
  BY <1>1, <1>4, <1>5, <1>6 DEF Parts, on_emergency_lost
<1> QED BY <1>1, <1>7, KeptType DEF on_emergency_lost

LEMMA EmergencyType ==
  ASSUME TypeOK, NEW f \in Flights, on_emergency(f) PROVE TypeOK'
<1> DEFINE a  == decay_fuel(flights[f])
           b  == [a EXCEPT !.emergency = @ \/ Declares(a)]
           fl == [flights EXCEPT ![f] = b]
           st == IF Declares(a) THEN DeclaredIn(stats) ELSE stats
<1>1. /\ Parts(flights, runways, holding, Tail(pq), stats)
      /\ now' \in Nat
  BY PoppedParts DEF on_emergency, Dispatch, Pop
<1>2. a \in Aircraft
  BY <1>1, DecayType DEF Parts
<1>3. b \in Aircraft
  <2> DEFINE declared == a.emergency \/ Declares(a)
  <2>1. declared \in BOOLEAN
    BY Zenon
  <2>2. b = [a EXCEPT !.emergency = declared]
    BY <1>2 DEF Aircraft
  <2> HIDE DEF declared, a
  <2> QED BY <1>2, <2>1, <2>2 DEF Aircraft
<1>4. st \in SimStats
  BY <1>1, DeclaredType DEF Parts
<1>5. Unqueued(f) \in Seq(Flights) /\ Len(Unqueued(f)) <= MAX_HOLDING_SLOTS
  BY UnqueuedType
<1>6. \/ \E rw \in find_idle_runway(runways) :
             ClearToLand(f, rw, fl, runways, Unqueued(f), Tail(pq), st,
                         PRIO_EMERGENCY)
      \/ /\ flights' = [fl EXCEPT ![f].state = "AC_HOLDING"]
         /\ holding' = IF a.state = "AC_INBOUND"
                       THEN holding_push(holding, f) ELSE holding
         /\ pq' = CheckFuelAfter(Tail(pq), f, fl[f], EMERGENCY_RECHECK)
         /\ stats' = st /\ UNCHANGED runways
  BY Zenon DEF on_emergency
<1> HIDE DEF a, st
<1>7. CASE \E rw \in find_idle_runway(runways) :
             ClearToLand(f, rw, fl, runways, Unqueued(f), Tail(pq), st,
                         PRIO_EMERGENCY)
  <2> HIDE DEF b
  <2>1. Parts(fl, runways, Unqueued(f), Tail(pq), st)
    BY <1>1, <1>3, <1>4, <1>5 DEF Parts
  <2> HIDE DEF fl
  <2>2. PICK rw \in find_idle_runway(runways) :
             ClearToLand(f, rw, fl, runways, Unqueued(f), Tail(pq), st,
                         PRIO_EMERGENCY)
    BY <1>7
  <2>3. rw \in Runways
    BY DEF find_idle_runway
  <2>4. PRIO_EMERGENCY \in PRIO_EMERGENCY .. PRIO_ROUTINE
    BY DEF PRIO_EMERGENCY, PRIO_ROUTINE
  <2>5. weather \in Weather
    BY DEF TypeOK
  <2>6. Parts(flights', runways', holding', pq', stats')
    BY <1>1, <2>1, <2>2, <2>3, <2>4, <2>5, ClearToLandType
  <2> QED BY <1>1, <2>6, KeptType DEF on_emergency
<1>8. CASE /\ flights' = [fl EXCEPT ![f].state = "AC_HOLDING"]
           /\ holding' = IF a.state = "AC_INBOUND"
                         THEN holding_push(holding, f) ELSE holding
           /\ pq' = CheckFuelAfter(Tail(pq), f, fl[f], EMERGENCY_RECHECK)
           /\ stats' = st /\ UNCHANGED runways
  <2> HIDE DEF b
  <2>1. flights' \in [Flights -> Aircraft]
    <3> DEFINE c == [b EXCEPT !.state = "AC_HOLDING"]
    <3>1. c \in Aircraft
      BY <1>3 DEF Aircraft, AircraftState
    <3>2. flights' = [flights EXCEPT ![f] = c]
      BY <1>1, <1>8 DEF Parts
    <3> HIDE DEF c
    <3> QED BY <1>1, <3>1, <3>2 DEF Parts
  <2>2. holding' \in Seq(Flights) /\ Len(holding') <= MAX_HOLDING_SLOTS
    BY <1>1, <1>8, PushRingType DEF Parts
  <2>3. pq' \in Seq(AtcEvent(Flights))
    <3>1. EMERGENCY_RECHECK \in Nat
      BY TimeAssumption DEF Positive
    <3> HIDE DEF fl
    <3> QED BY <1>1, <1>8, <3>1, CheckFuelType DEF Parts
  <2>4. Parts(flights', runways', holding', pq', stats')
    BY <1>1, <1>4, <1>8, <2>1, <2>2, <2>3 DEF Parts
  <2> QED BY <1>1, <2>4, KeptType DEF on_emergency
<1> QED BY <1>6, <1>7, <1>8

LEMMA GoAroundType ==
  ASSUME TypeOK, NEW f \in Flights, on_touchdown_go_around(f) PROVE TypeOK'
<1> DEFINE a  == decay_fuel(flights[f])
           b  == [a EXCEPT !.force_go_around = FALSE, !.assigned_runway = None,
                           !.go_arounds = @ + 1, !.state = "AC_HOLDING",
                           !.queue_enter_time = now']
           fl == [flights EXCEPT ![f] = b]
           st == [stats EXCEPT !.go_arounds = @ + 1, !.score = @ - 3]
           q  == CheckFuelAfter(Tail(pq), f, a, GO_AROUND_RECHECK)
           ring == holding_push(holding, f)
<1>1. /\ Parts(flights, runways, holding, Tail(pq), stats)
      /\ now' \in Nat /\ weather \in Weather
  BY PoppedParts DEF on_touchdown_go_around, Dispatch, Pop, TypeOK
<1>2. a \in Aircraft
  BY <1>1, DecayType DEF Parts
<1>3. free_runway(a.assigned_runway, fl, ring, q, st)
  BY DEF on_touchdown_go_around
<1> HIDE DEF a
<1>4. b \in Aircraft
  <2> DEFINE count == a.go_arounds + 1
  <2>1. count \in Nat
    BY <1>2 DEF Aircraft
  <2>2. b = [a EXCEPT !.force_go_around = FALSE, !.assigned_runway = None,
                      !.go_arounds = count, !.state = "AC_HOLDING",
                      !.queue_enter_time = now']
    BY <1>2 DEF Aircraft
  <2> HIDE DEF count
  <2> QED BY <1>1, <1>2, <2>1, <2>2 DEF Aircraft, AircraftState
<1>5. st \in SimStats
  <2> DEFINE count == stats.go_arounds + 1
             score == stats.score - 3
  <2>1. count \in Nat /\ score \in Int
    BY <1>1 DEF Parts, SimStats
  <2>2. st = [stats EXCEPT !.go_arounds = count, !.score = score]
    BY <1>1 DEF Parts, SimStats
  <2> HIDE DEF count, score, st
  <2> QED BY <1>1, <2>1, <2>2 DEF Parts, SimStats
<1>6. q \in Seq(AtcEvent(Flights))
  <2>1. GO_AROUND_RECHECK \in Nat
    BY TimeAssumption DEF Positive
  <2> QED BY <1>1, <2>1, CheckFuelType DEF Parts
<1>7. ring \in Seq(Flights) /\ Len(ring) <= MAX_HOLDING_SLOTS
  BY <1>1, PushRingType DEF Parts
<1> HIDE DEF b, st, q, ring
<1>8. Parts(fl, runways, ring, q, st)
  BY <1>1, <1>4, <1>5, <1>6, <1>7 DEF Parts
<1> HIDE DEF fl
<1>9. Parts(flights', runways', holding', pq', stats')
  BY <1>1, <1>3, <1>8, FreeRunwayType
<1> QED BY <1>1, <1>9, KeptType DEF on_touchdown_go_around

LEMMA TouchdownType ==
  ASSUME TypeOK, NEW f \in Flights, on_touchdown(f) PROVE TypeOK'
<1> DEFINE a  == decay_fuel(flights[f])
           b  == [a EXCEPT !.assigned_runway = None, !.state = "AC_TAXI_IN",
                           !.queue_enter_time = now']
           fl == [flights EXCEPT ![f] = b]
           st == [stats EXCEPT !.flights_landed = @ + 1]
           q  == schedule(Tail(pq), f, "EVENT_TAXI_TO_GATE",
                          now' + TAXI_DURATION, PRIO_ROUTINE)
<1>1. /\ Parts(flights, runways, holding, Tail(pq), stats)
      /\ now' \in Nat /\ weather \in Weather
  BY PoppedParts DEF on_touchdown, Dispatch, Pop, TypeOK
<1>2. a \in Aircraft
  BY <1>1, DecayType DEF Parts
<1>3. free_runway(a.assigned_runway, fl, holding, q, st)
  BY DEF on_touchdown
<1> HIDE DEF a
<1>4. b \in Aircraft
  BY <1>1, <1>2 DEF Aircraft, AircraftState
<1>5. st \in SimStats
  <2> DEFINE count == stats.flights_landed + 1
  <2>1. count \in Nat
    BY <1>1 DEF Parts, SimStats
  <2>2. st = [stats EXCEPT !.flights_landed = count]
    BY <1>1 DEF Parts, SimStats
  <2> HIDE DEF count, st
  <2> QED BY <1>1, <2>1, <2>2 DEF Parts, SimStats
<1>6. q \in Seq(AtcEvent(Flights))
  <2>1. TAXI_DURATION \in Nat
    BY TimeAssumption DEF Positive
  <2>2. now' + TAXI_DURATION \in Nat
    BY <1>1, <2>1, Later
  <2>3. "EVENT_TAXI_TO_GATE" \in EventType
    BY DEF EventType
  <2>4. PRIO_ROUTINE \in PRIO_EMERGENCY .. PRIO_ROUTINE
    BY DEF PRIO_EMERGENCY, PRIO_ROUTINE
  <2> QED BY <1>1, <2>2, <2>3, <2>4, ScheduleType DEF Parts
<1> HIDE DEF b, st, q
<1>7. Parts(fl, runways, holding, q, st)
  BY <1>1, <1>4, <1>5, <1>6 DEF Parts
<1> HIDE DEF fl
<1>8. Parts(flights', runways', holding', pq', stats')
  BY <1>1, <1>3, <1>7, FreeRunwayType
<1> QED BY <1>1, <1>8, KeptType DEF on_touchdown

LEMMA TakeoffClearType ==
  ASSUME TypeOK, NEW f \in Flights, on_takeoff_clear(f) PROVE TypeOK'
<1> DEFINE b  == [flights[f] EXCEPT !.assigned_runway = None,
                                    !.state = "AC_AIRBORNE_OUT"]
           fl == [flights EXCEPT ![f] = b]
           q  == schedule(Tail(pq), f, "EVENT_DEPART_SECTOR",
                          now' + RUNWAY_TAKEOFF_T, PRIO_ROUTINE)
<1>1. /\ Parts(flights, runways, holding, Tail(pq), stats)
      /\ now' \in Nat /\ weather \in Weather
  BY PoppedParts DEF on_takeoff_clear, Dispatch, Pop, TypeOK
<1>2. b \in Aircraft
  BY <1>1 DEF Aircraft, AircraftState, Parts
<1>3. free_runway(flights[f].assigned_runway, fl, holding, q, stats)
  <2>1. fl = [flights EXCEPT ![f].assigned_runway = None,
                             ![f].state = "AC_AIRBORNE_OUT"]
    BY <1>1 DEF Parts
  <2> QED BY <2>1, Zenon DEF on_takeoff_clear
<1>4. q \in Seq(AtcEvent(Flights))
  <2>1. RUNWAY_TAKEOFF_T \in Nat
    BY TimeAssumption DEF Positive
  <2>2. now' + RUNWAY_TAKEOFF_T \in Nat
    BY <1>1, <2>1, Later
  <2>3. "EVENT_DEPART_SECTOR" \in EventType
    BY DEF EventType
  <2>4. PRIO_ROUTINE \in PRIO_EMERGENCY .. PRIO_ROUTINE
    BY DEF PRIO_EMERGENCY, PRIO_ROUTINE
  <2> QED BY <1>1, <2>2, <2>3, <2>4, ScheduleType DEF Parts
<1> HIDE DEF b, q
<1>5. Parts(fl, runways, holding, q, stats)
  BY <1>1, <1>2, <1>4 DEF Parts
<1> HIDE DEF fl
<1>6. Parts(flights', runways', holding', pq', stats')
  BY <1>1, <1>3, <1>5, FreeRunwayType
<1> QED BY <1>1, <1>6, KeptType DEF on_takeoff_clear

LEMMA TakeoffReadyType ==
  ASSUME TypeOK, NEW f \in Flights, on_takeoff_ready(f) PROVE TypeOK'
<1> DEFINE a  == [flights[f] EXCEPT !.queue_enter_time = now']
           fl == [flights EXCEPT ![f].queue_enter_time = now']
           w  == Waited(fl[f])
           busy == [state |-> "RW_TAKEOFF", occupant |-> f]
<1>1. /\ Parts(flights, runways, holding, Tail(pq), stats)
      /\ now' \in Nat /\ weather \in Weather
  BY PoppedParts DEF on_takeoff_ready, Dispatch, Pop, TypeOK
<1>2. a \in Aircraft /\ fl = [flights EXCEPT ![f] = a]
  BY <1>1 DEF Aircraft, AircraftState, Parts
<1>3. fl \in [Flights -> Aircraft] /\ fl[f] = a
  BY <1>1, <1>2 DEF Parts
<1>4. w \in Nat
  BY <1>1, <1>2, <1>3, WaitedType
<1>5. PRIO_TAKEOFF \in PRIO_EMERGENCY .. PRIO_ROUTINE
  BY DEF PRIO_EMERGENCY, PRIO_ROUTINE, PRIO_TAKEOFF
<1>6. \/ \E rw \in find_idle_runway(runways) :
             /\ runways' = [runways EXCEPT ![rw] = busy]
             /\ flights' = [fl EXCEPT ![f].assigned_runway = rw,
                                      ![f].state = "AC_DEPARTING",
                                      ![f].total_wait = @ + w]
             /\ stats' = record_wait(stats, w)
             /\ pq' = schedule(Tail(pq), f, "EVENT_TAKEOFF_CLEAR",
                               now' + Occupancy(TAKEOFF_PREP, fl[f].wake),
                               PRIO_TAKEOFF)
      \/ /\ flights' = fl
         /\ pq' = schedule(Tail(pq), f, "EVENT_TAKEOFF_READY",
                           now' + TAKEOFF_RETRY, PRIO_TAKEOFF)
         /\ UNCHANGED <<runways, stats>>
  BY Zenon DEF on_takeoff_ready
<1> HIDE DEF w, fl, a
<1>7. CASE \E rw \in find_idle_runway(runways) :
             /\ runways' = [runways EXCEPT ![rw] = busy]
             /\ flights' = [fl EXCEPT ![f].assigned_runway = rw,
                                      ![f].state = "AC_DEPARTING",
                                      ![f].total_wait = @ + w]
             /\ stats' = record_wait(stats, w)
             /\ pq' = schedule(Tail(pq), f, "EVENT_TAKEOFF_CLEAR",
                               now' + Occupancy(TAKEOFF_PREP, fl[f].wake),
                               PRIO_TAKEOFF)
  <2>1. PICK rw \in find_idle_runway(runways) :
             /\ runways' = [runways EXCEPT ![rw] = busy]
             /\ flights' = [fl EXCEPT ![f].assigned_runway = rw,
                                      ![f].state = "AC_DEPARTING",
                                      ![f].total_wait = @ + w]
             /\ stats' = record_wait(stats, w)
             /\ pq' = schedule(Tail(pq), f, "EVENT_TAKEOFF_CLEAR",
                               now' + Occupancy(TAKEOFF_PREP, fl[f].wake),
                               PRIO_TAKEOFF)
    BY <1>7
  <2>2. rw \in Runways
    BY DEF find_idle_runway
  <2>3. flights' \in [Flights -> Aircraft]
    <3> DEFINE total == a.total_wait + w
               b == [a EXCEPT !.assigned_runway = rw, !.state = "AC_DEPARTING",
                              !.total_wait = total]
    <3>1. total \in Nat
      BY <1>2, <1>4 DEF Aircraft
    <3>2. flights' = [fl EXCEPT ![f] = b]
      BY <1>3, <2>1
    <3> HIDE DEF total
    <3>3. b \in Aircraft
      BY <1>2, <2>2, <3>1 DEF Aircraft, AircraftState
    <3> HIDE DEF b
    <3> QED BY <1>3, <3>2, <3>3
  <2>4. runways' \in [Runways -> Runway]
    BY <1>1, <2>1, <2>2 DEF Parts, Runway
  <2>5. stats' \in SimStats
    BY <1>1, <1>4, <2>1, RecordWaitType DEF Parts
  <2>6. pq' \in Seq(AtcEvent(Flights))
    <3>1. TAKEOFF_PREP \in Nat /\ fl[f].wake \in Wake
      BY <1>2, <1>3, TimeAssumption DEF Positive, Aircraft
    <3>2. Occupancy(TAKEOFF_PREP, fl[f].wake) \in Nat
      BY <1>1, <3>1, OccupancyType
    <3>3. now' + Occupancy(TAKEOFF_PREP, fl[f].wake) \in Nat
      BY <1>1, <3>2, Later
    <3>4. "EVENT_TAKEOFF_CLEAR" \in EventType
      BY DEF EventType
    <3> QED BY <1>1, <1>5, <2>1, <3>3, <3>4, ScheduleType DEF Parts
  <2>7. Parts(flights', runways', holding', pq', stats')
    BY <1>1, <2>3, <2>4, <2>5, <2>6 DEF Parts, on_takeoff_ready
  <2> QED BY <1>1, <2>7, KeptType DEF on_takeoff_ready
<1>8. CASE /\ flights' = fl
           /\ pq' = schedule(Tail(pq), f, "EVENT_TAKEOFF_READY",
                             now' + TAKEOFF_RETRY, PRIO_TAKEOFF)
           /\ UNCHANGED <<runways, stats>>
  <2>1. pq' \in Seq(AtcEvent(Flights))
    <3>1. TAKEOFF_RETRY \in Nat
      BY TimeAssumption DEF Positive
    <3>2. now' + TAKEOFF_RETRY \in Nat
      BY <1>1, <3>1, Later
    <3>3. "EVENT_TAKEOFF_READY" \in EventType
      BY DEF EventType
    <3> QED BY <1>1, <1>5, <1>8, <3>2, <3>3, ScheduleType DEF Parts
  <2>2. Parts(flights', runways', holding', pq', stats')
    BY <1>1, <1>3, <1>8, <2>1 DEF Parts, on_takeoff_ready
  <2> QED BY <1>1, <2>2, KeptType DEF on_takeoff_ready
<1> QED BY <1>6, <1>7, <1>8

LEMMA DepartType ==
  ASSUME TypeOK, NEW f \in Flights, on_depart_sector(f) PROVE TypeOK'
<1>1. /\ Parts(flights, runways, holding, Tail(pq), stats)
      /\ now' \in Nat
  BY PoppedParts DEF on_depart_sector, Dispatch, Pop
<1>2. flights' \in [Flights -> Aircraft]
  <2> DEFINE b == [flights[f] EXCEPT !.state = "AC_DONE"]
  <2>1. b \in Aircraft
    BY <1>1 DEF Parts, Aircraft, AircraftState
  <2>2. flights' = [flights EXCEPT ![f] = b]
    BY <1>1 DEF on_depart_sector, Parts
  <2> HIDE DEF b
  <2> QED BY <1>1, <2>1, <2>2 DEF Parts
<1>3. stats' \in SimStats
  <2> DEFINE a     == flights[f]
             quick == IF a.total_wait < LOW_DELAY THEN 5 ELSE 0
             clean == IF a.go_arounds = 0 /\ ~ a.emergency THEN 2 ELSE 0
             count == stats.flights_departed + 1
             score == stats.score + 10 + quick + clean
  <2>1. stats' = [stats EXCEPT !.flights_departed = count, !.score = score]
    BY <1>1 DEF on_depart_sector, Parts, SimStats
  <2>2. quick \in Int /\ clean \in Int
    OBVIOUS
  <2> HIDE DEF quick, clean
  <2>3. stats.flights_departed \in Nat /\ stats.score \in Int
    BY <1>1 DEF Parts, SimStats
  <2>4. count \in Nat /\ score \in Int
    BY <2>2, <2>3
  <2> HIDE DEF count, score
  <2> QED BY <1>1, <2>1, <2>4 DEF Parts, SimStats
<1>4. Parts(flights', runways', holding', pq', stats')
  BY <1>1, <1>2, <1>3 DEF Parts, on_depart_sector
<1> QED BY <1>1, <1>4, KeptType DEF on_depart_sector

\* The parts of the state that change hands around a gate.
GateParts(fl, gts, ring, q, st) ==
    /\ fl \in [Flights -> Aircraft]
    /\ gts \in [Gates -> Gate]
    /\ ring \in Seq(Flights) /\ Len(ring) <= MAX_TAXI_SLOTS
    /\ q \in Seq(AtcEvent(Flights))
    /\ st \in SimStats

LEMMA AwaitGateType ==
  ASSUME NEW f \in Flights, NEW ring \in Seq(Flights),
         Len(ring) <= MAX_TAXI_SLOTS, NEW q \in Seq(AtcEvent(Flights)),
         now' \in Nat, AwaitGate(f, ring, q)
  PROVE  /\ taxi_wait' \in Seq(Flights) /\ Len(taxi_wait') <= MAX_TAXI_SLOTS
         /\ pq' \in Seq(AtcEvent(Flights))
<1>1. CASE Len(ring) < MAX_TAXI_SLOTS /\ taxi_wait' = Append(ring, f) /\ pq' = q
  BY <1>1, SizeAssumption, AppendProperties DEF Positive
<1>2. CASE /\ taxi_wait' = ring
           /\ pq' = schedule(q, f, "EVENT_TAXI_TO_GATE", now' + TAXI_RETRY,
                             PRIO_ROUTINE)
  <2>1. TAXI_RETRY \in Nat
    BY TimeAssumption DEF Positive
  <2>2. now' + TAXI_RETRY \in Nat
    BY <2>1, Later
  <2>3. "EVENT_TAXI_TO_GATE" \in EventType
    BY DEF EventType
  <2>4. PRIO_ROUTINE \in PRIO_EMERGENCY .. PRIO_ROUTINE
    BY DEF PRIO_EMERGENCY, PRIO_ROUTINE
  <2> QED BY <1>2, <2>2, <2>3, <2>4, ScheduleType
<1> QED BY <1>1, <1>2 DEF AwaitGate

LEMMA TryAssignGateType ==
  ASSUME NEW f \in Flights, NEW fl, NEW gts, NEW ring, NEW q,
         GateParts(fl, gts, ring, q, stats), now' \in Nat,
         try_assign_gate(f, fl, gts, ring, q)
  PROVE  GateParts(flights', gates', taxi_wait', pq', stats')
<1> DEFINE w == Waited(fl[f])
<1>1. fl[f] \in Aircraft
  BY DEF GateParts
<1>2. w \in Nat
  BY <1>1, WaitedType
<1>3. \/ \E g \in find_vacant_gate(gts) :
             /\ gates' = [gts EXCEPT ![g] = [state |-> "GATE_OCCUPIED",
                                             occupant |-> f]]
             /\ flights' = [fl EXCEPT ![f].assigned_gate = g,
                                      ![f].state = "AC_AT_GATE",
                                      ![f].total_wait = @ + w]
             /\ stats' = record_wait(stats, w)
             /\ pq' = schedule(q, f, "EVENT_GATE_RELEASE",
                               now' + GATE_TURNAROUND, PRIO_ROUTINE)
             /\ taxi_wait' = ring
      \/ /\ AwaitGate(f, ring, q)
         /\ gates' = gts /\ flights' = fl /\ UNCHANGED stats
  BY Zenon DEF try_assign_gate
<1> HIDE DEF w
<1>4. CASE \E g \in find_vacant_gate(gts) :
             /\ gates' = [gts EXCEPT ![g] = [state |-> "GATE_OCCUPIED",
                                             occupant |-> f]]
             /\ flights' = [fl EXCEPT ![f].assigned_gate = g,
                                      ![f].state = "AC_AT_GATE",
                                      ![f].total_wait = @ + w]
             /\ stats' = record_wait(stats, w)
             /\ pq' = schedule(q, f, "EVENT_GATE_RELEASE",
                               now' + GATE_TURNAROUND, PRIO_ROUTINE)
             /\ taxi_wait' = ring
  <2>1. PICK g \in find_vacant_gate(gts) :
             /\ gates' = [gts EXCEPT ![g] = [state |-> "GATE_OCCUPIED",
                                             occupant |-> f]]
             /\ flights' = [fl EXCEPT ![f].assigned_gate = g,
                                      ![f].state = "AC_AT_GATE",
                                      ![f].total_wait = @ + w]
             /\ stats' = record_wait(stats, w)
             /\ pq' = schedule(q, f, "EVENT_GATE_RELEASE",
                               now' + GATE_TURNAROUND, PRIO_ROUTINE)
             /\ taxi_wait' = ring
    BY <1>4
  <2>2. g \in Gates
    BY DEF find_vacant_gate
  <2>3. gates' \in [Gates -> Gate]
    BY <2>1, <2>2 DEF GateParts, Gate
  <2>4. flights' \in [Flights -> Aircraft]
    <3> DEFINE total == fl[f].total_wait + w
               b == [fl[f] EXCEPT !.assigned_gate = g, !.state = "AC_AT_GATE",
                                  !.total_wait = total]
    <3>1. total \in Nat
      BY <1>1, <1>2 DEF Aircraft
    <3>2. flights' = [fl EXCEPT ![f] = b]
      BY <2>1 DEF GateParts
    <3> HIDE DEF total
    <3>3. b \in Aircraft
      BY <1>1, <2>2, <3>1 DEF Aircraft, AircraftState
    <3> HIDE DEF b
    <3> QED BY <3>2, <3>3 DEF GateParts
  <2>5. stats' \in SimStats
    BY <1>2, <2>1, RecordWaitType DEF GateParts
  <2>6. pq' \in Seq(AtcEvent(Flights))
    <3>1. GATE_TURNAROUND \in Nat
      BY TimeAssumption DEF Positive
    <3>2. now' + GATE_TURNAROUND \in Nat
      BY <3>1, Later
    <3>3. "EVENT_GATE_RELEASE" \in EventType
      BY DEF EventType
    <3>4. PRIO_ROUTINE \in PRIO_EMERGENCY .. PRIO_ROUTINE
      BY DEF PRIO_EMERGENCY, PRIO_ROUTINE
    <3> QED BY <2>1, <3>2, <3>3, <3>4, ScheduleType DEF GateParts
  <2> QED BY <2>1, <2>3, <2>4, <2>5, <2>6 DEF GateParts
<1>5. CASE /\ AwaitGate(f, ring, q)
           /\ gates' = gts /\ flights' = fl /\ UNCHANGED stats
  BY <1>5, AwaitGateType DEF GateParts
<1> QED BY <1>3, <1>4, <1>5

LEMMA KeptGateType ==
  ASSUME TypeOK, now' \in Nat,
         GateParts(flights', gates', taxi_wait', pq', stats'),
         UNCHANGED <<flight_count, runways, holding, weather, spawning_done>>
  PROVE  TypeOK'
BY DEF TypeOK, GateParts

LEMMA TaxiType ==
  ASSUME TypeOK, NEW f \in Flights, on_taxi_to_gate(f) PROVE TypeOK'
<1>1. /\ GateParts(flights, gates, taxi_wait, Tail(pq), stats)
      /\ now' \in Nat
  BY PopType DEF on_taxi_to_gate, Dispatch, Pop, TypeOK, GateParts
<1>2. GateParts(flights', gates', taxi_wait', pq', stats')
  BY <1>1, TryAssignGateType DEF on_taxi_to_gate
<1> QED BY <1>1, <1>2, KeptGateType DEF on_taxi_to_gate

LEMMA GateReleaseType ==
  ASSUME TypeOK, NEW f \in Flights, on_gate_release(f) PROVE TypeOK'
<1> DEFINE free == [state |-> "GATE_VACANT", occupant |-> None]
           gts  == [gates EXCEPT ![flights[f].assigned_gate] = free]
           b    == [flights[f] EXCEPT !.assigned_gate = None,
                                      !.state = "AC_TAXI_OUT"]
           fl   == [flights EXCEPT ![f] = b]
           q    == schedule(Tail(pq), f, "EVENT_TAKEOFF_READY",
                            now' + TAXI_DURATION, PRIO_TAKEOFF)
<1>1. /\ GateParts(flights, gates, taxi_wait, Tail(pq), stats)
      /\ now' \in Nat
  BY PopType DEF on_gate_release, Dispatch, Pop, TypeOK, GateParts
<1>2. b \in Aircraft
  BY <1>1 DEF GateParts, Aircraft, AircraftState
<1>3. free \in Gate
  BY DEF Gate
<1>4. q \in Seq(AtcEvent(Flights))
  <2>1. TAXI_DURATION \in Nat
    BY TimeAssumption DEF Positive
  <2>2. now' + TAXI_DURATION \in Nat
    BY <1>1, <2>1, Later
  <2>3. "EVENT_TAKEOFF_READY" \in EventType
    BY DEF EventType
  <2>4. PRIO_TAKEOFF \in PRIO_EMERGENCY .. PRIO_ROUTINE
    BY DEF PRIO_EMERGENCY, PRIO_ROUTINE, PRIO_TAKEOFF
  <2> QED BY <1>1, <2>2, <2>3, <2>4, ScheduleType DEF GateParts
<1>5. \/ /\ gates' = gts /\ flights' = fl /\ pq' = q
         /\ UNCHANGED <<taxi_wait, stats>>
      \/ /\ taxi_wait # <<>>
         /\ try_assign_gate(Head(taxi_wait), fl, gts, Tail(taxi_wait), q)
  <2>1. fl = [flights EXCEPT ![f].assigned_gate = None,
                             ![f].state = "AC_TAXI_OUT"]
    BY <1>1 DEF GateParts
  <2> QED BY <2>1, Zenon DEF on_gate_release
<1> HIDE DEF free, b, q
<1>6. GateParts(fl, gts, taxi_wait, q, stats)
  BY <1>1, <1>2, <1>3, <1>4 DEF GateParts
<1> HIDE DEF fl, gts
<1>7. CASE /\ gates' = gts /\ flights' = fl /\ pq' = q
           /\ UNCHANGED <<taxi_wait, stats>>
  <2>1. GateParts(flights', gates', taxi_wait', pq', stats')
    BY <1>6, <1>7 DEF GateParts
  <2> QED BY <1>1, <2>1, KeptGateType DEF on_gate_release
<1>8. CASE /\ taxi_wait # <<>>
           /\ try_assign_gate(Head(taxi_wait), fl, gts, Tail(taxi_wait), q)
  <2>1. taxi_wait \in Seq(Flights) /\ Len(taxi_wait) <= MAX_TAXI_SLOTS
    BY <1>1 DEF GateParts
  <2>2. /\ Head(taxi_wait) \in Flights /\ Tail(taxi_wait) \in Seq(Flights)
        /\ Len(Tail(taxi_wait)) = Len(taxi_wait) - 1
    BY <1>8, <2>1, HeadTailProperties
  <2>3. Len(Tail(taxi_wait)) <= MAX_TAXI_SLOTS
    BY <2>1, <2>2, LenProperties, SizeAssumption DEF Positive
  <2>4. GateParts(fl, gts, Tail(taxi_wait), q, stats)
    BY <1>6, <2>2, <2>3 DEF GateParts
  <2>5. GateParts(flights', gates', taxi_wait', pq', stats')
    BY <1>1, <1>8, <2>2, <2>4, TryAssignGateType
  <2> QED BY <1>1, <2>5, KeptGateType DEF on_gate_release
<1> QED BY <1>5, <1>7, <1>8

\* Commands leave the clock alone.
LEMMA PresentParts ==
  ASSUME TypeOK
  PROVE  /\ Parts(flights, runways, holding, pq, stats)
         /\ now \in Nat /\ weather \in Weather
BY DEF TypeOK, Parts

LEMMA PrioritizeType ==
  ASSUME TypeOK, NEW f \in Flights, sim_cmd_prioritize_holding(f) PROVE TypeOK'
<1> DEFINE a    == [flights[f] EXCEPT !.user_priority = TRUE]
           fl   == [flights EXCEPT ![f] = a]
           ring == holding_remove(holding, f)
<1>1. /\ Parts(flights, runways, holding, pq, stats)
      /\ now' \in Nat /\ weather \in Weather
  BY PresentParts DEF sim_cmd_prioritize_holding, Commanded
<1>2. a \in Aircraft
  BY <1>1 DEF Parts, Aircraft
<1>3. try_assign_landing(f, fl, runways, ring, pq, stats)
  <2>1. fl = [flights EXCEPT ![f].user_priority = TRUE]
    BY <1>1 DEF Parts
  <2> QED BY <2>1, Zenon DEF sim_cmd_prioritize_holding
<1>4. ring \in Seq(Flights) /\ Len(ring) <= MAX_HOLDING_SLOTS
  <2>1. holding \in Seq(Flights) /\ Len(holding) <= MAX_HOLDING_SLOTS
    BY <1>1 DEF Parts
  <2>2. ring \in Seq(Flights) /\ Len(ring) <= Len(holding)
    BY <2>1, RemoveType
  <2> HIDE DEF ring
  <2> QED BY <2>1, <2>2, SizeAssumption, LenProperties DEF Positive
<1> HIDE DEF a, ring
<1>5. Parts(fl, runways, ring, pq, stats)
  BY <1>1, <1>2, <1>4 DEF Parts
<1> HIDE DEF fl
<1>6. Parts(flights', runways', holding', pq', stats')
  BY <1>1, <1>3, <1>5, TryAssignLandingType
<1> QED BY <1>1, <1>6, KeptType DEF sim_cmd_prioritize_holding

LEMMA HoldType ==
  ASSUME TypeOK, NEW f \in Flights, sim_cmd_hold(f) PROVE TypeOK'
<1> DEFINE a    == [flights[f] EXCEPT !.user_priority = FALSE,
                                      !.queue_enter_time = now']
           fl   == [flights EXCEPT ![f] = a]
<1>1. /\ Parts(flights, runways, holding, pq, stats)
      /\ now' \in Nat
  BY PresentParts DEF sim_cmd_hold, Commanded
<1>2. a \in Aircraft
  BY <1>1 DEF Parts, Aircraft
<1>3. EnterHolding(f, fl, runways, holding, pq, stats, HOLD_RECHECK)
  <2>1. fl = [flights EXCEPT ![f].user_priority = FALSE,
                             ![f].queue_enter_time = now']
    BY <1>1 DEF Parts
  <2> QED BY <2>1, Zenon DEF sim_cmd_hold
<1> HIDE DEF a
<1>4. Parts(fl, runways, holding, pq, stats)
  BY <1>1, <1>2 DEF Parts
<1> HIDE DEF fl
<1>5. HOLD_RECHECK \in Nat
  BY TimeAssumption DEF Positive
<1>6. Parts(flights', runways', holding', pq', stats')
  BY <1>1, <1>3, <1>4, <1>5, EnterHoldingType
<1> QED BY <1>1, <1>6, KeptType DEF sim_cmd_hold

LEMMA DivertType ==
  ASSUME TypeOK, NEW f \in Flights, sim_cmd_divert(f) PROVE TypeOK'
<1> DEFINE a  == flights[f]
           b  == [a EXCEPT !.assigned_runway = None, !.emergency = FALSE,
                           !.state = "AC_DIVERTED"]
           fl == [flights EXCEPT ![f] = b]
           st == [stats EXCEPT !.flights_diverted = @ + 1, !.score = @ - 12]
<1>1. /\ Parts(flights, runways, holding, pq, stats)
      /\ now' \in Nat /\ weather \in Weather
  BY PresentParts DEF sim_cmd_divert, Commanded
<1>2. b \in Aircraft
  BY <1>1 DEF Parts, Aircraft, AircraftState
<1>3. st \in SimStats
  <2> DEFINE count == stats.flights_diverted + 1
             score == stats.score - 12
  <2>1. count \in Nat /\ score \in Int
    BY <1>1 DEF Parts, SimStats
  <2>2. st = [stats EXCEPT !.flights_diverted = count, !.score = score]
    BY <1>1 DEF Parts, SimStats
  <2> HIDE DEF count, score, st
  <2> QED BY <1>1, <2>1, <2>2 DEF Parts, SimStats
<1>4. Unqueued(f) \in Seq(Flights) /\ Len(Unqueued(f)) <= MAX_HOLDING_SLOTS
  BY UnqueuedType
<1>5. \/ free_runway(a.assigned_runway, fl, Unqueued(f), pq, st)
      \/ /\ flights' = fl /\ holding' = Unqueued(f) /\ stats' = st
         /\ UNCHANGED <<pq, runways>>
  BY Zenon DEF sim_cmd_divert, Diverted, DivertedIn
<1> HIDE DEF b, st
<1>6. Parts(fl, runways, Unqueued(f), pq, st)
  BY <1>1, <1>2, <1>3, <1>4 DEF Parts
<1> HIDE DEF fl
<1>7. Parts(flights', runways', holding', pq', stats')
  <2>1. CASE free_runway(a.assigned_runway, fl, Unqueued(f), pq, st)
    BY <1>1, <1>6, <2>1, FreeRunwayType
  <2>2. CASE /\ flights' = fl /\ holding' = Unqueued(f) /\ stats' = st
             /\ UNCHANGED <<pq, runways>>
    BY <1>6, <2>2 DEF Parts
  <2> QED BY <1>5, <2>1, <2>2
<1> QED BY <1>1, <1>7, KeptType DEF sim_cmd_divert

\* The two commands that set a flag of the flight.
LEMMA FlagType ==
  ASSUME TypeOK, NEW f \in Flights,
         sim_cmd_prioritize_inbound(f) \/ sim_cmd_go_around(f)
  PROVE  TypeOK'
<1>1. flights \in [Flights -> Aircraft]
  BY DEF TypeOK
<1>2. flights' \in [Flights -> Aircraft]
  <2>1. CASE sim_cmd_prioritize_inbound(f)
    <3> DEFINE a == [flights[f] EXCEPT !.user_priority = TRUE]
    <3>1. a \in Aircraft
      BY <1>1 DEF Aircraft
    <3>2. flights' = [flights EXCEPT ![f] = a]
      BY <1>1, <2>1 DEF sim_cmd_prioritize_inbound
    <3> HIDE DEF a
    <3> QED BY <1>1, <3>1, <3>2
  <2>2. CASE sim_cmd_go_around(f)
    <3> DEFINE a == [flights[f] EXCEPT !.force_go_around = TRUE]
    <3>1. a \in Aircraft
      BY <1>1 DEF Aircraft
    <3>2. flights' = [flights EXCEPT ![f] = a]
      BY <1>1, <2>2 DEF sim_cmd_go_around
    <3> HIDE DEF a
    <3> QED BY <1>1, <3>1, <3>2
  <2> QED BY <2>1, <2>2
<1>3. UNCHANGED <<now, pq, flight_count, runways, gates, holding, taxi_wait,
                  weather, spawning_done, stats>>
  BY DEF sim_cmd_prioritize_inbound, sim_cmd_go_around, Commanded
<1> QED BY <1>2, <1>3 DEF TypeOK

LEMMA ClockType == ASSUME TypeOK, AdvanceClock PROVE TypeOK'
<1>1. PICK d \in FrameTicks : now' = now + d
  BY DEF AdvanceClock
<1>2. now' \in Nat
  BY <1>1, TimeAssumption DEF Positive, TypeOK
<1> QED BY <1>2 DEF TypeOK, AdvanceClock

\* Every step of the program and of its callers keeps the types.
LEMMA StepType == TypeOK /\ [Next \/ \E f \in Flights : sim_cmd_hold(f)]_vars
                  => TypeOK'
<1> SUFFICES ASSUME TypeOK, [Next \/ \E f \in Flights : sim_cmd_hold(f)]_vars
             PROVE  TypeOK'
  OBVIOUS
<1>1. CASE sim_step
  <2>1. CASE queue_exhausted
    BY <2>1 DEF queue_exhausted, TypeOK, vars
  <2>2. CASE drop_stale
    BY <2>2, DropType
  <2>3. CASE spawn_aircraft_table_full
    BY <2>3, TableFullType
  <2>4. CASE spawn_aircraft
    BY <2>4, SpawnType
  <2>5. CASE on_weather_change
    BY <2>5, WeatherType
  <2>6. ASSUME NEW f \in Flights,
               \/ on_runway_request(f)
               \/ on_emergency_moved_on(f)
               \/ on_emergency_lost(f)
               \/ on_emergency(f)
               \/ on_touchdown_go_around(f)
               \/ on_touchdown(f)
               \/ on_taxi_to_gate(f)
               \/ on_gate_release(f)
               \/ on_takeoff_ready(f)
               \/ on_takeoff_clear(f)
               \/ on_depart_sector(f)
        PROVE  TypeOK'
    BY <2>6, RequestType, MovedOnType, LostType, EmergencyType, GoAroundType,
       TouchdownType, TaxiType, GateReleaseType, TakeoffReadyType,
       TakeoffClearType, DepartType
  <2> QED BY <1>1, <2>1, <2>2, <2>3, <2>4, <2>5, <2>6 DEF sim_step
<1>2. CASE Command
  BY <1>2, FlagType, PrioritizeType, DivertType DEF Command
<1>3. CASE AdvanceClock
  BY <1>3, ClockType
<1>4. CASE \E f \in Flights : sim_cmd_hold(f)
  BY <1>4, HoldType
<1>5. CASE UNCHANGED vars
  BY <1>5 DEF TypeOK, vars
<1> QED BY <1>1, <1>2, <1>3, <1>4, <1>5 DEF Next

\* Type correctness of the interactive program: every variable keeps its type
\* and the rings never outgrow their arrays, however many flights, runways and
\* gates there are and whatever the delays.
THEOREM TypeCorrect == Spec => []TypeOK
<1>1. TypeOK /\ [Next]_vars => TypeOK'
  BY StepType
<1> QED BY InitType, <1>1, PTL DEF Spec

\* The same for the headless program.
THEOREM TypeCorrectBatch == BatchSpec => []TypeOK
<1>1. TypeOK /\ [sim_step]_vars => TypeOK'
  BY StepType DEF Next
<1> QED BY InitType, <1>1, PTL DEF BatchSpec

\* A caller that uses Hold can bring a flight to release a runway or a gate that
\* it does not have, where the code writes to the index -1.  Until then, which
\* is as far as HoldSpec goes, every variable keeps its type.
THEOREM TypeCorrectHold == HoldSpec => []TypeOK
<1>1. TypeOK /\ [sim_step \/ \E f \in Flights : sim_cmd_hold(f)]_vars => TypeOK'
  BY StepType DEF Next
<1> QED BY InitType, <1>1, PTL DEF HoldSpec

-----------------------------------------------------------------------------
(* The order of events and where pq_push puts a new one.                   *)

\* ev_less is the strict part of a total preorder.
LEMMA EvLessOrder ==
  ASSUME NEW a \in AtcEvent(Flights), NEW b \in AtcEvent(Flights),
         NEW c \in AtcEvent(Flights)
  PROVE  /\ ~ ev_less(b, a) /\ ~ ev_less(c, b) => ~ ev_less(c, a)
         /\ ev_less(a, b) => ~ ev_less(b, a)
         /\ ~ ev_less(b, a) => a.time <= b.time
<1>1. /\ a.time \in Nat /\ b.time \in Nat /\ c.time \in Nat
      /\ a.weight \in Int /\ b.weight \in Int /\ c.weight \in Int
  BY DEF AtcEvent, PRIO_EMERGENCY, PRIO_ROUTINE
<1> QED BY <1>1 DEF ev_less

\* A set of positions that is closed downwards holds the first ones.
LEMMA Prefix ==
  ASSUME NEW n \in Nat, NEW T \in SUBSET (1..n),
         \A i, j \in 1..n : i < j /\ j \in T => i \in T
  PROVE  \A i \in 1..n : i \in T <=> i <= Cardinality(T)
<1>1. IsFiniteSet(T) /\ Cardinality(T) \in Nat
  BY Positions
<1> SUFFICES ASSUME NEW i \in 1..n PROVE i \in T <=> i <= Cardinality(T)
  OBVIOUS
<1>2. /\ IsFiniteSet(1..i) /\ Cardinality(1..i) = i
      /\ IsFiniteSet(1..i-1) /\ Cardinality(1..i-1) = i - 1
  <2>1. IsFiniteSet(1..i) /\ Cardinality(1..i) = i
    BY FS_Interval
  <2>2. i - 1 \in Nat
    OBVIOUS
  <2>3. IsFiniteSet(1..i-1) /\ Cardinality(1..i-1) = i - 1
    BY <2>2, FS_Interval
  <2> QED BY <2>1, <2>3
<1>3. CASE i \in T
  <2>1. 1..i \subseteq T
    BY <1>3
  <2> QED BY <1>1, <1>2, <1>3, <2>1, FS_Subset
<1>4. CASE i \notin T
  <2>1. T \subseteq 1..i-1
    <3> SUFFICES ASSUME NEW j \in T PROVE j \in 1..i-1
      OBVIOUS
    <3>1. j \in 1..n /\ j # i /\ ~ (i < j)
      BY <1>4
    <3> QED BY <3>1
  <2>2. Cardinality(T) <= i - 1
    BY <1>2, <2>1, FS_Subset
  <2> QED BY <1>1, <1>4, <2>2
<1> QED BY <1>3, <1>4

LEMMA InsertAtElements ==
  ASSUME NEW S, NEW s \in Seq(S), NEW i \in 1 .. Len(s) + 1, NEW e \in S,
         NEW k \in 1 .. Len(s) + 1
  PROVE  /\ k < i => InsertAt(s, i, e)[k] = s[k]
         /\ k = i => InsertAt(s, i, e)[k] = e
         /\ k > i => InsertAt(s, i, e)[k] = s[k - 1]
BY InsertAtType

-----------------------------------------------------------------------------
(* Queues whose events are in order and still to come.                     *)

Ahead(q, t) == /\ q \in Seq(AtcEvent(Flights))
               /\ Ordered(q)
               /\ \A i \in DOMAIN q : t <= q[i].time
Timely(q) == Ahead(q, now')

\* The new event goes behind all events it does not beat, which come first
\* because the queue is ordered: so it stays ordered.
LEMMA AheadPush ==
  ASSUME NEW q, NEW e \in AtcEvent(Flights), NEW t, Ahead(q, t), t <= e.time
  PROVE  Ahead(pq_push(q, e), t)
<1> DEFINE T == {i \in DOMAIN q : ~ ev_less(e, q[i])}
           c == Cardinality(T)
           r == pq_push(q, e)
           n == Len(q)
<1>1. /\ q \in Seq(AtcEvent(Flights)) /\ n \in Nat /\ DOMAIN q = 1..n
      /\ \A i \in 1..n : q[i] \in AtcEvent(Flights)
  BY LenProperties, ElementOfSeq DEF Ahead
<1>2. \A i, j \in 1..n : i < j => ~ ev_less(q[j], q[i])
  BY <1>1 DEF Ahead, Ordered
<1>3. T \in SUBSET (1..n)
  BY <1>1
<1>4. \A i, j \in 1..n : i < j /\ j \in T => i \in T
  <2> SUFFICES ASSUME NEW i \in 1..n, NEW j \in 1..n, i < j, j \in T
               PROVE  i \in T
    OBVIOUS
  <2>1. ~ ev_less(q[j], q[i]) /\ ~ ev_less(e, q[j])
    BY <1>2
  <2>2. ~ ev_less(e, q[i])
    BY <1>1, <2>1, EvLessOrder
  <2> QED BY <1>1, <2>2
<1>5. c \in Nat /\ c <= n
  BY <1>1, <1>3, Positions
<1>6. \A i \in 1..n : ev_less(e, q[i]) <=> c < i
  <2> HIDE DEF T
  <2>1. \A i \in 1..n : i \in T <=> i <= Cardinality(T)
    BY <1>1, <1>3, <1>4, Prefix
  <2>2. \A i \in 1..n : i \in T <=> ~ ev_less(e, q[i])
    BY <1>1 DEF T
  <2> QED BY <1>5, <2>1, <2>2
<1>7. r = InsertAt(q, 1 + c, e)
  BY DEF pq_push
<1> HIDE DEF T, c, r
<1>8. 1 + c \in 1 .. n + 1
  BY <1>1, <1>5
<1>9. r \in Seq(AtcEvent(Flights)) /\ Len(r) = n + 1 /\ DOMAIN r = 1 .. n + 1
  <2>1. r \in Seq(AtcEvent(Flights)) /\ Len(r) = n + 1
    BY <1>1, <1>7, <1>8, InsertAtType
  <2> QED BY <2>1, LenProperties
<1>10. \A k \in 1 .. n + 1 : /\ k < 1 + c => r[k] = q[k]
                             /\ k = 1 + c => r[k] = e
                             /\ k > 1 + c => r[k] = q[k - 1]
  BY <1>1, <1>7, <1>8, InsertAtElements
<1>11. Ordered(r)
  <2> SUFFICES ASSUME NEW i \in 1 .. n + 1, NEW j \in 1 .. n + 1, i < j
               PROVE  ~ ev_less(r[j], r[i])
    BY <1>9 DEF Ordered
  <2> HIDE DEF n
  <2>1. CASE j < 1 + c
    <3>1. r[i] = q[i] /\ r[j] = q[j] /\ i \in 1..n /\ j \in 1..n
      BY <1>1, <1>5, <1>10, <2>1
    <3> QED BY <1>2, <3>1
  <2>2. CASE j = 1 + c
    <3>1. r[i] = q[i] /\ r[j] = e /\ i \in 1..n /\ ~ (c < i)
      BY <1>1, <1>5, <1>10, <2>2
    <3> QED BY <1>6, <3>1
  <2>3. CASE j > 1 + c /\ i < 1 + c
    <3>1. r[i] = q[i] /\ r[j] = q[j - 1] /\ i \in 1..n /\ j - 1 \in 1..n
      BY <1>1, <1>5, <1>10, <2>3
    <3>2. i < j - 1
      BY <1>5, <2>3
    <3> QED BY <1>2, <3>1, <3>2
  <2>4. CASE j > 1 + c /\ i = 1 + c
    <3>1. r[i] = e /\ r[j] = q[j - 1] /\ j - 1 \in 1..n /\ c < j - 1
      BY <1>1, <1>5, <1>10, <2>4
    <3>2. ev_less(e, q[j - 1])
      BY <1>6, <3>1
    <3> QED BY <1>1, <3>1, <3>2, EvLessOrder
  <2>5. CASE j > 1 + c /\ i > 1 + c
    <3>1. /\ r[i] = q[i - 1] /\ r[j] = q[j - 1]
          /\ i - 1 \in 1..n /\ j - 1 \in 1..n /\ i - 1 < j - 1
      BY <1>1, <1>5, <1>10, <2>5
    <3> QED BY <1>2, <3>1
  <2> QED BY <1>5, <2>1, <2>2, <2>3, <2>4, <2>5
<1>12. \A k \in 1 .. n + 1 : t <= r[k].time
  <2> SUFFICES ASSUME NEW k \in 1 .. n + 1 PROVE t <= r[k].time
    OBVIOUS
  <2>1. \A i \in 1..n : t <= q[i].time
    BY <1>1 DEF Ahead
  <2> HIDE DEF n
  <2>2. CASE k < 1 + c
    <3>1. k \in 1..n /\ r[k] = q[k]
      BY <1>1, <1>5, <1>10, <2>2
    <3> QED BY <2>1, <3>1
  <2>3. CASE k = 1 + c
    BY <1>10, <2>3
  <2>4. CASE k > 1 + c
    <3>1. k - 1 \in 1..n /\ r[k] = q[k - 1]
      BY <1>1, <1>5, <1>10, <2>4
    <3> QED BY <2>1, <3>1
  <2> QED BY <1>5, <2>2, <2>3, <2>4
<1> QED BY <1>9, <1>11, <1>12 DEF Ahead, r

LEMMA TimelyPush ==
  ASSUME NEW q, NEW e \in AtcEvent(Flights), Timely(q), now' <= e.time
  PROVE  Timely(pq_push(q, e))
BY AheadPush DEF Timely

\* What is left of an ordered queue when the clock has moved to its first event.
LEMMA TimelyTail ==
  ASSUME TypeOK, NothingOverdue, pq # <<>>, now' = Head(pq).time
  PROVE  Timely(Tail(pq)) /\ now' \in Nat
<1> DEFINE n == Len(pq)
<1>1. /\ pq \in Seq(AtcEvent(Flights)) /\ n \in Nat /\ DOMAIN pq = 1..n
      /\ \A i \in 1..n : pq[i] \in AtcEvent(Flights)
  BY LenProperties, ElementOfSeq DEF TypeOK
<1>2. \A i, j \in 1..n : i < j => ~ ev_less(pq[j], pq[i])
  BY <1>1 DEF NothingOverdue, Ordered
<1>3. n # 0
  BY <1>1, EmptySeq
<1>4. Head(pq) = pq[1] /\ 1 \in 1..n
  BY <1>1, <1>3, HeadTailProperties
<1>5. /\ Tail(pq) \in Seq(AtcEvent(Flights)) /\ Len(Tail(pq)) = n - 1
      /\ \A i \in 1 .. n - 1 : Tail(pq)[i] = pq[i + 1]
  BY <1>1, <1>3, HeadTailProperties
<1>6. DOMAIN Tail(pq) = 1 .. n - 1
  BY <1>5, LenProperties
<1> HIDE DEF n
<1>7. Ordered(Tail(pq))
  <2> SUFFICES ASSUME NEW i \in 1 .. n - 1, NEW j \in 1 .. n - 1, i < j
               PROVE  ~ ev_less(Tail(pq)[j], Tail(pq)[i])
    BY <1>6 DEF Ordered
  <2>1. i + 1 \in 1..n /\ j + 1 \in 1..n /\ i + 1 < j + 1
    BY <1>1
  <2> QED BY <1>2, <1>5, <2>1
<1>8. \A i \in 1 .. n - 1 : now' <= Tail(pq)[i].time
  <2> SUFFICES ASSUME NEW i \in 1 .. n - 1 PROVE now' <= Tail(pq)[i].time
    OBVIOUS
  <2>1. i + 1 \in 1..n /\ 1 < i + 1
    BY <1>1
  <2>2. ~ ev_less(pq[i + 1], pq[1])
    BY <1>2, <1>4, <2>1
  <2>3. pq[1].time <= pq[i + 1].time
    BY <1>1, <1>4, <2>1, <2>2, EvLessOrder
  <2> QED BY <1>4, <1>5, <2>3
<1>9. now' \in Nat
  BY <1>1, <1>4 DEF AtcEvent
<1> QED BY <1>5, <1>6, <1>7, <1>8, <1>9 DEF Timely, Ahead

\* A queue that a command finds.
LEMMA TimelyPresent ==
  ASSUME TypeOK, NothingOverdue, now' = now
  PROVE  Timely(pq) /\ now' \in Nat
BY DEF TypeOK, NothingOverdue, Timely, Ahead

-----------------------------------------------------------------------------
(* The helpers plan for now or later.                                      *)

LEMMA NotEarlier ==
  ASSUME NEW t \in Nat, NEW d \in Nat
  PROVE  t + d \in Nat /\ t <= t + d /\ t + 0 = t
OBVIOUS

LEMMA TimelySchedule ==
  ASSUME NEW q, Timely(q), NEW f \in Flights, NEW type \in EventType,
         now' \in Nat, NEW d \in Nat,
         NEW weight \in PRIO_EMERGENCY .. PRIO_ROUTINE
  PROVE  Timely(schedule(q, f, type, now' + d, weight))
<1> DEFINE e == [flight |-> f, type |-> type, time |-> now' + d,
                 weight |-> weight]
<1>1. now' + d \in Nat /\ now' <= now' + d
  BY NotEarlier
<1>2. e \in AtcEvent(Flights) /\ e.time = now' + d
  BY <1>1 DEF AtcEvent
<1>3. schedule(q, f, type, now' + d, weight) = pq_push(q, e)
  BY DEF schedule
<1> HIDE DEF e
<1>4. now' <= e.time
  BY <1>1, <1>2
<1> QED BY <1>2, <1>3, <1>4, TimelyPush

\* ... an event for this very moment included.
LEMMA TimelyAtOnce ==
  ASSUME NEW q, Timely(q), NEW f \in Flights, NEW type \in EventType,
         now' \in Nat, NEW weight \in PRIO_EMERGENCY .. PRIO_ROUTINE
  PROVE  Timely(schedule(q, f, type, now', weight))
<1>1. now' + 0 = now' /\ 0 \in Nat
  BY NotEarlier
<1>2. Timely(schedule(q, f, type, now' + 0, weight))
  BY <1>1, TimelySchedule
<1> QED BY <1>1, <1>2

LEMMA Weights ==
  /\ PRIO_EMERGENCY \in PRIO_EMERGENCY .. PRIO_ROUTINE
  /\ PRIO_LANDING \in PRIO_EMERGENCY .. PRIO_ROUTINE
  /\ PRIO_TAKEOFF \in PRIO_EMERGENCY .. PRIO_ROUTINE
  /\ PRIO_ROUTINE \in PRIO_EMERGENCY .. PRIO_ROUTINE
BY DEF PRIO_EMERGENCY, PRIO_LANDING, PRIO_TAKEOFF, PRIO_ROUTINE

LEMMA Delays ==
  /\ RUNWAY_LANDING_T \in Nat /\ RUNWAY_TAKEOFF_T \in Nat
  /\ TAXI_DURATION \in Nat /\ GATE_TURNAROUND \in Nat /\ TAKEOFF_PREP \in Nat
  /\ HOLD_RECHECK \in Nat /\ EMERGENCY_RECHECK \in Nat
  /\ GO_AROUND_RECHECK \in Nat /\ TAXI_RETRY \in Nat /\ TAKEOFF_RETRY \in Nat
BY TimeAssumption DEF Positive

LEMMA Types ==
  {"EVENT_AIRCRAFT_ARRIVE", "EVENT_RUNWAY_REQUEST", "EVENT_TOUCHDOWN",
   "EVENT_TAXI_TO_GATE", "EVENT_GATE_RELEASE", "EVENT_TAKEOFF_READY",
   "EVENT_TAKEOFF_CLEAR", "EVENT_EMERGENCY_FUEL", "EVENT_DEPART_SECTOR",
   "EVENT_WEATHER_CHANGE"} \subseteq EventType
BY DEF EventType

LEMMA TimelyCheckFuel ==
  ASSUME NEW q, Timely(q), NEW f \in Flights, NEW a, now' \in Nat,
         NEW delay \in Nat
  PROVE  Timely(CheckFuelAfter(q, f, a, delay))
<1>1. LandingWeight(a) \in PRIO_EMERGENCY .. PRIO_ROUTINE
  BY WeightType
<1>2. "EVENT_EMERGENCY_FUEL" \in EventType
  BY Types
<1> QED BY <1>1, <1>2, TimelySchedule DEF CheckFuelAfter

\* The wake categories are all that the planned times depend on.
Wakeful(fl) == \A f \in Flights : fl[f].wake \in Wake

LEMMA TimelyClear ==
  ASSUME NEW f \in Flights, NEW rw, NEW fl, NEW rws, NEW ring, NEW q, NEW st,
         NEW weight \in PRIO_EMERGENCY .. PRIO_ROUTINE,
         Timely(q), Wakeful(fl), now' \in Nat, weather \in Weather,
         ClearToLand(f, rw, fl, rws, ring, q, st, weight)
  PROVE  Timely(pq')
<1>1. Occupancy(RUNWAY_LANDING_T, fl[f].wake) \in Nat
  BY Delays, OccupancyType DEF Wakeful
<1>2. "EVENT_TOUCHDOWN" \in EventType
  BY Types
<1>3. pq' = schedule(q, f, "EVENT_TOUCHDOWN",
                     now' + Occupancy(RUNWAY_LANDING_T, fl[f].wake), weight)
  BY DEF ClearToLand
<1> QED BY <1>1, <1>2, <1>3, TimelySchedule

LEMMA TimelyTryAssign ==
  ASSUME NEW f \in Flights, NEW fl, NEW rws, NEW ring, NEW q, NEW st,
         Timely(q), Wakeful(fl), now' \in Nat, weather \in Weather,
         try_assign_landing(f, fl, rws, ring, q, st)
  PROVE  Timely(pq')
<1>1. CASE \E rw : ClearToLand(f, rw, fl, rws, ring, q, st,
                               LandingWeight(fl[f]))
  <2>1. LandingWeight(fl[f]) \in PRIO_EMERGENCY .. PRIO_ROUTINE
    BY WeightType
  <2> QED BY <1>1, <2>1, TimelyClear
<1>2. CASE EnterHolding(f, fl, rws, ring, q, st, HOLD_RECHECK)
  BY <1>2, Delays, TimelyCheckFuel DEF EnterHolding
<1> QED BY <1>1, <1>2, Zenon DEF try_assign_landing

LEMMA TimelyFreeRunway ==
  ASSUME NEW rw, NEW fl, NEW ring \in Seq(Flights), NEW q, NEW st,
         Timely(q), Wakeful(fl), now' \in Nat, weather \in Weather,
         free_runway(rw, fl, ring, q, st)
  PROVE  Timely(pq')
<1>1. CASE pq' = q
  BY <1>1
<1>2. ASSUME NEW rws, NEW k \in holding_pop_priority(ring, fl),
             try_assign_landing(ring[k], fl, rws, RemoveAt(ring, k), q, st)
      PROVE  Timely(pq')
  <2>1. k \in DOMAIN ring
    BY DEF holding_pop_priority
  <2>2. ring[k] \in Flights
    BY <2>1, ElementOfSeq, LenProperties
  <2> QED BY <1>2, <2>2, TimelyTryAssign
<1> QED BY <1>1, <1>2, Zenon DEF free_runway

LEMMA TimelyTryAssignGate ==
  ASSUME NEW f \in Flights, NEW fl, NEW gts, NEW ring, NEW q,
         Timely(q), now' \in Nat, try_assign_gate(f, fl, gts, ring, q)
  PROVE  Timely(pq')
<1>1. \/ pq' = q
      \/ pq' = schedule(q, f, "EVENT_GATE_RELEASE", now' + GATE_TURNAROUND,
                        PRIO_ROUTINE)
      \/ pq' = schedule(q, f, "EVENT_TAXI_TO_GATE", now' + TAXI_RETRY,
                        PRIO_ROUTINE)
  BY Zenon DEF try_assign_gate, AwaitGate
<1>2. "EVENT_GATE_RELEASE" \in EventType /\ "EVENT_TAXI_TO_GATE" \in EventType
  BY Types
<1>3. Timely(schedule(q, f, "EVENT_GATE_RELEASE", now' + GATE_TURNAROUND,
                      PRIO_ROUTINE))
  BY <1>2, Weights, Delays, TimelySchedule
<1>4. Timely(schedule(q, f, "EVENT_TAXI_TO_GATE", now' + TAXI_RETRY,
                      PRIO_ROUTINE))
  BY <1>2, Weights, Delays, TimelySchedule
<1> QED BY <1>1, <1>3, <1>4

-----------------------------------------------------------------------------
(* The steps.                                                              *)

\* Replacing a flight by one of the same category.
LEMMA WakefulExcept ==
  ASSUME NEW fl \in [Flights -> Aircraft], NEW f \in Flights, NEW a,
         a.wake \in Wake
  PROVE  Wakeful([fl EXCEPT ![f] = a])
<1> SUFFICES ASSUME NEW g \in Flights PROVE [fl EXCEPT ![f] = a][g].wake \in Wake
  BY DEF Wakeful
<1>1. fl[g].wake \in Wake
  BY DEF Aircraft
<1>2. [fl EXCEPT ![f] = a][g] = IF g = f THEN a ELSE fl[g]
  OBVIOUS
<1> QED BY <1>1, <1>2

LEMMA DecayWake ==
  ASSUME TypeOK, NEW f \in Flights, now' \in Nat
  PROVE  /\ decay_fuel(flights[f]) \in Aircraft
         /\ decay_fuel(flights[f]).wake \in Wake
<1>1. flights[f] \in Aircraft
  BY DEF TypeOK
<1>2. decay_fuel(flights[f]) \in Aircraft
  BY <1>1, DecayType
<1> QED BY <1>2 DEF Aircraft

\* The steps of flights that may touch runways.
LEMMA RunwayStepTimely ==
  ASSUME TypeOK, NothingOverdue, NEW f \in Flights,
         \/ on_runway_request(f) \/ on_emergency(f)
         \/ on_touchdown_go_around(f) \/ on_touchdown(f)
         \/ on_takeoff_clear(f) \/ on_takeoff_ready(f)
  PROVE  Timely(pq')
<1> DEFINE a == decay_fuel(flights[f])
<1>1. pq # <<>> /\ now' = Head(pq).time
  BY DEF on_runway_request, on_emergency, on_touchdown_go_around, on_touchdown,
         on_takeoff_clear, on_takeoff_ready, Dispatch, Pop
<1>2. Timely(Tail(pq)) /\ now' \in Nat
  BY <1>1, TimelyTail
<1>3. /\ flights \in [Flights -> Aircraft] /\ weather \in Weather
      /\ holding \in Seq(Flights) /\ flights[f] \in Aircraft
      /\ flights[f].wake \in Wake
  BY DEF TypeOK, Aircraft
<1>4. a \in Aircraft /\ a.wake \in Wake
  BY <1>2, DecayWake
<1>5. CASE on_runway_request(f)
  <2> DEFINE b  == [a EXCEPT !.queue_enter_time = now']
             fl == [flights EXCEPT ![f] = b]
  <2>1. b.wake \in Wake
    BY <1>4 DEF Aircraft
  <2> HIDE DEF b
  <2>2. Wakeful(fl)
    BY <1>3, <2>1, WakefulExcept
  <2>3. \/ pq' = schedule(Tail(pq), f, "EVENT_EMERGENCY_FUEL", now',
                          PRIO_EMERGENCY)
        \/ try_assign_landing(f, fl, runways, holding, Tail(pq), stats)
    BY <1>5, Zenon DEF on_runway_request, b
  <2>4. Timely(schedule(Tail(pq), f, "EVENT_EMERGENCY_FUEL", now',
                        PRIO_EMERGENCY))
    BY <1>2, Types, Weights, TimelyAtOnce
  <2> HIDE DEF fl
  <2> QED BY <1>2, <1>3, <2>2, <2>3, <2>4, TimelyTryAssign
<1>6. CASE on_emergency(f)
  <2> DEFINE b  == [a EXCEPT !.emergency = @ \/ Declares(a)]
             fl == [flights EXCEPT ![f] = b]
  <2>1. b.wake \in Wake
    BY <1>4 DEF Aircraft
  <2> HIDE DEF b
  <2>2. Wakeful(fl)
    BY <1>3, <2>1, WakefulExcept
  <2>3. \/ \E rw, ring, st : ClearToLand(f, rw, fl, runways, ring, Tail(pq), st,
                                         PRIO_EMERGENCY)
        \/ pq' = CheckFuelAfter(Tail(pq), f, fl[f], EMERGENCY_RECHECK)
    BY <1>6, Zenon DEF on_emergency, b
  <2> HIDE DEF fl
  <2>4. CASE \E rw, ring, st : ClearToLand(f, rw, fl, runways, ring, Tail(pq),
                                           st, PRIO_EMERGENCY)
    BY <1>2, <1>3, <2>2, <2>4, Weights, TimelyClear
  <2>5. Timely(CheckFuelAfter(Tail(pq), f, fl[f], EMERGENCY_RECHECK))
    BY <1>2, Delays, TimelyCheckFuel
  <2> QED BY <2>3, <2>4, <2>5
<1>7. CASE on_touchdown_go_around(f)
  <2> DEFINE b  == [a EXCEPT !.force_go_around = FALSE,
                             !.assigned_runway = None, !.go_arounds = @ + 1,
                             !.state = "AC_HOLDING", !.queue_enter_time = now']
             fl == [flights EXCEPT ![f] = b]
             ring == holding_push(holding, f)
             q  == CheckFuelAfter(Tail(pq), f, a, GO_AROUND_RECHECK)
  <2>1. b.wake \in Wake
    BY <1>4 DEF Aircraft
  <2>2. \E rw, st : free_runway(rw, fl, ring, q, st)
    BY <1>7, Zenon DEF on_touchdown_go_around
  <2> HIDE DEF b
  <2>3. Wakeful(fl)
    BY <1>3, <2>1, WakefulExcept
  <2>4. ring \in Seq(Flights)
    BY <1>3, AppendProperties DEF holding_push
  <2>5. Timely(q)
    BY <1>2, Delays, TimelyCheckFuel
  <2> HIDE DEF fl, ring, q
  <2> QED BY <1>2, <1>3, <2>2, <2>3, <2>4, <2>5, TimelyFreeRunway
<1>8. CASE on_touchdown(f)
  <2> DEFINE b  == [a EXCEPT !.assigned_runway = None, !.state = "AC_TAXI_IN",
                             !.queue_enter_time = now']
             fl == [flights EXCEPT ![f] = b]
             q  == schedule(Tail(pq), f, "EVENT_TAXI_TO_GATE",
                            now' + TAXI_DURATION, PRIO_ROUTINE)
  <2>1. b.wake \in Wake
    BY <1>4 DEF Aircraft
  <2>2. \E rw, st : free_runway(rw, fl, holding, q, st)
    BY <1>8, Zenon DEF on_touchdown
  <2> HIDE DEF b
  <2>3. Wakeful(fl)
    BY <1>3, <2>1, WakefulExcept
  <2>4. Timely(q)
    BY <1>2, Types, Delays, Weights, TimelySchedule
  <2> HIDE DEF fl, q
  <2> QED BY <1>2, <1>3, <2>2, <2>3, <2>4, TimelyFreeRunway
<1>9. CASE on_takeoff_clear(f)
  <2> DEFINE b  == [flights[f] EXCEPT !.assigned_runway = None,
                                      !.state = "AC_AIRBORNE_OUT"]
             fl == [flights EXCEPT ![f] = b]
             q  == schedule(Tail(pq), f, "EVENT_DEPART_SECTOR",
                            now' + RUNWAY_TAKEOFF_T, PRIO_ROUTINE)
  <2>1. b.wake \in Wake
    BY <1>3 DEF Aircraft
  <2>2. \E rw, st : free_runway(rw, fl, holding, q, st)
    <3>1. fl = [flights EXCEPT ![f].assigned_runway = None,
                               ![f].state = "AC_AIRBORNE_OUT"]
      BY <1>3
    <3> QED BY <1>9, <3>1, Zenon DEF on_takeoff_clear
  <2> HIDE DEF b
  <2>3. Wakeful(fl)
    BY <1>3, <2>1, WakefulExcept
  <2>4. Timely(q)
    BY <1>2, Types, Delays, Weights, TimelySchedule
  <2> HIDE DEF fl, q
  <2> QED BY <1>2, <1>3, <2>2, <2>3, <2>4, TimelyFreeRunway
<1>10. CASE on_takeoff_ready(f)
  <2> DEFINE fl == [flights EXCEPT ![f].queue_enter_time = now']
             d  == Occupancy(TAKEOFF_PREP, fl[f].wake)
  <2>1. d \in Nat
    <3>1. fl[f].wake \in Wake
      BY <1>3 DEF Aircraft
    <3> HIDE DEF fl
    <3> QED BY <1>3, <3>1, Delays, OccupancyType
  <2>2. \/ pq' = schedule(Tail(pq), f, "EVENT_TAKEOFF_CLEAR", now' + d,
                          PRIO_TAKEOFF)
        \/ pq' = schedule(Tail(pq), f, "EVENT_TAKEOFF_READY",
                          now' + TAKEOFF_RETRY, PRIO_TAKEOFF)
    BY <1>10, Zenon DEF on_takeoff_ready
  <2> HIDE DEF d
  <2>3. /\ Timely(schedule(Tail(pq), f, "EVENT_TAKEOFF_CLEAR", now' + d,
                           PRIO_TAKEOFF))
        /\ Timely(schedule(Tail(pq), f, "EVENT_TAKEOFF_READY",
                           now' + TAKEOFF_RETRY, PRIO_TAKEOFF))
    BY <1>2, <2>1, Types, Delays, Weights, TimelySchedule
  <2> QED BY <2>2, <2>3
<1> QED BY <1>5, <1>6, <1>7, <1>8, <1>9, <1>10

\* The steps of flights that only touch gates or nothing.
LEMMA OtherStepTimely ==
  ASSUME TypeOK, NothingOverdue, NEW f \in Flights,
         \/ on_emergency_moved_on(f) \/ on_emergency_lost(f)
         \/ on_taxi_to_gate(f) \/ on_gate_release(f) \/ on_depart_sector(f)
  PROVE  Timely(pq')
<1>1. pq # <<>> /\ now' = Head(pq).time
  BY DEF on_emergency_moved_on, on_emergency_lost, on_taxi_to_gate,
         on_gate_release, on_depart_sector, Dispatch, Pop
<1>2. Timely(Tail(pq)) /\ now' \in Nat
  BY <1>1, TimelyTail
<1>3. CASE on_emergency_moved_on(f) \/ on_emergency_lost(f) \/ on_depart_sector(f)
  <2>1. pq' = Tail(pq)
    BY <1>3 DEF on_emergency_moved_on, on_emergency_lost, on_depart_sector
  <2> QED BY <1>2, <2>1
<1>4. CASE on_taxi_to_gate(f)
  BY <1>2, <1>4, TimelyTryAssignGate DEF on_taxi_to_gate
<1>5. CASE on_gate_release(f)
  <2> DEFINE q == schedule(Tail(pq), f, "EVENT_TAKEOFF_READY",
                           now' + TAXI_DURATION, PRIO_TAKEOFF)
  <2>1. Timely(q)
    BY <1>2, Types, Weights, Delays, TimelySchedule
  <2>2. \/ pq' = q
        \/ /\ taxi_wait # <<>>
           /\ \E fl, gts : try_assign_gate(Head(taxi_wait), fl, gts,
                                           Tail(taxi_wait), q)
    BY <1>5, Zenon DEF on_gate_release
  <2> HIDE DEF q
  <2>3. taxi_wait # <<>> => Head(taxi_wait) \in Flights
    BY HeadTailProperties DEF TypeOK
  <2> QED BY <1>2, <2>1, <2>2, <2>3, TimelyTryAssignGate
<1> QED BY <1>3, <1>4, <1>5

\* The steps that plan arrivals and weather, or drop an event.
LEMMA SourceStepTimely ==
  ASSUME TypeOK, NothingOverdue,
         \/ drop_stale \/ spawn_aircraft_table_full \/ spawn_aircraft
         \/ on_weather_change
  PROVE  Timely(pq')
<1>1. pq # <<>> /\ now' = Head(pq).time
  BY DEF drop_stale, spawn_aircraft_table_full, spawn_aircraft,
         on_weather_change, Pop
<1>2. Timely(Tail(pq)) /\ now' \in Nat
  BY <1>1, TimelyTail
<1>3. 0 \in Flights
  BY SizeAssumption DEF Flights, Positive
<1>4. CASE drop_stale \/ spawn_aircraft_table_full
  <2>1. pq' = Tail(pq)
    BY <1>4 DEF drop_stale, spawn_aircraft_table_full
  <2> QED BY <1>2, <2>1
<1>5. CASE spawn_aircraft
  <2> DEFINE q == RequestRunway(Tail(pq), flight_count)
  <2>1. PICK gap \in ArrivalGaps :
             \/ pq' = q
             \/ pq' = schedule(q, 0, "EVENT_AIRCRAFT_ARRIVE", now' + gap,
                               PRIO_ROUTINE)
    BY <1>5 DEF spawn_aircraft
  <2>2. gap \in Nat
    BY TimeAssumption DEF Positive
  <2>3. flight_count \in Flights
    <3>1. flight_count \in 0 .. MAX_FLIGHTS
      BY DEF TypeOK
    <3>2. flight_count < MAX_FLIGHTS /\ MAX_FLIGHTS \in Nat
      BY <1>5, SizeAssumption DEF spawn_aircraft, Positive
    <3> QED BY <3>1, <3>2 DEF Flights
  <2>4. Timely(q)
    BY <1>2, <2>3, Types, Weights, TimelyAtOnce DEF RequestRunway
  <2> HIDE DEF q
  <2>5. Timely(schedule(q, 0, "EVENT_AIRCRAFT_ARRIVE", now' + gap,
                        PRIO_ROUTINE))
    BY <1>2, <1>3, <2>2, <2>4, Types, Weights, TimelySchedule
  <2> QED BY <2>1, <2>4, <2>5
<1>6. CASE on_weather_change
  <2>1. PICK gap \in WeatherGaps : pq' = schedule_weather(Tail(pq), now', gap)
    BY <1>6 DEF on_weather_change
  <2>2. gap \in Nat
    BY TimeAssumption DEF Positive
  <2>3. Timely(schedule(Tail(pq), 0, "EVENT_WEATHER_CHANGE", now' + gap,
                        PRIO_ROUTINE))
    BY <1>2, <1>3, <2>2, Types, Weights, TimelySchedule
  <2>4. \/ pq' = Tail(pq)
        \/ pq' = schedule(Tail(pq), 0, "EVENT_WEATHER_CHANGE", now' + gap,
                          PRIO_ROUTINE)
    BY <2>1 DEF schedule_weather
  <2> QED BY <1>2, <2>3, <2>4
<1> QED BY <1>4, <1>5, <1>6

LEMMA CommandTimely ==
  ASSUME TypeOK, NothingOverdue, Command PROVE Timely(pq')
<1>1. Timely(pq) /\ now' \in Nat
  <2>1. now' = now
    BY DEF Command, sim_cmd_prioritize_inbound, sim_cmd_prioritize_holding,
           sim_cmd_divert, sim_cmd_go_around, Commanded
  <2> QED BY <2>1, TimelyPresent
<1>2. flights \in [Flights -> Aircraft] /\ weather \in Weather
  BY DEF TypeOK
<1>3. ASSUME NEW f \in Flights,
             sim_cmd_prioritize_inbound(f) \/ sim_cmd_go_around(f)
      PROVE  Timely(pq')
  <2>1. pq' = pq
    BY <1>3 DEF sim_cmd_prioritize_inbound, sim_cmd_go_around
  <2> QED BY <1>1, <2>1
<1>4. ASSUME NEW f \in Flights, sim_cmd_prioritize_holding(f)
      PROVE  Timely(pq')
  <2> DEFINE b  == [flights[f] EXCEPT !.user_priority = TRUE]
             fl == [flights EXCEPT ![f] = b]
  <2>1. fl = [flights EXCEPT ![f].user_priority = TRUE]
    BY <1>2
  <2>2. \E ring : try_assign_landing(f, fl, runways, ring, pq, stats)
    BY <1>4, <2>1, Zenon DEF sim_cmd_prioritize_holding
  <2>3. b.wake \in Wake
    BY <1>2 DEF Aircraft
  <2> HIDE DEF b
  <2>4. Wakeful(fl)
    BY <1>2, <2>3, WakefulExcept
  <2> HIDE DEF fl
  <2> QED BY <1>1, <1>2, <2>2, <2>4, TimelyTryAssign
<1>5. ASSUME NEW f \in Flights, sim_cmd_divert(f)
      PROVE  Timely(pq')
  <2> DEFINE b  == [flights[f] EXCEPT !.assigned_runway = None,
                                      !.emergency = FALSE,
                                      !.state = "AC_DIVERTED"]
             fl == [flights EXCEPT ![f] = b]
  <2>1. \/ pq' = pq
        \/ \E rw, st : free_runway(rw, fl, Unqueued(f), pq, st)
    BY <1>5, Zenon DEF sim_cmd_divert, Diverted, DivertedIn
  <2>2. b.wake \in Wake
    BY <1>2 DEF Aircraft
  <2> HIDE DEF b
  <2>3. Wakeful(fl)
    BY <1>2, <2>2, WakefulExcept
  <2> HIDE DEF fl
  <2>4. Unqueued(f) \in Seq(Flights)
    BY UnqueuedType
  <2> QED BY <1>1, <1>2, <2>1, <2>3, <2>4, TimelyFreeRunway
<1> QED BY <1>3, <1>4, <1>5 DEF Command

\* The frame loop stops short of the next event.
LEMMA ClockTimely ==
  ASSUME TypeOK, NothingOverdue, AdvanceClock
  PROVE  Ordered(pq') /\ \A i \in DOMAIN pq' : now' <= pq'[i].time
<1>1. /\ pq \in Seq(AtcEvent(Flights)) /\ Len(pq) \in Nat
      /\ DOMAIN pq = 1 .. Len(pq)
      /\ \A i \in 1 .. Len(pq) : pq[i] \in AtcEvent(Flights)
  BY LenProperties, ElementOfSeq DEF TypeOK
<1>2. pq # <<>> /\ pq' = pq
  BY DEF AdvanceClock
<1>3. Head(pq) = pq[1] /\ 1 \in 1 .. Len(pq)
  <2>1. Len(pq) # 0
    BY <1>1, <1>2, EmptySeq
  <2> QED BY <1>1, <2>1, HeadTailProperties
<1>4. now' < pq[1].time /\ now' \in Nat
  <2>1. now' < Head(pq).time
    BY DEF AdvanceClock
  <2>2. now' \in Nat
    BY ClockType DEF TypeOK
  <2> QED BY <1>3, <2>1, <2>2
<1>5. ASSUME NEW i \in 1 .. Len(pq) PROVE now' <= pq[i].time
  <2>1. CASE i = 1
    BY <1>1, <1>4, <2>1 DEF AtcEvent
  <2>2. CASE 1 < i
    <3>1. ~ ev_less(pq[i], pq[1])
      BY <1>1, <1>3, <2>2 DEF NothingOverdue, Ordered
    <3>2. pq[1].time <= pq[i].time
      BY <1>1, <1>3, <3>1, EvLessOrder
    <3>3. pq[1].time \in Nat /\ pq[i].time \in Nat
      BY <1>1, <1>3 DEF AtcEvent
    <3> QED BY <1>4, <3>2, <3>3
  <2> QED BY <1>1, <2>1, <2>2
<1> QED BY <1>1, <1>2, <1>5 DEF NothingOverdue

LEMMA TimelyEnough == ASSUME Timely(pq') PROVE NothingOverdue'
BY DEF Timely, Ahead, NothingOverdue

LEMMA AheadSchedule ==
  ASSUME NEW q, NEW t \in Nat, Ahead(q, t), NEW type \in EventType,
         NEW time \in Nat, t <= time
  PROVE  Ahead(schedule(q, 0, type, time, PRIO_ROUTINE), t)
<1> DEFINE e == [flight |-> 0, type |-> type, time |-> time,
                 weight |-> PRIO_ROUTINE]
<1>1. 0 \in Flights
  BY SizeAssumption DEF Flights, Positive
<1>2. e \in AtcEvent(Flights) /\ e.time = time
  BY <1>1, Weights DEF AtcEvent
<1>3. schedule(q, 0, type, time, PRIO_ROUTINE) = pq_push(q, e)
  BY DEF schedule
<1> HIDE DEF e
<1> QED BY <1>2, <1>3, AheadPush

LEMMA TimingInit == Init => NothingOverdue
<1> SUFFICES ASSUME Init PROVE NothingOverdue
  OBVIOUS
<1>1. PICK gap \in ArrivalGaps, wgap \in WeatherGaps :
           pq = schedule_weather(schedule(<<>>, 0, "EVENT_AIRCRAFT_ARRIVE",
                                          gap, PRIO_ROUTINE), 0, wgap)
  BY DEF Init
<1> DEFINE q == schedule(<<>>, 0, "EVENT_AIRCRAFT_ARRIVE", gap, PRIO_ROUTINE)
<1>2. gap \in Nat /\ 0 <= gap /\ 0 + wgap \in Nat /\ 0 <= 0 + wgap
  BY TimeAssumption DEF Positive
<1>3. Ahead(<<>>, 0)
  BY DEF Ahead, Ordered
<1>4. Ahead(q, 0)
  BY <1>2, <1>3, Types, AheadSchedule
<1> HIDE DEF q
<1>5. Ahead(schedule(q, 0, "EVENT_WEATHER_CHANGE", 0 + wgap, PRIO_ROUTINE), 0)
  BY <1>2, <1>4, Types, AheadSchedule
<1>6. Ahead(schedule_weather(q, 0, wgap), 0)
  BY <1>4, <1>5 DEF schedule_weather
<1>7. Ahead(pq, 0)
  BY <1>1, <1>6 DEF q
<1>8. now = 0
  BY DEF Init
<1> QED BY <1>7, <1>8 DEF Ahead, NothingOverdue

LEMMA TimingStep == TypeOK /\ NothingOverdue /\ [Next]_vars => NothingOverdue'
<1> SUFFICES ASSUME TypeOK, NothingOverdue, [Next]_vars PROVE NothingOverdue'
  OBVIOUS
<1>1. CASE queue_exhausted \/ UNCHANGED vars
  BY <1>1 DEF queue_exhausted, vars, NothingOverdue
<1>2. CASE \/ drop_stale \/ spawn_aircraft_table_full \/ spawn_aircraft
           \/ on_weather_change
  BY <1>2, SourceStepTimely, TimelyEnough
<1>3. ASSUME NEW f \in Flights,
             \/ on_runway_request(f)
             \/ on_emergency_moved_on(f)
             \/ on_emergency_lost(f)
             \/ on_emergency(f)
             \/ on_touchdown_go_around(f)
             \/ on_touchdown(f)
             \/ on_taxi_to_gate(f)
             \/ on_gate_release(f)
             \/ on_takeoff_ready(f)
             \/ on_takeoff_clear(f)
             \/ on_depart_sector(f)
      PROVE  NothingOverdue'
  <2>1. Timely(pq')
    BY <1>3, RunwayStepTimely, OtherStepTimely
  <2> QED BY <2>1, TimelyEnough
<1>4. CASE Command
  BY <1>4, CommandTimely, TimelyEnough
<1>5. CASE AdvanceClock
  BY <1>5, ClockTimely DEF NothingOverdue
<1> QED BY <1>1, <1>2, <1>3, <1>4, <1>5, Zenon DEF Next, sim_step

-----------------------------------------------------------------------------
(* The theorems.                                                           *)

\* In the interactive program no event is ever overdue, whatever the delays,
\* the order in which handlers and commands push events and however many are
\* pending; pq_push keeps the order that pqueue.h promises.
THEOREM NeverOverdue == Spec => []NothingOverdue
BY TimingInit, TimingStep, TypeCorrect, PTL DEF Spec

\* The same for the headless program.
THEOREM NeverOverdueBatch == BatchSpec => []NothingOverdue
<1>1. TypeOK /\ NothingOverdue /\ [sim_step]_vars => NothingOverdue'
  BY TimingStep DEF Next
<1> QED BY TimingInit, <1>1, TypeCorrectBatch, PTL DEF BatchSpec

\* So the clock never goes back: a step moves it to an event that is not
\* overdue, or ahead by part of a frame, or leaves it alone.
ClockForward == [][now <= now']_vars

THEOREM NeverBack == Spec => ClockForward
<1>1. TypeOK /\ NothingOverdue /\ [Next]_vars => [now <= now']_vars
  <2> SUFFICES ASSUME TypeOK, NothingOverdue, Next PROVE now <= now'
    BY DEF vars
  <2>1. CASE pq # <<>> /\ now' = Head(pq).time
    <3>1. pq \in Seq(AtcEvent(Flights)) /\ Len(pq) \in Nat /\ Len(pq) # 0
      BY <2>1, EmptySeq, LenProperties DEF TypeOK
    <3>2. Head(pq) = pq[1] /\ 1 \in DOMAIN pq
      BY <3>1, HeadTailProperties, LenProperties
    <3> QED BY <2>1, <3>2 DEF NothingOverdue
  <2>2. CASE now' = now
    BY <2>2 DEF TypeOK
  <2>3. CASE AdvanceClock
    BY <2>3, TimeAssumption DEF AdvanceClock, TypeOK, Positive
  <2>4. CASE sim_step
    <3>1. CASE queue_exhausted
      BY <2>2, <3>1 DEF queue_exhausted, vars
    <3>2. CASE \/ drop_stale \/ spawn_aircraft_table_full \/ spawn_aircraft
               \/ on_weather_change
      BY <2>1, <3>2 DEF drop_stale, spawn_aircraft_table_full, spawn_aircraft,
                        on_weather_change, Pop
    <3>3. ASSUME NEW f \in Flights,
                 \/ on_runway_request(f)
                 \/ on_emergency_moved_on(f)
                 \/ on_emergency_lost(f)
                 \/ on_emergency(f)
                 \/ on_touchdown_go_around(f)
                 \/ on_touchdown(f)
                 \/ on_taxi_to_gate(f)
                 \/ on_gate_release(f)
                 \/ on_takeoff_ready(f)
                 \/ on_takeoff_clear(f)
                 \/ on_depart_sector(f)
          PROVE  now <= now'
      <4>1. \E type : Pop(type)
        BY <3>3, Zenon DEF on_runway_request, on_emergency_moved_on,
           on_emergency_lost, on_emergency, on_touchdown_go_around,
           on_touchdown, on_taxi_to_gate, on_gate_release, on_takeoff_ready,
           on_takeoff_clear, on_depart_sector, Dispatch
      <4> QED BY <2>1, <4>1 DEF Pop
    <3> QED BY <2>4, <3>1, <3>2, <3>3, Zenon DEF sim_step
  <2>5. CASE Command
    BY <2>2, <2>5 DEF Command, sim_cmd_prioritize_inbound,
       sim_cmd_prioritize_holding, sim_cmd_divert, sim_cmd_go_around, Commanded
  <2> QED BY <2>3, <2>4, <2>5 DEF Next
<1> QED BY <1>1, TypeCorrect, NeverOverdue, PTL DEF Spec, ClockForward

-----------------------------------------------------------------------------
(* Rings that do not grow.                                                 *)

LEMMA EmptyRing ==
  ASSUME NEW ring \in Seq(Flights), Len(ring) <= 0
  PROVE  ring = <<>>
BY LenProperties, EmptySeq

\* Removing from a ring does not make it non-empty.
LEMMA RemoveFromEmpty ==
  ASSUME NEW f PROVE holding_remove(<<>>, f) = <<>>
<1>1. <<>> \in Seq(Flights) /\ Len(<<>>) = 0
  OBVIOUS
<1>2. /\ holding_remove(<<>>, f) \in Seq(Flights)
      /\ Len(holding_remove(<<>>, f)) <= Len(<<>>)
  BY <1>1, RemoveType
<1> QED BY <1>1, <1>2, EmptyRing

LEMMA UnqueuedEmpty ==
  ASSUME NEW f, holding = <<>> PROVE Unqueued(f) = <<>>
BY RemoveFromEmpty DEF Unqueued

-----------------------------------------------------------------------------
(* Runways.                                                                *)

RunwayWanted == holding # <<>> => NoIdleRunway(runways)

\* A flight that takes an idle runway leaves nobody behind, because nobody
\* waits while one is idle; otherwise all runways are busy.
LEMMA TryAssignHandover ==
  ASSUME NEW f, NEW fl, NEW ring, NEW q, NEW st,
         ring # <<>> => NoIdleRunway(runways),
         try_assign_landing(f, fl, runways, ring, q, st)
  PROVE  RunwayWanted'
<1>1. CASE \E rw \in find_idle_runway(runways) :
             ClearToLand(f, rw, fl, runways, ring, q, st, LandingWeight(fl[f]))
  <2>1. ~ NoIdleRunway(runways)
    BY <1>1 DEF find_idle_runway, NoIdleRunway
  <2>2. ring = <<>>
    BY <2>1
  <2>3. holding' = ring
    BY <1>1 DEF ClearToLand
  <2> QED BY <2>2, <2>3 DEF RunwayWanted
<1>2. CASE /\ NoIdleRunway(runways)
           /\ EnterHolding(f, fl, runways, ring, q, st, HOLD_RECHECK)
  BY <1>2 DEF EnterHolding, RunwayWanted, NoIdleRunway
<1> QED BY <1>1, <1>2 DEF try_assign_landing

\* A released runway is taken by a flight of the ring.  Either the ring then is
\* empty, or the released runway was the only idle one.
LEMMA FreeRunwayHandover ==
  ASSUME NEW rw, NEW fl, NEW ring \in Seq(Flights), NEW q, NEW st,
         runways \in [Runways -> Runway],
         Len(ring) <= 1 \/ NoIdleRunway(runways),
         free_runway(rw, fl, ring, q, st)
  PROVE  RunwayWanted'
<1> DEFINE rws == [runways EXCEPT ![rw] = [state |-> "RW_IDLE", occupant |-> None]]
<1>1. CASE ring = <<>> /\ holding' = ring
  BY <1>1 DEF RunwayWanted
<1>2. CASE \E k \in holding_pop_priority(ring, fl) :
             try_assign_landing(ring[k], fl, rws, RemoveAt(ring, k), q, st)
  <2>1. PICK k \in holding_pop_priority(ring, fl) :
             try_assign_landing(ring[k], fl, rws, RemoveAt(ring, k), q, st)
    BY <1>2
  <2>2. k \in 1 .. Len(ring)
    BY LenProperties DEF holding_pop_priority
  <2>3. CASE /\ NoIdleRunway(rws)
             /\ EnterHolding(ring[k], fl, rws, RemoveAt(ring, k), q, st,
                             HOLD_RECHECK)
    <3>1. runways' = rws
      BY <2>3 DEF EnterHolding
    <3> QED BY <2>3, <3>1 DEF RunwayWanted, NoIdleRunway
  <2>4. CASE \E r \in find_idle_runway(rws) :
               ClearToLand(ring[k], r, fl, rws, RemoveAt(ring, k), q, st,
                           LandingWeight(fl[ring[k]]))
    <3>1. PICK r \in find_idle_runway(rws) :
               ClearToLand(ring[k], r, fl, rws, RemoveAt(ring, k), q, st,
                           LandingWeight(fl[ring[k]]))
      BY <2>4
    <3>2. r \in Runways /\ rws[r].state = "RW_IDLE"
      BY DEF find_idle_runway
    <3>3. /\ runways' = [rws EXCEPT ![r] = [state |-> "RW_LANDING",
                                           occupant |-> ring[k]]]
          /\ holding' = RemoveAt(ring, k)
      BY <3>1 DEF ClearToLand
    <3>4. CASE Len(ring) <= 1
      <4>1. /\ RemoveAt(ring, k) \in Seq(Flights)
            /\ Len(RemoveAt(ring, k)) = Len(ring) - 1
        BY <2>2, RemoveAtType
      <4>2. Len(RemoveAt(ring, k)) <= 0
        BY <3>4, <4>1, LenProperties
      <4>3. holding' = <<>>
        BY <3>3, <4>1, <4>2, EmptyRing
      <4> QED BY <4>3 DEF RunwayWanted
    <3>5. CASE NoIdleRunway(runways)
      <4>1. r = rw
        BY <3>2, <3>5 DEF NoIdleRunway
      <4>2. \A x \in Runways : runways'[x].state # "RW_IDLE"
        BY <3>2, <3>3, <3>5, <4>1 DEF NoIdleRunway
      <4> QED BY <4>2 DEF RunwayWanted, NoIdleRunway
    <3> QED BY <3>4, <3>5
  <2> QED BY <2>1, <2>3, <2>4 DEF try_assign_landing
<1> QED BY <1>1, <1>2 DEF free_runway

\* Every step of a flight keeps the runways handed over.
LEMMA FlightRunway ==
  ASSUME TypeOK, RunwayWanted, NEW f \in Flights,
         \/ on_runway_request(f)
         \/ on_emergency_moved_on(f)
         \/ on_emergency_lost(f)
         \/ on_emergency(f)
         \/ on_touchdown_go_around(f)
         \/ on_touchdown(f)
         \/ on_taxi_to_gate(f)
         \/ on_gate_release(f)
         \/ on_takeoff_ready(f)
         \/ on_takeoff_clear(f)
         \/ on_depart_sector(f)
  PROVE  RunwayWanted'
<1>1. holding \in Seq(Flights) /\ runways \in [Runways -> Runway]
  BY DEF TypeOK
<1>2. Len(holding) <= 1 \/ NoIdleRunway(runways)
  BY DEF RunwayWanted
<1>3. CASE on_runway_request(f)
  <2>1. CASE UNCHANGED <<runways, holding>>
    BY <2>1 DEF RunwayWanted, NoIdleRunway
  <2>2. CASE \E fl : try_assign_landing(f, fl, runways, holding, Tail(pq), stats)
    BY <2>2, TryAssignHandover DEF RunwayWanted
  <2> QED BY <1>3, <2>1, <2>2, Zenon DEF on_runway_request
<1>4. CASE on_emergency_lost(f)
  <2>1. holding' = Unqueued(f) /\ runways' = runways
    BY <1>4 DEF on_emergency_lost
  <2> QED BY <2>1, UnqueuedEmpty DEF RunwayWanted, NoIdleRunway
<1>5. CASE on_emergency(f)
  <2>1. CASE NoIdleRunway(runways) /\ runways' = runways
    BY <2>1 DEF RunwayWanted, NoIdleRunway
  <2>2. CASE ~ NoIdleRunway(runways) /\ holding' = Unqueued(f)
    BY <2>2, UnqueuedEmpty DEF RunwayWanted
  <2>3. ASSUME NEW fl, NEW st, NEW rw \in find_idle_runway(runways),
               ClearToLand(f, rw, fl, runways, Unqueued(f), Tail(pq), st,
                           PRIO_EMERGENCY)
        PROVE  ~ NoIdleRunway(runways) /\ holding' = Unqueued(f)
    BY <2>3 DEF find_idle_runway, NoIdleRunway, ClearToLand
  <2> QED BY <1>5, <2>1, <2>2, <2>3, Zenon DEF on_emergency
<1>6. CASE on_touchdown_go_around(f)
  <2> DEFINE ring == holding_push(holding, f)
  <2>1. ring \in Seq(Flights) /\ (Len(ring) <= 1 \/ NoIdleRunway(runways))
    <3>1. ring \in Seq(Flights)
      BY <1>1, AppendProperties DEF holding_push
    <3>2. CASE holding = <<>>
      BY <1>1, <3>2, AppendProperties DEF holding_push
    <3> QED BY <3>1, <3>2 DEF RunwayWanted
  <2> HIDE DEF ring
  <2>2. \E rw, fl, q, st : free_runway(rw, fl, ring, q, st)
    BY <1>6, Zenon DEF on_touchdown_go_around, ring
  <2> QED BY <1>1, <2>1, <2>2, FreeRunwayHandover
<1>7. CASE on_touchdown(f) \/ on_takeoff_clear(f)
  <2>1. \E rw, fl, q, st : free_runway(rw, fl, holding, q, st)
    BY <1>7, Zenon DEF on_touchdown, on_takeoff_clear
  <2> QED BY <1>1, <1>2, <2>1, FreeRunwayHandover
<1>8. CASE on_takeoff_ready(f)
  <2>1. CASE UNCHANGED <<runways, holding>>
    BY <2>1 DEF RunwayWanted, NoIdleRunway
  <2>2. CASE ~ NoIdleRunway(runways) /\ holding' = holding
    BY <2>2 DEF RunwayWanted
  <2>3. ASSUME NEW rw \in find_idle_runway(runways)
        PROVE  ~ NoIdleRunway(runways)
    BY <2>3 DEF find_idle_runway, NoIdleRunway
  <2>4. holding' = holding
    BY <1>8 DEF on_takeoff_ready
  <2>5. (\E rw \in find_idle_runway(runways) : TRUE) \/ runways' = runways
    BY <1>8, Zenon DEF on_takeoff_ready
  <2> QED BY <2>1, <2>2, <2>3, <2>4, <2>5
<1>9. CASE \/ on_emergency_moved_on(f) \/ on_taxi_to_gate(f)
           \/ on_gate_release(f) \/ on_depart_sector(f)
  <2>1. UNCHANGED <<runways, holding>>
    BY <1>9 DEF on_emergency_moved_on, on_taxi_to_gate, on_gate_release,
                on_depart_sector
  <2> QED BY <2>1 DEF RunwayWanted, NoIdleRunway
<1> QED BY <1>3, <1>4, <1>5, <1>6, <1>7, <1>8, <1>9

\* ... and so does every command.
LEMMA CommandRunway ==
  ASSUME TypeOK, RunwayWanted, Command PROVE RunwayWanted'
<1>1. holding \in Seq(Flights) /\ runways \in [Runways -> Runway]
  BY DEF TypeOK
<1>2. ASSUME NEW f \in Flights,
             sim_cmd_prioritize_inbound(f) \/ sim_cmd_go_around(f)
      PROVE  RunwayWanted'
  BY <1>2 DEF sim_cmd_prioritize_inbound, sim_cmd_go_around, RunwayWanted,
              NoIdleRunway
<1>3. ASSUME NEW f \in Flights, sim_cmd_prioritize_holding(f)
      PROVE  RunwayWanted'
  <2> DEFINE ring == holding_remove(holding, f)
  <2>1. ring # <<>> => NoIdleRunway(runways)
    BY RemoveFromEmpty DEF RunwayWanted
  <2> HIDE DEF ring
  <2>2. \E fl : try_assign_landing(f, fl, runways, ring, pq, stats)
    BY <1>3, Zenon DEF sim_cmd_prioritize_holding, ring
  <2> QED BY <2>1, <2>2, TryAssignHandover
<1>4. ASSUME NEW f \in Flights, sim_cmd_divert(f)
      PROVE  RunwayWanted'
  <2>1. Unqueued(f) \in Seq(Flights)
    BY UnqueuedType
  <2>2. Len(Unqueued(f)) <= 1 \/ NoIdleRunway(runways)
    BY UnqueuedEmpty DEF RunwayWanted
  <2>3. \/ \E rw, fl, st : free_runway(rw, fl, Unqueued(f), pq, st)
        \/ holding' = Unqueued(f) /\ runways' = runways
    BY <1>4, Zenon DEF sim_cmd_divert
  <2>4. CASE \E rw, fl, st : free_runway(rw, fl, Unqueued(f), pq, st)
    BY <1>1, <2>1, <2>2, <2>4, FreeRunwayHandover
  <2>5. CASE holding' = Unqueued(f) /\ runways' = runways
    BY <2>5, UnqueuedEmpty DEF RunwayWanted, NoIdleRunway
  <2> QED BY <2>3, <2>4, <2>5
<1> QED BY <1>2, <1>3, <1>4 DEF Command

-----------------------------------------------------------------------------
(* Gates.                                                                  *)

GateWanted == taxi_wait # <<>> => NoVacantGate(gates)

\* A vacant gate is taken, or the flight joins the others on the taxiway.
LEMMA TryAssignGateHandover ==
  ASSUME NEW f, NEW fl, NEW gts, NEW ring, NEW q,
         gts \in [Gates -> Gate],
         \/ ring # <<>> => NoVacantGate(gts)
         \/ \E g \in Gates : \A h \in Gates \ {g} : gts[h].state # "GATE_VACANT",
         try_assign_gate(f, fl, gts, ring, q)
  PROVE  GateWanted'
<1>1. CASE NoVacantGate(gts) /\ gates' = gts
  BY <1>1 DEF GateWanted, NoVacantGate
<1>2. ASSUME NEW g \in find_vacant_gate(gts),
             gates' = [gts EXCEPT ![g] = [state |-> "GATE_OCCUPIED",
                                          occupant |-> f]],
             taxi_wait' = ring
      PROVE  GateWanted'
  <2>1. g \in Gates /\ gts[g].state = "GATE_VACANT"
    BY <1>2 DEF find_vacant_gate
  <2>2. CASE ring # <<>> => NoVacantGate(gts)
    BY <1>2, <2>1, <2>2 DEF GateWanted, NoVacantGate
  <2>3. CASE \E x \in Gates : \A h \in Gates \ {x} : gts[h].state # "GATE_VACANT"
    <3>1. \A h \in Gates : gates'[h].state # "GATE_VACANT"
      BY <1>2, <2>1, <2>3
    <3> QED BY <3>1 DEF GateWanted, NoVacantGate
  <2> QED BY <2>2, <2>3
<1> QED BY <1>1, <1>2, Zenon DEF try_assign_gate

LEMMA FlightGate ==
  ASSUME TypeOK, GateWanted, NEW f \in Flights,
         on_taxi_to_gate(f) \/ on_gate_release(f)
  PROVE  GateWanted'
<1>1. gates \in [Gates -> Gate]
  BY DEF TypeOK
<1>2. CASE on_taxi_to_gate(f)
  BY <1>1, <1>2, TryAssignGateHandover DEF on_taxi_to_gate, GateWanted
<1>3. CASE on_gate_release(f)
  <2> DEFINE free == [state |-> "GATE_VACANT", occupant |-> None]
             gts  == [gates EXCEPT ![flights[f].assigned_gate] = free]
  <2>1. \/ taxi_wait = <<>> /\ taxi_wait' = taxi_wait
        \/ /\ taxi_wait # <<>>
           /\ \E fl, q : try_assign_gate(Head(taxi_wait), fl, gts,
                                         Tail(taxi_wait), q)
    BY <1>3, Zenon DEF on_gate_release
  <2>2. CASE taxi_wait = <<>> /\ taxi_wait' = taxi_wait
    BY <2>2 DEF GateWanted
  <2>3. CASE /\ taxi_wait # <<>>
             /\ \E fl, q : try_assign_gate(Head(taxi_wait), fl, gts,
                                           Tail(taxi_wait), q)
    <3>1. NoVacantGate(gates)
      BY <2>3 DEF GateWanted
    <3>2. gts \in [Gates -> Gate]
      <4>1. free \in Gate
        BY DEF Gate
      <4> HIDE DEF free
      <4> QED BY <1>1, <4>1
    <3>3. \/ \A h \in Gates : gts[h].state # "GATE_VACANT"
          \/ \E g \in Gates : \A h \in Gates \ {g} : gts[h].state # "GATE_VACANT"
      BY <1>1, <3>1 DEF NoVacantGate
    <3> HIDE DEF gts
    <3>4. \/ Tail(taxi_wait) # <<>> => NoVacantGate(gts)
          \/ \E g \in Gates : \A h \in Gates \ {g} : gts[h].state # "GATE_VACANT"
      BY <3>3 DEF NoVacantGate
    <3> QED BY <2>3, <3>2, <3>4, TryAssignGateHandover
  <2> QED BY <2>1, <2>2, <2>3
<1> QED BY <1>2, <1>3

-----------------------------------------------------------------------------
(* The theorem.                                                            *)

\* A step that touches neither the rings nor the resources.
LEMMA HandoverUntouched ==
  ASSUME NothingIdleWhileWanted,
         UNCHANGED <<holding, taxi_wait, runways, gates>>
  PROVE  NothingIdleWhileWanted'
BY DEF NothingIdleWhileWanted, NoIdleRunway, NoVacantGate

LEMMA HandoverStep ==
  TypeOK /\ NothingIdleWhileWanted /\ [Next]_vars => NothingIdleWhileWanted'
<1> SUFFICES ASSUME TypeOK, NothingIdleWhileWanted, [Next]_vars
             PROVE  NothingIdleWhileWanted'
  OBVIOUS
<1>1. RunwayWanted /\ GateWanted
  BY DEF NothingIdleWhileWanted, RunwayWanted, GateWanted
<1>2. RunwayWanted' /\ GateWanted' => NothingIdleWhileWanted'
  BY DEF NothingIdleWhileWanted, RunwayWanted, GateWanted
<1>3. UNCHANGED <<taxi_wait, gates>> => GateWanted'
  BY <1>1 DEF GateWanted, NoVacantGate
<1>4. CASE \/ queue_exhausted \/ drop_stale \/ spawn_aircraft_table_full
           \/ spawn_aircraft \/ on_weather_change \/ AdvanceClock
           \/ UNCHANGED vars
  <2>1. UNCHANGED <<holding, taxi_wait, runways, gates>>
    BY <1>4 DEF queue_exhausted, drop_stale, spawn_aircraft_table_full,
                spawn_aircraft, on_weather_change, AdvanceClock, vars
  <2> QED BY <2>1, HandoverUntouched
<1>5. ASSUME NEW f \in Flights,
             \/ on_runway_request(f)
             \/ on_emergency_moved_on(f)
             \/ on_emergency_lost(f)
             \/ on_emergency(f)
             \/ on_touchdown_go_around(f)
             \/ on_touchdown(f)
             \/ on_taxi_to_gate(f)
             \/ on_gate_release(f)
             \/ on_takeoff_ready(f)
             \/ on_takeoff_clear(f)
             \/ on_depart_sector(f)
      PROVE  NothingIdleWhileWanted'
  <2>1. RunwayWanted'
    BY <1>1, <1>5, FlightRunway
  <2>2. GateWanted'
    <3>1. CASE on_taxi_to_gate(f) \/ on_gate_release(f)
      BY <1>1, <3>1, FlightGate
    <3>2. CASE ~ (on_taxi_to_gate(f) \/ on_gate_release(f))
      <4>1. UNCHANGED <<taxi_wait, gates>>
        BY <1>5, <3>2, Zenon DEF on_runway_request, on_emergency_moved_on,
           on_emergency_lost, on_emergency, on_touchdown_go_around,
           on_touchdown, on_takeoff_ready, on_takeoff_clear, on_depart_sector
      <4> QED BY <1>3, <4>1
    <3> QED BY <3>1, <3>2
  <2> QED BY <1>2, <2>1, <2>2
<1>6. CASE Command
  <2>1. RunwayWanted'
    BY <1>1, <1>6, CommandRunway
  <2>2. UNCHANGED <<taxi_wait, gates>>
    BY <1>6 DEF Command, sim_cmd_prioritize_inbound,
       sim_cmd_prioritize_holding, sim_cmd_divert, sim_cmd_go_around
  <2> QED BY <1>2, <1>3, <2>1, <2>2
<1> QED BY <1>4, <1>5, <1>6, Zenon DEF Next, sim_step

\* In the interactive program a released runway or gate never stays idle while
\* a flight waits for it, for any number of runways, gates and flights and any
\* size of the rings: free_runway and on_gate_release hand it over in the same
\* step, and a flight joins a ring only when nothing is idle.
THEOREM HandedOver == Spec => []NothingIdleWhileWanted
<1>1. Init => NothingIdleWhileWanted
  BY DEF Init, NothingIdleWhileWanted
<1> QED BY <1>1, HandoverStep, TypeCorrect, PTL DEF Spec

\* The same for the headless program.
THEOREM HandedOverBatch == BatchSpec => []NothingIdleWhileWanted
<1>1. Init => NothingIdleWhileWanted
  BY DEF Init, NothingIdleWhileWanted
<1>2. TypeOK /\ NothingIdleWhileWanted /\ [sim_step]_vars
        => NothingIdleWhileWanted'
  BY HandoverStep DEF Next
<1> QED BY <1>1, <1>2, TypeCorrectBatch, PTL DEF BatchSpec
-----------------------------------------------------------------------------
(* Counting the pending events of a flight.                                *)

\* How many elements of sequence s are in P.
HowMany(s, P) == Cardinality({i \in DOMAIN s : s[i] \in P})

LEMMA HowManyType ==
  ASSUME NEW S, NEW s \in Seq(S), NEW P
  PROVE  HowMany(s, P) \in Nat
<1>1. Len(s) \in Nat /\ {i \in DOMAIN s : s[i] \in P} \in SUBSET (1 .. Len(s))
  BY LenProperties
<1> QED BY <1>1, Positions DEF HowMany

\* Positions counted one by one: a set and its image under a one-to-one map.
LEMMA SameSize ==
  ASSUME NEW A, IsFiniteSet(A), NEW B, NEW shift \in [A -> B],
         \A i, j \in A : shift[i] = shift[j] => i = j,
         \A b \in B : \E i \in A : shift[i] = b
  PROVE  IsFiniteSet(B) /\ Cardinality(B) = Cardinality(A)
<1>1. shift \in Bijection(A, B)
  BY DEF Bijection, Injection, Surjection, IsInjective
<1>2. ExistsBijection(A, B)
  BY <1>1 DEF ExistsBijection
<1> QED BY <1>2, FS_Bijection

\* An inserted element counts if it is in P, the others count as before.
LEMMA HowManyInsert ==
  ASSUME NEW S, NEW s \in Seq(S), NEW p \in 1 .. Len(s) + 1, NEW e \in S, NEW P
  PROVE  HowMany(InsertAt(s, p, e), P)
           = HowMany(s, P) + (IF e \in P THEN 1 ELSE 0)
<1> DEFINE n == Len(s)
           r == InsertAt(s, p, e)
           A == {i \in DOMAIN s : s[i] \in P}
           B == {k \in DOMAIN r : r[k] \in P /\ k # p}
           shift == [i \in A |-> IF i < p THEN i ELSE i + 1]
<1>1. n \in Nat /\ DOMAIN s = 1..n
  BY LenProperties
<1>2. r \in Seq(S) /\ Len(r) = n + 1 /\ DOMAIN r = 1 .. n + 1
  <2>1. r \in Seq(S) /\ Len(r) = n + 1
    BY InsertAtType
  <2> QED BY <2>1, LenProperties
<1>3. \A k \in 1 .. n + 1 : /\ k < p => r[k] = s[k]
                            /\ k = p => r[k] = e
                            /\ k > p => r[k] = s[k - 1]
  BY InsertAtElements
<1> HIDE DEF n, r
<1>4. A \in SUBSET (1..n)
  BY <1>1
<1>5. p \in 1 .. n + 1
  BY DEF n
<1>6. shift \in [A -> B]
  <2> SUFFICES ASSUME NEW i \in A
               PROVE  (IF i < p THEN i ELSE i + 1) \in B
    OBVIOUS
  <2>1. i \in 1..n /\ s[i] \in P
    BY <1>1
  <2>2. CASE i < p
    BY <1>1, <1>2, <1>3, <1>5, <2>1, <2>2
  <2>3. CASE ~ (i < p)
    <3>1. i + 1 \in 1 .. n + 1 /\ i + 1 > p /\ (i + 1) - 1 = i
      BY <1>1, <1>5, <2>1, <2>3
    <3> QED BY <1>2, <1>3, <2>1, <2>3, <3>1
  <2> QED BY <2>2, <2>3
<1>7. \A i, j \in A : shift[i] = shift[j] => i = j
  BY <1>4, <1>5
<1>8. \A b \in B : \E i \in A : shift[i] = b
  <2> SUFFICES ASSUME NEW b \in B PROVE \E i \in A : shift[i] = b
    OBVIOUS
  <2>1. b \in 1 .. n + 1 /\ r[b] \in P /\ b # p
    BY <1>2
  <2>2. CASE b < p
    BY <1>1, <1>3, <1>5, <2>1, <2>2
  <2>3. CASE b > p
    <3>1. b - 1 \in 1..n /\ ~ (b - 1 < p) /\ (b - 1) + 1 = b
      BY <1>1, <1>5, <2>1, <2>3
    <3>2. b - 1 \in A
      BY <1>1, <1>3, <2>1, <2>3, <3>1
    <3> QED BY <3>1, <3>2
  <2> QED BY <1>5, <2>1, <2>2, <2>3
<1> HIDE DEF A, B, shift
<1>9. IsFiniteSet(B) /\ Cardinality(B) = Cardinality(A)
  <2>1. IsFiniteSet(A)
    BY <1>1, <1>4, Positions
  <2> QED BY <1>6, <1>7, <1>8, <2>1, SameSize
<1>10. HowMany(s, P) = Cardinality(A)
  BY DEF HowMany, A
<1>11. HowMany(r, P) = Cardinality({k \in DOMAIN r : r[k] \in P})
  BY DEF HowMany
<1>12. Cardinality(A) \in Nat
  BY <1>1, <1>4, Positions
<1>13. CASE e \in P
  <2>1. {k \in DOMAIN r : r[k] \in P} = B \cup {p} /\ p \notin B
    BY <1>2, <1>3, <1>5, <1>13 DEF B
  <2>2. Cardinality(B \cup {p}) = Cardinality(B) + 1
    BY <1>9, <2>1, FS_AddElement
  <2> QED BY <1>9, <1>10, <1>11, <1>13, <2>1, <2>2 DEF r
<1>14. CASE e \notin P
  <2>1. {k \in DOMAIN r : r[k] \in P} = B
    BY <1>2, <1>3, <1>5, <1>14 DEF B
  <2>2. HowMany(r, P) = Cardinality(A)
    BY <1>9, <1>11, <2>1
  <2> QED BY <1>10, <1>12, <1>14, <2>2 DEF r
<1> QED BY <1>13, <1>14

\* The first element counts if it is in P, the rest as before.
LEMMA HowManyTail ==
  ASSUME NEW S, NEW s \in Seq(S), s # <<>>, NEW P
  PROVE  HowMany(Tail(s), P) = HowMany(s, P) - (IF Head(s) \in P THEN 1 ELSE 0)
<1> DEFINE n == Len(s)
           r == Tail(s)
           A == {k \in DOMAIN r : r[k] \in P}
           B == {i \in DOMAIN s : s[i] \in P /\ i # 1}
           shift == [k \in A |-> k + 1]
<1>1. n \in Nat /\ DOMAIN s = 1..n /\ n # 0
  BY LenProperties, EmptySeq
<1>2. /\ r \in Seq(S) /\ Len(r) = n - 1 /\ Head(s) = s[1]
      /\ \A k \in 1 .. n - 1 : r[k] = s[k + 1]
  BY <1>1, HeadTailProperties
<1>3. DOMAIN r = 1 .. n - 1 /\ n - 1 \in Nat
  BY <1>1, <1>2, LenProperties
<1> HIDE DEF n, r
<1>4. A \in SUBSET (1 .. n - 1)
  BY <1>3
<1>5. shift \in [A -> B]
  <2> SUFFICES ASSUME NEW k \in A PROVE k + 1 \in B
    OBVIOUS
  <2>1. k \in 1 .. n - 1 /\ r[k] \in P
    BY <1>3
  <2> QED BY <1>1, <1>2, <2>1
<1>6. \A i, j \in A : shift[i] = shift[j] => i = j
  BY <1>4
<1>7. \A b \in B : \E k \in A : shift[k] = b
  <2> SUFFICES ASSUME NEW b \in B PROVE \E k \in A : shift[k] = b
    OBVIOUS
  <2>1. b - 1 \in 1 .. n - 1 /\ (b - 1) + 1 = b
    BY <1>1
  <2>2. b - 1 \in A
    BY <1>1, <1>2, <1>3, <2>1
  <2> QED BY <2>1, <2>2
<1> HIDE DEF A, B, shift
<1>8. IsFiniteSet(B) /\ Cardinality(B) = Cardinality(A)
  <2>1. IsFiniteSet(A)
    BY <1>3, <1>4, Positions
  <2> QED BY <1>5, <1>6, <1>7, <2>1, SameSize
<1>9. HowMany(r, P) = Cardinality(A)
  BY DEF HowMany, A
<1>10. HowMany(s, P) = Cardinality({i \in DOMAIN s : s[i] \in P})
  BY DEF HowMany
<1>11. Cardinality(A) \in Nat
  BY <1>3, <1>4, Positions
<1>12. CASE Head(s) \in P
  <2>1. {i \in DOMAIN s : s[i] \in P} = B \cup {1} /\ 1 \notin B
    BY <1>1, <1>2, <1>12 DEF B
  <2>2. Cardinality(B \cup {1}) = Cardinality(B) + 1
    BY <1>8, <2>1, FS_AddElement
  <2>3. HowMany(s, P) = Cardinality(A) + 1
    BY <1>8, <1>10, <2>1, <2>2
  <2> QED BY <1>9, <1>11, <1>12, <2>3 DEF r
<1>13. CASE Head(s) \notin P
  <2>1. {i \in DOMAIN s : s[i] \in P} = B
    BY <1>1, <1>2, <1>13 DEF B
  <2>2. HowMany(s, P) = Cardinality(A)
    BY <1>8, <1>10, <2>1
  <2> QED BY <1>9, <1>11, <1>13, <2>2 DEF r
<1> QED BY <1>12, <1>13

\* How many events of flight f with a type in T queue q holds.
Count(q, f, T) ==
    Cardinality({i \in DOMAIN q : q[i].flight = f /\ q[i].type \in T})

Of(f, T) == {e \in AtcEvent(Flights) : e.flight = f /\ e.type \in T}

LEMMA CountHowMany ==
  ASSUME NEW q \in Seq(AtcEvent(Flights)), NEW f, NEW T
  PROVE  Count(q, f, T) = HowMany(q, Of(f, T))
<1>1. \A i \in DOMAIN q : q[i] \in AtcEvent(Flights)
  BY ElementOfSeq, LenProperties
<1>2. {i \in DOMAIN q : q[i].flight = f /\ q[i].type \in T}
        = {i \in DOMAIN q : q[i] \in Of(f, T)}
  BY <1>1 DEF Of
<1> QED BY <1>2 DEF Count, HowMany

LEMMA CountType ==
  ASSUME NEW q \in Seq(AtcEvent(Flights)), NEW f, NEW T
  PROVE  Count(q, f, T) \in Nat
BY CountHowMany, HowManyType

LEMMA CountSchedule ==
  ASSUME NEW q \in Seq(AtcEvent(Flights)), NEW g \in Flights,
         NEW type \in EventType, NEW time \in Nat,
         NEW weight \in PRIO_EMERGENCY .. PRIO_ROUTINE, NEW f, NEW T
  PROVE  Count(schedule(q, g, type, time, weight), f, T)
           = Count(q, f, T) + (IF f = g /\ type \in T THEN 1 ELSE 0)
<1> DEFINE e == [flight |-> g, type |-> type, time |-> time, weight |-> weight]
           p == 1 + Cardinality({i \in DOMAIN q : ~ ev_less(e, q[i])})
           r == InsertAt(q, p, e)
<1>1. e \in AtcEvent(Flights)
  BY DEF AtcEvent
<1>2. e \in Of(f, T) <=> f = g /\ type \in T
  BY <1>1 DEF Of
<1>3. schedule(q, g, type, time, weight) = r
  BY DEF schedule, pq_push
<1>4. p \in 1 .. Len(q) + 1
  <2>1. Len(q) \in Nat /\ {i \in DOMAIN q : ~ ev_less(e, q[i])} \in SUBSET (1 .. Len(q))
    BY LenProperties
  <2> HIDE DEF e
  <2> QED BY <2>1, Positions
<1> HIDE DEF e, p
<1>5. HowMany(r, Of(f, T)) = HowMany(q, Of(f, T)) + (IF e \in Of(f, T) THEN 1 ELSE 0)
  BY <1>1, <1>4, HowManyInsert
<1>6. r \in Seq(AtcEvent(Flights))
  BY <1>1, <1>4, InsertAtType
<1> HIDE DEF r
<1> QED BY <1>2, <1>3, <1>5, <1>6, CountHowMany

LEMMA CountTail ==
  ASSUME NEW q \in Seq(AtcEvent(Flights)), q # <<>>, NEW f, NEW T
  PROVE  Count(Tail(q), f, T)
           = Count(q, f, T)
             - (IF f = Head(q).flight /\ Head(q).type \in T THEN 1 ELSE 0)
<1>1. Head(q) \in AtcEvent(Flights) /\ Tail(q) \in Seq(AtcEvent(Flights))
  BY HeadTailProperties
<1>2. Head(q) \in Of(f, T) <=> f = Head(q).flight /\ Head(q).type \in T
  BY <1>1 DEF Of
<1>3. HowMany(Tail(q), Of(f, T))
        = HowMany(q, Of(f, T)) - (IF Head(q) \in Of(f, T) THEN 1 ELSE 0)
  BY HowManyTail
<1> QED BY <1>1, <1>2, <1>3, CountHowMany

LEMMA PendingFinite ==
  ASSUME pq \in Seq(AtcEvent(Flights)), NEW f, NEW T
  PROVE  IsFiniteSet(Pending(f, T)) /\ Cardinality(Pending(f, T)) = Count(pq, f, T)
<1>1. Len(pq) \in Nat /\ Pending(f, T) \in SUBSET (1 .. Len(pq))
  BY LenProperties DEF Pending
<1> QED BY <1>1, Positions DEF Count, Pending

\* A type more, no event less.
LEMMA CountMono ==
  ASSUME NEW q \in Seq(AtcEvent(Flights)), NEW f, NEW T, NEW U, T \subseteq U
  PROVE  Count(q, f, T) <= Count(q, f, U)
<1> DEFINE A == {i \in DOMAIN q : q[i].flight = f /\ q[i].type \in T}
           B == {i \in DOMAIN q : q[i].flight = f /\ q[i].type \in U}
<1>1. Len(q) \in Nat /\ A \in SUBSET (1 .. Len(q)) /\ B \in SUBSET (1 .. Len(q))
  BY LenProperties
<1>2. IsFiniteSet(B)
  BY <1>1, Positions
<1>3. A \subseteq B
  OBVIOUS
<1>4. Cardinality(A) <= Cardinality(B)
  BY <1>2, <1>3, FS_Subset
<1> QED BY <1>4 DEF Count

\* Queue r is queue q with one more event, of type type for flight f.
Plans(q, r, f, type) ==
    /\ r \in Seq(AtcEvent(Flights))
    /\ \A g \in Flights, T \in SUBSET EventType :
           Count(r, g, T) = Count(q, g, T)
                            + (IF g = f /\ type \in T THEN 1 ELSE 0)

LEMMA SchedulePlans ==
  ASSUME NEW q \in Seq(AtcEvent(Flights)), NEW f \in Flights,
         NEW type \in EventType, NEW time \in Nat,
         NEW weight \in PRIO_EMERGENCY .. PRIO_ROUTINE
  PROVE  Plans(q, schedule(q, f, type, time, weight), f, type)
<1> DEFINE r == schedule(q, f, type, time, weight)
<1>1. r \in Seq(AtcEvent(Flights))
  BY ScheduleType
<1>2. \A g \in Flights, T \in SUBSET EventType :
          Count(r, g, T) = Count(q, g, T)
                           + (IF g = f /\ type \in T THEN 1 ELSE 0)
  BY CountSchedule
<1> QED BY <1>1, <1>2 DEF Plans

LEMMA CheckFuelPlans ==
  ASSUME NEW q \in Seq(AtcEvent(Flights)), NEW f \in Flights, NEW a,
         NEW delay \in Nat, now' \in Nat
  PROVE  Plans(q, CheckFuelAfter(q, f, a, delay), f, "EVENT_EMERGENCY_FUEL")
<1>1. now' + delay \in Nat
  BY Later
<1>2. "EVENT_EMERGENCY_FUEL" \in EventType
  BY Types
<1>3. LandingWeight(a) \in PRIO_EMERGENCY .. PRIO_ROUTINE
  BY WeightType
<1> QED BY <1>1, <1>2, <1>3, SchedulePlans DEF CheckFuelAfter

-----------------------------------------------------------------------------
(* Rings from which a flight was taken.                                    *)

InRing(r, f) == \E k \in DOMAIN r : r[k] = f

\* What is left of a ring is in it, in the same order, and each flight once if
\* it was in the ring once.
Thinned(r, ring) ==
    /\ r \in Seq(Flights)
    /\ \E m \in [DOMAIN r -> DOMAIN ring] :
           /\ \A k \in DOMAIN r : r[k] = ring[m[k]]
           /\ \A j, k \in DOMAIN r : j < k => m[j] < m[k]

LEMMA ThinnedInjective ==
  ASSUME NEW ring \in Seq(Flights), IsInjective(ring), NEW r, Thinned(r, ring)
  PROVE  /\ IsInjective(r)
         /\ \A k \in DOMAIN r : InRing(ring, r[k])
<1>1. PICK m \in [DOMAIN r -> DOMAIN ring] :
           /\ \A k \in DOMAIN r : r[k] = ring[m[k]]
           /\ \A j, k \in DOMAIN r : j < k => m[j] < m[k]
  BY DEF Thinned
<1>2. DOMAIN r = 1 .. Len(r) /\ Len(r) \in Nat
  BY LenProperties DEF Thinned
<1>3. DOMAIN ring = 1 .. Len(ring) /\ Len(ring) \in Nat
  BY LenProperties
<1>4. ASSUME NEW j \in DOMAIN r, NEW k \in DOMAIN r, r[j] = r[k]
      PROVE  j = k
  <2>1. ring[m[j]] = ring[m[k]]
    BY <1>1, <1>4
  <2>2. m[j] = m[k]
    BY <1>1, <2>1 DEF IsInjective
  <2>3. m[j] \in Int /\ m[k] \in Int
    BY <1>1, <1>3
  <2> QED BY <1>1, <1>2, <2>2, <2>3
<1> QED BY <1>1, <1>4 DEF IsInjective, InRing

LEMMA RemoveAtThins ==
  ASSUME NEW ring \in Seq(Flights), NEW i \in 1 .. Len(ring)
  PROVE  /\ Thinned(RemoveAt(ring, i), ring)
         /\ \A k \in DOMAIN RemoveAt(ring, i) :
                RemoveAt(ring, i)[k] = IF k < i THEN ring[k] ELSE ring[k + 1]
<1> DEFINE n     == Len(ring)
           r     == RemoveAt(ring, i)
           front == SubSeq(ring, 1, i-1)
           back  == SubSeq(ring, i+1, Len(ring))
           m     == [k \in DOMAIN r |-> IF k < i THEN k ELSE k + 1]
<1>1. n \in Nat /\ DOMAIN ring = 1..n /\ i \in 1..n
  BY LenProperties
<1>2. r \in Seq(Flights) /\ Len(r) = n - 1 /\ DOMAIN r = 1 .. n - 1
  <2>1. r \in Seq(Flights) /\ Len(r) = n - 1
    BY RemoveAtType
  <2> QED BY <2>1, LenProperties
<1>3. /\ front \in Seq(Flights) /\ Len(front) = i - 1
      /\ \A j \in 1 .. i-1 : front[j] = ring[j]
  BY SubSeqProperties, ElementOfSeq
<1>4. /\ back \in Seq(Flights) /\ Len(back) = n - i
      /\ \A j \in 1 .. n - i : back[j] = ring[(i + 1) + j - 1]
  BY SubSeqProperties, ElementOfSeq
<1>5. r = front \o back
  BY DEF RemoveAt
<1> HIDE DEF n, r, front, back
<1>6. \A k \in 1 .. n - 1 : r[k] = IF k < i THEN ring[k] ELSE ring[k + 1]
  <2> SUFFICES ASSUME NEW k \in 1 .. n - 1
               PROVE  r[k] = IF k < i THEN ring[k] ELSE ring[k + 1]
    OBVIOUS
  <2>1. CASE k < i
    <3>1. (front \o back)[k] = front[k]
      BY <1>1, <1>3, <1>4, <2>1, ConcatProperties
    <3> QED BY <1>1, <1>3, <1>5, <2>1, <3>1
  <2>2. CASE ~ (k < i)
    <3>1. k - (i - 1) \in 1 .. n - i /\ (i + 1) + (k - (i - 1)) - 1 = k + 1
      BY <1>1, <2>2
    <3>2. (front \o back)[k] = back[k - (i - 1)]
      BY <1>1, <1>3, <1>4, <2>2, ConcatProperties
    <3>3. back[k - (i - 1)] = ring[k + 1]
      BY <1>4, <3>1
    <3> QED BY <1>5, <2>2, <3>2, <3>3
  <2> QED BY <2>1, <2>2
<1>7. m \in [DOMAIN r -> DOMAIN ring]
  BY <1>1, <1>2
<1>8. \A k \in DOMAIN r : r[k] = ring[m[k]]
  BY <1>2, <1>6
<1>9. \A j, k \in DOMAIN r : j < k => m[j] < m[k]
  BY <1>1, <1>2
<1> QED BY <1>2, <1>6, <1>7, <1>8, <1>9 DEF Thinned, r

\* Only the flight at that place leaves the ring.
LEMMA RemoveAtLeaves ==
  ASSUME NEW ring \in Seq(Flights), IsInjective(ring), NEW i \in 1 .. Len(ring)
  PROVE  \A f \in Flights :
             InRing(RemoveAt(ring, i), f) <=> InRing(ring, f) /\ f # ring[i]
<1> DEFINE n == Len(ring)
           r == RemoveAt(ring, i)
<1>1. n \in Nat /\ DOMAIN ring = 1..n /\ i \in 1..n
  BY LenProperties
<1>2. r \in Seq(Flights) /\ Len(r) = n - 1 /\ DOMAIN r = 1 .. n - 1
  <2>1. r \in Seq(Flights) /\ Len(r) = n - 1
    BY RemoveAtType
  <2> QED BY <2>1, LenProperties
<1>3. \A k \in DOMAIN r : r[k] = IF k < i THEN ring[k] ELSE ring[k + 1]
  BY RemoveAtThins
<1> HIDE DEF n, r
<1> SUFFICES ASSUME NEW f \in Flights
             PROVE  InRing(r, f) <=> InRing(ring, f) /\ f # ring[i]
  BY DEF r
<1>4. ASSUME NEW k \in 1 .. n - 1, r[k] = f
      PROVE  InRing(ring, f) /\ f # ring[i]
  <2>1. CASE k < i
    <3>1. k \in 1..n /\ ring[k] = f /\ k # i
      BY <1>1, <1>2, <1>3, <1>4, <2>1
    <3> QED BY <1>1, <3>1 DEF InRing, IsInjective
  <2>2. CASE ~ (k < i)
    <3>1. k + 1 \in 1..n /\ ring[k + 1] = f /\ k + 1 # i
      BY <1>1, <1>2, <1>3, <1>4, <2>2
    <3> QED BY <1>1, <3>1 DEF InRing, IsInjective
  <2> QED BY <2>1, <2>2
<1>5. ASSUME NEW k \in 1..n, ring[k] = f, f # ring[i]
      PROVE  InRing(r, f)
  <2>1. CASE k < i
    <3>1. k \in DOMAIN r /\ r[k] = f
      BY <1>1, <1>2, <1>3, <1>5, <2>1
    <3> QED BY <3>1 DEF InRing
  <2>2. CASE ~ (k < i)
    <3>1. k - 1 \in DOMAIN r /\ ~ (k - 1 < i) /\ (k - 1) + 1 = k
      BY <1>1, <1>2, <1>5, <2>2
    <3>2. r[k - 1] = f
      BY <1>3, <1>5, <3>1
    <3> QED BY <3>1, <3>2 DEF InRing
  <2> QED BY <2>1, <2>2
<1> QED BY <1>1, <1>2, <1>4, <1>5 DEF InRing

\* holding_remove thins the ring and leaves no place to the flight.
LEMMA RemoveThins ==
  ASSUME NEW ring \in Seq(Flights), NEW f
  PROVE  /\ Thinned(holding_remove(ring, f), ring)
         /\ ~ InRing(holding_remove(ring, f), f)
<1> DEFINE keep == {i \in DOMAIN ring : ring[i] # f}
           size == Cardinality(keep)
           slot(k) == CHOOSE i \in keep : Cardinality(keep \cap 1..i) = k
           r == holding_remove(ring, f)
           m == [k \in 1..size |-> slot(k)]
<1>1. keep \in SUBSET (1 .. Len(ring)) /\ Len(ring) \in Nat
  BY LenProperties
<1>2. size \in Nat /\ IsFiniteSet(keep)
  BY <1>1, Positions
<1>3. r = [k \in 1..size |-> ring[slot(k)]]
  BY DEF holding_remove
<1>4. r \in Seq(Flights)
  BY RemoveType
<1>5. DOMAIN r = 1..size
  BY <1>3
<1> HIDE DEF keep, size, r
<1>6. \A k \in 1..size : slot(k) \in keep /\ Cardinality(keep \cap 1..slot(k)) = k
  <2> SUFFICES ASSUME NEW k \in 1..size
               PROVE  slot(k) \in keep /\ Cardinality(keep \cap 1..slot(k)) = k
    OBVIOUS
  <2>1. \E i \in keep : Cardinality(keep \cap 1..i) = k
    BY <1>1, Rank DEF size
  <2> QED BY <2>1, Zenon
<1> HIDE DEF slot
<1>7. \A k \in 1..size : r[k] = ring[m[k]] /\ ring[m[k]] # f
  <2>1. \A k \in 1..size : ring[slot(k)] # f
    BY <1>6 DEF keep
  <2> QED BY <1>3, <2>1
<1>8. m \in [DOMAIN r -> DOMAIN ring]
  BY <1>1, <1>5, <1>6 DEF keep
<1>9. \A j, k \in 1..size : j < k => m[j] < m[k]
  <2> SUFFICES ASSUME NEW j \in 1..size, NEW k \in 1..size, j < k,
                      ~ (slot(j) < slot(k))
               PROVE  FALSE
    OBVIOUS
  <2>1. slot(j) \in Int /\ slot(k) \in Int
    <3>1. slot(j) \in keep /\ slot(k) \in keep
      BY <1>6
    <3>2. keep \subseteq Int
      BY <1>1
    <3> QED BY <3>1, <3>2
  <2>2. keep \cap 1..slot(k) \subseteq keep \cap 1..slot(j)
    BY <2>1
  <2>3. IsFiniteSet(keep \cap 1..slot(j))
    BY <1>2, FS_Intersection
  <2>4. Cardinality(keep \cap 1..slot(k)) <= Cardinality(keep \cap 1..slot(j))
    BY <2>2, <2>3, FS_Subset
  <2> QED BY <1>6, <2>4
<1> QED BY <1>4, <1>5, <1>7, <1>8, <1>9 DEF Thinned, InRing, r

-----------------------------------------------------------------------------
(* What ties flights to runways, gates, rings and pending events.          *)
(*                                                                         *)
(* Handlers take a flight out of one place before they put it in another.  *)
(* The set H holds the flight that is in hand meanwhile, if there is one:  *)
(* it has no runway, no gate, no place in a ring and nothing pending that  *)
(* would move it on.  Between two steps nobody is in hand.                 *)

Movers == EventType \ {"EVENT_AIRCRAFT_ARRIVE", "EVENT_WEATHER_CHANGE",
                       "EVENT_EMERGENCY_FUEL"}
Fuel == {"EVENT_EMERGENCY_FUEL"}
Asking == {"EVENT_RUNWAY_REQUEST"}

RunwayFits(a, rws) ==
    LET rw == a.assigned_runway IN
    /\ a.state = "AC_LANDING" <=> rw # None /\ rws[rw].state = "RW_LANDING"
    /\ a.state = "AC_DEPARTING" <=> rw # None /\ rws[rw].state = "RW_TAKEOFF"

RunwaysTied(H, fl, rws) ==
    /\ \A rw \in Runways, f \in Flights :
           rws[rw].occupant = f <=> fl[f].assigned_runway = rw
    /\ \A rw \in Runways : rws[rw].state = "RW_IDLE" <=> rws[rw].occupant = None
    /\ \A f \in Flights \ H : RunwayFits(fl[f], rws)
    /\ \A f \in H : fl[f].assigned_runway = None

GatesTied(H, fl, gts) ==
    /\ \A g \in Gates, f \in Flights :
           gts[g].occupant = f <=> fl[f].assigned_gate = g
    /\ \A g \in Gates : gts[g].state = "GATE_VACANT" <=> gts[g].occupant = None
    /\ \A f \in Flights \ H :
           fl[f].state = "AC_AT_GATE" <=> fl[f].assigned_gate # None
    /\ \A f \in H : fl[f].assigned_gate = None

\* The members of a ring are other flights of the table, in this state.
Waiting(r, H, fl, n, state) ==
    /\ IsInjective(r)
    /\ \A k \in DOMAIN r : /\ r[k] \in 0 .. n-1 /\ r[k] \notin H
                           /\ fl[r[k]].state = state

RingsTied(H, fl, ring, taxi, n) ==
    /\ Waiting(ring, H, fl, n, "AC_HOLDING")
    /\ Waiting(taxi, H, fl, n, "AC_TAXI_IN")

\* What is pending in q for a flight in a state that waits for events.
Driven(state, parked, q, f) ==
    /\ state = "AC_HOLDING" =>
           Count(q, f, Movers) = 0 /\ Count(q, f, Fuel) >= 1
    /\ state = "AC_INBOUND" =>
           /\ Count(q, f, Movers) = Count(q, f, Asking)
           /\ Count(q, f, Asking \cup Fuel) = 1
    /\ state \notin {"AC_HOLDING", "AC_INBOUND"} =>
           IF parked THEN Count(q, f, Movers) = 0
           ELSE Count(q, f, Movers) = 1 /\ Count(q, f, {Awaited[state]}) = 1

\* Flights that are not in the table yet are as sim_init left them.
DrivenFor(f, H, fl, taxi, q, n) ==
    /\ f \in H => f < n /\ \A T \in SUBSET Movers : Count(q, f, T) = 0
    /\ f \notin H /\ f < n /\ fl[f].state \notin Gone =>
           Driven(fl[f].state, InRing(taxi, f), q, f)
    /\ ~ (f < n) =>
           /\ fl[f].state = "AC_INBOUND"
           /\ \A T \in SUBSET (Movers \cup Fuel) : Count(q, f, T) = 0

DriveTied(H, fl, taxi, q, n) == \A f \in Flights : DrivenFor(f, H, fl, taxi, q, n)

Tied(H, fl, rws, gts, ring, taxi, q, n) ==
    /\ RunwaysTied(H, fl, rws)
    /\ GatesTied(H, fl, gts)
    /\ RingsTied(H, fl, ring, taxi, n)
    /\ DriveTied(H, fl, taxi, q, n)

\* The inductive invariant of the core.
AllTied == Tied({}, flights, runways, gates, holding, taxi_wait, pq, flight_count)

-----------------------------------------------------------------------------
(* How the ties change hands.                                              *)

\* Table fl2 differs from fl in flight f only.
OnlyBy(f, fl, fl2) == \A g \in Flights \ {f} : fl2[g] = fl[g]

LEMMA NoneApart ==
  None \notin Flights /\ None \notin Runways /\ None \notin Gates
BY DEF None, Flights, Runways, Gates

\* A flight on an approach or on its take-off has a runway, which has it; no
\* other flight has one.
LEMMA RunwayOf ==
  ASSUME NEW fl \in [Flights -> Aircraft], NEW rws \in [Runways -> Runway],
         NEW H, RunwaysTied(H, fl, rws), NEW f \in Flights
  PROVE  /\ fl[f].assigned_runway # None
              => /\ fl[f].assigned_runway \in Runways
                 /\ rws[fl[f].assigned_runway].occupant = f
         /\ f \notin H =>
              (fl[f].state \in {"AC_LANDING", "AC_DEPARTING"}
                 <=> fl[f].assigned_runway # None)
<1> DEFINE rw == fl[f].assigned_runway
<1>1. rw \in Runways \cup {None}
  BY DEF Aircraft
<1>2. CASE rw = None
  BY <1>2 DEF RunwaysTied, RunwayFits
<1>3. CASE rw # None
  <2>1. rw \in Runways /\ rws[rw].occupant = f
    BY <1>1, <1>3 DEF RunwaysTied
  <2>2. rws[rw].state # "RW_IDLE"
    BY <2>1, NoneApart DEF RunwaysTied
  <2>3. rws[rw].state \in {"RW_LANDING", "RW_TAKEOFF"}
    BY <2>1, <2>2 DEF Runway
  <2>4. f \notin H => fl[f].state \in {"AC_LANDING", "AC_DEPARTING"}
    BY <1>3, <2>3 DEF RunwaysTied, RunwayFits
  <2> QED BY <1>3, <2>1, <2>4
<1> QED BY <1>2, <1>3

\* The flight in hand takes an idle runway.
LEMMA RunwayTaken ==
  ASSUME NEW fl, NEW fl2, NEW rws \in [Runways -> Runway],
         NEW f \in Flights, NEW rw \in Runways, rws[rw].state = "RW_IDLE",
         RunwaysTied({f}, fl, rws), OnlyBy(f, fl, fl2),
         fl2[f].assigned_runway = rw, NEW use,
         \/ use = "RW_LANDING" /\ fl2[f].state = "AC_LANDING"
         \/ use = "RW_TAKEOFF" /\ fl2[f].state = "AC_DEPARTING",
         fl \in [Flights -> Aircraft]
  PROVE  RunwaysTied({}, fl2, [rws EXCEPT ![rw] = [state |-> use, occupant |-> f]])
<1> DEFINE rws2 == [rws EXCEPT ![rw] = [state |-> use, occupant |-> f]]
<1>1. /\ rws2[rw].state = use /\ rws2[rw].occupant = f
      /\ \A r \in Runways \ {rw} : rws2[r] = rws[r]
  OBVIOUS
<1>2. rws[rw].occupant = None
  BY DEF RunwaysTied
<1>3. \A g \in Flights : fl[g].assigned_runway # rw
  BY <1>2, NoneApart DEF RunwaysTied
<1>4. \A g \in Flights : fl[g].assigned_runway \in Runways \cup {None}
  BY DEF Aircraft
<1> HIDE DEF rws2
<1>5. \A r \in Runways, g \in Flights :
          rws2[r].occupant = g <=> fl2[g].assigned_runway = r
  <2> SUFFICES ASSUME NEW r \in Runways, NEW g \in Flights
               PROVE  rws2[r].occupant = g <=> fl2[g].assigned_runway = r
    OBVIOUS
  <2>1. CASE g = f
    <3>1. fl[f].assigned_runway = None
      BY DEF RunwaysTied
    <3>2. r # rw => rws[r].occupant # f
      BY <3>1, NoneApart DEF RunwaysTied
    <3> QED BY <1>1, <2>1, <3>2
  <2>2. CASE g # f
    <3>1. fl2[g] = fl[g]
      BY <2>2 DEF OnlyBy
    <3> QED BY <1>1, <1>3, <2>2, <3>1 DEF RunwaysTied
  <2> QED BY <2>1, <2>2
<1>6. \A r \in Runways : rws2[r].state = "RW_IDLE" <=> rws2[r].occupant = None
  BY <1>1, NoneApart DEF RunwaysTied
<1>7. \A g \in Flights : RunwayFits(fl2[g], rws2)
  <2> SUFFICES ASSUME NEW g \in Flights PROVE RunwayFits(fl2[g], rws2)
    OBVIOUS
  <2>1. CASE g = f
    BY <1>1, <2>1, NoneApart DEF RunwayFits
  <2>2. CASE g # f
    <3>1. fl2[g] = fl[g] /\ RunwayFits(fl[g], rws)
      BY <2>2 DEF OnlyBy, RunwaysTied
    <3>2. fl[g].assigned_runway # None
            => rws2[fl[g].assigned_runway] = rws[fl[g].assigned_runway]
      BY <1>1, <1>3, <1>4
    <3> QED BY <3>1, <3>2 DEF RunwayFits
  <2> QED BY <2>1, <2>2
<1> QED BY <1>5, <1>6, <1>7 DEF RunwaysTied, rws2

\* A flight changes without losing or getting a runway.
LEMMA RunwaysQuiet ==
  ASSUME NEW fl, NEW fl2, NEW rws, NEW f \in Flights, NEW H \in {{}, {f}},
         RunwaysTied(H, fl, rws), OnlyBy(f, fl, fl2),
         fl2[f].assigned_runway = fl[f].assigned_runway,
         RunwayFits(fl2[f], rws)
  PROVE  RunwaysTied({}, fl2, rws)
<1>1. \A g \in Flights \ {f} : fl2[g] = fl[g]
  BY DEF OnlyBy
<1>2. \A g \in Flights : fl2[g].assigned_runway = fl[g].assigned_runway
  BY <1>1
<1>3. \A g \in Flights : RunwayFits(fl2[g], rws)
  <2> SUFFICES ASSUME NEW g \in Flights PROVE RunwayFits(fl2[g], rws)
    OBVIOUS
  <2>1. CASE g # f
    <3>1. RunwayFits(fl[g], rws)
      BY <2>1 DEF RunwaysTied
    <3>2. fl2[g] = fl[g]
      BY <1>1, <2>1
    <3> QED BY <3>1, <3>2
  <2> QED BY <2>1
<1> QED BY <1>2, <1>3 DEF RunwaysTied

LEMMA RunwaysInHand ==
  ASSUME NEW fl, NEW rws, NEW f \in Flights, RunwaysTied({}, fl, rws),
         fl[f].assigned_runway = None
  PROVE  RunwaysTied({f}, fl, rws)
BY DEF RunwaysTied

\* A flight leaves its runway.
LEMMA RunwayLeft ==
  ASSUME NEW fl \in [Flights -> Aircraft], NEW fl2,
         NEW rws \in [Runways -> Runway], NEW f \in Flights,
         RunwaysTied({}, fl, rws), OnlyBy(f, fl, fl2),
         fl[f].assigned_runway # None, fl2[f].assigned_runway = None,
         fl2[f].state \notin {"AC_LANDING", "AC_DEPARTING"}
  PROVE  RunwaysTied({}, fl2,
             [rws EXCEPT ![fl[f].assigned_runway] =
                 [state |-> "RW_IDLE", occupant |-> None]])
<1> DEFINE rw == fl[f].assigned_runway
           rws2 == [rws EXCEPT ![rw] = [state |-> "RW_IDLE", occupant |-> None]]
<1>1. rw \in Runways /\ rws[rw].occupant = f
  BY RunwayOf
<1>2. /\ rws2[rw].state = "RW_IDLE" /\ rws2[rw].occupant = None
      /\ \A r \in Runways \ {rw} : rws2[r] = rws[r]
  BY <1>1
<1> HIDE DEF rws2
<1>3. \A g \in Flights \ {f} : fl2[g] = fl[g]
  BY DEF OnlyBy
<1>4. \A g \in Flights \ {f} : fl[g].assigned_runway # rw
  BY <1>1 DEF RunwaysTied
<1>5. \A g \in Flights : fl[g].assigned_runway \in Runways \cup {None}
  BY DEF Aircraft
<1>6. \A r \in Runways, g \in Flights :
          rws2[r].occupant = g <=> fl2[g].assigned_runway = r
  <2> SUFFICES ASSUME NEW r \in Runways, NEW g \in Flights
               PROVE  rws2[r].occupant = g <=> fl2[g].assigned_runway = r
    OBVIOUS
  <2>1. CASE g = f
    <3>1. r # rw => rws[r].occupant # f
      BY DEF RunwaysTied
    <3> QED BY <1>2, <2>1, <3>1, NoneApart
  <2>2. CASE g # f
    BY <1>2, <1>3, <1>4, <2>2, NoneApart DEF RunwaysTied
  <2> QED BY <2>1, <2>2
<1>7. \A r \in Runways : rws2[r].state = "RW_IDLE" <=> rws2[r].occupant = None
  BY <1>2 DEF RunwaysTied
<1>8. \A g \in Flights : RunwayFits(fl2[g], rws2)
  <2> SUFFICES ASSUME NEW g \in Flights PROVE RunwayFits(fl2[g], rws2)
    OBVIOUS
  <2>1. CASE g = f
    BY <2>1 DEF RunwayFits
  <2>2. CASE g # f
    <3>1. fl2[g] = fl[g] /\ RunwayFits(fl[g], rws)
      BY <1>3, <2>2 DEF RunwaysTied
    <3>2. fl[g].assigned_runway # None
            => rws2[fl[g].assigned_runway] = rws[fl[g].assigned_runway]
      BY <1>2, <1>4, <1>5, <2>2
    <3> QED BY <3>1, <3>2 DEF RunwayFits
  <2> QED BY <2>1, <2>2
<1> QED BY <1>6, <1>7, <1>8 DEF RunwaysTied, rws2

\* The same of gates.
LEMMA GateOf ==
  ASSUME NEW fl \in [Flights -> Aircraft], NEW gts \in [Gates -> Gate],
         NEW H, GatesTied(H, fl, gts), NEW f \in Flights,
         fl[f].assigned_gate # None
  PROVE  /\ fl[f].assigned_gate \in Gates
         /\ gts[fl[f].assigned_gate].occupant = f
<1>1. fl[f].assigned_gate \in Gates \cup {None}
  BY DEF Aircraft
<1> QED BY <1>1 DEF GatesTied

LEMMA GateTaken ==
  ASSUME NEW fl, NEW fl2, NEW gts \in [Gates -> Gate],
         NEW f \in Flights, NEW gate \in Gates, gts[gate].state = "GATE_VACANT",
         GatesTied({f}, fl, gts), OnlyBy(f, fl, fl2),
         fl2[f].assigned_gate = gate, fl2[f].state = "AC_AT_GATE"
  PROVE  GatesTied({}, fl2,
             [gts EXCEPT ![gate] = [state |-> "GATE_OCCUPIED", occupant |-> f]])
<1> DEFINE gts2 == [gts EXCEPT ![gate] = [state |-> "GATE_OCCUPIED", occupant |-> f]]
<1>1. /\ gts2[gate].state = "GATE_OCCUPIED" /\ gts2[gate].occupant = f
      /\ \A h \in Gates \ {gate} : gts2[h] = gts[h]
  OBVIOUS
<1>2. gts[gate].occupant = None
  BY DEF GatesTied
<1>3. \A g \in Flights : fl[g].assigned_gate # gate
  BY <1>2, NoneApart DEF GatesTied
<1> HIDE DEF gts2
<1>4. \A h \in Gates, g \in Flights :
          gts2[h].occupant = g <=> fl2[g].assigned_gate = h
  <2> SUFFICES ASSUME NEW h \in Gates, NEW g \in Flights
               PROVE  gts2[h].occupant = g <=> fl2[g].assigned_gate = h
    OBVIOUS
  <2>1. CASE g = f
    <3>1. fl[f].assigned_gate = None
      BY DEF GatesTied
    <3>2. h # gate => gts[h].occupant # f
      BY <3>1, NoneApart DEF GatesTied
    <3> QED BY <1>1, <2>1, <3>2
  <2>2. CASE g # f
    <3>1. fl2[g] = fl[g]
      BY <2>2 DEF OnlyBy
    <3> QED BY <1>1, <1>3, <2>2, <3>1 DEF GatesTied
  <2> QED BY <2>1, <2>2
<1>5. \A h \in Gates : gts2[h].state = "GATE_VACANT" <=> gts2[h].occupant = None
  BY <1>1, NoneApart DEF GatesTied
<1>6. \A g \in Flights : fl2[g].state = "AC_AT_GATE" <=> fl2[g].assigned_gate # None
  <2> SUFFICES ASSUME NEW g \in Flights
               PROVE  fl2[g].state = "AC_AT_GATE" <=> fl2[g].assigned_gate # None
    OBVIOUS
  <2>1. CASE g = f
    BY <2>1, NoneApart
  <2>2. CASE g # f
    BY <2>2 DEF OnlyBy, GatesTied
  <2> QED BY <2>1, <2>2
<1> QED BY <1>4, <1>5, <1>6 DEF GatesTied, gts2

LEMMA GatesQuiet ==
  ASSUME NEW fl, NEW fl2, NEW gts, NEW f \in Flights, NEW H \in {{}, {f}},
         GatesTied(H, fl, gts), OnlyBy(f, fl, fl2),
         fl2[f].assigned_gate = fl[f].assigned_gate,
         fl2[f].state = "AC_AT_GATE" <=> fl2[f].assigned_gate # None
  PROVE  GatesTied({}, fl2, gts)
<1>1. \A g \in Flights \ {f} : fl2[g] = fl[g]
  BY DEF OnlyBy
<1>2. \A g \in Flights : fl2[g].assigned_gate = fl[g].assigned_gate
  BY <1>1
<1>3. \A g \in Flights : fl2[g].state = "AC_AT_GATE" <=> fl2[g].assigned_gate # None
  <2> SUFFICES ASSUME NEW g \in Flights, g # f
               PROVE  fl2[g].state = "AC_AT_GATE" <=> fl2[g].assigned_gate # None
    OBVIOUS
  <2>1. fl2[g] = fl[g]
    BY <1>1
  <2> QED BY <2>1 DEF GatesTied
<1> QED BY <1>2, <1>3 DEF GatesTied

LEMMA GatesInHand ==
  ASSUME NEW fl, NEW gts, NEW f \in Flights, GatesTied({}, fl, gts),
         fl[f].assigned_gate = None
  PROVE  GatesTied({f}, fl, gts)
BY DEF GatesTied

LEMMA GateLeft ==
  ASSUME NEW fl \in [Flights -> Aircraft], NEW fl2, NEW gts \in [Gates -> Gate],
         NEW f \in Flights, GatesTied({}, fl, gts), OnlyBy(f, fl, fl2),
         fl[f].assigned_gate # None, fl2[f].assigned_gate = None,
         fl2[f].state # "AC_AT_GATE"
  PROVE  GatesTied({}, fl2,
             [gts EXCEPT ![fl[f].assigned_gate] =
                 [state |-> "GATE_VACANT", occupant |-> None]])
<1> DEFINE gate == fl[f].assigned_gate
           gts2 == [gts EXCEPT ![gate] = [state |-> "GATE_VACANT", occupant |-> None]]
<1>1. gate \in Gates /\ gts[gate].occupant = f
  BY GateOf
<1>2. /\ gts2[gate].state = "GATE_VACANT" /\ gts2[gate].occupant = None
      /\ \A h \in Gates \ {gate} : gts2[h] = gts[h]
  BY <1>1
<1> HIDE DEF gts2
<1>3. \A g \in Flights \ {f} : fl2[g] = fl[g]
  BY DEF OnlyBy
<1>4. \A g \in Flights \ {f} : fl[g].assigned_gate # gate
  BY <1>1 DEF GatesTied
<1>5. \A h \in Gates, g \in Flights :
          gts2[h].occupant = g <=> fl2[g].assigned_gate = h
  <2> SUFFICES ASSUME NEW h \in Gates, NEW g \in Flights
               PROVE  gts2[h].occupant = g <=> fl2[g].assigned_gate = h
    OBVIOUS
  <2>1. CASE g = f
    <3>1. h # gate => gts[h].occupant # f
      BY DEF GatesTied
    <3> QED BY <1>2, <2>1, <3>1, NoneApart
  <2>2. CASE g # f
    BY <1>2, <1>3, <1>4, <2>2, NoneApart DEF GatesTied
  <2> QED BY <2>1, <2>2
<1>6. \A h \in Gates : gts2[h].state = "GATE_VACANT" <=> gts2[h].occupant = None
  BY <1>2 DEF GatesTied
<1>7. \A g \in Flights : fl2[g].state = "AC_AT_GATE" <=> fl2[g].assigned_gate # None
  <2> SUFFICES ASSUME NEW g \in Flights, g # f
               PROVE  fl2[g].state = "AC_AT_GATE" <=> fl2[g].assigned_gate # None
    OBVIOUS
  <2>1. fl2[g] = fl[g]
    BY <1>3
  <2> QED BY <2>1 DEF GatesTied
<1> QED BY <1>5, <1>6, <1>7 DEF GatesTied, gts2

\* Members of a ring stay members when the others change ...
LEMMA WaitingQuiet ==
  ASSUME NEW r, NEW f, NEW H \in {{}, {f}}, NEW fl, NEW fl2, NEW n, NEW state,
         NEW m \in Nat, n \in Nat, n <= m,
         Waiting(r, H, fl, n, state), OnlyBy(f, fl, fl2), n <= MAX_FLIGHTS,
         InRing(r, f) => fl2[f].state = state
  PROVE  Waiting(r, {}, fl2, m, state)
<1>1. MAX_FLIGHTS \in Nat
  BY SizeAssumption DEF Positive
<1>2. ASSUME NEW k \in DOMAIN r
      PROVE  r[k] \in 0 .. m-1 /\ fl2[r[k]].state = state
  <2>1. r[k] \in 0 .. n-1 /\ fl[r[k]].state = state
    BY DEF Waiting
  <2>2. r[k] \in Flights
    BY <1>1, <2>1 DEF Flights
  <2>3. r[k] # f => fl2[r[k]] = fl[r[k]]
    BY <2>2 DEF OnlyBy
  <2> QED BY <2>1, <2>3 DEF InRing
<1> QED BY <1>2 DEF Waiting

\* ... or when one is taken in hand, and its place with it.
LEMMA WaitingThinned ==
  ASSUME NEW ring \in Seq(Flights), NEW r, NEW f, NEW fl, NEW n, NEW state,
         Waiting(ring, {}, fl, n, state), Thinned(r, ring), ~ InRing(r, f)
  PROVE  Waiting(r, {f}, fl, n, state)
<1>1. IsInjective(ring)
  BY DEF Waiting
<1>2. IsInjective(r) /\ \A k \in DOMAIN r : InRing(ring, r[k])
  BY <1>1, ThinnedInjective
<1>3. \A k \in DOMAIN r : r[k] \in 0 .. n-1 /\ fl[r[k]].state = state
  BY <1>2 DEF Waiting, InRing
<1>4. \A k \in DOMAIN r : r[k] # f
  BY DEF InRing
<1> QED BY <1>2, <1>3, <1>4 DEF Waiting

LEMMA WaitingInHand ==
  ASSUME NEW r, NEW f, NEW fl, NEW n, NEW state,
         Waiting(r, {}, fl, n, state), ~ InRing(r, f)
  PROVE  Waiting(r, {f}, fl, n, state)
BY DEF Waiting, InRing

\* The flight in hand joins a ring.
LEMMA WaitingJoined ==
  ASSUME NEW ring \in Seq(Flights), NEW f \in Flights, NEW fl, NEW fl2, NEW n \in Nat,
         NEW state, f < n, n <= MAX_FLIGHTS,
         Waiting(ring, {f}, fl, n, state), OnlyBy(f, fl, fl2),
         fl2[f].state = state
  PROVE  Waiting(Append(ring, f), {}, fl2, n, state)
<1> DEFINE r == Append(ring, f)
           l == Len(ring)
<1>1. l \in Nat /\ DOMAIN ring = 1..l
  BY LenProperties
<1>2. /\ DOMAIN r = 1 .. l + 1 /\ r[l + 1] = f
      /\ \A k \in 1..l : r[k] = ring[k]
  <2>1. r \in Seq(Flights) /\ Len(r) = l + 1
    BY AppendProperties
  <2> QED BY <2>1, AppendProperties, LenProperties
<1> HIDE DEF r, l
<1>3. f \in 0 .. n-1
  BY DEF Flights
<1>4. \A k \in 1..l : ring[k] # f
  BY <1>1 DEF Waiting
<1>5. IsInjective(r)
  <2> SUFFICES ASSUME NEW i \in 1 .. l + 1, NEW j \in 1 .. l + 1, r[i] = r[j]
               PROVE  i = j
    BY <1>2 DEF IsInjective
  <2>1. CASE i \in 1..l /\ j \in 1..l
    BY <1>1, <1>2, <2>1 DEF Waiting, IsInjective
  <2>2. CASE i = l + 1 \/ j = l + 1
    <3>1. \A k \in 1 .. l + 1 : r[k] = f => k = l + 1
      BY <1>1, <1>2, <1>4
    <3> QED BY <1>2, <2>2, <3>1
  <2> QED BY <1>1, <2>1, <2>2
<1>6. Waiting(ring, {}, fl2, n, state)
  <2>1. ~ InRing(ring, f)
    BY <1>1, <1>4 DEF InRing
  <2>2. n <= n /\ {f} \in {{}, {f}}
    OBVIOUS
  <2> QED BY <2>1, <2>2, WaitingQuiet
<1>7. \A k \in 1 .. l + 1 : r[k] \in 0 .. n-1 /\ fl2[r[k]].state = state
  <2>1. \A k \in 1..l : r[k] \in 0 .. n-1 /\ fl2[r[k]].state = state
    BY <1>1, <1>2, <1>6 DEF Waiting
  <2> QED BY <1>1, <1>2, <1>3, <2>1
<1> QED BY <1>2, <1>5, <1>7 DEF Waiting, r

-----------------------------------------------------------------------------
(* How events drive a flight.                                              *)

LEMMA AwaitedEvents ==
  /\ Awaited["AC_INBOUND"] = "EVENT_RUNWAY_REQUEST"
  /\ Awaited["AC_HOLDING"] = "EVENT_EMERGENCY_FUEL"
  /\ Awaited["AC_LANDING"] = "EVENT_TOUCHDOWN"
  /\ Awaited["AC_TAXI_IN"] = "EVENT_TAXI_TO_GATE"
  /\ Awaited["AC_AT_GATE"] = "EVENT_GATE_RELEASE"
  /\ Awaited["AC_TAXI_OUT"] = "EVENT_TAKEOFF_READY"
  /\ Awaited["AC_DEPARTING"] = "EVENT_TAKEOFF_CLEAR"
  /\ Awaited["AC_AIRBORNE_OUT"] = "EVENT_DEPART_SECTOR"
BY DEF Awaited

LEMMA MoverTypes ==
  /\ Movers = {"EVENT_RUNWAY_REQUEST", "EVENT_TOUCHDOWN", "EVENT_TAXI_TO_GATE",
               "EVENT_GATE_RELEASE", "EVENT_TAKEOFF_READY",
               "EVENT_TAKEOFF_CLEAR", "EVENT_DEPART_SECTOR"}
  /\ Movers \subseteq EventType /\ Fuel \subseteq EventType
  /\ Asking \subseteq Movers /\ "EVENT_EMERGENCY_FUEL" \notin Movers
BY DEF Movers, EventType, Fuel, Asking

LEMMA AwaitedMovers ==
  ASSUME NEW state \in AircraftState \ Gone, state # "AC_HOLDING"
  PROVE  Awaited[state] \in Movers
BY AwaitedEvents, MoverTypes DEF AircraftState, Gone

\* From q to r nothing changes for other flights than f.
OnlyFor(f, q, r) == \A g \in Flights \ {f}, T \in SUBSET (Movers \cup Fuel) :
                        Count(r, g, T) = Count(q, g, T)
OnlyIn(f, taxi, taxi2) == \A g \in Flights \ {f} : InRing(taxi2, g) <=> InRing(taxi, g)

LEMMA PlansOnly ==
  ASSUME NEW q \in Seq(AtcEvent(Flights)), NEW r, NEW f, NEW type, Plans(q, r, f, type)
  PROVE  /\ OnlyFor(f, q, r)
         /\ r \in Seq(AtcEvent(Flights))
<1>1. \A g \in Flights, T \in SUBSET EventType : Count(q, g, T) \in Nat
  BY CountType
<1>2. SUBSET (Movers \cup Fuel) \subseteq SUBSET EventType
  BY MoverTypes
<1> QED BY <1>1, <1>2 DEF Plans, OnlyFor

LEMMA PopOnly ==
  ASSUME NEW q \in Seq(AtcEvent(Flights)), q # <<>>
  PROVE  OnlyFor(Head(q).flight, q, Tail(q))
<1>1. \A g \in Flights, T \in SUBSET (Movers \cup Fuel) : Count(q, g, T) \in Nat
  BY CountType
<1>2. \A g \in Flights \ {Head(q).flight}, T \in SUBSET (Movers \cup Fuel) :
          Count(Tail(q), g, T) = Count(q, g, T) - 0
  BY CountTail
<1> QED BY <1>1, <1>2 DEF OnlyFor

\* What drives the others stays the same.
LEMMA DrivenElse ==
  ASSUME NEW f \in Flights, NEW H \in {{}, {f}}, NEW H2 \in {{}, {f}},
         NEW fl \in [Flights -> Aircraft], NEW fl2, NEW taxi, NEW taxi2,
         NEW q, NEW q2, NEW n, NEW n2,
         DriveTied(H, fl, taxi, q, n), OnlyBy(f, fl, fl2),
         OnlyFor(f, q, q2), OnlyIn(f, taxi, taxi2),
         \A g \in Flights \ {f} : g < n2 <=> g < n,
         DrivenFor(f, H2, fl2, taxi2, q2, n2)
  PROVE  DriveTied(H2, fl2, taxi2, q2, n2)
<1> SUFFICES ASSUME NEW g \in Flights, g # f
             PROVE  DrivenFor(g, H2, fl2, taxi2, q2, n2)
  BY DEF DriveTied
<1>1. DrivenFor(g, H, fl, taxi, q, n)
  BY DEF DriveTied
<1>2. fl2[g] = fl[g] /\ (InRing(taxi2, g) <=> InRing(taxi, g)) /\ (g < n2 <=> g < n)
  BY DEF OnlyBy, OnlyIn
<1>3. \A T \in SUBSET (Movers \cup Fuel) : Count(q2, g, T) = Count(q, g, T)
  BY DEF OnlyFor
<1>4. g \notin H /\ g \notin H2
  OBVIOUS
<1>5. ASSUME g < n, fl[g].state \notin Gone
      PROVE  Driven(fl[g].state, InRing(taxi, g), q2, g)
  <2>1. Driven(fl[g].state, InRing(taxi, g), q, g)
    BY <1>1, <1>4, <1>5 DEF DrivenFor
  <2>2. fl[g].state \in AircraftState \ Gone
    BY <1>5 DEF Aircraft
  <2>3. Awaited[fl[g].state] \in Movers \cup Fuel
    BY <2>2, AwaitedMovers, AwaitedEvents DEF Fuel
  <2>4. /\ Count(q2, g, Movers) = Count(q, g, Movers)
        /\ Count(q2, g, Fuel) = Count(q, g, Fuel)
        /\ Count(q2, g, Asking) = Count(q, g, Asking)
        /\ Count(q2, g, Asking \cup Fuel) = Count(q, g, Asking \cup Fuel)
        /\ Count(q2, g, {Awaited[fl[g].state]}) = Count(q, g, {Awaited[fl[g].state]})
    BY <1>3, <2>3, MoverTypes
  <2> QED BY <2>1, <2>4 DEF Driven
<1>6. InRing(taxi2, g) = InRing(taxi, g)
  BY <1>2 DEF InRing
<1> QED BY <1>1, <1>2, <1>3, <1>4, <1>5, <1>6 DEF DrivenFor

\* An event that moves a flight on finds it in the state that awaits it, and
\* takes it in hand.
LEMMA DrivePop ==
  ASSUME NEW fl \in [Flights -> Aircraft], NEW taxi, NEW q \in Seq(AtcEvent(Flights)),
         q # <<>>, NEW n \in Nat, DriveTied({}, fl, taxi, q, n),
         NEW f \in Flights, f = Head(q).flight, fl[f].state \notin Gone,
         Head(q).type \in Movers
  PROVE  /\ f < n /\ fl[f].state # "AC_HOLDING"
         /\ (fl[f].state = "AC_TAXI_IN" => ~ InRing(taxi, f))
         /\ Awaited[fl[f].state] = Head(q).type
         /\ DriveTied({f}, fl, taxi, Tail(q), n)
<1> DEFINE st == fl[f].state
           r  == Tail(q)
           t  == Head(q).type
<1>1. DrivenFor(f, {}, fl, taxi, q, n)
  BY DEF DriveTied
<1>2. st \in AircraftState \ Gone
  BY DEF Aircraft
<1>3. r \in Seq(AtcEvent(Flights))
  BY HeadTailProperties
<1>4. /\ Count(r, f, Movers) = Count(q, f, Movers) - 1
      /\ \A T : t \notin T => Count(r, f, T) = Count(q, f, T) - 0
  BY CountTail
<1>5. /\ \A T : Count(q, f, T) \in Nat
      /\ \A T : Count(r, f, T) \in Nat
  BY <1>3, CountType
<1>6. \A T, U : T \subseteq U => Count(r, f, T) <= Count(r, f, U)
  BY <1>3, CountMono
<1>7. Count(q, f, Movers) # 0
  BY <1>4, <1>5
<1>8. f < n
  <2>1. Movers \in SUBSET (Movers \cup Fuel)
    OBVIOUS
  <2> QED BY <1>1, <1>7, <2>1 DEF DrivenFor
<1>9. Driven(st, InRing(taxi, f), q, f)
  BY <1>1, <1>2, <1>8 DEF DrivenFor
<1>10. st # "AC_HOLDING"
  BY <1>7, <1>9 DEF Driven
<1> HIDE DEF r
<1>11. /\ Count(q, f, Movers) = 1 /\ t = Awaited[st]
       /\ (st = "AC_TAXI_IN" => ~ InRing(taxi, f))
  <2>1. CASE st = "AC_INBOUND"
    <3>1. Count(q, f, Movers) = Count(q, f, Asking) /\ Count(q, f, Asking \cup Fuel) = 1
      BY <1>9, <2>1 DEF Driven
    <3>2. Count(q, f, Asking) <= Count(q, f, Asking \cup Fuel)
      BY CountMono
    <3>3. Count(q, f, Movers) = 1
      BY <1>5, <1>7, <3>1, <3>2
    <3>4. Count(r, f, Asking) <= Count(r, f, Movers)
      BY <1>6, MoverTypes
    <3>5. t \in Asking
      BY <1>4, <1>5, <3>1, <3>3, <3>4
    <3>6. t = Awaited[st]
      BY <2>1, <3>5, AwaitedEvents DEF Asking
    <3> QED BY <1>9, <2>1, <3>3, <3>6
  <2>2. CASE st # "AC_INBOUND"
    <3>1. /\ ~ InRing(taxi, f)
          /\ Count(q, f, Movers) = 1 /\ Count(q, f, {Awaited[st]}) = 1
      BY <1>7, <1>9, <1>10, <2>2 DEF Driven
    <3>2. {Awaited[st]} \subseteq Movers
      BY <1>2, <1>10, AwaitedMovers
    <3>3. Count(r, f, {Awaited[st]}) <= Count(r, f, Movers)
      BY <1>6, <3>2
    <3>4. t \in {Awaited[st]}
      BY <1>4, <1>5, <3>1, <3>3
    <3> QED BY <3>1, <3>4
  <2> QED BY <2>1, <2>2
<1>12. DrivenFor(f, {f}, fl, taxi, r, n)
  <2>1. \A T \in SUBSET Movers : Count(r, f, T) = 0
    <3> SUFFICES ASSUME NEW T \in SUBSET Movers PROVE Count(r, f, T) = 0
      OBVIOUS
    <3>1. Count(r, f, T) <= Count(r, f, Movers)
      BY <1>6
    <3>2. Count(r, f, Movers) = 0
      BY <1>4, <1>11
    <3> QED BY <1>5, <3>1, <3>2
  <2> QED BY <1>8, <2>1 DEF DrivenFor
<1>13. OnlyFor(f, q, r)
  BY PopOnly DEF r
<1>14. DriveTied({f}, fl, taxi, r, n)
  BY <1>12, <1>13, DrivenElse DEF OnlyBy, OnlyIn
<1> QED BY <1>8, <1>10, <1>11, <1>14 DEF r

\* A fuel check finds a flight that waits with nothing else to move it on.
LEMMA DrivePopFuel ==
  ASSUME NEW fl \in [Flights -> Aircraft], NEW taxi, NEW q \in Seq(AtcEvent(Flights)),
         q # <<>>, NEW n \in Nat, DriveTied({}, fl, taxi, q, n),
         NEW f \in Flights, f = Head(q).flight, 
         fl[f].state \in {"AC_HOLDING", "AC_INBOUND"},
         Head(q).type = "EVENT_EMERGENCY_FUEL"
  PROVE  /\ f < n
         /\ DriveTied({f}, fl, taxi, Tail(q), n)
<1> DEFINE st == fl[f].state
           r  == Tail(q)
<1>1. DrivenFor(f, {}, fl, taxi, q, n) /\ st \notin Gone
  BY DEF DriveTied, Gone
<1>2. r \in Seq(AtcEvent(Flights))
  BY HeadTailProperties
<1>3. /\ \A T : "EVENT_EMERGENCY_FUEL" \in T => Count(r, f, T) = Count(q, f, T) - 1
      /\ \A T : "EVENT_EMERGENCY_FUEL" \notin T => Count(r, f, T) = Count(q, f, T) - 0
  BY CountTail
<1>4. /\ \A T : Count(q, f, T) \in Nat
      /\ \A T : Count(r, f, T) \in Nat
  BY <1>2, CountType
<1>5. \A T, U : T \subseteq U => Count(r, f, T) <= Count(r, f, U)
  BY <1>2, CountMono
<1>6. Count(q, f, Fuel) # 0
  BY <1>3, <1>4 DEF Fuel
<1>7. f < n
  <2>1. Fuel \in SUBSET (Movers \cup Fuel)
    OBVIOUS
  <2> QED BY <1>1, <1>6, <2>1 DEF DrivenFor
<1>8. Driven(st, InRing(taxi, f), q, f)
  BY <1>1, <1>7 DEF DrivenFor
<1> HIDE DEF r
<1>9. Count(r, f, Movers) = 0
  <2>1. Count(r, f, Movers) = Count(q, f, Movers)
    BY <1>3, <1>4, MoverTypes
  <2>2. CASE st = "AC_HOLDING"
    BY <1>8, <2>1, <2>2 DEF Driven
  <2>3. CASE st = "AC_INBOUND"
    <3>1. Count(q, f, Movers) = Count(q, f, Asking) /\ Count(q, f, Asking \cup Fuel) = 1
      BY <1>8, <2>3 DEF Driven
    <3>2. Count(r, f, Asking \cup Fuel) = 0
      BY <1>3, <3>1 DEF Fuel
    <3>3. Count(r, f, Asking) <= Count(r, f, Asking \cup Fuel)
      BY <1>5
    <3>4. Count(r, f, Asking) = Count(q, f, Asking)
      BY <1>3, <1>4 DEF Asking
    <3> QED BY <1>4, <2>1, <3>1, <3>2, <3>3, <3>4
  <2> QED BY <2>2, <2>3
<1>10. DrivenFor(f, {f}, fl, taxi, r, n)
  <2>1. \A T \in SUBSET Movers : Count(r, f, T) = 0
    <3> SUFFICES ASSUME NEW T \in SUBSET Movers PROVE Count(r, f, T) = 0
      OBVIOUS
    <3>1. Count(r, f, T) <= Count(r, f, Movers)
      BY <1>5
    <3> QED BY <1>4, <1>9, <3>1
  <2> QED BY <1>7, <2>1 DEF DrivenFor
<1>11. OnlyFor(f, q, r)
  BY PopOnly DEF r
<1>12. DriveTied({f}, fl, taxi, r, n)
  BY <1>10, <1>11, DrivenElse DEF OnlyBy, OnlyIn
<1> QED BY <1>7, <1>12 DEF r

\* Events that are no business of a flight on its way.
LEMMA DrivePopElse ==
  ASSUME NEW fl \in [Flights -> Aircraft], NEW taxi, NEW q \in Seq(AtcEvent(Flights)),
         q # <<>>, NEW n \in Nat, DriveTied({}, fl, taxi, q, n),
         NEW f \in Flights, f = Head(q).flight,
         \/ Head(q).type \notin Movers \cup Fuel
         \/ /\ Head(q).type = "EVENT_EMERGENCY_FUEL"
            /\ fl[f].state \notin {"AC_HOLDING", "AC_INBOUND"}
         \/ fl[f].state \in Gone
  PROVE  DriveTied({}, fl, taxi, Tail(q), n)
<1> DEFINE st == fl[f].state
           r  == Tail(q)
<1>1. DrivenFor(f, {}, fl, taxi, q, n)
  BY DEF DriveTied
<1>2. \A T : Head(q).type \notin T => Count(r, f, T) = Count(q, f, T) - 0
  BY CountTail
<1>3. \A T : Count(q, f, T) \in Nat
  BY CountType
<1>4. OnlyFor(f, q, r)
  BY PopOnly
<1> HIDE DEF r
<1>5. \A T : Head(q).type \notin T => Count(r, f, T) = Count(q, f, T)
  BY <1>2, <1>3
<1>6. DrivenFor(f, {}, fl, taxi, r, n)
  <2>1. CASE Head(q).type \notin Movers \cup Fuel
    <3>1. \A T \in SUBSET (Movers \cup Fuel) : Count(r, f, T) = Count(q, f, T)
      BY <1>5, <2>1
    <3>2. ASSUME st \notin Gone, f < n
          PROVE  Driven(st, InRing(taxi, f), r, f)
      <4>1. Driven(st, InRing(taxi, f), q, f)
        BY <1>1, <3>2 DEF DrivenFor
      <4>2. st \in AircraftState \ Gone
        BY <3>2 DEF Aircraft
      <4>3. st # "AC_HOLDING" => {Awaited[st]} \in SUBSET (Movers \cup Fuel)
        BY <4>2, AwaitedMovers
      <4>4. /\ Count(r, f, Movers) = Count(q, f, Movers)
            /\ Count(r, f, Fuel) = Count(q, f, Fuel)
            /\ Count(r, f, Asking) = Count(q, f, Asking)
            /\ Count(r, f, Asking \cup Fuel) = Count(q, f, Asking \cup Fuel)
            /\ st # "AC_HOLDING" => Count(r, f, {Awaited[st]}) = Count(q, f, {Awaited[st]})
        BY <3>1, <4>3, MoverTypes
      <4> QED BY <4>1, <4>4 DEF Driven
    <3> QED BY <1>1, <3>1, <3>2 DEF DrivenFor
  <2>2. CASE Head(q).type = "EVENT_EMERGENCY_FUEL"
             /\ st \notin {"AC_HOLDING", "AC_INBOUND"}
    <3>1. f < n
      BY <1>1, <2>2 DEF DrivenFor
    <3>2. \A T \in SUBSET Movers : Count(r, f, T) = Count(q, f, T)
      BY <1>5, <2>2, MoverTypes
    <3>3. ASSUME st \notin Gone
          PROVE  Driven(st, InRing(taxi, f), r, f)
      <4>1. Driven(st, InRing(taxi, f), q, f)
        BY <1>1, <3>1, <3>3 DEF DrivenFor
      <4>2. st \in AircraftState \ Gone
        BY <3>3 DEF Aircraft
      <4>3. {Awaited[st]} \in SUBSET Movers
        BY <2>2, <4>2, AwaitedMovers
      <4>4. /\ Count(r, f, Movers) = Count(q, f, Movers)
            /\ Count(r, f, {Awaited[st]}) = Count(q, f, {Awaited[st]})
        BY <3>2, <4>3
      <4> QED BY <2>2, <4>1, <4>4 DEF Driven
    <3> QED BY <3>1, <3>3 DEF DrivenFor
  <2>3. CASE st \in Gone
    <3>1. f < n
      BY <1>1, <2>3 DEF DrivenFor, Gone
    <3> QED BY <2>3, <3>1 DEF DrivenFor
  <2> QED BY <2>1, <2>2, <2>3
<1> QED BY <1>4, <1>6, DrivenElse DEF OnlyBy, OnlyIn, r

\* The flight in hand is planned to move on ...
LEMMA DrivePlan ==
  ASSUME NEW fl \in [Flights -> Aircraft], NEW fl2 \in [Flights -> Aircraft],
         NEW taxi, NEW q \in Seq(AtcEvent(Flights)), NEW q2, NEW n \in Nat,
         NEW f \in Flights, DriveTied({f}, fl, taxi, q, n), OnlyBy(f, fl, fl2),
         fl2[f].state \in AircraftState \ (Gone \cup {"AC_HOLDING", "AC_INBOUND"}),
         NEW type, type = Awaited[fl2[f].state], Plans(q, q2, f, type),
         ~ InRing(taxi, f)
  PROVE  DriveTied({}, fl2, taxi, q2, n)
<1>1. DrivenFor(f, {f}, fl, taxi, q, n)
  BY DEF DriveTied
<1>2. f < n /\ \A T \in SUBSET Movers : Count(q, f, T) = 0
  BY <1>1 DEF DrivenFor
<1>3. type \in Movers
  BY AwaitedMovers
<1>4. Count(q2, f, Movers) = Count(q, f, Movers) + 1
  BY <1>3, MoverTypes DEF Plans
<1>5. {type} \in SUBSET EventType /\ {type} \in SUBSET Movers
  BY <1>3, MoverTypes
<1>6. Count(q2, f, {type}) = Count(q, f, {type}) + 1
  BY <1>5 DEF Plans
<1>7. Count(q2, f, Movers) = 1 /\ Count(q2, f, {type}) = 1
  BY <1>2, <1>4, <1>5, <1>6
<1>8. DrivenFor(f, {}, fl2, taxi, q2, n)
  BY <1>2, <1>7 DEF DrivenFor, Driven
<1>9. OnlyFor(f, q, q2)
  BY PlansOnly
<1> QED BY <1>8, <1>9, DrivenElse DEF OnlyIn

\* ... or to check its fuel in the holding pattern ...
LEMMA DriveHold ==
  ASSUME NEW fl \in [Flights -> Aircraft], NEW fl2 \in [Flights -> Aircraft],
         NEW taxi, NEW q \in Seq(AtcEvent(Flights)), NEW q2, NEW n \in Nat,
         NEW f \in Flights, DriveTied({f}, fl, taxi, q, n), OnlyBy(f, fl, fl2),
         fl2[f].state = "AC_HOLDING", Plans(q, q2, f, "EVENT_EMERGENCY_FUEL")
  PROVE  DriveTied({}, fl2, taxi, q2, n)
<1>1. DrivenFor(f, {f}, fl, taxi, q, n)
  BY DEF DriveTied
<1>2. f < n /\ Count(q, f, Movers) = 0 /\ Count(q, f, Fuel) \in Nat
  BY <1>1, CountType DEF DrivenFor
<1>3. Count(q2, f, Movers) = Count(q, f, Movers) + 0
  BY MoverTypes DEF Plans
<1>4. Count(q2, f, Fuel) = Count(q, f, Fuel) + 1
  BY MoverTypes DEF Plans, Fuel
<1>5. Driven("AC_HOLDING", InRing(taxi, f), q2, f)
  BY <1>2, <1>3, <1>4 DEF Driven
<1>6. DrivenFor(f, {}, fl2, taxi, q2, n)
  BY <1>2, <1>5 DEF DrivenFor
<1>7. OnlyFor(f, q, q2)
  BY PlansOnly
<1> QED BY <1>6, <1>7, DrivenElse DEF OnlyIn

\* ... or leaves the sector ...
LEMMA DriveGone ==
  ASSUME NEW fl \in [Flights -> Aircraft], NEW fl2, NEW taxi, NEW q, NEW n \in Nat,
         NEW f \in Flights, f < n, NEW H \in {{}, {f}},
         DriveTied(H, fl, taxi, q, n), OnlyBy(f, fl, fl2), fl2[f].state \in Gone
  PROVE  DriveTied({}, fl2, taxi, q, n)
<1>1. DrivenFor(f, {}, fl2, taxi, q, n)
  BY DEF DrivenFor
<1> QED BY <1>1, DrivenElse DEF OnlyIn, OnlyFor

\* ... or waits on the taxiway for a gate, and is taken in hand there.
LEMMA DrivePark ==
  ASSUME NEW fl \in [Flights -> Aircraft], NEW taxi, NEW taxi2, NEW q, NEW n \in Nat,
         NEW f \in Flights, DriveTied({f}, fl, taxi, q, n), OnlyIn(f, taxi, taxi2),
         fl[f].state = "AC_TAXI_IN", InRing(taxi2, f)
  PROVE  DriveTied({}, fl, taxi2, q, n)
<1>1. DrivenFor(f, {f}, fl, taxi, q, n)
  BY DEF DriveTied
<1>2. f < n /\ Count(q, f, Movers) = 0
  BY <1>1 DEF DrivenFor
<1>3. DrivenFor(f, {}, fl, taxi2, q, n)
  BY <1>2 DEF DrivenFor, Driven
<1> QED BY <1>3, DrivenElse DEF OnlyBy, OnlyFor

LEMMA DriveInHand ==
  ASSUME NEW fl \in [Flights -> Aircraft], NEW taxi, NEW taxi2,
         NEW q \in Seq(AtcEvent(Flights)), NEW n \in Nat,
         NEW f \in Flights, DriveTied({}, fl, taxi, q, n), OnlyIn(f, taxi, taxi2),
         f < n, \/ fl[f].state = "AC_HOLDING"
                \/ fl[f].state = "AC_TAXI_IN" /\ InRing(taxi, f)
  PROVE  DriveTied({f}, fl, taxi2, q, n)
<1>1. DrivenFor(f, {}, fl, taxi, q, n)
  BY DEF DriveTied
<1>2. Driven(fl[f].state, InRing(taxi, f), q, f)
  BY <1>1 DEF DrivenFor, Gone
<1>3. Count(q, f, Movers) = 0
  BY <1>2 DEF Driven
<1>4. \A T \in SUBSET Movers : Count(q, f, T) = 0
  <2> SUFFICES ASSUME NEW T \in SUBSET Movers PROVE Count(q, f, T) = 0
    OBVIOUS
  <2>1. Count(q, f, T) <= Count(q, f, Movers) /\ Count(q, f, T) \in Nat
    BY CountMono, CountType
  <2> QED BY <1>3, <2>1
<1>5. DrivenFor(f, {f}, fl, taxi2, q, n)
  BY <1>4 DEF DrivenFor
<1> QED BY <1>5, DrivenElse DEF OnlyBy, OnlyFor

\* Only the states of flights matter.
LEMMA DriveQuiet ==
  ASSUME NEW fl, NEW fl2, NEW H, NEW taxi, NEW q, NEW n,
         DriveTied(H, fl, taxi, q, n),
         \A g \in Flights : fl2[g].state = fl[g].state
  PROVE  DriveTied(H, fl2, taxi, q, n)
BY DEF DriveTied, DrivenFor

-----------------------------------------------------------------------------
(* What the helpers do to the ties.                                        *)

\* A flight of the table whose record is replaced.
LEMMA Replaced ==
  ASSUME NEW fl \in [Flights -> Aircraft], NEW f \in Flights, NEW a
  PROVE  /\ [fl EXCEPT ![f] = a][f] = a
         /\ OnlyBy(f, fl, [fl EXCEPT ![f] = a])
BY DEF OnlyBy

\* Bringing the fuel of a flight up to date changes nothing else.
LEMMA DecayKeeps ==
  ASSUME NEW a \in Aircraft
  PROVE  /\ decay_fuel(a).state = a.state
         /\ decay_fuel(a).assigned_runway = a.assigned_runway
         /\ decay_fuel(a).assigned_gate = a.assigned_gate
         /\ decay_fuel(a).queue_enter_time = a.queue_enter_time
<1>1. CASE now' > a.last_update
  BY <1>1 DEF decay_fuel, Aircraft
<1>2. CASE ~ (now' > a.last_update)
  BY <1>2 DEF decay_fuel
<1> QED BY <1>1, <1>2

LEMMA ClearToLandDoes ==
  ASSUME NEW f \in Flights, NEW rw \in Runways, NEW fl, NEW rws, NEW ring,
         NEW q, NEW st, NEW weight \in PRIO_EMERGENCY .. PRIO_ROUTINE,
         Parts(fl, rws, ring, q, st), now' \in Nat, weather \in Weather,
         ClearToLand(f, rw, fl, rws, ring, q, st, weight)
  PROVE  /\ OnlyBy(f, fl, flights')
         /\ flights'[f].state = "AC_LANDING"
         /\ flights'[f].assigned_runway = rw
         /\ flights'[f].assigned_gate = fl[f].assigned_gate
         /\ Plans(q, pq', f, "EVENT_TOUCHDOWN")
         /\ runways' = [rws EXCEPT ![rw] = [state |-> "RW_LANDING", occupant |-> f]]
         /\ holding' = ring
<1> DEFINE w == Waited(fl[f])
           a == [fl[f] EXCEPT !.assigned_runway = rw, !.state = "AC_LANDING",
                              !.total_wait = @ + w]
<1>1. fl \in [Flights -> Aircraft] /\ fl[f] \in Aircraft
  BY DEF Parts
<1>2. flights' = [fl EXCEPT ![f] = a]
  BY <1>1 DEF ClearToLand
<1>3. /\ a.state = "AC_LANDING" /\ a.assigned_runway = rw
      /\ a.assigned_gate = fl[f].assigned_gate
  BY <1>1 DEF Aircraft
<1> HIDE DEF a
<1>4. OnlyBy(f, fl, flights') /\ flights'[f] = a
  BY <1>1, <1>2, Replaced
<1>5. Plans(q, pq', f, "EVENT_TOUCHDOWN")
  <2>1. Occupancy(RUNWAY_LANDING_T, fl[f].wake) \in Nat
    BY <1>1, OccupancyType, TimeAssumption DEF Aircraft, Positive
  <2>2. now' + Occupancy(RUNWAY_LANDING_T, fl[f].wake) \in Nat
    BY <2>1
  <2>3. "EVENT_TOUCHDOWN" \in EventType
    BY Types
  <2> QED BY <2>2, <2>3, SchedulePlans DEF ClearToLand, Parts
<1> QED BY <1>3, <1>4, <1>5 DEF ClearToLand

LEMMA EnterHoldingDoes ==
  ASSUME NEW f \in Flights, NEW fl, NEW rws, NEW ring, NEW q, NEW st,
         NEW delay \in Nat, Parts(fl, rws, ring, q, st), now' \in Nat,
         EnterHolding(f, fl, rws, ring, q, st, delay)
  PROVE  /\ OnlyBy(f, fl, flights')
         /\ flights'[f].state = "AC_HOLDING"
         /\ flights'[f].assigned_runway = fl[f].assigned_runway
         /\ flights'[f].assigned_gate = fl[f].assigned_gate
         /\ Plans(q, pq', f, "EVENT_EMERGENCY_FUEL")
         /\ holding' = holding_push(ring, f)
         /\ runways' = rws
<1> DEFINE a == [fl[f] EXCEPT !.state = "AC_HOLDING"]
<1>1. fl \in [Flights -> Aircraft] /\ fl[f] \in Aircraft
  BY DEF Parts
<1>2. flights' = [fl EXCEPT ![f] = a]
  BY <1>1 DEF EnterHolding
<1>3. /\ a.state = "AC_HOLDING" /\ a.assigned_runway = fl[f].assigned_runway
      /\ a.assigned_gate = fl[f].assigned_gate
  BY <1>1 DEF Aircraft
<1> HIDE DEF a
<1>4. OnlyBy(f, fl, flights') /\ flights'[f] = a
  BY <1>1, <1>2, Replaced
<1>5. Plans(q, pq', f, "EVENT_EMERGENCY_FUEL")
  BY CheckFuelPlans DEF EnterHolding, Parts
<1> QED BY <1>3, <1>4, <1>5 DEF EnterHolding

\* The flight in hand is nowhere in a ring.
LEMMA HandNotWaiting ==
  ASSUME NEW r, NEW f, NEW fl, NEW n, NEW state, Waiting(r, {f}, fl, n, state)
  PROVE  ~ InRing(r, f)
BY DEF Waiting, InRing

LEMMA HandKnown ==
  ASSUME NEW f \in Flights, NEW fl, NEW taxi, NEW q, NEW n,
         DriveTied({f}, fl, taxi, q, n)
  PROVE  f < n
BY DEF DriveTied, DrivenFor

\* The flight in hand joins the holding ring, or is dropped from it.
LEMMA WaitingPushed ==
  ASSUME NEW ring \in Seq(Flights), NEW f \in Flights, NEW fl, NEW fl2, NEW n \in Nat,
         f < n, n <= MAX_FLIGHTS,
         Waiting(ring, {f}, fl, n, "AC_HOLDING"), OnlyBy(f, fl, fl2),
         fl2[f].state = "AC_HOLDING"
  PROVE  Waiting(holding_push(ring, f), {}, fl2, n, "AC_HOLDING")
<1>1. CASE Len(ring) < MAX_HOLDING_SLOTS
  BY <1>1, WaitingJoined DEF holding_push
<1>2. CASE ~ (Len(ring) < MAX_HOLDING_SLOTS)
  <2>1. n <= n /\ {f} \in {{}, {f}}
    OBVIOUS
  <2>2. Waiting(ring, {}, fl2, n, "AC_HOLDING")
    BY <2>1, WaitingQuiet
  <2> QED BY <1>2, <2>2 DEF holding_push
<1> QED BY <1>1, <1>2

\* When the ring is full or empty: the flights that change place are tied as
\* before once the flight in hand is put down.
LEMMA RingsQuiet ==
  ASSUME NEW f \in Flights, NEW H \in {{}, {f}}, NEW fl, NEW fl2,
         NEW ring, NEW taxi, NEW n \in Nat, n <= MAX_FLIGHTS,
         RingsTied(H, fl, ring, taxi, n), OnlyBy(f, fl, fl2),
         ~ InRing(ring, f) \/ fl2[f].state = "AC_HOLDING",
         ~ InRing(taxi, f) \/ fl2[f].state = "AC_TAXI_IN"
  PROVE  RingsTied({}, fl2, ring, taxi, n)
<1>1. n <= n
  OBVIOUS
<1>2. Waiting(ring, {}, fl2, n, "AC_HOLDING")
  BY <1>1, WaitingQuiet DEF RingsTied
<1>3. Waiting(taxi, {}, fl2, n, "AC_TAXI_IN")
  BY <1>1, WaitingQuiet DEF RingsTied
<1> QED BY <1>2, <1>3 DEF RingsTied

\* The flight in hand is cleared onto an idle runway.
LEMMA ClearToLandTies ==
  ASSUME NEW f \in Flights, NEW rw \in Runways, NEW fl, NEW rws, NEW gts, NEW ring,
         NEW taxi, NEW q, NEW st, NEW weight \in PRIO_EMERGENCY .. PRIO_ROUTINE,
         NEW n \in Nat, n <= MAX_FLIGHTS,
         Parts(fl, rws, ring, q, st), now' \in Nat, weather \in Weather,
         rws[rw].state = "RW_IDLE", Tied({f}, fl, rws, gts, ring, taxi, q, n),
         ClearToLand(f, rw, fl, rws, ring, q, st, weight)
  PROVE  Tied({}, flights', runways', gts, holding', taxi, pq', n)
<1>1. /\ OnlyBy(f, fl, flights')
      /\ flights'[f].state = "AC_LANDING"
      /\ flights'[f].assigned_runway = rw
      /\ flights'[f].assigned_gate = fl[f].assigned_gate
      /\ Plans(q, pq', f, "EVENT_TOUCHDOWN")
      /\ runways' = [rws EXCEPT ![rw] = [state |-> "RW_LANDING", occupant |-> f]]
      /\ holding' = ring
  BY ClearToLandDoes
<1>2. /\ fl \in [Flights -> Aircraft] /\ flights' \in [Flights -> Aircraft]
      /\ rws \in [Runways -> Runway] /\ q \in Seq(AtcEvent(Flights))
  <2>1. Parts(flights', runways', holding', pq', stats')
    BY ClearToLandType
  <2> QED BY <2>1 DEF Parts
<1>3. RunwaysTied({}, flights', runways')
  <2>1. RunwaysTied({f}, fl, rws)
    BY DEF Tied
  <2> QED BY <1>1, <1>2, <2>1, RunwayTaken
<1>4. GatesTied({}, flights', gts)
  <2>1. GatesTied({f}, fl, gts) /\ fl[f].assigned_gate = None
    BY DEF Tied, GatesTied
  <2> QED BY <1>1, <2>1, GatesQuiet
<1>5. ~ InRing(ring, f) /\ ~ InRing(taxi, f)
  BY HandNotWaiting DEF Tied, RingsTied
<1>6. RingsTied({}, flights', ring, taxi, n)
  <2>1. RingsTied({f}, fl, ring, taxi, n)
    BY DEF Tied
  <2> QED BY <1>1, <1>5, <2>1, RingsQuiet
<1>7. DriveTied({}, flights', taxi, pq', n)
  <2>1. DriveTied({f}, fl, taxi, q, n)
    BY DEF Tied
  <2>2. /\ flights'[f].state \in AircraftState \ (Gone \cup {"AC_HOLDING", "AC_INBOUND"})
        /\ "EVENT_TOUCHDOWN" = Awaited[flights'[f].state]
    BY <1>1, AwaitedEvents DEF AircraftState, Gone
  <2> QED BY <1>1, <1>2, <1>5, <2>1, <2>2, DrivePlan
<1> QED BY <1>1, <1>3, <1>4, <1>6, <1>7 DEF Tied

\* The flight in hand enters the holding pattern.
LEMMA EnterHoldingTies ==
  ASSUME NEW f \in Flights, NEW fl, NEW rws, NEW gts, NEW ring, NEW taxi, NEW q,
         NEW st, NEW delay \in Nat, NEW n \in Nat, n <= MAX_FLIGHTS,
         Parts(fl, rws, ring, q, st), now' \in Nat,
         Tied({f}, fl, rws, gts, ring, taxi, q, n),
         EnterHolding(f, fl, rws, ring, q, st, delay)
  PROVE  Tied({}, flights', runways', gts, holding', taxi, pq', n)
<1>1. /\ OnlyBy(f, fl, flights')
      /\ flights'[f].state = "AC_HOLDING"
      /\ flights'[f].assigned_runway = fl[f].assigned_runway
      /\ flights'[f].assigned_gate = fl[f].assigned_gate
      /\ Plans(q, pq', f, "EVENT_EMERGENCY_FUEL")
      /\ holding' = holding_push(ring, f)
      /\ runways' = rws
  BY EnterHoldingDoes
<1>2. /\ fl \in [Flights -> Aircraft] /\ flights' \in [Flights -> Aircraft]
      /\ ring \in Seq(Flights) /\ q \in Seq(AtcEvent(Flights))
  <2>1. Parts(flights', runways', holding', pq', stats')
    BY EnterHoldingType
  <2> QED BY <2>1 DEF Parts
<1>3. RunwaysTied({}, flights', rws)
  <2>1. RunwaysTied({f}, fl, rws) /\ fl[f].assigned_runway = None
    BY DEF Tied, RunwaysTied
  <2>2. RunwayFits(flights'[f], rws)
    BY <1>1, <2>1 DEF RunwayFits
  <2> QED BY <1>1, <2>1, <2>2, RunwaysQuiet
<1>4. GatesTied({}, flights', gts)
  <2>1. GatesTied({f}, fl, gts) /\ fl[f].assigned_gate = None
    BY DEF Tied, GatesTied
  <2> QED BY <1>1, <2>1, GatesQuiet
<1>5. DriveTied({f}, fl, taxi, q, n)
  BY DEF Tied
<1>6. f < n
  BY <1>5, HandKnown
<1>7. RingsTied({}, flights', holding', taxi, n)
  <2>1. Waiting(ring, {f}, fl, n, "AC_HOLDING") /\ Waiting(taxi, {f}, fl, n, "AC_TAXI_IN")
    BY DEF Tied, RingsTied
  <2>2. Waiting(holding', {}, flights', n, "AC_HOLDING")
    BY <1>1, <1>2, <1>6, <2>1, WaitingPushed
  <2>3. ~ InRing(taxi, f) /\ n <= n /\ {f} \in {{}, {f}}
    BY <2>1, HandNotWaiting
  <2>4. Waiting(taxi, {}, flights', n, "AC_TAXI_IN")
    BY <1>1, <2>1, <2>3, WaitingQuiet
  <2> QED BY <2>2, <2>4 DEF RingsTied
<1>8. DriveTied({}, flights', taxi, pq', n)
  BY <1>1, <1>2, <1>5, DriveHold
<1> QED BY <1>1, <1>3, <1>4, <1>7, <1>8 DEF Tied

\* Either way the flight in hand is put down ...
LEMMA TryAssignLandingTies ==
  ASSUME NEW f \in Flights, NEW fl, NEW rws, NEW gts, NEW ring, NEW taxi, NEW q,
         NEW st, NEW n \in Nat, n <= MAX_FLIGHTS,
         Parts(fl, rws, ring, q, st), now' \in Nat, weather \in Weather,
         Tied({f}, fl, rws, gts, ring, taxi, q, n),
         try_assign_landing(f, fl, rws, ring, q, st)
  PROVE  Tied({}, flights', runways', gts, holding', taxi, pq', n)
<1>1. CASE \E rw \in find_idle_runway(rws) :
             ClearToLand(f, rw, fl, rws, ring, q, st, LandingWeight(fl[f]))
  <2>1. PICK rw \in find_idle_runway(rws) :
             ClearToLand(f, rw, fl, rws, ring, q, st, LandingWeight(fl[f]))
    BY <1>1
  <2>2. rw \in Runways /\ rws[rw].state = "RW_IDLE"
    BY DEF find_idle_runway
  <2>3. LandingWeight(fl[f]) \in PRIO_EMERGENCY .. PRIO_ROUTINE
    BY WeightType
  <2> QED BY <2>1, <2>2, <2>3, ClearToLandTies
<1>2. CASE NoIdleRunway(rws) /\ EnterHolding(f, fl, rws, ring, q, st, HOLD_RECHECK)
  <2>1. HOLD_RECHECK \in Nat
    BY TimeAssumption DEF Positive
  <2> QED BY <1>2, <2>1, EnterHoldingTies
<1> QED BY <1>1, <1>2 DEF try_assign_landing

\* ... which is a flight of the holding ring when a runway is released.
LEMMA RingInHand ==
  ASSUME NEW fl \in [Flights -> Aircraft], NEW rws, NEW gts, NEW ring \in Seq(Flights),
         NEW taxi, NEW q \in Seq(AtcEvent(Flights)), NEW n \in Nat, n <= MAX_FLIGHTS,
         rws \in [Runways -> Runway], gts \in [Gates -> Gate],
         Tied({}, fl, rws, gts, ring, taxi, q, n),
         NEW f \in Flights, f < n, fl[f].state = "AC_HOLDING",
         NEW r, Thinned(r, ring), ~ InRing(r, f)
  PROVE  Tied({f}, fl, rws, gts, r, taxi, q, n)
<1>1. /\ RunwaysTied({}, fl, rws) /\ GatesTied({}, fl, gts)
      /\ Waiting(ring, {}, fl, n, "AC_HOLDING") /\ Waiting(taxi, {}, fl, n, "AC_TAXI_IN")
      /\ DriveTied({}, fl, taxi, q, n)
  BY DEF Tied, RingsTied
<1>2. fl[f].assigned_runway = None
  <2>1. fl[f].assigned_runway # None => fl[f].state \in {"AC_LANDING", "AC_DEPARTING"}
    BY <1>1, RunwayOf
  <2> QED BY <2>1
<1>3. fl[f].assigned_gate = None
  BY <1>1 DEF GatesTied
<1>4. RunwaysTied({f}, fl, rws)
  BY <1>1, <1>2, RunwaysInHand
<1>5. GatesTied({f}, fl, gts)
  BY <1>1, <1>3, GatesInHand
<1>6. Waiting(r, {f}, fl, n, "AC_HOLDING")
  BY <1>1, WaitingThinned
<1>7. ~ InRing(taxi, f)
  BY <1>1 DEF Waiting, InRing
<1>8. Waiting(taxi, {f}, fl, n, "AC_TAXI_IN")
  BY <1>1, <1>7, WaitingInHand
<1>9. DriveTied({f}, fl, taxi, q, n)
  BY <1>1, DriveInHand DEF OnlyIn
<1> QED BY <1>4, <1>5, <1>6, <1>8, <1>9 DEF Tied, RingsTied

LEMMA FreeRunwayTies ==
  ASSUME NEW rw, NEW fl, NEW gts \in [Gates -> Gate], NEW ring, NEW taxi, NEW q, NEW st,
         NEW n \in Nat, n <= MAX_FLIGHTS,
         Parts(fl, runways, ring, q, st), now' \in Nat, weather \in Weather,
         Tied({}, fl, [runways EXCEPT ![rw] = [state |-> "RW_IDLE", occupant |-> None]],
              gts, ring, taxi, q, n),
         free_runway(rw, fl, ring, q, st)
  PROVE  Tied({}, flights', runways', gts, holding', taxi, pq', n)
<1> DEFINE free == [state |-> "RW_IDLE", occupant |-> None]
           rws  == [runways EXCEPT ![rw] = free]
<1>1. Parts(fl, rws, ring, q, st)
  <2>1. free \in Runway
    BY DEF Runway
  <2> HIDE DEF free
  <2> QED BY <2>1 DEF Parts
<1>2. Tied({}, fl, rws, gts, ring, taxi, q, n)
  OBVIOUS
<1> HIDE DEF rws
<1>3. CASE /\ ring = <<>> /\ flights' = fl /\ runways' = rws
           /\ holding' = ring /\ pq' = q /\ stats' = st
  BY <1>2, <1>3
<1>4. CASE \E k \in holding_pop_priority(ring, fl) :
             try_assign_landing(ring[k], fl, rws, RemoveAt(ring, k), q, st)
  <2>1. PICK k \in holding_pop_priority(ring, fl) :
             try_assign_landing(ring[k], fl, rws, RemoveAt(ring, k), q, st)
    BY <1>4
  <2>2. k \in DOMAIN ring
    BY DEF holding_pop_priority
  <2>3. ring \in Seq(Flights) /\ Len(ring) <= MAX_HOLDING_SLOTS
    BY <1>1 DEF Parts
  <2>4. k \in 1 .. Len(ring) /\ ring[k] \in Flights
    BY <2>2, <2>3, ElementOfSeq
  <2>5. /\ RemoveAt(ring, k) \in Seq(Flights)
        /\ Len(RemoveAt(ring, k)) <= MAX_HOLDING_SLOTS
    BY <2>3, <2>4, RemoveAtType, SizeAssumption DEF Positive
  <2>6. Parts(fl, rws, RemoveAt(ring, k), q, st)
    BY <1>1, <2>5 DEF Parts
  <2>7. Waiting(ring, {}, fl, n, "AC_HOLDING")
    BY <1>2 DEF Tied, RingsTied
  <2>8. ring[k] < n /\ fl[ring[k]].state = "AC_HOLDING" /\ IsInjective(ring)
    BY <2>2, <2>7 DEF Waiting
  <2>9. Thinned(RemoveAt(ring, k), ring) /\ ~ InRing(RemoveAt(ring, k), ring[k])
    BY <2>3, <2>4, <2>8, RemoveAtThins, RemoveAtLeaves
  <2>10. Tied({ring[k]}, fl, rws, gts, RemoveAt(ring, k), taxi, q, n)
    <3>1. /\ fl \in [Flights -> Aircraft] /\ rws \in [Runways -> Runway]
          /\ q \in Seq(AtcEvent(Flights))
      BY <1>1 DEF Parts
    <3> QED BY <1>2, <2>3, <2>4, <2>8, <2>9, <3>1, RingInHand
  <2> QED BY <2>1, <2>4, <2>6, <2>10, TryAssignLandingTies
<1> QED BY <1>3, <1>4 DEF free_runway, rws, free

\* Nothing that drives a flight is planned or popped.
LEMMA DriveSame ==
  ASSUME NEW fl \in [Flights -> Aircraft], NEW H, NEW taxi, NEW q, NEW r, NEW n,
         DriveTied(H, fl, taxi, q, n),
         \A g \in Flights, T \in SUBSET (Movers \cup Fuel) : Count(r, g, T) = Count(q, g, T)
  PROVE  DriveTied(H, fl, taxi, r, n)
<1> SUFFICES ASSUME NEW f \in Flights PROVE DrivenFor(f, H, fl, taxi, r, n)
  BY DEF DriveTied
<1>1. DrivenFor(f, H, fl, taxi, q, n)
  BY DEF DriveTied
<1>2. ASSUME fl[f].state \notin Gone, f < n, f \notin H
      PROVE  Driven(fl[f].state, InRing(taxi, f), r, f)
  <2>1. Driven(fl[f].state, InRing(taxi, f), q, f)
    BY <1>1, <1>2 DEF DrivenFor
  <2>2. fl[f].state \in AircraftState \ Gone
    BY <1>2 DEF Aircraft
  <2>3. Awaited[fl[f].state] \in Movers \cup Fuel
    BY <2>2, AwaitedMovers, AwaitedEvents DEF Fuel
  <2>4. /\ Count(r, f, Movers) = Count(q, f, Movers)
        /\ Count(r, f, Fuel) = Count(q, f, Fuel)
        /\ Count(r, f, Asking) = Count(q, f, Asking)
        /\ Count(r, f, Asking \cup Fuel) = Count(q, f, Asking \cup Fuel)
        /\ Count(r, f, {Awaited[fl[f].state]}) = Count(q, f, {Awaited[fl[f].state]})
    BY <2>3, MoverTypes
  <2> QED BY <2>1, <2>4 DEF Driven
<1> QED BY <1>1, <1>2 DEF DrivenFor

LEMMA DriveNoise ==
  ASSUME NEW fl \in [Flights -> Aircraft], NEW H, NEW taxi,
         NEW q \in Seq(AtcEvent(Flights)), NEW r, NEW n, NEW f, NEW type,
         DriveTied(H, fl, taxi, q, n), Plans(q, r, f, type), type \notin Movers \cup Fuel
  PROVE  DriveTied(H, fl, taxi, r, n)
<1>1. \A g \in Flights, T \in SUBSET EventType : Count(q, g, T) \in Nat
  BY CountType
<1>2. SUBSET (Movers \cup Fuel) \subseteq SUBSET EventType
  BY MoverTypes
<1>3. \A g \in Flights, T \in SUBSET (Movers \cup Fuel) : Count(r, g, T) = Count(q, g, T) + 0
  BY <1>2 DEF Plans
<1>4. \A g \in Flights, T \in SUBSET (Movers \cup Fuel) : Count(r, g, T) = Count(q, g, T)
  BY <1>1, <1>2, <1>3
<1> QED BY <1>4, DriveSame

\* The head of a ring leaves it.
LEMMA TailThins ==
  ASSUME NEW ring \in Seq(Flights), ring # <<>>, IsInjective(ring)
  PROVE  /\ Thinned(Tail(ring), ring)
         /\ \A f \in Flights : InRing(Tail(ring), f) <=> InRing(ring, f) /\ f # Head(ring)
<1> DEFINE n == Len(ring)
           r == Tail(ring)
           m == [k \in DOMAIN r |-> k + 1]
<1>1. n \in Nat /\ DOMAIN ring = 1..n /\ n # 0
  BY LenProperties, EmptySeq
<1>2. /\ r \in Seq(Flights) /\ Len(r) = n - 1 /\ Head(ring) = ring[1]
      /\ \A k \in 1 .. n - 1 : r[k] = ring[k + 1]
  BY <1>1, HeadTailProperties
<1>3. DOMAIN r = 1 .. n - 1 /\ n - 1 \in Nat
  BY <1>1, <1>2, LenProperties
<1> HIDE DEF n, r
<1>4. m \in [DOMAIN r -> DOMAIN ring]
  BY <1>1, <1>3
<1>5. \A k \in DOMAIN r : r[k] = ring[m[k]]
  BY <1>2, <1>3
<1>6. \A j, k \in DOMAIN r : j < k => m[j] < m[k]
  BY <1>1, <1>3
<1>7. Thinned(r, ring)
  BY <1>2, <1>4, <1>5, <1>6 DEF Thinned
<1>8. ASSUME NEW f \in Flights
      PROVE  InRing(r, f) <=> InRing(ring, f) /\ f # Head(ring)
  <2>1. ASSUME NEW k \in DOMAIN r, r[k] = f
        PROVE  InRing(ring, f) /\ f # Head(ring)
    <3>1. k + 1 \in DOMAIN ring /\ k + 1 # 1 /\ ring[k + 1] = f /\ 1 \in DOMAIN ring
      BY <1>1, <1>2, <1>3, <2>1
    <3> QED BY <1>2, <3>1 DEF InRing, IsInjective
  <2>2. ASSUME NEW k \in DOMAIN ring, ring[k] = f, f # Head(ring)
        PROVE  InRing(r, f)
    <3>1. k - 1 \in DOMAIN r /\ (k - 1) + 1 = k
      BY <1>1, <1>2, <1>3, <2>2
    <3>2. r[k - 1] = f
      BY <1>2, <1>3, <2>2, <3>1
    <3> QED BY <3>1, <3>2 DEF InRing
  <2> QED BY <2>1, <2>2 DEF InRing
<1> QED BY <1>7, <1>8 DEF r

\* Only these fields of a flight matter.
LEMMA TiedQuiet ==
  ASSUME NEW H \in SUBSET Flights, NEW fl, NEW fl2, NEW rws, NEW gts, NEW ring, NEW taxi, NEW q,
         NEW n \in Nat, n <= MAX_FLIGHTS, Tied(H, fl, rws, gts, ring, taxi, q, n),
         \A g \in Flights : /\ fl2[g].state = fl[g].state
                            /\ fl2[g].assigned_runway = fl[g].assigned_runway
                            /\ fl2[g].assigned_gate = fl[g].assigned_gate
  PROVE  Tied(H, fl2, rws, gts, ring, taxi, q, n)
<1>1. RunwaysTied(H, fl2, rws)
  <2>1. \A g \in Flights : RunwayFits(fl[g], rws) => RunwayFits(fl2[g], rws)
    BY DEF RunwayFits
  <2>2. RunwaysTied(H, fl, rws)
    BY DEF Tied
  <2>3. \A f \in Flights \ H : RunwayFits(fl2[f], rws)
    BY <2>1, <2>2 DEF RunwaysTied
  <2>4. \A f \in H : fl2[f].assigned_runway = None
    BY <2>2 DEF RunwaysTied
  <2> QED BY <2>2, <2>3, <2>4 DEF RunwaysTied
<1>2. GatesTied(H, fl2, gts)
  BY DEF Tied, GatesTied
<1>3. RingsTied(H, fl2, ring, taxi, n)
  <2>1. 0 .. n-1 \subseteq Flights
    BY SizeAssumption DEF Flights, Positive
  <2> QED BY <2>1 DEF Tied, RingsTied, Waiting
<1>4. DriveTied(H, fl2, taxi, q, n)
  BY DriveQuiet DEF Tied
<1> QED BY <1>1, <1>2, <1>3, <1>4 DEF Tied

\* The flight in hand moves on to a state in which it holds nothing.
LEMMA PutDown ==
  ASSUME NEW f \in Flights, NEW fl \in [Flights -> Aircraft],
         NEW fl2 \in [Flights -> Aircraft], NEW rws, NEW gts, NEW ring, NEW taxi,
         NEW q \in Seq(AtcEvent(Flights)), NEW q2, NEW n \in Nat, n <= MAX_FLIGHTS,
         Tied({f}, fl, rws, gts, ring, taxi, q, n), OnlyBy(f, fl, fl2),
         fl2[f].assigned_runway = None, fl2[f].assigned_gate = None,
         fl2[f].state \in {"AC_TAXI_IN", "AC_TAXI_OUT", "AC_AIRBORNE_OUT"},
         Plans(q, q2, f, Awaited[fl2[f].state])
  PROVE  Tied({}, fl2, rws, gts, ring, taxi, q2, n)
<1>1. /\ RunwaysTied({f}, fl, rws) /\ fl[f].assigned_runway = None
      /\ GatesTied({f}, fl, gts) /\ fl[f].assigned_gate = None
      /\ RingsTied({f}, fl, ring, taxi, n)
      /\ DriveTied({f}, fl, taxi, q, n)
  BY DEF Tied, RunwaysTied, GatesTied
<1>2. RunwaysTied({}, fl2, rws)
  <2>1. RunwayFits(fl2[f], rws)
    BY DEF RunwayFits
  <2> QED BY <1>1, <2>1, RunwaysQuiet
<1>3. GatesTied({}, fl2, gts)
  BY <1>1, GatesQuiet
<1>4. ~ InRing(ring, f) /\ ~ InRing(taxi, f)
  BY <1>1, HandNotWaiting DEF RingsTied
<1>5. RingsTied({}, fl2, ring, taxi, n)
  BY <1>1, <1>4, RingsQuiet
<1>6. DriveTied({}, fl2, taxi, q2, n)
  <2>1. fl2[f].state \in AircraftState \ (Gone \cup {"AC_HOLDING", "AC_INBOUND"})
    BY DEF AircraftState, Gone
  <2> DEFINE type == Awaited[fl2[f].state]
  <2>2. type = Awaited[fl2[f].state] /\ Plans(q, q2, f, type)
    OBVIOUS
  <2> HIDE DEF type
  <2> QED BY <1>1, <1>4, <2>1, <2>2, DrivePlan
<1> QED BY <1>2, <1>3, <1>5, <1>6 DEF Tied

\* The flight in hand leaves the sector.
LEMMA LeaveSector ==
  ASSUME NEW f \in Flights, NEW fl \in [Flights -> Aircraft],
         NEW fl2, NEW rws, NEW gts, NEW ring, NEW taxi,
         NEW q, NEW n \in Nat, n <= MAX_FLIGHTS,
         Tied({f}, fl, rws, gts, ring, taxi, q, n), OnlyBy(f, fl, fl2),
         fl2[f].assigned_runway = None, fl2[f].assigned_gate = None,
         fl2[f].state \in Gone
  PROVE  Tied({}, fl2, rws, gts, ring, taxi, q, n)
<1>1. /\ RunwaysTied({f}, fl, rws) /\ fl[f].assigned_runway = None
      /\ GatesTied({f}, fl, gts) /\ fl[f].assigned_gate = None
      /\ RingsTied({f}, fl, ring, taxi, n)
      /\ DriveTied({f}, fl, taxi, q, n)
  BY DEF Tied, RunwaysTied, GatesTied
<1>2. fl2[f].state \notin {"AC_LANDING", "AC_DEPARTING", "AC_AT_GATE"}
  BY DEF Gone
<1>3. RunwaysTied({}, fl2, rws)
  <2>1. RunwayFits(fl2[f], rws)
    BY <1>2 DEF RunwayFits
  <2> QED BY <1>1, <2>1, RunwaysQuiet
<1>4. GatesTied({}, fl2, gts)
  BY <1>1, <1>2, GatesQuiet
<1>5. ~ InRing(ring, f) /\ ~ InRing(taxi, f)
  BY <1>1, HandNotWaiting DEF RingsTied
<1>6. RingsTied({}, fl2, ring, taxi, n)
  BY <1>1, <1>5, RingsQuiet
<1>7. f < n
  BY <1>1, HandKnown
<1>8. DriveTied({}, fl2, taxi, q, n)
  BY <1>1, <1>7, DriveGone
<1> QED BY <1>3, <1>4, <1>6, <1>8 DEF Tied

\* The flight that has waited longest on the taxiway is taken in hand.
LEMMA TaxiInHand ==
  ASSUME NEW fl \in [Flights -> Aircraft], NEW rws \in [Runways -> Runway],
         NEW gts \in [Gates -> Gate], NEW ring,
         NEW taxi \in Seq(Flights), NEW q \in Seq(AtcEvent(Flights)),
         NEW n \in Nat, n <= MAX_FLIGHTS,
         Tied({}, fl, rws, gts, ring, taxi, q, n), taxi # <<>>
  PROVE  /\ Tied({Head(taxi)}, fl, rws, gts, ring, Tail(taxi), q, n)
         /\ Head(taxi) \in Flights /\ fl[Head(taxi)].state = "AC_TAXI_IN"
<1> DEFINE f == Head(taxi)
<1>1. /\ RunwaysTied({}, fl, rws) /\ GatesTied({}, fl, gts)
      /\ Waiting(ring, {}, fl, n, "AC_HOLDING") /\ Waiting(taxi, {}, fl, n, "AC_TAXI_IN")
      /\ DriveTied({}, fl, taxi, q, n)
  BY DEF Tied, RingsTied
<1>2. f = taxi[1] /\ 1 \in DOMAIN taxi /\ f \in Flights
  <2>1. Len(taxi) \in Nat /\ DOMAIN taxi = 1 .. Len(taxi) /\ Len(taxi) # 0
    BY LenProperties, EmptySeq
  <2> QED BY <2>1, HeadTailProperties, ElementOfSeq
<1>3. f < n /\ fl[f].state = "AC_TAXI_IN" /\ InRing(taxi, f) /\ IsInjective(taxi)
  <2>1. taxi[1] \in 0 .. n-1 /\ fl[taxi[1]].state = "AC_TAXI_IN" /\ IsInjective(taxi)
    BY <1>1, <1>2 DEF Waiting
  <2> QED BY <1>2, <2>1 DEF InRing
<1> HIDE DEF f
<1>4. /\ Thinned(Tail(taxi), taxi)
      /\ \A g \in Flights : InRing(Tail(taxi), g) <=> InRing(taxi, g) /\ g # f
  BY <1>3, TailThins DEF f
<1>5. fl[f].assigned_runway = None
  <2>1. fl[f].assigned_runway # None => fl[f].state \in {"AC_LANDING", "AC_DEPARTING"}
    BY <1>1, <1>2, RunwayOf
  <2> QED BY <1>3, <2>1
<1>6. fl[f].assigned_gate = None
  BY <1>1, <1>2, <1>3 DEF GatesTied
<1>7. RunwaysTied({f}, fl, rws)
  BY <1>1, <1>2, <1>5, RunwaysInHand
<1>8. GatesTied({f}, fl, gts)
  BY <1>1, <1>2, <1>6, GatesInHand
<1>9. Waiting(Tail(taxi), {f}, fl, n, "AC_TAXI_IN")
  BY <1>1, <1>2, <1>4, WaitingThinned
<1>10. ~ InRing(ring, f)
  BY <1>1, <1>3 DEF Waiting, InRing
<1>11. Waiting(ring, {f}, fl, n, "AC_HOLDING")
  BY <1>1, <1>10, WaitingInHand
<1>12. DriveTied({f}, fl, Tail(taxi), q, n)
  <2>1. OnlyIn(f, taxi, Tail(taxi))
    BY <1>4 DEF OnlyIn
  <2> QED BY <1>1, <1>2, <1>3, <2>1, DriveInHand
<1> QED BY <1>2, <1>3, <1>7, <1>8, <1>9, <1>11, <1>12 DEF Tied, RingsTied, f

\* The flight in hand gets a vacant gate, or waits for one.
LEMMA TryAssignGateTies ==
  ASSUME NEW f \in Flights, NEW fl, NEW rws, NEW gts, NEW ring, NEW taxi, NEW q,
         NEW n \in Nat, n <= MAX_FLIGHTS, GateParts(fl, gts, taxi, q, stats),
         now' \in Nat, fl[f].state = "AC_TAXI_IN",
         Tied({f}, fl, rws, gts, ring, taxi, q, n),
         try_assign_gate(f, fl, gts, taxi, q)
  PROVE  Tied({}, flights', rws, gates', ring, taxi_wait', pq', n)
<1>1. /\ RunwaysTied({f}, fl, rws) /\ fl[f].assigned_runway = None
      /\ GatesTied({f}, fl, gts) /\ fl[f].assigned_gate = None
      /\ Waiting(ring, {f}, fl, n, "AC_HOLDING") /\ Waiting(taxi, {f}, fl, n, "AC_TAXI_IN")
      /\ RingsTied({f}, fl, ring, taxi, n)
      /\ DriveTied({f}, fl, taxi, q, n)
  BY DEF Tied, RunwaysTied, GatesTied, RingsTied
<1>2. /\ fl \in [Flights -> Aircraft] /\ gts \in [Gates -> Gate]
      /\ taxi \in Seq(Flights) /\ q \in Seq(AtcEvent(Flights))
      /\ flights' \in [Flights -> Aircraft] /\ fl[f] \in Aircraft
  <2>1. GateParts(flights', gates', taxi_wait', pq', stats')
    BY TryAssignGateType
  <2> QED BY <2>1 DEF GateParts
<1>3. ~ InRing(ring, f) /\ ~ InRing(taxi, f) /\ f < n
  BY <1>1, HandNotWaiting, HandKnown
<1>4. \/ \E g \in find_vacant_gate(gts) :
             /\ gates' = [gts EXCEPT ![g] = [state |-> "GATE_OCCUPIED",
                                             occupant |-> f]]
             /\ flights' = [fl EXCEPT ![f].assigned_gate = g,
                                      ![f].state = "AC_AT_GATE",
                                      ![f].total_wait = @ + Waited(fl[f])]
             /\ pq' = schedule(q, f, "EVENT_GATE_RELEASE", now' + GATE_TURNAROUND,
                               PRIO_ROUTINE)
             /\ taxi_wait' = taxi
      \/ /\ AwaitGate(f, taxi, q)
         /\ gates' = gts /\ flights' = fl
  BY Zenon DEF try_assign_gate
<1>5. ASSUME NEW g \in find_vacant_gate(gts),
             gates' = [gts EXCEPT ![g] = [state |-> "GATE_OCCUPIED", occupant |-> f]],
             flights' = [fl EXCEPT ![f].assigned_gate = g,
                                   ![f].state = "AC_AT_GATE",
                                   ![f].total_wait = @ + Waited(fl[f])],
             pq' = schedule(q, f, "EVENT_GATE_RELEASE", now' + GATE_TURNAROUND,
                            PRIO_ROUTINE),
             taxi_wait' = taxi
      PROVE  Tied({}, flights', rws, gates', ring, taxi_wait', pq', n)
  <2> DEFINE a == [fl[f] EXCEPT !.assigned_gate = g, !.state = "AC_AT_GATE",
                                !.total_wait = @ + Waited(fl[f])]
  <2>1. g \in Gates /\ gts[g].state = "GATE_VACANT"
    BY DEF find_vacant_gate
  <2>2. flights' = [fl EXCEPT ![f] = a]
    BY <1>2, <1>5
  <2>3. /\ a.state = "AC_AT_GATE" /\ a.assigned_gate = g
        /\ a.assigned_runway = fl[f].assigned_runway
    BY <1>2 DEF Aircraft
  <2> HIDE DEF a
  <2>4. OnlyBy(f, fl, flights') /\ flights'[f] = a
    BY <1>2, <2>2, Replaced
  <2>5. RunwaysTied({}, flights', rws)
    <3>1. RunwayFits(flights'[f], rws)
      BY <1>1, <2>3, <2>4 DEF RunwayFits
    <3> QED BY <1>1, <2>3, <2>4, <3>1, RunwaysQuiet
  <2>6. GatesTied({}, flights', gates')
    BY <1>1, <1>2, <1>5, <2>1, <2>3, <2>4, GateTaken
  <2>7. RingsTied({}, flights', ring, taxi, n)
    BY <1>1, <1>3, <2>4, RingsQuiet
  <2>8. DriveTied({}, flights', taxi, pq', n)
    <3>1. now' + GATE_TURNAROUND \in Nat
      BY TimeAssumption DEF Positive
    <3>2. "EVENT_GATE_RELEASE" \in EventType /\ PRIO_ROUTINE \in PRIO_EMERGENCY .. PRIO_ROUTINE
      BY Types DEF PRIO_ROUTINE, PRIO_EMERGENCY
    <3>3. Plans(q, pq', f, "EVENT_GATE_RELEASE")
      BY <1>2, <1>5, <3>1, <3>2, SchedulePlans
    <3>4. /\ flights'[f].state \in AircraftState \ (Gone \cup {"AC_HOLDING", "AC_INBOUND"})
          /\ "EVENT_GATE_RELEASE" = Awaited[flights'[f].state]
      BY <2>3, <2>4, AwaitedEvents DEF AircraftState, Gone
    <3> QED BY <1>1, <1>2, <1>3, <2>4, <3>3, <3>4, DrivePlan
  <2> QED BY <1>5, <2>5, <2>6, <2>7, <2>8 DEF Tied
<1>6. CASE AwaitGate(f, taxi, q) /\ gates' = gts /\ flights' = fl
  <2>1. CASE Len(taxi) < MAX_TAXI_SLOTS /\ taxi_wait' = Append(taxi, f) /\ pq' = q
    <3>1. OnlyBy(f, fl, fl) /\ n <= n /\ {f} \in {{}, {f}}
      BY DEF OnlyBy
    <3>2. RunwaysTied({}, fl, rws)
      <4>1. RunwayFits(fl[f], rws)
        BY <1>1 DEF RunwayFits
      <4> QED BY <1>1, <3>1, <4>1, RunwaysQuiet
    <3>3. GatesTied({}, fl, gts)
      BY <1>1, <3>1, GatesQuiet
    <3>4. Waiting(taxi_wait', {}, fl, n, "AC_TAXI_IN")
      BY <1>1, <1>2, <1>3, <2>1, <3>1, WaitingJoined
    <3>5. Waiting(ring, {}, fl, n, "AC_HOLDING")
      BY <1>1, <1>3, <3>1, WaitingQuiet
    <3>6. InRing(taxi_wait', f) /\ OnlyIn(f, taxi, taxi_wait')
      <4>1. Len(taxi) \in Nat /\ DOMAIN taxi = 1 .. Len(taxi)
        BY <1>2, LenProperties
      <4>2. /\ DOMAIN taxi_wait' = 1 .. Len(taxi) + 1 /\ taxi_wait'[Len(taxi) + 1] = f
            /\ \A k \in 1 .. Len(taxi) : taxi_wait'[k] = taxi[k]
        <5>1. taxi_wait' \in Seq(Flights) /\ Len(taxi_wait') = Len(taxi) + 1
          BY <1>2, <2>1, AppendProperties
        <5> QED BY <1>2, <2>1, <5>1, AppendProperties, LenProperties
      <4>3. InRing(taxi_wait', f)
        BY <4>1, <4>2 DEF InRing
      <4>4. ASSUME NEW g \in Flights \ {f}
            PROVE  InRing(taxi_wait', g) <=> InRing(taxi, g)
        <5>1. InRing(taxi, g) => InRing(taxi_wait', g)
          BY <4>1, <4>2 DEF InRing
        <5>2. \A k \in 1 .. Len(taxi) + 1 : k \in 1 .. Len(taxi) \/ k = Len(taxi) + 1
          BY <4>1
        <5>3. InRing(taxi_wait', g) => InRing(taxi, g)
          BY <4>1, <4>2, <5>2 DEF InRing
        <5> QED BY <5>1, <5>3
      <4> QED BY <4>3, <4>4 DEF OnlyIn
    <3>7. DriveTied({}, fl, taxi_wait', q, n)
      BY <1>1, <1>2, <3>6, DrivePark
    <3> QED BY <1>6, <2>1, <3>2, <3>3, <3>4, <3>5, <3>7 DEF Tied, RingsTied
  <2>2. CASE /\ taxi_wait' = taxi
             /\ pq' = schedule(q, f, "EVENT_TAXI_TO_GATE", now' + TAXI_RETRY,
                               PRIO_ROUTINE)
    <3>1. now' + TAXI_RETRY \in Nat
      BY TimeAssumption DEF Positive
    <3>2. "EVENT_TAXI_TO_GATE" \in EventType /\ PRIO_ROUTINE \in PRIO_EMERGENCY .. PRIO_ROUTINE
      BY Types DEF PRIO_ROUTINE, PRIO_EMERGENCY
    <3>3. Plans(q, pq', f, "EVENT_TAXI_TO_GATE")
      BY <1>2, <2>2, <3>1, <3>2, SchedulePlans
    <3>4. Plans(q, pq', f, Awaited[fl[f].state]) /\ OnlyBy(f, fl, fl)
      BY <3>3, AwaitedEvents DEF OnlyBy
    <3>5. Tied({}, fl, rws, gts, ring, taxi, pq', n)
      BY <1>1, <1>2, <3>4, PutDown
    <3> QED BY <1>6, <2>2, <3>5
  <2> QED BY <1>6, <2>1, <2>2 DEF AwaitGate
<1> QED BY <1>4, <1>5, <1>6

-----------------------------------------------------------------------------
(* The ties hold at the start.                                             *)

LEMMA CountFits == TypeOK => flight_count \in Nat /\ flight_count <= MAX_FLIGHTS
BY SizeAssumption DEF TypeOK, Positive

LEMMA AllTiedNext ==
  ASSUME Tied({}, flights', runways', gates', holding', taxi_wait', pq', flight_count')
  PROVE  AllTied'
BY DEF AllTied

LEMMA InitTied == Init => AllTied
<1> SUFFICES ASSUME Init PROVE AllTied
  OBVIOUS
<1>1. /\ flights = [f \in Flights |-> Blank]
      /\ flight_count = 0 /\ holding = <<>> /\ taxi_wait = <<>>
      /\ runways = [rw \in Runways |-> [state |-> "RW_IDLE", occupant |-> None]]
      /\ gates = [g \in Gates |-> [state |-> "GATE_VACANT", occupant |-> None]]
  BY DEF Init
<1>2. \A f \in Flights : /\ flights[f].state = "AC_INBOUND"
                         /\ flights[f].assigned_runway = None
                         /\ flights[f].assigned_gate = None
  BY <1>1 DEF Blank
<1>3. RunwaysTied({}, flights, runways)
  BY <1>1, <1>2, NoneApart DEF RunwaysTied, RunwayFits
<1>4. GatesTied({}, flights, gates)
  BY <1>1, <1>2, NoneApart DEF GatesTied
<1>5. RingsTied({}, flights, holding, taxi_wait, flight_count)
  <2>1. <<>> \in Seq(Flights) /\ DOMAIN <<>> = {}
    OBVIOUS
  <2> QED BY <1>1, <2>1 DEF RingsTied, Waiting, IsInjective
<1>6. DriveTied({}, flights, taxi_wait, pq, flight_count)
  <2>1. PICK gap \in ArrivalGaps, wgap \in WeatherGaps :
            pq = schedule_weather(schedule(<<>>, 0, "EVENT_AIRCRAFT_ARRIVE",
                                           gap, PRIO_ROUTINE), 0, wgap)
    BY DEF Init
  <2> DEFINE q == schedule(<<>>, 0, "EVENT_AIRCRAFT_ARRIVE", gap, PRIO_ROUTINE)
  <2>2. /\ gap \in Nat /\ wgap \in Nat /\ 0 \in Flights /\ 0 + wgap \in Nat
        /\ PRIO_ROUTINE \in PRIO_EMERGENCY .. PRIO_ROUTINE
    BY TimeAssumption, SizeAssumption DEF Positive, Flights, PRIO_ROUTINE, PRIO_EMERGENCY
  <2>3. <<>> \in Seq(AtcEvent(Flights)) /\ DOMAIN <<>> = {}
    OBVIOUS
  <2>4. \A f, T : Count(<<>>, f, T) = 0
    BY <2>3, FS_EmptySet DEF Count
  <2>5. DriveTied({}, flights, taxi_wait, <<>>, flight_count)
    BY <1>1, <1>2, <2>4 DEF DriveTied, DrivenFor, Flights
  <2>6. Plans(<<>>, q, 0, "EVENT_AIRCRAFT_ARRIVE")
    BY <2>2, <2>3, Types, SchedulePlans
  <2>7. q \in Seq(AtcEvent(Flights))
    BY <2>6 DEF Plans
  <2>8. flights \in [Flights -> Aircraft]
    BY InitType DEF TypeOK
  <2>9. /\ "EVENT_AIRCRAFT_ARRIVE" \notin Movers \cup Fuel
        /\ "EVENT_WEATHER_CHANGE" \notin Movers \cup Fuel
    BY MoverTypes DEF Fuel
  <2>10. DriveTied({}, flights, taxi_wait, q, flight_count)
    BY <2>3, <2>5, <2>6, <2>8, <2>9, DriveNoise
  <2> HIDE DEF q
  <2>11. CASE 0 + wgap <= horizon
    <3>1. pq = schedule(q, 0, "EVENT_WEATHER_CHANGE", 0 + wgap, PRIO_ROUTINE)
      BY <2>1, <2>11 DEF schedule_weather, q
    <3>2. Plans(q, pq, 0, "EVENT_WEATHER_CHANGE")
      BY <2>2, <2>7, <3>1, Types, SchedulePlans
    <3> QED BY <2>7, <2>8, <2>9, <2>10, <3>2, DriveNoise
  <2>12. CASE ~ (0 + wgap <= horizon)
    BY <2>1, <2>10, <2>12 DEF schedule_weather, q
  <2> QED BY <2>11, <2>12
<1> QED BY <1>3, <1>4, <1>5, <1>6 DEF AllTied, Tied

-----------------------------------------------------------------------------
(* The ties hold after every step, one lemma for each kind of step.        *)

LEMMA StateAwaiting ==
  ASSUME NEW s \in AircraftState \ Gone
  PROVE  /\ Awaited[s] = "EVENT_RUNWAY_REQUEST" => s = "AC_INBOUND"
         /\ Awaited[s] = "EVENT_TOUCHDOWN" => s = "AC_LANDING"
         /\ Awaited[s] = "EVENT_TAXI_TO_GATE" => s = "AC_TAXI_IN"
         /\ Awaited[s] = "EVENT_GATE_RELEASE" => s = "AC_AT_GATE"
         /\ Awaited[s] = "EVENT_TAKEOFF_READY" => s = "AC_TAXI_OUT"
         /\ Awaited[s] = "EVENT_TAKEOFF_CLEAR" => s = "AC_DEPARTING"
         /\ Awaited[s] = "EVENT_DEPART_SECTOR" => s = "AC_AIRBORNE_OUT"
BY AwaitedEvents DEF AircraftState, Gone

\* An event that moves a flight on finds it where it awaits that event.
LEMMA Popped ==
  ASSUME TypeOK, AllTied, NEW type \in Movers, NEW f \in Flights, Dispatch(type, f)
  PROVE  /\ f < flight_count /\ flights[f].state \in AircraftState \ Gone
         /\ flights[f].state # "AC_HOLDING"
         /\ Awaited[flights[f].state] = type
         /\ ~ InRing(holding, f) /\ ~ InRing(taxi_wait, f)
         /\ DriveTied({f}, flights, taxi_wait, Tail(pq), flight_count)
<1>1. /\ pq # <<>> /\ Head(pq).type = type /\ f = Head(pq).flight
      /\ flights[f].state \notin Gone
  BY DEF Dispatch, Pop
<1>2. pq \in Seq(AtcEvent(Flights)) /\ flights \in [Flights -> Aircraft]
  BY DEF TypeOK
<1>3. flight_count \in Nat
  BY CountFits
<1>4. /\ DriveTied({}, flights, taxi_wait, pq, flight_count)
      /\ Waiting(holding, {}, flights, flight_count, "AC_HOLDING")
      /\ Waiting(taxi_wait, {}, flights, flight_count, "AC_TAXI_IN")
  BY DEF AllTied, Tied, RingsTied
<1>5. /\ f < flight_count /\ flights[f].state # "AC_HOLDING"
      /\ flights[f].state = "AC_TAXI_IN" => ~ InRing(taxi_wait, f)
      /\ Awaited[flights[f].state] = type
      /\ DriveTied({f}, flights, taxi_wait, Tail(pq), flight_count)
  BY <1>1, <1>2, <1>3, <1>4, DrivePop
<1>6. flights[f].state \in AircraftState
  BY <1>2 DEF Aircraft
<1>7. ~ InRing(holding, f) /\ ~ InRing(taxi_wait, f)
  BY <1>4, <1>5 DEF Waiting, InRing
<1> QED BY <1>1, <1>5, <1>6, <1>7

\* If it has no runway and no gate it is in hand.
LEMMA PoppedInHand ==
  ASSUME TypeOK, AllTied, NEW type \in Movers, NEW f \in Flights, Dispatch(type, f),
         flights[f].state \notin {"AC_LANDING", "AC_DEPARTING", "AC_AT_GATE"}
  PROVE  Tied({f}, flights, runways, gates, holding, taxi_wait, Tail(pq), flight_count)
<1>1. /\ flights[f].state \in AircraftState \ Gone
      /\ ~ InRing(holding, f) /\ ~ InRing(taxi_wait, f)
      /\ DriveTied({f}, flights, taxi_wait, Tail(pq), flight_count)
  BY Popped
<1>2. /\ RunwaysTied({}, flights, runways) /\ GatesTied({}, flights, gates)
      /\ Waiting(holding, {}, flights, flight_count, "AC_HOLDING")
      /\ Waiting(taxi_wait, {}, flights, flight_count, "AC_TAXI_IN")
  BY DEF AllTied, Tied, RingsTied
<1>3. flights[f].assigned_runway = None
  <2>1. flights[f].assigned_runway # None
          => flights[f].state \in {"AC_LANDING", "AC_DEPARTING"}
    BY <1>2, RunwayOf DEF TypeOK
  <2> QED BY <2>1
<1>4. flights[f].assigned_gate = None
  BY <1>2 DEF GatesTied
<1>5. RunwaysTied({f}, flights, runways) /\ GatesTied({f}, flights, gates)
  BY <1>2, <1>3, <1>4, RunwaysInHand, GatesInHand
<1>6. /\ Waiting(holding, {f}, flights, flight_count, "AC_HOLDING")
      /\ Waiting(taxi_wait, {f}, flights, flight_count, "AC_TAXI_IN")
  BY <1>1, <1>2, WaitingInHand
<1> QED BY <1>1, <1>5, <1>6 DEF Tied, RingsTied

\* An event that concerns no flight, or none that waits for it, is dropped.
LEMMA PoppedElse ==
  ASSUME TypeOK, AllTied, pq # <<>>,
         \/ Head(pq).type \notin Movers \cup Fuel
         \/ /\ Head(pq).type = "EVENT_EMERGENCY_FUEL"
            /\ flights[Head(pq).flight].state \notin {"AC_HOLDING", "AC_INBOUND"}
         \/ flights[Head(pq).flight].state \in Gone
  PROVE  Tied({}, flights, runways, gates, holding, taxi_wait, Tail(pq), flight_count)
<1>1. pq \in Seq(AtcEvent(Flights)) /\ flights \in [Flights -> Aircraft]
  BY DEF TypeOK
<1>2. Head(pq).flight \in Flights /\ flight_count \in Nat
  BY PopType, CountFits
<1>3. /\ RunwaysTied({}, flights, runways) /\ GatesTied({}, flights, gates)
      /\ RingsTied({}, flights, holding, taxi_wait, flight_count)
      /\ DriveTied({}, flights, taxi_wait, pq, flight_count)
  BY DEF AllTied, Tied
<1> DEFINE f == Head(pq).flight
<1>4. DriveTied({}, flights, taxi_wait, Tail(pq), flight_count)
  <2>1. f \in Flights /\ f = Head(pq).flight
    BY <1>2
  <2> HIDE DEF f
  <2> QED BY <1>1, <1>2, <1>3, <2>1, DrivePopElse
<1> QED BY <1>3, <1>4 DEF Tied

LEMMA DropTies == ASSUME TypeOK, AllTied, drop_stale PROVE AllTied'
<1>1. Tied({}, flights, runways, gates, holding, taxi_wait, Tail(pq), flight_count)
  BY PoppedElse DEF drop_stale
<1>2. /\ pq' = Tail(pq)
      /\ UNCHANGED <<flights, flight_count, runways, gates, holding, taxi_wait>>
  BY DEF drop_stale
<1> QED BY <1>1, <1>2, AllTiedNext

LEMMA TableFullTies == ASSUME TypeOK, AllTied, spawn_aircraft_table_full PROVE AllTied'
<1>1. "EVENT_AIRCRAFT_ARRIVE" \notin Movers \cup Fuel
  BY MoverTypes DEF Fuel
<1>2. Tied({}, flights, runways, gates, holding, taxi_wait, Tail(pq), flight_count)
  BY <1>1, PoppedElse DEF spawn_aircraft_table_full, Pop
<1>3. /\ pq' = Tail(pq)
      /\ UNCHANGED <<flights, flight_count, runways, gates, holding, taxi_wait>>
  BY DEF spawn_aircraft_table_full
<1> QED BY <1>2, <1>3, AllTiedNext

LEMMA WeatherTies == ASSUME TypeOK, AllTied, on_weather_change PROVE AllTied'
<1>1. "EVENT_WEATHER_CHANGE" \notin Movers \cup Fuel
  BY MoverTypes DEF Fuel
<1>2. Tied({}, flights, runways, gates, holding, taxi_wait, Tail(pq), flight_count)
  BY <1>1, PoppedElse DEF on_weather_change, Pop
<1>3. UNCHANGED <<flights, flight_count, runways, gates, holding, taxi_wait>>
  BY DEF on_weather_change
<1>4. /\ Tail(pq) \in Seq(AtcEvent(Flights)) /\ now' \in Nat
      /\ flights \in [Flights -> Aircraft]
  BY PopType DEF on_weather_change, Pop, TypeOK
<1>5. PICK gap \in WeatherGaps : pq' = schedule_weather(Tail(pq), now', gap)
  BY DEF on_weather_change
<1>6. /\ now' + gap \in Nat /\ 0 \in Flights
      /\ PRIO_ROUTINE \in PRIO_EMERGENCY .. PRIO_ROUTINE
  <2>1. gap \in Nat
    BY TimeAssumption DEF Positive
  <2>2. 0 \in Flights
    BY SizeAssumption DEF Positive, Flights
  <2>3. PRIO_ROUTINE \in PRIO_EMERGENCY .. PRIO_ROUTINE
    BY DEF PRIO_ROUTINE, PRIO_EMERGENCY
  <2>4. now' \in Nat
    BY <1>4
  <2>5. now' + gap \in Nat
    BY <2>1, <2>4, Later
  <2> QED BY <2>2, <2>3, <2>5
<1>7. DriveTied({}, flights, taxi_wait, pq', flight_count)
  <2>1. DriveTied({}, flights, taxi_wait, Tail(pq), flight_count)
    BY <1>2 DEF Tied
  <2>2. CASE now' + gap <= horizon
    <3>1. pq' = schedule(Tail(pq), 0, "EVENT_WEATHER_CHANGE", now' + gap, PRIO_ROUTINE)
      BY <1>5, <2>2 DEF schedule_weather
    <3>2. Plans(Tail(pq), pq', 0, "EVENT_WEATHER_CHANGE")
      BY <1>4, <1>6, <3>1, Types, SchedulePlans
    <3> QED BY <1>1, <1>4, <2>1, <3>2, DriveNoise
  <2>3. CASE ~ (now' + gap <= horizon)
    BY <1>5, <2>1, <2>3 DEF schedule_weather
  <2> QED BY <2>2, <2>3
<1>8. Tied({}, flights, runways, gates, holding, taxi_wait, pq', flight_count)
  BY <1>2, <1>7 DEF Tied
<1> QED BY <1>3, <1>8, AllTiedNext

\* The table grows by a flight that asks for a runway at once.
LEMMA SpawnTies == ASSUME TypeOK, AllTied, spawn_aircraft PROVE AllTied'
<1> DEFINE f == flight_count
           q == Tail(pq)
           r == RequestRunway(q, f)
<1>1. /\ Head(pq).type = "EVENT_AIRCRAFT_ARRIVE" /\ pq # <<>>
      /\ now' = Head(pq).time /\ f < MAX_FLIGHTS /\ flight_count' = f + 1
      /\ UNCHANGED <<runways, gates, holding, taxi_wait>>
  BY DEF spawn_aircraft, Pop
<1>2. /\ q \in Seq(AtcEvent(Flights)) /\ now' \in Nat
      /\ flights \in [Flights -> Aircraft] /\ f \in Nat /\ f \in Flights
      /\ runways \in [Runways -> Runway] /\ gates \in [Gates -> Gate]
  <2>1. flight_count \in 0 .. MAX_FLIGHTS
    BY DEF TypeOK
  <2>2. f \in Nat /\ f \in Flights
    BY <1>1, <2>1, SizeAssumption DEF Flights, Positive
  <2> QED BY <1>1, <2>2, PopType DEF TypeOK
<1>3. "EVENT_AIRCRAFT_ARRIVE" \notin Movers \cup Fuel
  BY MoverTypes DEF Fuel
<1>4. Tied({}, flights, runways, gates, holding, taxi_wait, q, f)
  BY <1>1, <1>3, PoppedElse
<1>5. /\ RunwaysTied({}, flights, runways) /\ GatesTied({}, flights, gates)
      /\ Waiting(holding, {}, flights, f, "AC_HOLDING")
      /\ Waiting(taxi_wait, {}, flights, f, "AC_TAXI_IN")
      /\ DriveTied({}, flights, taxi_wait, q, f)
  BY <1>4 DEF Tied, RingsTied
<1>6. /\ flights[f].state = "AC_INBOUND"
      /\ \A T \in SUBSET (Movers \cup Fuel) : Count(q, f, T) = 0
  <2>1. DrivenFor(f, {}, flights, taxi_wait, q, f)
    BY <1>2, <1>5 DEF DriveTied
  <2>2. ~ (f < f)
    BY <1>2
  <2> QED BY <2>1, <2>2 DEF DrivenFor
<1>7. PICK fuel \in SpawnFuel, wake \in Wakes :
          flights' = [flights EXCEPT ![f] = [Blank EXCEPT !.fuel = fuel, !.wake = wake,
                                                          !.last_update = now']]
  BY DEF spawn_aircraft
<1>8. PICK gap \in ArrivalGaps :
          pq' = IF spawning_done' THEN r
                ELSE schedule(r, 0, "EVENT_AIRCRAFT_ARRIVE", now' + gap, PRIO_ROUTINE)
  BY DEF spawn_aircraft
<1> HIDE DEF f, q, r
<1> DEFINE a == [Blank EXCEPT !.fuel = fuel, !.wake = wake, !.last_update = now']
<1>9. /\ a.state = "AC_INBOUND" /\ a.assigned_runway = None /\ a.assigned_gate = None
  BY DEF Blank
<1>10. flights' = [flights EXCEPT ![f] = a]
  BY <1>7
<1> HIDE DEF a
<1>11. OnlyBy(f, flights, flights') /\ flights'[f] = a
  BY <1>2, <1>10, Replaced
<1>12. flights[f].assigned_runway = None /\ flights[f].assigned_gate = None
  <2>1. flights[f].assigned_runway # None
          => flights[f].state \in {"AC_LANDING", "AC_DEPARTING"}
    BY <1>2, <1>5, RunwayOf
  <2> QED BY <1>2, <1>5, <1>6, <2>1 DEF GatesTied
<1>13. RunwaysTied({}, flights', runways)
  <2>1. RunwayFits(flights'[f], runways)
    BY <1>9, <1>11 DEF RunwayFits
  <2> QED BY <1>2, <1>5, <1>9, <1>11, <1>12, <2>1, RunwaysQuiet
<1>14. GatesTied({}, flights', gates)
  BY <1>2, <1>5, <1>9, <1>11, <1>12, GatesQuiet
<1>15. ~ InRing(holding, f) /\ ~ InRing(taxi_wait, f)
  BY <1>2, <1>5 DEF Waiting, InRing
<1>16. RingsTied({}, flights', holding, taxi_wait, f + 1)
  <2>1. f + 1 \in Nat /\ f <= f + 1 /\ f <= MAX_FLIGHTS
    BY <1>1, <1>2, SizeAssumption DEF Positive
  <2>2. Waiting(holding, {}, flights', f + 1, "AC_HOLDING")
    BY <1>2, <1>5, <1>11, <1>15, <2>1, WaitingQuiet
  <2>3. Waiting(taxi_wait, {}, flights', f + 1, "AC_TAXI_IN")
    BY <1>2, <1>5, <1>11, <1>15, <2>1, WaitingQuiet
  <2> QED BY <2>2, <2>3 DEF RingsTied
<1>17. Plans(q, r, f, "EVENT_RUNWAY_REQUEST") /\ r \in Seq(AtcEvent(Flights))
  <2>1. /\ "EVENT_RUNWAY_REQUEST" \in EventType
        /\ PRIO_LANDING \in PRIO_EMERGENCY .. PRIO_ROUTINE
    BY Types DEF PRIO_LANDING, PRIO_EMERGENCY, PRIO_ROUTINE
  <2>2. Plans(q, r, f, "EVENT_RUNWAY_REQUEST")
    BY <1>2, <2>1, SchedulePlans DEF RequestRunway, r
  <2> QED BY <2>2 DEF Plans
<1>18. DriveTied({}, flights', taxi_wait, r, f + 1)
  <2>1. SUBSET (Movers \cup Fuel) \subseteq SUBSET EventType
    BY MoverTypes
  <2>2. \A T \in SUBSET (Movers \cup Fuel) :
            Count(r, f, T) = 0 + (IF "EVENT_RUNWAY_REQUEST" \in T THEN 1 ELSE 0)
    <3>1. \A T \in SUBSET EventType :
              Count(r, f, T) = Count(q, f, T)
                               + (IF "EVENT_RUNWAY_REQUEST" \in T THEN 1 ELSE 0)
      BY <1>2, <1>17 DEF Plans
    <3> QED BY <1>6, <2>1, <3>1
  <2>3. /\ Movers \in SUBSET (Movers \cup Fuel) /\ Asking \in SUBSET (Movers \cup Fuel)
        /\ Asking \cup Fuel \in SUBSET (Movers \cup Fuel)
        /\ "EVENT_RUNWAY_REQUEST" \in Asking /\ "EVENT_RUNWAY_REQUEST" \in Movers
    BY MoverTypes DEF Asking
  <2>4. /\ Count(r, f, Movers) = 1 /\ Count(r, f, Asking) = 1
        /\ Count(r, f, Asking \cup Fuel) = 1
    BY <2>2, <2>3
  <2>5. Driven("AC_INBOUND", InRing(taxi_wait, f), r, f)
    BY <2>4 DEF Driven
  <2>6. f < f + 1
    BY <1>2
  <2>7. DrivenFor(f, {}, flights', taxi_wait, r, f + 1)
    BY <1>9, <1>11, <2>5, <2>6 DEF DrivenFor
  <2>8. OnlyFor(f, q, r)
    BY <1>2, <1>17, PlansOnly
  <2>9. \A g \in Flights \ {f} : g < f + 1 <=> g < f
    BY <1>2 DEF Flights
  <2> QED BY <1>2, <1>5, <1>11, <2>7, <2>8, <2>9, DrivenElse DEF OnlyIn
<1>19. DriveTied({}, flights', taxi_wait, pq', f + 1)
  <2>1. CASE spawning_done'
    BY <1>8, <1>18, <2>1
  <2>2. CASE ~ spawning_done'
    <3>1. /\ now' + gap \in Nat /\ 0 \in Flights
          /\ PRIO_ROUTINE \in PRIO_EMERGENCY .. PRIO_ROUTINE
      <4>1. gap \in Nat
        BY TimeAssumption
      <4>2. 0 \in Flights
        BY SizeAssumption DEF Positive, Flights
      <4>3. now' \in Nat
        BY <1>2
      <4>4. now' + gap \in Nat
        BY <4>1, <4>3, Later
      <4>5. PRIO_ROUTINE \in PRIO_EMERGENCY .. PRIO_ROUTINE
        BY DEF PRIO_ROUTINE, PRIO_EMERGENCY
      <4> QED BY <4>2, <4>4, <4>5
    <3>2. pq' = schedule(r, 0, "EVENT_AIRCRAFT_ARRIVE", now' + gap, PRIO_ROUTINE)
      BY <1>8, <2>2
    <3>3. Plans(r, pq', 0, "EVENT_AIRCRAFT_ARRIVE")
      BY <1>17, <3>1, <3>2, Types, SchedulePlans
    <3>4. flights' \in [Flights -> Aircraft]
      BY SpawnType DEF TypeOK
    <3> QED BY <1>3, <1>17, <1>18, <3>3, <3>4, DriveNoise
  <2> QED BY <2>1, <2>2
<1>20. Tied({}, flights', runways', gates', holding', taxi_wait', pq', flight_count')
  BY <1>1, <1>13, <1>14, <1>16, <1>19 DEF Tied
<1> QED BY <1>20, AllTiedNext

LEMMA RequestTies ==
  ASSUME TypeOK, AllTied, NEW f \in Flights, on_runway_request(f) PROVE AllTied'
<1> DEFINE a  == [decay_fuel(flights[f]) EXCEPT !.queue_enter_time = now']
           fl == [flights EXCEPT ![f] = a]
           q  == Tail(pq)
<1>1. Dispatch("EVENT_RUNWAY_REQUEST", f) /\ "EVENT_RUNWAY_REQUEST" \in Movers
  BY MoverTypes DEF on_runway_request
<1>2. UNCHANGED <<flight_count, gates, taxi_wait, weather, spawning_done>>
  BY DEF on_runway_request
<1>3. \/ /\ flights' = [fl EXCEPT ![f].emergency = TRUE]
         /\ pq' = schedule(q, f, "EVENT_EMERGENCY_FUEL", now', PRIO_EMERGENCY)
         /\ UNCHANGED <<runways, holding>>
      \/ try_assign_landing(f, fl, runways, holding, q, stats)
  BY Zenon DEF on_runway_request
<1>4. /\ Parts(flights, runways, holding, q, stats) /\ now' \in Nat
      /\ flights \in [Flights -> Aircraft] /\ flights[f] \in Aircraft
      /\ q \in Seq(AtcEvent(Flights)) /\ weather \in Weather
  <2>1. Parts(flights, runways, holding, q, stats) /\ now' \in Nat
    BY <1>1, PoppedParts DEF Dispatch, Pop
  <2> QED BY <2>1 DEF Parts, TypeOK
<1>5. decay_fuel(flights[f]) \in Aircraft
  BY <1>4, DecayType
<1>6. /\ a \in Aircraft /\ a.state = flights[f].state
      /\ a.assigned_runway = flights[f].assigned_runway
      /\ a.assigned_gate = flights[f].assigned_gate
  <2>1. /\ decay_fuel(flights[f]).state = flights[f].state
        /\ decay_fuel(flights[f]).assigned_runway = flights[f].assigned_runway
        /\ decay_fuel(flights[f]).assigned_gate = flights[f].assigned_gate
    BY <1>4, DecayKeeps
  <2> QED BY <1>4, <1>5, <2>1 DEF Aircraft
<1> HIDE DEF a
<1>7. fl \in [Flights -> Aircraft] /\ OnlyBy(f, flights, fl) /\ fl[f] = a
  BY <1>4, <1>6, Replaced
<1>8. Parts(fl, runways, holding, q, stats)
  BY <1>4, <1>7 DEF Parts
<1>9. flights[f].state = "AC_INBOUND"
  <2>1. /\ flights[f].state \in AircraftState \ Gone
        /\ Awaited[flights[f].state] = "EVENT_RUNWAY_REQUEST"
    BY <1>1, Popped
  <2> QED BY <2>1, StateAwaiting
<1>10. Tied({f}, flights, runways, gates, holding, taxi_wait, q, flight_count)
  BY <1>1, <1>9, PoppedInHand
<1>11. flight_count \in Nat /\ flight_count <= MAX_FLIGHTS
  BY CountFits
<1> HIDE DEF q, fl
<1>12. Tied({f}, fl, runways, gates, holding, taxi_wait, q, flight_count)
  <2>1. \A g \in Flights : /\ fl[g].state = flights[g].state
                           /\ fl[g].assigned_runway = flights[g].assigned_runway
                           /\ fl[g].assigned_gate = flights[g].assigned_gate
    BY <1>6, <1>7 DEF OnlyBy
  <2> QED BY <1>10, <1>11, <2>1, TiedQuiet
<1>13. CASE try_assign_landing(f, fl, runways, holding, q, stats)
  <2>1. Tied({}, flights', runways', gates, holding', taxi_wait, pq', flight_count)
    BY <1>4, <1>8, <1>11, <1>12, <1>13, TryAssignLandingTies
  <2> QED BY <1>2, <2>1, AllTiedNext
<1>14. CASE /\ flights' = [fl EXCEPT ![f].emergency = TRUE]
            /\ pq' = schedule(q, f, "EVENT_EMERGENCY_FUEL", now', PRIO_EMERGENCY)
            /\ UNCHANGED <<runways, holding>>
  <2>1. \A g \in Flights : /\ flights'[g].state = fl[g].state
                           /\ flights'[g].assigned_runway = fl[g].assigned_runway
                           /\ flights'[g].assigned_gate = fl[g].assigned_gate
    BY <1>7, <1>14 DEF Aircraft
  <2>2. Tied({f}, flights', runways, gates, holding, taxi_wait, q, flight_count)
    BY <1>11, <1>12, <2>1, TiedQuiet
  <2>3. flights'[f].state = "AC_INBOUND" /\ flights' \in [Flights -> Aircraft]
    <3>1. TypeOK'
      BY RequestType
    <3> QED BY <1>6, <1>7, <1>9, <2>1, <3>1 DEF TypeOK
  <2>4. Plans(q, pq', f, "EVENT_EMERGENCY_FUEL")
    <3>1. "EVENT_EMERGENCY_FUEL" \in EventType /\ PRIO_EMERGENCY \in PRIO_EMERGENCY .. PRIO_ROUTINE
      BY Types DEF PRIO_ROUTINE, PRIO_EMERGENCY
    <3> QED BY <1>4, <1>14, <3>1, SchedulePlans
  <2>5. Count(q, f, Asking \cup Fuel) = 0 /\ Count(q, f, Movers) = 0
        /\ Count(q, f, Asking) = 0
    <3>1. /\ DriveTied({f}, flights, taxi_wait, q, flight_count)
          /\ f < flight_count /\ flights[f].state \notin Gone
      BY <1>1, Popped DEF q
    <3>2. DrivenFor(f, {}, flights, taxi_wait, pq, flight_count)
      BY DEF AllTied, Tied, DriveTied
    <3>3. Count(pq, f, Asking \cup Fuel) = 1
      BY <1>9, <3>1, <3>2 DEF DrivenFor, Driven
    <3>4. /\ pq # <<>> /\ Head(pq).type = "EVENT_RUNWAY_REQUEST"
          /\ f = Head(pq).flight /\ pq \in Seq(AtcEvent(Flights))
      BY <1>1 DEF Dispatch, Pop, TypeOK
    <3>5. Count(q, f, Asking \cup Fuel) = Count(pq, f, Asking \cup Fuel) - 1
      BY <3>4, CountTail DEF Asking, q
    <3>6. \A T \in SUBSET Movers : Count(q, f, T) = 0
      BY <3>1 DEF DriveTied, DrivenFor
    <3> QED BY <3>3, <3>5, <3>6, MoverTypes
  <2>6. DriveTied({}, flights', taxi_wait, pq', flight_count)
    <3>1. DriveTied({f}, flights', taxi_wait, q, flight_count)
      BY <2>2 DEF Tied
    <3>2. /\ Movers \in SUBSET EventType /\ Asking \in SUBSET EventType
          /\ Asking \cup Fuel \in SUBSET EventType
          /\ "EVENT_EMERGENCY_FUEL" \notin Movers /\ "EVENT_EMERGENCY_FUEL" \notin Asking
          /\ "EVENT_EMERGENCY_FUEL" \in Asking \cup Fuel
      BY MoverTypes DEF Fuel
    <3>3. \A T \in SUBSET EventType :
              Count(pq', f, T) = Count(q, f, T)
                                 + (IF "EVENT_EMERGENCY_FUEL" \in T THEN 1 ELSE 0)
      BY <2>4 DEF Plans
    <3>4. /\ Count(pq', f, Movers) = 0 /\ Count(pq', f, Asking) = 0
          /\ Count(pq', f, Asking \cup Fuel) = 1
      BY <2>5, <3>2, <3>3
    <3>5. Driven("AC_INBOUND", InRing(taxi_wait, f), pq', f)
      BY <3>4 DEF Driven
    <3>6. f < flight_count
      BY <1>1, Popped
    <3>7. DrivenFor(f, {}, flights', taxi_wait, pq', flight_count)
      BY <2>3, <3>5, <3>6 DEF DrivenFor
    <3>8. OnlyFor(f, q, pq')
      BY <1>4, <2>4, PlansOnly DEF q
    <3> QED BY <2>3, <3>1, <3>7, <3>8, DrivenElse DEF OnlyBy, OnlyIn
  <2>7. Tied({}, flights', runways, gates, holding, taxi_wait, pq', flight_count)
    <3>1. /\ RunwaysTied({f}, flights', runways) /\ GatesTied({f}, flights', gates)
          /\ RingsTied({f}, flights', holding, taxi_wait, flight_count)
          /\ OnlyBy(f, flights', flights')
      BY <2>2 DEF Tied, OnlyBy
    <3>2. flights'[f].assigned_runway = None /\ flights'[f].assigned_gate = None
      BY <3>1 DEF RunwaysTied, GatesTied
    <3>3. RunwayFits(flights'[f], runways)
      BY <2>3, <3>2 DEF RunwayFits
    <3>4. RunwaysTied({}, flights', runways)
      BY <3>1, <3>3, RunwaysQuiet
    <3>5. GatesTied({}, flights', gates)
      BY <2>3, <3>1, <3>2, GatesQuiet
    <3>6. ~ InRing(holding, f) /\ ~ InRing(taxi_wait, f)
      BY <3>1, HandNotWaiting DEF RingsTied
    <3>7. RingsTied({}, flights', holding, taxi_wait, flight_count)
      BY <1>11, <3>1, <3>6, RingsQuiet
    <3> QED BY <2>6, <3>4, <3>5, <3>7 DEF Tied
  <2> QED BY <1>2, <1>14, <2>7, AllTiedNext
<1> QED BY <1>3, <1>13, <1>14

LEMMA MovedOnTies ==
  ASSUME TypeOK, AllTied, NEW f \in Flights, on_emergency_moved_on(f) PROVE AllTied'
<1>1. /\ pq # <<>> /\ Head(pq).type = "EVENT_EMERGENCY_FUEL" /\ Head(pq).flight = f
      /\ flights[f].state \notin {"AC_HOLDING", "AC_INBOUND"}
      /\ flights' = [flights EXCEPT ![f] = decay_fuel(@)] /\ pq' = Tail(pq)
      /\ UNCHANGED <<flight_count, runways, gates, holding, taxi_wait>>
  BY DEF on_emergency_moved_on, Dispatch, Pop
<1>2. Tied({}, flights, runways, gates, holding, taxi_wait, Tail(pq), flight_count)
  BY <1>1, PoppedElse
<1>3. \A g \in Flights : /\ flights'[g].state = flights[g].state
                         /\ flights'[g].assigned_runway = flights[g].assigned_runway
                         /\ flights'[g].assigned_gate = flights[g].assigned_gate
  <2>1. flights \in [Flights -> Aircraft] /\ flights[f] \in Aircraft
    BY DEF TypeOK
  <2> DEFINE a == decay_fuel(flights[f])
  <2>2. /\ a.state = flights[f].state
        /\ a.assigned_runway = flights[f].assigned_runway
        /\ a.assigned_gate = flights[f].assigned_gate
    BY <2>1, DecayKeeps
  <2>3. flights' = [flights EXCEPT ![f] = a]
    BY <1>1
  <2> HIDE DEF a
  <2> QED BY <2>1, <2>2, <2>3
<1>4. Tied({}, flights', runways, gates, holding, taxi_wait, Tail(pq), flight_count)
  BY <1>2, <1>3, CountFits, TiedQuiet
<1> QED BY <1>1, <1>4, AllTiedNext

\* The ring without a flight that waits, or asks, for a runway.
LEMMA UnqueuedTies ==
  ASSUME TypeOK, AllTied, NEW f \in Flights,
         flights[f].state # "AC_TAXI_IN"
  PROVE  /\ Waiting(Unqueued(f), {f}, flights, flight_count, "AC_HOLDING")
         /\ Waiting(taxi_wait, {f}, flights, flight_count, "AC_TAXI_IN")
<1>1. /\ Waiting(holding, {}, flights, flight_count, "AC_HOLDING")
      /\ Waiting(taxi_wait, {}, flights, flight_count, "AC_TAXI_IN")
      /\ holding \in Seq(Flights)
  BY DEF AllTied, Tied, RingsTied, TypeOK
<1>2. ~ InRing(taxi_wait, f)
  BY <1>1 DEF Waiting, InRing
<1>3. Waiting(taxi_wait, {f}, flights, flight_count, "AC_TAXI_IN")
  BY <1>1, <1>2, WaitingInHand
<1>4. CASE flights[f].state = "AC_HOLDING"
  <2>1. Unqueued(f) = holding_remove(holding, f)
    BY <1>4 DEF Unqueued
  <2>2. Thinned(Unqueued(f), holding) /\ ~ InRing(Unqueued(f), f)
    BY <1>1, <2>1, RemoveThins
  <2> QED BY <1>1, <1>3, <2>2, WaitingThinned
<1>5. CASE flights[f].state # "AC_HOLDING"
  <2>1. Unqueued(f) = holding /\ ~ InRing(holding, f)
    BY <1>1, <1>5 DEF Unqueued, Waiting, InRing
  <2> QED BY <1>1, <1>3, <2>1, WaitingInHand
<1> QED BY <1>4, <1>5

\* A fuel check takes the flight that waits in hand.
LEMMA FuelInHand ==
  ASSUME TypeOK, AllTied, NEW f \in Flights, Dispatch("EVENT_EMERGENCY_FUEL", f),
         flights[f].state \in {"AC_HOLDING", "AC_INBOUND"}
  PROVE  Tied({f}, flights, runways, gates, Unqueued(f), taxi_wait, Tail(pq), flight_count)
<1>1. /\ RunwaysTied({}, flights, runways) /\ GatesTied({}, flights, gates)
      /\ DriveTied({}, flights, taxi_wait, pq, flight_count)
  BY DEF AllTied, Tied
<1>2. flights[f].assigned_runway = None
  <2>1. flights[f].assigned_runway # None
          => flights[f].state \in {"AC_LANDING", "AC_DEPARTING"}
    BY <1>1, RunwayOf DEF TypeOK
  <2> QED BY <2>1
<1>3. flights[f].assigned_gate = None
  BY <1>1 DEF GatesTied
<1>4. RunwaysTied({f}, flights, runways) /\ GatesTied({f}, flights, gates)
  BY <1>1, <1>2, <1>3, RunwaysInHand, GatesInHand
<1>5. /\ Waiting(Unqueued(f), {f}, flights, flight_count, "AC_HOLDING")
      /\ Waiting(taxi_wait, {f}, flights, flight_count, "AC_TAXI_IN")
  BY UnqueuedTies
<1>6. DriveTied({f}, flights, taxi_wait, Tail(pq), flight_count)
  <2>1. /\ pq # <<>> /\ Head(pq).type = "EVENT_EMERGENCY_FUEL" /\ f = Head(pq).flight
        /\ pq \in Seq(AtcEvent(Flights)) /\ flights \in [Flights -> Aircraft]
    BY DEF Dispatch, Pop, TypeOK
  <2>2. flight_count \in Nat
    BY CountFits
  <2> QED BY <1>1, <2>1, <2>2, DrivePopFuel
<1> QED BY <1>4, <1>5, <1>6 DEF Tied, RingsTied

LEMMA LostTies ==
  ASSUME TypeOK, AllTied, NEW f \in Flights, on_emergency_lost(f) PROVE AllTied'
<1> DEFINE a == [decay_fuel(flights[f]) EXCEPT !.state = "AC_LOST"]
<1>1. /\ Dispatch("EVENT_EMERGENCY_FUEL", f)
      /\ flights[f].state \in {"AC_HOLDING", "AC_INBOUND"}
      /\ flights' = [flights EXCEPT ![f] = a]
      /\ holding' = Unqueued(f) /\ pq' = Tail(pq)
      /\ UNCHANGED <<flight_count, runways, gates, taxi_wait>>
  BY DEF on_emergency_lost
<1>2. Tied({f}, flights, runways, gates, Unqueued(f), taxi_wait, Tail(pq), flight_count)
  BY <1>1, FuelInHand
<1>3. /\ flights \in [Flights -> Aircraft] /\ flights[f] \in Aircraft /\ now' \in Nat
  BY <1>1, PopType DEF TypeOK, Dispatch, Pop
<1>4. /\ a.state = "AC_LOST" /\ a.assigned_runway = None /\ a.assigned_gate = None
  <2>1. decay_fuel(flights[f]) \in Aircraft
    BY <1>3, DecayType
  <2>2. flights[f].assigned_runway = None /\ flights[f].assigned_gate = None
    BY <1>2 DEF Tied, RunwaysTied, GatesTied
  <2>3. /\ decay_fuel(flights[f]).assigned_runway = None
        /\ decay_fuel(flights[f]).assigned_gate = None
    BY <1>3, <2>2, DecayKeeps
  <2> QED BY <2>1, <2>3 DEF Aircraft
<1> HIDE DEF a
<1>5. OnlyBy(f, flights, flights') /\ flights'[f] = a
  BY <1>1, <1>3, Replaced
<1>6. flights'[f].state \in Gone
  BY <1>4, <1>5 DEF Gone
<1>7. Tied({}, flights', runways, gates, Unqueued(f), taxi_wait, Tail(pq), flight_count)
  BY <1>2, <1>3, <1>4, <1>5, <1>6, CountFits, LeaveSector
<1> QED BY <1>1, <1>7, AllTiedNext

LEMMA EmergencyTies ==
  ASSUME TypeOK, AllTied, NEW f \in Flights, on_emergency(f) PROVE AllTied'
<1> DEFINE b  == decay_fuel(flights[f])
           a  == [b EXCEPT !.emergency = @ \/ Declares(b)]
           st == IF Declares(b) THEN DeclaredIn(stats) ELSE stats
           fl == [flights EXCEPT ![f] = a]
           q  == Tail(pq)
<1>1. /\ Dispatch("EVENT_EMERGENCY_FUEL", f)
      /\ flights[f].state \in {"AC_HOLDING", "AC_INBOUND"}
      /\ UNCHANGED <<flight_count, gates, taxi_wait, weather, spawning_done>>
      /\ \/ \E rw \in find_idle_runway(runways) :
                ClearToLand(f, rw, fl, runways, Unqueued(f), q, st, PRIO_EMERGENCY)
         \/ /\ flights' = [fl EXCEPT ![f].state = "AC_HOLDING"]
            /\ holding' = IF b.state = "AC_INBOUND"
                          THEN holding_push(holding, f) ELSE holding
            /\ pq' = CheckFuelAfter(q, f, fl[f], EMERGENCY_RECHECK)
            /\ stats' = st /\ UNCHANGED runways
  BY Zenon DEF on_emergency
<1>2. /\ Parts(flights, runways, holding, q, stats) /\ now' \in Nat
      /\ flights \in [Flights -> Aircraft] /\ flights[f] \in Aircraft
      /\ q \in Seq(AtcEvent(Flights)) /\ weather \in Weather
  <2>1. Parts(flights, runways, holding, q, stats) /\ now' \in Nat
    BY <1>1, PoppedParts DEF Dispatch, Pop
  <2> QED BY <2>1 DEF Parts, TypeOK
<1>3. b \in Aircraft
  BY <1>2, DecayType
<1>4. /\ b.state = flights[f].state
      /\ b.assigned_runway = flights[f].assigned_runway
      /\ b.assigned_gate = flights[f].assigned_gate
  BY <1>2, DecayKeeps
<1> HIDE DEF b
<1>5. /\ a \in Aircraft /\ a.state = b.state
      /\ a.assigned_runway = b.assigned_runway /\ a.assigned_gate = b.assigned_gate
  <2>1. (b.emergency \/ Declares(b)) \in BOOLEAN
    OBVIOUS
  <2> QED BY <1>3, <2>1 DEF Aircraft
<1>6. st \in SimStats
  BY DeclaredType DEF TypeOK
<1> HIDE DEF a, st
<1>7. fl \in [Flights -> Aircraft] /\ OnlyBy(f, flights, fl) /\ fl[f] = a
  BY <1>2, <1>5, Replaced
<1>8. flight_count \in Nat /\ flight_count <= MAX_FLIGHTS
  BY CountFits
<1> HIDE DEF fl, q
<1>9. \A g \in Flights : /\ fl[g].state = flights[g].state
                         /\ fl[g].assigned_runway = flights[g].assigned_runway
                         /\ fl[g].assigned_gate = flights[g].assigned_gate
  BY <1>4, <1>5, <1>7 DEF OnlyBy
<1>10. Tied({f}, flights, runways, gates, Unqueued(f), taxi_wait, q, flight_count)
  BY <1>1, FuelInHand DEF q
<1>11. Tied({f}, fl, runways, gates, Unqueued(f), taxi_wait, q, flight_count)
  BY <1>8, <1>9, <1>10, TiedQuiet
<1>12. Parts(fl, runways, Unqueued(f), q, st) /\ Parts(fl, runways, holding, q, st)
  BY <1>2, <1>6, <1>7, UnqueuedType DEF Parts
<1>13. CASE \E rw \in find_idle_runway(runways) :
                ClearToLand(f, rw, fl, runways, Unqueued(f), q, st, PRIO_EMERGENCY)
  <2>1. PICK rw \in find_idle_runway(runways) :
                ClearToLand(f, rw, fl, runways, Unqueued(f), q, st, PRIO_EMERGENCY)
    BY <1>13
  <2>2. rw \in Runways /\ runways[rw].state = "RW_IDLE"
    BY DEF find_idle_runway
  <2>3. PRIO_EMERGENCY \in PRIO_EMERGENCY .. PRIO_ROUTINE
    BY DEF PRIO_EMERGENCY, PRIO_ROUTINE
  <2>4. Tied({}, flights', runways', gates, holding', taxi_wait, pq', flight_count)
    BY <1>2, <1>8, <1>11, <1>12, <2>1, <2>2, <2>3, ClearToLandTies
  <2> QED BY <1>1, <2>4, AllTiedNext
<1>14. CASE /\ flights' = [fl EXCEPT ![f].state = "AC_HOLDING"]
            /\ holding' = IF b.state = "AC_INBOUND"
                          THEN holding_push(holding, f) ELSE holding
            /\ pq' = CheckFuelAfter(q, f, fl[f], EMERGENCY_RECHECK)
            /\ stats' = st /\ UNCHANGED runways
  <2>1. EMERGENCY_RECHECK \in Nat
    BY TimeAssumption DEF Positive
  <2>2. CASE flights[f].state = "AC_INBOUND"
    <3>1. EnterHolding(f, fl, runways, holding, q, st, EMERGENCY_RECHECK)
      BY <1>4, <1>14, <2>2 DEF EnterHolding
    <3>2. Unqueued(f) = holding
      BY <2>2 DEF Unqueued
    <3>3. Tied({}, flights', runways', gates, holding', taxi_wait, pq', flight_count)
      BY <1>2, <1>8, <1>11, <1>12, <2>1, <3>1, <3>2, EnterHoldingTies
    <3> QED BY <1>1, <3>3, AllTiedNext
  <2>3. CASE flights[f].state = "AC_HOLDING"
    <3>1. \A g \in Flights : /\ flights'[g].state = fl[g].state
                             /\ flights'[g].assigned_runway = fl[g].assigned_runway
                             /\ flights'[g].assigned_gate = fl[g].assigned_gate
      BY <1>4, <1>5, <1>7, <1>14, <2>3 DEF Aircraft
    <3>2. \A g \in Flights :
              /\ flights'[g].state = flights[g].state
              /\ flights'[g].assigned_runway = flights[g].assigned_runway
              /\ flights'[g].assigned_gate = flights[g].assigned_gate
      BY <1>9, <3>1
    <3>3. Tied({}, flights', runways, gates, holding, taxi_wait, pq, flight_count)
      BY <1>8, <3>2, TiedQuiet DEF AllTied
    <3>4. DriveTied({f}, flights', taxi_wait, q, flight_count)
      <4>1. DriveTied({f}, flights, taxi_wait, q, flight_count)
        BY <1>10 DEF Tied
      <4> QED BY <3>2, <4>1, DriveQuiet
    <3>5. Plans(q, pq', f, "EVENT_EMERGENCY_FUEL")
      BY <1>2, <1>14, <2>1, CheckFuelPlans DEF q
    <3>6. flights' \in [Flights -> Aircraft]
      BY EmergencyType DEF TypeOK
    <3>7. DriveTied({}, flights', taxi_wait, pq', flight_count)
      <4>1. flights'[f].state = "AC_HOLDING" /\ OnlyBy(f, flights', flights')
        BY <2>3, <3>2 DEF OnlyBy
      <4> QED BY <1>2, <1>8, <3>4, <3>5, <3>6, <4>1, DriveHold DEF q
    <3>8. holding' = holding
      BY <1>4, <1>14, <2>3
    <3>9. Tied({}, flights', runways, gates, holding, taxi_wait, pq', flight_count)
      BY <3>3, <3>7 DEF Tied
    <3> QED BY <1>1, <1>14, <3>8, <3>9, AllTiedNext
  <2> QED BY <1>1, <2>2, <2>3
<1> QED BY <1>1, <1>13, <1>14

\* A flight that lands or departs has a runway and no gate.
LEMMA OnRunway ==
  ASSUME TypeOK, AllTied, NEW f \in Flights,
         flights[f].state \in {"AC_LANDING", "AC_DEPARTING"}
  PROVE  /\ flights[f].assigned_runway # None /\ flights[f].assigned_gate = None
         /\ flights[f].assigned_runway \in Runways
         /\ runways[flights[f].assigned_runway].occupant = f
<1>1. RunwaysTied({}, flights, runways) /\ GatesTied({}, flights, gates)
  BY DEF AllTied, Tied
<1>2. /\ flights[f].state \in {"AC_LANDING", "AC_DEPARTING"}
           <=> flights[f].assigned_runway # None
      /\ flights[f].assigned_runway # None
           => /\ flights[f].assigned_runway \in Runways
              /\ runways[flights[f].assigned_runway].occupant = f
  BY <1>1, RunwayOf DEF TypeOK
<1>3. flights[f].assigned_gate = None
  BY <1>1 DEF GatesTied
<1> QED BY <1>2, <1>3

\* A landing or a take-off is over: the flight leaves its runway and moves on.
LEMMA RunwayHandedBack ==
  ASSUME TypeOK, AllTied, NEW type \in Movers, NEW f \in Flights, Dispatch(type, f),
         flights[f].state \in {"AC_LANDING", "AC_DEPARTING"},
         NEW a \in Aircraft, a.assigned_runway = None,
         a.assigned_gate = flights[f].assigned_gate,
         a.state \in {"AC_TAXI_IN", "AC_AIRBORNE_OUT"},
         NEW q, Plans(Tail(pq), q, f, Awaited[a.state])
  PROVE  Tied({}, [flights EXCEPT ![f] = a],
              [runways EXCEPT ![flights[f].assigned_runway] =
                  [state |-> "RW_IDLE", occupant |-> None]],
              gates, holding, taxi_wait, q, flight_count)
<1> DEFINE fl  == [flights EXCEPT ![f] = a]
           rws == [runways EXCEPT ![flights[f].assigned_runway] =
                      [state |-> "RW_IDLE", occupant |-> None]]
<1>1. /\ flights \in [Flights -> Aircraft] /\ runways \in [Runways -> Runway]
      /\ Tail(pq) \in Seq(AtcEvent(Flights))
  BY PopType DEF TypeOK, Dispatch, Pop
<1>2. fl \in [Flights -> Aircraft] /\ OnlyBy(f, flights, fl) /\ fl[f] = a
  BY <1>1, Replaced
<1>3. /\ RunwaysTied({}, flights, runways) /\ GatesTied({}, flights, gates)
      /\ RingsTied({}, flights, holding, taxi_wait, flight_count)
  BY DEF AllTied, Tied
<1>4. /\ ~ InRing(holding, f) /\ ~ InRing(taxi_wait, f)
      /\ DriveTied({f}, flights, taxi_wait, Tail(pq), flight_count)
  BY Popped
<1>5. flights[f].assigned_runway # None /\ flights[f].assigned_gate = None
  BY OnRunway
<1>6. flight_count \in Nat /\ flight_count <= MAX_FLIGHTS
  BY CountFits
<1> HIDE DEF fl
<1>7. RunwaysTied({}, fl, rws)
  BY <1>1, <1>2, <1>3, <1>5, RunwayLeft
<1>8. GatesTied({}, fl, gates)
  BY <1>2, <1>3, <1>5, GatesQuiet
<1>9. RingsTied({}, fl, holding, taxi_wait, flight_count)
  BY <1>2, <1>3, <1>4, <1>6, RingsQuiet
<1>10. DriveTied({}, fl, taxi_wait, q, flight_count)
  <2> DEFINE next == Awaited[fl[f].state]
  <2>1. next = Awaited[fl[f].state] /\ Plans(Tail(pq), q, f, next)
    BY <1>2
  <2>2. fl[f].state \in AircraftState \ (Gone \cup {"AC_HOLDING", "AC_INBOUND"})
    BY <1>2 DEF AircraftState, Gone
  <2> HIDE DEF next
  <2> QED BY <1>1, <1>2, <1>4, <1>6, <2>1, <2>2, DrivePlan
<1> QED BY <1>7, <1>8, <1>9, <1>10 DEF Tied, fl

LEMMA TouchdownTies ==
  ASSUME TypeOK, AllTied, NEW f \in Flights, on_touchdown(f) PROVE AllTied'
<1> DEFINE b == decay_fuel(flights[f])
           a == [b EXCEPT !.assigned_runway = None, !.state = "AC_TAXI_IN",
                          !.queue_enter_time = now']
           fl == [flights EXCEPT ![f] = a]
           q == schedule(Tail(pq), f, "EVENT_TAXI_TO_GATE", now' + TAXI_DURATION,
                         PRIO_ROUTINE)
           st == [stats EXCEPT !.flights_landed = @ + 1]
<1>1. /\ Dispatch("EVENT_TOUCHDOWN", f) /\ "EVENT_TOUCHDOWN" \in Movers
      /\ free_runway(b.assigned_runway, fl, holding, q, st)
      /\ UNCHANGED <<flight_count, gates, taxi_wait, weather, spawning_done>>
  BY MoverTypes DEF on_touchdown
<1>2. /\ Parts(flights, runways, holding, Tail(pq), stats) /\ now' \in Nat
      /\ flights \in [Flights -> Aircraft] /\ flights[f] \in Aircraft
      /\ Tail(pq) \in Seq(AtcEvent(Flights)) /\ weather \in Weather
  <2>1. Parts(flights, runways, holding, Tail(pq), stats) /\ now' \in Nat
    BY <1>1, PoppedParts DEF Dispatch, Pop
  <2> QED BY <2>1 DEF Parts, TypeOK
<1>3. b \in Aircraft
  BY <1>2, DecayType
<1>4. /\ b.assigned_runway = flights[f].assigned_runway
      /\ b.assigned_gate = flights[f].assigned_gate
  BY <1>2, DecayKeeps
<1> HIDE DEF b
<1>5. /\ a \in Aircraft /\ a.assigned_runway = None /\ a.state = "AC_TAXI_IN"
      /\ a.assigned_gate = b.assigned_gate
  BY <1>2, <1>3 DEF Aircraft, AircraftState
<1> HIDE DEF a
<1>6. flights[f].state = "AC_LANDING"
  <2>1. /\ flights[f].state \in AircraftState \ Gone
        /\ Awaited[flights[f].state] = "EVENT_TOUCHDOWN"
    BY <1>1, Popped
  <2> QED BY <2>1, StateAwaiting
<1>7. Plans(Tail(pq), q, f, "EVENT_TAXI_TO_GATE")
  <2>1. now' + TAXI_DURATION \in Nat
    BY <1>2, TimeAssumption DEF Positive
  <2>2. "EVENT_TAXI_TO_GATE" \in EventType /\ PRIO_ROUTINE \in PRIO_EMERGENCY .. PRIO_ROUTINE
    BY Types DEF PRIO_ROUTINE, PRIO_EMERGENCY
  <2> QED BY <1>2, <2>1, <2>2, SchedulePlans
<1>8. st \in SimStats
  <2>1. stats.flights_landed + 1 \in Nat
    BY DEF TypeOK, SimStats
  <2> QED BY <2>1 DEF TypeOK, SimStats
<1> HIDE DEF q, st
<1>9. Parts(fl, runways, holding, q, st)
  <2>1. fl \in [Flights -> Aircraft]
    BY <1>2, <1>5
  <2> QED BY <1>2, <1>7, <1>8, <2>1 DEF Parts, Plans
<1>10. Tied({}, fl, [runways EXCEPT ![b.assigned_runway] =
                        [state |-> "RW_IDLE", occupant |-> None]],
            gates, holding, taxi_wait, q, flight_count)
  <2>1. Plans(Tail(pq), q, f, Awaited[a.state])
    BY <1>5, <1>7, AwaitedEvents
  <2> QED BY <1>1, <1>4, <1>5, <1>6, <2>1, RunwayHandedBack
<1>11. gates \in [Gates -> Gate]
  BY DEF TypeOK
<1> HIDE DEF fl
<1>12. Tied({}, flights', runways', gates, holding', taxi_wait, pq', flight_count)
  BY <1>1, <1>2, <1>9, <1>10, <1>11, CountFits, FreeRunwayTies
<1> QED BY <1>1, <1>12, AllTiedNext

LEMMA TakeoffClearTies ==
  ASSUME TypeOK, AllTied, NEW f \in Flights, on_takeoff_clear(f) PROVE AllTied'
<1> DEFINE a == [flights[f] EXCEPT !.assigned_runway = None, !.state = "AC_AIRBORNE_OUT"]
           fl == [flights EXCEPT ![f] = a]
           q == schedule(Tail(pq), f, "EVENT_DEPART_SECTOR", now' + RUNWAY_TAKEOFF_T,
                         PRIO_ROUTINE)
<1>1. /\ Dispatch("EVENT_TAKEOFF_CLEAR", f) /\ "EVENT_TAKEOFF_CLEAR" \in Movers
      /\ free_runway(flights[f].assigned_runway,
                     [flights EXCEPT ![f].assigned_runway = None,
                                     ![f].state = "AC_AIRBORNE_OUT"],
                     holding, q, stats)
      /\ UNCHANGED <<flight_count, gates, taxi_wait, weather, spawning_done>>
  BY MoverTypes DEF on_takeoff_clear
<1>2. /\ Parts(flights, runways, holding, Tail(pq), stats) /\ now' \in Nat
      /\ flights \in [Flights -> Aircraft] /\ flights[f] \in Aircraft
      /\ Tail(pq) \in Seq(AtcEvent(Flights)) /\ weather \in Weather
  <2>1. Parts(flights, runways, holding, Tail(pq), stats) /\ now' \in Nat
    BY <1>1, PoppedParts DEF Dispatch, Pop
  <2> QED BY <2>1 DEF Parts, TypeOK
<1>3. fl = [flights EXCEPT ![f].assigned_runway = None, ![f].state = "AC_AIRBORNE_OUT"]
  BY <1>2
<1>4. /\ a \in Aircraft /\ a.assigned_runway = None /\ a.state = "AC_AIRBORNE_OUT"
      /\ a.assigned_gate = flights[f].assigned_gate
  BY <1>2 DEF Aircraft, AircraftState
<1> HIDE DEF a
<1>5. flights[f].state = "AC_DEPARTING"
  <2>1. /\ flights[f].state \in AircraftState \ Gone
        /\ Awaited[flights[f].state] = "EVENT_TAKEOFF_CLEAR"
    BY <1>1, Popped
  <2> QED BY <2>1, StateAwaiting
<1>6. Plans(Tail(pq), q, f, "EVENT_DEPART_SECTOR")
  <2>1. now' + RUNWAY_TAKEOFF_T \in Nat
    BY <1>2, TimeAssumption DEF Positive
  <2>2. "EVENT_DEPART_SECTOR" \in EventType /\ PRIO_ROUTINE \in PRIO_EMERGENCY .. PRIO_ROUTINE
    BY Types DEF PRIO_ROUTINE, PRIO_EMERGENCY
  <2> QED BY <1>2, <2>1, <2>2, SchedulePlans
<1> HIDE DEF q
<1>7. Parts(fl, runways, holding, q, stats)
  <2>1. fl \in [Flights -> Aircraft]
    BY <1>2, <1>4
  <2> QED BY <1>2, <1>6, <2>1 DEF Parts, Plans
<1>8. Tied({}, fl, [runways EXCEPT ![flights[f].assigned_runway] =
                        [state |-> "RW_IDLE", occupant |-> None]],
            gates, holding, taxi_wait, q, flight_count)
  <2>1. Plans(Tail(pq), q, f, Awaited[a.state])
    BY <1>4, <1>6, AwaitedEvents
  <2> QED BY <1>1, <1>4, <1>5, <2>1, RunwayHandedBack
<1>9. gates \in [Gates -> Gate]
  BY DEF TypeOK
<1>10. free_runway(flights[f].assigned_runway, fl, holding, q, stats)
  BY <1>1, <1>3
<1> HIDE DEF fl
<1>11. Tied({}, flights', runways', gates, holding', taxi_wait, pq', flight_count)
  BY <1>2, <1>7, <1>8, <1>9, <1>10, CountFits, FreeRunwayTies
<1> QED BY <1>1, <1>11, AllTiedNext

\* A wave-off: the flight is back in the ring before its runway is offered.
LEMMA GoAroundTies ==
  ASSUME TypeOK, AllTied, NEW f \in Flights, on_touchdown_go_around(f) PROVE AllTied'
<1> DEFINE b == decay_fuel(flights[f])
           a == [b EXCEPT !.force_go_around = FALSE, !.assigned_runway = None,
                          !.go_arounds = @ + 1, !.state = "AC_HOLDING",
                          !.queue_enter_time = now']
           fl == [flights EXCEPT ![f] = a]
           ring == holding_push(holding, f)
           q == CheckFuelAfter(Tail(pq), f, b, GO_AROUND_RECHECK)
           st == [stats EXCEPT !.go_arounds = @ + 1, !.score = @ - 3]
           rws == [runways EXCEPT ![flights[f].assigned_runway] =
                      [state |-> "RW_IDLE", occupant |-> None]]
<1>1. /\ Dispatch("EVENT_TOUCHDOWN", f) /\ "EVENT_TOUCHDOWN" \in Movers
      /\ free_runway(b.assigned_runway, fl, ring, q, st)
      /\ UNCHANGED <<flight_count, gates, taxi_wait, weather, spawning_done>>
  BY MoverTypes DEF on_touchdown_go_around
<1>2. /\ Parts(flights, runways, holding, Tail(pq), stats) /\ now' \in Nat
      /\ flights \in [Flights -> Aircraft] /\ flights[f] \in Aircraft
      /\ runways \in [Runways -> Runway] /\ gates \in [Gates -> Gate]
      /\ Tail(pq) \in Seq(AtcEvent(Flights)) /\ weather \in Weather
      /\ holding \in Seq(Flights) /\ Len(holding) <= MAX_HOLDING_SLOTS
  <2>1. Parts(flights, runways, holding, Tail(pq), stats) /\ now' \in Nat
    BY <1>1, PoppedParts DEF Dispatch, Pop
  <2> QED BY <2>1 DEF Parts, TypeOK
<1>3. b \in Aircraft
  BY <1>2, DecayType
<1>4. /\ b.assigned_runway = flights[f].assigned_runway
      /\ b.assigned_gate = flights[f].assigned_gate
  BY <1>2, DecayKeeps
<1> HIDE DEF b
<1>5. /\ a \in Aircraft /\ a.assigned_runway = None /\ a.state = "AC_HOLDING"
      /\ a.assigned_gate = b.assigned_gate
  <2> DEFINE count == b.go_arounds + 1
  <2>1. count \in Nat
    BY <1>3 DEF Aircraft
  <2>2. a = [b EXCEPT !.force_go_around = FALSE, !.assigned_runway = None,
                      !.go_arounds = count, !.state = "AC_HOLDING",
                      !.queue_enter_time = now']
    BY <1>3 DEF Aircraft
  <2> HIDE DEF count, a
  <2> QED BY <1>2, <1>3, <2>1, <2>2 DEF Aircraft, AircraftState
<1> HIDE DEF a
<1>6. flights[f].state = "AC_LANDING"
  <2>1. /\ flights[f].state \in AircraftState \ Gone
        /\ Awaited[flights[f].state] = "EVENT_TOUCHDOWN"
    BY <1>1, Popped
  <2> QED BY <2>1, StateAwaiting
<1>7. Plans(Tail(pq), q, f, "EVENT_EMERGENCY_FUEL")
  BY <1>2, TimeAssumption, CheckFuelPlans DEF Positive
<1>8. st \in SimStats
  <2>1. stats.go_arounds + 1 \in Nat
    BY DEF TypeOK, SimStats
  <2>2. stats.score - 3 \in Int
    BY DEF TypeOK, SimStats
  <2> QED BY <2>1, <2>2 DEF TypeOK, SimStats
<1> HIDE DEF q, st
<1>9. fl \in [Flights -> Aircraft] /\ OnlyBy(f, flights, fl) /\ fl[f] = a
  BY <1>2, <1>5, Replaced
<1>10. ring \in Seq(Flights) /\ Len(ring) <= MAX_HOLDING_SLOTS
  BY <1>2, PushRingType
<1>11. Parts(fl, runways, ring, q, st)
  BY <1>2, <1>7, <1>8, <1>9, <1>10 DEF Parts, Plans
<1>12. /\ ~ InRing(holding, f) /\ ~ InRing(taxi_wait, f) /\ f < flight_count
       /\ DriveTied({f}, flights, taxi_wait, Tail(pq), flight_count)
  BY <1>1, Popped
<1>13. /\ RunwaysTied({}, flights, runways) /\ GatesTied({}, flights, gates)
       /\ Waiting(holding, {}, flights, flight_count, "AC_HOLDING")
       /\ Waiting(taxi_wait, {}, flights, flight_count, "AC_TAXI_IN")
  BY DEF AllTied, Tied, RingsTied
<1>14. flights[f].assigned_runway # None /\ flights[f].assigned_gate = None
  BY <1>6, OnRunway
<1>15. flight_count \in Nat /\ flight_count <= MAX_FLIGHTS
  BY CountFits
<1> HIDE DEF fl
<1>16. RunwaysTied({}, fl, rws)
  BY <1>2, <1>5, <1>9, <1>13, <1>14, RunwayLeft
<1>17. GatesTied({}, fl, gates)
  BY <1>4, <1>5, <1>9, <1>13, <1>14, GatesQuiet
<1>18. RingsTied({}, fl, ring, taxi_wait, flight_count)
  <2>1. Waiting(holding, {f}, flights, flight_count, "AC_HOLDING")
    BY <1>12, <1>13, WaitingInHand
  <2>2. Waiting(ring, {}, fl, flight_count, "AC_HOLDING")
    BY <1>2, <1>5, <1>9, <1>12, <1>15, <2>1, WaitingPushed
  <2>3. flight_count <= flight_count
    BY <1>15
  <2>4. Waiting(taxi_wait, {}, fl, flight_count, "AC_TAXI_IN")
    BY <1>9, <1>12, <1>13, <1>15, <2>3, WaitingQuiet
  <2> QED BY <2>2, <2>4 DEF RingsTied
<1>19. DriveTied({}, fl, taxi_wait, q, flight_count)
  BY <1>2, <1>5, <1>7, <1>9, <1>12, <1>15, DriveHold
<1>20. Tied({}, fl, rws, gates, ring, taxi_wait, q, flight_count)
  BY <1>16, <1>17, <1>18, <1>19 DEF Tied
<1> HIDE DEF ring
<1>21. Tied({}, flights', runways', gates, holding', taxi_wait, pq', flight_count)
  BY <1>1, <1>2, <1>4, <1>11, <1>15, <1>20, FreeRunwayTies
<1> QED BY <1>1, <1>21, AllTiedNext

LEMMA TaxiTies ==
  ASSUME TypeOK, AllTied, NEW f \in Flights, on_taxi_to_gate(f) PROVE AllTied'
<1>1. /\ Dispatch("EVENT_TAXI_TO_GATE", f) /\ "EVENT_TAXI_TO_GATE" \in Movers
      /\ try_assign_gate(f, flights, gates, taxi_wait, Tail(pq))
      /\ UNCHANGED <<flight_count, runways, holding>>
  BY MoverTypes DEF on_taxi_to_gate
<1>2. GateParts(flights, gates, taxi_wait, Tail(pq), stats) /\ now' \in Nat
  BY <1>1, PopType DEF GateParts, TypeOK, Dispatch, Pop
<1>3. flights[f].state = "AC_TAXI_IN"
  <2>1. /\ flights[f].state \in AircraftState \ Gone
        /\ Awaited[flights[f].state] = "EVENT_TAXI_TO_GATE"
    BY <1>1, Popped
  <2> QED BY <2>1, StateAwaiting
<1>4. Tied({f}, flights, runways, gates, holding, taxi_wait, Tail(pq), flight_count)
  BY <1>1, <1>3, PoppedInHand
<1>5. Tied({}, flights', runways, gates', holding, taxi_wait', pq', flight_count)
  BY <1>1, <1>2, <1>3, <1>4, CountFits, TryAssignGateTies
<1> QED BY <1>1, <1>5, AllTiedNext

\* A gate is given up and offered to the taxiway.
LEMMA GateReleaseTies ==
  ASSUME TypeOK, AllTied, NEW f \in Flights, on_gate_release(f) PROVE AllTied'
<1> DEFINE a   == [flights[f] EXCEPT !.assigned_gate = None, !.state = "AC_TAXI_OUT"]
           fl  == [flights EXCEPT ![f] = a]
           gts == [gates EXCEPT ![flights[f].assigned_gate] =
                      [state |-> "GATE_VACANT", occupant |-> None]]
           q   == schedule(Tail(pq), f, "EVENT_TAKEOFF_READY", now' + TAXI_DURATION,
                           PRIO_TAKEOFF)
<1>1. /\ flights \in [Flights -> Aircraft] /\ flights[f] \in Aircraft
      /\ runways \in [Runways -> Runway] /\ gates \in [Gates -> Gate]
      /\ taxi_wait \in Seq(Flights) /\ Len(taxi_wait) <= MAX_TAXI_SLOTS
      /\ stats \in SimStats
  BY DEF TypeOK
<1>2. [flights EXCEPT ![f].assigned_gate = None, ![f].state = "AC_TAXI_OUT"] = fl
  BY <1>1
<1>3. /\ Dispatch("EVENT_GATE_RELEASE", f) /\ "EVENT_GATE_RELEASE" \in Movers
      /\ UNCHANGED <<flight_count, runways, holding, weather, spawning_done>>
      /\ \/ /\ taxi_wait = <<>>
            /\ gates' = gts /\ flights' = fl /\ pq' = q
            /\ UNCHANGED <<taxi_wait, stats>>
         \/ /\ taxi_wait # <<>>
            /\ try_assign_gate(Head(taxi_wait), fl, gts, Tail(taxi_wait), q)
  BY <1>2, MoverTypes DEF on_gate_release
<1>4. Tail(pq) \in Seq(AtcEvent(Flights)) /\ now' \in Nat
  BY <1>3, PopType DEF Dispatch, Pop
<1>5. /\ a \in Aircraft /\ a.assigned_gate = None /\ a.state = "AC_TAXI_OUT"
      /\ a.assigned_runway = flights[f].assigned_runway
  BY <1>1 DEF Aircraft, AircraftState
<1> HIDE DEF a
<1>6. fl \in [Flights -> Aircraft] /\ OnlyBy(f, flights, fl) /\ fl[f] = a
  BY <1>1, <1>5, Replaced
<1>7. flights[f].state = "AC_AT_GATE"
  <2>1. /\ flights[f].state \in AircraftState \ Gone
        /\ Awaited[flights[f].state] = "EVENT_GATE_RELEASE"
    BY <1>3, Popped
  <2> QED BY <2>1, StateAwaiting
<1>8. Plans(Tail(pq), q, f, "EVENT_TAKEOFF_READY") /\ q \in Seq(AtcEvent(Flights))
  <2>1. now' + TAXI_DURATION \in Nat
    BY <1>4, TimeAssumption DEF Positive
  <2>2. "EVENT_TAKEOFF_READY" \in EventType /\ PRIO_TAKEOFF \in PRIO_EMERGENCY .. PRIO_ROUTINE
    BY Types DEF PRIO_ROUTINE, PRIO_EMERGENCY, PRIO_TAKEOFF
  <2>3. Plans(Tail(pq), q, f, "EVENT_TAKEOFF_READY")
    BY <1>4, <2>1, <2>2, SchedulePlans
  <2> QED BY <2>3 DEF Plans
<1> HIDE DEF q
<1>9. /\ RunwaysTied({}, flights, runways) /\ GatesTied({}, flights, gates)
      /\ RingsTied({}, flights, holding, taxi_wait, flight_count)
  BY DEF AllTied, Tied
<1>10. /\ ~ InRing(holding, f) /\ ~ InRing(taxi_wait, f)
       /\ DriveTied({f}, flights, taxi_wait, Tail(pq), flight_count)
  BY <1>3, Popped
<1>11. flight_count \in Nat /\ flight_count <= MAX_FLIGHTS
  BY CountFits
<1>12. flights[f].assigned_gate # None /\ flights[f].assigned_runway = None
  <2>1. flights[f].assigned_gate # None
    BY <1>7, <1>9 DEF GatesTied
  <2>2. flights[f].assigned_runway # None
          => flights[f].state \in {"AC_LANDING", "AC_DEPARTING"}
    BY <1>1, <1>9, RunwayOf
  <2> QED BY <1>7, <2>1, <2>2
<1> HIDE DEF fl
<1>13. RunwaysTied({}, fl, runways)
  <2>1. RunwayFits(fl[f], runways)
    BY <1>5, <1>6, <1>12 DEF RunwayFits
  <2> QED BY <1>5, <1>6, <1>9, <2>1, RunwaysQuiet
<1>14. GatesTied({}, fl, gts)
  BY <1>1, <1>5, <1>6, <1>9, <1>12, GateLeft
<1>15. RingsTied({}, fl, holding, taxi_wait, flight_count)
  BY <1>6, <1>9, <1>10, <1>11, RingsQuiet
<1>16. DriveTied({}, fl, taxi_wait, q, flight_count)
  <2>1. /\ fl[f].state \in AircraftState \ (Gone \cup {"AC_HOLDING", "AC_INBOUND"})
        /\ "EVENT_TAKEOFF_READY" = Awaited[fl[f].state]
    BY <1>5, <1>6, AwaitedEvents DEF AircraftState, Gone
  <2> QED BY <1>1, <1>4, <1>6, <1>8, <1>10, <1>11, <2>1, DrivePlan
<1>17. Tied({}, fl, runways, gts, holding, taxi_wait, q, flight_count)
  BY <1>13, <1>14, <1>15, <1>16 DEF Tied
<1>18. gts \in [Gates -> Gate]
  BY <1>1 DEF Gate
<1> HIDE DEF gts
<1>19. CASE /\ gates' = gts /\ flights' = fl /\ pq' = q
            /\ UNCHANGED <<taxi_wait, stats>>
  BY <1>3, <1>17, <1>19, AllTiedNext
<1>20. CASE /\ taxi_wait # <<>>
            /\ try_assign_gate(Head(taxi_wait), fl, gts, Tail(taxi_wait), q)
  <2>1. /\ Tied({Head(taxi_wait)}, fl, runways, gts, holding, Tail(taxi_wait), q, flight_count)
        /\ Head(taxi_wait) \in Flights /\ fl[Head(taxi_wait)].state = "AC_TAXI_IN"
    BY <1>1, <1>6, <1>8, <1>11, <1>17, <1>18, <1>20, TaxiInHand
  <2>2. Tail(taxi_wait) \in Seq(Flights) /\ Len(Tail(taxi_wait)) <= MAX_TAXI_SLOTS
    <3>1. /\ Tail(taxi_wait) \in Seq(Flights) /\ Len(Tail(taxi_wait)) = Len(taxi_wait) - 1
          /\ Len(taxi_wait) \in Nat /\ MAX_TAXI_SLOTS \in Nat
      BY <1>1, <1>20, HeadTailProperties, LenProperties, SizeAssumption DEF Positive
    <3> QED BY <1>1, <3>1
  <2>3. GateParts(fl, gts, Tail(taxi_wait), q, stats)
    BY <1>1, <1>6, <1>8, <1>18, <2>2 DEF GateParts
  <2>4. Tied({}, flights', runways, gates', holding, taxi_wait', pq', flight_count)
    BY <1>4, <1>11, <1>20, <2>1, <2>3, TryAssignGateTies
  <2> QED BY <1>3, <2>4, AllTiedNext
<1> QED BY <1>3, <1>19, <1>20

LEMMA TakeoffReadyTies ==
  ASSUME TypeOK, AllTied, NEW f \in Flights, on_takeoff_ready(f) PROVE AllTied'
<1> DEFINE a  == [flights[f] EXCEPT !.queue_enter_time = now']
           fl == [flights EXCEPT ![f] = a]
           q  == Tail(pq)
<1>1. flights \in [Flights -> Aircraft] /\ flights[f] \in Aircraft
  BY DEF TypeOK
<1>2. fl = [flights EXCEPT ![f].queue_enter_time = now']
  BY <1>1
<1>3. /\ Dispatch("EVENT_TAKEOFF_READY", f) /\ "EVENT_TAKEOFF_READY" \in Movers
      /\ UNCHANGED <<flight_count, gates, holding, taxi_wait, weather>>
      /\ \/ \E rw \in find_idle_runway(runways) :
                /\ runways' = [runways EXCEPT ![rw] =
                                   [state |-> "RW_TAKEOFF", occupant |-> f]]
                /\ flights' = [fl EXCEPT ![f].assigned_runway = rw,
                                         ![f].state = "AC_DEPARTING",
                                         ![f].total_wait = @ + Waited(fl[f])]
                /\ pq' = schedule(q, f, "EVENT_TAKEOFF_CLEAR",
                                  now' + Occupancy(TAKEOFF_PREP, fl[f].wake), PRIO_TAKEOFF)
         \/ /\ flights' = fl
            /\ pq' = schedule(q, f, "EVENT_TAKEOFF_READY", now' + TAKEOFF_RETRY,
                              PRIO_TAKEOFF)
            /\ UNCHANGED runways
  <2>1. "EVENT_TAKEOFF_READY" \in Movers
    BY MoverTypes
  <2> HIDE DEF fl, q
  <2>2. /\ Dispatch("EVENT_TAKEOFF_READY", f)
        /\ UNCHANGED <<flight_count, gates, holding, taxi_wait, weather>>
    BY DEF on_takeoff_ready
  <2> QED BY <1>2, <2>1, <2>2, Zenon DEF on_takeoff_ready, q
<1>4. q \in Seq(AtcEvent(Flights)) /\ now' \in Nat /\ weather \in Weather
  BY <1>3, PopType DEF Dispatch, Pop, TypeOK
<1>5. /\ a \in Aircraft /\ a.state = flights[f].state
      /\ a.assigned_gate = flights[f].assigned_gate
      /\ a.assigned_runway = flights[f].assigned_runway
  BY <1>1, <1>4 DEF Aircraft
<1> HIDE DEF a
<1>6. fl \in [Flights -> Aircraft] /\ OnlyBy(f, flights, fl) /\ fl[f] = a
  BY <1>1, <1>5, Replaced
<1>7. flights[f].state = "AC_TAXI_OUT"
  <2>1. /\ flights[f].state \in AircraftState \ Gone
        /\ Awaited[flights[f].state] = "EVENT_TAKEOFF_READY"
    BY <1>3, Popped
  <2> QED BY <2>1, StateAwaiting
<1>8. Tied({f}, flights, runways, gates, holding, taxi_wait, q, flight_count)
  BY <1>3, <1>7, PoppedInHand
<1>9. flight_count \in Nat /\ flight_count <= MAX_FLIGHTS /\ runways \in [Runways -> Runway]
  BY CountFits DEF TypeOK
<1> HIDE DEF fl, q
<1>10. Tied({f}, fl, runways, gates, holding, taxi_wait, q, flight_count)
  <2>1. \A g \in Flights : /\ fl[g].state = flights[g].state
                           /\ fl[g].assigned_runway = flights[g].assigned_runway
                           /\ fl[g].assigned_gate = flights[g].assigned_gate
    BY <1>5, <1>6 DEF OnlyBy
  <2> QED BY <1>8, <1>9, <2>1, TiedQuiet
<1>11. /\ RunwaysTied({f}, fl, runways) /\ GatesTied({f}, fl, gates)
       /\ RingsTied({f}, fl, holding, taxi_wait, flight_count)
       /\ DriveTied({f}, fl, taxi_wait, q, flight_count)
       /\ fl[f].assigned_runway = None /\ fl[f].assigned_gate = None
  BY <1>10 DEF Tied, RunwaysTied, GatesTied
<1>12. PRIO_TAKEOFF \in PRIO_EMERGENCY .. PRIO_ROUTINE
  BY DEF PRIO_ROUTINE, PRIO_EMERGENCY, PRIO_TAKEOFF
<1>13. ASSUME NEW rw \in find_idle_runway(runways),
              runways' = [runways EXCEPT ![rw] =
                              [state |-> "RW_TAKEOFF", occupant |-> f]],
              flights' = [fl EXCEPT ![f].assigned_runway = rw,
                                    ![f].state = "AC_DEPARTING",
                                    ![f].total_wait = @ + Waited(fl[f])],
              pq' = schedule(q, f, "EVENT_TAKEOFF_CLEAR",
                             now' + Occupancy(TAKEOFF_PREP, fl[f].wake), PRIO_TAKEOFF)
       PROVE  AllTied'
  <2> DEFINE b == [fl[f] EXCEPT !.assigned_runway = rw, !.state = "AC_DEPARTING",
                                !.total_wait = @ + Waited(fl[f])]
  <2>1. rw \in Runways /\ runways[rw].state = "RW_IDLE"
    BY DEF find_idle_runway
  <2>2. flights' = [fl EXCEPT ![f] = b]
    BY <1>6, <1>13
  <2>3. /\ b.state = "AC_DEPARTING" /\ b.assigned_runway = rw
        /\ b.assigned_gate = fl[f].assigned_gate
    BY <1>6 DEF Aircraft
  <2> HIDE DEF b
  <2>4. OnlyBy(f, fl, flights') /\ flights'[f] = b
    BY <1>6, <2>2, Replaced
  <2>5. flights' \in [Flights -> Aircraft]
    BY TakeoffReadyType DEF TypeOK
  <2>6. RunwaysTied({}, flights', runways')
    BY <1>6, <1>9, <1>11, <1>13, <2>1, <2>3, <2>4, RunwayTaken
  <2>7. GatesTied({}, flights', gates)
    BY <1>11, <2>3, <2>4, GatesQuiet
  <2>8. ~ InRing(holding, f) /\ ~ InRing(taxi_wait, f)
    BY <1>11, HandNotWaiting DEF RingsTied
  <2>9. RingsTied({}, flights', holding, taxi_wait, flight_count)
    BY <1>9, <1>11, <2>4, <2>8, RingsQuiet
  <2>10. Plans(q, pq', f, "EVENT_TAKEOFF_CLEAR")
    <3>1. fl[f].wake \in Wake /\ TAKEOFF_PREP \in Nat
      BY <1>6, TimeAssumption DEF Aircraft, Positive
    <3>2. Occupancy(TAKEOFF_PREP, fl[f].wake) \in Nat
      BY <1>4, <3>1, OccupancyType
    <3>3. now' + Occupancy(TAKEOFF_PREP, fl[f].wake) \in Nat
      BY <1>4, <3>2, Later
    <3>4. "EVENT_TAKEOFF_CLEAR" \in EventType
      BY Types
    <3> QED BY <1>4, <1>12, <1>13, <3>3, <3>4, SchedulePlans DEF q
  <2>11. DriveTied({}, flights', taxi_wait, pq', flight_count)
    <3>1. /\ flights'[f].state \in AircraftState \ (Gone \cup {"AC_HOLDING", "AC_INBOUND"})
          /\ "EVENT_TAKEOFF_CLEAR" = Awaited[flights'[f].state]
      BY <2>3, <2>4, AwaitedEvents DEF AircraftState, Gone
    <3> QED BY <1>4, <1>6, <1>9, <1>11, <2>4, <2>5, <2>8, <2>10, <3>1, DrivePlan DEF q
  <2>12. Tied({}, flights', runways', gates, holding, taxi_wait, pq', flight_count)
    BY <2>6, <2>7, <2>9, <2>11 DEF Tied
  <2> QED BY <1>3, <2>12, AllTiedNext
<1>14. CASE /\ flights' = fl
            /\ pq' = schedule(q, f, "EVENT_TAKEOFF_READY", now' + TAKEOFF_RETRY,
                              PRIO_TAKEOFF)
            /\ UNCHANGED runways
  <2>1. "EVENT_TAKEOFF_READY" \in EventType /\ now' + TAKEOFF_RETRY \in Nat
    BY <1>4, Types, TimeAssumption DEF Positive
  <2>2. Plans(q, pq', f, "EVENT_TAKEOFF_READY")
    BY <1>4, <1>12, <1>14, <2>1, SchedulePlans DEF q
  <2>3. fl[f].state = "AC_TAXI_OUT"
    BY <1>5, <1>6, <1>7
  <2>4. Plans(q, pq', f, Awaited[fl[f].state]) /\ OnlyBy(f, fl, fl)
    BY <2>2, <2>3, AwaitedEvents DEF OnlyBy
  <2>5. Tied({}, fl, runways, gates, holding, taxi_wait, pq', flight_count)
    BY <1>4, <1>6, <1>9, <1>10, <1>11, <2>3, <2>4, PutDown DEF q
  <2> QED BY <1>3, <1>14, <2>5, AllTiedNext
<1> QED BY <1>3, <1>13, <1>14

LEMMA DepartTies ==
  ASSUME TypeOK, AllTied, NEW f \in Flights, on_depart_sector(f) PROVE AllTied'
<1> DEFINE a == [flights[f] EXCEPT !.state = "AC_DONE"]
<1>1. flights \in [Flights -> Aircraft] /\ flights[f] \in Aircraft
  BY DEF TypeOK
<1>2. /\ Dispatch("EVENT_DEPART_SECTOR", f) /\ "EVENT_DEPART_SECTOR" \in Movers
      /\ flights' = [flights EXCEPT ![f].state = "AC_DONE"] /\ pq' = Tail(pq)
      /\ UNCHANGED <<flight_count, runways, gates, holding, taxi_wait>>
  BY MoverTypes DEF on_depart_sector
<1>3. flights' = [flights EXCEPT ![f] = a]
  BY <1>1, <1>2
<1>4. flights[f].state = "AC_AIRBORNE_OUT"
  <2>1. /\ flights[f].state \in AircraftState \ Gone
        /\ Awaited[flights[f].state] = "EVENT_DEPART_SECTOR"
    BY <1>2, Popped
  <2> QED BY <2>1, StateAwaiting
<1>5. Tied({f}, flights, runways, gates, holding, taxi_wait, Tail(pq), flight_count)
  BY <1>2, <1>4, PoppedInHand
<1>6. /\ a.state = "AC_DONE" /\ a.assigned_runway = None /\ a.assigned_gate = None
  <2>1. flights[f].assigned_runway = None /\ flights[f].assigned_gate = None
    BY <1>5 DEF Tied, RunwaysTied, GatesTied
  <2> QED BY <1>1, <2>1 DEF Aircraft
<1> HIDE DEF a
<1>7. OnlyBy(f, flights, flights') /\ flights'[f] = a
  BY <1>1, <1>3, Replaced
<1>8. flights'[f].state \in Gone
  BY <1>6, <1>7 DEF Gone
<1>9. Tied({}, flights', runways, gates, holding, taxi_wait, Tail(pq), flight_count)
  BY <1>1, <1>5, <1>6, <1>7, <1>8, CountFits, LeaveSector
<1> QED BY <1>2, <1>9, AllTiedNext

-----------------------------------------------------------------------------
(* Commands.                                                               *)

LEMMA FlagTies ==
  ASSUME TypeOK, AllTied, NEW f \in Flights,
         sim_cmd_prioritize_inbound(f) \/ sim_cmd_go_around(f)
  PROVE  AllTied'
<1>1. /\ \/ flights' = [flights EXCEPT ![f].user_priority = TRUE]
         \/ flights' = [flights EXCEPT ![f].force_go_around = TRUE]
      /\ UNCHANGED <<pq, flight_count, runways, gates, holding, taxi_wait>>
  BY DEF sim_cmd_prioritize_inbound, sim_cmd_go_around
<1>2. flights \in [Flights -> Aircraft]
  BY DEF TypeOK
<1>3. \A g \in Flights : /\ flights'[g].state = flights[g].state
                         /\ flights'[g].assigned_runway = flights[g].assigned_runway
                         /\ flights'[g].assigned_gate = flights[g].assigned_gate
  BY <1>1, <1>2 DEF Aircraft
<1>4. Tied({}, flights', runways, gates, holding, taxi_wait, pq, flight_count)
  BY <1>3, CountFits, TiedQuiet DEF AllTied
<1> QED BY <1>1, <1>4, AllTiedNext

LEMMA PrioritizeTies ==
  ASSUME TypeOK, AllTied, NEW f \in Flights, sim_cmd_prioritize_holding(f)
  PROVE  AllTied'
<1> DEFINE a    == [flights[f] EXCEPT !.user_priority = TRUE]
           fl   == [flights EXCEPT ![f] = a]
           ring == holding_remove(holding, f)
<1>1. /\ Parts(flights, runways, holding, pq, stats)
      /\ flights \in [Flights -> Aircraft] /\ flights[f] \in Aircraft
      /\ runways \in [Runways -> Runway] /\ gates \in [Gates -> Gate]
      /\ pq \in Seq(AtcEvent(Flights)) /\ holding \in Seq(Flights)
      /\ weather \in Weather /\ now \in Nat
      /\ flight_count \in Nat /\ flight_count <= MAX_FLIGHTS
  BY PresentParts, CountFits DEF TypeOK
<1>2. [flights EXCEPT ![f].user_priority = TRUE] = fl
  BY <1>1
<1>3. /\ f < flight_count /\ flights[f].state = "AC_HOLDING" /\ now' = now
      /\ try_assign_landing(f, fl, runways, ring, pq, stats)
      /\ UNCHANGED <<flight_count, gates, taxi_wait, weather, spawning_done>>
  BY <1>2 DEF sim_cmd_prioritize_holding, Commanded
<1>4. /\ a \in Aircraft /\ a.state = flights[f].state
      /\ a.assigned_gate = flights[f].assigned_gate
      /\ a.assigned_runway = flights[f].assigned_runway
  BY <1>1 DEF Aircraft
<1> HIDE DEF a
<1>5. fl \in [Flights -> Aircraft] /\ OnlyBy(f, flights, fl) /\ fl[f] = a
  BY <1>1, <1>4, Replaced
<1>6. Thinned(ring, holding) /\ ~ InRing(ring, f)
  BY <1>1, RemoveThins
<1>7. Tied({f}, flights, runways, gates, ring, taxi_wait, pq, flight_count)
  BY <1>1, <1>3, <1>6, RingInHand DEF AllTied
<1> HIDE DEF fl
<1>8. Tied({f}, fl, runways, gates, ring, taxi_wait, pq, flight_count)
  <2>1. \A g \in Flights : /\ fl[g].state = flights[g].state
                           /\ fl[g].assigned_runway = flights[g].assigned_runway
                           /\ fl[g].assigned_gate = flights[g].assigned_gate
    BY <1>4, <1>5 DEF OnlyBy
  <2> QED BY <1>1, <1>7, <2>1, TiedQuiet
<1>9. Parts(fl, runways, ring, pq, stats)
  <2>1. ring \in Seq(Flights) /\ Len(ring) <= Len(holding)
    BY <1>1, RemoveType
  <2>2. Len(ring) <= MAX_HOLDING_SLOTS
    BY <1>1, <2>1, SizeAssumption, LenProperties DEF Parts, Positive
  <2> QED BY <1>1, <1>5, <2>1, <2>2 DEF Parts
<1>10. now' \in Nat
  BY <1>1, <1>3
<1> HIDE DEF ring
<1>11. Tied({}, flights', runways', gates, holding', taxi_wait, pq', flight_count)
  BY <1>1, <1>3, <1>8, <1>9, <1>10, TryAssignLandingTies
<1> QED BY <1>3, <1>11, AllTiedNext

\* A diverted flight leaves its place in the ring, or its runway.
LEMMA DivertTies ==
  ASSUME TypeOK, AllTied, NEW f \in Flights, sim_cmd_divert(f) PROVE AllTied'
<1> DEFINE a  == [flights[f] EXCEPT !.assigned_runway = None, !.emergency = FALSE,
                                    !.state = "AC_DIVERTED"]
           fl == [flights EXCEPT ![f] = a]
           st == [stats EXCEPT !.flights_diverted = @ + 1, !.score = @ - 12]
           rws == [runways EXCEPT ![flights[f].assigned_runway] =
                      [state |-> "RW_IDLE", occupant |-> None]]
<1>1. /\ f < flight_count /\ flights[f].state \in {"AC_INBOUND", "AC_HOLDING", "AC_LANDING"}
      /\ now' = now
      /\ UNCHANGED <<flight_count, gates, taxi_wait, weather, spawning_done>>
      /\ \/ /\ flights[f].assigned_runway # None
            /\ free_runway(flights[f].assigned_runway, fl, Unqueued(f), pq, st)
         \/ /\ flights[f].assigned_runway = None
            /\ flights' = fl /\ holding' = Unqueued(f) /\ stats' = st
            /\ UNCHANGED <<pq, runways>>
  BY Zenon DEF sim_cmd_divert, Commanded, Diverted, DivertedIn
<1>2. /\ Parts(flights, runways, holding, pq, stats)
      /\ flights \in [Flights -> Aircraft] /\ flights[f] \in Aircraft
      /\ runways \in [Runways -> Runway] /\ gates \in [Gates -> Gate]
      /\ pq \in Seq(AtcEvent(Flights))
      /\ weather \in Weather /\ now \in Nat
      /\ flight_count \in Nat /\ flight_count <= MAX_FLIGHTS
  BY PresentParts, CountFits DEF TypeOK
<1>3. /\ a \in Aircraft /\ a.state = "AC_DIVERTED" /\ a.assigned_runway = None
      /\ a.assigned_gate = flights[f].assigned_gate
  BY <1>2 DEF Aircraft, AircraftState
<1> HIDE DEF a
<1>4. fl \in [Flights -> Aircraft] /\ OnlyBy(f, flights, fl) /\ fl[f] = a
  BY <1>2, <1>3, Replaced
<1>5. st \in SimStats
  <2>1. stats.flights_diverted + 1 \in Nat /\ stats.score - 12 \in Int
    BY DEF TypeOK, SimStats
  <2> QED BY <2>1 DEF TypeOK, SimStats
<1> HIDE DEF st
<1>6. Parts(fl, runways, Unqueued(f), pq, st)
  BY <1>2, <1>4, <1>5, UnqueuedType DEF Parts
<1>7. /\ RunwaysTied({}, flights, runways) /\ GatesTied({}, flights, gates)
      /\ DriveTied({}, flights, taxi_wait, pq, flight_count)
  BY DEF AllTied, Tied
<1>8. flights[f].assigned_gate = None
  BY <1>1, <1>7 DEF GatesTied
<1>9. fl[f].state \in Gone /\ fl[f].state \notin {"AC_LANDING", "AC_DEPARTING", "AC_AT_GATE"}
  BY <1>3, <1>4 DEF Gone
<1> HIDE DEF fl
<1>10. GatesTied({}, fl, gates)
  BY <1>3, <1>4, <1>7, <1>8, <1>9, GatesQuiet
<1>11. RingsTied({}, fl, Unqueued(f), taxi_wait, flight_count)
  <2>1. /\ Waiting(Unqueued(f), {f}, flights, flight_count, "AC_HOLDING")
        /\ Waiting(taxi_wait, {f}, flights, flight_count, "AC_TAXI_IN")
    BY <1>1, UnqueuedTies
  <2>2. RingsTied({f}, flights, Unqueued(f), taxi_wait, flight_count)
    BY <2>1 DEF RingsTied
  <2>3. ~ InRing(Unqueued(f), f) /\ ~ InRing(taxi_wait, f)
    BY <2>1, HandNotWaiting
  <2> QED BY <1>2, <1>4, <2>2, <2>3, RingsQuiet
<1>12. DriveTied({}, fl, taxi_wait, pq, flight_count)
  BY <1>1, <1>2, <1>4, <1>7, <1>9, DriveGone
<1>13. CASE /\ flights[f].assigned_runway # None
            /\ free_runway(flights[f].assigned_runway, fl, Unqueued(f), pq, st)
  <2>1. RunwaysTied({}, fl, rws)
    BY <1>2, <1>3, <1>4, <1>7, <1>9, <1>13, RunwayLeft
  <2>2. Tied({}, fl, rws, gates, Unqueued(f), taxi_wait, pq, flight_count)
    BY <1>10, <1>11, <1>12, <2>1 DEF Tied
  <2>3. now' \in Nat
    BY <1>1, <1>2
  <2>4. Tied({}, flights', runways', gates, holding', taxi_wait, pq', flight_count)
    BY <1>2, <1>6, <1>13, <2>2, <2>3, FreeRunwayTies
  <2> QED BY <1>1, <2>4, AllTiedNext
<1>14. CASE /\ flights[f].assigned_runway = None
            /\ flights' = fl /\ holding' = Unqueued(f) /\ stats' = st
            /\ UNCHANGED <<pq, runways>>
  <2>1. RunwaysTied({}, fl, runways)
    <3>1. RunwayFits(fl[f], runways)
      BY <1>3, <1>4, <1>9 DEF RunwayFits
    <3> QED BY <1>3, <1>4, <1>7, <1>14, <3>1, RunwaysQuiet
  <2>2. Tied({}, fl, runways, gates, Unqueued(f), taxi_wait, pq, flight_count)
    BY <1>10, <1>11, <1>12, <2>1 DEF Tied
  <2> QED BY <1>1, <1>14, <2>2, AllTiedNext
<1> QED BY <1>1, <1>13, <1>14

-----------------------------------------------------------------------------
(* All steps together.                                                     *)

LEMMA TiedStep == TypeOK /\ AllTied /\ [Next]_vars => AllTied'
<1> SUFFICES ASSUME TypeOK, AllTied, [Next]_vars PROVE AllTied'
  OBVIOUS
<1>1. CASE sim_step
  <2>1. CASE queue_exhausted
    BY <2>1 DEF queue_exhausted, AllTied, vars
  <2>2. CASE drop_stale \/ spawn_aircraft_table_full \/ spawn_aircraft \/ on_weather_change
    BY <2>2, DropTies, TableFullTies, SpawnTies, WeatherTies
  <2>3. ASSUME NEW f \in Flights,
               \/ on_runway_request(f)
               \/ on_emergency_moved_on(f)
               \/ on_emergency_lost(f)
               \/ on_emergency(f)
               \/ on_touchdown_go_around(f)
               \/ on_touchdown(f)
               \/ on_taxi_to_gate(f)
               \/ on_gate_release(f)
               \/ on_takeoff_ready(f)
               \/ on_takeoff_clear(f)
               \/ on_depart_sector(f)
        PROVE  AllTied'
    BY <2>3, RequestTies, MovedOnTies, LostTies, EmergencyTies, GoAroundTies,
       TouchdownTies, TaxiTies, GateReleaseTies, TakeoffReadyTies,
       TakeoffClearTies, DepartTies
  <2> QED BY <1>1, <2>1, <2>2, <2>3 DEF sim_step
<1>2. CASE Command
  BY <1>2, FlagTies, PrioritizeTies, DivertTies DEF Command
<1>3. CASE AdvanceClock
  BY <1>3 DEF AdvanceClock, AllTied
<1>4. CASE UNCHANGED vars
  BY <1>4 DEF AllTied, vars
<1> QED BY <1>1, <1>2, <1>3, <1>4 DEF Next

-----------------------------------------------------------------------------
(* What the ties mean: the invariants of module SectorProperties.          *)

LEMMA TiedRunways == AllTied => RunwaysExclusive
BY DEF AllTied, Tied, RunwaysTied, RunwayFits, RunwaysExclusive

LEMMA TiedGates == AllTied => GatesExclusive
BY DEF AllTied, Tied, GatesTied, GatesExclusive

LEMMA TiedRings == AllTied => RingsHoldWaiting
BY DEF AllTied, Tied, RingsTied, Waiting, RingsHoldWaiting, InUse

LEMMA NonePending ==
  ASSUME pq \in Seq(AtcEvent(Flights)), NEW f, NEW T
  PROVE  Count(pq, f, T) = 0 <=> Pending(f, T) = {}
BY PendingFinite, FS_EmptySet

\* If the events with a type in U are as many as those with a type in T, there
\* are no others.
LEMMA NoOthers ==
  ASSUME pq \in Seq(AtcEvent(Flights)), NEW f, NEW T, NEW U, T \subseteq U,
         Count(pq, f, T) = Count(pq, f, U)
  PROVE  Pending(f, U \ T) = {}
<1>1. /\ IsFiniteSet(Pending(f, U)) /\ Pending(f, T) \subseteq Pending(f, U)
      /\ Cardinality(Pending(f, T)) = Cardinality(Pending(f, U))
  BY PendingFinite DEF Pending
<1>2. Pending(f, T) = Pending(f, U)
  BY <1>1, FS_Subset
<1> QED BY <1>2 DEF Pending

LEMMA TiedDriven == TypeOK /\ AllTied => FlightsDriven
<1> SUFFICES ASSUME TypeOK, AllTied, NEW f \in Live
             PROVE  LET st     == flights[f].state
                        parked == \E k \in DOMAIN taxi_wait : taxi_wait[k] = f
                        drive  == Pending(f, {Awaited[st]})
                        others == Pending(f, EventType \ {"EVENT_AIRCRAFT_ARRIVE",
                                     "EVENT_WEATHER_CHANGE",
                                     "EVENT_EMERGENCY_FUEL", Awaited[st]})
                    IN /\ others = {}
                       /\ CASE st = "AC_HOLDING" -> drive # {}
                            [] st = "AC_INBOUND" ->
                                  Cardinality(Pending(f, {Awaited[st],
                                                  "EVENT_EMERGENCY_FUEL"})) = 1
                            [] parked -> drive = {}
                            [] OTHER -> Cardinality(drive) = 1
  BY DEF FlightsDriven
<1> DEFINE st     == flights[f].state
           parked == InRing(taxi_wait, f)
           drive  == Pending(f, {Awaited[st]})
           Rest   == EventType \ {"EVENT_AIRCRAFT_ARRIVE", "EVENT_WEATHER_CHANGE",
                                  "EVENT_EMERGENCY_FUEL", Awaited[st]}
<1>1. pq \in Seq(AtcEvent(Flights))
  BY DEF TypeOK
<1>2. f \in Flights /\ f < flight_count /\ st \in AircraftState \ Gone
  <2>1. f \in Flights /\ f < flight_count
    BY CountFits, SizeAssumption DEF Live, InUse, Flights, Positive
  <2>2. flights[f] \in Aircraft
    BY <2>1 DEF TypeOK
  <2> QED BY <2>1, <2>2 DEF Live, Aircraft
<1>3. Driven(st, parked, pq, f)
  BY <1>2 DEF AllTied, Tied, DriveTied, DrivenFor
<1>4. \A T : Count(pq, f, T) \in Nat
  BY <1>1, CountType
<1>5. Rest = Movers \ {Awaited[st]}
  BY DEF Movers
<1>6. parked => st = "AC_TAXI_IN"
  BY DEF AllTied, Tied, RingsTied, Waiting, InRing
<1> HIDE DEF st, parked
<1>7. CASE st = "AC_HOLDING"
  <2>1. Awaited[st] = "EVENT_EMERGENCY_FUEL" /\ {Awaited[st]} = Fuel
    BY <1>7, AwaitedEvents DEF Fuel
  <2>2. Count(pq, f, Movers) = 0 /\ Count(pq, f, Fuel) >= 1
    BY <1>3, <1>7 DEF Driven
  <2>3. Pending(f, Movers) = {} /\ drive # {}
    BY <1>1, <1>4, <2>1, <2>2, NonePending
  <2>4. Pending(f, Rest) = {}
    BY <1>5, <2>3 DEF Pending
  <2> QED BY <1>7, <1>6, <2>3, <2>4 DEF st, parked, InRing
<1>8. CASE st = "AC_INBOUND"
  <2>1. /\ {Awaited[st]} = Asking /\ Asking \subseteq Movers
        /\ {Awaited[st], "EVENT_EMERGENCY_FUEL"} = Asking \cup Fuel
    BY <1>8, AwaitedEvents, MoverTypes DEF Asking, Fuel
  <2>2. /\ Count(pq, f, Movers) = Count(pq, f, Asking)
        /\ Count(pq, f, Asking \cup Fuel) = 1
    BY <1>3, <1>8 DEF Driven
  <2>3. Pending(f, Movers \ Asking) = {}
    BY <1>1, <2>1, <2>2, NoOthers
  <2>4. Pending(f, Rest) = {}
    BY <1>5, <2>1, <2>3
  <2>5. Cardinality(Pending(f, {Awaited[st], "EVENT_EMERGENCY_FUEL"})) = 1
    BY <1>1, <2>1, <2>2, PendingFinite
  <2> QED BY <1>8, <1>6, <2>4, <2>5 DEF st, parked, InRing
<1>9. CASE st \notin {"AC_HOLDING", "AC_INBOUND"}
  <2>1. {Awaited[st]} \subseteq Movers
    BY <1>2, <1>9, AwaitedMovers
  <2>2. Count(pq, f, {Awaited[st]}) <= Count(pq, f, Movers)
    BY <1>1, <2>1, CountMono
  <2>3. IF parked THEN Count(pq, f, Movers) = 0
        ELSE Count(pq, f, Movers) = 1 /\ Count(pq, f, {Awaited[st]}) = 1
    BY <1>3, <1>9 DEF Driven
  <2>4. Count(pq, f, {Awaited[st]}) = Count(pq, f, Movers)
    BY <1>4, <2>2, <2>3
  <2>5. Pending(f, Rest) = {}
    BY <1>1, <1>5, <2>1, <2>4, NoOthers
  <2>6. IF parked THEN drive = {} ELSE Cardinality(drive) = 1
    BY <1>1, <2>3, <2>4, NonePending, PendingFinite
  <2> QED BY <1>9, <2>5, <2>6 DEF st, parked, InRing
<1> QED BY <1>7, <1>8, <1>9

\* A flight that has not joined yet is as sim_init left it.
LEMMA NotYet ==
  ASSUME TypeOK, AllTied, NEW f \in Flights,
         flights[f].state \notin Gone \cup {"AC_INBOUND"}
  PROVE  f \in Live
<1>1. f < flight_count
  BY DEF AllTied, Tied, DriveTied, DrivenFor
<1> QED BY <1>1 DEF TypeOK, Live, InUse, Flights

\* What an event is to release, its flight has.
LEMMA TiedIndices == TypeOK /\ AllTied => IndicesDefined
<1> DEFINE e == Head(pq)
           f == e.flight
<1> SUFFICES ASSUME TypeOK, AllTied, pq # <<>>, flights[f].state \notin Gone
             PROVE  /\ e.type \in {"EVENT_TOUCHDOWN", "EVENT_TAKEOFF_CLEAR"}
                           => flights[f].assigned_runway # None
                    /\ e.type = "EVENT_GATE_RELEASE"
                           => flights[f].assigned_gate # None
  BY DEF IndicesDefined
<1>1. /\ pq \in Seq(AtcEvent(Flights)) /\ e = pq[1] /\ 1 \in DOMAIN pq
      /\ f \in Flights
  <2>1. pq \in Seq(AtcEvent(Flights)) /\ Len(pq) \in Nat /\ Len(pq) # 0
    BY EmptySeq, LenProperties DEF TypeOK
  <2>2. e = pq[1] /\ 1 \in DOMAIN pq /\ e \in AtcEvent(Flights)
    BY <2>1, HeadTailProperties, LenProperties
  <2> QED BY <2>1, <2>2 DEF AtcEvent
<1> HIDE DEF e
<1>2. RunwaysExclusive /\ GatesExclusive /\ FlightsDriven
  BY TiedRunways, TiedGates, TiedDriven
<1> SUFFICES ASSUME e.type \in {"EVENT_TOUCHDOWN", "EVENT_TAKEOFF_CLEAR",
                                "EVENT_GATE_RELEASE"}
             PROVE  Awaited[flights[f].state] = e.type
                    /\ flights[f].state \in AircraftState \ Gone
  BY <1>1, <1>2, AwaitedEvents DEF RunwaysExclusive, GatesExclusive, AircraftState, Gone
<1>3. e.type \in Movers
  BY MoverTypes
<1>4. f \in Live
  <2>1. 1 \in Pending(f, {e.type})
    BY <1>1 DEF Pending
  <2>2. Count(pq, f, {e.type}) # 0
    BY <1>1, <2>1, NonePending
  <2>3. f < flight_count
    BY <1>1, <1>3, <2>2 DEF AllTied, Tied, DriveTied, DrivenFor
  <2> QED BY <1>1, <2>3, CountFits, SizeAssumption DEF Live, InUse, Flights, Positive
<1>5. 1 \notin Pending(f, EventType \ {"EVENT_AIRCRAFT_ARRIVE", "EVENT_WEATHER_CHANGE",
                                       "EVENT_EMERGENCY_FUEL",
                                       Awaited[flights[f].state]})
  BY <1>2, <1>4 DEF FlightsDriven
<1>6. e.type \in EventType /\ e.type \notin {"EVENT_AIRCRAFT_ARRIVE",
                                "EVENT_WEATHER_CHANGE", "EVENT_EMERGENCY_FUEL"}
  BY <1>3 DEF Movers
<1>7. Awaited[flights[f].state] = e.type
  BY <1>1, <1>5, <1>6 DEF Pending
<1>8. flights[f].state \in AircraftState
  BY <1>1 DEF TypeOK, Aircraft
<1> QED BY <1>7, <1>8

LEMMA TiedDrained ==
  TypeOK /\ AllTied /\ NothingIdleWhileWanted => DrainedClean
<1> SUFFICES ASSUME TypeOK, AllTied, NothingIdleWhileWanted, pq = <<>>
             PROVE  /\ Live = {}
                    /\ \A rw \in Runways : runways[rw].state = "RW_IDLE"
                    /\ \A g \in Gates : gates[g].state = "GATE_VACANT"
                    /\ holding = <<>> /\ taxi_wait = <<>>
  BY DEF DrainedClean
<1>1. RunwaysExclusive /\ GatesExclusive /\ RingsHoldWaiting /\ FlightsDriven
  BY TiedRunways, TiedGates, TiedRings, TiedDriven
<1>2. /\ holding \in Seq(Flights) /\ taxi_wait \in Seq(Flights)
      /\ runways \in [Runways -> Runway] /\ gates \in [Gates -> Gate]
  BY DEF TypeOK
<1>3. \A f, T : Pending(f, T) = {}
  BY DEF Pending
<1>4. \A f, T : Cardinality(Pending(f, T)) = 0
  BY <1>3, FS_EmptySet
\* Only a flight that waits for a gate has nothing pending ...
<1>5. ASSUME NEW f \in Live
      PROVE  flights[f].state = "AC_TAXI_IN" /\ InRing(taxi_wait, f)
  <2>1. InRing(taxi_wait, f) => flights[f].state = "AC_TAXI_IN"
    BY <1>1 DEF RingsHoldWaiting, InRing
  <2>2. CASE flights[f].state = "AC_HOLDING"
    BY <1>1, <1>3, <2>1, <2>2 DEF FlightsDriven, InRing
  <2>3. CASE flights[f].state = "AC_INBOUND"
    <3>1. Cardinality(Pending(f, {"EVENT_RUNWAY_REQUEST", "EVENT_EMERGENCY_FUEL"})) = 1
      BY <1>1, <2>1, <2>3, AwaitedEvents DEF FlightsDriven, InRing
    <3> QED BY <1>4, <3>1
  <2>4. CASE flights[f].state \notin {"AC_HOLDING", "AC_INBOUND"}
    <3>1. ~ InRing(taxi_wait, f)
            => Cardinality(Pending(f, {Awaited[flights[f].state]})) = 1
      BY <1>1, <2>4 DEF FlightsDriven, InRing
    <3> QED BY <1>4, <2>1, <3>1
  <2> QED BY <2>2, <2>3, <2>4
\* ... but then some flight is at a gate, and has its release pending.
<1>6. ASSUME NEW f \in Flights, flights[f].state \notin Gone \cup {"AC_INBOUND"}
      PROVE  flights[f].state = "AC_TAXI_IN"
  BY <1>5, <1>6, NotYet
<1>7. \A g \in Gates : gates[g].state = "GATE_VACANT"
  <2> SUFFICES ASSUME NEW g \in Gates, gates[g].state # "GATE_VACANT" PROVE FALSE
    OBVIOUS
  <2>1. gates[g].occupant \in Flights
    BY <1>1, <1>2 DEF GatesExclusive, Gate
  <2>2. flights[gates[g].occupant].assigned_gate = g /\ g # None
    BY <1>1, <2>1, NoneApart DEF GatesExclusive
  <2>3. flights[gates[g].occupant].state = "AC_AT_GATE"
    BY <1>1, <2>1, <2>2 DEF GatesExclusive
  <2> QED BY <1>6, <2>1, <2>3 DEF Gone
<1>8. taxi_wait = <<>>
  <2>1. 0 \in Gates
    BY SizeAssumption DEF Gates, Positive
  <2> QED BY <1>7, <2>1 DEF NothingIdleWhileWanted, NoVacantGate
<1>9. Live = {}
  BY <1>5, <1>8 DEF InRing
<1>10. \A f \in Flights : flights[f].state \in Gone \cup {"AC_INBOUND"}
  BY <1>9, NotYet
<1>11. \A rw \in Runways : runways[rw].state = "RW_IDLE"
  <2> SUFFICES ASSUME NEW rw \in Runways, runways[rw].state # "RW_IDLE" PROVE FALSE
    OBVIOUS
  <2>1. runways[rw].occupant \in Flights /\ runways[rw].state \in {"RW_LANDING", "RW_TAKEOFF"}
    BY <1>1, <1>2 DEF RunwaysExclusive, Runway
  <2>2. flights[runways[rw].occupant].assigned_runway = rw /\ rw # None
    BY <1>1, <2>1, NoneApart DEF RunwaysExclusive
  <2>3. flights[runways[rw].occupant].state \in {"AC_LANDING", "AC_DEPARTING"}
    BY <1>1, <2>1, <2>2 DEF RunwaysExclusive
  <2> QED BY <1>10, <2>1, <2>3 DEF Gone
<1>12. holding = <<>>
  <2> SUFFICES ASSUME holding # <<>> PROVE FALSE
    OBVIOUS
  <2>1. 1 \in DOMAIN holding
    BY <1>2, EmptySeq, LenProperties
  <2>2. holding[1] \in InUse /\ flights[holding[1]].state = "AC_HOLDING"
    BY <1>1, <2>1 DEF RingsHoldWaiting
  <2> QED BY <1>9, <2>2 DEF Live, Gone
<1> QED BY <1>7, <1>8, <1>9, <1>11, <1>12

-----------------------------------------------------------------------------
(* The theorems.                                                           *)

\* What the handlers of sim.c keep between them, whatever the sizes, delays and
\* draws: a flight and its runway or gate name each other, the rings hold
\* waiting flights once, and every flight in the sector has exactly the events
\* pending that its state needs.
THEOREM AlwaysTied == Spec => []AllTied
<1>1. TypeOK /\ AllTied /\ [Next]_vars => AllTied'
  BY TiedStep
<1> QED BY InitTied, TypeCorrect, <1>1, PTL DEF Spec

\* The headless program is the interactive one without commands and frames, so
\* all that holds of Spec holds of it.
THEOREM BatchIsSpec == BatchSpec => Spec
<1>1. [sim_step]_vars => [Next]_vars
  BY DEF Next
<1> QED BY <1>1, PTL DEF BatchSpec, Spec

\* No runway is leaked or shared: try_assign_landing, on_takeoff_ready and
\* on_emergency take an idle one, and only free_runway gives it back.
THEOREM RunwaysStayExclusive == Spec => []RunwaysExclusive
BY AlwaysTied, TiedRunways, PTL

\* No gate is leaked or shared between try_assign_gate and on_gate_release.
THEOREM GatesStayExclusive == Spec => []GatesExclusive
BY AlwaysTied, TiedGates, PTL

\* The contention rings hold exactly flights that wait, none of them twice, with
\* commands that pull flights out of them as much as without.
THEOREM RingsStayWaiting == Spec => []RingsHoldWaiting
BY AlwaysTied, TiedRings, PTL

\* No flight is forgotten: whatever the handlers and commands do to it, a flight
\* in the sector has the event pending that moves it on, once, or waits on the
\* taxiway for a gate.
THEOREM EveryoneDriven == Spec => []FlightsDriven
BY AlwaysTied, TypeCorrect, TiedDriven, PTL

\* No handler frees a runway or a gate of index -1, which free_runway and
\* on_gate_release do not test: with the commands of the window, and so without
\* any, the flight of a TOUCHDOWN, TAKEOFF_CLEAR or GATE_RELEASE that fires has
\* what the event releases.
THEOREM IndicesStayDefined == Spec => []IndicesDefined
BY AlwaysTied, TypeCorrect, TiedIndices, PTL

\* When sim_step finds the queue exhausted, nothing is left behind: no flight, no
\* runway or gate in use, nobody in a ring.
THEOREM DrainsClean == Spec => []DrainedClean
BY AlwaysTied, TypeCorrect, HandedOver, TiedDrained, PTL

-----------------------------------------------------------------------------
(* What a step leaves alone.                                               *)

\* Flights that have left are not touched; a runway in use changes only if it
\* is one of X.
GoneKept == \A g \in Flights : flights[g].state \in Gone => flights'[g] = flights[g]
RunwaysKept(X) == \A x \in Runways \ X :
                      runways[x].state # "RW_IDLE" => runways'[x] = runways[x]

\* Nothing but its records is known of fl.
IsTable(fl) == fl = [g \in Flights |-> fl[g]]

LEMMA OnlyFlight ==
  ASSUME NEW f, flights[f].state \notin Gone, OnlyBy(f, flights, flights')
  PROVE  GoneKept
BY DEF OnlyBy, GoneKept

LEMMA FlightsTable == ASSUME TypeOK PROVE IsTable(flights)
BY DEF TypeOK, IsTable

LEMMA ReplacedTable ==
  ASSUME NEW fl, IsTable(fl), NEW f, NEW a
  PROVE  IsTable([fl EXCEPT ![f] = a]) /\ OnlyBy(f, fl, [fl EXCEPT ![f] = a])
BY DEF IsTable, OnlyBy

LEMMA TryAssignTakes ==
  ASSUME NEW f, NEW fl, NEW rws \in [Runways -> Runway], NEW ring, NEW q, NEW st,
         IsTable(fl), try_assign_landing(f, fl, rws, ring, q, st)
  PROVE  /\ OnlyBy(f, fl, flights')
         /\ \A x \in Runways : rws[x].state # "RW_IDLE" => runways'[x] = rws[x]
<1>1. CASE \E rw \in find_idle_runway(rws) :
             ClearToLand(f, rw, fl, rws, ring, q, st, LandingWeight(fl[f]))
  <2>1. PICK rw \in find_idle_runway(rws) :
             ClearToLand(f, rw, fl, rws, ring, q, st, LandingWeight(fl[f]))
    BY <1>1
  <2>2. rw \in Runways /\ rws[rw].state = "RW_IDLE"
    BY DEF find_idle_runway
  <2>3. \A x \in Runways \ {rw} : runways'[x] = rws[x]
    BY <2>1 DEF ClearToLand
  <2>4. OnlyBy(f, fl, flights')
    BY <2>1 DEF ClearToLand, IsTable, OnlyBy
  <2> QED BY <2>2, <2>3, <2>4
<1>2. CASE NoIdleRunway(rws) /\ EnterHolding(f, fl, rws, ring, q, st, HOLD_RECHECK)
  BY <1>2 DEF EnterHolding, IsTable, OnlyBy
<1> QED BY <1>1, <1>2 DEF try_assign_landing

\* A released runway concerns no other runway in use and only flights that
\* wait for one.
LEMMA FreeRunwayTakes ==
  ASSUME NEW rw, NEW fl, NEW ring, NEW q, NEW st, runways \in [Runways -> Runway],
         IsTable(fl), \A k \in DOMAIN ring : fl[ring[k]].state = "AC_HOLDING",
         free_runway(rw, fl, ring, q, st)
  PROVE  /\ \A g \in Flights : fl[g].state # "AC_HOLDING" => flights'[g] = fl[g]
         /\ RunwaysKept({rw})
<1> DEFINE free == [state |-> "RW_IDLE", occupant |-> None]
           rws  == [runways EXCEPT ![rw] = free]
<1>1. rws \in [Runways -> Runway] /\ \A x \in Runways \ {rw} : rws[x] = runways[x]
  <2>1. free \in Runway
    BY DEF Runway
  <2> HIDE DEF free
  <2> QED BY <2>1
<1> HIDE DEF rws
<1>2. CASE ring = <<>> /\ flights' = fl /\ runways' = rws
  BY <1>1, <1>2 DEF RunwaysKept
<1>3. CASE \E k \in holding_pop_priority(ring, fl) :
             try_assign_landing(ring[k], fl, rws, RemoveAt(ring, k), q, st)
  <2>1. PICK k \in holding_pop_priority(ring, fl) :
             try_assign_landing(ring[k], fl, rws, RemoveAt(ring, k), q, st)
    BY <1>3
  <2>2. fl[ring[k]].state = "AC_HOLDING"
    BY DEF holding_pop_priority
  <2>3. /\ OnlyBy(ring[k], fl, flights')
        /\ \A x \in Runways : rws[x].state # "RW_IDLE" => runways'[x] = rws[x]
    BY <1>1, <2>1, TryAssignTakes
  <2> QED BY <1>1, <2>2, <2>3 DEF OnlyBy, RunwaysKept
<1> QED BY <1>2, <1>3 DEF free_runway, rws, free

LEMMA FreedKeeps ==
  ASSUME TypeOK, NEW f, flights[f].state \notin Gone, NEW fl, IsTable(fl),
         OnlyBy(f, flights, fl), NEW rw, NEW ring, NEW q, NEW st,
         \A k \in DOMAIN ring : fl[ring[k]].state = "AC_HOLDING",
         free_runway(rw, fl, ring, q, st)
  PROVE  GoneKept /\ RunwaysKept({rw})
<1>1. /\ \A g \in Flights : fl[g].state # "AC_HOLDING" => flights'[g] = fl[g]
      /\ RunwaysKept({rw})
  BY FreeRunwayTakes DEF TypeOK
<1>2. \A g \in Flights : flights[g].state \in Gone =>
          g # f /\ flights[g].state # "AC_HOLDING"
  BY DEF Gone
<1> QED BY <1>1, <1>2 DEF OnlyBy, GoneKept

\* The waiting flights, before and after flight f has been changed.
LEMMA StillWaiting ==
  ASSUME TypeOK, AllTied, NEW f, ~ InRing(holding, f), NEW fl, OnlyBy(f, flights, fl)
  PROVE  \A k \in DOMAIN holding : fl[holding[k]].state = "AC_HOLDING"
<1>1. \A k \in DOMAIN holding : /\ flights[holding[k]].state = "AC_HOLDING"
                                /\ holding[k] \in Flights
  BY ElementOfSeq DEF TypeOK, AllTied, Tied, RingsTied, Waiting
<1> QED BY <1>1 DEF OnlyBy, InRing

-----------------------------------------------------------------------------
(* The steps that use runways.                                             *)

\* A landing, a take-off or a wave-off releases the runway of its flight.
ReleasedBy(f) == /\ f = Head(pq).flight /\ now' = Head(pq).time
                 /\ Head(pq).type \in {"EVENT_TOUCHDOWN", "EVENT_TAKEOFF_CLEAR"}
                 /\ flights[f].state \in {"AC_LANDING", "AC_DEPARTING"}

LEMMA TouchdownKeeps ==
  ASSUME TypeOK, AllTied, NEW f \in Flights, on_touchdown(f)
  PROVE  ReleasedBy(f) /\ GoneKept /\ RunwaysKept({flights[f].assigned_runway})
<1> DEFINE b == decay_fuel(flights[f])
           a == [b EXCEPT !.assigned_runway = None, !.state = "AC_TAXI_IN",
                          !.queue_enter_time = now']
           fl == [flights EXCEPT ![f] = a]
<1>1. /\ Dispatch("EVENT_TOUCHDOWN", f) /\ "EVENT_TOUCHDOWN" \in Movers
      /\ \E q, st : free_runway(b.assigned_runway, fl, holding, q, st)
  BY MoverTypes, Zenon DEF on_touchdown
<1>2. /\ ~ InRing(holding, f) /\ flights[f].state \in AircraftState \ Gone
      /\ Awaited[flights[f].state] = "EVENT_TOUCHDOWN"
  BY <1>1, Popped
<1>3. flights[f].state = "AC_LANDING"
  BY <1>2, StateAwaiting
<1>4. b.assigned_runway = flights[f].assigned_runway
  BY DecayKeeps DEF TypeOK
<1>5. IsTable(fl) /\ OnlyBy(f, flights, fl)
  BY FlightsTable, ReplacedTable
<1> HIDE DEF fl, b
<1>6. \A k \in DOMAIN holding : fl[holding[k]].state = "AC_HOLDING"
  BY <1>2, <1>5, StillWaiting
<1>7. GoneKept /\ RunwaysKept({b.assigned_runway})
  BY <1>1, <1>2, <1>5, <1>6, FreedKeeps
<1> QED BY <1>1, <1>3, <1>4, <1>7 DEF ReleasedBy, Dispatch, Pop

LEMMA TakeoffClearKeeps ==
  ASSUME TypeOK, AllTied, NEW f \in Flights, on_takeoff_clear(f)
  PROVE  ReleasedBy(f) /\ GoneKept /\ RunwaysKept({flights[f].assigned_runway})
<1> DEFINE fl == [flights EXCEPT ![f].assigned_runway = None,
                                 ![f].state = "AC_AIRBORNE_OUT"]
<1>1. /\ Dispatch("EVENT_TAKEOFF_CLEAR", f) /\ "EVENT_TAKEOFF_CLEAR" \in Movers
      /\ \E q, st : free_runway(flights[f].assigned_runway, fl, holding, q, st)
  BY MoverTypes, Zenon DEF on_takeoff_clear
<1>2. /\ ~ InRing(holding, f) /\ flights[f].state \in AircraftState \ Gone
      /\ Awaited[flights[f].state] = "EVENT_TAKEOFF_CLEAR"
  BY <1>1, Popped
<1>3. flights[f].state = "AC_DEPARTING"
  BY <1>2, StateAwaiting
<1>4. IsTable(fl) /\ OnlyBy(f, flights, fl)
  BY FlightsTable DEF IsTable, OnlyBy
<1> HIDE DEF fl
<1>5. \A k \in DOMAIN holding : fl[holding[k]].state = "AC_HOLDING"
  BY <1>2, <1>4, StillWaiting
<1>6. GoneKept /\ RunwaysKept({flights[f].assigned_runway})
  BY <1>1, <1>2, <1>4, <1>5, FreedKeeps
<1> QED BY <1>1, <1>3, <1>6 DEF ReleasedBy, Dispatch, Pop

LEMMA GoAroundKeeps ==
  ASSUME TypeOK, AllTied, NEW f \in Flights, on_touchdown_go_around(f)
  PROVE  ReleasedBy(f) /\ GoneKept /\ RunwaysKept({flights[f].assigned_runway})
<1> DEFINE b == decay_fuel(flights[f])
           a == [b EXCEPT !.force_go_around = FALSE, !.assigned_runway = None,
                          !.go_arounds = @ + 1, !.state = "AC_HOLDING",
                          !.queue_enter_time = now']
           fl == [flights EXCEPT ![f] = a]
           ring == holding_push(holding, f)
<1>1. /\ Dispatch("EVENT_TOUCHDOWN", f) /\ "EVENT_TOUCHDOWN" \in Movers
      /\ \E q, st : free_runway(b.assigned_runway, fl, ring, q, st)
  BY MoverTypes, Zenon DEF on_touchdown_go_around
<1>2. /\ ~ InRing(holding, f) /\ flights[f].state \in AircraftState \ Gone
      /\ Awaited[flights[f].state] = "EVENT_TOUCHDOWN"
  BY <1>1, Popped
<1>3. flights[f].state = "AC_LANDING"
  BY <1>2, StateAwaiting
<1>4. b.assigned_runway = flights[f].assigned_runway
  BY DecayKeeps DEF TypeOK
<1>5. a.state = "AC_HOLDING"
  <2>1. now' \in Nat
    BY <1>1, PopType DEF Dispatch, Pop
  <2>2. b \in Aircraft
    BY <2>1, DecayType DEF TypeOK
  <2> HIDE DEF b
  <2> QED BY <2>2 DEF Aircraft
<1>6. IsTable(fl) /\ OnlyBy(f, flights, fl)
  BY FlightsTable, ReplacedTable
<1>7. fl[f].state = "AC_HOLDING"
  BY <1>5 DEF TypeOK
<1> HIDE DEF fl, b, a
<1>8. \A k \in DOMAIN holding : fl[holding[k]].state = "AC_HOLDING"
  BY <1>2, <1>6, StillWaiting
<1>9. \A k \in DOMAIN ring : fl[ring[k]].state = "AC_HOLDING"
  <2>1. CASE ring = holding
    BY <1>8, <2>1
  <2>2. CASE ring = Append(holding, f)
    BY <1>7, <1>8, <2>2, AppendProperties, LenProperties DEF TypeOK
  <2> QED BY <2>1, <2>2 DEF holding_push
<1> HIDE DEF ring
<1>10. GoneKept /\ RunwaysKept({b.assigned_runway})
  BY <1>1, <1>2, <1>6, <1>9, FreedKeeps
<1> QED BY <1>1, <1>3, <1>4, <1>10 DEF ReleasedBy, Dispatch, Pop

\* A diversion releases the runway of its flight, if it has one.
LEMMA DivertKeeps ==
  ASSUME TypeOK, AllTied, NEW f \in Flights, sim_cmd_divert(f)
  PROVE  /\ GoneKept /\ flights'[f].state = "AC_DIVERTED"
         /\ \/ RunwaysKept({})
            \/ /\ flights[f].state = "AC_LANDING"
               /\ RunwaysKept({flights[f].assigned_runway})
<1> DEFINE a  == [flights[f] EXCEPT !.assigned_runway = None, !.emergency = FALSE,
                                    !.state = "AC_DIVERTED"]
           fl == [flights EXCEPT ![f] = a]
<1>1. /\ flights[f].state \in {"AC_INBOUND", "AC_HOLDING", "AC_LANDING"}
      /\ \/ /\ flights[f].assigned_runway # None
            /\ \E st : free_runway(flights[f].assigned_runway, fl, Unqueued(f), pq, st)
         \/ flights' = fl /\ runways' = runways
  BY Zenon DEF sim_cmd_divert, Commanded, Diverted, DivertedIn
<1>2. flights[f].state \notin Gone
  BY <1>1 DEF Gone
<1>3. IsTable(fl) /\ OnlyBy(f, flights, fl)
  BY FlightsTable, ReplacedTable
<1>4. fl[f].state = "AC_DIVERTED"
  BY DEF TypeOK, Aircraft
<1> HIDE DEF fl
<1>5. CASE flights' = fl /\ runways' = runways
  BY <1>2, <1>3, <1>4, <1>5, OnlyFlight DEF RunwaysKept
<1>6. CASE /\ flights[f].assigned_runway # None
           /\ \E st : free_runway(flights[f].assigned_runway, fl, Unqueued(f), pq, st)
  <2>1. Waiting(Unqueued(f), {f}, flights, flight_count, "AC_HOLDING")
    BY <1>1, UnqueuedTies
  <2>2. Unqueued(f) \in Seq(Flights)
    BY UnqueuedType
  <2>3. \A k \in DOMAIN Unqueued(f) : fl[Unqueued(f)[k]].state = "AC_HOLDING"
    BY <1>3, <2>1, <2>2, ElementOfSeq DEF Waiting, OnlyBy
  <2>4. GoneKept /\ RunwaysKept({flights[f].assigned_runway})
    BY <1>2, <1>3, <1>6, <2>3, FreedKeeps
  <2>5. flights'[f] = fl[f]
    <3>1. runways \in [Runways -> Runway]
      BY DEF TypeOK
    <3>2. PICK rw, ring, st :
             /\ \A k \in DOMAIN ring : fl[ring[k]].state = "AC_HOLDING"
             /\ free_runway(rw, fl, ring, pq, st)
      BY <1>6, <2>3
    <3>3. /\ \A g \in Flights : fl[g].state # "AC_HOLDING" => flights'[g] = fl[g]
          /\ RunwaysKept({rw})
      BY <1>3, <3>1, <3>2, FreeRunwayTakes
    <3> QED BY <1>4, <3>3
  <2>6. flights[f].state = "AC_LANDING"
    <3>1. flights[f].assigned_runway # None
            => flights[f].state \in {"AC_LANDING", "AC_DEPARTING"}
      BY RunwayOf DEF TypeOK, AllTied, Tied
    <3> QED BY <1>1, <1>6, <3>1
  <2> QED BY <1>4, <2>4, <2>5, <2>6
<1> QED BY <1>1, <1>5, <1>6

-----------------------------------------------------------------------------
(* The other steps.                                                        *)

\* Helpers that take an idle runway leave the others.
LEMMA RequestKeeps ==
  ASSUME TypeOK, NEW f \in Flights, on_runway_request(f)
  PROVE  GoneKept /\ RunwaysKept({})
<1> DEFINE a  == [decay_fuel(flights[f]) EXCEPT !.queue_enter_time = now']
           fl == [flights EXCEPT ![f] = a]
<1>1. IsTable(fl) /\ OnlyBy(f, flights, fl) /\ runways \in [Runways -> Runway]
  BY FlightsTable, ReplacedTable DEF TypeOK
<1> HIDE DEF a
<1>2. /\ flights[f].state \notin Gone
      /\ \/ flights' = [fl EXCEPT ![f].emergency = TRUE] /\ runways' = runways
         \/ \E ring, q, st : try_assign_landing(f, fl, runways, ring, q, st)
  <2> HIDE DEF fl
  <2> QED BY Zenon DEF on_runway_request, Dispatch, fl, a
<1> HIDE DEF fl
<1>3. CASE flights' = [fl EXCEPT ![f].emergency = TRUE] /\ runways' = runways
  <2>1. OnlyBy(f, flights, flights')
    BY <1>1, <1>3 DEF OnlyBy, IsTable
  <2> QED BY <1>2, <1>3, <2>1, OnlyFlight DEF RunwaysKept
<1>4. CASE \E ring, q, st : try_assign_landing(f, fl, runways, ring, q, st)
  <2>1. /\ OnlyBy(f, fl, flights')
        /\ \A x \in Runways : runways[x].state # "RW_IDLE" => runways'[x] = runways[x]
    BY <1>1, <1>4, TryAssignTakes
  <2>2. OnlyBy(f, flights, flights')
    BY <1>1, <2>1 DEF OnlyBy
  <2> QED BY <1>2, <2>1, <2>2, OnlyFlight DEF RunwaysKept
<1> QED BY <1>2, <1>3, <1>4

LEMMA IdleTaken ==
  ASSUME NEW rw \in find_idle_runway(runways), NEW r,
         runways \in [Runways -> Runway], runways' = [runways EXCEPT ![rw] = r]
  PROVE  RunwaysKept({})
BY DEF find_idle_runway, RunwaysKept

LEMMA EmergencyKeeps ==
  ASSUME TypeOK, NEW f \in Flights, on_emergency(f)
  PROVE  GoneKept /\ RunwaysKept({})
<1> DEFINE a  == decay_fuel(flights[f])
           fl == [flights EXCEPT ![f] = [a EXCEPT !.emergency = @ \/ Declares(a)]]
<1>1. IsTable(fl) /\ OnlyBy(f, flights, fl) /\ runways \in [Runways -> Runway]
  BY FlightsTable, ReplacedTable DEF TypeOK
<1>2. /\ flights[f].state \notin Gone
      /\ \/ \E rw \in find_idle_runway(runways) : \E ring, st :
                ClearToLand(f, rw, fl, runways, ring, Tail(pq), st, PRIO_EMERGENCY)
         \/ flights' = [fl EXCEPT ![f].state = "AC_HOLDING"] /\ runways' = runways
  BY Zenon DEF on_emergency, Dispatch
<1> HIDE DEF fl
<1>3. CASE \E rw \in find_idle_runway(runways) : \E ring, st :
               ClearToLand(f, rw, fl, runways, ring, Tail(pq), st, PRIO_EMERGENCY)
  <2>1. PICK rw \in find_idle_runway(runways) :
            \E ring, st : ClearToLand(f, rw, fl, runways, ring, Tail(pq), st,
                                      PRIO_EMERGENCY)
    BY <1>3
  <2>2. OnlyBy(f, flights, flights')
    BY <1>1, <2>1 DEF ClearToLand, OnlyBy, IsTable
  <2>3. RunwaysKept({})
    BY <1>1, <2>1, IdleTaken DEF ClearToLand
  <2> QED BY <1>2, <2>2, <2>3, OnlyFlight
<1>4. CASE flights' = [fl EXCEPT ![f].state = "AC_HOLDING"] /\ runways' = runways
  <2>1. OnlyBy(f, flights, flights')
    BY <1>1, <1>4 DEF OnlyBy, IsTable
  <2> QED BY <1>2, <1>4, <2>1, OnlyFlight DEF RunwaysKept
<1> QED BY <1>2, <1>3, <1>4

LEMMA TakeoffReadyKeeps ==
  ASSUME TypeOK, NEW f \in Flights, on_takeoff_ready(f)
  PROVE  GoneKept /\ RunwaysKept({})
<1> DEFINE fl == [flights EXCEPT ![f].queue_enter_time = now']
<1>1. IsTable(fl) /\ OnlyBy(f, flights, fl) /\ runways \in [Runways -> Runway]
  BY FlightsTable DEF TypeOK, IsTable, OnlyBy
<1>2. /\ flights[f].state \notin Gone
      /\ \/ \E rw \in find_idle_runway(runways) :
                /\ runways' = [runways EXCEPT ![rw] =
                                   [state |-> "RW_TAKEOFF", occupant |-> f]]
                /\ flights' = [fl EXCEPT ![f].assigned_runway = rw,
                                         ![f].state = "AC_DEPARTING",
                                         ![f].total_wait = @ + Waited(fl[f])]
         \/ flights' = fl /\ runways' = runways
  BY Zenon DEF on_takeoff_ready, Dispatch
<1> HIDE DEF fl
<1>3. OnlyBy(f, flights, flights')
  BY <1>1, <1>2 DEF OnlyBy, IsTable
<1>4. RunwaysKept({})
  <2>1. CASE runways' = runways
    BY <2>1 DEF RunwaysKept
  <2>2. CASE \E rw \in find_idle_runway(runways) :
                runways' = [runways EXCEPT ![rw] = [state |-> "RW_TAKEOFF", occupant |-> f]]
    BY <1>1, <2>2, IdleTaken
  <2> QED BY <1>2, <2>1, <2>2
<1> QED BY <1>2, <1>3, <1>4, OnlyFlight

\* Gates concern their flight and one that waits on the taxiway.
LEMMA TryAssignGateTakes ==
  ASSUME NEW f, NEW fl, NEW gts, NEW ring, NEW q, IsTable(fl),
         try_assign_gate(f, fl, gts, ring, q)
  PROVE  OnlyBy(f, fl, flights')
<1>1. \/ \E g \in find_vacant_gate(gts) :
             flights' = [fl EXCEPT ![f].assigned_gate = g, ![f].state = "AC_AT_GATE",
                                   ![f].total_wait = @ + Waited(fl[f])]
      \/ flights' = fl
  BY Zenon DEF try_assign_gate
<1> QED BY <1>1 DEF IsTable, OnlyBy

LEMMA GateKeeps ==
  ASSUME TypeOK, AllTied, NEW f \in Flights, on_taxi_to_gate(f) \/ on_gate_release(f)
  PROVE  GoneKept /\ runways' = runways
<1>1. flights[f].state \notin Gone /\ runways' = runways
  BY DEF on_taxi_to_gate, on_gate_release, Dispatch
<1>2. CASE on_taxi_to_gate(f)
  <2>1. try_assign_gate(f, flights, gates, taxi_wait, Tail(pq))
    BY <1>2 DEF on_taxi_to_gate
  <2> QED BY <1>1, <2>1, FlightsTable, TryAssignGateTakes, OnlyFlight
<1>3. CASE on_gate_release(f)
  <2> DEFINE fl == [flights EXCEPT ![f].assigned_gate = None, ![f].state = "AC_TAXI_OUT"]
  <2>1. IsTable(fl) /\ OnlyBy(f, flights, fl)
    BY FlightsTable DEF IsTable, OnlyBy
  <2>2. \/ flights' = fl
        \/ /\ taxi_wait # <<>>
           /\ \E gts, q : try_assign_gate(Head(taxi_wait), fl, gts, Tail(taxi_wait), q)
    BY <1>3, Zenon DEF on_gate_release
  <2> HIDE DEF fl
  <2>3. CASE flights' = fl
    BY <1>1, <2>1, <2>3, OnlyFlight
  <2>4. CASE /\ taxi_wait # <<>>
             /\ \E gts, q : try_assign_gate(Head(taxi_wait), fl, gts, Tail(taxi_wait), q)
    <3>1. OnlyBy(Head(taxi_wait), fl, flights')
      BY <2>1, <2>4, TryAssignGateTakes
    <3>2. flights[Head(taxi_wait)].state = "AC_TAXI_IN"
      <4>1. 1 \in DOMAIN taxi_wait /\ Head(taxi_wait) = taxi_wait[1]
        BY <2>4, EmptySeq, LenProperties DEF TypeOK
      <4> QED BY <4>1 DEF AllTied, Tied, RingsTied, Waiting
    <3> QED BY <1>1, <2>1, <3>1, <3>2 DEF OnlyBy, GoneKept, Gone
  <2> QED BY <2>2, <2>3, <2>4
<1> QED BY <1>1, <1>2, <1>3

\* Steps that change one flight and no runway.
LEMMA RecordKeeps ==
  ASSUME TypeOK, NEW f \in Flights,
         \/ on_emergency_moved_on(f) \/ on_emergency_lost(f) \/ on_depart_sector(f)
         \/ sim_cmd_prioritize_inbound(f) \/ sim_cmd_go_around(f)
  PROVE  GoneKept /\ runways' = runways
<1>1. flights[f].state \notin Gone /\ runways' = runways
  BY DEF on_emergency_moved_on, on_emergency_lost, on_depart_sector, Dispatch,
         sim_cmd_prioritize_inbound, sim_cmd_go_around, Commanded, Gone
<1>2. OnlyBy(f, flights, flights')
  BY FlightsTable DEF on_emergency_moved_on, on_emergency_lost, on_depart_sector,
     sim_cmd_prioritize_inbound, sim_cmd_go_around, OnlyBy, IsTable
<1> QED BY <1>1, <1>2, OnlyFlight

LEMMA PrioritizeKeeps ==
  ASSUME TypeOK, NEW f \in Flights, sim_cmd_prioritize_holding(f)
  PROVE  GoneKept /\ RunwaysKept({})
<1> DEFINE fl == [flights EXCEPT ![f].user_priority = TRUE]
<1>1. IsTable(fl) /\ OnlyBy(f, flights, fl) /\ runways \in [Runways -> Runway]
  BY FlightsTable DEF TypeOK, IsTable, OnlyBy
<1>2. /\ flights[f].state = "AC_HOLDING"
      /\ \E ring : try_assign_landing(f, fl, runways, ring, pq, stats)
  BY Zenon DEF sim_cmd_prioritize_holding, Commanded
<1> HIDE DEF fl
<1>3. /\ OnlyBy(f, fl, flights')
      /\ \A x \in Runways : runways[x].state # "RW_IDLE" => runways'[x] = runways[x]
  BY <1>1, <1>2, TryAssignTakes
<1>4. OnlyBy(f, flights, flights') /\ flights[f].state \notin Gone
  BY <1>1, <1>2, <1>3 DEF OnlyBy, Gone
<1> QED BY <1>3, <1>4, OnlyFlight DEF RunwaysKept

\* An arrival is entered where no flight has left.
LEMMA SourceKeeps ==
  ASSUME TypeOK, AllTied,
         \/ queue_exhausted \/ drop_stale \/ spawn_aircraft_table_full
         \/ spawn_aircraft \/ on_weather_change \/ AdvanceClock \/ UNCHANGED vars
  PROVE  GoneKept /\ runways' = runways
<1>1. CASE spawn_aircraft
  <2>1. /\ runways' = runways /\ flight_count < MAX_FLIGHTS
        /\ \E a : flights' = [flights EXCEPT ![flight_count] = a]
    BY <1>1, Zenon DEF spawn_aircraft
  <2>2. flight_count \in Flights
    BY <2>1, CountFits, SizeAssumption DEF Flights, Positive
  <2>3. flights[flight_count].state = "AC_INBOUND"
    BY <2>2, CountFits DEF AllTied, Tied, DriveTied, DrivenFor
  <2>4. OnlyBy(flight_count, flights, flights')
    BY <2>1, FlightsTable DEF OnlyBy, IsTable
  <2> QED BY <2>1, <2>3, <2>4, OnlyFlight DEF Gone
<1>2. CASE ~ spawn_aircraft
  BY <1>2 DEF queue_exhausted, drop_stale, spawn_aircraft_table_full,
              on_weather_change, AdvanceClock, vars, GoneKept
<1> QED BY <1>1, <1>2

-----------------------------------------------------------------------------
(* All steps together.                                                     *)

Separated ==
    \A rw \in Runways :
        LET f == runways[rw].occupant IN
        f # None /\ runways'[rw].occupant # f
        => \/ flights'[f].state = "AC_DIVERTED"
           \/ /\ Head(pq).flight = f /\ now' = Head(pq).time
              /\ Head(pq).type \in {"EVENT_TOUCHDOWN", "EVENT_TAKEOFF_CLEAR"}

LEMMA NoneReleased ==
  ASSUME TypeOK, AllTied, RunwaysKept({}) PROVE Separated
<1>1. \A rw \in Runways : runways[rw].state = "RW_IDLE" <=> runways[rw].occupant = None
  BY DEF AllTied, Tied, RunwaysTied
<1> QED BY <1>1 DEF RunwaysKept, Separated

LEMMA OneReleased ==
  ASSUME TypeOK, AllTied, NEW f \in Flights,
         flights[f].state \in {"AC_LANDING", "AC_DEPARTING"},
         RunwaysKept({flights[f].assigned_runway}),
         ReleasedBy(f) \/ flights'[f].state = "AC_DIVERTED"
  PROVE  Separated
<1>1. \A rw \in Runways : runways[rw].state = "RW_IDLE" <=> runways[rw].occupant = None
  BY DEF AllTied, Tied, RunwaysTied
<1>2. runways[flights[f].assigned_runway].occupant = f
  BY OnRunway
<1> QED BY <1>1, <1>2 DEF RunwaysKept, Separated, ReleasedBy

LEMMA StepKeeps == TypeOK /\ AllTied /\ [Next]_vars => GoneKept /\ Separated
<1> SUFFICES ASSUME TypeOK, AllTied, [Next]_vars PROVE GoneKept /\ Separated
  OBVIOUS
<1>1. ASSUME GoneKept, runways' = runways PROVE GoneKept /\ Separated
  BY <1>1, NoneReleased DEF RunwaysKept
<1>2. CASE \/ queue_exhausted \/ drop_stale \/ spawn_aircraft_table_full
           \/ spawn_aircraft \/ on_weather_change \/ AdvanceClock \/ UNCHANGED vars
  BY <1>1, <1>2, SourceKeeps
<1>3. ASSUME NEW f \in Flights,
             \/ on_runway_request(f)
             \/ on_emergency(f)
             \/ on_takeoff_ready(f)
             \/ sim_cmd_prioritize_holding(f)
      PROVE  GoneKept /\ Separated
  BY <1>3, RequestKeeps, EmergencyKeeps, TakeoffReadyKeeps, PrioritizeKeeps, NoneReleased
<1>4. ASSUME NEW f \in Flights,
             \/ on_touchdown_go_around(f)
             \/ on_touchdown(f)
             \/ on_takeoff_clear(f)
      PROVE  GoneKept /\ Separated
  <2>1. ReleasedBy(f) /\ GoneKept /\ RunwaysKept({flights[f].assigned_runway})
    BY <1>4, TouchdownKeeps, GoAroundKeeps, TakeoffClearKeeps
  <2>2. flights[f].state \in {"AC_LANDING", "AC_DEPARTING"}
    BY <2>1 DEF ReleasedBy
  <2> QED BY <2>1, <2>2, OneReleased
<1>5. ASSUME NEW f \in Flights,
             \/ on_emergency_moved_on(f)
             \/ on_emergency_lost(f)
             \/ on_taxi_to_gate(f)
             \/ on_gate_release(f)
             \/ on_depart_sector(f)
             \/ sim_cmd_prioritize_inbound(f)
             \/ sim_cmd_go_around(f)
      PROVE  GoneKept /\ Separated
  BY <1>1, <1>5, RecordKeeps, GateKeeps
<1>6. ASSUME NEW f \in Flights, sim_cmd_divert(f) PROVE GoneKept /\ Separated
  <2>1. /\ GoneKept /\ flights'[f].state = "AC_DIVERTED"
        /\ \/ RunwaysKept({})
           \/ /\ flights[f].state = "AC_LANDING"
              /\ RunwaysKept({flights[f].assigned_runway})
    BY <1>6, DivertKeeps
  <2> QED BY <2>1, NoneReleased, OneReleased
<1> QED BY <1>2, <1>3, <1>4, <1>5, <1>6, Zenon DEF Next, sim_step, Command

\* A flight leaves once: no handler of an event still pending for it and no
\* command changes a flight that has landed and gone, was lost or diverted.
THEOREM GoneStaysGone == Spec => GoneForGood
<1>1. TypeOK /\ AllTied /\ [Next]_vars
        => [\A f \in InUse : flights[f].state \in Gone
                             => flights'[f] = flights[f]]_vars
  <2>1. ASSUME TypeOK PROVE InUse \subseteq Flights
    BY <2>1, CountFits, SizeAssumption DEF InUse, Flights, Positive
  <2> QED BY <2>1, StepKeeps DEF GoneKept
<1> QED BY <1>1, TypeCorrect, AlwaysTied, PTL DEF Spec, GoneForGood

\* The separation between two flights on a runway is never cut short by what
\* happens to others: only the touchdown, the take-off or the diversion of the
\* flight that has a runway takes it away.
THEOREM SeparationStays == Spec => SeparationKept
<1>1. TypeOK /\ AllTied /\ [Next]_vars
        => [\A rw \in Runways :
              LET f == runways[rw].occupant IN
              f # None /\ runways'[rw].occupant # f
              => \/ flights'[f].state = "AC_DIVERTED"
                 \/ /\ Head(pq).flight = f /\ now' = Head(pq).time
                    /\ Head(pq).type \in {"EVENT_TOUCHDOWN",
                                          "EVENT_TAKEOFF_CLEAR"}]_vars
  BY StepKeeps DEF Separated
<1> QED BY <1>1, TypeCorrect, AlwaysTied, PTL DEF Spec, SeparationKept
=============================================================================

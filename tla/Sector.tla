------------------------------- MODULE Sector -------------------------------
(***************************************************************************)
(* The discrete-event core of the simulator (sim.c): one arrival stream,   *)
(* one weather process and the flights they create compete for runways and *)
(* gates.  sim_step pops the first event of the queue, moves the clock to  *)
(* its time and runs its handler; there is one action per handler (two     *)
(* when the handler chooses) and one per command of the controller.        *)
(*                                                                         *)
(* Random draws (fuel, wake category, gaps between arrivals and between    *)
(* changes of weather, wave-offs) are choices from finite sets.  Time is   *)
(* counted in ticks and fuel in units burnt per tick, so the doubles of    *)
(* the code are integers here.  A helper of the code that works on a half  *)
(* updated Simulation takes the updated parts as arguments: fl (flights),  *)
(* rws (runways), ring (holding), q (pq) and st (stats).  Every action     *)
(* gives now' its value first; the helpers read the clock as now'.         *)
(*                                                                         *)
(* A handler that frees a runway or a gate writes to the index that its    *)
(* flight has recorded.  An index of -1 is outside the array, where C      *)
(* gives the write no meaning: such a handler has no step, and a behaviour *)
(* that comes to it ends there.  IndicesDefined says where none does.      *)
(***************************************************************************)
EXTENDS EventQueue

CONSTANTS
    \* types.h, "Simulation-wide tunable constants"
    MAX_FLIGHTS, MAX_HOLDING_SLOTS, MAX_TAXI_SLOTS,
    FUEL_BURN_RATE, FUEL_EMERGENCY, FUEL_CRITICAL,
    RUNWAY_LANDING_T, RUNWAY_TAKEOFF_T, TAXI_DURATION, GATE_TURNAROUND,
    TAKEOFF_PREP,
    \* literals of sim.c: the delays of its retries, the delay that still
    \* earns the low-delay bonus
    HOLD_RECHECK, EMERGENCY_RECHECK, GO_AROUND_RECHECK, TAXI_RETRY,
    TAKEOFF_RETRY, LOW_DELAY,
    \* arguments of sim_init
    num_runways, num_gates, horizon,
    \* what the random draws may return
    SpawnFuel, Wakes, ArrivalGaps, WeatherGaps, WeatherDraws,
    \* the lengths of a frame of the caller, and a bound: Expedite is not
    \* offered to a holding flight while MaxPending events are pending
    FrameTicks, MaxPending

Wake    == {"L", "M", "H", "J"}
Weather == {"WX_CLEAR", "WX_WINDY", "WX_STORM"}

Positive == Nat \ {0}

ASSUME SizeAssumption ==
    /\ MAX_FLIGHTS \in Positive /\ MAX_HOLDING_SLOTS \in Positive
    /\ MAX_TAXI_SLOTS \in Positive
    /\ num_runways \in Positive /\ num_gates \in Positive
ASSUME FuelAssumption ==
    /\ FUEL_BURN_RATE \in Positive /\ FUEL_EMERGENCY \in Nat
    /\ FUEL_CRITICAL \in Nat /\ SpawnFuel \subseteq Nat
ASSUME TimeAssumption ==
    /\ {RUNWAY_LANDING_T, RUNWAY_TAKEOFF_T, TAXI_DURATION, GATE_TURNAROUND,
        TAKEOFF_PREP, HOLD_RECHECK, EMERGENCY_RECHECK, GO_AROUND_RECHECK,
        TAXI_RETRY, TAKEOFF_RETRY} \subseteq Positive
    /\ LOW_DELAY \in Nat /\ horizon \in Nat /\ MaxPending \in Nat
    /\ ArrivalGaps \subseteq Nat /\ WeatherGaps \subseteq Nat
    /\ FrameTicks \subseteq Positive
ASSUME DrawAssumption == Wakes \subseteq Wake /\ WeatherDraws \subseteq Weather

VARIABLES now,           \* the clock
          pq,            \* pending events, in the order they will be served
          flights,       \* the table of aircraft, by flight id
          flight_count,  \* ids below it are in use
          runways, gates,
          holding,       \* ring of flights that wait for a runway, head first
          taxi_wait,     \* ring of flights that wait for a gate, head first
          weather,
          spawning_done,
          stats

vars == <<now, pq, flights, flight_count, runways, gates, holding, taxi_wait,
          weather, spawning_done, stats>>

Flights == 0 .. MAX_FLIGHTS - 1
Runways == 0 .. num_runways - 1
Gates   == 0 .. num_gates - 1
None    == -1

AircraftState == {"AC_INBOUND", "AC_HOLDING", "AC_LANDING", "AC_TAXI_IN",
                  "AC_AT_GATE", "AC_TAXI_OUT", "AC_DEPARTING",
                  "AC_AIRBORNE_OUT", "AC_DONE", "AC_LOST", "AC_DIVERTED"}
Gone == {"AC_DONE", "AC_LOST", "AC_DIVERTED"}

Aircraft == [state : AircraftState, fuel : Nat, last_update : Nat, wake : Wake,
             emergency : BOOLEAN, user_priority : BOOLEAN,
             force_go_around : BOOLEAN, go_arounds : Nat,
             assigned_gate : Gates \cup {None},
             assigned_runway : Runways \cup {None},
             queue_enter_time : Nat, total_wait : Nat]

Runway == [state : {"RW_IDLE", "RW_LANDING", "RW_TAKEOFF"},
           occupant : Flights \cup {None}]
Gate   == [state : {"GATE_VACANT", "GATE_OCCUPIED"},
           occupant : Flights \cup {None}]

SimStats == [flights_spawned : Nat, flights_landed : Nat,
             flights_departed : Nat, flights_lost : Nat,
             flights_diverted : Nat, emergencies : Nat, go_arounds : Nat,
             cumulative_wait : Nat, max_wait : Nat, wait_samples : Nat,
             score : Int]

-----------------------------------------------------------------------------
(* Lookup tables, in percent.                                              *)

wake_factor == [L |-> 85, M |-> 100, H |-> 125, J |-> 155]
weather_runway_factor == [WX_CLEAR |-> 100, WX_WINDY |-> 115, WX_STORM |-> 140]

\* The shortest approach, 2.0 minutes by 0.85, takes longer than the longest
\* delay between two fuel checks, 1.0 minutes.
ASSUME ApproachAssumption ==
    \A wake \in Wake, wx \in Weather :
        \A d \in {HOLD_RECHECK, EMERGENCY_RECHECK, GO_AROUND_RECHECK} :
            d < (RUNWAY_LANDING_T * wake_factor[wake] * weather_runway_factor[wx])
                    \div 10000

\* How long a flight of this wake category occupies a runway.
Occupancy(base, wake) ==
    (base * wake_factor[wake] * weather_runway_factor[weather]) \div 10000

-----------------------------------------------------------------------------
(* Helpers on parts of the state.  An operator whose name has the form      *)
(* helper_Fault stands before the helper it resembles and makes the mistake *)
(* its name says: no specification uses it, and replacing the helper by it  *)
(* shows that a property notices the mistake.                               *)

schedule(q, f, type, time, weight) ==
    pq_push(q, [flight |-> f, type |-> type, time |-> time, weight |-> weight])

\* The weight of the events of a flight that wants to land.
LandingWeight(a) == IF a.emergency THEN PRIO_EMERGENCY ELSE PRIO_LANDING

\* The next fuel check of flight f, whose record is a.
CheckFuelAfter_Never(q, f, a, delay) == q
CheckFuelAfter_AtOnce(q, f, a, delay) ==
    schedule(q, f, "EVENT_EMERGENCY_FUEL", now', LandingWeight(a))
CheckFuelAfter_Late(q, f, a, delay) ==
    schedule(q, f, "EVENT_EMERGENCY_FUEL", now' + 2 * delay, LandingWeight(a))
CheckFuelAfter_Twice(q, f, a, delay) ==
    schedule(schedule(q, f, "EVENT_EMERGENCY_FUEL", now' + delay, LandingWeight(a)),
             f, "EVENT_EMERGENCY_FUEL", now' + delay, LandingWeight(a))
CheckFuelAfter(q, f, a, delay) ==
    schedule(q, f, "EVENT_EMERGENCY_FUEL", now' + delay, LandingWeight(a))

RequestRunway_Late(q, f) ==
    schedule(q, f, "EVENT_RUNWAY_REQUEST", now' + HOLD_RECHECK, PRIO_LANDING)
RequestRunway(q, f) ==
    schedule(q, f, "EVENT_RUNWAY_REQUEST", now', PRIO_LANDING)

decay_fuel_Unclamped(a) ==
    [a EXCEPT !.fuel = @ - FUEL_BURN_RATE * (now' - a.last_update),
              !.last_update = now']
decay_fuel(a) ==
    LET burnt == FUEL_BURN_RATE * (now' - a.last_update) IN
    IF now' > a.last_update
    THEN [a EXCEPT !.fuel = IF burnt < @ THEN @ - burnt ELSE 0,
                   !.last_update = now']
    ELSE a

\* Both rings drop or refuse a flight that finds them full.
holding_push_Front(ring, f) ==
    IF Len(ring) < MAX_HOLDING_SLOTS THEN <<f>> \o ring ELSE ring
holding_push(ring, f) ==
    IF Len(ring) < MAX_HOLDING_SLOTS THEN Append(ring, f) ELSE ring

\* The ring without flight f, in the same order.
holding_remove_Kept(ring, f) == ring
holding_remove(ring, f) ==
    LET keep == {i \in DOMAIN ring : ring[i] # f} IN
    [k \in 1 .. Cardinality(keep) |->
        ring[CHOOSE i \in keep : Cardinality(keep \cap 1..i) = k]]

\* The slots of the ring from which holding_pop_priority takes a flight: one,
\* unless the ring is empty.  The fuel compared is the fuel last recorded.
holding_pop_priority_Fifo(ring, fl) == {1} \cap DOMAIN ring
holding_pop_priority(ring, fl) ==
    LET emergency == \E k \in DOMAIN ring : fl[ring[k]].emergency
        expedited == {k \in DOMAIN ring : fl[ring[k]].user_priority}
        Lowest(k) ==
            /\ \A j \in DOMAIN ring : fl[ring[k]].fuel <= fl[ring[j]].fuel
            /\ \A j \in 1 .. k - 1 : fl[ring[k]].fuel < fl[ring[j]].fuel
        FirstExpedited(k) == k \in expedited /\ \A j \in expedited : k <= j
    IN {k \in DOMAIN ring :
            \/ emergency /\ Lowest(k)
            \/ ~ emergency /\ FirstExpedited(k)
            \/ ~ emergency /\ expedited = {} /\ k = 1}

\* The idle runway, or vacant gate, with the lowest index; {} for the -1 of
\* the code.
find_idle_runway_Busy(rws) == {0}
find_idle_runway(rws) ==
    {rw \in Runways : /\ rws[rw].state = "RW_IDLE"
                      /\ \A r \in Runways : r < rw => rws[r].state # "RW_IDLE"}
NoIdleRunway(rws) == \A rw \in Runways : rws[rw].state # "RW_IDLE"

find_vacant_gate_Taken(gts) == {0}
find_vacant_gate(gts) ==
    {g \in Gates : /\ gts[g].state = "GATE_VACANT"
                   /\ \A h \in Gates : h < g => gts[h].state # "GATE_VACANT"}
NoVacantGate(gts) == \A g \in Gates : gts[g].state # "GATE_VACANT"

\* How long a flight has waited since it last joined a queue, and the
\* accounting of such a wait in the statistics.
Waited(a) == IF now' > a.queue_enter_time THEN now' - a.queue_enter_time ELSE 0
record_wait_Replaced(st, w) ==
    [st EXCEPT !.cumulative_wait = w, !.wait_samples = @ + 1]
record_wait(st, w) ==
    [st EXCEPT !.cumulative_wait = @ + w,
               !.max_wait = IF w > @ THEN w ELSE @,
               !.wait_samples = @ + 1]

-----------------------------------------------------------------------------
(* Runways and the holding ring.                                           *)

\* The part try_assign_landing and on_emergency share: flight f gets runway
\* rw and will touch down when it has flown the approach.
ClearToLand(f, rw, fl, rws, ring, q, st, weight) ==
    LET w == Waited(fl[f]) IN
    /\ runways' = [rws EXCEPT ![rw] = [state |-> "RW_LANDING", occupant |-> f]]
    /\ flights' = [fl EXCEPT ![f].assigned_runway = rw,
                             ![f].state = "AC_LANDING",
                             ![f].total_wait = @ + w]
    /\ holding' = ring
    /\ stats' = record_wait(st, w)
    /\ pq' = schedule(q, f, "EVENT_TOUCHDOWN",
                      now' + Occupancy(RUNWAY_LANDING_T, fl[f].wake), weight)

\* Flight f goes to the holding ring and will check its fuel after delay.
EnterHolding(f, fl, rws, ring, q, st, delay) ==
    /\ flights' = [fl EXCEPT ![f].state = "AC_HOLDING"]
    /\ holding' = holding_push(ring, f)
    /\ pq' = CheckFuelAfter(q, f, fl[f], delay)
    /\ runways' = rws /\ stats' = st

try_assign_landing(f, fl, rws, ring, q, st) ==
    \/ \E rw \in find_idle_runway(rws) :
           ClearToLand(f, rw, fl, rws, ring, q, st, LandingWeight(fl[f]))
    \/ /\ NoIdleRunway(rws)
       /\ EnterHolding(f, fl, rws, ring, q, st, HOLD_RECHECK)

\* A runway is released and offered to the holding ring at once.
free_runway_NotOffered(rw, fl, ring, q, st) ==
    /\ runways' = [runways EXCEPT ![rw] = [state |-> "RW_IDLE", occupant |-> None]]
    /\ flights' = fl /\ holding' = ring /\ pq' = q /\ stats' = st
free_runway(rw, fl, ring, q, st) ==
    LET rws == [runways EXCEPT ![rw] = [state |-> "RW_IDLE", occupant |-> None]]
    IN \/ /\ ring = <<>>
          /\ flights' = fl /\ runways' = rws /\ holding' = ring /\ pq' = q
          /\ stats' = st
       \/ \E k \in holding_pop_priority(ring, fl) :
              try_assign_landing(ring[k], fl, rws, RemoveAt(ring, k), q, st)

-----------------------------------------------------------------------------
(* Initial state: sim_init.                                                *)

Blank == [state |-> "AC_INBOUND", fuel |-> 0, last_update |-> 0, wake |-> "M",
          emergency |-> FALSE, user_priority |-> FALSE,
          force_go_around |-> FALSE, go_arounds |-> 0, assigned_gate |-> None,
          assigned_runway |-> None, queue_enter_time |-> 0, total_wait |-> 0]

\* schedule_weather: no change of weather is planned past the horizon.
schedule_weather(q, time, gap) ==
    IF time + gap <= horizon
    THEN schedule(q, 0, "EVENT_WEATHER_CHANGE", time + gap, PRIO_ROUTINE)
    ELSE q

Init ==
    /\ now = 0
    /\ \E gap \in ArrivalGaps, wgap \in WeatherGaps :
           pq = schedule_weather(schedule(<<>>, 0, "EVENT_AIRCRAFT_ARRIVE",
                                          gap, PRIO_ROUTINE), 0, wgap)
    /\ flights = [f \in Flights |-> Blank]
    /\ flight_count = 0
    /\ runways = [rw \in Runways |-> [state |-> "RW_IDLE", occupant |-> None]]
    /\ gates = [g \in Gates |-> [state |-> "GATE_VACANT", occupant |-> None]]
    /\ holding = <<>> /\ taxi_wait = <<>>
    /\ weather = "WX_CLEAR" /\ spawning_done = FALSE
    /\ stats = [flights_spawned |-> 0, flights_landed |-> 0,
                flights_departed |-> 0, flights_lost |-> 0,
                flights_diverted |-> 0, emergencies |-> 0, go_arounds |-> 0,
                cumulative_wait |-> 0, max_wait |-> 0, wait_samples |-> 0,
                score |-> 0]

-----------------------------------------------------------------------------
(* sim_step: one event.                                                    *)

\* The next event is popped and the clock jumps to its time.
Pop(type) == /\ pq # <<>> /\ Head(pq).type = type
             /\ now' = Head(pq).time

\* ... and is dispatched to the handler of its flight f, which has not left.
Dispatch_Unchecked(type, f) == Pop(type) /\ f = Head(pq).flight
Dispatch(type, f) == /\ Pop(type)
                     /\ f = Head(pq).flight
                     /\ flights[f].state \notin Gone

\* Events of flights that have left are dropped.
drop_stale ==
    /\ pq # <<>>
    /\ Head(pq).type \notin {"EVENT_AIRCRAFT_ARRIVE", "EVENT_WEATHER_CHANGE"}
    /\ flights[Head(pq).flight].state \in Gone
    /\ now' = Head(pq).time /\ pq' = Tail(pq)
    /\ UNCHANGED <<flights, flight_count, runways, gates, holding, taxi_wait,
                   weather, spawning_done, stats>>

\* A full table swallows the arrival, and no further one is planned.
spawn_aircraft_table_full_Early ==
    /\ Pop("EVENT_AIRCRAFT_ARRIVE") /\ flight_count >= MAX_FLIGHTS - 1
    /\ pq' = Tail(pq)
    /\ UNCHANGED <<flights, flight_count, runways, gates, holding, taxi_wait,
                   weather, spawning_done, stats>>
spawn_aircraft_table_full ==
    /\ Pop("EVENT_AIRCRAFT_ARRIVE") /\ flight_count = MAX_FLIGHTS
    /\ pq' = Tail(pq)
    /\ UNCHANGED <<flights, flight_count, runways, gates, holding, taxi_wait,
                   weather, spawning_done, stats>>

spawn_aircraft ==
    /\ Pop("EVENT_AIRCRAFT_ARRIVE") /\ flight_count < MAX_FLIGHTS
    /\ \E fuel \in SpawnFuel, wake \in Wakes :
           flights' = [flights EXCEPT ![flight_count] =
                          [Blank EXCEPT !.fuel = fuel, !.wake = wake,
                                        !.last_update = now']]
    /\ flight_count' = flight_count + 1
    /\ stats' = [stats EXCEPT !.flights_spawned = @ + 1]
    /\ \E gap \in ArrivalGaps :
           LET q == RequestRunway(Tail(pq), flight_count) IN
           /\ spawning_done' = (spawning_done \/ now' + gap > horizon)
           /\ pq' = IF spawning_done' THEN q
                    ELSE schedule(q, 0, "EVENT_AIRCRAFT_ARRIVE", now' + gap,
                                  PRIO_ROUTINE)
    /\ UNCHANGED <<runways, gates, holding, taxi_wait, weather>>

on_weather_change ==
    /\ Pop("EVENT_WEATHER_CHANGE")
    /\ weather' \in WeatherDraws
    /\ \E gap \in WeatherGaps : pq' = schedule_weather(Tail(pq), now', gap)
    /\ UNCHANGED <<flights, flight_count, runways, gates, holding, taxi_wait,
                   spawning_done, stats>>

Declares(a) == a.fuel <= FUEL_EMERGENCY /\ ~ a.emergency
DeclaredIn(st) == [st EXCEPT !.emergencies = @ + 1, !.score = @ - 6]

on_runway_request(f) ==
    /\ Dispatch("EVENT_RUNWAY_REQUEST", f)
    /\ LET a  == [decay_fuel(flights[f]) EXCEPT !.queue_enter_time = now']
           fl == [flights EXCEPT ![f] = a]
       IN \/ /\ Declares(a)
             /\ flights' = [fl EXCEPT ![f].emergency = TRUE]
             /\ stats' = DeclaredIn(stats)
             /\ pq' = schedule(Tail(pq), f, "EVENT_EMERGENCY_FUEL", now',
                               PRIO_EMERGENCY)
             /\ UNCHANGED <<runways, holding>>
          \/ /\ ~ Declares(a)
             /\ try_assign_landing(f, fl, runways, holding, Tail(pq), stats)
    /\ UNCHANGED <<flight_count, gates, taxi_wait, weather, spawning_done>>

\* The ring without f, if f is in the state that makes it a member.
Unqueued_Kept(f) == holding
Unqueued(f) == IF flights[f].state = "AC_HOLDING" THEN holding_remove(holding, f)
               ELSE holding

\* The periodic fuel check.  A flight that is no longer waiting ignores it,
\* but its fuel has been brought up to date.
on_emergency_moved_on_Rearmed(f) ==
    /\ Dispatch("EVENT_EMERGENCY_FUEL", f)
    /\ flights[f].state \notin {"AC_HOLDING", "AC_INBOUND"}
    /\ flights' = [flights EXCEPT ![f] = decay_fuel(@)]
    /\ pq' = CheckFuelAfter(Tail(pq), f, flights[f], HOLD_RECHECK)
    /\ UNCHANGED <<flight_count, runways, gates, holding, taxi_wait, weather,
                   spawning_done, stats>>
on_emergency_moved_on(f) ==
    /\ Dispatch("EVENT_EMERGENCY_FUEL", f)
    /\ flights[f].state \notin {"AC_HOLDING", "AC_INBOUND"}
    /\ flights' = [flights EXCEPT ![f] = decay_fuel(@)]
    /\ pq' = Tail(pq)
    /\ UNCHANGED <<flight_count, runways, gates, holding, taxi_wait, weather,
                   spawning_done, stats>>

on_emergency_lost(f) ==
    /\ Dispatch("EVENT_EMERGENCY_FUEL", f)
    /\ flights[f].state \in {"AC_HOLDING", "AC_INBOUND"}
    /\ LET a == decay_fuel(flights[f]) IN
       /\ a.fuel <= FUEL_CRITICAL
       /\ flights' = [flights EXCEPT ![f] = [a EXCEPT !.state = "AC_LOST"]]
    /\ holding' = Unqueued(f)
    /\ stats' = [stats EXCEPT !.flights_lost = @ + 1, !.score = @ - 50]
    /\ pq' = Tail(pq)
    /\ UNCHANGED <<flight_count, runways, gates, taxi_wait, weather,
                   spawning_done>>

on_emergency(f) ==
    /\ Dispatch("EVENT_EMERGENCY_FUEL", f)
    /\ flights[f].state \in {"AC_HOLDING", "AC_INBOUND"}
    /\ LET a  == decay_fuel(flights[f])
           st == IF Declares(a) THEN DeclaredIn(stats) ELSE stats
           fl == [flights EXCEPT ![f] =
                     [a EXCEPT !.emergency = @ \/ Declares(a)]]
       IN /\ a.fuel > FUEL_CRITICAL
          /\ \/ \E rw \in find_idle_runway(runways) :
                    ClearToLand(f, rw, fl, runways, Unqueued(f), Tail(pq), st,
                                PRIO_EMERGENCY)
             \/ /\ NoIdleRunway(runways)
                /\ flights' = [fl EXCEPT ![f].state = "AC_HOLDING"]
                /\ holding' = IF a.state = "AC_INBOUND"
                              THEN holding_push(holding, f) ELSE holding
                /\ pq' = CheckFuelAfter(Tail(pq), f, fl[f], EMERGENCY_RECHECK)
                /\ stats' = st /\ UNCHANGED runways
    /\ UNCHANGED <<flight_count, gates, taxi_wait, weather, spawning_done>>

\* A missed approach: ordered by the controller, or by the weather's draw.
\* The flight rejoins the holding ring before its runway is released, so it
\* may be given the same runway again at once.
on_touchdown_go_around(f) ==
    /\ Dispatch("EVENT_TOUCHDOWN", f)
    /\ flights[f].assigned_runway # None
    /\ LET a == decay_fuel(flights[f]) IN
       /\ a.fuel > FUEL_CRITICAL
       /\ free_runway(
              a.assigned_runway,
              [flights EXCEPT ![f] =
                  [a EXCEPT !.force_go_around = FALSE,
                            !.assigned_runway = None,
                            !.go_arounds = @ + 1,
                            !.state = "AC_HOLDING",
                            !.queue_enter_time = now']],
              holding_push(holding, f),
              CheckFuelAfter(Tail(pq), f, a, GO_AROUND_RECHECK),
              [stats EXCEPT !.go_arounds = @ + 1, !.score = @ - 3])
    /\ UNCHANGED <<flight_count, gates, taxi_wait, weather, spawning_done>>

\* The landing proper, unless a go-around was ordered and there is fuel for it.
\* TAXI_TO_GATE is pushed before the events of free_runway and after them in
\* the code: it has another weight than they have, so the order of the queue
\* is the same.
on_touchdown(f) ==
    /\ Dispatch("EVENT_TOUCHDOWN", f)
    /\ flights[f].assigned_runway # None
    /\ LET a == decay_fuel(flights[f]) IN
       /\ a.force_go_around => a.fuel <= FUEL_CRITICAL
       /\ free_runway(
              a.assigned_runway,
              [flights EXCEPT ![f] = [a EXCEPT !.assigned_runway = None,
                                               !.state = "AC_TAXI_IN",
                                               !.queue_enter_time = now']],
              holding,
              schedule(Tail(pq), f, "EVENT_TAXI_TO_GATE", now' + TAXI_DURATION,
                       PRIO_ROUTINE),
              [stats EXCEPT !.flights_landed = @ + 1])
    /\ UNCHANGED <<flight_count, gates, taxi_wait, weather, spawning_done>>

\* No gate is vacant: the flight waits on the taxiway or, when that is full,
\* asks again later.
AwaitGate(f, ring, q) ==
    \/ /\ Len(ring) < MAX_TAXI_SLOTS
       /\ taxi_wait' = Append(ring, f) /\ pq' = q
    \/ /\ Len(ring) >= MAX_TAXI_SLOTS
       /\ taxi_wait' = ring
       /\ pq' = schedule(q, f, "EVENT_TAXI_TO_GATE", now' + TAXI_RETRY,
                         PRIO_ROUTINE)

try_assign_gate(f, fl, gts, ring, q) ==
    \/ \E g \in find_vacant_gate(gts) :
           LET w == Waited(fl[f]) IN
           /\ gates' = [gts EXCEPT ![g] = [state |-> "GATE_OCCUPIED",
                                           occupant |-> f]]
           /\ flights' = [fl EXCEPT ![f].assigned_gate = g,
                                    ![f].state = "AC_AT_GATE",
                                    ![f].total_wait = @ + w]
           /\ stats' = record_wait(stats, w)
           /\ pq' = schedule(q, f, "EVENT_GATE_RELEASE", now' + GATE_TURNAROUND,
                             PRIO_ROUTINE)
           /\ taxi_wait' = ring
    \/ /\ NoVacantGate(gts)
       /\ AwaitGate(f, ring, q)
       /\ gates' = gts /\ flights' = fl /\ UNCHANGED stats

on_taxi_to_gate(f) ==
    /\ Dispatch("EVENT_TAXI_TO_GATE", f)
    /\ try_assign_gate(f, flights, gates, taxi_wait, Tail(pq))
    /\ UNCHANGED <<flight_count, runways, holding, weather, spawning_done>>

\* The gate is handed to the flight that has waited longest on the taxiway.
on_gate_release_NotOffered(f) ==
    /\ Dispatch("EVENT_GATE_RELEASE", f)
    /\ flights[f].assigned_gate # None
    /\ gates' = [gates EXCEPT ![flights[f].assigned_gate] =
                    [state |-> "GATE_VACANT", occupant |-> None]]
    /\ flights' = [flights EXCEPT ![f].assigned_gate = None,
                                  ![f].state = "AC_TAXI_OUT"]
    /\ pq' = schedule(Tail(pq), f, "EVENT_TAKEOFF_READY",
                      now' + TAXI_DURATION, PRIO_TAKEOFF)
    /\ UNCHANGED <<flight_count, runways, holding, taxi_wait, weather,
                   spawning_done, stats>>
on_gate_release(f) ==
    /\ Dispatch("EVENT_GATE_RELEASE", f)
    /\ flights[f].assigned_gate # None
    /\ LET gts == [gates EXCEPT ![flights[f].assigned_gate] =
                      [state |-> "GATE_VACANT", occupant |-> None]]
           fl  == [flights EXCEPT ![f].assigned_gate = None,
                                  ![f].state = "AC_TAXI_OUT"]
           q   == schedule(Tail(pq), f, "EVENT_TAKEOFF_READY",
                           now' + TAXI_DURATION, PRIO_TAKEOFF)
       IN \/ /\ taxi_wait = <<>>
             /\ gates' = gts /\ flights' = fl /\ pq' = q
             /\ UNCHANGED <<taxi_wait, stats>>
          \/ /\ taxi_wait # <<>>
             /\ try_assign_gate(Head(taxi_wait), fl, gts, Tail(taxi_wait), q)
    /\ UNCHANGED <<flight_count, runways, holding, weather, spawning_done>>

\* A departure takes an idle runway or asks again later; every poll starts
\* the wait of the flight anew.
on_takeoff_ready(f) ==
    /\ Dispatch("EVENT_TAKEOFF_READY", f)
    /\ LET fl == [flights EXCEPT ![f].queue_enter_time = now']
       IN \/ \E rw \in find_idle_runway(runways) :
                 LET w == Waited(fl[f]) IN
                 /\ runways' = [runways EXCEPT ![rw] =
                                   [state |-> "RW_TAKEOFF", occupant |-> f]]
                 /\ flights' = [fl EXCEPT ![f].assigned_runway = rw,
                                          ![f].state = "AC_DEPARTING",
                                          ![f].total_wait = @ + w]
                 /\ stats' = record_wait(stats, w)
                 /\ pq' = schedule(Tail(pq), f, "EVENT_TAKEOFF_CLEAR",
                              now' + Occupancy(TAKEOFF_PREP, fl[f].wake),
                              PRIO_TAKEOFF)
          \/ /\ NoIdleRunway(runways)
             /\ flights' = fl
             /\ pq' = schedule(Tail(pq), f, "EVENT_TAKEOFF_READY",
                               now' + TAKEOFF_RETRY, PRIO_TAKEOFF)
             /\ UNCHANGED <<runways, stats>>
    /\ UNCHANGED <<flight_count, gates, holding, taxi_wait, weather,
                   spawning_done>>

\* DEPART_SECTOR is pushed before the events of free_runway: see on_touchdown.
on_takeoff_clear(f) ==
    /\ Dispatch("EVENT_TAKEOFF_CLEAR", f)
    /\ flights[f].assigned_runway # None
    /\ free_runway(flights[f].assigned_runway,
                   [flights EXCEPT ![f].assigned_runway = None,
                                   ![f].state = "AC_AIRBORNE_OUT"],
                   holding,
                   schedule(Tail(pq), f, "EVENT_DEPART_SECTOR",
                            now' + RUNWAY_TAKEOFF_T, PRIO_ROUTINE),
                   stats)
    /\ UNCHANGED <<flight_count, gates, taxi_wait, weather, spawning_done>>

on_depart_sector(f) ==
    /\ Dispatch("EVENT_DEPART_SECTOR", f)
    /\ flights' = [flights EXCEPT ![f].state = "AC_DONE"]
    /\ LET a     == flights[f]
           quick == IF a.total_wait < LOW_DELAY THEN 5 ELSE 0
           clean == IF a.go_arounds = 0 /\ ~ a.emergency THEN 2 ELSE 0
       IN stats' = [stats EXCEPT !.flights_departed = @ + 1,
                                 !.score = @ + 10 + quick + clean]
    /\ pq' = Tail(pq)
    /\ UNCHANGED <<flight_count, runways, gates, holding, taxi_wait, weather,
                   spawning_done>>

\* sim_step returns false when the queue is exhausted.
queue_exhausted == pq = <<>> /\ UNCHANGED vars

sim_step ==
    \/ queue_exhausted
    \/ drop_stale
    \/ spawn_aircraft_table_full
    \/ spawn_aircraft
    \/ on_weather_change
    \/ \E f \in Flights :
           \/ on_runway_request(f)
           \/ on_emergency_moved_on(f)
           \/ on_emergency_lost(f)
           \/ on_emergency(f)
           \/ on_touchdown_go_around(f)
           \/ on_touchdown(f)
           \/ on_taxi_to_gate(f)
           \/ on_gate_release(f)
           \/ on_takeoff_ready(f)
           \/ on_takeoff_clear(f)
           \/ on_depart_sector(f)

-----------------------------------------------------------------------------
(* Commands of the controller.  They leave the clock alone.                *)

\* cmd_target and the four sim_can_ predicates: f is in the table, has not
\* left the sector, and is in a state in which the command makes sense.
Commanded(f, states) ==
    /\ f < flight_count /\ flights[f].state \in states
    /\ UNCHANGED now

sim_cmd_prioritize_inbound(f) ==
    /\ Commanded(f, {"AC_INBOUND"})
    /\ flights' = [flights EXCEPT ![f].user_priority = TRUE]
    /\ UNCHANGED <<pq, flight_count, runways, gates, holding, taxi_wait,
                   weather, spawning_done, stats>>

\* An orbiting flight is pulled out and tries for a runway at once.  Each such
\* command may start one more chain of fuel checks, hence the bound.
sim_cmd_prioritize_holding(f) ==
    /\ Commanded(f, {"AC_HOLDING"})
    /\ Len(pq) < MaxPending
    /\ try_assign_landing(f, [flights EXCEPT ![f].user_priority = TRUE],
                          runways, holding_remove(holding, f), pq, stats)
    /\ UNCHANGED <<flight_count, gates, taxi_wait, weather, spawning_done>>

\* Only an inbound flight can be sent to the holding pattern.  Its
\* RUNWAY_REQUEST stays pending.
sim_cmd_hold(f) ==
    /\ Commanded(f, {"AC_INBOUND"})
    /\ EnterHolding(f, [flights EXCEPT ![f].user_priority = FALSE,
                                       ![f].queue_enter_time = now'],
                    runways, holding, pq, stats, HOLD_RECHECK)
    /\ UNCHANGED <<flight_count, gates, taxi_wait, weather, spawning_done>>

\* A diverted flight has left; its runway, if it had one, is released.
Diverted(a) == [a EXCEPT !.assigned_runway = None, !.emergency = FALSE,
                         !.state = "AC_DIVERTED"]
DivertedIn(st) == [st EXCEPT !.flights_diverted = @ + 1, !.score = @ - 12]

\* A flight that lands and is in the ring as well: one that has been held.
Ringed(f) == /\ flights[f].state = "AC_LANDING"
             /\ \E k \in DOMAIN holding : holding[k] = f

\* The code gives the flight its last state only after it has released its
\* runway.  Here free_runway is passed the diverted flight, which is the same
\* for a flight that the release cannot find in the ring.
sim_cmd_divert(f) ==
    /\ Commanded(f, {"AC_INBOUND", "AC_HOLDING", "AC_LANDING"})
    /\ ~ Ringed(f)
    /\ LET fl == [flights EXCEPT ![f] = Diverted(@)]
           rw == flights[f].assigned_runway
       IN \/ /\ rw # None
             /\ free_runway(rw, fl, Unqueued(f), pq, DivertedIn(stats))
          \/ /\ rw = None
             /\ flights' = fl /\ holding' = Unqueued(f)
             /\ stats' = DivertedIn(stats)
             /\ UNCHANGED <<pq, runways>>
    /\ UNCHANGED <<flight_count, gates, taxi_wait, weather, spawning_done>>

\* A flight in the ring counts there until the release is over, and may be
\* cleared by it: it leaves, and the runway stays occupied.  (It lands, so it has
\* a runway to release.)
sim_cmd_divert_ringed(f) ==
    /\ Commanded(f, {"AC_LANDING"})
    /\ Ringed(f)
    /\ LET fl  == [flights EXCEPT ![f] = Diverted(@)]
           st  == DivertedIn(stats)
           w   == Waited(flights[f])
           rws == [runways EXCEPT ![flights[f].assigned_runway] =
                      [state |-> "RW_IDLE", occupant |-> None]]
       IN \E k \in holding_pop_priority(holding, flights) :
              \/ /\ holding[k] # f
                 /\ try_assign_landing(holding[k], fl, rws,
                                       RemoveAt(holding, k), pq, st)
              \/ /\ holding[k] = f
                 /\ holding' = RemoveAt(holding, k)
                 /\ flights' = [fl EXCEPT ![f].total_wait = @ + w]
                 /\ stats' = record_wait(st, w)
                 /\ pq' = schedule(pq, f, "EVENT_TOUCHDOWN",
                                   now' + Occupancy(RUNWAY_LANDING_T,
                                                    flights[f].wake),
                                   LandingWeight(flights[f]))
                 /\ \E rw \in find_idle_runway(rws) :
                        runways' = [rws EXCEPT ![rw] = [state |-> "RW_LANDING",
                                                        occupant |-> f]]
    /\ UNCHANGED <<flight_count, gates, taxi_wait, weather, spawning_done>>

\* Takes effect at the touchdown already planned.
sim_cmd_go_around(f) ==
    /\ Commanded(f, {"AC_LANDING"})
    /\ flights' = [flights EXCEPT ![f].force_go_around = TRUE]
    /\ UNCHANGED <<pq, flight_count, runways, gates, holding, taxi_wait,
                   weather, spawning_done, stats>>

Command == \E f \in Flights : \/ sim_cmd_prioritize_inbound(f)
                              \/ sim_cmd_prioritize_holding(f)
                              \/ sim_cmd_divert(f)
                              \/ sim_cmd_go_around(f)

\* The frame loop moves the clock to the end of a frame once the events that
\* are due have fired.  An exhausted queue stops the clock here: nothing reads
\* it any more.
AdvanceClock ==
    /\ pq # <<>>
    /\ \E d \in FrameTicks : now + d < Head(pq).time /\ now' = now + d
    /\ UNCHANGED <<pq, flights, flight_count, runways, gates, holding,
                   taxi_wait, weather, spawning_done, stats>>

-----------------------------------------------------------------------------
\* The headless program: sim_run_to_end.
BatchSpec == Init /\ [][sim_step]_vars
FairBatchSpec == BatchSpec /\ WF_vars(sim_step)

\* The interactive program.  Commands are accepted between any two steps of
\* the simulation.  Hold is left out: App has it, where a frame that is not
\* cut by its limit leaves no flight that it accepts, and HoldSpec.
Next == sim_step \/ Command \/ AdvanceClock
Spec == Init /\ [][Next]_vars

\* A caller of the library that also uses Hold, as far as its effects are
\* defined.
HoldSpec == Init /\ [][sim_step \/ \E f \in Flights : sim_cmd_hold(f)]_vars
=============================================================================

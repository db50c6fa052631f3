-------------------------- MODULE SectorProperties --------------------------
(* What the simulation core promises: the properties of module Sector.     *)
EXTENDS Sector

InUse == 0 .. flight_count - 1
Live  == {f \in InUse : flights[f].state \notin Gone}

\* The pending events of flight f whose type is in T, as positions of the queue.
Pending(f, T) == {i \in DOMAIN pq : pq[i].flight = f /\ pq[i].type \in T}

\* A type invariant: every variable ranges over what the structs of types.h
\* and sim.h can hold, and the rings keep within their arrays.
TypeOK ==
    /\ now \in Nat
    /\ pq \in Seq(AtcEvent(Flights))
    /\ flights \in [Flights -> Aircraft]
    /\ flight_count \in 0 .. MAX_FLIGHTS
    /\ runways \in [Runways -> Runway]
    /\ gates \in [Gates -> Gate]
    /\ holding \in Seq(Flights) /\ Len(holding) <= MAX_HOLDING_SLOTS
    /\ taxi_wait \in Seq(Flights) /\ Len(taxi_wait) <= MAX_TAXI_SLOTS
    /\ weather \in Weather
    /\ spawning_done \in BOOLEAN
    /\ stats \in SimStats

-----------------------------------------------------------------------------
(* Resources.                                                              *)

\* Runways are exclusive: a runway and the flight that occupies it name each
\* other, a flight occupies one exactly while it lands or departs, and the
\* state of the runway says which.  No step leaks a runway or clears two
\* flights onto one.
RunwaysExclusive ==
    /\ \A rw \in Runways, f \in Flights :
           runways[rw].occupant = f <=> flights[f].assigned_runway = rw
    /\ \A rw \in Runways :
           runways[rw].state = "RW_IDLE" <=> runways[rw].occupant = None
    /\ \A f \in Flights :
           LET rw == flights[f].assigned_runway IN
           /\ flights[f].state = "AC_LANDING"
                <=> rw # None /\ runways[rw].state = "RW_LANDING"
           /\ flights[f].state = "AC_DEPARTING"
                <=> rw # None /\ runways[rw].state = "RW_TAKEOFF"

\* The same of gates and the flights parked at them.
GatesExclusive ==
    /\ \A g \in Gates, f \in Flights :
           gates[g].occupant = f <=> flights[f].assigned_gate = g
    /\ \A g \in Gates :
           gates[g].state = "GATE_VACANT" <=> gates[g].occupant = None
    /\ \A f \in Flights :
           flights[f].state = "AC_AT_GATE" <=> flights[f].assigned_gate # None

\* No handler is about to free a runway or a gate of index -1: whatever became
\* of a flight since its TOUCHDOWN, TAKEOFF_CLEAR or GATE_RELEASE was planned, it
\* still has the resource that the event is to release, or has left.
IndicesDefined ==
    pq # <<>> /\ flights[Head(pq).flight].state \notin Gone =>
        LET e == Head(pq)
            a == flights[e.flight]
        IN /\ e.type \in {"EVENT_TOUCHDOWN", "EVENT_TAKEOFF_CLEAR"}
                  => a.assigned_runway # None
           /\ e.type = "EVENT_GATE_RELEASE" => a.assigned_gate # None

\* The rings hold flights that wait, each of them once.
RingsHoldWaiting ==
    /\ IsInjective(holding) /\ IsInjective(taxi_wait)
    /\ \A k \in DOMAIN holding : holding[k] \in InUse
                                 /\ flights[holding[k]].state = "AC_HOLDING"
    /\ \A k \in DOMAIN taxi_wait : taxi_wait[k] \in InUse
                                   /\ flights[taxi_wait[k]].state = "AC_TAXI_IN"

\* A released runway, or gate, goes to a waiting flight in the same step: no
\* flight waits in a ring beside an idle resource.
NothingIdleWhileWanted ==
    /\ holding # <<>> => NoIdleRunway(runways)
    /\ taxi_wait # <<>> => NoVacantGate(gates)

-----------------------------------------------------------------------------
(* Events.                                                                 *)

\* The clock never passes a pending event, so no handler runs late and the
\* clock never goes back.
NothingOverdue == /\ Ordered(pq)
                  /\ \A i \in DOMAIN pq : now <= pq[i].time

\* What moves a flight on, by its state.
Awaited == [AC_INBOUND      |-> "EVENT_RUNWAY_REQUEST",
            AC_HOLDING      |-> "EVENT_EMERGENCY_FUEL",
            AC_LANDING      |-> "EVENT_TOUCHDOWN",
            AC_TAXI_IN      |-> "EVENT_TAXI_TO_GATE",
            AC_AT_GATE      |-> "EVENT_GATE_RELEASE",
            AC_TAXI_OUT     |-> "EVENT_TAKEOFF_READY",
            AC_DEPARTING    |-> "EVENT_TAKEOFF_CLEAR",
            AC_AIRBORNE_OUT |-> "EVENT_DEPART_SECTOR"]

\* Every flight in the sector has something pending that will move it on: the
\* event its state awaits, exactly once (a holding flight: at least one fuel
\* check), or a place on the taxiway that the next released gate serves.  No
\* event of another state is pending for it, fuel checks aside.
FlightsDriven ==
    \A f \in Live :
        LET st    == flights[f].state
            parked == \E k \in DOMAIN taxi_wait : taxi_wait[k] = f
            drive == Pending(f, {Awaited[st]})
            others == Pending(f, EventType \ {"EVENT_AIRCRAFT_ARRIVE",
                                  "EVENT_WEATHER_CHANGE",
                                  "EVENT_EMERGENCY_FUEL", Awaited[st]})
        IN /\ others = {}
           /\ CASE st = "AC_HOLDING" -> drive # {}
                [] st = "AC_INBOUND" ->
                       Cardinality(Pending(f, {Awaited[st],
                                               "EVENT_EMERGENCY_FUEL"})) = 1
                [] parked -> drive = {}
                [] OTHER -> Cardinality(drive) = 1

\* The stream of arrivals ends at the horizon, or with the arrival that a full
\* table swallows, and in no other way; there is one stream.
ArrivalPlanned ==
    LET planned == {i \in DOMAIN pq : pq[i].type = "EVENT_AIRCRAFT_ARRIVE"} IN
    /\ Cardinality(planned) <= 1
    /\ planned = {} => spawning_done \/ flight_count = MAX_FLIGHTS

\* A flight without commands has at most one fuel check pending, whatever
\* holds and go-arounds it flies: chains of checks do not multiply.
OneFuelCheck ==
    \A f \in Live : Cardinality(Pending(f, {"EVENT_EMERGENCY_FUEL"})) <= 1

\* A waiting flight is watched, in the ring or dropped from it: its recorded
\* fuel is never older than the longest delay between two fuel checks.
FuelWatched ==
    \A f \in Live : flights[f].state = "AC_HOLDING" =>
        \E d \in {HOLD_RECHECK, EMERGENCY_RECHECK, GO_AROUND_RECHECK} :
            now <= flights[f].last_update + d

\* Without commands the holding ring is in the order in which its flights
\* began to wait, so plain FIFO service is fair.
HoldingInOrder ==
    \A i, j \in DOMAIN holding : i < j =>
        flights[holding[i]].queue_enter_time
            <= flights[holding[j]].queue_enter_time

\* When the queue is exhausted every flight has left, and has left nothing
\* behind.
DrainedClean ==
    pq = <<>> => /\ Live = {}
                 /\ \A rw \in Runways : runways[rw].state = "RW_IDLE"
                 /\ \A g \in Gates : gates[g].state = "GATE_VACANT"
                 /\ holding = <<>> /\ taxi_wait = <<>>

-----------------------------------------------------------------------------
(* Accounts.                                                               *)

Flown(states) == {f \in InUse : flights[f].state \in states}
Bonus(a) == (IF a.total_wait < LOW_DELAY THEN 5 ELSE 0)
            + (IF a.go_arounds = 0 /\ ~ a.emergency THEN 2 ELSE 0)

\* The dashboard's counters agree with the flights they count, whatever way
\* the flights took: waits, landings, go-arounds, departures, losses,
\* diversions, and the score made up from them.
AccountsBalance ==
    /\ stats.flights_spawned = flight_count
    /\ stats.flights_landed =
           Cardinality(Flown({"AC_TAXI_IN", "AC_AT_GATE", "AC_TAXI_OUT",
                              "AC_DEPARTING", "AC_AIRBORNE_OUT", "AC_DONE"}))
    /\ stats.flights_departed = Cardinality(Flown({"AC_DONE"}))
    /\ stats.flights_lost = Cardinality(Flown({"AC_LOST"}))
    /\ stats.flights_diverted = Cardinality(Flown({"AC_DIVERTED"}))
    /\ stats.go_arounds = SumFunction([f \in InUse |-> flights[f].go_arounds])
    /\ stats.cumulative_wait =
           SumFunction([f \in InUse |-> flights[f].total_wait])
    /\ stats.score =
           SumFunction([f \in Flown({"AC_DONE"}) |-> 10 + Bonus(flights[f])])
           - 6 * stats.emergencies - 50 * stats.flights_lost
           - 3 * stats.go_arounds - 12 * stats.flights_diverted

-----------------------------------------------------------------------------
(* Steps.                                                                  *)

\* The flights cleared to land by a step.
ClearedNow(f) == /\ flights[f].state # "AC_LANDING"
                 /\ flights'[f].state = "AC_LANDING"

\* While a flight that has declared an emergency waits in the ring, a runway
\* goes to a flight as short of fuel: none above the emergency threshold, as
\* far as its recorded fuel tells, overtakes it.
EmergencyPreempts ==
    [][\A f, g \in Flights :
           /\ ClearedNow(f)
           /\ \E k \in DOMAIN holding : holding[k] = g
           /\ flights[g].emergency /\ f # g
           => flights'[f].fuel <= FUEL_EMERGENCY]_vars

\* holding_pop_priority goes by the fuel that each flight had at its last check.
\* So the flight it prefers in an emergency may have more fuel left than
\* another, but no more than is burnt between two checks.
FuelLeft(a) == decay_fuel(a).fuel
LeastFuelFirst ==
    [][\A i, j \in DOMAIN holding :
           /\ \E k \in DOMAIN holding : flights[holding[k]].emergency
           /\ ClearedNow(holding[i])
           => \E d \in {HOLD_RECHECK, EMERGENCY_RECHECK, GO_AROUND_RECHECK} :
                  FuelLeft(flights[holding[i]])
                      <= FuelLeft(flights[holding[j]]) + FUEL_BURN_RATE * d]_vars

\* While an expedited flight waits in the ring, a runway goes to a flight that
\* was expedited too, unless an emergency takes precedence: a flight is not
\* overtaken through a touchdown, a take-off, a wave-off or a diversion of
\* others, nor by another handler that finds the runway first.
ExpeditePreempts ==
    [][\A f, g \in Flights :
           /\ ClearedNow(f) /\ f # g
           /\ \E k \in DOMAIN holding : holding[k] = g
           /\ flights[g].user_priority
           => \/ flights'[f].user_priority \/ flights'[f].emergency
              \/ \E k \in DOMAIN holding' : flights'[holding'[k]].emergency]_vars

\* Departures yield: no flight starts its take-off while one is in the ring.
DeparturesYield ==
    [][\A f \in Flights : flights'[f].state = "AC_DEPARTING"
                          /\ flights[f].state # "AC_DEPARTING"
                          => holding = <<>>]_vars

\* On the taxiway nobody is overtaken: a gate goes to the flight that has been
\* in the ring longest, not to one that has just come in nor to one that a full
\* ring refused.
TaxiwayInOrder ==
    [][\A f \in Flights : /\ flights[f].state = "AC_TAXI_IN"
                          /\ flights'[f].state = "AC_AT_GATE"
                          /\ taxi_wait # <<>>
                          => f = Head(taxi_wait)]_vars

\* A runway stays with the flight that occupies it until the touchdown or the
\* take-off planned for that flight, or until it is diverted: the occupancy
\* that separates two flights is never cut short by what happens to others.
SeparationKept ==
    [][\A rw \in Runways :
           LET f == runways[rw].occupant IN
           f # None /\ runways'[rw].occupant # f
           => \/ flights'[f].state = "AC_DIVERTED"
              \/ /\ Head(pq).flight = f /\ now' = Head(pq).time
                 /\ Head(pq).type \in {"EVENT_TOUCHDOWN",
                                       "EVENT_TAKEOFF_CLEAR"}]_vars

\* A flight leaves the sector once, and nothing that is still pending for it
\* changes it any more.
GoneForGood ==
    [][\A f \in InUse : flights[f].state \in Gone
                        => flights'[f] = flights[f]]_vars

\* The fuel checks of a flight multiply in one way only: each one that fires
\* plans at most one more, and a holding flight gains one by being expedited.
\* So pending checks are bounded by waits begun and commands given.
FuelChecks(f) == Cardinality(Pending(f, {"EVENT_EMERGENCY_FUEL"}))
ChecksGrowByExpedite ==
    [][\A f \in InUse :
           flights[f].state = "AC_HOLDING" /\ FuelChecks(f)' > FuelChecks(f)
           => /\ FuelChecks(f)' = FuelChecks(f) + 1
              /\ sim_cmd_prioritize_holding(f)]_vars

-----------------------------------------------------------------------------
(* Progress.                                                               *)

\* The event queue drains: arrivals and weather stop at the horizon and every
\* flight leaves.
Drains == <>[](pq = <<>>)
=============================================================================

---------------------------- MODULE ScreenProofs ----------------------------
(***************************************************************************)
(* What surrounds the core: the frame loop (App) and what it tells         *)
(* (Narration).  Each is a specification of its own around the variables   *)
(* of Sector, and no theorem here concerns both.                           *)
(*                                                                         *)
(* Every step of the loop is a step of the core, a command, a new          *)
(* beginning, or a step that only moves the clock (CoreStep), or it is     *)
(* Hold or the diversion of a flight that has been held (Held).  All of    *)
(* them keep the types, so the selection is a flight of the table          *)
(* (ChosenInv); those that are not Hold keep the ties of Sector            *)
(* (FrameInv), and with them no flight lands while it is in the ring.      *)
(*                                                                         *)
(* Between two frames nothing is due that the last one should have fired   *)
(* (LoopInv), if no frame was cut short by its limit of events; so a frame *)
(* is complete, Hold finds no flight that it accepts, and the clock of the *)
(* loop goes as that of Sector does.                                       *)
(*                                                                         *)
(* Every handler and command raises one counter of the dashboard or none   *)
(* (Tallied, Untallied) and logs the line for it; a flight that has        *)
(* declared an emergency stays declared until it is diverted, which is a   *)
(* line of its own.                                                        *)
(*                                                                         *)
(* The log is a circular array: each line that is written takes the place  *)
(* behind the newest, and the others are one further from it (Shifted).    *)
(***************************************************************************)
EXTENDS App, Narration, SectorSteps

-----------------------------------------------------------------------------
(* What the loop does to the core.                                         *)

ClockStep ==
    /\ now' \in Nat
    /\ UNCHANGED <<pq, flights, flight_count, runways, gates, holding,
                   taxi_wait, weather, spawning_done, stats>>

CoreStep == sim_step \/ Command \/ Init' \/ ClockStep

\* A command given by a key or by a button, and those that Sector leaves out.
Given(f) == \/ sim_cmd_hold(f) \/ Expedite(f)
            \/ sim_cmd_go_around(f) \/ Divert(f)
HoldGiven == \E f \in Flights : sim_cmd_hold(f)
Held == HoldGiven \/ \E f \in Flights : sim_cmd_divert_ringed(f)

\* A reset builds what sim_init builds.
LEMMA RestartInit == ASSUME TypeOK, Restart PROVE Init'
<1>1. stats' = [flights_spawned |-> 0, flights_landed |-> 0,
                flights_departed |-> 0, flights_lost |-> 0,
                flights_diverted |-> 0, emergencies |-> 0, go_arounds |-> 0,
                cumulative_wait |-> 0, max_wait |-> 0, wait_samples |-> 0,
                score |-> 0]
  BY DEF Restart, TypeOK, SimStats
<1>2. /\ now' = 0
      /\ \E gap \in ArrivalGaps, wgap \in WeatherGaps :
           pq' = schedule_weather(schedule(<<>>, 0, "EVENT_AIRCRAFT_ARRIVE",
                                           gap, PRIO_ROUTINE), 0, wgap)
      /\ flights' = [f \in Flights |-> Blank] /\ flight_count' = 0
      /\ runways' = [rw \in Runways |-> [state |-> "RW_IDLE", occupant |-> None]]
      /\ gates' = [g \in Gates |-> [state |-> "GATE_VACANT", occupant |-> None]]
      /\ holding' = <<>> /\ taxi_wait' = <<>>
      /\ weather' = "WX_CLEAR" /\ spawning_done' = FALSE
  BY Zenon DEF Restart
<1> QED BY <1>1, <1>2, Zenon DEF Init

\* The table in use grows with each arrival and with nothing else.
LEMMA CountGrows ==
  ASSUME TypeOK, sim_step \/ Command \/ Held
  PROVE  flight_count' = flight_count \/ flight_count' = flight_count + 1
BY Zenon
DEF sim_step, queue_exhausted, drop_stale, spawn_aircraft_table_full,
    spawn_aircraft, on_weather_change, on_runway_request,
    on_emergency_moved_on, on_emergency_lost, on_emergency,
    on_touchdown_go_around, on_touchdown, on_taxi_to_gate, on_gate_release,
    on_takeoff_ready, on_takeoff_clear, on_depart_sector, vars, Command,
    sim_cmd_prioritize_inbound, sim_cmd_prioritize_holding, sim_cmd_divert,
    sim_cmd_go_around, Held, HoldGiven, sim_cmd_hold, sim_cmd_divert_ringed

-----------------------------------------------------------------------------
(* Types and the selection.                                                *)

Chosen ==
    /\ target \in Nat /\ guard \in Nat /\ paused \in BOOLEAN
    /\ mode = "snapshot" => selected = None
    /\ selected \in InUse \cup {None}

ChosenInv == TypeOK /\ Chosen /\ SelectionLive

LEMMA InTable ==
  ASSUME TypeOK, Chosen, selected # None PROVE selected \in Flights
<1>1. flight_count \in 0 .. MAX_FLIGHTS /\ selected \in 0 .. flight_count - 1
  BY DEF TypeOK, Chosen, InUse
<1> QED BY <1>1, SizeAssumption DEF Flights, Positive

\* A flight that is diverted while it lands and is in the ring as well.
LEMMA DivertRingedType ==
  ASSUME TypeOK, NEW f \in Flights, sim_cmd_divert_ringed(f) PROVE TypeOK'
<1> DEFINE a    == Diverted(flights[f])
           fl   == [flights EXCEPT ![f] = a]
           st   == DivertedIn(stats)
           w    == Waited(flights[f])
           free == [state |-> "RW_IDLE", occupant |-> None]
           rws  == [runways EXCEPT ![flights[f].assigned_runway] = free]
<1>1. /\ Parts(flights, runways, holding, pq, stats)
      /\ now' \in Nat /\ weather \in Weather
      /\ UNCHANGED <<flight_count, gates, taxi_wait, weather, spawning_done>>
  BY PresentParts DEF sim_cmd_divert_ringed, Commanded
<1>2. /\ flights \in [Flights -> Aircraft] /\ flights[f] \in Aircraft
      /\ holding \in Seq(Flights) /\ Len(holding) <= MAX_HOLDING_SLOTS
  BY <1>1 DEF Parts
<1>3. PICK k \in DOMAIN holding :
         \/ try_assign_landing(holding[k], fl, rws, RemoveAt(holding, k), pq, st)
         \/ /\ holding' = RemoveAt(holding, k)
            /\ flights' = [fl EXCEPT ![f].total_wait = @ + w]
            /\ stats' = record_wait(st, w)
            /\ pq' = schedule(pq, f, "EVENT_TOUCHDOWN",
                              now' + Occupancy(RUNWAY_LANDING_T, flights[f].wake),
                              LandingWeight(flights[f]))
            /\ \E rw \in find_idle_runway(rws) :
                  runways' = [rws EXCEPT ![rw] = [state |-> "RW_LANDING",
                                                  occupant |-> f]]
  <2>1. PICK k \in holding_pop_priority(holding, flights) :
         \/ try_assign_landing(holding[k], fl, rws, RemoveAt(holding, k), pq, st)
         \/ /\ holding' = RemoveAt(holding, k)
            /\ flights' = [fl EXCEPT ![f].total_wait = @ + w]
            /\ stats' = record_wait(st, w)
            /\ pq' = schedule(pq, f, "EVENT_TOUCHDOWN",
                              now' + Occupancy(RUNWAY_LANDING_T, flights[f].wake),
                              LandingWeight(flights[f]))
            /\ \E rw \in find_idle_runway(rws) :
                  runways' = [rws EXCEPT ![rw] = [state |-> "RW_LANDING",
                                                  occupant |-> f]]
    BY Zenon DEF sim_cmd_divert_ringed
  <2>2. k \in DOMAIN holding
    BY DEF holding_pop_priority
  <2> QED BY <2>1, <2>2
<1>4. /\ RemoveAt(holding, k) \in Seq(Flights)
      /\ Len(RemoveAt(holding, k)) <= MAX_HOLDING_SLOTS
      /\ holding[k] \in Flights
  BY <1>2, RemoveAtType, ElementOfSeq, LenProperties, SizeAssumption DEF Positive
<1>5. a \in Aircraft
  BY <1>2 DEF Diverted, Aircraft, AircraftState
<1>6. w \in Nat /\ flights[f].total_wait \in Nat
  <2>1. w \in Nat
    BY <1>1, <1>2, WaitedType
  <2> HIDE DEF w
  <2> QED BY <1>2, <2>1 DEF Aircraft
<1>7. st \in SimStats
  <2>1. stats.flights_diverted + 1 \in Nat /\ stats.score - 12 \in Int
    BY <1>1 DEF Parts, SimStats
  <2> QED BY <1>1, <2>1 DEF DivertedIn, Parts, SimStats
<1>8. rws \in [Runways -> Runway]
  <2>1. free \in Runway
    BY DEF Runway
  <2> HIDE DEF free
  <2> QED BY <1>1, <2>1 DEF Parts
<1>9. a.total_wait = flights[f].total_wait
  BY <1>2 DEF Diverted, Aircraft
<1> HIDE DEF a, st, w, rws
<1>10. Parts(fl, rws, RemoveAt(holding, k), pq, st)
  BY <1>1, <1>2, <1>4, <1>5, <1>7, <1>8 DEF Parts
<1>11. CASE try_assign_landing(holding[k], fl, rws, RemoveAt(holding, k), pq, st)
  <2> HIDE DEF fl
  <2>1. Parts(flights', runways', holding', pq', stats')
    BY <1>1, <1>4, <1>10, <1>11, TryAssignLandingType
  <2> QED BY <1>1, <2>1, KeptType
<1>12. CASE /\ holding' = RemoveAt(holding, k)
            /\ flights' = [fl EXCEPT ![f].total_wait = @ + w]
            /\ stats' = record_wait(st, w)
            /\ pq' = schedule(pq, f, "EVENT_TOUCHDOWN",
                              now' + Occupancy(RUNWAY_LANDING_T, flights[f].wake),
                              LandingWeight(flights[f]))
            /\ \E rw \in find_idle_runway(rws) :
                  runways' = [rws EXCEPT ![rw] = [state |-> "RW_LANDING",
                                                  occupant |-> f]]
  <2>1. flights' \in [Flights -> Aircraft]
    <3> DEFINE total == a.total_wait + w
               b     == [a EXCEPT !.total_wait = total]
    <3>1. total \in Nat
      BY <1>6, <1>9
    <3>2. flights' = [flights EXCEPT ![f] = b]
      BY <1>2, <1>12
    <3> HIDE DEF total
    <3>3. b \in Aircraft
      BY <1>5, <3>1 DEF Aircraft
    <3> HIDE DEF b
    <3> QED BY <1>2, <3>2, <3>3
  <2>2. runways' \in [Runways -> Runway]
    <3>1. [state |-> "RW_LANDING", occupant |-> f] \in Runway
      BY DEF Runway
    <3> QED BY <1>8, <1>12, <3>1
  <2>3. stats' \in SimStats
    BY <1>6, <1>7, <1>12, RecordWaitType
  <2>4. pq' \in Seq(AtcEvent(Flights))
    <3>1. Occupancy(RUNWAY_LANDING_T, flights[f].wake) \in Nat
      BY <1>1, <1>2, OccupancyType, TimeAssumption DEF Aircraft, Positive
    <3>2. now' + Occupancy(RUNWAY_LANDING_T, flights[f].wake) \in Nat
      BY <1>1, <3>1
    <3>3. LandingWeight(flights[f]) \in PRIO_EMERGENCY .. PRIO_ROUTINE
      BY WeightType
    <3> QED BY <1>1, <1>12, <3>2, <3>3, Types, ScheduleType DEF Parts
  <2>5. Parts(flights', runways', holding', pq', stats')
    BY <1>4, <1>12, <2>1, <2>2, <2>3, <2>4 DEF Parts
  <2> QED BY <1>1, <2>5, KeptType
<1> QED BY <1>3, <1>11, <1>12

LEMMA ChosenInit == AppInit \/ SnapshotInit => ChosenInv
<1> SUFFICES ASSUME AppInit \/ SnapshotInit PROVE ChosenInv
  OBVIOUS
<1>1. TypeOK
  BY InitType DEF AppInit, SnapshotInit
<1>2. Chosen
  <2>1. target \in Nat /\ guard = 0 /\ paused = FALSE /\ selected = None
    BY FrameAssumption DEF AppInit, SnapshotInit
  <2>2. selected \in InUse \cup {None}
    BY <2>1
  <2>3. paused \in BOOLEAN /\ guard \in Nat
    BY <2>1
  <2> QED BY <2>1, <2>2, <2>3 DEF Chosen
<1>3. SelectionLive
  BY DEF AppInit, SnapshotInit, SelectionLive, NEW_FRAME, EVENTS, PICTURE
<1> QED BY <1>1, <1>2, <1>3 DEF ChosenInv

LEMMA CommandOfSelected ==
  ASSUME TypeOK, Chosen, selected # None, Given(selected)
  PROVE  Command \/ Held
<1>1. selected \in Flights
  BY InTable
<1> QED BY <1>1 DEF Given, Expedite, Divert, Command, Held, HoldGiven

\* The keys that give commands.
KeyCommand == \/ Command_key(KEY_E, Expedite(selected))
              \/ Command_key(KEY_H, sim_cmd_hold(selected))
              \/ Command_key(KEY_D, Divert(selected))
              \/ Command_key(KEY_G, sim_cmd_go_around(selected))

LEMMA KeyStep ==
  ASSUME KeyCommand
  PROVE  /\ selected # None /\ Given(selected)
         /\ at # EVENTS /\ at' # EVENTS /\ at' # PICTURE
         /\ UNCHANGED <<clicked, paused, selected, seed, target, guard, cut>>
BY DEF KeyCommand, Command_key, Given, Pressed, KEY_E, KEY_H, KEY_D, KEY_G,
       EVENTS, PICTURE

LEMMA ButtonStep ==
  ASSUME button PROVE selected # None /\ Given(selected)
BY DEF button, Given

LEMMA AppSteps ==
  ASSUME AppNext
  PROVE  \/ mode = "window" /\ \/ toggle_pause \/ reset \/ pick_aircraft
                               \/ KeyCommand \/ begin_events \/ fire
                               \/ end_events \/ no_events \/ end_frame
         \/ mode = "snapshot" /\ (snapshot_step \/ snapshot_taken)
BY Zenon DEF AppNext, In, Keys, KeyCommand, Frames, Snapshot

\* What each step of the loop does.  Commands are given outside the events.
LEMMA StepOfFrame ==
  ASSUME TypeOK, Chosen, AppNext
  PROVE  \/ CoreStep \/ UNCHANGED vars
         \/ at # EVENTS /\ selected # None /\ Given(selected)
<1>1. CASE toggle_pause \/ pick_aircraft \/ begin_events \/ no_events
  BY <1>1 DEF toggle_pause, pick_aircraft, begin_events, no_events
<1>2. CASE reset
  BY <1>2, RestartInit DEF reset, CoreStep
<1>4. CASE KeyCommand
  BY <1>4, KeyStep
<1>5. CASE fire \/ snapshot_step
  BY <1>5 DEF fire, snapshot_step, CoreStep
<1>6. CASE end_events \/ snapshot_taken
  <2>1. now' \in {now, target}
    BY <1>6 DEF end_events, snapshot_taken
  <2>2. now' \in Nat
    BY <2>1 DEF Chosen, TypeOK
  <2> QED BY <1>6, <2>2 DEF end_events, snapshot_taken, ClockStep, CoreStep
<1>7. CASE end_frame
  BY <1>7, ButtonStep DEF end_frame, EVENTS, PICTURE
<1> QED BY <1>1, <1>2, <1>4, <1>5, <1>6, <1>7, AppSteps

LEMMA InitHolds == Init' => TypeOK' /\ AllTied'
BY InitType, InitTied, PTL

LEMMA EachStepType ==
  ASSUME TypeOK, CoreStep \/ Held \/ UNCHANGED vars PROVE TypeOK'
<1>1. CASE sim_step \/ Command \/ HoldGiven \/ UNCHANGED vars
  BY <1>1, StepType DEF Next, HoldGiven
<1>2. CASE Init'
  BY <1>2, InitHolds
<1>3. CASE ClockStep
  BY <1>3 DEF ClockStep, TypeOK
<1>4. CASE \E f \in Flights : sim_cmd_divert_ringed(f)
  BY <1>4, DivertRingedType
<1> QED BY <1>1, <1>2, <1>3, <1>4 DEF CoreStep, Held

\* Only a reset takes flights out of the table, and it selects none.
LEMMA StillInTable ==
  ASSUME ChosenInv, sim_step \/ Command \/ Held \/ UNCHANGED flight_count,
         selected' = selected
  PROVE  selected' \in InUse' \cup {None}
<1>1. flight_count \in Nat
  BY SizeAssumption DEF ChosenInv, TypeOK, Positive
<1>2. flight_count' = flight_count \/ flight_count' = flight_count + 1
  BY CountGrows DEF ChosenInv
<1>3. InUse \subseteq InUse'
  <2>1. ASSUME NEW m \in Nat, NEW n, n = m \/ n = m + 1
        PROVE  0 .. m - 1 \subseteq 0 .. n - 1
    BY <2>1
  <2>2. 0 .. flight_count - 1 \subseteq 0 .. flight_count' - 1
    BY <1>1, <1>2, <2>1
  <2> QED BY <2>2 DEF InUse
<1> QED BY <1>3 DEF ChosenInv, Chosen

\* Whoever is drawn as selected is in the sector: Deselect has just looked, or
\* nobody is.
LEMMA SelectionStep ==
  ASSUME ChosenInv, AppNext PROVE Chosen' /\ SelectionLive'
<1>1. /\ target \in Nat /\ guard \in Nat /\ paused \in BOOLEAN /\ now \in Nat
      /\ mode = "snapshot" => selected = None
      /\ selected \in InUse \cup {None}
  BY DEF ChosenInv, Chosen, TypeOK
<1>2. mode' = mode
  BY DEF AppNext, In
<1>3. CASE toggle_pause
  <2>1. paused' \in BOOLEAN
    BY <1>3 DEF toggle_pause
  <2>2. /\ UNCHANGED <<flight_count, selected, target, guard>> /\ at' = KEY_SPACE
    BY <1>3 DEF toggle_pause, Pressed, vars
  <2>3. selected' \in InUse' \cup {None}
    BY <2>2, StillInTable
  <2> QED BY <1>1, <1>2, <2>1, <2>2, <2>3
          DEF Chosen, SelectionLive, KEY_SPACE, PICTURE
<1>4. CASE reset
  BY <1>1, <1>2, <1>4
  DEF reset, Pressed, Chosen, SelectionLive, KEY_R, PICTURE
<1>5. CASE pick_aircraft /\ mode = "window"
  <2>1. selected' \in InUse' \cup {None}
    BY <1>5 DEF pick_aircraft, Live, InUse, vars
  <2> QED BY <1>1, <1>2, <1>5, <2>1
          DEF pick_aircraft, Pressed, Chosen, SelectionLive, CLICK, PICTURE
<1>6. CASE KeyCommand
  <2>1. Command \/ Held
    BY <1>6, KeyStep, CommandOfSelected DEF ChosenInv
  <2>2. UNCHANGED <<selected, target, guard, paused>> /\ at' # PICTURE
    BY <1>6, KeyStep
  <2>3. selected' \in InUse' \cup {None}
    BY <2>1, <2>2, StillInTable
  <2> QED BY <1>1, <1>2, <2>2, <2>3 DEF Chosen, SelectionLive
<1>7. CASE begin_events
  <2>1. target' \in Nat
    BY <1>1, <1>7, TimeAssumption DEF begin_events, Positive
  <2>2. UNCHANGED <<flight_count, selected, guard, paused>> /\ at' # PICTURE
    BY <1>7 DEF begin_events, vars, EVENTS, PICTURE
  <2>3. selected' \in InUse' \cup {None}
    BY <2>2, StillInTable
  <2> QED BY <1>1, <1>2, <2>1, <2>2, <2>3 DEF Chosen, SelectionLive
<1>8. CASE fire \/ snapshot_step
  <2>1. sim_step /\ UNCHANGED <<selected, target, paused>> /\ at' # PICTURE
    BY <1>8 DEF fire, snapshot_step, EVENTS, PICTURE
  <2>2. guard' \in Nat
    BY <1>1, <1>8 DEF fire, snapshot_step
  <2>3. selected' \in InUse' \cup {None}
    BY <2>1, StillInTable
  <2> QED BY <1>1, <1>2, <2>1, <2>2, <2>3 DEF Chosen, SelectionLive
<1>9. CASE (end_events \/ no_events) /\ mode = "window"
  <2>1. /\ UNCHANGED <<flights, flight_count, paused>> /\ Deselect
        /\ target' \in Nat /\ guard' \in Nat
    BY <1>1, <1>9 DEF end_events, no_events, vars
  <2>2. selected' \in Live' \cup {None}
    BY <1>1, <2>1 DEF Deselect, Live, InUse
  <2>3. selected' \in InUse' \cup {None}
    BY <2>2 DEF Live
  <2> QED BY <1>1, <1>2, <1>9, <2>1, <2>2, <2>3 DEF Chosen, SelectionLive
<1>10. CASE end_frame
  <2>1. /\ UNCHANGED <<selected, target, guard, paused>> /\ at' # PICTURE
        /\ button \/ UNCHANGED vars
    BY <1>10 DEF end_frame, NEW_FRAME, PICTURE
  <2>2. Command \/ Held \/ UNCHANGED flight_count
    <3>1. CASE button
      BY <3>1, ButtonStep, CommandOfSelected DEF ChosenInv
    <3>2. CASE UNCHANGED vars
      BY <3>2 DEF vars
    <3> QED BY <2>1, <3>1, <3>2
  <2>3. selected' \in InUse' \cup {None}
    BY <2>1, <2>2, StillInTable
  <2> QED BY <1>1, <1>2, <2>1, <2>3 DEF Chosen, SelectionLive
<1>11. CASE snapshot_taken /\ mode = "snapshot"
  <2>1. UNCHANGED <<flight_count, selected, target, guard, paused>>
    BY <1>11 DEF snapshot_taken
  <2>2. selected' = None
    BY <1>1, <1>11, <2>1
  <2> QED BY <1>1, <1>2, <2>1, <2>2 DEF Chosen, SelectionLive
<1> QED BY <1>3, <1>4, <1>5, <1>6, <1>7, <1>8, <1>9, <1>10, <1>11, AppSteps

LEMMA ChosenStep == ChosenInv /\ [AppNext]_appVars => ChosenInv'
<1> SUFFICES ASSUME ChosenInv, [AppNext]_appVars PROVE ChosenInv'
  OBVIOUS
<1>1. CASE AppNext
  <2>1. Chosen' /\ SelectionLive'
    BY <1>1, SelectionStep
  <2>2. TypeOK'
    BY <1>1, StepOfFrame, CommandOfSelected, EachStepType DEF ChosenInv, CoreStep
  <2> QED BY <2>1, <2>2 DEF ChosenInv
<1>2. CASE UNCHANGED appVars
  <2>1. UNCHANGED vars /\ UNCHANGED <<flights, flight_count>>
    BY <1>2 DEF appVars, vars
  <2>2. TypeOK'
    BY <2>1, EachStepType DEF ChosenInv
  <2>3. Chosen' /\ SelectionLive'
    BY <1>2, <2>1 DEF appVars, ChosenInv, Chosen, SelectionLive, Live, InUse
  <2> QED BY <2>2, <2>3 DEF ChosenInv
<1> QED BY <1>1, <1>2

THEOREM FramesTyped == AppSpec => []ChosenInv
BY ChosenInit, ChosenStep, PTL DEF AppSpec

\* What is drawn, and offered buttons, as the selected flight is a flight in
\* the sector: run_app looks for departed flights after the events of a frame,
\* and forgets the selection when it replaces the simulation.
THEOREM SelectionStaysLive == AppSpec => []SelectionLive
BY FramesTyped, PTL DEF ChosenInv

-----------------------------------------------------------------------------
(* Ties, as long as Hold is not given.                                     *)

FrameInv == TypeOK /\ AllTied /\ Chosen /\ SelectionLive

LEMMA FrameChosen == FrameInv => ChosenInv
BY DEF FrameInv, ChosenInv

LEMMA FrameInit == AppInit \/ SnapshotInit => FrameInv
BY ChosenInit, InitTied DEF AppInit, SnapshotInit, ChosenInv, FrameInv

\* A flight that lands is in no ring, so its diversion is the usual one.
LEMMA NoneRinged ==
  ASSUME TypeOK, AllTied, NEW f \in Flights PROVE ~ sim_cmd_divert_ringed(f)
<1> SUFFICES ASSUME sim_cmd_divert_ringed(f) PROVE FALSE
  OBVIOUS
<1>1. PICK k \in DOMAIN holding : holding[k] = f
  BY DEF sim_cmd_divert_ringed, Ringed
<1>2. flights[f].state = "AC_LANDING"
  BY DEF sim_cmd_divert_ringed, Ringed
<1>3. flights[holding[k]].state = "AC_HOLDING"
  BY TiedRings DEF RingsHoldWaiting
<1> QED BY <1>1, <1>2, <1>3

LEMMA CoreStepTies ==
  ASSUME TypeOK, AllTied, CoreStep \/ UNCHANGED vars PROVE AllTied'
<1>1. CASE sim_step \/ Command \/ UNCHANGED vars
  <2>1. [Next]_vars
    BY <1>1 DEF Next
  <2> QED BY <2>1, TiedStep
<1>2. CASE Init'
  BY <1>2, InitHolds
<1>3. CASE ClockStep
  BY <1>3 DEF ClockStep, TypeOK, AllTied
<1> QED BY <1>1, <1>2, <1>3 DEF CoreStep

LEMMA FrameStep ==
  ASSUME FrameInv, [AppNext]_appVars, ~ HoldGiven PROVE FrameInv'
<1>1. ChosenInv /\ TypeOK /\ AllTied /\ Chosen
  BY FrameChosen DEF FrameInv
<1>2. ChosenInv'
  BY <1>1, ChosenStep
<1>3. ~ Held
  BY <1>1, NoneRinged DEF Held
<1>4. CoreStep \/ UNCHANGED vars
  BY <1>1, <1>3, StepOfFrame, CommandOfSelected DEF appVars, CoreStep
<1>5. AllTied'
  BY <1>1, <1>4, CoreStepTies
<1> QED BY <1>2, <1>5 DEF ChosenInv, FrameInv

LEMMA FramesTied == AppSpec /\ [][~ HoldGiven]_appVars => []FrameInv
<1>1. FrameInv /\ [AppNext]_appVars /\ [~ HoldGiven]_appVars => FrameInv'
  <2> SUFFICES ASSUME FrameInv, [AppNext]_appVars, [~ HoldGiven]_appVars
               PROVE  FrameInv'
    OBVIOUS
  <2>1. CASE ~ HoldGiven
    BY <2>1, FrameStep
  <2>2. CASE UNCHANGED appVars
    <3>1. ChosenInv'
      BY <2>2, FrameChosen, ChosenStep
    <3>2. AllTied'
      BY <2>2, TiedStep DEF appVars, FrameInv
    <3> QED BY <3>1, <3>2 DEF ChosenInv, FrameInv
  <2> QED BY <2>1, <2>2
<1> QED BY <1>1, FrameInit, PTL DEF AppSpec

\* Whatever the other keys, the length of the frames and their limit of events,
\* as long as no key and no button gives Hold the resources of the simulation
\* that is drawn are in order.
THEOREM FramesKeepResources ==
  AppSpec /\ [][\A f \in Flights : ~ sim_cmd_hold(f)]_appVars
      => [](RunwaysExclusive /\ GatesExclusive /\ RingsHoldWaiting
            /\ FlightsDriven)
<1>1. FrameInv => /\ RunwaysExclusive /\ GatesExclusive
                  /\ RingsHoldWaiting /\ FlightsDriven
  BY TiedRunways, TiedGates, TiedRings, TiedDriven DEF FrameInv
<1>2. (\A f \in Flights : ~ sim_cmd_hold(f)) => ~ HoldGiven
  BY DEF HoldGiven
<1> QED BY <1>1, <1>2, FramesTied, PTL

-----------------------------------------------------------------------------
(* The queue between two frames: nothing in it is due.                     *)

\* The events that a command may push.
Future == {e \in AtcEvent(Flights) : now' < e.time}

LEMMA StrictlyLater ==
  ASSUME NEW t \in Nat, NEW d \in Positive PROVE t + d \in Nat /\ t < t + d
BY DEF Positive

LEMMA FutureSchedule ==
  ASSUME NEW q, NEW f \in Flights, NEW type \in EventType, now' \in Nat, NEW d \in Positive,
         NEW weight \in PRIO_EMERGENCY .. PRIO_ROUTINE
  PROVE  Pushes(q, schedule(q, f, type, now' + d, weight), Future)
<1> DEFINE e == [flight |-> f, type |-> type, time |-> now' + d, weight |-> weight]
<1>1. now' + d \in Nat /\ now' < now' + d
  BY StrictlyLater
<1>2. e \in Future
  BY <1>1 DEF Future, AtcEvent
<1> QED BY <1>2 DEF Pushes, schedule

\* No approach is so short that a flight cleared now touches down now.
LEMMA ApproachTakesTime ==
  ASSUME NEW wake \in Wake, weather \in Weather
  PROVE  Occupancy(RUNWAY_LANDING_T, wake) \in Positive
<1>1. Occupancy(RUNWAY_LANDING_T, wake) \in Nat
  BY Delays, OccupancyType
<1>2. HOLD_RECHECK < Occupancy(RUNWAY_LANDING_T, wake)
  BY ApproachAssumption DEF Occupancy
<1>3. HOLD_RECHECK \in Nat
  BY Delays
<1> QED BY <1>1, <1>2, <1>3 DEF Positive

LEMMA TryAssignFuture ==
  ASSUME NEW f \in Flights, NEW fl, NEW rws, NEW ring, NEW q, NEW st,
         Wakeful(fl), now' \in Nat, weather \in Weather,
         try_assign_landing(f, fl, rws, ring, q, st)
  PROVE  Pushes(q, pq', Future)
<1>1. LandingWeight(fl[f]) \in PRIO_EMERGENCY .. PRIO_ROUTINE
  BY WeightType
<1>2. "EVENT_TOUCHDOWN" \in EventType /\ "EVENT_EMERGENCY_FUEL" \in EventType
  BY Types
<1>3. Occupancy(RUNWAY_LANDING_T, fl[f].wake) \in Positive /\ HOLD_RECHECK \in Positive
  BY ApproachTakesTime, TimeAssumption DEF Wakeful
<1>4. \/ pq' = schedule(q, f, "EVENT_TOUCHDOWN",
                        now' + Occupancy(RUNWAY_LANDING_T, fl[f].wake),
                        LandingWeight(fl[f]))
      \/ pq' = schedule(q, f, "EVENT_EMERGENCY_FUEL", now' + HOLD_RECHECK,
                        LandingWeight(fl[f]))
  BY Zenon DEF try_assign_landing, ClearToLand, EnterHolding, CheckFuelAfter
<1> QED BY <1>1, <1>2, <1>3, <1>4, FutureSchedule

\* A command plans for later, never for this very moment.
LEMMA CommandFuture ==
  ASSUME TypeOK, Command PROVE now' = now /\ Pushes(pq, pq', Future)
<1>1. now' = now
  BY DEF Command, sim_cmd_prioritize_inbound, sim_cmd_prioritize_holding,
         sim_cmd_divert, sim_cmd_go_around, Commanded
<1>2. /\ flights \in [Flights -> Aircraft] /\ weather \in Weather /\ now' \in Nat
      /\ pq \in Seq(AtcEvent(Flights))
  BY <1>1 DEF TypeOK
<1>3. CASE pq' = pq
  BY <1>1, <1>3 DEF Pushes
<1>4. ASSUME NEW f \in Flights, sim_cmd_prioritize_holding(f)
      PROVE  Pushes(pq, pq', Future)
  <2> DEFINE b  == [flights[f] EXCEPT !.user_priority = TRUE]
             fl == [flights EXCEPT ![f] = b]
  <2>1. fl = [flights EXCEPT ![f].user_priority = TRUE]
    BY <1>2
  <2>2. \E ring : try_assign_landing(f, fl, runways, ring, pq, stats)
    BY <1>4, <2>1, Zenon DEF sim_cmd_prioritize_holding
  <2>3. b.wake \in Wake
    BY <1>2 DEF Aircraft
  <2> HIDE DEF b
  <2>4. Wakeful(fl)
    BY <1>2, <2>3, WakefulExcept
  <2> HIDE DEF fl
  <2> QED BY <1>2, <2>2, <2>4, TryAssignFuture
<1>5. ASSUME NEW f \in Flights, sim_cmd_divert(f), pq' # pq
      PROVE  Pushes(pq, pq', Future)
  <2> DEFINE b  == Diverted(flights[f])
             fl == [flights EXCEPT ![f] = b]
             ring == Unqueued(f)
  <2>1. fl = [flights EXCEPT ![f] = Diverted(@)]
    BY <1>2
  <2> HIDE DEF fl
  <2>0. \E rw, st : free_runway(rw, fl, ring, pq, st)
    BY <1>5, <2>1, Zenon DEF sim_cmd_divert
  <2> USE DEF fl
  <2>2. \E k \in holding_pop_priority(ring, fl) : \E rws, r, st :
            try_assign_landing(ring[k], fl, rws, r, pq, st)
    BY <1>5, <2>0, Zenon DEF free_runway
  <2>3. PICK k \in DOMAIN ring : \E rws, r, st :
            try_assign_landing(ring[k], fl, rws, r, pq, st)
    BY <2>2 DEF holding_pop_priority
  <2>4. ring[k] \in Flights
    BY UnqueuedType, <2>3, ElementOfSeq, LenProperties
  <2>5. b.wake \in Wake
    BY <1>2 DEF Diverted, Aircraft
  <2> HIDE DEF b, ring
  <2>6. Wakeful(fl)
    BY <1>2, <2>5, WakefulExcept
  <2> HIDE DEF fl
  <2> QED BY <1>2, <2>3, <2>4, <2>6, TryAssignFuture
<1>6. CASE \E f \in Flights : sim_cmd_prioritize_inbound(f) \/ sim_cmd_go_around(f)
  <2>1. pq' = pq
    BY <1>6 DEF sim_cmd_prioritize_inbound, sim_cmd_go_around
  <2> QED BY <1>3, <2>1
<1> QED BY <1>1, <1>3, <1>4, <1>5, <1>6 DEF Command

\* FrameComplete by what it says of a queue at a time.
AllLater(q, t) == \A i \in DOMAIN q : t < q[i].time

LEMMA LaterElements ==
  ASSUME NEW q \in Seq(AtcEvent(Flights)), NEW t
  PROVE  AllLater(q, t) <=> \A e \in Range(q) : t < e.time
BY DEF AllLater, Range

LEMMA CommandLater ==
  ASSUME TypeOK, Command, AllLater(pq, now) PROVE AllLater(pq', now')
<1>1. /\ now' = now /\ Pushes(pq, pq', Future) /\ pq \in Seq(AtcEvent(Flights))
      /\ Future \in SUBSET AtcEvent(Flights)
  BY CommandFuture DEF TypeOK, Future
<1>2. pq' \in Seq(AtcEvent(Flights)) /\ Range(pq') \subseteq Range(pq) \cup Future
  BY <1>1, PushesElements
<1>3. \A e \in Range(pq) : now < e.time
  BY <1>1, LaterElements
<1>4. \A e \in Range(pq') : now' < e.time
  BY <1>1, <1>2, <1>3 DEF Future
<1> QED BY <1>2, <1>4, LaterElements

\* A new simulation: the first arrival and the first change of weather are
\* ahead.
LEMMA InitLater == Init => AllLater(pq, now)
<1> SUFFICES ASSUME Init PROVE AllLater(pq, now)
  OBVIOUS
<1>1. PICK gap \in ArrivalGaps, wgap \in WeatherGaps :
           pq = schedule_weather(schedule(<<>>, 0, "EVENT_AIRCRAFT_ARRIVE",
                                          gap, PRIO_ROUTINE), 0, wgap)
  BY DEF Init
<1> DEFINE q == schedule(<<>>, 0, "EVENT_AIRCRAFT_ARRIVE", gap, PRIO_ROUTINE)
<1>2. gap \in Nat /\ 1 <= gap /\ 0 + wgap \in Nat /\ 1 <= 0 + wgap /\ 1 \in Nat
  BY TimeAssumption, FrameAssumption
<1>3. Ahead(<<>>, 1)
  BY DEF Ahead, Ordered
<1>4. Ahead(q, 1)
  BY <1>2, <1>3, Types, AheadSchedule
<1> HIDE DEF q
<1>5. Ahead(schedule(q, 0, "EVENT_WEATHER_CHANGE", 0 + wgap, PRIO_ROUTINE), 1)
  BY <1>2, <1>4, Types, AheadSchedule
<1>6. Ahead(schedule_weather(q, 0, wgap), 1)
  BY <1>4, <1>5 DEF schedule_weather
<1>7. Ahead(pq, 1)
  BY <1>1, <1>6 DEF q
<1>8. now = 0 /\ pq \in Seq(AtcEvent(Flights))
  BY InitType DEF Init, TypeOK
<1>9. ASSUME NEW i \in DOMAIN pq PROVE pq[i].time \in Nat
  <2>1. pq[i] \in AtcEvent(Flights)
    BY <1>8, ElementOfSeq, LenProperties
  <2> QED BY <2>1 DEF AtcEvent
<1> QED BY <1>7, <1>8, <1>9 DEF Ahead, AllLater

\* Nothing is due when the first event is not.
LEMMA NoneDue ==
  ASSUME TypeOK, NothingOverdue, NEW t \in Nat, ~ DueBy(t) PROVE AllLater(pq, t)
<1>1. CASE pq = <<>>
  BY <1>1 DEF AllLater
<1>2. CASE pq # <<>>
  <2>1. ~ (Head(pq).time <= t) /\ pq \in Seq(AtcEvent(Flights))
    BY <1>2 DEF DueBy, TypeOK
  <2>2. \A e \in Range(pq) : t < e.time
    BY <1>2, <2>1, HeadFirst DEF AtcEvent
  <2> QED BY <2>1, <2>2, LaterElements
<1> QED BY <1>1, <1>2

-----------------------------------------------------------------------------
(* Nobody is left inbound.                                                 *)

\* What an inbound flight waits for is due: its request, or the check that
\* follows an emergency declared on arrival.
Asked ==
    \A f \in InUse : flights[f].state = "AC_INBOUND" =>
        \E e \in Range(pq) : /\ e.flight = f /\ e.type \in Asking \cup Fuel
                             /\ e.time <= now

LEMMA InUseFlights == ASSUME TypeOK PROVE InUse \subseteq Flights
<1>1. flight_count \in 0 .. MAX_FLIGHTS /\ MAX_FLIGHTS \in Nat
  BY SizeAssumption DEF TypeOK, Positive
<1> QED BY <1>1 DEF InUse, Flights

\* Whoever tries for a runway lands or waits.
LEMMA ClearsOnly ==
  ASSUME NEW f \in Flights, NEW rw, NEW fl \in [Flights -> Aircraft], NEW rws, NEW ring,
         NEW q, NEW st, NEW weight, ClearToLand(f, rw, fl, rws, ring, q, st, weight)
  PROVE  OnlyBy(f, fl, flights') /\ flights'[f].state = "AC_LANDING"
<1> DEFINE a == [fl[f] EXCEPT !.assigned_runway = rw, !.state = "AC_LANDING",
                              !.total_wait = @ + Waited(fl[f])]
<1>1. fl[f] \in Aircraft
  OBVIOUS
<1>2. flights' = [fl EXCEPT ![f] = a]
  BY <1>1 DEF ClearToLand
<1>3. a.state = "AC_LANDING"
  BY <1>1 DEF Aircraft
<1> HIDE DEF a
<1> QED BY <1>2, <1>3 DEF OnlyBy

LEMMA TriesOnly ==
  ASSUME NEW f \in Flights, NEW fl \in [Flights -> Aircraft], NEW rws, NEW ring, NEW q,
         NEW st, try_assign_landing(f, fl, rws, ring, q, st)
  PROVE  OnlyBy(f, fl, flights') /\ flights'[f].state \in {"AC_LANDING", "AC_HOLDING"}
<1>1. CASE \E rw : ClearToLand(f, rw, fl, rws, ring, q, st, LandingWeight(fl[f]))
  BY <1>1, ClearsOnly
<1>2. CASE EnterHolding(f, fl, rws, ring, q, st, HOLD_RECHECK)
  <2>1. flights' = [fl EXCEPT ![f].state = "AC_HOLDING"] /\ fl[f] \in Aircraft
    BY <1>2 DEF EnterHolding
  <2> QED BY <2>1 DEF OnlyBy, Aircraft
<1> QED BY <1>1, <1>2, Zenon DEF try_assign_landing

\* A flight is inbound from its arrival on, and never again.
LEMMA StillInbound ==
  ASSUME TypeOK, AllTied, NothingIdleWhileWanted, sim_step, NEW g \in Flights,
         flights'[g].state = "AC_INBOUND"
  PROVE  flights[g].state = "AC_INBOUND"
<1>1. ASSUME NEW f, NEW fl, NEW ring, NEW q, Quiet(fl, ring, q) \/ Joins(f, fl, ring, q),
             fl[g].state = "AC_INBOUND"
      PROVE  flights[g].state = "AC_INBOUND"
  BY <1>1 DEF Quiet, Joins, OnlyBy
<1>2. CASE \/ Quiet(flights', holding', pq')
           \/ \E f \in Flights : Joins(f, flights', holding', pq')
  BY <1>1, <1>2
<1>3. ASSUME NEW f \in Flights, Declared(f) \/ Rechecked(f) \/ TakesIdle(f)
      PROVE  flights[g].state = "AC_INBOUND"
  BY <1>3 DEF Declared, Rechecked, TakesIdle, OnlyBy
<1>4. ASSUME NEW f \in Flights, NEW fl, NEW ring, NEW q, Offered(f, fl, ring, q)
      PROVE  flights[g].state = "AC_INBOUND"
  <2>1. Quiet(fl, ring, q) \/ Joins(f, fl, ring, q)
    BY <1>4 DEF Offered
  <2>2. fl[g].state = "AC_INBOUND"
    BY <1>4 DEF Offered, Served, OnlyBy
  <2> QED BY <1>1, <2>1, <2>2
<1>5. Shape
  BY EventShape
<1> QED BY <1>2, <1>3, <1>4, <1>5, Zenon DEF Shape

\* The event it waits for moves it on, or is followed by one that is due too.
LEMMA AskedHead ==
  ASSUME TypeOK, sim_step, pq # <<>>, NEW g \in Flights, Head(pq).flight = g,
         Head(pq).type \in Asking \cup Fuel, flights[g].state = "AC_INBOUND",
         flights'[g].state = "AC_INBOUND"
  PROVE  \E e \in Range(pq') : /\ e.flight = g /\ e.type \in Asking \cup Fuel
                               /\ e.time <= now'
<1>1. PICK f \in Flights : \/ on_runway_request(f) \/ on_emergency_lost(f)
                           \/ on_emergency(f)
  BY DEF sim_step, queue_exhausted, drop_stale, spawn_aircraft_table_full,
         spawn_aircraft, on_weather_change, on_emergency_moved_on,
         on_touchdown_go_around, on_touchdown, on_taxi_to_gate, on_gate_release,
         on_takeoff_ready, on_takeoff_clear, on_depart_sector, Dispatch, Pop,
         Asking, Fuel, Gone
<1>2. f = g /\ now' = Head(pq).time
  BY <1>1 DEF on_runway_request, on_emergency_lost, on_emergency, Dispatch, Pop
<1>3. /\ now' \in Nat /\ Tail(pq) \in Seq(AtcEvent(Flights))
      /\ flights \in [Flights -> Aircraft]
  BY <1>2, StepParts
<1>4. decay_fuel(flights[g]) \in Aircraft
  BY <1>2, <1>3, DecayWake
<1>5. CASE on_emergency_lost(g)
  <2>1. flights'[g].state = "AC_LOST"
    BY <1>3, <1>4, <1>5 DEF on_emergency_lost, Aircraft
  <2> QED BY <2>1
<1>6. CASE on_emergency(g)
  <2> DEFINE a  == decay_fuel(flights[g])
             b  == [a EXCEPT !.emergency = @ \/ Declares(a)]
             fl == [flights EXCEPT ![g] = b]
  <2>1. \/ \E rw, ring, st : ClearToLand(g, rw, fl, runways, ring, Tail(pq), st,
                                         PRIO_EMERGENCY)
        \/ flights' = [fl EXCEPT ![g].state = "AC_HOLDING"]
    BY <1>6, Zenon DEF on_emergency
  <2>2. b \in Aircraft
    <3>1. (a.emergency \/ Declares(a)) \in BOOLEAN
      BY DEF Declares
    <3> HIDE DEF a
    <3> QED BY <1>4, <3>1 DEF Aircraft, a
  <2> HIDE DEF b
  <2>3. fl \in [Flights -> Aircraft]
    BY <1>3, <2>2
  <2> HIDE DEF fl
  <2>4. flights' = [fl EXCEPT ![g].state = "AC_HOLDING"]
            => flights'[g].state = "AC_HOLDING"
    BY <2>3 DEF Aircraft
  <2> QED BY <2>1, <2>3, <2>4, ClearsOnly
<1>7. CASE on_runway_request(g)
  <2> DEFINE a  == [decay_fuel(flights[g]) EXCEPT !.queue_enter_time = now']
             fl == [flights EXCEPT ![g] = a]
             e  == [flight |-> g, type |-> "EVENT_EMERGENCY_FUEL", time |-> now',
                    weight |-> PRIO_EMERGENCY]
  <2>1. \/ pq' = pq_push(Tail(pq), e)
        \/ try_assign_landing(g, fl, runways, holding, Tail(pq), stats)
    BY <1>7, Zenon DEF on_runway_request, schedule
  <2>2. CASE try_assign_landing(g, fl, runways, holding, Tail(pq), stats)
    <3>1. fl \in [Flights -> Aircraft]
      BY <1>3, <1>4 DEF Aircraft
    <3> HIDE DEF fl
    <3>2. flights'[g].state \in {"AC_LANDING", "AC_HOLDING"}
      BY <2>2, <3>1, TriesOnly
    <3> QED BY <3>2
  <2>3. CASE pq' = pq_push(Tail(pq), e)
    <3>1. /\ e \in AtcEvent(Flights) /\ e.flight = g /\ e.type \in Fuel /\ e.time = now'
      BY <1>3, Types, Weights DEF AtcEvent, Fuel
    <3> HIDE DEF e
    <3>2. e \in Range(pq')
      BY <1>3, <2>3, <3>1, PushElements
    <3> QED BY <1>3, <3>1, <3>2
  <2> QED BY <2>1, <2>2, <2>3
<1> QED BY <1>1, <1>2, <1>5, <1>6, <1>7

\* An arrival asks at once.
LEMMA AskedSpawn ==
  ASSUME TypeOK, sim_step, flight_count' # flight_count
  PROVE  /\ flight_count' = flight_count + 1
         /\ \E e \in Range(pq') : /\ e.flight = flight_count /\ e.type \in Asking
                                  /\ e.time <= now'
<1>1. spawn_aircraft
  BY Zenon
  DEF sim_step, queue_exhausted, drop_stale, spawn_aircraft_table_full,
      on_weather_change, on_runway_request, on_emergency_moved_on,
      on_emergency_lost, on_emergency, on_touchdown_go_around, on_touchdown,
      on_taxi_to_gate, on_gate_release, on_takeoff_ready, on_takeoff_clear,
      on_depart_sector, vars
<1>2. pq # <<>> /\ now' = Head(pq).time /\ flight_count < MAX_FLIGHTS
  BY <1>1 DEF spawn_aircraft, Pop
<1>3. /\ now' \in Nat /\ Tail(pq) \in Seq(AtcEvent(Flights))
      /\ flight_count \in Flights /\ 0 \in Flights
  <2>1. flight_count \in 0 .. MAX_FLIGHTS /\ MAX_FLIGHTS \in Nat
    BY SizeAssumption DEF TypeOK, Positive
  <2> QED BY <1>2, <2>1, StepParts DEF Flights
<1> DEFINE e == [flight |-> flight_count, type |-> "EVENT_RUNWAY_REQUEST",
                 time |-> now', weight |-> PRIO_LANDING]
           q == pq_push(Tail(pq), e)
<1>4. /\ e \in AtcEvent(Flights) /\ e.flight = flight_count /\ e.type \in Asking
      /\ e.time = now'
  BY <1>3, Types, Weights DEF AtcEvent, Asking
<1>5. PICK gap \in ArrivalGaps :
          \/ pq' = q
          \/ pq' = schedule(q, 0, "EVENT_AIRCRAFT_ARRIVE", now' + gap, PRIO_ROUTINE)
  BY <1>1 DEF spawn_aircraft, RequestRunway, schedule
<1> HIDE DEF e
<1>6. q \in Seq(AtcEvent(Flights)) /\ e \in Range(q)
  BY <1>3, <1>4, PushElements
<1> HIDE DEF q
<1>7. Pushes(q, pq', Uncheck)
  <2>1. now' + gap \in Nat
    BY <1>3, TimeAssumption, Later
  <2>2. Pushes(q, schedule(q, 0, "EVENT_AIRCRAFT_ARRIVE", now' + gap, PRIO_ROUTINE),
               Uncheck)
    BY <1>3, <2>1, Types, Weights, PlanEvent DEF Fuel, Touching
  <2> QED BY <1>5, <2>2 DEF Pushes
<1>8. e \in Range(pq')
  BY <1>6, <1>7, PlannedEvents, PushesElements
<1>9. flight_count' = flight_count + 1
  BY <1>1 DEF spawn_aircraft
<1> QED BY <1>3, <1>4, <1>8, <1>9

LEMMA BelowCount ==
  ASSUME NEW m \in Nat, NEW n \in 0 .. m, NEW i \in 0 .. n - 1 PROVE i \in 0 .. m - 1
OBVIOUS

LEMMA AskedStep ==
  ASSUME TypeOK, AllTied, NothingIdleWhileWanted, NothingOverdue, Asked, sim_step,
         TypeOK'
  PROVE  Asked'
<1> SUFFICES ASSUME NEW g, g \in InUse', flights'[g].state = "AC_INBOUND"
             PROVE  \E e \in Range(pq') : /\ e.flight = g /\ e.type \in Asking \cup Fuel
                                          /\ e.time <= now'
  BY DEF Asked
<1>1. CASE pq = <<>>
  <2>1. UNCHANGED vars
    BY <1>1, Zenon
    DEF sim_step, queue_exhausted, drop_stale, spawn_aircraft_table_full,
        spawn_aircraft, on_weather_change, on_runway_request,
        on_emergency_moved_on, on_emergency_lost, on_emergency,
        on_touchdown_go_around, on_touchdown, on_taxi_to_gate, on_gate_release,
        on_takeoff_ready, on_takeoff_clear, on_depart_sector, Dispatch, Pop
  <2> QED BY <2>1 DEF vars, Asked, InUse
<1>2. CASE pq # <<>>
  <2>1. /\ now' = Head(pq).time /\ now <= now' /\ now \in Nat /\ now' \in Nat
    <3>1. now' = Head(pq).time
      BY <1>2, Zenon
      DEF sim_step, queue_exhausted, drop_stale, spawn_aircraft_table_full,
          spawn_aircraft, on_weather_change, on_runway_request,
          on_emergency_moved_on, on_emergency_lost, on_emergency,
          on_touchdown_go_around, on_touchdown, on_taxi_to_gate, on_gate_release,
          on_takeoff_ready, on_takeoff_clear, on_depart_sector, Dispatch, Pop
    <3> QED BY <1>2, <3>1, HeadFirst DEF TypeOK
  <2>2. g \in Flights
    <3>1. flight_count' \in 0 .. MAX_FLIGHTS /\ MAX_FLIGHTS \in Nat
      BY SizeAssumption DEF TypeOK, Positive
    <3>2. g \in 0 .. flight_count' - 1
      BY DEF InUse
    <3> QED BY <3>1, <3>2, BelowCount DEF Flights
  <2>3. CASE g \in InUse
    <3>1. flights[g].state = "AC_INBOUND"
      BY <2>2, StillInbound
    <3>2. PICK e \in Range(pq) : /\ e.flight = g /\ e.type \in Asking \cup Fuel
                                 /\ e.time <= now
      BY <2>3, <3>1 DEF Asked
    <3>3. CASE e = Head(pq)
      BY <1>2, <2>2, <3>1, <3>2, <3>3, AskedHead
    <3>4. CASE e \in Range(Tail(pq))
      <4>1. e \in Range(pq')
        BY <1>2, <3>4, AllPush, StepElements
      <4>2. e \in AtcEvent(Flights)
        BY <1>2, <3>2, HeadFirst
      <4>3. e.time \in Nat
        BY <4>2 DEF AtcEvent
      <4> QED BY <2>1, <3>2, <4>1, <4>3
    <3> QED BY <1>2, <3>2, <3>3, <3>4, TailElements DEF TypeOK
  <2>4. CASE g \notin InUse
    <3>1. flight_count \in Nat
      BY SizeAssumption DEF TypeOK, Positive
    <3>2. flight_count' # flight_count
      BY <2>4 DEF InUse
    <3>3. flight_count' = flight_count + 1
      BY <3>2, AskedSpawn
    <3>4. g = flight_count
      BY <2>4, <3>1, <3>3 DEF InUse
    <3> QED BY <3>2, <3>4, AskedSpawn
  <2> QED BY <2>3, <2>4
<1> QED BY <1>1, <1>2

\* Once nothing is due any more, nobody is inbound.
LEMMA NoneInbound ==
  ASSUME TypeOK, Asked, AllLater(pq, now), NEW f \in InUse
  PROVE  flights[f].state # "AC_INBOUND"
<1> SUFFICES ASSUME flights[f].state = "AC_INBOUND" PROVE FALSE
  OBVIOUS
<1>1. PICK e \in Range(pq) : e.time <= now
  BY DEF Asked
<1>2. pq \in Seq(AtcEvent(Flights)) /\ now \in Nat
  BY DEF TypeOK
<1>3. now < e.time
  BY <1>1, <1>2, LaterElements
<1>4. e.time \in Nat
  <2>1. e \in AtcEvent(Flights)
    BY <1>1, <1>2, ElementOfSeq, LenProperties DEF Range
  <2> QED BY <2>1 DEF AtcEvent
<1> QED BY <1>1, <1>2, <1>3, <1>4

\* Commands find nobody inbound, and leave it so.
LEMMA AskedCommand ==
  ASSUME TypeOK, Command, \A f \in InUse : flights[f].state # "AC_INBOUND"
  PROVE  \A f \in InUse' : flights'[f].state # "AC_INBOUND"
<1>1. flight_count' = flight_count
  BY Zenon
  DEF Command, sim_cmd_prioritize_inbound, sim_cmd_prioritize_holding,
      sim_cmd_divert, sim_cmd_go_around
<1> SUFFICES ASSUME NEW g \in InUse, flights'[g].state = "AC_INBOUND"
             PROVE  flights[g].state = "AC_INBOUND"
  BY <1>1 DEF InUse
<1>2. g \in Flights /\ flights \in [Flights -> Aircraft]
  BY InUseFlights DEF TypeOK
<1>3. PICK f \in Flights : \/ sim_cmd_prioritize_inbound(f)
                           \/ sim_cmd_prioritize_holding(f)
                           \/ sim_cmd_divert(f) \/ sim_cmd_go_around(f)
  BY DEF Command
<1>4. ASSUME NEW h \in Flights, NEW fl \in [Flights -> Aircraft], NEW rws, NEW ring,
             NEW q, NEW st, try_assign_landing(h, fl, rws, ring, q, st)
      PROVE  fl[g].state = "AC_INBOUND"
  BY <1>2, <1>4, TriesOnly DEF OnlyBy
<1>5. CASE sim_cmd_prioritize_inbound(f) \/ sim_cmd_go_around(f)
  BY <1>2, <1>5 DEF sim_cmd_prioritize_inbound, sim_cmd_go_around, Aircraft
<1>6. CASE sim_cmd_prioritize_holding(f)
  <2> DEFINE fl == [flights EXCEPT ![f].user_priority = TRUE]
  <2>1. fl \in [Flights -> Aircraft] /\ fl[g].state = flights[g].state
    BY <1>2 DEF Aircraft
  <2>2. try_assign_landing(f, fl, runways, holding_remove(holding, f), pq, stats)
    BY <1>6, Zenon DEF sim_cmd_prioritize_holding
  <2> HIDE DEF fl
  <2> QED BY <1>4, <2>1, <2>2
<1>7. CASE sim_cmd_divert(f)
  <2> DEFINE b  == Diverted(flights[f])
             fl == [flights EXCEPT ![f] = b]
             ring == Unqueued(f)
  <2>1. /\ b \in Aircraft /\ b.state = "AC_DIVERTED"
    BY <1>2 DEF Diverted, Aircraft, AircraftState
  <2>0. fl = [flights EXCEPT ![f] = Diverted(@)]
    BY <1>2
  <2> HIDE DEF fl
  <2>2. \/ flights' = fl
        \/ \E rw, st : free_runway(rw, fl, ring, pq, st)
    BY <1>7, <2>0, Zenon DEF sim_cmd_divert
  <2> USE DEF fl
  <2> HIDE DEF b
  <2>3. fl \in [Flights -> Aircraft] /\ (fl[g].state = "AC_INBOUND" => flights[g].state = "AC_INBOUND")
    BY <1>2, <2>1
  <2>4. \/ flights' = fl
        \/ \E k \in holding_pop_priority(ring, fl) : \E rws, r, st :
               try_assign_landing(ring[k], fl, rws, r, pq, st)
    BY <2>2, Zenon DEF free_runway
  <2>5. \A k \in holding_pop_priority(ring, fl) : ring[k] \in Flights
    BY UnqueuedType, ElementOfSeq, LenProperties DEF holding_pop_priority
  <2> HIDE DEF fl, ring
  <2> QED BY <1>4, <2>3, <2>4, <2>5
<1> QED BY <1>3, <1>5, <1>6, <1>7

-----------------------------------------------------------------------------
(* The loop and its queue.                                                 *)

\* While the events of a frame fire, its end is ahead, by no more than a frame
\* is long.
Underway ==
    at = EVENTS =>
        /\ now <= target
        /\ \/ mode = "window" /\ \E d \in FrameTicks : target <= now + d
           \/ mode = "snapshot" /\ target = at_minute

\* Outside its event loop an uncut frame has nothing due.
Complete == at # EVENTS => \A i \in DOMAIN pq : now < pq[i].time

QueueInv == /\ NothingOverdue /\ NothingIdleWhileWanted
            /\ Complete /\ Asked /\ Underway
LoopInv == FrameInv /\ QueueInv

LEMMA LoopInit == AppInit \/ SnapshotInit => LoopInv
<1> SUFFICES ASSUME AppInit \/ SnapshotInit PROVE LoopInv
  OBVIOUS
<1>1. Init /\ now = 0 /\ holding = <<>> /\ taxi_wait = <<>> /\ flight_count = 0
  BY DEF AppInit, SnapshotInit, Init
<1>2. FrameInv /\ NothingOverdue /\ NothingIdleWhileWanted
  BY <1>1, FrameInit, TimingInit DEF NothingIdleWhileWanted
<1>3. Complete
  BY <1>1, InitLater DEF Complete, AllLater
<1>4. Asked
  BY <1>1 DEF Asked, InUse
<1>5. Underway
  BY <1>1, FrameAssumption DEF Underway, AppInit, SnapshotInit, NEW_FRAME, EVENTS
<1> QED BY <1>2, <1>3, <1>4, <1>5 DEF LoopInv, QueueInv

\* A new simulation has nothing due and nobody inbound.
Fresh == /\ NothingOverdue /\ NothingIdleWhileWanted /\ AllLater(pq, now)
         /\ InUse = {}

LEMMA InitFresh == Init => Fresh
BY TimingInit, InitLater DEF Init, Fresh, NothingIdleWhileWanted, InUse

LEMMA AnewFresh == Init' => Fresh'
BY InitFresh, PTL

LEMMA AnewStep ==
  ASSUME Init', at' # EVENTS PROVE QueueInv'
<1>1. /\ NothingOverdue' /\ NothingIdleWhileWanted' /\ AllLater(pq', now')
      /\ InUse' = {}
  BY AnewFresh DEF Fresh, AllLater
<1> QED BY <1>1 DEF QueueInv, Complete, AllLater, Asked, Underway

\* A key or a button that gives a command, or a step without any effect on the
\* simulation.
LEMMA CommandStep ==
  ASSUME LoopInv, at # EVENTS, at' # EVENTS, Command \/ UNCHANGED vars
  PROVE  QueueInv'
<1>1. /\ TypeOK /\ NothingOverdue /\ NothingIdleWhileWanted /\ Asked
      /\ AllLater(pq, now)
  BY DEF LoopInv, FrameInv, QueueInv, Complete, AllLater
<1>2. [Next]_vars
  BY DEF Next
<1>3. NothingOverdue' /\ NothingIdleWhileWanted'
  BY <1>1, <1>2, TimingStep, HandoverStep
<1>4. AllLater(pq', now')
  BY <1>1, CommandLater DEF vars
<1>5. \A f \in InUse : flights[f].state # "AC_INBOUND"
  BY <1>1, NoneInbound
<1>6. \A f \in InUse' : flights'[f].state # "AC_INBOUND"
  BY <1>1, <1>5, AskedCommand DEF vars, InUse
<1>7. Asked'
  BY <1>6 DEF Asked
<1> QED BY <1>3, <1>4, <1>7 DEF QueueInv, Complete, AllLater, Underway

LEMMA BeginStep ==
  ASSUME LoopInv, mode = "window", mode' = mode, begin_events PROVE QueueInv'
<1>1. UNCHANGED vars /\ at' = EVENTS /\ \E d \in FrameTicks : target' = now + d
  BY DEF begin_events
<1>2. now \in Nat
  BY DEF LoopInv, FrameInv, TypeOK
<1>3. NothingOverdue' /\ NothingIdleWhileWanted' /\ Asked'
  BY <1>1 DEF vars, LoopInv, QueueInv, NothingOverdue, NothingIdleWhileWanted,
              NoIdleRunway, NoVacantGate, Asked, InUse
<1>4. Underway'
  BY <1>1, <1>2, TimeAssumption DEF Underway, vars, Positive
<1> QED BY <1>1, <1>3, <1>4 DEF QueueInv, Complete

\* An event fires, not past the end of the frame.
LEMMA FireStep ==
  ASSUME LoopInv, at = EVENTS, DueBy(target), sim_step, TypeOK',
         UNCHANGED <<mode, at, target>>
  PROVE  QueueInv'
<1>1. /\ TypeOK /\ AllTied /\ NothingOverdue /\ NothingIdleWhileWanted /\ Asked
      /\ Underway /\ target \in Nat
  BY DEF LoopInv, FrameInv, QueueInv, Chosen
<1>2. [Next]_vars
  BY DEF Next
<1>3. NothingOverdue' /\ NothingIdleWhileWanted' /\ Asked'
  BY <1>1, <1>2, TimingStep, HandoverStep, AskedStep
<1>4. pq # <<>> /\ now' = Head(pq).time /\ now' <= target
  <2>1. pq # <<>> /\ Head(pq).time <= target
    BY DEF DueBy
  <2>2. now' = Head(pq).time
    BY <2>1, Zenon
    DEF sim_step, queue_exhausted, drop_stale, spawn_aircraft_table_full,
        spawn_aircraft, on_weather_change, on_runway_request,
        on_emergency_moved_on, on_emergency_lost, on_emergency,
        on_touchdown_go_around, on_touchdown, on_taxi_to_gate, on_gate_release,
        on_takeoff_ready, on_takeoff_clear, on_depart_sector, Dispatch, Pop
  <2> QED BY <2>1, <2>2
<1>5. now <= now' /\ now \in Nat /\ now' \in Nat
  BY <1>1, <1>4, HeadFirst DEF TypeOK
<1>6. Underway'
  BY <1>1, <1>4, <1>5, TimeAssumption DEF Underway, Positive
<1> QED BY <1>3, <1>6 DEF QueueInv, Complete

\* The clock goes to the end of the frame, or stays.
LEMMA EndStep ==
  ASSUME LoopInv, at = EVENTS, ~ DueBy(target), at' # EVENTS,
         now' \in {now, target},
         UNCHANGED <<pq, flights, flight_count, runways, gates, holding, taxi_wait>>
  PROVE  QueueInv'
<1>1. /\ TypeOK /\ NothingOverdue /\ NothingIdleWhileWanted /\ Asked
      /\ now <= target /\ target \in Nat /\ now \in Nat
  BY DEF LoopInv, FrameInv, QueueInv, Chosen, Underway, TypeOK
<1>2. now <= now' /\ now' <= target /\ now' \in Nat
  BY <1>1
<1>3. AllLater(pq, target)
  BY <1>1, NoneDue
<1>4. \A i \in DOMAIN pq : pq[i].time \in Nat
  <2>1. \A i \in DOMAIN pq : pq[i] \in AtcEvent(Flights)
    BY <1>1, ElementOfSeq, LenProperties DEF TypeOK
  <2> QED BY <2>1 DEF AtcEvent
<1>5. \A i \in DOMAIN pq : now' < pq[i].time
  BY <1>1, <1>2, <1>3, <1>4 DEF AllLater
<1>6. NothingOverdue' /\ NothingIdleWhileWanted'
  BY <1>1, <1>2, <1>4, <1>5
  DEF NothingOverdue, NothingIdleWhileWanted, NoIdleRunway, NoVacantGate
<1>7. AllLater(pq, now)
  BY <1>1, <1>2, <1>4, <1>5 DEF AllLater
<1>8. Asked'
  BY <1>1, <1>7, NoneInbound DEF Asked, InUse
<1> QED BY <1>5, <1>6, <1>8 DEF QueueInv, Complete, Underway

\* Between two frames Hold finds nobody inbound, and so nobody is held.
LEMMA NothingHeld ==
  ASSUME LoopInv, at # EVENTS, selected # None, Given(selected) PROVE Command
<1>1. /\ TypeOK /\ AllTied /\ Chosen /\ Asked /\ AllLater(pq, now)
  BY DEF LoopInv, FrameInv, QueueInv, Complete, AllLater
<1>2. selected \in InUse /\ selected \in Flights
  BY <1>1, InTable DEF Chosen
<1>3. ~ sim_cmd_hold(selected)
  BY <1>1, <1>2, NoneInbound DEF sim_cmd_hold, Commanded
<1>4. ~ sim_cmd_divert_ringed(selected)
  BY <1>1, <1>2, NoneRinged
<1> QED BY <1>2, <1>3, <1>4 DEF Given, Expedite, Divert, Command

\* A simulation whose frames have not been cut.
UncutInv == ChosenInv /\ (~ cut => LoopInv)

LEMMA StaysUncut ==
  ASSUME [AppNext]_appVars, ~ cut', ~ reset
  PROVE  /\ ~ cut
         /\ end_events \/ snapshot_taken => ~ DueBy(target) \/ guard \notin Nat
<1>1. CASE UNCHANGED appVars /\ ~ AppNext
  <2>1. ~ (end_events \/ snapshot_taken)
    BY <1>1 DEF appVars, end_events, snapshot_taken, EVENTS, PICTURE
  <2> QED BY <1>1, <2>1 DEF appVars
<1>2. CASE KeyCommand
  <2>1. at # EVENTS /\ cut' = cut
    BY <1>2, KeyStep
  <2> QED BY <2>1 DEF end_events, snapshot_taken
<1>3. CASE \/ toggle_pause \/ pick_aircraft \/ begin_events \/ fire
           \/ no_events \/ end_frame \/ snapshot_step
  <2>1. cut' = cut
    BY <1>3 DEF toggle_pause, pick_aircraft, begin_events, fire, no_events,
                end_frame, snapshot_step
  <2>2. ~ (end_events \/ snapshot_taken)
    BY <1>3 DEF toggle_pause, pick_aircraft, begin_events, fire, no_events,
                end_frame, snapshot_step, Pressed, end_events, snapshot_taken,
                KEY_SPACE, CLICK, EVENTS, PICTURE, NEW_FRAME
  <2> QED BY <2>1, <2>2
<1>4. CASE end_events
  <2>1. FRAME_EVENTS \in Nat
    BY FrameAssumption DEF Positive
  <2>2. ~ (cut \/ (DueBy(target) /\ FRAME_EVENTS <= guard))
    BY <1>4, Zenon DEF end_events
  <2>3. ~ DueBy(target) \/ ~ guard < FRAME_EVENTS
    BY <1>4, Zenon DEF end_events, Due
  <2> QED BY <2>1, <2>2, <2>3
<1>5. CASE snapshot_taken
  BY <1>5 DEF snapshot_taken
<1> QED BY <1>1, <1>2, <1>3, <1>4, <1>5, AppSteps

LEMMA LoopStep ==
  ASSUME UncutInv, [AppNext]_appVars, ~ cut' PROVE LoopInv'
<1>1. CASE reset
  <2>1. TypeOK' /\ AllTied' /\ QueueInv'
    BY <1>1, RestartInit, InitHolds, AnewStep
    DEF reset, Pressed, KEY_R, EVENTS, UncutInv, ChosenInv
  <2>2. ChosenInv'
    BY ChosenStep DEF UncutInv
  <2> QED BY <2>1, <2>2 DEF ChosenInv, LoopInv, FrameInv
<1> SUFFICES ASSUME ~ reset PROVE LoopInv'
  BY <1>1
<1>2. LoopInv
  BY StaysUncut DEF UncutInv
<1>3. FrameInv /\ FrameInv' /\ TypeOK'
  <2>1. ChosenInv /\ FrameInv /\ TypeOK /\ AllTied /\ Chosen
    BY <1>2, FrameChosen DEF LoopInv, FrameInv
  <2>2. CoreStep \/ UNCHANGED vars
    BY <1>2, <2>1, StepOfFrame, NothingHeld DEF appVars, CoreStep
  <2>3. ChosenInv' /\ AllTied'
    BY <2>1, <2>2, ChosenStep, CoreStepTies
  <2> QED BY <2>1, <2>3 DEF ChosenInv, FrameInv
<1>4. CASE UNCHANGED appVars
  <2>1. LoopInv' <=> LoopInv
    BY <1>4
    DEF appVars, vars, LoopInv, QueueInv, NothingOverdue, NothingIdleWhileWanted,
        NoIdleRunway, NoVacantGate, Complete, Asked, InUse, Underway, FrameInv,
        TypeOK, AllTied, Chosen, SelectionLive, Live
  <2> QED BY <1>2, <2>1
<1>5. CASE (toggle_pause \/ pick_aircraft \/ no_events)
  BY <1>2, <1>3, <1>5, CommandStep
  DEF toggle_pause, pick_aircraft, no_events, Pressed, KEY_SPACE, CLICK, EVENTS,
      PICTURE, LoopInv
<1>6. CASE KeyCommand
  <2>1. Command
    BY <1>2, <1>6, KeyStep, NothingHeld
  <2> QED BY <1>2, <1>3, <1>6, <2>1, KeyStep, CommandStep DEF LoopInv
<1>7. CASE begin_events /\ mode = "window" /\ mode' = mode
  BY <1>2, <1>3, <1>7, BeginStep DEF LoopInv
<1>8. CASE (fire \/ snapshot_step) /\ mode' = mode
  BY <1>2, <1>3, <1>8, FireStep DEF fire, snapshot_step, Due, DueBy, LoopInv
<1>9. CASE end_events \/ snapshot_taken
  <2>1. ~ DueBy(target)
    BY <1>3, <1>9, StaysUncut DEF FrameInv, Chosen
  <2>2. /\ at = EVENTS /\ at' # EVENTS /\ now' \in {now, target}
        /\ UNCHANGED <<pq, flights, flight_count, runways, gates, holding, taxi_wait>>
    BY <1>9 DEF end_events, snapshot_taken, EVENTS, PICTURE
  <2> QED BY <1>2, <1>3, <2>1, <2>2, EndStep DEF LoopInv
<1>10. CASE end_frame
  <2>1. at # EVENTS /\ at' # EVENTS /\ (button \/ UNCHANGED vars)
    BY <1>10 DEF end_frame, PICTURE, NEW_FRAME, EVENTS
  <2>2. Command \/ UNCHANGED vars
    BY <1>2, <2>1, ButtonStep, NothingHeld
  <2> QED BY <1>2, <1>3, <2>1, <2>2, CommandStep DEF LoopInv
<1>11. mode' = mode \/ UNCHANGED appVars
  BY DEF AppNext, In, appVars
<1> QED BY <1>4, <1>5, <1>6, <1>7, <1>8, <1>9, <1>10, <1>11, AppSteps

LEMMA LoopsOn == AppSpec => []UncutInv
<1>1. AppInit \/ SnapshotInit => UncutInv
  BY ChosenInit, LoopInit DEF UncutInv
<1>2. UncutInv /\ [AppNext]_appVars => UncutInv'
  BY ChosenStep, LoopStep DEF UncutInv
<1> QED BY <1>1, <1>2, PTL DEF AppSpec

\* As long as its limit of events cuts no frame, commands and drawing always see
\* a simulation in which everything due has fired: whatever the keys, the resets
\* and the commands that push new events.
THEOREM FramesComplete == AppSpec => []FrameComplete
<1>1. UncutInv => FrameComplete
  BY DEF UncutInv, LoopInv, QueueInv, Complete, FrameComplete
<1> QED BY <1>1, LoopsOn, PTL

\* ... and no key and no button meets an inbound flight: the event that moves it
\* on is due when it appears, and so is the fuel check that takes its place when
\* it declares an emergency.
THEOREM NobodyLeftInbound == AppSpec => []NobodyInbound
<1>1. UncutInv => NobodyInbound
  BY NoneInbound
  DEF UncutInv, LoopInv, QueueInv, FrameInv, Complete, AllLater, NobodyInbound
<1> QED BY <1>1, LoopsOn, PTL

-----------------------------------------------------------------------------
(* The core inside the loop is Sector: Core gives its frames another       *)
(* length, on which nothing but the clock depends.                         *)

LEMMA SameConstants ==
  /\ Core!PRIO_EMERGENCY = PRIO_EMERGENCY /\ Core!PRIO_LANDING = PRIO_LANDING
  /\ Core!PRIO_TAKEOFF = PRIO_TAKEOFF /\ Core!PRIO_ROUTINE = PRIO_ROUTINE
  /\ Core!None = None /\ Core!Gone = Gone /\ Core!Blank = Blank
  /\ Core!Flights = Flights /\ Core!Runways = Runways /\ Core!Gates = Gates
BY DEF PRIO_EMERGENCY, PRIO_LANDING, PRIO_TAKEOFF, PRIO_ROUTINE,
       Core!PRIO_EMERGENCY, Core!PRIO_LANDING, Core!PRIO_TAKEOFF, Core!PRIO_ROUTINE,
       None, Core!None, Gone, Core!Gone, Blank, Core!Blank,
       Flights, Core!Flights, Runways, Core!Runways, Gates, Core!Gates

LEMMA SamePush == ASSUME NEW q, NEW e PROVE Core!pq_push(q, e) = pq_push(q, e)
<1>1. \A S : Core!Cardinality(S) = Cardinality(S)
  BY DEF Cardinality, Core!Cardinality
<1>2. \A i : Core!InsertAt(q, i, e) = InsertAt(q, i, e)
  BY Zenon DEF InsertAt, Core!InsertAt
<1> QED BY <1>1, <1>2 DEF pq_push, Core!pq_push, ev_less, Core!ev_less

LEMMA SamePlan ==
  ASSUME NEW q, NEW f, NEW type, NEW time, NEW weight
  PROVE  Core!schedule(q, f, type, time, weight) = schedule(q, f, type, time, weight)
BY SamePush, Zenon DEF schedule, Core!schedule

LEMMA SameWeight == ASSUME NEW a PROVE Core!LandingWeight(a) = LandingWeight(a)
BY SameConstants, Zenon DEF LandingWeight, Core!LandingWeight

LEMMA SameCheck ==
  ASSUME NEW q, NEW f, NEW a, NEW delay
  PROVE  Core!CheckFuelAfter(q, f, a, delay) = CheckFuelAfter(q, f, a, delay)
BY SamePlan, SameWeight, Zenon DEF CheckFuelAfter, Core!CheckFuelAfter

LEMMA SameRequest ==
  ASSUME NEW q, NEW f PROVE Core!RequestRunway(q, f) = RequestRunway(q, f)
BY SamePlan, SameConstants, Zenon DEF RequestRunway, Core!RequestRunway

LEMMA SameWeather ==
  ASSUME NEW q, NEW time, NEW gap
  PROVE  Core!schedule_weather(q, time, gap) = schedule_weather(q, time, gap)
BY SamePlan, SameConstants, Zenon DEF schedule_weather, Core!schedule_weather

LEMMA SameHolding ==
  ASSUME NEW ring, NEW f
  PROVE  /\ Core!holding_push(ring, f) = holding_push(ring, f)
         /\ Core!holding_remove(ring, f) = holding_remove(ring, f)
<1>1. Core!holding_push(ring, f) = holding_push(ring, f)
  BY Zenon DEF holding_push, Core!holding_push
<1>2. Core!holding_remove(ring, f) = holding_remove(ring, f)
  BY DEF holding_remove, Core!holding_remove, Cardinality, Core!Cardinality
<1> QED BY <1>1, <1>2

LEMMA SameUnqueued == ASSUME NEW f PROVE Core!Unqueued(f) = Unqueued(f)
BY SameHolding, Zenon DEF Unqueued, Core!Unqueued

LEMMA SamePop ==
  ASSUME NEW ring, NEW fl
  PROVE  Core!holding_pop_priority(ring, fl) = holding_pop_priority(ring, fl)
BY DEF holding_pop_priority, Core!holding_pop_priority

LEMMA SameIdle ==
  ASSUME NEW rws
  PROVE  /\ Core!find_idle_runway(rws) = find_idle_runway(rws)
         /\ Core!NoIdleRunway(rws) = NoIdleRunway(rws)
BY SameConstants DEF find_idle_runway, Core!find_idle_runway, NoIdleRunway, Core!NoIdleRunway

LEMMA SameVacant ==
  ASSUME NEW gts
  PROVE  /\ Core!find_vacant_gate(gts) = find_vacant_gate(gts)
         /\ Core!NoVacantGate(gts) = NoVacantGate(gts)
BY SameConstants DEF find_vacant_gate, Core!find_vacant_gate, NoVacantGate, Core!NoVacantGate

LEMMA SameDecay == ASSUME NEW a PROVE Core!decay_fuel(a) = decay_fuel(a)
BY Zenon DEF decay_fuel, Core!decay_fuel

LEMMA SameWait ==
  ASSUME NEW a, NEW st, NEW w
  PROVE  Core!Waited(a) = Waited(a) /\ Core!record_wait(st, w) = record_wait(st, w)
BY Zenon DEF Waited, Core!Waited, record_wait, Core!record_wait

LEMMA SameOccupancy ==
  ASSUME NEW base, NEW wake PROVE Core!Occupancy(base, wake) = Occupancy(base, wake)
BY DEF Occupancy, Core!Occupancy, wake_factor, Core!wake_factor,
       weather_runway_factor, Core!weather_runway_factor

LEMMA SameDeclares ==
  ASSUME NEW a, NEW st
  PROVE  Core!Declares(a) = Declares(a) /\ Core!DeclaredIn(st) = DeclaredIn(st)
BY Zenon DEF Declares, Core!Declares, DeclaredIn, Core!DeclaredIn

LEMMA SameClear ==
  ASSUME NEW f, NEW rw, NEW fl, NEW rws, NEW ring, NEW q, NEW st, NEW weight,
         ClearToLand(f, rw, fl, rws, ring, q, st, weight)
  PROVE  Core!ClearToLand(f, rw, fl, rws, ring, q, st, weight)
BY SameWait, SameOccupancy, SamePlan, Zenon DEF ClearToLand, Core!ClearToLand

LEMMA SameTryAssign ==
  ASSUME NEW f, NEW fl, NEW rws, NEW ring, NEW q, NEW st,
         try_assign_landing(f, fl, rws, ring, q, st)
  PROVE  Core!try_assign_landing(f, fl, rws, ring, q, st)
<1>1. EnterHolding(f, fl, rws, ring, q, st, HOLD_RECHECK)
          => Core!EnterHolding(f, fl, rws, ring, q, st, HOLD_RECHECK)
  BY SameCheck, SameHolding, Zenon DEF EnterHolding, Core!EnterHolding
<1> QED BY <1>1, SameClear, SameIdle, SameWeight, Zenon
        DEF try_assign_landing, Core!try_assign_landing

LEMMA SameFreeRunway ==
  ASSUME NEW rw, NEW fl, NEW ring, NEW q, NEW st, free_runway(rw, fl, ring, q, st)
  PROVE  Core!free_runway(rw, fl, ring, q, st)
<1>1. \A k : Core!RemoveAt(ring, k) = RemoveAt(ring, k)
  BY Zenon DEF RemoveAt, Core!RemoveAt
<1> QED BY <1>1, SameTryAssign, SamePop, SameConstants, Zenon
        DEF free_runway, Core!free_runway

LEMMA SameTryAssignGate ==
  ASSUME NEW f, NEW fl, NEW gts, NEW ring, NEW q, try_assign_gate(f, fl, gts, ring, q)
  PROVE  Core!try_assign_gate(f, fl, gts, ring, q)
BY SameWait, SameVacant, SamePlan, SameConstants, Zenon
DEF try_assign_gate, Core!try_assign_gate, AwaitGate, Core!AwaitGate

LEMMA SameDispatch ==
  ASSUME NEW type, NEW f
  PROVE  /\ Pop(type) => Core!Pop(type)
         /\ Dispatch(type, f) => Core!Dispatch(type, f)
BY SameConstants, Zenon DEF Pop, Core!Pop, Dispatch, Core!Dispatch

LEMMA SameSources ==
  /\ queue_exhausted => Core!queue_exhausted
  /\ drop_stale => Core!drop_stale
  /\ spawn_aircraft_table_full => Core!spawn_aircraft_table_full
  /\ spawn_aircraft => Core!spawn_aircraft
  /\ on_weather_change => Core!on_weather_change
<1>1. /\ queue_exhausted => Core!queue_exhausted
      /\ drop_stale => Core!drop_stale
      /\ spawn_aircraft_table_full => Core!spawn_aircraft_table_full
  BY SameConstants, SameDispatch, Zenon
  DEF queue_exhausted, Core!queue_exhausted, vars, Core!vars, drop_stale,
      Core!drop_stale, spawn_aircraft_table_full, Core!spawn_aircraft_table_full
<1>2. spawn_aircraft => Core!spawn_aircraft
  BY SameConstants, SameDispatch, SamePlan, SameRequest, Zenon DEF spawn_aircraft, Core!spawn_aircraft
<1>3. on_weather_change => Core!on_weather_change
  BY SameDispatch, SameWeather, Zenon DEF on_weather_change, Core!on_weather_change
<1> QED BY <1>1, <1>2, <1>3

LEMMA SameArrival ==
  ASSUME NEW f
  PROVE  /\ on_runway_request(f) => Core!on_runway_request(f)
         /\ on_emergency_moved_on(f) => Core!on_emergency_moved_on(f)
         /\ on_emergency_lost(f) => Core!on_emergency_lost(f)
         /\ on_emergency(f) => Core!on_emergency(f)
<1>1. on_runway_request(f) => Core!on_runway_request(f)
  BY SameDispatch, SameDecay, SameDeclares, SameTryAssign, SamePlan, SameConstants, Zenon
  DEF on_runway_request, Core!on_runway_request
<1>2. /\ on_emergency_moved_on(f) => Core!on_emergency_moved_on(f)
      /\ on_emergency_lost(f) => Core!on_emergency_lost(f)
  BY SameDispatch, SameDecay, SameUnqueued, Zenon
  DEF on_emergency_moved_on, Core!on_emergency_moved_on, on_emergency_lost,
      Core!on_emergency_lost
<1>3. on_emergency(f) => Core!on_emergency(f)
  BY SameDispatch, SameDecay, SameDeclares, SameUnqueued, SameHolding, SameIdle,
     SameClear, SameCheck, SameConstants, Zenon
  DEF on_emergency, Core!on_emergency
<1> QED BY <1>1, <1>2, <1>3

LEMMA SameLanding ==
  ASSUME NEW f
  PROVE  /\ on_touchdown_go_around(f) => Core!on_touchdown_go_around(f)
         /\ on_touchdown(f) => Core!on_touchdown(f)
         /\ on_taxi_to_gate(f) => Core!on_taxi_to_gate(f)
<1>1. on_touchdown_go_around(f) => Core!on_touchdown_go_around(f)
  BY SameDispatch, SameDecay, SameHolding, SameFreeRunway, SameCheck, SameConstants, Zenon
  DEF on_touchdown_go_around, Core!on_touchdown_go_around
<1>2. on_touchdown(f) => Core!on_touchdown(f)
  BY SameDispatch, SameDecay, SameFreeRunway, SamePlan, SameConstants, Zenon
  DEF on_touchdown, Core!on_touchdown
<1>3. on_taxi_to_gate(f) => Core!on_taxi_to_gate(f)
  BY SameDispatch, SameTryAssignGate, Zenon DEF on_taxi_to_gate, Core!on_taxi_to_gate
<1> QED BY <1>1, <1>2, <1>3

LEMMA SameDeparture ==
  ASSUME NEW f
  PROVE  /\ on_gate_release(f) => Core!on_gate_release(f)
         /\ on_takeoff_ready(f) => Core!on_takeoff_ready(f)
         /\ on_takeoff_clear(f) => Core!on_takeoff_clear(f)
         /\ on_depart_sector(f) => Core!on_depart_sector(f)
<1>1. on_gate_release(f) => Core!on_gate_release(f)
  BY SameDispatch, SameTryAssignGate, SamePlan, SameConstants, Zenon
  DEF on_gate_release, Core!on_gate_release
<1>2. on_takeoff_ready(f) => Core!on_takeoff_ready(f)
  BY SameDispatch, SameWait, SameOccupancy, SameIdle, SamePlan, SameConstants, Zenon
  DEF on_takeoff_ready, Core!on_takeoff_ready
<1>3. on_takeoff_clear(f) => Core!on_takeoff_clear(f)
  BY SameDispatch, SameFreeRunway, SamePlan, SameConstants, Zenon
  DEF on_takeoff_clear, Core!on_takeoff_clear
<1>4. on_depart_sector(f) => Core!on_depart_sector(f)
  BY SameDispatch, Zenon DEF on_depart_sector, Core!on_depart_sector
<1> QED BY <1>1, <1>2, <1>3, <1>4

LEMMA SameStep == sim_step => Core!sim_step
BY SameSources, SameArrival, SameLanding, SameDeparture, SameConstants, Zenon
DEF sim_step, Core!sim_step

LEMMA SameCommand == Command => Core!Command
<1>1. ASSUME NEW f
      PROVE  /\ sim_cmd_prioritize_inbound(f) => Core!sim_cmd_prioritize_inbound(f)
             /\ sim_cmd_go_around(f) => Core!sim_cmd_go_around(f)
  BY Zenon DEF sim_cmd_prioritize_inbound, Core!sim_cmd_prioritize_inbound,
               sim_cmd_go_around, Core!sim_cmd_go_around, Commanded, Core!Commanded
<1>2. ASSUME NEW f, sim_cmd_prioritize_holding(f)
      PROVE  Core!sim_cmd_prioritize_holding(f)
  BY <1>2, SameTryAssign, SameHolding, Zenon
  DEF sim_cmd_prioritize_holding, Core!sim_cmd_prioritize_holding, Commanded,
      Core!Commanded
<1>3. ASSUME NEW f, sim_cmd_divert(f) PROVE Core!sim_cmd_divert(f)
  BY <1>3, SameFreeRunway, SameUnqueued, SameConstants, Zenon
  DEF sim_cmd_divert, Core!sim_cmd_divert, Commanded, Core!Commanded, Ringed,
      Core!Ringed, Diverted, Core!Diverted, DivertedIn, Core!DivertedIn
<1> QED BY <1>1, <1>2, <1>3, SameConstants, Zenon DEF Command, Core!Command

LEMMA SameInit == Init => Core!Init
BY SameConstants, SamePlan, SameWeather, Zenon DEF Init, Core!Init

LEMMA SameAnew == Init' => Core!Init'
BY SameInit, PTL

-----------------------------------------------------------------------------
(* The clock of the loop.                                                  *)

Lengths == FrameTicks \cup {at_minute}

LEMMA LongestFrame ==
  ASSUME NEW d \in Lengths PROVE Max(Lengths) \in Nat /\ d <= Max(Lengths)
<1>1. Lengths \subseteq Nat
  BY TimeAssumption, FrameAssumption DEF Lengths, Positive
<1>2. PICK longest \in FrameTicks : \A e \in FrameTicks : e <= longest
  BY FrameAssumption
<1>3. \E x \in Lengths : \A y \in Lengths : x >= y
  <2>1. CASE longest >= at_minute
    BY <1>2, <2>1 DEF Lengths
  <2>2. CASE ~ (longest >= at_minute)
    <3>1. longest \in Nat /\ at_minute \in Nat
      BY <1>1 DEF Lengths
    <3>2. \A e \in FrameTicks : e \in Nat /\ at_minute >= e
      BY <1>1, <1>2, <2>2, <3>1 DEF Lengths
    <3> QED BY <3>1, <3>2 DEF Lengths
  <2> QED BY <2>1, <2>2
<1>4. Max(Lengths) \in Lengths /\ \A y \in Lengths : Max(Lengths) >= y
  BY <1>3, Zenon DEF Max
<1> QED BY <1>1, <1>4

LEMMA AdvancesCore ==
  ASSUME pq # <<>>, now \in Nat, target \in Nat, now < target, now' = target,
         NEW d \in Lengths, target <= now + d, target < Head(pq).time,
         UNCHANGED <<pq, flights, flight_count, runways, gates, holding, taxi_wait,
                     weather, spawning_done, stats>>
  PROVE  Core!AdvanceClock
<1> DEFINE e == target - now
<1>1. d \in Nat /\ Max(Lengths) \in Nat /\ d <= Max(Lengths)
  BY LongestFrame, TimeAssumption, FrameAssumption DEF Lengths, Positive
<1>2. e \in 1 .. Max(Lengths) /\ now + e = target
  BY <1>1
<1> HIDE DEF e
<1>3. e \in 1 .. Max(FrameTicks \cup {at_minute})
  BY <1>2 DEF Lengths
<1> QED BY <1>2, <1>3 DEF Core!AdvanceClock

LEMMA EndInCore ==
  ASSUME LoopInv, ~ DueBy(target),
         (end_events /\ mode = "window") \/ (snapshot_taken /\ mode = "snapshot")
  PROVE  Core!AdvanceClock \/ ClockAlone \/ UNCHANGED vars
<1>1. /\ TypeOK /\ NothingOverdue /\ Underway
      /\ target \in Nat /\ now \in Nat
  BY DEF LoopInv, FrameInv, QueueInv, Chosen, TypeOK
<1>2. at = EVENTS /\ ~ DueBy(target)
  BY DEF end_events, snapshot_taken
<1>3. UNCHANGED <<pq, flights, flight_count, runways, gates, holding, taxi_wait,
                  weather, spawning_done, stats>>
  BY DEF end_events, snapshot_taken
<1>4. CASE now' = now
  BY <1>3, <1>4 DEF vars
<1>5. CASE now' # now
  <2>1. now < target /\ now' = target /\ (pq = <<>> => snapshot_taken)
    BY <1>5 DEF end_events, snapshot_taken
  <2>2. CASE pq = <<>>
    BY <1>1, <1>3, <2>1, <2>2 DEF ClockAlone
  <2>3. CASE pq # <<>>
    <3>1. Head(pq).time \in Nat
      BY <1>1, <2>3, HeadFirst DEF AtcEvent
    <3>2. target < Head(pq).time
      BY <1>1, <1>2, <2>3, <3>1 DEF DueBy
    <3>3. PICK d \in Lengths : target <= now + d
      BY <1>1, <1>2, FrameAssumption DEF Underway, Lengths
    <3> QED BY <1>1, <1>3, <2>1, <2>3, <3>2, <3>3, AdvancesCore
  <2> QED BY <2>2, <2>3
<1> QED BY <1>4, <1>5

LEMMA StepInCore ==
  ASSUME UncutInv, [AppNext]_appVars, ~ cut'
  PROVE  [Core!Next \/ Core!Init' \/ ClockAlone]_vars
<1>1. TypeOK /\ (reset \/ LoopInv)
  BY StaysUncut DEF UncutInv, ChosenInv
<1>2. CASE UNCHANGED appVars \/ toggle_pause \/ pick_aircraft \/ begin_events \/ no_events
  BY <1>2 DEF appVars, toggle_pause, pick_aircraft, begin_events, no_events
<1>3. CASE reset
  BY <1>1, <1>3, RestartInit, SameAnew DEF reset
<1>4. CASE KeyCommand /\ ~ reset
  BY <1>1, <1>4, KeyStep, NothingHeld, SameCommand DEF Core!Next
<1>5. CASE fire \/ snapshot_step
  BY <1>5, SameStep DEF fire, snapshot_step, Core!Next
<1>6. CASE /\ ~ reset
           /\ (end_events /\ mode = "window") \/ (snapshot_taken /\ mode = "snapshot")
  <2>1. ~ DueBy(target)
    BY <1>1, <1>6, StaysUncut DEF LoopInv, FrameInv, Chosen
  <2> QED BY <1>1, <1>6, <2>1, EndInCore DEF Core!Next
<1>7. CASE end_frame /\ ~ reset
  <2>1. at # EVENTS /\ (button \/ UNCHANGED vars)
    BY <1>7 DEF end_frame, PICTURE, EVENTS
  <2> QED BY <1>1, <1>7, <2>1, ButtonStep, NothingHeld, SameCommand DEF Core!Next
<1> QED BY <1>2, <1>3, <1>4, <1>5, <1>6, <1>7, AppSteps

\* The loop refines the core: a simulation of which its limit of events cuts no
\* frame undergoes nothing that Sector does not allow, events in their order,
\* commands, a clock that never passes what is pending, and beginning anew.
THEOREM LoopKeepsCoreRules == AppSpec => KeepsCoreRules
<1>1. UncutInv /\ [AppNext]_appVars
          => [~ cut' => Core!Next \/ Core!Init' \/ ClockAlone]_vars
  BY StepInCore
<1> QED BY <1>1, LoopsOn, PTL DEF AppSpec, KeepsCoreRules

-----------------------------------------------------------------------------
(* What is told: the counters of the dashboard, by the kind of line.       *)

Dashboard(st) ==
    [k \in Counted |-> CASE k = "inbound"   -> st.flights_spawned
                         [] k = "emergency" -> st.emergencies
                         [] k = "lost"      -> st.flights_lost
                         [] k = "go_around" -> st.go_arounds
                         [] k = "departed"  -> st.flights_departed
                         [] k = "diverted"  -> st.flights_diverted]

\* One more line of this kind, if it is one that is counted.
OneMore(t, kind) == [k \in Counted |-> t[k] + IF k = kind THEN 1 ELSE 0]

LEMMA WaitsUncounted ==
  ASSUME NEW st \in SimStats, NEW w
  PROVE  Dashboard(record_wait(st, w)) = Dashboard(st)
BY DEF Dashboard, record_wait, SimStats, Counted

LEMMA TryAssignUncounted ==
  ASSUME NEW f, NEW fl, NEW rws, NEW ring, NEW q, NEW st \in SimStats,
         try_assign_landing(f, fl, rws, ring, q, st)
  PROVE  Dashboard(stats') = Dashboard(st)
<1>1. (\E w : stats' = record_wait(st, w)) \/ stats' = st
  BY Zenon DEF try_assign_landing, ClearToLand, EnterHolding
<1> QED BY <1>1, WaitsUncounted

LEMMA FreeRunwayUncounted ==
  ASSUME NEW rw, NEW fl, NEW ring, NEW q, NEW st \in SimStats,
         free_runway(rw, fl, ring, q, st)
  PROVE  Dashboard(stats') = Dashboard(st)
<1>1. \/ stats' = st
      \/ \E f, rws, r : try_assign_landing(f, fl, rws, r, q, st)
  BY Zenon DEF free_runway
<1> QED BY <1>1, TryAssignUncounted

LEMMA TryAssignGateUncounted ==
  ASSUME TypeOK, NEW f, NEW fl, NEW gts, NEW ring, NEW q,
         try_assign_gate(f, fl, gts, ring, q)
  PROVE  Dashboard(stats') = Dashboard(stats)
<1>1. (\E w : stats' = record_wait(stats, w)) \/ stats' = stats
  BY Zenon DEF try_assign_gate
<1>2. stats \in SimStats
  BY DEF TypeOK
<1> QED BY <1>1, <1>2, WaitsUncounted

\* The counters that the handlers and commands themselves raise.
LEMMA Raised ==
  ASSUME NEW st \in SimStats
  PROVE  /\ DeclaredIn(st) \in SimStats
         /\ Dashboard(DeclaredIn(st)) = OneMore(Dashboard(st), "emergency")
         /\ [st EXCEPT !.go_arounds = @ + 1, !.score = @ - 3] \in SimStats
         /\ Dashboard([st EXCEPT !.go_arounds = @ + 1, !.score = @ - 3])
                = OneMore(Dashboard(st), "go_around")
         /\ [st EXCEPT !.flights_landed = @ + 1] \in SimStats
         /\ Dashboard([st EXCEPT !.flights_landed = @ + 1]) = Dashboard(st)
         /\ [st EXCEPT !.flights_diverted = @ + 1, !.score = @ - 12] \in SimStats
         /\ Dashboard([st EXCEPT !.flights_diverted = @ + 1, !.score = @ - 12])
                = OneMore(Dashboard(st), "diverted")
         /\ Dashboard([st EXCEPT !.flights_spawned = @ + 1])
                = OneMore(Dashboard(st), "inbound")
         /\ Dashboard([st EXCEPT !.flights_lost = @ + 1, !.score = @ - 50])
                = OneMore(Dashboard(st), "lost")
         /\ \A n : Dashboard([st EXCEPT !.flights_departed = @ + 1, !.score = n])
                = OneMore(Dashboard(st), "departed")
<1>1. /\ st.flights_spawned \in Nat /\ st.flights_lost \in Nat
      /\ st.flights_departed \in Nat /\ st.flights_diverted \in Nat
      /\ st.emergencies \in Nat /\ st.go_arounds \in Nat
      /\ st.flights_landed \in Nat /\ st.score \in Int
  BY DEF SimStats
<1>2. /\ DeclaredIn(st) \in SimStats
      /\ [st EXCEPT !.go_arounds = @ + 1, !.score = @ - 3] \in SimStats
      /\ [st EXCEPT !.flights_landed = @ + 1] \in SimStats
      /\ [st EXCEPT !.flights_diverted = @ + 1, !.score = @ - 12] \in SimStats
  <2>1. DeclaredIn(st) \in SimStats
    BY DeclaredType
  <2>2. [st EXCEPT !.go_arounds = @ + 1, !.score = @ - 3] \in SimStats
    <3> DEFINE count == st.go_arounds + 1
               score == st.score - 3
    <3>1. count \in Nat /\ score \in Int
      BY <1>1
    <3>2. [st EXCEPT !.go_arounds = @ + 1, !.score = @ - 3]
             = [st EXCEPT !.go_arounds = count, !.score = score]
      BY DEF SimStats
    <3> HIDE DEF count, score
    <3> QED BY <3>1, <3>2 DEF SimStats
  <2>3. [st EXCEPT !.flights_landed = @ + 1] \in SimStats
    BY <1>1 DEF SimStats
  <2>4. [st EXCEPT !.flights_diverted = @ + 1, !.score = @ - 12] \in SimStats
    <3> DEFINE count == st.flights_diverted + 1
               score == st.score - 12
    <3>1. count \in Nat /\ score \in Int
      BY <1>1
    <3>2. [st EXCEPT !.flights_diverted = @ + 1, !.score = @ - 12]
             = [st EXCEPT !.flights_diverted = count, !.score = score]
      BY DEF SimStats
    <3> HIDE DEF count, score
    <3> QED BY <3>1, <3>2 DEF SimStats
  <2> QED BY <2>1, <2>2, <2>3, <2>4
<1>3. Dashboard(DeclaredIn(st)) = OneMore(Dashboard(st), "emergency")
  BY <1>1 DEF DeclaredIn, SimStats, Dashboard, OneMore, Counted
<1>4. Dashboard([st EXCEPT !.go_arounds = @ + 1, !.score = @ - 3])
          = OneMore(Dashboard(st), "go_around")
  BY <1>1 DEF SimStats, Dashboard, OneMore, Counted
<1>5. Dashboard([st EXCEPT !.flights_landed = @ + 1]) = Dashboard(st)
  BY <1>1 DEF SimStats, Dashboard, Counted
<1>6. Dashboard([st EXCEPT !.flights_diverted = @ + 1, !.score = @ - 12])
          = OneMore(Dashboard(st), "diverted")
  BY <1>1 DEF SimStats, Dashboard, OneMore, Counted
<1>7. Dashboard([st EXCEPT !.flights_spawned = @ + 1])
          = OneMore(Dashboard(st), "inbound")
  BY <1>1 DEF SimStats, Dashboard, OneMore, Counted
<1>8. Dashboard([st EXCEPT !.flights_lost = @ + 1, !.score = @ - 50])
          = OneMore(Dashboard(st), "lost")
  BY <1>1 DEF SimStats, Dashboard, OneMore, Counted
<1>9. ASSUME NEW n
      PROVE  Dashboard([st EXCEPT !.flights_departed = @ + 1, !.score = n])
                = OneMore(Dashboard(st), "departed")
  BY <1>1 DEF SimStats, Dashboard, OneMore, Counted
<1> QED BY <1>2, <1>3, <1>4, <1>5, <1>6, <1>7, <1>8, <1>9

LEMMA Uncounted ==
  ASSUME NEW st \in SimStats, NEW kind, kind \notin Counted
  PROVE  OneMore(Dashboard(st), kind) = Dashboard(st)
BY DEF SimStats, Dashboard, OneMore, Counted

\* Lines that a handler or a command logs and counters that it raises.
Tallied(kind) == Dashboard(stats') = OneMore(Dashboard(stats), kind)
Untallied == Dashboard(stats') = Dashboard(stats)

LEMMA LowersDeclares ==
  ASSUME NEW a \in Aircraft, now' \in Nat
  PROVE  Declares([decay_fuel(a) EXCEPT !.queue_enter_time = now'])
             <=> Declares(decay_fuel(a))
<1>1. decay_fuel(a) \in Aircraft
  BY DecayType
<1> QED BY <1>1 DEF Declares, Aircraft

LEMMA PoppedTime ==
  ASSUME TypeOK, NEW f \in Flights,
         \/ on_runway_request(f) \/ on_emergency_moved_on(f) \/ on_emergency_lost(f)
         \/ on_emergency(f)
  PROVE  now' \in Nat
<1>1. pq # <<>> /\ now' = Head(pq).time
  BY Zenon DEF on_runway_request, on_emergency_moved_on, on_emergency_lost, on_emergency,
               Dispatch, Pop
<1> QED BY <1>1, PopType

LEMMA RequestTallied ==
  ASSUME TypeOK, NEW f \in Flights, on_runway_request(f)
  PROVE  IF Lowers(f) THEN Tallied("emergency") ELSE Untallied
<1> DEFINE a  == [decay_fuel(flights[f]) EXCEPT !.queue_enter_time = now']
           fl == [flights EXCEPT ![f] = a]
<1>1. stats \in SimStats /\ flights[f] \in Aircraft /\ now' \in Nat
  BY PoppedTime DEF TypeOK
<1>2. \/ Declares(a) /\ stats' = DeclaredIn(stats)
      \/ /\ ~ Declares(a)
         /\ try_assign_landing(f, fl, runways, holding, Tail(pq), stats)
  BY Zenon DEF on_runway_request
<1>3. Declares(a) <=> Lowers(f)
  BY <1>1, LowersDeclares DEF Lowers
<1> HIDE DEF a, fl
<1>4. try_assign_landing(f, fl, runways, holding, Tail(pq), stats) => Untallied
  BY <1>1, TryAssignUncounted DEF Untallied
<1>5. stats' = DeclaredIn(stats) => Tallied("emergency")
  BY <1>1, Raised DEF Tallied
<1> QED BY <1>2, <1>3, <1>4, <1>5

LEMMA EmergencyTallied ==
  ASSUME TypeOK, NEW f \in Flights, on_emergency(f)
  PROVE  IF Lowers(f) THEN Tallied("emergency") ELSE Untallied
<1> DEFINE st == IF Lowers(f) THEN DeclaredIn(stats) ELSE stats
<1>1. stats \in SimStats
  BY DEF TypeOK
<1>2. \/ \E rw, fl, ring, q, weight :
             ClearToLand(f, rw, fl, runways, ring, q, st, weight)
      \/ stats' = st
  BY Zenon DEF on_emergency, Lowers
<1>3. st \in SimStats /\ Dashboard(st) = IF Lowers(f) THEN OneMore(Dashboard(stats), "emergency")
                                         ELSE Dashboard(stats)
  BY <1>1, Raised
<1> HIDE DEF st
<1>4. (\E w : stats' = record_wait(st, w)) \/ stats' = st
  BY <1>2, Zenon DEF ClearToLand
<1>5. Dashboard(stats') = Dashboard(st)
  BY <1>3, <1>4, WaitsUncounted
<1> QED BY <1>3, <1>5 DEF Tallied, Untallied

LEMMA ReleaseTallied ==
  ASSUME TypeOK, NEW f \in Flights
  PROVE  /\ on_touchdown_go_around(f) => Tallied("go_around")
         /\ on_touchdown(f) => Untallied
         /\ on_takeoff_clear(f) => Untallied
         /\ sim_cmd_divert(f) => Tallied("diverted")
<1> DEFINE again == [stats EXCEPT !.go_arounds = @ + 1, !.score = @ - 3]
           landed == [stats EXCEPT !.flights_landed = @ + 1]
           away == [stats EXCEPT !.flights_diverted = @ + 1, !.score = @ - 12]
<1>1. stats \in SimStats
  BY DEF TypeOK
<1>2. /\ again \in SimStats /\ Dashboard(again) = OneMore(Dashboard(stats), "go_around")
      /\ landed \in SimStats /\ Dashboard(landed) = Dashboard(stats)
      /\ away \in SimStats /\ Dashboard(away) = OneMore(Dashboard(stats), "diverted")
  BY <1>1, Raised
<1>3. on_touchdown_go_around(f) => \E rw, fl, ring, q : free_runway(rw, fl, ring, q, again)
  BY Zenon DEF on_touchdown_go_around
<1>4. on_touchdown(f) => \E rw, fl, ring, q : free_runway(rw, fl, ring, q, landed)
  BY Zenon DEF on_touchdown
<1>5. on_takeoff_clear(f) => \E rw, fl, ring, q : free_runway(rw, fl, ring, q, stats)
  BY Zenon DEF on_takeoff_clear
<1>6. sim_cmd_divert(f) => \/ \E rw, fl, ring, q : free_runway(rw, fl, ring, q, away)
                           \/ stats' = away
  BY Zenon DEF sim_cmd_divert, DivertedIn
<1> HIDE DEF again, landed, away
<1> QED BY <1>1, <1>2, <1>3, <1>4, <1>5, <1>6, FreeRunwayUncounted DEF Tallied, Untallied

LEMMA OtherTallied ==
  ASSUME TypeOK, NEW f \in Flights
  PROVE  /\ on_emergency_lost(f) => Tallied("lost")
         /\ on_depart_sector(f) => Tallied("departed")
         /\ (\/ on_emergency_moved_on(f) \/ on_taxi_to_gate(f) \/ on_gate_release(f)
             \/ on_takeoff_ready(f) \/ sim_cmd_prioritize_inbound(f)
             \/ sim_cmd_prioritize_holding(f) \/ sim_cmd_go_around(f))
            => Untallied
<1>1. stats \in SimStats
  BY DEF TypeOK
<1>2. on_emergency_lost(f) => Tallied("lost")
  BY <1>1, Raised DEF on_emergency_lost, Tallied
<1>3. ASSUME on_depart_sector(f) PROVE Tallied("departed")
  <2>1. \E quick, clean : stats' = [stats EXCEPT !.flights_departed = @ + 1,
                                               !.score = @ + 10 + quick + clean]
    BY <1>3, Zenon DEF on_depart_sector
  <2>2. \E n : stats' = [stats EXCEPT !.flights_departed = @ + 1, !.score = n]
    BY <1>1, <2>1 DEF SimStats
  <2>3. PICK n : stats' = [stats EXCEPT !.flights_departed = @ + 1, !.score = n]
    BY <2>2
  <2>4. Dashboard([stats EXCEPT !.flights_departed = @ + 1, !.score = n])
            = OneMore(Dashboard(stats), "departed")
    BY <1>1, Raised
  <2> QED BY <2>3, <2>4 DEF Tallied
<1>4. ASSUME on_emergency_moved_on(f) \/ sim_cmd_prioritize_inbound(f)
             \/ sim_cmd_go_around(f)
      PROVE  Untallied
  BY <1>4 DEF on_emergency_moved_on, sim_cmd_prioritize_inbound, sim_cmd_go_around,
              Untallied
<1>5. ASSUME on_taxi_to_gate(f) \/ on_gate_release(f) PROVE Untallied
  <2>1. \/ \E g, fl, gts, ring, q : try_assign_gate(g, fl, gts, ring, q)
        \/ stats' = stats
    BY <1>5, Zenon DEF on_taxi_to_gate, on_gate_release
  <2> QED BY <2>1, TryAssignGateUncounted DEF Untallied
<1>6. ASSUME on_takeoff_ready(f) PROVE Untallied
  <2>1. (\E w : stats' = record_wait(stats, w)) \/ stats' = stats
    BY <1>6, Zenon DEF on_takeoff_ready
  <2> QED BY <1>1, <2>1, WaitsUncounted DEF Untallied
<1>7. ASSUME sim_cmd_prioritize_holding(f) PROVE Untallied
  <2>1. \E fl, ring : try_assign_landing(f, fl, runways, ring, pq, stats)
    BY <1>7, Zenon DEF sim_cmd_prioritize_holding
  <2> QED BY <1>1, <2>1, TryAssignUncounted DEF Untallied
<1> QED BY <1>2, <1>3, <1>4, <1>5, <1>6, <1>7

LEMMA SpawnTallied ==
  ASSUME TypeOK
  PROVE  /\ spawn_aircraft => Tallied("inbound")
         /\ (\/ queue_exhausted \/ drop_stale \/ spawn_aircraft_table_full
             \/ on_weather_change \/ AdvanceClock) => Untallied
<1>1. stats \in SimStats
  BY DEF TypeOK
<1>2. spawn_aircraft => Tallied("inbound")
  BY <1>1, Raised DEF spawn_aircraft, Tallied
<1>3. (\/ queue_exhausted \/ drop_stale \/ spawn_aircraft_table_full
       \/ on_weather_change \/ AdvanceClock) => stats' = stats
  BY DEF queue_exhausted, drop_stale, spawn_aircraft_table_full, on_weather_change,
         AdvanceClock, vars
<1> QED BY <1>2, <1>3 DEF Untallied

-----------------------------------------------------------------------------
(* The log and the dashboard.                                              *)

Told == told = Dashboard(stats)

LEMMA ToldMatches == Told => LinesMatchCounters
BY DEF Told, LinesMatchCounters, Dashboard, Counted

LEMMA ToldLog ==
  ASSUME Told, NEW kind, NEW f, Log(kind, f), Tallied(kind)
  PROVE  Told'
<1>1. told' = OneMore(told, kind)
  BY DEF Log, OneMore
<1>2. told' = Dashboard(stats')
  BY <1>1 DEF Told, Tallied
<1> QED BY <1>2 DEF Told, Dashboard

LEMMA ToldElse ==
  ASSUME TypeOK, Told, NEW kind, NEW f, Log(kind, f), kind \notin Counted, Untallied
  PROVE  Told'
<1>1. told' = OneMore(told, kind)
  BY DEF Log, OneMore
<1>2. stats \in SimStats
  BY DEF TypeOK
<1>3. told' = Dashboard(stats')
  BY <1>1, <1>2, Uncounted DEF Told, Untallied
<1> QED BY <1>3 DEF Told, Dashboard

LEMMA ToldSilent == ASSUME Told, Untallied, told' = told PROVE Told'
BY DEF Told, Untallied, Dashboard

\* A step of the core logs the line of what it counts.
LEMMA ToldHandler ==
  ASSUME TypeOK, Told, NEW f \in Flights, HandlerLogs(f)
  PROVE  Told'
<1>1. CASE on_runway_request(f) /\ LogIf(Lowers(f), "emergency", f)
  BY <1>1, RequestTallied, ToldLog, ToldSilent DEF LogIf, Silent
<1>2. CASE on_emergency(f) /\ LogIf(Lowers(f), "emergency", f)
  BY <1>2, EmergencyTallied, ToldLog, ToldSilent DEF LogIf, Silent
<1>3. CASE on_emergency_lost(f) /\ Log("lost", f)
  BY <1>3, OtherTallied, ToldLog
<1>4. CASE on_touchdown_go_around(f) /\ Log("go_around", f)
  BY <1>4, ReleaseTallied, ToldLog
<1>5. CASE on_depart_sector(f) /\ Log("departed", f)
  BY <1>5, OtherTallied, ToldLog
<1>6. CASE /\ Silent
           /\ \/ on_emergency_moved_on(f) \/ on_touchdown(f) \/ on_taxi_to_gate(f)
              \/ on_gate_release(f) \/ on_takeoff_ready(f) \/ on_takeoff_clear(f)
  BY <1>6, OtherTallied, ReleaseTallied, ToldSilent DEF Silent
<1> QED BY <1>1, <1>2, <1>3, <1>4, <1>5, <1>6 DEF HandlerLogs

LEMMA ToldCommand ==
  ASSUME TypeOK, Told, NEW f \in Flights, CommandLogs(f)
  PROVE  Told'
<1>1. "expedited" \notin Counted /\ "instructed" \notin Counted
  BY DEF Counted
<1>2. CASE /\ sim_cmd_prioritize_inbound(f) \/ sim_cmd_prioritize_holding(f)
           /\ Log("expedited", f)
  BY <1>1, <1>2, OtherTallied, ToldElse
<1>3. CASE sim_cmd_divert(f) /\ Log("diverted", f)
  BY <1>3, ReleaseTallied, ToldLog
<1>4. CASE sim_cmd_go_around(f) /\ Log("instructed", f)
  BY <1>1, <1>4, OtherTallied, ToldElse
<1> QED BY <1>2, <1>3, <1>4 DEF CommandLogs

LEMMA ToldStep == ASSUME TypeOK, Told, [Narrates]_narrated PROVE Told'
<1>1. CASE spawn_aircraft /\ Log("inbound", flight_count)
  BY <1>1, SpawnTallied, ToldLog
<1>2. CASE /\ on_weather_change
           /\ LogIf(weather' # weather,
                    IF weather' = "WX_STORM" THEN "storm" ELSE "weather", None)
  <2>1. Untallied
    BY <1>2, SpawnTallied
  <2>2. "storm" \notin Counted /\ "weather" \notin Counted
    BY DEF Counted
  <2>3. CASE Silent
    BY <2>1, <2>3, ToldSilent DEF Silent
  <2>4. CASE Log("storm", None) \/ Log("weather", None)
    BY <2>1, <2>2, <2>4, ToldElse
  <2> QED BY <1>2, <2>3, <2>4 DEF LogIf
<1>3. CASE \E f \in Flights : HandlerLogs(f) \/ CommandLogs(f)
  BY <1>3, ToldHandler, ToldCommand
<1>4. CASE /\ Silent
           /\ \/ queue_exhausted \/ drop_stale \/ spawn_aircraft_table_full
              \/ AdvanceClock
  BY <1>4, SpawnTallied, ToldSilent DEF Silent
<1>5. CASE UNCHANGED narrated
  BY <1>5, ToldSilent DEF narrated, vars, Untallied
<1> QED BY <1>1, <1>2, <1>3, <1>4, <1>5 DEF Narrates

LEMMA NarratesNext == [Narrates]_narrated => [Next]_vars
<1>1. ASSUME Narrates PROVE Next
  BY <1>1, Zenon DEF Narrates, HandlerLogs, CommandLogs, Next, sim_step, Command
<1>2. UNCHANGED narrated => UNCHANGED vars
  BY DEF narrated
<1> QED BY <1>1, <1>2

-----------------------------------------------------------------------------
(* The event log.                                                          *)

LogFits ==
    /\ log = [i \in 0 .. SIM_LOG_CAP - 1 |-> log[i]]
    /\ log_head \in 0 .. SIM_LOG_CAP - 1 /\ log_len \in 0 .. SIM_LOG_CAP

\* The indices of the log.
LEMMA LogWrap ==
  \A x \in 0 .. 2 * SIM_LOG_CAP - 1 :
      x % SIM_LOG_CAP = IF x < SIM_LOG_CAP THEN x ELSE x - SIM_LOG_CAP
BY Wrap, LogAssumption

\* The slot that sim_log writes, and the slots of the ticker's lines.
LEMMA SlotOf ==
  ASSUME LogFits, NEW k \in 0 .. log_len
  PROVE  /\ (log_head + log_len - k) % SIM_LOG_CAP \in 0 .. SIM_LOG_CAP - 1
         /\ (log_head + log_len - k) % SIM_LOG_CAP
                = IF log_head + log_len - k < SIM_LOG_CAP
                  THEN log_head + log_len - k
                  ELSE log_head + log_len - k - SIM_LOG_CAP
<1>1. /\ SIM_LOG_CAP \in Nat \ {0} /\ log_head \in 0 .. SIM_LOG_CAP - 1
      /\ log_len \in 0 .. SIM_LOG_CAP
  BY LogAssumption DEF LogFits
<1>2. PICK x \in 0 .. 2 * SIM_LOG_CAP - 1 : x = log_head + log_len - k
  BY <1>1
<1>3. x % SIM_LOG_CAP = IF x < SIM_LOG_CAP THEN x ELSE x - SIM_LOG_CAP
  BY LogWrap
<1>4. x % SIM_LOG_CAP \in 0 .. SIM_LOG_CAP - 1
  BY <1>1, <1>3
<1> QED BY <1>1, <1>2, <1>3, <1>4

LEMMA WrittenSlot ==
  ASSUME LogFits
  PROVE  /\ (log_head + log_len) % SIM_LOG_CAP \in 0 .. SIM_LOG_CAP - 1
         /\ (log_head + log_len) % SIM_LOG_CAP
                = IF log_head + log_len < SIM_LOG_CAP THEN log_head + log_len
                  ELSE log_head + log_len - SIM_LOG_CAP
<1>1. /\ SIM_LOG_CAP \in Nat \ {0} /\ log_head \in 0 .. SIM_LOG_CAP - 1
      /\ log_len \in 0 .. SIM_LOG_CAP
  BY LogAssumption DEF LogFits
<1>2. PICK x \in 0 .. 2 * SIM_LOG_CAP - 1 : x = log_head + log_len
  BY <1>1
<1>3. x % SIM_LOG_CAP = IF x < SIM_LOG_CAP THEN x ELSE x - SIM_LOG_CAP
  BY LogWrap
<1>4. x % SIM_LOG_CAP \in 0 .. SIM_LOG_CAP - 1
  BY <1>1, <1>3
<1> QED BY <1>1, <1>2, <1>3, <1>4

LEMMA FitsOn ==
  ASSUME LogFits, NEW m, EL!sim_log(m)
  PROVE  LogFits' /\ log_len' # 0
<1>1. /\ SIM_LOG_CAP \in Nat \ {0} /\ log_head \in 0 .. SIM_LOG_CAP - 1
      /\ log_len \in 0 .. SIM_LOG_CAP
  BY LogAssumption DEF LogFits
<1>2. log' = [i \in 0 .. SIM_LOG_CAP - 1 |-> log'[i]]
  BY DEF EL!sim_log, LogFits
<1>3. PICK x \in 0 .. 2 * SIM_LOG_CAP - 1 : x = log_head + 1
  BY <1>1
<1>4. x % SIM_LOG_CAP \in 0 .. SIM_LOG_CAP - 1
  BY <1>1, LogWrap
<1>5. /\ log_head' \in 0 .. SIM_LOG_CAP - 1 /\ log_len' \in 0 .. SIM_LOG_CAP
      /\ log_len' # 0
  BY <1>1, <1>3, <1>4 DEF EL!sim_log
<1> QED BY <1>2, <1>5 DEF LogFits

\* After sim_log the line that was at place j - 1 is at place j, and the new
\* line is at place 1.
LEMMA Shifted ==
  ASSUME LogFits, LogFits', NEW m, EL!sim_log(m), NEW j \in 1 .. log_len'
  PROVE  /\ (log_head' + log_len' - j) % SIM_LOG_CAP
                = (log_head + log_len - (j - 1)) % SIM_LOG_CAP
         /\ j - 1 \in 0 .. log_len
         /\ j # 1 => (log_head + log_len - (j - 1)) % SIM_LOG_CAP
                         # (log_head + log_len) % SIM_LOG_CAP
<1>1. /\ SIM_LOG_CAP \in Nat \ {0} /\ log_head \in 0 .. SIM_LOG_CAP - 1
      /\ log_len \in 0 .. SIM_LOG_CAP
      /\ log_head' \in 0 .. SIM_LOG_CAP - 1 /\ log_len' \in 0 .. SIM_LOG_CAP
  BY LogAssumption DEF LogFits
<1>2. PICK k \in 0 .. log_len : k = j - 1
  BY <1>1 DEF EL!sim_log
<1>3. (log_head + log_len - k) % SIM_LOG_CAP
          = IF log_head + log_len - k < SIM_LOG_CAP
            THEN log_head + log_len - k
            ELSE log_head + log_len - k - SIM_LOG_CAP
  BY SlotOf
<1>6. (log_head + log_len) % SIM_LOG_CAP
          = IF log_head + log_len < SIM_LOG_CAP THEN log_head + log_len
            ELSE log_head + log_len - SIM_LOG_CAP
  BY WrittenSlot
<1>7. PICK y \in 0 .. 2 * SIM_LOG_CAP - 1 : y = log_head' + log_len' - j
  <2>1. j \in Int /\ 1 <= j /\ j <= log_len'
    BY <1>1
  <2>2. PICK h \in 0 .. SIM_LOG_CAP - 1 : h = log_head'
    BY <1>1
  <2>3. PICK n \in 0 .. SIM_LOG_CAP : n = log_len'
    BY <1>1
  <2>4. n \in Int /\ h \in Int /\ j \in Int /\ SIM_LOG_CAP \in Int
    BY <2>1, <2>2, <2>3, <1>1
  <2>5. 1 <= j /\ j <= n /\ n <= SIM_LOG_CAP /\ 0 <= h /\ h <= SIM_LOG_CAP - 1
    BY <2>1, <2>2, <2>3, <1>1
  <2>6. h + n - j \in 0 .. 2 * SIM_LOG_CAP - 1
    BY <2>4, <2>5
  <2> QED BY <2>2, <2>3, <2>6
<1>8. y % SIM_LOG_CAP = IF y < SIM_LOG_CAP THEN y ELSE y - SIM_LOG_CAP
  BY LogWrap
<1>9. CASE log_len < SIM_LOG_CAP
  <2>1. y = log_head + log_len - k
    <3>1. log_head' = log_head /\ log_len' = log_len + 1
      BY <1>1, <1>9 DEF EL!sim_log
    <3> QED BY <3>1, <1>1, <1>2, <1>7
  <2>2. j # 1 => (log_head + log_len - k) % SIM_LOG_CAP
                     # (log_head + log_len) % SIM_LOG_CAP
    BY <1>1, <1>2, <1>3, <1>6, <1>9
  <2> QED BY <2>1, <2>2, <1>2, <1>7
<1>10. CASE ~ log_len < SIM_LOG_CAP
  <2>1. log_len = SIM_LOG_CAP /\ log_len' = log_len
        /\ log_head' = (log_head + 1) % SIM_LOG_CAP
    BY <1>1, <1>10 DEF EL!sim_log
  <2>2. PICK x \in 0 .. 2 * SIM_LOG_CAP - 1 : x = log_head + 1
    BY <1>1
  <2>3. log_head' = IF x < SIM_LOG_CAP THEN x ELSE x - SIM_LOG_CAP
    BY <2>1, <2>2, LogWrap
  <2>4. y % SIM_LOG_CAP = (log_head + log_len - k) % SIM_LOG_CAP
    <3>1. CASE x < SIM_LOG_CAP
      <4>1. y = log_head + log_len - k
        BY <3>1, <2>1, <2>2, <2>3, <1>1, <1>2, <1>7
      <4> QED BY <4>1
    <3>2. CASE ~ x < SIM_LOG_CAP
      <4>1. log_head + 1 = SIM_LOG_CAP /\ log_head' = 0
        BY <3>2, <2>2, <2>3, <1>1
      <4>2. y = log_head + log_len - k - SIM_LOG_CAP
        BY <4>1, <2>1, <1>1, <1>2, <1>7
      <4>3. ~ log_head + log_len - k < SIM_LOG_CAP
        BY <4>2, <1>1, <1>2
      <4> QED BY <4>2, <4>3, <1>1, <1>2, <1>3, <1>8
    <3> QED BY <3>1, <3>2
  <2>5. j # 1 => (log_head + log_len - k) % SIM_LOG_CAP
                     # (log_head + log_len) % SIM_LOG_CAP
    BY <2>1, <1>1, <1>2, <1>3, <1>6
  <2> QED BY <2>4, <2>5, <1>2, <1>7
<1> QED BY <1>9, <1>10

LEMMA RecordRefined ==
  ASSUME LogFits, LogFits', NEW m, EL!sim_log(m)
  PROVE  EL!RL!Record(m)
<1>1. /\ SIM_LOG_CAP \in Nat \ {0} /\ log_len \in 0 .. SIM_LOG_CAP
      /\ log_head \in 0 .. SIM_LOG_CAP - 1
      /\ log = [i \in 0 .. SIM_LOG_CAP - 1 |-> log[i]]
  BY LogAssumption DEF LogFits
<1>2. log_len' = IF log_len < SIM_LOG_CAP THEN log_len + 1 ELSE SIM_LOG_CAP
  BY <1>1 DEF EL!sim_log
<1>3. log' = [log EXCEPT ![(log_head + log_len) % SIM_LOG_CAP] = m]
  BY DEF EL!sim_log
<1>4. Len(EL!Ticker) = log_len
  BY <1>1 DEF EL!Ticker
<1>5. (log_head + log_len) % SIM_LOG_CAP \in 0 .. SIM_LOG_CAP - 1
  BY WrittenSlot
<1>6. ASSUME NEW j \in 1 .. log_len'
      PROVE  EL!sim_log_at(j - 1)' = IF j = 1 THEN m ELSE EL!Ticker[j - 1]
  <2>1. EL!sim_log_at(j - 1)' = log'[(log_head + log_len - (j - 1)) % SIM_LOG_CAP]
    <3>1. EL!sim_log_at(j - 1)' = log'[(log_head' + log_len' - 1 - (j - 1)) % SIM_LOG_CAP]
      BY DEF EL!sim_log_at
    <3>2. log_head' + log_len' - 1 - (j - 1) = log_head' + log_len' - j
      BY <1>1 DEF LogFits
    <3> QED BY <3>1, <3>2, Shifted
  <2>2. CASE j = 1
    <3>1. log_head + log_len - (j - 1) = log_head + log_len
      BY <2>2, <1>1
    <3> QED BY <3>1, <2>1, <2>2, <1>1, <1>3, <1>5
  <2>3. CASE j # 1
    <3>1. PICK k \in 1 .. log_len : k = j - 1
      BY <2>3, Shifted
    <3>2. /\ (log_head + log_len - k) % SIM_LOG_CAP \in 0 .. SIM_LOG_CAP - 1
          /\ (log_head + log_len - k) % SIM_LOG_CAP
                 # (log_head + log_len) % SIM_LOG_CAP
      BY <2>3, <3>1, <1>1, Shifted, SlotOf
    <3>3. EL!sim_log_at(j - 1)' = log[(log_head + log_len - k) % SIM_LOG_CAP]
      BY <3>1, <3>2, <2>1, <1>1, <1>3
    <3>4. EL!Ticker[k] = log[(log_head + log_len - 1 - (k - 1)) % SIM_LOG_CAP]
      BY DEF EL!Ticker, EL!sim_log_at
    <3>5. log_head + log_len - 1 - (k - 1) = log_head + log_len - k
      BY <1>1
    <3> QED BY <3>1, <3>3, <3>4, <3>5, <2>3
  <2> QED BY <2>2, <2>3
<1>7. EL!Ticker' = [j \in 1 .. log_len' |-> EL!sim_log_at(j - 1)']
  BY DEF EL!Ticker
<1>8. EL!Ticker' = [j \in 1 .. log_len' |-> IF j = 1 THEN m ELSE EL!Ticker[j - 1]]
  BY <1>6, <1>7
<1> HIDE DEF EL!Ticker
<1> QED BY <1>2, <1>4, <1>8 DEF EL!RL!Record

\* What has just been logged is the newest line.
LEMMA NewestLine ==
  ASSUME LogFits, NEW kind, NEW f, Log(kind, f)
  PROVE  LogFits' /\ newest' = <<kind, f>>
<1> DEFINE m == <<kind, f>>
<1> HIDE DEF m
<1>1. EL!sim_log(m)
  BY DEF Log, m
<1>2. LogFits' /\ log_len' # 0 /\ log_len' \in Nat
  BY <1>1, FitsOn, LogAssumption DEF LogFits
<1>3. EL!RL!Record(m)
  BY <1>1, <1>2, RecordRefined
<1>4. EL!Ticker'[1] = m
  BY <1>2, <1>3, LogAssumption DEF EL!RL!Record
<1>5. EL!Ticker'[1] = newest'
  BY <1>2 DEF EL!Ticker, newest
<1> QED BY <1>2, <1>4, <1>5 DEF m

LEMMA NewestKept ==
  ASSUME LogFits, UNCHANGED logged PROVE LogFits' /\ newest' = newest
BY DEF LogFits, logged, newest, EL!sim_log_at

-----------------------------------------------------------------------------
(* Red lines are about red flights.                                        *)

InDanger(f) == f \in InUse /\ (flights[f].emergency \/ flights[f].state = "AC_LOST")
RedLine == newest[1] \in {"emergency", "lost"} => InDanger(newest[2])

LEMMA RedLineRed == RedLine => RedTogether
<1> SUFFICES ASSUME RedLine, event_category_color(newest[1]) = "RED"
             PROVE  aircraft_color(flights[newest[2]]) = "RED"
  BY DEF RedTogether
<1>1. newest[1] \in {"emergency", "lost"}
  BY DEF event_category_color
<1>2. InDanger(newest[2])
  BY <1>1 DEF RedLine
<1> QED BY <1>2 DEF InDanger, aircraft_color

\* The table in use only grows.
LEMMA InUseGrows ==
  ASSUME TypeOK, [Next]_vars, NEW f \in InUse PROVE f \in InUse' /\ f \in Flights
<1>1. flight_count \in Nat /\ flight_count <= MAX_FLIGHTS /\ f \in 0 .. flight_count - 1
  BY CountFits DEF InUse
<1>2. flight_count' = flight_count \/ flight_count' = flight_count + 1
  <2>1. CASE sim_step \/ Command
    BY <2>1, CountGrows
  <2>2. CASE AdvanceClock \/ UNCHANGED vars
    BY <2>2 DEF AdvanceClock, vars
  <2> QED BY <2>1, <2>2 DEF Next
<1>3. ASSUME NEW n \in Nat, NEW g \in 0 .. n - 1, NEW k, k = n \/ k = n + 1
      PROVE  g \in 0 .. k - 1
  BY <1>3
<1>4. f \in 0 .. flight_count' - 1
  BY <1>1, <1>2, <1>3
<1>5. f \in Flights
  BY <1>1, SizeAssumption DEF Flights, Positive
<1> QED BY <1>4, <1>5 DEF InUse

\* A flight in danger stays so unless the controller diverts it.
LEMMA DangerStays ==
  ASSUME TypeOK, AllTied, EmergenciesLow, [Next]_vars, NEW f, InDanger(f),
         ~ sim_cmd_divert(f)
  PROVE  InDanger(f)'
<1>1. f \in InUse' /\ f \in Flights /\ f # flight_count
  <2>1. f \in InUse /\ flight_count \in Nat
    BY CountFits DEF InDanger
  <2>2. f # flight_count
    BY <2>1 DEF InUse
  <2> QED BY <2>1, <2>2, InUseGrows
<1>2. CASE flights[f].state = "AC_LOST"
  <2>1. GoneKept
    BY StepKeeps
  <2>2. flights'[f] = flights[f]
    BY <1>1, <1>2, <2>1 DEF GoneKept, Gone
  <2> QED BY <1>1, <1>2, <2>2 DEF InDanger
<1>3. CASE flights[f].emergency
  <2>1. AllLow({f}, flights)
    BY <1>3 DEF EmergenciesLow, AllLow
  <2>2. {f} \in SUBSET Flights /\ flight_count \notin {f}
        /\ \A g \in {f} : ~ sim_cmd_divert(g)
    BY <1>1
  <2>3. AllLow({f}, flights')
    BY <2>1, <2>2, DeclaredStep
  <2> QED BY <1>1, <2>3 DEF AllLow, InDanger
<1> QED BY <1>2, <1>3 DEF InDanger

\* Who has just declared an emergency or is lost is in danger.
LEMMA RequestDanger ==
  ASSUME TypeOK, AllTied, NEW f \in Flights, on_runway_request(f), Lowers(f)
  PROVE  InDanger(f)'
<1> DEFINE a  == [decay_fuel(flights[f]) EXCEPT !.queue_enter_time = now']
           fl == [flights EXCEPT ![f] = a]
<1>1. /\ flights[f] \in Aircraft /\ flights \in [Flights -> Aircraft] /\ now' \in Nat
  BY PoppedTime DEF TypeOK
<1>2. Declares(a)
  BY <1>1, LowersDeclares DEF Lowers
<1>3. flights' = [fl EXCEPT ![f].emergency = TRUE]
  BY <1>2, Zenon DEF on_runway_request
<1>4. a \in Aircraft
  <2>1. decay_fuel(flights[f]) \in Aircraft
    BY <1>1, DecayType
  <2> QED BY <1>1, <2>1 DEF Aircraft
<1> HIDE DEF a
<1>5. flights'[f].emergency
  BY <1>1, <1>3, <1>4 DEF Aircraft
<1>6. f < flight_count /\ flight_count' = flight_count
  <2>1. /\ Dispatch("EVENT_RUNWAY_REQUEST", f) /\ flight_count' = flight_count
        /\ "EVENT_RUNWAY_REQUEST" \in Movers
    BY MoverTypes DEF on_runway_request
  <2> QED BY <2>1, Popped
<1>7. f \in InUse'
  BY <1>6, CountFits DEF InUse, Flights
<1> QED BY <1>5, <1>7 DEF InDanger

LEMMA FuelDanger ==
  ASSUME TypeOK, AllTied, NEW f \in Flights,
         \/ on_emergency(f) /\ Lowers(f)
         \/ on_emergency_lost(f)
  PROVE  InDanger(f)'
<1> DEFINE b == decay_fuel(flights[f])
<1>1. /\ flights[f] \in Aircraft /\ flights \in [Flights -> Aircraft] /\ now' \in Nat
  BY PoppedTime DEF TypeOK
<1>2. b \in Aircraft
  BY <1>1, DecayType
<1>3. f \in InUse'
  <2>1. /\ Dispatch("EVENT_EMERGENCY_FUEL", f) /\ flight_count' = flight_count
        /\ flights[f].state \in {"AC_HOLDING", "AC_INBOUND"}
    BY Zenon DEF on_emergency, on_emergency_lost
  <2>2. /\ pq # <<>> /\ Head(pq).type = "EVENT_EMERGENCY_FUEL" /\ f = Head(pq).flight
        /\ pq \in Seq(AtcEvent(Flights)) /\ flight_count \in Nat
        /\ DriveTied({}, flights, taxi_wait, pq, flight_count)
    BY <2>1, CountFits DEF Dispatch, Pop, TypeOK, AllTied, Tied
  <2>3. f < flight_count
    BY <1>1, <2>1, <2>2, DrivePopFuel
  <2> QED BY <2>1, <2>2, <2>3 DEF InUse, Flights
<1>4. CASE on_emergency_lost(f)
  <2>1. flights' = [flights EXCEPT ![f] = [b EXCEPT !.state = "AC_LOST"]]
    BY <1>4 DEF on_emergency_lost
  <2> HIDE DEF b
  <2>2. flights'[f].state = "AC_LOST"
    BY <1>1, <1>2, <2>1 DEF Aircraft
  <2> QED BY <1>3, <2>2 DEF InDanger
<1>5. CASE on_emergency(f) /\ Lowers(f)
  <2> DEFINE a  == [b EXCEPT !.emergency = @ \/ Declares(b)]
             fl == [flights EXCEPT ![f] = a]
  <2>1. \/ \E rw \in find_idle_runway(runways) : \E st :
               ClearToLand(f, rw, fl, runways, Unqueued(f), Tail(pq), st, PRIO_EMERGENCY)
        \/ flights' = [fl EXCEPT ![f].state = "AC_HOLDING"]
    BY <1>5, Zenon DEF on_emergency, b
  <2>2. Declares(b)
    BY <1>5 DEF Lowers
  <2> HIDE DEF b
  <2>3. a \in Aircraft /\ a.emergency
    BY <1>2, <2>2 DEF Aircraft
  <2> HIDE DEF a
  <2>4. fl \in [Flights -> Aircraft] /\ fl[f].emergency
    BY <1>1, <2>3
  <2> HIDE DEF fl
  <2>5. SameFuel(fl, flights')
    <3>1. CASE flights' = [fl EXCEPT ![f].state = "AC_HOLDING"]
      BY <2>4, <3>1 DEF SameFuel, Aircraft
    <3> QED BY <2>1, <2>4, <3>1, ClearToLandFuel
  <2> QED BY <1>3, <2>4, <2>5 DEF SameFuel, InDanger
<1> QED BY <1>4, <1>5

\* A step that logs no line, or a line that is not red.
LEMMA StaysRed ==
  ASSUME TypeOK, AllTied, EmergenciesLow, LogFits, RedLine, [Next]_vars, Untallied,
         UNCHANGED logged
  PROVE  LogFits' /\ RedLine'
<1>1. LogFits' /\ newest' = newest
  BY NewestKept
<1>2. PICK f : f = newest[2]
  OBVIOUS
<1>3. ASSUME newest[1] \in {"emergency", "lost"} PROVE InDanger(f)'
  <2>1. InDanger(f)
    BY <1>2, <1>3 DEF RedLine
  <2>2. ~ sim_cmd_divert(f)
    <3>1. f \in Flights /\ stats \in SimStats
      BY <2>1, InUseGrows DEF InDanger, TypeOK
    <3>2. Untallied => ~ Tallied("diverted")
      BY <3>1 DEF Untallied, Tallied, Dashboard, OneMore, Counted, SimStats
    <3> QED BY <3>1, <3>2, ReleaseTallied
  <2> QED BY <2>1, <2>2, DangerStays
<1> QED BY <1>1, <1>2, <1>3 DEF RedLine, InDanger

LEMMA LogsRed ==
  ASSUME LogFits, NEW kind, NEW f, Log(kind, f),
         kind \in {"emergency", "lost"} => InDanger(f)'
  PROVE  LogFits' /\ RedLine'
<1>1. LogFits' /\ newest' = <<kind, f>>
  BY NewestLine
<1>2. newest'[1] = kind /\ newest'[2] = f
  BY <1>1
<1> QED BY <1>1, <1>2 DEF RedLine, InDanger

LEMMA RedStep ==
  ASSUME TypeOK, AllTied, EmergenciesLow, LogFits, RedLine, [Narrates]_narrated
  PROVE  LogFits' /\ RedLine'
<1>0. [Next]_vars
  BY NarratesNext
<1>1. CASE spawn_aircraft /\ Log("inbound", flight_count)
  BY <1>1, LogsRed
<1>2. CASE /\ on_weather_change
           /\ LogIf(weather' # weather,
                    IF weather' = "WX_STORM" THEN "storm" ELSE "weather", None)
  <2>1. Untallied
    BY <1>2, SpawnTallied
  <2>2. CASE Silent
    BY <1>0, <2>1, <2>2, StaysRed DEF Silent
  <2>3. CASE Log("storm", None) \/ Log("weather", None)
    BY <2>3, LogsRed
  <2> QED BY <1>2, <2>2, <2>3 DEF LogIf
<1>3. ASSUME NEW f \in Flights, HandlerLogs(f) PROVE LogFits' /\ RedLine'
  <2>1. CASE on_runway_request(f) /\ LogIf(Lowers(f), "emergency", f)
    <3>1. CASE Lowers(f)
      BY <2>1, <3>1, RequestDanger, LogsRed DEF LogIf
    <3>2. CASE ~ Lowers(f)
      BY <1>0, <2>1, <3>2, RequestTallied, StaysRed DEF LogIf, Silent
    <3> QED BY <3>1, <3>2
  <2>2. CASE on_emergency(f) /\ LogIf(Lowers(f), "emergency", f)
    <3>1. CASE Lowers(f)
      BY <2>2, <3>1, FuelDanger, LogsRed DEF LogIf
    <3>2. CASE ~ Lowers(f)
      BY <1>0, <2>2, <3>2, EmergencyTallied, StaysRed DEF LogIf, Silent
    <3> QED BY <3>1, <3>2
  <2>3. CASE on_emergency_lost(f) /\ Log("lost", f)
    BY <2>3, FuelDanger, LogsRed
  <2>4. CASE Log("go_around", f) \/ Log("departed", f)
    BY <2>4, LogsRed
  <2>5. CASE /\ Silent
             /\ \/ on_emergency_moved_on(f) \/ on_touchdown(f) \/ on_taxi_to_gate(f)
                \/ on_gate_release(f) \/ on_takeoff_ready(f) \/ on_takeoff_clear(f)
    BY <1>0, <2>5, OtherTallied, ReleaseTallied, StaysRed DEF Silent
  <2> QED BY <1>3, <2>1, <2>2, <2>3, <2>4, <2>5 DEF HandlerLogs
<1>4. ASSUME NEW f \in Flights, CommandLogs(f) PROVE LogFits' /\ RedLine'
  <2>1. Log("expedited", f) \/ Log("diverted", f) \/ Log("instructed", f)
    BY <1>4 DEF CommandLogs
  <2> QED BY <2>1, LogsRed
<1>5. CASE /\ Silent
           /\ \/ queue_exhausted \/ drop_stale \/ spawn_aircraft_table_full
              \/ AdvanceClock
  BY <1>0, <1>5, SpawnTallied, StaysRed DEF Silent
<1>6. CASE UNCHANGED narrated
  <2>1. Untallied /\ UNCHANGED logged
    BY <1>6 DEF narrated, vars, Untallied
  <2> QED BY <1>0, <2>1, StaysRed
<1> QED BY <1>1, <1>2, <1>3, <1>4, <1>5, <1>6 DEF Narrates

\* A line about a flight of the table is about one that is in the sector.
LEMMA LiveLines ==
  ASSUME TypeOK, LogFits, Narrates, logged' # logged, newest'[2] \in InUse
  PROVE  newest'[2] \in Live
<1>0. None \notin InUse /\ flight_count \notin InUse
  BY CountFits DEF InUse, None
<1>1. ASSUME NEW kind, NEW f, Log(kind, f), flights[f].state \notin Gone
      PROVE  newest'[2] \in Live
  <2>1. newest'[2] = f
    BY <1>1, NewestLine
  <2> QED BY <1>1, <2>1 DEF Live
<1>2. ASSUME NEW kind, Log(kind, None) \/ Log(kind, flight_count) PROVE FALSE
  <2>1. newest'[2] = None \/ newest'[2] = flight_count
    BY <1>2, NewestLine
  <2> QED BY <1>0, <2>1
<1>3. ~ Silent
  BY DEF Silent
<1>4. ~ spawn_aircraft \/ ~ Log("inbound", flight_count)
  BY <1>2
<1>5. ~ (on_weather_change /\ LogIf(weather' # weather,
                 IF weather' = "WX_STORM" THEN "storm" ELSE "weather", None))
  BY <1>2, <1>3 DEF LogIf
<1>6. PICK f \in Flights : HandlerLogs(f) \/ CommandLogs(f)
  BY <1>3, <1>4, <1>5 DEF Narrates
<1>7. CASE HandlerLogs(f)
  <2>1. flights[f].state \notin Gone
    BY <1>3, <1>7, Zenon DEF HandlerLogs, LogIf, on_runway_request, on_emergency,
       on_emergency_lost, on_touchdown_go_around, on_depart_sector, Dispatch
  <2>2. \E kind : Log(kind, f)
    BY <1>3, <1>7, Zenon DEF HandlerLogs, LogIf
  <2> QED BY <1>1, <2>1, <2>2
<1>8. CASE CommandLogs(f)
  <2>1. flights[f].state \in {"AC_INBOUND", "AC_HOLDING", "AC_LANDING"}
    <3>1. Commanded(f, {"AC_INBOUND"}) \/ Commanded(f, {"AC_HOLDING"})
          \/ Commanded(f, {"AC_LANDING"})
          \/ Commanded(f, {"AC_INBOUND", "AC_HOLDING", "AC_LANDING"})
      BY <1>8, Zenon DEF CommandLogs, sim_cmd_prioritize_inbound,
         sim_cmd_prioritize_holding, sim_cmd_divert, sim_cmd_go_around
    <3> QED BY <3>1 DEF Commanded
  <2>2. \E kind : Log(kind, f)
    BY <1>8, Zenon DEF CommandLogs
  <2> QED BY <1>1, <2>1, <2>2 DEF Gone
<1> QED BY <1>6, <1>7, <1>8

-----------------------------------------------------------------------------
(* Theorems about the narration.                                           *)

NarrationInv == TypeOK /\ AllTied /\ EmergenciesLow /\ Told /\ LogFits /\ RedLine

LEMMA NarrationBegins == NarrationInit => NarrationInv
<1> SUFFICES ASSUME NarrationInit PROVE NarrationInv
  OBVIOUS
<1>1. /\ Init /\ told = [k \in Counted |-> 0]
      /\ log = [i \in 0 .. SIM_LOG_CAP - 1 |-> NoLine] /\ log_head = 0 /\ log_len = 0
  BY DEF NarrationInit, EL!Init
<1>2. TypeOK /\ AllTied /\ EmergenciesLow
  BY <1>1, InitType, InitTied DEF Init, Blank, EmergenciesLow, AllLow, Low
<1>3. Told
  BY <1>1 DEF Init, Told, Dashboard, Counted
<1>4. LogFits
  BY <1>1, LogAssumption DEF LogFits
<1>5. RedLine
  BY <1>1 DEF RedLine, newest, NoLine
<1> QED BY <1>2, <1>3, <1>4, <1>5 DEF NarrationInv

LEMMA NarrationGoesOn == NarrationInv /\ [Narrates]_narrated => NarrationInv'
<1> SUFFICES ASSUME NarrationInv, [Narrates]_narrated PROVE NarrationInv'
  OBVIOUS
<1>1. [Next]_vars
  BY NarratesNext
<1>2. TypeOK' /\ AllTied' /\ EmergenciesLow'
  BY <1>1, StepType, TiedStep, LowStep DEF NarrationInv
<1>3. Told'
  BY ToldStep DEF NarrationInv
<1>4. LogFits' /\ RedLine'
  BY RedStep DEF NarrationInv
<1> QED BY <1>2, <1>3, <1>4 DEF NarrationInv

LEMMA AlwaysNarrated == NarrationSpec => []NarrationInv
BY NarrationBegins, NarrationGoesOn, PTL DEF NarrationSpec

\* The log is written by sim_log alone, with lines of its kinds.
LEMMA NarratesLog ==
  ASSUME TypeOK, [Narrates]_narrated
  PROVE  [EL!Next]_logged
<1>1. ASSUME NEW kind \in Kind, NEW f \in Flights \cup {None}, Log(kind, f)
      PROVE  EL!Next
  <2>1. <<kind, f>> \in Kind \X (Flights \cup {None})
    OBVIOUS
  <2> QED BY <1>1, <2>1 DEF Log, EL!Next
<1>2. CASE spawn_aircraft /\ Log("inbound", flight_count)
  <2>1. flight_count \in Flights
    BY <1>2, SizeAssumption DEF spawn_aircraft, TypeOK, Flights, Positive
  <2> QED BY <1>1, <1>2, <2>1 DEF Kind, Counted
<1>3. ASSUME on_weather_change,
             LogIf(weather' # weather,
                   IF weather' = "WX_STORM" THEN "storm" ELSE "weather", None)
      PROVE  [EL!Next]_logged
  BY <1>1, <1>3 DEF LogIf, Silent, Kind, Counted
<1>4. ASSUME NEW f \in Flights, HandlerLogs(f)
      PROVE  [EL!Next]_logged
  BY <1>1, <1>4, Zenon DEF HandlerLogs, LogIf, Silent, Kind, Counted
<1>5. ASSUME NEW f \in Flights, CommandLogs(f)
      PROVE  [EL!Next]_logged
  BY <1>1, <1>5, Zenon DEF CommandLogs, Kind, Counted
<1>6. CASE Silent \/ UNCHANGED narrated
  BY <1>6 DEF Silent, narrated
<1> QED BY <1>2, <1>3, <1>4, <1>5, <1>6, Zenon DEF Narrates

LEMMA LogStep == NarrationInv /\ [Narrates]_narrated => [EL!RL!Next]_(EL!Ticker)
<1> SUFFICES ASSUME NarrationInv, [EL!Next]_logged
             PROVE  EL!RL!Next \/ EL!Ticker' = EL!Ticker
  BY NarratesLog DEF NarrationInv
<1>1. ASSUME NEW m \in Kind \X (Flights \cup {None}), EL!sim_log(m)
      PROVE  EL!RL!Next
  <2>1. EL!RL!Record(m)
    BY <1>1, FitsOn, RecordRefined DEF NarrationInv
  <2> QED BY <2>1 DEF EL!RL!Next
<1>2. CASE UNCHANGED logged
  BY <1>2 DEF logged, EL!Ticker, EL!sim_log_at
<1> QED BY <1>1, <1>2 DEF EL!Next

\* Whatever the handlers and commands log, the ticker shows the latest lines,
\* newest first, for any capacity and however often the array is overwritten.
THEOREM LogShowsLatest == NarrationSpec => ShowsLatest
<1>1. NarrationInit => EL!RL!Init
  BY DEF NarrationInit, EL!Init, EL!RL!Init, EL!Ticker
<1> QED
  BY <1>1, LogStep, AlwaysNarrated, PTL
  DEF NarrationSpec, ShowsLatest, EL!ShowsLatest, EL!RL!Spec

\* Every index of the log lies in its array, and every line is of a kind that
\* the screen knows.
THEOREM LogTyped == NarrationSpec => []EL!TypeOK
<1>1. NarrationInit => EL!TypeOK
  BY LogAssumption DEF NarrationInit, EL!Init, EL!TypeOK
<1>2. ASSUME NarrationInv, NarrationInv', EL!TypeOK, [Narrates]_narrated
      PROVE  EL!TypeOK'
  <2>1. [EL!Next]_logged /\ LogFits'
    BY <1>2, NarratesLog DEF NarrationInv
  <2>2. ASSUME NEW m \in Kind \X (Flights \cup {None}), EL!sim_log(m)
        PROVE  EL!TypeOK'
    BY <1>2, <2>1, <2>2 DEF EL!sim_log, EL!TypeOK, LogFits
  <2>3. CASE UNCHANGED logged
    BY <1>2, <2>3 DEF logged, EL!TypeOK
  <2> QED BY <2>1, <2>2, <2>3 DEF EL!Next
<1>3. NarrationInv /\ EL!TypeOK /\ NarrationInv' /\ [Narrates]_narrated => EL!TypeOK'
  BY <1>2
<1> QED BY <1>1, <1>3, AlwaysNarrated, PTL DEF NarrationSpec

\* As many lines of each kind are logged as the dashboard counts, whatever the
\* handlers and commands do, for any number of flights and any capacity.
THEOREM LinesAlwaysMatch == NarrationSpec => []LinesMatchCounters
<1>1. NarrationInv => LinesMatchCounters
  BY ToldMatches DEF NarrationInv
<1> QED BY <1>1, AlwaysNarrated, PTL

\* While the newest line tells of an emergency or a loss, its flight is drawn
\* in red: no handler takes an emergency back.
THEOREM AlwaysRedTogether == NarrationSpec => []RedTogether
<1>1. NarrationInv => RedTogether
  BY RedLineRed DEF NarrationInv
<1> QED BY <1>1, AlwaysNarrated, PTL

\* No line is logged about a flight that has left.
THEOREM LastWordsKept == NarrationSpec => LastWords
<1>1. NarrationInv /\ [Narrates]_narrated
        => [logged' # logged /\ newest'[2] \in InUse => newest'[2] \in Live]_narrated
  BY LiveLines DEF NarrationInv
<1> QED BY <1>1, AlwaysNarrated, PTL DEF NarrationSpec, LastWords
=============================================================================

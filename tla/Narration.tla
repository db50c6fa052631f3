----------------------------- MODULE Narration -----------------------------
(***************************************************************************)
(* What the screen tells of the simulation: the line that each handler and *)
(* command logs (sim.c), the event log that keeps it, and the colours of   *)
(* lines and of aircraft (render.c).  The steps are those of Sector, the   *)
(* log is EventLog.  A line is its kind and the flight it is about; how    *)
(* many of a kind were logged is kept for the kinds the dashboard counts.  *)
(***************************************************************************)
EXTENDS SectorProperties, LogSize

VARIABLES log, log_head, log_len,   \* the event log
          told
logged == <<log, log_head, log_len>>
narrated == <<vars, logged, told>>

Counted == {"inbound", "emergency", "lost", "go_around", "departed", "diverted"}
Kind == Counted \cup {"expedited", "instructed", "storm", "weather"}
NoLine == <<"none", None>>

EL == INSTANCE EventLog WITH LogLine <- Kind \X (Flights \cup {None}), Blank <- NoLine

NarrationInit == Init /\ EL!Init /\ told = [k \in Counted |-> 0]

Log(kind, f) ==
    /\ EL!sim_log(<<kind, f>>)
    /\ told' = [k \in Counted |-> told[k] + IF k = kind THEN 1 ELSE 0]
Silent == UNCHANGED <<logged, told>>
LogIf(p, kind, f) == IF p THEN Log(kind, f) ELSE Silent

newest == IF log_len = 0 THEN NoLine ELSE EL!sim_log_at(0)

-----------------------------------------------------------------------------
(* What the steps log.                                                     *)

Lowers_BeforeDecay(f) == Declares(flights[f])
Lowers(f) == Declares(decay_fuel(flights[f]))

HandlerLogs(f) ==
    \/ on_runway_request(f) /\ LogIf(Lowers(f), "emergency", f)
    \/ on_emergency(f) /\ LogIf(Lowers(f), "emergency", f)
    \/ on_emergency_lost(f) /\ Log("lost", f)
    \/ on_touchdown_go_around(f) /\ Log("go_around", f)
    \/ on_depart_sector(f) /\ Log("departed", f)
    \/ /\ Silent
       /\ \/ on_emergency_moved_on(f) \/ on_touchdown(f) \/ on_taxi_to_gate(f)
          \/ on_gate_release(f) \/ on_takeoff_ready(f) \/ on_takeoff_clear(f)

CommandLogs_BeforeChecks(f) ==
    \/ sim_cmd_divert(f) /\ Log("diverted", f)
    \/ f \in InUse /\ UNCHANGED vars /\ Log("instructed", f)
CommandLogs(f) ==
    \/ sim_cmd_prioritize_inbound(f) /\ Log("expedited", f)
    \/ sim_cmd_prioritize_holding(f) /\ Log("expedited", f)
    \/ sim_cmd_divert(f) /\ Log("diverted", f)
    \/ sim_cmd_go_around(f) /\ Log("instructed", f)

Narrates ==
    \/ spawn_aircraft /\ Log("inbound", flight_count)
    \/ /\ on_weather_change
       /\ LogIf(weather' # weather,
                IF weather' = "WX_STORM" THEN "storm" ELSE "weather", None)
    \/ \E f \in Flights : HandlerLogs(f) \/ CommandLogs(f)
    \/ /\ Silent
       /\ \/ queue_exhausted \/ drop_stale \/ spawn_aircraft_table_full
          \/ AdvanceClock

NarrationSpec == NarrationInit /\ [][Narrates]_narrated

-----------------------------------------------------------------------------
(* Colours.                                                                *)

\* The first of the texts looked for in a line decides, then its severity.
\* "holding pattern" is a text of Hold alone.
event_category_color(kind) ==
    CASE kind \in {"emergency", "lost"}       -> "RED"
      [] kind \in {"go_around", "instructed"} -> "ORANGE"
      [] kind = "departed"                    -> "BLUE"
      [] kind = "inbound"                     -> "GREEN"
      [] kind \in {"diverted", "storm"}       -> "AMBER"
      [] OTHER                                -> "DIM"

ColorOf(state) ==
    CASE state \in {"AC_TAXI_IN", "AC_AT_GATE", "AC_TAXI_OUT"} -> "VIOLET"
      [] state = "AC_HOLDING"                                  -> "AMBER"
      [] state \in {"AC_DEPARTING", "AC_AIRBORNE_OUT"}         -> "BLUE"
      [] OTHER                                                 -> "CYAN"
aircraft_color_ByState(a) == IF a.state = "AC_LOST" THEN "RED" ELSE ColorOf(a.state)
aircraft_color(a) ==
    IF a.emergency \/ a.state = "AC_LOST" THEN "RED" ELSE ColorOf(a.state)

-----------------------------------------------------------------------------
(* Properties.                                                             *)

\* The log and the dashboard tell the same story: as many lines of each kind
\* have been logged as its counter says, so a flight declares its emergency
\* once in whichever handler finds its fuel low.
LinesMatchCounters ==
    /\ told.inbound = stats.flights_spawned
    /\ told.emergency = stats.emergencies
    /\ told.lost = stats.flights_lost
    /\ told.go_around = stats.go_arounds
    /\ told.departed = stats.flights_departed
    /\ told.diverted = stats.flights_diverted

\* The newest line and the scope agree on danger: while the newest line is
\* red, so is the flight it is about.
RedTogether ==
    event_category_color(newest[1]) = "RED"
    => aircraft_color(flights[newest[2]]) = "RED"

\* A flight that has departed, been lost or been diverted is not heard of
\* again: no stale event and no command makes a line about it.
LastWords ==
    [][logged' # logged /\ newest'[2] \in InUse => newest'[2] \in Live]_narrated

\* The ticker shows the latest lines, newest first, whatever the handlers and
\* commands log and however often they overwrite the array.
ShowsLatest == EL!ShowsLatest
=============================================================================

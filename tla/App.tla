-------------------------------- MODULE App --------------------------------
(***************************************************************************)
(* The interactive program: the frame loop of run_app (render.c) around    *)
(* the simulation core.  A frame reads its keys in the order of the code,  *)
(* each at most once, fires the events that are due by the end of the      *)
(* frame, moves the clock there, and draws; a button drawn may still be    *)
(* hit.  The keys for speed and help are left out: a frame may have any    *)
(* length of FrameTicks.  Keys that change nothing (a command on a flight  *)
(* that cannot take it) count as not pressed.  run_snapshot, the other way *)
(* to a picture, is the second mode.                                       *)
(***************************************************************************)
EXTENDS SectorProperties

CONSTANTS
    FRAME_EVENTS,   \* the limit of events in one frame: 100000 in the code
    at_minute,      \* the minute of the snapshot
    MaxResets       \* a bound: how often R is pressed

\* Frames are of bounded length.  A gap drawn by rng_exp is never empty, as the
\* mean given by --rate is not.
ASSUME FrameAssumption ==
    /\ FRAME_EVENTS \in Positive /\ MaxResets \in Nat /\ at_minute \in Nat
    /\ \E longest \in FrameTicks : \A d \in FrameTicks : d <= longest
    /\ 0 \notin ArrivalGaps \cup WeatherGaps

VARIABLES mode,      \* "window" for run_app, "snapshot" for run_snapshot
          at,        \* what the frame has come to, see below
          clicked,   \* the mouse button of this frame was spent on the radar
          paused,
          selected,  \* a flight, or None
          seed,
          target,    \* the end of the frame
          guard,     \* events fired in this frame
          cut        \* history: the limit has cut a frame of this simulation

appVars ==
    <<vars, mode, at, clicked, paused, selected, seed, target, guard, cut>>

\* The positions of a frame: after the keys, in the order they are asked for,
\* come the events and the picture.
NEW_FRAME == 0
KEY_SPACE == 1
KEY_R == 2
CLICK == 3
KEY_E == 4
KEY_H == 5
KEY_D == 6
KEY_G == 7
EVENTS == 8
PICTURE == 9

AppInit ==
    /\ Init /\ mode = "window"
    /\ at = NEW_FRAME /\ clicked = FALSE /\ paused = FALSE /\ selected = None
    /\ seed = 0 /\ target = 0 /\ guard = 0 /\ cut = FALSE

-----------------------------------------------------------------------------
(* Keys.                                                                   *)

Pressed(key) == at < key /\ at' = key

toggle_pause ==
    /\ Pressed(KEY_SPACE) /\ paused' = ~ paused
    /\ UNCHANGED <<vars, clicked, selected, seed, target, guard, cut>>

\* sim_free and sim_init: everything starts anew, the pause stays.
Restart ==
    /\ now' = 0
    /\ \E gap \in ArrivalGaps, wgap \in WeatherGaps :
           pq' = schedule_weather(schedule(<<>>, 0, "EVENT_AIRCRAFT_ARRIVE",
                                           gap, PRIO_ROUTINE), 0, wgap)
    /\ flights' = [f \in Flights |-> Blank] /\ flight_count' = 0
    /\ runways' = [rw \in Runways |-> [state |-> "RW_IDLE", occupant |-> None]]
    /\ gates' = [g \in Gates |-> [state |-> "GATE_VACANT", occupant |-> None]]
    /\ holding' = <<>> /\ taxi_wait' = <<>>
    /\ weather' = "WX_CLEAR" /\ spawning_done' = FALSE
    /\ stats' = [i \in DOMAIN stats |-> 0]

reset_SelectionKept ==
    /\ Pressed(KEY_R) /\ seed < MaxResets /\ seed' = seed + 1
    /\ Restart /\ cut' = FALSE
    /\ UNCHANGED <<clicked, paused, selected, target, guard>>
reset ==
    /\ Pressed(KEY_R) /\ seed < MaxResets /\ seed' = seed + 1
    /\ Restart /\ selected' = None /\ cut' = FALSE
    /\ UNCHANGED <<clicked, paused, target, guard>>

\* The flight nearest to the mouse, if one that has not left is near enough.
pick_aircraft ==
    /\ Pressed(CLICK) /\ clicked' = TRUE
    /\ selected' \in Live \cup {None}
    /\ UNCHANGED <<vars, paused, seed, target, guard, cut>>

\* The commands of keys and buttons that have two cases in Sector.
Expedite(f) == sim_cmd_prioritize_inbound(f) \/ sim_cmd_prioritize_holding(f)
Divert(f)   == sim_cmd_divert(f) \/ sim_cmd_divert_ringed(f)

Command_key(key, command) ==
    /\ Pressed(key)
    /\ selected # None /\ command
    /\ UNCHANGED <<clicked, paused, selected, seed, target, guard, cut>>

-----------------------------------------------------------------------------
(* Events.                                                                 *)

begin_events ==
    /\ at < EVENTS /\ ~ paused /\ at' = EVENTS
    /\ \E d \in FrameTicks : target' = now + d
    /\ UNCHANGED <<vars, clicked, paused, selected, seed, guard, cut>>

Due_Before == pq # <<>> /\ Head(pq).time < target /\ guard < FRAME_EVENTS
Due_First == pq # <<>> /\ Head(pq).time <= target /\ guard = 0
DueBy(time) == pq # <<>> /\ Head(pq).time <= time
Due == DueBy(target) /\ guard < FRAME_EVENTS

fire ==
    /\ at = EVENTS /\ Due
    /\ sim_step
    /\ guard' = guard + 1
    /\ UNCHANGED <<at, clicked, paused, selected, seed, target, cut>>

\* A flight that has left is no longer selected.
Deselect ==
    selected' = IF selected # None /\ flights[selected].state \in Gone
                THEN None ELSE selected

\* An exhausted queue stops the clock here, as in Sector.
end_events_ClockStays ==
    /\ at = EVENTS /\ ~ Due
    /\ at' = PICTURE /\ Deselect /\ target' = 0 /\ guard' = 0
    /\ cut' = (cut \/ (DueBy(target) /\ FRAME_EVENTS <= guard))
    /\ UNCHANGED <<vars, clicked, paused, seed>>
end_events ==
    /\ at = EVENTS /\ ~ Due
    /\ now' = IF pq # <<>> /\ now < target THEN target ELSE now
    /\ at' = PICTURE /\ Deselect /\ target' = 0 /\ guard' = 0
    /\ cut' = (cut \/ (DueBy(target) /\ FRAME_EVENTS <= guard))
    /\ UNCHANGED <<pq, flights, flight_count, runways, gates, holding,
                   taxi_wait, weather, spawning_done, stats, clicked, paused,
                   seed>>

no_events ==
    /\ at < EVENTS /\ paused /\ at' = PICTURE /\ Deselect
    /\ UNCHANGED <<vars, clicked, paused, seed, target, guard, cut>>

-----------------------------------------------------------------------------
(* The picture and its buttons.  EMERGENCY OVERRIDE gives the same command *)
(* as EXPEDITE.                                                            *)

button ==
    /\ ~ clicked /\ selected # None
    /\ \/ sim_cmd_hold(selected)
       \/ Expedite(selected)
       \/ sim_cmd_go_around(selected)
       \/ Divert(selected)

end_frame ==
    /\ at = PICTURE /\ at' = NEW_FRAME /\ clicked' = FALSE
    /\ button \/ UNCHANGED vars
    /\ UNCHANGED <<paused, selected, seed, target, guard, cut>>

-----------------------------------------------------------------------------
Keys == \/ toggle_pause \/ reset \/ pick_aircraft
        \/ Command_key(KEY_E, Expedite(selected))
        \/ Command_key(KEY_H, sim_cmd_hold(selected))
        \/ Command_key(KEY_D, Divert(selected))
        \/ Command_key(KEY_G, sim_cmd_go_around(selected))
Frames == begin_events \/ fire \/ end_events \/ no_events \/ end_frame

-----------------------------------------------------------------------------
(* run_snapshot: a simulation is run to one minute, without a limit of     *)
(* events, and drawn.                                                      *)

SnapshotInit ==
    /\ Init /\ mode = "snapshot"
    /\ at = EVENTS /\ clicked = FALSE /\ paused = FALSE /\ selected = None
    /\ seed = 0 /\ target = at_minute /\ guard = 0 /\ cut = FALSE

snapshot_step ==
    /\ at = EVENTS /\ DueBy(target)
    /\ sim_step
    /\ UNCHANGED <<at, clicked, paused, selected, seed, target, guard, cut>>

snapshot_taken ==
    /\ at = EVENTS /\ ~ DueBy(target) /\ at' = PICTURE
    /\ now' = IF now < target THEN target ELSE now
    /\ UNCHANGED <<pq, flights, flight_count, runways, gates, holding,
                   taxi_wait, weather, spawning_done, stats, clicked, paused,
                   selected, seed, target, guard, cut>>

Snapshot == snapshot_step \/ snapshot_taken

-----------------------------------------------------------------------------
In(m, A) == mode = m /\ UNCHANGED mode /\ A

AppNext == In("window", Keys) \/ In("window", Frames) \/ In("snapshot", Snapshot)
AppSpec == (AppInit \/ SnapshotInit) /\ [][AppNext]_appVars

\* The loop runs as long as the window is open; nobody need press a key.  A
\* snapshot waits for nobody.
FairAppSpec == /\ AppSpec
               /\ WF_appVars(In("window", Frames))
               /\ WF_appVars(In("snapshot", Snapshot))

-----------------------------------------------------------------------------
(* Properties.                                                             *)

\* What is drawn, and offered buttons, as the selected flight is a flight of
\* the table in use and in the sector: it may leave through a key or an event
\* of the same frame, and a reset replaces the table.
SelectionLive == at = PICTURE => selected \in Live \cup {None}

\* Outside its event loop a frame has nothing overdue: commands and drawing
\* always see a simulation in which everything due has fired, unless the limit
\* of events has cut a frame of it.
FrameComplete == at # EVENTS /\ ~ cut => \A i \in DOMAIN pq : now < pq[i].time

\* No key and no button meets an inbound flight, unless a frame has been cut: its
\* first event is due at once and has fired before the loop takes another
\* command.  So Hold, the only command for inbound flights alone, is refused.
NobodyInbound ==
    at # EVENTS /\ ~ cut => \A f \in InUse : flights[f].state # "AC_INBOUND"

\* Uncut, the frame loop does to the core nothing that Sector does not allow: events
\* in order, commands, a clock that stays short of what is pending (or, with
\* nothing pending, goes on to the minute of the snapshot), and starting anew.
Core == INSTANCE Sector WITH FrameTicks <- 1 .. Max(FrameTicks \cup {at_minute})
ClockAlone ==
    /\ pq = <<>> /\ now < now'
    /\ UNCHANGED <<pq, flights, flight_count, runways, gates, holding,
                   taxi_wait, weather, spawning_done, stats>>
KeepsCoreRules == [][~ cut' => Core!Next \/ Core!Init' \/ ClockAlone]_vars

\* What a frame that is cut by its limit leaves due keeps its place at the front
\* of the queue: no key, button or picture before the next frame drops any of
\* it, or adds something to be done before the clock moves on.
Leftover(q, t, k) == k \in DOMAIN q /\ q[k].time <= t
LeftoversKept ==
    [][at # EVENTS /\ seed' = seed =>
           /\ \A k \in DOMAIN pq : Leftover(pq, now, k) =>
                  k \in DOMAIN pq' /\ pq'[k] = pq[k]
           /\ \A k \in DOMAIN pq' : Leftover(pq', now', k) =>
                  Leftover(pq, now, k)]_appVars

\* If the controller at last leaves the simulation running, all its traffic
\* leaves: pauses, resets and late commands may delay that, not prevent it.  A
\* flight that Hold caught in a frame that was cut may never leave.
Unpaused == mode = "window" /\ <>[](~ paused /\ ~ cut) => <>[](pq = <<>>)

\* The picture is taken: no chain of events that are due at the same minute
\* goes on for ever.
SnapshotTaken == mode = "snapshot" => <>(at = PICTURE)
=============================================================================

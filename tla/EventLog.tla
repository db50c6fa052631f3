------------------------------ MODULE EventLog ------------------------------
(***************************************************************************)
(* The rolling event log of sim.c: an array of SIM_LOG_CAP lines that is   *)
(* overwritten from its oldest line on when it is full.  A line stands for *)
(* the time, the severity and the text of the code.                        *)
(***************************************************************************)
EXTENDS LogSize

CONSTANTS LogLine,      \* the lines that handlers and commands log
          Blank         \* what memset leaves in the array

VARIABLES log, log_head, log_len

vars == <<log, log_head, log_len>>

Init == /\ log = [i \in 0 .. SIM_LOG_CAP - 1 |-> Blank]
        /\ log_head = 0 /\ log_len = 0

sim_log_HeadKept(m) ==
    /\ log' = [log EXCEPT ![(log_head + log_len) % SIM_LOG_CAP] = m]
    /\ log_len' = IF log_len < SIM_LOG_CAP THEN log_len + 1 ELSE log_len
    /\ UNCHANGED log_head
sim_log(m) ==
    /\ log' = [log EXCEPT ![(log_head + log_len) % SIM_LOG_CAP] = m]
    /\ \/ /\ log_len < SIM_LOG_CAP
          /\ log_len' = log_len + 1 /\ UNCHANGED log_head
       \/ /\ log_len >= SIM_LOG_CAP
          /\ log_head' = (log_head + 1) % SIM_LOG_CAP /\ UNCHANGED log_len

Next == \E m \in LogLine : sim_log(m)

Spec == Init /\ [][Next]_vars

\* sim_log_at for an index below sim_log_count: line 0 is the newest.
sim_log_at(i) == log[(log_head + log_len - 1 - i) % SIM_LOG_CAP]

-----------------------------------------------------------------------------
\* Types; every index lies in the array.
TypeOK == /\ log \in [0 .. SIM_LOG_CAP - 1 -> LogLine \cup {Blank}]
          /\ log_head \in 0 .. SIM_LOG_CAP - 1
          /\ log_len \in 0 .. SIM_LOG_CAP

\* What a caller reads who asks for lines 0, 1, ... while sim_log_at is true;
\* DrawEventLog does, for as many rows as fit.
Ticker == [k \in 1 .. log_len |-> sim_log_at(k - 1)]

RL == INSTANCE RecentLines WITH lines <- Ticker, CAP <- SIM_LOG_CAP

\* The ticker shows the latest lines, newest first, also once the array has
\* been overwritten many times; no line is shown that was not logged.
ShowsLatest == RL!Spec
=============================================================================

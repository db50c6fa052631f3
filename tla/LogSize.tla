------------------------------ MODULE LogSize ------------------------------
(* How many lines the event log holds: SIM_LOG_CAP of sim.h.               *)
EXTENDS Integers

CONSTANT SIM_LOG_CAP

ASSUME LogAssumption == SIM_LOG_CAP \in Nat \ {0}
=============================================================================

------------------------------ MODULE MCSector ------------------------------
(***************************************************************************)
(* Model checking the simulation core.  The configurations give the        *)
(* constants small values; what is here states what the documentation says *)
(* of the program where the code does otherwise, each beside its words.    *)
(***************************************************************************)
EXTENDS SectorProperties

Started(f, state) == flights[f].state # state /\ flights'[f].state = state

\* "Below a threshold an aircraft declares an emergency and preempts the
\* landing queue." (README.md)  A flight in the holding ring whose recorded
\* fuel is at or below the threshold has declared.
LowFuelDeclared ==
    \A k \in DOMAIN holding :
        flights[holding[k]].fuel <= FUEL_EMERGENCY => flights[holding[k]].emergency

\* "sum of all queue waits" (cumulative_wait in sim.h).  The wait of a
\* departure that has been refused a runway is part of it: queue_enter_time
\* is then the time of the last refusal, one retry ago.
DepartureWaitsCounted ==
    [][\A f \in Flights : Started(f, "AC_DEPARTING")
                          /\ flights[f].queue_enter_time = now' - TAKEOFF_RETRY
                          => stats'.cumulative_wait > stats.cumulative_wait]_vars

\* "Expedite bumps a holding aircraft to the front of the landing queue; the
\* next runway to open serves it first." (README.md)  Unless an emergency
\* preempts it, the flight expedited last is the one holding_pop_priority takes.
ExpeditedServedNext ==
    [][\A f \in Flights :
           /\ sim_cmd_prioritize_holding(f) /\ flights'[f].state = "AC_HOLDING"
           /\ \A k \in DOMAIN holding' : ~ flights'[holding'[k]].emergency
           => \A k \in holding_pop_priority(holding', flights') :
                  holding'[k] = f]_vars
=============================================================================

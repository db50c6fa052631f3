----------------------------- MODULE WaitingLine -----------------------------
(***************************************************************************)
(* A bounded line of waiting flights, as Sector sees the holding ring and  *)
(* the taxiway: flights join at the end while there is room, leave at the  *)
(* head, or leave from the middle without disturbing the others.           *)
(***************************************************************************)
EXTENDS Integers, Sequences, FiniteSets

CONSTANTS Flights, SLOTS, None

VARIABLES waiting,  \* the flights that wait, first to leave first
          popped    \* what was last taken out, None if there was nothing

lvars == <<waiting, popped>>

Init == waiting = <<>> /\ popped = None

Join(f) == /\ Len(waiting) < SLOTS
           /\ waiting' = Append(waiting, f) /\ UNCHANGED popped

Leave == /\ waiting # <<>>
         /\ popped' = Head(waiting) /\ waiting' = Tail(waiting)

NobodyLeaves == waiting = <<>> /\ popped' = None /\ UNCHANGED waiting

\* The line without the flights at the positions outside keep.
Kept(keep) ==
    [j \in 1 .. Cardinality(keep) |->
        waiting[CHOOSE k \in keep : Cardinality(keep \cap 1 .. k) = j]]

LeaveFrom(k) == /\ popped' = waiting[k]
                /\ waiting' = Kept(DOMAIN waiting \ {k})

Withdraw(f) == /\ waiting' = Kept({k \in DOMAIN waiting : waiting[k] # f})
               /\ UNCHANGED popped

Next == \/ \E f \in Flights : Join(f) \/ Withdraw(f)
        \/ \E k \in DOMAIN waiting : LeaveFrom(k)
        \/ Leave \/ NobodyLeaves

Spec == Init /\ [][Next]_lvars
=============================================================================

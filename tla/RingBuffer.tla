----------------------------- MODULE RingBuffer -----------------------------
(***************************************************************************)
(* The arrays behind holding and taxi_wait (sim.c): a circular buffer with *)
(* a head, a tail and a length, compacted to slot 0 when a flight is taken *)
(* from the middle.  Both arrays work alike; the holding ring has the two  *)
(* operations that compact, too.  Slots are numbered from 0, positions in  *)
(* the line from 1.                                                        *)
(*                                                                         *)
(* Which flight holding_pop_priority prefers is described in Sector; here  *)
(* it may be any.                                                          *)
(***************************************************************************)
EXTENDS Integers, FiniteSets

CONSTANTS Flights,  \* ids of the flights that use the ring
          SLOTS     \* MAX_HOLDING_SLOTS or MAX_TAXI_SLOTS

\* memset fills the array with 0, which is also a flight's id.
ASSUME RingAssumption == SLOTS \in Nat \ {0} /\ 0 \in Flights

VARIABLES slots, head, tail, len,  \* holding, or taxi_wait
          popped                   \* what the last pop returned

vars == <<slots, head, tail, len, popped>>

None == -1

\* The slot of the k-th flight in the line.
Slot(k) == (head + k - 1) % SLOTS

Init == /\ slots = [i \in 0 .. SLOTS - 1 |-> 0]
        /\ head = 0 /\ tail = 0 /\ len = 0 /\ popped = None

\* holding_push, taxi_push.
push_Overrun(f) ==
    /\ slots' = [slots EXCEPT ![tail] = f]
    /\ tail' = (tail + 1) % SLOTS
    /\ len' = IF len < SLOTS THEN len + 1 ELSE len
    /\ UNCHANGED <<head, popped>>
push(f) ==
    /\ len < SLOTS
    /\ slots' = [slots EXCEPT ![tail] = f]
    /\ tail' = (tail + 1) % SLOTS
    /\ len' = len + 1
    /\ UNCHANGED <<head, popped>>

\* ... on a full ring: nothing is stored.
push_full == len >= SLOTS /\ UNCHANGED vars

\* holding_pop, taxi_pop.
pop == /\ len > 0
       /\ popped' = slots[head]
       /\ head' = (head + 1) % SLOTS
       /\ len' = len - 1
       /\ UNCHANGED <<slots, tail>>

pop_empty == len = 0 /\ popped' = None /\ UNCHANGED <<slots, head, tail, len>>

\* The copy through tmp: the flights at the positions in keep move to the
\* front of the array.
MoveToFront(keep) ==
    LET nth(j) == CHOOSE k \in keep : Cardinality(keep \cap 1 .. k) = j IN
    slots' = [i \in 0 .. SLOTS - 1 |->
                 IF i < Cardinality(keep) THEN slots[Slot(nth(i + 1))]
                 ELSE slots[i]]

Compact(keep) ==
    /\ MoveToFront(keep)
    /\ head' = 0 /\ tail' = Cardinality(keep) % SLOTS
    /\ len' = Cardinality(keep)

\* holding_pop_priority, when an emergency or an expedited flight is at
\* position k.  Otherwise it is pop or pop_empty.
holding_pop_priority(k) ==
    /\ popped' = slots[Slot(k)]
    /\ Compact(1 .. len \ {k})

\* holding_remove of a flight that may be in the ring or, after a push on a
\* full ring, not in it.
holding_remove(f) ==
    /\ Compact({k \in 1 .. len : slots[Slot(k)] # f})
    /\ UNCHANGED popped

Next == \/ \E f \in Flights : push(f) \/ holding_remove(f)
        \/ \E k \in 1 .. len : holding_pop_priority(k)
        \/ push_full \/ pop \/ pop_empty

Spec == Init /\ [][Next]_vars

-----------------------------------------------------------------------------
\* Types; every index lies in the array.
TypeOK == /\ slots \in [0 .. SLOTS - 1 -> Flights]
          /\ head \in 0 .. SLOTS - 1 /\ tail \in 0 .. SLOTS - 1
          /\ len \in 0 .. SLOTS
          /\ popped \in Flights \cup {None}

\* The three counters agree: the tail is len slots after the head, also on a
\* full or an empty ring, where it is the head itself.
CountersAgree == tail = Slot(len + 1)

\* The line that the array holds.
Line == [k \in 1 .. len |-> slots[Slot(k)]]

WL == INSTANCE WaitingLine WITH waiting <- Line

\* The array is the line that Sector works with: flights come out in the order
\* in which they went in, none is lost, doubled or read from a stale slot,
\* wherever in the array the line begins.
KeepsTheLine == WL!Spec
=============================================================================

----------------------------- MODULE BinaryHeap -----------------------------
(***************************************************************************)
(* The event queue as pqueue.c implements it: a binary min-heap in an      *)
(* array that doubles when it is full.  Slots are numbered from 0 and the  *)
(* children of slot i are 2i+1 and 2i+2.                                   *)
(*                                                                         *)
(* One action is one call, or one turn of the loop of sift_up or           *)
(* sift_down: the loop holds the event it places in tmp, and the slot      *)
(* where the event would go is hole.  As in Sector, a name with a suffix   *)
(* (ev_less_Unstable) is the definition below it with one mistake.         *)
(***************************************************************************)
EXTENDS Integers, FiniteSets

CONSTANTS Event,             \* the events that callers push
          initial_capacity,  \* argument of pq_init
          MIN_CAPACITY,      \* 16 in pq_init
          Unset,             \* a slot or local that has not been written
          MaxPushes          \* bound of the model: pushes ever made

ASSUME EventAssumption ==
    \A e \in Event : e.time \in Nat /\ e.weight \in Nat
ASSUME CapacityAssumption ==
    /\ initial_capacity \in Int /\ MIN_CAPACITY \in Nat \ {0}
    /\ MaxPushes \in Nat

VARIABLES nodes, capacity, size, seq_counter,  \* EventPriorityQueue
          sift,   \* the loop that is running: "none", "up" or "down"
          hole,   \* its index i
          tmp,    \* its held event
          out     \* the event last delivered through *out

vars == <<nodes, capacity, size, seq_counter, sift, hole, tmp, out>>

EQ == INSTANCE EventQueue

\* A node is an event with the number pq_push gave it.
Node == [event : Event, seq : Nat]

ASSUME UnsetAssumption == Unset \notin Node

\* ev_less: earliest time, then lowest weight, then first inserted.
ev_less_Unstable(a, b) == EQ!ev_less(a.event, b.event)
ev_less(a, b) ==
    \/ EQ!ev_less(a.event, b.event)
    \/ /\ a.event.time = b.event.time /\ a.event.weight = b.event.weight
       /\ a.seq < b.seq

Parent(i)   == (i - 1) \div 2
Children(i) == {2 * i + 1, 2 * i + 2}

\* pq_init
Init ==
    /\ capacity = IF initial_capacity < MIN_CAPACITY THEN MIN_CAPACITY
                  ELSE initial_capacity
    /\ nodes = [i \in 0 .. capacity - 1 |-> Unset]
    /\ size = 0 /\ seq_counter = 0
    /\ sift = "none" /\ hole = 0 /\ tmp = Unset /\ out = Unset

-----------------------------------------------------------------------------
(* pq_push.                                                                *)

\* pq_grow, when the array is full: the old slots keep their events.
Grown == IF size = capacity THEN 2 * capacity ELSE capacity

pq_push(e) ==
    /\ sift = "none" /\ seq_counter < MaxPushes
    /\ LET node == [event |-> e, seq |-> seq_counter] IN
       /\ capacity' = Grown
       /\ nodes' = [i \in 0 .. Grown - 1 |->
                       CASE i = size -> node
                         [] i # size /\ i < capacity -> nodes[i]
                         [] OTHER -> Unset]
       /\ tmp' = node
    /\ seq_counter' = seq_counter + 1
    /\ sift' = "up" /\ hole' = size
    /\ UNCHANGED <<size, out>>

Rises == hole > 0 /\ ev_less(tmp, nodes[Parent(hole)])

\* One turn of the loop: the parent moves down into the hole.
sift_up_turn ==
    /\ sift = "up" /\ Rises
    /\ nodes' = [nodes EXCEPT ![hole] = nodes[Parent(hole)]]
    /\ hole' = Parent(hole)
    /\ UNCHANGED <<capacity, size, seq_counter, sift, tmp, out>>

\* The loop ends and pq_push returns.
sift_up_end ==
    /\ sift = "up" /\ ~ Rises
    /\ nodes' = [nodes EXCEPT ![hole] = tmp]
    /\ size' = size + 1
    /\ sift' = "none" /\ hole' = 0 /\ tmp' = Unset
    /\ UNCHANGED <<capacity, seq_counter, out>>

-----------------------------------------------------------------------------
(* pq_pop and pq_peek.                                                     *)

\* The last event takes the root's place and sifts down, unless it was the
\* root itself.
pq_pop ==
    /\ sift = "none" /\ size > 0
    /\ out' = nodes[0]
    /\ size' = size - 1
    /\ IF size' > 0
       THEN /\ nodes' = [nodes EXCEPT ![0] = nodes[size']]
            /\ sift' = "down" /\ hole' = 0 /\ tmp' = nodes[size']
       ELSE UNCHANGED <<nodes, sift, hole, tmp>>
    /\ UNCHANGED <<capacity, seq_counter>>

\* The child that moves up into the hole: the first to serve of those that
\* are served before the held event, if there is one.
best_LeftFirst ==
    {c \in Children(hole) :
        /\ c < size /\ ev_less(nodes[c], tmp)
        /\ \A d \in Children(hole) : ev_less(nodes[d], tmp) => c <= d}
best ==
    {c \in Children(hole) :
        /\ c < size /\ ev_less(nodes[c], tmp)
        /\ \A d \in Children(hole) : d < size => ~ ev_less(nodes[d], nodes[c])}

sift_down_turn ==
    /\ sift = "down"
    /\ \E c \in best : /\ nodes' = [nodes EXCEPT ![hole] = nodes[c]]
                       /\ hole' = c
    /\ UNCHANGED <<capacity, size, seq_counter, sift, tmp, out>>

sift_down_end ==
    /\ sift = "down" /\ best = {}
    /\ nodes' = [nodes EXCEPT ![hole] = tmp]
    /\ sift' = "none" /\ hole' = 0 /\ tmp' = Unset
    /\ UNCHANGED <<capacity, size, seq_counter, out>>

pq_peek ==
    /\ sift = "none" /\ size > 0
    /\ out' = nodes[0]
    /\ UNCHANGED <<nodes, capacity, size, seq_counter, sift, hole, tmp>>

\* pq_pop and pq_peek return false.
pq_empty == sift = "none" /\ size = 0 /\ UNCHANGED vars

-----------------------------------------------------------------------------
Sifting == sift_up_turn \/ sift_up_end \/ sift_down_turn \/ sift_down_end

Next == \/ \E e \in Event : pq_push(e)
        \/ Sifting
        \/ pq_pop \/ pq_peek \/ pq_empty

Spec == Init /\ [][Next]_vars

-----------------------------------------------------------------------------
(* Properties.                                                             *)

\* The number of slots in use; the slot that pq_push fills counts before size
\* does.
Used == IF sift = "up" THEN size + 1 ELSE size

\* What slot i holds, were the loop to stop here.
Live(i) == IF sift # "none" /\ i = hole THEN tmp ELSE nodes[i]

\* Types; in particular every slot in use has been written and lies in the
\* array, so pq_grow is called in time.
TypeOK ==
    /\ capacity \in Nat \ {0} /\ size \in 0 .. capacity /\ seq_counter \in Nat
    /\ nodes \in [0 .. capacity - 1 -> Node \cup {Unset}]
    /\ Used <= capacity
    /\ \A i \in 0 .. Used - 1 : Live(i) \in Node
    /\ sift \in {"none", "up", "down"}
    /\ hole \in Nat /\ (sift # "none" => hole < Used)
    /\ out \in Node \cup {Unset}

\* Every event is served no earlier than its parent.  While a loop runs, the
\* held event may still be out of place with the parent (up) or the children
\* (down) of the hole, but those are in order across it.
HeapOrder ==
    \A i \in 1 .. Used - 1 :
        /\ \/ ~ ev_less(Live(i), Live(Parent(i)))
           \/ sift = "up" /\ i = hole
           \/ sift = "down" /\ Parent(i) = hole
        /\ sift # "none" /\ Parent(i) = hole /\ hole > 0
           => ~ ev_less(Live(i), Live(Parent(hole)))

\* Between calls no pending event is to be served before the root, which is
\* what pq_pop and pq_peek deliver.
RootIsFirst ==
    sift = "none" => \A i \in 0 .. size - 1 : ~ ev_less(nodes[i], nodes[0])

\* The order that pqueue.h states, told by EventQueue and the numbers.
Precedes(m, n) == \/ EQ!ev_less(m.event, n.event)
                  \/ ~ EQ!ev_less(n.event, m.event) /\ m.seq < n.seq

\* The pending events in that order, without their numbers: what PriorityQueue
\* calls pending.
InOrder ==
    LET live == {Live(i) : i \in 0 .. Used - 1} IN
    [k \in 1 .. Cardinality(live) |->
        (CHOOSE n \in live :
            Cardinality({m \in live : Precedes(m, n)}) = k - 1).event]

PQ == INSTANCE PriorityQueue
          WITH pending <- InOrder, Nothing <- Unset,
               out <- IF out = Unset THEN Unset ELSE out.event

\* The heap implements the queue that the simulation counts on: whatever is
\* pushed and popped, and however the array grows, events are delivered by
\* time, then weight, then insertion, none lost, none twice.
ServesInOrder == PQ!Spec
=============================================================================

------------------------------- MODULE MCHeap -------------------------------
(***************************************************************************)
(* Model checking the heap.  Two flights tie on time and weight, one beats *)
(* them on weight and one comes later with the lowest weight.              *)
(***************************************************************************)
EXTENDS BinaryHeap

E(f, t, w) == [flight |-> f, type |-> "EVENT_TAXI_TO_GATE", time |-> t,
               weight |-> w]
FourEvents == {E(1, 1, 3), E(2, 1, 3), E(3, 1, 1), E(4, 2, 0)}
=============================================================================

---------------------------- MODULE PriorityQueue ----------------------------
(***************************************************************************)
(* What pqueue.h promises, as a specification: pending events are kept in  *)
(* the order in which they will be served, pq_pop delivers the first and   *)
(* removes it, pq_peek delivers it and leaves it.                          *)
(***************************************************************************)
EXTENDS EventQueue

CONSTANTS Event,   \* the events that callers push
          Nothing  \* what the caller's variable holds before any delivery

VARIABLES pending,   \* events pushed and not popped, first to serve first
          out        \* the event last delivered to a caller

qvars == <<pending, out>>

Init == pending = <<>> /\ out = Nothing

Push(e) == pending' = pq_push(pending, e) /\ UNCHANGED out

Pop == /\ pending # <<>>
       /\ out' = Head(pending) /\ pending' = Tail(pending)

Peek == /\ pending # <<>>
        /\ out' = Head(pending) /\ UNCHANGED pending

Next == Pop \/ Peek \/ \E e \in Event : Push(e)

Spec == Init /\ [][Next]_qvars
=============================================================================

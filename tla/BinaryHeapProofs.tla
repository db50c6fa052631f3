-------------------------- MODULE BinaryHeapProofs --------------------------
(***************************************************************************)
(* The heap of pqueue.c, of any size and with any events, keeps its order  *)
(* and has the event to serve first at its root; and so it implements the  *)
(* queue that the simulation counts on.                                    *)
(***************************************************************************)
EXTENDS BinaryHeap, CountingLemmas, Sequences, FiniteSetTheorems,
        SequenceTheorems, NaturalsInduction, WellFoundedInduction, TLAPS

-----------------------------------------------------------------------------
(* The order of the nodes, and the tree.                                   *)

LEMMA Asymmetric ==
  ASSUME NEW a \in Node, NEW b \in Node, ev_less(a, b)
  PROVE  ~ ev_less(b, a)
<1>1. /\ a.event.time \in Nat /\ a.event.weight \in Nat /\ a.seq \in Nat
      /\ b.event.time \in Nat /\ b.event.weight \in Nat /\ b.seq \in Nat
  BY EventAssumption DEF Node
<1> QED BY <1>1 DEF ev_less, EQ!ev_less

LEMMA Transitive ==
  ASSUME NEW a \in Node, NEW b \in Node, NEW c \in Node,
         ev_less(a, b), ev_less(b, c)
  PROVE  ev_less(a, c)
<1>1. /\ a.event.time \in Nat /\ a.event.weight \in Nat /\ a.seq \in Nat
      /\ b.event.time \in Nat /\ b.event.weight \in Nat /\ b.seq \in Nat
      /\ c.event.time \in Nat /\ c.event.weight \in Nat /\ c.seq \in Nat
  BY EventAssumption DEF Node
<1> QED BY <1>1 DEF ev_less, EQ!ev_less

\* If a is served no later than b and b no later than c, so is a than c.
LEMMA NotLater ==
  ASSUME NEW a \in Node, NEW b \in Node, NEW c \in Node,
         ~ ev_less(b, a), ~ ev_less(c, b)
  PROVE  ~ ev_less(c, a)
<1>1. /\ a.event.time \in Nat /\ a.event.weight \in Nat /\ a.seq \in Nat
      /\ b.event.time \in Nat /\ b.event.weight \in Nat /\ b.seq \in Nat
      /\ c.event.time \in Nat /\ c.event.weight \in Nat /\ c.seq \in Nat
  BY EventAssumption DEF Node
<1> QED BY <1>1 DEF ev_less, EQ!ev_less

LEMMA ParentBelow ==
  ASSUME NEW i \in Nat \ {0}
  PROVE  Parent(i) \in Nat /\ Parent(i) < i /\ i \in Children(Parent(i))
BY DEF Parent, Children

LEMMA ChildAbove ==
  ASSUME NEW h \in Nat, NEW c \in Children(h)
  PROVE  c \in Nat /\ c > h /\ Parent(c) = h
BY DEF Parent, Children

-----------------------------------------------------------------------------
(* Types.                                                                  *)

Inv == TypeOK /\ HeapOrder

LEMMA InitInv == Init => Inv
<1> SUFFICES ASSUME Init PROVE Inv
  OBVIOUS
<1>1. capacity \in Nat \ {0}
  BY CapacityAssumption DEF Init
<1>2. Used = 0
  BY DEF Init, Used
<1>3. TypeOK
  BY <1>1, <1>2 DEF Init, TypeOK
<1>4. HeapOrder
  BY <1>2 DEF HeapOrder
<1> QED BY <1>3, <1>4 DEF Inv

\* What holds inside pq_push, whose array may have grown.
LEMMA GrownEnough ==
  ASSUME TypeOK, sift = "none"
  PROVE  Grown \in Nat \ {0} /\ capacity <= Grown /\ size < Grown
BY DEF TypeOK, Grown, Used

LEMMA PushType ==
  ASSUME TypeOK, NEW e \in Event, pq_push(e), NEW n \in Nat, n = size
  PROVE  /\ TypeOK'
         /\ Used' = n + 1 /\ Live(n)' \in Node
         /\ \A i \in 0 .. size - 1 : Live(i)' = Live(i)
<1> DEFINE node == [event |-> e, seq |-> seq_counter]
<1>1. node \in Node
  BY DEF TypeOK, Node
<1>2. /\ sift = "none" /\ sift' = "up" /\ hole' = size /\ tmp' = node
      /\ size' = size /\ capacity' = Grown /\ out' = out
      /\ seq_counter' = seq_counter + 1
  BY DEF pq_push
<1>3. Grown \in Nat \ {0} /\ capacity <= Grown /\ size < Grown
  BY <1>2, GrownEnough
<1>4. nodes' = [i \in 0 .. Grown - 1 |->
                   CASE i = size -> node
                     [] i # size /\ i < capacity -> nodes[i]
                     [] OTHER -> Unset]
  BY DEF pq_push
<1> HIDE DEF node
<1>5. Used = size /\ Used' = size + 1 /\ size \in Nat /\ size <= capacity
      /\ capacity \in Nat
  BY <1>2 DEF Used, TypeOK
<1>6. \A i \in 0 .. size - 1 : nodes'[i] = nodes[i]
  BY <1>3, <1>4, <1>5
<1>7. \A i \in 0 .. size - 1 : Live(i)' = Live(i)
  BY <1>2, <1>5, <1>6 DEF Live
<1>8. Live(n)' = node
  BY <1>2 DEF Live
<1>9. nodes' \in [0 .. Grown - 1 -> Node \cup {Unset}]
  <2>1. nodes \in [0 .. capacity - 1 -> Node \cup {Unset}]
    BY DEF TypeOK
  <2>2. ASSUME NEW i \in 0 .. Grown - 1
        PROVE  nodes'[i] \in Node \cup {Unset}
    <3>1. CASE i = size
      BY <3>1, <1>1, <1>4
    <3>2. CASE i # size /\ i < capacity
      BY <3>2, <2>1, <1>4, <1>5
    <3>3. CASE i # size /\ ~ i < capacity
      <4>1. nodes'[i] = Unset
        BY <3>3, <1>4
      <4> QED BY <4>1
    <3> QED BY <3>1, <3>2, <3>3
  <2> QED BY <2>2, <1>4
<1>10. \A i \in 0 .. Used' - 1 : Live(i)' \in Node
  <2>1. \A i \in 0 .. size - 1 : Live(i) \in Node
    BY <1>5 DEF TypeOK
  <2> QED BY <2>1, <1>1, <1>5, <1>7, <1>8
<1>11. TypeOK'
  BY <1>2, <1>3, <1>5, <1>9, <1>10 DEF TypeOK
<1> QED BY <1>1, <1>5, <1>7, <1>8, <1>11

\* A turn of a loop swaps the held event with the event of the slot it goes
\* to: slot b for sift_up (its parent), and for sift_down (its child).
LEMMA TurnType ==
  ASSUME TypeOK, sift # "none", NEW h \in Nat, h = hole,
         NEW b \in 0 .. Used - 1, b # h,
         nodes' = [nodes EXCEPT ![hole] = nodes[b]], hole' = b,
         UNCHANGED <<capacity, size, seq_counter, sift, tmp, out>>
  PROVE  /\ TypeOK'
         /\ Used' = Used /\ Live(h)' = Live(b) /\ Live(b)' = Live(h)
         /\ \A i \in (0 .. Used - 1) \ {h, b} : Live(i)' = Live(i)
<1>1. Used' = Used /\ Used \in Nat /\ Used <= capacity /\ capacity \in Nat
  BY DEF Used, TypeOK
<1>2. h \in 0 .. Used - 1
  BY <1>1 DEF TypeOK
<1>3. nodes \in [0 .. capacity - 1 -> Node \cup {Unset}]
  BY DEF TypeOK
<1>4. /\ nodes'[hole] = nodes[b]
      /\ \A i \in 0 .. Used - 1 : i # hole => nodes'[i] = nodes[i]
  BY <1>1, <1>2, <1>3
<1>5. /\ Live(h)' = Live(b) /\ Live(b)' = Live(h)
      /\ \A i \in (0 .. Used - 1) \ {h, b} : Live(i)' = Live(i)
  BY <1>2, <1>4 DEF Live
<1>6. nodes' \in [0 .. capacity - 1 -> Node \cup {Unset}]
  BY <1>1, <1>2, <1>3
<1>7. \A i \in 0 .. Used - 1 : Live(i) \in Node
  BY DEF TypeOK
<1>8. \A i \in 0 .. Used - 1 : Live(i)' \in Node
  BY <1>2, <1>5, <1>7
<1>9. TypeOK'
  BY <1>1, <1>6, <1>8 DEF TypeOK
<1> QED BY <1>1, <1>5, <1>9

\* The end of a loop puts the held event into the hole.
LEMMA EndType ==
  ASSUME TypeOK, sift # "none",
         nodes' = [nodes EXCEPT ![hole] = tmp],
         sift' = "none", hole' = 0, tmp' = Unset, size' = Used,
         UNCHANGED <<capacity, seq_counter, out>>
  PROVE  /\ TypeOK'
         /\ Used' = Used /\ \A i \in 0 .. Used - 1 : Live(i)' = Live(i)
<1>1. Used' = Used /\ Used \in Nat /\ Used <= capacity /\ capacity \in Nat
  BY DEF Used, TypeOK
<1>2. hole \in 0 .. Used - 1
  BY <1>1 DEF TypeOK
<1>3. nodes \in [0 .. capacity - 1 -> Node \cup {Unset}]
  BY DEF TypeOK
<1>4. /\ nodes'[hole] = tmp
      /\ \A i \in 0 .. Used - 1 : i # hole => nodes'[i] = nodes[i]
  BY <1>1, <1>2, <1>3
<1>5. \A i \in 0 .. Used - 1 : Live(i)' = Live(i)
  BY <1>4 DEF Live
<1>6. \A i \in 0 .. Used - 1 : Live(i) \in Node
  BY DEF TypeOK
<1>7. tmp \in Node
  BY <1>2, <1>6 DEF Live
<1>8. nodes' \in [0 .. capacity - 1 -> Node \cup {Unset}]
  BY <1>1, <1>2, <1>3, <1>7
<1>9. \A i \in 0 .. Used - 1 : Live(i)' \in Node
  BY <1>5, <1>6
<1>10. TypeOK'
  BY <1>1, <1>8, <1>9 DEF TypeOK
<1> QED BY <1>1, <1>5, <1>10

-----------------------------------------------------------------------------
(* The order of the heap, action by action.                                *)

\* What Inv says of one slot.
LEMMA OrderAt ==
  ASSUME Inv, NEW i \in 1 .. Used - 1
  PROVE  /\ i \in Nat \ {0} /\ i < Used
         /\ Parent(i) \in 0 .. Used - 1 /\ Parent(i) < i
         /\ Live(i) \in Node /\ Live(Parent(i)) \in Node
         /\ \/ ~ ev_less(Live(i), Live(Parent(i)))
            \/ sift = "up" /\ i = hole
            \/ sift = "down" /\ Parent(i) = hole
         /\ sift # "none" /\ Parent(i) = hole /\ hole > 0
            => ~ ev_less(Live(i), Live(Parent(hole)))
<1>1. Used \in Nat /\ i \in Nat \ {0} /\ i < Used
  BY DEF Inv, TypeOK, Used
<1>2. Parent(i) \in 0 .. Used - 1 /\ Parent(i) < i
  BY <1>1, ParentBelow
<1>3. Live(i) \in Node /\ Live(Parent(i)) \in Node
  BY <1>1, <1>2 DEF Inv, TypeOK
<1> QED BY <1>1, <1>2, <1>3 DEF Inv, HeapOrder

\* To show Inv' it is enough to look at the children.
LEMMA OrderNext ==
  ASSUME TypeOK',
         \A i \in 1 .. Used' - 1 :
             /\ \/ ~ ev_less(Live(i)', Live(Parent(i))')
                \/ sift' = "up" /\ i = hole'
                \/ sift' = "down" /\ Parent(i) = hole'
             /\ sift' # "none" /\ Parent(i) = hole' /\ hole' > 0
                => ~ ev_less(Live(i)', Live(Parent(hole))')
  PROVE  Inv'
BY DEF Inv, HeapOrder, ev_less, EQ!ev_less, Parent

LEMMA PushInv ==
  ASSUME Inv, NEW e \in Event, pq_push(e)
  PROVE  Inv'
<1>1. /\ sift = "none" /\ sift' = "up" /\ hole' = size
      /\ size \in Nat /\ Used = size
  BY DEF pq_push, Inv, TypeOK, Used
<1>2. PICK n \in Nat : n = size
  BY <1>1
<1>3. /\ TypeOK' /\ Used' = n + 1
      /\ \A i \in 0 .. size - 1 : Live(i)' = Live(i)
  BY <1>2, PushType DEF Inv
<1>4. ASSUME NEW i \in 1 .. Used' - 1
      PROVE  /\ \/ ~ ev_less(Live(i)', Live(Parent(i))')
                \/ sift' = "up" /\ i = hole'
             /\ Parent(i) # hole'
  <2>1. Parent(i) \in Nat /\ Parent(i) < i /\ i < n + 1 /\ i \in Nat
    BY <1>3, ParentBelow
  <2>2. CASE i = n
    BY <2>1, <2>2, <1>1, <1>2
  <2>3. CASE i # n
    <3>1. i \in 1 .. Used - 1
      BY <2>1, <2>3, <1>1, <1>2
    <3>2. Live(i)' = Live(i) /\ Live(Parent(i))' = Live(Parent(i))
      BY <2>1, <2>3, <1>2, <1>3
    <3>3. ~ ev_less(Live(i), Live(Parent(i)))
      BY <3>1, OrderAt, <1>1
    <3> QED BY <3>2, <3>3, <2>1, <2>3, <1>1, <1>2
  <2> QED BY <2>2, <2>3
<1> QED BY <1>3, <1>4, OrderNext

LEMMA UpTurnInv ==
  ASSUME Inv, sift_up_turn
  PROVE  Inv'
<1>1. /\ sift = "up" /\ sift' = "up" /\ hole \in Nat /\ hole > 0
      /\ hole \in 1 .. Used - 1
      /\ ev_less(tmp, nodes[Parent(hole)])
      /\ hole' = Parent(hole)
      /\ nodes' = [nodes EXCEPT ![hole] = nodes[Parent(hole)]]
      /\ UNCHANGED <<capacity, size, seq_counter, sift, tmp, out>>
  BY DEF sift_up_turn, Rises, Inv, TypeOK, Used
<1>2. PICK h \in 1 .. Used - 1 : h = hole
  BY <1>1
<1>3. PICK p \in 0 .. Used - 1 : p = Parent(h) /\ p < h
  BY OrderAt
<1>4. h \in Nat /\ p \in Nat /\ p # h /\ hole' = p /\ hole = h /\ Used \in Nat
  BY <1>1, <1>2, <1>3 DEF Inv, TypeOK, Used
<1>5. nodes' = [nodes EXCEPT ![hole] = nodes[p]]
  BY <1>1, <1>2, <1>3
<1>6. /\ TypeOK' /\ Used' = Used
      /\ Live(h)' = Live(p) /\ Live(p)' = Live(h)
      /\ \A i \in (0 .. Used - 1) \ {h, p} : Live(i)' = Live(i)
  BY <1>1, <1>3, <1>4, <1>5, TurnType DEF Inv
<1>7. Live(h) = tmp /\ Live(p) = nodes[p] /\ ev_less(Live(h), Live(p))
  BY <1>1, <1>2, <1>3, <1>4 DEF Live
<1>8. Live(h) \in Node /\ Live(p) \in Node
  BY <1>2, <1>3, OrderAt
<1>9. ~ ev_less(Live(p), Live(h))
  BY <1>7, <1>8, Asymmetric
<1>10. ASSUME NEW i \in 1 .. Used - 1, i # p
       PROVE  ~ ev_less(Live(i)', Live(Parent(i))')
  <2>1. /\ i \in Nat /\ i < Used /\ Parent(i) \in 0 .. Used - 1
        /\ Parent(i) < i /\ Live(i) \in Node /\ Live(Parent(i)) \in Node
    BY OrderAt
  <2>2. CASE i = h
    BY <2>2, <1>3, <1>6, <1>9
  <2>3. CASE i # h /\ Parent(i) = p
    <3>1. ~ ev_less(Live(i), Live(p))
      BY <2>3, OrderAt, <1>1, <1>4
    <3>2. ~ ev_less(Live(i), Live(h))
      BY <3>1, <2>1, <1>8, <1>9, NotLater
    <3> QED BY <3>2, <2>3, <1>6, <1>10
  <2>4. CASE i # h /\ Parent(i) = h
    <3>1. ~ ev_less(Live(i), Live(p))
      BY <2>4, OrderAt, <1>1, <1>3, <1>4
    <3> QED BY <3>1, <2>4, <1>6, <1>10
  <2>5. CASE i # h /\ Parent(i) # p /\ Parent(i) # h
    <3>1. ~ ev_less(Live(i), Live(Parent(i)))
      BY <2>5, OrderAt, <1>1, <1>4
    <3>2. Live(i)' = Live(i) /\ Live(Parent(i))' = Live(Parent(i))
      BY <2>1, <2>5, <1>6, <1>10
    <3> QED BY <3>1, <3>2
  <2> QED BY <2>2, <2>3, <2>4, <2>5
<1>11. ASSUME NEW i \in 1 .. Used - 1, Parent(i) = p, p > 0
       PROVE  ~ ev_less(Live(i)', Live(Parent(p))')
  <2>1. p \in 1 .. Used - 1
    BY <1>3, <1>4, <1>11
  <2>2. Parent(p) \in 0 .. Used - 1 /\ Parent(p) < p
    BY <2>1, OrderAt
  <2>3. Live(Parent(p))' = Live(Parent(p)) /\ Live(Parent(p)) \in Node
    BY <2>1, <2>2, <1>3, <1>4, <1>6, OrderAt
  <2>4. ~ ev_less(Live(p), Live(Parent(p)))
    BY <2>1, <1>1, <1>4, OrderAt
  <2>5. CASE i = h
    BY <2>3, <2>4, <2>5, <1>6
  <2>6. CASE i # h
    <3>1. i # p /\ Live(i) \in Node /\ i \in 0 .. Used - 1
      BY <1>11, <1>4, OrderAt
    <3>2. ~ ev_less(Live(i), Live(p))
      BY <2>6, <1>1, <1>4, <1>11, OrderAt
    <3>3. ~ ev_less(Live(i), Live(Parent(p)))
      BY <3>1, <3>2, <2>3, <2>4, <1>8, NotLater
    <3> QED BY <3>1, <3>3, <2>3, <2>6, <1>6
  <2> QED BY <2>5, <2>6
<1>12. p > 0 => Live(Parent(hole))' = Live(Parent(p))'
  BY <1>4 DEF Live, Parent
<1> QED BY <1>1, <1>4, <1>6, <1>10, <1>11, <1>12, OrderNext

\* At the end of a loop the held event is in order with its neighbours.
LEMMA EndInv ==
  ASSUME Inv, sift # "none",
         nodes' = [nodes EXCEPT ![hole] = tmp],
         sift' = "none", hole' = 0, tmp' = Unset, size' = Used,
         UNCHANGED <<capacity, seq_counter, out>>,
         \A i \in 1 .. Used - 1 : i = hole \/ Parent(i) = hole
                                  => ~ ev_less(Live(i), Live(Parent(i)))
  PROVE  Inv'
<1>1. /\ TypeOK' /\ Used' = Used /\ Used \in Nat
      /\ \A i \in 0 .. Used - 1 : Live(i)' = Live(i)
  BY EndType DEF Inv, TypeOK, Used
<1>2. ASSUME NEW i \in 1 .. Used - 1
      PROVE  ~ ev_less(Live(i)', Live(Parent(i))')
  <2>1. ~ ev_less(Live(i), Live(Parent(i)))
    BY OrderAt
  <2>2. i \in 0 .. Used - 1 /\ Parent(i) \in 0 .. Used - 1
    BY OrderAt
  <2>3. Live(i)' = Live(i) /\ Live(Parent(i))' = Live(Parent(i))
    BY <2>2, <1>1
  <2> QED BY <2>1, <2>3
<1> QED BY <1>1, <1>2, OrderNext

LEMMA UpEndInv ==
  ASSUME Inv, sift_up_end
  PROVE  Inv'
<1>1. /\ sift = "up" /\ ~ Rises /\ size' = Used
      /\ nodes' = [nodes EXCEPT ![hole] = tmp]
      /\ sift' = "none" /\ hole' = 0 /\ tmp' = Unset
      /\ UNCHANGED <<capacity, seq_counter, out>>
  BY DEF sift_up_end, Used
<1>2. ASSUME NEW i \in 1 .. Used - 1, i = hole \/ Parent(i) = hole
      PROVE  ~ ev_less(Live(i), Live(Parent(i)))
  <2>1. Parent(i) < i /\ Parent(i) \in Nat /\ i \in Nat \ {0}
    BY OrderAt
  <2>2. CASE i = hole
    <3>1. Live(i) = tmp /\ Live(Parent(i)) = nodes[Parent(hole)]
      BY <2>1, <2>2, <1>1 DEF Live
    <3> QED BY <3>1, <2>1, <2>2, <1>1 DEF Rises
  <2>3. CASE i # hole
    BY <2>3, <1>1, OrderAt
  <2> QED BY <2>2, <2>3
<1> QED BY <1>1, <1>2, EndInv

LEMMA DownEndInv ==
  ASSUME Inv, sift_down_end
  PROVE  Inv'
<1>1. /\ sift = "down" /\ best = {} /\ size' = Used /\ Used = size
      /\ nodes' = [nodes EXCEPT ![hole] = tmp]
      /\ sift' = "none" /\ hole' = 0 /\ tmp' = Unset
      /\ UNCHANGED <<capacity, seq_counter, out>>
      /\ hole \in Nat /\ size \in Nat
  BY DEF sift_down_end, Used, Inv, TypeOK
<1>2. \A d \in Children(hole) : d < size => nodes[d] \in Node
  <2> SUFFICES ASSUME NEW d \in Children(hole), d < size
               PROVE  nodes[d] \in Node
    OBVIOUS
  <2>1. d \in 0 .. Used - 1 /\ d # hole
    BY <1>1, ChildAbove
  <2>2. Live(d) \in Node
    BY <2>1 DEF Inv, TypeOK
  <2> QED BY <2>1, <2>2 DEF Live
<1>3. ASSUME NEW i \in 1 .. Used - 1, i = hole \/ Parent(i) = hole
      PROVE  ~ ev_less(Live(i), Live(Parent(i)))
  <2>1. /\ Parent(i) < i /\ Parent(i) \in Nat /\ i \in Nat \ {0}
        /\ i < size
    BY <1>1, OrderAt
  <2>2. CASE i = hole
    BY <2>1, <2>2, <1>1, OrderAt
  <2>3. CASE Parent(i) = hole
    <3>1. i \in Children(hole) /\ Live(i) = nodes[i] /\ Live(hole) = tmp
      BY <2>1, <2>3, <1>1, ParentBelow DEF Live
    <3> SUFFICES ASSUME ev_less(nodes[i], tmp)
                 PROVE  FALSE
      BY <3>1, <2>3
    <3>2. PICK d \in Children(hole) : d < size /\ ev_less(nodes[d], nodes[i])
      BY <3>1, <2>1, <1>1 DEF best
    <3>3. nodes[d] \in Node /\ nodes[i] \in Node /\ tmp \in Node
      BY <3>1, <3>2, <2>1, <2>3, <1>2, OrderAt
    <3>4. ev_less(nodes[d], tmp)
      BY <3>2, <3>3, Transitive
    <3>5. ~ ev_less(nodes[i], nodes[d]) /\ ~ ev_less(nodes[d], nodes[d])
      BY <3>2, <3>3, Asymmetric
    <3>6. Children(hole) = {i, d}
      <4>1. i # d
        BY <3>2, <3>5
      <4> QED BY <4>1, <3>1, <3>2, <1>1 DEF Children
    <3>7. d \in best
      BY <3>2, <3>4, <3>5, <3>6 DEF best
    <3> QED BY <3>7, <1>1
  <2> QED BY <2>2, <2>3, <1>3
<1> QED BY <1>1, <1>3, EndInv

LEMMA DownTurnInv ==
  ASSUME Inv, sift_down_turn
  PROVE  Inv'
<1>1. /\ sift = "down" /\ sift' = "down" /\ Used = size
      /\ hole \in Nat /\ hole \in 0 .. Used - 1 /\ Used \in Nat
      /\ UNCHANGED <<capacity, size, seq_counter, sift, tmp, out>>
  BY DEF sift_down_turn, Inv, TypeOK, Used
<1>2. PICK c \in best : /\ nodes' = [nodes EXCEPT ![hole] = nodes[c]]
                        /\ hole' = c
  BY DEF sift_down_turn
<1>3. PICK h \in 0 .. Used - 1 : h = hole
  BY <1>1
<1>4. /\ c \in Children(h) /\ c < size /\ ev_less(nodes[c], tmp)
      /\ \A d \in Children(h) : d < size => ~ ev_less(nodes[d], nodes[c])
  BY <1>2, <1>3 DEF best
<1>5. h \in Nat /\ c \in Nat /\ c > h /\ Parent(c) = h /\ c \in 1 .. Used - 1
  BY <1>1, <1>3, <1>4, ChildAbove
<1>6. /\ TypeOK' /\ Used' = Used
      /\ Live(h)' = Live(c) /\ Live(c)' = Live(h)
      /\ \A i \in (0 .. Used - 1) \ {h, c} : Live(i)' = Live(i)
  <2>1. TypeOK /\ sift # "none" /\ c \in 0 .. Used - 1 /\ c # h
    BY <1>1, <1>5 DEF Inv
  <2> QED BY <2>1, <1>1, <1>2, <1>3, <1>5, TurnType
<1>7. Live(h) = tmp /\ Live(c) = nodes[c]
  BY <1>1, <1>3, <1>5 DEF Live
<1>8. Live(h) \in Node /\ Live(c) \in Node
  BY <1>5, OrderAt
<1>9. ~ ev_less(Live(h), Live(c))
  BY <1>4, <1>7, <1>8, Asymmetric
<1>10. ASSUME NEW i \in 1 .. Used - 1, Parent(i) # c
       PROVE  ~ ev_less(Live(i)', Live(Parent(i))')
  <2>1. /\ i \in Nat \ {0} /\ i < Used /\ Parent(i) \in 0 .. Used - 1
        /\ Parent(i) < i /\ i \in Children(Parent(i))
    BY OrderAt, ParentBelow
  <2>2. CASE i = c
    BY <2>2, <1>5, <1>6, <1>9
  <2>3. CASE i # c /\ Parent(i) = h
    <3>1. i # h /\ Live(i) = nodes[i]
      BY <2>1, <2>3, <1>1, <1>3 DEF Live
    <3>2. ~ ev_less(Live(i), Live(c))
      BY <3>1, <2>1, <2>3, <1>1, <1>4, <1>7
    <3>3. Live(i)' = Live(i)
      BY <3>1, <2>1, <2>3, <1>6
    <3> QED BY <3>2, <3>3, <2>3, <1>6
  <2>4. CASE i = h
    <3>1. Parent(i) \in (0 .. Used - 1) \ {h, c}
      BY <2>1, <2>4, <1>5
    <3>2. Live(Parent(i))' = Live(Parent(i))
      BY <3>1, <1>6
    <3>3. ~ ev_less(Live(c), Live(Parent(i)))
      <4>1. h > 0 /\ hole = h /\ sift = "down"
        BY <2>1, <2>4, <1>1, <1>3
      <4>2. ~ ev_less(Live(c), Live(Parent(hole)))
        BY <4>1, <1>5, OrderAt
      <4> QED BY <4>1, <4>2, <2>4
    <3> QED BY <3>2, <3>3, <2>4, <1>6
  <2>5. CASE i # c /\ i # h /\ Parent(i) # h
    <3>1. ~ ev_less(Live(i), Live(Parent(i)))
      BY <2>5, OrderAt, <1>1, <1>3
    <3>2. /\ i \in (0 .. Used - 1) \ {h, c}
          /\ Parent(i) \in (0 .. Used - 1) \ {h, c}
      BY <2>1, <2>5, <1>10
    <3>3. Live(i)' = Live(i) /\ Live(Parent(i))' = Live(Parent(i))
      BY <3>2, <1>6
    <3> QED BY <3>1, <3>3
  <2> QED BY <2>2, <2>3, <2>4, <2>5
<1>11. ASSUME NEW i \in 1 .. Used - 1, Parent(i) = c
       PROVE  ~ ev_less(Live(i)', Live(h)')
  <2>1. i \in (0 .. Used - 1) \ {h, c}
    BY <1>5, <1>11, OrderAt
  <2>2. ~ ev_less(Live(i), Live(c))
    BY <1>1, <1>3, <1>5, <1>11, OrderAt
  <2>3. Live(i)' = Live(i)
    BY <2>1, <1>6
  <2> QED BY <2>2, <2>3, <1>6
<1>12. Live(Parent(hole))' = Live(h)'
  BY <1>2, <1>5 DEF Live, Parent
<1> QED BY <1>1, <1>2, <1>6, <1>10, <1>11, <1>12, OrderNext

LEMMA PopInv ==
  ASSUME Inv, pq_pop
  PROVE  Inv'
<1>1. /\ sift = "none" /\ size \in Nat /\ size > 0 /\ size <= capacity
      /\ Used = size /\ size' = size - 1 /\ out' = nodes[0]
      /\ capacity' = capacity /\ capacity \in Nat \ {0}
      /\ seq_counter' = seq_counter /\ seq_counter \in Nat
      /\ nodes \in [0 .. capacity - 1 -> Node \cup {Unset}]
  BY DEF pq_pop, Inv, TypeOK, Used
<1>2. \A i \in 0 .. size - 1 : Live(i) = nodes[i] /\ nodes[i] \in Node
  BY <1>1 DEF Inv, TypeOK, Live
<1>3. out' \in Node
  BY <1>1, <1>2
<1>4. CASE size' = 0
  <2>1. UNCHANGED <<nodes, sift, hole, tmp>>
    BY <1>4 DEF pq_pop
  <2>2. Used' = 0
    BY <2>1, <1>1, <1>4 DEF Used
  <2>3. TypeOK'
    BY <2>1, <2>2, <1>1, <1>3, <1>4 DEF Inv, TypeOK
  <2> QED BY <2>2, <2>3, OrderNext
<1>5. CASE size' > 0
  <2>1. /\ nodes' = [nodes EXCEPT ![0] = nodes[size']]
        /\ sift' = "down" /\ hole' = 0 /\ tmp' = nodes[size']
    BY <1>5 DEF pq_pop
  <2>2. Used' = size - 1 /\ tmp' \in Node
    BY <2>1, <1>1, <1>2, <1>5 DEF Used
  <2>3. \A i \in 1 .. size - 2 : Live(i)' = Live(i)
    BY <2>1, <1>1, <1>2 DEF Live
  <2>4. Live(0)' \in Node
    BY <2>1, <2>2 DEF Live
  <2>5. \A i \in 0 .. Used' - 1 : Live(i)' \in Node
    <3>1. \A i \in 1 .. size - 2 : Live(i)' \in Node
      BY <2>3, <1>1, <1>2
    <3> QED BY <3>1, <2>2, <2>4, <1>1
  <2>6. nodes' \in [0 .. capacity - 1 -> Node \cup {Unset}]
    BY <2>1, <2>2, <1>1
  <2>7. TypeOK'
    BY <2>1, <2>2, <2>5, <2>6, <1>1, <1>3, <1>5 DEF TypeOK
  <2>8. ASSUME NEW i \in 1 .. Used' - 1, Parent(i) # 0
        PROVE  ~ ev_less(Live(i)', Live(Parent(i))')
    <3>1. i \in 1 .. Used - 1 /\ i \in 1 .. size - 2
      BY <2>2, <1>1
    <3>2. Parent(i) \in 1 .. size - 2
      <4>1. Parent(i) \in Nat /\ Parent(i) < i
        BY <3>1, OrderAt
      <4> QED BY <4>1, <3>1, <2>8, <1>1
    <3>3. ~ ev_less(Live(i), Live(Parent(i)))
      BY <3>1, <1>1, OrderAt
    <3> QED BY <3>1, <3>2, <3>3, <2>3
  <2> QED BY <2>1, <2>7, <2>8, OrderNext
<1> QED BY <1>1, <1>4, <1>5

LEMMA StillInv ==
  ASSUME Inv, out' \in Node \cup {Unset},
         UNCHANGED <<nodes, capacity, size, seq_counter, sift, hole, tmp>>
  PROVE  Inv'
<1>1. Used' = Used /\ \A i \in 0 .. Used - 1 : Live(i)' = Live(i)
  BY DEF Used, Live
<1>2. TypeOK'
  BY <1>1 DEF Inv, TypeOK
<1>3. ASSUME NEW i \in 1 .. Used' - 1
      PROVE  /\ Live(i)' = Live(i) /\ Live(Parent(i))' = Live(Parent(i))
             /\ Live(Parent(hole))' = Live(Parent(hole))
  BY DEF Live, Parent
<1>4. ASSUME NEW i \in 1 .. Used' - 1
      PROVE  /\ \/ ~ ev_less(Live(i)', Live(Parent(i))')
                \/ sift' = "up" /\ i = hole'
                \/ sift' = "down" /\ Parent(i) = hole'
             /\ sift' # "none" /\ Parent(i) = hole' /\ hole' > 0
                => ~ ev_less(Live(i)', Live(Parent(hole))')
  <2>1. i \in 1 .. Used - 1
    BY <1>1
  <2> QED BY <2>1, <1>3, OrderAt
<1> QED BY <1>2, <1>4, OrderNext

LEMMA StepInv == Inv /\ [Next]_vars => Inv'
<1> SUFFICES ASSUME Inv, [Next]_vars
             PROVE  Inv'
  OBVIOUS
<1>1. ASSUME NEW e \in Event, pq_push(e) PROVE Inv'
  BY <1>1, PushInv
<1>2. CASE sift_up_turn
  BY <1>2, UpTurnInv
<1>3. CASE sift_up_end
  BY <1>3, UpEndInv
<1>4. CASE sift_down_turn
  BY <1>4, DownTurnInv
<1>5. CASE sift_down_end
  BY <1>5, DownEndInv
<1>6. CASE pq_pop
  BY <1>6, PopInv
<1>7. CASE pq_peek
  <2>1. 0 \in 0 .. Used - 1 /\ Live(0) = nodes[0]
    BY <1>7 DEF pq_peek, Inv, TypeOK, Used, Live
  <2>2. out' \in Node
    BY <2>1, <1>7 DEF pq_peek, Inv, TypeOK
  <2> QED BY <2>2, <1>7, StillInv DEF pq_peek
<1>8. CASE pq_empty \/ UNCHANGED vars
  BY <1>8, StillInv DEF pq_empty, vars, Inv, TypeOK
<1> QED
  BY <1>1, <1>2, <1>3, <1>4, <1>5, <1>6, <1>7, <1>8 DEF Next, Sifting

-----------------------------------------------------------------------------
(* The root.                                                               *)

\* In an ordered heap the least slot that held an event served before the root
\* would have a parent that is not, and that cannot be.
LEMMA RootBelowAll == Inv => RootIsFirst
<1> SUFFICES ASSUME Inv, sift = "none"
             PROVE  \A i \in 0 .. size - 1 : ~ ev_less(nodes[i], nodes[0])
  BY DEF RootIsFirst
<1> DEFINE early == {i \in 0 .. size - 1 : ev_less(nodes[i], nodes[0])}
<1>1. Used = size /\ size \in Nat
  BY DEF Used, Inv, TypeOK
<1>2. \A i \in 0 .. size - 1 : Live(i) = nodes[i] /\ nodes[i] \in Node
  BY <1>1 DEF Live, Inv, TypeOK
<1> SUFFICES ASSUME early # {} PROVE FALSE
  OBVIOUS
<1>3. PICK m \in early : \A i \in early : ~ (<<i, m>> \in OpToRel(<, Nat))
  <2>1. early \subseteq Nat
    BY <1>1
  <2> HIDE DEF early
  <2> QED BY <2>1, WFMin, NatLessThanWellFounded, Zenon
<1>4. m \in 0 .. size - 1 /\ ev_less(nodes[m], nodes[0])
  OBVIOUS
<1>5. \A i \in early : ~ i < m
  <2>1. early \subseteq Nat
    BY <1>1
  <2> HIDE DEF early
  <2> QED BY <2>1, <1>3, Zenon DEF OpToRel
<1>6. m # 0
  BY <1>2, <1>4, Asymmetric
<1>7. /\ m \in 1 .. Used - 1 /\ Parent(m) \in 0 .. size - 1 /\ Parent(m) < m
      /\ ~ ev_less(nodes[m], nodes[Parent(m)])
  <2>1. m \in 1 .. Used - 1
    BY <1>1, <1>4, <1>6
  <2>2. Parent(m) \in 0 .. size - 1 /\ Parent(m) < m
    BY <2>1, <1>1, OrderAt
  <2>3. ~ ev_less(Live(m), Live(Parent(m)))
    BY <2>1, OrderAt
  <2> QED BY <2>1, <2>2, <2>3, <1>2, <1>4
<1>8. ~ ev_less(nodes[Parent(m)], nodes[0])
  BY <1>5, <1>7
<1>9. 0 \in 0 .. size - 1
  BY <1>1, <1>4
<1>10. ~ ev_less(nodes[m], nodes[0])
  BY <1>2, <1>4, <1>7, <1>8, <1>9, NotLater
<1> QED BY <1>4, <1>10

\* Every slot of the array that is read has been written, and the array grows
\* before it is overrun, for any first capacity and any number of pushes.
THEOREM HeapTyped == Spec => []TypeOK
<1>1. Inv => TypeOK
  BY DEF Inv
<1> QED BY <1>1, InitInv, StepInv, PTL DEF Spec

\* The order of the heap, which the loops disturb only at the hole.
THEOREM HeapOrdered == Spec => []HeapOrder
<1>1. Inv => HeapOrder
  BY DEF Inv
<1> QED BY <1>1, InitInv, StepInv, PTL DEF Spec

\* pq_pop and pq_peek deliver an event before which no pending event is to be
\* served: the promise of pqueue.h on every heap.
THEOREM RootServed == Spec => []RootIsFirst
BY InitInv, StepInv, RootBelowAll, PTL DEF Spec

-----------------------------------------------------------------------------
(* Sets of nodes, in the order in which they are served.                   *)

\* A set of pending nodes: finitely many, with different numbers.
Numbered(S) == /\ S \subseteq Node /\ IsFiniteSet(S)
               /\ \A a, b \in S : a.seq = b.seq => a = b

\* The place of a node among those of S, from 0, and the events of S in order.
RankIn(S, n) == Cardinality({m \in S : Precedes(m, n)})
Sorted(S) == [k \in 1 .. Cardinality(S) |->
                 (CHOOSE n \in S : RankIn(S, n) = k - 1).event]

LEMMA PrecedesIsLess ==
  ASSUME NEW a \in Node, NEW b \in Node
  PROVE  Precedes(a, b) <=> ev_less(a, b)
<1>1. /\ a.event.time \in Nat /\ a.event.weight \in Nat /\ a.seq \in Nat
      /\ b.event.time \in Nat /\ b.event.weight \in Nat /\ b.seq \in Nat
  BY EventAssumption DEF Node
<1> QED BY <1>1 DEF Precedes, ev_less, EQ!ev_less

\* Nodes of different numbers are ordered: a strict total order.
LEMMA PrecedesOrder ==
  ASSUME NEW S, Numbered(S), NEW a \in S, NEW b \in S
  PROVE  /\ ~ Precedes(a, a)
         /\ Precedes(a, b) => ~ Precedes(b, a)
         /\ a # b => Precedes(a, b) \/ Precedes(b, a)
         /\ \A c \in S : Precedes(a, b) /\ Precedes(b, c) => Precedes(a, c)
<1>1. a \in Node /\ b \in Node /\ (a # b => a.seq # b.seq)
  BY DEF Numbered
<1>2. /\ a.event.time \in Nat /\ a.event.weight \in Nat /\ a.seq \in Nat
      /\ b.event.time \in Nat /\ b.event.weight \in Nat /\ b.seq \in Nat
  BY <1>1, EventAssumption DEF Node
<1>3. ~ Precedes(a, a) /\ (Precedes(a, b) => ~ Precedes(b, a))
  BY <1>2 DEF Precedes, EQ!ev_less
<1>4. a # b => Precedes(a, b) \/ Precedes(b, a)
  BY <1>1, <1>2 DEF Precedes, EQ!ev_less
<1>5. ASSUME NEW c \in S, Precedes(a, b), Precedes(b, c)
      PROVE  Precedes(a, c)
  <2>1. c \in Node
    BY DEF Numbered
  <2> QED BY <1>1, <1>5, <2>1, PrecedesIsLess, Transitive
<1> QED BY <1>3, <1>4, <1>5

LEMMA RankType ==
  ASSUME NEW S, Numbered(S), NEW n
  PROVE  /\ RankIn(S, n) \in Nat /\ Cardinality(S) \in Nat
         /\ n \in S => RankIn(S, n) < Cardinality(S)
<1> DEFINE T == {m \in S : Precedes(m, n)}
<1>1. IsFiniteSet(S) /\ T \in SUBSET S
  BY DEF Numbered
<1>2. n \in S => n \notin T
  BY PrecedesOrder
<1> HIDE DEF T
<1>3. /\ IsFiniteSet(T) /\ Cardinality(T) <= Cardinality(S)
      /\ (Cardinality(S) = Cardinality(T) => S = T)
      /\ Cardinality(T) \in Nat /\ Cardinality(S) \in Nat
  BY <1>1, FS_Subset, FS_CardinalityType
<1>4. n \in S => Cardinality(T) < Cardinality(S)
  BY <1>2, <1>3
<1> QED BY <1>3, <1>4 DEF T, RankIn

LEMMA RankOrder ==
  ASSUME NEW S, Numbered(S), NEW a \in S, NEW b \in S
  PROVE  Precedes(a, b) <=> RankIn(S, a) < RankIn(S, b)
<1>1. ASSUME NEW x \in S, NEW y \in S, Precedes(x, y)
      PROVE  RankIn(S, x) < RankIn(S, y)
  <2> DEFINE T == {m \in S : Precedes(m, x)}
             U == {m \in S : Precedes(m, y)}
  <2>1. T \in SUBSET U /\ x \in U /\ x \notin T
    BY <1>1, PrecedesOrder
  <2>2. IsFiniteSet(U) /\ Cardinality(T) \in Nat /\ Cardinality(U) \in Nat
    <3>1. IsFiniteSet(S)
      BY DEF Numbered
    <3>2. U \in SUBSET S
      OBVIOUS
    <3>3. IsFiniteSet(U)
      BY <3>1, <3>2, FS_Subset
    <3> QED BY <3>3, RankType DEF RankIn
  <2> HIDE DEF T, U
  <2>3. Cardinality(T) <= Cardinality(U) /\ Cardinality(T) # Cardinality(U)
    BY <2>1, <2>2, FS_Subset
  <2>4. Cardinality(T) < Cardinality(U)
    BY <2>2, <2>3
  <2> QED BY <2>4 DEF RankIn, T, U
<1>2. RankIn(S, a) \in Nat /\ RankIn(S, b) \in Nat
  BY RankType
<1>3. Precedes(a, b) \/ Precedes(b, a) \/ a = b
  BY PrecedesOrder
<1> QED BY <1>1, <1>2, <1>3

LEMMA RankOnto ==
  ASSUME NEW S, Numbered(S), NEW k \in 1 .. Cardinality(S)
  PROVE  \E n \in S : RankIn(S, n) = k - 1
<1> DEFINE c == Cardinality(S)
           place == [n \in S |-> RankIn(S, n)]
<1>1. c \in Nat /\ IsFiniteSet(S)
  BY RankType DEF Numbered
<1>2. \A n \in S : RankIn(S, n) \in 0 .. c - 1
  BY <1>1, RankType
<1>3. \A a, b \in S : RankIn(S, a) = RankIn(S, b) => a = b
  <2> SUFFICES ASSUME NEW a \in S, NEW b \in S, RankIn(S, a) = RankIn(S, b)
               PROVE  a = b
    OBVIOUS
  <2>1. ~ Precedes(a, b) /\ ~ Precedes(b, a)
    BY RankOrder, RankType
  <2> QED BY <2>1, PrecedesOrder
<1>4. place \in Injection(S, 0 .. c - 1)
  BY <1>2, <1>3 DEF Injection, IsInjective
<1>5. IsFiniteSet(0 .. c - 1) /\ Cardinality(0 .. c - 1) = c
  <2>1. 0 \in Int /\ c - 1 \in Int /\ (c = 0 <=> 0 > c - 1)
    BY <1>1
  <2> HIDE DEF c
  <2>2. /\ IsFiniteSet(0 .. c - 1)
        /\ Cardinality(0 .. c - 1) = IF 0 > c - 1 THEN 0 ELSE (c - 1) - 0 + 1
    BY <2>1, FS_Interval
  <2> QED BY <1>1, <2>2
<1>6. place \in Surjection(S, 0 .. c - 1)
  BY <1>4, <1>5, FS_Injection
<1>7. k - 1 \in 0 .. c - 1
  BY <1>1
<1>8. \E n \in S : place[n] = k - 1
  BY <1>6, <1>7 DEF Surjection
<1> QED BY <1>8

\* Where a node of S stands in the sequence.
LEMMA SortedAt ==
  ASSUME NEW S, Numbered(S)
  PROVE  /\ Sorted(S) \in Seq(Event) /\ Len(Sorted(S)) = Cardinality(S)
         /\ \A n \in S : /\ RankIn(S, n) + 1 \in 1 .. Cardinality(S)
                         /\ Sorted(S)[RankIn(S, n) + 1] = n.event
<1> DEFINE c == Cardinality(S)
           at(k) == CHOOSE n \in S : RankIn(S, n) = k - 1
<1>1. c \in Nat
  BY RankType
<1>2. \A k \in 1 .. c : at(k) \in S /\ RankIn(S, at(k)) = k - 1
  BY RankOnto
<1>3. Sorted(S) = [k \in 1 .. c |-> at(k).event]
  BY DEF Sorted
<1>4. \A n \in S : n.event \in Event
  BY DEF Numbered, Node
<1> HIDE DEF at, c
<1>5. Sorted(S) \in [1 .. c -> Event]
  BY <1>2, <1>3, <1>4
<1>6. Sorted(S) \in Seq(Event) /\ Len(Sorted(S)) = c
  BY <1>1, <1>5
<1>7. ASSUME NEW n \in S
      PROVE  RankIn(S, n) + 1 \in 1 .. c /\ Sorted(S)[RankIn(S, n) + 1] = n.event
  <2>1. RankIn(S, n) + 1 \in 1 .. c
    BY <1>1, RankType DEF c
  <2>2. PICK k \in 1 .. c : k = RankIn(S, n) + 1
    BY <2>1
  <2>3. at(k) \in S /\ RankIn(S, at(k)) = RankIn(S, n)
    <3>1. RankIn(S, n) \in Nat
      BY RankType
    <3> QED BY <2>2, <3>1, <1>2
  <2>4. ~ Precedes(at(k), n) /\ ~ Precedes(n, at(k))
    BY <2>3, RankOrder, RankType
  <2>5. at(k) = n
    BY <2>3, <2>4, PrecedesOrder
  <2> QED BY <2>1, <2>2, <2>5, <1>3
<1> QED BY <1>6, <1>7 DEF c

\* A sequence of events is the sorted one if it is as long and has the events
\* of S at their places.
LEMMA SortedIs ==
  ASSUME NEW S, Numbered(S), NEW q \in Seq(Event), Len(q) = Cardinality(S),
         \A n \in S : q[RankIn(S, n) + 1] = n.event
  PROVE  q = Sorted(S)
<1>1. Sorted(S) \in Seq(Event) /\ Len(Sorted(S)) = Len(q)
  BY SortedAt
<1>2. ASSUME NEW k \in 1 .. Len(q)
      PROVE  q[k] = Sorted(S)[k]
  <2>1. PICK n \in S : RankIn(S, n) = k - 1
    BY RankOnto
  <2>2. RankIn(S, n) + 1 = k
    BY <2>1
  <2> QED BY <2>2, SortedAt
<1> QED BY <1>1, <1>2, SeqEqual

\* The node of a push has the largest number, so it is served after all that
\* it does not beat: pq_push of EventQueue.
LEMMA SortedPush ==
  ASSUME NEW S, Numbered(S), NEW x \in Node, \A m \in S : m.seq < x.seq
  PROVE  /\ Numbered(S \cup {x})
         /\ Sorted(S \cup {x}) = PQ!pq_push(Sorted(S), x.event)
<1> DEFINE T == S \cup {x}
           q == Sorted(S)
           c == Cardinality(S)
           p == RankIn(S, x)
           e == x.event
           r == SubSeq(q, 1, p) \o <<e>> \o SubSeq(q, p + 1, Len(q))
<1>1. IsFiniteSet(S) /\ S \subseteq Node /\ x \notin S
  <2>1. x.seq \in Nat
    BY DEF Node
  <2> QED BY <2>1 DEF Numbered
<1>2. Numbered(T)
  <2>1. IsFiniteSet(T)
    BY <1>1, FS_AddElement
  <2>2. \A a, b \in T : a.seq = b.seq => a = b
    <3>1. \A m \in S : m.seq # x.seq
      <4>1. x.seq \in Nat /\ \A m \in S : m.seq \in Nat
        BY <1>1 DEF Node
      <4> QED BY <4>1
    <3> QED BY <3>1 DEF Numbered
  <2> QED BY <1>1, <2>1, <2>2 DEF Numbered
<1>3. c \in Nat /\ Cardinality(T) = c + 1
  BY <1>1, RankType, FS_AddElement
<1>4. p \in 0 .. c
  <2> DEFINE U == {m \in S : Precedes(m, x)}
  <2>1. U \in SUBSET S
    OBVIOUS
  <2> HIDE DEF U
  <2>2. Cardinality(U) <= c
    BY <1>1, <2>1, FS_Subset
  <2>3. p <= c
    BY <2>2 DEF U, RankIn
  <2>4. p \in Nat
    BY RankType
  <2> QED BY <1>3, <2>3, <2>4
\* Those before x are the first p of S.
<1>5. ASSUME NEW n \in S
      PROVE  Precedes(n, x) <=> RankIn(S, n) < p
  <2> DEFINE U == {m \in S : Precedes(m, x)}
             V == {m \in S : Precedes(m, n)}
  <2>1. U \in SUBSET S /\ V \in SUBSET S
    OBVIOUS
  <2>2. n \notin V /\ n \in T /\ x \in T /\ n # x
    BY <1>1, PrecedesOrder
  <2>3. Precedes(n, x) => V \in SUBSET U
    BY <1>2, <2>2, PrecedesOrder
  <2>4. ~ Precedes(n, x) => U \in SUBSET V
    <3>1. ~ Precedes(n, x) => Precedes(x, n)
      BY <1>2, <2>2, PrecedesOrder
    <3> QED BY <3>1, <1>2, <2>2, PrecedesOrder
  <2>5. Precedes(n, x) <=> n \in U
    OBVIOUS
  <2> HIDE DEF U, V
  <2>6. /\ IsFiniteSet(U) /\ IsFiniteSet(V)
        /\ Cardinality(U) \in Nat /\ Cardinality(V) \in Nat
    BY <1>1, <2>1, FS_Subset, FS_CardinalityType
  <2>7. Precedes(n, x) => Cardinality(V) < Cardinality(U)
    <3> SUFFICES ASSUME Precedes(n, x)
                 PROVE  Cardinality(V) < Cardinality(U)
      OBVIOUS
    <3>1. Cardinality(V) <= Cardinality(U) /\ Cardinality(V) # Cardinality(U)
      BY <2>2, <2>3, <2>5, <2>6, FS_Subset
    <3> QED BY <2>6, <3>1
  <2>8. ~ Precedes(n, x) => Cardinality(U) <= Cardinality(V)
    BY <2>4, <2>6, FS_Subset
  <2>9. RankIn(S, n) = Cardinality(V) /\ p = Cardinality(U)
    BY DEF RankIn, U, V
  <2> HIDE DEF p
  <2> QED BY <2>6, <2>7, <2>8, <2>9
<1>6. /\ q \in Seq(Event) /\ Len(q) = c /\ DOMAIN q = 1 .. c
      /\ \A n \in S : /\ RankIn(S, n) + 1 \in 1 .. c
                      /\ q[RankIn(S, n) + 1] = n.event
  <2>1. q \in Seq(Event) /\ Len(q) = c
    BY SortedAt
  <2> QED BY <2>1, LenProperties, SortedAt
\* They are the events that e does not beat.
<1>7. Cardinality({i \in DOMAIN q : ~ PQ!ev_less(e, q[i])}) = p
  <2>1. ASSUME NEW i \in 1 .. c
        PROVE  ~ PQ!ev_less(e, q[i]) <=> i <= p
    <3>1. PICK n \in S : RankIn(S, n) = i - 1
      BY RankOnto
    <3>2. RankIn(S, n) + 1 = i /\ q[i] = n.event
      <4>1. RankIn(S, n) + 1 = i
        BY <3>1
      <4> QED BY <4>1, <1>6
    <3>3. ~ PQ!ev_less(e, n.event) <=> Precedes(n, x)
      <4>1. /\ n \in Node /\ n.seq < x.seq
            /\ n.event.time \in Nat /\ n.event.weight \in Nat
            /\ x.event.time \in Nat /\ x.event.weight \in Nat
        BY <1>1, EventAssumption DEF Node
      <4> QED BY <4>1 DEF Precedes, EQ!ev_less, PQ!ev_less
    <3>4. RankIn(S, n) < p <=> i <= p
      BY <3>1, <1>4
    <3> QED BY <3>2, <3>3, <3>4, <1>5
  <2>2. {i \in DOMAIN q : ~ PQ!ev_less(e, q[i])} = 1 .. p
    <3> HIDE DEF q, p, c, e
    <3> QED BY <2>1, <1>3, <1>4, <1>6
  <2>3. Cardinality(1 .. p) = p
    <3> HIDE DEF p, c
    <3>1. 1 \in Int /\ p \in Int /\ p \in Nat
      BY <1>3, <1>4
    <3>2. Cardinality(1 .. p) = IF 1 > p THEN 0 ELSE p - 1 + 1
      BY <3>1, FS_Interval
    <3> QED BY <3>1, <3>2
  <2> QED BY <2>2, <2>3
<1>8. PQ!pq_push(q, e) = r
  <2>1. /\ (1 + p) - 1 = p /\ 1 + p = p + 1
    BY <1>4
  <2> HIDE DEF q, p, e
  <2>2. PQ!Cardinality({i \in DOMAIN q : ~ PQ!ev_less(e, q[i])}) = p
    BY <1>7 DEF PQ!Cardinality, Cardinality, PQ!IsFiniteSet, IsFiniteSet
  <2> QED BY <2>1, <2>2 DEF PQ!pq_push, PQ!InsertAt
<1>9. /\ r \in Seq(Event) /\ Len(r) = c + 1
      /\ \A k \in 1 .. c + 1 : /\ k < p + 1 => r[k] = q[k]
                               /\ k = p + 1 => r[k] = e
                               /\ k > p + 1 => r[k] = q[k - 1]
  <2>1. p + 1 \in 1 .. c + 1 /\ (p + 1) - 1 = p /\ e \in Event
    BY <1>3, <1>4 DEF Node
  <2> DEFINE i == p + 1
  <2>2. i \in 1 .. Len(q) + 1 /\ i - 1 = p /\ e \in Event /\ q \in Seq(Event)
    BY <1>6, <2>1
  <2>3. r = SubSeq(q, 1, i - 1) \o <<e>> \o SubSeq(q, i, Len(q))
    BY <2>2
  <2>4. Len(q) = c
    BY <1>6
  <2> HIDE DEF q, p, e, c, r, i
  <2>5. /\ r \in Seq(Event) /\ Len(r) = c + 1
        /\ \A k \in 1 .. c + 1 : /\ k < i => r[k] = q[k]
                                 /\ k = i => r[k] = e
                                 /\ k > i => r[k] = q[k - 1]
    BY <2>2, <2>3, <2>4, Insertion
  <2> QED BY <2>5 DEF i
\* The ranks in the larger set.
<1>10. /\ RankIn(T, x) = p
       /\ \A n \in S : RankIn(T, n) = IF Precedes(n, x) THEN RankIn(S, n)
                                        ELSE RankIn(S, n) + 1
  <2>1. x \in T /\ ~ Precedes(x, x)
    BY <1>2, PrecedesOrder
  <2>2. {m \in T : Precedes(m, x)} = {m \in S : Precedes(m, x)}
    BY <2>1
  <2>3. ASSUME NEW n \in S
        PROVE  RankIn(T, n) = IF Precedes(n, x) THEN RankIn(S, n)
                              ELSE RankIn(S, n) + 1
    <3> DEFINE V == {m \in S : Precedes(m, n)}
    <3>1. n \in T /\ n # x
      BY <1>1
    <3>2. Precedes(n, x) <=> ~ Precedes(x, n)
      BY <1>2, <2>1, <3>1, PrecedesOrder
    <3>3. {m \in T : Precedes(m, n)}
             = IF Precedes(x, n) THEN V \cup {x} ELSE V
      OBVIOUS
    <3>4. x \notin V /\ V \in SUBSET S
      BY <1>1
    <3> HIDE DEF V
    <3>5. IsFiniteSet(V)
      BY <1>1, <3>4, FS_Subset
    <3>6. Cardinality(V \cup {x}) = Cardinality(V) + 1
      BY <3>4, <3>5, FS_AddElement
    <3> QED BY <3>2, <3>3, <3>6 DEF RankIn, V
  <2> QED BY <2>2, <2>3 DEF RankIn
<1>11. ASSUME NEW n \in T
       PROVE  r[RankIn(T, n) + 1] = n.event
  <2>1. CASE n = x
    <3>1. RankIn(T, n) + 1 = p + 1 /\ p + 1 \in 1 .. c + 1
      BY <2>1, <1>3, <1>4, <1>10
    <3> HIDE DEF r, p, c
    <3> QED BY <3>1, <2>1, <1>9
  <2>2. CASE n \in S /\ Precedes(n, x)
    <3>1. RankIn(S, n) + 1 \in 1 .. c + 1 /\ RankIn(S, n) + 1 < p + 1
      BY <2>2, <1>3, <1>4, <1>5, <1>6, RankType
    <3>2. RankIn(T, n) = RankIn(S, n)
      BY <2>2, <1>10
    <3> HIDE DEF r, p, c, q, e
    <3> QED BY <3>1, <3>2, <2>2, <1>6, <1>9
  <2>3. CASE n \in S /\ ~ Precedes(n, x)
    <3> DEFINE k == RankIn(S, n) + 2
    <3>1. RankIn(S, n) \in Nat /\ RankIn(S, n) >= p /\ RankIn(S, n) + 1 \in 1 .. c
      BY <2>3, <1>4, <1>5, <1>6, RankType
    <3>2. k \in 1 .. c + 1 /\ k > p + 1 /\ k - 1 = RankIn(S, n) + 1
      BY <3>1, <1>3, <1>4
    <3>3. RankIn(T, n) + 1 = k
      BY <3>1, <2>3, <1>10
    <3> HIDE DEF r, p, c, q, e, k
    <3> QED BY <3>2, <3>3, <2>3, <1>6, <1>9
  <2> QED BY <2>1, <2>2, <2>3
<1>12. r = Sorted(T)
  <2> HIDE DEF r, T, c
  <2> QED BY <1>2, <1>3, <1>9, <1>11, SortedIs
<1> QED BY <1>2, <1>8, <1>12

\* The node served first is the head, and the others follow it.
LEMMA SortedPop ==
  ASSUME NEW S, Numbered(S), NEW x \in S,
         \A m \in S : ~ Precedes(m, x)
  PROVE  /\ Numbered(S \ {x})
         /\ Sorted(S) # <<>> /\ Head(Sorted(S)) = x.event
         /\ Sorted(S \ {x}) = Tail(Sorted(S))
<1> DEFINE T == S \ {x}
           q == Sorted(S)
           c == Cardinality(S)
<1>1. IsFiniteSet(S) /\ S \subseteq Node
  BY DEF Numbered
<1>2. Numbered(T)
  BY <1>1, FS_RemoveElement DEF Numbered
<1>3. c \in Nat /\ Cardinality(T) = c - 1
  BY <1>1, RankType, FS_RemoveElement
<1>4. /\ q \in Seq(Event) /\ Len(q) = c
      /\ \A n \in S : /\ RankIn(S, n) + 1 \in 1 .. c
                      /\ q[RankIn(S, n) + 1] = n.event
  BY SortedAt
<1>5. RankIn(S, x) = 0
  <2>1. {m \in S : Precedes(m, x)} = {}
    OBVIOUS
  <2> QED BY <2>1, FS_EmptySet DEF RankIn
<1>6. c > 0 /\ q[1] = x.event
  BY <1>3, <1>4, <1>5
<1>7. q # <<>> /\ Head(q) = x.event
  <2> HIDE DEF q, c
  <2> QED BY <1>4, <1>6
<1>8. ASSUME NEW n \in T
      PROVE  RankIn(T, n) = RankIn(S, n) - 1 /\ RankIn(S, n) \in Nat
  <2> DEFINE V == {m \in S : Precedes(m, n)}
  <2>1. Precedes(x, n)
    BY PrecedesOrder
  <2>2. {m \in T : Precedes(m, n)} = V \ {x} /\ x \in V /\ V \in SUBSET S
    BY <2>1
  <2> HIDE DEF V
  <2>3. IsFiniteSet(V)
    BY <1>1, <2>2, FS_Subset
  <2>4. Cardinality(V \ {x}) = Cardinality(V) - 1
    BY <2>2, <2>3, FS_RemoveElement
  <2>5. RankIn(S, n) \in Nat
    BY RankType
  <2> QED BY <2>2, <2>4, <2>5 DEF RankIn, V
<1>9. /\ Tail(q) \in Seq(Event) /\ Len(Tail(q)) = c - 1
      /\ \A k \in 1 .. c - 1 : Tail(q)[k] = q[k + 1]
  <2> HIDE DEF q, c
  <2> QED BY <1>3, <1>4, <1>7, HeadTailProperties
<1>10. ASSUME NEW n \in T
       PROVE  Tail(q)[RankIn(T, n) + 1] = n.event
  <2>1. /\ RankIn(T, n) + 1 \in 1 .. c - 1
        /\ (RankIn(T, n) + 1) + 1 = RankIn(S, n) + 1
    <3>1. RankIn(T, n) + 1 \in 1 .. c - 1
      BY <1>2, <1>3, SortedAt
    <3> QED BY <3>1, <1>8
  <2>2. q[RankIn(S, n) + 1] = n.event
    BY <1>4
  <2> HIDE DEF q, c, T
  <2> QED BY <2>1, <2>2, <1>9
<1>11. Tail(q) = Sorted(T)
  <2> HIDE DEF q, c, T
  <2> QED BY <1>2, <1>3, <1>9, <1>10, SortedIs
<1> QED BY <1>2, <1>7, <1>11

-----------------------------------------------------------------------------
(* The heap implements the queue.                                          *)

\* The pending nodes, and what makes their order total.
LiveNodes == {Live(i) : i \in 0 .. Used - 1}
Numbers ==
    /\ \A i, j \in 0 .. Used - 1 : Live(i).seq = Live(j).seq => i = j
    /\ \A i \in 0 .. Used - 1 : Live(i).seq < seq_counter

LEMMA InOrderSorted == InOrder = Sorted(LiveNodes)
BY DEF InOrder, Sorted, RankIn, LiveNodes

LEMMA LiveNumbered ==
  ASSUME TypeOK, Numbers
  PROVE  Numbered(LiveNodes)
<1> DEFINE at == [i \in 0 .. Used - 1 |-> Live(i)]
<1>1. at \in Surjection(0 .. Used - 1, LiveNodes)
  BY DEF LiveNodes, Surjection
<1>2. IsFiniteSet(0 .. Used - 1)
  <2>1. 0 \in Int /\ Used - 1 \in Int
    BY DEF TypeOK, Used
  <2> QED BY <2>1, FS_Interval
<1> HIDE DEF at
<1>3. IsFiniteSet(LiveNodes)
  BY <1>1, <1>2, FS_Surjection
<1>4. LiveNodes \subseteq Node
  BY DEF LiveNodes, TypeOK
<1>5. \A a, b \in LiveNodes : a.seq = b.seq => a = b
  BY DEF LiveNodes, Numbers
<1> QED BY <1>3, <1>4, <1>5 DEF Numbered

\* A step that only moves the pending nodes about: slot i gets that of s[i].
LEMMA Rearranged ==
  ASSUME Numbers, Used' = Used, seq_counter' = seq_counter,
         NEW s \in [0 .. Used - 1 -> 0 .. Used - 1],
         \A i \in 0 .. Used - 1 : s[s[i]] = i /\ Live(i)' = Live(s[i])
  PROVE  Numbers' /\ LiveNodes' = LiveNodes
<1>1. \A i \in 0 .. Used - 1 : s[i] \in 0 .. Used - 1
  OBVIOUS
<1>2. LiveNodes' = {Live(i)' : i \in 0 .. Used - 1}
  BY DEF LiveNodes
<1>3. {Live(i)' : i \in 0 .. Used - 1} = {Live(i) : i \in 0 .. Used - 1}
  <2>1. \A i \in 0 .. Used - 1 : \E j \in 0 .. Used - 1 : Live(i)' = Live(j)
    BY <1>1
  <2>2. \A i \in 0 .. Used - 1 : \E j \in 0 .. Used - 1 : Live(j)' = Live(i)
    BY <1>1
  <2> QED BY <2>1, <2>2
<1>4. ASSUME NEW i \in 0 .. Used - 1, NEW j \in 0 .. Used - 1,
             Live(i)'.seq = Live(j)'.seq
      PROVE  i = j
  <2>1. Live(s[i]).seq = Live(s[j]).seq
    BY <1>4
  <2>2. s[i] = s[j]
    BY <2>1, <1>1 DEF Numbers
  <2> QED BY <2>2
<1>5. \A i \in 0 .. Used - 1 : Live(i)'.seq < seq_counter
  BY <1>1 DEF Numbers
<1>6. Numbers'
  BY <1>4, <1>5 DEF Numbers
<1> QED BY <1>2, <1>3, <1>6 DEF LiveNodes

LEMMA TurnNodes ==
  ASSUME TypeOK, Numbers, sift # "none",
         NEW b \in 0 .. Used - 1, b # hole,
         nodes' = [nodes EXCEPT ![hole] = nodes[b]], hole' = b,
         UNCHANGED <<capacity, size, seq_counter, sift, tmp, out>>
  PROVE  Numbers' /\ LiveNodes' = LiveNodes
<1>1. PICK h \in 0 .. Used - 1 : h = hole /\ h \in Nat
  BY DEF TypeOK, Used
<1>2. /\ Used' = Used /\ Live(h)' = Live(b) /\ Live(b)' = Live(h)
      /\ \A i \in (0 .. Used - 1) \ {h, b} : Live(i)' = Live(i)
  BY <1>1, TurnType
<1> DEFINE s == [i \in 0 .. Used - 1 |-> IF i = h THEN b ELSE IF i = b THEN h ELSE i]
<1>3. /\ s \in [0 .. Used - 1 -> 0 .. Used - 1]
      /\ \A i \in 0 .. Used - 1 : s[s[i]] = i
  BY <1>1
<1>4. \A i \in 0 .. Used - 1 : Live(i)' = Live(s[i])
  BY <1>1, <1>2
<1> HIDE DEF s
<1> QED BY <1>2, <1>3, <1>4, Rearranged

LEMMA StillNodes ==
  ASSUME Numbers, Used' = Used, seq_counter' = seq_counter,
         \A i \in 0 .. Used - 1 : Live(i)' = Live(i)
  PROVE  Numbers' /\ LiveNodes' = LiveNodes
<1> DEFINE s == [i \in 0 .. Used - 1 |-> i]
<1>1. s \in [0 .. Used - 1 -> 0 .. Used - 1]
  OBVIOUS
<1>2. \A i \in 0 .. Used - 1 : s[s[i]] = i /\ Live(i)' = Live(s[i])
  OBVIOUS
<1> HIDE DEF s
<1> QED BY <1>1, <1>2, Rearranged

\* The turns and ends of the loops deliver nothing and lose nothing.
LEMMA SiftNodes ==
  ASSUME Inv, Numbers, Sifting
  PROVE  Numbers' /\ LiveNodes' = LiveNodes /\ out' = out
<1>1. TypeOK
  BY DEF Inv
<1>2. CASE sift_up_turn
  <2>1. /\ sift = "up" /\ hole > 0 /\ hole \in 0 .. Used - 1 /\ hole' = Parent(hole)
        /\ nodes' = [nodes EXCEPT ![hole] = nodes[Parent(hole)]]
        /\ UNCHANGED <<capacity, size, seq_counter, sift, tmp, out>>
    BY <1>1, <1>2 DEF sift_up_turn, Rises, TypeOK, Used
  <2>2. Parent(hole) \in 0 .. Used - 1 /\ Parent(hole) # hole
    BY <2>1, <1>1 DEF Parent, TypeOK, Used
  <2> QED BY <1>1, <2>1, <2>2, TurnNodes
<1>3. CASE sift_down_turn
  <2>1. PICK c \in best : nodes' = [nodes EXCEPT ![hole] = nodes[c]] /\ hole' = c
    BY <1>3 DEF sift_down_turn
  <2>2. /\ sift = "down" /\ hole \in Nat /\ Used = size /\ size \in Nat
        /\ UNCHANGED <<capacity, size, seq_counter, sift, tmp, out>>
    BY <1>1, <1>3 DEF sift_down_turn, TypeOK, Used
  <2>3. c \in 0 .. Used - 1 /\ c # hole
    BY <2>1, <2>2 DEF best, Children
  <2> QED BY <1>1, <2>1, <2>2, <2>3, TurnNodes
<1>4. CASE sift_up_end \/ sift_down_end
  <2>1. /\ sift # "none" /\ nodes' = [nodes EXCEPT ![hole] = tmp]
        /\ sift' = "none" /\ hole' = 0 /\ tmp' = Unset /\ size' = Used
        /\ UNCHANGED <<capacity, seq_counter, out>>
    BY <1>4 DEF sift_up_end, sift_down_end, Used
  <2>2. Used' = Used /\ \A i \in 0 .. Used - 1 : Live(i)' = Live(i)
    BY <2>1, <1>1, EndType
  <2> QED BY <2>1, <2>2, StillNodes
<1> QED BY <1>2, <1>3, <1>4 DEF Sifting

LEMMA PushNodes ==
  ASSUME Inv, Numbers, NEW e \in Event, pq_push(e)
  PROVE  /\ Numbers' /\ out' = out
         /\ \E x \in Node : /\ x.event = e /\ LiveNodes' = LiveNodes \cup {x}
                            /\ \A m \in LiveNodes : m.seq < x.seq
<1> DEFINE x == [event |-> e, seq |-> seq_counter]
<1>1. /\ TypeOK /\ sift = "none" /\ sift' = "up" /\ hole' = size /\ tmp' = x
      /\ seq_counter' = seq_counter + 1 /\ out' = out
      /\ size \in Nat /\ Used = size /\ seq_counter \in Nat
  BY DEF pq_push, Inv, TypeOK, Used
<1>2. x \in Node /\ x.event = e /\ x.seq = seq_counter
  BY <1>1 DEF Node
<1>3. PICK n \in Nat : n = size
  BY <1>1
<1>4. /\ Used' = n + 1
      /\ \A i \in 0 .. n - 1 : Live(i)' = Live(i)
  BY <1>1, <1>3, PushType
<1>5. Live(n)' = x
  BY <1>1, <1>3 DEF Live
<1> HIDE DEF x
<1>6. \A i \in 0 .. n - 1 : /\ Live(i).seq < x.seq
                            /\ Live(i).seq \in Nat
  BY <1>1, <1>2, <1>3 DEF Numbers, TypeOK, Node
<1>7. LiveNodes' = LiveNodes \cup {x}
  <2>1. LiveNodes' = {Live(i)' : i \in 0 .. n}
    BY <1>3, <1>4 DEF LiveNodes
  <2>2. LiveNodes = {Live(i) : i \in 0 .. n - 1}
    BY <1>1, <1>3 DEF LiveNodes
  <2>3. \A i \in 0 .. n : i = n \/ i \in 0 .. n - 1
    OBVIOUS
  <2>4. \A i \in 0 .. n - 1 : i \in 0 .. n
    OBVIOUS
  <2> QED BY <2>1, <2>2, <2>3, <2>4, <1>4, <1>5
<1>8. Numbers'
  <2>1. ASSUME NEW i \in 0 .. n, NEW j \in 0 .. n, Live(i)'.seq = Live(j)'.seq
        PROVE  i = j
    <3>1. CASE i \in 0 .. n - 1 /\ j \in 0 .. n - 1
      BY <2>1, <3>1, <1>1, <1>3, <1>4 DEF Numbers
    <3>2. CASE i = n /\ j \in 0 .. n - 1
      BY <2>1, <3>2, <1>1, <1>2, <1>4, <1>5, <1>6
    <3>3. CASE i \in 0 .. n - 1 /\ j = n
      BY <2>1, <3>3, <1>1, <1>2, <1>4, <1>5, <1>6
    <3> QED BY <3>1, <3>2, <3>3
  <2>2. ASSUME NEW i \in 0 .. n
        PROVE  Live(i)'.seq < seq_counter'
    <3>1. CASE i = n
      BY <3>1, <1>1, <1>2, <1>5
    <3>2. CASE i \in 0 .. n - 1
      BY <3>2, <1>1, <1>2, <1>4, <1>6
    <3> QED BY <3>1, <3>2
  <2> QED BY <2>1, <2>2, <1>3, <1>4 DEF Numbers
<1>9. \A m \in LiveNodes : m.seq < x.seq
  BY <1>1, <1>3, <1>6 DEF LiveNodes
<1> QED BY <1>1, <1>2, <1>7, <1>8, <1>9

LEMMA PopNodes ==
  ASSUME Inv, Numbers, pq_pop
  PROVE  Numbers' /\ LiveNodes' = LiveNodes \ {nodes[0]}
<1>1. /\ TypeOK /\ sift = "none" /\ size \in Nat /\ size > 0 /\ size <= capacity
      /\ Used = size /\ size' = size - 1 /\ seq_counter' = seq_counter
      /\ nodes \in [0 .. capacity - 1 -> Node \cup {Unset}]
  BY DEF pq_pop, Inv, TypeOK, Used
<1>2. PICK n \in Nat \ {0} : n = size
  BY <1>1
<1>3. \A i \in 0 .. n - 1 : Live(i) = nodes[i]
  BY <1>1 DEF Live
<1>4. \A i, j \in 0 .. n - 1 : nodes[i] = nodes[j] => i = j
  BY <1>1, <1>2, <1>3 DEF Numbers
<1>5. LiveNodes = {nodes[i] : i \in 0 .. n - 1}
  BY <1>1, <1>2, <1>3 DEF LiveNodes
\* Slot 0 gets the last node, the others keep theirs.
<1>6. /\ Used' = n - 1
      /\ \A i \in 0 .. n - 2 : Live(i)' = IF i = 0 THEN nodes[n - 1] ELSE nodes[i]
  <2>1. CASE n = 1
    <3>1. sift' = sift
      BY <2>1, <1>1, <1>2 DEF pq_pop
    <3> QED BY <3>1, <2>1, <1>1, <1>2 DEF Used
  <2>2. CASE n > 1
    <3>1. /\ nodes' = [nodes EXCEPT ![0] = nodes[n - 1]]
          /\ sift' = "down" /\ hole' = 0 /\ tmp' = nodes[n - 1]
      BY <2>2, <1>1, <1>2 DEF pq_pop
    <3>2. Used' = n - 1
      BY <3>1, <1>1, <1>2 DEF Used
    <3> QED BY <3>1, <3>2, <1>1, <1>2 DEF Live
  <2> QED BY <2>1, <2>2
<1> DEFINE from(i) == IF i = 0 THEN n - 1 ELSE i
<1>7. \A i \in 0 .. n - 2 : /\ from(i) \in 1 .. n - 1 /\ from(i) \in 0 .. n - 1
                            /\ Live(i)' = nodes[from(i)]
                            /\ \A j \in 0 .. n - 2 : from(i) = from(j) => i = j
  BY <1>6
<1>8. \A k \in 1 .. n - 1 : \E i \in 0 .. n - 2 : from(i) = k
  <2> TAKE k \in 1 .. n - 1
  <2>1. CASE k = n - 1
    <3>1. 0 \in 0 .. n - 2 /\ from(0) = k
      BY <2>1
    <3> QED BY <3>1
  <2>2. CASE k # n - 1
    <3>1. k \in 0 .. n - 2 /\ from(k) = k
      BY <2>2
    <3> QED BY <3>1
  <2> QED BY <2>1, <2>2
<1> HIDE DEF from
<1>9. LiveNodes' = LiveNodes \ {nodes[0]}
  <2>1. LiveNodes' = {Live(i)' : i \in 0 .. n - 2}
    <3>1. Used' - 1 = n - 2
      BY <1>6
    <3> QED BY <3>1 DEF LiveNodes
  <2>2. {Live(i)' : i \in 0 .. n - 2} = {nodes[k] : k \in 1 .. n - 1}
    BY <1>7, <1>8
  <2>3. {nodes[k] : k \in 1 .. n - 1} = LiveNodes \ {nodes[0]}
    <3>1. \A k \in 0 .. n - 1 : k = 0 \/ k \in 1 .. n - 1
      OBVIOUS
    <3>2. \A k \in 1 .. n - 1 : k \in 0 .. n - 1 /\ nodes[k] # nodes[0]
      BY <1>4
    <3> QED BY <3>1, <3>2, <1>5
  <2> QED BY <2>1, <2>2, <2>3
<1>10. Numbers'
  <2>1. \A i, j \in 0 .. n - 1 : nodes[i].seq = nodes[j].seq => i = j
    BY <1>1, <1>2, <1>3 DEF Numbers
  <2>2. \A i \in 0 .. n - 1 : nodes[i].seq < seq_counter
    BY <1>1, <1>2, <1>3 DEF Numbers
  <2>3. Used' - 1 = n - 2
    BY <1>6
  <2>4. ASSUME NEW i \in 0 .. n - 2, NEW j \in 0 .. n - 2,
               Live(i)'.seq = Live(j)'.seq
        PROVE  i = j
    BY <2>1, <2>4, <1>7
  <2>5. \A i \in 0 .. n - 2 : Live(i)'.seq < seq_counter'
    BY <2>2, <1>1, <1>7
  <2> QED BY <2>3, <2>4, <2>5 DEF Numbers
<1> QED BY <1>9, <1>10

\* Between calls the root is the first of the pending nodes.
LEMMA RootNode ==
  ASSUME Inv, sift = "none", size > 0
  PROVE  /\ nodes[0] \in LiveNodes /\ nodes[0] \in Node /\ nodes[0] # Unset
         /\ \A m \in LiveNodes : ~ Precedes(m, nodes[0])
<1>1. TypeOK /\ Used = size /\ size \in Nat
  BY DEF Inv, TypeOK, Used
<1>2. \A i \in 0 .. size - 1 : Live(i) = nodes[i] /\ nodes[i] \in Node
  BY <1>1 DEF Live, TypeOK
<1>3. LiveNodes = {nodes[i] : i \in 0 .. size - 1}
  BY <1>1, <1>2 DEF LiveNodes
<1>4. 0 \in 0 .. size - 1
  BY <1>1
<1>5. \A i \in 0 .. size - 1 : ~ Precedes(nodes[i], nodes[0])
  BY <1>2, <1>4, PrecedesIsLess, RootBelowAll DEF RootIsFirst
<1> QED BY <1>2, <1>3, <1>4, <1>5, UnsetAssumption

LEMMA PushRefined ==
  ASSUME Inv, Numbers, NEW e \in Event, pq_push(e)
  PROVE  Numbers' /\ PQ!Push(e)
<1>1. PICK x \in Node : /\ x.event = e /\ LiveNodes' = LiveNodes \cup {x}
                        /\ \A m \in LiveNodes : m.seq < x.seq
  BY PushNodes
<1>2. Numbers' /\ out' = out
  BY PushNodes
<1>3. Numbered(LiveNodes)
  BY LiveNumbered DEF Inv
<1>4. Sorted(LiveNodes') = PQ!pq_push(Sorted(LiveNodes), e)
  BY <1>1, <1>3, SortedPush
<1>5. InOrder = Sorted(LiveNodes) /\ InOrder' = Sorted(LiveNodes')
  BY InOrderSorted DEF InOrder, Sorted, RankIn, LiveNodes
<1> QED BY <1>2, <1>4, <1>5 DEF PQ!Push

LEMMA PopRefined ==
  ASSUME Inv, Numbers, pq_pop
  PROVE  Numbers' /\ PQ!Pop
<1>1. sift = "none" /\ size > 0 /\ out' = nodes[0]
  BY DEF pq_pop
<1>2. /\ nodes[0] \in LiveNodes /\ nodes[0] # Unset
      /\ \A m \in LiveNodes : ~ Precedes(m, nodes[0])
  BY <1>1, RootNode
<1>3. Numbers' /\ LiveNodes' = LiveNodes \ {nodes[0]}
  BY PopNodes
<1>4. Numbered(LiveNodes)
  BY LiveNumbered DEF Inv
<1>5. /\ Sorted(LiveNodes) # <<>> /\ Head(Sorted(LiveNodes)) = nodes[0].event
      /\ Sorted(LiveNodes') = Tail(Sorted(LiveNodes))
  BY <1>2, <1>3, <1>4, SortedPop
<1>6. InOrder = Sorted(LiveNodes) /\ InOrder' = Sorted(LiveNodes')
  BY InOrderSorted DEF InOrder, Sorted, RankIn, LiveNodes
<1> QED BY <1>1, <1>2, <1>3, <1>5, <1>6 DEF PQ!Pop

LEMMA PeekRefined ==
  ASSUME Inv, Numbers, pq_peek
  PROVE  Numbers' /\ PQ!Peek
<1>1. /\ sift = "none" /\ size > 0 /\ out' = nodes[0]
      /\ UNCHANGED <<nodes, capacity, size, seq_counter, sift, hole, tmp>>
  BY DEF pq_peek
<1>2. /\ nodes[0] \in LiveNodes /\ nodes[0] # Unset
      /\ \A m \in LiveNodes : ~ Precedes(m, nodes[0])
  BY <1>1, RootNode
<1>3. Numbers' /\ LiveNodes' = LiveNodes
  BY <1>1, StillNodes DEF Used, Live
<1>4. Numbered(LiveNodes)
  BY LiveNumbered DEF Inv
<1>5. Sorted(LiveNodes) # <<>> /\ Head(Sorted(LiveNodes)) = nodes[0].event
  BY <1>2, <1>4, SortedPop
<1>6. InOrder = Sorted(LiveNodes) /\ InOrder' = Sorted(LiveNodes')
  BY InOrderSorted DEF InOrder, Sorted, RankIn, LiveNodes
<1> QED BY <1>1, <1>2, <1>3, <1>5, <1>6 DEF PQ!Peek

LEMMA StepRefined ==
  Inv /\ Numbers /\ [Next]_vars => Numbers' /\ [PQ!Next]_(PQ!qvars)
<1> SUFFICES ASSUME Inv, Numbers, [Next]_vars
             PROVE  Numbers' /\ [PQ!Next]_(PQ!qvars)
  OBVIOUS
<1>1. ASSUME NEW e \in Event, pq_push(e)
      PROVE  Numbers' /\ PQ!Next
  BY <1>1, PushRefined, Zenon DEF PQ!Next
<1>2. CASE pq_pop
  BY <1>2, PopRefined, Zenon DEF PQ!Next
<1>3. CASE pq_peek
  BY <1>3, PeekRefined, Zenon DEF PQ!Next
<1>4. CASE Sifting \/ pq_empty \/ UNCHANGED vars
  <2>1. Numbers' /\ LiveNodes' = LiveNodes /\ out' = out
    <3>1. CASE Sifting
      BY <3>1, SiftNodes
    <3>2. CASE pq_empty \/ UNCHANGED vars
      BY <3>2, StillNodes DEF pq_empty, vars, Used, Live
    <3> QED BY <1>4, <3>1, <3>2
  <2>2. InOrder = Sorted(LiveNodes) /\ InOrder' = Sorted(LiveNodes')
    BY InOrderSorted DEF InOrder, Sorted, RankIn, LiveNodes
  <2>3. UNCHANGED PQ!qvars
    BY <2>1, <2>2 DEF PQ!qvars
  <2> QED BY <2>1, <2>3
<1> QED BY <1>1, <1>2, <1>3, <1>4, Zenon DEF Next

\* pqueue.h's promise, of the whole of pqueue.c: whatever is pushed and popped,
\* and however the array grows, events are delivered by time, then weight, then
\* insertion, none lost and none twice, for any set of events and any capacity.
THEOREM HeapServesInOrder == Spec => ServesInOrder
<1>1. Init => Numbers /\ PQ!Init
  <2> SUFFICES ASSUME Init PROVE Numbers /\ PQ!Init
    OBVIOUS
  <2>1. Used = 0 /\ out = Unset
    BY DEF Init, Used
  <2>2. Numbers /\ LiveNodes = {}
    BY <2>1 DEF Numbers, LiveNodes
  <2>3. Sorted({}) = <<>>
    <3>1. Cardinality({}) = 0
      BY FS_EmptySet
    <3> QED BY <3>1 DEF Sorted
  <2>4. InOrder = <<>>
    BY <2>2, <2>3, InOrderSorted
  <2> QED BY <2>1, <2>2, <2>4 DEF PQ!Init
<1> QED
  BY <1>1, InitInv, StepInv, StepRefined, PTL DEF Spec, ServesInOrder, PQ!Spec
=============================================================================

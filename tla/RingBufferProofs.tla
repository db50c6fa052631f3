-------------------------- MODULE RingBufferProofs --------------------------
(***************************************************************************)
(* The circular buffers of sim.c, with any number of slots, implement the  *)
(* line of waiting flights.                                                *)
(***************************************************************************)
EXTENDS RingBuffer, CountingLemmas, Sequences, SequenceTheorems, TLAPS

-----------------------------------------------------------------------------
(* Arithmetic of the slots.                                                *)

\* The indices of this ring.
LEMMA SlotWrap ==
  \A x \in 0 .. 2 * SLOTS - 1 :
      x % SLOTS = IF x < SLOTS THEN x ELSE x - SLOTS
BY Wrap, RingAssumption

Inv == TypeOK /\ CountersAgree

\* The slots of the line are different slots of the array, and the slot that
\* comes after a line that leaves room is none of them.
LEMMA SlotsApart ==
  ASSUME TypeOK
  PROVE  /\ SLOTS \in Nat \ {0} /\ head \in Nat /\ len \in Nat
         /\ \A k \in 1 .. SLOTS + 1 :
                /\ Slot(k) \in 0 .. SLOTS - 1
                /\ Slot(k) = IF head + k - 1 < SLOTS THEN head + k - 1
                             ELSE head + k - 1 - SLOTS
         /\ \A j, k \in 1 .. SLOTS : j # k => Slot(j) # Slot(k)
<1>1. SLOTS \in Nat \ {0} /\ head \in 0 .. SLOTS - 1 /\ len \in 0 .. SLOTS
  BY RingAssumption DEF TypeOK
<1>2. \A k \in 1 .. SLOTS + 1 :
          Slot(k) = IF head + k - 1 < SLOTS THEN head + k - 1
                    ELSE head + k - 1 - SLOTS
  <2> SUFFICES ASSUME NEW k \in 1 .. SLOTS + 1
               PROVE  Slot(k) = IF head + k - 1 < SLOTS THEN head + k - 1
                                ELSE head + k - 1 - SLOTS
    OBVIOUS
  <2>1. head + k - 1 \in 0 .. 2 * SLOTS - 1
    BY <1>1
  <2> QED BY <2>1, <1>1, SlotWrap DEF Slot
<1> QED BY <1>1, <1>2

LEMMA InitInv == Init => Inv
<1> SUFFICES ASSUME Init PROVE Inv
  OBVIOUS
<1>1. TypeOK
  BY RingAssumption DEF Init, TypeOK
<1>2. Slot(len + 1) = 0
  BY <1>1, SlotsApart DEF Init
<1> QED BY <1>1, <1>2 DEF Inv, CountersAgree, Init

-----------------------------------------------------------------------------
(* What each operation does to the slots of the line.                      *)

LEMMA PushStep ==
  ASSUME Inv, NEW f \in Flights, push(f)
  PROVE  /\ Inv' /\ len' = len + 1 /\ slots'[Slot(len)'] = f
         /\ \A k \in 1 .. len : slots'[Slot(k)'] = slots[Slot(k)]
<1>1. /\ len < SLOTS /\ len' = len + 1 /\ head' = head /\ popped' = popped
      /\ slots' = [slots EXCEPT ![tail] = f] /\ tail' = (tail + 1) % SLOTS
  BY DEF push
<1>2. /\ TypeOK /\ SLOTS \in Nat \ {0} /\ len \in 0 .. SLOTS
      /\ head \in 0 .. SLOTS - 1 /\ tail \in 0 .. SLOTS - 1
      /\ tail = Slot(len + 1) /\ slots \in [0 .. SLOTS - 1 -> Flights]
  BY RingAssumption DEF Inv, TypeOK, CountersAgree
<1>3. PICK x \in 0 .. 2 * SLOTS - 1 : x = tail + 1
  BY <1>2
<1>4. tail' = IF tail + 1 < SLOTS THEN tail + 1 ELSE tail + 1 - SLOTS
  <2>1. x % SLOTS = IF x < SLOTS THEN x ELSE x - SLOTS
    BY SlotWrap
  <2>2. tail' = x % SLOTS
    BY <1>1, <1>3
  <2> QED BY <2>1, <2>2, <1>2, <1>3
<1>5. TypeOK'
  BY <1>1, <1>2, <1>4 DEF TypeOK
<1>6. \A k \in 1 .. SLOTS + 1 : Slot(k)' = Slot(k)
  BY <1>1 DEF Slot
<1>7. tail' = Slot(len + 2)
  <2>1. len + 1 \in 1 .. SLOTS + 1 /\ len + 2 \in 1 .. SLOTS + 1
    BY <1>1, <1>2
  <2>2. Slot(len + 1) = IF head + len < SLOTS THEN head + len
                        ELSE head + len - SLOTS
    BY <2>1, <1>2, SlotsApart
  <2>3. Slot(len + 2) = IF head + len + 1 < SLOTS THEN head + len + 1
                        ELSE head + len + 1 - SLOTS
    BY <2>1, <1>2, SlotsApart
  <2>4. tail = Slot(len + 1) /\ head \in 0 .. SLOTS - 1 /\ len \in 0 .. SLOTS
        /\ SLOTS \in Nat \ {0} /\ len < SLOTS
    BY <1>1, <1>2
  <2>5. CASE head + len < SLOTS
    <3>1. tail = head + len
      BY <2>2, <2>4, <2>5
    <3> QED BY <2>3, <2>4, <2>5, <3>1, <1>4
  <2>6. CASE ~ head + len < SLOTS
    <3>1. tail = head + len - SLOTS
      BY <2>2, <2>4, <2>6
    <3> QED BY <2>3, <2>4, <2>6, <3>1, <1>4
  <2> QED BY <2>5, <2>6
<1>8. CountersAgree'
  <2>1. Slot(len + 1)' = Slot(len + 2)
    BY <1>1, <1>2 DEF Slot
  <2> QED BY <2>1, <1>7 DEF CountersAgree
<1>9. \A k \in 1 .. len : slots'[Slot(k)'] = slots[Slot(k)]
  <2> SUFFICES ASSUME NEW k \in 1 .. len
               PROVE  slots'[Slot(k)'] = slots[Slot(k)]
    OBVIOUS
  <2>1. /\ k \in 1 .. SLOTS /\ k \in 1 .. SLOTS + 1
        /\ len + 1 \in 1 .. SLOTS /\ k # len + 1
    BY <1>1, <1>2
  <2>2. Slot(k) # tail /\ Slot(k) \in 0 .. SLOTS - 1 /\ Slot(k)' = Slot(k)
    BY <2>1, <1>2, <1>6, SlotsApart
  <2> QED BY <2>2, <1>1, <1>2
<1>10. slots'[Slot(len)'] = f
  <2>1. Slot(len)' = Slot(len + 1)
    BY <1>1, <1>2 DEF Slot
  <2> QED BY <2>1, <1>1, <1>2
<1> QED BY <1>1, <1>5, <1>8, <1>9, <1>10 DEF Inv

LEMMA PopStep ==
  ASSUME Inv, pop
  PROVE  /\ Inv' /\ len' = len - 1 /\ len \in Nat \ {0}
         /\ popped' = slots[Slot(1)]
         /\ \A k \in 1 .. len - 1 : slots'[Slot(k)'] = slots[Slot(k + 1)]
<1>1. /\ len > 0 /\ len' = len - 1 /\ head' = (head + 1) % SLOTS
      /\ popped' = slots[head] /\ slots' = slots /\ tail' = tail
  BY DEF pop
<1>2. /\ TypeOK /\ SLOTS \in Nat \ {0} /\ len \in 0 .. SLOTS
      /\ head \in 0 .. SLOTS - 1 /\ tail \in 0 .. SLOTS - 1
      /\ tail = Slot(len + 1) /\ slots \in [0 .. SLOTS - 1 -> Flights]
  BY RingAssumption DEF Inv, TypeOK, CountersAgree
<1>3. PICK x \in 0 .. 2 * SLOTS - 1 : x = head + 1
  BY <1>2
<1>4. head' = IF head + 1 < SLOTS THEN head + 1 ELSE head + 1 - SLOTS
  <2>1. x % SLOTS = IF x < SLOTS THEN x ELSE x - SLOTS
    BY SlotWrap
  <2>2. head' = x % SLOTS
    BY <1>1, <1>3
  <2> QED BY <2>1, <2>2, <1>2, <1>3
<1>5. TypeOK'
  BY <1>1, <1>2, <1>4 DEF TypeOK
<1>6. \A k \in 1 .. len : Slot(k)' = Slot(k + 1)
  <2> SUFFICES ASSUME NEW k \in 1 .. len
               PROVE  Slot(k)' = Slot(k + 1)
    OBVIOUS
  <2>1. k \in 1 .. SLOTS /\ k + 1 \in 1 .. SLOTS + 1 /\ k \in 1 .. SLOTS + 1
    BY <1>1, <1>2
  <2>2. PICK y \in 0 .. 2 * SLOTS - 1 : y = head' + k - 1
    BY <2>1, <1>2, <1>4
  <2>3. Slot(k)' = IF y < SLOTS THEN y ELSE y - SLOTS
    <3>1. Slot(k)' = y % SLOTS
      BY <2>2 DEF Slot
    <3> QED BY <3>1, SlotWrap
  <2>4. Slot(k + 1) = IF head + k < SLOTS THEN head + k ELSE head + k - SLOTS
    BY <2>1, <1>2, SlotsApart
  <2>5. CASE head + 1 < SLOTS
    <3>1. y = head + k
      BY <2>1, <2>2, <2>5, <1>2, <1>4
    <3> QED BY <2>1, <2>3, <2>4, <3>1, <1>2
  <2>6. CASE ~ head + 1 < SLOTS
    <3>1. head + 1 = SLOTS /\ y = k - 1
      BY <2>1, <2>2, <2>6, <1>2, <1>4
    <3> QED BY <2>1, <2>3, <2>4, <3>1, <1>2
  <2> QED BY <2>5, <2>6
<1>7. CountersAgree'
  <2>1. Slot(len + 1)' = Slot(len + 1)
    <3>1. len' + 1 = len /\ len \in 1 .. len
      BY <1>1, <1>2
    <3>2. PICK n \in 1 .. len : n = len
      BY <3>1
    <3>3. Slot(n)' = Slot(len + 1)
      BY <3>2, <1>6
    <3> QED BY <3>1, <3>2, <3>3 DEF Slot
  <2> QED BY <2>1, <1>1, <1>2 DEF CountersAgree
<1>8. Slot(1) = head
  BY <1>2, SlotsApart
<1>9. \A k \in 1 .. len - 1 : slots'[Slot(k)'] = slots[Slot(k + 1)]
  BY <1>1, <1>2, <1>6
<1> QED BY <1>1, <1>2, <1>5, <1>7, <1>8, <1>9 DEF Inv

LEMMA CompactStep ==
  ASSUME Inv, NEW keep \in SUBSET (1 .. len), Compact(keep),
         popped' \in Flights \cup {None}
  PROVE  /\ Inv' /\ len' = Cardinality(keep)
         /\ \A j \in 1 .. Cardinality(keep) :
                /\ \E k \in keep : Cardinality(keep \cap 1 .. k) = j
                /\ slots'[Slot(j)'] =
                       slots[Slot(CHOOSE k \in keep :
                                      Cardinality(keep \cap 1 .. k) = j)]
<1> DEFINE n == Cardinality(keep)
           nth(j) == CHOOSE k \in keep : Cardinality(keep \cap 1 .. k) = j
<1>1. /\ slots' = [i \in 0 .. SLOTS - 1 |->
                      IF i < n THEN slots[Slot(nth(i + 1))] ELSE slots[i]]
      /\ head' = 0 /\ tail' = n % SLOTS /\ len' = n
  BY DEF Compact, MoveToFront
<1>2. /\ TypeOK /\ SLOTS \in Nat \ {0} /\ len \in Nat /\ len <= SLOTS
      /\ slots \in [0 .. SLOTS - 1 -> Flights]
  BY RingAssumption DEF Inv, TypeOK
<1>3. n \in Nat /\ n <= len
  BY <1>2, Positions
<1>4. \A j \in 1 .. n : \E k \in keep : Cardinality(keep \cap 1 .. k) = j
  BY <1>2, Rank
<1>5. \A j \in 1 .. n : nth(j) \in keep
  BY <1>4, Zenon
<1> HIDE DEF n, nth
<1>6. \A j \in 1 .. n : slots[Slot(nth(j))] \in Flights
  <2> SUFFICES ASSUME NEW j \in 1 .. n
               PROVE  slots[Slot(nth(j))] \in Flights
    OBVIOUS
  <2>1. PICK k \in 1 .. SLOTS + 1 : k = nth(j)
    <3>1. nth(j) \in keep
      BY <1>5
    <3>2. nth(j) \in 1 .. len
      BY <3>1
    <3> QED BY <3>2, <1>2
  <2>2. Slot(k) \in 0 .. SLOTS - 1
    BY <1>2, SlotsApart
  <2> QED BY <2>1, <2>2, <1>2
<1>7. n % SLOTS = IF n < SLOTS THEN n ELSE n - SLOTS
  <2>1. n \in 0 .. 2 * SLOTS - 1
    BY <1>2, <1>3
  <2> QED BY <2>1, SlotWrap
<1>8. TypeOK'
  <2>1. slots' \in [0 .. SLOTS - 1 -> Flights]
    <3> SUFFICES ASSUME NEW i \in 0 .. SLOTS - 1
                 PROVE  (IF i < n THEN slots[Slot(nth(i + 1))] ELSE slots[i])
                            \in Flights
      BY <1>1
    <3>1. CASE i < n
      <4>1. PICK j \in 1 .. n : j = i + 1
        BY <3>1, <1>3
      <4> QED BY <4>1, <3>1, <1>6
    <3>2. CASE ~ i < n
      BY <3>2, <1>2
    <3> QED BY <3>1, <3>2
  <2>2. tail' \in 0 .. SLOTS - 1 /\ head' \in 0 .. SLOTS - 1 /\ len' \in 0 .. SLOTS
    BY <1>1, <1>2, <1>3, <1>7
  <2> QED BY <2>1, <2>2 DEF TypeOK
<1>9. CountersAgree'
  <2>1. Slot(len + 1)' = (0 + (n + 1) - 1) % SLOTS
    BY <1>1 DEF Slot
  <2>2. 0 + (n + 1) - 1 = n
    BY <1>3
  <2> QED BY <2>1, <2>2, <1>1 DEF CountersAgree
<1>10. \A j \in 1 .. n : slots'[Slot(j)'] = slots[Slot(nth(j))]
  <2> SUFFICES ASSUME NEW j \in 1 .. n
               PROVE  slots'[Slot(j)'] = slots[Slot(nth(j))]
    OBVIOUS
  <2>1. PICK x \in 0 .. 2 * SLOTS - 1 : x = j - 1
    BY <1>2, <1>3
  <2>2. Slot(j)' = x
    <3>1. Slot(j)' = x % SLOTS
      <4>1. 0 + j - 1 = x
        BY <2>1
      <4> QED BY <4>1, <1>1 DEF Slot
    <3>2. x % SLOTS = IF x < SLOTS THEN x ELSE x - SLOTS
      BY SlotWrap
    <3> QED BY <3>1, <3>2, <2>1, <1>2, <1>3
  <2>3. x \in 0 .. SLOTS - 1 /\ x < n /\ x + 1 = j
    BY <2>1, <1>2, <1>3
  <2> QED BY <2>2, <2>3, <1>1
<1> QED BY <1>1, <1>4, <1>8, <1>9, <1>10 DEF Inv, n, nth

LEMMA RemoveStep ==
  ASSUME Inv, NEW f, holding_remove(f)
  PROVE  Inv'
<1>1. {k \in 1 .. len : slots[Slot(k)] # f} \in SUBSET (1 .. len)
  OBVIOUS
<1>2. popped' \in Flights \cup {None}
  BY DEF holding_remove, Inv, TypeOK
<1> QED BY <1>1, <1>2, CompactStep DEF holding_remove

LEMMA PopPriorityStep ==
  ASSUME Inv, NEW k \in 1 .. len, holding_pop_priority(k)
  PROVE  Inv' /\ popped' \in Flights
<1>1. (1 .. len) \ {k} \in SUBSET (1 .. len)
  OBVIOUS
<1>2. popped' \in Flights
  <2>1. k \in 1 .. SLOTS + 1
    BY RingAssumption DEF Inv, TypeOK
  <2>2. Slot(k) \in 0 .. SLOTS - 1
    BY <2>1, SlotsApart DEF Inv
  <2> QED BY <2>2 DEF holding_pop_priority, Inv, TypeOK
<1> QED BY <1>1, <1>2, CompactStep DEF holding_pop_priority

LEMMA StepInv == Inv /\ [Next]_vars => Inv'
<1> SUFFICES ASSUME Inv, [Next]_vars
             PROVE  Inv'
  OBVIOUS
<1>1. ASSUME NEW f \in Flights, push(f) PROVE Inv'
  BY <1>1, PushStep
<1>2. ASSUME NEW f \in Flights, holding_remove(f) PROVE Inv'
  BY <1>2, RemoveStep
<1>3. ASSUME NEW k \in 1 .. len, holding_pop_priority(k) PROVE Inv'
  BY <1>3, PopPriorityStep
<1>4. CASE pop
  BY <1>4, PopStep
<1>5. CASE pop_empty
  BY <1>5 DEF pop_empty, Inv, TypeOK, CountersAgree, Slot
<1>6. CASE push_full \/ UNCHANGED vars
  BY <1>6 DEF push_full, vars, Inv, TypeOK, CountersAgree, Slot
<1> QED BY <1>1, <1>2, <1>3, <1>4, <1>5, <1>6 DEF Next

\* Every index the code computes lies in the array, for any number of slots.
THEOREM RingTyped == Spec => []TypeOK
<1>1. Inv => TypeOK
  BY DEF Inv
<1> QED BY <1>1, InitInv, StepInv, PTL DEF Spec

\* Head, tail and length agree after any pushes, pops and compactions.
THEOREM RingCounters == Spec => []CountersAgree
<1>1. Inv => CountersAgree
  BY DEF Inv
<1> QED BY <1>1, InitInv, StepInv, PTL DEF Spec

-----------------------------------------------------------------------------
(* The array implements the line.                                          *)

LEMMA LineIs ==
  ASSUME TypeOK
  PROVE  /\ Line \in Seq(Flights) /\ Len(Line) = len /\ len \in Nat
         /\ DOMAIN Line = 1 .. len
         /\ \A k \in 1 .. len : Line[k] = slots[Slot(k)]
<1>1. \A k \in 1 .. len : slots[Slot(k)] \in Flights
  <2> SUFFICES ASSUME NEW k \in 1 .. len
               PROVE  slots[Slot(k)] \in Flights
    OBVIOUS
  <2>1. k \in 1 .. SLOTS + 1
    BY RingAssumption DEF TypeOK
  <2>2. Slot(k) \in 0 .. SLOTS - 1
    BY <2>1, SlotsApart
  <2> QED BY <2>2 DEF TypeOK
<1>2. len \in Nat
  BY RingAssumption DEF TypeOK
<1>3. Line \in [1 .. len -> Flights]
  BY <1>1 DEF Line
<1>4. \A k \in 1 .. len : Line[k] = slots[Slot(k)]
  BY DEF Line
<1> HIDE DEF Line
<1>5. Line \in Seq(Flights) /\ Len(Line) = len /\ DOMAIN Line = 1 .. len
  BY <1>2, <1>3
<1> QED BY <1>2, <1>4, <1>5

LEMMA LineNext ==
  ASSUME TypeOK'
  PROVE  /\ Line' \in Seq(Flights) /\ Len(Line') = len' /\ len' \in Nat
         /\ \A k \in 1 .. len' : Line'[k] = slots'[Slot(k)']
<1>1. \A k \in 1 .. len' : Line'[k] = slots'[Slot(k)']
  BY DEF Line
<1>2. (Line \in Seq(Flights) /\ Len(Line) = len /\ len \in Nat)'
  BY LineIs, PTL
<1> QED BY <1>1, <1>2

LEMMA JoinRefined ==
  ASSUME Inv, NEW f \in Flights, push(f)
  PROVE  WL!Join(f)
<1>1. /\ TypeOK /\ TypeOK' /\ len' = len + 1 /\ slots'[Slot(len)'] = f
      /\ \A k \in 1 .. len : slots'[Slot(k)'] = slots[Slot(k)]
  BY PushStep DEF Inv
<1>2. len < SLOTS /\ popped' = popped
  BY DEF push
<1>3. /\ Line \in Seq(Flights) /\ Len(Line) = len /\ len \in Nat
      /\ \A k \in 1 .. len : Line[k] = slots[Slot(k)]
  BY <1>1, LineIs
<1>4. /\ Line' \in Seq(Flights) /\ Len(Line') = len'
      /\ \A k \in 1 .. len' : Line'[k] = slots'[Slot(k)']
  BY <1>1, LineNext
<1> DEFINE s == Line  t == Append(Line, f)
<1>5. /\ t \in Seq(Flights) /\ Len(t) = len + 1 /\ t[len + 1] = f
      /\ \A k \in 1 .. len : t[k] = Line[k]
  BY <1>3, AppendProperties
<1>6. Line'[len + 1] = f
  <2>1. PICK n \in 1 .. len' : n = len'
    BY <1>1, <1>3
  <2>2. Line'[n] = slots'[Slot(n)'] /\ Slot(n)' = Slot(len)'
    BY <2>1, <1>4 DEF Slot
  <2> QED BY <2>1, <2>2, <1>1
<1>7. \A k \in 1 .. len + 1 : Line'[k] = t[k]
  <2> SUFFICES ASSUME NEW k \in 1 .. len + 1
               PROVE  Line'[k] = t[k]
    OBVIOUS
  <2> HIDE DEF t
  <2>1. CASE k = len + 1
    BY <2>1, <1>5, <1>6
  <2>2. CASE k # len + 1
    <3>1. k \in 1 .. len /\ k \in 1 .. len'
      BY <2>2, <1>1, <1>3
    <3> QED BY <3>1, <1>1, <1>3, <1>4, <1>5
  <2> QED BY <2>1, <2>2
<1> HIDE DEF t
<1>8. Line' = t
  BY <1>1, <1>4, <1>5, <1>7, SeqEqual
<1> QED BY <1>2, <1>3, <1>8 DEF WL!Join, t

LEMMA LeaveRefined ==
  ASSUME Inv, pop
  PROVE  WL!Leave
<1>1. /\ TypeOK /\ TypeOK' /\ len' = len - 1 /\ len \in Nat \ {0}
      /\ popped' = slots[Slot(1)]
      /\ \A k \in 1 .. len - 1 : slots'[Slot(k)'] = slots[Slot(k + 1)]
  BY PopStep DEF Inv
<1>2. /\ Line \in Seq(Flights) /\ Len(Line) = len
      /\ \A k \in 1 .. len : Line[k] = slots[Slot(k)]
  BY <1>1, LineIs
<1>3. /\ Line' \in Seq(Flights) /\ Len(Line') = len'
      /\ \A k \in 1 .. len' : Line'[k] = slots'[Slot(k)']
  BY <1>1, LineNext
<1>4. Line # <<>>
  BY <1>1, <1>2
<1>5. Head(Line) = Line[1]
  BY <1>2, <1>4
<1>6. popped' = Head(Line)
  BY <1>1, <1>2, <1>5
<1>7. /\ Tail(Line) \in Seq(Flights) /\ Len(Tail(Line)) = len - 1
      /\ \A k \in 1 .. len - 1 : Tail(Line)[k] = Line[k + 1]
  BY <1>2, <1>4, HeadTailProperties
<1>8. \A k \in 1 .. len - 1 : Line'[k] = Tail(Line)[k]
  <2> SUFFICES ASSUME NEW k \in 1 .. len - 1
               PROVE  Line'[k] = Tail(Line)[k]
    OBVIOUS
  <2>1. k \in 1 .. len' /\ k + 1 \in 1 .. len
    BY <1>1
  <2>2. Line'[k] = slots[Slot(k + 1)]
    BY <2>1, <1>1, <1>3
  <2>3. Line[k + 1] = slots[Slot(k + 1)]
    BY <2>1, <1>2
  <2> QED BY <2>2, <2>3, <1>7
<1>9. Line' = Tail(Line)
  BY <1>1, <1>3, <1>7, <1>8, SeqEqual
<1> QED BY <1>4, <1>6, <1>9 DEF WL!Leave

\* Compacting the array keeps the flights at the chosen positions.
LEMMA KeptRefined ==
  ASSUME Inv, NEW keep \in SUBSET (1 .. len), Compact(keep),
         popped' \in Flights \cup {None}
  PROVE  Line' = WL!Kept(keep)
<1> DEFINE n == Cardinality(keep)
           nth(j) == CHOOSE k \in keep : Cardinality(keep \cap 1 .. k) = j
<1>1. /\ TypeOK /\ TypeOK' /\ len' = n
      /\ \A j \in 1 .. n : /\ \E k \in keep : Cardinality(keep \cap 1 .. k) = j
                           /\ slots'[Slot(j)'] = slots[Slot(nth(j))]
  BY CompactStep DEF Inv
<1>2. \A j \in 1 .. n : nth(j) \in 1 .. len
  <2> SUFFICES ASSUME NEW j \in 1 .. n
               PROVE  nth(j) \in 1 .. len
    OBVIOUS
  <2>1. \E k \in keep : Cardinality(keep \cap 1 .. k) = j
    BY <1>1
  <2>2. nth(j) \in keep
    BY <2>1, Zenon
  <2> QED BY <2>2
<1>3. \A k \in 1 .. len : Line[k] = slots[Slot(k)]
  BY <1>1, LineIs
<1>4. Line' = [j \in 1 .. n |-> slots'[Slot(j)']]
  BY <1>1 DEF Line
<1>5. WL!Kept(keep) = [j \in 1 .. n |-> Line[nth(j)]]
  BY Zenon DEF WL!Kept, WL!Cardinality, Cardinality
<1> HIDE DEF n, nth
<1>6. \A j \in 1 .. n : slots'[Slot(j)'] = Line[nth(j)]
  BY <1>1, <1>2, <1>3
<1> QED BY <1>4, <1>5, <1>6

LEMMA LeaveFromRefined ==
  ASSUME Inv, NEW k \in 1 .. len, holding_pop_priority(k)
  PROVE  k \in DOMAIN Line /\ WL!LeaveFrom(k)
<1>1. DOMAIN Line = 1 .. len /\ Line[k] = slots[Slot(k)]
  BY LineIs DEF Inv
<1>2. Line' = WL!Kept((1 .. len) \ {k})
  BY PopPriorityStep, KeptRefined DEF holding_pop_priority
<1>3. popped' = Line[k]
  BY <1>1 DEF holding_pop_priority
<1> QED BY <1>1, <1>2, <1>3 DEF WL!LeaveFrom

LEMMA WithdrawRefined ==
  ASSUME Inv, NEW f \in Flights, holding_remove(f)
  PROVE  WL!Withdraw(f)
<1> DEFINE keep == {k \in 1 .. len : slots[Slot(k)] # f}
<1>1. DOMAIN Line = 1 .. len /\ \A k \in 1 .. len : Line[k] = slots[Slot(k)]
  BY LineIs DEF Inv
<1>2. keep = {k \in DOMAIN Line : Line[k] # f}
  BY <1>1
<1>3. popped' = popped /\ popped' \in Flights \cup {None} /\ Compact(keep)
  BY DEF holding_remove, Inv, TypeOK
<1>4. keep \in SUBSET (1 .. len)
  OBVIOUS
<1> HIDE DEF keep
<1>5. Line' = WL!Kept(keep)
  BY <1>3, <1>4, KeptRefined
<1> QED BY <1>2, <1>3, <1>5 DEF WL!Withdraw

LEMMA StepRefined == Inv /\ [Next]_vars => [WL!Next]_(WL!lvars)
<1> SUFFICES ASSUME Inv, [Next]_vars
             PROVE  WL!Next \/ (Line' = Line /\ popped' = popped)
  BY DEF WL!lvars
<1>1. ASSUME NEW f \in Flights, push(f) PROVE WL!Next
  BY <1>1, JoinRefined, Zenon DEF WL!Next
<1>2. ASSUME NEW f \in Flights, holding_remove(f) PROVE WL!Next
  BY <1>2, WithdrawRefined, Zenon DEF WL!Next
<1>3. ASSUME NEW k \in 1 .. len, holding_pop_priority(k) PROVE WL!Next
  BY <1>3, LeaveFromRefined, Zenon DEF WL!Next
<1>4. CASE pop
  BY <1>4, LeaveRefined, Zenon DEF WL!Next
<1>5. CASE pop_empty
  <2>1. Line = <<>>
    BY <1>5, LineIs DEF pop_empty, Inv
  <2>2. Line' = Line /\ popped' = None
    BY <1>5 DEF pop_empty, Line, Slot
  <2>3. WL!NobodyLeaves
    BY <2>1, <2>2 DEF WL!NobodyLeaves
  <2> QED BY <2>3, Zenon DEF WL!Next
<1>6. CASE push_full \/ UNCHANGED vars
  BY <1>6 DEF push_full, vars, Line, Slot
<1> QED BY <1>1, <1>2, <1>3, <1>4, <1>5, <1>6, Zenon DEF Next

\* The array is the line of Sector, for any number of slots: flights come out
\* in the order in which they went in, none is lost, doubled or read from a
\* stale slot, wherever in the array the line begins.
THEOREM RingKeepsTheLine == Spec => KeepsTheLine
<1>1. Init => WL!Init
  <2> SUFFICES ASSUME Init PROVE WL!Init
    OBVIOUS
  <2>1. TypeOK /\ len = 0
    BY InitInv DEF Inv, Init
  <2>2. Line = <<>>
    BY <2>1, LineIs
  <2> QED BY <2>2 DEF WL!Init, Init
<1> QED
  BY <1>1, InitInv, StepInv, StepRefined, PTL DEF Spec, KeepsTheLine, WL!Spec
=============================================================================

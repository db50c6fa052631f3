----------------------------- MODULE RngProofs -----------------------------
(***************************************************************************)
(* The generator never reaches the all-zero state: seeding keeps its first *)
(* two words apart, and a step whose result is zero came from zero.  And   *)
(* no step loses anything: it can be undone.  Draws stay in their range.   *)
(***************************************************************************)
EXTENDS Rng, CountingLemmas, SequenceTheorems, NaturalsInduction,
        WellFoundedInduction, TLAPS

LEMMA WordTypes ==
  ASSUME NEW a \in Words, NEW b \in Words, NEW k \in Int
  PROVE  /\ Xor(a, b) \in Words /\ shl(a, k) \in Words
         /\ shr(a, k) \in Words /\ rotl(a, k) \in Words
BY DEF Words, Xor, shl, shr, rotl

LEMMA FourWords == ASSUME TypeOK PROVE \A k \in 1 .. 4 : s[k] \in Words
<1> SUFFICES ASSUME NEW k \in 1 .. Len(s) PROVE s[k] \in Words
  BY DEF TypeOK
<1> QED BY ElementOfSeq DEF TypeOK

LEMMA FinaliseType == \A n : finalise(n) \in Words
<1> SUFFICES ASSUME NEW n PROVE finalise(n) \in Words
  OBVIOUS
<1> DEFINE z0 == WordOf(n)
           z1 == Times(Xor(z0, shr(z0, FINAL_SHIFTS[1])), FINAL_FACTORS[1])
           z2 == Times(Xor(z1, shr(z1, FINAL_SHIFTS[2])), FINAL_FACTORS[2])
<1>1. z2 \in Words
  BY DEF Times, WordOf, Words
<1>2. shr(z2, FINAL_SHIFTS[3]) \in Words
  BY DEF shr, Words
<1>3. finalise(n) = Xor(z2, shr(z2, FINAL_SHIFTS[3]))
  BY DEF finalise
<1> HIDE DEF z2
<1> QED BY <1>1, <1>2, <1>3 DEF Xor, Words

LEMMA XorZero ==
  ASSUME NEW a \in Words, NEW b \in Words
  PROVE  Xor(a, b) = Zero <=> a = b
BY DEF Words, Xor, Zero

\* Only the empty word is its own shifted copy: the lowest bit of another has
\* nothing below it to come from.
LEMMA ShiftedItself ==
  ASSUME NEW a \in Words, NEW k \in Nat \ {0}, a = shl(a, k)
  PROVE  a = Zero
<1> SUFFICES ASSUME a # {} PROVE FALSE
  BY DEF Zero
<1>1. W \in Nat \ {0} /\ k \in Int /\ k >= 1
  BY WordAssumption
<1> DEFINE keep == {p + 1 : p \in a}
<1>2. keep \in SUBSET (1 .. W) /\ keep # {}
  <2>1. ASSUME NEW p \in a PROVE p + 1 \in 1 .. W
    <3>1. p \in 0 .. W - 1
      BY DEF Words, Bits
    <3> QED BY <1>1, <3>1
  <2> QED BY <2>1
<1>3. Cardinality(keep) \in Nat /\ Cardinality(keep) # 0
  BY <1>1, <1>2, Positions, FS_EmptySet
<1>4. PICK i \in keep : Cardinality(keep \cap 1 .. i) = 1
  <2>1. 1 \in 1 .. Cardinality(keep)
    BY <1>3
  <2> HIDE DEF keep
  <2> QED BY <1>1, <1>2, <2>1, Rank
<1>5. PICK p \in a : i = p + 1
  BY <1>4
<1>6. p \in Int /\ 0 <= p /\ p - k \in a
  BY <1>1, <1>5 DEF shl, Words, Bits
<1>7. PICK q \in a : q = p - k
  BY <1>6
<1>8. q \in Int /\ 0 <= q /\ q + 1 < i
  BY <1>1, <1>5, <1>6, <1>7 DEF Words, Bits
<1>9. {q + 1, i} \subseteq keep \cap 1 .. i
  BY <1>5, <1>6, <1>7, <1>8
<1>10. IsFiniteSet(keep \cap 1 .. i)
  <2> HIDE DEF keep
  <2> QED BY <1>1, <1>2, Positions, FS_Intersection
<1>11. PICK x : keep \cap 1 .. i = {x}
  <2> HIDE DEF keep
  <2> QED BY <1>4, <1>10, FS_Singleton
<1> QED BY <1>8, <1>9, <1>11

\* A rotation drops no bit.
LEMMA RotatedZero ==
  ASSUME NEW a \in Words, rotl(a, ROTATE) = Zero
  PROVE  a = Zero
<1> SUFFICES ASSUME NEW p \in a PROVE FALSE
  BY DEF Zero
<1>1. W \in Nat \ {0} /\ ROTATE \in Int /\ ROTATE >= 0 /\ ROTATE <= W - 1
  BY WordAssumption DEF Bits
<1>2. p \in Int /\ 0 <= p /\ p <= W - 1
  BY <1>1 DEF Words, Bits
<1>3. CASE p + ROTATE <= W - 1
  <2>1. p + ROTATE \in Bits /\ (p + ROTATE) - ROTATE = p
    BY <1>1, <1>2, <1>3 DEF Bits
  <2> QED BY <2>1 DEF rotl, shl, Zero
<1>4. CASE ~ p + ROTATE <= W - 1
  <2>1. p + ROTATE - W \in Bits /\ (p + ROTATE - W) + (W - ROTATE) = p
    BY <1>1, <1>2, <1>4 DEF Bits
  <2> QED BY <2>1 DEF rotl, shr, Zero
<1> QED BY <1>3, <1>4

-----------------------------------------------------------------------------
\* Every state has four words, for words of any width.
THEOREM GeneratorTyped == Spec => []TypeOK
<1>1. Init => TypeOK
  BY FinaliseType DEF Init, TypeOK, rng_seed
<1>2. ASSUME TypeOK, rng_next PROVE TypeOK'
  <2>1. /\ s[1] \in Words /\ s[2] \in Words
        /\ s[3] \in Words /\ s[4] \in Words
    BY <1>2, FourWords
  <2>2. SHIFT \in Int /\ ROTATE \in Int
    BY WordAssumption DEF Bits
  <2>3. s' = Advanced(s)
    BY <1>2 DEF rng_next
  <2> DEFINE u3 == Xor(s[3], s[1])
             u4 == Xor(s[4], s[2])
             v1 == Xor(s[1], u4)
             v2 == Xor(s[2], u3)
             v3 == Xor(u3, shl(s[2], SHIFT))
             v4 == rotl(u4, ROTATE)
  <2>4. u3 \in Words /\ u4 \in Words /\ shl(s[2], SHIFT) \in Words
    BY <2>1, <2>2, WordTypes
  <2>5. v1 \in Words /\ v2 \in Words /\ v3 \in Words /\ v4 \in Words
    <3> HIDE DEF u3, u4
    <3> QED BY <2>1, <2>2, <2>4, WordTypes
  <2>6. s' = <<v1, v2, v3, v4>>
    BY <2>3 DEF Advanced
  <2> HIDE DEF v1, v2, v3, v4
  <2> QED BY <2>5, <2>6 DEF TypeOK
<1>3. TypeOK /\ UNCHANGED s => TypeOK'
  BY DEF TypeOK
<1> QED BY <1>1, <1>2, <1>3, PTL DEF Spec

LEMMA StepApart ==
  ASSUME NEW n \in 0 .. M - 1
  PROVE  sm_step(n) \in 0 .. M - 1 /\ sm_step(n) # n
<1>1. /\ M \in Nat \ {0} /\ GAMMA \in Int /\ 1 <= GAMMA /\ GAMMA <= M - 1
  BY SeedAssumption
<1>2. PICK sum \in 0 .. 2 * M - 1 : sum = n + GAMMA
  BY <1>1
<1>3. sum % M = IF sum < M THEN sum ELSE sum - M
  BY <1>1, Wrap
<1>4. sm_step(n) = sum % M
  BY <1>2 DEF sm_step
<1> QED BY <1>1, <1>2, <1>3, <1>4

\* Seeding does not yield the all-zero state.
LEMMA SeededNotStuck == Init => NeverStuck
<1> SUFFICES ASSUME Init PROVE NeverStuck
  OBVIOUS
<1>1. PICK seed \in 0 .. M - 1 : s = rng_seed(seed)
  BY DEF Init
<1> DEFINE n0 == IF seed = 0 THEN DEFAULT ELSE seed
           n1 == sm_step(n0)
           n2 == sm_step(n1)
<1>2. n0 \in 0 .. M - 1
  BY SeedAssumption
<1> HIDE DEF n0
<1>3. n1 \in 0 .. M - 1 /\ n2 \in 0 .. M - 1 /\ n1 # n2
  BY <1>2, StepApart
<1>4. s[1] = finalise(n1) /\ s[2] = finalise(n2)
  BY <1>1 DEF rng_seed, n0
<1> HIDE DEF n1, n2
<1>5. s[1] # s[2]
  BY <1>3, <1>4, FinaliserAssumption
<1> QED BY <1>5 DEF NeverStuck

\* A step from a state that is not all zero does not reach it.
LEMMA StepNotStuck ==
  ASSUME TypeOK, NeverStuck, rng_next
  PROVE  NeverStuck'
<1> SUFFICES ASSUME \A k \in 1 .. 4 : s'[k] = Zero PROVE FALSE
  BY DEF NeverStuck
<1> DEFINE u3 == Xor(s[3], s[1])
           u4 == Xor(s[4], s[2])
           up == shl(s[2], SHIFT)
<1>1. /\ s[1] \in Words /\ s[2] \in Words
      /\ s[3] \in Words /\ s[4] \in Words
  BY FourWords
<1>2. SHIFT \in Nat \ {0} /\ SHIFT \in Int /\ ROTATE \in Int
  BY WordAssumption DEF Bits
<1>3. u3 \in Words /\ u4 \in Words /\ up \in Words
  BY <1>1, <1>2, WordTypes
<1>4. /\ Xor(s[1], u4) = Zero /\ Xor(s[2], u3) = Zero
      /\ Xor(u3, up) = Zero /\ rotl(u4, ROTATE) = Zero
  <2>1. s' = <<Xor(s[1], u4), Xor(s[2], u3), Xor(u3, up), rotl(u4, ROTATE)>>
    BY DEF rng_next, Advanced
  <2> HIDE DEF u3, u4, up
  <2> QED BY <2>1
<1>5. u4 = Zero
  BY <1>3, <1>4, RotatedZero
<1>6. s[1] = Zero
  BY <1>1, <1>3, <1>4, <1>5, XorZero
<1>7. s[2] = u3 /\ u3 = up
  BY <1>1, <1>3, <1>4, XorZero
<1>8. s[2] = Zero
  BY <1>1, <1>2, <1>7, ShiftedItself
<1>9. s[3] = Zero
  BY <1>1, <1>6, <1>7, <1>8, XorZero DEF Zero
<1>10. s[4] = Zero
  BY <1>1, <1>5, <1>8, XorZero DEF Zero
<1> QED BY <1>6, <1>8, <1>9, <1>10 DEF NeverStuck

\* The state is never all zero, whatever the seed, for words of any width and
\* any shift and rotation.
THEOREM GeneratorNeverStuck == Spec => []NeverStuck
<1>1. TypeOK /\ NeverStuck /\ [rng_next]_s => NeverStuck'
  BY StepNotStuck DEF NeverStuck
<1> QED BY <1>1, SeededNotStuck, GeneratorTyped, PTL DEF Spec

-----------------------------------------------------------------------------
(* A step can be undone.                                                   *)

\* A word is its exclusive or with another, xored with that again.
LEMMA XorTwice ==
  ASSUME NEW a \in Words, NEW b \in Words
  PROVE  /\ Xor(Xor(a, b), b) = a /\ Xor(Xor(b, a), b) = a
         /\ Xor(a, b) = Xor(b, a)
BY DEF Words, Xor

\* Rotating on by the rest of the word brings every bit back.
LEMMA RotatedBack ==
  ASSUME NEW a \in Words
  PROVE  rotl(rotl(a, ROTATE), W - ROTATE) = a
<1> DEFINE b == rotl(a, ROTATE)
           c == rotl(b, W - ROTATE)
<1>1. W \in Nat \ {0} /\ ROTATE \in Int /\ ROTATE >= 0 /\ ROTATE <= W - 1
  BY WordAssumption DEF Bits
<1>2. a \subseteq Bits /\ c \subseteq Bits
  BY DEF Words, rotl, shl, shr
<1>3. \A q \in Bits : q \in b <=> q - ROTATE \in a \/ q + (W - ROTATE) \in a
  BY DEF rotl, shl, shr
<1>4. W - (W - ROTATE) = ROTATE
  BY <1>1
<1> HIDE DEF b
<1>5. \A p \in Bits : p \in c <=> p - (W - ROTATE) \in b \/ p + ROTATE \in b
  BY <1>4 DEF rotl, shl, shr
<1>6. b \subseteq Bits
  BY DEF b, rotl, shl, shr
<1> HIDE DEF c
<1>7. ASSUME NEW p \in Bits
      PROVE  p \in c <=> p \in a
  <2>1. p \in Int /\ 0 <= p /\ p <= W - 1
    BY <1>1 DEF Bits
  <2>2. \A q \in a \cup b : q \in Int /\ 0 <= q /\ q <= W - 1
    BY <1>1, <1>2, <1>6 DEF Bits
  <2>3. CASE p + ROTATE <= W - 1
    <3>1. p + ROTATE \in Bits /\ ~ (p - (W - ROTATE) \in b)
      BY <1>1, <2>1, <2>2, <2>3 DEF Bits
    <3>2. /\ (p + ROTATE) - ROTATE = p
          /\ ~ ((p + ROTATE) + (W - ROTATE) \in a)
      <4>1. (p + ROTATE) + (W - ROTATE) > W - 1
        BY <1>1, <2>1
      <4> QED BY <1>1, <2>1, <2>2, <4>1
    <3> QED BY <1>3, <1>5, <3>1, <3>2
  <2>4. CASE ~ p + ROTATE <= W - 1
    <3>1. p - (W - ROTATE) \in Bits /\ ~ (p + ROTATE \in b)
      BY <1>1, <2>1, <2>2, <2>4 DEF Bits
    <3>2. /\ (p - (W - ROTATE)) + (W - ROTATE) = p
          /\ ~ ((p - (W - ROTATE)) - ROTATE \in a)
      <4>1. (p - (W - ROTATE)) - ROTATE < 0
        BY <1>1, <2>1
      <4> QED BY <1>1, <2>1, <2>2, <4>1
    <3> QED BY <1>3, <1>5, <3>1, <3>2
  <2> QED BY <2>3, <2>4
<1>8. c = a
  BY <1>2, <1>7
<1> QED BY <1>8 DEF b, c

\* The bits of a word a, from the lowest on, given its exclusive or x with
\* itself shifted: the function that Before defines is that of a.
LEMMA LowBits ==
  ASSUME NEW a \in Words, NEW x, x = Xor(a, shl(a, SHIFT))
  PROVE  LET low[p \in Bits] ==
               LET below == IF p >= SHIFT THEN low[p - SHIFT] ELSE 0
               IN IF p \in x THEN 1 - below ELSE below
         IN {p \in Bits : low[p] = 1} = a
<1> DEFINE below(g, p) == IF p >= SHIFT THEN g[p - SHIFT] ELSE 0
           bit(g, p) == IF p \in x THEN 1 - below(g, p) ELSE below(g, p)
           Is(g) == g = [p \in Bits |-> bit(g, p)]
           f == [p \in Bits |-> IF p \in a THEN 1 ELSE 0]
<1>1. SHIFT \in Int /\ SHIFT >= 1 /\ W \in Int
  BY WordAssumption
<1>2. \A p \in Bits : p \in Int /\ 0 <= p /\ p <= W - 1
  BY <1>1 DEF Bits
<1>3. \A p \in Bits : p \in x <=> ~ (p \in a <=> p - SHIFT \in a)
  BY DEF Xor, shl, Words
<1>4. \A p \in Bits : p >= SHIFT => p - SHIFT \in Bits /\ p - SHIFT < p
  BY <1>1, <1>2 DEF Bits
<1>5. \A p \in Bits : ~ p >= SHIFT => p - SHIFT \notin a
  <2>1. \A p \in Bits : ~ p >= SHIFT => p - SHIFT \notin Bits
    BY <1>1, <1>2 DEF Bits
  <2> QED BY <2>1 DEF Words
\* A function that is right below p is right at p.
<1>6. ASSUME NEW g, NEW p \in Bits,
             p >= SHIFT => g[p - SHIFT] = IF p - SHIFT \in a THEN 1 ELSE 0
      PROVE  bit(g, p) = IF p \in a THEN 1 ELSE 0
  <2>1. below(g, p) = IF p - SHIFT \in a THEN 1 ELSE 0
    BY <1>5, <1>6
  <2> HIDE DEF below
  <2> QED BY <2>1, <1>3
<1>7. Is(f)
  <2>1. \A p \in Bits : bit(f, p) = IF p \in a THEN 1 ELSE 0
    <3> TAKE p \in Bits
    <3>1. p >= SHIFT => f[p - SHIFT] = IF p - SHIFT \in a THEN 1 ELSE 0
      BY <1>4
    <3> HIDE DEF f, bit
    <3> QED BY <3>1, <1>6
  <2>2. \A p \in Bits : f[p] = bit(f, p)
    <3> HIDE DEF bit
    <3> QED BY <2>1
  <2>3. f = [p \in Bits |-> f[p]]
    OBVIOUS
  <2> HIDE DEF f, bit
  <2> QED BY <2>2, <2>3
<1>8. ASSUME NEW g, Is(g)
      PROVE  \A p \in Bits : g[p] = IF p \in a THEN 1 ELSE 0
  <2>1. \A p \in Bits : g[p] = bit(g, p)
    <3> HIDE DEF bit
    <3> QED BY <1>8
  <2> DEFINE Wrong == {p \in Bits : g[p] # IF p \in a THEN 1 ELSE 0}
  <2> SUFFICES ASSUME Wrong # {} PROVE FALSE
    OBVIOUS
  <2>2. PICK m \in Wrong : \A p \in Wrong : ~ (<<p, m>> \in OpToRel(<, Nat))
    <3>1. Wrong \subseteq Nat
      BY <1>2
    <3> HIDE DEF Wrong
    <3> QED BY <3>1, WFMin, NatLessThanWellFounded, Zenon
  <2>3. \A p \in Bits : p < m => g[p] = IF p \in a THEN 1 ELSE 0
    <3>1. \A p \in Bits : p \in Nat
      BY <1>2
    <3>2. m \in Nat
      BY <3>1
    <3>3. ASSUME NEW p \in Bits, p < m PROVE p \notin Wrong
      <4> HIDE DEF Wrong
      <4> QED BY <2>2, <3>1, <3>2, <3>3, Zenon DEF OpToRel
    <3> QED BY <3>3
  <2>4. m \in Bits /\ g[m] # IF m \in a THEN 1 ELSE 0
    OBVIOUS
  <2>5. m >= SHIFT => g[m - SHIFT] = IF m - SHIFT \in a THEN 1 ELSE 0
    BY <2>3, <2>4, <1>4
  <2> HIDE DEF bit
  <2> QED BY <2>1, <2>4, <2>5, <1>6
<1> DEFINE low == CHOOSE g : Is(g)
<1>9. Is(low)
  <2> HIDE DEF Is, f
  <2> QED BY <1>7
<1>10. \A p \in Bits : low[p] = IF p \in a THEN 1 ELSE 0
  <2> HIDE DEF low, Is
  <2> QED BY <1>8, <1>9
<1>11. {p \in Bits : low[p] = 1} = a
  <2>1. a \subseteq Bits
    BY DEF Words
  <2> HIDE DEF low
  <2> QED BY <2>1, <1>10
<1> QED BY <1>11

LEMMA Undone ==
  ASSUME TypeOK
  PROVE  Before(Advanced(s)) = s
<1> DEFINE u3 == Xor(s[3], s[1])
           u4 == Xor(s[4], s[2])
           v1 == Xor(s[1], u4)
           v2 == Xor(s[2], u3)
           v3 == Xor(u3, shl(s[2], SHIFT))
           v4 == rotl(u4, ROTATE)
           x  == Xor(v2, v3)
           b4 == rotl(v4, W - ROTATE)
           b1 == Xor(v1, b4)
<1>1. /\ s[1] \in Words /\ s[2] \in Words
      /\ s[3] \in Words /\ s[4] \in Words
  BY FourWords
<1>2. SHIFT \in Int /\ ROTATE \in Int
  BY WordAssumption DEF Bits
<1>3. u3 \in Words /\ u4 \in Words /\ shl(s[2], SHIFT) \in Words
  BY <1>1, <1>2, WordTypes
<1>4. Advanced(s) = <<v1, v2, v3, v4>>
  BY DEF Advanced
<1>5. b4 = u4
  <2> HIDE DEF u4
  <2> QED BY <1>3, RotatedBack
<1>6. b1 = s[1]
  <2> HIDE DEF u4, b4
  <2> QED BY <1>1, <1>3, <1>5, XorTwice
<1>7. x = Xor(s[2], shl(s[2], SHIFT))
  <2> HIDE DEF u3
  <2> QED BY <1>1, <1>3 DEF Xor
<1> DEFINE b2 == LET low[p \in Bits] ==
                       LET below == IF p >= SHIFT THEN low[p - SHIFT] ELSE 0
                       IN IF p \in x THEN 1 - below ELSE below
                 IN {p \in Bits : low[p] = 1}
<1>8. b2 = s[2]
  <2> HIDE DEF x
  <2> QED BY <1>1, <1>7, LowBits
<1>9. Xor(Xor(v2, b2), b1) = s[3] /\ Xor(b4, b2) = s[4]
  <2>1. Xor(v2, s[2]) = u3
    <3> HIDE DEF u3
    <3> QED BY <1>1, <1>3, XorTwice
  <2>2. Xor(u3, s[1]) = s[3] /\ Xor(u4, s[2]) = s[4]
    BY <1>1, XorTwice
  <2> HIDE DEF v2, b2, b1, b4, u3, u4
  <2> QED BY <2>1, <2>2, <1>5, <1>6, <1>8
<1>10. Before(<<v1, v2, v3, v4>>)
         = <<b1, b2, Xor(Xor(v2, b2), b1), Xor(b4, b2)>>
  <2> HIDE DEF v1, v2, v3, v4
  <2> QED BY DEF Before
<1>11. s = <<s[1], s[2], s[3], s[4]>>
  BY DEF TypeOK
<1> HIDE DEF v1, v2, v3, v4, b1, b2, b4
<1> QED BY <1>4, <1>6, <1>8, <1>9, <1>10, <1>11

\* No step of the generator loses anything: the state before it can be computed
\* back, so no two runs of different states ever fall together, for words of
\* any width and any shift and rotation.
THEOREM GeneratorLosesNothing == Spec => NothingLost
<1>1. TypeOK /\ [rng_next]_s => [Before(s') = s]_s
  BY Undone DEF rng_next
<1> QED BY <1>1, GeneratorTyped, PTL DEF Spec, NothingLost

-----------------------------------------------------------------------------
(* Ranges.                                                                 *)

\* The number a word stands for is an integer.
LEMMA NumberType == ASSUME NEW a \in Words PROVE NumberOf(a) \in Int
<1>1. IsFiniteSet(a)
  <2>1. IsFiniteSet(0 .. W - 1)
    BY WordAssumption, FS_Interval
  <2> QED BY <2>1, FS_Subset DEF Words, Bits
<1>2. \A p \in a : 2^p \in Int
  <2>1. ASSUME NEW p \in Nat PROVE 2^p \in Int
    BY SMT
  <2> QED BY <2>1, WordAssumption DEF Words, Bits
<1> DEFINE f == [p \in a |-> 2^p]
<1>3. f \in [a -> Int]
  BY <1>2
<1>4. NumberOf(a) = SumFunction(f)
  BY DEF NumberOf
<1> HIDE DEF f
<1> QED BY <1>1, <1>3, <1>4, SumType

\* A draw from any range stays in it.
LEMMA RangeType ==
  ASSUME NEW lo \in Int, NEW hi \in Int, lo <= hi, NEW draw \in Words
  PROVE  rng_range(lo, hi, draw) \in lo .. hi
<1>1. CASE hi <= lo
  BY <1>1 DEF rng_range
<1>2. CASE lo < hi
  <2> DEFINE n == NumberOf(draw)
  <2>1. n \in Int
    BY NumberType
  <2>2. span(lo, hi) = hi - lo + 1
    BY DEF span
  <2>3. rng_range(lo, hi, draw) = lo + (n % (hi - lo + 1))
    BY <1>2, <2>2 DEF rng_range
  <2> HIDE DEF n
  <2>4. n % (hi - lo + 1) \in 0 .. hi - lo
    BY <1>2, <2>1
  <2> DEFINE r == n % (hi - lo + 1)
  <2>5. lo + r \in lo .. hi
    <3> HIDE DEF r
    <3>1. r \in 0 .. hi - lo
      BY <2>4 DEF r
    <3> QED BY <3>1
  <2> QED BY <2>3, <2>5
<1> QED BY <1>1, <1>2

\* Draws from a range stay in it, for words of any width.
THEOREM GeneratorKeepsRange == Spec => []RangeKept
<1>1. RangeKept
  <2>1. result(s) \in Words
    BY DEF result, Times, WordOf, Words
  <2> QED BY <2>1, RangeType DEF RangeKept
<1> QED BY <1>1, PTL

=============================================================================

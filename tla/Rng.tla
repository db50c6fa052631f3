-------------------------------- MODULE Rng --------------------------------
(***************************************************************************)
(* The generator (rng.c): xoshiro256** seeded by splitmix64.  A word is    *)
(* the set of the positions of its bits that are set, position 0 the       *)
(* lowest, so that exclusive or is the symmetric difference of sets and    *)
(* shifts move positions.  The code has W = 64; the other numbers of the   *)
(* two algorithms depend on it and are constants too.  What the doubles    *)
(* drawn are used for is the choice among finite sets in Sector.           *)
(***************************************************************************)
EXTENDS Integers, Sequences, FiniteSetsExt, Functions

CONSTANTS W, M,                     \* bits of a word, and 2^W
          SHIFT, ROTATE, SCRAMBLE,  \* rng_next: 17, 45 and 7
          GAMMA, DEFAULT,           \* the step of splitmix64, the stand-in for seed 0
          FINAL_SHIFTS,             \* 30, 27, 31
          FINAL_FACTORS             \* the two odd factors of its finaliser

Bits  == 0 .. W - 1
Words == SUBSET Bits
Zero  == {}

VARIABLE s                          \* the four words of the state

-----------------------------------------------------------------------------
(* Words.                                                                  *)

Xor(a, b) == (a \ b) \cup (b \ a)
shl(a, k) == {p \in Bits : p - k \in a}
shr(a, k) == {p \in Bits : p + k \in a}
rotl_Shift(a, k) == shl(a, k)
rotl(a, k) == shl(a, k) \cup shr(a, W - k)

\* Products are taken of the numbers the words stand for, modulo 2^W.
NumberOf(a) == SumFunction([p \in a |-> 2^p])
WordOf(n)   == {p \in Bits : (n \div 2^p) % 2 = 1}
Times(a, factor) == WordOf((NumberOf(a) * factor) % M)

-----------------------------------------------------------------------------
(* splitmix64 and rng_seed.                                                *)

finalise(n) ==
    LET z0 == WordOf(n)
        z1 == Times(Xor(z0, shr(z0, FINAL_SHIFTS[1])), FINAL_FACTORS[1])
        z2 == Times(Xor(z1, shr(z1, FINAL_SHIFTS[2])), FINAL_FACTORS[2])
    IN Xor(z2, shr(z2, FINAL_SHIFTS[3]))

sm_step(n) == (n + GAMMA) % M

rng_seed_Unstepped(seed) == [k \in 1 .. 4 |-> finalise(seed)]
rng_seed(seed) ==
    LET n1 == sm_step(IF seed = 0 THEN DEFAULT ELSE seed)
        n2 == sm_step(n1)
        n3 == sm_step(n2)
    IN <<finalise(n1), finalise(n2), finalise(n3), finalise(sm_step(n3))>>

ASSUME WordAssumption == W \in Nat \ {0} /\ SHIFT \in Nat \ {0} /\ ROTATE \in Bits
ASSUME SeedAssumption == M \in Nat \ {0} /\ GAMMA \in 1 .. M - 1 /\ DEFAULT \in 0 .. M - 1

\* Each step of the finaliser can be undone (the exclusive or with a shifted
\* copy, the product with an odd number), so it keeps numbers apart.
ASSUME FinaliserAssumption ==
    /\ M = 2^W
    /\ \A m, n \in 0 .. M - 1 : finalise(m) = finalise(n) => m = n

-----------------------------------------------------------------------------
(* rng_next: s[i] of the code is s[i+1].                                   *)

Advanced(u) ==
    LET u3 == Xor(u[3], u[1])
        u4 == Xor(u[4], u[2])
    IN <<Xor(u[1], u4), Xor(u[2], u3), Xor(u3, shl(u[2], SHIFT)),
         rotl(u4, ROTATE)>>

\* What the call returns.
result(u) == Times(rotl(Times(u[2], 5), SCRAMBLE), 9)

rng_next == s' = Advanced(s)

span(lo, hi) == hi - lo + 1
rng_range(lo, hi, draw) ==
    IF hi <= lo THEN lo ELSE lo + (NumberOf(draw) % span(lo, hi))

Init == \E seed \in 0 .. M - 1 : s = rng_seed(seed)
Spec == Init /\ [][rng_next]_s

-----------------------------------------------------------------------------
(* Properties.                                                             *)

\* A type invariant.
TypeOK == s \in Seq(Words) /\ Len(s) = 4

\* The state is never all zero, the one state from which the generator never
\* recovers: every draw would be the same from then on.
NeverStuck == \E k \in 1 .. 4 : s[k] # Zero

\* A step loses nothing: the state before it can be computed back, here from
\* the words in the order in which rng_next overwrites them.  So no two runs
\* with different states ever fall together.
Before(u) ==
    LET u4 == rotl(u[4], W - ROTATE)
        u1 == Xor(u[1], u4)
        low[p \in Bits] ==    \* bit p of s[1] before, from u2 ^ u3 = s1 ^ s1 << 17
            LET below == IF p >= SHIFT THEN low[p - SHIFT] ELSE 0
            IN IF p \in Xor(u[2], u[3]) THEN 1 - below ELSE below
        u2 == {p \in Bits : low[p] = 1}
    IN <<u1, u2, Xor(Xor(u[2], u2), u1), Xor(u4, u2)>>
NothingLost == [][Before(s') = s]_s

\* Draws from a range stay in it, negative bounds and ranges of one included.
RangeKept ==
    \A lo, hi \in -2 .. 3 :
        lo <= hi => rng_range(lo, hi, result(s)) \in lo .. hi
=============================================================================

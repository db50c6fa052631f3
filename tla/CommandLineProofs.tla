-------------------------- MODULE CommandLineProofs --------------------------
(***************************************************************************)
(* The command line, of any length and whatever its words: options in any  *)
(* order mean what they say, and a sweep has a row for each of its seeds.  *)
(***************************************************************************)
EXTENDS CommandLine, SequenceTheorems, NaturalsInduction,
        WellFoundedInduction, TLAPS

\* Among numbers that have a property one is the least.
LEMMA Least ==
  ASSUME NEW C \in SUBSET Nat, C # {}
  PROVE  \E n \in C : \A k \in 0 .. n - 1 : k \notin C
<1>1. PICK n \in C : \A k \in C : ~ (<<k, n>> \in OpToRel(<, Nat))
  BY WFMin, NatLessThanWellFounded, Zenon
<1>2. ASSUME NEW k \in 0 .. n - 1 PROVE k \notin C
  <2>1. k \in Nat /\ n \in Nat /\ k < n
    BY <1>2
  <2>2. <<k, n>> \in OpToRel(<, Nat)
    BY <2>1 DEF OpToRel
  <2> QED BY <2>2, <1>1
<1> QED BY <1>2

-----------------------------------------------------------------------------
(* Where the options of a command line are in its argv.                    *)

\* joined[k] are the words of the first k options of s, and option k begins at
\* word at[k] of them.
Joins(s, n, joined, at) ==
    /\ joined \in [1 .. n -> Seq(DOMAIN Number)]
    /\ \A k \in 1 .. n :
           joined[k] = IF k = 1 THEN s[k] ELSE joined[k - 1] \o s[k]
    /\ at \in [1 .. n + 1 -> Nat \ {0}] /\ at[1] = 1
    /\ at[n + 1] = Len(joined[n]) + 1
    /\ \A k \in 1 .. n :
           /\ at[k + 1] = at[k] + Len(s[k]) /\ at[k + 1] <= at[n + 1]
           /\ \A j \in 1 .. Len(s[k]) : joined[n][at[k] + j - 1] = s[k][j]

LEMMA FirstJoined ==
  ASSUME NEW s \in Seq(Seq(DOMAIN Number)), s # <<>>
  PROVE  \E joined, at : Joins(s, 1, joined, at)
<1> DEFINE joined == [k \in 1 .. 1 |-> s[1]]
           at == [k \in 1 .. 2 |-> IF k = 1 THEN 1 ELSE Len(s[1]) + 1]
<1>1. s[1] \in Seq(DOMAIN Number) /\ Len(s[1]) \in Nat
  <2>1. 1 \in 1 .. Len(s)
    BY EmptySeq
  <2> QED BY <2>1, ElementOfSeq, LenProperties
<1>2. joined \in [1 .. 1 -> Seq(DOMAIN Number)] /\ joined[1] = s[1]
  BY <1>1
<1>3. /\ at \in [1 .. 1 + 1 -> Nat \ {0}] /\ at[1] = 1
      /\ at[1 + 1] = Len(s[1]) + 1
  BY <1>1
<1> HIDE DEF joined, at
<1>4. Joins(s, 1, joined, at)
  BY <1>1, <1>2, <1>3 DEF Joins
<1> QED BY <1>4

LEMMA NextJoined ==
  ASSUME NEW s \in Seq(Seq(DOMAIN Number)), NEW n \in 1 .. Len(s) - 1,
         NEW joined, NEW at, Joins(s, n, joined, at)
  PROVE  \E more, to : Joins(s, n + 1, more, to)
<1> DEFINE o == s[n + 1]
           last == joined[n] \o o
           more == [k \in 1 .. n + 1 |-> IF k = n + 1 THEN last ELSE joined[k]]
           to == [k \in 1 .. (n + 1) + 1 |->
                      IF k = (n + 1) + 1 THEN at[n + 1] + Len(o) ELSE at[k]]
           here == Len(joined[n])
           size == Len(o)
<1>1. n \in Nat /\ n >= 1 /\ Len(s) \in Nat /\ n + 1 \in 1 .. Len(s)
  BY LenProperties
<1>2. /\ o \in Seq(DOMAIN Number) /\ size \in Nat
      /\ joined[n] \in Seq(DOMAIN Number) /\ here \in Nat
  <2>1. o \in Seq(DOMAIN Number)
    BY <1>1, ElementOfSeq
  <2>2. joined[n] \in Seq(DOMAIN Number)
    BY <1>1 DEF Joins
  <2> HIDE DEF o
  <2> QED BY <2>1, <2>2, LenProperties
<1>3. /\ last \in Seq(DOMAIN Number) /\ Len(last) = here + size
      /\ \A j \in 1 .. here : last[j] = joined[n][j]
      /\ \A j \in 1 .. size : last[here + j] = o[j]
  <2> HIDE DEF o
  <2>1. /\ last \in Seq(DOMAIN Number) /\ Len(last) = here + size
        /\ \A j \in 1 .. here + size :
               last[j] = IF j <= here THEN joined[n][j] ELSE o[j - here]
    BY <1>2, ConcatProperties
  <2> HIDE DEF last, here, size
  <2>2. ASSUME NEW j \in 1 .. size PROVE last[here + j] = o[j]
    <3>1. PICK x \in 1 .. here + size : x = here + j
      BY <1>2
    <3>2. ~ x <= here /\ x - here = j
      BY <3>1, <1>2
    <3> QED BY <3>1, <3>2, <2>1
  <2>3. ASSUME NEW j \in 1 .. here PROVE last[j] = joined[n][j]
    <3>1. j \in 1 .. here + size /\ j <= here
      BY <1>2
    <3> QED BY <3>1, <2>1
  <2> QED BY <2>1, <2>2, <2>3
<1>4. /\ more \in [1 .. n + 1 -> Seq(DOMAIN Number)]
      /\ more[n + 1] = last /\ \A k \in 1 .. n : more[k] = joined[k]
  <2> HIDE DEF last
  <2> QED BY <1>1, <1>3 DEF Joins
<1>5. at[n + 1] = here + 1 /\ \A k \in 1 .. n + 1 : at[k] \in Nat \ {0}
  BY <1>1 DEF Joins
<1>6. /\ to \in [1 .. (n + 1) + 1 -> Nat \ {0}]
      /\ to[(n + 1) + 1] = here + 1 + size
      /\ \A k \in 1 .. n + 1 : to[k] = at[k]
  <2> HIDE DEF o, here
  <2> QED BY <1>1, <1>2, <1>5
<1>7. ASSUME NEW k \in 1 .. n + 1
      PROVE  more[k] = IF k = 1 THEN s[k] ELSE more[k - 1] \o s[k]
  <2> HIDE DEF more, to
  <2>1. CASE k = n + 1
    <3>1. more[k - 1] = joined[n] /\ k # 1
      BY <2>1, <1>1, <1>4
    <3> QED BY <3>1, <2>1, <1>4
  <2>2. CASE k # n + 1
    <3>1. k \in 1 .. n /\ (k # 1 => k - 1 \in 1 .. n)
      BY <2>2, <1>1
    <3> QED BY <3>1, <1>4 DEF Joins
  <2> QED BY <2>1, <2>2
<1>8. ASSUME NEW k \in 1 .. n + 1
      PROVE  /\ to[k + 1] = to[k] + Len(s[k])
             /\ to[k + 1] <= to[(n + 1) + 1]
             /\ \A j \in 1 .. Len(s[k]) :
                    more[n + 1][to[k] + j - 1] = s[k][j]
  <2>1. CASE k = n + 1
    <3>1. to[k + 1] = here + 1 + size /\ to[k] = here + 1 /\ s[k] = o
      <4> HIDE DEF to, here, size
      <4> QED BY <2>1, <1>1, <1>5, <1>6
    <3>2. \A j \in 1 .. size : here + 1 + j - 1 = here + j
      <4> HIDE DEF here, size
      <4> QED BY <1>2
    <3>3. \A j \in 1 .. size : more[n + 1][to[k] + j - 1] = s[k][j]
      <4> HIDE DEF more, to, last, o, here, size
      <4> QED BY <3>1, <3>2, <1>3, <1>4
    <3>4. Len(s[k]) = size
      BY <2>1
    <3> HIDE DEF more, to, last, o, here, size
    <3> QED BY <3>1, <3>3, <3>4, <2>1, <1>2, <1>6
  <2>2. CASE k # n + 1
    <3>1. k \in 1 .. n /\ k + 1 \in 1 .. n + 1
      BY <2>2, <1>1
    <3>2. /\ at[k + 1] = at[k] + Len(s[k]) /\ at[k + 1] <= at[n + 1]
          /\ \A j \in 1 .. Len(s[k]) : joined[n][at[k] + j - 1] = s[k][j]
      BY <3>1 DEF Joins
    <3>3. /\ to[k + 1] = at[k + 1] /\ to[k] = at[k]
          /\ at[k + 1] \in Nat /\ at[k] \in Nat \ {0}
      <4> HIDE DEF to
      <4> QED BY <3>1, <1>1, <1>5, <1>6
    <3>4. s[k] \in Seq(DOMAIN Number) /\ Len(s[k]) \in Nat
      BY <3>1, <1>1, ElementOfSeq, LenProperties
    <3>5. ASSUME NEW j \in 1 .. Len(s[k])
          PROVE  more[n + 1][at[k] + j - 1] = s[k][j]
      <4> DEFINE a == at[k]
                 m == Len(s[k])
      <4>1. a \in Nat \ {0} /\ m \in Nat /\ j \in 1 .. m /\ a + m <= here + 1
        BY <3>2, <3>3, <3>4, <1>5
      <4> HIDE DEF a, m, here
      <4>2. a + j - 1 \in 1 .. here
        BY <4>1, <1>2
      <4> HIDE DEF more, last
      <4> QED BY <4>2, <3>2, <1>3, <1>4 DEF a
    <3> HIDE DEF more, to, last, o, here, size
    <3> QED BY <3>2, <3>3, <3>5, <1>2, <1>5, <1>6
  <2> QED BY <2>1, <2>2
<1>9. Joins(s, n + 1, more, to)
  <2> HIDE DEF more, to, last, o, here, size
  <2>1. to[1] = 1
    BY <1>1, <1>6 DEF Joins
  <2>2. to[(n + 1) + 1] = Len(more[n + 1]) + 1
    BY <1>2, <1>3, <1>4, <1>6
  <2> QED BY <2>1, <2>2, <1>4, <1>6, <1>7, <1>8 DEF Joins
<1> QED BY <1>9

LEMMA AllJoined ==
  ASSUME NEW s \in Seq(Seq(DOMAIN Number)), s # <<>>
  PROVE  \E joined, at : Joins(s, Len(s), joined, at)
<1> DEFINE C == {n \in 1 .. Len(s) : ~ \E joined, at : Joins(s, n, joined, at)}
<1>1. Len(s) \in Nat /\ 1 \in 1 .. Len(s)
  BY EmptySeq, LenProperties
<1> SUFFICES ASSUME C # {} PROVE FALSE
  BY <1>1
<1>2. PICK n \in C : \A k \in 0 .. n - 1 : k \notin C
  <2>1. C \in SUBSET Nat
    BY <1>1
  <2> HIDE DEF C
  <2> QED BY <2>1, Least
<1>3. n \in 1 .. Len(s) /\ ~ \E joined, at : Joins(s, n, joined, at)
  OBVIOUS
<1>4. n # 1
  BY <1>3, FirstJoined
<1>5. PICK m \in 1 .. Len(s) - 1 : n = m + 1
  <2>1. n - 1 \in 1 .. Len(s) - 1 /\ n = (n - 1) + 1
    BY <1>1, <1>3, <1>4
  <2> QED BY <2>1
<1>6. m \in 1 .. Len(s) /\ m \in 0 .. n - 1
  BY <1>1, <1>5
<1>7. \E joined, at : Joins(s, m, joined, at)
  BY <1>2, <1>6
<1> QED BY <1>3, <1>5, <1>7, NextJoined

\* The library joins them in the same way.
LEMMA FlattenIsJoined ==
  ASSUME NEW s \in Seq(Seq(DOMAIN Number)), s # <<>>,
         NEW joined, NEW at, Joins(s, Len(s), joined, at)
  PROVE  FlattenSeq(s) = joined[Len(s)]
<1> DEFINE next(f, k) == IF k = 1 THEN s[k] ELSE f[k - 1] \o s[k]
           Is(f) == f = [k \in 1 .. Len(s) |-> next(f, k)]
           flatten == CHOOSE f : Is(f)
<1>1. Len(s) \in Nat /\ Len(s) # 0 /\ Len(s) \in 1 .. Len(s)
  BY EmptySeq, LenProperties
<1>2. FlattenSeq(s) = flatten[Len(s)]
  BY <1>1 DEF FlattenSeq
<1>3. Is(joined)
  <2>1. \A k \in 1 .. Len(s) : joined[k] = next(joined, k)
    BY DEF Joins
  <2>2. joined = [k \in 1 .. Len(s) |-> joined[k]]
    BY DEF Joins
  <2> HIDE DEF next
  <2> QED BY <2>1, <2>2
<1>4. Is(flatten)
  <2> HIDE DEF Is
  <2> QED BY <1>3
<1> HIDE DEF flatten
<1>5. \A k \in 1 .. Len(s) : /\ flatten[k] = next(flatten, k)
                             /\ joined[k] = next(joined, k)
  <2> HIDE DEF next
  <2> QED BY <1>3, <1>4
<1> DEFINE Wrong == {k \in 1 .. Len(s) : flatten[k] # joined[k]}
<1>6. Wrong = {}
  <2> SUFFICES ASSUME Wrong # {} PROVE FALSE
    OBVIOUS
  <2>1. PICK k \in Wrong : \A j \in 0 .. k - 1 : j \notin Wrong
    <3>1. Wrong \in SUBSET Nat
      BY <1>1
    <3> HIDE DEF Wrong
    <3> QED BY <3>1, Least
  <2>2. k \in 1 .. Len(s) /\ flatten[k] # joined[k]
    OBVIOUS
  <2>3. k # 1
    BY <2>2, <1>5
  <2>4. k - 1 \in 1 .. Len(s) /\ k - 1 \in 0 .. k - 1
    BY <2>2, <2>3, <1>1
  <2>5. flatten[k - 1] = joined[k - 1]
    BY <2>1, <2>4
  <2> QED BY <2>2, <2>3, <2>5, <1>5
<1> QED BY <1>1, <1>2, <1>6

\* The options of s are in its argv one after the other, option k from word
\* at[k] on.
Starts(s, at) ==
    /\ at \in [1 .. Len(s) + 1 -> Nat \ {0}] /\ at[1] = 1
    /\ at[Len(s) + 1] = Len(FlattenSeq(s)) + 1
    /\ \A k \in 1 .. Len(s) :
           /\ at[k + 1] = at[k] + Len(s[k])
           /\ at[k + 1] <= Len(FlattenSeq(s)) + 1
           /\ \A j \in 1 .. Len(s[k]) : FlattenSeq(s)[at[k] + j - 1] = s[k][j]

LEMMA StartsExist ==
  ASSUME NEW s \in Seq(Seq(DOMAIN Number))
  PROVE  /\ FlattenSeq(s) \in Seq(DOMAIN Number)
         /\ \E at : Starts(s, at)
<1>1. CASE s = <<>>
  <2> DEFINE at == [k \in 1 .. 1 |-> 1]
  <2>1. Len(s) = 0 /\ FlattenSeq(s) = <<>> /\ Len(<<>>) = 0
    BY <1>1 DEF FlattenSeq
  <2>2. at \in [1 .. 0 + 1 -> Nat \ {0}] /\ at[1] = 1 /\ at[0 + 1] = 0 + 1
    OBVIOUS
  <2> HIDE DEF at
  <2>3. Starts(s, at)
    BY <2>1, <2>2 DEF Starts
  <2> QED BY <2>1, <2>3
<1>2. CASE s # <<>>
  <2>1. Len(s) \in 1 .. Len(s)
    BY <1>2, EmptySeq, LenProperties
  <2>2. PICK joined, at : Joins(s, Len(s), joined, at)
    BY <1>2, AllJoined
  <2>3. FlattenSeq(s) = joined[Len(s)]
    BY <1>2, <2>2, FlattenIsJoined
  <2>4. FlattenSeq(s) \in Seq(DOMAIN Number)
    BY <2>1, <2>2, <2>3 DEF Joins
  <2>5. Starts(s, at)
    BY <2>2, <2>3 DEF Joins, Starts
  <2> QED BY <2>4, <2>5
<1> QED BY <1>1, <1>2

-----------------------------------------------------------------------------
(* The options and what each sets.                                         *)

Settings == {"seed", "runways", "gates", "rate", "horizon", "headless", "csv",
             "runs", "snapshot"}

LEMMA Tables ==
  /\ DOMAIN Defaults = Settings /\ Defaults \in [Settings -> Int]
  /\ DOMAIN Flag = {"--headless", "--csv"}
  /\ \A w \in DOMAIN Flag : Flag[w] \in Settings
  /\ DOMAIN Field = {"--seed", "--runways", "--gates", "--rate", "--horizon",
                     "--runs", "--snapshot"}
  /\ \A w \in DOMAIN Field : Field[w] \in Settings
<1>1. DOMAIN Defaults = Settings /\ Defaults \in [Settings -> Int]
  BY DEF Defaults, Settings
<1>2. /\ DOMAIN Flag = {"--headless", "--csv"}
      /\ \A w \in DOMAIN Flag : Flag[w] \in Settings
  BY DEF Flag, Settings
<1>3. /\ DOMAIN Field = {"--seed", "--runways", "--gates", "--rate", "--horizon",
                         "--runs", "--snapshot"}
      /\ \A w \in DOMAIN Field : Field[w] \in Settings
  BY DEF Field, Settings
<1> QED BY <1>1, <1>2, <1>3

LEMMA Scenarios ==
  ASSUME NEW name \in DOMAIN Preset
  PROVE  /\ DOMAIN Preset[name] = {"rate", "runways", "gates"}
         /\ \A f \in DOMAIN Preset[name] : Preset[name][f] \in Int
BY DEF Preset

\* The tables have no word in common.
LEMMA WordsApart ==
  /\ DOMAIN Flag \cap (DOMAIN Field \cup {"--scenario", "--help"}) = {}
  /\ DOMAIN Field \cap {"--scenario", "--help"} = {}
BY Tables

\* What an option sets, and what it leaves.
Sets(o, c, d) ==
    \A f \in Settings :
        d[f] = IF f \in DOMAIN Assignment(o) THEN Assignment(o)[f] ELSE c[f]

LEMMA FlagSets ==
  ASSUME NEW o, Len(o) = 1, o[1] \in DOMAIN Flag, NEW c \in [Settings -> Int]
  PROVE  LET d == [c EXCEPT ![Flag[o[1]]] = 1]
         IN  d \in [Settings -> Int] /\ Sets(o, c, d)
<1>1. Assignment(o) = [f \in {Flag[o[1]]} |-> 1]
  BY WordsApart DEF Assignment
<1> QED BY <1>1, Tables DEF Sets

LEMMA ValueType ==
  ASSUME NEW f \in Settings, NEW w \in DOMAIN Number
  PROVE  Value(f, w) \in Int
<1>1. Number[w] \in Int /\ SEEDS \in Nat \ {0}
  BY ArgumentAssumption, LimitAssumption
<1>2. Number[w] % SEEDS \in Int /\ 10 * Number[w] \in Int
  BY <1>1
<1> QED BY <1>1, <1>2 DEF Value

LEMMA ValueSets ==
  ASSUME NEW o, Len(o) = 2, o[1] \in DOMAIN Field, o[2] \in DOMAIN Number,
         NEW c \in [Settings -> Int]
  PROVE  LET d == [c EXCEPT ![Field[o[1]]] = Value(Field[o[1]], o[2])]
         IN  d \in [Settings -> Int] /\ Sets(o, c, d)
<1>1. o[1] \notin DOMAIN Flag
  BY WordsApart
<1>2. Assignment(o) = [f \in {Field[o[1]]} |-> Value(f, o[2])]
  BY <1>1 DEF Assignment
<1>3. Field[o[1]] \in Settings
  BY Tables
<1>4. Value(Field[o[1]], o[2]) \in Int
  BY <1>3, ValueType
<1> QED BY <1>2, <1>3, <1>4 DEF Sets

LEMMA ScenarioSets ==
  ASSUME NEW o, Len(o) = 2, o[1] = "--scenario", NEW c \in [Settings -> Int]
  PROVE  /\ apply_scenario(c, o[2]) \in [Settings -> Int]
         /\ Sets(o, c, apply_scenario(c, o[2]))
<1>1. o[1] \notin DOMAIN Flag /\ o[1] \notin DOMAIN Field
  BY WordsApart
<1>2. Assignment(o) = IF o[2] \in DOMAIN Preset THEN Preset[o[2]] ELSE <<>>
  BY <1>1 DEF Assignment
<1>3. CASE o[2] \in DOMAIN Preset
  <2> DEFINE p == Preset[o[2]]
             d == [c EXCEPT !.rate = p.rate, !.runways = p.runways,
                            !.gates = p.gates]
  <2>1. /\ DOMAIN p = {"rate", "runways", "gates"}
        /\ \A f \in DOMAIN p : p[f] \in Int
    BY <1>3, Scenarios
  <2>2. apply_scenario(c, o[2]) = d /\ Assignment(o) = p
    BY <1>2, <1>3 DEF apply_scenario
  <2> HIDE DEF p
  <2>3. d \in [Settings -> Int]
    BY <2>1 DEF Settings
  <2>4. Sets(o, c, d)
    BY <2>1, <2>2 DEF Sets, Settings
  <2> QED BY <2>2, <2>3, <2>4
<1>4. CASE o[2] \notin DOMAIN Preset
  <2>1. apply_scenario(c, o[2]) = c /\ Assignment(o) = <<>> /\ DOMAIN <<>> = {}
    BY <1>2, <1>4 DEF apply_scenario
  <2> QED BY <2>1 DEF Sets
<1> QED BY <1>3, <1>4

-----------------------------------------------------------------------------
(* How argv is read.                                                       *)

\* The options before the n-th have been read, and of those about a setting
\* the last has set it.
MeantBefore(n) ==
    \A f \in Settings :
        \/ /\ \A k \in 1 .. n - 1 : f \notin DOMAIN Assignment(line[k])
           /\ opt[f] = Defaults[f]
        \/ \E k \in 1 .. n - 1 :
               /\ f \in DOMAIN Assignment(line[k])
               /\ opt[f] = Assignment(line[k])[f]
               /\ \A j \in k + 1 .. n - 1 : f \notin DOMAIN Assignment(line[j])

ReadUpTo(at, n) == n \in 1 .. Len(line) + 1 /\ i = at[n] /\ MeantBefore(n)

AllComplete == \A k \in DOMAIN line : Complete(line[k])

ParseInv ==
    /\ line \in Lines /\ i \in Nat \ {0} /\ opt \in [Settings -> Int]
    /\ AllComplete => /\ mode \notin {"usage", "error"}
                      /\ \E at : Starts(line, at) /\ \E n : ReadUpTo(at, n)

LEMMA LineType ==
  ASSUME line \in Lines
  PROVE  /\ line \in Seq(Seq(DOMAIN Number)) /\ Len(line) \in Nat
         /\ argv \in Seq(DOMAIN Number) /\ Len(argv) \in Nat
         /\ \A k \in 1 .. Len(argv) : argv[k] \in DOMAIN Number
         /\ \E at : Starts(line, at)
<1>1. line \in Seq(Seq(DOMAIN Number))
  BY ArgumentAssumption
<1>2. argv \in Seq(DOMAIN Number) /\ \E at : Starts(line, at)
  BY <1>1, StartsExist DEF argv
<1> QED BY <1>1, <1>2, LenProperties, ElementOfSeq

\* The n-th option, when it is the next to be read.
LEMMA NextOption ==
  ASSUME ParseInv, AllComplete, NEW at, Starts(line, at), NEW n,
         ReadUpTo(at, n), n # Len(line) + 1
  PROVE  /\ n \in 1 .. Len(line) /\ line[n] \in Seq(DOMAIN Number)
         /\ Complete(line[n]) /\ i \in Nat /\ i + Len(line[n]) = at[n + 1]
         /\ i <= Len(argv) /\ argv[i] = line[n][1]
         /\ Len(line[n]) = 2 => i < Len(argv) /\ argv[i + 1] = line[n][2]
<1>1. /\ line \in Seq(Seq(DOMAIN Number)) /\ Len(line) \in Nat
      /\ Len(argv) \in Nat
  BY LineType DEF ParseInv
<1>2. n \in 1 .. Len(line) /\ n \in DOMAIN line
  BY <1>1 DEF ReadUpTo
<1>3. Complete(line[n]) /\ line[n] \in Seq(DOMAIN Number)
  BY <1>1, <1>2, ElementOfSeq DEF AllComplete
<1>4. /\ i \in Nat \ {0} /\ at[n + 1] = i + Len(line[n])
      /\ i + Len(line[n]) <= Len(argv) + 1
      /\ \A j \in 1 .. Len(line[n]) : argv[i + j - 1] = line[n][j]
  BY <1>2 DEF ReadUpTo, Starts, argv
<1>5. Len(line[n]) = 1 \/ Len(line[n]) = 2
  BY <1>3 DEF Complete
<1>6. argv[i] = line[n][1]
  <2>1. 1 \in 1 .. Len(line[n])
    <3>1. \A m \in {1, 2} : 1 \in 1 .. m
      OBVIOUS
    <3> QED BY <3>1, <1>5
  <2>2. i + 1 - 1 = i
    BY <1>4
  <2> QED BY <2>1, <2>2, <1>4
<1>7. Len(line[n]) = 2 => argv[i + 1] = line[n][2]
  <2> SUFFICES ASSUME Len(line[n]) = 2 PROVE argv[i + 1] = line[n][2]
    OBVIOUS
  <2>1. 2 \in 1 .. Len(line[n]) /\ i + 2 - 1 = i + 1
    BY <1>4
  <2> QED BY <2>1, <1>4
<1> QED BY <1>1, <1>2, <1>3, <1>4, <1>5, <1>6, <1>7

\* When all options have been read, and only then, there is no word left.
LEMMA NoOptionLeft ==
  ASSUME ParseInv, AllComplete, NEW at, Starts(line, at), NEW n, ReadUpTo(at, n)
  PROVE  i > Len(argv) <=> n = Len(line) + 1
<1>1. Len(line) \in Nat /\ Len(argv) \in Nat
  BY LineType DEF ParseInv
<1>2. CASE n = Len(line) + 1
  BY <1>1, <1>2 DEF ReadUpTo, Starts, argv
<1>3. CASE n # Len(line) + 1
  BY <1>1, <1>3, NextOption
<1> QED BY <1>2, <1>3

\* Reading one option.
LEMMA OptionRead ==
  ASSUME ParseInv, AllComplete, NEW at, Starts(line, at), NEW n,
         ReadUpTo(at, n), n # Len(line) + 1, line' = line,
         i' = i + Len(line[n]), Sets(line[n], opt, opt')
  PROVE  ReadUpTo(at, n + 1)'
<1>1. /\ n \in 1 .. Len(line) /\ Len(line) \in Nat /\ n \in Nat
      /\ i' = at[n + 1]
  <2>1. n \in 1 .. Len(line) /\ i' = at[n + 1]
    BY NextOption
  <2>2. Len(line) \in Nat
    BY LineType DEF ParseInv
  <2> QED BY <2>1, <2>2
<1>2. ASSUME NEW f \in Settings
      PROVE  \/ /\ \A k \in 1 .. (n + 1) - 1 :
                       f \notin DOMAIN Assignment(line[k])
                /\ opt'[f] = Defaults[f]
             \/ \E k \in 1 .. (n + 1) - 1 :
                    /\ f \in DOMAIN Assignment(line[k])
                    /\ opt'[f] = Assignment(line[k])[f]
                    /\ \A j \in k + 1 .. (n + 1) - 1 :
                           f \notin DOMAIN Assignment(line[j])
  <2> DEFINE About(k) == f \in DOMAIN Assignment(line[k])
             value(k) == Assignment(line[k])[f]
  <2>1. opt'[f] = IF About(n) THEN value(n) ELSE opt[f]
    BY DEF Sets
  <2>2. \/ (\A k \in 1 .. n - 1 : ~ About(k)) /\ opt[f] = Defaults[f]
        \/ \E k \in 1 .. n - 1 : /\ About(k) /\ opt[f] = value(k)
                                 /\ \A j \in k + 1 .. n - 1 : ~ About(j)
    BY DEF ReadUpTo, MeantBefore
  <2> HIDE DEF About, value
  <2>3. CASE About(n)
    <3>1. n \in 1 .. (n + 1) - 1 /\ n + 1 .. (n + 1) - 1 = {}
      BY <1>1
    <3> QED BY <2>1, <2>3, <3>1 DEF About, value
  <2>4. CASE ~ About(n)
    <3>1. \A k \in 1 .. (n + 1) - 1 : k = n \/ k \in 1 .. n - 1
      BY <1>1
    <3>2. CASE (\A k \in 1 .. n - 1 : ~ About(k)) /\ opt[f] = Defaults[f]
      BY <2>1, <2>4, <3>1, <3>2 DEF About
    <3>3. ASSUME NEW k \in 1 .. n - 1, About(k), opt[f] = value(k),
                 \A j \in k + 1 .. n - 1 : ~ About(j)
          PROVE  /\ k \in 1 .. (n + 1) - 1 /\ About(k) /\ opt'[f] = value(k)
                 /\ \A j \in k + 1 .. (n + 1) - 1 : ~ About(j)
      <4>1. \A j \in k + 1 .. (n + 1) - 1 : j = n \/ j \in k + 1 .. n - 1
        BY <1>1
      <4>2. k \in 1 .. (n + 1) - 1
        BY <1>1
      <4>3. opt'[f] = value(k)
        BY <2>1, <2>4, <3>3
      <4> QED BY <2>4, <3>3, <4>1, <4>2, <4>3
    <3> QED BY <2>2, <3>2, <3>3 DEF About, value
  <2> QED BY <2>3, <2>4
<1>3. MeantBefore(n + 1)'
  BY <1>2 DEF MeantBefore
<1>4. n + 1 \in 1 .. Len(line) + 1
  BY <1>1
<1> QED BY <1>1, <1>3, <1>4 DEF ReadUpTo

\* A word that is the first of a complete option is read as that option.
LEMMA OptionSets ==
  ASSUME ParseInv, mode = "parsing", Next, NEW o \in Seq(DOMAIN Number),
         Complete(o), i \in Nat, i <= Len(argv), argv[i] = o[1],
         Len(o) = 2 => i < Len(argv) /\ argv[i + 1] = o[2]
  PROVE  /\ line' = line /\ mode' = mode /\ i' = i + Len(o)
         /\ opt' \in [Settings -> Int] /\ Sets(o, opt, opt')
<1>1. opt \in [Settings -> Int]
  BY DEF ParseInv
<1>2. Len(argv) \in Nat
  BY LineType DEF ParseInv
<1>3. CASE Len(o) = 1
  <2>1. o[1] \in DOMAIN Flag
    BY <1>3 DEF Complete
  <2>2. o[1] \notin DOMAIN Field \cup {"--scenario", "--help"}
    BY <2>1, WordsApart
  <2>3. parse_flag(o[1])
    BY <2>1, <2>2, <1>2
    DEF Next, parse_help, parse_flag, parse_value, parse_scenario, Word,
        unknown_option, dispatch, sweep_row, sweep_end, headless_run
  <2>4. /\ line' = line /\ mode' = mode /\ i' = i + 1
        /\ opt' = [opt EXCEPT ![Flag[o[1]]] = 1]
    BY <2>3 DEF parse_flag
  <2> QED BY <2>1, <2>4, <1>1, <1>3, FlagSets
<1>4. CASE Len(o) = 2
  <2>1. o[1] \in DOMAIN Field \cup {"--scenario"}
    BY <1>4 DEF Complete
  <2>2. o[1] \notin DOMAIN Flag \cup {"--help"}
    BY <2>1, WordsApart, Tables
  <2>3. i < Len(argv) /\ argv[i + 1] = o[2] /\ o[2] \in DOMAIN Number
    <3>1. 2 \in 1 .. Len(o)
      BY <1>4
    <3> QED BY <3>1, <1>4, ElementOfSeq
  <2>4. CASE o[1] \in DOMAIN Field
    <3>1. o[1] # "--scenario"
      BY <2>4, WordsApart
    <3>2. parse_value(o[1])
      BY <2>1, <2>2, <2>3, <3>1, <1>2
      DEF Next, parse_help, parse_flag, parse_value, parse_scenario, Word,
          unknown_option, dispatch, sweep_row, sweep_end, headless_run
    <3>3. /\ line' = line /\ mode' = mode /\ i' = i + 2
          /\ opt' = [opt EXCEPT ![Field[o[1]]] = Value(Field[o[1]], o[2])]
      BY <2>3, <3>2 DEF parse_value
    <3> QED BY <2>3, <2>4, <3>3, <1>1, <1>4, ValueSets
  <2>5. CASE o[1] = "--scenario"
    <3>1. o[1] \notin DOMAIN Field
      BY <2>5, WordsApart
    <3>2. parse_scenario
      BY <2>2, <2>3, <2>5, <3>1, <1>2
      DEF Next, parse_help, parse_flag, parse_value, parse_scenario, Word,
          unknown_option, dispatch, sweep_row, sweep_end, headless_run
    <3>3. /\ line' = line /\ mode' = mode /\ i' = i + 2
          /\ opt' = apply_scenario(opt, o[2])
      BY <2>3, <3>2 DEF parse_scenario
    <3> QED BY <2>5, <3>3, <1>1, <1>4, ScenarioSets
  <2> QED BY <2>1, <2>4, <2>5
<1> QED BY <1>3, <1>4 DEF Complete

\* Whatever the words are, the settings are numbers.
LEMMA SettingsType ==
  ASSUME ParseInv, [Next]_vars
  PROVE  line' = line /\ i' \in Nat \ {0} /\ opt' \in [Settings -> Int]
<1>1. i \in Nat \ {0} /\ opt \in [Settings -> Int]
  BY DEF ParseInv
<1>2. Len(argv) \in Nat /\ \A k \in 1 .. Len(argv) : argv[k] \in DOMAIN Number
  BY LineType DEF ParseInv
<1>3. ASSUME NEW w \in DOMAIN Flag, parse_flag(w)
      PROVE  line' = line /\ i' \in Nat \ {0} /\ opt' \in [Settings -> Int]
  BY <1>3, <1>1, Tables DEF parse_flag
<1>4. ASSUME NEW w \in DOMAIN Field, parse_value(w)
      PROVE  line' = line /\ i' \in Nat \ {0} /\ opt' \in [Settings -> Int]
  <2>1. Field[w] \in Settings /\ argv[i + 1] \in DOMAIN Number
    <3>1. i + 1 \in 1 .. Len(argv)
      BY <1>1, <1>2, <1>4 DEF parse_value
    <3> QED BY <3>1, <1>2, Tables
  <2>2. Value(Field[w], argv[i + 1]) \in Int
    BY <2>1, ValueType
  <2>3. opt' \in [Settings -> Int]
    BY <2>1, <2>2, <1>1, <1>4 DEF parse_value
  <2> QED BY <2>3, <1>1, <1>4 DEF parse_value
<1>5. CASE parse_scenario
  <2> DEFINE o == <<"--scenario", argv[i + 1]>>
  <2>1. Len(o) = 2 /\ o[1] = "--scenario" /\ o[2] = argv[i + 1]
    OBVIOUS
  <2> HIDE DEF o
  <2> QED BY <2>1, <1>1, <1>5, ScenarioSets DEF parse_scenario
<1>6. CASE UNCHANGED <<line, i, opt>>
  BY <1>1, <1>6
<1> QED
  BY <1>3, <1>4, <1>5, <1>6
  DEF Next, parse_help, unknown_option, dispatch, sweep_row, sweep_end,
      headless_run, vars

LEMMA ParseStep == ParseInv /\ [Next]_vars => ParseInv'
<1> SUFFICES ASSUME ParseInv, [Next]_vars PROVE ParseInv'
  OBVIOUS
<1>1. line' = line /\ i' \in Nat \ {0} /\ opt' \in [Settings -> Int]
  BY SettingsType
<1>2. ASSUME AllComplete
      PROVE  /\ mode' \notin {"usage", "error"}
             /\ \E at : Starts(line, at) /\ \E n : ReadUpTo(at, n)'
  <2>1. PICK at : Starts(line, at) /\ \E n : ReadUpTo(at, n)
    BY <1>2 DEF ParseInv
  <2>2. PICK n : ReadUpTo(at, n)
    BY <2>1
  <2>3. mode \notin {"usage", "error"}
    BY <1>2 DEF ParseInv
  <2>4. ASSUME i' = i, opt' = opt PROVE ReadUpTo(at, n)'
    BY <2>2, <2>4, <1>1 DEF ReadUpTo, MeantBefore
  <2>5. CASE UNCHANGED vars
    BY <2>1, <2>3, <2>4, <2>5 DEF vars
  <2>6. CASE Next /\ mode # "parsing"
    <3>1. i' = i /\ opt' = opt /\ mode' \notin {"usage", "error"}
      BY <2>3, <2>6
      DEF Next, parse_help, parse_flag, parse_value, parse_scenario, Word,
          unknown_option, dispatch, sweep_row, sweep_end, headless_run
    <3> QED BY <3>1, <2>1, <2>4
  <2>7. CASE Next /\ mode = "parsing" /\ n = Len(line) + 1
    <3>1. i > Len(argv) /\ ~ i <= Len(argv)
      <4>1. i > Len(argv)
        BY <2>1, <2>2, <2>7, <1>2, NoOptionLeft
      <4>2. i \in Nat /\ Len(argv) \in Nat
        BY LineType DEF ParseInv
      <4> QED BY <4>1, <4>2
    <3>2. i' = i /\ opt' = opt /\ mode' \notin {"usage", "error"}
      BY <3>1, <2>7
      DEF Next, parse_help, parse_flag, parse_value, parse_scenario, Word,
          unknown_option, dispatch, sweep_row, sweep_end, headless_run
    <3> QED BY <3>2, <2>1, <2>4
  <2>8. CASE Next /\ mode = "parsing" /\ n # Len(line) + 1
    <3>1. /\ mode' = mode /\ i' = i + Len(line[n])
          /\ Sets(line[n], opt, opt')
      BY <2>1, <2>2, <2>8, <1>2, NextOption, OptionSets
    <3>2. ReadUpTo(at, n + 1)'
      BY <3>1, <2>1, <2>2, <2>8, <1>1, <1>2, OptionRead
    <3> QED BY <3>1, <3>2, <2>1, <2>3
  <2> QED BY <2>5, <2>6, <2>7, <2>8
<1> QED BY <1>1, <1>2 DEF ParseInv, AllComplete

LEMMA ParseInit == Init => ParseInv
<1> SUFFICES ASSUME Init PROVE ParseInv
  OBVIOUS
<1>1. line \in Lines /\ opt = Defaults /\ i = 1 /\ mode = "parsing"
  BY DEF Init
<1>2. opt \in [Settings -> Int]
  BY <1>1, Tables
<1>3. PICK at : Starts(line, at)
  BY <1>1, LineType
<1>4. ReadUpTo(at, 1)
  <2>1. at[1] = 1 /\ Len(line) \in Nat
    BY <1>1, <1>3, LineType DEF Starts
  <2> QED BY <2>1, <1>1 DEF ReadUpTo, MeantBefore
<1> QED BY <1>1, <1>2, <1>3, <1>4 DEF ParseInv

LEMMA Understood == ParseInv => LastOptionWins
<1>0. ASSUME ParseInv, AllComplete
      PROVE  mode \notin {"usage", "error"}
  BY <1>0 DEF ParseInv
<1> SUFFICES ASSUME ParseInv, i > Len(argv), AllComplete
             PROVE  \A f \in DOMAIN Defaults :
                         LET about == {k \in DOMAIN line :
                                         f \in DOMAIN Assignment(line[k])}
                         IN  opt[f] = IF about = {} THEN Defaults[f]
                                      ELSE Assignment(line[Max(about)])[f]
  BY <1>0 DEF LastOptionWins, AllComplete
<1>1. PICK at : Starts(line, at) /\ \E n : ReadUpTo(at, n)
  BY DEF ParseInv
<1>2. MeantBefore(Len(line) + 1)
  BY <1>1, NoOptionLeft DEF ReadUpTo
<1>3. Len(line) \in Nat /\ DOMAIN line = 1 .. Len(line)
  BY LineType, LenProperties DEF ParseInv
<1>4. ASSUME NEW f \in Settings
      PROVE  LET about == {k \in DOMAIN line : f \in DOMAIN Assignment(line[k])}
             IN  opt[f] = IF about = {} THEN Defaults[f]
                          ELSE Assignment(line[Max(about)])[f]
  <2> DEFINE about == {k \in DOMAIN line : f \in DOMAIN Assignment(line[k])}
  <2>1. \A k : k \in 1 .. (Len(line) + 1) - 1 <=> k \in DOMAIN line
    BY <1>3
  <2>2. CASE /\ \A k \in 1 .. (Len(line) + 1) - 1 :
                   f \notin DOMAIN Assignment(line[k])
             /\ opt[f] = Defaults[f]
    BY <2>1, <2>2
  <2>3. ASSUME NEW k \in 1 .. (Len(line) + 1) - 1,
               f \in DOMAIN Assignment(line[k]),
               opt[f] = Assignment(line[k])[f],
               \A j \in k + 1 .. (Len(line) + 1) - 1 :
                   f \notin DOMAIN Assignment(line[j])
        PROVE  k \in about /\ Max(about) = k
    <3>1. k \in about /\ about \subseteq Int
      BY <2>1, <2>3, <1>3
    <3>2. \A j \in about : k >= j
      BY <2>1, <2>3, <1>3
    <3> HIDE DEF about
    <3>3. Max(about) \in about /\ \A j \in about : Max(about) >= j
      BY <3>1, <3>2 DEF Max
    <3>4. PICK m \in about : m = Max(about) /\ \A j \in about : m >= j
      BY <3>3
    <3>5. m \in Int /\ k \in Int /\ m >= k /\ k >= m
      BY <3>1, <3>2, <3>4
    <3> QED BY <3>1, <3>4, <3>5
  <2>4. \/ /\ \A k \in 1 .. (Len(line) + 1) - 1 :
                  f \notin DOMAIN Assignment(line[k])
           /\ opt[f] = Defaults[f]
        \/ \E k \in 1 .. (Len(line) + 1) - 1 :
               /\ f \in DOMAIN Assignment(line[k])
               /\ opt[f] = Assignment(line[k])[f]
               /\ \A j \in k + 1 .. (Len(line) + 1) - 1 :
                      f \notin DOMAIN Assignment(line[j])
    BY <1>2 DEF MeantBefore
  <2> QED BY <2>2, <2>3, <2>4
<1> QED BY <1>4, Tables

\* A command line of complete options is accepted and means what it says, for any
\* number of them, in any order and whatever their values.
THEOREM OptionsUnderstood == Spec => []LastOptionWins
BY ParseInit, ParseStep, Understood, PTL DEF Spec

-----------------------------------------------------------------------------
(* The runs.                                                               *)

LEMMA ClampedNearest ==
  ASSUME NEW m \in Int, NEW max \in Nat \ {0}
  PROVE  Nearest(Clamped(m, max), m, max)
BY DEF Nearest, Distance, Clamped

\* A row is a run with the settings, and those of a sweep are about its seeds.
RowOf(k) ==
    /\ rows[k].runways = Clamped(opt.runways, MAX_RUNWAYS)
    /\ rows[k].gates = Clamped(opt.gates, MAX_GATES)
    /\ opt.runs > 1 => rows[k].seed = (opt.seed + k - 1) % SEEDS

RowsInv ==
    /\ rows \in Seq([seed : Int, runways : Int, gates : Int])
    /\ \A k \in 1 .. Len(rows) : RowOf(k)
    /\ mode \notin {"sweep", "exit"} => rows = <<>>
    /\ mode = "sweep" => opt.runs > 1 /\ Len(rows) <= opt.runs
    /\ mode = "headless" => ~ opt.runs > 1
    /\ mode = "exit" /\ opt.runs > 1 => Len(rows) = opt.runs

LEMMA RunType ==
  ASSUME opt \in [Settings -> Int], NEW seed \in Int
  PROVE  /\ run_one(seed) \in [seed : Int, runways : Int, gates : Int]
         /\ run_one(seed).seed = seed
         /\ run_one(seed).runways = Clamped(opt.runways, MAX_RUNWAYS)
         /\ run_one(seed).gates = Clamped(opt.gates, MAX_GATES)
<1>1. /\ opt.runways \in Int /\ opt.gates \in Int
      /\ MAX_RUNWAYS \in Nat /\ MAX_GATES \in Nat
  BY LimitAssumption DEF Settings
<1> QED BY <1>1 DEF run_one, Clamped

LEMMA OptInts ==
  ASSUME opt \in [Settings -> Int]
  PROVE  /\ opt.seed \in Int /\ opt.runs \in Int
         /\ opt.runways \in Int /\ opt.gates \in Int
BY DEF Settings

LEMMA SweepRow ==
  ASSUME ParseInv, RowsInv, sweep_row
  PROVE  RowsInv'
<1> DEFINE row == run_one((opt.seed + Len(rows)) % SEEDS)
<1>1. /\ opt \in [Settings -> Int] /\ opt.seed \in Int /\ opt.runs \in Int
      /\ rows \in Seq([seed : Int, runways : Int, gates : Int])
      /\ Len(rows) \in Nat /\ SEEDS \in Nat \ {0}
  BY OptInts, LimitAssumption, LenProperties DEF ParseInv, RowsInv
<1>2. (opt.seed + Len(rows)) % SEEDS \in Int
  BY <1>1
<1>3. /\ row \in [seed : Int, runways : Int, gates : Int]
      /\ row.seed = (opt.seed + Len(rows)) % SEEDS
      /\ row.runways = Clamped(opt.runways, MAX_RUNWAYS)
      /\ row.gates = Clamped(opt.gates, MAX_GATES)
  BY <1>1, <1>2, RunType
<1>4. /\ rows' = Append(rows, row) /\ opt' = opt
      /\ mode = "sweep" /\ mode' = mode /\ Len(rows) < opt.runs
  BY DEF sweep_row
<1> HIDE DEF row
<1>5. /\ rows' \in Seq([seed : Int, runways : Int, gates : Int])
      /\ Len(rows') = Len(rows) + 1 /\ rows'[Len(rows) + 1] = row
      /\ \A k \in 1 .. Len(rows) : rows'[k] = rows[k]
  BY <1>1, <1>3, <1>4, AppendProperties
<1>6. ASSUME NEW k \in 1 .. Len(rows')
      PROVE  RowOf(k)'
  <2>1. CASE k = Len(rows) + 1
    <3>1. opt.seed + k - 1 = opt.seed + Len(rows)
      BY <2>1, <1>1
    <3> QED BY <2>1, <3>1, <1>3, <1>4, <1>5 DEF RowOf
  <2>2. CASE k # Len(rows) + 1
    <3>1. k \in 1 .. Len(rows)
      BY <2>2, <1>1, <1>5
    <3> QED BY <3>1, <1>4, <1>5 DEF RowOf, RowsInv
  <2> QED BY <2>1, <2>2
<1>7. opt.runs > 1 /\ Len(rows') <= opt.runs
  BY <1>1, <1>4, <1>5 DEF RowsInv
<1> QED BY <1>4, <1>5, <1>6, <1>7 DEF RowsInv

LEMMA HeadlessRow ==
  ASSUME ParseInv, RowsInv, headless_run
  PROVE  RowsInv'
<1> DEFINE row == run_one(opt.seed)
<1>1. /\ opt \in [Settings -> Int] /\ opt.seed \in Int
      /\ rows' = <<row>> /\ opt' = opt /\ mode' = "exit" /\ ~ opt.runs > 1
  BY OptInts DEF ParseInv, RowsInv, headless_run
<1>2. /\ row \in [seed : Int, runways : Int, gates : Int]
      /\ row.runways = Clamped(opt.runways, MAX_RUNWAYS)
      /\ row.gates = Clamped(opt.gates, MAX_GATES)
  BY <1>1, RunType
<1> HIDE DEF row
<1>3. /\ rows' \in Seq([seed : Int, runways : Int, gates : Int])
      /\ Len(rows') = 1 /\ rows'[1] = row
  BY <1>1, <1>2
<1>4. ASSUME NEW k \in 1 .. Len(rows')
      PROVE  RowOf(k)'
  BY <1>1, <1>2, <1>3 DEF RowOf
<1> QED BY <1>1, <1>3, <1>4 DEF RowsInv

LEMMA RowsStep == ParseInv /\ RowsInv /\ [Next]_vars => RowsInv'
<1> SUFFICES ASSUME ParseInv, RowsInv, [Next]_vars PROVE RowsInv'
  OBVIOUS
<1>1. ASSUME mode = "parsing", rows' = rows,
             mode' \in {"parsing", "usage", "error"}
      PROVE  RowsInv'
  BY <1>1 DEF RowsInv, RowOf
<1>2. CASE dispatch
  <2>1. /\ rows = <<>> /\ rows' = rows /\ opt' = opt /\ Len(rows) = 0
        /\ opt.runs \in Int
    BY <1>2, OptInts DEF dispatch, RowsInv, ParseInv
  <2>2. mode' = "headless" => ~ opt.runs > 1
    BY <1>2, <2>1 DEF dispatch
  <2>3. mode' = "sweep" => opt.runs > 1
    BY <1>2 DEF dispatch
  <2>4. mode' \in {"snapshot", "sweep", "headless", "window"}
    BY <1>2 DEF dispatch
  <2> QED BY <2>1, <2>2, <2>3, <2>4 DEF RowsInv, RowOf
<1>3. CASE sweep_end
  BY <1>3 DEF sweep_end, RowsInv, RowOf
<1>4. CASE UNCHANGED vars
  BY <1>4 DEF vars, RowsInv, RowOf
<1> QED
  BY <1>1, <1>2, <1>3, <1>4, SweepRow, HeadlessRow
  DEF Next, parse_help, parse_flag, parse_value, parse_scenario,
      unknown_option, Word

LEMMA RowsInit == Init => RowsInv
BY DEF Init, RowsInv, RowOf

LEMMA RowsComplete == ParseInv /\ RowsInv => SweepComplete
<1> SUFFICES ASSUME ParseInv, RowsInv PROVE SweepComplete
  OBVIOUS
<1>1. DOMAIN rows = 1 .. Len(rows)
  BY LenProperties DEF RowsInv
<1>2. /\ opt.runways \in Int /\ opt.gates \in Int
      /\ MAX_RUNWAYS \in Nat \ {0} /\ MAX_GATES \in Nat \ {0}
  BY OptInts, LimitAssumption DEF ParseInv
<1>3. \A k \in 1 .. Len(rows) : RowOf(k)
  BY DEF RowsInv
<1>4. \A k \in DOMAIN rows :
          /\ Nearest(rows[k].runways, opt.runways, MAX_RUNWAYS)
          /\ Nearest(rows[k].gates, opt.gates, MAX_GATES)
  BY <1>1, <1>2, <1>3, ClampedNearest DEF RowOf
<1>5. mode = "exit" /\ opt.runs > 1 =>
          /\ Len(rows) = opt.runs
          /\ \A k \in DOMAIN rows : rows[k].seed = (opt.seed + k - 1) % SEEDS
  BY <1>1, <1>3 DEF RowOf, RowsInv
<1> QED BY <1>4, <1>5 DEF SweepComplete

\* A sweep has one row for each of its seeds, also when they wrap, and every
\* simulation has numbers of runways and gates that it can have.
THEOREM SweepsComplete == Spec => []SweepComplete
BY ParseInit, ParseStep, RowsInit, RowsStep, RowsComplete, PTL DEF Spec

=============================================================================

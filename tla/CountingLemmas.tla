--------------------------- MODULE CountingLemmas ---------------------------
(***************************************************************************)
(* Counting the members of a set of positions, as the helpers do that      *)
(* remove flights from the middle of a ring, inserting at a position, as   *)
(* the queue does, wrapping the indices of a circular array, and summing   *)
(* over a finite set, as the statistics do.                                *)
(***************************************************************************)
EXTENDS Integers, Sequences, FiniteSets, Functions, FiniteSetTheorems,
        SequenceTheorems, WellFoundedInduction, TLAPS

\* A set of positions is finite and no larger than the range of positions.
LEMMA Positions ==
  ASSUME NEW n \in Nat, NEW T \in SUBSET (1..n)
  PROVE  /\ IsFiniteSet(T)
         /\ Cardinality(T) \in Nat
         /\ Cardinality(T) <= n
<1>1. IsFiniteSet(1..n) /\ Cardinality(1..n) = n
  BY FS_Interval
<1>2. IsFiniteSet(T) /\ Cardinality(T) <= n
  BY <1>1, FS_Subset
<1> QED BY <1>2, FS_CardinalityType

\* Counting members of a finite set of positions up to a position of the set
\* reaches every number up to the size of the set, so whatever is
\* removed from a ring there is a flight for each slot of the smaller one.
LEMMA Rank ==
  ASSUME NEW n \in Nat, NEW keep \in SUBSET (1..n),
         NEW k \in 1 .. Cardinality(keep)
  PROVE  \E i \in keep : Cardinality(keep \cap 1..i) = k
<1> DEFINE size == Cardinality(keep)
           rank == [i \in keep |-> Cardinality(keep \cap 1..i)]
<1>1. IsFiniteSet(keep) /\ size \in Nat
  BY Positions
<1>2. \A i \in keep : /\ IsFiniteSet(keep \cap 1..i)
                      /\ Cardinality(keep \cap 1..i) \in 1..size
  <2> SUFFICES ASSUME NEW i \in keep
               PROVE  /\ IsFiniteSet(keep \cap 1..i)
                      /\ Cardinality(keep \cap 1..i) \in 1..size
    OBVIOUS
  <2>1. /\ IsFiniteSet(keep \cap 1..i)
        /\ Cardinality(keep \cap 1..i) \in Nat
        /\ Cardinality(keep \cap 1..i) <= size
    BY <1>1, FS_Intersection, FS_CardinalityType
  <2>2. i \in keep \cap 1..i
    OBVIOUS
  <2>3. Cardinality(keep \cap 1..i) # 0
    BY <2>1, <2>2, FS_EmptySet
  <2> QED BY <2>1, <2>3, <1>1
<1>3. \A i, j \in keep : i < j => rank[i] # rank[j]
  <2> SUFFICES ASSUME NEW i \in keep, NEW j \in keep, i < j
               PROVE  Cardinality(keep \cap 1..i) # Cardinality(keep \cap 1..j)
    OBVIOUS
  <2>1. keep \cap 1..i \subseteq keep \cap 1..j
    OBVIOUS
  <2>2. j \in keep \cap 1..j /\ j \notin keep \cap 1..i
    OBVIOUS
  <2> QED BY <1>2, <2>1, <2>2, FS_Subset
<1>4. rank \in Injection(keep, 1..size)
  <2>1. rank \in [keep -> 1..size]
    BY <1>2
  <2>2. \A i, j \in keep : rank[i] = rank[j] => i = j
    BY <1>3
  <2> QED BY <2>1, <2>2 DEF Injection, IsInjective
<1>5. IsFiniteSet(1..size) /\ Cardinality(1..size) = size
  BY <1>1, FS_Interval
<1>6. rank \in Surjection(keep, 1..size)
  BY <1>4, <1>5, FS_Injection
<1>7. \E i \in keep : rank[i] = k
  BY <1>6 DEF Surjection
<1> QED BY <1>7

\* Where the elements of a sequence are when one has been inserted.
LEMMA Insertion ==
  ASSUME NEW S, NEW s \in Seq(S), NEW i \in 1 .. Len(s) + 1, NEW e \in S
  PROVE  LET r == SubSeq(s, 1, i - 1) \o <<e>> \o SubSeq(s, i, Len(s)) IN
         /\ r \in Seq(S) /\ Len(r) = Len(s) + 1
         /\ \A k \in 1 .. Len(s) + 1 : /\ k < i => r[k] = s[k]
                                       /\ k = i => r[k] = e
                                       /\ k > i => r[k] = s[k - 1]
<1> DEFINE head  == SubSeq(s, 1, i-1)
           front == head \o <<e>>
           back  == SubSeq(s, i, Len(s))
           r     == front \o back
<1>1. /\ head \in Seq(S) /\ Len(head) = i - 1
      /\ \A j \in 1 .. i-1 : head[j] = s[j]
  BY SubSeqProperties, ElementOfSeq
<1>2. /\ back \in Seq(S) /\ Len(back) = Len(s) - i + 1
      /\ \A j \in 1 .. Len(s) - i + 1 : back[j] = s[i + j - 1]
  BY SubSeqProperties, ElementOfSeq
<1>3. <<e>> \in Seq(S) /\ Len(<<e>>) = 1 /\ <<e>>[1] = e
  OBVIOUS
<1>4. Len(s) \in Nat /\ i \in Int
  BY LenProperties
<1> HIDE DEF head, back
<1>5. /\ front \in Seq(S) /\ Len(front) = i
      /\ \A j \in 1 .. i-1 : front[j] = head[j]
      /\ front[i] = e
  BY <1>1, <1>3, <1>4, ConcatProperties
<1> HIDE DEF front
<1>6. r \in Seq(S) /\ Len(r) = Len(s) + 1
  <2>1. Len(front) + Len(back) = Len(s) + 1
    BY <1>2, <1>4, <1>5
  <2> QED BY <2>1, <1>2, <1>5, ConcatProperties
<1>7. ASSUME NEW k \in 1 .. Len(s) + 1
      PROVE  /\ k < i => r[k] = s[k]
             /\ k = i => r[k] = e
             /\ k > i => r[k] = s[k - 1]
  <2>1. CASE k <= i
    <3>1. r[k] = front[k]
      BY <1>2, <1>4, <1>5, <2>1, ConcatProperties
    <3> QED BY <1>1, <1>4, <1>5, <2>1, <3>1
  <2>2. CASE k > i
    <3>1. r[k] = back[k - i]
      BY <1>2, <1>4, <1>5, <2>2, ConcatProperties
    <3>2. k - i \in 1 .. Len(s) - i + 1 /\ i + (k - i) - 1 = k - 1
      BY <1>4, <2>2
    <3>3. back[k - i] = s[k - 1]
      BY <1>2, <3>2
    <3> QED BY <1>4, <2>2, <3>1, <3>3
  <2>3. k <= i \/ k > i
    BY <1>4
  <2> HIDE DEF r
  <2> QED BY <2>1, <2>2, <2>3, Zenon
<1>8. r = SubSeq(s, 1, i - 1) \o <<e>> \o SubSeq(s, i, Len(s))
  BY DEF front, head, back
<1> HIDE DEF r
<1> QED BY <1>6, <1>7, <1>8

\* One subtraction is enough for every index the code wraps.
LEMMA Wrap ==
  ASSUME NEW n \in Nat \ {0}, NEW x \in 0 .. 2 * n - 1
  PROVE  x % n = IF x < n THEN x ELSE x - n
<1>1. CASE x < n
  BY <1>1
<1>2. CASE ~ x < n
  <2>1. x - n \in 0 .. n - 1
    BY <1>2
  <2>2. x = n * 1 + (x - n)
    BY <2>1
  <2> QED BY <1>2, <2>1, <2>2
<1> QED BY <1>1, <1>2

-----------------------------------------------------------------------------
(* Sums over finite sets.                                                  *)

\* Among sets of subsets of a finite set one has no other below it.
LEMMA LeastSet ==
  ASSUME NEW S, IsFiniteSet(S), NEW C \in SUBSET (SUBSET S), C # {}
  PROVE  \E T \in C : \A U \in C : U \subseteq T => U = T
<1>1. IsWellFoundedOn(StrictSubsetOrdering(S), SUBSET S)
  BY FS_StrictSubsetOrderingWellFounded, FS_FiniteSubsetsOfFinite
<1>2. PICK T \in C : \A U \in C : ~ (<<U, T>> \in StrictSubsetOrdering(S))
  BY <1>1, WFMin, Zenon
<1>3. ASSUME NEW U \in C, U \subseteq T
      PROVE  U = T
  BY <1>2, <1>3 DEF StrictSubsetOrdering
<1> QED BY <1>3

\* g gives the sum of f over each subset of S.
IsSum(g, f, S) ==
    /\ g \in [SUBSET S -> Int] /\ g[{}] = 0
    /\ \A T \in SUBSET S : \A x \in T : g[T] = f[x] + g[T \ {x}]

LEMMA SumExists ==
  ASSUME NEW S, IsFiniteSet(S), NEW f \in [S -> Int]
  PROVE  \E g : IsSum(g, f, S)
<1> DEFINE C == {T \in SUBSET S : ~ \E g : IsSum(g, f, T)}
<1> SUFFICES ASSUME C # {} PROVE FALSE
  OBVIOUS
<1>1. PICK T \in C : \A U \in C : U \subseteq T => U = T
  <2> HIDE DEF C
  <2>1. C \in SUBSET (SUBSET S)
    BY DEF C
  <2> QED BY <2>1, LeastSet
<1>2. T \in SUBSET S /\ ~ \E g : IsSum(g, f, T)
  OBVIOUS
<1>3. CASE T = {}
  <2> DEFINE g == [U \in SUBSET {} |-> 0]
  <2>1. IsSum(g, f, {})
    BY DEF IsSum
  <2> QED BY <2>1, <1>2, <1>3
<1>4. CASE T # {}
  <2>1. PICK x \in T : TRUE
    BY <1>4
  <2>2. T \ {x} \in SUBSET S /\ T \ {x} \subseteq T /\ T \ {x} # T
    BY <1>2, <2>1
  <2>3. PICK g : IsSum(g, f, T \ {x})
    BY <1>1, <2>2
  <2> DEFINE at(U) == IF x \in U THEN f[x] ELSE 0
             h == [U \in SUBSET T |-> g[U \ {x}] + at(U)]
  <2>4. \A y \in T : f[y] \in Int
    BY <1>2
  <2>5. ASSUME NEW U \in SUBSET T
        PROVE  /\ U \ {x} \in SUBSET (T \ {x}) /\ g[U \ {x}] \in Int
               /\ h[U] = g[U \ {x}] + at(U) /\ h[U] \in Int
    <3>1. U \ {x} \in SUBSET (T \ {x})
      OBVIOUS
    <3>2. g[U \ {x}] \in Int
      BY <3>1, <2>3 DEF IsSum
    <3> QED BY <3>1, <3>2, <2>1, <2>4
  <2>6. h \in [SUBSET T -> Int]
    BY <2>5
  <2>7. h[{}] = 0
    <3>1. {} \ {x} = {} /\ {} \in SUBSET T
      OBVIOUS
    <3> QED BY <3>1, <2>3 DEF IsSum
  <2> HIDE DEF h
  <2>8. ASSUME NEW U \in SUBSET T, NEW y \in U
        PROVE  h[U] = f[y] + h[U \ {y}]
    <3>1. U \ {y} \in SUBSET T /\ f[y] \in Int /\ f[x] \in Int
      BY <2>4
    <3>2. CASE y = x
      <4>1. (U \ {x}) \ {x} = U \ {x} /\ x \in U /\ x \notin U \ {x}
        BY <3>2
      <4>2. h[U] = g[U \ {x}] + f[x] /\ h[U \ {x}] = g[U \ {x}] + 0
        BY <4>1, <3>1, <3>2, <2>5
      <4> QED BY <4>2, <3>1, <3>2, <2>5
    <3>3. CASE y # x
      <4>1. /\ (U \ {y}) \ {x} = (U \ {x}) \ {y} /\ y \in U \ {x}
            /\ at(U \ {y}) = at(U) /\ at(U) \in Int
        BY <3>1, <3>3
      <4>2. g[U \ {x}] = f[y] + g[(U \ {x}) \ {y}]
        BY <4>1, <2>3, <2>5 DEF IsSum
      <4>3. /\ h[U] = g[U \ {x}] + at(U) /\ g[(U \ {x}) \ {y}] \in Int
            /\ h[U \ {y}] = g[(U \ {x}) \ {y}] + at(U)
        BY <4>1, <3>1, <2>5
      <4> HIDE DEF at
      <4> QED BY <4>1, <4>2, <4>3, <3>1
    <3> QED BY <3>2, <3>3
  <2>9. IsSum(h, f, T)
    BY <2>6, <2>7, <2>8 DEF IsSum
  <2> QED BY <2>9, <1>2
<1> QED BY <1>3, <1>4

\* Two functions that agree on a set have the same sum over it.
LEMMA SumsAgree ==
  ASSUME NEW S, NEW R, NEW f, NEW e, NEW g, NEW h,
         IsSum(g, f, S), IsSum(h, e, R),
         NEW T \in SUBSET S, T \in SUBSET R, IsFiniteSet(T),
         \A x \in T : f[x] = e[x]
  PROVE  g[T] = h[T]
<1> DEFINE C == {U \in SUBSET T : g[U] # h[U]}
<1> SUFFICES ASSUME C # {} PROVE FALSE
  OBVIOUS
<1>1. PICK U \in C : \A V \in C : V \subseteq U => V = U
  <2> HIDE DEF C
  <2>1. C \in SUBSET (SUBSET T)
    BY DEF C
  <2> QED BY <2>1, LeastSet
<1>2. U \in SUBSET T /\ g[U] # h[U]
  OBVIOUS
<1>3. U # {}
  BY <1>2 DEF IsSum
<1>4. PICK x \in U : TRUE
  BY <1>3
<1>5. U \ {x} \in SUBSET T /\ U \ {x} \subseteq U /\ U \ {x} # U
  BY <1>2, <1>4
<1>6. g[U \ {x}] = h[U \ {x}]
  BY <1>1, <1>5
<1>7. g[U] = f[x] + g[U \ {x}]
  <2>1. U \in SUBSET S
    BY <1>2
  <2> QED BY <2>1, <1>4 DEF IsSum
<1>8. h[U] = e[x] + h[U \ {x}]
  <2>1. U \in SUBSET R
    BY <1>2
  <2> QED BY <2>1, <1>4 DEF IsSum
<1> QED BY <1>2, <1>4, <1>6, <1>7, <1>8

\* The fold of the library is that sum, in whatever order it takes the set.
LEMMA FoldIsSum ==
  ASSUME NEW S, IsFiniteSet(S), NEW f \in [S -> Int], NEW g, IsSum(g, f, S)
  PROVE  SumFunction(f) = g[S]
<1> DEFINE one(T) == CHOOSE x \in T : TRUE
           next(k, T) == IF T = {} THEN 0 ELSE f[one(T)] + k[T \ {one(T)}]
           Is(k) == k = [T \in SUBSET S |-> next(k, T)]
           iter == CHOOSE k : Is(k)
<1>1. SumFunction(f) = iter[S]
  BY DEF SumFunction, SumFunctionOnSet, FoldFunctionOnSet, MapThenFoldSet
<1>2. \A T \in SUBSET S : T # {} => one(T) \in T /\ T \ {one(T)} \in SUBSET S
  OBVIOUS
<1> HIDE DEF one
<1>3. Is(g)
  <2>1. \A T \in SUBSET S : g[T] = next(g, T)
    BY <1>2 DEF IsSum
  <2>2. g = [T \in SUBSET S |-> g[T]]
    BY DEF IsSum
  <2> HIDE DEF next
  <2> QED BY <2>1, <2>2
<1>4. Is(iter)
  <2> HIDE DEF Is
  <2> QED BY <1>3
<1> HIDE DEF iter
<1>5. \A T \in SUBSET S : iter[T] = next(iter, T)
  <2> HIDE DEF next
  <2> QED BY <1>4
<1> DEFINE C == {T \in SUBSET S : iter[T] # g[T]}
<1>6. C = {}
  <2> SUFFICES ASSUME C # {} PROVE FALSE
    OBVIOUS
  <2>1. PICK T \in C : \A U \in C : U \subseteq T => U = T
    <3> HIDE DEF C
    <3>1. C \in SUBSET (SUBSET S)
      BY DEF C
    <3> QED BY <3>1, LeastSet
  <2>2. T \in SUBSET S /\ iter[T] # g[T]
    OBVIOUS
  <2>3. CASE T = {}
    BY <2>2, <2>3, <1>5 DEF IsSum
  <2>4. CASE T # {}
    <3> DEFINE U == T \ {one(T)}
    <3>1. one(T) \in T /\ U \in SUBSET S /\ U \subseteq T /\ U # T
      BY <2>2, <2>4, <1>2
    <3>2. iter[U] = g[U]
      BY <3>1, <2>1
    <3>3. iter[T] = f[one(T)] + iter[U]
      BY <2>2, <2>4, <1>5
    <3>4. g[T] = f[one(T)] + g[U]
      BY <3>1, <2>2 DEF IsSum
    <3> QED BY <3>2, <3>3, <3>4, <2>2
  <2> QED BY <2>3, <2>4
<1>7. S \in SUBSET S
  OBVIOUS
<1> QED BY <1>1, <1>6, <1>7

\* A sum is a number, and one more member adds its value.
LEMMA SumAdds ==
  ASSUME NEW S, IsFiniteSet(S), NEW x, x \notin S,
         NEW f \in [S \cup {x} -> Int], NEW h \in [S -> Int],
         \A y \in S : f[y] = h[y]
  PROVE  /\ SumFunction(h) \in Int
         /\ SumFunction(f) = SumFunction(h) + f[x]
<1> DEFINE T == S \cup {x}
<1>1. IsFiniteSet(T)
  BY FS_AddElement
<1>2. PICK g : IsSum(g, f, T)
  <2> HIDE DEF T
  <2> QED BY <1>1, SumExists DEF T
<1>3. PICK k : IsSum(k, h, S)
  BY SumExists
<1>4. SumFunction(f) = g[T] /\ SumFunction(h) = k[S]
  BY <1>1, <1>2, <1>3, FoldIsSum
<1>5. g[S] = k[S]
  <2>1. S \in SUBSET T /\ S \in SUBSET S
    OBVIOUS
  <2> HIDE DEF T
  <2> QED BY <2>1, <1>2, <1>3, SumsAgree
<1>6. g[T] = f[x] + g[S]
  <2>1. T \in SUBSET T /\ x \in T /\ T \ {x} = S
    OBVIOUS
  <2> HIDE DEF T
  <2> QED BY <2>1, <1>2 DEF IsSum
<1>7. k[S] \in Int
  BY <1>3 DEF IsSum
<1>8. f[x] \in Int
  OBVIOUS
<1> QED BY <1>4, <1>5, <1>6, <1>7, <1>8

LEMMA SumType ==
  ASSUME NEW S, IsFiniteSet(S), NEW f \in [S -> Int]
  PROVE  SumFunction(f) \in Int
<1>1. PICK g : IsSum(g, f, S)
  BY SumExists
<1>2. SumFunction(f) = g[S]
  BY <1>1, FoldIsSum
<1>3. S \in SUBSET S
  OBVIOUS
<1> QED BY <1>1, <1>2, <1>3 DEF IsSum

LEMMA SumEmpty == ASSUME NEW f, DOMAIN f = {} PROVE SumFunction(f) = 0
<1> DEFINE one(T) == CHOOSE x \in T : TRUE
           next(k, T) == IF T = {} THEN 0 ELSE f[one(T)] + k[T \ {one(T)}]
           Is(k) == k = [T \in SUBSET {} |-> next(k, T)]
           iter == CHOOSE k : Is(k)
<1>1. SumFunction(f) = iter[{}]
  BY DEF SumFunction, SumFunctionOnSet, FoldFunctionOnSet, MapThenFoldSet
<1>2. Is([T \in SUBSET {} |-> 0])
  OBVIOUS
<1>3. Is(iter)
  <2> HIDE DEF Is
  <2> QED BY <1>2
<1> HIDE DEF iter
<1> QED BY <1>1, <1>3

\* When one value changes the sum changes by as much.
LEMMA SumChanges ==
  ASSUME NEW S, IsFiniteSet(S), NEW x \in S, NEW f \in [S -> Int],
         NEW h \in [S -> Int], \A y \in S \ {x} : h[y] = f[y]
  PROVE  /\ SumFunction(f) \in Int
         /\ SumFunction(h) = SumFunction(f) - f[x] + h[x]
<1> DEFINE T == S \ {x}
           e == [y \in T |-> f[y]]
<1>1. IsFiniteSet(T) /\ x \notin T /\ T \cup {x} = S
  BY FS_RemoveElement
<1>2. e \in [T -> Int] /\ (\A y \in T : f[y] = e[y]) /\ (\A y \in T : h[y] = e[y])
  OBVIOUS
<1>3. f[x] \in Int /\ h[x] \in Int
  OBVIOUS
<1> HIDE DEF T, e
<1>4. /\ SumFunction(e) \in Int
      /\ SumFunction(f) = SumFunction(e) + f[x]
      /\ SumFunction(h) = SumFunction(e) + h[x]
  BY <1>1, <1>2, SumAdds
<1> QED BY <1>3, <1>4
=============================================================================

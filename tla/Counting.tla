------------------------------ MODULE Counting ------------------------------
(***************************************************************************)
(* Induction, recursion and sums in the form the proofs of this project    *)
(* use: about a set in place of a predicate, a step that is a function,    *)
(* and the sums of the community modules by what they add up to.           *)
(***************************************************************************)
EXTENDS Integers, FiniteSetTheorems, Functions, SequenceTheorems, TLAPS

\* A set of natural numbers has a least element.
LEMMA LeastNat ==
  ASSUME NEW S \in SUBSET Nat, S # {}
  PROVE  \E m \in S : \A n \in S : m <= n
<1>1. PICK m \in S : \A n \in S : ~ (<<n, m>> \in OpToRel(<, Nat))
  BY WFMin, NatLessThanWellFounded
<1>2. \A n \in S : ~ (n < m)
  BY <1>1 DEF OpToRel
<1> QED BY <1>2

\* A set that has 0, and n + 1 with each n, has all natural numbers.
LEMMA Induct ==
  ASSUME NEW S, 0 \in S, \A n \in Nat : n \in S => n + 1 \in S
  PROVE  \A n \in Nat : n \in S
<1>1. SUFFICES ASSUME Nat \ S # {} PROVE FALSE
  OBVIOUS
<1>2. PICK m \in Nat \ S : \A n \in Nat \ S : m <= n
  BY <1>1, LeastNat
<1>3. m # 0 /\ m - 1 \in Nat \cap S
  BY <1>2
<1> QED BY <1>2, <1>3

\* A set of sets that has {}, and T \cup {x} with each T that lacks an x of S,
\* has S if S is finite.
LEMMA FiniteInduct ==
  ASSUME NEW S, IsFiniteSet(S), NEW X, {} \in X,
         \A T \in SUBSET S, x \in S : T \in X /\ x \notin T => T \cup {x} \in X
  PROVE  S \in X
<1> DEFINE N == {n \in Nat : \A T \in SUBSET S : Cardinality(T) = n => T \in X}
<1>1. \A T \in SUBSET S : IsFiniteSet(T) /\ Cardinality(T) \in Nat
  BY FS_Subset, FS_CardinalityType
<1>2. 0 \in N
  BY <1>1, FS_EmptySet
<1>3. ASSUME NEW n \in Nat, n \in N PROVE n + 1 \in N
  <2> SUFFICES ASSUME NEW T \in SUBSET S, Cardinality(T) = n + 1 PROVE T \in X
    OBVIOUS
  <2>1. PICK x : x \in T
    BY <1>1, FS_EmptySet
  <2>2. T \ {x} \in SUBSET S /\ Cardinality(T \ {x}) = n
    <3>1. Cardinality(T \ {x}) = Cardinality(T) - 1
      BY <1>1, <2>1, FS_RemoveElement
    <3> QED BY <3>1
  <2>3. T \ {x} \in X
    BY <1>3, <2>2
  <2>4. (T \ {x}) \cup {x} = T
    BY <2>1
  <2> QED BY <2>1, <2>3, <2>4
<1>4. Cardinality(S) \in N
  <2> HIDE DEF N
  <2> QED BY <1>1, <1>2, <1>3, Induct
<1> QED BY <1>1, <1>4

\* f has values in V and is given by the one at 0 and a step to the next.
RecursiveOnNat(f, V, base, step) ==
  /\ f \in [Nat -> V]
  /\ f[0] = base
  /\ \A n \in Nat : f[n + 1] = step[<<n + 1, f[n]>>]

\* There is such a function.
LEMMA NatRecursion ==
  ASSUME NEW V, NEW base \in V, NEW step \in [Nat \X V -> V]
  PROVE  \E f : RecursiveOnNat(f, V, base, step)
<1> DEFINE Upto(g, n) ==
             /\ g \in [0 .. n -> V]
             /\ g[0] = base
             /\ \A i \in 0 .. n - 1 : g[i + 1] = step[<<i + 1, g[i]>>]
           S == {n \in Nat : \E g : Upto(g, n)}
           G(n) == CHOOSE g : Upto(g, n)
           f == [n \in Nat |-> G(n)[n]]
<1>1. 0 \in S
  <2>1. Upto([i \in 0 .. 0 |-> base], 0)
    OBVIOUS
  <2> HIDE DEF Upto
  <2> QED BY <2>1
<1>2. ASSUME NEW n \in Nat, n \in S PROVE n + 1 \in S
  <2>1. PICK g : Upto(g, n)
    BY <1>2
  <2> DEFINE h == [i \in 0 .. n + 1 |-> IF i = n + 1 THEN step[<<n + 1, g[n]>>] ELSE g[i]]
  <2>2. h \in [0 .. n + 1 -> V] /\ h[0] = base
    BY <2>1
  <2>3. \A i \in 0 .. n : h[i + 1] = step[<<i + 1, h[i]>>]
    BY <2>1
  <2>4. Upto(h, n + 1)
    <3> HIDE DEF h
    <3>1. (n + 1) - 1 = n
      OBVIOUS
    <3> QED BY <2>2, <2>3, <3>1
  <2> HIDE DEF h, Upto
  <2> QED BY <2>4
<1>3. \A n \in Nat : Upto(G(n), n)
  <2>1. \A n \in Nat : n \in S
    <3> HIDE DEF S
    <3> QED BY <1>1, <1>2, Induct
  <2> HIDE DEF Upto
  <2> QED BY <2>1
<1> HIDE DEF G
<1>4. ASSUME NEW n \in Nat PROVE G(n + 1)[n] = G(n)[n]
  <2> DEFINE T == {i \in Nat : i <= n => G(n + 1)[i] = G(n)[i]}
  <2>1. Upto(G(n), n) /\ Upto(G(n + 1), n + 1)
    BY <1>3
  <2>2. 0 \in T
    BY <2>1
  <2>3. ASSUME NEW i \in Nat, i \in T PROVE i + 1 \in T
    <3> SUFFICES ASSUME i + 1 <= n PROVE G(n + 1)[i + 1] = G(n)[i + 1]
      OBVIOUS
    <3>1. i \in 0 .. n - 1 /\ i \in 0 .. (n + 1) - 1
      OBVIOUS
    <3>2. G(n + 1)[i] = G(n)[i]
      BY <2>3
    <3> QED BY <2>1, <3>1, <3>2
  <2>4. n \in T
    <3> HIDE DEF T
    <3> QED BY <2>2, <2>3, Induct
  <2> QED BY <2>4
<1>5. f \in [Nat -> V] /\ f[0] = base
  BY <1>3
<1>6. ASSUME NEW n \in Nat PROVE f[n + 1] = step[<<n + 1, f[n]>>]
  <2>1. G(n + 1)[n + 1] = step[<<n + 1, G(n + 1)[n]>>]
    BY <1>3
  <2> QED BY <1>4, <2>1
<1> HIDE DEF f
<1> QED BY <1>5, <1>6 DEF RecursiveOnNat

\* f has values in V and is defined from one number to the next, as far as l.
RecursiveUpTo(f, l, V, base, step) ==
  /\ f \in [0 .. l -> V]
  /\ f = [n \in 0 .. l |-> IF n = 0 THEN base ELSE step[<<n, f[n - 1]>>]]

\* There is such a function too.
LEMMA BoundedRecursion ==
  ASSUME NEW V, NEW base \in V, NEW step \in [Nat \X V -> V], NEW l \in Nat
  PROVE  \E f : RecursiveUpTo(f, l, V, base, step)
<1>1. PICK g : RecursiveOnNat(g, V, base, step)
  BY NatRecursion
<1>2. g \in [Nat -> V] /\ g[0] = base /\ \A n \in Nat : g[n + 1] = step[<<n + 1, g[n]>>]
  BY <1>1 DEF RecursiveOnNat
<1> DEFINE f == [n \in 0 .. l |-> g[n]]
<1>3. f \in [0 .. l -> V]
  BY <1>2
<1>4. ASSUME NEW n \in 0 .. l
      PROVE  f[n] = IF n = 0 THEN base ELSE step[<<n, f[n - 1]>>]
  <2>1. CASE n = 0
    BY <1>2, <2>1
  <2>2. CASE n # 0
    <3>1. n - 1 \in Nat /\ n - 1 \in 0 .. l /\ (n - 1) + 1 = n
      BY <2>2
    <3>2. g[n] = step[<<n, g[n - 1]>>]
      BY <1>2, <3>1
    <3> QED
      BY <2>2, <3>1, <3>2
  <2> QED
    BY <2>1, <2>2
<1>5. f = [n \in 0 .. l |-> IF n = 0 THEN base ELSE step[<<n, f[n - 1]>>]]
  BY <1>4
<1>6. RecursiveUpTo(f, l, V, base, step)
  <2> HIDE DEF f
  <2> QED
    BY <1>3, <1>5 DEF RecursiveUpTo
<1> QED
  BY <1>6

\* g has values in V, and takes from a set one element after the other, of
\* which c is the choice.
RecursiveOnSubsets(g, S, V, base, step, c) ==
  /\ g \in [SUBSET S -> V]
  /\ g = [s \in SUBSET S |-> IF s = {} THEN base ELSE step[<<c[s], g[s \ {c[s]}]>>]]

\* There is such a function for a finite set.
LEMMA SetRecursion ==
  ASSUME NEW S, IsFiniteSet(S), NEW V, NEW base \in V, NEW step \in [S \X V -> V],
         NEW c, \A s \in SUBSET S : s # {} => c[s] \in s
  PROVE  \E g : RecursiveOnSubsets(g, S, V, base, step, c)
<1>1. \A s \in SUBSET S : IsFiniteSet(s) /\ Cardinality(s) \in Nat
  BY FS_Subset, FS_CardinalityType
<1> DEFINE D == [SUBSET S -> V]
           Next(g) == [s \in SUBSET S |-> IF s = {} THEN base ELSE step[<<c[s], g[s \ {c[s]}]>>]]
<1>2. \A g \in D : Next(g) \in D
  OBVIOUS
<1>3. PICK f \in [Nat -> D] :
        f[0] = [s \in SUBSET S |-> base] /\ \A n \in Nat : f[n + 1] = Next(f[n])
  <2> DEFINE st == [p \in Nat \X D |-> Next(p[2])]
             b == [s \in SUBSET S |-> base]
  <2>1. st \in [Nat \X D -> D] /\ b \in D
    BY <1>2
  <2>2. \A n \in Nat, g \in D : st[<<n + 1, g>>] = Next(g)
    <3> HIDE DEF D, Next
    <3> QED OBVIOUS
  <2> HIDE DEF st, b, D, Next
  <2>3. PICK f : RecursiveOnNat(f, D, b, st)
    BY <2>1, NatRecursion
  <2>4. f \in [Nat -> D] /\ f[0] = b /\ \A n \in Nat : f[n + 1] = Next(f[n])
    BY <2>2, <2>3 DEF RecursiveOnNat
  <2> QED BY <2>4 DEF b
<1> DEFINE N == {n \in Nat : \A s \in SUBSET S : Cardinality(s) <= n => f[n + 1][s] = f[n][s]}
<1>4. ASSUME NEW s \in SUBSET S, s # {}
      PROVE  s \ {c[s]} \in SUBSET S /\ Cardinality(s \ {c[s]}) = Cardinality(s) - 1
  BY <1>1, <1>4, FS_RemoveElement
<1>5. \A n \in Nat : n \in N
  <2>1. 0 \in N
    <3> SUFFICES ASSUME NEW s \in SUBSET S, Cardinality(s) <= 0 PROVE f[0 + 1][s] = f[0][s]
      OBVIOUS
    <3>1. s = {}
      BY <1>1, FS_EmptySet
    <3> QED BY <1>3, <3>1
  <2>2. ASSUME NEW n \in Nat, n \in N PROVE n + 1 \in N
    <3> SUFFICES ASSUME NEW s \in SUBSET S, Cardinality(s) <= n + 1
                 PROVE  f[(n + 1) + 1][s] = f[n + 1][s]
      OBVIOUS
    <3>0. f[(n + 1) + 1] = Next(f[n + 1]) /\ f[n + 1] = Next(f[n])
      <4> HIDE DEF Next
      <4> QED BY <1>3
    <3>1. CASE s = {}
      BY <3>0, <3>1
    <3>2. CASE s # {}
      <4>1. f[n + 1][s \ {c[s]}] = f[n][s \ {c[s]}]
        BY <1>1, <1>4, <2>2, <3>2
      <4>2. Next(f[n + 1])[s] = step[<<c[s], f[n + 1][s \ {c[s]}]>>]
        BY <3>2
      <4>3. Next(f[n])[s] = step[<<c[s], f[n][s \ {c[s]}]>>]
        BY <3>2
      <4> HIDE DEF Next
      <4> QED BY <3>0, <4>1, <4>2, <4>3
    <3> QED BY <3>1, <3>2
  <2> HIDE DEF N
  <2> QED BY <2>1, <2>2, Induct
<1> DEFINE g == f[Cardinality(S)]
<1>6. g \in D
  BY <1>1, <1>3
<1>7. ASSUME NEW s \in SUBSET S PROVE f[Cardinality(S) + 1][s] = g[s]
  BY <1>1, <1>5, FS_Subset
<1>8. g = Next(g)
  <2>1. f[Cardinality(S) + 1] = Next(g)
    BY <1>1, <1>3
  <2>2. f[Cardinality(S) + 1] \in D
    BY <1>1, <1>3
  <2> HIDE DEF g, Next
  <2> QED BY <1>6, <1>7, <2>1, <2>2
<1> HIDE DEF g
<1> QED BY <1>6, <1>8 DEF RecursiveOnSubsets
-----------------------------------------------------------------------------
\* The element that the community modules' folds take next.
AnyOf(s) == CHOOSE x \in s : TRUE

\* g is the sum of f over each subset of S, one element after the other.
SumsOver(g, f, S) ==
  g = [s \in SUBSET S |-> IF s = {} THEN 0 ELSE f[AnyOf(s)] + g[s \ {AnyOf(s)}]]

\* SumFunctionOnSet is such a sum.
LEMMA SumIsOne ==
  ASSUME NEW f, NEW S, IsFiniteSet(S), \A x \in S : f[x] \in Int
  PROVE  \E g : SumsOver(g, f, S) /\ g \in [SUBSET S -> Int] /\ SumFunctionOnSet(f, S) = g[S]
<1> DEFINE step == [p \in S \X Int |-> f[p[1]] + p[2]]
           c == [s \in SUBSET S |-> AnyOf(s)]
           Sum(g) == g = [s \in SUBSET S |-> IF s = {} THEN 0 ELSE f[AnyOf(s)] + g[s \ {AnyOf(s)}]]
           h == CHOOSE g : Sum(g)
<1>1. SumFunctionOnSet(f, S) = h[S]
  BY DEF SumFunctionOnSet, FoldFunctionOnSet, MapThenFoldSet, AnyOf
<1>2. \A s \in SUBSET S : s # {} => AnyOf(s) \in s /\ c[s] = AnyOf(s)
  BY DEF AnyOf
<1>3. step \in [S \X Int -> Int] /\ \A x \in S, n \in Int : step[<<x, n>>] = f[x] + n
  OBVIOUS
<1> HIDE DEF step, c
<1>4. PICK g : RecursiveOnSubsets(g, S, Int, 0, step, c)
  <2>1. 0 \in Int /\ \A s \in SUBSET S : s # {} => c[s] \in s
    BY <1>2
  <2> QED
    BY <1>3, <2>1, SetRecursion
<1>5. g \in [SUBSET S -> Int]
  BY <1>4 DEF RecursiveOnSubsets
<1>6. ASSUME NEW s \in SUBSET S
      PROVE  g[s] = IF s = {} THEN 0 ELSE f[AnyOf(s)] + g[s \ {AnyOf(s)}]
  <2>1. g[s] = IF s = {} THEN 0 ELSE step[<<c[s], g[s \ {c[s]}]>>]
    BY <1>4 DEF RecursiveOnSubsets
  <2>2. CASE s # {}
    <3>1. c[s] = AnyOf(s) /\ AnyOf(s) \in S /\ s \ {AnyOf(s)} \in SUBSET S
      BY <1>2, <2>2
    <3>2. g[s \ {AnyOf(s)}] \in Int
      BY <1>5, <3>1
    <3> QED
      BY <1>3, <2>1, <2>2, <3>1, <3>2
  <2> QED
    BY <2>1, <2>2
<1>7. Sum(g)
  BY <1>5, <1>6
<1>8. Sum(h)
  <2> HIDE DEF Sum
  <2> QED
    BY <1>7
<1> HIDE DEF h
<1>9. SumsOver(h, f, S)
  BY <1>8 DEF SumsOver
<1>10. h \in [SUBSET S -> Int]
  <2> DEFINE X == {s \in SUBSET S : h[s] \in Int}
  <2>1. ASSUME NEW n \in Nat, \A s \in SUBSET S : Cardinality(s) = n => s \in X,
               NEW s \in SUBSET S, Cardinality(s) = n + 1
        PROVE  s \in X
    <3>1. IsFiniteSet(s) /\ s # {}
      BY <2>1, FS_Subset, FS_EmptySet
    <3>2. AnyOf(s) \in s
      BY <1>2, <3>1
    <3>3. Cardinality(s \ {AnyOf(s)}) = n
      <4>1. Cardinality(s \ {AnyOf(s)}) = Cardinality(s) - 1
        BY <3>1, <3>2, FS_RemoveElement
      <4> QED
        BY <2>1, <4>1
    <3>4. h[s \ {AnyOf(s)}] \in Int /\ f[AnyOf(s)] \in Int
      BY <2>1, <3>2, <3>3
    <3>5. h[s] = f[AnyOf(s)] + h[s \ {AnyOf(s)}]
      BY <1>8, <3>1
    <3> QED
      BY <3>4, <3>5
  <2> DEFINE N == {n \in Nat : \A s \in SUBSET S : Cardinality(s) = n => s \in X}
  <2>2. 0 \in N
    <3> SUFFICES ASSUME NEW s \in SUBSET S, Cardinality(s) = 0 PROVE h[s] \in Int
      OBVIOUS
    <3>1. s = {}
      BY FS_Subset, FS_EmptySet
    <3> QED
      BY <1>8, <3>1
  <2>3. \A n \in Nat : n \in N => n + 1 \in N
    BY <2>1
  <2>4. \A n \in Nat : n \in N
    <3> HIDE DEF N
    <3> QED
      BY <2>2, <2>3, Induct
  <2>5. \A s \in SUBSET S : Cardinality(s) \in Nat
    BY FS_Subset, FS_CardinalityType
  <2>6. \A s \in SUBSET S : h[s] \in Int
    BY <2>4, <2>5
  <2> QED
    BY <1>8, <2>6
<1> QED
  BY <1>1, <1>9, <1>10

\* Two sums agree on what both are over.
LEMMA SumIsUnique ==
  ASSUME NEW f, NEW S, IsFiniteSet(S), NEW T \in SUBSET S,
         NEW g, SumsOver(g, f, S), NEW h, SumsOver(h, f, T)
  PROVE  g[T] = h[T]
<1> DEFINE N == {n \in Nat : \A s \in SUBSET T : Cardinality(s) = n => g[s] = h[s]}
<1>1. \A s \in SUBSET T : IsFiniteSet(s) /\ Cardinality(s) \in Nat
  BY FS_Subset, FS_CardinalityType
<1>2. \A s \in SUBSET T : /\ g[s] = IF s = {} THEN 0 ELSE f[AnyOf(s)] + g[s \ {AnyOf(s)}]
                          /\ h[s] = IF s = {} THEN 0 ELSE f[AnyOf(s)] + h[s \ {AnyOf(s)}]
  BY DEF SumsOver
<1>3. 0 \in N
  BY <1>1, <1>2, FS_EmptySet
<1>4. ASSUME NEW n \in Nat, n \in N
      PROVE  n + 1 \in N
  <2> SUFFICES ASSUME NEW s \in SUBSET T, Cardinality(s) = n + 1 PROVE g[s] = h[s]
    OBVIOUS
  <2>1. s # {}
    BY FS_EmptySet
  <2>2. AnyOf(s) \in s
    BY <2>1 DEF AnyOf
  <2>3. Cardinality(s \ {AnyOf(s)}) = n
    <3>1. Cardinality(s \ {AnyOf(s)}) = Cardinality(s) - 1
      BY <1>1, <2>2, FS_RemoveElement
    <3> QED
      BY <3>1
  <2>4. g[s \ {AnyOf(s)}] = h[s \ {AnyOf(s)}]
    BY <1>4, <2>3
  <2> QED
    BY <1>2, <2>1, <2>4
<1>5. \A n \in Nat : n \in N
  <2> HIDE DEF N
  <2> QED
    BY <1>3, <1>4, Induct
<1> QED
  BY <1>1, <1>5

\* Nothing sums up to 0, and a sum is a number.
LEMMA SumType ==
  ASSUME NEW f, NEW S, IsFiniteSet(S), \A x \in S : f[x] \in Int
  PROVE  SumFunctionOnSet(f, S) \in Int /\ (S = {} => SumFunctionOnSet(f, S) = 0)
<1>1. PICK g : SumsOver(g, f, S) /\ g \in [SUBSET S -> Int] /\ SumFunctionOnSet(f, S) = g[S]
  BY SumIsOne
<1>2. g[S] \in Int
  BY <1>1
<1>3. S = {} => g[S] = 0
  BY <1>1 DEF SumsOver
<1> QED
  BY <1>1, <1>2, <1>3

LEMMA SumFirst ==
  ASSUME NEW f, NEW S, IsFiniteSet(S), S # {}, \A x \in S : f[x] \in Int
  PROVE  SumFunctionOnSet(f, S) = f[AnyOf(S)] + SumFunctionOnSet(f, S \ {AnyOf(S)})
<1>1. PICK g : SumsOver(g, f, S) /\ SumFunctionOnSet(f, S) = g[S]
  BY SumIsOne
<1> DEFINE T == S \ {AnyOf(S)}
<1>2. IsFiniteSet(T) /\ T \in SUBSET S
  BY FS_Subset
<1>3. PICK h : SumsOver(h, f, T) /\ SumFunctionOnSet(f, T) = h[T]
  BY <1>2, SumIsOne
<1>4. g[T] = h[T]
  <2> HIDE DEF T
  <2> QED
    BY <1>1, <1>2, <1>3, SumIsUnique
<1>5. g[S] = f[AnyOf(S)] + g[T]
  BY <1>1 DEF SumsOver
<1> QED
  BY <1>1, <1>3, <1>4, <1>5

\* Any element may be the first to be taken.
LEMMA SumTakes ==
  ASSUME NEW f, NEW S, IsFiniteSet(S), NEW x \in S, \A y \in S : f[y] \in Int
  PROVE  SumFunctionOnSet(f, S) = f[x] + SumFunctionOnSet(f, S \ {x})
<1> DEFINE Sum(s) == SumFunctionOnSet(f, s)
           N == {n \in Nat : \A s \in SUBSET S : Cardinality(s) = n =>
                   \A y \in s : Sum(s) = f[y] + Sum(s \ {y})}
<1>1. \A s \in SUBSET S : IsFiniteSet(s) /\ Cardinality(s) \in Nat /\ Sum(s) \in Int
  BY FS_Subset, FS_CardinalityType, SumType
<1> HIDE DEF Sum
<1>2. 0 \in N
  BY <1>1, FS_EmptySet
<1>3. ASSUME NEW n \in Nat, n \in N
      PROVE  n + 1 \in N
  <2> SUFFICES ASSUME NEW s \in SUBSET S, Cardinality(s) = n + 1, NEW y \in s
               PROVE  Sum(s) = f[y] + Sum(s \ {y})
    OBVIOUS
  <2> DEFINE c == AnyOf(s)
  <2>1. c \in s
    BY DEF AnyOf
  <2>2. Sum(s) = f[c] + Sum(s \ {c})
    BY <1>1, SumFirst DEF Sum
  <2> HIDE DEF c
  <2>3. CASE y = c
    BY <2>2, <2>3
  <2>4. CASE y # c
    <3>1. Cardinality(s \ {c}) = n /\ Cardinality(s \ {y}) = n
      <4>1. /\ Cardinality(s \ {c}) = Cardinality(s) - 1
            /\ Cardinality(s \ {y}) = Cardinality(s) - 1
        BY <1>1, <2>1, FS_RemoveElement
      <4> QED
        BY <4>1
    <3>2. Sum(s \ {c}) = f[y] + Sum((s \ {c}) \ {y})
      BY <1>3, <2>4, <3>1
    <3>3. Sum(s \ {y}) = f[c] + Sum((s \ {y}) \ {c})
      BY <1>3, <2>1, <2>4, <3>1
    <3>4. (s \ {c}) \ {y} = (s \ {y}) \ {c}
      OBVIOUS
    <3>5. f[c] \in Int /\ f[y] \in Int /\ Sum((s \ {c}) \ {y}) \in Int
      BY <1>1, <2>1
    <3> DEFINE rest == Sum((s \ {c}) \ {y})
    <3>6. Sum(s) = f[c] + (f[y] + rest) /\ Sum(s \ {y}) = f[c] + rest /\ rest \in Int
      BY <2>2, <3>2, <3>3, <3>4, <3>5
    <3> HIDE DEF rest
    <3> QED
      BY <3>5, <3>6
  <2> QED
    BY <2>3, <2>4
<1>4. \A n \in Nat : n \in N
  <2> HIDE DEF N
  <2> QED
    BY <1>2, <1>3, Induct
<1> QED
  BY <1>1, <1>4 DEF Sum

LEMMA SumAdds ==
  ASSUME NEW f, NEW S, IsFiniteSet(S), NEW x, x \notin S, \A y \in S \cup {x} : f[y] \in Int
  PROVE  SumFunctionOnSet(f, S \cup {x}) = f[x] + SumFunctionOnSet(f, S)
<1>1. IsFiniteSet(S \cup {x}) /\ (S \cup {x}) \ {x} = S
  BY FS_AddElement
<1>2. SumFunctionOnSet(f, S \cup {x}) = f[x] + SumFunctionOnSet(f, (S \cup {x}) \ {x})
  BY <1>1, SumTakes
<1> QED
  BY <1>1, <1>2

\* Sums of the same numbers, whatever they are numbers of.
LEMMA SumReindexed ==
  ASSUME NEW f, NEW S, IsFiniteSet(S), NEW g, NEW T, NEW h \in [S -> T],
         \A x \in S : f[x] \in Int /\ g[h[x]] = f[x],
         \A x, y \in S : h[x] = h[y] => x = y, \A z \in T : \E x \in S : h[x] = z
  PROVE  SumFunctionOnSet(f, S) = SumFunctionOnSet(g, T)
<1> DEFINE Image(U) == {h[x] : x \in U}
           X == {U \in SUBSET S : IsFiniteSet(Image(U)) /\ SumFunctionOnSet(f, U) = SumFunctionOnSet(g, Image(U))}
<1>1. {} \in X
  <2>1. Image({}) = {} /\ IsFiniteSet({})
    BY FS_EmptySet
  <2> HIDE DEF Image
  <2> QED
    BY <2>1, SumType
<1>2. ASSUME NEW U \in SUBSET S, NEW x \in S, U \in X, x \notin U
      PROVE  U \cup {x} \in X
  <2>1. Image(U \cup {x}) = Image(U) \cup {h[x]} /\ h[x] \notin Image(U)
    BY <1>2
  <2>2. \A z \in Image(U) \cup {h[x]} : g[z] \in Int
    OBVIOUS
  <2>3. IsFiniteSet(U)
    BY FS_Subset
  <2>4. IsFiniteSet(Image(U))
    BY <1>2
  <2> HIDE DEF Image
  <2>5. IsFiniteSet(Image(U) \cup {h[x]})
    BY <2>4, FS_AddElement
  <2>6. SumFunctionOnSet(f, U \cup {x}) = f[x] + SumFunctionOnSet(f, U)
    BY <1>2, <2>3, SumAdds
  <2>7. SumFunctionOnSet(g, Image(U) \cup {h[x]}) = g[h[x]] + SumFunctionOnSet(g, Image(U))
    BY <2>1, <2>2, <2>4, SumAdds
  <2> QED
    BY <1>2, <2>1, <2>5, <2>6, <2>7
<1>3. S \in X
  <2> HIDE DEF X
  <2> QED
    BY <1>1, <1>2, FiniteInduct
<1>4. Image(S) = T
  OBVIOUS
<1> QED
  BY <1>3, <1>4

LEMMA SumSame ==
  ASSUME NEW f, NEW S, IsFiniteSet(S), NEW g, \A x \in S : f[x] \in Int /\ g[x] = f[x]
  PROVE  SumFunctionOnSet(f, S) = SumFunctionOnSet(g, S)
<1> DEFINE h == [x \in S |-> x]
<1>1. h \in [S -> S] /\ \A x \in S : h[x] = x
  OBVIOUS
<1> HIDE DEF h
<1> QED
  BY <1>1, SumReindexed

\* The sum over two sets that have nothing in common.
LEMMA SumOfBoth ==
  ASSUME NEW f, NEW S, IsFiniteSet(S), NEW T, IsFiniteSet(T), S \cap T = {},
         \A x \in S \cup T : f[x] \in Int
  PROVE  /\ IsFiniteSet(S \cup T)
         /\ SumFunctionOnSet(f, S \cup T) = SumFunctionOnSet(f, S) + SumFunctionOnSet(f, T)
<1> DEFINE Sum(U) == SumFunctionOnSet(f, U)
           X == {U \in SUBSET T : IsFiniteSet(S \cup U) /\ Sum(S \cup U) = Sum(S) + Sum(U)}
<1>1. Sum(S) \in Int /\ \A U \in SUBSET T : Sum(U) \in Int
  BY FS_Subset, SumType
<1>2. {} \in X
  <2>1. S \cup {} = S /\ Sum({}) = 0
    BY SumType, FS_EmptySet
  <2> HIDE DEF Sum
  <2> QED
    BY <1>1, <2>1
<1>3. ASSUME NEW U \in SUBSET T, NEW x \in T, U \in X, x \notin U
      PROVE  U \cup {x} \in X
  <2>1. S \cup (U \cup {x}) = (S \cup U) \cup {x} /\ x \notin S \cup U
    BY <1>3
  <2>2. IsFiniteSet(U) /\ IsFiniteSet(S \cup U) /\ IsFiniteSet((S \cup U) \cup {x})
    BY <1>3, FS_Subset, FS_AddElement
  <2>3. Sum((S \cup U) \cup {x}) = f[x] + Sum(S \cup U)
    BY <2>1, <2>2, SumAdds
  <2>4. Sum(U \cup {x}) = f[x] + Sum(U)
    BY <1>3, <2>2, SumAdds
  <2> HIDE DEF Sum
  <2>5. f[x] \in Int
    OBVIOUS
  <2> QED
    BY <1>1, <1>3, <2>1, <2>2, <2>3, <2>4, <2>5
<1>4. T \in X
  <2> HIDE DEF X
  <2> QED
    BY <1>2, <1>3, FiniteInduct
<1> QED
  BY <1>4

\* The pairs of an element of K and one of the set that I gives for it.
Pairs(K, I) == {p \in K \X UNION {I[k] : k \in K} : p[2] \in I[p[1]]}

\* The sum of the sums of the rows is the sum over all.
LEMMA SumOfRows ==
  ASSUME NEW K, IsFiniteSet(K), NEW I, \A k \in K : IsFiniteSet(I[k]),
         NEW row, \A k \in K : \A i \in I[k] : row[k][i] \in Int,
         NEW r, \A k \in K : r[k] = SumFunctionOnSet(row[k], I[k]),
         NEW f, \A k \in K : \A i \in I[k] : f[<<k, i>>] = row[k][i]
  PROVE  /\ IsFiniteSet(Pairs(K, I))
         /\ SumFunctionOnSet(r, K) = SumFunctionOnSet(f, Pairs(K, I))
<1> DEFINE X == {L \in SUBSET K : /\ IsFiniteSet(Pairs(L, I))
                                  /\ SumFunctionOnSet(r, L) = SumFunctionOnSet(f, Pairs(L, I))}
<1>1. \A k \in K : r[k] \in Int
  BY SumType
<1>2. \A L \in SUBSET K : \A p \in Pairs(L, I) : f[p] \in Int
  <2> TAKE L \in SUBSET K
  <2> TAKE p \in Pairs(L, I)
  <2>1. p = <<p[1], p[2]>> /\ p[1] \in K /\ p[2] \in I[p[1]]
    BY DEF Pairs
  <2>2. f[<<p[1], p[2]>>] \in Int
    BY <2>1
  <2> QED
    BY <2>1, <2>2
<1>3. {} \in X
  <2>1. Pairs({}, I) = {} /\ IsFiniteSet({})
    BY FS_EmptySet DEF Pairs
  <2> QED
    BY <2>1, SumType
<1>4. ASSUME NEW L \in SUBSET K, NEW k \in K, L \in X, k \notin L
      PROVE  L \cup {k} \in X
  <2> DEFINE New == {k} \X I[k]
             h == [i \in I[k] |-> <<k, i>>]
  <2>1. Pairs(L \cup {k}, I) = Pairs(L, I) \cup New /\ Pairs(L, I) \cap New = {}
    BY <1>4 DEF Pairs
  <2>2. /\ h \in [I[k] -> New] /\ \A x, y \in I[k] : h[x] = h[y] => x = y
        /\ \A z \in New : \E x \in I[k] : h[x] = z
        /\ \A x \in I[k] : row[k][x] \in Int /\ f[h[x]] = row[k][x]
    OBVIOUS
  <2>3. IsFiniteSet(I[k]) /\ IsFiniteSet(L) /\ IsFiniteSet(Pairs(L, I))
    BY <1>4, FS_Subset
  <2>4. IsFiniteSet(New)
    <3>1. IsFiniteSet({k})
      BY FS_Singleton
    <3> QED
      BY <2>3, <3>1, FS_Product
  <2>5. \A p \in New : f[p] \in Int
    OBVIOUS
  <2> HIDE DEF h, New
  <2>6. SumFunctionOnSet(row[k], I[k]) = SumFunctionOnSet(f, New)
    BY <2>2, <2>3, SumReindexed
  <2>7. /\ IsFiniteSet(Pairs(L, I) \cup New)
        /\ SumFunctionOnSet(f, Pairs(L, I) \cup New) = SumFunctionOnSet(f, Pairs(L, I)) + SumFunctionOnSet(f, New)
    <3> DEFINE Old == Pairs(L, I)
    <3>1. \A p \in Old \cup New : f[p] \in Int
      BY <1>2, <2>5
    <3>2. Old \cap New = {} /\ IsFiniteSet(Old) /\ IsFiniteSet(New)
      BY <2>1, <2>3, <2>4
    <3> HIDE DEF Old, X
    <3>3. IsFiniteSet(Old) /\ IsFiniteSet(New) => IsFiniteSet(Old \cup New)
      BY FS_Union
    <3>4. SumFunctionOnSet(f, Old \cup New) = SumFunctionOnSet(f, Old) + SumFunctionOnSet(f, New)
      BY ONLY <3>1, <3>2, SumOfBoth
    <3> QED
      BY <3>2, <3>3, <3>4 DEF Old
  <2>8. SumFunctionOnSet(r, L \cup {k}) = r[k] + SumFunctionOnSet(r, L)
    <3>1. \A y \in L \cup {k} : r[y] \in Int
      BY <1>1
    <3> QED
      BY <1>4, <2>3, <3>1, SumAdds
  <2>9. SumFunctionOnSet(r, L) \in Int /\ r[k] \in Int /\ SumFunctionOnSet(r, L) = SumFunctionOnSet(f, Pairs(L, I))
    BY <1>1, <1>4, <2>3, SumType
  <2>10. r[k] = SumFunctionOnSet(f, New)
    BY <2>6
  <2>11. SumFunctionOnSet(r, L \cup {k}) = SumFunctionOnSet(f, Pairs(L, I)) + SumFunctionOnSet(f, New)
    <3> DEFINE a == SumFunctionOnSet(f, Pairs(L, I))
               b == SumFunctionOnSet(f, New)
    <3>1. a \in Int /\ b \in Int /\ SumFunctionOnSet(r, L \cup {k}) = b + a
      BY <2>8, <2>9, <2>10
    <3> HIDE DEF a, b
    <3>2. b + a = a + b
      BY <3>1
    <3> QED
      BY <3>1, <3>2 DEF a, b
  <2> QED
    BY <2>1, <2>7, <2>11
<1>5. K \in X
  <2> HIDE DEF X
  <2> QED
    BY <1>3, <1>4, FiniteInduct
<1> QED
  BY <1>5

\* A table of numbers for each of K and each of I, and the sums of its rows.
RowSums(row, K, I, r) ==
  /\ IsFiniteSet(K) /\ IsFiniteSet(I)
  /\ \A k \in K : \A i \in I : row[k][i] \in Int
  /\ \A k \in K : r[k] = SumFunctionOnSet(row[k], I)

Cells(row, K, I) == [p \in K \X I |-> row[p[1]][p[2]]]

LEMMA SumOfTable ==
  ASSUME NEW row, NEW K, NEW I, NEW r, RowSums(row, K, I, r)
  PROVE  /\ IsFiniteSet(K \X I)
         /\ SumFunctionOnSet(r, K) = SumFunctionOnSet(Cells(row, K, I), K \X I)
<1> DEFINE J == [k \in K |-> I]
           f == [p \in K \X I |-> row[p[1]][p[2]]]
<1>1. /\ IsFiniteSet(K) /\ \A k \in K : IsFiniteSet(J[k])
      /\ \A k \in K : \A i \in J[k] : row[k][i] \in Int
      /\ \A k \in K : r[k] = SumFunctionOnSet(row[k], J[k])
      /\ \A k \in K : \A i \in J[k] : f[<<k, i>>] = row[k][i]
  BY DEF RowSums
<1>2. Pairs(K, J) = K \X I
  BY DEF Pairs
<1> HIDE DEF J, f
<1>3. IsFiniteSet(Pairs(K, J)) /\ SumFunctionOnSet(r, K) = SumFunctionOnSet(f, Pairs(K, J))
  BY <1>1, SumOfRows
<1> QED
  BY <1>2, <1>3 DEF f, Cells

\* By rows or by columns.
LEMMA SumByColumns ==
  ASSUME NEW row, NEW K, NEW I, NEW r, RowSums(row, K, I, r),
         NEW column, NEW c, RowSums(column, I, K, c),
         \A i \in I : \A k \in K : column[i][k] = row[k][i]
  PROVE  SumFunctionOnSet(r, K) = SumFunctionOnSet(c, I)
<1>0. IsFiniteSet(K \X I)
  BY SumOfTable
<1>1. SumFunctionOnSet(r, K) = SumFunctionOnSet(Cells(row, K, I), K \X I)
  BY SumOfTable
<1>2. SumFunctionOnSet(c, I) = SumFunctionOnSet(Cells(column, I, K), I \X K)
  BY SumOfTable
<1> DEFINE A == K \X I
           B == I \X K
           f == [p \in A |-> row[p[1]][p[2]]]
           g == [p \in B |-> column[p[1]][p[2]]]
           h == [p \in A |-> <<p[2], p[1]>>]
<1>3. h \in [A -> B] /\ \A x, y \in A : h[x] = h[y] => x = y
  OBVIOUS
<1>4. \A z \in B : \E x \in A : h[x] = z
  <2> TAKE z \in B
  <2>1. <<z[2], z[1]>> \in A /\ h[<<z[2], z[1]>>] = z
    OBVIOUS
  <2> QED
    BY <2>1
<1>5. \A x \in A : f[x] \in Int /\ g[h[x]] = f[x]
  BY DEF RowSums
<1> HIDE DEF A, B, f, g, h
<1>6. SumFunctionOnSet(f, A) = SumFunctionOnSet(g, B)
  <2>1. IsFiniteSet(A)
    BY <1>0 DEF A
  <2> QED
    BY <1>3, <1>4, <1>5, <2>1, SumReindexed
<1> QED
  BY <1>1, <1>2, <1>6 DEF A, B, f, g, Cells

\* The sum of one number, again and again.
LEMMA SumOfEquals ==
  ASSUME NEW f, NEW S, IsFiniteSet(S), NEW v \in Int, \A x \in S : f[x] = v
  PROVE  SumFunctionOnSet(f, S) = Cardinality(S) * v
<1> DEFINE X == {U \in SUBSET S : SumFunctionOnSet(f, U) = Cardinality(U) * v}
<1>1. {} \in X
  BY SumType, FS_EmptySet
<1>2. ASSUME NEW U \in SUBSET S, NEW x \in S, U \in X, x \notin U
      PROVE  U \cup {x} \in X
  <2>1. IsFiniteSet(U)
    BY FS_Subset
  <2>2. Cardinality(U) \in Nat /\ Cardinality(U \cup {x}) = Cardinality(U) + 1
    BY <1>2, <2>1, FS_CardinalityType, FS_AddElement
  <2>3. SumFunctionOnSet(f, U \cup {x}) = f[x] + SumFunctionOnSet(f, U)
    BY <1>2, <2>1, SumAdds
  <2>4. \A n \in Nat : (n + 1) * v = v + n * v
    OBVIOUS
  <2> QED
    BY <1>2, <2>2, <2>3, <2>4
<1>3. S \in X
  <2> HIDE DEF X
  <2> QED
    BY <1>1, <1>2, FiniteInduct
<1> QED
  BY <1>3

\* What is 0 does not count.
LEMMA SumOfTheRest ==
  ASSUME NEW f, NEW S, IsFiniteSet(S), NEW T \in SUBSET S,
         \A x \in S : f[x] \in Int, \A x \in S \ T : f[x] = 0
  PROVE  SumFunctionOnSet(f, S) = SumFunctionOnSet(f, T)
<1>1. IsFiniteSet(T) /\ IsFiniteSet(S \ T)
  BY FS_Subset
<1>2. SumFunctionOnSet(f, S \ T) = 0
  <2> DEFINE U == S \ T
  <2>1. \A x \in U : f[x] = 0
    OBVIOUS
  <2> HIDE DEF U
  <2>2. SumFunctionOnSet(f, U) = Cardinality(U) * 0
    <3>1. 0 \in Int
      OBVIOUS
    <3> QED
      BY <1>1, <2>1, <3>1, SumOfEquals, Zenon DEF U
  <2>3. Cardinality(U) \in Nat
    BY <1>1, FS_CardinalityType DEF U
  <2> QED
    BY <2>2, <2>3 DEF U
<1>3. SumFunctionOnSet(f, T \cup (S \ T)) = SumFunctionOnSet(f, T) + SumFunctionOnSet(f, S \ T)
  <2> DEFINE U == S \ T
  <2>1. T \cap U = {} /\ \A x \in T \cup U : f[x] \in Int
    OBVIOUS
  <2>2. IsFiniteSet(U)
    BY <1>1
  <2> HIDE DEF U
  <2>3. SumFunctionOnSet(f, T \cup U) = SumFunctionOnSet(f, T) + SumFunctionOnSet(f, U)
    BY <1>1, <2>1, <2>2, SumOfBoth
  <2> QED
    BY <2>3 DEF U
<1>4. SumFunctionOnSet(f, T) \in Int /\ T \cup (S \ T) = S
  <2>1. SumFunctionOnSet(f, T) \in Int
    BY <1>1, SumType
  <2> QED
    BY <2>1
<1> DEFINE a == SumFunctionOnSet(f, T)
<1>5. SumFunctionOnSet(f, S) = a + 0 /\ a \in Int
  BY <1>2, <1>3, <1>4
<1> HIDE DEF a
<1>6. a + 0 = a
  BY <1>5
<1> QED
  BY <1>5, <1>6 DEF a

LEMMA SumOfNaturals ==
  ASSUME NEW f, NEW S, IsFiniteSet(S), \A x \in S : f[x] \in Nat
  PROVE  SumFunctionOnSet(f, S) \in Nat
<1> DEFINE X == {U \in SUBSET S : SumFunctionOnSet(f, U) \in Nat}
<1>1. {} \in X
  BY SumType, FS_EmptySet
<1>2. ASSUME NEW U \in SUBSET S, NEW x \in S, U \in X, x \notin U
      PROVE  U \cup {x} \in X
  <2>1. IsFiniteSet(U)
    BY FS_Subset
  <2>2. SumFunctionOnSet(f, U \cup {x}) = f[x] + SumFunctionOnSet(f, U)
    BY <1>2, <2>1, SumAdds
  <2> QED
    BY <1>2, <2>2
<1>3. S \in X
  <2> HIDE DEF X
  <2> QED
    BY <1>1, <1>2, FiniteInduct
<1> QED
  BY <1>3
-----------------------------------------------------------------------------
\* What F gives for the elements of a sequence, together.
Total(F, s) == SumFunctionOnSet([i \in DOMAIN s |-> F[s[i]]], DOMAIN s)

LEMMA SequenceDomain ==
  ASSUME NEW V, NEW s \in Seq(V)
  PROVE  IsFiniteSet(DOMAIN s) /\ DOMAIN s = 1 .. Len(s) /\ Len(s) \in Nat /\ \A i \in DOMAIN s : s[i] \in V
<1>1. Len(s) \in Nat /\ DOMAIN s = 1 .. Len(s) /\ \A i \in DOMAIN s : s[i] \in V
  OBVIOUS
<1>2. IsFiniteSet(1 .. Len(s))
  <2>1. 1 \in Int /\ Len(s) \in Int
    BY <1>1
  <2> QED
    BY <2>1, FS_Interval, Zenon
<1> QED
  BY <1>1, <1>2

LEMMA TotalType ==
  ASSUME NEW V, NEW F \in [V -> Int], NEW s \in Seq(V)
  PROVE  Total(F, s) \in Int /\ (s = <<>> => Total(F, s) = 0)
<1> DEFINE e == [i \in DOMAIN s |-> F[s[i]]]
<1>1. IsFiniteSet(DOMAIN s) /\ \A i \in DOMAIN s : e[i] \in Int
  BY SequenceDomain
<1>2. s = <<>> => DOMAIN s = {}
  OBVIOUS
<1> HIDE DEF e
<1>3. SumFunctionOnSet(e, DOMAIN s) \in Int /\ (DOMAIN s = {} => SumFunctionOnSet(e, DOMAIN s) = 0)
  BY <1>1, SumType
<1> QED
  BY <1>2, <1>3 DEF Total, e

LEMMA TotalOfBoth ==
  ASSUME NEW V, NEW F \in [V -> Int], NEW s \in Seq(V), NEW t \in Seq(V)
  PROVE  Total(F, s \o t) = Total(F, s) + Total(F, t)
<1> DEFINE u == s \o t
           m == Len(s)
           n == Len(t)
           e(w) == [i \in DOMAIN w |-> F[w[i]]]
           T == m + 1 .. m + n
           h == [i \in DOMAIN t |-> m + i]
<1>1. u \in Seq(V) /\ Len(u) = m + n /\ m \in Nat /\ n \in Nat
  OBVIOUS
<1>2. /\ DOMAIN u = 1 .. m + n /\ DOMAIN s = 1 .. m /\ DOMAIN t = 1 .. n
      /\ \A i \in 1 .. m : u[i] = s[i]
      /\ \A i \in 1 .. n : u[m + i] = t[i]
  OBVIOUS
<1>3. /\ IsFiniteSet(DOMAIN s) /\ IsFiniteSet(DOMAIN t) /\ IsFiniteSet(DOMAIN u)
      /\ \A i \in DOMAIN s : s[i] \in V
      /\ \A i \in DOMAIN t : t[i] \in V
      /\ \A i \in DOMAIN u : u[i] \in V
  BY <1>1, SequenceDomain
<1> HIDE DEF u, m, n
<1>4. DOMAIN u = DOMAIN s \cup T /\ DOMAIN s \cap T = {} /\ IsFiniteSet(T)
  <2>1. DOMAIN u = DOMAIN s \cup T /\ DOMAIN s \cap T = {}
    BY <1>1, <1>2
  <2> QED
    BY <1>3, <2>1, FS_Subset
<1>5. \A i \in DOMAIN s : e(s)[i] \in Int /\ e(u)[i] = e(s)[i]
  BY <1>1, <1>2, <1>3
<1>6. /\ h \in [DOMAIN t -> T] /\ \A x, y \in DOMAIN t : h[x] = h[y] => x = y
      /\ \A z \in T : \E x \in DOMAIN t : h[x] = z
      /\ \A x \in DOMAIN t : e(t)[x] \in Int /\ e(u)[h[x]] = e(t)[x]
  <2>1. \A z \in T : z - m \in 1 .. n /\ m + (z - m) = z
    BY <1>1
  <2>2. \A i \in DOMAIN t : h[i] = m + i /\ m + i \in T
    BY <1>1, <1>2
  <2>3. \A z \in T : z - m \in DOMAIN t /\ h[z - m] = z
    BY <1>2, <2>1
  <2>4. \A i \in DOMAIN t : e(t)[i] \in Int /\ e(u)[m + i] = e(t)[i]
    <3> TAKE i \in DOMAIN t
    <3>1. m + i \in DOMAIN u /\ u[m + i] = t[i]
      BY <1>1, <1>2
    <3> QED
      BY <1>3, <3>1
  <2>5. \A x, y \in DOMAIN t : h[x] = h[y] => x = y
    BY <1>1, <1>2, <2>2
  <2>6. h \in [DOMAIN t -> T]
    BY <2>2
  <2> HIDE DEF h, T, e
  <2> QED
    BY <2>2, <2>3, <2>4, <2>5, <2>6
<1>7. \A i \in DOMAIN u : e(u)[i] \in Int
  BY <1>3
<1> HIDE DEF e, h, T
<1>8. SumFunctionOnSet(e(s), DOMAIN s) = SumFunctionOnSet(e(u), DOMAIN s)
  BY <1>3, <1>5, SumSame
<1>9. SumFunctionOnSet(e(t), DOMAIN t) = SumFunctionOnSet(e(u), T)
  <2> DEFINE a == e(t)
             b == e(u)
             D == DOMAIN t
  <2>1. /\ h \in [D -> T] /\ \A x, y \in D : h[x] = h[y] => x = y
        /\ \A z \in T : \E x \in D : h[x] = z
        /\ \A x \in D : a[x] \in Int /\ b[h[x]] = a[x]
        /\ IsFiniteSet(D)
    BY <1>3, <1>6
  <2> HIDE DEF a, b, D
  <2>2. SumFunctionOnSet(a, D) = SumFunctionOnSet(b, T)
    BY <2>1, SumReindexed
  <2> QED
    BY <2>2 DEF a, b, D
<1>10. SumFunctionOnSet(e(u), DOMAIN u) = SumFunctionOnSet(e(u), DOMAIN s) + SumFunctionOnSet(e(u), T)
  BY <1>3, <1>4, <1>7, SumOfBoth
<1> QED
  BY <1>8, <1>9, <1>10 DEF Total, e, u

LEMMA TotalOfOne ==
  ASSUME NEW V, NEW F \in [V -> Int], NEW v \in V
  PROVE  Total(F, <<v>>) = F[v]
<1> DEFINE e == [i \in DOMAIN <<v>> |-> F[<<v>>[i]]]
<1>1. DOMAIN <<v>> = {1} /\ e[1] = F[v] /\ F[v] \in Int
  OBVIOUS
<1> HIDE DEF e
<1>2. \A y \in {} \cup {1} : e[y] \in Int
  BY <1>1
<1>3. SumFunctionOnSet(e, {} \cup {1}) = e[1] + SumFunctionOnSet(e, {})
  BY <1>2, SumAdds, FS_EmptySet
<1>4. SumFunctionOnSet(e, {}) = 0 /\ {} \cup {1} = {1}
  BY SumType, FS_EmptySet
<1> QED
  BY <1>1, <1>3, <1>4 DEF Total, e
=============================================================================

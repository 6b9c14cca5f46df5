------------------------------ MODULE SumFacts ------------------------------
(***************************************************************************)
(* Facts about the sums of the models: SumFunctionOnSet of module          *)
(* Functions, over a finite set.                                           *)
(*                                                                         *)
(* The sum is a recursion over the subsets of its index set.  Induction    *)
(* over finite sets is used in its first-order form: a set of subsets that *)
(* has the empty one, and with a subset every one that has one element     *)
(* more, has them all.                                                     *)
(***************************************************************************)
EXTENDS Integers, Functions, FiniteSetTheorems, TLAPS

\* A collection that has the empty set, and with every subset of S the ones that
\* are larger by one element, has S.
LEMMA FiniteInduction ==
    ASSUME NEW S, IsFiniteSet(S), NEW G, {} \in G,
           \A T \in SUBSET S : \A x \in S \ T : T \in G => T \union {x} \in G
    PROVE  \A T \in SUBSET S : T \in G
<1> DEFINE R == StrictSubsetOrdering(S)
           Bad == {T \in SUBSET S : T \notin G}
<1>1. IsWellFoundedOn(R, SUBSET S)
    BY FS_StrictSubsetOrderingWellFounded, FS_FiniteSubsetsOfFinite
<1>2. SUFFICES ASSUME Bad # {} PROVE FALSE
    OBVIOUS
<1>3. PICK T \in Bad : \A U \in Bad : ~(<<U, T>> \in R)
  <2> HIDE DEF R
  <2> QED
    BY <1>1, <1>2, WFMin, Bad \subseteq SUBSET S
<1>4. PICK x \in T : TRUE
    OBVIOUS
<1>5. T \ {x} \in SUBSET S /\ <<T \ {x}, T>> \in R
    BY <1>4 DEF StrictSubsetOrdering
<1>6. T \ {x} \in G
    BY <1>3, <1>5
<1>7. (T \ {x}) \union {x} \in G
    BY <1>4, <1>5, <1>6
<1> QED
    BY <1>4, <1>7, (T \ {x}) \union {x} = T

\* The first index the sum takes from s, and the equation of its recursion.
FirstOf(s) == CHOOSE x \in s : TRUE
SumsUp(g, f, S) ==
    g = [s \in SUBSET S |-> IF s = {} THEN 0
                            ELSE LET x == FirstOf(s) IN f[x] + g[s \ {x}]]

\* A sum over S is the value at S of some function that satisfies the equation,
\* once there is one.
LEMMA SumIsRecursion ==
    ASSUME NEW f, NEW S, \E g : SumsUp(g, f, S)
    PROVE  \E g : SumsUp(g, f, S) /\ SumFunctionOnSet(f, S) = g[S]
BY DEF SumFunctionOnSet, FoldFunctionOnSet, MapThenFoldSet, SumsUp, FirstOf

\* A collection that has 0, and with every number the next one, has all.
LEMMA NaturalInduction ==
    ASSUME NEW G, 0 \in G, \A n \in Nat : n \in G => n + 1 \in G
    PROVE  \A n \in Nat : n \in G
<1> DEFINE R == OpToRel(<, Nat)
           Bad == {n \in Nat : n \notin G}
<1>1. IsWellFoundedOn(R, Nat)
    BY NatLessThanWellFounded
<1>2. SUFFICES ASSUME Bad # {} PROVE FALSE
    OBVIOUS
<1>3. PICK n \in Bad : \A m \in Bad : ~(<<m, n>> \in R)
  <2> HIDE DEF R
  <2> QED
    BY <1>1, <1>2, WFMin, Bad \subseteq Nat
<1>4. \A m \in Nat : m < n => <<m, n>> \in R
    BY <1>3 DEF OpToRel
<1> HIDE DEF R
<1>5. n \in Nat /\ n \notin G /\ n # 0 /\ n - 1 \in Nat
    BY <1>3
<1>6. n - 1 \in G
  <2>1. n - 1 < n
    BY <1>5
  <2>2. <<n - 1, n>> \in R
    BY <1>4, <1>5, <2>1
  <2> QED
    BY <1>3, <1>5, <2>2
<1>7. (n - 1) + 1 \in G
    BY <1>5, <1>6
<1> QED
    BY <1>5, <1>7

\* Over a finite set there is one.
LEMMA RecursionExists ==
    ASSUME NEW f, NEW S, IsFiniteSet(S)
    PROVE  \E g : SumsUp(g, f, S)
<1> DEFINE Sum(g, s) == IF s = {} THEN 0 ELSE f[FirstOf(s)] + g[s \ {FirstOf(s)}]
           Upto(n) == \E g : /\ g = [s \in SUBSET S |-> g[s]]
                             /\ \A s \in SUBSET S : Cardinality(s) <= n => g[s] = Sum(g, s)
           G == {n \in Nat : Upto(n)}
<1>0. \A s \in SUBSET S : IsFiniteSet(s) /\ Cardinality(s) \in Nat
    BY FS_Subset, FS_CardinalityType
<1>1. \A s \in SUBSET S : s # {} => FirstOf(s) \in s
    BY DEF FirstOf
<1>2. \A s \in SUBSET S : s # {} =>
          /\ s \ {FirstOf(s)} \in SUBSET S
          /\ Cardinality(s \ {FirstOf(s)}) = Cardinality(s) - 1
    BY <1>0, <1>1, FS_RemoveElement
<1>3. 0 \in G
  <2>1. \A s \in SUBSET S : Cardinality(s) <= 0 => s = {}
    BY <1>0, FS_EmptySet
  <2> DEFINE g == [s \in SUBSET S |-> 0]
  <2>2. g = [s \in SUBSET S |-> g[s]] /\ \A s \in SUBSET S : g[s] = 0
    OBVIOUS
  <2> HIDE DEF g
  <2> QED
    BY <2>1, <2>2
<1>4. ASSUME NEW n \in Nat, n \in G PROVE n + 1 \in G
  <2>1. PICK g : \A s \in SUBSET S : Cardinality(s) <= n => g[s] = Sum(g, s)
    BY <1>4
  <2> DEFINE h == [s \in SUBSET S |-> Sum(g, s)]
  <2>2. h = [s \in SUBSET S |-> h[s]] /\ \A s \in SUBSET S : h[s] = Sum(g, s)
    OBVIOUS
  <2> HIDE DEF h
  <2>3. ASSUME NEW s \in SUBSET S, Cardinality(s) <= n + 1 PROVE h[s] = Sum(h, s)
    <3>1. CASE s = {}
      BY <2>2, <3>1
    <3>2. CASE s # {}
      <4>1. Cardinality(s \ {FirstOf(s)}) <= n
        BY <1>0, <1>2, <2>3, <3>2
      <4>2. h[s \ {FirstOf(s)}] = g[s \ {FirstOf(s)}]
        BY <1>2, <2>1, <2>2, <3>2, <4>1
      <4> QED
        BY <2>2, <3>2, <4>2
    <3> QED
      BY <3>1, <3>2
  <2>4. Upto(n + 1)
    BY <2>2, <2>3
  <2> HIDE DEF Upto
  <2> QED
    BY <2>4
<1>5. Cardinality(S) \in G
  <2> HIDE DEF G
  <2> QED
    BY <1>0, <1>3, <1>4, NaturalInduction
<1>6. PICK g : /\ g = [s \in SUBSET S |-> g[s]]
               /\ \A s \in SUBSET S : Cardinality(s) <= Cardinality(S) => g[s] = Sum(g, s)
    BY <1>5
<1>7. \A s \in SUBSET S : g[s] = Sum(g, s)
    BY <1>6, FS_Subset
<1> QED
    BY <1>6, <1>7 DEF SumsUp

\* What the recursion adds up does not depend on the order: an element is taken
\* out of any subset.
LEMMA RecursionTakesAny ==
    ASSUME NEW f, NEW S, IsFiniteSet(S), NEW g, SumsUp(g, f, S),
           \A x \in S : f[x] \in Int
    PROVE  \A T \in SUBSET S :
               g[T] \in Int /\ \A x \in T : g[T] = f[x] + g[T \ {x}]
<1> DEFINE Good(T) == g[T] \in Int /\ \A x \in T : g[T] = f[x] + g[T \ {x}]
           Upto(n) == \A T \in SUBSET S : Cardinality(T) <= n => Good(T)
           G == {n \in Nat : Upto(n)}
<1>0. \A s \in SUBSET S : IsFiniteSet(s) /\ Cardinality(s) \in Nat
    BY FS_Subset, FS_CardinalityType
<1>1. \A T \in SUBSET S : \A x \in T :
          T \ {x} \in SUBSET S /\ Cardinality(T \ {x}) = Cardinality(T) - 1
    BY <1>0, FS_RemoveElement
<1>2. g[{}] = 0 /\ \A T \in SUBSET S : T # {} => g[T] = f[FirstOf(T)] + g[T \ {FirstOf(T)}]
    BY DEF SumsUp
<1>3. Upto(0)
  <2>1. \A T \in SUBSET S : Cardinality(T) <= 0 => T = {}
    BY <1>0, FS_EmptySet
  <2>2. Good({})
    BY <1>2
  <2> HIDE DEF Good
  <2> QED
    BY <2>1, <2>2
<1>4. ASSUME NEW n \in Nat, Upto(n) PROVE Upto(n + 1)
  <2>1. Good({})
    BY <1>2
  <2>2. ASSUME NEW T \in SUBSET S, Cardinality(T) <= n + 1, T # {} PROVE Good(T)
    <3>1. PICK y \in T : y = FirstOf(T)
      BY <2>2 DEF FirstOf
    <3>2. \A x \in T : T \ {x} \in SUBSET S /\ Cardinality(T \ {x}) <= n
      BY <1>0, <1>1, <2>2
    <3>3. \A x \in T : Good(T \ {x})
      <4> HIDE DEF Good
      <4> QED
        BY <1>4, <3>2
    <3>4. \A x \in T : f[x] \in Int /\ g[T \ {x}] \in Int
      BY <3>3
    <3>5. g[T] = f[y] + g[T \ {y}]
      BY <1>2, <2>2, <3>1
    <3>6. f[y] \in Int /\ g[T \ {y}] \in Int /\ g[T] \in Int
      <4>1. f[y] \in Int /\ g[T \ {y}] \in Int
        BY <3>4
      <4> QED
        BY <3>5, <4>1
    <3>7. ASSUME NEW x \in T, x # y PROVE g[T] = f[x] + g[T \ {x}]
      <4>1. x \in T \ {y} /\ y \in T \ {x} /\ (T \ {y}) \ {x} = (T \ {x}) \ {y}
        BY <3>7
      <4>2. /\ g[T \ {y}] = f[x] + g[(T \ {x}) \ {y}]
            /\ g[T \ {x}] = f[y] + g[(T \ {x}) \ {y}]
        BY <3>3, <4>1
      <4>3. g[(T \ {x}) \ {y}] \in Int
        <5>0. T \ {x} \in SUBSET S /\ Cardinality(T \ {x}) <= n
          BY <3>2
        <5>1. /\ (T \ {x}) \ {y} \in SUBSET S
              /\ Cardinality((T \ {x}) \ {y}) <= n
          BY <1>0, <1>1, <4>1, <5>0
        <5>2. Good((T \ {x}) \ {y})
          <6> HIDE DEF Good
          <6> QED
            BY <1>4, <5>1
        <5> QED
          BY <5>2
      <4> QED
        BY <3>6, <3>4, <3>5, <4>2, <4>3
    <3> QED
      BY <3>6, <3>5, <3>7
  <2> HIDE DEF Good
  <2> QED
    BY <2>1, <2>2
<1>5. Upto(Cardinality(S))
  <2> HIDE DEF Upto
  <2>1. 0 \in G /\ \A n \in Nat : n \in G => n + 1 \in G
    BY <1>3, <1>4
  <2>2. \A n \in Nat : n \in G
    <3> HIDE DEF G
    <3> QED
      BY <2>1, NaturalInduction
  <2> QED
    BY <1>0, <2>2
<1> QED
    BY <1>5, FS_Subset

\* One recursion over S gives the sums over all its subsets.
LEMMA SumOfSubset ==
    ASSUME NEW f, NEW S, IsFiniteSet(S), NEW g, SumsUp(g, f, S),
           \A x \in S : f[x] \in Int, NEW T \in SUBSET S
    PROVE  SumFunctionOnSet(f, T) = g[T]
<1>1. IsFiniteSet(T) /\ \A x \in T : f[x] \in Int
    BY FS_Subset
<1>2. PICK h : SumsUp(h, f, T) /\ SumFunctionOnSet(f, T) = h[T]
    BY <1>1, RecursionExists, SumIsRecursion
<1> DEFINE G == {U \in SUBSET T : h[U] = g[U]}
<1>3. {} \in G
    BY <1>2 DEF SumsUp
<1>4. ASSUME NEW U \in SUBSET T, NEW x \in T \ U, U \in G PROVE U \union {x} \in G
  <2> DEFINE V == U \union {x}
  <2>1. V \in SUBSET T /\ V \in SUBSET S /\ x \in V /\ V \ {x} = U
    BY <1>4
  <2> HIDE DEF V
  <2>2. h[V] = f[x] + h[U]
    BY <1>1, <1>2, <2>1, RecursionTakesAny
  <2>3. g[V] = f[x] + g[U]
    BY <2>1, RecursionTakesAny
  <2>4. h[V] = g[V]
    BY <1>4, <2>2, <2>3
  <2> QED
    BY <2>1, <2>4 DEF V
<1>5. T \in G
  <2> HIDE DEF G
  <2> QED
    BY <1>1, <1>3, <1>4, FiniteInduction
<1> QED
    BY <1>2, <1>5

\* A sum over no index is 0.
LEMMA SumEmpty == ASSUME NEW f PROVE SumFunctionOnSet(f, {}) = 0
<1>1. IsFiniteSet({})
    BY FS_EmptySet
<1>2. PICK g : SumsUp(g, f, {}) /\ SumFunctionOnSet(f, {}) = g[{}]
    BY <1>1, RecursionExists, SumIsRecursion
<1> QED
    BY <1>2 DEF SumsUp

\* A sum of integers is one.
LEMMA SumIsInt ==
    ASSUME NEW f, NEW S, IsFiniteSet(S), \A x \in S : f[x] \in Int
    PROVE  SumFunctionOnSet(f, S) \in Int
<1>1. PICK g : SumsUp(g, f, S)
    BY RecursionExists
<1> QED
    BY <1>1, SumOfSubset, RecursionTakesAny

\* One more index adds its value.
LEMMA SumAdd ==
    ASSUME NEW f, NEW S, IsFiniteSet(S), NEW x, x \notin S,
           \A y \in S \union {x} : f[y] \in Int
    PROVE  SumFunctionOnSet(f, S \union {x}) = f[x] + SumFunctionOnSet(f, S)
<1> DEFINE V == S \union {x}
<1>1. IsFiniteSet(V) /\ x \in V /\ S \in SUBSET V /\ V \in SUBSET V /\ V \ {x} = S
    BY FS_AddElement
<1>2. \A y \in V : f[y] \in Int
    OBVIOUS
<1> HIDE DEF V
<1>3. PICK g : SumsUp(g, f, V)
    BY <1>1, RecursionExists
<1>4. g[V] = f[x] + g[S]
    BY <1>1, <1>2, <1>3, RecursionTakesAny
<1>5. SumFunctionOnSet(f, V) = g[V] /\ SumFunctionOnSet(f, S) = g[S]
    BY <1>1, <1>2, <1>3, SumOfSubset
<1> QED
    BY <1>4, <1>5 DEF V

\* A function that is the sum of two others adds up to the sum of their sums.
LEMMA SumPlus ==
    ASSUME NEW S, IsFiniteSet(S), NEW f, NEW g, NEW h,
           \A x \in S : f[x] \in Int /\ g[x] \in Int /\ h[x] = f[x] + g[x]
    PROVE  SumFunctionOnSet(h, S) = SumFunctionOnSet(f, S) + SumFunctionOnSet(g, S)
<1> DEFINE Sums(T) == SumFunctionOnSet(h, T) = SumFunctionOnSet(f, T) + SumFunctionOnSet(g, T)
           G == {T \in SUBSET S : Sums(T)}
<1>1. {} \in G
    BY SumEmpty
<1>2. ASSUME NEW T \in SUBSET S, NEW x \in S \ T, T \in G PROVE T \union {x} \in G
  <2>1. IsFiniteSet(T) /\ \A y \in T \union {x} : f[y] \in Int /\ g[y] \in Int /\ h[y] \in Int
    BY FS_Subset
  <2>2. /\ SumFunctionOnSet(f, T) \in Int /\ SumFunctionOnSet(g, T) \in Int
        /\ SumFunctionOnSet(f, T \union {x}) = f[x] + SumFunctionOnSet(f, T)
        /\ SumFunctionOnSet(g, T \union {x}) = g[x] + SumFunctionOnSet(g, T)
        /\ SumFunctionOnSet(h, T \union {x}) = h[x] + SumFunctionOnSet(h, T)
    BY <2>1, SumAdd, SumIsInt
  <2>3. /\ f[x] \in Int /\ g[x] \in Int /\ h[x] = f[x] + g[x]
        /\ SumFunctionOnSet(h, T) = SumFunctionOnSet(f, T) + SumFunctionOnSet(g, T)
    BY <1>2
  <2>4. Sums(T \union {x})
    BY <2>2, <2>3
  <2> QED
    BY <2>4
<1>3. S \in G
  <2> HIDE DEF G
  <2> QED
    BY <1>1, <1>2, FiniteInduction
<1> QED
    BY <1>3

\* Only the indices with a value other than 0 count.
LEMMA SumOfSupport ==
    ASSUME NEW S, IsFiniteSet(S), NEW T \in SUBSET S, NEW f,
           \A x \in S : f[x] \in Int, \A x \in S \ T : f[x] = 0
    PROVE  SumFunctionOnSet(f, S) = SumFunctionOnSet(f, T)
<1>0. PICK D : D = S \ T
    OBVIOUS
<1> DEFINE G == {U \in SUBSET D : SumFunctionOnSet(f, T \union U) = SumFunctionOnSet(f, T)}
<1>1. {} \in G
    BY T \union {} = T
<1>2. ASSUME NEW U \in SUBSET D, NEW x \in D \ U, U \in G PROVE U \union {x} \in G
  <2>1. IsFiniteSet(T \union U) /\ x \notin T \union U
    BY <1>0, FS_Subset, T \union U \in SUBSET S
  <2>2. SumFunctionOnSet(f, (T \union U) \union {x}) = f[x] + SumFunctionOnSet(f, T \union U)
    BY <1>0, <2>1, SumAdd
  <2>3. SumFunctionOnSet(f, T) \in Int
    BY FS_Subset, SumIsInt
  <2>4. SumFunctionOnSet(f, (T \union U) \union {x}) = SumFunctionOnSet(f, T)
    BY <1>0, <1>2, <2>2, <2>3
  <2> QED
    BY <2>4, T \union (U \union {x}) = (T \union U) \union {x}
<1>3. IsFiniteSet(D)
    BY <1>0, FS_Subset
<1>4. D \in G
  <2> HIDE DEF G
  <2>1. \A U \in SUBSET D : \A x \in D \ U : U \in G => U \union {x} \in G
    BY <1>2
  <2>2. \A U \in SUBSET D : U \in G
    BY <1>1, <1>3, <2>1, FiniteInduction
  <2> QED
    BY <2>2
<1> QED
    BY <1>0, <1>4, T \union D = S

\* Functions that agree on the indices have the same sum.
LEMMA SumSame ==
    ASSUME NEW S, IsFiniteSet(S), NEW f, NEW g,
           \A x \in S : f[x] \in Int /\ g[x] = f[x]
    PROVE  SumFunctionOnSet(g, S) = SumFunctionOnSet(f, S)
<1> DEFINE zero == [x \in S |-> 0]
<1>1. \A x \in S : f[x] \in Int /\ zero[x] \in Int /\ g[x] = f[x] + zero[x]
    OBVIOUS
<1>2. \A x \in S \ {} : zero[x] = 0
    OBVIOUS
<1>3. {} \in SUBSET S /\ \A x \in S : zero[x] \in Int
    OBVIOUS
<1> HIDE DEF zero
<1>4. SumFunctionOnSet(zero, S) = 0
    BY <1>2, <1>3, SumOfSupport, SumEmpty
<1>5. SumFunctionOnSet(g, S) = SumFunctionOnSet(f, S) + SumFunctionOnSet(zero, S)
    BY <1>1, SumPlus
<1> QED
    BY <1>4, <1>5, SumIsInt

\* A sum of natural numbers is one.
LEMMA SumIsNat ==
    ASSUME NEW f, NEW S, IsFiniteSet(S), \A x \in S : f[x] \in Nat
    PROVE  SumFunctionOnSet(f, S) \in Nat
<1> DEFINE G == {T \in SUBSET S : SumFunctionOnSet(f, T) \in Nat}
<1>1. {} \in G
    BY SumEmpty
<1>2. ASSUME NEW T \in SUBSET S, NEW x \in S \ T, T \in G PROVE T \union {x} \in G
  <2>1. IsFiniteSet(T) /\ \A y \in T \union {x} : f[y] \in Int
    BY FS_Subset
  <2>2. SumFunctionOnSet(f, T \union {x}) = f[x] + SumFunctionOnSet(f, T)
    BY <2>1, SumAdd
  <2> QED
    BY <1>2, <2>2
<1>3. S \in G
  <2> HIDE DEF G
  <2> QED
    BY <1>1, <1>2, FiniteInduction
<1> QED
    BY <1>3

\* Where one value changes, the sum changes by as much.
LEMMA SumChange ==
    ASSUME NEW S, IsFiniteSet(S), NEW x \in S, NEW f, NEW g,
           \A y \in S : f[y] \in Int /\ g[y] \in Int,
           \A y \in S \ {x} : g[y] = f[y]
    PROVE  SumFunctionOnSet(g, S) = SumFunctionOnSet(f, S) - f[x] + g[x]
<1>1. PICK T : T = S \ {x}
    OBVIOUS
<1>2. IsFiniteSet(T) /\ x \notin T /\ S = T \union {x} /\ T \in SUBSET S
    BY <1>1, FS_Subset
<1>3. SumFunctionOnSet(f, S) = f[x] + SumFunctionOnSet(f, T)
      /\ SumFunctionOnSet(g, S) = g[x] + SumFunctionOnSet(g, T)
    BY <1>2, SumAdd
<1>4. SumFunctionOnSet(g, T) = SumFunctionOnSet(f, T)
    BY <1>1, <1>2, SumSame
<1>5. SumFunctionOnSet(f, T) \in Int
    BY <1>2, SumIsInt
<1> QED
    BY <1>3, <1>4, <1>5

\* A function that is nowhere below another has no smaller sum.
LEMMA SumAtMost ==
    ASSUME NEW S, IsFiniteSet(S), NEW f, NEW g,
           \A x \in S : f[x] \in Int /\ g[x] \in Int /\ f[x] <= g[x]
    PROVE  SumFunctionOnSet(f, S) <= SumFunctionOnSet(g, S)
<1> DEFINE more == [x \in S |-> g[x] - f[x]]
<1>1. \A x \in S : more[x] \in Nat /\ g[x] = f[x] + more[x]
    OBVIOUS
<1> HIDE DEF more
<1>2. SumFunctionOnSet(g, S) = SumFunctionOnSet(f, S) + SumFunctionOnSet(more, S)
    BY <1>1, SumPlus
<1>3. SumFunctionOnSet(more, S) \in Nat /\ SumFunctionOnSet(f, S) \in Int
    BY <1>1, SumIsNat, SumIsInt
<1> QED
    BY <1>2, <1>3

\* Fewer natural numbers have no larger sum.
LEMMA SumOfPart ==
    ASSUME NEW S, IsFiniteSet(S), NEW T \in SUBSET S, NEW f, \A x \in S : f[x] \in Nat
    PROVE  SumFunctionOnSet(f, T) <= SumFunctionOnSet(f, S)
<1> DEFINE part == [x \in S |-> IF x \in T THEN f[x] ELSE 0]
<1>1. /\ \A x \in S : f[x] \in Int /\ part[x] \in Int /\ part[x] <= f[x]
      /\ \A x \in S \ T : part[x] = 0
      /\ \A x \in T : f[x] \in Int /\ part[x] = f[x]
    OBVIOUS
<1> HIDE DEF part
<1>2. IsFiniteSet(T)
    BY FS_Subset
<1>3. SumFunctionOnSet(part, S) = SumFunctionOnSet(part, T)
    BY <1>1, SumOfSupport
<1>4. SumFunctionOnSet(part, T) = SumFunctionOnSet(f, T)
    BY <1>1, <1>2, SumSame
<1>5. SumFunctionOnSet(part, S) <= SumFunctionOnSet(f, S)
    BY <1>1, SumAtMost
<1> QED
    BY <1>3, <1>4, <1>5

\* A finite set of numbers with a member has a largest one.
LEMMA HasLargest ==
    ASSUME NEW S \in SUBSET Nat, IsFiniteSet(S), S # {}
    PROVE  \E m \in S : \A k \in S : k <= m
<1> DEFINE G == {T \in SUBSET S : T = {} \/ \E m \in T : \A k \in T : k <= m}
<1>1. {} \in G
    OBVIOUS
<1>2. ASSUME NEW T \in SUBSET S, NEW x \in S \ T, T \in G PROVE T \union {x} \in G
  <2>1. CASE T = {}
    BY <2>1
  <2>2. CASE T # {}
    <3>1. PICK m \in T : \A k \in T : k <= m
      BY <1>2, <2>2
    <3>2. x \in Nat /\ m \in Nat /\ T \subseteq Nat
      OBVIOUS
    <3>3. CASE x <= m
      BY <3>1, <3>2, <3>3
    <3>4. CASE m < x
      <4>1. \A k \in T \union {x} : k <= x
        BY <3>1, <3>2, <3>4
      <4> QED
        BY <4>1
    <3> QED
      BY <3>2, <3>3, <3>4
  <2> QED
    BY <2>1, <2>2
<1>3. S \in G
  <2> HIDE DEF G
  <2> QED
    BY <1>1, <1>2, FiniteInduction
<1> QED
    BY <1>3
=============================================================================

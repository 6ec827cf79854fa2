--------------------------------- MODULE Sums ---------------------------------
(***************************************************************************)
(* Induction over the natural numbers and over the subsets of a finite set,*)
(* stated with sets instead of predicates, and what it gives about the sums*)
(* of SumFunction.                                                         *)
(***************************************************************************)
EXTENDS Integers, FiniteSets, FiniteSetsExt, Functions, FiniteSetTheorems,
        WellFoundedInduction, TLAPS

\* The element a fold takes out of a set.
Taken(T) == CHOOSE x \in T : TRUE

\* The partial sums that SumFunction(f) folds through.
IsSum(g, f) ==
  g = [T \in SUBSET DOMAIN f |-> IF T = {} THEN 0 ELSE f[Taken(T)] + g[T \ {Taken(T)}]]

-------------------------------------------------------------------------------
\* A set of natural numbers that is not empty has a smallest element.
LEMMA Smallest ==
  ASSUME NEW T \in SUBSET Nat, T # {}
  PROVE  \E n \in T : \A m \in T : n <= m
<1> DEFINE Less == {p \in Nat \X Nat : p[1] < p[2]}
<1>1. OpToRel(<, Nat) = Less
  BY DEF OpToRel
<1>2. IsWellFoundedOn(Less, Nat)
  BY <1>1, NatLessThanWellFounded
<1>3. PICK n \in T : \A m \in T : <<m, n>> \notin Less
  <2> HIDE DEF Less
  <2> QED
    BY <1>2, WFMin
<1>4. \A m \in T : ~ (m < n)
  BY <1>3
<1> QED
  BY <1>4

\* A set that holds 0 and the successor of each of its numbers holds every number.
LEMMA NatInductionSet ==
  ASSUME NEW T, 0 \in T, \A n \in Nat : n \in T => n + 1 \in T
  PROVE  Nat \subseteq T
<1> SUFFICES ASSUME Nat \ T # {} PROVE FALSE
  OBVIOUS
<1>1. PICK n \in Nat \ T : \A m \in Nat \ T : n <= m
  BY Smallest
<1>2. n # 0 /\ n - 1 \in Nat
  BY <1>1
<1>3. n - 1 \in T
  BY <1>1, <1>2
<1> QED
  BY <1>1, <1>2, <1>3

\* What is taken out of a set is one of its elements.
LEMMA TakenIn == \A T : T # {} => Taken(T) \in T
BY DEF Taken

\* What holds of the empty set and of a set as soon as it holds of the set without
\* the element a fold takes out holds of every finite set.
LEMMA SubsetInduction ==
  ASSUME NEW S, IsFiniteSet(S), NEW Good,
         {} \in Good,
         \A T \in SUBSET S : T # {} /\ T \ {Taken(T)} \in Good => T \in Good
  PROVE  SUBSET S \subseteq Good
<1> DEFINE Sizes == {n \in Nat : \A T \in SUBSET S : Cardinality(T) = n => T \in Good}
<1>1. \A T \in SUBSET S : IsFiniteSet(T) /\ Cardinality(T) \in Nat
  BY FS_Subset, FS_CardinalityType
<1>2. 0 \in Sizes
  BY <1>1, FS_EmptySet
<1>3. ASSUME NEW n \in Nat, n \in Sizes PROVE n + 1 \in Sizes
  <2> SUFFICES ASSUME NEW T \in SUBSET S, Cardinality(T) = n + 1 PROVE T \in Good
    OBVIOUS
  <2>1. T # {}
    <3>1. Cardinality({}) = 0
      BY FS_EmptySet
    <3> QED
      BY <3>1
  <2>2. Taken(T) \in T
    BY <2>1, TakenIn
  <2>3. Cardinality(T \ {Taken(T)}) = n
    BY <1>1, <2>2, FS_RemoveElement
  <2>4. T \ {Taken(T)} \in Good
    BY <1>3, <2>3
  <2> QED
    BY <2>1, <2>4
<1> HIDE DEF Sizes
<1>4. Nat \subseteq Sizes
  BY <1>2, <1>3, NatInductionSet
<1> QED
  BY <1>1, <1>4 DEF Sizes

-------------------------------------------------------------------------------
\* Over a finite set there are partial sums.
LEMMA SumExists ==
  ASSUME NEW f, IsFiniteSet(DOMAIN f)
  PROVE  \E g : IsSum(g, f)
<1> DEFINE S == DOMAIN f
           Eq(g, T) == g[T] = IF T = {} THEN 0 ELSE f[Taken(T)] + g[T \ {Taken(T)}]
           Good == {n \in Nat : \E g : DOMAIN g = SUBSET S /\ g = [T \in SUBSET S |-> g[T]] /\
                                \A T \in SUBSET S : Cardinality(T) <= n => Eq(g, T)}
<1>1. \A T \in SUBSET S : IsFiniteSet(T) /\ Cardinality(T) \in Nat /\ Cardinality(T) <= Cardinality(S)
  BY FS_Subset, FS_CardinalityType
<1>2. \A T \in SUBSET S : T # {} => Cardinality(T \ {Taken(T)}) = Cardinality(T) - 1
  BY <1>1, TakenIn, FS_RemoveElement
<1>3. 0 \in Good
  <2> DEFINE g == [T \in SUBSET S |-> 0]
  <2>1. \A T \in SUBSET S : Cardinality(T) <= 0 => T = {}
    BY <1>1, FS_EmptySet
  <2>2. \A T \in SUBSET S : Cardinality(T) <= 0 => Eq(g, T)
    BY <2>1
  <2> QED
    BY <2>2
<1>4. ASSUME NEW n \in Nat, n \in Good PROVE n + 1 \in Good
  <2>1. PICK g : \A T \in SUBSET S : Cardinality(T) <= n => Eq(g, T)
    BY <1>4
  <2> DEFINE h == [T \in SUBSET S |-> IF T = {} THEN 0 ELSE f[Taken(T)] + g[T \ {Taken(T)}]]
  <2>2. DOMAIN h = SUBSET S /\ h = [T \in SUBSET S |-> h[T]]
    OBVIOUS
  <2>3. ASSUME NEW T \in SUBSET S, Cardinality(T) <= n + 1 PROVE Eq(h, T)
    <3>1. CASE T = {}
      BY <3>1
    <3>2. CASE T # {}
      <4>1. Cardinality(T \ {Taken(T)}) <= n /\ T \ {Taken(T)} \in SUBSET S
        BY <1>1, <1>2, <2>3, <3>2
      <4>2. g[T \ {Taken(T)}] = h[T \ {Taken(T)}]
        BY <2>1, <4>1
      <4> QED
        BY <3>2, <4>2
    <3> QED
      BY <3>1, <3>2
  <2>4. \A T \in SUBSET S : Cardinality(T) <= n + 1 => Eq(h, T)
    BY <2>3
  <2> HIDE DEF h
  <2>5. \E k : /\ DOMAIN k = SUBSET S /\ k = [T \in SUBSET S |-> k[T]]
              /\ \A T \in SUBSET S : Cardinality(T) <= n + 1 => Eq(k, T)
    BY <2>2, <2>4, Zenon
  <2>6. n + 1 \in Nat
    OBVIOUS
  <2> HIDE DEF Eq
  <2> QED
    BY <2>5, <2>6, Zenon
<1> HIDE DEF Good
<1>5. Cardinality(S) \in Good
  BY <1>1, <1>3, <1>4, NatInductionSet
<1>6. PICK g : g = [T \in SUBSET S |-> g[T]] /\ \A T \in SUBSET S : Eq(g, T)
  BY <1>1, <1>5 DEF Good
<1>7. IsSum(g, f)
  BY <1>6 DEF IsSum
<1> QED
  BY <1>7

\* SumFunction adds up some partial sums.
LEMMA SumDef ==
  ASSUME NEW f, IsFiniteSet(DOMAIN f)
  PROVE  \E g : IsSum(g, f) /\ SumFunction(f) = g[DOMAIN f]
<1> DEFINE g == CHOOSE g : g = [T \in SUBSET DOMAIN f |-> IF T = {} THEN 0 ELSE f[Taken(T)] + g[T \ {Taken(T)}]]
<1>1. SumFunction(f) = g[DOMAIN f]
  BY DEF SumFunction, SumFunctionOnSet, FoldFunctionOnSet, MapThenFoldSet, Taken
<1>2. g = CHOOSE h : IsSum(h, f)
  BY DEF IsSum
<1>3. IsSum(g, f)
  BY <1>2, SumExists
<1> HIDE DEF g
<1> QED
  BY <1>1, <1>3


\* Each partial sum is an element more than a smaller one.
LEMMA SumStep ==
  ASSUME NEW f, NEW S, DOMAIN f = S, NEW g, IsSum(g, f)
  PROVE  /\ g[{}] = 0
         /\ \A T \in SUBSET S : T # {} =>
              /\ T \ {Taken(T)} \in SUBSET S /\ Taken(T) \in S
              /\ g[T] = f[Taken(T)] + g[T \ {Taken(T)}]
<1>1. \A T \in SUBSET DOMAIN f : g[T] = IF T = {} THEN 0 ELSE f[Taken(T)] + g[T \ {Taken(T)}]
  BY DEF IsSum
<1>2. \A T \in SUBSET DOMAIN f : T # {} => Taken(T) \in T
  BY TakenIn
<1> QED
  BY <1>1, <1>2

\* A sum of natural numbers is one.
LEMMA SumNat ==
  ASSUME NEW S, IsFiniteSet(S), NEW f \in [S -> Nat]
  PROVE  SumFunction(f) \in Nat
<1>0. DOMAIN f = S
  OBVIOUS
<1>1. PICK g : IsSum(g, f) /\ SumFunction(f) = g[S]
  BY <1>0, SumDef
<1> DEFINE Good == {T \in SUBSET S : g[T] \in Nat}
<1>2. {} \in Good
  BY <1>0, <1>1, SumStep
<1>3. ASSUME NEW T \in SUBSET S, T # {}, T \ {Taken(T)} \in Good PROVE T \in Good
  <2>1. g[T] = f[Taken(T)] + g[T \ {Taken(T)}] /\ Taken(T) \in S
    BY <1>0, <1>1, <1>3, SumStep
  <2>2. f[Taken(T)] \in Nat /\ g[T \ {Taken(T)}] \in Nat
    BY <1>3, <2>1
  <2> QED
    BY <2>1, <2>2
<1> HIDE DEF Good
<1>4. S \in Good
  BY <1>2, <1>3, SubsetInduction
<1> QED
  BY <1>1, <1>4 DEF Good

\* A sum of zeros is zero.
LEMMA SumZero ==
  ASSUME NEW S, IsFiniteSet(S)
  PROVE  SumFunction([x \in S |-> 0]) = 0
<1> DEFINE f == [x \in S |-> 0]
<1>0. DOMAIN f = S /\ \A x \in S : f[x] = 0
  OBVIOUS
<1> HIDE DEF f
<1>1. PICK g : IsSum(g, f) /\ SumFunction(f) = g[S]
  BY <1>0, SumDef
<1> DEFINE Good == {T \in SUBSET S : g[T] = 0}
<1>2. {} \in Good
  BY <1>0, <1>1, SumStep
<1>3. ASSUME NEW T \in SUBSET S, T # {}, T \ {Taken(T)} \in Good PROVE T \in Good
  <2>1. g[T] = f[Taken(T)] + g[T \ {Taken(T)}] /\ Taken(T) \in S
    BY <1>0, <1>1, <1>3, SumStep
  <2>2. f[Taken(T)] = 0 /\ g[T \ {Taken(T)}] = 0
    BY <1>0, <1>3, <2>1
  <2> QED
    BY <2>1, <2>2
<1> HIDE DEF Good
<1>4. S \in Good
  BY <1>2, <1>3, SubsetInduction
<1>5. SumFunction(f) = 0
  BY <1>1, <1>4 DEF Good
<1> QED
  BY <1>5 DEF f

\* A sum grows with what it adds up.
LEMMA SumMonotone ==
  ASSUME NEW S, IsFiniteSet(S), NEW f \in [S -> Nat], NEW h \in [S -> Nat],
         \A x \in S : f[x] <= h[x]
  PROVE  SumFunction(f) <= SumFunction(h)
<1>0. DOMAIN f = S /\ DOMAIN h = S
  OBVIOUS
<1>1. PICK g : IsSum(g, f) /\ SumFunction(f) = g[S]
  BY <1>0, SumDef
<1>2. PICK k : IsSum(k, h) /\ SumFunction(h) = k[S]
  BY <1>0, SumDef
<1> DEFINE Good == {T \in SUBSET S : g[T] \in Nat /\ k[T] \in Nat /\ g[T] <= k[T]}
<1>3. {} \in Good
  BY <1>0, <1>1, <1>2, SumStep
<1>4. ASSUME NEW T \in SUBSET S, T # {}, T \ {Taken(T)} \in Good PROVE T \in Good
  <2>1. /\ g[T] = f[Taken(T)] + g[T \ {Taken(T)}] /\ k[T] = h[Taken(T)] + k[T \ {Taken(T)}]
        /\ Taken(T) \in S
    BY <1>0, <1>1, <1>2, <1>4, SumStep
  <2>2. f[Taken(T)] \in Nat /\ h[Taken(T)] \in Nat /\ f[Taken(T)] <= h[Taken(T)]
    BY <2>1
  <2>3. /\ g[T \ {Taken(T)}] \in Nat /\ k[T \ {Taken(T)}] \in Nat
        /\ g[T \ {Taken(T)}] <= k[T \ {Taken(T)}]
    BY <1>4
  <2> QED
    BY <2>1, <2>2, <2>3
<1> HIDE DEF Good
<1>5. S \in Good
  BY <1>3, <1>4, SubsetInduction
<1> QED
  BY <1>1, <1>2, <1>5 DEF Good

\* One more at one element is one more in all.
LEMMA SumRaise ==
  ASSUME NEW S, IsFiniteSet(S), NEW f \in [S -> Nat], NEW x \in S
  PROVE  SumFunction([f EXCEPT ![x] = @ + 1]) = SumFunction(f) + 1
<1> DEFINE h == [f EXCEPT ![x] = @ + 1]
<1>0. DOMAIN f = S /\ DOMAIN h = S /\ h[x] = f[x] + 1 /\ \A y \in S : y # x => h[y] = f[y]
  OBVIOUS
<1> HIDE DEF h
<1>1. PICK g : IsSum(g, f) /\ SumFunction(f) = g[S]
  BY <1>0, SumDef
<1>2. PICK k : IsSum(k, h) /\ SumFunction(h) = k[S]
  BY <1>0, SumDef
<1> DEFINE Good == {T \in SUBSET S : g[T] \in Nat /\ k[T] = g[T] + (IF x \in T THEN 1 ELSE 0)}
<1>3. {} \in Good
  BY <1>0, <1>1, <1>2, SumStep
<1>4. ASSUME NEW T \in SUBSET S, T # {}, T \ {Taken(T)} \in Good PROVE T \in Good
  <2>1. /\ g[T] = f[Taken(T)] + g[T \ {Taken(T)}] /\ k[T] = h[Taken(T)] + k[T \ {Taken(T)}]
        /\ Taken(T) \in S
    <3>1. g[T] = f[Taken(T)] + g[T \ {Taken(T)}] /\ Taken(T) \in S
      BY <1>0, <1>1, <1>4, SumStep
    <3>2. k[T] = h[Taken(T)] + k[T \ {Taken(T)}]
      BY <1>0, <1>2, <1>4, SumStep
    <3> QED
      BY <3>1, <3>2
  <2>2. f[Taken(T)] \in Nat /\ g[T \ {Taken(T)}] \in Nat
    BY <1>4, <2>1
  <2>3. Taken(T) \in T
    BY <1>4, TakenIn
  <2>4. CASE Taken(T) = x
    <3>1. k[T \ {Taken(T)}] = g[T \ {Taken(T)}]
      BY <1>4, <2>2, <2>4
    <3>2. h[Taken(T)] = f[Taken(T)] + 1
      BY <1>0, <2>4
    <3> QED
      BY <2>1, <2>2, <2>3, <2>4, <3>1, <3>2
  <2>5. CASE Taken(T) # x
    <3>1. k[T \ {Taken(T)}] = g[T \ {Taken(T)}] + (IF x \in T THEN 1 ELSE 0)
      BY <1>4, <2>5
    <3>2. h[Taken(T)] = f[Taken(T)]
      BY <1>0, <2>1, <2>5
    <3> QED
      BY <2>1, <2>2, <3>1, <3>2
  <2> QED
    BY <2>4, <2>5
<1> HIDE DEF Good
<1>5. S \in Good
  BY <1>3, <1>4, SubsetInduction
<1>6. SumFunction(h) = SumFunction(f) + 1
  BY <1>1, <1>2, <1>5 DEF Good
<1> QED
  BY <1>6 DEF h

===============================================================================

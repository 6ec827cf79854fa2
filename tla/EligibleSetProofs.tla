--------------------------- MODULE EligibleSetProofs ---------------------------
(***************************************************************************)
(* Proofs about the trees of commitments, for trees of every size: what an *)
(* issuer's proofs show, and what a root commits its issuer to.            *)
(***************************************************************************)
EXTENDS EligibleSet, Sums

-------------------------------------------------------------------------------
(***************************************************************************)
(* The recursive functions of the model, by their steps.                   *)
(***************************************************************************)
\* The nodes on the way up from a leaf.
LEMMA ClimbSteps ==
  ASSUME NEW leaf, NEW siblings, Len(siblings) \in Nat, NEW right
  PROVE  LET node == Climb(leaf, siblings, right)
         IN  /\ node[0] = leaf
             /\ \A n \in 1..Len(siblings) :
                  node[n] = IF n \in right THEN hash_pair(siblings[n], node[n - 1])
                                          ELSE hash_pair(node[n - 1], siblings[n])
<1> DEFINE N == Len(siblings)
           Step(x, n) == IF n \in right THEN hash_pair(siblings[n], x)
                         ELSE hash_pair(x, siblings[n])
           Eq(g, n) == g[n] = IF n = 0 THEN leaf ELSE Step(g[n - 1], n)
           Good == {m \in Nat : \E g : /\ DOMAIN g = 0..N /\ g = [n \in 0..N |-> g[n]]
                                       /\ \A n \in 0..N : n <= m => Eq(g, n)}
<1>1. 0 \in Good
  <2> DEFINE g == [n \in 0..N |-> leaf]
  <2>1. \A n \in 0..N : n <= 0 => Eq(g, n)
    OBVIOUS
  <2>2. DOMAIN g = 0..N /\ g = [n \in 0..N |-> g[n]]
    OBVIOUS
  <2> HIDE DEF Eq, g
  <2> QED
    BY <2>1, <2>2
<1>2. ASSUME NEW m \in Nat, m \in Good PROVE m + 1 \in Good
  <2>1. PICK g : \A n \in 0..N : n <= m => Eq(g, n)
    BY <1>2
  <2> DEFINE h == [n \in 0..N |-> IF n = 0 THEN leaf ELSE Step(g[n - 1], n)]
  <2>2. DOMAIN h = 0..N /\ h = [n \in 0..N |-> h[n]]
    OBVIOUS
  <2>3. ASSUME NEW n \in 0..N, n <= m + 1 PROVE Eq(h, n)
    <3>1. CASE n = 0
      BY <3>1
    <3>2. CASE n # 0
      <4>1. n - 1 \in 0..N /\ n - 1 <= m
        BY <2>3, <3>2
      <4>2. g[n - 1] = h[n - 1]
        BY <2>1, <4>1
      <4> QED
        BY <3>2, <4>2
    <3> QED
      BY <3>1, <3>2
  <2>4. \A n \in 0..N : n <= m + 1 => Eq(h, n)
    BY <2>3
  <2>5. m + 1 \in Nat
    OBVIOUS
  <2> HIDE DEF h, Eq
  <2>6. \E k : /\ DOMAIN k = 0..N /\ k = [n \in 0..N |-> k[n]]
               /\ \A n \in 0..N : n <= m + 1 => Eq(k, n)
    BY <2>2, <2>4, Zenon
  <2> QED
    BY <2>5, <2>6, Zenon
<1> HIDE DEF Good
<1>3. N \in Good
  BY <1>1, <1>2, NatInductionSet
<1>4. PICK g : g = [n \in 0..N |-> g[n]] /\ \A n \in 0..N : Eq(g, n)
  BY <1>3 DEF Good
<1>5. g = [n \in 0..N |-> IF n = 0 THEN leaf ELSE Step(g[n - 1], n)]
  BY <1>4
<1> DEFINE f == Climb(leaf, siblings, right)
<1>6. f = [n \in 0..N |-> IF n = 0 THEN leaf ELSE Step(f[n - 1], n)]
  <2>1. f = CHOOSE k : k = [n \in 0..N |-> IF n = 0 THEN leaf ELSE Step(k[n - 1], n)]
    BY DEF Climb
  <2> HIDE DEF f
  <2> QED
    BY <1>5, <2>1
<1> HIDE DEF f
<1>7. \A n \in 0..N : f[n] = IF n = 0 THEN leaf ELSE Step(f[n - 1], n)
  BY <1>6
<1>8. f[0] = leaf /\ \A n \in 1..N : f[n] = Step(f[n - 1], n)
  BY <1>7
<1> QED
  BY <1>8 DEF f

\* The levels above a row of nodes.
LEMMA LevelSteps ==
  ASSUME NEW base, Len(base) \in Nat
  PROVE  LET level == Levels(base)
         IN  /\ level[0] = base
             /\ \A n \in 1..Len(base) : level[n] = NextLevel(level[n - 1])
<1> DEFINE N == Len(base)
           Step(x, n) == NextLevel(x)
           Eq(g, n) == g[n] = IF n = 0 THEN base ELSE Step(g[n - 1], n)
           Good == {m \in Nat : \E g : /\ DOMAIN g = 0..N /\ g = [n \in 0..N |-> g[n]]
                                       /\ \A n \in 0..N : n <= m => Eq(g, n)}
<1>1. 0 \in Good
  <2> DEFINE g == [n \in 0..N |-> base]
  <2>1. \A n \in 0..N : n <= 0 => Eq(g, n)
    OBVIOUS
  <2>2. DOMAIN g = 0..N /\ g = [n \in 0..N |-> g[n]]
    OBVIOUS
  <2> HIDE DEF Eq, g
  <2> QED
    BY <2>1, <2>2
<1>2. ASSUME NEW m \in Nat, m \in Good PROVE m + 1 \in Good
  <2>1. PICK g : \A n \in 0..N : n <= m => Eq(g, n)
    BY <1>2
  <2> DEFINE h == [n \in 0..N |-> IF n = 0 THEN base ELSE Step(g[n - 1], n)]
  <2>2. DOMAIN h = 0..N /\ h = [n \in 0..N |-> h[n]]
    OBVIOUS
  <2>3. ASSUME NEW n \in 0..N, n <= m + 1 PROVE Eq(h, n)
    <3>1. CASE n = 0
      BY <3>1
    <3>2. CASE n # 0
      <4>1. n - 1 \in 0..N /\ n - 1 <= m
        BY <2>3, <3>2
      <4>2. g[n - 1] = h[n - 1]
        BY <2>1, <4>1
      <4> QED
        BY <3>2, <4>2
    <3> QED
      BY <3>1, <3>2
  <2>4. \A n \in 0..N : n <= m + 1 => Eq(h, n)
    BY <2>3
  <2>5. m + 1 \in Nat
    OBVIOUS
  <2> HIDE DEF h, Eq
  <2>6. \E k : /\ DOMAIN k = 0..N /\ k = [n \in 0..N |-> k[n]]
               /\ \A n \in 0..N : n <= m + 1 => Eq(k, n)
    BY <2>2, <2>4, Zenon
  <2> QED
    BY <2>5, <2>6, Zenon
<1> HIDE DEF Good
<1>3. N \in Good
  BY <1>1, <1>2, NatInductionSet
<1>4. PICK g : g = [n \in 0..N |-> g[n]] /\ \A n \in 0..N : Eq(g, n)
  BY <1>3 DEF Good
<1>5. g = [n \in 0..N |-> IF n = 0 THEN base ELSE Step(g[n - 1], n)]
  BY <1>4
<1> DEFINE f == Levels(base)
<1>6. f = [n \in 0..N |-> IF n = 0 THEN base ELSE Step(f[n - 1], n)]
  <2>1. f = CHOOSE k : k = [n \in 0..N |-> IF n = 0 THEN base ELSE Step(k[n - 1], n)]
    BY DEF Levels
  <2> HIDE DEF f
  <2> QED
    BY <1>5, <2>1
<1> HIDE DEF f
<1>7. \A n \in 0..N : f[n] = IF n = 0 THEN base ELSE Step(f[n - 1], n)
  BY <1>6
<1>8. f[0] = base /\ \A n \in 1..N : f[n] = Step(f[n - 1], n)
  BY <1>7
<1> QED
  BY <1>8 DEF f

\* The indices of a leaf's ancestors.
LEMMA AncestorSteps ==
  ASSUME NEW index, NEW height \in Nat
  PROVE  LET idx == Ancestors(index, height)
         IN  /\ idx[0] = index
             /\ \A n \in 1..height : idx[n] = idx[n - 1] \div 2
<1> DEFINE Step(x, n) == x \div 2
           Eq(g, n) == g[n] = IF n = 0 THEN index ELSE Step(g[n - 1], n)
           Good == {m \in Nat : \E g : /\ DOMAIN g = 0..height
                                       /\ g = [n \in 0..height |-> g[n]]
                                       /\ \A n \in 0..height : n <= m => Eq(g, n)}
<1>1. 0 \in Good
  <2> DEFINE g == [n \in 0..height |-> index]
  <2>1. \A n \in 0..height : n <= 0 => Eq(g, n)
    OBVIOUS
  <2>2. DOMAIN g = 0..height /\ g = [n \in 0..height |-> g[n]]
    OBVIOUS
  <2> HIDE DEF Eq, g
  <2> QED
    BY <2>1, <2>2
<1>2. ASSUME NEW m \in Nat, m \in Good PROVE m + 1 \in Good
  <2>1. PICK g : \A n \in 0..height : n <= m => Eq(g, n)
    BY <1>2
  <2> DEFINE h == [n \in 0..height |-> IF n = 0 THEN index ELSE Step(g[n - 1], n)]
  <2>2. DOMAIN h = 0..height /\ h = [n \in 0..height |-> h[n]]
    OBVIOUS
  <2>3. ASSUME NEW n \in 0..height, n <= m + 1 PROVE Eq(h, n)
    <3>1. CASE n = 0
      BY <3>1
    <3>2. CASE n # 0
      <4>1. n - 1 \in 0..height /\ n - 1 <= m
        BY <2>3, <3>2
      <4>2. g[n - 1] = h[n - 1]
        BY <2>1, <4>1
      <4> QED
        BY <3>2, <4>2
    <3> QED
      BY <3>1, <3>2
  <2>4. \A n \in 0..height : n <= m + 1 => Eq(h, n)
    BY <2>3
  <2>5. m + 1 \in Nat
    OBVIOUS
  <2> HIDE DEF h, Eq
  <2>6. \E k : /\ DOMAIN k = 0..height /\ k = [n \in 0..height |-> k[n]]
               /\ \A n \in 0..height : n <= m + 1 => Eq(k, n)
    BY <2>2, <2>4, Zenon
  <2> QED
    BY <2>5, <2>6, Zenon
<1> HIDE DEF Good
<1>3. height \in Good
  BY <1>1, <1>2, NatInductionSet
<1>4. PICK g : g = [n \in 0..height |-> g[n]] /\ \A n \in 0..height : Eq(g, n)
  BY <1>3 DEF Good
<1>5. g = [n \in 0..height |-> IF n = 0 THEN index ELSE Step(g[n - 1], n)]
  BY <1>4
<1> DEFINE f == Ancestors(index, height)
<1>6. f = [n \in 0..height |-> IF n = 0 THEN index ELSE Step(f[n - 1], n)]
  <2>1. f = CHOOSE k :
              k = [n \in 0..height |-> IF n = 0 THEN index ELSE Step(k[n - 1], n)]
    BY DEF Ancestors
  <2> HIDE DEF f
  <2> QED
    BY <1>5, <2>1
<1> HIDE DEF f
<1>7. \A n \in 0..height : f[n] = IF n = 0 THEN index ELSE Step(f[n - 1], n)
  BY <1>6
<1>8. f[0] = index /\ \A n \in 1..height : f[n] = Step(f[n - 1], n)
  BY <1>7
<1> QED
  BY <1>8 DEF f

-------------------------------------------------------------------------------
(***************************************************************************)
(* The shape of a tree.                                                    *)
(***************************************************************************)
\* A row of nodes: a sequence that is not empty.
Row(r) ==
  Len(r) \in Nat \ {0} /\ DOMAIN r = 1..Len(r) /\ r = [i \in 1..Len(r) |-> r[i]]

\* A function on 1..n is a sequence of n elements.
LEMMA LenOfRow ==
  ASSUME NEW n \in Nat, NEW f, f = [i \in 1..n |-> f[i]]
  PROVE  Len(f) = n /\ DOMAIN f = 1..n
<1>1. f \in Seq({f[i] : i \in 1..n}) /\ DOMAIN f = 1..n
  OBVIOUS
<1> QED
  BY <1>1

\* The level above has half as many nodes, an odd one counted as two.
LEMMA NextLevelRow ==
  ASSUME NEW cur, Row(cur)
  PROVE  /\ Row(NextLevel(cur))
         /\ Len(NextLevel(cur)) = (Len(cur) + 1) \div 2
         /\ \A i \in 1..((Len(cur) + 1) \div 2) :
              NextLevel(cur)[i] =
                <<cur[2 * i - 1],
                  IF 2 * i <= Len(cur) THEN cur[2 * i] ELSE cur[2 * i - 1]>>
<1> DEFINE n == (Len(cur) + 1) \div 2
           next == NextLevel(cur)
<1>1. n \in Nat \ {0}
  BY DEF Row
<1>2. next = [i \in 1..n |->
                <<cur[2 * i - 1],
                  IF 2 * i <= Len(cur) THEN cur[2 * i] ELSE cur[2 * i - 1]>>]
  BY DEF NextLevel, hash_pair
<1> HIDE DEF n, next
<1>3. next = [i \in 1..n |-> next[i]]
  BY <1>2
<1>4. Len(next) = n /\ DOMAIN next = 1..n
  BY <1>1, <1>3, LenOfRow
<1> QED
  BY <1>1, <1>2, <1>4 DEF Row, n, next

\* Every level above a row of nodes is one.
LEMMA LevelRows ==
  ASSUME NEW base, Row(base)
  PROVE  \A k \in 0..Len(base) : Row(Levels(base)[k])
<1> DEFINE level == Levels(base)
           Good == {k \in Nat : k <= Len(base) => Row(level[k])}
<1>1. /\ level[0] = base
      /\ \A k \in 1..Len(base) : level[k] = NextLevel(level[k - 1])
  BY LevelSteps DEF Row
<1> HIDE DEF level
<1>2. 0 \in Good
  BY <1>1
<1>3. ASSUME NEW k \in Nat, k \in Good PROVE k + 1 \in Good
  <2> SUFFICES ASSUME k + 1 <= Len(base) PROVE Row(level[k + 1])
    OBVIOUS
  <2>1. Len(base) \in Nat
    BY DEF Row
  <2>2. Row(level[k]) /\ k + 1 \in 1..Len(base) /\ (k + 1) - 1 = k
    BY <1>3, <2>1
  <2> QED
    BY <1>1, <2>2, NextLevelRow
<1> HIDE DEF Good
<1>4. Nat \subseteq Good
  BY <1>2, <1>3, NatInductionSet
<1> QED
  BY <1>4 DEF Good, level

\* Levels shrink until one holds a single node.
LEMMA LevelsShrink ==
  ASSUME NEW base, Row(base)
  PROVE  \A k \in 0..Len(base) :
           Len(Levels(base)[k]) = 1 \/ Len(Levels(base)[k]) + k <= Len(base)
<1> DEFINE level == Levels(base)
           N == Len(base)
           Small(k) == Len(level[k]) = 1 \/ Len(level[k]) + k <= N
           Good == {k \in Nat : k <= N => Small(k)}
<1>1. /\ level[0] = base
      /\ \A k \in 1..N : level[k] = NextLevel(level[k - 1])
  BY LevelSteps DEF Row
<1>2. \A k \in 0..N : Row(level[k])
  BY LevelRows
<1>3. N \in Nat
  BY DEF Row
<1> HIDE DEF level
<1>4. 0 \in Good
  BY <1>1, <1>3
<1>5. ASSUME NEW k \in Nat, k \in Good, k + 1 <= N PROVE Small(k + 1)
  <2>1. k \in 0..N /\ k + 1 \in 1..N /\ (k + 1) - 1 = k
    BY <1>3, <1>5
  <2>2. Row(level[k]) /\ level[k + 1] = NextLevel(level[k])
    BY <1>1, <1>2, <2>1
  <2> DEFINE m == Len(level[k])
             n == Len(level[k + 1])
  <2>3. n = (m + 1) \div 2
    BY <2>2, NextLevelRow
  <2>4. m \in Nat \ {0}
    BY <2>2 DEF Row
  <2>5. m = 1 \/ m + k <= N
    BY <1>5, <2>1
  <2> HIDE DEF N, m, n
  <2>6. n = 1 \/ n + (k + 1) <= N
    BY <1>3, <2>3, <2>4, <2>5
  <2> QED
    BY <2>6 DEF n
<1>6. \A k \in Nat : k \in Good => k + 1 \in Good
  <2> HIDE DEF Small
  <2> QED
    BY <1>5
<1> HIDE DEF Good
<1>7. Nat \subseteq Good
  BY <1>4, <1>6, NatInductionSet
<1> QED
  BY <1>7 DEF Good, level

\* Some level is the first to hold a single node: the loop of from_leaves ends.
LEMMA HeightExists ==
  ASSUME NEW base, Row(base)
  PROVE  \E h \in 0..Len(base) :
           /\ Len(Levels(base)[h]) = 1
           /\ \A k \in 0..(h - 1) : Len(Levels(base)[k]) > 1
<1> DEFINE level == Levels(base)
           N == Len(base)
           Single == {h \in 0..N : Len(level[h]) = 1}
<1>1. /\ \A k \in 0..N : Row(level[k])
      /\ \A k \in 0..N : Len(level[k]) = 1 \/ Len(level[k]) + k <= N
  BY LevelRows, LevelsShrink
<1>2. N \in Nat
  BY DEF Row
<1> HIDE DEF level, N
<1>3. N \in Single
  <2>1. Row(level[N])
    BY <1>1, <1>2
  <2>2. Len(level[N]) \in Nat \ {0}
    BY <2>1 DEF Row
  <2> QED
    BY <1>1, <1>2, <2>2
<1>4. PICK h \in Single : \A m \in Single : h <= m
  <2>1. Single \in SUBSET Nat /\ Single # {}
    BY <1>2, <1>3
  <2> HIDE DEF Single
  <2> QED
    BY <2>1, Smallest
<1>5. ASSUME NEW k \in 0..(h - 1) PROVE Len(level[k]) > 1
  <2>1. k \in 0..N /\ ~(h <= k)
    BY <1>2, <1>4
  <2>2. k \notin Single
    BY <1>4, <2>1
  <2> DEFINE n == Len(level[k])
  <2>3. n \in Nat \ {0}
    BY <1>1, <2>1 DEF Row
  <2>4. n # 1
    BY <2>1, <2>2
  <2> HIDE DEF n
  <2>5. n > 1
    BY <2>3, <2>4
  <2> QED
    BY <2>5 DEF n
<1> QED
  BY <1>4, <1>5 DEF level, N

\* A tree is a row of levels, each the one above the level before, from the leaves
\* to the root; only the root stands alone.
IsTree(T) ==
  /\ Row(T)
  /\ \A k \in 1..Len(T) : Row(T[k])
  /\ \A k \in 1..(Len(T) - 1) : T[k + 1] = NextLevel(T[k]) /\ Len(T[k]) > 1
  /\ Len(T[Len(T)]) = 1

\* What from_leaves builds is a tree over its leaves, or over the zero digest.
LEMMA TreeShape ==
  ASSUME NEW S, NEW set \in Seq(S)
  PROVE  /\ IsTree(from_leaves(set))
         /\ from_leaves(set)[1] = IF set = << >> THEN <<ZeroDigest>> ELSE set
<1> DEFINE base == IF set = << >> THEN <<ZeroDigest>> ELSE set
           level == Levels(base)
           N == Len(base)
           Is(h) == Len(level[h]) = 1 /\ \A k \in 0..(h - 1) : Len(level[k]) > 1
           height == CHOOSE h \in 0..N : Is(h)
           T == from_leaves(set)
<1>1. Row(base)
  <2>1. CASE set = << >>
    <3>1. base = <<ZeroDigest>>
      BY <2>1
    <3>2. Len(<<ZeroDigest>>) = 1 /\ DOMAIN <<ZeroDigest>> = 1..1
      OBVIOUS
    <3> HIDE DEF base
    <3> QED
      BY <3>1, <3>2 DEF Row
  <2>2. CASE set # << >>
    <3>1. base = set /\ Len(set) # 0
      BY <2>2
    <3> QED
      BY <3>1 DEF Row
  <2> QED
    BY <2>1, <2>2
<1> HIDE DEF base
<1>2. N \in Nat
  BY <1>1 DEF Row
<1>3. height \in 0..N /\ Is(height)
  BY <1>1, HeightExists
<1>4. T = [k \in 1..(height + 1) |-> level[k - 1]]
  BY DEF from_leaves, base
<1>5. /\ level[0] = base
      /\ \A k \in 1..N : level[k] = NextLevel(level[k - 1])
      /\ \A k \in 0..N : Row(level[k])
  BY <1>1, <1>2, LevelSteps, LevelRows
<1> HIDE DEF T, level, height, N
<1>6. Len(T) = height + 1 /\ DOMAIN T = 1..(height + 1)
  <2>1. height + 1 \in Nat /\ T = [k \in 1..(height + 1) |-> T[k]]
    BY <1>2, <1>3, <1>4
  <2> QED
    BY <2>1, LenOfRow
<1>7. \A k \in 1..(height + 1) : T[k] = level[k - 1]
  BY <1>4
<1>8. Row(T) /\ T[1] = base
  <2>1. 1 \in 1..(height + 1) /\ height + 1 \in Nat \ {0} /\ 1 - 1 = 0
    BY <1>2, <1>3
  <2>2. T = [k \in 1..Len(T) |-> T[k]]
    BY <1>4, <1>6
  <2>3. T[1] = base
    BY <1>5, <1>7, <2>1
  <2> QED
    BY <1>6, <2>1, <2>2, <2>3 DEF Row
<1>9. \A k \in 1..Len(T) : Row(T[k])
  <2> SUFFICES ASSUME NEW k \in 1..Len(T) PROVE Row(T[k])
    OBVIOUS
  <2>1. k - 1 \in 0..N
    BY <1>2, <1>3, <1>6
  <2> QED
    BY <1>5, <1>6, <1>7, <2>1
<1>10. ASSUME NEW k \in 1..(Len(T) - 1)
       PROVE  T[k + 1] = NextLevel(T[k]) /\ Len(T[k]) > 1
  <2>1. /\ k \in 1..N /\ k - 1 \in 0..(height - 1) /\ (k + 1) - 1 = k
        /\ k \in 1..(height + 1) /\ k + 1 \in 1..(height + 1)
    BY <1>2, <1>3, <1>6
  <2>2. T[k + 1] = level[k] /\ T[k] = level[k - 1]
    BY <1>7, <2>1
  <2> QED
    BY <1>3, <1>5, <2>1, <2>2
<1>11. Len(T[Len(T)]) = 1
  <2>1. height + 1 \in 1..(height + 1) /\ (height + 1) - 1 = height
    BY <1>2, <1>3
  <2>2. T[height + 1] = level[height]
    BY <1>7, <2>1
  <2> QED
    BY <1>3, <1>6, <2>2
<1> QED
  BY <1>8, <1>9, <1>10, <1>11 DEF IsTree, T, base

-------------------------------------------------------------------------------
(***************************************************************************)
(* The path of a leaf.                                                     *)
(***************************************************************************)
\* The sibling `proof` takes: the other child, or a last odd node itself.
LEMMA SiblingIs ==
  ASSUME NEW idx \in Nat, NEW n \in Nat, idx < n
  PROVE  SiblingIndex(idx, n) = IF idx % 2 = 1 THEN idx - 1
                                ELSE IF idx + 1 < n THEN idx + 1 ELSE idx
<1> DEFINE m == IF idx + 1 < n THEN idx + 1 ELSE idx
<1>1. m \in {idx + 1, n - 1} /\ \A x \in {idx + 1, n - 1} : m <= x
  OBVIOUS
<1>2. \A y \in {idx + 1, n - 1} : (\A x \in {idx + 1, n - 1} : y <= x) => y = m
  OBVIOUS
<1> HIDE DEF m
<1>3. Min({idx + 1, n - 1}) = m
  BY <1>1, <1>2 DEF Min
<1> QED
  BY <1>3 DEF SiblingIndex, m

\* The ancestors of a leaf are nodes of their levels.
LEMMA AncestorsInside ==
  ASSUME NEW T, IsTree(T), NEW index \in 0..(leaf_count(T) - 1)
  PROVE  \A k \in 0..Depth(T) : Ancestors(index, Depth(T))[k] \in 0..(Len(T[k + 1]) - 1)
<1> DEFINE d == Depth(T)
           idx == Ancestors(index, d)
           len(k) == Len(T[k])
           Good == {k \in Nat : k <= d => idx[k] \in 0..(len(k + 1) - 1)}
<1>1. d \in Nat /\ Len(T) = d + 1
  BY DEF IsTree, Row, Depth
<1>2. idx[0] = index /\ \A k \in 1..d : idx[k] = idx[k - 1] \div 2
  BY <1>1, AncestorSteps
<1>3. ASSUME NEW k \in 1..(d + 1) PROVE len(k) \in Nat \ {0}
  BY <1>1, <1>3 DEF IsTree, Row
<1>4. ASSUME NEW k \in 1..d PROVE len(k + 1) = (len(k) + 1) \div 2
  <2>1. Row(T[k]) /\ T[k + 1] = NextLevel(T[k])
    BY <1>1, <1>4 DEF IsTree
  <2> QED
    BY <2>1, NextLevelRow
<1>5. index \in 0..(len(1) - 1)
  BY DEF leaf_count
<1> HIDE DEF d, idx, len
<1>6. 0 \in Good
  BY <1>2, <1>5
<1>7. ASSUME NEW k \in Nat, k \in Good PROVE k + 1 \in Good
  <2> SUFFICES ASSUME k + 1 <= d PROVE idx[k + 1] \in 0..(len((k + 1) + 1) - 1)
    OBVIOUS
  <2>1. idx[k] \in 0..(len(k + 1) - 1)
    BY <1>1, <1>7
  <2>2. k + 1 \in 1..d /\ (k + 1) - 1 = k
    BY <1>1
  <2>3. idx[k + 1] = idx[k] \div 2
    BY <1>2, <2>2
  <2>4. len((k + 1) + 1) = (len(k + 1) + 1) \div 2
    BY <1>4, <2>2
  <2>5. len(k + 1) \in Nat \ {0}
    BY <1>1, <1>3, <2>2
  <2> QED
    BY <2>1, <2>3, <2>4, <2>5
<1> HIDE DEF Good
<1>8. Nat \subseteq Good
  BY <1>6, <1>7, NatInductionSet
<1>9. \A k \in 0..d : idx[k] \in 0..(len(k + 1) - 1)
  BY <1>8 DEF Good
<1> QED
  BY <1>9 DEF d, idx, len

\* The children of an ancestor, and which of them is the ancestor below.
LEMMA AncestorChildren ==
  ASSUME NEW T, IsTree(T), NEW index \in 0..(leaf_count(T) - 1), NEW k \in 1..Depth(T)
  PROVE  LET idx == Ancestors(index, Depth(T))
             node == T[k][idx[k - 1] + 1]
             sibling == T[k][SiblingIndex(idx[k - 1], Len(T[k])) + 1]
         IN  T[k + 1][idx[k] + 1] =
               IF idx[k - 1] % 2 = 1 THEN <<sibling, node>> ELSE <<node, sibling>>
<1> DEFINE d == Depth(T)
           idx == Ancestors(index, d)
           cur == T[k]
           n == Len(cur)
           i == idx[k - 1]
<1>1. d \in Nat /\ Len(T) = d + 1
  BY DEF IsTree, Row, Depth
<1>2. Row(cur) /\ T[k + 1] = NextLevel(cur)
  BY <1>1 DEF IsTree
<1>3. idx[k] = i \div 2
  BY <1>1, AncestorSteps
<1>4. i \in 0..(n - 1)
  <2>1. k - 1 \in 0..d /\ (k - 1) + 1 = k
    BY <1>1
  <2> QED
    BY <2>1, AncestorsInside
<1>5. n \in Nat \ {0}
  BY <1>2 DEF Row
<1>6. \A j \in 1..((n + 1) \div 2) :
        T[k + 1][j] =
          <<cur[2 * j - 1], IF 2 * j <= n THEN cur[2 * j] ELSE cur[2 * j - 1]>>
  BY <1>2, NextLevelRow
<1>7. SiblingIndex(i, n) = IF i % 2 = 1 THEN i - 1 ELSE IF i + 1 < n THEN i + 1 ELSE i
  BY <1>4, <1>5, SiblingIs
<1> HIDE DEF i, n, cur, idx, d
<1> DEFINE j == (i \div 2) + 1
<1>8. j \in 1..((n + 1) \div 2)
  BY <1>4, <1>5
<1>9. CASE i % 2 = 1
  <2>1. 2 * j - 1 = (i - 1) + 1 /\ 2 * j = i + 1 /\ 2 * j <= n
    BY <1>4, <1>5, <1>9
  <2> HIDE DEF j
  <2>2. T[k + 1][j] = <<cur[(i - 1) + 1], cur[i + 1]>>
    BY <1>6, <1>8, <2>1
  <2> QED
    BY <1>3, <1>7, <1>9, <2>2 DEF i, n, cur, idx, d, j
<1>10. CASE i % 2 # 1
  <2>1. 2 * j - 1 = i + 1 /\ 2 * j = (i + 1) + 1 /\ (2 * j <= n <=> i + 1 < n)
    BY <1>4, <1>5, <1>10
  <2> HIDE DEF j
  <2>2. T[k + 1][j] = <<cur[i + 1], IF i + 1 < n THEN cur[(i + 1) + 1] ELSE cur[i + 1]>>
    BY <1>6, <1>8, <2>1
  <2>3. T[k + 1][j] = <<cur[i + 1], cur[SiblingIndex(i, n) + 1]>>
    BY <1>7, <1>10, <2>2
  <2> QED
    BY <1>3, <1>10, <2>3 DEF i, n, cur, idx, d, j
<1> QED
  BY <1>9, <1>10

\* The proof of a leaf leads to the root.
LEMMA ProofLeadsToRoot ==
  ASSUME NEW T, IsTree(T), NEW index \in 0..(leaf_count(T) - 1)
  PROVE  LET p == proof(T, index)
         IN  /\ Len(p.siblings) = Depth(T)
             /\ compute_root(p.leaf, p.siblings, p.index_bits) = root(T)
<1> DEFINE d == Depth(T)
           idx == Ancestors(index, d)
           p == proof(T, index)
           sib == p.siblings
           right == {level \in 1..Len(sib) : level - 1 \in p.index_bits}
           node == Climb(p.leaf, sib, right)
           at(k) == T[k + 1][idx[k] + 1]
           Good == {k \in Nat : k <= d => node[k] = at(k)}
<1>1. d \in Nat /\ Len(T) = d + 1 /\ Len(T[d + 1]) = 1
  BY DEF IsTree, Row, Depth
<1>2. idx[0] = index
  BY <1>1, AncestorSteps
<1>3. /\ sib = [k \in 1..d |-> T[k][SiblingIndex(idx[k - 1], Len(T[k])) + 1]]
      /\ p.leaf = T[1][index + 1]
      /\ p.index_bits = {level \in 0..(d - 1) : idx[level] % 2 = 1}
  BY DEF proof
<1>4. Len(sib) = d
  <2> HIDE DEF d, idx, sib
  <2>1. sib = [k \in 1..d |-> sib[k]]
    BY <1>3
  <2> QED
    BY <1>1, <2>1, LenOfRow
<1>5. node[0] = p.leaf /\ \A k \in 1..d : node[k] = IF k \in right
                                                    THEN hash_pair(sib[k], node[k - 1])
                                                    ELSE hash_pair(node[k - 1], sib[k])
  <2>1. Len(sib) \in Nat
    BY <1>1, <1>4
  <2> HIDE DEF p, right, sib, d
  <2> QED
    BY <1>4, <2>1, ClimbSteps
<1>6. ASSUME NEW k \in 1..d PROVE k \in right <=> idx[k - 1] % 2 = 1
  <2> HIDE DEF d, idx, p
  <2> QED
    BY <1>1, <1>3, <1>4, <1>6
<1>7. ASSUME NEW k \in 1..d
      PROVE  at(k) = IF k \in right THEN hash_pair(sib[k], at(k - 1))
                                    ELSE hash_pair(at(k - 1), sib[k])
  <2>1. at(k) = LET s == T[k][SiblingIndex(idx[k - 1], Len(T[k])) + 1]
                    t == T[k][idx[k - 1] + 1]
                IN  IF idx[k - 1] % 2 = 1 THEN <<s, t>> ELSE <<t, s>>
    BY <1>7, AncestorChildren
  <2>2. at(k - 1) = T[k][idx[k - 1] + 1]
    <3>1. (k - 1) + 1 = k
      BY <1>1, <1>7
    <3> QED
      BY <3>1
  <2> HIDE DEF d, idx, p, right, at
  <2> QED
    BY <1>3, <1>6, <2>1, <2>2 DEF hash_pair
<1>8. 0 \in Good
  <2>1. at(0) = T[1][index + 1]
    BY <1>2
  <2>2. node[0] = at(0)
    BY <1>3, <1>5, <2>1
  <2> HIDE DEF node, at
  <2> QED
    BY <2>2
<1>13. \A k \in 0..d : idx[k] \in 0..(Len(T[k + 1]) - 1)
  BY AncestorsInside
<1> HIDE DEF d, idx, p, right, at, node
<1>9. ASSUME NEW k \in Nat, k \in Good PROVE k + 1 \in Good
  <2> SUFFICES ASSUME k + 1 <= d PROVE node[k + 1] = at(k + 1)
    OBVIOUS
  <2>1. k + 1 \in 1..d /\ (k + 1) - 1 = k
    BY <1>1
  <2>2. node[k] = at(k)
    BY <1>1, <1>9
  <2> QED
    BY <1>5, <1>7, <2>1, <2>2
<1> HIDE DEF Good
<1>10. d \in Good
  BY <1>1, <1>8, <1>9, NatInductionSet
<1>11. node[d] = at(d)
  BY <1>1, <1>10 DEF Good
<1>12. at(d) = root(T)
  <2>1. d \in 0..d
    BY <1>1
  <2>2. idx[d] \in 0..(Len(T[d + 1]) - 1)
    BY <1>13, <2>1, Zenon
  <2>3. idx[d] = 0
    BY <1>1, <2>2
  <2> QED
    BY <1>1, <2>3 DEF at, root, Last
<1>14. compute_root(p.leaf, sib, p.index_bits) = node[d]
  BY <1>4 DEF compute_root, node, right
<1> QED
  BY <1>4, <1>11, <1>12, <1>14 DEF d, p

\* The mirror computes what the program does, as long as no shift wraps.
LEMMA MirrorSame ==
  ASSUME NEW leaf, NEW siblings, Len(siblings) \in Nat, Len(siblings) <= WordBits,
         NEW index_bits
  PROVE  mirror_compute_root(leaf, siblings, index_bits) =
           compute_root(leaf, siblings, index_bits)
<1> DEFINE N == Len(siblings)
<1>1. ASSUME NEW level \in 1..N PROVE (level - 1) % WordBits = level - 1
  <2>1. level - 1 \in Nat /\ WordBits \in Nat /\ level - 1 < WordBits
    BY <1>1, WordBitsAssumption
  <2> DEFINE a == level - 1
  <2> HIDE DEF a
  <2>2. a % WordBits = a
    BY <2>1 DEF a
  <2> QED
    BY <2>2 DEF a
<1>2. {level \in 1..N : (level - 1) % WordBits \in index_bits} =
        {level \in 1..N : level - 1 \in index_bits}
  BY <1>1
<1> QED
  BY <1>2 DEF mirror_compute_root, compute_root


-------------------------------------------------------------------------------
(***************************************************************************)
(* What a root binds.                                                      *)
(***************************************************************************)
\* Two rows of the same length with the same level above are the same.
LEMMA NextLevelInjective ==
  ASSUME NEW a, NEW b, Row(a), Row(b), Len(a) = Len(b), NextLevel(a) = NextLevel(b)
  PROVE  a = b
<1> DEFINE n == Len(a)
           half == (n + 1) \div 2
<1>1. n \in Nat \ {0} /\ a = [i \in 1..n |-> a[i]] /\ b = [i \in 1..n |-> b[i]]
  BY DEF Row
<1>2. \A j \in 1..half :
        <<a[2 * j - 1], IF 2 * j <= n THEN a[2 * j] ELSE a[2 * j - 1]>> =
        <<b[2 * j - 1], IF 2 * j <= n THEN b[2 * j] ELSE b[2 * j - 1]>>
  <2>1. \A j \in 1..half : NextLevel(a)[j] =
          <<a[2 * j - 1], IF 2 * j <= n THEN a[2 * j] ELSE a[2 * j - 1]>>
    BY NextLevelRow
  <2>2. \A j \in 1..half : NextLevel(b)[j] =
          <<b[2 * j - 1], IF 2 * j <= n THEN b[2 * j] ELSE b[2 * j - 1]>>
    BY NextLevelRow
  <2> HIDE DEF n, half
  <2> QED
    BY <2>1, <2>2
<1>3. ASSUME NEW i \in 1..n PROVE a[i] = b[i]
  <2> DEFINE j == (i + 1) \div 2
  <2> HIDE DEF n
  <2>1. j \in 1..half
    BY <1>1
  <2>2. 2 * j = i \/ 2 * j - 1 = i
    OBVIOUS
  <2>3. i <= n
    BY <1>1
  <2> HIDE DEF j, half
  <2>4. CASE 2 * j = i
    BY <1>2, <2>1, <2>3, <2>4
  <2>5. CASE 2 * j - 1 = i
    BY <1>2, <2>1, <2>5
  <2> QED
    BY <2>2, <2>4, <2>5
<1> HIDE DEF n
<1>4. [i \in 1..n |-> a[i]] = [i \in 1..n |-> b[i]]
  BY <1>3
<1> QED
  BY <1>1, <1>4

\* Trees over as many leaves have levels of the same lengths.
LEMMA SameShape ==
  ASSUME NEW T, NEW U, IsTree(T), IsTree(U), Len(T[1]) = Len(U[1])
  PROVE  Len(T) <= Len(U) /\ \A k \in 1..Len(T) : Len(T[k]) = Len(U[k])
<1> DEFINE t == Len(T)
           u == Len(U)
           Same(k) == k <= u /\ Len(T[k]) = Len(U[k])
           Good == {m \in Nat : m + 1 <= t => Same(m + 1)}
<1>1. t \in Nat \ {0} /\ u \in Nat \ {0}
  BY DEF IsTree, Row
<1>2. 0 \in Good
  BY <1>1
<1>3. ASSUME NEW m \in Nat, m \in Good PROVE m + 1 \in Good
  <2> SUFFICES ASSUME (m + 1) + 1 <= t PROVE Same((m + 1) + 1)
    OBVIOUS
  <2> DEFINE k == m + 1
  <2>1. k \in 1..(t - 1) /\ k <= t /\ k \in 1..t
    BY <1>1
  <2>2. Same(k)
    BY <1>3, <2>1
  <2> HIDE DEF k
  <2>3. Len(T[k]) > 1 /\ T[k + 1] = NextLevel(T[k]) /\ Row(T[k])
    BY <2>1 DEF IsTree
  <2>4. k # u
    <3>1. Len(U[u]) = 1
      BY DEF IsTree
    <3> HIDE DEF u
    <3> DEFINE n == Len(T[k])
    <3>2. n > 1 /\ n \in Nat
      BY <2>3 DEF Row
    <3>3. n = Len(U[k])
      BY <2>2
    <3> HIDE DEF n
    <3>4. n # 1
      BY <3>2
    <3> QED
      BY <3>1, <3>3, <3>4, Zenon
  <2>5. k \in 1..(u - 1) /\ k \in 1..u
    BY <1>1, <2>1, <2>2, <2>4
  <2>6. U[k + 1] = NextLevel(U[k]) /\ Row(U[k])
    BY <2>5 DEF IsTree
  <2>7. Len(T[k + 1]) = Len(U[k + 1])
    BY <2>2, <2>3, <2>6, NextLevelRow
  <2>8. k + 1 <= u
    BY <1>1, <2>5
  <2> QED
    BY <2>7, <2>8 DEF k
<1> HIDE DEF Good
<1>4. Nat \subseteq Good
  BY <1>2, <1>3, NatInductionSet
<1>5. ASSUME NEW k \in 1..t PROVE Same(k)
  <2>1. k - 1 \in Nat /\ (k - 1) + 1 = k /\ k <= t
    BY <1>1
  <2>2. k - 1 \in Good
    BY <1>4, <2>1
  <2> HIDE DEF Same
  <2> QED
    BY <2>1, <2>2 DEF Good
<1> QED
  BY <1>1, <1>5

\* Trees over as many leaves with the same root are the same, down to the leaves.
LEMMA SameLeaves ==
  ASSUME NEW T, NEW U, IsTree(T), IsTree(U), Len(T[1]) = Len(U[1]), root(T) = root(U)
  PROVE  T[1] = U[1]
<1> DEFINE t == Len(T)
           Good == {m \in Nat : m < t => T[t - m] = U[t - m]}
<1>1. t \in Nat \ {0} /\ Len(U) \in Nat
  BY DEF IsTree, Row
<1>2. Len(U) = t /\ \A k \in 1..t : Len(T[k]) = Len(U[k])
  <2>1. t <= Len(U) /\ Len(U) <= t /\ \A k \in 1..t : Len(T[k]) = Len(U[k])
    BY SameShape
  <2> HIDE DEF t
  <2> QED
    BY <1>1, <2>1
<1>3. 0 \in Good
  <2>1. /\ t - 0 = t /\ t \in 1..t
        /\ Row(T[t]) /\ Row(U[t]) /\ Len(T[t]) = 1 /\ Len(U[t]) = 1
    BY <1>1, <1>2 DEF IsTree
  <2>2. root(T) = T[t][1] /\ root(U) = U[t][1]
    BY <1>2, <2>1 DEF root, Last
  <2>3. T[t] = [i \in 1..1 |-> T[t][i]] /\ U[t] = [i \in 1..1 |-> U[t][i]]
    BY <2>1 DEF Row
  <2> DEFINE a == T[t]
             b == U[t]
  <2> HIDE DEF a, b
  <2>4. a[1] = b[1]
    BY <2>2 DEF a, b
  <2>5. [i \in 1..1 |-> a[i]] = [i \in 1..1 |-> b[i]]
    BY <2>4
  <2> QED
    BY <2>1, <2>3, <2>5 DEF a, b
<1>4. ASSUME NEW m \in Nat, m \in Good PROVE m + 1 \in Good
  <2> SUFFICES ASSUME m + 1 < t PROVE T[t - (m + 1)] = U[t - (m + 1)]
    OBVIOUS
  <2> DEFINE k == t - (m + 1)
  <2>1. k \in 1..(t - 1) /\ k \in 1..t /\ k + 1 = t - m /\ m < t
    BY <1>1
  <2>2. T[t - m] = U[t - m]
    BY <1>4, <2>1
  <2> HIDE DEF k
  <2>3. /\ T[k + 1] = NextLevel(T[k]) /\ Row(T[k])
        /\ U[k + 1] = NextLevel(U[k]) /\ Row(U[k])
    BY <1>2, <2>1 DEF IsTree
  <2>4. T[k] = U[k]
    BY <1>2, <2>1, <2>2, <2>3, NextLevelInjective
  <2> QED
    BY <2>4 DEF k
<1> HIDE DEF Good
<1>5. Nat \subseteq Good
  BY <1>3, <1>4, NatInductionSet
<1>6. t - 1 \in Nat /\ t - 1 < t /\ t - (t - 1) = 1
  BY <1>1
<1>7. t - 1 \in Good
  BY <1>5, <1>6
<1> HIDE DEF t
<1> QED
  BY <1>6, <1>7 DEF Good

\* A node on a level above is the pair of two nodes of the level below.
LEMMA NodeIsPair ==
  ASSUME NEW cur, Row(cur), NEW x \in Range(NextLevel(cur))
  PROVE  \E y \in Range(cur), z \in Range(cur) : x = <<y, z>>
<1> DEFINE n == Len(cur)
<1>1. n \in Nat \ {0} /\ DOMAIN cur = 1..n
  BY DEF Row
<1>2. /\ DOMAIN NextLevel(cur) = 1..((n + 1) \div 2)
      /\ \A i \in 1..((n + 1) \div 2) : NextLevel(cur)[i] =
           <<cur[2 * i - 1], IF 2 * i <= n THEN cur[2 * i] ELSE cur[2 * i - 1]>>
  BY NextLevelRow DEF Row
<1> HIDE DEF n
<1>3. PICK i \in 1..((n + 1) \div 2) : x = NextLevel(cur)[i]
  BY <1>2 DEF Range
<1> DEFINE j == IF 2 * i <= n THEN 2 * i ELSE 2 * i - 1
<1>4. 2 * i - 1 \in 1..n /\ j \in 1..n
  BY <1>1
<1>5. x = <<cur[2 * i - 1], cur[j]>>
  BY <1>2, <1>3
<1> HIDE DEF j
<1> QED
  BY <1>1, <1>4, <1>5 DEF Range

\* A proof as long as the tree is deep that leads to the root starts at a leaf; with
\* the directions of a leaf's own proof it starts at that leaf.
LEMMA AcceptedProof ==
  ASSUME NEW T, IsTree(T), NEW leaf, NEW siblings, Len(siblings) = Depth(T),
         NEW index_bits, compute_root(leaf, siblings, index_bits) = root(T)
  PROVE  /\ leaf \in Range(T[1])
         /\ \A index \in 0..(leaf_count(T) - 1) :
              index_bits = proof(T, index).index_bits => leaf = T[1][index + 1]
<1> DEFINE d == Depth(T)
           right == {level \in 1..Len(siblings) : level - 1 \in index_bits}
           node == Climb(leaf, siblings, right)
<1>1. d \in Nat /\ Len(T) = d + 1 /\ Len(T[d + 1]) = 1 /\ Row(T[d + 1])
  BY DEF IsTree, Row, Depth
<1>2. node[0] = leaf /\ \A k \in 1..d : node[k] = IF k \in right
                                                  THEN <<siblings[k], node[k - 1]>>
                                                  ELSE <<node[k - 1], siblings[k]>>
  <2>1. Len(siblings) \in Nat
    BY <1>1
  <2> HIDE DEF right, d
  <2>2. node[0] = leaf /\ \A k \in 1..Len(siblings) :
          node[k] = IF k \in right THEN hash_pair(siblings[k], node[k - 1])
                                   ELSE hash_pair(node[k - 1], siblings[k])
    BY <2>1, ClimbSteps
  <2> HIDE DEF node
  <2> QED
    BY <2>2 DEF hash_pair, d
<1>3. node[d] = T[d + 1][1]
  BY <1>1 DEF compute_root, root, Last
<1>4. \A k \in 1..d : k \in right <=> k - 1 \in index_bits
  OBVIOUS
<1>5. \A k \in 1..d : Row(T[k]) /\ T[k + 1] = NextLevel(T[k])
  BY <1>1 DEF IsTree
<1> HIDE DEF node, right, d
<1>6. leaf \in Range(T[1])
  <2> DEFINE Good == {m \in Nat : m <= d => node[d - m] \in Range(T[(d - m) + 1])}
  <2>1. 0 \in Good
    <3>1. 1 \in DOMAIN T[d + 1] /\ d - 0 = d
      BY <1>1 DEF Row
    <3>2. node[d] \in Range(T[d + 1])
      BY <1>3, <3>1 DEF Range
    <3> QED
      BY <3>1, <3>2
  <2>2. ASSUME NEW m \in Nat, m \in Good PROVE m + 1 \in Good
    <3> SUFFICES ASSUME m + 1 <= d
                 PROVE  node[d - (m + 1)] \in Range(T[(d - (m + 1)) + 1])
      OBVIOUS
    <3> DEFINE k == d - m
    <3>1. k \in 1..d /\ d - (m + 1) = k - 1 /\ (k - 1) + 1 = k /\ m <= d
      BY <1>1
    <3>2. node[k] \in Range(T[k + 1])
      BY <2>2, <3>1
    <3> HIDE DEF k
    <3>3. PICK y \in Range(T[k]), z \in Range(T[k]) : node[k] = <<y, z>>
      BY <1>5, <3>1, <3>2, NodeIsPair
    <3>4. node[k - 1] = y \/ node[k - 1] = z
      <4> DEFINE below == node[k - 1]
      <4>1. CASE k \in right
        <5>1. node[k] = <<siblings[k], below>>
          BY <1>2, <3>1, <4>1
        <5> HIDE DEF below
        <5> QED
          BY <3>3, <5>1 DEF below
      <4>2. CASE k \notin right
        <5>1. node[k] = <<below, siblings[k]>>
          BY <1>2, <3>1, <4>2
        <5> HIDE DEF below
        <5> QED
          BY <3>3, <5>1 DEF below
      <4> QED
        BY <4>1, <4>2
    <3>5. node[k - 1] \in Range(T[k])
      BY <3>3, <3>4
    <3> QED
      BY <3>1, <3>5
  <2> HIDE DEF Good
  <2>3. d \in Good
    BY <1>1, <2>1, <2>2, NatInductionSet
  <2>4. node[d - d] \in Range(T[(d - d) + 1])
    BY <1>1, <2>3 DEF Good
  <2>5. d - d = 0
    BY <1>1
  <2> QED
    BY <1>2, <2>4, <2>5
<1>7. ASSUME NEW index \in 0..(leaf_count(T) - 1),
             index_bits = proof(T, index).index_bits
      PROVE  leaf = T[1][index + 1]
  <2> DEFINE idx == Ancestors(index, d)
             at(k) == T[k + 1][idx[k] + 1]
             Good == {m \in Nat : m <= d => node[d - m] = at(d - m)}
  <2>1. \A k \in 0..d : idx[k] \in 0..(Len(T[k + 1]) - 1)
    BY AncestorsInside DEF d
  <2>2. idx[0] = index
    BY <1>1, AncestorSteps
  <2>3. \A k \in 1..d : k \in right <=> idx[k - 1] % 2 = 1
    <3>1. index_bits = {level \in 0..(d - 1) : idx[level] % 2 = 1}
      BY <1>7 DEF proof, d
    <3> HIDE DEF idx
    <3> QED
      BY <1>1, <1>4, <3>1
  <2>4. ASSUME NEW k \in 1..d
        PROVE  \E s : at(k) = IF idx[k - 1] % 2 = 1 THEN <<s, at(k - 1)>>
                                                    ELSE <<at(k - 1), s>>
    <3> DEFINE s == T[k][SiblingIndex(idx[k - 1], Len(T[k])) + 1]
               t == T[k][idx[k - 1] + 1]
    <3>1. at(k) = IF idx[k - 1] % 2 = 1 THEN <<s, t>> ELSE <<t, s>>
      BY <2>4, AncestorChildren DEF d
    <3>2. (k - 1) + 1 = k
      BY <1>1, <2>4
    <3>3. t = at(k - 1)
      BY <3>2
    <3> HIDE DEF at, s, t
    <3> QED
      BY <3>1, <3>3
  <2>5. node[d] = at(d)
    <3>1. d \in 0..d
      BY <1>1
    <3>2. idx[d] \in 0..(Len(T[d + 1]) - 1)
      BY <2>1, <3>1, Zenon
    <3> HIDE DEF idx
    <3>3. idx[d] = 0
      BY <1>1, <3>2
    <3> QED
      BY <1>3, <3>3
  <2>6. at(0) = T[1][index + 1]
    BY <2>2
  <2> HIDE DEF at, idx
  <2>7. 0 \in Good
    BY <1>1, <2>5
  <2>8. ASSUME NEW m \in Nat, m \in Good PROVE m + 1 \in Good
    <3> SUFFICES ASSUME m + 1 <= d PROVE node[d - (m + 1)] = at(d - (m + 1))
      OBVIOUS
    <3> DEFINE k == d - m
    <3>1. k \in 1..d /\ d - (m + 1) = k - 1 /\ m <= d
      BY <1>1
    <3>2. node[k] = at(k)
      BY <2>8, <3>1
    <3> HIDE DEF k
    <3>3. PICK s : at(k) = IF idx[k - 1] % 2 = 1 THEN <<s, at(k - 1)>>
                                                 ELSE <<at(k - 1), s>>
      BY <2>4, <3>1
    <3>4. node[k - 1] = at(k - 1)
      <4> DEFINE below == node[k - 1]
                 child == at(k - 1)
      <4>1. CASE k \in right
        <5>1. node[k] = <<siblings[k], below>> /\ at(k) = <<s, child>>
          BY <1>2, <2>3, <3>1, <3>3, <4>1
        <5> HIDE DEF below, child
        <5>2. <<siblings[k], below>> = <<s, child>>
          BY <3>2, <5>1, Zenon
        <5>3. below = child
          BY <5>2
        <5> QED
          BY <5>3 DEF below, child
      <4>2. CASE k \notin right
        <5>1. node[k] = <<below, siblings[k]>> /\ at(k) = <<child, s>>
          BY <1>2, <2>3, <3>1, <3>3, <4>2
        <5> HIDE DEF below, child
        <5>2. <<below, siblings[k]>> = <<child, s>>
          BY <3>2, <5>1, Zenon
        <5>3. below = child
          BY <5>2
        <5> QED
          BY <5>3 DEF below, child
      <4> QED
        BY <4>1, <4>2
    <3> QED
      BY <3>1, <3>4
  <2> HIDE DEF Good
  <2>9. d \in Good
    BY <1>1, <2>7, <2>8, NatInductionSet
  <2>10. d - d = 0
    BY <1>1
  <2>11. node[d - d] = at(d - d)
    BY <1>1, <2>9 DEF Good
  <2> QED
    BY <1>2, <2>6, <2>10, <2>11
<1> QED
  BY <1>6, <1>7

-------------------------------------------------------------------------------
(***************************************************************************)
(* The theorems: everything follows from the leaves being commitments.     *)
(***************************************************************************)
LeavesTyped == leaves \in Seq(Commitment)

\* build_tree is only ever given commitments.
LEMMA LeavesAreCommitments == Spec => []LeavesTyped
<1>1. Init => LeavesTyped
  BY DEF Init, LeavesTyped
<1>2. LeavesTyped /\ [Enlarge]_leaves => LeavesTyped'
  <2> SUFFICES ASSUME LeavesTyped, [Enlarge]_leaves PROVE LeavesTyped'
    OBVIOUS
  <2>1. CASE Enlarge
    BY <2>1 DEF Enlarge, LeavesTyped
  <2>2. CASE UNCHANGED leaves
    BY <2>2 DEF LeavesTyped
  <2> QED
    BY <2>1, <2>2
<1> QED
  BY <1>1, <1>2, PTL DEF Spec

\* The tree rebuilt from the leaves.
LEMMA TreeIs ==
  ASSUME LeavesTyped
  PROVE  /\ IsTree(Tree)
         /\ leaves # << >> => Tree[1] = leaves
         /\ Depth(Tree) \in Nat
<1>1. IsTree(Tree) /\ (leaves # << >> => Tree[1] = leaves)
  BY TreeShape DEF LeavesTyped, Tree
<1> QED
  BY <1>1 DEF IsTree, Row, Depth

\* Every proof an issuer hands out is accepted: by the mirror always, by the
\* program when the tree is no deeper than MAX_MERKLE_DEPTH (merkle.rs).
THEOREM ProofsAreAccepted == Spec => []ProofsVerify
<1>1. LeavesTyped => ProofsVerify
  <2> SUFFICES ASSUME LeavesTyped, Depth(Tree) <= WordBits,
                      NEW index \in 0..(leaf_count(Tree) - 1)
               PROVE  /\ mirror_verify(proof(Tree, index), root(Tree))
                      /\ Depth(Tree) <= MAX_MERKLE_DEPTH =>
                           AcceptedOnChain(proof(Tree, index), root(Tree))
    BY DEF ProofsVerify
  <2> DEFINE p == proof(Tree, index)
  <2>1. IsTree(Tree) /\ Depth(Tree) \in Nat
    BY TreeIs
  <2>2. Len(p.siblings) = Depth(Tree)
        /\ compute_root(p.leaf, p.siblings, p.index_bits) = root(Tree)
    BY <2>1, ProofLeadsToRoot
  <2> HIDE DEF p
  <2>3. mirror_compute_root(p.leaf, p.siblings, p.index_bits) = root(Tree)
    BY <2>1, <2>2, MirrorSame
  <2> QED
    BY <2>2, <2>3 DEF mirror_verify, AcceptedOnChain, verify, p
<1> QED
  BY <1>1, LeavesAreCommitments, PTL

\* The siblings of a proof in Proofs are as many as the tree is deep.
LEMMA ProofLength ==
  ASSUME LeavesTyped, NEW p \in Proofs
  PROVE  Len(p.siblings) = Depth(Tree)
<1>1. p.siblings \in [1..Depth(Tree) -> Nodes]
  BY DEF Proofs
<1> DEFINE s == p.siblings
<1>2. s = [k \in 1..Depth(Tree) |-> s[k]]
  BY <1>1
<1>3. Depth(Tree) \in Nat
  BY TreeIs
<1> HIDE DEF s
<1>4. Len(s) = Depth(Tree)
  BY <1>2, <1>3, LenOfRow
<1> QED
  BY <1>4 DEF s

\* The mirror and the program agree on every proof the program does not find too
\* deep, forged ones included (core/src/merkle.rs beside programs/.../merkle.rs).
THEOREM MirrorAgreement == Spec => []MirrorAgrees
<1>1. LeavesTyped => MirrorAgrees
  <2> SUFFICES ASSUME LeavesTyped, NEW p \in Proofs, Len(p.siblings) <= MAX_MERKLE_DEPTH
               PROVE  mirror_verify(p, root(Tree)) <=> AcceptedOnChain(p, root(Tree))
    BY DEF MirrorAgrees
  <2>1. Len(p.siblings) = Depth(Tree) /\ Depth(Tree) \in Nat
    BY ProofLength, TreeIs
  <2>2. Len(p.siblings) <= WordBits
    BY <2>1, DepthAssumption, WordBitsAssumption
  <2>3. mirror_compute_root(p.leaf, p.siblings, p.index_bits) =
          compute_root(p.leaf, p.siblings, p.index_bits)
    BY <2>1, <2>2, MirrorSame
  <2> QED
    BY <2>3 DEF mirror_verify, AcceptedOnChain, verify
<1> QED
  BY <1>1, LeavesAreCommitments, PTL

\* A root binds its issuer: no other set of as many commitments has it.
THEOREM RootsBind == Spec => []RootBindsLeaves
<1>1. LeavesTyped => RootBindsLeaves
  <2> SUFFICES ASSUME LeavesTyped, NEW other \in [1..Len(leaves) -> Commitment],
                      leaves # << >>, root(from_leaves(other)) = root(Tree)
               PROVE  other = leaves
    BY DEF RootBindsLeaves
  <2>1. Len(leaves) \in Nat \ {0}
    BY DEF LeavesTyped
  <2>2. other \in Seq(Commitment) /\ Len(other) = Len(leaves)
    BY <2>1
  <2>3. other # << >>
    BY <2>1, <2>2
  <2>4. IsTree(from_leaves(other)) /\ from_leaves(other)[1] = other
    BY <2>2, <2>3, TreeShape
  <2>5. IsTree(Tree) /\ Tree[1] = leaves
    BY TreeIs
  <2> QED
    BY <2>2, <2>4, <2>5, SameLeaves
<1> QED
  BY <1>1, LeavesAreCommitments, PTL

\* A proof of the tree's depth that the program accepts names a leaf, never an
\* inner node; with the directions of a position it names the leaf that stands there.
THEOREM AcceptedNamesLeaf == Spec => []AcceptedProofsNameLeaves
<1>1. LeavesTyped => AcceptedProofsNameLeaves
  <2> SUFFICES ASSUME LeavesTyped, leaves # << >>, NEW p \in Proofs,
                      AcceptedOnChain(p, root(Tree))
               PROVE  /\ p.leaf \in Range(leaves)
                      /\ \A index \in 0..(leaf_count(Tree) - 1) :
                           p.index_bits = proof(Tree, index).index_bits =>
                             p.leaf = leaves[index + 1]
    BY DEF AcceptedProofsNameLeaves
  <2>1. Len(p.siblings) = Depth(Tree) /\ IsTree(Tree) /\ Tree[1] = leaves
    BY ProofLength, TreeIs
  <2>2. compute_root(p.leaf, p.siblings, p.index_bits) = root(Tree)
    BY DEF AcceptedOnChain, verify
  <2> QED
    BY <2>1, <2>2, AcceptedProof
<1> QED
  BY <1>1, LeavesAreCommitments, PTL

===============================================================================

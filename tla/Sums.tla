-------------------------------- MODULE Sums --------------------------------
(***************************************************************************)
(* Sums of a function over a finite set: what MapThenSumSet of the         *)
(* community modules yields, and how it changes.  The modules of proofs    *)
(* use it for what is counted per key, customer or opportunity.            *)
(*                                                                         *)
(* The induction theorems of the library take a predicate as a parameter.  *)
(* SetInduction takes the set of the sets that have the property instead,  *)
(* so that it can be cited for any property.                               *)
(***************************************************************************)
EXTENDS FiniteSetsExt, FiniteSetTheorems, WellFoundedInduction, TLAPS

SumOver(f, S) == MapThenSumSet(LAMBDA x : f[x], S)

-----------------------------------------------------------------------------
(* Induction.                                                              *)

LEMMA LeastNumber ==
  ASSUME NEW T \in SUBSET Nat, T # {}
  PROVE  \E m \in T : \A n \in T : m <= n
<1>1. PICK m \in T : \A n \in T : <<n, m>> \notin OpToRel(<, Nat)
  BY NatLessThanWellFounded, WFMin
<1>2. \A n \in T : ~(n < m)
  BY <1>1 DEF OpToRel
<1> QED BY <1>2

LEMMA NumberInduction ==
  ASSUME NEW G, 0 \in G, \A n \in Nat : n \in G => n + 1 \in G
  PROVE  \A n \in Nat : n \in G
<1> SUFFICES ASSUME NEW k \in Nat \ G
             PROVE  FALSE
  OBVIOUS
<1>1. PICK m \in Nat \ G : \A n \in Nat \ G : m <= n
  BY LeastNumber
<1>2. m # 0 /\ m - 1 \in Nat /\ m = (m - 1) + 1
  OBVIOUS
<1>3. m - 1 \in G
  BY <1>1, <1>2
<1> QED BY <1>2, <1>3

LEMMA SetInduction ==
  ASSUME NEW S, IsFiniteSet(S), NEW G, {} \in G,
         \A T \in SUBSET S, x \in S : T \in G /\ x \notin T => T \cup {x} \in G
  PROVE  S \in G
<1> SUFFICES ASSUME S \notin G
             PROVE  FALSE
  OBVIOUS
<1> DEFINE Bad == {T \in SUBSET S : T \notin G}
           Sizes == {n \in Nat : \E T \in Bad : Cardinality(T) = n}
<1>1. \A T \in SUBSET S : IsFiniteSet(T) /\ Cardinality(T) \in Nat
  BY FS_Subset, FS_CardinalityType
<1>2. Sizes # {}
  BY <1>1
<1>3. PICK T \in Bad : \A U \in Bad : Cardinality(T) <= Cardinality(U)
  <2>1. PICK m \in Sizes : \A n \in Sizes : m <= n
    BY <1>2, LeastNumber
  <2> QED BY <1>1, <2>1
<1>4. PICK x \in T : TRUE
  BY <1>3
<1>5. T \ {x} \in Bad
  <2>1. T \ {x} \in SUBSET S /\ x \in S /\ x \notin T \ {x}
    BY <1>4
  <2>2. (T \ {x}) \cup {x} = T
    BY <1>4
  <2>3. T \ {x} \in G => T \in G
    BY <2>1, <2>2
  <2> QED BY <1>3, <2>1, <2>3
<1>6. Cardinality(T \ {x}) = Cardinality(T) - 1
  BY <1>1, <1>4, FS_RemoveElement
<1> QED BY <1>1, <1>3, <1>5, <1>6

\* A function on 0 .. N that is defined by its value at 0 and the step from each
\* number to the next.
IsIteration(g, N, base, step) ==
  g[0] = base /\ \A n \in 1 .. N : g[n] = step[<<n, g[n - 1]>>]

LEMMA IterationExists ==
  ASSUME NEW N \in Nat, NEW R, NEW base \in R, NEW step \in [(1 .. N) \X R -> R]
  PROVE  \E g \in [0 .. N -> R] : IsIteration(g, N, base, step)
<1> DEFINE Good == {m \in Nat : m <= N =>
                     \E g \in [0 .. m -> R] :
                       g[0] = base /\ \A n \in 1 .. m : g[n] = step[<<n, g[n - 1]>>]}
<1>1. 0 \in Good
  <2> DEFINE g == [n \in 0 .. 0 |-> base]
  <2>1. g \in [0 .. 0 -> R] /\ g[0] = base /\ 1 .. 0 = {}
    OBVIOUS
  <2> QED BY <2>1
<1>2. ASSUME NEW m \in Nat, m \in Good
      PROVE  m + 1 \in Good
  <2> SUFFICES ASSUME m + 1 <= N
               PROVE  \E g \in [0 .. m + 1 -> R] :
                        g[0] = base /\ \A n \in 1 .. m + 1 : g[n] = step[<<n, g[n - 1]>>]
    OBVIOUS
  <2>1. PICK g \in [0 .. m -> R] :
          g[0] = base /\ \A n \in 1 .. m : g[n] = step[<<n, g[n - 1]>>]
    BY <1>2
  <2>2. m + 1 \in 1 .. N /\ g[m] \in R
    OBVIOUS
  <2> DEFINE last == step[<<m + 1, g[m]>>]
             h == [n \in 0 .. m + 1 |-> IF n <= m THEN g[n] ELSE last]
  <2>3. last \in R
    BY <2>2
  <2>4. h \in [0 .. m + 1 -> R]
    BY <2>3
  <2>5. h[0] = base
    BY <2>1
  <2>6. ASSUME NEW n \in 1 .. m + 1
        PROVE  h[n] = step[<<n, h[n - 1]>>]
    <3>1. h[n - 1] = g[n - 1]
      OBVIOUS
    <3>2. CASE n <= m
      BY <2>1, <3>1, <3>2
    <3>3. CASE n = m + 1
      <4>1. n - 1 = m /\ h[n] = last
        BY <3>3
      <4>2. step[<<n, h[n - 1]>>] = last
        BY <3>1, <3>3, <4>1
      <4> QED BY <4>1, <4>2
    <3> QED BY <3>2, <3>3
  <2> HIDE DEF h
  <2> QED BY <2>4, <2>5, <2>6
<1> HIDE DEF Good
<1>3. N \in Good
  BY <1>1, <1>2, NumberInduction
<1> QED BY <1>3 DEF Good, IsIteration

\* A finite set of things with a number has one with the greatest.
LEMMA GreatestExists ==
  ASSUME NEW S, IsFiniteSet(S), S # {}, NEW f, \A x \in S : f[x] \in Int
  PROVE  \E x \in S : \A y \in S : f[y] <= f[x]
<1> DEFINE Good == {T \in SUBSET S : T # {} => \E x \in T : \A y \in T : f[y] <= f[x]}
<1>1. {} \in Good
  OBVIOUS
<1>2. ASSUME NEW T \in SUBSET S, NEW z \in S, T \in Good
      PROVE  T \cup {z} \in Good
  <2>1. CASE T = {}
    BY <2>1
  <2>2. ASSUME NEW x \in T, \A y \in T : f[y] <= f[x]
        PROVE  \E u \in T \cup {z} : \A y \in T \cup {z} : f[y] <= f[u]
    <3>1. CASE f[z] <= f[x]
      BY <2>2, <3>1
    <3>2. CASE f[x] <= f[z]
      BY <2>2, <3>2
    <3> QED BY <3>1, <3>2
  <2> QED BY <1>2, <2>1, <2>2
<1> HIDE DEF Good
<1>3. S \in Good
  BY <1>1, <1>2, SetInduction
<1> QED BY <1>3 DEF Good

-----------------------------------------------------------------------------
(* What the sum is.                                                        *)

AnElement(s) == CHOOSE x \in s : TRUE

Others(s) == s \ {AnElement(s)}

\* g sums f over every subset of S, one element after the other.
IsTable(f, S, g) ==
  g = [s \in SUBSET S |-> IF s = {} THEN 0 ELSE f[AnElement(s)] + g[Others(s)]]

LEMMA SumDefinition ==
  ASSUME NEW f, NEW S
  PROVE  SumOver(f, S) = (CHOOSE g : IsTable(f, S, g))[S]
BY DEF SumOver, MapThenSumSet, MapThenFoldSet, IsTable, AnElement, Others

LEMMA OthersAreFewer ==
  ASSUME NEW D, IsFiniteSet(D), NEW s, s \subseteq D
  PROVE  /\ Cardinality(s) \in Nat
         /\ s = {} <=> Cardinality(s) = 0
         /\ s # {} => /\ AnElement(s) \in s
                      /\ Others(s) \subseteq s
                      /\ Cardinality(Others(s)) = Cardinality(s) - 1
<1>1. IsFiniteSet(s)
  BY FS_Subset
<1>2. s # {} => AnElement(s) \in s
  BY DEF AnElement
<1>3. s # {} => Cardinality(Others(s)) = Cardinality(s) - 1
  BY <1>1, <1>2, FS_RemoveElement DEF Others
<1> QED BY <1>1, <1>2, <1>3, FS_CardinalityType, FS_EmptySet DEF Others

LEMMA TablesExist ==
  ASSUME NEW D, IsFiniteSet(D), NEW f \in [D -> Int]
  PROVE  \E g \in [SUBSET D -> Int] : IsTable(f, D, g)
<1> DEFINE Upto(n) == {s \in SUBSET D : Cardinality(s) <= n}
           Entry(g, s) == IF s = {} THEN 0 ELSE f[AnElement(s)] + g[Others(s)]
           Good == {n \in Nat : \E g \in [Upto(n) -> Int] : \A s \in Upto(n) : g[s] = Entry(g, s)}
<1>1. ASSUME NEW n \in Nat
      PROVE  /\ Upto(n) \subseteq Upto(n + 1)
             /\ \A s \in Upto(n + 1) : s # {} => AnElement(s) \in D /\ Others(s) \in Upto(n)
             /\ Upto(0) = {{}}
  <2>1. \A s \in SUBSET D : Cardinality(s) \in Nat
    BY OthersAreFewer
  <2>2. Upto(n) \subseteq Upto(n + 1)
    BY <2>1
  <2>3. ASSUME NEW s \in Upto(n + 1), s # {}
        PROVE  AnElement(s) \in D /\ Others(s) \in Upto(n)
    <3>1. Cardinality(Others(s)) = Cardinality(s) - 1 /\ Others(s) \subseteq s /\ AnElement(s) \in s
      BY <2>3, OthersAreFewer
    <3>2. Cardinality(s) \in Nat
      BY <2>1
    <3> QED BY <3>1, <3>2
  <2>4. \A s \in Upto(0) : s = {}
    BY <2>1, OthersAreFewer
  <2>5. {} \in Upto(0)
    BY FS_EmptySet
  <2> QED BY <2>2, <2>3, <2>4, <2>5
<1> HIDE DEF Upto
<1>2. 0 \in Good
  <2> DEFINE g == [s \in Upto(0) |-> 0]
  <2>1. g \in [Upto(0) -> Int] /\ \A s \in Upto(0) : g[s] = Entry(g, s)
    BY <1>1
  <2> QED BY <2>1
<1>3. ASSUME NEW n \in Nat, n \in Good
      PROVE  n + 1 \in Good
  <2>1. PICK g \in [Upto(n) -> Int] : \A s \in Upto(n) : g[s] = Entry(g, s)
    BY <1>3
  <2> DEFINE h == [s \in Upto(n + 1) |-> Entry(g, s)]
  <2>2. h \in [Upto(n + 1) -> Int]
    BY <1>1
  <2>3. \A s \in Upto(n) : s \in Upto(n + 1) /\ h[s] = g[s]
    BY <1>1, <2>1
  <2>4. \A s \in Upto(n + 1) : h[s] = Entry(h, s)
    BY <1>1, <2>3
  <2> HIDE DEF h, Entry
  <2> QED BY <2>2, <2>4
<1> HIDE DEF Good
<1>4. Cardinality(D) \in Good
  BY <1>2, <1>3, NumberInduction, FS_CardinalityType
<1>5. PICK g \in [Upto(Cardinality(D)) -> Int] :
        \A s \in Upto(Cardinality(D)) : g[s] = Entry(g, s)
  BY <1>4 DEF Good
<1>6. Upto(Cardinality(D)) = SUBSET D
  BY FS_Subset DEF Upto
<1> QED BY <1>5, <1>6 DEF IsTable

LEMMA TablesAgree ==
  ASSUME NEW R, NEW U, IsFiniteSet(R), NEW f, NEW g, NEW h, IsTable(f, R, g), IsTable(f, U, h),
         NEW S \in SUBSET R, S \subseteq U
  PROVE  g[S] = h[S]
<1> DEFINE Good == {n \in Nat : \A s \in SUBSET S : Cardinality(s) = n => g[s] = h[s]}
<1>1. ASSUME NEW s \in SUBSET S
      PROVE  /\ s = {} => g[s] = 0 /\ h[s] = 0
             /\ s # {} => /\ g[s] = f[AnElement(s)] + g[Others(s)]
                          /\ h[s] = f[AnElement(s)] + h[Others(s)]
  <2>1. s \in SUBSET R /\ s \in SUBSET U
    OBVIOUS
  <2> QED BY <2>1 DEF IsTable
<1>2. 0 \in Good
  BY <1>1, OthersAreFewer
<1>3. ASSUME NEW n \in Nat, n \in Good
      PROVE  n + 1 \in Good
  <2> SUFFICES ASSUME NEW s \in SUBSET S, Cardinality(s) = n + 1
               PROVE  g[s] = h[s]
    OBVIOUS
  <2>1. s # {} /\ Others(s) \in SUBSET S /\ Cardinality(Others(s)) = n
    BY OthersAreFewer
  <2>2. g[Others(s)] = h[Others(s)]
    BY <1>3, <2>1
  <2> QED BY <1>1, <2>1, <2>2
<1> HIDE DEF Good
<1>4. Cardinality(S) \in Good
  BY <1>2, <1>3, NumberInduction, OthersAreFewer
<1> QED BY <1>4 DEF Good

LEMMA SumFacts ==
  ASSUME NEW D, IsFiniteSet(D), NEW f \in [D -> Int], NEW S \in SUBSET D
  PROVE  /\ SumOver(f, S) \in Int
         /\ SumOver(f, {}) = 0
         /\ S # {} => SumOver(f, S) = f[AnElement(S)] + SumOver(f, Others(S))
<1>1. PICK g \in [SUBSET D -> Int] : IsTable(f, D, g)
  BY TablesExist
<1>2. ASSUME NEW T \in SUBSET D
      PROVE  SumOver(f, T) = g[T]
  <2> DEFINE table == [s \in SUBSET T |-> g[s]]
             chosen == CHOOSE h : IsTable(f, T, h)
  <2>1. \A s \in SUBSET T : Others(s) \in SUBSET T
    BY DEF Others
  <2>2. IsTable(f, T, table)
    BY <1>1, <2>1 DEF IsTable
  <2>3. IsTable(f, T, chosen)
    BY <2>2
  <2> HIDE DEF chosen
  <2>4. chosen[T] = g[T]
    BY <1>1, <2>3, TablesAgree, FS_Subset
  <2> QED BY <2>4, SumDefinition DEF chosen
<1>3. Others(S) \in SUBSET D
  BY DEF Others
<1> QED BY <1>1, <1>2, <1>3 DEF IsTable

-----------------------------------------------------------------------------
(* How it changes, and what it keeps of its terms.                         *)

\* The order in which the sum is taken does not matter.
LEMMA SumAdds ==
  ASSUME NEW D, IsFiniteSet(D), NEW f \in [D -> Int], NEW S \in SUBSET D, NEW y \in D, y \notin S
  PROVE  SumOver(f, S \cup {y}) = SumOver(f, S) + f[y]
<1> DEFINE Adds(T, x) == SumOver(f, T \cup {x}) = SumOver(f, T) + f[x]
           Good == {n \in Nat : \A T \in SUBSET D, x \in D :
                                  Cardinality(T) = n /\ x \notin T => Adds(T, x)}
<1>1. \A T \in SUBSET D : SumOver(f, T) \in Int /\ Cardinality(T) \in Nat
  BY SumFacts, FS_Subset, FS_CardinalityType
<1>2. ASSUME NEW T \in SUBSET D, NEW x \in D, x \notin T, AnElement(T \cup {x}) = x
      PROVE  Adds(T, x)
  <2>1. PICK U \in SUBSET D : U = T \cup {x}
    OBVIOUS
  <2>2. U # {} /\ AnElement(U) = x /\ Others(U) = T
    BY <1>2, <2>1 DEF Others
  <2>3. SumOver(f, U) = f[x] + SumOver(f, T)
    BY <2>2, SumFacts
  <2> QED BY <1>1, <2>1, <2>3
<1>3. 0 \in Good
  <2> SUFFICES ASSUME NEW T \in SUBSET D, NEW x \in D, Cardinality(T) = 0, x \notin T
               PROVE  Adds(T, x)
    OBVIOUS
  <2>1. T = {}
    BY FS_Subset, FS_EmptySet
  <2>2. AnElement(T \cup {x}) = x
    BY <2>1 DEF AnElement
  <2> QED BY <1>2, <2>2
<1>4. ASSUME NEW n \in Nat, n \in Good
      PROVE  n + 1 \in Good
  <2> SUFFICES ASSUME NEW T \in SUBSET D, NEW x \in D, Cardinality(T) = n + 1, x \notin T
               PROVE  Adds(T, x)
    OBVIOUS
  <2>1. PICK U \in SUBSET D : U = T \cup {x}
    OBVIOUS
  <2>2. PICK e \in U : e = AnElement(U)
    BY <2>1 DEF AnElement
  <2>3. CASE e = x
    BY <1>2, <2>1, <2>2, <2>3
  <2>4. CASE e # x
    <3>1. e \in T /\ e \in D /\ IsFiniteSet(T)
      BY <2>1, <2>4, FS_Subset
    <3>2. PICK R \in SUBSET D : R = T \ {e}
      OBVIOUS
    <3>3. Cardinality(R) = n
      <4>1. Cardinality(T \ {e}) = Cardinality(T) - 1
        BY <3>1, FS_RemoveElement
      <4> QED BY <3>2, <4>1
    <3>4. Adds(R, x) /\ Adds(R, e)
      BY <1>4, <3>1, <3>2, <3>3
    <3>5. R \cup {e} = T /\ Others(U) = R \cup {x}
      BY <2>1, <2>2, <2>4, <3>1, <3>2 DEF Others
    <3>6. SumOver(f, U) = f[e] + SumOver(f, R \cup {x})
      <4>1. SumOver(f, U) = f[AnElement(U)] + SumOver(f, Others(U))
        BY <2>1, SumFacts
      <4> QED BY <2>2, <3>5, <4>1
    <3>7. SumOver(f, T) = SumOver(f, R) + f[e] /\ SumOver(f, R \cup {x}) = SumOver(f, R) + f[x]
      BY <3>4, <3>5
    <3>8. SumOver(f, R) \in Int /\ f[e] \in Int /\ f[x] \in Int
      BY <1>1, <3>1
    <3> QED BY <2>1, <3>6, <3>7, <3>8
  <2> QED BY <2>3, <2>4
<1> HIDE DEF Good, Adds
<1>5. Cardinality(S) \in Good
  BY <1>1, <1>3, <1>4, NumberInduction
<1> QED BY <1>5 DEF Good, Adds

\* The sum of zeros, of differences, and of terms up to b.
LEMMA SumOfZeros ==
  ASSUME NEW D, IsFiniteSet(D), NEW f \in [D -> Int], NEW S \in SUBSET D, \A x \in S : f[x] = 0
  PROVE  SumOver(f, S) = 0
<1> DEFINE Good == {T \in SUBSET S : SumOver(f, T) = 0}
<1>1. {} \in Good
  BY SumFacts
<1>2. \A T \in SUBSET S, x \in S : T \in Good /\ x \notin T => T \cup {x} \in Good
  BY SumAdds
<1> HIDE DEF Good
<1>3. S \in Good
  BY <1>1, <1>2, SetInduction, FS_Subset
<1> QED BY <1>3 DEF Good

LEMMA SumOfDifferences ==
  ASSUME NEW D, IsFiniteSet(D), NEW f \in [D -> Int], NEW g \in [D -> Int], NEW h \in [D -> Int],
         NEW S \in SUBSET D, \A x \in S : f[x] = g[x] - h[x]
  PROVE  SumOver(f, S) = SumOver(g, S) - SumOver(h, S)
<1> DEFINE Good == {T \in SUBSET S : SumOver(f, T) = SumOver(g, T) - SumOver(h, T)}
<1>1. {} \in Good
  BY SumFacts
<1>2. ASSUME NEW T \in SUBSET S, NEW x \in S, T \in Good, x \notin T
      PROVE  T \cup {x} \in Good
  <2>1. /\ SumOver(f, T \cup {x}) = SumOver(f, T) + f[x]
        /\ SumOver(g, T \cup {x}) = SumOver(g, T) + g[x]
        /\ SumOver(h, T \cup {x}) = SumOver(h, T) + h[x]
    BY <1>2, SumAdds
  <2>2. SumOver(g, T) \in Int /\ SumOver(h, T) \in Int /\ g[x] \in Int /\ h[x] \in Int
    BY SumFacts
  <2> QED BY <1>2, <2>1, <2>2
<1> HIDE DEF Good
<1>3. S \in Good
  BY <1>1, <1>2, SetInduction, FS_Subset
<1> QED BY <1>3 DEF Good

LEMMA SumIsBounded ==
  ASSUME NEW D, IsFiniteSet(D), NEW f \in [D -> Int], NEW S \in SUBSET D,
         NEW b \in Nat, \A x \in S : f[x] <= b
  PROVE  SumOver(f, S) <= b * Cardinality(S)
<1> DEFINE Good == {T \in SUBSET S : SumOver(f, T) <= b * Cardinality(T)}
<1>1. {} \in Good
  BY SumFacts, FS_EmptySet
<1>2. ASSUME NEW T \in SUBSET S, NEW x \in S, T \in Good, x \notin T
      PROVE  T \cup {x} \in Good
  <2>1. SumOver(f, T \cup {x}) = SumOver(f, T) + f[x]
    BY <1>2, SumAdds
  <2>2. Cardinality(T \cup {x}) = Cardinality(T) + 1 /\ Cardinality(T) \in Nat
    BY <1>2, FS_Subset, FS_AddElement, FS_CardinalityType
  <2>3. b * (Cardinality(T) + 1) = b * Cardinality(T) + b
    BY <2>2
  <2>4. SumOver(f, T) \in Int /\ f[x] \in Int /\ f[x] <= b /\ b * Cardinality(T) \in Int
    BY <2>2, SumFacts
  <2>5. SumOver(f, T) + f[x] <= b * Cardinality(T) + b
    BY <1>2, <2>4
  <2> QED BY <2>1, <2>2, <2>3, <2>5
<1> HIDE DEF Good
<1>3. S \in Good
  BY <1>1, <1>2, SetInduction, FS_Subset
<1> QED BY <1>3 DEF Good

\* The sum grows with its terms, and by one at least when one of them does.
LEMMA SumIsMonotonic ==
  ASSUME NEW D, IsFiniteSet(D), NEW f \in [D -> Int], NEW g \in [D -> Int], NEW S \in SUBSET D,
         \A x \in S : f[x] <= g[x]
  PROVE  SumOver(f, S) <= SumOver(g, S)
<1> DEFINE Good == {T \in SUBSET S : SumOver(f, T) <= SumOver(g, T)}
<1>1. {} \in Good
  BY SumFacts
<1>2. ASSUME NEW T \in SUBSET S, NEW x \in S, T \in Good, x \notin T
      PROVE  T \cup {x} \in Good
  <2>1. /\ SumOver(f, T \cup {x}) = SumOver(f, T) + f[x]
        /\ SumOver(g, T \cup {x}) = SumOver(g, T) + g[x]
    BY <1>2, SumAdds
  <2>2. SumOver(f, T) \in Int /\ SumOver(g, T) \in Int /\ f[x] \in Int /\ g[x] \in Int
    BY SumFacts
  <2> QED BY <1>2, <2>1, <2>2
<1> HIDE DEF Good
<1>3. S \in Good
  BY <1>1, <1>2, SetInduction, FS_Subset
<1> QED BY <1>3 DEF Good

LEMMA SumGrows ==
  ASSUME NEW D, IsFiniteSet(D), NEW f \in [D -> Int], NEW g \in [D -> Int], NEW S \in SUBSET D,
         \A x \in S : f[x] <= g[x], NEW y \in S, f[y] + 1 <= g[y]
  PROVE  SumOver(f, S) + 1 <= SumOver(g, S)
<1>1. PICK T \in SUBSET D : T = S \ {y}
  OBVIOUS
<1>2. S = T \cup {y} /\ y \notin T
  BY <1>1
<1>3. /\ SumOver(f, T \cup {y}) = SumOver(f, T) + f[y]
      /\ SumOver(g, T \cup {y}) = SumOver(g, T) + g[y]
  BY <1>2, SumAdds
<1>4. SumOver(f, T) <= SumOver(g, T)
  BY <1>1, SumIsMonotonic
<1>5. SumOver(f, T) \in Int /\ SumOver(g, T) \in Int /\ f[y] \in Int /\ g[y] \in Int
  BY SumFacts
<1> QED BY <1>2, <1>3, <1>4, <1>5

\* When one term changes, the sum changes by as much.
LEMMA SumOfOneChange ==
  ASSUME NEW D, IsFiniteSet(D), NEW f \in [D -> Int], NEW g \in [D -> Int], NEW S \in SUBSET D,
         NEW y \in S, \A x \in S \ {y} : g[x] = f[x]
  PROVE  SumOver(g, S) = SumOver(f, S) + (g[y] - f[y])
<1>1. PICK T \in SUBSET D : T = S \ {y}
  OBVIOUS
<1>2. S = T \cup {y} /\ y \notin T
  BY <1>1
<1>3. /\ SumOver(f, T \cup {y}) = SumOver(f, T) + f[y]
      /\ SumOver(g, T \cup {y}) = SumOver(g, T) + g[y]
  BY <1>2, SumAdds
<1>4. SumOver(f, T) \in Int /\ SumOver(g, T) \in Int /\ f[y] \in Int /\ g[y] \in Int
  BY SumFacts
<1>5. SumOver(f, T) <= SumOver(g, T) /\ SumOver(g, T) <= SumOver(f, T)
  <2>1. \A x \in T : f[x] = g[x] /\ f[x] \in Int /\ g[x] \in Int
    BY <1>1
  <2>2. \A x \in T : f[x] <= g[x] /\ g[x] <= f[x]
    BY <2>1
  <2> QED BY <2>2, SumIsMonotonic
<1> QED BY <1>2, <1>3, <1>4, <1>5

\* What is 0 outside a set adds nothing to the sum over it.
LEMMA SumOfSupport ==
  ASSUME NEW D, IsFiniteSet(D), NEW f \in [D -> Int], NEW T \in SUBSET D, NEW g \in [T -> Int],
         \A x \in T : f[x] = g[x], \A x \in D \ T : f[x] = 0
  PROVE  SumOver(f, D) = SumOver(g, T)
<1> DEFINE Good == {U \in SUBSET D : SumOver(f, U) = SumOver(g, U \cap T)}
<1>1. IsFiniteSet(T)
  BY FS_Subset
<1>2. {} \in Good
  <2>1. {} \in SUBSET D /\ {} \in SUBSET T /\ {} \cap T = {}
    OBVIOUS
  <2>2. SumOver(f, {}) = 0
    BY SumFacts
  <2>3. SumOver(g, {}) = 0
    BY <1>1, SumFacts
  <2> QED BY <2>1, <2>2, <2>3
<1>3. ASSUME NEW U \in SUBSET D, NEW x \in D, U \in Good, x \notin U
      PROVE  U \cup {x} \in Good
  <2>1. SumOver(f, U \cup {x}) = SumOver(f, U) + f[x] /\ SumOver(f, U) \in Int
    BY <1>3, SumAdds, SumFacts
  <2>2. CASE x \in T
    <3>1. (U \cup {x}) \cap T = (U \cap T) \cup {x} /\ U \cap T \in SUBSET T /\ x \notin U \cap T
      BY <1>3, <2>2
    <3>2. SumOver(g, (U \cap T) \cup {x}) = SumOver(g, U \cap T) + g[x]
      BY <1>1, <2>2, <3>1, SumAdds
    <3> QED BY <1>3, <2>1, <2>2, <3>1, <3>2
  <2>3. CASE x \notin T
    <3>1. (U \cup {x}) \cap T = U \cap T
      BY <2>3
    <3>2. SumOver(f, U \cup {x}) = SumOver(f, U)
      BY <2>1, <2>3
    <3> QED BY <1>3, <3>1, <3>2
  <2> QED BY <2>2, <2>3
<1> HIDE DEF Good
<1>4. D \in Good
  BY <1>2, <1>3, SetInduction
<1>5. D \cap T = T
  OBVIOUS
<1> QED BY <1>4, <1>5 DEF Good

-----------------------------------------------------------------------------
(* Finite sets.                                                            *)

LEMMA GreatestIsIn ==
  ASSUME NEW S \in SUBSET Nat, IsFiniteSet(S), S # {}
  PROVE  Max(S) \in S /\ \A y \in S : Max(S) >= y
<1> DEFINE f == [x \in S |-> x]
<1>1. \A x \in S : f[x] = x /\ f[x] \in Int
  OBVIOUS
<1> HIDE DEF f
<1>2. PICK x \in S : \A y \in S : f[y] <= f[x]
  BY <1>1, GreatestExists
<1>3. \E z \in S : \A y \in S : z >= y
  BY <1>1, <1>2
<1> QED  BY <1>3 DEF Max

LEMMA GreatestOfFirst ==
  ASSUME NEW n \in Nat
  PROVE  Max(1 .. n + 1) = n + 1 /\ (1 .. n + 1) \ {n + 1} = 1 .. n
<1>1. 1 .. n + 1 \in SUBSET Nat /\ 1 .. n + 1 # {} /\ n + 1 \in Int
  OBVIOUS
<1>2. IsFiniteSet(1 .. n + 1)
  BY <1>1, FS_Interval
<1>3. Max(1 .. n + 1) \in 1 .. n + 1 /\ \A y \in 1 .. n + 1 : Max(1 .. n + 1) >= y
  BY <1>1, <1>2, GreatestIsIn
<1> QED  BY <1>3

LEMMA ImageIsFinite ==
  ASSUME NEW S, IsFiniteSet(S), NEW T, NEW f \in [S -> T], \A y \in T : \E x \in S : y = f[x]
  PROVE  IsFiniteSet(T)
<1>1. f \in Surjection(S, T)
  BY DEF Surjection
<1> QED  BY <1>1, FS_Surjection
=============================================================================

---------------------------- MODULE TotalsProofs ----------------------------
(***************************************************************************)
(* The laws of Total that the proofs about the components rest on.         *)
(***************************************************************************)
EXTENDS Totals, FiniteSetTheorems, FunctionTheorems, TLAPS

\* The weights of the elements of S are natural numbers.
Weights(S, f) == \A x \in S : f[x] \in Nat

\* The units of a finite set are finite: they are a union of intervals.
LEMMA UnitsFinite ==
    ASSUME NEW S, IsFiniteSet(S), NEW f, Weights(S, f)
    PROVE  IsFiniteSet(Units(S, f))
<1> DEFINE Row(x) == {x} \X (1..f[x])
           g == [x \in S |-> Row(x)]
           Rows == {Row(x) : x \in S}
<1>1. g \in Surjection(S, Rows)
  BY DEF Surjection
<1>2. IsFiniteSet(Rows)
  BY <1>1, FS_Surjection
<1>3. ASSUME NEW x \in S
      PROVE  IsFiniteSet(Row(x))
  <2>1. f[x] \in Int /\ 1 \in Int
    BY DEF Weights
  <2>2. IsFiniteSet(1..f[x])
    BY <2>1, FS_Interval
  <2>3. IsFiniteSet({x})
    BY FS_Singleton
  <2> QED
    BY <2>2, <2>3, FS_Product
<1>4. \A R \in Rows : IsFiniteSet(R)
  BY <1>3
<1>5. IsFiniteSet(UNION Rows)
  BY <1>2, <1>4, FS_UNION
<1> QED
  BY <1>5 DEF Units

\* A sum is a natural number.
LEMMA TotalType ==
    ASSUME NEW S, IsFiniteSet(S), NEW f, Weights(S, f)
    PROVE  Total(S, f) \in Nat
BY UnitsFinite, FS_CardinalityType DEF Total

\* The sum over two disjoint sets is the sum of the sums.
LEMMA TotalUnion ==
    ASSUME NEW S, IsFiniteSet(S), NEW T, IsFiniteSet(T), S \cap T = {},
           NEW f, Weights(S, f), Weights(T, f)
    PROVE  Total(S \cup T, f) = Total(S, f) + Total(T, f)
<1>1. Units(S \cup T, f) = Units(S, f) \cup Units(T, f)
  BY DEF Units
<1>2. Units(S, f) \cap Units(T, f) = {}
  BY DEF Units
<1>3. IsFiniteSet(Units(S, f)) /\ IsFiniteSet(Units(T, f))
  BY UnitsFinite
<1>4. Cardinality(Units(S, f) \cup Units(T, f))
        = Cardinality(Units(S, f)) + Cardinality(Units(T, f)) - 0
  BY <1>2, <1>3, FS_Union, FS_EmptySet
<1>5. Cardinality(Units(S, f)) \in Nat /\ Cardinality(Units(T, f)) \in Nat
  BY <1>3, FS_CardinalityType
<1>6. \A m, n \in Nat : m + n - 0 = m + n
  OBVIOUS
<1>7. Cardinality(Units(S, f) \cup Units(T, f))
        = Cardinality(Units(S, f)) + Cardinality(Units(T, f))
  BY <1>4, <1>5, <1>6
<1> QED
  BY <1>1, <1>7, Zenon DEF Total

\* The sum over nothing is zero; over one element it is that element's weight.
LEMMA TotalEmpty ==
    ASSUME NEW f
    PROVE  Total({}, f) = 0
BY FS_EmptySet DEF Total, Units

LEMMA TotalSingleton ==
    ASSUME NEW x, NEW f, f[x] \in Nat
    PROVE  Total({x}, f) = f[x]
<1>1. Units({x}, f) = {x} \X (1..f[x])
  BY DEF Units
<1>2. 1 \in Int /\ f[x] \in Int
  OBVIOUS
<1>3. IsFiniteSet(1..f[x]) /\ Cardinality(1..f[x]) = f[x]
  BY SMTT(30), <1>2, FS_Interval
<1>4. IsFiniteSet({x}) /\ Cardinality({x}) = 1
  BY FS_Singleton
<1>5. Cardinality({x} \X (1..f[x])) = 1 * f[x]
  BY ZenonT(40), <1>3, <1>4, FS_Product
<1>6. 1 * f[x] = f[x]
  OBVIOUS
<1> QED
  BY <1>1, <1>5, <1>6, Zenon DEF Total

\* Taking elements out of a set takes their sum off the total.
LEMMA TotalDifference ==
    ASSUME NEW S, IsFiniteSet(S), NEW T \in SUBSET S, NEW f, Weights(S, f)
    PROVE  /\ Total(S \ T, f) = Total(S, f) - Total(T, f)
           /\ Total(T, f) <= Total(S, f)
           /\ Total(S, f) \in Nat /\ Total(T, f) \in Nat /\ Total(S \ T, f) \in Nat
<1>1. IsFiniteSet(T) /\ IsFiniteSet(S \ T)
  BY FS_Subset
<1>2. Weights(T, f) /\ Weights(S \ T, f)
  BY DEF Weights
<1>3. Total((S \ T) \cup T, f) = Total(S \ T, f) + Total(T, f)
  BY <1>1, <1>2, TotalUnion
<1>4. (S \ T) \cup T = S
  OBVIOUS
<1>5. Total(S, f) \in Nat /\ Total(T, f) \in Nat /\ Total(S \ T, f) \in Nat
  BY <1>1, <1>2, TotalType
<1>6. Total(S, f) = Total(S \ T, f) + Total(T, f)
  BY <1>3, <1>4, Zenon
<1>7. \A l, m, n \in Nat : l = m + n => m = l - n /\ n <= l
  OBVIOUS
<1> QED
  BY <1>5, <1>6, <1>7

\* Two weightings that agree on S have the same sum over S.
LEMMA TotalSame ==
    ASSUME NEW S, NEW f, NEW g, \A x \in S : f[x] = g[x]
    PROVE  Total(S, f) = Total(S, g)
<1>1. Units(S, f) = Units(S, g)
  BY DEF Units
<1> QED
  BY <1>1 DEF Total

\* The sum of nothing but zeros.
LEMMA TotalZero ==
    ASSUME NEW S
    PROVE  Total(S, [x \in S |-> 0]) = 0
<1>1. Units(S, [x \in S |-> 0]) = {}
  BY DEF Units
<1> QED BY <1>1, FS_EmptySet DEF Total

\* Elements without weight do not count.
LEMMA TotalSupport ==
    ASSUME NEW S, NEW T \in SUBSET S, NEW f, \A x \in S \ T : f[x] = 0
    PROVE  Total(T, f) = Total(S, f)
<1>1. Units(T, f) = Units(S, f)
  BY DEF Units
<1> QED BY <1>1 DEF Total

\* A larger weighting has a larger sum.
LEMMA TotalAtMost ==
    ASSUME NEW S, IsFiniteSet(S), NEW f, NEW g, Weights(S, f), Weights(S, g),
           \A x \in S : f[x] <= g[x]
    PROVE  Total(S, f) <= Total(S, g)
<1>1. Units(S, f) \subseteq Units(S, g)
  <2> SUFFICES ASSUME NEW x \in S, NEW i \in 1..f[x] PROVE i \in 1..g[x]
    BY DEF Units
  <2> QED BY DEF Weights
<1> QED BY <1>1, UnitsFinite, FS_Subset DEF Total

\* The sum of a weighting that adds up two others.
LEMMA TotalPlus ==
    ASSUME NEW S, IsFiniteSet(S), NEW f, NEW g, NEW h, Weights(S, f), Weights(S, g),
           \A x \in S : h[x] = f[x] + g[x]
    PROVE  Total(S, h) = Total(S, f) + Total(S, g)
<1> DEFINE F == Units(S, f)
           G == Units(S, g)
           H == Units(S, h)
           m == [u \in G |-> <<u[1], f[u[1]] + u[2]>>]
<1>1. Weights(S, h)
  BY DEF Weights
<1>2. IsFiniteSet(F) /\ IsFiniteSet(G) /\ IsFiniteSet(H)
  BY <1>1, UnitsFinite
<1>3. \A u : u \in F <=> \E x \in S : \E i \in 1..f[x] : u = <<x, i>>
  BY DEF Units
<1>4. \A u : u \in G <=> \E x \in S : \E i \in 1..g[x] : u = <<x, i>>
  BY DEF Units
<1>5. \A u : u \in H <=> \E x \in S : \E i \in 1..h[x] : u = <<x, i>>
  BY DEF Units
<1> HIDE DEF F, G, H
<1>6. F \subseteq H
  <2> SUFFICES ASSUME NEW x \in S, NEW i \in 1..f[x] PROVE i \in 1..h[x]
    BY <1>3, <1>5
  <2> QED BY DEF Weights
<1>7. ASSUME NEW u \in G PROVE m[u] \in H \ F /\ m[u] = <<u[1], f[u[1]] + u[2]>> /\ u = <<u[1], u[2]>>
                                /\ u[1] \in S /\ u[2] \in Nat
  <2>0. PICK x \in S : \E i \in 1..g[x] : u = <<x, i>>
    BY <1>4
  <2>1. PICK i \in 1..g[x] : u = <<x, i>>
    BY <2>0
  <2>2. m[u] = <<x, f[x] + i>>
    BY <2>1
  <2>3. f[x] \in Nat /\ g[x] \in Nat
    BY DEF Weights
  <2>4. f[x] + i \in 1..h[x] /\ f[x] + i \notin 1..f[x]
    BY <2>3
  <2>5. m[u] \in H
    BY <1>5, <2>2, <2>4
  <2>6. m[u] \notin F
    BY <1>3, <2>2, <2>4
  <2> QED BY <2>1, <2>2, <2>5, <2>6
<1>8. m \in [G -> H \ F]
  BY <1>7
<1>9. \A a, b \in G : m[a] = m[b] => a = b
  <2> TAKE a, b \in G
  <2> HAVE m[a] = m[b]
  <2>1. a[1] = b[1] /\ f[a[1]] + a[2] = f[b[1]] + b[2]
    BY <1>7
  <2>2. f[a[1]] \in Nat /\ a[2] \in Nat /\ b[2] \in Nat
    BY <1>7 DEF Weights
  <2>3. a[2] = b[2]
    BY <2>1, <2>2
  <2> QED BY <1>7, <2>1, <2>3
<1>10. \A v \in H \ F : \E u \in G : m[u] = v
  <2> TAKE v \in H \ F
  <2>0. PICK x \in S : \E i \in 1..h[x] : v = <<x, i>>
    BY <1>5
  <2>1. PICK i \in 1..h[x] : v = <<x, i>>
    BY <2>0
  <2>2. f[x] \in Nat /\ g[x] \in Nat /\ h[x] = f[x] + g[x]
    BY DEF Weights
  <2>3. i \notin 1..f[x]
    BY <1>3, <2>1
  <2>4. i - f[x] \in 1..g[x] /\ f[x] + (i - f[x]) = i
    BY <2>2, <2>3
  <2>5. <<x, i - f[x]>> \in G
    BY <1>4, <2>4
  <2>6. m[<<x, i - f[x]>>] = <<x, i>>
    BY <2>4, <2>5
  <2> QED BY <2>1, <2>5, <2>6
<1>11. m \in Bijection(G, H \ F)
  BY <1>8, <1>9, <1>10, Fun_IsBij
<1>12. Cardinality(H \ F) = Cardinality(G)
  BY <1>2, <1>11, FS_Bijection DEF ExistsBijection
<1>13. Cardinality(H \ F) = Cardinality(H) - Cardinality(F)
  <2>1. H \cap F = F
    BY <1>6
  <2>2. Cardinality(H \ F) = Cardinality(H) - Cardinality(H \cap F)
    BY <1>2, FS_Difference
  <2> QED BY <2>1, <2>2, Zenon
<1>14. Cardinality(H) \in Nat /\ Cardinality(F) \in Nat /\ Cardinality(G) \in Nat
  BY <1>2, FS_CardinalityType
<1>15. Cardinality(H) = Cardinality(F) + Cardinality(G)
  BY <1>12, <1>13, <1>14
<1> QED BY <1>15 DEF Total, F, G, H

\* The same weights over other elements.
LEMMA TotalBijection ==
    ASSUME NEW S, IsFiniteSet(S), NEW T, NEW f \in Bijection(S, T), NEW w, NEW v, Weights(S, w),
           \A x \in S : v[f[x]] = w[x]
    PROVE  Total(S, w) = Total(T, v)
<1> DEFINE U == Units(S, w)
           V == Units(T, v)
           m == [u \in U |-> <<f[u[1]], u[2]>>]
<1>1. \A u : u \in U <=> \E x \in S : \E i \in 1..w[x] : u = <<x, i>>
  BY DEF Units
<1>2. \A u : u \in V <=> \E x \in T : \E i \in 1..v[x] : u = <<x, i>>
  BY DEF Units
<1>3. IsFiniteSet(U)
  BY UnitsFinite
<1>4. /\ f \in [S -> T] /\ \A a, b \in S : f[a] = f[b] => a = b
      /\ \A y \in T : \E x \in S : f[x] = y
  BY DEF Bijection, Injection, Surjection, IsInjective
<1> HIDE DEF U, V
<1>5. ASSUME NEW u \in U PROVE m[u] \in V /\ u = <<u[1], u[2]>> /\ u[1] \in S /\ m[u] = <<f[u[1]], u[2]>>
  <2>1. PICK x \in S : \E i \in 1..w[x] : u = <<x, i>>
    BY <1>1
  <2>2. PICK i \in 1..w[x] : u = <<x, i>>
    BY <2>1
  <2>3. m[u] = <<f[x], i>>
    BY <2>2
  <2>4. f[x] \in T /\ i \in 1..v[f[x]]
    BY <1>4
  <2> QED BY <1>2, <2>2, <2>3, <2>4
<1>6. m \in [U -> V]
  BY <1>5
<1>7. \A a, b \in U : m[a] = m[b] => a = b
  <2> TAKE a, b \in U
  <2> HAVE m[a] = m[b]
  <2>1. f[a[1]] = f[b[1]] /\ a[2] = b[2]
    BY <1>5
  <2> QED BY <1>4, <1>5, <2>1
<1>8. \A z \in V : \E u \in U : m[u] = z
  <2> TAKE z \in V
  <2>1. PICK y \in T : \E i \in 1..v[y] : z = <<y, i>>
    BY <1>2
  <2>2. PICK i \in 1..v[y] : z = <<y, i>>
    BY <2>1
  <2>3. PICK x \in S : f[x] = y
    BY <1>4
  <2>4. i \in 1..w[x] /\ <<x, i>> \in U
    BY <1>1, <2>2, <2>3
  <2>5. m[<<x, i>>] = <<y, i>>
    BY <2>3, <2>4
  <2> QED BY <2>2, <2>4, <2>5
<1>9. m \in Bijection(U, V)
  BY <1>6, <1>7, <1>8, Fun_IsBij
<1>10. Cardinality(U) = Cardinality(V)
  BY <1>3, <1>9, FS_Bijection DEF ExistsBijection
<1> QED BY <1>10 DEF Total, U, V

\* Changing the weight of one element.
LEMMA TotalChange ==
    ASSUME NEW S, IsFiniteSet(S), NEW x \in S, NEW f, NEW g, Weights(S, f), Weights(S, g),
           \A y \in S \ {x} : f[y] = g[y]
    PROVE  /\ Total(S, g) = Total(S, f) - f[x] + g[x]
           /\ f[x] <= Total(S, f)
           /\ Total(S, f) \in Nat /\ Total(S, g) \in Nat
<1> {x} \in SUBSET S
  OBVIOUS
<1>1. /\ Total(S \ {x}, f) = Total(S, f) - Total({x}, f)
      /\ Total({x}, f) <= Total(S, f)
      /\ Total(S, f) \in Nat
  BY TotalDifference, Zenon
<1>2. /\ Total(S \ {x}, g) = Total(S, g) - Total({x}, g)
      /\ Total(S, g) \in Nat
  BY TotalDifference, Zenon
<1>3. Total(S \ {x}, f) = Total(S \ {x}, g)
  BY TotalSame
<1>4. f[x] \in Nat /\ g[x] \in Nat /\ Total({x}, f) = f[x] /\ Total({x}, g) = g[x]
  BY TotalSingleton DEF Weights
<1> QED BY <1>1, <1>2, <1>3, <1>4

\* Induction, for a set of numbers.
LEMMA NatSetInduction ==
    ASSUME NEW T, 0 \in T, \A n \in Nat : n \in T => n + 1 \in T
    PROVE  Nat \subseteq T
<1> SUFFICES ASSUME Nat \ T # {} PROVE FALSE
  OBVIOUS
<1> DEFINE R == StrictSubsetOrdering(Nat)
           F == FiniteSubsetsOf(Nat)
           Bad == {1..n : n \in Nat \ T}
<1>1. IsWellFoundedOn(R, F)
  BY FS_StrictSubsetOrderingWellFounded
<1>2. Bad \subseteq F /\ Bad # {}
  <2> SUFFICES ASSUME NEW n \in Nat PROVE IsFiniteSet(1..n) /\ 1..n \subseteq Nat
    BY DEF FiniteSubsetsOf
  <2> QED BY FS_Interval
<1> HIDE DEF R, F, Bad
<1>3. PICK X \in Bad : \A Y \in Bad : <<Y, X>> \notin R
  BY <1>1, <1>2, WFMin
<1>4. PICK n \in Nat \ T : X = 1..n
  BY <1>3 DEF Bad
<1>5. n # 0 /\ n - 1 \in Nat /\ (n - 1) + 1 = n
  BY <1>4
<1>6. n - 1 \notin T
  BY <1>4, <1>5
<1>7. 1..(n-1) \in Bad
  BY <1>5, <1>6 DEF Bad
<1>8. 1..(n-1) \subseteq 1..n /\ n \in 1..n /\ n \notin 1..(n-1) /\ 1..n \subseteq Nat /\ 1..(n-1) \subseteq Nat
  BY <1>5
<1>9. <<1..(n-1), 1..n>> \in R
  BY <1>8 DEF R, StrictSubsetOrdering
<1> QED BY <1>3, <1>4, <1>7, <1>9

\* A set of numbers with a bound has a largest element.
LEMMA LargestExists ==
    ASSUME NEW S, S \subseteq Nat, S # {}, NEW b \in Nat, \A x \in S : x <= b
    PROVE  \E n \in S : \A x \in S : x <= n
<1> SUFFICES ASSUME ~ \E n \in S : \A x \in S : x <= n PROVE FALSE
  OBVIOUS
<1> DEFINE T == {k \in Nat : \E x \in S : x >= k}
<1>1. 0 \in T
  <2>1. PICK x \in S : x \in Nat
    OBVIOUS
  <2>2. x >= 0
    BY <2>1
  <2> QED BY <2>2
<1>2. ASSUME NEW k \in Nat, k \in T PROVE k + 1 \in T
  <2>1. PICK x \in S : x >= k
    BY <1>2
  <2>2. PICK y \in S : ~(y <= x)
    OBVIOUS
  <2> QED BY <2>1, <2>2
<1>3. b + 1 \in T
  <2>1. Nat \subseteq T
    <3> HIDE DEF T
    <3> QED BY <1>1, <1>2, NatSetInduction
  <2>2. b + 1 \in Nat
    OBVIOUS
  <2> HIDE DEF T
  <2> QED BY <2>1, <2>2
<1> QED BY <1>3

\* The sum of weights that are k times as large.
LEMMA TotalTimes ==
    ASSUME NEW S, IsFiniteSet(S), NEW f, Weights(S, f), NEW k \in Nat
    PROVE  Total(S, [x \in S |-> k * f[x]]) = k * Total(S, f)
<1> DEFINE g(n) == [x \in S |-> n * f[x]]
           T == {n \in Nat : Total(S, g(n)) = n * Total(S, f)}
<1>1. Total(S, f) \in Nat
  BY TotalType
<1>2. 0 \in T
  <2>1. \A x \in S : g(0)[x] = 0
    BY DEF Weights
  <2>2. Units(S, g(0)) = {}
    BY <2>1 DEF Units
  <2>3. Total(S, g(0)) = 0
    BY <2>2, FS_EmptySet DEF Total
  <2> QED BY <1>1, <2>3
<1>3. ASSUME NEW n \in Nat, n \in T PROVE n + 1 \in T
  <2>1. Weights(S, g(n)) /\ \A x \in S : g(n + 1)[x] = g(n)[x] + f[x]
    BY DEF Weights
  <2>2. Total(S, g(n + 1)) = Total(S, g(n)) + Total(S, f)
    BY <2>1, TotalPlus
  <2>3. Total(S, g(n)) = n * Total(S, f)
    BY <1>3
  <2>4. n * Total(S, f) + Total(S, f) = (n + 1) * Total(S, f)
    BY <1>1
  <2> QED BY <2>2, <2>3, <2>4
<1>4. Nat \subseteq T
  BY <1>2, <1>3, NatSetInduction
<1> QED BY <1>4

\* Monus on numbers that do not go below zero is subtraction.
LEMMA MonusIsMinus ==
    ASSUME NEW a \in Nat, NEW b \in Nat, b <= a
    PROVE  Monus(a, b) = a - b /\ Monus(a, b) \in Nat
BY DEF Monus

LEMMA MonusType ==
    ASSUME NEW a \in Nat, NEW b \in Nat
    PROVE  Monus(a, b) \in Nat
BY DEF Monus
=============================================================================

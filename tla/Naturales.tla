------------------------------- MODULE Naturales ------------------------------
(***************************************************************************)
(* Induction over the naturals, the least element of a set of them and the *)
(* functions defined by recursion on them.  The library states these facts *)
(* with an operator as the parameter; here they are stated with sets and   *)
(* functions, and follow from the cardinalities of finite sets.  So do the *)
(* powers of 2, of which the provers know nothing.                         *)
(***************************************************************************)
EXTENDS Integers, FiniteSetTheorems, TLAPS

\* A set that has 0 and the successor of each of its naturals has them all: the
\* ones below a natural it lacks would be as many as their successors, which are
\* among them without 0.
LEMMA Induccion ==
  ASSUME NEW S, 0 \in S, \A n \in Nat : n \in S => n + 1 \in S
  PROVE  Nat \subseteq S
<1>1. SUFFICES ASSUME NEW x \in Nat, x \notin S PROVE FALSE
  OBVIOUS
<1> DEFINE A == {k \in 0 .. x : k \in S}
           B == {k \in 1 .. x : k - 1 \in S}
           f == [k \in A |-> k + 1]
<1>2. IsFiniteSet(0 .. x)
  BY FS_Interval
<1>3. IsFiniteSet(A)
  <2>1. A \in SUBSET (0 .. x)
    OBVIOUS
  <2> QED
    BY <1>2, <2>1, FS_Subset
<1>4. IsFiniteSet(A \ {0}) /\ Cardinality(A \ {0}) = Cardinality(A) - 1
  <2>1. 0 \in A
    OBVIOUS
  <2> HIDE DEF A
  <2> QED
    BY <1>3, <2>1, FS_RemoveElement
<1>5. f \in Bijection(A, B)
  <2>1. f \in [A -> B]
    <3>1. ASSUME NEW k \in A PROVE k + 1 \in B
      <4>1. k # x /\ k \in 0 .. x
        BY <1>1
      <4>2. k + 1 \in 1 .. x /\ k + 1 - 1 = k
        BY <4>1
      <4> QED
        BY <4>2
    <3> QED
      BY <3>1
  <2>2. \A a, b \in A : f[a] = f[b] => a = b
    OBVIOUS
  <2>3. \A b \in B : \E a \in A : f[a] = b
    <3>1. ASSUME NEW b \in B PROVE b - 1 \in A /\ f[b - 1] = b
      OBVIOUS
    <3> QED
      BY <3>1
  <2> HIDE DEF f
  <2> QED
    BY <2>1, <2>2, <2>3 DEF Bijection, Injection, Surjection, IsInjective
<1>6. IsFiniteSet(B) /\ Cardinality(B) = Cardinality(A)
  <2> HIDE DEF A, B, f
  <2> QED
    BY <1>3, <1>5, FS_Bijection DEF ExistsBijection
<1>7. B \in SUBSET (A \ {0})
  <2>1. ASSUME NEW b \in B PROVE b \in A \ {0}
    <3>1. b \in 1 .. x /\ b - 1 \in S /\ b - 1 \in Nat /\ b - 1 + 1 = b
      OBVIOUS
    <3>2. b \in S
      BY <3>1
    <3> QED
      BY <3>1, <3>2
  <2> QED
    BY <2>1
<1>8. Cardinality(B) <= Cardinality(A \ {0})
  <2> HIDE DEF A, B
  <2> QED
    BY <1>4, <1>7, FS_Subset
<1>9. Cardinality(A) \in Nat
  BY <1>3, FS_CardinalityType
<1> QED
  BY <1>4, <1>6, <1>8, <1>9

\* A set of naturals that is not empty has a least element.
LEMMA Minimo ==
  ASSUME NEW T \in SUBSET Nat, T # {}
  PROVE  \E x \in T : \A y \in T : x <= y
<1>1. SUFFICES ASSUME \A x \in T : \E y \in T : y < x PROVE FALSE
  OBVIOUS
<1> DEFINE S == {n \in Nat : \A k \in 0 .. n : k \notin T}
<1>2. 0 \in S
  <2>1. \A k \in 0 .. 0 : k = 0
    OBVIOUS
  <2>2. 0 \notin T
    BY <1>1
  <2> QED
    BY <2>1, <2>2
<1>3. ASSUME NEW n \in Nat, n \in S PROVE n + 1 \in S
  <2>1. \A k \in T : ~(k < n + 1)
    BY <1>3
  <2>2. n + 1 \notin T
    BY <1>1, <2>1
  <2>3. \A k \in 0 .. n + 1 : k \in 0 .. n \/ k = n + 1
    OBVIOUS
  <2> QED
    BY <1>3, <2>2, <2>3
<1>4. Nat \subseteq S
  <2> HIDE DEF S
  <2> QED
    BY <1>2, <1>3, Induccion
<1>5. \A n \in Nat : n \notin T
  <2>1. ASSUME NEW n \in Nat PROVE n \notin T
    <3>1. n \in S /\ n \in 0 .. n
      BY <1>4
    <3> QED
      BY <3>1
  <2> QED
    BY <2>1
<1> QED
  BY <1>5

\* f starts at e, and G is its step.
Recurre(f, D, e, G) ==
  /\ f \in [Nat -> D] /\ f[0] = e
  /\ \A n \in Nat : f[n + 1] = G[<<n, f[n]>>]

\* A function of the naturals exists for each start and step.
LEMMA Recursion ==
  ASSUME NEW D, NEW e \in D, NEW G \in [Nat \X D -> D]
  PROVE  \E f : Recurre(f, D, e, G)
<1> DEFINE Tramo(n, f) == /\ f \in [0 .. n -> D] /\ f[0] = e
                          /\ \A k \in 0 .. n : k < n => f[k + 1] = G[<<k, f[k]>>]
           S == {n \in Nat : \E f \in [0 .. n -> D] : Tramo(n, f)}
<1>1. 0 \in S
  <2>1. Tramo(0, [k \in 0 .. 0 |-> e])
    OBVIOUS
  <2> QED
    BY <2>1
<1>2. ASSUME NEW n \in Nat, n \in S PROVE n + 1 \in S
  <2>1. PICK f \in [0 .. n -> D] : Tramo(n, f)
    BY <1>2
  <2> DEFINE g == [k \in 0 .. n + 1 |-> IF k = n + 1 THEN G[<<n, f[n]>>] ELSE f[k]]
  <2>2. g \in [0 .. n + 1 -> D]
    BY <2>1
  <2>3. \A k \in 0 .. n : g[k] = f[k]
    OBVIOUS
  <2>4. g[n + 1] = G[<<n, f[n]>>]
    OBVIOUS
  <2>5. 0 \in 0 .. n /\ n \in 0 .. n
    OBVIOUS
  <2>6. ASSUME NEW k \in 0 .. n + 1, k < n + 1 PROVE g[k + 1] = G[<<k, g[k]>>]
    <3> HIDE DEF g
    <3>1. CASE k = n
      BY <2>3, <2>4, <2>5, <3>1
    <3>2. CASE k # n
      <4>1. k \in 0 .. n /\ k + 1 \in 0 .. n /\ k < n
        BY <2>6, <3>2
      <4> QED
        BY <2>1, <2>3, <4>1
    <3> QED
      BY <3>1, <3>2
  <2> HIDE DEF g
  <2>7. Tramo(n + 1, g)
    BY <2>1, <2>2, <2>3, <2>5, <2>6
  <2> HIDE DEF Tramo
  <2> QED
    BY <2>2, <2>7
<1>3. Nat \subseteq S
  <2> HIDE DEF S
  <2> QED
    BY <1>1, <1>2, Induccion
<1>4. ASSUME NEW n \in Nat, NEW f, NEW g, Tramo(n, f), NEW m \in Nat, Tramo(m, g),
             n <= m
      PROVE  f[n] = g[n]
  <2> DEFINE V == {k \in Nat : k <= n => f[k] = g[k]}
  <2>1. 0 \in V
    BY <1>4
  <2>2. ASSUME NEW k \in Nat, k \in V PROVE k + 1 \in V
    <3>1. ASSUME k + 1 <= n PROVE f[k + 1] = g[k + 1]
      <4>1. k \in 0 .. n /\ k < n /\ k \in 0 .. m /\ k < m
        BY <1>4, <3>1
      <4>2. f[k] = g[k]
        BY <2>2, <4>1
      <4> QED
        BY <1>4, <4>1, <4>2
    <3> QED
      BY <3>1
  <2>3. Nat \subseteq V
    <3> HIDE DEF V
    <3> QED
      BY <2>1, <2>2, Induccion
  <2> QED
    BY <2>3
<1> DEFINE h == [n \in Nat |-> CHOOSE f \in [0 .. n -> D] : Tramo(n, f)]
           r == [n \in Nat |-> h[n][n]]
<1>5. ASSUME NEW n \in Nat PROVE Tramo(n, h[n])
  <2>1. \E f \in [0 .. n -> D] : Tramo(n, f)
    BY <1>3
  <2> HIDE DEF Tramo
  <2> QED
    BY <2>1
<1>6. r \in [Nat -> D]
  <2>1. ASSUME NEW n \in Nat PROVE h[n][n] \in D
    <3> HIDE DEF h
    <3> QED
      BY <1>5
  <2> HIDE DEF h
  <2> QED
    BY <2>1
<1>7. r[0] = e
  <2>1. h[0][0] = e
    <3> HIDE DEF h
    <3> QED
      BY <1>5
  <2> HIDE DEF h
  <2> QED
    BY <2>1
<1>8. ASSUME NEW n \in Nat PROVE r[n + 1] = G[<<n, r[n]>>]
  <2>1. Tramo(n, h[n]) /\ Tramo(n + 1, h[n + 1])
    <3> HIDE DEF Tramo, h
    <3> QED
      BY <1>5
  <2>2. h[n][n] = h[n + 1][n]
    <3> HIDE DEF h, Tramo
    <3> QED
      BY <1>4, <2>1
  <2>3. h[n + 1][n + 1] = G[<<n, h[n + 1][n]>>]
    <3> HIDE DEF h
    <3> QED
      BY <2>1
  <2>4. r[n + 1] = h[n + 1][n + 1] /\ r[n] = h[n][n]
    <3> HIDE DEF h
    <3> QED
      OBVIOUS
  <2> QED
    BY <2>2, <2>3, <2>4
<1> HIDE DEF r
<1> QED
  BY <1>6, <1>7, <1>8 DEF Recurre

-------------------------------------------------------------------------------
\* Powers of 2 are the cardinalities of the sets of subsets.
LEMMA PotenciaCero == 2 ^ 0 = 1
<1>1. IsFiniteSet({}) /\ Cardinality({}) = 0
  BY FS_EmptySet
<1>2. Cardinality(SUBSET {}) = 2 ^ 0
  BY <1>1, FS_SUBSET
<1>3. SUBSET {} = {{}}
  OBVIOUS
<1> QED
  BY <1>2, <1>3, FS_Singleton

\* There are 2 ^ n subsets of 1 .. n, and those of 1 .. n + 1 are these, without
\* and with n + 1.
LEMMA PotenciaSiguiente ==
  ASSUME NEW n \in Nat
  PROVE  2 ^ n \in Nat /\ 2 ^ (n + 1) = 2 ^ n + 2 ^ n
<1> DEFINE A == SUBSET (1 .. n)
           B == {S \union {n + 1} : S \in A}
           f == [S \in A |-> S \union {n + 1}]
<1>1. IsFiniteSet(1 .. n) /\ Cardinality(1 .. n) = n
  BY FS_Interval
<1>2. IsFiniteSet(1 .. n + 1) /\ Cardinality(1 .. n + 1) = n + 1
  BY FS_Interval
<1>3. IsFiniteSet(A) /\ Cardinality(A) = 2 ^ n
  BY <1>1, FS_SUBSET
<1>4. Cardinality(SUBSET (1 .. n + 1)) = 2 ^ (n + 1)
  BY <1>2, FS_SUBSET
<1>5. IsFiniteSet(B) /\ Cardinality(B) = Cardinality(A)
  <2>1. f \in [A -> B] /\ \A b \in B : \E S \in A : f[S] = b
    OBVIOUS
  <2>2. \A S, T \in A : f[S] = f[T] => S = T
    <3>1. n + 1 \notin 1 .. n
      OBVIOUS
    <3>2. ASSUME NEW S \in A, NEW T \in A, f[S] = f[T] PROVE S = T
      <4>1. S \union {n + 1} = T \union {n + 1} /\ n + 1 \notin S /\ n + 1 \notin T
        BY <3>1, <3>2
      <4> QED
        BY <4>1
    <3> QED
      BY <3>2
  <2> HIDE DEF A, B, f
  <2>3. f \in Bijection(A, B)
    BY <2>1, <2>2 DEF Bijection, Injection, Surjection, IsInjective
  <2> QED
    BY <1>3, <2>3, FS_Bijection DEF ExistsBijection
<1>6. A \union B = SUBSET (1 .. n + 1)
  <2>1. 1 .. n + 1 = (1 .. n) \union {n + 1}
    OBVIOUS
  <2>2. ASSUME NEW S \in SUBSET (1 .. n + 1) PROVE S \in A \union B
    <3>1. CASE n + 1 \notin S
      BY <2>1, <3>1
    <3>2. CASE n + 1 \in S
      <4>1. S \ {n + 1} \in A /\ S = (S \ {n + 1}) \union {n + 1}
        BY <2>1, <3>2
      <4> QED
        BY <4>1
    <3> QED
      BY <3>1, <3>2
  <2>3. ASSUME NEW S \in A \union B PROVE S \in SUBSET (1 .. n + 1)
    BY <2>1, <2>3
  <2> HIDE DEF A, B
  <2> QED
    BY <2>2, <2>3
<1>7. A \cap B = {}
  <2>1. n + 1 \notin 1 .. n
    OBVIOUS
  <2> QED
    BY <2>1
<1> HIDE DEF A, B
<1>8. Cardinality(A \union B) = Cardinality(A) + Cardinality(B) - Cardinality(A \cap B)
  BY <1>3, <1>5, FS_Union
<1>9. Cardinality(A \cap B) = 0
  BY <1>7, FS_EmptySet
<1>10. Cardinality(A) \in Nat
  BY <1>3, FS_CardinalityType
<1> DEFINE a == 2 ^ n
           b == 2 ^ (n + 1)
<1>11. a \in Nat /\ b = a + a
  <2>1. Cardinality(A) = a /\ Cardinality(B) = a /\ Cardinality(A \union B) = b
    BY <1>3, <1>4, <1>5, <1>6
  <2> HIDE DEF a, b
  <2> QED
    BY <1>8, <1>9, <1>10, <2>1
<1> QED
  BY <1>11

\* A power of 2 is greater than its exponent.
LEMMA PotenciaMayor ==
  ASSUME NEW n \in Nat
  PROVE  n < 2 ^ n
<1> DEFINE S == {m \in Nat : m < 2 ^ m}
<1>1. 0 \in S
  BY PotenciaCero
<1>2. ASSUME NEW m \in Nat, m \in S PROVE m + 1 \in S
  <2>1. m < 2 ^ m /\ 2 ^ m \in Nat /\ 2 ^ (m + 1) = 2 ^ m + 2 ^ m
    BY <1>2, PotenciaSiguiente
  <2> DEFINE a == 2 ^ m
             b == 2 ^ (m + 1)
  <2>2. m < a /\ a \in Nat /\ b = a + a
    BY <2>1
  <2> HIDE DEF a, b
  <2>3. m + 1 < b
    BY <2>2
  <2> QED
    BY <2>3 DEF b
<1>3. Nat \subseteq S
  <2> HIDE DEF S
  <2> QED
    BY <1>1, <1>2, Induccion
<1> QED
  BY <1>3
===============================================================================

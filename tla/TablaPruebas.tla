----------------------------- MODULE TablaPruebas -----------------------------
(***************************************************************************)
(* Proofs about Tabla.  The links of the buckets are functions, and what   *)
(* makes a chain is said of these functions alone (Eslabones); the         *)
(* operations are then a handful of changes to them.                       *)
(***************************************************************************)
EXTENDS Tabla, Naturales

-------------------------------------------------------------------------------
(* Chains, apart from what the buckets hold: A are the active buckets, b[i] *)
(* is the head of the chain of i, s[i] the bucket after i, i itself at the  *)
(* end, and r counts along the chains.                                      *)

Eslabones(A, b, s, r) ==
  /\ b \in [A -> A] /\ s \in [A -> A] /\ r \in [A -> Nat]
  /\ \A i \in A : b[b[i]] = b[i]
  /\ \A i \in A : b[s[i]] = b[i]
  /\ \A i \in A : s[i] # i => r[i] < r[s[i]] /\ s[i] # b[i]
  /\ \A i \in A : b[i] # i => \E j \in A : j # i /\ s[j] = i
  /\ \A i, j \in A : s[i] # i /\ s[j] # j /\ s[i] = s[j] => i = j

\* A and its links are chains.
Encadenada(A, b, s) == \E r : Eslabones(A, b, s, r)

\* The buckets of the chain of p.
Miembros(A, b, p) == {i \in A : b[i] = p}

\* What has the head of a chain and what follows its elements has all of it.
LEMMA CadenaEntera ==
  ASSUME NEW A, NEW b, NEW s, Encadenada(A, b, s), NEW p \in A, b[p] = p,
         NEW S, p \in S, \A i \in S \cap A : s[i] \in S
  PROVE  Miembros(A, b, p) \subseteq S
<1>1. PICK r : Eslabones(A, b, s, r)
  BY DEF Encadenada
<1>2. SUFFICES ASSUME NEW x \in A, b[x] = p, x \notin S PROVE FALSE
  BY DEF Miembros
<1> DEFINE F == {i \in A : b[i] = p /\ i \notin S}
           T == {r[i] : i \in F}
<1>3. T \in SUBSET Nat /\ T # {}
  <2>1. \A i \in F : r[i] \in Nat
    BY <1>1 DEF Eslabones
  <2>2. x \in F
    BY <1>2
  <2> HIDE DEF F
  <2> QED
    BY <2>1, <2>2
<1>4. PICK m \in T : \A y \in T : m <= y
  <2> HIDE DEF T
  <2> QED
    BY <1>3, Minimo
<1>5. PICK i \in F : m = r[i]
  BY <1>4
<1>6. PICK j \in A : j # i /\ s[j] = i
  BY <1>1, <1>5 DEF Eslabones
<1>7. b[j] = p /\ r[j] < r[i]
  BY <1>1, <1>5, <1>6 DEF Eslabones
<1>8. j \in F
  BY <1>5, <1>6, <1>7
<1>9. r[j] \in T
  <2> HIDE DEF F
  <2> QED
    BY <1>8
<1>10. m <= r[j] /\ m \in Nat /\ r[j] \in Nat
  BY <1>3, <1>4, <1>9
<1> QED
  BY <1>5, <1>7, <1>10

\* What has what follows its elements has the end of a chain: if not, what
\* follows them would be as many buckets without the first of all.
LEMMA HayFinal ==
  ASSUME NEW A, IsFiniteSet(A), NEW b, NEW s, Encadenada(A, b, s),
         NEW T \in SUBSET A, T # {}, \A i \in T : s[i] \in T
  PROVE  \E j \in T : s[j] = j
<1>1. PICK r : Eslabones(A, b, s, r)
  BY DEF Encadenada
<1>2. SUFFICES ASSUME \A j \in T : s[j] # j PROVE FALSE
  OBVIOUS
<1> DEFINE R == {r[i] : i \in T}
           f == [i \in T |-> s[i]]
<1>3. R \in SUBSET Nat /\ R # {}
  BY <1>1 DEF Eslabones
<1>4. PICK m \in R : \A y \in R : m <= y
  <2> HIDE DEF R
  <2> QED
    BY <1>3, Minimo
<1>5. PICK p \in T : m = r[p]
  BY <1>4
<1>6. \A j \in T : s[j] # p
  <2>1. ASSUME NEW j \in T, s[j] = p PROVE FALSE
    <3>1. r[j] < r[p] /\ r[j] \in Nat /\ r[p] \in Nat
      BY <1>1, <1>2, <2>1 DEF Eslabones
    <3>2. m <= r[j]
      BY <1>4
    <3> QED
      BY <1>5, <3>1, <3>2
  <2> QED
    BY <2>1
<1>7. IsFiniteSet(T)
  BY FS_Subset
<1>8. f \in Injection(T, T \ {p})
  <2>1. f \in [T -> T \ {p}]
    BY <1>6
  <2>2. \A i, j \in T : f[i] = f[j] => i = j
    BY <1>1, <1>2 DEF Eslabones
  <2> HIDE DEF f
  <2> QED
    BY <2>1, <2>2 DEF Injection, IsInjective
<1> HIDE DEF f
<1>9. IsFiniteSet(T \ {p}) /\ Cardinality(T \ {p}) = Cardinality(T) - 1
  BY <1>7, FS_RemoveElement
<1>10. Cardinality(T) <= Cardinality(T \ {p})
  BY <1>8, <1>9, FS_Injection
<1>11. Cardinality(T) \in Nat
  BY <1>7, FS_CardinalityType
<1> QED
  BY <1>9, <1>10, <1>11

\* A chain of one bucket.
LEMMA EnlazarSolo ==
  ASSUME NEW A, NEW b, NEW s, Encadenada(A, b, s), NEW i, i \notin A,
         NEW b2 \in [A \union {i} -> A \union {i}], NEW s2 \in [A \union {i} -> A \union {i}],
         b2[i] = i, s2[i] = i, \A j \in A : b2[j] = b[j] /\ s2[j] = s[j]
  PROVE  Encadenada(A \union {i}, b2, s2)
<1>1. PICK r : Eslabones(A, b, s, r)
  BY DEF Encadenada
<1> DEFINE r2 == [j \in A \union {i} |-> IF j = i THEN 0 ELSE r[j]]
<1>2. r2 \in [A \union {i} -> Nat] /\ \A j \in A : r2[j] = r[j]
  BY <1>1 DEF Eslabones
<1> HIDE DEF r2
<1>3. Eslabones(A \union {i}, b2, s2, r2)
  BY <1>1, <1>2 DEF Eslabones
<1> QED
  BY <1>3 DEF Encadenada

\* c goes between the head i and what followed it.
LEMMA EnlazarDespues ==
  ASSUME NEW A, NEW b, NEW s, Encadenada(A, b, s), NEW i \in A, b[i] = i,
         NEW c, c \notin A,
         NEW b2 \in [A \union {c} -> A \union {c}], NEW s2 \in [A \union {c} -> A \union {c}],
         b2[c] = i, \A j \in A : b2[j] = b[j],
         s2[i] = c, s2[c] = IF s[i] = i THEN c ELSE s[i],
         \A j \in A : j # i => s2[j] = s[j]
  PROVE  Encadenada(A \union {c}, b2, s2)
<1>1. PICK r : Eslabones(A, b, s, r)
  BY DEF Encadenada
<1> DEFINE r2 == [j \in A \union {c} |-> IF j = c THEN 2 * r[i] + 1 ELSE 2 * r[j]]
<1>2. r2 \in [A \union {c} -> Nat] /\ r2[c] = 2 * r[i] + 1 /\ \A j \in A : r2[j] = 2 * r[j]
  BY <1>1 DEF Eslabones
<1> HIDE DEF r2
<1> DEFINE A2 == A \union {c}
<1>3. \A j \in A2 : b2[b2[j]] = b2[j]
  BY <1>1 DEF Eslabones
<1>4. \A j \in A2 : b2[s2[j]] = b2[j]
  BY <1>1 DEF Eslabones
<1>5. \A j \in A2 : s2[j] # j => r2[j] < r2[s2[j]] /\ s2[j] # b2[j]
  <2>1. ASSUME NEW j \in A2, s2[j] # j PROVE r2[j] < r2[s2[j]] /\ s2[j] # b2[j]
    <3>1. CASE j = i
      BY <1>1, <1>2, <3>1 DEF Eslabones
    <3>2. CASE j = c
      BY <1>1, <1>2, <2>1, <3>2 DEF Eslabones
    <3>3. CASE j # i /\ j # c
      BY <1>1, <1>2, <2>1, <3>3 DEF Eslabones
    <3> QED
      BY <3>1, <3>2, <3>3
  <2> QED
    BY <2>1
<1>6. \A j \in A2 : b2[j] # j => \E k \in A2 : k # j /\ s2[k] = j
  <2>1. ASSUME NEW j \in A2, b2[j] # j PROVE \E k \in A2 : k # j /\ s2[k] = j
    <3>1. CASE j = c
      BY <3>1
    <3>2. CASE j # c
      <4>1. PICK k \in A : k # j /\ s[k] = j
        BY <1>1, <2>1, <3>2 DEF Eslabones
      <4>2. CASE k = i
        BY <3>2, <4>1, <4>2
      <4>3. CASE k # i
        BY <4>1, <4>3
      <4> QED
        BY <4>2, <4>3
    <3> QED
      BY <3>1, <3>2
  <2> QED
    BY <2>1
<1>7. \A j, k \in A2 : s2[j] # j /\ s2[k] # k /\ s2[j] = s2[k] => j = k
  <2>1. \A j \in A : j # i => s2[j] # c
    BY <1>1 DEF Eslabones
  <2>2. \A j \in A : j # i /\ s[i] # i /\ s[j] # j => s[j] # s[i]
    BY <1>1 DEF Eslabones
  <2> QED
    BY <1>1, <2>1, <2>2 DEF Eslabones
<1>8. Eslabones(A2, b2, s2, r2)
  BY <1>2, <1>3, <1>4, <1>5, <1>6, <1>7 DEF Eslabones
<1> QED
  BY <1>8 DEF Encadenada

\* c takes the place of i in its chain, and i begins a chain of its own.
LEMMA EnlazarEnLugarDe ==
  ASSUME NEW A, NEW b, NEW s, Encadenada(A, b, s), NEW i \in A, b[i] # i,
         NEW c, c \notin A, NEW a \in A, a # i, s[a] = i,
         NEW b2 \in [A \union {c} -> A \union {c}], NEW s2 \in [A \union {c} -> A \union {c}],
         b2[i] = i, b2[c] = b[i], \A j \in A : j # i => b2[j] = b[j],
         s2[i] = i, s2[c] = IF s[i] = i THEN c ELSE s[i], s2[a] = c,
         \A j \in A : j # i /\ j # a => s2[j] = s[j]
  PROVE  Encadenada(A \union {c}, b2, s2)
<1>1. PICK r : Eslabones(A, b, s, r)
  BY DEF Encadenada
<1> DEFINE r2 == [j \in A \union {c} |-> IF j = c THEN r[i] ELSE r[j]]
<1>2. r2 \in [A \union {c} -> Nat] /\ r2[c] = r[i] /\ \A j \in A : r2[j] = r[j]
  BY <1>1 DEF Eslabones
<1> HIDE DEF r2
<1> DEFINE A2 == A \union {c}
<1>3. \A j \in A : b[j] # i
  BY <1>1 DEF Eslabones
<1>4. \A j \in A2 : b2[b2[j]] = b2[j]
  BY <1>1, <1>3 DEF Eslabones
<1>5. \A j \in A : j # a /\ s[j] = i => j = i /\ s[i] = i
  BY <1>1 DEF Eslabones
<1>6. s[i] # a
  <2>1. SUFFICES ASSUME s[i] = a PROVE FALSE
    OBVIOUS
  <2>2. r[i] < r[a] /\ r[a] < r[i] /\ r[i] \in Nat /\ r[a] \in Nat
    BY <1>1, <2>1 DEF Eslabones
  <2> QED
    BY <2>2
<1>7. \A j \in A2 : b2[s2[j]] = b2[j]
  <2>1. ASSUME NEW j \in A2 PROVE b2[s2[j]] = b2[j]
    <3>1. CASE j = i \/ j = c \/ j = a
      BY <1>1, <3>1 DEF Eslabones
    <3>2. CASE j # i /\ j # c /\ j # a
      BY <1>1, <1>5, <3>2 DEF Eslabones
    <3> QED
      BY <3>1, <3>2
  <2> QED
    BY <2>1
<1>8. \A j \in A2 : s2[j] # j => r2[j] < r2[s2[j]] /\ s2[j] # b2[j]
  <2>1. ASSUME NEW j \in A2, s2[j] # j PROVE r2[j] < r2[s2[j]] /\ s2[j] # b2[j]
    <3>1. CASE j = i
      BY <2>1, <3>1
    <3>2. CASE j = c
      BY <1>1, <1>2, <2>1, <3>2 DEF Eslabones
    <3>3. CASE j = a
      BY <1>1, <1>2, <2>1, <3>3 DEF Eslabones
    <3>4. CASE j # i /\ j # c /\ j # a
      BY <1>1, <1>2, <1>5, <2>1, <3>4 DEF Eslabones
    <3> QED
      BY <3>1, <3>2, <3>3, <3>4
  <2> QED
    BY <2>1
<1>9. \A j \in A2 : b2[j] # j => \E k \in A2 : k # j /\ s2[k] = j
  <2>1. ASSUME NEW j \in A2, b2[j] # j PROVE \E k \in A2 : k # j /\ s2[k] = j
    <3>1. CASE j = c
      BY <3>1
    <3>2. CASE j # c
      <4>1. j \in A /\ j # i
        BY <2>1, <3>2
      <4>2. PICK k \in A : k # j /\ s[k] = j
        BY <1>1, <2>1, <4>1 DEF Eslabones
      <4>3. CASE k = i
        BY <3>2, <4>1, <4>2, <4>3
      <4>4. CASE k # i
        BY <4>1, <4>2, <4>4
      <4> QED
        BY <4>3, <4>4
    <3> QED
      BY <3>1, <3>2
  <2> QED
    BY <2>1
<1>10. \A j, k \in A2 : s2[j] # j /\ s2[k] # k /\ s2[j] = s2[k] => j = k
  <2>1. \A j \in A : j # a => s2[j] # c
    BY <1>1 DEF Eslabones
  <2>2. ASSUME NEW j \in A, j # i, j # a, s2[j] # j PROVE s2[j] # s2[c] /\ s2[j] = s[j]
    BY <1>1, <1>5, <2>2 DEF Eslabones
  <2> QED
    BY <1>1, <2>1, <2>2 DEF Eslabones
<1>11. Eslabones(A2, b2, s2, r2)
  BY <1>2, <1>4, <1>7, <1>8, <1>9, <1>10 DEF Eslabones
<1> QED
  BY <1>11 DEF Encadenada

\* A chain of one bucket goes away.
LEMMA DesenlazarSolo ==
  ASSUME NEW A, NEW b, NEW s, Encadenada(A, b, s), NEW i \in A, b[i] = i, s[i] = i,
         NEW b2 \in [A \ {i} -> A], NEW s2 \in [A \ {i} -> A],
         \A j \in A \ {i} : b2[j] = b[j] /\ s2[j] = s[j]
  PROVE  Encadenada(A \ {i}, b2, s2)
<1>1. PICK r : Eslabones(A, b, s, r)
  BY DEF Encadenada
<1>2. \A j \in A \ {i} : b[j] # i
  <2>1. \A j \in {i} \cap A : s[j] \in {i}
    OBVIOUS
  <2>2. ASSUME NEW S, S = {i} PROVE Miembros(A, b, i) \subseteq S
    BY <2>1, <2>2, CadenaEntera
  <2>3. Miembros(A, b, i) \subseteq {i}
    BY <2>2
  <2> QED
    BY <2>3 DEF Miembros
<1>3. \A j \in A \ {i} : s[j] # i
  BY <1>1, <1>2 DEF Eslabones
<1> DEFINE r2 == [j \in A \ {i} |-> r[j]]
<1>4. r2 \in [A \ {i} -> Nat] /\ \A j \in A \ {i} : r2[j] = r[j]
  BY <1>1 DEF Eslabones
<1> HIDE DEF r2
<1>5. \A j \in A \ {i} : b2[j] # j => \E k \in A \ {i} : k # j /\ s2[k] = j
  BY <1>1 DEF Eslabones
<1>6. b2 \in [A \ {i} -> A \ {i}] /\ s2 \in [A \ {i} -> A \ {i}]
  BY <1>1, <1>2, <1>3 DEF Eslabones
<1>7. Eslabones(A \ {i}, b2, s2, r2)
  BY <1>1, <1>4, <1>5, <1>6 DEF Eslabones
<1> QED
  BY <1>7 DEF Encadenada

\* The last bucket u of a chain goes away, and a, which came before it, is last.
LEMMA DesenlazarUltimo ==
  ASSUME NEW A, NEW b, NEW s, Encadenada(A, b, s), NEW u \in A, b[u] # u, s[u] = u,
         NEW a \in A, a # u, s[a] = u,
         NEW b2 \in [A \ {u} -> A], NEW s2 \in [A \ {u} -> A],
         s2[a] = a, \A j \in A \ {u} : b2[j] = b[j] /\ (j # a => s2[j] = s[j])
  PROVE  Encadenada(A \ {u}, b2, s2)
<1>1. PICK r : Eslabones(A, b, s, r)
  BY DEF Encadenada
<1>2. \A j \in A : b[j] # u
  BY <1>1 DEF Eslabones
<1>3. \A j \in A \ {u} : j # a => s[j] # u
  BY <1>1 DEF Eslabones
<1> DEFINE r2 == [j \in A \ {u} |-> r[j]]
<1>4. r2 \in [A \ {u} -> Nat] /\ \A j \in A \ {u} : r2[j] = r[j]
  BY <1>1 DEF Eslabones
<1> HIDE DEF r2
<1>5. \A j \in A \ {u} : b2[j] # j => \E k \in A \ {u} : k # j /\ s2[k] = j
  <2>1. ASSUME NEW j \in A \ {u}, b2[j] # j PROVE \E k \in A \ {u} : k # j /\ s2[k] = j
    <3>1. PICK k \in A : k # j /\ s[k] = j
      BY <1>1, <2>1 DEF Eslabones
    <3>2. k # u /\ k # a
      BY <3>1
    <3> QED
      BY <3>1, <3>2
  <2> QED
    BY <2>1
<1>6. b2 \in [A \ {u} -> A \ {u}] /\ s2 \in [A \ {u} -> A \ {u}]
  BY <1>1, <1>2, <1>3 DEF Eslabones
<1>7. Eslabones(A \ {u}, b2, s2, r2)
  BY <1>1, <1>3, <1>4, <1>5, <1>6 DEF Eslabones
<1> QED
  BY <1>7 DEF Encadenada

-------------------------------------------------------------------------------
(* The invariant of a table.                                              *)

\* The type of a bucket and of a table with m + 1 of them.
Cubeta == [activo : BOOLEAN, off : Int, llave : Llaves \union {NADA},
           valor : Valores \union {NADA}]

Tablas(m) == [mascara : {m}, buckets : [0 .. m -> Cubeta], ocupados : Nat]

\* The head of the chain of each bucket, and the bucket after it.
Bases(t) == [i \in Activos(t) |-> Principal(t, t.buckets[i].llave)]
Siguientes(t) == [i \in Activos(t) |-> i + t.buckets[i].off]

\* The invariant of the structure, for a table in any state that the operations
\* leave: types, buckets chained by main position, no two of one chain with equal
\* keys, and the count of active ones.
Bien(t) ==
  /\ t.mascara \in Nat /\ t \in Tablas(t.mascara)
  /\ \A i \in 0 .. t.mascara :
       IF t.buckets[i].activo THEN t.buckets[i].llave \in Llaves /\ t.buckets[i].valor \in Valores
       ELSE t.buckets[i].off = 0
  /\ \A i, j \in Activos(t) :
       /\ Principal(t, t.buckets[i].llave) = Principal(t, t.buckets[j].llave)
       /\ Igualdad(t.buckets[i].llave, t.buckets[j].llave)
       => i = j
  /\ Encadenada(Activos(t), Bases(t), Siguientes(t))
  /\ t.ocupados = Cardinality(Activos(t))

\* A key is stored once.
LEMMA LlavesUnicas ==
  ASSUME NEW t, Bien(t)
  PROVE  \A i, j \in Activos(t) : t.buckets[i].llave = t.buckets[j].llave => i = j
BY DEF Bien, Igualdad

\* The equality of keys is an equivalence.
LEMMA IgualdadEs ==
  ASSUME NEW a \in Llaves, NEW b \in Llaves, Igualdad(a, b)
  PROVE  Igualdad(b, a) /\ \A c \in Llaves : Igualdad(b, c) => Igualdad(a, c)
BY IgualesEsSimetrica, IgualesEsTransitiva DEF Igualdad

\* The main position of a key is a bucket of the table.
LEMMA PrincipalTipo ==
  ASSUME NEW t, t.mascara \in Nat, NEW k \in Llaves
  PROVE  Principal(t, k) \in 0 .. t.mascara
<1>1. Hash[k] \in Nat /\ NumBuckets(t) \in Nat \ {0}
  BY HashEsNatural DEF NumBuckets
<1>2. \A x \in Nat, y \in Nat \ {0} : x % y \in 0 .. (y - 1)
  BY SMT
<1>3. Hash[k] % NumBuckets(t) \in 0 .. (NumBuckets(t) - 1)
  BY <1>1, <1>2
<1> QED
  BY <1>3 DEF Principal, NumBuckets

\* There are at most as many active buckets as buckets, and as many only when no
\* other is left.
LEMMA ActivosFinitos ==
  ASSUME NEW t, t.mascara \in Nat
  PROVE  /\ IsFiniteSet(Activos(t)) /\ Cardinality(Activos(t)) \in Nat
         /\ Cardinality(Activos(t)) <= NumBuckets(t)
         /\ Inactivos(t) = {} <=> Cardinality(Activos(t)) = NumBuckets(t)
<1> DEFINE I == 0 .. t.mascara
<1>1. IsFiniteSet(I) /\ Cardinality(I) = NumBuckets(t)
  BY FS_Interval DEF NumBuckets
<1>2. Activos(t) \in SUBSET I /\ (Inactivos(t) = {} <=> Activos(t) = I)
  BY DEF Activos, Inactivos
<1> HIDE DEF I
<1>3. /\ IsFiniteSet(Activos(t)) /\ Cardinality(Activos(t)) <= Cardinality(I)
      /\ Cardinality(I) = Cardinality(Activos(t)) => I = Activos(t)
  BY <1>1, <1>2, FS_Subset
<1> QED
  BY <1>1, <1>2, <1>3, FS_CardinalityType

\* pdcrt_tabla_reclamar_bucket finds an inactive bucket if there is one.
LEMMA ReclamarTipo ==
  ASSUME NEW t, t.mascara \in Nat, Inactivos(t) # {}
  PROVE  Reclamar(t) \in Inactivos(t)
<1>1. Inactivos(t) \in SUBSET Nat
  BY DEF Inactivos
<1>2. \E i \in Inactivos(t) : \A j \in Inactivos(t) : i <= j
  BY <1>1, Minimo
<1> QED
  BY <1>2 DEF Reclamar

-------------------------------------------------------------------------------
(* The chain that a loop follows. *)

\* The equation of the function in Cadena.
EcuacionDeCadena(f, t, i) ==
  f = [n \in Nat |-> IF n = 0 THEN {i}
                     ELSE LET js == f[n - 1]
                          IN js \union {j + t.buckets[j].off : j \in js}]

\* What Cadena reads of it.
LEMMA CadenaEcuacion ==
  ASSUME NEW t, NEW i
  PROVE  Cadena(t, i) = (CHOOSE f : EcuacionDeCadena(f, t, i))[NumBuckets(t)]
BY DEF Cadena, EcuacionDeCadena

\* It has a solution, with values in any closed set that has the first bucket.
LEMMA HastaExiste ==
  ASSUME NEW t, NEW i, NEW S, i \in S, \A j \in S : j + t.buckets[j].off \in S
  PROVE  \E f \in [Nat -> SUBSET S] : EcuacionDeCadena(f, t, i)
<1> DEFINE paso(js) == js \union {j + t.buckets[j].off : j \in js}
           D == SUBSET S
           e == {i}
           G == [x \in Nat \X D |-> paso(x[2])]
<1>1. e \in D
  OBVIOUS
<1>2. G \in [Nat \X D -> D]
  OBVIOUS
<1>3. \E f : Recurre(f, D, e, G)
  <2> HIDE DEF D, e, G
  <2> QED
    BY <1>1, <1>2, Recursion
<1>4. PICK f : Recurre(f, D, e, G)
  BY <1>3
<1>5. f \in [Nat -> SUBSET S] /\ f[0] = {i}
  BY <1>4 DEF Recurre
<1>6. ASSUME NEW n \in Nat PROVE f[n + 1] = paso(f[n])
  <2>1. f[n + 1] = G[<<n, f[n]>>] /\ f[n] \in D
    BY <1>4 DEF Recurre
  <2> QED
    BY <2>1
<1> HIDE DEF paso
<1>7. ASSUME NEW n \in Nat PROVE f[n] = IF n = 0 THEN {i} ELSE paso(f[n - 1])
  <2>1. CASE n = 0
    BY <1>5, <2>1
  <2>2. CASE n # 0
    <3>1. n - 1 \in Nat /\ n = (n - 1) + 1
      BY <2>2
    <3>2. f[(n - 1) + 1] = paso(f[n - 1])
      BY <1>6, <3>1
    <3> QED
      BY <2>2, <3>1, <3>2
  <2> QED
    BY <2>1, <2>2
<1>8. f = [n \in Nat |-> IF n = 0 THEN {i} ELSE paso(f[n - 1])]
  BY <1>5, <1>7
<1>9. EcuacionDeCadena(f, t, i)
  BY <1>8 DEF EcuacionDeCadena, paso
<1> QED
  BY <1>5, <1>9

\* The chain stays in any set that has its first bucket and is closed, and if
\* the set has no more elements than the table has buckets, it is closed too.
LEMMA CadenaCerrada ==
  ASSUME NEW t, t.mascara \in Nat, NEW i,
         NEW S \in SUBSET (0 .. t.mascara), i \in S, \A j \in S : j + t.buckets[j].off \in S
  PROVE  /\ i \in Cadena(t, i) /\ Cadena(t, i) \subseteq S
         /\ \A j \in Cadena(t, i) : j + t.buckets[j].off \in Cadena(t, i)
<1> DEFINE paso(js) == js \union {j + t.buckets[j].off : j \in js}
           f == CHOOSE g : EcuacionDeCadena(g, t, i)
<1>1. EcuacionDeCadena(f, t, i)
  BY HastaExiste
<1> HIDE DEF f
<1>2. f = [n \in Nat |-> IF n = 0 THEN {i} ELSE paso(f[n - 1])]
  BY <1>1 DEF EcuacionDeCadena
<1>3. f[0] = {i} /\ \A n \in Nat : f[n + 1] = paso(f[n])
  <2> HIDE DEF paso
  <2>1. \A n \in Nat : n + 1 \in Nat /\ n + 1 # 0 /\ (n + 1) - 1 = n
    OBVIOUS
  <2>2. \A n \in Nat : f[n] = IF n = 0 THEN {i} ELSE paso(f[n - 1])
    BY <1>2
  <2> QED
    BY <2>1, <2>2
<1> DEFINE cerrado(js) == \A j \in js : j + t.buckets[j].off \in js
           T == {n \in Nat : /\ i \in f[n] /\ f[n] \subseteq S
                             /\ cerrado(f[n]) \/ Cardinality(f[n]) > n}
<1>4. IsFiniteSet(S) /\ Cardinality(S) <= NumBuckets(t) /\ Cardinality(S) \in Nat
  <2> DEFINE I == 0 .. t.mascara
  <2>1. IsFiniteSet(I) /\ Cardinality(I) = NumBuckets(t)
    BY FS_Interval DEF NumBuckets
  <2> HIDE DEF I
  <2> QED
    BY <2>1, FS_Subset, FS_CardinalityType DEF I
<1>5. 0 \in T
  <2>1. i \in f[0] /\ f[0] \subseteq S
    BY <1>3
  <2>2. Cardinality(f[0]) = 1
    BY <1>3, FS_Singleton
  <2> HIDE DEF cerrado
  <2> QED
    BY <2>1, <2>2
<1>6. ASSUME NEW n \in Nat, n \in T PROVE n + 1 \in T
  <2>1. f[n + 1] = paso(f[n]) /\ i \in f[n] /\ f[n] \subseteq S
    BY <1>3, <1>6
  <2>2. i \in f[n + 1] /\ f[n + 1] \subseteq S /\ f[n] \subseteq f[n + 1]
    BY <2>1
  <2>3. CASE cerrado(f[n])
    <3>1. f[n + 1] = f[n]
      BY <2>1, <2>3
    <3> QED
      BY <2>2, <2>3, <3>1
  <2>4. CASE ~cerrado(f[n])
    <3>1. Cardinality(f[n]) > n
      BY <1>6, <2>4
    <3>2. f[n + 1] # f[n]
      BY <2>1, <2>4
    <3>3. IsFiniteSet(f[n + 1])
      BY <1>4, <2>2, FS_Subset
    <3>4. Cardinality(f[n]) <= Cardinality(f[n + 1]) /\ Cardinality(f[n]) # Cardinality(f[n + 1])
          /\ Cardinality(f[n]) \in Nat /\ Cardinality(f[n + 1]) \in Nat
      BY <2>2, <3>2, <3>3, FS_Subset, FS_CardinalityType
    <3>5. Cardinality(f[n + 1]) > n + 1
      BY <3>1, <3>4
    <3> HIDE DEF cerrado, paso
    <3> QED
      BY <2>2, <3>5
  <2> QED
    BY <2>3, <2>4
<1>7. Nat \subseteq T
  <2> HIDE DEF T
  <2> QED
    BY <1>5, <1>6, Induccion
<1> DEFINE N == NumBuckets(t)
<1>8. N \in Nat /\ Cadena(t, i) = f[N]
  BY CadenaEcuacion DEF NumBuckets, f
<1>9. i \in f[N] /\ f[N] \subseteq S /\ (cerrado(f[N]) \/ Cardinality(f[N]) > N)
  <2> HIDE DEF N, cerrado
  <2> QED
    BY <1>7, <1>8
<1>10. Cardinality(f[N]) <= Cardinality(S) /\ Cardinality(f[N]) \in Nat
  <2>1. f[N] \in SUBSET S
    BY <1>9
  <2> HIDE DEF N
  <2> QED
    BY <1>4, <2>1, FS_Subset, FS_CardinalityType
<1>11. cerrado(f[N])
  <2> HIDE DEF cerrado
  <2> QED
    BY <1>4, <1>8, <1>9, <1>10
<1> QED
  BY <1>8, <1>9, <1>11

-------------------------------------------------------------------------------
(* What is stored and what is found.                                       *)

\* Where the links of an active bucket lead.
LEMMA EnlacesDe ==
  ASSUME NEW t, Bien(t)
  PROVE  /\ Activos(t) \subseteq 0 .. t.mascara
         /\ \A i \in Activos(t) :
              LET p == Principal(t, t.buckets[i].llave)
                  n == i + t.buckets[i].off
              IN /\ p \in Activos(t) /\ Principal(t, t.buckets[p].llave) = p
                 /\ n \in Activos(t) /\ Principal(t, t.buckets[n].llave) = p
<1> DEFINE A == Activos(t)
           b == Bases(t)
           s == Siguientes(t)
<1>1. PICK r : Eslabones(A, b, s, r)
  BY DEF Bien, Encadenada
<1>2. \A i \in A : b[i] = Principal(t, t.buckets[i].llave) /\ s[i] = i + t.buckets[i].off
  BY DEF Bases, Siguientes
<1>3. A \subseteq 0 .. t.mascara
  BY DEF Activos
<1> HIDE DEF A, b, s
<1>4. \A i \in A : b[i] \in A /\ s[i] \in A /\ b[b[i]] = b[i] /\ b[s[i]] = b[i]
  BY <1>1 DEF Eslabones
<1> QED
  BY <1>2, <1>3, <1>4 DEF A

\* What a loop visits from a bucket is in the chain of that bucket, and from the
\* head it is all of it.
LEMMA CadenaDeMiembros ==
  ASSUME NEW t, Bien(t), NEW i \in Activos(t), NEW p,
         p = Principal(t, t.buckets[i].llave)
  PROVE  /\ Cadena(t, i) \subseteq Miembros(Activos(t), Bases(t), p)
         /\ i = p => Cadena(t, i) = Miembros(Activos(t), Bases(t), p)
         /\ i \in Cadena(t, i)
         /\ \A j \in Cadena(t, i) : j + t.buckets[j].off \in Cadena(t, i)
<1> DEFINE A == Activos(t)
           S == Miembros(A, Bases(t), p)
<1>1. S = {j \in A : Principal(t, t.buckets[j].llave) = p}
  BY DEF Miembros, Bases
<1>2. S \in SUBSET (0 .. t.mascara) /\ i \in S /\ \A j \in S : j + t.buckets[j].off \in S
  BY <1>1, EnlacesDe
<1> HIDE DEF S
<1>3. /\ i \in Cadena(t, i) /\ Cadena(t, i) \subseteq S
      /\ \A j \in Cadena(t, i) : j + t.buckets[j].off \in Cadena(t, i)
  BY <1>2, CadenaCerrada DEF Bien
<1>4. ASSUME i = p PROVE S \subseteq Cadena(t, i)
  <2>1. Encadenada(A, Bases(t), Siguientes(t)) /\ p \in A /\ Bases(t)[p] = p
    BY <1>4 DEF Bien, Bases
  <2>2. \A j \in Cadena(t, i) \cap A : Siguientes(t)[j] \in Cadena(t, i)
    BY <1>3 DEF Siguientes
  <2> QED
    BY <1>3, <1>4, <2>1, <2>2, CadenaEntera DEF S
<1> QED
  BY <1>3, <1>4 DEF S

\* Every bucket of it is active and has a key of the same main position.
LEMMA CadenaActiva ==
  ASSUME NEW t, Bien(t), NEW i \in Activos(t), NEW j \in Cadena(t, i)
  PROVE  /\ j \in Activos(t)
         /\ Principal(t, t.buckets[j].llave) = Principal(t, t.buckets[i].llave)
<1> DEFINE p == Principal(t, t.buckets[i].llave)
           S == Miembros(Activos(t), Bases(t), p)
<1>1. Cadena(t, i) \subseteq S
  <2> HIDE DEF p, S
  <2> QED
    BY CadenaDeMiembros DEF p, S
<1>2. j \in S
  BY <1>1
<1> QED
  BY <1>2 DEF Miembros, Bases

\* The links alone make it.
LEMMA CadenaIgual ==
  ASSUME NEW t, Bien(t), NEW u, Bien(u), u.mascara = t.mascara,
         \A j \in 0 .. t.mascara :
           u.buckets[j].activo = t.buckets[j].activo /\ u.buckets[j].off = t.buckets[j].off,
         NEW i \in Activos(t)
  PROVE  Cadena(u, i) = Cadena(t, i)
<1>1. Activos(u) = Activos(t) /\ Activos(t) \subseteq 0 .. t.mascara /\ t.mascara \in Nat
  BY DEF Activos, Bien
<1>2. /\ Cadena(t, i) \subseteq Activos(t) /\ i \in Cadena(t, i)
      /\ \A j \in Cadena(t, i) : j + t.buckets[j].off \in Cadena(t, i)
  BY CadenaActiva, CadenaDeMiembros
<1>3. /\ Cadena(u, i) \subseteq Activos(u) /\ i \in Cadena(u, i)
      /\ \A j \in Cadena(u, i) : j + u.buckets[j].off \in Cadena(u, i)
  BY <1>1, CadenaActiva, CadenaDeMiembros
<1>4. Cadena(u, i) \subseteq Cadena(t, i)
  BY <1>1, <1>2, CadenaCerrada
<1>5. Cadena(t, i) \subseteq Cadena(u, i)
  BY <1>1, <1>3, CadenaCerrada
<1> QED
  BY <1>4, <1>5

\* The search for a key ends at an active bucket with an equal key, and at one at
\* most; it ends there if the main position of that key is the same.
LEMMA LugaresSon ==
  ASSUME NEW t, Bien(t), NEW k \in Llaves
  PROVE  /\ \A j \in Lugares(t, k) : j \in Activos(t) /\ Igualdad(k, t.buckets[j].llave)
         /\ \A i, j \in Lugares(t, k) : i = j
         /\ \A j \in Activos(t) : /\ Principal(t, t.buckets[j].llave) = Principal(t, k)
                                  /\ Igualdad(k, t.buckets[j].llave)
                                  => j \in Lugares(t, k)
<1> DEFINE i == Principal(t, k)
<1>1. i \in 0 .. t.mascara
  BY PrincipalTipo DEF Bien
<1>2. CASE ~t.buckets[i].activo
  <2>1. i \notin Activos(t) /\ Lugares(t, k) = {}
    BY <1>2 DEF Activos, Lugares
  <2> QED
    BY <2>1, EnlacesDe
<1>3. CASE t.buckets[i].activo
  <2>1. i \in Activos(t)
    BY <1>1, <1>3 DEF Activos
  <2>2. Lugares(t, k) = {j \in Cadena(t, i) : Igualdad(k, t.buckets[j].llave)}
    BY <1>3 DEF Lugares
  <2>3. \A j \in Cadena(t, i) : /\ j \in Activos(t) /\ t.buckets[j].llave \in Llaves
                                /\ Principal(t, t.buckets[j].llave) = Principal(t, t.buckets[i].llave)
    BY <2>1, CadenaActiva DEF Bien, Activos
  <2>4. ASSUME NEW j \in Lugares(t, k), NEW l \in Lugares(t, k) PROVE j = l
    <3>1. Igualdad(t.buckets[j].llave, t.buckets[l].llave)
      BY <2>2, <2>3, IgualdadEs
    <3> QED
      BY <2>2, <2>3, <3>1 DEF Bien
  <2>5. ASSUME NEW j \in Activos(t), Principal(t, t.buckets[j].llave) = i,
               Igualdad(k, t.buckets[j].llave)
        PROVE  j \in Lugares(t, k)
    <3>1. Principal(t, t.buckets[i].llave) = i
      BY <2>5, EnlacesDe
    <3>2. Cadena(t, i) = Miembros(Activos(t), Bases(t), i)
      BY <2>1, <3>1, CadenaDeMiembros
    <3>3. j \in Cadena(t, i)
      BY <2>5, <3>2 DEF Miembros, Bases
    <3> QED
      BY <2>2, <2>5, <3>3
  <2> QED
    BY <2>2, <2>3, <2>4, <2>5
<1> QED
  BY <1>2, <1>3

\* What the buckets hold, and what is found.
Guarda(t, k, v) ==
  \E j \in Activos(t) : t.buckets[j].llave = k /\ t.buckets[j].valor = v

\* So a stored key is found, with the value that is stored; what is found is an
\* equal key; and if none is, there is none in the chain of that main position.
LEMMA SeEncuentra ==
  ASSUME NEW t, Bien(t), NEW k \in Llaves
  PROVE  /\ \A j \in Activos(t) : t.buckets[j].llave = k => j \in Lugares(t, k)
         /\ \A j \in Lugares(t, k) :
              /\ j \in Activos(t) /\ Igualdad(k, t.buckets[j].llave)
              /\ Lugares(t, k) = {j} /\ ValorDe(t, k) = t.buckets[j].valor
         /\ ~Contiene(t, k) => \A j \in Activos(t) :
              /\ t.buckets[j].llave # k
              /\ Principal(t, t.buckets[j].llave) = Principal(t, k) => ~Igualdad(k, t.buckets[j].llave)
<1>1. /\ \A j \in Lugares(t, k) : j \in Activos(t) /\ Igualdad(k, t.buckets[j].llave)
      /\ \A i, j \in Lugares(t, k) : i = j
      /\ \A j \in Activos(t) : /\ Principal(t, t.buckets[j].llave) = Principal(t, k)
                               /\ Igualdad(k, t.buckets[j].llave)
                               => j \in Lugares(t, k)
  BY LugaresSon
<1>2. ASSUME NEW j \in Activos(t), t.buckets[j].llave = k PROVE j \in Lugares(t, k)
  BY <1>1, <1>2 DEF Igualdad
<1>3. ASSUME NEW j \in Lugares(t, k)
      PROVE  Lugares(t, k) = {j} /\ ValorDe(t, k) = t.buckets[j].valor
  <2>1. Lugares(t, k) = {j}
    BY <1>1
  <2>2. (CHOOSE x \in Lugares(t, k) : TRUE) = j
    BY <2>1
  <2> QED
    BY <2>1, <2>2 DEF ValorDe
<1> QED
  BY <1>1, <1>2, <1>3 DEF Contiene

\* Two tables that hold the same pairs are the same map.
LEMMA ParesDe ==
  ASSUME NEW t, Bien(t)
  PROVE  /\ Guardadas(t) \in SUBSET Llaves
         /\ \A k \in Llaves : k \in Guardadas(t) <=> \E v \in Valores : Guarda(t, k, v)
         /\ \A k \in Llaves, v \in Valores : Guarda(t, k, v) => Contiene(t, k) /\ ValorDe(t, k) = v
         /\ \A k \in Guardadas(t) : ValorDe(t, k) \in Valores /\ Guarda(t, k, ValorDe(t, k))
         /\ Pares(t) = [k \in Guardadas(t) |-> ValorDe(t, k)]
<1>1. \A j \in Activos(t) : t.buckets[j].llave \in Llaves /\ t.buckets[j].valor \in Valores
  BY DEF Bien, Activos
<1>2. Guardadas(t) \in SUBSET Llaves
  BY <1>1 DEF Guardadas
<1>3. ASSUME NEW k \in Llaves PROVE k \in Guardadas(t) <=> \E v \in Valores : Guarda(t, k, v)
  BY <1>1 DEF Guarda, Guardadas
<1>4. ASSUME NEW k \in Llaves, NEW v \in Valores, Guarda(t, k, v)
      PROVE  Contiene(t, k) /\ ValorDe(t, k) = v
  <2>1. PICK j \in Activos(t) : t.buckets[j].llave = k /\ t.buckets[j].valor = v
    BY <1>4 DEF Guarda
  <2>2. j \in Lugares(t, k)
    BY <2>1, SeEncuentra
  <2>3. ValorDe(t, k) = t.buckets[j].valor
    BY <2>2, SeEncuentra
  <2> QED
    BY <2>1, <2>2, <2>3 DEF Contiene
<1>5. ASSUME NEW k \in Guardadas(t)
      PROVE  ValorDe(t, k) \in Valores /\ Guarda(t, k, ValorDe(t, k))
  BY <1>2, <1>3, <1>4
<1> QED
  BY <1>2, <1>3, <1>4, <1>5 DEF Pares

-------------------------------------------------------------------------------
(* pdcrt_tabla_fijar.                                                      *)

\* u is t with the pair k, v.
Fijado(t, u, k, v) ==
  /\ Bien(u) /\ u.mascara = t.mascara
  /\ u.ocupados = IF k \in Guardadas(t) THEN t.ocupados ELSE t.ocupados + 1
  /\ \A x \in Llaves, w \in Valores : Guarda(u, x, w) <=> IF x = k THEN w = v ELSE Guarda(t, x, w)

\* A new pair in a bucket c that was not in use: what is left to show is that
\* the chains are right and that the other pairs are where they were, or that
\* one of them moved to c and left its bucket to the new one.
LEMMA ConUnoMas ==
  ASSUME NEW t, Bien(t), NEW u, NEW k \in Llaves, NEW v \in Valores, ~Contiene(t, k),
         u.mascara = t.mascara, u \in Tablas(t.mascara),
         u.ocupados = t.ocupados + 1,
         NEW c \in Inactivos(t), NEW i \in 0 .. t.mascara,
         i = c \/ i \in Activos(t),
         \A j \in 0 .. t.mascara : u.buckets[j].activo = (t.buckets[j].activo \/ j = c),
         \A j \in 0 .. t.mascara : ~u.buckets[j].activo => u.buckets[j].off = 0,
         \A j \in Activos(t) : j # i =>
           u.buckets[j].llave = t.buckets[j].llave /\ u.buckets[j].valor = t.buckets[j].valor,
         u.buckets[i].llave = k, u.buckets[i].valor = v,
         i # c =>
           u.buckets[c].llave = t.buckets[i].llave /\ u.buckets[c].valor = t.buckets[i].valor,
         Encadenada(Activos(t) \union {c}, Bases(u), Siguientes(u))
  PROVE  Fijado(t, u, k, v)
<1>1. c \in 0 .. t.mascara /\ c \notin Activos(t) /\ t.mascara \in Nat
  BY DEF Inactivos, Activos, Bien
<1>2. Activos(u) = Activos(t) \union {c}
  <2>1. Activos(u) = {j \in 0 .. t.mascara : u.buckets[j].activo}
    BY DEF Activos
  <2>2. Activos(t) = {j \in 0 .. t.mascara : t.buckets[j].activo}
    BY DEF Activos
  <2> QED
    BY <1>1, <2>1, <2>2
<1>3. \A j \in Activos(t) :
        /\ t.buckets[j].llave # k /\ t.buckets[j].llave \in Llaves /\ t.buckets[j].valor \in Valores
        /\ Principal(t, t.buckets[j].llave) = Principal(t, k) =>
             ~Igualdad(k, t.buckets[j].llave) /\ ~Igualdad(t.buckets[j].llave, k)
  BY SeEncuentra, IgualdadEs DEF Bien, Activos
<1>4. \A j \in Activos(u) :
        \/ j = i
        \/ j = c /\ i # c
        \/ j # i /\ j # c /\ j \in Activos(t)
  BY <1>2
<1>5. \A j \in Activos(u) : u.buckets[j].llave \in Llaves /\ u.buckets[j].valor \in Valores
  BY <1>3, <1>4
<1>6. \A j, l \in Activos(u) :
        /\ Principal(u, u.buckets[j].llave) = Principal(u, u.buckets[l].llave)
        /\ Igualdad(u.buckets[j].llave, u.buckets[l].llave)
        => j = l
  <2>1. \A j, l \in Activos(t) :
          /\ Principal(t, t.buckets[j].llave) = Principal(t, t.buckets[l].llave)
          /\ Igualdad(t.buckets[j].llave, t.buckets[l].llave)
          => j = l
    BY DEF Bien
  <2>2. \A x : Principal(u, x) = Principal(t, x)
    BY DEF Principal, NumBuckets
  <2>3. \A j \in Activos(u) : j # i => \E l \in Activos(t) :
          u.buckets[j].llave = t.buckets[l].llave /\ l = IF j = c THEN i ELSE j
    BY <1>4
  <2> QED
    BY <1>3, <2>1, <2>2, <2>3
<1>7. u.ocupados = Cardinality(Activos(u))
  <2>1. IsFiniteSet(Activos(t)) /\ t.ocupados = Cardinality(Activos(t))
    BY <1>1, ActivosFinitos DEF Bien
  <2> QED
    BY <1>1, <1>2, <2>1, FS_AddElement
<1>8. \A j \in 0 .. u.mascara :
       IF u.buckets[j].activo THEN u.buckets[j].llave \in Llaves /\ u.buckets[j].valor \in Valores
       ELSE u.buckets[j].off = 0
  BY <1>5 DEF Activos
<1>9. Bien(u)
  BY <1>1, <1>2, <1>6, <1>7, <1>8 DEF Bien
<1>10. ASSUME NEW x \in Llaves, NEW w \in Valores
       PROVE  Guarda(u, x, w) <=> IF x = k THEN w = v ELSE Guarda(t, x, w)
  <2>1. i \in Activos(u)
    BY <1>2
  <2>2. CASE x = k
    BY <1>3, <1>4, <2>1, <2>2 DEF Guarda
  <2>3. CASE x # k
    <3>1. ASSUME Guarda(u, x, w) PROVE Guarda(t, x, w)
      BY <1>4, <2>3, <3>1 DEF Guarda
    <3>2. ASSUME Guarda(t, x, w) PROVE Guarda(u, x, w)
      <4>1. PICK j \in Activos(t) : t.buckets[j].llave = x /\ t.buckets[j].valor = w
        BY <3>2 DEF Guarda
      <4>2. CASE j = i
        BY <1>1, <1>2, <4>1, <4>2 DEF Guarda
      <4>3. CASE j # i
        BY <1>2, <4>1, <4>3 DEF Guarda
      <4> QED
        BY <4>2, <4>3
    <3> QED
      BY <2>3, <3>1, <3>2
  <2> QED
    BY <2>2, <2>3
<1>11. k \notin Guardadas(t)
  BY <1>3 DEF Guardadas
<1> QED
  BY <1>9, <1>10, <1>11 DEF Fijado

\* The three ways in which pdcrt_tabla_fijar adds a pair, and the one in which it
\* changes one: the main position is free.
LEMMA PonerEnPrincipal ==
  ASSUME NEW t, Bien(t), NEW k \in Llaves, NEW v \in Valores, NEW i,
         i = Principal(t, k), ~t.buckets[i].activo
  PROVE  /\ ~Contiene(t, k)
         /\ Fijado(t, [t EXCEPT !.ocupados = @ + 1, !.buckets[i] = Bucket(k, v, 0)], k, v)
<1> DEFINE u == [t EXCEPT !.ocupados = @ + 1, !.buckets[i] = Bucket(k, v, 0)]
           A == Activos(t)
<1>1. /\ t.mascara \in Nat /\ i \in 0 .. t.mascara /\ t \in Tablas(t.mascara)
      /\ i \in Inactivos(t) /\ i \notin A
  BY PrincipalTipo DEF Bien, Inactivos, Activos
<1>2. /\ u.mascara = t.mascara /\ u.ocupados = t.ocupados + 1
      /\ u.buckets[i] = Bucket(k, v, 0)
      /\ \A j \in 0 .. t.mascara : j # i => u.buckets[j] = t.buckets[j]
  BY <1>1 DEF Tablas
<1>3. u \in Tablas(t.mascara)
  <2>1. Bucket(k, v, 0) \in Cubeta
    BY DEF Bucket, Cubeta
  <2> DEFINE o == t.ocupados + 1
  <2>2. o \in Nat
    BY <1>1 DEF Tablas
  <2>3. u = [t EXCEPT !.ocupados = o, !.buckets[i] = Bucket(k, v, 0)]
    OBVIOUS
  <2> HIDE DEF o, u
  <2> QED
    BY <1>1, <2>1, <2>2, <2>3 DEF Tablas
<1> HIDE DEF u
<1>4. Bucket(k, v, 0).activo = TRUE /\ Bucket(k, v, 0).off = 0 /\ Bucket(k, v, 0).llave = k
        /\ Bucket(k, v, 0).valor = v
  BY DEF Bucket
<1>5. ~Contiene(t, k)
  BY DEF Contiene, Lugares
<1>6. \A j \in 0 .. t.mascara : u.buckets[j].activo = (t.buckets[j].activo \/ j = i)
  <2>1. \A j \in 0 .. t.mascara : t.buckets[j].activo \in BOOLEAN
    BY <1>1 DEF Tablas, Cubeta
  <2> QED
    BY <1>2, <1>4, <2>1
<1>7. \A j \in 0 .. t.mascara : ~u.buckets[j].activo => u.buckets[j].off = 0
  BY <1>1, <1>2, <1>4 DEF Bien
<1>8. Activos(u) = A \union {i}
  BY <1>1, <1>2, <1>6 DEF Activos
<1>9. \A x : Principal(u, x) = Principal(t, x)
  BY <1>2 DEF Principal, NumBuckets
<1>10. Encadenada(A \union {i}, Bases(u), Siguientes(u))
  <2> DEFINE b == Bases(t)
             s == Siguientes(t)
             b2 == Bases(u)
             s2 == Siguientes(u)
  <2>1. Encadenada(A, b, s)
    BY DEF Bien
  <2>2. b \in [A -> A] /\ s \in [A -> A]
    BY <2>1 DEF Encadenada, Eslabones
  <2>3. /\ b2 = [j \in A \union {i} |-> Principal(t, u.buckets[j].llave)]
        /\ s2 = [j \in A \union {i} |-> j + u.buckets[j].off]
    BY <1>8, <1>9 DEF Bases, Siguientes
  <2>4. \A j \in A : u.buckets[j] = t.buckets[j]
    BY <1>1, <1>2 DEF Activos
  <2>5. b2[i] = i /\ s2[i] = i /\ \A j \in A : b2[j] = b[j] /\ s2[j] = s[j]
    <3>1. b2[i] = i /\ s2[i] = i
      BY <1>1, <1>2, <1>4, <2>3
    <3>2. \A j \in A : b2[j] = b[j] /\ s2[j] = s[j]
      BY <2>3, <2>4 DEF Bases, Siguientes
    <3> QED
      BY <3>1, <3>2
  <2>6. b2 \in [A \union {i} -> A \union {i}] /\ s2 \in [A \union {i} -> A \union {i}]
    <3>1. \A j \in A \union {i} : b2[j] \in A \union {i} /\ s2[j] \in A \union {i}
      BY <2>2, <2>5
    <3> QED
      BY <2>3, <3>1
  <2> HIDE DEF A, b, s, b2, s2
  <2> QED
    BY <1>1, <2>1, <2>5, <2>6, EnlazarSolo DEF b2, s2
<1>11. \A j \in A : j # i =>
         u.buckets[j].llave = t.buckets[j].llave /\ u.buckets[j].valor = t.buckets[j].valor
  BY <1>1, <1>2 DEF Activos
<1>12. Fijado(t, u, k, v)
  BY <1>1, <1>2, <1>3, <1>4, <1>5, <1>6, <1>7, <1>10, <1>11, ConUnoMas
<1> QED
  BY <1>5, <1>12 DEF u

\* The key is there, or one equal to it.
LEMMA CambiarValor ==
  ASSUME NEW t, Bien(t), NEW k \in Llaves, NEW v \in Valores, NEW i \in Lugares(t, k), NEW u,
         u = [t EXCEPT !.buckets[i].valor = v]
  PROVE  /\ Fijado(t, u, t.buckets[i].llave, v)
         /\ Contiene(u, k) /\ ValorDe(u, k) = v
         /\ \A j \in 0 .. t.mascara :
              u.buckets[j].activo = t.buckets[j].activo /\ u.buckets[j].llave = t.buckets[j].llave
<1> DEFINE A == Activos(t)
           l == t.buckets[i].llave
<1>1. /\ t.mascara \in Nat /\ i \in 0 .. t.mascara /\ t \in Tablas(t.mascara)
      /\ A \subseteq 0 .. t.mascara /\ i \in A /\ l \in Llaves
  BY SeEncuentra DEF Bien, Activos
<1>2. u \in Tablas(t.mascara)
  BY <1>1 DEF Tablas, Cubeta
<1>3. /\ u.mascara = t.mascara /\ u.ocupados = t.ocupados
      /\ \A j \in 0 .. t.mascara :
           /\ u.buckets[j].activo = t.buckets[j].activo
           /\ u.buckets[j].off = t.buckets[j].off
           /\ u.buckets[j].llave = t.buckets[j].llave
           /\ u.buckets[j].valor = IF j = i THEN v ELSE t.buckets[j].valor
  BY <1>1 DEF Tablas, Cubeta
<1>4. Activos(u) = A
  BY <1>1, <1>3 DEF Activos
<1>5. \A x : Principal(u, x) = Principal(t, x)
  BY <1>3 DEF Principal, NumBuckets
<1>6. Bases(u) = Bases(t) /\ Siguientes(u) = Siguientes(t)
  BY <1>1, <1>3, <1>4, <1>5 DEF Bases, Siguientes
<1>7. \A j, m \in A :
        /\ Principal(u, u.buckets[j].llave) = Principal(u, u.buckets[m].llave)
        /\ Igualdad(u.buckets[j].llave, u.buckets[m].llave)
        => j = m
  BY <1>1, <1>3, <1>5 DEF Bien
<1>8. \A j \in 0 .. t.mascara :
       IF u.buckets[j].activo THEN u.buckets[j].llave \in Llaves /\ u.buckets[j].valor \in Valores
       ELSE u.buckets[j].off = 0
  BY <1>3 DEF Bien
<1>9. Bien(u)
  BY <1>1, <1>2, <1>3, <1>4, <1>6, <1>7, <1>8 DEF Bien
<1>10. ASSUME NEW x \in Llaves, NEW w \in Valores
       PROVE  Guarda(u, x, w) <=> IF x = l THEN w = v ELSE Guarda(t, x, w)
  <2>1. \A j \in A : t.buckets[j].llave = l => j = i
    BY <1>1, LlavesUnicas
  <2>2. \A j \in A : /\ u.buckets[j].llave = t.buckets[j].llave
                     /\ u.buckets[j].valor = IF j = i THEN v ELSE t.buckets[j].valor
    BY <1>1, <1>3
  <2> QED
    BY <1>1, <1>4, <2>1, <2>2 DEF Guarda
<1>11. l \in Guardadas(t)
  BY <1>1 DEF Guardadas
<1>12. Fijado(t, u, l, v)
  BY <1>3, <1>9, <1>10, <1>11 DEF Fijado
<1>13. i \in Lugares(u, k)
  <2> DEFINE p == Principal(t, k)
  <2>1. p \in 0 .. t.mascara
    BY <1>1, PrincipalTipo
  <2>2. t.buckets[p].activo /\ i \in Cadena(t, p) /\ Igualdad(k, l)
    BY DEF Lugares
  <2>3. p \in A
    BY <2>1, <2>2 DEF Activos
  <2>4. Cadena(u, p) = Cadena(t, p)
    <3> HIDE DEF p
    <3> QED
      BY <1>3, <1>9, <2>3, CadenaIgual
  <2>5. u.buckets[p].activo /\ u.buckets[i].llave = l
    BY <1>1, <1>3, <2>1, <2>2
  <2> QED
    BY <1>5, <2>2, <2>4, <2>5 DEF Lugares
<1>14. ValorDe(u, k) = u.buckets[i].valor
  <2>1. \A j \in Lugares(u, k) : ValorDe(u, k) = u.buckets[j].valor
    <3>1. Bien(u) /\ k \in Llaves
      BY <1>9
    <3> QED
      BY ONLY <3>1, SeEncuentra
  <2> QED
    BY <1>13, <2>1
<1> QED
  BY <1>1, <1>3, <1>12, <1>13, <1>14 DEF Contiene

\* The main position has the head of the chain of the key.
LEMMA AgregarBien ==
  ASSUME NEW t, Bien(t), NEW k \in Llaves, NEW v \in Valores, ~Contiene(t, k), NEW i,
         i = Principal(t, k), i \in Activos(t), Principal(t, t.buckets[i].llave) = i,
         NEW c \in Inactivos(t)
  PROVE  Fijado(t, AgregarColision(t, k, v, i, c), k, v)
<1> DEFINE A == Activos(t)
           off == IF t.buckets[i].off = 0 THEN 0 ELSE (i + t.buckets[i].off) - c
           u == AgregarColision(t, k, v, i, c)
<1>1. /\ t.mascara \in Nat /\ i \in 0 .. t.mascara /\ c \in 0 .. t.mascara
      /\ t \in Tablas(t.mascara) /\ t.ocupados \in Nat /\ c \notin A /\ i # c
      /\ A \subseteq 0 .. t.mascara
  BY DEF Bien, Inactivos, Activos, Tablas
<1>2. Enlace(t, i, c) = off
  BY DEF Enlace
<1>3. off \in Int /\ t.buckets[i].off \in Int
  BY <1>1 DEF Tablas, Cubeta
<1> DEFINE n == t.ocupados + 1
           e == Bucket(k, v, off)
           d == c - i
<1>4. n \in Nat /\ e \in Cubeta /\ d \in Int /\ d # 0 /\ i + d = c
  <2>1. n \in Nat /\ d \in Int /\ d # 0 /\ i + d = c
    BY <1>1
  <2> HIDE DEF off
  <2>2. e \in Cubeta
    BY <1>3 DEF Bucket, Cubeta
  <2> QED
    BY <2>1, <2>2
<1>5. u = [t EXCEPT !.ocupados = n, !.buckets[c] = e, !.buckets[i].off = d]
  BY <1>2 DEF AgregarColision
<1>6. /\ e.activo = TRUE /\ e.off = off /\ e.llave = k /\ e.valor = v
  BY DEF Bucket
<1> HIDE DEF n, e, d, off, u
<1>7. u \in Tablas(t.mascara)
  BY <1>1, <1>4, <1>5, ZenonT(60) DEF Tablas, Cubeta
<1>8. /\ u.mascara = t.mascara /\ u.ocupados = n /\ u.buckets[c] = e
      /\ u.buckets[i] = [t.buckets[i] EXCEPT !.off = d]
      /\ \A j \in 0 .. t.mascara : j # i /\ j # c => u.buckets[j] = t.buckets[j]
  BY <1>1, <1>5 DEF Tablas
<1>9. /\ u.buckets[i].activo = t.buckets[i].activo /\ u.buckets[i].off = d
      /\ u.buckets[i].llave = t.buckets[i].llave /\ u.buckets[i].valor = t.buckets[i].valor
  BY <1>1, <1>8 DEF Tablas, Cubeta
<1>10. \A j \in 0 .. t.mascara : u.buckets[j].activo = (t.buckets[j].activo \/ j = c)
  <2>1. \A j \in 0 .. t.mascara : t.buckets[j].activo \in BOOLEAN
    BY <1>1 DEF Tablas, Cubeta
  <2>2. t.buckets[i].activo
    BY DEF Activos
  <2>3. ASSUME NEW j \in 0 .. t.mascara
        PROVE  u.buckets[j].activo = (t.buckets[j].activo \/ j = c)
    <3>1. CASE j = c
      BY <1>6, <1>8, <3>1
    <3>2. CASE j = i
      BY <1>1, <1>9, <2>1, <2>2, <3>2
    <3>3. CASE j # i /\ j # c
      BY <1>8, <2>1, <3>3
    <3> QED
      BY <3>1, <3>2, <3>3
  <2> QED
    BY <2>3
<1>11. \A j \in 0 .. t.mascara : ~u.buckets[j].activo => u.buckets[j].off = 0
  <2>1. ASSUME NEW j \in 0 .. t.mascara, ~u.buckets[j].activo PROVE u.buckets[j].off = 0
    <3>1. ~t.buckets[j].activo /\ j # c /\ j # i
      BY <1>10, <2>1 DEF Activos
    <3>2. t.buckets[j].off = 0
      BY <3>1 DEF Bien
    <3> QED
      BY <1>8, <3>1, <3>2
  <2> QED
    BY <2>1
<1>12. Activos(u) = A \union {c}
  BY <1>1, <1>8, <1>10 DEF Activos
<1>13. \A x : Principal(u, x) = Principal(t, x)
  BY <1>8 DEF Principal, NumBuckets
<1>14. Encadenada(A \union {c}, Bases(u), Siguientes(u))
  <2> DEFINE b == Bases(t)
             s == Siguientes(t)
             b2 == Bases(u)
             s2 == Siguientes(u)
  <2>1. Encadenada(A, b, s)
    BY DEF Bien
  <2>2. b \in [A -> A] /\ s \in [A -> A]
    BY <2>1 DEF Encadenada, Eslabones
  <2>3. /\ b2 = [j \in A \union {c} |-> Principal(t, u.buckets[j].llave)]
        /\ s2 = [j \in A \union {c} |-> j + u.buckets[j].off]
    BY <1>12, <1>13 DEF Bases, Siguientes
  <2>4. \A j \in A : j # c /\ j \in 0 .. t.mascara
    BY <1>1
  <2>5. b2[c] = i /\ \A j \in A : b2[j] = b[j]
    <3>1. b2[c] = i
      BY <1>6, <1>8, <2>3
    <3>2. \A j \in A : u.buckets[j].llave = t.buckets[j].llave
      BY <1>8, <1>9, <2>4
    <3>3. \A j \in A : b2[j] = b[j]
      BY <2>3, <3>2 DEF Bases
    <3> QED
      BY <3>1, <3>3
  <2>6. s2[i] = c /\ \A j \in A : j # i => s2[j] = s[j]
    BY <1>4, <1>8, <1>9, <2>3, <2>4 DEF Siguientes
  <2>7. s2[c] = IF s[i] = i THEN c ELSE s[i]
    <3>1. s2[c] = c + off /\ s[i] = i + t.buckets[i].off
      BY <1>6, <1>8, <2>3 DEF Siguientes
    <3> QED
      BY <1>1, <1>3, <3>1 DEF off
  <2>8. b2 \in [A \union {c} -> A \union {c}] /\ s2 \in [A \union {c} -> A \union {c}]
    <3>1. \A j \in A \union {c} : b2[j] \in A \union {c} /\ s2[j] \in A \union {c}
      BY <2>2, <2>5, <2>6, <2>7
    <3> QED
      BY <2>3, <3>1
  <2>9. b[i] = i /\ i \in A
    BY DEF Bases
  <2> HIDE DEF A, b, s, b2, s2
  <2>10. Encadenada(A \union {c}, b2, s2)
    <3>1. c \notin A /\ i \in A /\ b[i] = i
      BY <1>1, <2>9
    <3> QED
      BY ONLY <2>1, <2>5, <2>6, <2>7, <2>8, <3>1, EnlazarDespues
  <2> QED
    BY <2>10 DEF b2, s2
<1>15. \A j \in A :
         u.buckets[j].llave = t.buckets[j].llave /\ u.buckets[j].valor = t.buckets[j].valor
  BY <1>1, <1>8, <1>9
<1>16. u.ocupados = t.ocupados + 1
  BY <1>8 DEF n
<1>17. Fijado(t, u, k, v)
  BY <1>1, <1>6, <1>7, <1>8, <1>10, <1>11, <1>14, <1>15, <1>16, ConUnoMas
<1> QED
  BY <1>17 DEF u

\* A bucket of a chain after the first of those that are visited has one before
\* it, which Anterior finds.
LEMMA AnteriorDe ==
  ASSUME NEW t, Bien(t), NEW i \in Activos(t), NEW z \in Cadena(t, i), z # i,
         NEW a, a = Anterior(t, i, z)
  PROVE  a \in Activos(t) /\ a # z /\ a + t.buckets[a].off = z
<1> DEFINE C == Cadena(t, i)
<1>1. /\ i \in C /\ C \subseteq Activos(t)
      /\ \A j \in C : j + t.buckets[j].off \in C
  BY CadenaActiva, CadenaDeMiembros
<1>2. \E j \in C : j # z /\ j + t.buckets[j].off = z
  <2>1. SUFFICES ASSUME \A j \in C : j # z => j + t.buckets[j].off # z PROVE FALSE
    OBVIOUS
  <2> DEFINE S == C \ {z}
  <2>2. i \in S /\ S \in SUBSET (0 .. t.mascara) /\ \A j \in S : j + t.buckets[j].off \in S
    <3> HIDE DEF C
    <3> QED
      BY <1>1, <2>1 DEF Activos
  <2>3. z \notin S
    OBVIOUS
  <2> HIDE DEF S
  <2>4. C \subseteq S
    BY <2>2, CadenaCerrada DEF Bien
  <2> QED
    BY <2>3, <2>4
<1>3. a = CHOOSE j \in C : j # z /\ j + t.buckets[j].off = z
  BY DEF Anterior
<1> HIDE DEF C
<1> QED
  BY <1>1, <1>2, <1>3

\* The main position has a collision of another chain.
LEMMA ReubicarBien ==
  ASSUME NEW t, Bien(t), NEW k \in Llaves, NEW v \in Valores, ~Contiene(t, k), NEW i,
         i = Principal(t, k), i \in Activos(t), Principal(t, t.buckets[i].llave) # i,
         NEW c \in Inactivos(t)
  PROVE  Fijado(t, ReubicarColision(t, k, v, i, c), k, v)
<1> DEFINE A == Activos(t)
           off == IF t.buckets[i].off = 0 THEN 0 ELSE (i + t.buckets[i].off) - c
           p == Principal(t, t.buckets[i].llave)
           a == Anterior(t, p, i)
           u == ReubicarColision(t, k, v, i, c)
<1>1. /\ t.mascara \in Nat /\ i \in 0 .. t.mascara /\ c \in 0 .. t.mascara
      /\ t \in Tablas(t.mascara) /\ t.ocupados \in Nat /\ c \notin A /\ i # c
      /\ A \subseteq 0 .. t.mascara
  BY DEF Bien, Inactivos, Activos, Tablas
<1>2. Enlace(t, i, c) = off
  BY DEF Enlace
<1>3. off \in Int /\ t.buckets[i].off \in Int
  BY <1>1 DEF Tablas, Cubeta
<1>4. a \in A /\ a # i /\ a + t.buckets[a].off = i
  <2>1. p \in A /\ Principal(t, t.buckets[p].llave) = p
    BY EnlacesDe
  <2>2. i \in Cadena(t, p)
    <3>1. Cadena(t, p) = Miembros(A, Bases(t), p)
      <4> HIDE DEF p
      <4> QED
        BY <2>1, CadenaDeMiembros
    <3> QED
      BY <3>1 DEF Miembros, Bases
  <2> HIDE DEF p
  <2> QED
    BY <2>1, <2>2, AnteriorDe DEF p
<1>5. a \in 0 .. t.mascara /\ a # c
  BY <1>1, <1>4
<1> DEFINE n == t.ocupados + 1
           e == Bucket(k, v, 0)
           g == [t.buckets[i] EXCEPT !.off = off]
           d == c - a
<1>6. n \in Nat /\ d \in Int /\ a + d = c
  <2> HIDE DEF a
  <2> QED
    BY <1>1, <1>5
<1>7. e \in Cubeta /\ e.activo = TRUE /\ e.off = 0 /\ e.llave = k /\ e.valor = v
  BY DEF Bucket, Cubeta
<1>8. /\ g \in Cubeta /\ g.activo = TRUE /\ g.off = off
      /\ g.llave = t.buckets[i].llave /\ g.valor = t.buckets[i].valor
  <2> HIDE DEF off
  <2> QED
    BY <1>1, <1>3 DEF Tablas, Cubeta, Activos
<1>9. u = [t EXCEPT !.ocupados = n, !.buckets[c] = g, !.buckets[a].off = d, !.buckets[i] = e]
  BY <1>2 DEF ReubicarColision
<1> HIDE DEF n, e, d, off, u, g, a, p
<1>10. u \in Tablas(t.mascara)
  <2> DEFINE t1 == [t EXCEPT !.ocupados = n, !.buckets[c] = g]
             t2 == [t1 EXCEPT !.buckets[a].off = d]
  <2>1. u = [t2 EXCEPT !.buckets[i] = e]
    BY <1>9
  <2>2. t1 \in Tablas(t.mascara)
    BY <1>1, <1>6, <1>8 DEF Tablas
  <2> HIDE DEF t1
  <2>3. t2 \in Tablas(t.mascara)
    BY <1>6, <2>2 DEF Tablas, Cubeta
  <2> HIDE DEF t2
  <2> QED
    BY <1>7, <2>1, <2>3 DEF Tablas
<1>11. /\ u.mascara = t.mascara /\ u.ocupados = n /\ u.buckets[c] = g
       /\ u.buckets[i] = e
       /\ u.buckets[a] = [t.buckets[a] EXCEPT !.off = d]
       /\ \A j \in 0 .. t.mascara : j # i /\ j # c /\ j # a => u.buckets[j] = t.buckets[j]
  BY <1>1, <1>4, <1>5, <1>9 DEF Tablas
<1>12. /\ u.buckets[a].activo = t.buckets[a].activo /\ u.buckets[a].off = d
       /\ u.buckets[a].llave = t.buckets[a].llave /\ u.buckets[a].valor = t.buckets[a].valor
  BY <1>1, <1>5, <1>11 DEF Tablas, Cubeta
<1>13. \A j \in 0 .. t.mascara : u.buckets[j].activo = (t.buckets[j].activo \/ j = c)
  <2>1. \A j \in 0 .. t.mascara : t.buckets[j].activo \in BOOLEAN
    BY <1>1 DEF Tablas, Cubeta
  <2>2. t.buckets[i].activo /\ t.buckets[a].activo
    BY <1>4 DEF Activos
  <2>3. ASSUME NEW j \in 0 .. t.mascara
        PROVE  u.buckets[j].activo = (t.buckets[j].activo \/ j = c)
    <3>1. CASE j = c
      BY <1>8, <1>11, <3>1
    <3>2. CASE j = i
      BY <1>7, <1>11, <2>1, <2>2, <3>2
    <3>3. CASE j = a
      BY <1>12, <2>1, <2>2, <3>3
    <3>4. CASE j # i /\ j # c /\ j # a
      BY <1>11, <2>1, <3>4
    <3> QED
      BY <3>1, <3>2, <3>3, <3>4
  <2> QED
    BY <2>3
<1>14. \A j \in 0 .. t.mascara : ~u.buckets[j].activo => u.buckets[j].off = 0
  <2>1. ASSUME NEW j \in 0 .. t.mascara, ~u.buckets[j].activo PROVE u.buckets[j].off = 0
    <3>1. ~t.buckets[j].activo /\ j # c /\ j # i /\ j # a
      BY <1>4, <1>13, <2>1 DEF Activos
    <3>2. t.buckets[j].off = 0
      BY <3>1 DEF Bien
    <3> QED
      BY <1>11, <3>1, <3>2
  <2> QED
    BY <2>1
<1>15. Activos(u) = A \union {c}
  BY <1>1, <1>11, <1>13 DEF Activos
<1>16. \A x : Principal(u, x) = Principal(t, x)
  BY <1>11 DEF Principal, NumBuckets
<1>17. Encadenada(A \union {c}, Bases(u), Siguientes(u))
  <2> DEFINE b == Bases(t)
             s == Siguientes(t)
             b2 == Bases(u)
             s2 == Siguientes(u)
  <2>1. Encadenada(A, b, s)
    BY DEF Bien
  <2>2. b \in [A -> A] /\ s \in [A -> A]
    BY <2>1 DEF Encadenada, Eslabones
  <2>3. /\ b2 = [j \in A \union {c} |-> Principal(t, u.buckets[j].llave)]
        /\ s2 = [j \in A \union {c} |-> j + u.buckets[j].off]
    BY <1>15, <1>16 DEF Bases, Siguientes
  <2>4. \A j \in A : j # c /\ j \in 0 .. t.mascara
    BY <1>1
  <2>5. b2[i] = i /\ b2[c] = b[i] /\ \A j \in A : j # i => b2[j] = b[j]
    <3>1. b2[i] = i
      BY <1>7, <1>11, <2>3
    <3>2. b2[c] = b[i]
      BY <1>8, <1>11, <2>3 DEF Bases
    <3>3. \A j \in A : j # i => u.buckets[j].llave = t.buckets[j].llave
      BY <1>11, <1>12, <2>4
    <3>4. \A j \in A : j # i => b2[j] = b[j]
      BY <2>3, <3>3 DEF Bases
    <3> QED
      BY <3>1, <3>2, <3>4
  <2>6. s2[i] = i /\ s2[a] = c /\ \A j \in A : j # i /\ j # a => s2[j] = s[j]
    <3>1. s2[i] = i
      BY <1>1, <1>7, <1>11, <2>3
    <3>2. s2[a] = c
      BY <1>4, <1>6, <1>12, <2>3
    <3>3. \A j \in A : j # i /\ j # a => u.buckets[j].off = t.buckets[j].off
      BY <1>11, <2>4
    <3>4. \A j \in A : j # i /\ j # a => s2[j] = s[j]
      BY <2>3, <3>3 DEF Siguientes
    <3> QED
      BY <3>1, <3>2, <3>4
  <2>7. s2[c] = IF s[i] = i THEN c ELSE s[i]
    <3>1. s2[c] = c + off /\ s[i] = i + t.buckets[i].off
      BY <1>8, <1>11, <2>3 DEF Siguientes
    <3> QED
      BY <1>1, <1>3, <3>1 DEF off
  <2>8. s[a] = i /\ a \in A /\ a # i
    BY <1>4 DEF Siguientes
  <2>9. b2 \in [A \union {c} -> A \union {c}] /\ s2 \in [A \union {c} -> A \union {c}]
    <3>1. \A j \in A \union {c} : b2[j] \in A \union {c} /\ s2[j] \in A \union {c}
      BY <2>2, <2>5, <2>6, <2>7
    <3> QED
      BY <2>3, <3>1
  <2>10. b[i] # i /\ i \in A /\ c \notin A
    BY <1>1 DEF Bases
  <2> HIDE DEF A, b, s, b2, s2
  <2>11. Encadenada(A \union {c}, b2, s2)
    BY ONLY <2>1, <2>5, <2>6, <2>7, <2>8, <2>9, <2>10, EnlazarEnLugarDe
  <2> QED
    BY <2>11 DEF b2, s2
<1>18. \A j \in A : j # i =>
         u.buckets[j].llave = t.buckets[j].llave /\ u.buckets[j].valor = t.buckets[j].valor
  BY <1>1, <1>11, <1>12
<1>19. u.ocupados = t.ocupados + 1
  BY <1>11 DEF n
<1>20. Fijado(t, u, k, v)
  <2>1. /\ u.buckets[i].llave = k /\ u.buckets[i].valor = v
        /\ u.buckets[c].llave = t.buckets[i].llave /\ u.buckets[c].valor = t.buckets[i].valor
    BY <1>7, <1>8, <1>11
  <2> QED
    BY <1>1, <1>10, <1>11, <1>13, <1>14, <1>17, <1>18, <1>19, <2>1, ConUnoMas
<1> QED
  BY <1>20 DEF u

\* Together: pdcrt_tabla_fijar when there is room.
LEMMA FijarConLugarBien ==
  ASSUME NEW t, Bien(t), NEW k \in Llaves, NEW v \in Valores,
         Inactivos(t) # {} \/ ~Colisiona(t, k), NEW u, u = FijarConLugar(t, k, v)
  PROVE  \E x \in Llaves :
           /\ Igualdad(k, x) /\ Fijado(t, u, x, v)
           /\ Contiene(u, k) /\ ValorDe(u, k) = v
           /\ IF Contiene(t, k)
              THEN /\ x \in Guardadas(t)
                   /\ \A j \in 0 .. t.mascara : /\ u.buckets[j].activo = t.buckets[j].activo
                                                /\ u.buckets[j].llave = t.buckets[j].llave
              ELSE x = k
<1> DEFINE i == Principal(t, k)
           c == Reclamar(t)
<1>1. i \in 0 .. t.mascara /\ t.mascara \in Nat
  BY PrincipalTipo DEF Bien
<1>2. t.buckets[i].activo \in BOOLEAN /\ Contiene(t, k) \in BOOLEAN
  BY <1>1 DEF Bien, Tablas, Cubeta, Contiene
<1>3. Colisiona(t, k) <=> t.buckets[i].activo /\ ~Contiene(t, k)
  BY DEF Colisiona
<1>4. ASSUME Fijado(t, u, k, v) PROVE Contiene(u, k) /\ ValorDe(u, k) = v
  BY <1>4, ParesDe DEF Fijado
<1>5. CASE ~t.buckets[i].activo
  <2>1. ~Contiene(t, k) /\ ~Colisiona(t, k)
    BY <1>3, <1>5, PonerEnPrincipal
  <2>2. u = [t EXCEPT !.ocupados = @ + 1, !.buckets[i] = Bucket(k, v, 0)]
    BY <1>5, <2>1 DEF FijarConLugar
  <2>3. Fijado(t, [t EXCEPT !.ocupados = @ + 1, !.buckets[i] = Bucket(k, v, 0)], k, v)
    BY <1>5, PonerEnPrincipal
  <2>4. Fijado(t, u, k, v)
    BY <2>2, <2>3
  <2> QED
    BY <1>4, <2>1, <2>4 DEF Igualdad
<1>6. CASE t.buckets[i].activo /\ Contiene(t, k)
  <2>1. PICK j \in Lugares(t, k) : TRUE
    BY <1>6 DEF Contiene
  <2>2. /\ j \in Activos(t) /\ Igualdad(k, t.buckets[j].llave) /\ t.buckets[j].llave \in Llaves
        /\ Lugares(t, k) = {j}
    BY <2>1, SeEncuentra DEF Bien, Activos
  <2>3. (CHOOSE x \in Lugares(t, k) : TRUE) = j
    BY <2>2
  <2>4. u = [t EXCEPT !.buckets[CHOOSE x \in Lugares(t, k) : TRUE].valor = v]
    BY <1>3, <1>6 DEF FijarConLugar
  <2>5. u = [t EXCEPT !.buckets[j].valor = v]
    BY <2>3, <2>4
  <2>6. t.buckets[j].llave \in Guardadas(t)
    BY <2>2 DEF Guardadas
  <2>7. /\ Fijado(t, u, t.buckets[j].llave, v)
        /\ Contiene(u, k) /\ ValorDe(u, k) = v
        /\ \A l \in 0 .. t.mascara :
             u.buckets[l].activo = t.buckets[l].activo /\ u.buckets[l].llave = t.buckets[l].llave
    BY <2>1, <2>5, CambiarValor
  <2> QED
    BY <1>6, <2>2, <2>6, <2>7
<1>7. CASE t.buckets[i].activo /\ ~Contiene(t, k)
  <2>1. i \in Activos(t)
    BY <1>1, <1>7 DEF Activos
  <2>2. c \in Inactivos(t)
    BY <1>1, <1>3, <1>7, ReclamarTipo
  <2>3. u = IF Principal(t, t.buckets[i].llave) = i
            THEN AgregarColision(t, k, v, i, c)
            ELSE ReubicarColision(t, k, v, i, c)
    BY <1>3, <1>7 DEF FijarConLugar
  <2>4. Fijado(t, u, k, v)
    <3>1. CASE Principal(t, t.buckets[i].llave) = i
      <4>1. Fijado(t, AgregarColision(t, k, v, i, c), k, v)
        BY <1>7, <2>1, <2>2, <3>1, AgregarBien
      <4> QED
        BY <2>3, <3>1, <4>1
    <3>2. CASE Principal(t, t.buckets[i].llave) # i
      <4>1. Fijado(t, ReubicarColision(t, k, v, i, c), k, v)
        BY <1>7, <2>1, <2>2, <3>2, ReubicarBien
      <4> QED
        BY <2>3, <3>2, <4>1
    <3> QED
      BY <3>1, <3>2
  <2> QED
    BY <1>4, <1>7, <2>4 DEF Igualdad
<1> QED
  BY <1>2, <1>5, <1>6, <1>7

\* pdcrt_redondear_a_p2 finds a power of 2.
LEMMA Redondeo ==
  ASSUME NEW n \in Nat, n > 1, NEW p, p = RedondearAP2(n)
  PROVE  p \in Nat /\ p >= n /\ \E x \in 1 .. p : p = 2 ^ x
<1> DEFINE E == {x \in 0 .. n : 2 ^ x >= n}
           P == {2 ^ x : x \in 0 .. n}
<1>1. \A x \in Nat : 2 ^ x \in Nat /\ x < 2 ^ x
  BY PotenciaSiguiente, PotenciaMayor
<1>2. {2 ^ x : x \in E} \in SUBSET Nat /\ 2 ^ n \in {2 ^ x : x \in E}
  <2> DEFINE q == 2 ^ n
  <2>1. n \in 0 .. n /\ q \in Nat /\ n < q
    BY <1>1
  <2>2. q >= n
    <3> HIDE DEF q
    <3> QED
      BY <2>1
  <2>3. n \in E
    BY <2>1, <2>2
  <2> QED
    BY <1>1, <2>3
<1>3. PICK m \in {2 ^ x : x \in E} : \A y \in {2 ^ x : x \in E} : m <= y
  <2> DEFINE T == {2 ^ x : x \in E}
  <2>1. T \in SUBSET Nat /\ T # {}
    BY <1>2
  <2> HIDE DEF T
  <2>2. \E x \in T : \A y \in T : x <= y
    BY <2>1, Minimo
  <2> QED
    BY <2>2 DEF T
<1>4. m \in P /\ m >= n /\ \A x \in 0 .. n : 2 ^ x >= n => m <= 2 ^ x
  BY <1>3
<1>5. p \in P /\ p >= n
  <2>1. p = CHOOSE q \in P : q >= n /\ \A x \in 0 .. n : 2 ^ x >= n => q <= 2 ^ x
    BY DEF RedondearAP2
  <2> HIDE DEF P
  <2> QED
    BY <1>4, <2>1
<1>6. PICK x \in 0 .. n : p = 2 ^ x
  BY <1>5
<1>7. p \in Nat /\ x < p
  BY <1>1, <1>6
<1>8. x # 0
  <2>1. ASSUME x = 0 PROVE p = 1
    BY <1>6, <2>1, PotenciaCero
  <2> QED
    BY <1>5, <1>7, <2>1
<1>9. x \in 1 .. p
  BY <1>7, <1>8
<1> QED
  BY <1>5, <1>6, <1>7, <1>9

\* An empty table.
LEMMA VaciaBien ==
  ASSUME NEW cap \in Nat \ {0}
  PROVE  /\ Bien(Vacia(cap)) /\ NumBuckets(Vacia(cap)) = cap
         /\ Vacia(cap).ocupados = 0 /\ \A x, w : ~Guarda(Vacia(cap), x, w)
         /\ Vacia(cap).mascara = cap - 1
<1> DEFINE t == Vacia(cap)
<1>1. /\ t.mascara = cap - 1 /\ t.ocupados = 0
      /\ t.buckets = [i \in 0 .. cap - 1 |-> Inactivo]
  BY DEF Vacia
<1>2. Inactivo \in Cubeta /\ Inactivo.activo = FALSE /\ Inactivo.off = 0
  BY DEF Inactivo, Cubeta
<1>3. t \in Tablas(t.mascara) /\ t.mascara \in Nat
  BY <1>1, <1>2 DEF Tablas, Vacia
<1> HIDE DEF t
<1>4. Activos(t) = {}
  BY <1>1, <1>2 DEF Activos
<1>5. Eslabones(Activos(t), Bases(t), Siguientes(t), [i \in {} |-> 0])
  BY <1>4 DEF Eslabones, Bases, Siguientes
<1>6. Cardinality(Activos(t)) = 0
  BY <1>4, FS_EmptySet
<1>7. Bien(t)
  BY <1>1, <1>2, <1>3, <1>4, <1>5, <1>6 DEF Bien, Encadenada
<1> QED
  BY <1>1, <1>4, <1>7 DEF Guarda, NumBuckets, t

-------------------------------------------------------------------------------
(* pdcrt_tabla_rehashear.                                                  *)

\* u has what is left of the pairs of the first n buckets of t: all of them, if
\* none was put in the place of one with an equal key.
Copiada(u, t, cap, n) ==
  /\ Bien(u) /\ u.mascara = cap - 1
  /\ u.ocupados <= Cardinality({i \in Activos(t) : i < n})
  /\ \A x \in Llaves, w \in Valores :
       Guarda(u, x, w) => \E i \in Activos(t) : i < n /\ t.buckets[i].llave = x
  /\ u.ocupados = Cardinality({i \in Activos(t) : i < n}) =>
       \A x \in Llaves, w \in Valores :
         Guarda(u, x, w) <=> \E i \in Activos(t) : /\ i < n /\ t.buckets[i].llave = x
                                                   /\ t.buckets[i].valor = w
  /\ Distintas(Guardadas(t)) => u.ocupados = Cardinality({i \in Activos(t) : i < n})

\* One step of the loop of pdcrt_tabla_rehashear.
CopiarBucket(t, n, u) ==
  LET b == t.buckets[n] IN IF b.activo THEN FijarConLugar(u, b.llave, b.valor) ELSE u

\* The pair of bucket n goes to a new bucket, and there is room for it, or to that
\* of an equal key.
LEMMA CopiaPaso ==
  ASSUME NEW t, Bien(t), NEW cap \in Nat, t.ocupados < cap, NEW n \in 0 .. t.mascara,
         NEW u, Copiada(u, t, cap, n)
  PROVE  Copiada(CopiarBucket(t, n, u), t, cap, n + 1)
<1> DEFINE b == t.buckets[n]
           A == Activos(t)
           B == {i \in A : i < n}
           B2 == {i \in A : i < n + 1}
           u2 == CopiarBucket(t, n, u)
<1>1. t.mascara \in Nat /\ A \subseteq 0 .. t.mascara /\ n \in Int /\ A \subseteq Int
  BY DEF Bien, Activos
<1>2. IsFiniteSet(A) /\ t.ocupados = Cardinality(A)
  BY <1>1, ActivosFinitos DEF Bien
<1>3. CASE ~b.activo
  <2>1. n \notin A
    BY <1>3 DEF Activos
  <2>2. \A i \in A : i < n <=> i < n + 1
    BY <1>1, <2>1
  <2>3. B = B2
    BY <2>2
  <2>4. u2 = u
    BY <1>3 DEF CopiarBucket
  <2> HIDE DEF u2
  <2>5. Copiada(u2, t, cap, n + 1)
    BY <2>2, <2>3, <2>4 DEF Copiada
  <2> QED
    BY <2>5 DEF u2
<1>4. CASE b.activo
  <2> DEFINE k == b.llave
             v == b.valor
  <2>1. n \in A /\ k \in Llaves /\ v \in Valores
    BY <1>4 DEF Activos, Bien
  <2>2. \A i \in A : i < n + 1 <=> i < n \/ i = n
    BY <1>1
  <2>3. B2 = B \union {n} /\ n \notin B /\ B \in SUBSET A
    BY <1>1, <2>1, <2>2
  <2>4. /\ IsFiniteSet(B) /\ Cardinality(B2) = Cardinality(B) + 1
        /\ Cardinality(B) < Cardinality(A) /\ Cardinality(B) \in Nat
    <3>1. IsFiniteSet(B)
      BY <1>2, <2>3, FS_Subset
    <3>2. IsFiniteSet(B2) /\ Cardinality(B2) = Cardinality(B) + 1
      BY <2>3, <3>1, FS_AddElement
    <3>3. B2 \in SUBSET A
      BY <2>1, <2>3
    <3>4. Cardinality(B2) <= Cardinality(A)
      BY <1>2, <3>3, FS_Subset
    <3>5. Cardinality(B) \in Nat /\ Cardinality(A) \in Nat
      BY <1>2, <3>1, FS_CardinalityType
    <3> QED
      BY <3>1, <3>2, <3>4, <3>5
  <2>5. /\ Bien(u) /\ u.mascara = cap - 1 /\ u.ocupados \in Nat /\ u.ocupados <= Cardinality(B)
        /\ u.ocupados = Cardinality(Activos(u)) /\ u.mascara \in Nat
        /\ NumBuckets(u) = cap
    BY DEF Copiada, Bien, Tablas, NumBuckets
  <2>6. \A i \in A : t.buckets[i].llave = k => i = n
    BY <2>1, LlavesUnicas
  <2>7. Inactivos(u) # {}
    <3>1. Inactivos(u) = {} <=> Cardinality(Activos(u)) = NumBuckets(u)
      BY <2>5, ActivosFinitos
    <3>2. Cardinality(A) \in Nat
      BY <1>2, FS_CardinalityType
    <3> QED
      BY <1>2, <2>4, <2>5, <3>1, <3>2
  <2>8. u2 = FijarConLugar(u, k, v)
    BY <1>4 DEF CopiarBucket
  <2> HIDE DEF k, v
  <2>9. PICK x \in Llaves : /\ Igualdad(k, x) /\ Fijado(u, u2, x, v)
                            /\ Contiene(u, k) => x \in Guardadas(u)
                            /\ ~Contiene(u, k) => x = k
    <3>1. \E x \in Llaves : /\ Igualdad(k, x) /\ Fijado(u, u2, x, v)
                            /\ Contiene(u2, k) /\ ValorDe(u2, k) = v
                            /\ IF Contiene(u, k)
                               THEN /\ x \in Guardadas(u)
                                    /\ \A j \in 0 .. u.mascara :
                                         /\ u2.buckets[j].activo = u.buckets[j].activo
                                         /\ u2.buckets[j].llave = u.buckets[j].llave
                               ELSE x = k
      BY <2>1, <2>5, <2>7, <2>8, FijarConLugarBien
    <3> QED
      BY <3>1
  <2> HIDE DEF u2
  <2>10. /\ Bien(u2) /\ u2.mascara = cap - 1
         /\ u2.ocupados = IF x \in Guardadas(u) THEN u.ocupados ELSE u.ocupados + 1
         /\ \A y \in Llaves, w \in Valores :
              Guarda(u2, y, w) <=> IF y = x THEN w = v ELSE Guarda(u, y, w)
    BY <2>5, <2>9 DEF Fijado
  <2>11. \A y \in Llaves, w \in Valores :
           Guarda(u, y, w) => \E i \in A : i < n /\ t.buckets[i].llave = y
    BY DEF Copiada
  <2>12. \A y \in Guardadas(u) : \E i \in A : i < n /\ t.buckets[i].llave = y
    BY <2>5, <2>11, ParesDe
  <2>13. \A y \in Llaves, w \in Valores :
           Guarda(u2, y, w) => \E i \in A : i < n + 1 /\ t.buckets[i].llave = y
    <3>1. ASSUME NEW y \in Llaves, NEW w \in Valores, Guarda(u2, y, w), y # x
          PROVE  \E i \in A : i < n + 1 /\ t.buckets[i].llave = y
      BY <2>2, <2>10, <2>11, <3>1
    <3>2. \E i \in A : i < n + 1 /\ t.buckets[i].llave = x
      <4>1. CASE x \in Guardadas(u)
        BY <2>2, <2>12, <4>1
      <4>2. CASE x \notin Guardadas(u)
        BY <2>1, <2>2, <2>9, <4>2 DEF k
      <4> QED
        BY <4>1, <4>2
    <3> QED
      BY <3>1, <3>2
  <2>14. CASE x \in Guardadas(u)
    <3>1. u2.ocupados = u.ocupados /\ u2.ocupados < Cardinality(B2)
      BY <2>4, <2>5, <2>10, <2>14
    <3>2. ~Distintas(Guardadas(t))
      <4>1. PICK i \in A : i < n /\ t.buckets[i].llave = x
        BY <2>12, <2>14
      <4>2. x \in Guardadas(t) /\ k \in Guardadas(t)
        BY <2>1, <4>1 DEF Guardadas, k
      <4>3. k # x
        BY <1>1, <2>6, <4>1
      <4> QED
        BY <2>9, <4>2, <4>3 DEF Distintas
    <3>3. u2.ocupados <= Cardinality(B2) /\ u2.ocupados # Cardinality(B2)
      BY <2>4, <2>5, <3>1
    <3> QED
      BY <2>10, <2>13, <3>2, <3>3 DEF Copiada, u2
  <2>15. CASE x \notin Guardadas(u)
    <3>1. x = k /\ u2.ocupados = u.ocupados + 1
      BY <2>9, <2>10, <2>15
    <3>2. /\ u2.ocupados <= Cardinality(B2)
          /\ u2.ocupados = Cardinality(B2) <=> u.ocupados = Cardinality(B)
      BY <2>4, <2>5, <3>1
    <3>3. Distintas(Guardadas(t)) => u2.ocupados = Cardinality(B2)
      BY <3>2 DEF Copiada
    <3>4. ASSUME u2.ocupados = Cardinality(B2), NEW y \in Llaves, NEW w \in Valores
          PROVE  Guarda(u2, y, w) <=> \E i \in A : /\ i < n + 1 /\ t.buckets[i].llave = y
                                                   /\ t.buckets[i].valor = w
      <4>1. Guarda(u, y, w) <=> \E i \in A : /\ i < n /\ t.buckets[i].llave = y
                                             /\ t.buckets[i].valor = w
        BY <3>2, <3>4 DEF Copiada
      <4>2. Guarda(u2, y, w) <=> IF y = k THEN w = v ELSE Guarda(u, y, w)
        BY <2>10, <3>1
      <4>3. t.buckets[n].llave = k /\ t.buckets[n].valor = v
        BY DEF k, v
      <4> QED
        BY <2>1, <2>2, <2>6, <4>1, <4>2, <4>3
    <3> QED
      BY <2>10, <2>13, <3>2, <3>3, <3>4 DEF Copiada, u2
  <2> QED
    BY <2>14, <2>15
<1> QED
  BY <1>3, <1>4 DEF Bien, Tablas, Cubeta

\* The equation of the function in Rehashear.
EcuacionDeCopia(f, t, cap) ==
  f = [n \in 0 .. NumBuckets(t) |->
        IF n = 0 THEN Vacia(cap)
        ELSE LET b == t.buckets[n - 1]
                 previa == f[n - 1]
             IN IF b.activo THEN FijarConLugar(previa, b.llave, b.valor) ELSE previa]

\* What Rehashear reads of it.
LEMMA RehashearEs ==
  ASSUME NEW t, NEW nueva, ~(nueva <= t.ocupados), NEW cap,
         cap = RedondearAP2(IF nueva < TamMinimo THEN TamMinimo ELSE nueva)
  PROVE  Rehashear(t, nueva) = (CHOOSE f : EcuacionDeCopia(f, t, cap))[NumBuckets(t)]
BY DEF Rehashear, EcuacionDeCopia

\* The loop starts with an empty table.
LEMMA CopiaInicial ==
  ASSUME NEW t, t.mascara \in Nat, NEW cap \in Nat \ {0}
  PROVE  Copiada(Vacia(cap), t, cap, 0)
<1>1. {i \in Activos(t) : i < 0} = {}
  BY DEF Activos
<1>2. Vacia(cap).ocupados = Cardinality({i \in Activos(t) : i < 0})
  BY <1>1, VaciaBien, FS_EmptySet
<1>3. 0 <= 0
  OBVIOUS
<1> QED
  BY <1>1, <1>2, <1>3, VaciaBien DEF Copiada

\* A solution of the equation ends with all the pairs.
LEMMA CopiaBien ==
  ASSUME NEW t, Bien(t), NEW cap \in Nat, t.ocupados < cap, NEW f, EcuacionDeCopia(f, t, cap)
  PROVE  Copiada(f[NumBuckets(t)], t, cap, NumBuckets(t))
<1> DEFINE N == NumBuckets(t)
           S == {n \in Nat : n <= N => Copiada(f[n], t, cap, n)}
<1>1. t.mascara \in Nat /\ N = t.mascara + 1 /\ t.ocupados \in Nat /\ cap \in Nat \ {0}
  BY DEF Bien, NumBuckets, Tablas
<1>2. f = [n \in 0 .. N |-> IF n = 0 THEN Vacia(cap) ELSE CopiarBucket(t, n - 1, f[n - 1])]
  BY DEF EcuacionDeCopia, CopiarBucket
<1> HIDE DEF N
<1>3. 0 \in S
  <2>1. f[0] = Vacia(cap)
    BY <1>1, <1>2
  <2> QED
    BY <1>1, <2>1, CopiaInicial
<1>4. ASSUME NEW n \in Nat, n \in S PROVE n + 1 \in S
  <2>1. SUFFICES ASSUME n + 1 <= N PROVE Copiada(f[n + 1], t, cap, n + 1)
    OBVIOUS
  <2>2. n \in 0 .. t.mascara /\ n + 1 \in 0 .. N /\ n + 1 # 0 /\ (n + 1) - 1 = n
    BY <1>1, <2>1
  <2>3. Copiada(f[n], t, cap, n)
    BY <1>1, <1>4, <2>1
  <2>4. f[n + 1] = CopiarBucket(t, n, f[n])
    BY <1>2, <2>2
  <2> QED
    BY <2>2, <2>3, <2>4, CopiaPaso
<1>5. Nat \subseteq S
  <2> HIDE DEF S
  <2> QED
    BY <1>3, <1>4, Induccion
<1> QED
  BY <1>1, <1>5 DEF N

\* It has a solution.
LEMMA CopiaExiste ==
  ASSUME NEW t, Bien(t), NEW cap \in Nat, t.ocupados < cap
  PROVE  \E f : EcuacionDeCopia(f, t, cap)
<1> DEFINE N == NumBuckets(t)
           D == {u \in Tablas(cap - 1) : Bien(u)}
           e == Vacia(cap)
           G == [x \in Nat \X D |-> IF CopiarBucket(t, x[1], x[2]) \in D
                                    THEN CopiarBucket(t, x[1], x[2]) ELSE x[2]]
<1>1. t.mascara \in Nat /\ N = t.mascara + 1 /\ t.ocupados \in Nat /\ cap \in Nat \ {0}
  BY DEF Bien, NumBuckets, Tablas
<1> HIDE DEF N
<1>2. \A u : Bien(u) /\ u.mascara = cap - 1 => u \in D
  BY DEF Bien
<1>3. e \in D
  BY <1>1, <1>2, VaciaBien
<1>4. G \in [Nat \X D -> D]
  <2> HIDE DEF D
  <2> QED
    OBVIOUS
<1>5. \E g : Recurre(g, D, e, G)
  <2> HIDE DEF D, e, G
  <2> QED
    BY <1>3, <1>4, Recursion
<1>6. PICK g : Recurre(g, D, e, G)
  BY <1>5
<1>7. g[0] = e
  BY <1>6 DEF Recurre
<1>8. ASSUME NEW n \in Nat
      PROVE  g[n + 1] = IF CopiarBucket(t, n, g[n]) \in D THEN CopiarBucket(t, n, g[n]) ELSE g[n]
  <2> HIDE DEF D
  <2>1. g[n + 1] = G[<<n, g[n]>>] /\ g[n] \in D
    BY <1>6 DEF Recurre
  <2> QED
    BY <2>1
<1> DEFINE S == {n \in Nat : n <= N => Copiada(g[n], t, cap, n)}
<1> HIDE DEF D, G
<1>9. ASSUME NEW n \in Nat, n + 1 <= N, Copiada(g[n], t, cap, n)
      PROVE  g[n + 1] = CopiarBucket(t, n, g[n]) /\ Copiada(g[n + 1], t, cap, n + 1)
  <2>1. n \in 0 .. t.mascara
    BY <1>1, <1>9
  <2>2. Copiada(CopiarBucket(t, n, g[n]), t, cap, n + 1)
    BY <1>9, <2>1, CopiaPaso
  <2>3. CopiarBucket(t, n, g[n]) \in D
    BY <1>2, <2>2 DEF Copiada
  <2> QED
    BY <1>8, <2>2, <2>3
<1>10. 0 \in S
  BY <1>1, <1>7, CopiaInicial
<1>11. ASSUME NEW n \in Nat, n \in S PROVE n + 1 \in S
  <2>1. n + 1 <= N => n <= N
    BY <1>1
  <2> QED
    BY <1>9, <1>11, <2>1
<1>12. Nat \subseteq S
  <2> HIDE DEF S
  <2> QED
    BY <1>10, <1>11, Induccion
<1> DEFINE f == [n \in 0 .. N |-> g[n]]
<1>13. ASSUME NEW n \in 0 .. N
       PROVE  f[n] = IF n = 0 THEN Vacia(cap) ELSE CopiarBucket(t, n - 1, f[n - 1])
  <2>1. CASE n = 0
    BY <1>7, <2>1
  <2>2. CASE n # 0
    <3>1. n - 1 \in Nat /\ n - 1 \in 0 .. N /\ (n - 1) + 1 = n /\ n - 1 <= N
      BY <1>1, <2>2
    <3>2. Copiada(g[n - 1], t, cap, n - 1)
      BY <1>12, <3>1
    <3>3. g[(n - 1) + 1] = CopiarBucket(t, n - 1, g[n - 1])
      BY <1>1, <1>9, <3>1, <3>2
    <3> QED
      BY <2>2, <3>1, <3>3
  <2> QED
    BY <2>1, <2>2
<1>14. f = [n \in 0 .. N |-> IF n = 0 THEN Vacia(cap) ELSE CopiarBucket(t, n - 1, f[n - 1])]
  BY <1>13
<1>15. EcuacionDeCopia(f, t, cap)
  <2> HIDE DEF f
  <2> QED
    BY <1>14 DEF EcuacionDeCopia, CopiarBucket, N
<1> QED
  BY <1>15

\* pdcrt_tabla_rehashear makes the room it was asked for; if its last assertion
\* holds it keeps the pairs, and it does if no two stored keys are equal.
LEMMA RehashearBien ==
  ASSUME NEW t, Bien(t), NEW nueva \in Int, NEW u, u = Rehashear(t, nueva)
  PROVE  /\ Bien(u) /\ u.ocupados <= t.ocupados
         /\ Asercion(t, u) =>
              \A x \in Llaves, w \in Valores : Guarda(u, x, w) <=> Guarda(t, x, w)
         /\ Distintas(Guardadas(t)) => Asercion(t, u)
         /\ u = t \/ \E x \in 1 .. NumBuckets(u) : NumBuckets(u) = 2 ^ x
         /\ nueva > t.ocupados => NumBuckets(u) >= nueva
<1>1. t.mascara \in Nat /\ t.ocupados \in Nat /\ NumBuckets(t) = t.mascara + 1
  BY DEF Bien, Tablas, NumBuckets
<1>2. CASE nueva <= t.ocupados
  <2>1. u = t
    BY <1>2 DEF Rehashear
  <2> QED
    BY <1>1, <1>2, <2>1 DEF Asercion
<1>3. CASE ~(nueva <= t.ocupados)
  <2> DEFINE pedido == IF nueva < TamMinimo THEN TamMinimo ELSE nueva
             cap == RedondearAP2(pedido)
             N == NumBuckets(t)
  <2>1. pedido \in Nat /\ pedido > 1 /\ pedido >= nueva
    BY TamMinimoEsPotencia
  <2> HIDE DEF pedido
  <2>2. cap \in Nat /\ cap >= pedido /\ \E x \in 1 .. cap : cap = 2 ^ x
    BY <2>1, Redondeo
  <2>3. u = (CHOOSE f : EcuacionDeCopia(f, t, cap))[N]
    BY <1>3, RehashearEs DEF pedido
  <2> HIDE DEF cap
  <2>4. t.ocupados < cap /\ cap >= nueva
    BY <1>1, <1>3, <2>1, <2>2
  <2>5. EcuacionDeCopia(CHOOSE f : EcuacionDeCopia(f, t, cap), t, cap)
    BY <2>2, <2>4, CopiaExiste
  <2>6. Copiada(u, t, cap, N)
    BY <2>2, <2>3, <2>4, <2>5, CopiaBien
  <2>7. \A i \in Activos(t) : i < N
    BY <1>1 DEF Activos
  <2>8. {i \in Activos(t) : i < N} = Activos(t) /\ t.ocupados = Cardinality(Activos(t))
    BY <2>7 DEF Bien
  <2>9. /\ u.ocupados <= t.ocupados
        /\ Asercion(t, u) <=> u.ocupados = Cardinality({i \in Activos(t) : i < N})
    BY <2>6, <2>8 DEF Copiada, Asercion
  <2>10. NumBuckets(u) = cap
    BY <2>2, <2>6 DEF Copiada, NumBuckets
  <2>11. ASSUME Asercion(t, u)
         PROVE  \A x \in Llaves, w \in Valores : Guarda(u, x, w) <=> Guarda(t, x, w)
    BY <2>6, <2>7, <2>9, <2>11 DEF Copiada, Guarda
  <2>12. Bien(u) /\ (Distintas(Guardadas(t)) => Asercion(t, u))
    BY <2>6, <2>9 DEF Copiada
  <2> QED
    BY <2>2, <2>4, <2>9, <2>10, <2>11, <2>12
<1> QED
  BY <1>2, <1>3

\* And it fails if two equal keys come to have one main position.
LEMMA NoSeJuntan ==
  ASSUME NEW t, Bien(t), NEW nueva \in Int, NEW u, u = Rehashear(t, nueva), Asercion(t, u),
         NEW a \in Guardadas(t), NEW b \in Guardadas(t), Igualdad(a, b),
         Principal(u, a) = Principal(u, b)
  PROVE  a = b
<1>1. /\ Bien(u) /\ a \in Llaves /\ b \in Llaves
      /\ \A x \in Llaves, w \in Valores : Guarda(u, x, w) <=> Guarda(t, x, w)
  BY RehashearBien, ParesDe
<1>2. \A x \in Llaves : x \in Guardadas(t) => \E w \in Valores : Guarda(u, x, w)
  BY <1>1, ParesDe
<1>3. PICK i \in Activos(u), j \in Activos(u) : u.buckets[i].llave = a /\ u.buckets[j].llave = b
  BY <1>1, <1>2 DEF Guarda
<1> QED
  BY <1>1, <1>3 DEF Bien

\* If no two keys are equal the assertion of the resizing holds.
LEMMA FijarSigue ==
  ASSUME NEW t, Bien(t), NEW k \in Llaves, Distintas(Guardadas(t) \union {k})
  PROVE  Asercion(t, Doble(t))
<1> DEFINE m == 2 * NumBuckets(t)
<1>1. m \in Int /\ Distintas(Guardadas(t)) /\ Doble(t) = Rehashear(t, m)
  BY DEF Bien, NumBuckets, Distintas, Doble
<1> HIDE DEF m
<1> QED
  BY <1>1, RehashearBien

\* u holds the pairs of t with x, v, and no key moved.
ConPar(t, u, x, v) ==
  \A y \in Llaves, w \in Valores : Guarda(u, y, w) <=> IF y = x THEN w = v ELSE Guarda(t, y, w)

MismasLlaves(t, u) ==
  /\ u.mascara = t.mascara
  /\ \A j \in 0 .. t.mascara :
       u.buckets[j].activo = t.buckets[j].activo /\ u.buckets[j].llave = t.buckets[j].llave

\* pdcrt_tabla_fijar: it makes room if it needs it, and unless the assertion of
\* the resizing stops it, sets one key, equal to the one it is given.  A key that
\* is there changes no bucket but for the value.
LEMMA FijarBien ==
  ASSUME NEW t, Bien(t), NEW k \in Llaves, NEW v \in Valores, NEW u, u = Fijar(t, k, v),
         NoSeDetiene(t, k)
  PROVE  /\ Bien(u)
         /\ NumBuckets(u) = NumBuckets(t) \/ \E x \in 1 .. NumBuckets(u) : NumBuckets(u) = 2 ^ x
         /\ Contiene(u, k) /\ ValorDe(u, k) = v
         /\ Contiene(t, k) => MismasLlaves(t, u)
         /\ \E x \in Llaves : /\ Igualdad(k, x) /\ ConPar(t, u, x, v)
                              /\ Distintas(Guardadas(t) \union {k}) => x = k
<1> DEFINE N == NumBuckets(t)
           t2 == IF Duplica(t, k) THEN Doble(t) ELSE t
           m == 2 * N
<1>1. /\ t.mascara \in Nat /\ N = t.mascara + 1 /\ t.ocupados \in Nat
      /\ t.ocupados = Cardinality(Activos(t)) /\ t.ocupados <= N
      /\ m \in Int /\ m > N
  BY ActivosFinitos DEF Bien, NumBuckets, Tablas
<1>2. u = FijarConLugar(t2, k, v) /\ Doble(t) = Rehashear(t, m)
  BY DEF Fijar, Doble
<1> HIDE DEF N, m
<1>3. /\ Bien(t2) /\ \A x \in Llaves, w \in Valores : Guarda(t2, x, w) <=> Guarda(t, x, w)
      /\ t2 = t \/ \E x \in 1 .. NumBuckets(t2) : NumBuckets(t2) = 2 ^ x
      /\ Inactivos(t2) # {} \/ ~Colisiona(t2, k)
      /\ Contiene(t, k) => t2 = t
  <2>1. CASE Duplica(t, k)
    <3>1. t2 = Rehashear(t, m) /\ Asercion(t, t2) /\ m > t.ocupados
      BY <1>1, <1>2, <2>1 DEF NoSeDetiene
    <3> HIDE DEF t2
    <3>2. /\ Bien(t2) /\ t2.ocupados <= t.ocupados
          /\ \A x \in Llaves, w \in Valores : Guarda(t2, x, w) <=> Guarda(t, x, w)
          /\ t2 = t \/ \E x \in 1 .. NumBuckets(t2) : NumBuckets(t2) = 2 ^ x
          /\ m > t.ocupados => NumBuckets(t2) >= m
      BY <1>1, <3>1, RehashearBien
    <3>3. /\ t2.mascara \in Nat /\ t2.ocupados = Cardinality(Activos(t2)) /\ t2.ocupados \in Nat
          /\ NumBuckets(t2) = t2.mascara + 1
      BY <3>2 DEF Bien, NumBuckets, Tablas
    <3>4. Inactivos(t2) = {} <=> Cardinality(Activos(t2)) = NumBuckets(t2)
      BY <3>3, ActivosFinitos
    <3>5. Inactivos(t2) # {}
      BY <1>1, <3>1, <3>2, <3>3, <3>4
    <3> QED
      BY <2>1, <3>2, <3>5 DEF Duplica, Colisiona
  <2>2. CASE ~Duplica(t, k)
    <3>1. t2 = t
      BY <2>2
    <3> HIDE DEF t2
    <3> QED
      BY <2>2, <3>1 DEF Duplica
  <2> QED
    BY <2>1, <2>2
<1> HIDE DEF t2
<1>4. PICK x \in Llaves :
        /\ Igualdad(k, x) /\ Fijado(t2, u, x, v)
        /\ Contiene(u, k) /\ ValorDe(u, k) = v
        /\ IF Contiene(t2, k)
           THEN /\ x \in Guardadas(t2)
                /\ \A j \in 0 .. t2.mascara : /\ u.buckets[j].activo = t2.buckets[j].activo
                                              /\ u.buckets[j].llave = t2.buckets[j].llave
           ELSE x = k
  BY <1>2, <1>3, FijarConLugarBien
<1>5. Bien(u) /\ u.mascara = t2.mascara /\ NumBuckets(u) = NumBuckets(t2)
  BY <1>4 DEF Fijado, NumBuckets
<1>6. ASSUME Distintas(Guardadas(t) \union {k}) PROVE x = k
  <2>1. \A y \in Llaves : y \in Guardadas(t2) => y \in Guardadas(t)
    BY <1>3, ParesDe
  <2> QED
    BY <1>4, <1>6, <2>1 DEF Distintas
<1>7. ConPar(t, u, x, v)
  BY <1>3, <1>4 DEF Fijado, ConPar
<1>8. Contiene(t, k) => MismasLlaves(t, u)
  BY <1>3, <1>4, <1>5 DEF MismasLlaves
<1> QED
  BY <1>3, <1>4, <1>5, <1>6, <1>7, <1>8

-------------------------------------------------------------------------------
(* pdcrt_tabla_eliminar.                                                   *)

\* u is t without the key k.
Quitado(t, u, k) ==
  /\ Bien(u) /\ u.mascara = t.mascara
  /\ \A x \in Llaves, w \in Valores : Guarda(u, x, w) <=> x # k /\ Guarda(t, x, w)

\* The bucket c is freed; if the pair of k was in another, i, that of c is there.
LEMMA ConUnoMenos ==
  ASSUME NEW t, Bien(t), NEW u, NEW k \in Llaves,
         u.mascara = t.mascara, u \in Tablas(t.mascara), u.ocupados = t.ocupados - 1,
         NEW c \in Activos(t), NEW i \in Activos(t), t.buckets[i].llave = k,
         \A j \in 0 .. t.mascara : u.buckets[j].activo = (t.buckets[j].activo /\ j # c),
         \A j \in 0 .. t.mascara : ~u.buckets[j].activo => u.buckets[j].off = 0,
         \A j \in Activos(t) : j # i /\ j # c =>
           u.buckets[j].llave = t.buckets[j].llave /\ u.buckets[j].valor = t.buckets[j].valor,
         i # c =>
           u.buckets[i].llave = t.buckets[c].llave /\ u.buckets[i].valor = t.buckets[c].valor,
         Encadenada(Activos(t) \ {c}, Bases(u), Siguientes(u))
  PROVE  Quitado(t, u, k)
<1>1. t.mascara \in Nat /\ Activos(t) \subseteq 0 .. t.mascara
  BY DEF Activos, Bien
<1>2. Activos(u) = Activos(t) \ {c}
  <2>1. Activos(u) = {j \in 0 .. t.mascara : u.buckets[j].activo}
    BY DEF Activos
  <2>2. Activos(t) = {j \in 0 .. t.mascara : t.buckets[j].activo}
    BY DEF Activos
  <2> QED
    BY <2>1, <2>2
<1>3. /\ \A j \in Activos(t) : t.buckets[j].llave \in Llaves /\ t.buckets[j].valor \in Valores
      /\ \A j, l \in Activos(t) : t.buckets[j].llave = t.buckets[l].llave => j = l
  BY LlavesUnicas DEF Bien, Activos
<1>4. \A j \in Activos(u) : j \in Activos(t) /\ j # c
  BY <1>2
<1>5. \A j \in Activos(u) : u.buckets[j].llave \in Llaves /\ u.buckets[j].valor \in Valores
  BY <1>3, <1>4
<1>6. \A j, l \in Activos(u) :
        /\ Principal(u, u.buckets[j].llave) = Principal(u, u.buckets[l].llave)
        /\ Igualdad(u.buckets[j].llave, u.buckets[l].llave)
        => j = l
  <2>1. \A j, l \in Activos(t) :
          /\ Principal(t, t.buckets[j].llave) = Principal(t, t.buckets[l].llave)
          /\ Igualdad(t.buckets[j].llave, t.buckets[l].llave)
          => j = l
    BY DEF Bien
  <2>2. \A x : Principal(u, x) = Principal(t, x)
    BY DEF Principal, NumBuckets
  <2>3. \A j \in Activos(u) : \E l \in Activos(t) :
          u.buckets[j].llave = t.buckets[l].llave /\ l = IF j = i THEN c ELSE j
    BY <1>4
  <2> QED
    BY <1>4, <2>1, <2>2, <2>3
<1>7. u.ocupados = Cardinality(Activos(u))
  <2>1. IsFiniteSet(Activos(t)) /\ t.ocupados = Cardinality(Activos(t))
    BY <1>1, ActivosFinitos DEF Bien
  <2> QED
    BY <1>2, <2>1, FS_RemoveElement
<1>8. \A j \in 0 .. u.mascara :
       IF u.buckets[j].activo THEN u.buckets[j].llave \in Llaves /\ u.buckets[j].valor \in Valores
       ELSE u.buckets[j].off = 0
  BY <1>5 DEF Activos
<1>9. Bien(u)
  BY <1>1, <1>2, <1>6, <1>7, <1>8 DEF Bien
<1>10. ASSUME NEW x \in Llaves, NEW w \in Valores
       PROVE  Guarda(u, x, w) <=> x # k /\ Guarda(t, x, w)
  <2>1. ASSUME Guarda(u, x, w) PROVE x # k /\ Guarda(t, x, w)
    <3>1. PICK j \in Activos(u) : u.buckets[j].llave = x /\ u.buckets[j].valor = w
      BY <2>1 DEF Guarda
    <3>2. CASE j = i
      BY <1>3, <1>4, <3>1, <3>2 DEF Guarda
    <3>3. CASE j # i
      BY <1>3, <1>4, <3>1, <3>3 DEF Guarda
    <3> QED
      BY <3>2, <3>3
  <2>2. ASSUME x # k, Guarda(t, x, w) PROVE Guarda(u, x, w)
    <3>1. PICK j \in Activos(t) : t.buckets[j].llave = x /\ t.buckets[j].valor = w
      BY <2>2 DEF Guarda
    <3>2. j # i
      BY <2>2, <3>1
    <3>3. CASE j = c
      BY <1>2, <3>1, <3>2, <3>3 DEF Guarda
    <3>4. CASE j # c
      BY <1>2, <3>1, <3>2, <3>4 DEF Guarda
    <3> QED
      BY <3>3, <3>4
  <2> QED
    BY <2>1, <2>2
<1> QED
  BY <1>9, <1>10 DEF Quitado

\* The loop of pdcrt_tabla_eliminar ends at the last bucket of the chain.
LEMMA UltimoDe ==
  ASSUME NEW t, Bien(t), NEW i \in Activos(t),
         NEW z, z = CHOOSE j \in Cadena(t, i) : t.buckets[j].off = 0
  PROVE  z \in Cadena(t, i) /\ z \in Activos(t) /\ t.buckets[z].off = 0
<1> DEFINE A == Activos(t)
           b == Bases(t)
           s == Siguientes(t)
           C == Cadena(t, i)
<1>1. Encadenada(A, b, s)
  BY DEF Bien
<1>2. IsFiniteSet(A)
  BY ActivosFinitos DEF Bien
<1>3. C \subseteq A /\ i \in C /\ \A j \in C : j + t.buckets[j].off \in C
  BY CadenaActiva, CadenaDeMiembros
<1>4. \A j \in C : s[j] = j + t.buckets[j].off
  BY <1>3 DEF Siguientes
<1>5. PICK j \in C : s[j] = j
  <2> HIDE DEF A, b, s, C
  <2>1. C # {} /\ \A j \in C : s[j] \in C
    BY <1>3, <1>4
  <2> QED
    BY <1>1, <1>2, <1>3, <2>1, HayFinal
<1>6. t.buckets[j].off = 0
  <2>1. j \in Int /\ t.buckets[j].off \in Int /\ j + t.buckets[j].off = j
    BY <1>3, <1>4, <1>5 DEF Bien, Activos, Tablas, Cubeta
  <2> QED
    BY <2>1
<1>7. z \in C /\ t.buckets[z].off = 0
  <2> HIDE DEF C
  <2>1. z = CHOOSE x \in C : t.buckets[x].off = 0
    BY DEF C
  <2> QED
    BY <1>6, <2>1
<1> QED
  BY <1>3, <1>7

\* The removed pair is alone in its chain.
LEMMA QuitarSolo ==
  ASSUME NEW t, Bien(t), NEW k \in Llaves, NEW i \in Activos(t), t.buckets[i].llave = k,
         Principal(t, k) = i, t.buckets[i].off = 0
  PROVE  Quitado(t, [t EXCEPT !.ocupados = @ - 1, !.buckets[i] = Inactivo], k)
<1> DEFINE A == Activos(t)
           n == t.ocupados - 1
           u == [t EXCEPT !.ocupados = @ - 1, !.buckets[i] = Inactivo]
<1>1. /\ t.mascara \in Nat /\ i \in 0 .. t.mascara /\ t \in Tablas(t.mascara)
      /\ A \subseteq 0 .. t.mascara
  BY DEF Bien, Activos
<1>2. n \in Nat
  <2>1. t.ocupados = Cardinality(A) /\ IsFiniteSet(A) /\ Cardinality(A) \in Nat
    BY <1>1, ActivosFinitos DEF Bien
  <2>2. Cardinality(A) # 0
    <3> HIDE DEF A
    <3> QED
      BY <2>1, FS_EmptySet DEF A
  <2> QED
    BY <2>1, <2>2
<1>3. Inactivo \in Cubeta /\ Inactivo.activo = FALSE /\ Inactivo.off = 0
  BY DEF Inactivo, Cubeta
<1>4. u = [t EXCEPT !.ocupados = n, !.buckets[i] = Inactivo]
  OBVIOUS
<1> HIDE DEF n, u
<1>5. u \in Tablas(t.mascara)
  BY <1>1, <1>2, <1>3, <1>4 DEF Tablas
<1>6. /\ u.mascara = t.mascara /\ u.ocupados = n /\ u.buckets[i] = Inactivo
      /\ \A j \in 0 .. t.mascara : j # i => u.buckets[j] = t.buckets[j]
  BY <1>1, <1>4 DEF Tablas
<1>7. \A j \in 0 .. t.mascara : u.buckets[j].activo = (t.buckets[j].activo /\ j # i)
  <2>1. \A j \in 0 .. t.mascara : t.buckets[j].activo \in BOOLEAN
    BY <1>1 DEF Tablas, Cubeta
  <2> QED
    BY <1>3, <1>6, <2>1
<1>8. \A j \in 0 .. t.mascara : ~u.buckets[j].activo => u.buckets[j].off = 0
  BY <1>3, <1>6 DEF Bien
<1>9. Activos(u) = A \ {i}
  BY <1>1, <1>6, <1>7 DEF Activos
<1>10. \A x : Principal(u, x) = Principal(t, x)
  BY <1>6 DEF Principal, NumBuckets
<1>11. Encadenada(A \ {i}, Bases(u), Siguientes(u))
  <2> DEFINE b == Bases(t)
             s == Siguientes(t)
             b2 == Bases(u)
             s2 == Siguientes(u)
  <2>1. Encadenada(A, b, s)
    BY DEF Bien
  <2>2. b \in [A -> A] /\ s \in [A -> A]
    BY <2>1 DEF Encadenada, Eslabones
  <2>3. /\ b2 = [j \in A \ {i} |-> Principal(t, u.buckets[j].llave)]
        /\ s2 = [j \in A \ {i} |-> j + u.buckets[j].off]
    BY <1>9, <1>10 DEF Bases, Siguientes
  <2>4. \A j \in A \ {i} : u.buckets[j] = t.buckets[j]
    BY <1>1, <1>6
  <2>5. \A j \in A \ {i} : b2[j] = b[j] /\ s2[j] = s[j]
    BY <2>3, <2>4 DEF Bases, Siguientes
  <2>6. b2 \in [A \ {i} -> A] /\ s2 \in [A \ {i} -> A]
    <3>1. \A j \in A \ {i} : b2[j] \in A /\ s2[j] \in A
      BY <2>2, <2>5
    <3> QED
      BY <2>3, <3>1
  <2>7. i \in A /\ b[i] = i /\ s[i] = i
    BY <1>1 DEF Bases, Siguientes
  <2> HIDE DEF A, b, s, b2, s2
  <2>8. Encadenada(A \ {i}, b2, s2)
    BY ONLY <2>1, <2>5, <2>6, <2>7, DesenlazarSolo
  <2> QED
    BY <2>8 DEF b2, s2
<1>12. Quitado(t, u, k)
  <2>1. \A j \in A : j # i =>
          u.buckets[j].llave = t.buckets[j].llave /\ u.buckets[j].valor = t.buckets[j].valor
    BY <1>1, <1>6
  <2>2. u.ocupados = t.ocupados - 1
    BY <1>6 DEF n
  <2> QED
    BY <1>5, <1>6, <1>7, <1>8, <1>11, <2>1, <2>2, ConUnoMenos
<1> QED
  BY <1>12 DEF u

\* The last pair of the chain z takes the place of the one that is removed.
LEMMA QuitarUltimo ==
  ASSUME NEW t, Bien(t), NEW k \in Llaves, NEW i \in Activos(t), t.buckets[i].llave = k,
         NEW z \in Cadena(t, i), z # i, t.buckets[z].off = 0,
         NEW a, a = Anterior(t, i, z)
  PROVE  Quitado(t, [t EXCEPT !.ocupados = @ - 1,
                              !.buckets[a].off = 0,
                              !.buckets[z] = Inactivo,
                              !.buckets[i].llave = t.buckets[z].llave,
                              !.buckets[i].valor = t.buckets[z].valor], k)
<1> DEFINE A == Activos(t)
           n == t.ocupados - 1
           l == t.buckets[z].llave
           v == t.buckets[z].valor
           u == [t EXCEPT !.ocupados = @ - 1,
                          !.buckets[a].off = 0,
                          !.buckets[z] = Inactivo,
                          !.buckets[i].llave = l,
                          !.buckets[i].valor = v]
<1>1. /\ t.mascara \in Nat /\ t \in Tablas(t.mascara)
      /\ A \subseteq 0 .. t.mascara /\ i \in 0 .. t.mascara /\ z \in 0 .. t.mascara
      /\ z \in A /\ Principal(t, t.buckets[z].llave) = Principal(t, t.buckets[i].llave)
  BY CadenaActiva DEF Bien, Activos
<1>2. a \in A /\ a # z /\ a + t.buckets[a].off = z /\ a \in 0 .. t.mascara
  BY <1>1, AnteriorDe
<1>3. n \in Nat
  <2>1. t.ocupados = Cardinality(A) /\ IsFiniteSet(A) /\ Cardinality(A) \in Nat
    BY <1>1, ActivosFinitos DEF Bien
  <2>2. Cardinality(A) # 0
    <3> HIDE DEF A
    <3> QED
      BY <2>1, FS_EmptySet DEF A
  <2> QED
    BY <2>1, <2>2
<1>4. Inactivo \in Cubeta /\ Inactivo.activo = FALSE /\ Inactivo.off = 0
  BY DEF Inactivo, Cubeta
<1>5. l \in Llaves /\ v \in Valores
  BY <1>1 DEF Bien, Activos
<1> DEFINE t1 == [t EXCEPT !.ocupados = n, !.buckets[a].off = 0]
           t2 == [t1 EXCEPT !.buckets[z] = Inactivo]
           t3 == [t2 EXCEPT !.buckets[i].llave = l]
<1>6. u = [t3 EXCEPT !.buckets[i].valor = v]
  OBVIOUS
<1> HIDE DEF n, u, l, v
<1>7. /\ t1 \in Tablas(t.mascara) /\ t1.mascara = t.mascara /\ t1.ocupados = n
      /\ t1.buckets[a] = [t.buckets[a] EXCEPT !.off = 0]
      /\ \A j \in 0 .. t.mascara : j # a => t1.buckets[j] = t.buckets[j]
  <2> DEFINE t0 == [t EXCEPT !.ocupados = n]
  <2>1. t1 \in Tablas(t.mascara)
    <3>1. t0 \in Tablas(t.mascara)
      BY <1>1, <1>3 DEF Tablas
    <3> DEFINE o == 0
    <3>2. t1 = [t0 EXCEPT !.buckets[a].off = o] /\ o \in Int
      OBVIOUS
    <3> HIDE DEF t0, t1, o
    <3> QED
      BY ONLY <3>1, <3>2 DEF Tablas, Cubeta
  <2>2. t1.mascara = t.mascara /\ t1.ocupados = n
    BY <1>1 DEF Tablas
  <2>3. /\ t1.buckets[a] = [t.buckets[a] EXCEPT !.off = 0]
        /\ \A j \in 0 .. t.mascara : j # a => t1.buckets[j] = t.buckets[j]
    BY <1>1, <1>2 DEF Tablas
  <2> QED
    BY <2>1, <2>2, <2>3
<1>8. /\ t1.buckets[a].activo = t.buckets[a].activo /\ t1.buckets[a].off = 0
      /\ t1.buckets[a].llave = t.buckets[a].llave /\ t1.buckets[a].valor = t.buckets[a].valor
  BY <1>1, <1>2, <1>7 DEF Tablas, Cubeta
<1> HIDE DEF t1
<1>9. /\ t2 \in Tablas(t.mascara) /\ t2.mascara = t.mascara /\ t2.ocupados = n
      /\ t2.buckets[z] = Inactivo
      /\ \A j \in 0 .. t.mascara : j # z => t2.buckets[j] = t1.buckets[j]
  BY <1>1, <1>4, <1>7 DEF Tablas
<1> HIDE DEF t2
<1>10. /\ t3 \in Tablas(t.mascara) /\ t3.mascara = t.mascara /\ t3.ocupados = n
       /\ t3.buckets[i].activo = t2.buckets[i].activo /\ t3.buckets[i].off = t2.buckets[i].off
       /\ t3.buckets[i].llave = l
       /\ \A j \in 0 .. t.mascara : j # i => t3.buckets[j] = t2.buckets[j]
  <2>1. t3 \in Tablas(t.mascara)
    <3>1. l \in Llaves /\ t2 \in Tablas(t.mascara)
      BY <1>5, <1>9
    <3> QED
      BY ONLY <3>1 DEF Tablas, Cubeta, t3
  <2>2. t3.mascara = t.mascara /\ t3.ocupados = n
    BY <1>9 DEF Tablas
  <2>3. /\ t3.buckets[i] = [t2.buckets[i] EXCEPT !.llave = l]
        /\ \A j \in 0 .. t.mascara : j # i => t3.buckets[j] = t2.buckets[j]
    BY <1>1, <1>9 DEF Tablas
  <2>4. t2.buckets[i] \in Cubeta
    BY <1>1, <1>9 DEF Tablas
  <2>5. /\ t3.buckets[i].activo = t2.buckets[i].activo /\ t3.buckets[i].off = t2.buckets[i].off
        /\ t3.buckets[i].llave = l /\ t3.buckets[i].valor = t2.buckets[i].valor
    BY <2>3, <2>4 DEF Cubeta
  <2> QED
    BY <2>1, <2>2, <2>3, <2>5
<1> HIDE DEF t3
<1>11. /\ u \in Tablas(t.mascara) /\ u.mascara = t.mascara /\ u.ocupados = n
       /\ u.buckets[i].activo = t3.buckets[i].activo /\ u.buckets[i].off = t3.buckets[i].off
       /\ u.buckets[i].llave = l /\ u.buckets[i].valor = v
       /\ \A j \in 0 .. t.mascara : j # i => u.buckets[j] = t3.buckets[j]
  <2>1. u \in Tablas(t.mascara)
    <3>1. v \in Valores /\ t3 \in Tablas(t.mascara)
      BY <1>5, <1>10
    <3> QED
      BY ONLY <1>6, <3>1 DEF Tablas, Cubeta
  <2>2. u.mascara = t.mascara /\ u.ocupados = n
    BY <1>6, <1>10 DEF Tablas
  <2>3. /\ u.buckets[i] = [t3.buckets[i] EXCEPT !.valor = v]
        /\ \A j \in 0 .. t.mascara : j # i => u.buckets[j] = t3.buckets[j]
    BY <1>1, <1>6, <1>10 DEF Tablas
  <2>4. t3.buckets[i] \in Cubeta
    BY <1>1, <1>10 DEF Tablas
  <2>5. /\ u.buckets[i].activo = t3.buckets[i].activo /\ u.buckets[i].off = t3.buckets[i].off
        /\ u.buckets[i].llave = t3.buckets[i].llave /\ u.buckets[i].valor = v
    BY <2>3, <2>4 DEF Cubeta
  <2> QED
    BY <1>10, <2>1, <2>2, <2>3, <2>5
<1>12. /\ u.buckets[z] = Inactivo
       /\ \A j \in 0 .. t.mascara : j # z =>
            /\ u.buckets[j].activo = t.buckets[j].activo
            /\ u.buckets[j].off = IF j = a THEN 0 ELSE t.buckets[j].off
            /\ u.buckets[j].llave = IF j = i THEN l ELSE t.buckets[j].llave
            /\ u.buckets[j].valor = IF j = i THEN v ELSE t.buckets[j].valor
  <2>1. u.buckets[z] = Inactivo
    BY <1>1, <1>9, <1>10, <1>11
  <2>2. ASSUME NEW j \in 0 .. t.mascara, j # z
        PROVE  /\ u.buckets[j].activo = t.buckets[j].activo
               /\ u.buckets[j].off = IF j = a THEN 0 ELSE t.buckets[j].off
               /\ u.buckets[j].llave = IF j = i THEN l ELSE t.buckets[j].llave
               /\ u.buckets[j].valor = IF j = i THEN v ELSE t.buckets[j].valor
    <3>1. t2.buckets[j] = t1.buckets[j]
      BY <1>9, <2>2
    <3>2. /\ t1.buckets[j].activo = t.buckets[j].activo
          /\ t1.buckets[j].off = IF j = a THEN 0 ELSE t.buckets[j].off
          /\ t1.buckets[j].llave = t.buckets[j].llave
          /\ t1.buckets[j].valor = t.buckets[j].valor
      BY <1>7, <1>8
    <3>3. CASE j = i
      BY <1>10, <1>11, <3>1, <3>2, <3>3
    <3>4. CASE j # i
      BY <1>10, <1>11, <3>1, <3>2, <3>4
    <3> QED
      BY <3>3, <3>4
  <2> QED
    BY <2>1, <2>2
<1>13. \A j \in 0 .. t.mascara : u.buckets[j].activo = (t.buckets[j].activo /\ j # z)
  <2>1. \A j \in 0 .. t.mascara : t.buckets[j].activo \in BOOLEAN
    BY <1>1 DEF Tablas, Cubeta
  <2> QED
    BY <1>4, <1>12, <2>1
<1>14. \A j \in 0 .. t.mascara : ~u.buckets[j].activo => u.buckets[j].off = 0
  <2>1. ASSUME NEW j \in 0 .. t.mascara, ~u.buckets[j].activo PROVE u.buckets[j].off = 0
    <3>1. CASE j = z
      BY <1>4, <1>12, <3>1
    <3>2. CASE j # z
      <4>1. ~t.buckets[j].activo
        BY <1>12, <2>1, <3>2
      <4>2. t.buckets[j].off = 0
        BY <4>1 DEF Bien
      <4> QED
        BY <1>12, <3>2, <4>2
    <3> QED
      BY <3>1, <3>2
  <2> QED
    BY <2>1
<1>15. Activos(u) = A \ {z}
  BY <1>1, <1>11, <1>13 DEF Activos
<1>16. \A x : Principal(u, x) = Principal(t, x)
  BY <1>11 DEF Principal, NumBuckets
<1>17. Encadenada(A \ {z}, Bases(u), Siguientes(u))
  <2> DEFINE b == Bases(t)
             s == Siguientes(t)
             b2 == Bases(u)
             s2 == Siguientes(u)
  <2>1. Encadenada(A, b, s)
    BY DEF Bien
  <2>2. b \in [A -> A] /\ s \in [A -> A]
    BY <2>1 DEF Encadenada, Eslabones
  <2>3. /\ b2 = [j \in A \ {z} |-> Principal(t, u.buckets[j].llave)]
        /\ s2 = [j \in A \ {z} |-> j + u.buckets[j].off]
    BY <1>15, <1>16 DEF Bases, Siguientes
  <2>4. \A j \in A \ {z} : j \in 0 .. t.mascara /\ j # z
    BY <1>1
  <2>5. \A j \in A \ {z} : b2[j] = b[j]
    <3>1. \A j \in A \ {z} : u.buckets[j].llave = IF j = i THEN l ELSE t.buckets[j].llave
      BY <1>12, <2>4
    <3>2. Principal(t, l) = Principal(t, t.buckets[i].llave)
      BY <1>1 DEF l
    <3> QED
      BY <2>3, <3>1, <3>2 DEF Bases
  <2>6. s2[a] = a /\ \A j \in A \ {z} : j # a => s2[j] = s[j]
    <3>1. \A j \in A \ {z} : u.buckets[j].off = IF j = a THEN 0 ELSE t.buckets[j].off
      BY <1>12, <2>4
    <3> QED
      BY <1>2, <2>3, <3>1 DEF Siguientes
  <2>7. b2 \in [A \ {z} -> A] /\ s2 \in [A \ {z} -> A]
    <3>1. \A j \in A \ {z} : b2[j] \in A /\ s2[j] \in A
      BY <2>2, <2>5, <2>6
    <3> QED
      BY <2>3, <3>1
  <2>8. z \in A /\ s[z] = z
    BY <1>1 DEF Siguientes
  <2>9. a \in A /\ a # z /\ s[a] = z
    BY <1>2 DEF Siguientes
  <2>10. b[z] # z
    <3> HIDE DEF A, b, s
    <3> QED
      BY <2>1, <2>9 DEF Encadenada, Eslabones
  <2> HIDE DEF A, b, s, b2, s2
  <2>11. Encadenada(A \ {z}, b2, s2)
    BY ONLY <2>1, <2>5, <2>6, <2>7, <2>8, <2>9, <2>10, DesenlazarUltimo
  <2> QED
    BY <2>11 DEF b2, s2
<1>18. Quitado(t, u, k)
  <2>1. \A j \in A : j # i /\ j # z =>
          u.buckets[j].llave = t.buckets[j].llave /\ u.buckets[j].valor = t.buckets[j].valor
    BY <1>1, <1>12
  <2>2. u.ocupados = t.ocupados - 1
    BY <1>11 DEF n
  <2>3. u.buckets[i].llave = t.buckets[z].llave /\ u.buckets[i].valor = t.buckets[z].valor
    BY <1>11 DEF l, v
  <2> QED
    BY <1>1, <1>11, <1>13, <1>14, <1>17, <2>1, <2>2, <2>3, ConUnoMenos
<1> QED
  BY <1>18 DEF u, l, v

\* The chains of a table are whole.
LEMMA CadenasEnterasDe ==
  ASSUME NEW t, Bien(t)
  PROVE  CadenasEnteras(t)
<1> SUFFICES ASSUME NEW i \in Activos(t), NEW p, p = Principal(t, t.buckets[i].llave)
             PROVE  /\ i \in Cadena(t, p)
                    /\ Cadena(t, p) \subseteq Activos(t)
                    /\ \A j \in Cadena(t, p) : Principal(t, t.buckets[j].llave) = p
                    /\ \E j \in Cadena(t, p) : t.buckets[j].off = 0
  BY DEF CadenasEnteras
<1>1. p \in Activos(t) /\ Principal(t, t.buckets[p].llave) = p
  BY EnlacesDe
<1>2. Cadena(t, p) = Miembros(Activos(t), Bases(t), p)
  BY <1>1, CadenaDeMiembros
<1>3. PICK z : z = CHOOSE j \in Cadena(t, p) : t.buckets[j].off = 0
  OBVIOUS
<1>4. z \in Cadena(t, p) /\ t.buckets[z].off = 0
  BY <1>1, <1>3, UltimoDe
<1> QED
  BY <1>2, <1>4 DEF Miembros, Bases

\* A chain whose last bucket is freed on its own is not.
LEMMA CadenaRota ==
  ASSUME NEW t, Bien(t), NEW k \in Llaves, RompeCadena(t, k), NEW u, u = Eliminar(t, k)
  PROVE  ~CadenasEnteras(u)
<1> DEFINE i == Principal(t, k)
           z == CHOOSE j \in Cadena(t, i) : t.buckets[j].off = 0
           p == Principal(t, t.buckets[i].llave)
           A == Activos(t)
           S == Miembros(A, Bases(t), p)
<1>1. /\ t.buckets[i].activo /\ Igualdad(k, t.buckets[i].llave) /\ t.buckets[i].off = 0 /\ p # i
      /\ i \in 0 .. t.mascara /\ t.mascara \in Nat /\ t \in Tablas(t.mascara)
  BY PrincipalTipo DEF RompeCadena, Bien
<1>2. i \in A /\ A \subseteq 0 .. t.mascara
  BY <1>1 DEF Activos
<1>3. z = i
  <2>1. i + t.buckets[i].off = i
    BY <1>1
  <2> DEFINE Solo == {i}
  <2>2. Solo \in SUBSET (0 .. t.mascara) /\ i \in Solo /\ \A j \in Solo : j + t.buckets[j].off \in Solo
    BY <1>1, <2>1
  <2>3. i \in Cadena(t, i) /\ Cadena(t, i) \subseteq Solo
    <3> HIDE DEF i, Solo
    <3> QED
      BY <1>1, <2>2, CadenaCerrada
  <2>4. Cadena(t, i) = {i}
    BY <2>3
  <2> QED
    BY <1>1, <2>4
<1>4. u = [t EXCEPT !.ocupados = @ - 1, !.buckets[i] = Inactivo]
  BY <1>1, <1>3 DEF Eliminar, QuitarPrincipal
<1>5. /\ u.mascara = t.mascara /\ u.buckets[i] = Inactivo
      /\ \A j \in 0 .. t.mascara : j # i => u.buckets[j] = t.buckets[j]
  BY <1>1, <1>4 DEF Tablas
<1>6. Inactivo.activo = FALSE /\ Inactivo.off = 0
  BY DEF Inactivo
<1>7. i \notin Activos(u)
  BY <1>5, <1>6 DEF Activos
<1>8. p \in A /\ Principal(t, t.buckets[p].llave) = p
  BY <1>2, EnlacesDe
<1>9. p \in Activos(u) /\ Principal(u, u.buckets[p].llave) = p
  <2>1. p \in 0 .. t.mascara /\ t.buckets[p].activo
    BY <1>8 DEF Activos
  <2>2. u.buckets[p] = t.buckets[p]
    BY <1>1, <1>5, <2>1
  <2>3. Principal(u, t.buckets[p].llave) = Principal(t, t.buckets[p].llave)
    BY <1>5 DEF Principal, NumBuckets
  <2> QED
    BY <1>5, <1>8, <2>1, <2>2, <2>3 DEF Activos
<1>10. /\ S \in SUBSET (0 .. t.mascara) /\ p \in S /\ i \in S
       /\ \A j \in S : j + t.buckets[j].off \in S
  BY <1>2, <1>8, EnlacesDe DEF Miembros, Bases
<1> HIDE DEF S, p
<1>11. \A j \in 0 .. t.mascara : u.buckets[j].off = t.buckets[j].off
  BY <1>1, <1>5, <1>6
<1>12. \A j \in S : j + u.buckets[j].off \in S
  BY <1>10, <1>11
<1>13. p \in Cadena(u, p) /\ \A j \in Cadena(u, p) : j + u.buckets[j].off \in Cadena(u, p)
  BY <1>1, <1>5, <1>10, <1>12, CadenaCerrada
<1>14. S \subseteq Cadena(u, p)
  <2> DEFINE C == Cadena(u, p)
  <2>1. \A j \in C \cap A : Siguientes(t)[j] \in C
    BY <1>2, <1>11, <1>13 DEF Siguientes
  <2>2. Encadenada(A, Bases(t), Siguientes(t)) /\ Bases(t)[p] = p
    BY <1>8 DEF Bien, Bases
  <2> HIDE DEF C
  <2>3. p \in C
    BY <1>13 DEF C
  <2>4. Miembros(A, Bases(t), p) \subseteq C
    BY <1>8, <2>1, <2>2, <2>3, CadenaEntera
  <2> QED
    BY <2>4 DEF S, C
<1> QED
  BY <1>7, <1>9, <1>10, <1>14 DEF CadenasEnteras

\* pdcrt_tabla_eliminar removes one pair, of an equal key, or does nothing, unless
\* it breaks a chain.
LEMMA EliminarBien ==
  ASSUME NEW t, Bien(t), NEW k \in Llaves, NEW u, u = Eliminar(t, k), ~RompeCadena(t, k)
  PROVE  u = t \/ \E x \in Llaves : Igualdad(k, x) /\ Quitado(t, u, x)
<1> DEFINE i == Principal(t, k)
           x == t.buckets[i].llave
<1>1. SUFFICES ASSUME t.buckets[i].activo, Igualdad(k, x) PROVE x \in Llaves /\ Quitado(t, u, x)
  BY DEF Eliminar
<1>2. i \in Activos(t) /\ x \in Llaves
  BY <1>1, PrincipalTipo DEF Bien, Activos
<1> DEFINE z == CHOOSE j \in Cadena(t, i) : t.buckets[j].off = 0
           a == Anterior(t, i, z)
<1>3. z \in Cadena(t, i) /\ z \in Activos(t) /\ t.buckets[z].off = 0
  BY <1>2, UltimoDe
<1>4. u = QuitarPrincipal(t, i)
  BY <1>1 DEF Eliminar
<1>5. CASE z = i
  <2>1. u = [t EXCEPT !.ocupados = @ - 1, !.buckets[i] = Inactivo]
    BY <1>4, <1>5 DEF QuitarPrincipal
  <2>2. t.buckets[i].off = 0
    BY <1>3, <1>5
  <2>3. Principal(t, x) = i
    BY <1>1, <2>2 DEF RompeCadena
  <2>4. Quitado(t, [t EXCEPT !.ocupados = @ - 1, !.buckets[i] = Inactivo], x)
    <3> HIDE DEF z, i
    <3> QED
      BY <1>2, <2>2, <2>3, QuitarSolo
  <2> QED
    BY <1>2, <2>1, <2>4
<1>6. CASE z # i
  <2>1. u = [t EXCEPT !.ocupados = @ - 1,
                      !.buckets[a].off = 0,
                      !.buckets[z] = Inactivo,
                      !.buckets[i].llave = t.buckets[z].llave,
                      !.buckets[i].valor = t.buckets[z].valor]
    BY <1>4, <1>6 DEF QuitarPrincipal
  <2>2. Quitado(t, [t EXCEPT !.ocupados = @ - 1,
                             !.buckets[a].off = 0,
                             !.buckets[z] = Inactivo,
                             !.buckets[i].llave = t.buckets[z].llave,
                             !.buckets[i].valor = t.buckets[z].valor], x)
    <3> HIDE DEF z, i
    <3> QED
      BY <1>2, <1>3, <1>6, QuitarUltimo
  <2> QED
    BY <1>2, <2>1, <2>2
<1> QED
  BY <1>5, <1>6

\* It breaks none if no two keys are equal.
LEMMA NoRompe ==
  ASSUME NEW t, Bien(t), NEW k \in Llaves, Distintas(Guardadas(t) \union {k})
  PROVE  ~RompeCadena(t, k)
<1> DEFINE i == Principal(t, k)
<1>1. SUFFICES ASSUME t.buckets[i].activo, Igualdad(k, t.buckets[i].llave),
                      Principal(t, t.buckets[i].llave) # i
               PROVE  FALSE
  BY DEF RompeCadena
<1>2. i \in Activos(t)
  BY <1>1, PrincipalTipo DEF Bien, Activos
<1>3. t.buckets[i].llave \in Guardadas(t)
  BY <1>2 DEF Guardadas
<1>4. t.buckets[i].llave = k
  BY <1>1, <1>3 DEF Distintas
<1> QED
  BY <1>1, <1>4

-------------------------------------------------------------------------------
(* The invariant of the specification.                                     *)

\* The parts of the inductive invariant.  The number of buckets is a power of 2.
TablaBien ==
  /\ Bien(tbl)
  /\ NumBuckets(tbl) <= TamMaximo
  /\ \E x \in 1 .. NumBuckets(tbl) : NumBuckets(tbl) = 2 ^ x

\* The key of each bucket before the index was visited once, and no other.
Visitadas ==
  \A k \in Llaves :
    visitas[k] = IF \E j \in Activos(tbl) : j < iterador /\ tbl.buckets[j].llave = k THEN 1 ELSE 0

\* An iteration in progress that nothing has spoilt.
IteracionBien ==
  /\ iterador \in -1 .. TamMaximo
  /\ modificada \in BOOLEAN
  /\ visitas \in [Llaves -> {0, 1}]
  /\ Iterando /\ ~modificada => Visitadas

\* The inductive invariant.
Inv == TablaBien /\ IteracionBien

\* Init and each action.
LEMMA InitInv == Init => Inv
<1> SUFFICES ASSUME Init PROVE Inv
  OBVIOUS
<1>1. TamMinimo \in Nat \ {0} /\ TamMinimo > 1 /\ TamMinimo <= TamMaximo /\ TamMaximo \in Nat
  BY TamMinimoEsPotencia, TamMaximoAlcanza
<1>2. tbl = Vacia(TamMinimo) /\ Bien(tbl) /\ NumBuckets(tbl) = TamMinimo
  BY <1>1, VaciaBien DEF Init
<1>3. \E x \in 1 .. TamMinimo : TamMinimo = 2 ^ x
  <2>1. PICK x \in 0 .. TamMinimo : TamMinimo = 2 ^ x
    BY TamMinimoEsPotencia
  <2>2. x # 0
    <3>1. ASSUME x = 0 PROVE TamMinimo = 1
      BY <2>1, <3>1, PotenciaCero
    <3> QED
      BY <1>1, <3>1
  <2>3. x \in 1 .. TamMinimo
    BY <2>2
  <2> QED
    BY <2>1, <2>3
<1>4. IteracionBien
  <2>1. iterador = -1 /\ modificada = FALSE /\ visitas = [k \in Llaves |-> 0]
    BY DEF Init
  <2>2. visitas \in [Llaves -> {0, 1}] /\ -1 \in -1 .. TamMaximo
    BY <1>1, <2>1
  <2> QED
    BY <2>1, <2>2 DEF IteracionBien, Iterando
<1> QED
  BY <1>1, <1>2, <1>3, <1>4 DEF Inv, TablaBien

\* What the operations leave of an iteration in progress.
LEMMA RegistrarBien ==
  ASSUME Inv, NEW modifica \in BOOLEAN, Registrar(modifica),
         ~modifica => /\ tbl'.mascara = tbl.mascara
                      /\ \A j \in 0 .. tbl.mascara :
                           /\ tbl'.buckets[j].activo = tbl.buckets[j].activo
                           /\ tbl'.buckets[j].llave = tbl.buckets[j].llave
  PROVE  IteracionBien'
<1>1. iterador' = iterador /\ Iterando' = Iterando
  BY DEF Registrar, Iterando
<1>2. modificada \in BOOLEAN /\ modificada' = (modificada \/ (Iterando /\ modifica))
  BY DEF Registrar, Inv, IteracionBien
<1>3. modificada' \in BOOLEAN
  BY <1>2 DEF Iterando
<1>4. visitas' = IF modificada' THEN [k \in Llaves |-> 0] ELSE visitas
  BY DEF Registrar
<1>5. visitas' \in [Llaves -> {0, 1}]
  BY <1>4 DEF Inv, IteracionBien
<1>6. ASSUME Iterando', ~modificada' PROVE Visitadas'
  <2>1. ~modificada /\ Iterando /\ ~modifica
    BY <1>1, <1>2, <1>6
  <2>2. Activos(tbl') = Activos(tbl)
    BY <2>1 DEF Activos
  <2>3. \A j \in Activos(tbl) : tbl'.buckets[j].llave = tbl.buckets[j].llave
    BY <2>1 DEF Activos
  <2>4. Visitadas /\ visitas' = visitas
    BY <1>4, <1>6, <2>1 DEF Inv, IteracionBien
  <2> QED
    BY <1>1, <2>2, <2>3, <2>4 DEF Visitadas
<1> QED
  BY <1>1, <1>3, <1>5, <1>6 DEF IteracionBien, Inv

\* A key that is there keeps its bucket, a new one spoils the iteration.
LEMMA FijarEnInv ==
  ASSUME Inv, NEW k \in Llaves, NEW v \in Valores, FijarEn(k, v)
  PROVE  Inv'
<1> PICK u : u = Fijar(tbl, k, v)
  OBVIOUS
<1>1. tbl' = u /\ NumBuckets(tbl') <= TamMaximo /\ Registrar(~Contiene(tbl, k))
  BY DEF FijarEn, Cabe
<1>2. Bien(tbl)
  BY DEF Inv, TablaBien
<1>3. /\ Bien(u)
      /\ NumBuckets(u) = NumBuckets(tbl) \/ \E x \in 1 .. NumBuckets(u) : NumBuckets(u) = 2 ^ x
      /\ Contiene(tbl, k) => MismasLlaves(tbl, u)
  BY <1>2, FijarBien DEF FijarEn
<1>4. TablaBien'
  <2>1. \E x \in 1 .. NumBuckets(u) : NumBuckets(u) = 2 ^ x
    BY <1>3 DEF Inv, TablaBien
  <2> QED
    BY <1>1, <1>3, <2>1 DEF TablaBien
<1>5. IteracionBien'
  <2> DEFINE m == ~Contiene(tbl, k)
  <2>1. m \in BOOLEAN /\ Registrar(m) /\ (~m => Contiene(tbl, k))
    BY <1>1
  <2> HIDE DEF m
  <2> QED
    BY <1>1, <1>3, <2>1, RegistrarBien DEF MismasLlaves
<1> QED
  BY <1>4, <1>5 DEF Inv

\* Removing a key, or none.
LEMMA EliminarInv ==
  ASSUME Inv, NEW k \in Llaves, EliminarLlave(k)
  PROVE  Inv'
<1> DEFINE u == Eliminar(tbl, k)
<1>1. tbl' = u /\ Registrar(TRUE)
  BY DEF EliminarLlave
<1>2. Bien(tbl)
  BY DEF Inv, TablaBien
<1> HIDE DEF u
<1>3. u = tbl \/ \E x \in Llaves : Quitado(tbl, u, x)
  BY <1>2, EliminarBien DEF u, EliminarLlave
<1>4. Bien(u) /\ NumBuckets(u) = NumBuckets(tbl)
  BY <1>2, <1>3 DEF Quitado, NumBuckets
<1>5. TablaBien'
  BY <1>1, <1>4 DEF Inv, TablaBien
<1>6. IteracionBien'
  BY <1>1, RegistrarBien
<1> QED
  BY <1>5, <1>6 DEF Inv

\* Emptying the table.
LEMMA VaciarInv ==
  ASSUME Inv, Vaciar
  PROVE  Inv'
<1> DEFINE N == NumBuckets(tbl)
<1>1. tbl' = Vacia(N) /\ Registrar(TRUE)
  BY DEF Vaciar
<1>2. N \in Nat \ {0}
  BY DEF Inv, TablaBien, Bien, NumBuckets
<1> HIDE DEF N
<1>3. Bien(tbl') /\ NumBuckets(tbl') = N
  BY <1>1, <1>2, VaciaBien
<1>4. TablaBien'
  BY <1>3 DEF Inv, TablaBien, N
<1>5. IteracionBien'
  BY <1>1, RegistrarBien
<1> QED
  BY <1>4, <1>5 DEF Inv

\* Resizing, when the result fits.
LEMMA RehashearInv ==
  ASSUME Inv, NEW adicional \in Adicionales, RehashearCon(adicional)
  PROVE  Inv'
<1> DEFINE n == tbl.ocupados + adicional
           u == Rehashear(tbl, n)
<1>1. tbl' = u /\ NumBuckets(tbl') <= TamMaximo /\ Registrar(TRUE)
  BY DEF RehashearCon, Cabe
<1>2. Bien(tbl)
  BY DEF Inv, TablaBien
<1>3. n \in Int
  BY <1>2, AdicionalesSonNaturales DEF Bien, Tablas
<1> HIDE DEF n
<1>4. Bien(u) /\ (u = tbl \/ \E x \in 1 .. NumBuckets(u) : NumBuckets(u) = 2 ^ x)
  BY <1>2, <1>3, RehashearBien
<1> HIDE DEF u
<1>5. TablaBien'
  <2>1. \E x \in 1 .. NumBuckets(u) : NumBuckets(u) = 2 ^ x
    BY <1>4 DEF Inv, TablaBien
  <2> QED
    BY <1>1, <1>4, <2>1 DEF TablaBien
<1>6. IteracionBien'
  BY <1>1, RegistrarBien
<1> QED
  BY <1>5, <1>6 DEF Inv

\* No bucket is before the first one.
LEMMA ParaCadaParInv ==
  ASSUME Inv, ParaCadaPar
  PROVE  Inv'
<1>1. TablaBien'
  BY DEF Inv, TablaBien, ParaCadaPar
<1>2. /\ iterador' = 0 /\ modificada' = FALSE /\ visitas' = [k \in Llaves |-> 0]
      /\ tbl' = tbl
  BY DEF ParaCadaPar
<1>3. \A j \in Activos(tbl) : ~(j < 0)
  BY DEF Activos
<1>4. Visitadas'
  BY <1>2, <1>3 DEF Visitadas
<1>5. 0 \in -1 .. TamMaximo
  BY TamMaximoAlcanza
<1> QED
  BY <1>1, <1>2, <1>4, <1>5 DEF Inv, IteracionBien

\* The bucket that is visited has a key no other has.
LEMMA VisitarBucketInv ==
  ASSUME Inv, VisitarBucket
  PROVE  Inv'
<1> DEFINE b == tbl.buckets[iterador]
           A == Activos(tbl)
<1>1. TablaBien'
  BY DEF Inv, TablaBien, VisitarBucket
<1>2. /\ iterador # -1 /\ iterador < NumBuckets(tbl) /\ iterador' = iterador + 1
      /\ visitas' = IF b.activo /\ ~modificada THEN [visitas EXCEPT ![b.llave] = @ + 1]
                    ELSE visitas
      /\ tbl' = tbl /\ modificada' = modificada
  BY DEF VisitarBucket, Iterando
<1>3. /\ tbl.mascara \in Nat /\ NumBuckets(tbl) = tbl.mascara + 1 /\ NumBuckets(tbl) <= TamMaximo
      /\ TamMaximo \in Nat /\ iterador \in -1 .. TamMaximo
  BY TamMaximoAlcanza DEF Inv, TablaBien, IteracionBien, Bien, NumBuckets
<1>4. iterador \in 0 .. tbl.mascara /\ iterador' \in -1 .. TamMaximo
  BY <1>2, <1>3
<1>5. visitas \in [Llaves -> {0, 1}] /\ modificada \in BOOLEAN
  BY DEF Inv, IteracionBien
<1>6. A \subseteq Int
  BY <1>3 DEF Activos
<1>7. CASE modificada
  BY <1>1, <1>2, <1>4, <1>5, <1>7 DEF Inv, IteracionBien
<1>8. CASE ~modificada
  <2>1. \A k \in Llaves : visitas[k] = IF \E j \in A : j < iterador /\ tbl.buckets[j].llave = k
                                       THEN 1 ELSE 0
    BY <1>2, <1>8 DEF Inv, IteracionBien, Visitadas, Iterando
  <2>2. \A j \in A : j < iterador + 1 <=> j < iterador \/ j = iterador
    BY <1>4, <1>6
  <2>3. ASSUME NEW k \in Llaves
        PROVE  visitas'[k] = IF \E j \in A : j < iterador + 1 /\ tbl.buckets[j].llave = k
                             THEN 1 ELSE 0
    <3>1. CASE ~b.activo
      <4>1. iterador \notin A
        BY <3>1 DEF Activos
      <4> QED
        BY <1>2, <2>1, <2>2, <3>1, <4>1
    <3>2. CASE b.activo /\ b.llave # k
      <4>1. visitas'[k] = visitas[k]
        BY <1>2, <1>5, <1>8, <3>2
      <4> QED
        BY <2>1, <2>2, <3>2, <4>1
    <3>3. CASE b.activo /\ b.llave = k
      <4>1. iterador \in A
        BY <1>4, <3>3 DEF Activos
      <4>2. \A j \in A : tbl.buckets[j].llave = k => j = iterador
        BY <3>3, <4>1, LlavesUnicas DEF Inv, TablaBien
      <4>3. visitas[k] = 0
        BY <1>4, <2>1, <4>2
      <4>4. visitas'[k] = 1
        BY <1>2, <1>5, <1>8, <3>3, <4>3
      <4>5. iterador < iterador + 1
        BY <1>4
      <4> QED
        BY <3>3, <4>1, <4>4, <4>5
    <3> QED
      BY <3>1, <3>2, <3>3 DEF Inv, TablaBien, Bien, Tablas, Cubeta
  <2>4. visitas' \in [Llaves -> {0, 1}]
    <3>1. visitas' \in [Llaves -> {0, 1}] \/ DOMAIN visitas' = Llaves
      BY <1>2, <1>5
    <3>2. visitas' = [k \in Llaves |-> visitas'[k]]
      BY <1>2, <1>5
    <3>3. \A k \in Llaves : visitas'[k] \in {0, 1}
      BY <2>3
    <3> QED
      BY <3>2, <3>3
  <2>5. Visitadas'
    BY <1>2, <2>3 DEF Visitadas
  <2> QED
    BY <1>1, <1>2, <1>4, <1>5, <2>4, <2>5 DEF Inv, IteracionBien
<1> QED
  BY <1>5, <1>7, <1>8

\* The counts are reset.
LEMMA TerminarIteracionInv ==
  ASSUME Inv, TerminarIteracion
  PROVE  Inv'
<1>1. TablaBien'
  BY DEF Inv, TablaBien, TerminarIteracion
<1>2. -1 \in -1 .. TamMaximo
  BY TamMaximoAlcanza
<1> QED
  BY <1>1, <1>2 DEF Inv, IteracionBien, TerminarIteracion, Iterando

LEMMA NextInv == Inv /\ [Next]_vars => Inv'
<1> SUFFICES ASSUME Inv, [Next]_vars PROVE Inv'
  OBVIOUS
<1>1. ASSUME NEW k \in Llaves, NEW v \in Valores, FijarEn(k, v) PROVE Inv'
  BY <1>1, FijarEnInv
<1>2. ASSUME NEW k \in Llaves, EliminarLlave(k) PROVE Inv'
  BY <1>2, EliminarInv
<1>3. ASSUME NEW adicional \in Adicionales, RehashearCon(adicional) PROVE Inv'
  BY <1>3, RehashearInv
<1>4. CASE UNCHANGED vars
  BY <1>4 DEF vars, Inv, TablaBien, IteracionBien, Visitadas, Iterando
<1> QED
  BY <1>1, <1>2, <1>3, <1>4, VaciarInv, ParaCadaParInv, VisitarBucketInv, TerminarIteracionInv
     DEF Next

\* It holds of every state: chains are whole, and iterations are counted right.
THEOREM InvSiempre == Spec => []Inv
BY InitInv, NextInv, PTL DEF Spec

-------------------------------------------------------------------------------
(* A table as a map.                                                       *)

\* What is found is decided by what the buckets hold.
LEMMA ParesSegunGuarda ==
  ASSUME NEW t, Bien(t), NEW f, NEW D \in SUBSET Llaves, f = [x \in D |-> f[x]],
         \A x \in D : f[x] \in Valores,
         \A x \in Llaves, w \in Valores : Guarda(t, x, w) <=> x \in D /\ f[x] = w
  PROVE  Pares(t) = f
<1>1. /\ Guardadas(t) \in SUBSET Llaves
      /\ \A x \in Llaves : x \in Guardadas(t) <=> \E w \in Valores : Guarda(t, x, w)
      /\ \A x \in Llaves, w \in Valores : Guarda(t, x, w) => ValorDe(t, x) = w
      /\ Pares(t) = [x \in Guardadas(t) |-> ValorDe(t, x)]
  BY ParesDe
<1>2. Guardadas(t) = D
  BY <1>1
<1>3. ASSUME NEW x \in D PROVE ValorDe(t, x) = f[x]
  BY <1>1
<1> QED
  BY <1>1, <1>2, <1>3

\* The other way around.
LEMMA GuardaSegunPares ==
  ASSUME NEW t, Bien(t)
  PROVE  /\ Pares(t) = [x \in DOMAIN Pares(t) |-> Pares(t)[x]]
         /\ DOMAIN Pares(t) \in SUBSET Llaves
         /\ \A x \in DOMAIN Pares(t) : Pares(t)[x] \in Valores
         /\ \A x \in Llaves, w \in Valores :
              Guarda(t, x, w) <=> x \in DOMAIN Pares(t) /\ Pares(t)[x] = w
<1>1. /\ Guardadas(t) \in SUBSET Llaves
      /\ \A k \in Llaves : k \in Guardadas(t) <=> \E v \in Valores : Guarda(t, k, v)
      /\ \A k \in Llaves, v \in Valores : Guarda(t, k, v) => ValorDe(t, k) = v
      /\ \A k \in Guardadas(t) : ValorDe(t, k) \in Valores /\ Guarda(t, k, ValorDe(t, k))
      /\ Pares(t) = [k \in Guardadas(t) |-> ValorDe(t, k)]
  BY ParesDe
<1> DEFINE m == Pares(t)
<1> HIDE DEF m
<1>2. /\ m = [x \in DOMAIN m |-> m[x]] /\ DOMAIN m = Guardadas(t)
      /\ \A x \in Guardadas(t) : m[x] = ValorDe(t, x)
  BY <1>1 DEF m
<1>3. /\ m = [x \in DOMAIN m |-> m[x]] /\ DOMAIN m \in SUBSET Llaves
      /\ \A x \in DOMAIN m : m[x] \in Valores
      /\ \A x \in Llaves, w \in Valores : Guarda(t, x, w) <=> x \in DOMAIN m /\ m[x] = w
  BY <1>1, <1>2
<1> QED
  BY <1>3 DEF m

\* The operations as Mapa sees them.
LEMMA ParesFijar ==
  ASSUME NEW t, Bien(t), NEW k \in Llaves, NEW v \in Valores, NEW u, Bien(u),
         \A x \in Llaves, w \in Valores : Guarda(u, x, w) <=> IF x = k THEN w = v ELSE Guarda(t, x, w)
  PROVE  Pares(u) = M!Con(Pares(t), k, v)
<1> DEFINE m == Pares(t)
           D == DOMAIN m \union {k}
           f == [x \in D |-> IF x = k THEN v ELSE m[x]]
<1>1. /\ DOMAIN m \in SUBSET Llaves /\ \A x \in DOMAIN m : m[x] \in Valores
      /\ \A x \in Llaves, w \in Valores : Guarda(t, x, w) <=> x \in DOMAIN m /\ m[x] = w
  BY GuardaSegunPares
<1> HIDE DEF m
<1>2. /\ D \in SUBSET Llaves /\ f = [x \in D |-> f[x]]
      /\ \A x \in D : f[x] = IF x = k THEN v ELSE m[x]
      /\ \A x \in D : f[x] \in Valores
  BY <1>1
<1>3. \A x \in Llaves, w \in Valores : Guarda(u, x, w) <=> x \in D /\ f[x] = w
  <2>1. ASSUME NEW x \in Llaves, NEW w \in Valores
        PROVE  Guarda(u, x, w) <=> x \in D /\ f[x] = w
    <3>1. CASE x = k
      BY <1>2, <3>1
    <3>2. CASE x # k
      BY <1>1, <1>2, <3>2
    <3> QED
      BY <3>1, <3>2
  <2> QED
    BY <2>1
<1>4. M!Con(m, k, v) = f
  BY DEF M!Con
<1> HIDE DEF D, f
<1>5. Pares(u) = f
  BY <1>2, <1>3, ParesSegunGuarda
<1> QED
  BY <1>4, <1>5 DEF m

\* Removing a key.
LEMMA ParesQuitar ==
  ASSUME NEW t, Bien(t), NEW k \in Llaves, NEW u, Quitado(t, u, k)
  PROVE  Pares(u) = M!Sin(Pares(t), k)
<1> DEFINE m == Pares(t)
           D == DOMAIN m \ {k}
           f == [x \in D |-> m[x]]
<1>1. /\ Bien(u)
      /\ \A x \in Llaves, w \in Valores : Guarda(u, x, w) <=> x # k /\ Guarda(t, x, w)
  BY DEF Quitado
<1>2. /\ DOMAIN m \in SUBSET Llaves /\ \A x \in DOMAIN m : m[x] \in Valores
      /\ \A x \in Llaves, w \in Valores : Guarda(t, x, w) <=> x \in DOMAIN m /\ m[x] = w
  BY GuardaSegunPares
<1> HIDE DEF m
<1>3. /\ D \in SUBSET Llaves /\ f = [x \in D |-> f[x]]
      /\ \A x \in D : f[x] = m[x] /\ f[x] \in Valores
  BY <1>2
<1>4. \A x \in Llaves, w \in Valores : Guarda(u, x, w) <=> x \in D /\ f[x] = w
  BY <1>1, <1>2, <1>3
<1>5. M!Sin(m, k) = f
  BY DEF M!Sin
<1> HIDE DEF D, f
<1>6. Pares(u) = f
  BY <1>1, <1>3, <1>4, ParesSegunGuarda
<1> QED
  BY <1>5, <1>6 DEF m

\* Resizing shows nothing, if its last assertion holds.
LEMMA ParesRehashear ==
  ASSUME NEW t, Bien(t), NEW n \in Int, NEW u, u = Rehashear(t, n), Asercion(t, u)
  PROVE  Pares(u) = Pares(t)
<1>1. Bien(u) /\ \A x \in Llaves, w \in Valores : Guarda(u, x, w) <=> Guarda(t, x, w)
  BY RehashearBien
<1> DEFINE m == Pares(t)
           D == DOMAIN m
<1>2. /\ D \in SUBSET Llaves /\ m = [x \in D |-> m[x]] /\ \A x \in D : m[x] \in Valores
      /\ \A x \in Llaves, w \in Valores : Guarda(t, x, w) <=> x \in D /\ m[x] = w
  BY GuardaSegunPares
<1>3. \A x \in Llaves, w \in Valores : Guarda(u, x, w) <=> x \in D /\ m[x] = w
  BY <1>1, <1>2
<1> HIDE DEF m, D
<1>4. Pares(u) = m
  BY <1>1, <1>2, <1>3, ParesSegunGuarda
<1> QED
  BY <1>4 DEF m

\* An empty table is an empty map.
LEMMA ParesVacia ==
  ASSUME NEW cap \in Nat \ {0}
  PROVE  Pares(Vacia(cap)) = M!Vacio
<1> DEFINE t == Vacia(cap)
<1>1. Bien(t) /\ \A x, w : ~Guarda(t, x, w)
  BY VaciaBien
<1> HIDE DEF t
<1>2. Guardadas(t) = {}
  BY <1>1, ParesDe
<1>3. Pares(t) = [x \in {} |-> ValorDe(t, x)]
  BY <1>2 DEF Pares
<1> QED
  BY <1>3 DEF M!Vacio, t

-------------------------------------------------------------------------------
\* Type correctness: links stay in the array and the number of buckets is a power
\* of 2, for any keys, hashes and bounds.
THEOREM TipoSiempre == Spec => []TipoOK
<1>1. Inv => TipoOK
  <2> SUFFICES ASSUME Inv PROVE TipoOK
    OBVIOUS
  <2> DEFINE I == 0 .. tbl.mascara
  <2>1. /\ Bien(tbl) /\ tbl.mascara \in Nat /\ tbl \in Tablas(tbl.mascara)
        /\ NumBuckets(tbl) = tbl.mascara + 1 /\ NumBuckets(tbl) <= TamMaximo /\ TamMaximo \in Nat
        /\ TamMaximo > 0
    BY TamMaximoAlcanza, TamMinimoEsPotencia DEF Inv, TablaBien, Bien, NumBuckets
  <2>2. tbl.mascara + 1 \in {2 ^ x : x \in 1 .. TamMaximo}
    <3>1. PICK x \in 1 .. NumBuckets(tbl) : NumBuckets(tbl) = 2 ^ x
      BY DEF Inv, TablaBien
    <3>2. x \in 1 .. TamMaximo
      BY <2>1, <3>1
    <3> QED
      BY <2>1, <3>1, <3>2
  <2>3. tbl.mascara < TamMaximo
    BY <2>1
  <2>4. tbl.ocupados \in 0 .. tbl.mascara + 1
    <3>1. /\ tbl.ocupados = Cardinality(Activos(tbl)) /\ Cardinality(Activos(tbl)) \in Nat
          /\ Cardinality(Activos(tbl)) <= NumBuckets(tbl)
      BY <2>1, ActivosFinitos DEF Bien
    <3> QED
      BY <2>1, <3>1
  <2>5. DOMAIN tbl.buckets = I
    BY <2>1 DEF Tablas
  <2>6. ASSUME NEW i \in I
        PROVE  /\ tbl.buckets[i].activo \in BOOLEAN
               /\ i + tbl.buckets[i].off \in I
               /\ tbl.buckets[i].llave \in Llaves \union {NADA}
               /\ tbl.buckets[i].valor \in Valores \union {NADA}
    <3>1. tbl.buckets[i] \in Cubeta
      BY <2>1 DEF Tablas
    <3>2. i + tbl.buckets[i].off \in I
      <4>1. CASE tbl.buckets[i].activo
        <5>1. i \in Activos(tbl)
          BY <4>1 DEF Activos
        <5> QED
          BY <2>1, <5>1, EnlacesDe
      <4>2. CASE ~tbl.buckets[i].activo
        BY <2>1, <4>2 DEF Bien
      <4> QED
        BY <4>1, <4>2
    <3> QED
      BY <3>1, <3>2 DEF Cubeta
  <2>7. visitas \in [Llaves -> 0 .. TamMaximo]
    <3>1. {0, 1} \subseteq 0 .. TamMaximo /\ visitas \in [Llaves -> {0, 1}]
      BY <2>1 DEF Inv, IteracionBien
    <3> QED
      BY <3>1
  <2> QED
    BY <2>2, <2>3, <2>4, <2>5, <2>6, <2>7 DEF TipoOK, Inv, IteracionBien
<1> QED
  BY <1>1, InvSiempre, PTL

\* Every chain is whole, ends, and has the keys of one main position; the search
\* for a stored key ends at its bucket, and buckets_ocupados counts those keys.
THEOREM CadenasSiempre == Spec => []CadenasCorrectas
<1>1. Inv => CadenasCorrectas
  <2> SUFFICES ASSUME Inv PROVE CadenasCorrectas
    OBVIOUS
  <2> DEFINE A == Activos(tbl)
             K == Guardadas(tbl)
             f == [j \in A |-> tbl.buckets[j].llave]
  <2>1. Bien(tbl) /\ tbl.mascara \in Nat
    BY DEF Inv, TablaBien, Bien
  <2>2. IsFiniteSet(A) /\ tbl.ocupados = Cardinality(A)
    BY <2>1, ActivosFinitos DEF Bien
  <2>3. Cardinality(K) = Cardinality(A)
    <3>1. f \in [A -> K] /\ \A k \in K : \E j \in A : f[j] = k
      BY DEF Guardadas
    <3>2. \A i, j \in A : f[i] = f[j] => i = j
      BY <2>1, LlavesUnicas
    <3> HIDE DEF A, K, f
    <3>3. f \in Bijection(A, K)
      BY <3>1, <3>2 DEF Bijection, Injection, Surjection, IsInjective
    <3> QED
      BY <2>2, <3>3, FS_Bijection DEF ExistsBijection
  <2>4. ASSUME NEW i \in A PROVE Lugares(tbl, tbl.buckets[i].llave) = {i}
    <3> DEFINE k == tbl.buckets[i].llave
    <3>1. k \in Llaves
      BY <2>1 DEF Bien, Activos
    <3> HIDE DEF k
    <3>2. i \in Lugares(tbl, k)
      BY <2>1, <3>1, SeEncuentra DEF k
    <3>3. Lugares(tbl, k) = {i}
      BY <2>1, <3>1, <3>2, SeEncuentra
    <3> QED
      BY <3>3 DEF k
  <2> QED
    BY <2>1, <2>2, <2>3, <2>4, CadenasEnterasDe DEF CadenasCorrectas
<1> QED
  BY <1>1, InvSiempre, PTL

\* In every layout a table reaches, unless the assertion of the resizing stops the
\* program, fijarEn makes its key found with its value and changes nothing else, or
\* sets the value of an equal key; both exceptions need two different equal keys.
THEOREM FijarSiempre == Spec => []FijarSeVe
<1>1. Inv => FijarSeVe
  <2> SUFFICES ASSUME Inv, NEW k \in Llaves, NEW v \in Valores, NEW t, t = Fijar(tbl, k, v)
               PROVE  /\ NoSeDetiene(tbl, k) =>
                           /\ Contiene(t, k) /\ ValorDe(t, k) = v
                           /\ \E x \in Llaves : Igualdad(k, x) /\ Pares(t) = M!Con(Pares(tbl), x, v)
                      /\ Distintas(Guardadas(tbl) \union {k}) =>
                           /\ NoSeDetiene(tbl, k)
                           /\ Pares(t) = M!Con(Pares(tbl), k, v)
    BY DEF FijarSeVe
  <2>1. Bien(tbl)
    BY DEF Inv, TablaBien
  <2>2. Distintas(Guardadas(tbl) \union {k}) => NoSeDetiene(tbl, k)
    BY <2>1, FijarSigue DEF NoSeDetiene
  <2>3. ASSUME NoSeDetiene(tbl, k)
        PROVE  /\ Contiene(t, k) /\ ValorDe(t, k) = v
               /\ \E x \in Llaves : /\ Igualdad(k, x) /\ Pares(t) = M!Con(Pares(tbl), x, v)
                                    /\ Distintas(Guardadas(tbl) \union {k}) => x = k
    <3>1. Bien(t) /\ Contiene(t, k) /\ ValorDe(t, k) = v
      BY <2>1, <2>3, FijarBien
    <3>2. \E x \in Llaves : /\ Igualdad(k, x) /\ ConPar(tbl, t, x, v)
                            /\ Distintas(Guardadas(tbl) \union {k}) => x = k
      BY <2>1, <2>3, FijarBien
    <3> QED
      BY <2>1, <3>1, <3>2, ParesFijar DEF ConPar
  <2> QED
    BY <2>2, <2>3
<1> QED
  BY <1>1, InvSiempre, PTL

\* In every layout, the assertion at the end of pdcrt_tabla_rehashear holds if no
\* two stored keys are equal, and fails if two that are come to have one main
\* position; if it holds, resizing keeps every pair.
THEOREM RehashearSiempre == Spec => []RehashearConserva
<1>1. Inv => RehashearConserva
  <2> SUFFICES ASSUME Inv, NEW n \in 0 .. TamMaximo, NEW t, t = Rehashear(tbl, n)
               PROVE  /\ Distintas(Guardadas(tbl)) => Asercion(tbl, t)
                      /\ Asercion(tbl, t) =>
                           /\ Pares(t) = Pares(tbl)
                           /\ \A a, b \in Guardadas(tbl) :
                                Igualdad(a, b) /\ Principal(t, a) = Principal(t, b) => a = b
    BY DEF RehashearConserva
  <2>1. n \in Int /\ Bien(tbl)
    BY TamMaximoAlcanza DEF Inv, TablaBien
  <2>2. Distintas(Guardadas(tbl)) => Asercion(tbl, t)
    BY <2>1, RehashearBien
  <2>3. Asercion(tbl, t) => Pares(t) = Pares(tbl)
    BY <2>1, ParesRehashear
  <2>4. ASSUME Asercion(tbl, t), NEW a \in Guardadas(tbl), NEW b \in Guardadas(tbl),
               Igualdad(a, b), Principal(t, a) = Principal(t, b)
        PROVE  a = b
    BY <2>1, <2>4, NoSeJuntan
  <2> QED
    BY <2>2, <2>3, <2>4
<1> QED
  BY <1>1, InvSiempre, PTL

\* In every layout, eliminar removes one key, equal to the one it is given, or
\* none; it breaks a chain exactly when it frees the last bucket of the chain of
\* another key, which takes two different equal keys.
THEOREM EliminarSiempre == Spec => []EliminarRespetaLasDemas
<1>1. Inv => EliminarRespetaLasDemas
  <2> SUFFICES ASSUME Inv, NEW k \in Llaves, NEW t, t = Eliminar(tbl, k)
               PROVE  /\ CadenasEnteras(t) <=> ~RompeCadena(tbl, k)
                      /\ Distintas(Guardadas(tbl) \union {k}) => ~RompeCadena(tbl, k)
                      /\ ~RompeCadena(tbl, k) =>
                           \/ t = tbl
                           \/ \E x \in Llaves : Igualdad(k, x) /\ Pares(t) = M!Sin(Pares(tbl), x)
    BY DEF EliminarRespetaLasDemas
  <2>1. Bien(tbl)
    BY DEF Inv, TablaBien
  <2>2. RompeCadena(tbl, k) => ~CadenasEnteras(t)
    BY <2>1, CadenaRota
  <2>3. ASSUME ~RompeCadena(tbl, k)
        PROVE  /\ CadenasEnteras(t)
               /\ t = tbl \/ \E x \in Llaves : Igualdad(k, x) /\ Pares(t) = M!Sin(Pares(tbl), x)
    <3>1. t = tbl \/ \E x \in Llaves : Igualdad(k, x) /\ Quitado(tbl, t, x)
      BY <2>1, <2>3, EliminarBien
    <3>2. Bien(t)
      BY <2>1, <3>1 DEF Quitado
    <3> QED
      BY <2>1, <3>1, <3>2, CadenasEnterasDe, ParesQuitar
  <2>4. Distintas(Guardadas(tbl) \union {k}) => ~RompeCadena(tbl, k)
    BY <2>1, NoRompe
  <2> QED
    BY <2>2, <2>3, <2>4 DEF CadenasEnteras, RompeCadena
<1> QED
  BY <1>1, InvSiempre, PTL

\* An iteration whose callback only sets keys that are present visits each key
\* once.
THEOREM IteracionSiempre == Spec => []IteracionCompleta
<1>1. Inv => IteracionCompleta
  <2> SUFFICES ASSUME Inv, Iterando, ~modificada, iterador = NumBuckets(tbl), NEW k \in Llaves
               PROVE  visitas[k] = IF k \in Guardadas(tbl) THEN 1 ELSE 0
    BY DEF IteracionCompleta
  <2>1. Bien(tbl) /\ tbl.mascara \in Nat
    BY DEF Inv, TablaBien, Bien
  <2>2. \A j \in Activos(tbl) : j < iterador
    BY <2>1 DEF Activos, NumBuckets
  <2>3. k \in Guardadas(tbl) <=> \E j \in Activos(tbl) : tbl.buckets[j].llave = k
    BY DEF Guardadas
  <2> QED
    BY <2>2, <2>3 DEF Inv, IteracionBien, Visitadas
<1> QED
  BY <1>1, InvSiempre, PTL

\* A table is a map: setting and removing keys are the steps of Mapa, and resizing
\* and iterating change nothing.
THEOREM ImplementaMapaSiempre == Spec => ImplementaMapa
<1>1. Init => M!Init
  BY ParesVacia, TamMinimoEsPotencia DEF Init, M!Init
<1>2. Inv /\ [Next]_vars => [M!Next]_(Pares(tbl))
  <2> SUFFICES ASSUME Inv, [Next]_vars PROVE [M!Next]_(Pares(tbl))
    OBVIOUS
  <2>1. Bien(tbl)
    BY DEF Inv, TablaBien
  <2>2. ASSUME NEW k \in Llaves, NEW v \in Valores, FijarEn(k, v) PROVE M!Next
    <3>1. PICK u : NoSeDetiene(tbl, k) /\ u = Fijar(tbl, k, v) /\ tbl' = u
      BY <2>2 DEF FijarEn
    <3>2. Bien(u) /\ \E x \in Llaves : ConPar(tbl, u, x, v)
      BY <2>1, <3>1, FijarBien
    <3>3. \E x \in Llaves : Pares(u) = M!Con(Pares(tbl), x, v)
      BY <2>1, <3>2, ParesFijar DEF ConPar
    <3> QED
      BY <3>1, <3>3 DEF M!Next
  <2>3. ASSUME NEW k \in Llaves, EliminarLlave(k) PROVE M!Next \/ Pares(tbl)' = Pares(tbl)
    <3>1. tbl' = tbl \/ \E x \in Llaves : Quitado(tbl, tbl', x)
      BY <2>1, <2>3, EliminarBien DEF EliminarLlave
    <3>2. ASSUME NEW x \in Llaves, Quitado(tbl, tbl', x) PROVE M!Next
      <4>1. Pares(tbl') = M!Sin(Pares(tbl), x)
        BY <2>1, <3>2, ParesQuitar
      <4> QED
        BY <4>1 DEF M!Next
    <3> QED
      BY <3>1, <3>2
  <2>4. ASSUME Vaciar PROVE M!Next
    <3>1. NumBuckets(tbl) \in Nat \ {0}
      BY <2>1 DEF Bien, NumBuckets
    <3>2. Pares(tbl)' = M!Vacio
      BY <2>4, <3>1, ParesVacia DEF Vaciar
    <3> QED
      BY <3>2 DEF M!Next
  <2>5. ASSUME NEW adicional \in Adicionales, RehashearCon(adicional)
        PROVE  Pares(tbl)' = Pares(tbl)
    <3>1. tbl.ocupados + adicional \in Int
      BY <2>1, AdicionalesSonNaturales DEF Bien, Tablas
    <3> QED
      BY <2>1, <2>5, <3>1, ParesRehashear DEF RehashearCon
  <2>6. ASSUME tbl' = tbl PROVE Pares(tbl)' = Pares(tbl)
    BY <2>6
  <2> QED
    BY <2>2, <2>3, <2>4, <2>5, <2>6
       DEF Next, ParaCadaPar, VisitarBucket, TerminarIteracion, vars
<1> QED
  BY <1>1, <1>2, InvSiempre, PTL DEF Spec, ImplementaMapa, M!Spec
===============================================================================

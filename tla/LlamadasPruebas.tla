---------------------------- MODULE LlamadasPruebas ---------------------------
(***************************************************************************)
(* Proofs about Llamadas, for any values, objects, methods, prototypes and *)
(* lists of arguments: what is in the stack of the context at each moment, *)
(* the values that a closure of C leaves there and those that a lost       *)
(* argument lacks included; who may write past its memory; and that the    *)
(* arguments arrive if and only if no step was one of those that lose them.*)
(***************************************************************************)
EXTENDS Llamadas, Naturales, SequenceTheorems, TLAPS

\* What is in the stack.  With a message in flight, the arguments that do not fit in
\* the registers, or one less when a step lost it; then it is a call of a value.
\* Under a window, what its closure leaves, and the window is all the rest, or more
\* than the rest when the function asked for room.  In a body, what was left.
Ocupada ==
  /\ vuelo # NADA =>
       /\ sobra = 0
       /\ ~perdida => Len(pila) = EnPila(vuelo.args)
       /\ perdida => vuelo.msj = "llamar" /\ Len(pila) + 1 = EnPila(vuelo.args)
  /\ ventana # NADA =>
       /\ ventana.idc = sobra /\ sobra <= Len(pila) /\ Len(pila) <= sobra + ventana.tam
       /\ perdida <=> ventana # [idc |-> 0, tam |-> Len(pila)]
  /\ EnCuerpo => ~perdida /\ Len(pila) = sobra

HayLugar == Len(pila) <= tope /\ (tope <= cap \/ fin = "desbordado")

Inv == TipoLlamadas /\ Ocupada /\ HayLugar

-------------------------------------------------------------------------------
(* Lemmas about the parts of a sequence.                                   *)

LEMMA Trozo ==
  ASSUME NEW V, NEW s \in Seq(V), NEW i \in 1..Len(s) + 1, NEW j \in i - 1..Len(s)
  PROVE  SubSeq(s, i, j) \in Seq(V) /\ Len(SubSeq(s, i, j)) = j - i + 1
  OBVIOUS

LEMMA Inicio ==
  ASSUME NEW V, NEW s \in Seq(V), NEW j \in 0..Len(s)
  PROVE  SubSeq(s, 1, j) \in Seq(V) /\ Len(SubSeq(s, 1, j)) = j
  OBVIOUS

LEMMA Union ==
  ASSUME NEW V, NEW s \in Seq(V), NEW t \in Seq(V)
  PROVE  s \o t \in Seq(V) /\ Len(s \o t) = Len(s) + Len(t)
  OBVIOUS

\* Taking n values from the top.
LEMMA Cortes ==
  ASSUME NEW V, NEW s \in Seq(V), NEW n \in 0..Len(s)
  PROVE  /\ Sin(s, n) \in Seq(V) /\ Len(Sin(s, n)) = Len(s) - n
         /\ Ultimos(s, n) \in Seq(V) /\ Len(Ultimos(s, n)) = n
<1>1. Len(s) - n \in 0..Len(s) /\ Len(s) - n + 1 \in 1..Len(s) + 1
  OBVIOUS
<1> QED
  BY <1>1, Trozo DEF Sin, Ultimos

LEMMA SinNada ==
  ASSUME NEW V, NEW s \in Seq(V)
  PROVE  Sin(s, 0) = s
<1>1. SubSeq(s, 1, Len(s)) = s /\ Len(s) - 0 = Len(s)
  BY SubSeqFull
<1> QED
  BY <1>1 DEF Sin

\* pdcrt_insertar.
LEMMA InsertarUno ==
  ASSUME NEW V, NEW s \in Seq(V), NEW e \in V, NEW i \in 1..Len(s) + 1
  PROVE  InsertAt(s, i, e) \in Seq(V) /\ Len(InsertAt(s, i, e)) = Len(s) + 1
<1> DEFINE t == SubSeq(s, 1, i - 1)
           u == SubSeq(s, i, Len(s))
<1>1. t \in Seq(V) /\ Len(t) = i - 1
  BY Trozo
<1>2. u \in Seq(V) /\ Len(u) = Len(s) - i + 1
  BY Trozo
<1>3. <<e>> \in Seq(V) /\ Len(<<e>>) = 1
  OBVIOUS
<1>4. InsertAt(s, i, e) = t \o <<e>> \o u
  BY DEF InsertAt
<1> HIDE DEF t, u
<1>5. t \o <<e>> \in Seq(V) /\ Len(t \o <<e>>) = i
  BY <1>1, <1>3, Union
<1>6. t \o <<e>> \o u \in Seq(V) /\ Len(t \o <<e>> \o u) = i + (Len(s) - i + 1)
  BY <1>2, <1>5, Union
<1> QED
  BY <1>4, <1>6

LEMMA VaciaMas ==
  ASSUME NEW V, NEW s \in Seq(V)
  PROVE  <<>> \o s = s
  OBVIOUS

LEMMA FuncionEsSecuencia ==
  ASSUME NEW V, NEW n \in Nat, NEW f \in [1..n -> V]
  PROVE  f \in Seq(V) /\ Len(f) = n
  OBVIOUS

LEMMA VaciaSiLenCero ==
  ASSUME NEW V, NEW s \in Seq(V), Len(s) = 0
  PROVE  s = <<>>
  OBVIOUS

\* k values before the first 6 - k of s.
LEMMA Delante ==
  ASSUME NEW V, NEW t \in Seq(V), NEW s \in Seq(V), Len(t) <= 6, Len(s) = 6
  PROVE  t \o SubSeq(s, 1, 6 - Len(t)) \in Seq(V)
         /\ Len(t \o SubSeq(s, 1, 6 - Len(t))) = 6
<1>1. PICK j \in 0..Len(s) : j = 6 - Len(t)
  OBVIOUS
<1>3. SubSeq(s, 1, j) \in Seq(V) /\ Len(SubSeq(s, 1, j)) = j
  BY Inicio
<1>4. t \o SubSeq(s, 1, j) \in Seq(V) /\ Len(t \o SubSeq(s, 1, j)) = Len(t) + j
  BY <1>3, Union
<1> QED
  BY <1>1, <1>4

-------------------------------------------------------------------------------
(* Sequences laid one after the other: the arrays an expansion puts in     *)
(* place of themselves, and the values of the locals of a procedure.       *)

\* The equation of the function that FlattenSeq reads.
EcuacionDeAplanar(f, ss) ==
  f = [i \in 1..Len(ss) |-> IF i = 1 THEN ss[i] ELSE f[i - 1] \o ss[i]]

LEMMA AplanarEs ==
  ASSUME NEW ss, Len(ss) # 0
  PROVE  FlattenSeq(ss) = (CHOOSE f : EcuacionDeAplanar(f, ss))[Len(ss)]
BY DEF FlattenSeq, EcuacionDeAplanar

\* Any function that solves it gives the value.
LEMMA AplanarUnica ==
  ASSUME NEW ss, NEW m \in Nat, Len(ss) = m, m # 0, NEW f, EcuacionDeAplanar(f, ss)
  PROVE  FlattenSeq(ss) = f[m]
<1> DEFINE g == CHOOSE h : EcuacionDeAplanar(h, ss)
<1>1. EcuacionDeAplanar(g, ss)
  OBVIOUS
<1> HIDE DEF g
<1> DEFINE S == {n \in Nat : n + 1 <= m => f[n + 1] = g[n + 1]}
<1>2. ASSUME NEW h, EcuacionDeAplanar(h, ss), NEW i \in 1..m
      PROVE  h[i] = IF i = 1 THEN ss[i] ELSE h[i - 1] \o ss[i]
  BY <1>2 DEF EcuacionDeAplanar
<1>3. 0 \in S
  <2>1. 1 <= m => f[1] = g[1]
    BY <1>1, <1>2
  <2> QED
    BY <2>1
<1>4. ASSUME NEW n \in Nat, n \in S PROVE n + 1 \in S
  <2>1. CASE n + 2 <= m
    <3>1. PICK i \in 1..m : i = n + 2
      BY <2>1
    <3>2. i # 1 /\ i - 1 = n + 1 /\ n + 1 <= m
      BY <2>1, <3>1
    <3>3. f[n + 1] = g[n + 1]
      BY <1>4, <3>2
    <3>4. f[i] = f[i - 1] \o ss[i] /\ g[i] = g[i - 1] \o ss[i]
      BY <1>1, <1>2, <3>2
    <3>5. f[i] = g[i]
      BY <3>2, <3>3, <3>4
    <3> QED
      BY <3>1, <3>5
  <2> QED
    BY <2>1
<1>5. Nat \subseteq S
  <2> HIDE DEF S
  <2> QED
    BY <1>3, <1>4, Induccion
<1>6. f[m] = g[m]
  <2>1. m - 1 \in S /\ m - 1 + 1 = m
    BY <1>5
  <2> QED
    BY <2>1
<1> QED
  BY <1>6, AplanarEs DEF g

\* Sequences laid one after the other.
LEMMA AplanarTipo ==
  ASSUME NEW V, NEW ss \in Seq(Seq(V))
  PROVE  FlattenSeq(ss) \in Seq(V)
<1>1. CASE Len(ss) = 0
  BY <1>1 DEF FlattenSeq
<1>2. CASE Len(ss) # 0
  <2>1. PICK m \in Nat : m = Len(ss) /\ m # 0
    BY <1>2
  <2>2. ASSUME NEW i \in 1..m PROVE ss[i] \in Seq(V)
    BY <2>1
  <2>3. PICK G \in [Nat \X Seq(V) -> Seq(V)] :
           \A n \in Nat, t \in Seq(V) : n + 2 <= m => G[<<n, t>>] = t \o ss[n + 2]
    <3> DEFINE H == [x \in Nat \X Seq(V) |->
                       IF x[1] + 2 <= m THEN x[2] \o ss[x[1] + 2] ELSE x[2]]
    <3>1. ASSUME NEW n \in Nat, NEW t \in Seq(V)
          PROVE  (IF n + 2 <= m THEN t \o ss[n + 2] ELSE t) \in Seq(V)
      <4>1. CASE n + 2 <= m
        <5>1. ss[n + 2] \in Seq(V)
          BY <2>2, <4>1
        <5>2. t \o ss[n + 2] \in Seq(V)
          BY <5>1
        <5> QED
          BY <4>1, <5>2
      <4> QED
        BY <4>1
    <3>2. H \in [Nat \X Seq(V) -> Seq(V)]
      BY <3>1
    <3>3. \A n \in Nat, t \in Seq(V) : n + 2 <= m => H[<<n, t>>] = t \o ss[n + 2]
      OBVIOUS
    <3> HIDE DEF H
    <3> QED
      BY <3>2, <3>3
  <2>4. ss[1] \in Seq(V)
    BY <2>1, <2>2
  <2>5. PICK r \in [Nat -> Seq(V)] : r[0] = ss[1] /\ \A n \in Nat : r[n + 1] = G[<<n, r[n]>>]
    <3>1. PICK D : D = Seq(V)
      OBVIOUS
    <3>2. PICK e \in D : e = ss[1]
      BY <2>4, <3>1
    <3>3. G \in [Nat \X D -> D] /\ e \in D
      BY <2>3, <3>1, <3>2
    <3>5. \E r : Recurre(r, D, e, G)
      BY <3>3, Recursion
    <3> QED
      BY <3>1, <3>2, <3>5 DEF Recurre
  <2> DEFINE f == [i \in 1..Len(ss) |-> r[i - 1]]
  <2>6. EcuacionDeAplanar(f, ss)
    <3>1. ASSUME NEW i \in 1..m
          PROVE  f[i] = IF i = 1 THEN ss[i] ELSE f[i - 1] \o ss[i]
      <4>1. CASE i = 1
        BY <2>1, <2>5, <4>1
      <4>2. CASE i # 1
        <5>1. PICK n \in Nat : n = i - 2 /\ n + 1 = i - 1 /\ n + 2 = i
          BY <4>2
        <5>2. r[n + 1] = G[<<n, r[n]>>] /\ r[n] \in Seq(V)
          BY <2>5
        <5>3. G[<<n, r[n]>>] = r[n] \o ss[n + 2]
          <6>1. PICK t \in Seq(V) : t = r[n]
            BY <5>2
          <6>2. n + 2 <= m
            BY <5>1
          <6>3. G[<<n, t>>] = t \o ss[n + 2]
            BY <2>3, <6>2
          <6> QED
            BY <6>1, <6>3
        <5>4. i - 1 \in 1..m /\ f[i - 1] = r[n] /\ f[i] = r[n + 1]
          BY <2>1, <4>2, <5>1
        <5> QED
          BY <4>2, <5>1, <5>2, <5>3, <5>4
      <4> QED
        BY <4>1, <4>2
    <3> QED
      BY <2>1, <3>1 DEF EcuacionDeAplanar
  <2>7. f[m] \in Seq(V)
    <3>1. m - 1 \in Nat /\ f[m] = r[m - 1]
      BY <2>1
    <3> QED
      BY <2>5, <3>1
  <2> HIDE DEF f
  <2>8. FlattenSeq(ss) = f[m]
    BY <2>1, <2>6, AplanarUnica
  <2> QED
    BY <2>7, <2>8
<1> QED
  BY <1>1, <1>2

\* A sequence cut in pieces, and the pieces laid one after the other.
LEMMA AplanarCortes ==
  ASSUME NEW V, NEW t \in Seq(V), NEW m \in Nat, NEW ss, Len(ss) = m, m # 0,
         NEW corte \in [0..m -> 0..Len(t)], corte[0] = 0, corte[m] = Len(t),
         \A i \in 1..m : corte[i - 1] <= corte[i]
                         /\ ss[i] = SubSeq(t, corte[i - 1] + 1, corte[i])
  PROVE  FlattenSeq(ss) = t
<1> DEFINE f == [i \in 1..Len(ss) |-> SubSeq(t, 1, corte[i])]
<1>1. ASSUME NEW i \in 1..m
      PROVE  f[i] = IF i = 1 THEN ss[i] ELSE f[i - 1] \o ss[i]
  <2>1. CASE i = 1
    <3>1. corte[i - 1] = 0 /\ corte[i - 1] + 1 = 1
      BY <2>1
    <3>2. ss[i] = SubSeq(t, corte[i - 1] + 1, corte[i])
      OBVIOUS
    <3>3. ss[i] = SubSeq(t, 1, corte[i])
      BY ONLY <3>1, <3>2
    <3> QED
      BY <2>1, <3>3
  <2>2. CASE i # 1
    <3>1. i - 1 \in 1..m /\ i \in 0..m /\ i - 1 \in 0..m
      BY <2>2
    <3>2. PICK a \in 0..Len(t), b \in 0..Len(t) :
             a = corte[i - 1] /\ b = corte[i] /\ a <= b /\ ss[i] = SubSeq(t, a + 1, b)
      BY <3>1
    <3>3. SubSeq(t, 1, a) \o SubSeq(t, a + 1, b) = SubSeq(t, 1, b)
      <4>1. PICK u \in 1..Len(t) + 1 : u = 1
        OBVIOUS
      <4>2. a \in u - 1..Len(t) /\ b \in a..Len(t)
        BY <3>2, <4>1
      <4>3. SubSeq(t, u, a) \o SubSeq(t, a + 1, b) = SubSeq(t, u, b)
        BY ONLY <4>1, <4>2, t \in Seq(V), ConcatAdjacentSubSeq
      <4> QED
        BY <4>1, <4>3
    <3>4. f[i] = SubSeq(t, 1, b) /\ f[i - 1] = SubSeq(t, 1, a)
      BY <3>1, <3>2
    <3> HIDE DEF f
    <3> QED
      BY <2>2, <3>2, <3>3, <3>4
  <2> QED
    BY <2>1, <2>2
<1>2. EcuacionDeAplanar(f, ss)
  BY <1>1 DEF EcuacionDeAplanar
<1>3. f[m] = t
  <2>1. f[m] = SubSeq(t, 1, Len(t))
    OBVIOUS
  <2> QED
    BY <2>1, SubSeqFull
<1> HIDE DEF f
<1> QED
  BY <1>2, <1>3, AplanarUnica

LEMMA AplanarNada == FlattenSeq(<<>>) = <<>>
BY DEF FlattenSeq

LEMMA AplanarUno ==
  ASSUME NEW t
  PROVE  FlattenSeq(<<t>>) = t
<1> DEFINE f == [i \in 1..Len(<<t>>) |-> t]
<1>1. EcuacionDeAplanar(f, <<t>>)
  BY DEF EcuacionDeAplanar
<1>2. Len(<<t>>) = 1 /\ f[1] = t
  OBVIOUS
<1> HIDE DEF f
<1> QED
  BY <1>1, <1>2, AplanarUnica

\* Arrays are sequences of values, so an expanded list is one too.
LEMMA ExpandidaTipo ==
  ASSUME NEW s \in Seq(Valores)
  PROVE  Expandida(s) \in Seq(Valores)
<1> DEFINE ss == [i \in DOMAIN s |-> IF s[i] \in DOMAIN Contenido THEN Contenido[s[i]]
                                    ELSE <<s[i]>>]
<1>1. PICK n \in Nat : n = Len(s) /\ DOMAIN s = 1..n
  OBVIOUS
<1>2. ASSUME NEW i \in 1..n PROVE ss[i] \in Seq(Valores)
  <2>1. <<s[i]>> \in Seq(Valores)
    BY <1>1
  <2> QED
    BY <1>1, <2>1, SonSecuencias
<1>3. ss \in Seq(Seq(Valores))
  <2>1. DOMAIN ss = 1..n /\ ss = [i \in 1..n |-> ss[i]]
    BY <1>1
  <2> HIDE DEF ss
  <2>2. ss \in [1..n -> Seq(Valores)]
    BY <1>2, <2>1
  <2> QED
    BY <2>2
<1> HIDE DEF ss
<1>4. FlattenSeq(ss) \in Seq(Valores)
  BY <1>3, AplanarTipo
<1> QED
  BY <1>4 DEF Expandida, ss

-------------------------------------------------------------------------------
(* The operators of the model.                                             *)

LEMMA MayorDeDos ==
  ASSUME NEW a \in Int, NEW b \in Int
  PROVE  Mayor(a, b) \in {a, b} /\ Mayor(a, b) >= a /\ Mayor(a, b) >= b
  BY DEF Mayor

\* pdcrt_extender_pila: the room it leaves is enough.
LEMMA ExtenderBasta ==
  ASSUME NEW c \in Nat, NEW t \in Nat, NEW n \in Int
  PROVE  Extender(c, t, n) \in Nat /\ Extender(c, t, n) >= c /\ Extender(c, t, n) >= t + n
  BY DEF Extender, Mayor

LEMMA ExtenderNatural ==
  ASSUME NEW c \in Nat, NEW t \in Nat, NEW n \in Nat
  PROVE  Extender(c, t, n) \in Nat /\ Extender(c, t, n) >= c /\ Extender(c, t, n) >= t + n
  BY ExtenderBasta

LEMMA EnPilaNatural ==
  ASSUME NEW n \in Nat
  PROVE  EnPila(n) \in Nat /\ EnPila(n) <= n /\ (n <= 6 => EnPila(n) = 0)
         /\ (n >= 6 => EnPila(n) = n - 6)
  BY DEF EnPila, NN

\* Six registers, and the rest.
LEMMA RegistrosYResto ==
  ASSUME NEW s \in Seq(Valores)
  PROVE  /\ Registros(s) \in Seq(Valores) /\ Len(Registros(s)) = NN
         /\ Resto(s) \in Seq(Valores) /\ Len(Resto(s)) = EnPila(Len(s))
<1>1. \A i \in 1..6 : (IF i <= Len(s) THEN s[i] ELSE NULO) \in Valores
  BY SonValores
<1>2. Registros(s) \in [1..6 -> Valores]
  BY <1>1 DEF Registros, NN
<1>3. Registros(s) \in Seq(Valores) /\ Len(Registros(s)) = 6
  <2>1. PICK n \in Nat : n = 6
    OBVIOUS
  <2> QED
    BY <1>2, <2>1, FuncionEsSecuencia
<1>4. CASE Len(s) <= 6
  <2>1. Resto(s) = <<>>
    BY <1>4 DEF Resto, NN
  <2> QED
    BY <1>3, <1>4, <2>1, EnPilaNatural DEF NN
<1>5. CASE Len(s) > 6
  <2>1. PICK i \in 1..Len(s) + 1 : i = 7
    BY <1>5
  <2>2. PICK j \in i - 1..Len(s) : j = Len(s)
    BY <2>1
  <2>3. SubSeq(s, i, j) \in Seq(Valores) /\ Len(SubSeq(s, i, j)) = j - i + 1
    BY Trozo
  <2>4. Resto(s) \in Seq(Valores) /\ Len(Resto(s)) = Len(s) - 7 + 1
    BY <2>1, <2>2, <2>3 DEF Resto, NN
  <2> QED
    BY <1>3, <1>5, <2>4, EnPilaNatural DEF NN
<1> QED
  BY <1>4, <1>5

\* A message in flight.
LEMMA EnvioValido ==
  ASSUME NEW n \in Nat, NEW yo \in Valores, NEW msj \in Valores,
         NEW a \in Seq(Valores), Len(a) = NN
  PROVE  /\ [args |-> n, yo |-> yo, msj |-> msj, a |-> a] \in Envios
         /\ [args |-> n, yo |-> yo, msj |-> msj, a |-> a] # NADA
  BY NadaNoEsRegistro DEF Envios

LEMMA VentanaValida ==
  ASSUME NEW i \in Nat, NEW t \in Nat
  PROVE  [idc |-> i, tam |-> t] \in Ventanas /\ [idc |-> i, tam |-> t] # NADA
  BY NadaNoEsRegistro DEF Ventanas

\* A receiver that runs: what it was called with.
LEMMA VueloTipo ==
  ASSUME Inv, fin = "no", vuelo # NADA
  PROVE  /\ vuelo.args \in Nat /\ vuelo.yo \in Valores /\ vuelo.msj \in Valores
         /\ vuelo.a \in Seq(Valores) /\ Len(vuelo.a) = 6
         /\ \A i \in 1..6 : vuelo.a[i] \in Valores
         /\ pila \in Seq(Valores) /\ Len(pila) \in Nat
         /\ ventana = NADA /\ cap \in Nat /\ tope \in Nat
         /\ Len(pila) <= tope /\ tope <= cap /\ sobra = 0 /\ perdida \in BOOLEAN
<1>1. vuelo \in Envios
  BY DEF Inv, TipoLlamadas
<1>2. vuelo.a \in Seq(Valores) /\ Len(vuelo.a) = 6
  BY <1>1 DEF Envios, NN
<1> QED
  BY <1>1, <1>2 DEF Inv, TipoLlamadas, Ocupada, HayLugar, Envios

\* It has in the stack as many as do not fit in the registers, or it lost one.
LEMMA VueloPierde ==
  ASSUME Inv, fin = "no", vuelo # NADA
  PROVE  /\ ~perdida => Len(pila) = EnPila(vuelo.args) /\ ~Falta
         /\ perdida => /\ vuelo.msj = "llamar" /\ Len(pila) + 1 = EnPila(vuelo.args)
                       /\ vuelo.args >= 7 /\ EnPila(vuelo.args) = vuelo.args - 6 /\ Falta
<1>1. vuelo.args \in Nat /\ Len(pila) \in Nat
  BY VueloTipo
<1>2. PICK n \in Nat, l \in Nat : n = vuelo.args /\ l = Len(pila)
  BY <1>1
<1>3. /\ ~perdida => l = EnPila(n)
      /\ perdida => vuelo.msj = "llamar" /\ l + 1 = EnPila(n)
  BY <1>2 DEF Inv, Ocupada
<1>4. EnPila(n) \in Nat /\ (n <= 6 => EnPila(n) = 0) /\ (n >= 6 => EnPila(n) = n - 6)
  BY EnPilaNatural
<1>5. l + 1 = EnPila(n) => n >= 7 /\ EnPila(n) = n - 6 /\ EnPila(n) > l
  BY <1>4
<1>6. l = EnPila(n) => ~(EnPila(n) > l)
  BY <1>4
<1> QED
  BY ONLY <1>2, <1>3, <1>5, <1>6 DEF Falta

LEMMA EnvioTipo ==
  ASSUME Inv, fin = "no", ~perdida, vuelo # NADA
  PROVE  /\ vuelo.args \in Nat /\ vuelo.yo \in Valores /\ vuelo.msj \in Valores
         /\ vuelo.a \in Seq(Valores) /\ Len(vuelo.a) = 6
         /\ \A i \in 1..6 : vuelo.a[i] \in Valores
         /\ pila \in Seq(Valores) /\ Len(pila) = EnPila(vuelo.args)
         /\ ventana = NADA /\ cap \in Nat /\ tope \in Nat
         /\ Len(pila) <= tope /\ tope <= cap
  BY VueloTipo, VueloPierde

LEMMA CuerpoTipo ==
  ASSUME Inv, EnCuerpo
  PROVE  /\ ~perdida /\ pila \in Seq(Valores) /\ Len(pila) = sobra /\ sobra \in Nat
         /\ cap \in Nat /\ tope \in Nat /\ tope <= cap
  BY DEF Inv, TipoLlamadas, Ocupada, HayLugar, EnCuerpo

\* A call starts when nothing was left in the stack.
LEMMA LlamaTipo ==
  ASSUME Inv, Llama
  PROVE  /\ fin = "no" /\ vuelo = NADA /\ ventana = NADA /\ ~perdida /\ sobra = 0
         /\ pila = <<>> /\ pila \in Seq(Valores) /\ Len(pila) = 0
         /\ cap \in Nat /\ tope \in Nat /\ tope <= cap
<1>1. EnCuerpo /\ sobra = 0
  BY DEF Llama, Sigue
<1> QED
  BY <1>1, CuerpoTipo, VaciaSiLenCero DEF EnCuerpo

LEMMA VentanaTipo ==
  ASSUME Inv, EnFFI
  PROVE  /\ ventana \in Ventanas /\ ventana # NADA /\ vuelo = NADA /\ sobra \in Nat
         /\ ventana.idc = sobra /\ ventana.tam \in Nat
         /\ sobra <= Len(pila) /\ Len(pila) <= sobra + ventana.tam
         /\ perdida <=> ventana # [idc |-> 0, tam |-> Len(pila)]
         /\ pila \in Seq(Valores) /\ cap \in Nat /\ tope \in Nat
         /\ Len(pila) \in Nat /\ Len(pila) <= tope /\ tope <= cap
<1>1. ventana \in Ventanas /\ ventana # NADA
  BY DEF Inv, TipoLlamadas, EnFFI
<1>2. ventana.idc \in Nat /\ ventana.tam \in Nat
  BY <1>1 DEF Ventanas
<1> QED
  BY <1>1, <1>2 DEF Inv, TipoLlamadas, Ocupada, HayLugar, EnFFI

\* The window that pdffi_ctx_verificar accepts ends where the stack does.
LEMMA VentanaJusta ==
  ASSUME Inv, EnFFI, Verifica
  PROVE  /\ Len(pila) = sobra + ventana.tam /\ ventana = [idc |-> sobra, tam |-> ventana.tam]
         /\ perdida <=> sobra # 0
<1>1. PICK s \in Nat, t \in Nat, l \in Nat :
        /\ s = sobra /\ t = ventana.tam /\ l = Len(pila) /\ ventana.idc = s
        /\ l <= s + t /\ s + t <= l /\ (perdida <=> ventana # [idc |-> 0, tam |-> l])
        /\ ventana \in Ventanas
  BY VentanaTipo DEF Verifica
<1>2. l = s + t
  BY <1>1
<1>3. ventana = [idc |-> s, tam |-> t]
  BY <1>1 DEF Ventanas
<1>4. [idc |-> s, tam |-> t] = [idc |-> 0, tam |-> l] <=> s = 0
  BY <1>2
<1> QED
  BY <1>1, <1>2, <1>3, <1>4

\* The process ends, or its memory means nothing.
LEMMA TerminadoInv ==
  ASSUME Inv, NEW como \in {"error", "roto", "desbordado"}, NEW e \in Nat,
         Terminado(como, e), cap' = cap, capturas' \in Seq(Valores),
         e = 0 \/ como = "desbordado"
  PROVE  Inv'
<1>1. pila' = <<>> /\ tope' = e /\ fin' = como
  BY DEF Terminado, Pila, Mayor
<1>2. vuelo' = NADA /\ ventana' = NADA /\ ~EnCuerpo' /\ perdida' \in BOOLEAN /\ sobra' = 0
  BY DEF Terminado, EnCuerpo
<1>3. cap' \in Nat
  BY DEF Inv, TipoLlamadas
<1>4. Ocupada'
  BY <1>2 DEF Ocupada
<1>5. TipoLlamadas' /\ HayLugar'
  BY <1>1, <1>2, <1>3 DEF TipoLlamadas, HayLugar
<1> QED
  BY <1>4, <1>5 DEF Inv

LEMMA AcabarInv ==
  ASSUME Inv, NEW como \in {"error", "roto"}, Acabar(como), cap' = cap, capturas' = capturas
  PROVE  Inv'
<1>1. Terminado(como, 0) /\ 0 \in Nat
  BY DEF Acabar
<1>2. capturas' \in Seq(Valores)
  BY DEF Inv, TipoLlamadas
<1> QED
  BY <1>1, <1>2, TerminadoInv

\* A message leaves: it is enough that the stack has what is not in the registers,
\* or lacks one of a call, and that there was room.
LEMMA EnviaInv ==
  ASSUME Inv, NEW n \in Nat, NEW yo \in Valores, NEW msj \in Valores,
         NEW a \in Seq(Valores), Len(a) = NN, Recibe(n, yo, msj, a),
         NEW s \in Seq(Valores), NEW e \in Nat, Pila(s, e), Len(s) <= cap', e <= cap',
         cap' \in Nat, perdida' \in BOOLEAN, ~perdida' => Len(s) = EnPila(n),
         perdida' => msj = "llamar" /\ Len(s) + 1 = EnPila(n), sobra' = 0,
         ventana' = NADA, UNCHANGED <<capturas, fin>>
  PROVE  Inv'
<1>1. vuelo' \in Envios /\ vuelo' # NADA /\ vuelo'.args = n /\ vuelo'.msj = msj
  BY EnvioValido DEF Recibe
<1>2. pila' = s /\ tope' \in Nat /\ Len(s) <= tope' /\ tope' <= cap'
  BY MayorDeDos DEF Pila
<1>3. Ocupada'
  BY <1>1, <1>2 DEF Ocupada, EnCuerpo
<1>4. TipoLlamadas' /\ HayLugar'
  BY <1>1, <1>2 DEF Inv, TipoLlamadas, HayLugar
<1> QED
  BY <1>3, <1>4 DEF Inv

-------------------------------------------------------------------------------
(* Calls.                                                                  *)

LEMMA LlamarFijaInv ==
  ASSUME Inv, NEW yo \in Valores, NEW msj \in Valores, NEW s \in Fijas,
         LlamarFija(yo, msj, s)
  PROVE  Inv'
<1>1. s \in Seq(Valores)
  BY SonValores
<1>2. pila = <<>> /\ Len(pila) = 0 /\ cap \in Nat
  BY LlamaTipo DEF LlamarFija
<1>3. pila \o Resto(s) = Resto(s)
  BY <1>1, <1>2, RegistrosYResto
<1>4. cap' \in Nat /\ cap' >= EnPila(Len(s))
  <2>1. PICK m \in Nat : m = EnPila(Len(s))
    BY <1>1, EnPilaNatural
  <2>2. Extender(cap, 0, m) \in Nat /\ Extender(cap, 0, m) >= 0 + m
    BY <1>2, ExtenderBasta
  <2> QED
    BY <1>2, <2>1, <2>2 DEF LlamarFija
<1>5. Recibe(Len(s), yo, msj, Registros(s)) /\ Pila(Resto(s), 0)
  BY <1>3 DEF LlamarFija
<1>6. ventana' = NADA /\ UNCHANGED <<capturas, fin>> /\ ~perdida' /\ sobra' = 0
      /\ perdida' \in BOOLEAN
  BY LlamaTipo DEF LlamarFija, Inv, TipoLlamadas
<1> QED
  BY <1>1, <1>4, <1>5, <1>6, RegistrosYResto, EnviaInv

LEMMA LlamarVariadicaInv ==
  ASSUME Inv, NEW yo \in Valores, NEW msj \in Valores, NEW s \in Variadicas,
         LlamarVariadica(yo, msj, s)
  PROVE  Inv'
<1>1. s \in Seq(Valores) /\ Expandida(s) \in Seq(Valores)
  BY SonValores, ExpandidaTipo
<1>2. pila = <<>> /\ Len(pila) = 0 /\ cap \in Nat
  BY LlamaTipo DEF LlamarVariadica
<1>3. PICK t \in Seq(Valores) : t = Expandida(s)
  BY <1>1
<1>4. pila \o Expandida(s) = t
  BY <1>2, <1>3
<1>5. PICK n \in Nat : n = Len(t)
  BY <1>3
<1>6. PICK c \in Nat : c = Cardinality(Sueltos(s)) /\ c <= Len(s)
  <2>1. IsFiniteSet(1..Len(s)) /\ Cardinality(1..Len(s)) = Len(s)
    <3>1. PICK m \in Nat : m = Len(s)
      BY <1>1
    <3>2. IsFiniteSet(1..m) /\ Cardinality(1..m) = m
      BY FS_Interval
    <3> QED
      BY <3>1, <3>2
  <2>2. Sueltos(s) \subseteq 1..Len(s)
    BY <1>1 DEF Sueltos
  <2>3. IsFiniteSet(Sueltos(s)) /\ Cardinality(Sueltos(s)) <= Len(s)
    BY <2>1, <2>2, FS_Subset
  <2> QED
    BY <2>3, FS_CardinalityType
<1> DEFINE regs == [i \in 1..NN |-> IF i <= n THEN t[i] ELSE NULO]
           resto == IF n <= NN THEN Sin(t, n) ELSE SubSeq(t, 1, 0) \o Ultimos(t, n - NN)
<1>7. Recibe(n, yo, msj, regs)
  BY <1>2, <1>4, <1>5 DEF LlamarVariadica
<1>8. /\ Pila(resto, Mayor(Len(s), n + 1))
      /\ cap' = Extender(Extender(cap, 0, Len(s)), Len(s), n - c + 1)
  BY <1>1, <1>2, <1>3, <1>4, <1>5, <1>6 DEF LlamarVariadica
<1>9. regs \in Seq(Valores) /\ Len(regs) = NN
  <2>1. \A i \in 1..6 : (IF i <= n THEN t[i] ELSE NULO) \in Valores
    BY <1>5, SonValores
  <2>2. regs \in [1..6 -> Valores]
    BY <2>1 DEF NN
  <2> QED
    BY <2>2 DEF NN
<1>10. resto \in Seq(Valores) /\ Len(resto) = EnPila(n)
  <2>1. CASE n <= 6
    <3>1. PICK m \in 0..Len(t) : m = n
      BY <1>5
    <3>2. Sin(t, m) \in Seq(Valores) /\ Len(Sin(t, m)) = Len(t) - m
      BY Cortes
    <3> QED
      BY <1>5, <2>1, <3>1, <3>2, EnPilaNatural DEF NN
  <2>2. CASE n > 6
    <3>0. PICK m \in 0..Len(t) : m = n - 6
      BY <1>5, <2>2
    <3>1. Ultimos(t, m) \in Seq(Valores) /\ Len(Ultimos(t, m)) = m
      BY Cortes
    <3>2. SubSeq(t, 1, 0) = <<>>
      OBVIOUS
    <3>3. <<>> \o Ultimos(t, m) = Ultimos(t, m)
      BY ONLY <3>1, VaciaMas
    <3>4. resto = SubSeq(t, 1, 0) \o Ultimos(t, n - 6)
      BY <2>2 DEF NN
    <3>5. resto = Ultimos(t, m)
      BY ONLY <3>0, <3>2, <3>3, <3>4
    <3> HIDE DEF resto
    <3> QED
      BY <2>2, <3>0, <3>1, <3>5, EnPilaNatural
  <2> QED
    BY <2>1, <2>2
<1>11. PICK l \in Nat : l = Len(s)
  BY <1>1
<1>12. cap' \in Nat /\ cap' >= l /\ cap' >= l + (n - c + 1)
  <2>0. Extender(cap, 0, l) \in Nat /\ Extender(cap, 0, l) >= l
    <3>1. PICK z \in Nat : z = 0
      OBVIOUS
    <3>2. PICK m \in Int : m = l
      OBVIOUS
    <3>3. Extender(cap, z, m) \in Nat /\ Extender(cap, z, m) >= z + m
      BY <1>2, ExtenderBasta
    <3> QED
      BY <3>1, <3>2, <3>3
  <2>1. PICK c1 \in Nat : c1 = Extender(cap, 0, l) /\ c1 >= l
    BY <2>0
  <2>2. PICK m \in Int : m = n - c + 1
    OBVIOUS
  <2>3. Extender(c1, l, m) \in Nat /\ Extender(c1, l, m) >= c1 /\ Extender(c1, l, m) >= l + m
    BY ExtenderBasta
  <2> QED
    BY <1>8, <1>11, <2>1, <2>2, <2>3
<1>13. Mayor(Len(s), n + 1) \in Nat /\ Mayor(Len(s), n + 1) <= cap'
  BY <1>6, <1>11, <1>12 DEF Mayor
<1>14. EnPila(n) <= cap'
  BY <1>6, <1>11, <1>12, EnPilaNatural
<1>15. ventana' = NADA /\ UNCHANGED <<capturas, fin>> /\ ~perdida' /\ sobra' = 0
      /\ perdida' \in BOOLEAN
  BY LlamaTipo DEF LlamarVariadica, Inv, TipoLlamadas
<1> HIDE DEF regs, resto
<1> QED
  BY <1>7, <1>8, <1>9, <1>10, <1>12, <1>13, <1>14, <1>15, EnviaInv

LEMMA SeguirInv ==
  ASSUME Inv, Seguir
  PROVE  Inv'
  BY DEF Seguir, EnCuerpo, Inv, TipoLlamadas, Ocupada, HayLugar

-------------------------------------------------------------------------------
(* Receivers.                                                              *)

\* The prologue takes what was in the stack.
LEMMA ParamsInv ==
  ASSUME Inv, NEW p \in Prototipos, Params(p)
  PROVE  Inv'
<1>1. fin = "no" /\ vuelo # NADA /\ capturas' = capturas
  BY DEF Params, EnRecv
<1>2. PICK n \in Nat : n = vuelo.args
  BY <1>1, VueloTipo
<1>3. CASE \E como \in {"error", "roto"} : Acabar(como) /\ UNCHANGED cap
  BY <1>1, <1>3, AcabarInv
<1>4. CASE ~Falta /\ Tomar(p)
  <2> DEFINE e == IF p.variadic = 0 THEN 0 ELSE Len(pila) + Menor(n, NN)
  <2>1. /\ cap' = IF p.variadic = 0 THEN cap ELSE Extender(cap, Len(pila), Menor(n, NN))
        /\ Pila(Sin(pila, EnPila(n)), e)
        /\ vuelo' = NADA /\ UNCHANGED <<ventana, fin, perdida, sobra>>
    BY <1>2, <1>4 DEF Tomar, SinArgumentos, historia
  <2>0. ~perdida
    BY <1>1, <1>4, VueloPierde
  <2>2. Len(pila) \in Nat /\ Len(pila) = EnPila(n) /\ pila \in Seq(Valores) /\ sobra = 0
    BY <1>1, <1>2, <2>0, VueloTipo, VueloPierde
  <2>3. Sin(pila, EnPila(n)) \in Seq(Valores) /\ Len(Sin(pila, EnPila(n))) = 0
    BY <2>2, Cortes
  <2>4. Menor(n, NN) \in Nat
    BY DEF Menor, NN
  <2>5. cap' \in Nat /\ e \in Nat /\ e <= cap'
    <3>1. cap \in Nat
      BY <1>1, VueloTipo
    <3>2. PICK l \in Nat : l = Len(pila)
      BY <2>2
    <3>3. PICK m \in Nat : m = Menor(n, NN)
      BY <2>4
    <3>4. Extender(cap, l, m) \in Nat /\ Extender(cap, l, m) >= l + m
      BY <3>1, ExtenderBasta
    <3> QED
      BY <2>1, <3>1, <3>2, <3>3, <3>4
  <2>6. pila' = Sin(pila, EnPila(n)) /\ tope' = Mayor(0, e)
    BY <2>1, <2>3 DEF Pila
  <2>7. tope' \in Nat /\ tope' <= cap'
    BY <2>5, <2>6, MayorDeDos
  <2>8. ventana' = NADA /\ vuelo' = NADA /\ ~perdida' /\ Len(pila') = sobra' /\ sobra' = 0
    BY <1>1, <2>0, <2>1, <2>2, <2>3, <2>6, VueloTipo
  <2>9. Ocupada'
    BY <2>8 DEF Ocupada
  <2>10. TipoLlamadas' /\ HayLugar'
    BY <1>1, <2>1, <2>3, <2>5, <2>6, <2>7, <2>8 DEF Inv, TipoLlamadas, HayLugar
  <2> QED
    BY <2>9, <2>10 DEF Inv
<1> QED
  BY <1>3, <1>4 DEF Params

\* pdcrt_insertar where the arguments of the stack begin, or at its top when one of
\* them is missing.
LEMMA InsertarTipo ==
  ASSUME NEW s \in Seq(Valores), NEW e \in Valores, NEW k \in Int, k \in {0, 0 - 1}
  PROVE  /\ Insertar(s, k, e) \in Seq(Valores) /\ Len(Insertar(s, k, e)) = Len(s) + 1
         /\ k = 0 => Insertar(s, k, e) = InsertAt(s, 1, e)
<1>1. PICK i \in 1..Len(s) + 1 : i = IF k < 0 THEN Len(s) + 2 + k ELSE k + 1
  OBVIOUS
<1>2. InsertAt(s, i, e) \in Seq(Valores) /\ Len(InsertAt(s, i, e)) = Len(s) + 1
  BY InsertarUno
<1>3. Insertar(s, k, e) = InsertAt(s, i, e) /\ (k = 0 => i = 1)
  BY <1>1 DEF Insertar
<1> QED
  BY <1>2, <1>3

\* Where the arguments of the stack begin.
LEMMA PrimeroEnPila ==
  ASSUME Inv, fin = "no", vuelo # NADA
  PROVE  /\ Len(pila) - EnPila(vuelo.args) \in {0, 0 - 1}
         /\ ~perdida => Len(pila) - EnPila(vuelo.args) = 0
<1>1. vuelo.args \in Nat /\ Len(pila) \in Nat /\ perdida \in BOOLEAN
  BY VueloTipo
<1>2. EnPila(vuelo.args) \in Nat
  BY <1>1, EnPilaNatural
<1> QED
  BY <1>1, <1>2, VueloPierde

\* One more argument in front: the sixth goes to the stack.
LEMMA EnviarAMetodoInv ==
  ASSUME Inv, NEW o \in Valores, NEW msj \in Valores, EnviarAMetodo(o, msj)
  PROVE  Inv'
<1>1. fin = "no" /\ vuelo # NADA
  BY DEF EnviarAMetodo, EnRecv
<1>2. PICK n \in Nat : n = vuelo.args
  BY <1>1, VueloTipo
<1>3. /\ pila \in Seq(Valores) /\ Len(pila) \in Nat
      /\ cap \in Nat /\ Len(pila) <= cap
  BY <1>1, VueloTipo
<1>4. PICK k \in Int : k = Len(pila) - EnPila(n) /\ k \in {0, 0 - 1}
  BY <1>1, <1>2, PrimeroEnPila
<1>0. PICK e \in Valores : e = vuelo.a[6]
  BY <1>1, VueloTipo, SMTT(30)
<1> DEFINE s == IF n >= 6 THEN Insertar(pila, k, e) ELSE pila
           a == <<o>> \o SubSeq(vuelo.a, 1, 5)
<1>5. /\ Pila(s, 0) /\ cap' = IF n >= 6 THEN Extender(cap, Len(pila), 1) ELSE cap
      /\ Recibe(n + 1, Metodos[o][msj], "llamar", a)
      /\ UNCHANGED <<ventana, capturas, fin, perdida, sobra>>
  BY <1>0, <1>2, <1>4 DEF EnviarAMetodo, ConA6
<1>6. s \in Seq(Valores) /\ Len(s) = IF n >= 6 THEN Len(pila) + 1 ELSE Len(pila)
  BY <1>3, <1>4, InsertarTipo
<1>6a. /\ ~perdida => Len(s) = EnPila(n + 1)
       /\ perdida => Len(s) + 1 = EnPila(n + 1)
  <2>1. PICK m \in Nat, l \in Nat : m = n + 1 /\ l = Len(pila)
    BY <1>3
  <2>2. /\ n <= 6 => EnPila(n) = 0
        /\ n >= 6 => EnPila(n) = n - 6
        /\ m <= 6 => EnPila(m) = 0
        /\ m >= 6 => EnPila(m) = m - 6
    BY EnPilaNatural
  <2>3. (~perdida => l = EnPila(n)) /\ (perdida => l + 1 = EnPila(n) /\ n >= 7)
    BY <1>1, <1>2, <2>1, VueloPierde
  <2> HIDE DEF s
  <2> QED
    BY <1>6, <2>1, <2>2, <2>3
<1>7. a \in Seq(Valores) /\ Len(a) = NN
  <2>1. <<o>> \in Seq(Valores) /\ Len(<<o>>) = 1
    OBVIOUS
  <2>2. vuelo.a \in Seq(Valores) /\ Len(vuelo.a) = 6
    BY <1>1, VueloTipo
  <2>3. /\ <<o>> \o SubSeq(vuelo.a, 1, 6 - Len(<<o>>)) \in Seq(Valores)
        /\ Len(<<o>> \o SubSeq(vuelo.a, 1, 6 - Len(<<o>>))) = 6
    BY <2>1, <2>2, Delante
  <2>4. 6 - Len(<<o>>) = 5
    BY <2>1
  <2>5. a = <<o>> \o SubSeq(vuelo.a, 1, 6 - Len(<<o>>))
    BY ONLY <2>4
  <2> HIDE DEF a
  <2> QED
    BY <2>3, <2>5 DEF NN
<1> HIDE DEF s, a
<1>8. cap' \in Nat /\ Len(s) <= cap'
  <2>1. PICK l \in Nat, u \in Nat : l = Len(pila) /\ u = 1
    BY <1>3
  <2>2. Extender(cap, l, u) \in Nat /\ Extender(cap, l, u) >= l + u
    BY <1>3, ExtenderNatural
  <2> QED
    BY <1>3, <1>5, <1>6, <2>1, <2>2
<1>9. Metodos[o][msj] \in Valores /\ "llamar" \in Valores
  BY SonValores DEF EnviarAMetodo, TieneMetodo
<1>10. ventana' = NADA /\ perdida' \in BOOLEAN /\ perdida' = perdida /\ sobra' = 0
  BY <1>1, <1>5, VueloTipo
<1>11. n + 1 \in Nat
  OBVIOUS
<1> QED
  BY <1>5, <1>6, <1>6a, <1>7, <1>8, <1>9, <1>10, <1>11, EnviaInv

\* Two more arguments in front: the fifth and the sixth go to the stack, if there
\* are more than six or none of them.
LEMMA EnviarANoEncontradoInv ==
  ASSUME Inv, NEW o \in Valores, NEW msj \in Valores, EnviarANoEncontrado(o, msj)
  PROVE  Inv'
<1>1. fin = "no" /\ vuelo # NADA
  BY DEF EnviarANoEncontrado, EnRecv
<1>2. PICK n \in Nat : n = vuelo.args
  BY <1>1, VueloTipo
<1>3. /\ pila \in Seq(Valores) /\ Len(pila) \in Nat
      /\ cap \in Nat /\ Len(pila) <= cap
  BY <1>1, VueloTipo
<1>4. PICK k \in Int : k = Len(pila) - EnPila(n) /\ k \in {0, 0 - 1}
  BY <1>1, <1>2, PrimeroEnPila
<1>5. PICK a5 \in Valores, a6 \in Valores : a5 = vuelo.a[5] /\ a6 = vuelo.a[6]
  BY <1>1, VueloTipo, SMTT(30)
<1> DEFINE con6 == IF n >= 7 THEN Insertar(pila, k, a6) ELSE pila
           s == IF n >= 6 THEN Insertar(con6, k, a5) ELSE con6
           a == <<o, msj>> \o SubSeq(vuelo.a, 1, 4)
<1>6. /\ Pila(s, 0) /\ cap' = Extender(cap, Len(pila), 2)
      /\ Recibe(n + 2, NoEncontrado[o], "llamar", a)
      /\ perdida' = (perdida \/ n \in {5, 6})
      /\ UNCHANGED <<ventana, capturas, fin, sobra>>
  BY <1>2, <1>4, <1>5 DEF EnviarANoEncontrado
<1>7. con6 \in Seq(Valores) /\ Len(con6) = IF n >= 7 THEN Len(pila) + 1 ELSE Len(pila)
  BY <1>3, <1>4, InsertarTipo
<1> HIDE DEF con6
<1>8. s \in Seq(Valores) /\ Len(s) = IF n >= 6 THEN Len(con6) + 1 ELSE Len(con6)
  BY <1>4, <1>7, InsertarTipo
<1> HIDE DEF s
<1>9. a \in Seq(Valores) /\ Len(a) = NN
  <2>1. <<o, msj>> \in Seq(Valores) /\ Len(<<o, msj>>) = 2
    OBVIOUS
  <2>2. vuelo.a \in Seq(Valores) /\ Len(vuelo.a) = 6
    BY <1>1, VueloTipo
  <2>3. /\ <<o, msj>> \o SubSeq(vuelo.a, 1, 6 - Len(<<o, msj>>)) \in Seq(Valores)
        /\ Len(<<o, msj>> \o SubSeq(vuelo.a, 1, 6 - Len(<<o, msj>>))) = 6
    BY <2>1, <2>2, Delante
  <2>4. 6 - Len(<<o, msj>>) = 4
    BY <2>1
  <2>5. a = <<o, msj>> \o SubSeq(vuelo.a, 1, 6 - Len(<<o, msj>>))
    BY ONLY <2>4
  <2> HIDE DEF a
  <2> QED
    BY <2>3, <2>5 DEF NN
<1> HIDE DEF a
<1>10. cap' \in Nat /\ Len(s) <= cap'
  <2>1. PICK l \in Nat, u \in Nat : l = Len(pila) /\ u = 2
    BY <1>3
  <2>2. Extender(cap, l, u) \in Nat /\ Extender(cap, l, u) >= l + u
    BY <1>3, ExtenderNatural
  <2> QED
    BY <1>6, <1>7, <1>8, <2>1, <2>2
<1>11. /\ ~perdida' => Len(s) = EnPila(n + 2)
       /\ perdida' => Len(s) + 1 = EnPila(n + 2)
  <2>1. PICK m \in Nat, l \in Nat : m = n + 2 /\ l = Len(pila)
    BY <1>3
  <2>2. /\ n <= 6 => EnPila(n) = 0
        /\ n >= 6 => EnPila(n) = n - 6
        /\ m <= 6 => EnPila(m) = 0
        /\ m >= 6 => EnPila(m) = m - 6
    BY EnPilaNatural
  <2>3. (~perdida => l = EnPila(n)) /\ (perdida => l + 1 = EnPila(n) /\ n >= 7)
    BY <1>1, <1>2, <2>1, VueloPierde
  <2>4. /\ ~perdida /\ n \notin {5, 6} => Len(s) = EnPila(m)
        /\ perdida \/ n \in {5, 6} => Len(s) + 1 = EnPila(m)
    BY <1>7, <1>8, <2>1, <2>2, <2>3
  <2>5. perdida' <=> perdida \/ n \in {5, 6}
    BY ONLY <1>6
  <2> QED
    BY ONLY <2>1, <2>4, <2>5
<1>12. NoEncontrado[o] \in Valores /\ "llamar" \in Valores
  BY SonValores DEF EnviarANoEncontrado
<1>13. ventana' = NADA /\ sobra' = 0 /\ n + 2 \in Nat
  BY <1>1, <1>6, VueloTipo
<1>14. perdida' \in BOOLEAN
  BY ONLY <1>6
<1> QED
  BY <1>6, <1>8, <1>9, <1>10, <1>11, <1>12, <1>13, <1>14, EnviaInv

\* What pdcrt_mover_a_cima leaves, with six arguments or fewer and with eight or
\* more: with those in between it reads outside of the stack.
LEMMA MovidaEntera ==
  ASSUME NEW s \in Seq(Valores), Len(s) >= 2
  PROVE  LET t == SubSeq(s, 1, 0) \o SubSeq(s, 3, Len(s)) \o SubSeq(s, 1, 2)
         IN  t \in Seq(Valores) /\ Len(t) = Len(s)
<1>1. PICK i \in 1..Len(s) + 1 : i = 3
  OBVIOUS
<1>2. PICK j \in i - 1..Len(s) : j = Len(s)
  BY <1>1
<1>3. PICK z \in 0..Len(s), d \in 0..Len(s) : z = 0 /\ d = 2
  OBVIOUS
<1>4. SubSeq(s, i, j) \in Seq(Valores) /\ Len(SubSeq(s, i, j)) = j - i + 1
  BY Trozo
<1>5. /\ SubSeq(s, 1, z) \in Seq(Valores) /\ Len(SubSeq(s, 1, z)) = z
      /\ SubSeq(s, 1, d) \in Seq(Valores) /\ Len(SubSeq(s, 1, d)) = d
  BY Inicio
<1>6. /\ SubSeq(s, 1, z) \o SubSeq(s, i, j) \in Seq(Valores)
      /\ Len(SubSeq(s, 1, z) \o SubSeq(s, i, j)) = z + (j - i + 1)
  BY <1>4, <1>5, Union
<1>7. /\ SubSeq(s, 1, z) \o SubSeq(s, i, j) \o SubSeq(s, 1, d) \in Seq(Valores)
      /\ Len(SubSeq(s, 1, z) \o SubSeq(s, i, j) \o SubSeq(s, 1, d)) = z + (j - i + 1) + d
  BY <1>5, <1>6, Union
<1> QED
  BY <1>1, <1>2, <1>3, <1>7

LEMMA EnviarMensajeInv ==
  ASSUME Inv, EnviarMensaje
  PROVE  Inv'
<1>1. fin = "no" /\ ~perdida /\ vuelo # NADA
  BY VueloPierde DEF EnviarMensaje, EnRecv
<1>2. PICK n \in Nat : n = vuelo.args
  BY <1>1, EnvioTipo
<1>3. /\ pila \in Seq(Valores) /\ Len(pila) \in Nat /\ Len(pila) = EnPila(n)
      /\ cap \in Nat /\ Len(pila) <= cap
  BY <1>1, <1>2, EnvioTipo
<1> DEFINE pos == IF n <= 6 THEN 0 ELSE Len(pila) - (n - 6)
           sacados == (IF n >= 6 THEN 1 ELSE 0) + (IF n >= 5 THEN 1 ELSE 0)
<1>4. pos = 0
  BY <1>3, EnPilaNatural
<1>5. CASE \E como \in {"error", "roto"} : Acabar(como) /\ UNCHANGED cap
  <2>1. capturas' = capturas
    BY DEF EnviarMensaje
  <2> QED
    BY <1>5, <2>1, AcabarInv
<1>6. CASE ~\E como \in {"error", "roto"} : Acabar(como) /\ UNCHANGED cap
  <2> DEFINE a == SubSeq(vuelo.a, 3, 6) \o
                    (IF sacados = 2 THEN Ultimos(Movida(pos), 2)
                     ELSE IF sacados = 1 THEN <<Last(Movida(pos)), NULO>>
                     ELSE <<NULO, NULO>>)
  <2>1. /\ n >= 2 /\ Len(pila) - pos # 1 /\ Len(pila) >= sacados
        /\ Pila(Sin(Movida(pos), sacados), Len(pila) + 2)
        /\ cap' = Extender(cap, Len(pila), 2)
        /\ Recibe(n - 2, vuelo.a[1], vuelo.a[2], a)
        /\ UNCHANGED <<ventana, fin, capturas, perdida, sobra>>
    BY <1>2, <1>6 DEF EnviarMensaje
  <2>0. ~perdida' /\ perdida' \in BOOLEAN /\ sobra' = 0
    BY <1>1, <2>1, VueloTipo
  <2>2. n <= 4 \/ n >= 8
    <3>1. PICK l \in Nat : l = Len(pila) /\ l # 1 /\ l >= sacados
      BY <1>3, <1>4, <2>1
    <3>2. l = EnPila(n) /\ (n <= 6 => EnPila(n) = 0) /\ (n >= 6 => EnPila(n) = n - 6)
      BY <1>3, <3>1, EnPilaNatural
    <3> QED
      BY <3>1, <3>2
  <2> HIDE DEF a
  <2>3. cap' \in Nat /\ Len(pila) + 2 <= cap'
    <3>1. PICK l \in Nat, u \in Nat : l = Len(pila) /\ u = 2
      BY <1>3
    <3>2. Extender(cap, l, u) \in Nat /\ Extender(cap, l, u) >= l + u
      BY <1>3, ExtenderNatural
    <3> QED
      BY <2>1, <3>1, <3>2
  <2>4. /\ vuelo.a \in Seq(Valores) /\ Len(vuelo.a) = 6 /\ ventana' = NADA
        /\ vuelo.a[1] \in Valores /\ vuelo.a[2] \in Valores /\ n - 2 \in Nat
    BY <1>1, <2>1, EnvioTipo
  <2>5. SubSeq(vuelo.a, 3, 6) \in Seq(Valores) /\ Len(SubSeq(vuelo.a, 3, 6)) = 4
    <3>1. PICK v \in Seq(Valores) : v = vuelo.a /\ Len(v) = 6
      BY <2>4
    <3>2. PICK i \in 1..Len(v) + 1 : i = 3
      BY <3>1
    <3>3. PICK j \in i - 1..Len(v) : j = 6
      BY <3>1, <3>2
    <3>4. SubSeq(v, i, j) \in Seq(Valores) /\ Len(SubSeq(v, i, j)) = j - i + 1
      BY Trozo
    <3> QED
      BY <3>1, <3>2, <3>3, <3>4
  <2>6. CASE n <= 4
    <3>1. pila = <<>> /\ Len(pila) = 0 /\ sacados = 0
      BY <1>3, <2>6, EnPilaNatural, VaciaSiLenCero
    <3>2. Movida(pos) = pila
      BY <1>4, <3>1 DEF Movida
    <3>3. PICK z \in 0..Len(pila) : z = 0
      BY <1>3
    <3>4. Sin(pila, z) \in Seq(Valores) /\ Len(Sin(pila, z)) = Len(pila) - z
      BY <1>3, Cortes
    <3>5. <<NULO, NULO>> \in Seq(Valores) /\ Len(<<NULO, NULO>>) = 2
      BY SonValores
    <3>6. a = SubSeq(vuelo.a, 3, 6) \o <<NULO, NULO>>
      BY <3>1 DEF a
    <3>7. a \in Seq(Valores) /\ Len(a) = NN
      BY <2>5, <3>5, <3>6, Union DEF NN
    <3>8. Pila(Sin(pila, z), Len(pila) + 2)
      BY <2>1, <3>1, <3>2, <3>3
    <3>9. Len(Sin(pila, z)) <= cap' /\ Len(Sin(pila, z)) = EnPila(n - 2)
      BY <2>3, <2>4, <2>6, <3>1, <3>3, <3>4, EnPilaNatural
    <3>10. Len(pila) + 2 \in Nat
      BY <1>3
    <3> QED
      BY <2>0, <2>1, <2>3, <2>4, <3>4, <3>7, <3>8, <3>9, <3>10, EnviaInv
  <2>7. CASE n >= 8
    <3>1. Len(pila) = n - 6 /\ Len(pila) >= 2 /\ sacados = 2
      BY <1>3, <2>7, EnPilaNatural
    <3>2. PICK t \in Seq(Valores) : t = Movida(pos) /\ Len(t) = Len(pila)
      <4>1. Movida(pos) = SubSeq(pila, 1, 0) \o SubSeq(pila, 3, Len(pila)) \o SubSeq(pila, 1, 2)
        BY <1>4, <3>1 DEF Movida
      <4> QED
        BY <1>3, <3>1, <4>1, MovidaEntera
    <3>3. PICK d \in 0..Len(t) : d = 2
      BY <3>1, <3>2
    <3>4. /\ Sin(t, d) \in Seq(Valores) /\ Len(Sin(t, d)) = Len(t) - d
          /\ Ultimos(t, d) \in Seq(Valores) /\ Len(Ultimos(t, d)) = d
      BY Cortes
    <3>5. a = SubSeq(vuelo.a, 3, 6) \o Ultimos(t, d)
      BY <3>1, <3>2, <3>3 DEF a
    <3>6. a \in Seq(Valores) /\ Len(a) = NN
      <4>1. PICK r \in Seq(Valores) : r = SubSeq(vuelo.a, 3, 6) /\ Len(r) = 4
        BY <2>5
      <4>2. PICK w \in Seq(Valores) : w = Ultimos(t, d) /\ Len(w) = 2
        BY <3>3, <3>4
      <4>3. r \o w \in Seq(Valores) /\ Len(r \o w) = 4 + 2
        BY <4>1, <4>2, Union
      <4> QED
        BY <3>5, <4>1, <4>2, <4>3 DEF NN
    <3>7. Pila(Sin(t, d), Len(pila) + 2)
      BY <2>1, <3>1, <3>2, <3>3
    <3>8. Len(Sin(t, d)) <= cap' /\ Len(Sin(t, d)) = EnPila(n - 2)
      <4>1. PICK m \in Nat : m = n - 2
        BY <2>4
      <4>2. EnPila(m) = m - 6
        BY <2>7, <4>1, EnPilaNatural
      <4>3. Len(Sin(t, d)) = Len(pila) - 2
        BY <3>2, <3>3, <3>4
      <4> QED
        BY <2>3, <2>7, <3>1, <4>1, <4>2, <4>3
    <3>9. Len(pila) + 2 \in Nat
      BY <1>3
    <3> QED
      BY <2>0, <2>1, <2>3, <2>4, <3>4, <3>6, <3>7, <3>8, <3>9, EnviaInv
  <2> QED
    BY <2>2, <2>6, <2>7
<1> QED
  BY <1>5, <1>6

LEMMA SinRespuestaInv ==
  ASSUME Inv, SinRespuesta
  PROVE  Inv'
<1>1. Acabar("error") /\ cap' = cap /\ capturas' = capturas
  BY DEF SinRespuesta
<1> QED
  BY <1>1, AcabarInv

-------------------------------------------------------------------------------
(* Foreign functions.                                                      *)

\* Under a window is what the closure leaves, and it takes all the rest.
LEMMA VentanaInv ==
  ASSUME Inv, NEW s \in Seq(Valores), NEW i \in Nat, NEW t \in Nat, Pila(s, 0),
         cap' \in Nat, Len(s) <= cap', ventana' = [idc |-> i, tam |-> t], vuelo' = NADA,
         sobra' = i, Len(s) = i + t, perdida' <=> i # 0, capturas' \in Seq(Valores),
         perdida' \in BOOLEAN, UNCHANGED fin
  PROVE  Inv'
<1>1. ventana' \in Ventanas /\ ventana' # NADA
  BY VentanaValida
<1>2. pila' = s /\ tope' \in Nat /\ Len(s) <= tope' /\ tope' <= cap'
  BY MayorDeDos DEF Pila
<1>3. ventana' # [idc |-> 0, tam |-> Len(s)] <=> i # 0
  OBVIOUS
<1>4. ventana'.idc = i /\ ventana'.tam = t /\ i <= Len(s)
  OBVIOUS
<1>5. Ocupada'
  BY <1>1, <1>2, <1>3, <1>4 DEF Ocupada, EnCuerpo
<1>6. TipoLlamadas' /\ HayLugar'
  BY <1>1, <1>2 DEF Inv, TipoLlamadas, HayLugar
<1> QED
  BY <1>5, <1>6 DEF Inv

LEMMA InvocarFFIInv ==
  ASSUME Inv, NEW s \in Fijas, InvocarFFI(s)
  PROVE  Inv'
<1>1. pila = <<>> /\ Len(pila) = 0 /\ cap \in Nat /\ s \in Seq(Valores) /\ Len(s) \in Nat
  BY LlamaTipo, SonValores DEF InvocarFFI
<1>2. pila \o s = s
  BY <1>1, VaciaMas
<1>3. cap' \in Nat /\ cap' >= Len(s)
  <2>1. PICK z \in Nat, m \in Nat : z = 0 /\ m = Len(s)
    BY <1>1
  <2>2. Extender(cap, z, m) \in Nat /\ Extender(cap, z, m) >= z + m
    BY <1>1, ExtenderNatural
  <2> QED
    BY <1>1, <2>1, <2>2 DEF InvocarFFI
<1>4. /\ Pila(s, 0) /\ ventana' = [idc |-> 0, tam |-> Len(s)] /\ vuelo' = NADA
      /\ UNCHANGED <<fin, capturas>> /\ ~perdida' /\ sobra' = 0 /\ perdida' = perdida
  BY <1>1, <1>2, LlamaTipo DEF InvocarFFI
<1>5. capturas' \in Seq(Valores) /\ perdida' \in BOOLEAN
  BY <1>4 DEF Inv, TipoLlamadas
<1>6. PICK i \in Nat, t \in Nat : i = 0 /\ t = Len(s) /\ Len(s) = i + t
  BY <1>1
<1>7. ventana' = [idc |-> i, tam |-> t] /\ sobra' = i /\ (perdida' <=> i # 0)
  BY <1>4, <1>6
<1> QED
  BY <1>1, <1>3, <1>4, <1>5, <1>6, <1>7, VentanaInv

\* The six registers and the captures, under the arguments of the stack.
LEMMA FuncionDeClosureInv ==
  ASSUME Inv, FuncionDeClosure
  PROVE  Inv'
<1>1. fin = "no" /\ vuelo # NADA /\ capturas' = capturas
  BY DEF FuncionDeClosure, EnRecv
<1>2. CASE Acabar("roto") /\ UNCHANGED cap
  BY <1>1, <1>2, AcabarInv
<1>3. CASE ~Falta /\ AbrirVentana
  <2>0. ~perdida
    BY <1>1, <1>3, VueloPierde
  <2>1. PICK n \in Nat : n = vuelo.args
    BY <1>1, VueloTipo
  <2>2. /\ pila \in Seq(Valores) /\ Len(pila) \in Nat /\ Len(pila) = EnPila(n)
        /\ cap \in Nat /\ Len(pila) <= cap
    BY <1>1, <2>0, <2>1, VueloTipo, VueloPierde
  <2>3. PICK c \in Seq(Valores) : c = capturas
    BY DEF Inv, TipoLlamadas
  <2>4. PICK k \in Nat : k = Len(c)
    BY <2>3
  <2>5. PICK v \in Seq(Valores) : v = vuelo.a /\ Len(v) = 6
    BY <1>1, VueloTipo
  <2>6. PICK e \in 0..Len(pila) : e = EnPila(n)
    BY <2>2
  <2> DEFINE t == Sin(pila, e) \o c \o v \o Ultimos(pila, e)
  <2>7. t \in Seq(Valores) /\ Len(t) = k + 6 + e
    <3>1. /\ Sin(pila, e) \in Seq(Valores) /\ Len(Sin(pila, e)) = 0
          /\ Ultimos(pila, e) \in Seq(Valores) /\ Len(Ultimos(pila, e)) = e
      BY <2>2, <2>6, Cortes
    <3>2. Sin(pila, e) \o c \in Seq(Valores) /\ Len(Sin(pila, e) \o c) = k
      BY <2>4, <3>1, Union
    <3>3. Sin(pila, e) \o c \o v \in Seq(Valores) /\ Len(Sin(pila, e) \o c \o v) = k + 6
      BY <2>5, <3>2, Union
    <3> QED
      BY <3>1, <3>3, Union
  <2>8. /\ Pila(t, 0) /\ cap' = Extender(cap, Len(pila), NN + k)
        /\ ventana' = [idc |-> Len(t) - (n + k), tam |-> n + k] /\ vuelo' = NADA
        /\ perdida' = (n < NN) /\ sobra' = IF n < NN THEN NN - n ELSE 0
        /\ UNCHANGED fin
    BY <1>3, <2>1, <2>3, <2>4, <2>5, <2>6 DEF AbrirVentana
  <2> HIDE DEF t
  <2>9. cap' \in Nat /\ Len(t) <= cap'
    <3>1. PICK l \in Nat, m \in Nat : l = Len(pila) /\ m = 6 + k
      BY <2>2
    <3>2. Extender(cap, l, m) \in Nat /\ Extender(cap, l, m) >= l + m
      BY <2>2, ExtenderNatural
    <3>3. Len(t) = k + 6 + Len(pila) /\ Len(pila) \in Nat
      BY <2>2, <2>6, <2>7
    <3>4. cap' = Extender(cap, l, m)
      BY <2>8, <3>1 DEF NN
    <3> QED
      BY <3>1, <3>2, <3>3, <3>4
  <2>10. e \in Nat /\ (n <= 6 => e = 0) /\ (n >= 6 => e = n - 6)
    BY <2>6, EnPilaNatural
  <2>11. PICK i \in Nat : i = IF n < 6 THEN 6 - n ELSE 0
    OBVIOUS
  <2>12. PICK z \in Nat : z = n + k
    OBVIOUS
  <2>13. Len(t) - (n + k) = i /\ Len(t) = i + z
    BY <2>7, <2>10, <2>11, <2>12
  <2>14. ventana' = [idc |-> i, tam |-> z] /\ sobra' = i
    BY <2>8, <2>11, <2>12, <2>13 DEF NN
  <2>15. perdida' <=> i # 0
    <3>1. n < 6 <=> i # 0
      BY <2>11
    <3> QED
      BY ONLY <2>8, <3>1 DEF NN
  <2>16. perdida' \in BOOLEAN
    BY ONLY <2>8
  <2>17. capturas' \in Seq(Valores)
    BY <1>1, <2>3
  <2> QED
    BY <2>7, <2>8, <2>9, <2>13, <2>14, <2>15, <2>16, <2>17, VentanaInv
<1> QED
  BY <1>2, <1>3 DEF FuncionDeClosure

\* One more value in a window, in place of its last k.
LEMMA PonerEnVentanaInv ==
  ASSUME Inv, EnFFI, NEW k \in Nat, k <= ventana.tam, NEW v \in Valores,
         PonerEnVentana(Sin(pila, k), v), cap' = cap, capturas' \in Seq(Valores)
  PROVE  Inv'
<1>1. /\ cap \in Nat /\ vuelo = NADA /\ pila \in Seq(Valores) /\ perdida \in BOOLEAN
      /\ ventana \in Ventanas
  BY VentanaTipo DEF Inv, TipoLlamadas
<1>2. PICK i \in Nat, z \in Nat : /\ ventana = [idc |-> i, tam |-> z] /\ i = sobra
                                  /\ Len(pila) = i + z /\ (perdida <=> i # 0) /\ k <= z
  BY VentanaTipo, VentanaJusta DEF PonerEnVentana
<1>3. PICK r \in Seq(Valores) : r = Sin(pila, k) /\ Len(r) = i + z - k
  <2>1. k \in 0..Len(pila)
    BY <1>2
  <2>2. Sin(pila, k) \in Seq(Valores) /\ Len(Sin(pila, k)) = Len(pila) - k
    BY <1>1, <2>1, Cortes
  <2> QED
    BY <1>2, <2>2
<1>4. CASE Len(r) < cap /\ ~\E e \in Nat : Terminado("desbordado", e)
  <2>0. Append(r, v) \in Seq(Valores) /\ Len(Append(r, v)) = Len(r) + 1
    OBVIOUS
  <2>1. PICK t \in Seq(Valores) : t = Append(r, v) /\ Len(t) = Len(r) + 1
    BY <2>0
  <2>2. PICK n \in Nat : n = z - k + 1
    BY <1>2
  <2>3. [ventana EXCEPT !.tam = Len(r) + 1 - ventana.idc] = [idc |-> i, tam |-> n]
    <3>1. Len(r) + 1 - ventana.idc = n
      BY <1>2, <1>3, <2>2
    <3> QED
      BY <1>2, <3>1
  <2>4. /\ Pila(t, 0) /\ ventana' = [idc |-> i, tam |-> n] /\ vuelo' = NADA
        /\ UNCHANGED <<fin, perdida, sobra>>
    <3>1. PonerEnVentana(r, v)
      BY ONLY <1>3, PonerEnVentana(Sin(pila, k), v)
    <3>2. ~(Len(r) >= cap) /\ ~Terminado("desbordado", Len(r) + 1)
      BY <1>1, <1>4
    <3> QED
      BY ONLY <1>1, <2>1, <2>3, <3>1, <3>2 DEF PonerEnVentana
  <2>5. cap' \in Nat /\ Len(t) <= cap' /\ Len(t) = i + n
    BY <1>1, <1>2, <1>3, <1>4, <2>1, <2>2
  <2>6. sobra' = i /\ (perdida' <=> i # 0) /\ perdida' \in BOOLEAN
    BY <1>1, <1>2, <2>4
  <2> QED
    BY <2>4, <2>5, <2>6, VentanaInv
<1>5. CASE ~(Len(r) < cap) \/ \E e \in Nat : Terminado("desbordado", e)
  <2>1. PICK e \in Nat : Terminado("desbordado", e)
    <3>1. Len(r) + 1 \in Nat
      OBVIOUS
    <3> QED
      BY <1>3, <1>5, <3>1 DEF PonerEnVentana
  <2>2. PICK como \in {"error", "roto", "desbordado"} : como = "desbordado"
    OBVIOUS
  <2>3. Terminado(como, e)
    BY <2>1, <2>2
  <2> QED
    BY <2>2, <2>3, TerminadoInv
<1> QED
  BY <1>4, <1>5

LEMMA EmpujarInv ==
  ASSUME Inv, NEW v \in Valores, Empujar(v)
  PROVE  Inv'
<1>1. EnFFI /\ PonerEnVentana(pila, v) /\ UNCHANGED <<cap, capturas>>
  BY DEF Empujar
<1>2. pila \in Seq(Valores) /\ capturas \in Seq(Valores)
  BY DEF Inv, TipoLlamadas
<1>3. PICK k \in Nat : k = 0 /\ k <= ventana.tam
  BY <1>1, VentanaTipo
<1>4. Sin(pila, k) = pila
  BY <1>2, <1>3, SinNada
<1> QED
  BY <1>1, <1>2, <1>3, <1>4, PonerEnVentanaInv

LEMMA ExtenderFFIInv ==
  ASSUME Inv, NEW n \in Nat, ExtenderFFI(n)
  PROVE  Inv'
<1>1. /\ EnFFI /\ vuelo = NADA /\ perdida \in BOOLEAN
      /\ cap \in Nat /\ tope \in Nat /\ Len(pila) <= tope /\ tope <= cap
  BY VentanaTipo DEF ExtenderFFI, Inv, TipoLlamadas
<1>2. PICK i \in Nat, z \in Nat : /\ ventana = [idc |-> i, tam |-> z] /\ i = sobra
                                  /\ Len(pila) = i + z /\ (perdida <=> i # 0)
  BY VentanaTipo, VentanaJusta DEF ExtenderFFI
<1>3. cap' \in Nat /\ cap <= cap'
  <2>1. PICK l \in Nat : l = Len(pila)
    BY <1>2
  <2>2. Extender(cap, l, n) \in Nat /\ Extender(cap, l, n) >= cap
    BY <1>1, ExtenderNatural
  <2> QED
    BY <2>1, <2>2 DEF ExtenderFFI
<1>4. PICK m \in Nat : m = z + n
  OBVIOUS
<1>5. ventana' = [idc |-> i, tam |-> m]
  BY <1>2, <1>4 DEF ExtenderFFI
<1>6. ventana' \in Ventanas /\ ventana' # NADA
  BY <1>5, VentanaValida
<1>7. /\ perdida' = (perdida \/ n > 0)
      /\ UNCHANGED <<pila, tope, vuelo, capturas, fin, sobra>>
  BY DEF ExtenderFFI
<1>8. perdida' <=> ventana' # [idc |-> 0, tam |-> Len(pila)]
  <2>1. ventana' = [idc |-> 0, tam |-> Len(pila)] <=> i = 0 /\ m = i + z
    BY <1>2, <1>5
  <2>2. m = i + z /\ i = 0 <=> i = 0 /\ ~(n > 0)
    BY <1>4
  <2>3. perdida' <=> i # 0 \/ n > 0
    BY ONLY <1>2, <1>7
  <2> QED
    BY ONLY <2>1, <2>2, <2>3
<1>9. perdida' \in BOOLEAN
  BY ONLY <1>7
<1>10. ventana'.idc = i /\ ventana'.tam = m /\ i <= Len(pila) /\ Len(pila) <= i + m
  BY <1>2, <1>4, <1>5
<1>11. Ocupada'
  BY <1>1, <1>2, <1>6, <1>7, <1>8, <1>10 DEF Ocupada, EnCuerpo
<1>12. TipoLlamadas' /\ HayLugar'
  BY <1>1, <1>3, <1>6, <1>7, <1>9 DEF Inv, TipoLlamadas, HayLugar
<1> QED
  BY <1>11, <1>12 DEF Inv

LEMMA EmpujarClosureInv ==
  ASSUME Inv, NEW k \in Nat, EmpujarClosure(k)
  PROVE  Inv'
<1>1. EnFFI /\ Verifica /\ pila \in Seq(Valores) /\ k <= ventana.tam /\ ventana.tam \in Nat
  BY VentanaTipo DEF EmpujarClosure, PonerEnVentana
<1>2. Ultimos(pila, k) \in Seq(Valores)
  <2>1. k \in 0..Len(pila)
    BY <1>1, VentanaTipo, VentanaJusta
  <2> QED
    BY <1>1, <2>1, Cortes
<1>3. PonerEnVentana(Sin(pila, k), FFI) /\ cap' = cap /\ capturas' \in Seq(Valores)
  BY <1>2 DEF EmpujarClosure
<1>4. FFI \in Valores
  BY SonValores
<1> QED
  BY <1>1, <1>3, <1>4, PonerEnVentanaInv

LEMMA DevolverFFIInv ==
  ASSUME Inv, DevolverFFI
  PROVE  Inv'
<1>1. /\ EnFFI /\ fin = "no" /\ vuelo = NADA /\ pila \in Seq(Valores)
      /\ cap \in Nat /\ Len(pila) \in Nat /\ Len(pila) <= cap
  BY VentanaTipo DEF DevolverFFI, EnFFI
<1>2. PICK i \in Nat, z \in Nat : /\ ventana = [idc |-> i, tam |-> z] /\ i = sobra
                                  /\ Len(pila) = i + z
  BY VentanaTipo, VentanaJusta DEF DevolverFFI
<1>3. CASE ventana.tam > 0 /\ ~Acabar("error")
  <2>1. PICK s \in Seq(Valores) : s = SubSeq(pila, 1, i) /\ Len(s) = i
    <3>1. i \in 0..Len(pila)
      BY <1>2
    <3>2. SubSeq(pila, 1, i) \in Seq(Valores) /\ Len(SubSeq(pila, 1, i)) = i
      BY <1>1, <3>1, Inicio
    <3> QED
      BY <3>2
  <2>2. pila' = s /\ tope' = Mayor(Len(s), i + 1)
    BY <1>2, <1>3, <2>1 DEF DevolverFFI, Pila
  <2>3. tope' = i + 1 /\ i + 1 <= cap
    BY <1>1, <1>2, <1>3, <2>1, <2>2 DEF Mayor
  <2>4. vuelo' = NADA /\ ventana' = NADA /\ ~perdida' /\ perdida' \in BOOLEAN
        /\ UNCHANGED <<cap, capturas, fin, sobra>>
    BY <1>1, <1>3 DEF DevolverFFI
  <2>5. Ocupada'
    BY <1>2, <2>1, <2>2, <2>4 DEF Ocupada
  <2>6. TipoLlamadas' /\ HayLugar'
    BY <1>1, <2>1, <2>2, <2>3, <2>4 DEF Inv, TipoLlamadas, HayLugar
  <2> QED
    BY <2>5, <2>6 DEF Inv
<1>4. CASE ~(ventana.tam > 0) \/ Acabar("error")
  <2>1. Acabar("error") /\ cap' = cap /\ capturas' = capturas
    BY <1>4 DEF DevolverFFI
  <2> QED
    BY <2>1, AcabarInv
<1> QED
  BY <1>3, <1>4

LEMMA FallarFFIInv ==
  ASSUME Inv, FallarFFI
  PROVE  Inv'
<1>1. Acabar("error") /\ cap' = cap /\ capturas' = capturas
  BY DEF FallarFFI
<1> QED
  BY <1>1, AcabarInv

LEMMA TerminarInv ==
  ASSUME Inv, Terminar
  PROVE  Inv'
<1>1. /\ EnCuerpo /\ pila \in Seq(Valores) /\ cap \in Nat /\ ~perdida
      /\ vuelo = NADA /\ ventana = NADA /\ NULO \in Valores
  BY CuerpoTipo, SonValores DEF Terminar, Sigue, EnCuerpo
<1>2. PICK s \in Seq(Valores), l \in Nat : s = Append(pila, NULO) /\ Len(s) = l + 1 /\ l = Len(pila)
  <2>1. /\ Append(pila, NULO) \in Seq(Valores) /\ Len(Append(pila, NULO)) = Len(pila) + 1
        /\ Len(pila) \in Nat
    BY <1>1
  <2> QED
    BY <2>1
<1>3. pila' = s /\ tope' = l + 1
  BY <1>2 DEF Terminar, Pila, Mayor
<1>4. cap' \in Nat /\ cap' >= l + 1
  <2>1. PICK u \in Nat : u = 1
    OBVIOUS
  <2>2. Extender(cap, l, u) \in Nat /\ Extender(cap, l, u) >= l + u
    BY <1>1, ExtenderNatural
  <2> QED
    BY <1>2, <2>1, <2>2 DEF Terminar
<1>5. fin' = "ok" /\ UNCHANGED <<vuelo, ventana, capturas, perdida, sobra>>
  BY DEF Terminar, historia
<1>6. Ocupada'
  BY <1>1, <1>5 DEF Ocupada, EnCuerpo
<1>7. TipoLlamadas' /\ HayLugar'
  BY <1>2, <1>3, <1>4, <1>5 DEF Inv, TipoLlamadas, HayLugar
<1> QED
  BY <1>6, <1>7 DEF Inv

-------------------------------------------------------------------------------
LEMMA InicioInv == ASSUME Init PROVE Inv
<1>1. <<>> \in Seq(Valores) /\ Len(<<>>) = 0
  OBVIOUS
<1>2. TipoLlamadas
  BY <1>1 DEF Init, TipoLlamadas
<1>3. Len(pila) = 0 /\ vuelo = NADA /\ ventana = NADA /\ ~perdida /\ sobra = 0
  BY <1>1 DEF Init
<1>4. Ocupada
  BY ONLY <1>3 DEF Ocupada
<1>5. HayLugar
  BY <1>1 DEF Init, HayLugar
<1> QED
  BY <1>2, <1>4, <1>5 DEF Inv

LEMMA PasoInv ==
  ASSUME Inv, [Next]_vars
  PROVE  Inv'
<1>1. ASSUME NEW d \in Destinos PROVE d[1] \in Valores /\ d[2] \in Valores
  BY <1>1, SonValores
<1>2. \A yo \in Objetos, msj \in Mensajes : yo \in Valores /\ msj \in Valores
  BY SonValores
<1>3. NULO \in Valores /\ 0..1 \subseteq Nat
  BY SonValores
<1>4. CASE UNCHANGED vars
  BY <1>4 DEF vars, historia, Inv, TipoLlamadas, Ocupada, HayLugar, EnCuerpo
<1>5. CASE Next
  BY <1>1, <1>2, <1>3, <1>5, LlamarFijaInv, LlamarVariadicaInv, SeguirInv, ParamsInv,
     EnviarAMetodoInv, EnviarANoEncontradoInv, EnviarMensajeInv, SinRespuestaInv,
     InvocarFFIInv, FuncionDeClosureInv, EmpujarInv, ExtenderFFIInv, EmpujarClosureInv,
     DevolverFFIInv, FallarFFIInv, TerminarInv DEF Next
<1> QED
  BY <1>4, <1>5

\* What is invariant of calls and of the stack of the context.
THEOREM InvSiempre == Spec => []Inv
<1>1. Init => Inv
  BY InicioInv
<1>2. Inv /\ [Next]_vars => Inv'
  BY PasoInv
<1> QED
  BY <1>1, <1>2, PTL DEF Spec

\* Type correctness: every receiver gets six registers, whatever was passed.
THEOREM TipoLlamadasSiempre == Spec => []TipoLlamadas
<1>1. Inv => TipoLlamadas
  BY DEF Inv
<1> QED
  BY <1>1, InvSiempre, PTL

\* A body finds the stack of the context as it was, for any number of arguments, but
\* for the 6 - n values that a closure of C called with n < 6 arguments leaves.
THEOREM PilaSiempre == Spec => []PilaBalanceada
<1>1. Inv => PilaBalanceada
  BY DEF Inv, Ocupada, PilaBalanceada
<1> QED
  BY <1>1, InvSiempre, PTL

\* Nobody writes past the memory of the stack of the context, but a foreign function
\* that pushes without having asked for room.
THEOREM SinDesbordarSiempre == Spec => []SinDesbordar
<1>1. Inv => SinDesbordar
  BY DEF Inv, TipoLlamadas, HayLugar, SinDesbordar
<1> QED
  BY <1>1, InvSiempre, PTL

-------------------------------------------------------------------------------
(* The arguments arrive.                                                   *)

\* A message in flight has the n arguments of the list l: six in the registers a
\* and the others in the stack s.
Lleva(l, n, a, s) ==
  /\ n = Len(l) /\ \A i \in 1..6 : i <= n => a[i] = l[i]
  /\ Len(s) = EnPila(n) /\ \A i \in 1..Len(s) : s[i] = l[i + 6]

\* A window that is in the stack has as many values as the list.
Medida == EnFFI /\ Verifica => Len(lista) = ventana.tam

\* What the arguments add to the invariant: they are values, and they are the
\* ones the program passed unless a step lost them.
Llegan == Entrega /\ lista \in Seq(Valores) /\ Medida
InvEntrega == Inv /\ Llegan

LEMMA RestoPuntos ==
  ASSUME NEW l \in Seq(Valores)
  PROVE  /\ Resto(l) \in Seq(Valores) /\ Len(Resto(l)) = EnPila(Len(l))
         /\ \A i \in 1..Len(Resto(l)) : Resto(l)[i] = l[i + 6]
<1>1. Resto(l) \in Seq(Valores) /\ Len(Resto(l)) = EnPila(Len(l))
  BY RegistrosYResto
<1>2. PICK n \in Nat : n = Len(l)
  OBVIOUS
<1>3. \A i \in 7..n : l[i] \in Valores
  BY <1>2
<1>4. PICK d \in Int, e \in Int : d = 7 /\ e = n
  OBVIOUS
<1>5. \A i \in d..e : l[i] \in Valores
  BY <1>3, <1>4
<1>6. \A i \in 1..e - d + 1 : SubSeq(l, d, e)[i] = l[d + i - 1]
  BY <1>5, SubSeqProperties
<1>7. Resto(l) = SubSeq(l, d, e)
  BY <1>2, <1>4 DEF Resto, NN
<1>8. ASSUME NEW i \in 1..Len(Resto(l)) PROVE Resto(l)[i] = l[i + 6]
  <2>1. n >= 6 => EnPila(n) = n - 6
    BY EnPilaNatural
  <2>2. n < 6 => EnPila(n) = 0
    BY EnPilaNatural
  <2>3. i \in 1..e - d + 1 /\ d + i - 1 = i + 6
    BY <1>1, <1>2, <1>4, <2>1, <2>2
  <2> QED
    BY <1>6, <1>7, <2>3
<1> QED
  BY <1>1, <1>8

\* It is the same as what Exacta says of the message.
LEMMA LlevaEs ==
  ASSUME NEW l \in Seq(Valores), NEW n \in Nat, NEW a, NEW s \in Seq(Valores)
  PROVE  Lleva(l, n, a, s) <=> /\ n = Len(l)
                               /\ \A i \in 1..Menor(NN, Len(l)) : a[i] = l[i]
                               /\ s = Resto(l)
<1>1. PICK r \in Seq(Valores) : /\ r = Resto(l) /\ Len(r) = EnPila(Len(l))
                                /\ \A i \in 1..Len(r) : r[i] = l[i + 6]
  BY RestoPuntos
<1>2. (\A i \in 1..Menor(NN, Len(l)) : a[i] = l[i]) <=> \A i \in 1..6 : i <= Len(l) => a[i] = l[i]
  BY DEF Menor, NN
<1>3. ASSUME Lleva(l, n, a, s) PROVE s = r
  <2>1. Len(s) = Len(r) /\ \A i \in 1..Len(s) : s[i] = r[i]
    BY <1>1, <1>3 DEF Lleva
  <2> QED
    BY <2>1, SeqEqual
<1> QED
  BY <1>1, <1>2, <1>3 DEF Lleva

LEMMA RegistrosLlevan ==
  ASSUME NEW l \in Seq(Valores)
  PROVE  Lleva(l, Len(l), Registros(l), Resto(l))
<1>1. \A i \in 1..6 : i <= Len(l) => Registros(l)[i] = l[i]
  BY DEF Registros, NN
<1> QED
  BY <1>1, RestoPuntos DEF Lleva

\* The arguments of a message that arrived right.
LEMMA VueloLleva ==
  ASSUME InvEntrega, fin = "no", ~perdida, vuelo # NADA
  PROVE  Lleva(lista, vuelo.args, vuelo.a, pila)
<1>1. vuelo.args \in Nat /\ pila \in Seq(Valores)
  BY EnvioTipo DEF InvEntrega
<1>0. lista \in Seq(Valores)
  BY DEF InvEntrega, Llegan
<1>2. /\ vuelo.args = Len(lista) /\ pila = Resto(lista)
      /\ \A i \in 1..Menor(NN, Len(lista)) : vuelo.a[i] = lista[i]
  BY DEF InvEntrega, Llegan, Entrega, Exacta
<1> QED
  BY <1>0, <1>1, <1>2, LlevaEs

\* What a step that sends a message has to show.
LEMMA EnviaEntrega ==
  ASSUME NEW n \in Nat, NEW yo \in Valores, NEW msj \in Valores,
         NEW a \in Seq(Valores), Len(a) = NN, Recibe(n, yo, msj, a),
         NEW s \in Seq(Valores), NEW e, Pila(s, e), NEW l \in Seq(Valores), lista' = l,
         ventana' = NADA, fin' = "no", Lleva(l, n, a, s) <=> ~perdida'
  PROVE  Llegan'
<1>1. /\ [args |-> n, yo |-> yo, msj |-> msj, a |-> a] # NADA
  BY EnvioValido
<1>2. vuelo' # NADA /\ vuelo'.args = n /\ vuelo'.a = a /\ pila' = s
  BY <1>1 DEF Recibe, Pila
<1>3. ~EnCuerpo'
  BY <1>2 DEF EnCuerpo
<1>4. Exacta' <=> /\ n = Len(l) /\ \A i \in 1..Menor(NN, Len(l)) : a[i] = l[i]
                  /\ s = Resto(l)
  <2>1. Resto(lista)' = Resto(l) /\ Menor(NN, Len(lista))' = Menor(NN, Len(l))
    BY DEF Resto, Menor, NN
  <2> QED
    BY <1>2, <1>3, <2>1 DEF Exacta
<1>5. Exacta' <=> Lleva(l, n, a, s)
  BY <1>4, LlevaEs
<1>6. Medida'
  BY <1>2 DEF Medida, EnFFI
<1> QED
  BY <1>5, <1>6 DEF Entrega, Llegan

\* A message in flight or a window that lost something is not what was passed.
LEMMA PerdidaEntrega ==
  ASSUME Inv', perdida', lista' \in Seq(Valores), vuelo' # NADA \/ ventana' # NADA
  PROVE  Entrega'
<1>1. CASE vuelo' # NADA
  <2>1. Len(pila') + 1 = EnPila(vuelo'.args) /\ Len(pila') \in Nat
    BY <1>1 DEF Inv, TipoLlamadas, Ocupada
  <2>2. Len(Resto(lista')) = EnPila(Len(lista'))
    BY RegistrosYResto
  <2>3. Len(Resto(lista')) # Len(pila') \/ Len(lista') # vuelo'.args
    BY <2>1, <2>2
  <2>4. Resto(lista)' = Resto(lista')
    BY DEF Resto
  <2>5. ~Exacta'
    BY <1>1, <2>3, <2>4 DEF Exacta
  <2> QED
    BY <2>5 DEF Entrega
<1>2. CASE ventana' # NADA
  <2>1. ventana' # [idc |-> 0, tam |-> Len(pila')]
    BY <1>2 DEF Inv, Ocupada
  <2>2. ~Exacta'
    BY <1>2, <2>1 DEF Exacta
  <2> QED
    BY <2>2 DEF Entrega
<1> QED
  BY <1>1, <1>2

LEMMA TrozoPuntos ==
  ASSUME NEW V, NEW s \in Seq(V), NEW i \in 1..Len(s) + 1, NEW j \in i - 1..Len(s)
  PROVE  \A k \in 1..j - i + 1 : SubSeq(s, i, j)[k] = s[k + i - 1]
<1>1. \A k \in i..j : s[k] \in V
  OBVIOUS
<1>2. \A k \in 1..j - i + 1 : SubSeq(s, i, j)[k] = s[i + k - 1]
  BY <1>1, SubSeqProperties
<1> QED
  BY <1>2

LEMMA DelantePuntos ==
  ASSUME NEW V, NEW t \in Seq(V), NEW s \in Seq(V), Len(t) <= 6, Len(s) = 6
  PROVE  \A i \in 1..6 : (t \o SubSeq(s, 1, 6 - Len(t)))[i] =
                           IF i <= Len(t) THEN t[i] ELSE s[i - Len(t)]
<1>1. PICK u \in 1..Len(s) + 1, j \in 0..Len(s) : u = 1 /\ j = 6 - Len(t)
  OBVIOUS
<1>2. j \in u - 1..Len(s)
  BY <1>1
<1>3. \A k \in 1..j - u + 1 : SubSeq(s, u, j)[k] = s[k + u - 1]
  BY <1>2, TrozoPuntos
<1>4. PICK r \in Seq(V) : r = SubSeq(s, 1, j) /\ Len(r) = j
  BY Inicio
<1>5. \A k \in 1..j : r[k] = s[k]
  BY <1>1, <1>3, <1>4
<1>6. \A i \in 1..Len(t) + Len(r) : (t \o r)[i] = IF i <= Len(t) THEN t[i] ELSE r[i - Len(t)]
  BY ConcatProperties
<1>7. ASSUME NEW i \in 1..6 PROVE (t \o r)[i] = IF i <= Len(t) THEN t[i] ELSE s[i - Len(t)]
  <2>1. i \in 1..Len(t) + Len(r)
    BY <1>1, <1>4
  <2>2. i > Len(t) => i - Len(t) \in 1..j
    BY <1>1
  <2> QED
    BY <1>5, <1>6, <2>1, <2>2, SMTT(30)
<1> QED
  BY <1>1, <1>4, <1>7

\* pdcrt_insertar at the bottom.
LEMMA InsertarPrimero ==
  ASSUME NEW V, NEW s \in Seq(V), NEW e \in V
  PROVE  /\ InsertAt(s, 1, e) \in Seq(V) /\ Len(InsertAt(s, 1, e)) = Len(s) + 1
         /\ InsertAt(s, 1, e)[1] = e
         /\ \A i \in 1..Len(s) : InsertAt(s, 1, e)[i + 1] = s[i]
<1>1. PICK u \in 1..Len(s) + 1 : u = 1
  OBVIOUS
<1>2. InsertAt(s, u, e) \in Seq(V) /\ Len(InsertAt(s, u, e)) = Len(s) + 1
  BY InsertarUno
<1>3. SubSeq(s, 1, 0) = <<>> /\ SubSeq(s, 1, Len(s)) = s
  BY SubSeqFull
<1>4. <<e>> \in Seq(V) /\ Len(<<e>>) = 1 /\ <<e>>[1] = e /\ <<>> \o <<e>> = <<e>>
  OBVIOUS
<1>5. InsertAt(s, 1, e) = <<e>> \o s
  BY <1>3, <1>4 DEF InsertAt
<1>6. PICK w \in Seq(V) : w = <<e>> /\ Len(w) = 1 /\ w[1] = e
  BY <1>4
<1>7. \A i \in 1..Len(w) + Len(s) : (w \o s)[i] = IF i <= Len(w) THEN w[i] ELSE s[i - Len(w)]
  BY ConcatProperties
<1>8. (w \o s)[1] = e /\ \A i \in 1..Len(s) : (w \o s)[i + 1] = s[i]
  BY <1>6, <1>7
<1> QED
  BY <1>1, <1>2, <1>5, <1>6, <1>8

\* One more argument in front.
LEMMA LlevaUnoMas ==
  ASSUME NEW l \in Seq(Valores), NEW n \in Nat, NEW a \in Seq(Valores), Len(a) = 6,
         NEW s \in Seq(Valores), Lleva(l, n, a, s), NEW o \in Valores
  PROVE  Lleva(<<o>> \o l, n + 1, <<o>> \o SubSeq(a, 1, 5),
               IF n >= 6 THEN InsertAt(s, 1, a[6]) ELSE s)
<1>1. PICK w \in Seq(Valores) : w = <<o>> /\ Len(w) = 1 /\ w[1] = o
  <2>1. <<o>> \in Seq(Valores) /\ Len(<<o>>) = 1 /\ <<o>>[1] = o
    OBVIOUS
  <2> QED
    BY <2>1
<1>2. PICK m \in Seq(Valores) : m = w \o l /\ Len(m) = n + 1
  <2>1. w \o l \in Seq(Valores) /\ Len(w \o l) = Len(w) + Len(l)
    BY Union
  <2>2. n = Len(l) /\ Len(w) = 1
    BY <1>1 DEF Lleva
  <2>3. Len(w \o l) = n + 1
    BY ONLY <2>1, <2>2, n \in Nat
  <2> QED
    BY ONLY <2>1, <2>3
<1>3. m[1] = o /\ \A i \in 1..n : m[i + 1] = l[i]
  <2>1. \A i \in 1..Len(w) + Len(l) : (w \o l)[i] = IF i <= Len(w) THEN w[i] ELSE l[i - Len(w)]
    BY ConcatProperties
  <2> QED
    BY <1>1, <1>2, <2>1 DEF Lleva
<1>4. PICK b : /\ b = <<o>> \o SubSeq(a, 1, 5)
               /\ b[1] = o /\ \A i \in 1..5 : b[i + 1] = a[i]
  <2>1. \A i \in 1..6 : (w \o SubSeq(a, 1, 6 - Len(w)))[i] =
                           IF i <= Len(w) THEN w[i] ELSE a[i - Len(w)]
    BY <1>1, DelantePuntos
  <2>2. \A i \in 1..6 : (w \o SubSeq(a, 1, 5))[i] = IF i <= 1 THEN o ELSE a[i - 1]
    BY <1>1, <2>1
  <2>3. PICK b : b = w \o SubSeq(a, 1, 5)
    OBVIOUS
  <2>4. b[1] = o
    BY <2>2, <2>3
  <2>5. ASSUME NEW i \in 1..5 PROVE b[i + 1] = a[i]
    <3>1. PICK j \in 1..6 : j = i + 1 /\ j - 1 = i /\ ~(j <= 1)
      OBVIOUS
    <3>2. b[j] = IF j <= 1 THEN o ELSE a[j - 1]
      BY <2>2, <2>3
    <3> QED
      BY <3>1, <3>2
  <2> QED
    BY <1>1, <2>3, <2>4, <2>5
<1>5. \A i \in 1..6 : i <= n + 1 => b[i] = m[i]
  <2>1. ASSUME NEW i \in 1..6, i <= n + 1 PROVE b[i] = m[i]
    <3>1. CASE i = 1
      BY <1>3, <1>4, <3>1
    <3>2. CASE i # 1
      <4>1. PICK j \in 1..5 : j = i - 1 /\ j \in 1..n /\ j + 1 = i
        BY <2>1, <3>2
      <4>2. b[j + 1] = a[j] /\ m[j + 1] = l[j] /\ a[j] = l[j]
        BY <1>3, <1>4, <4>1 DEF Lleva
      <4> QED
        BY <4>1, <4>2
    <3> QED
      BY <3>1, <3>2
  <2> QED
    BY <2>1
<1>6. CASE n >= 6
  <2>1. PICK e \in Valores : e = a[6] /\ a[6] = l[6]
    BY <1>6 DEF Lleva
  <2>2. PICK t \in Seq(Valores) : /\ t = InsertAt(s, 1, a[6]) /\ Len(t) = Len(s) + 1
                                  /\ t[1] = a[6] /\ \A i \in 1..Len(s) : t[i + 1] = s[i]
    <3>1. /\ InsertAt(s, 1, e) \in Seq(Valores) /\ Len(InsertAt(s, 1, e)) = Len(s) + 1
          /\ InsertAt(s, 1, e)[1] = e
          /\ \A i \in 1..Len(s) : InsertAt(s, 1, e)[i + 1] = s[i]
      BY InsertarPrimero
    <3> QED
      BY <2>1, <3>1
  <2>3. Len(s) = n - 6 /\ Len(t) = EnPila(n + 1)
    <3>1. PICK k \in Nat : k = n + 1
      OBVIOUS
    <3>2. EnPila(k) = k - 6 /\ EnPila(n) = n - 6
      BY <1>6, <3>1, EnPilaNatural
    <3> QED
      BY <2>2, <3>1, <3>2 DEF Lleva
  <2>4. ASSUME NEW i \in 1..Len(t) PROVE t[i] = m[i + 6]
    <3>1. CASE i = 1
      <4>1. m[7] = l[6]
        BY <1>3, <1>6
      <4> QED
        BY <2>1, <2>2, <3>1, <4>1
    <3>2. CASE i # 1
      <4>1. PICK j \in 1..Len(s) : j = i - 1 /\ j + 1 = i /\ j + 6 \in 1..n /\ j + 6 + 1 = i + 6
        BY <2>2, <2>3, <3>2
      <4>2. t[i] = s[j] /\ s[j] = l[j + 6]
        BY <2>2, <4>1 DEF Lleva
      <4>3. m[i + 6] = l[j + 6]
        BY <1>3, <4>1
      <4> QED
        BY <4>2, <4>3
    <3> QED
      BY <3>1, <3>2
  <2>5. Lleva(m, n + 1, b, t)
    BY <1>2, <1>5, <2>3, <2>4 DEF Lleva
  <2> QED
    BY <1>1, <1>2, <1>4, <1>6, <2>2, <2>5
<1>7. CASE n < 6
  <2>1. Len(s) = 0 /\ EnPila(n + 1) = 0
    BY <1>7, EnPilaNatural DEF Lleva
  <2>2. Lleva(m, n + 1, b, s)
    BY <1>2, <1>5, <2>1 DEF Lleva
  <2> QED
    BY <1>1, <1>2, <1>4, <1>7, <2>2
<1> QED
  BY <1>6, <1>7

\* Two more.  If they are five or six, the fifth or the sixth is not in the stack.
LEMMA LlevaDosMas ==
  ASSUME NEW l \in Seq(Valores), NEW n \in Nat, NEW a \in Seq(Valores), Len(a) = 6,
         NEW s \in Seq(Valores), Lleva(l, n, a, s), NEW o \in Valores, NEW msj \in Valores,
         NEW con6, con6 = IF n >= 7 THEN InsertAt(s, 1, a[6]) ELSE s,
         NEW t, t = IF n >= 6 THEN InsertAt(con6, 1, a[5]) ELSE con6
  PROVE  Lleva(<<o, msj>> \o l, n + 2, <<o, msj>> \o SubSeq(a, 1, 4), t) <=> n \notin {5, 6}
<1>1. PICK w \in Seq(Valores) : w = <<o, msj>> /\ Len(w) = 2 /\ w[1] = o /\ w[2] = msj
  <2>1. /\ <<o, msj>> \in Seq(Valores) /\ Len(<<o, msj>>) = 2
        /\ <<o, msj>>[1] = o /\ <<o, msj>>[2] = msj
    OBVIOUS
  <2> QED
    BY <2>1
<1>2. PICK m \in Seq(Valores) : m = w \o l /\ Len(m) = n + 2
  <2>1. w \o l \in Seq(Valores) /\ Len(w \o l) = Len(w) + Len(l)
    BY Union
  <2>2. n = Len(l) /\ Len(w) = 2
    BY <1>1 DEF Lleva
  <2>3. Len(w \o l) = n + 2
    BY ONLY <2>1, <2>2, n \in Nat
  <2> QED
    BY ONLY <2>1, <2>3
<1>3. m[1] = o /\ m[2] = msj /\ \A i \in 1..n : m[i + 2] = l[i]
  <2>1. \A i \in 1..Len(w) + Len(l) : (w \o l)[i] = IF i <= Len(w) THEN w[i] ELSE l[i - Len(w)]
    BY ConcatProperties
  <2> QED
    BY <1>1, <1>2, <2>1 DEF Lleva
<1>4. PICK b : /\ b = <<o, msj>> \o SubSeq(a, 1, 4)
               /\ b[1] = o /\ b[2] = msj /\ \A i \in 1..4 : b[i + 2] = a[i]
  <2>1. \A i \in 1..6 : (w \o SubSeq(a, 1, 6 - Len(w)))[i] =
                           IF i <= Len(w) THEN w[i] ELSE a[i - Len(w)]
    BY <1>1, DelantePuntos
  <2>2. \A i \in 1..6 : (w \o SubSeq(a, 1, 4))[i] = IF i <= 2 THEN w[i] ELSE a[i - 2]
    BY <1>1, <2>1
  <2>3. PICK b : b = w \o SubSeq(a, 1, 4)
    OBVIOUS
  <2>4. b[1] = o /\ b[2] = msj /\ \A i \in 1..4 : b[i + 2] = a[i]
    BY <1>1, <2>2, <2>3
  <2> QED
    BY <1>1, <2>3, <2>4
<1>5. \A i \in 1..6 : i <= n + 2 => b[i] = m[i]
  <2>1. ASSUME NEW i \in 1..6, i <= n + 2 PROVE b[i] = m[i]
    <3>1. CASE i \in 1..2
      BY <1>3, <1>4, <3>1
    <3>2. CASE i \notin 1..2
      <4>1. PICK j \in 1..4 : j = i - 2 /\ j \in 1..n /\ j + 2 = i
        BY <2>1, <3>2
      <4>2. b[j + 2] = a[j] /\ m[j + 2] = l[j] /\ a[j] = l[j]
        BY <1>3, <1>4, <4>1 DEF Lleva
      <4> QED
        BY <4>1, <4>2
    <3> QED
      BY <3>1, <3>2
  <2> QED
    BY <2>1
<1>6. PICK k \in Nat : k = n + 2
  OBVIOUS
<1>7. /\ n <= 6 => EnPila(n) = 0
      /\ n >= 6 => EnPila(n) = n - 6
      /\ k <= 6 => EnPila(k) = 0
      /\ k >= 6 => EnPila(k) = k - 6
  BY EnPilaNatural
<1>8. CASE n >= 7
  <2>1. PICK e \in Valores, d \in Valores : e = a[6] /\ a[6] = l[6] /\ d = a[5] /\ a[5] = l[5]
    BY <1>8 DEF Lleva
  <2>2. /\ con6 \in Seq(Valores) /\ Len(con6) = Len(s) + 1
        /\ con6[1] = a[6] /\ \A i \in 1..Len(s) : con6[i + 1] = s[i]
    <3>1. /\ InsertAt(s, 1, e) \in Seq(Valores) /\ Len(InsertAt(s, 1, e)) = Len(s) + 1
          /\ InsertAt(s, 1, e)[1] = e
          /\ \A i \in 1..Len(s) : InsertAt(s, 1, e)[i + 1] = s[i]
      BY InsertarPrimero
    <3>2. con6 = InsertAt(s, 1, e)
      BY <1>8, <2>1
    <3> QED
      BY <2>1, <3>1, <3>2
  <2>3. /\ t \in Seq(Valores) /\ Len(t) = Len(con6) + 1
        /\ t[1] = a[5] /\ \A i \in 1..Len(con6) : t[i + 1] = con6[i]
    <3>1. PICK c \in Seq(Valores) : c = con6
      BY <2>2
    <3>2. /\ InsertAt(c, 1, d) \in Seq(Valores) /\ Len(InsertAt(c, 1, d)) = Len(c) + 1
          /\ InsertAt(c, 1, d)[1] = d
          /\ \A i \in 1..Len(c) : InsertAt(c, 1, d)[i + 1] = c[i]
      BY InsertarPrimero
    <3>3. t = InsertAt(c, 1, d)
      BY <1>8, <2>1, <3>1
    <3> QED
      BY <2>1, <3>1, <3>2, <3>3
  <2>4. Len(s) = n - 6 /\ Len(t) = EnPila(k)
    BY <1>6, <1>7, <1>8, <2>2, <2>3 DEF Lleva
  <2>5. t[2] = a[6] /\ \A i \in 1..Len(s) : t[i + 2] = s[i]
    <3>1. t[1 + 1] = con6[1] /\ 1 + 1 = 2
      BY <2>2, <2>3
    <3>2. ASSUME NEW i \in 1..Len(s) PROVE t[i + 2] = s[i]
      <4>1. PICK j \in 1..Len(con6) : j = i + 1 /\ j + 1 = i + 2
        BY <2>2, SMTT(30)
      <4>2. t[j + 1] = con6[j] /\ con6[i + 1] = s[i]
        BY <2>2, <2>3
      <4> QED
        BY <4>1, <4>2
    <3> QED
      BY <2>2, <3>1, <3>2
  <2>6. ASSUME NEW i \in 1..Len(t) PROVE t[i] = m[i + 6]
    <3>1. CASE i \in 1..2
      <4>1. m[7] = l[5] /\ m[8] = l[6]
        <5>1. PICK x \in 1..n, y \in 1..n : x = 5 /\ y = 6
          BY <1>8
        <5>2. m[x + 2] = l[x] /\ m[y + 2] = l[y]
          BY <1>3
        <5> QED
          BY <5>1, <5>2
      <4> QED
        BY <2>1, <2>3, <2>5, <3>1, <4>1
    <3>2. CASE i \notin 1..2
      <4>1. PICK j \in 1..Len(s) : j = i - 2 /\ j + 2 = i /\ j + 6 \in 1..n /\ j + 6 + 2 = i + 6
        BY <2>2, <2>3, <2>4, <3>2
      <4>2. t[i] = s[j] /\ s[j] = l[j + 6]
        BY <2>5, <4>1 DEF Lleva
      <4>3. m[i + 6] = l[j + 6]
        BY <1>3, <4>1
      <4> QED
        BY <4>2, <4>3
    <3> QED
      BY <3>1, <3>2
  <2>7. Lleva(m, n + 2, b, t)
    BY <1>2, <1>5, <1>6, <2>4, <2>6 DEF Lleva
  <2> QED
    BY <1>1, <1>2, <1>4, <1>8, <2>7
<1>9. CASE n < 5
  <2>1. t = s /\ Len(s) = 0 /\ EnPila(k) = 0
    BY <1>6, <1>7, <1>9 DEF Lleva
  <2>2. Lleva(m, n + 2, b, t)
    BY <1>2, <1>5, <1>6, <2>1 DEF Lleva
  <2> QED
    BY <1>1, <1>2, <1>4, <1>9, <2>2
<1>10. CASE n \in {5, 6}
  <2>1. con6 = s /\ Len(s) = 0
    <3>1. ~(n >= 7) /\ n <= 6
      BY <1>10
    <3> QED
      BY <1>7, <3>1 DEF Lleva
  <2>2. Len(t) = n - 5
    <3>1. CASE n = 5
      BY <2>1, <3>1
    <3>2. CASE n = 6
      <4>1. PICK e \in Valores : e = a[5]
        <5>1. \A i \in 1..Len(a) : a[i] \in Valores
          BY ElementOfSeq
        <5> QED
          BY <5>1
      <4>2. Len(InsertAt(s, 1, e)) = Len(s) + 1
        BY InsertarPrimero
      <4> QED
        BY <2>1, <3>2, <4>1, <4>2
    <3> QED
      BY <1>10, <3>1, <3>2
  <2>3. EnPila(n + 2) = n - 4
    BY <1>6, <1>7, <1>10
  <2>4. Len(t) # EnPila(n + 2)
    BY <2>2, <2>3
  <2>5. ~Lleva(<<o, msj>> \o l, n + 2, <<o, msj>> \o SubSeq(a, 1, 4), t)
    BY ONLY <2>4 DEF Lleva
  <2> QED
    BY ONLY <1>10, <2>5
<1> QED
  BY <1>8, <1>9, <1>10

-------------------------------------------------------------------------------

\* The process ends, or its memory means nothing.
LEMMA TerminadoEntrega ==
  ASSUME NEW como \in {"error", "roto", "desbordado"}, NEW e, Terminado(como, e)
  PROVE  Llegan'
<1>1. /\ fin' = como /\ vuelo' = NADA /\ ventana' = NADA /\ lista' = <<>>
      /\ perdida' = (como # "error")
  BY DEF Terminado
<1>2. ~EnCuerpo' /\ ~EnFFI'
  BY <1>1 DEF EnCuerpo, EnFFI
<1>3. Exacta' <=> como = "error"
  BY <1>1, <1>2 DEF Exacta
<1>4. perdida' <=> como # "error"
  BY ONLY <1>1
<1>5. Entrega'
  BY ONLY <1>3, <1>4 DEF Entrega
<1>6. <<>> \in Seq(Valores)
  OBVIOUS
<1> QED
  BY <1>1, <1>2, <1>5, <1>6 DEF Llegan, Medida

LEMMA AcabarEntrega ==
  ASSUME NEW como \in {"error", "roto"}, Acabar(como)
  PROVE  Llegan'
<1>1. Terminado(como, 0) /\ como \in {"error", "roto", "desbordado"}
  BY DEF Acabar
<1> QED
  BY <1>1, TerminadoEntrega

LEMMA LlamarFijaEntrega ==
  ASSUME InvEntrega, NEW yo \in Valores, NEW msj \in Valores, NEW s \in Fijas,
         LlamarFija(yo, msj, s)
  PROVE  Llegan'
<1>1. s \in Seq(Valores) /\ Len(s) \in Nat
  BY SonValores
<1>2. pila = <<>>
  BY LlamaTipo DEF LlamarFija, InvEntrega
<1>3. pila \o Resto(s) = Resto(s)
  BY <1>1, <1>2, RegistrosYResto
<1>4. Recibe(Len(s), yo, msj, Registros(s)) /\ Pila(Resto(s), 0) /\ lista' = s
  BY <1>3 DEF LlamarFija
<1>5. ventana' = NADA /\ fin' = "no" /\ ~perdida'
  BY LlamaTipo DEF LlamarFija, InvEntrega
<1>6. Lleva(s, Len(s), Registros(s), Resto(s))
  BY <1>1, RegistrosLlevan
<1>7. /\ Registros(s) \in Seq(Valores) /\ Len(Registros(s)) = NN
      /\ Resto(s) \in Seq(Valores)
  BY <1>1, RegistrosYResto
<1> QED
  BY <1>1, <1>4, <1>5, <1>6, <1>7, EnviaEntrega

LEMMA LlamarVariadicaEntrega ==
  ASSUME InvEntrega, NEW yo \in Valores, NEW msj \in Valores, NEW s \in Variadicas,
         LlamarVariadica(yo, msj, s)
  PROVE  Llegan'
<1>1. PICK t \in Seq(Valores) : t = Expandida(s)
  BY SonValores, ExpandidaTipo
<1>2. pila = <<>> /\ Len(pila) = 0
  BY LlamaTipo DEF LlamarVariadica, InvEntrega
<1>3. pila \o Expandida(s) = t
  BY <1>1, <1>2
<1>4. PICK n \in Nat : n = Len(t)
  OBVIOUS
<1> DEFINE regs == [i \in 1..NN |-> IF i <= n THEN t[i] ELSE NULO]
           resto == IF n <= NN THEN Sin(t, n) ELSE SubSeq(t, 1, 0) \o Ultimos(t, n - NN)
<1>5. /\ Recibe(n, yo, msj, regs) /\ Pila(resto, Mayor(Len(pila) + Len(s), n + 1))
      /\ lista' = t
  BY <1>1, <1>2, <1>3, <1>4 DEF LlamarVariadica
<1>6. regs = Registros(t)
  BY <1>4 DEF Registros
<1>7. resto = Resto(t)
  <2>1. CASE n <= 6
    <3>1. Sin(t, n) = <<>>
      BY <1>4 DEF Sin
    <3>2. Resto(t) = <<>>
      BY <1>4, <2>1 DEF Resto, NN
    <3> QED
      BY <2>1, <3>1, <3>2 DEF NN
  <2>2. CASE n > 6
    <3>1. Ultimos(t, n - 6) = Resto(t)
      <4>1. n - (n - 6) + 1 = 7
        OBVIOUS
      <4> QED
        BY <1>4, <4>1 DEF Ultimos, Resto, NN
    <3>2. SubSeq(t, 1, 0) = <<>>
      OBVIOUS
    <3>3. <<>> \o Resto(t) = Resto(t)
      BY RegistrosYResto, VaciaMas
    <3>4. resto = SubSeq(t, 1, 0) \o Ultimos(t, n - 6)
      BY <2>2 DEF NN
    <3> QED
      BY ONLY <3>1, <3>2, <3>3, <3>4
  <2> QED
    BY <2>1, <2>2
<1>8. ventana' = NADA /\ fin' = "no" /\ ~perdida'
  BY LlamaTipo DEF LlamarVariadica, InvEntrega
<1>9. Lleva(t, n, regs, resto)
  <2> HIDE DEF regs, resto
  <2> QED
    BY <1>4, <1>6, <1>7, RegistrosLlevan
<1> HIDE DEF regs, resto
<1>10. /\ regs \in Seq(Valores) /\ Len(regs) = NN
       /\ resto \in Seq(Valores)
  BY <1>6, <1>7, RegistrosYResto
<1> QED
  BY <1>5, <1>8, <1>9, <1>10, EnviaEntrega

LEMMA SeguirEntrega ==
  ASSUME InvEntrega, Seguir
  PROVE  Llegan'
<1>1. /\ fin' = "no" /\ ~perdida' /\ vuelo' = NADA /\ ventana' = NADA
      /\ locales' = <<>> /\ lista' = <<>>
  BY CuerpoTipo DEF Seguir, EnCuerpo, InvEntrega
<1>2. Exacta'
  BY <1>1, AplanarNada DEF Exacta
<1>3. <<>> \in Seq(Valores)
  OBVIOUS
<1>4. ~EnFFI'
  BY <1>1 DEF EnFFI
<1> QED
  BY <1>1, <1>2, <1>3, <1>4 DEF Entrega, Llegan, Medida

LEMMA EnviarAMetodoEntrega ==
  ASSUME InvEntrega, NEW o \in Valores, NEW msj \in Valores, EnviarAMetodo(o, msj)
  PROVE  Llegan'
<1>1. Inv /\ fin = "no" /\ vuelo # NADA
  BY DEF EnviarAMetodo, EnRecv, InvEntrega
<1>2. PICK n \in Nat : n = vuelo.args
  BY <1>1, VueloTipo
<1>3. PICK v \in Seq(Valores) : v = vuelo.a /\ Len(v) = 6
  BY <1>1, VueloTipo
<1>4. PICK p \in Seq(Valores) : p = pila
  BY <1>1, VueloTipo
<1>5. PICK l \in Seq(Valores) : l = lista
  BY DEF InvEntrega, Llegan
<1>6. ~perdida => Lleva(l, n, v, p)
  BY <1>1, <1>2, <1>3, <1>4, <1>5, VueloLleva
<1>7. PICK k \in Int : /\ k = Len(pila) - EnPila(n) /\ k \in {0, 0 - 1}
                       /\ ~perdida => k = 0
  BY <1>1, <1>2, PrimeroEnPila
<1>8. PICK e \in Valores : e = v[6]
  BY <1>3, ElementOfSeq
<1> DEFINE s == IF n >= 6 THEN Insertar(p, k, e) ELSE p
           a == <<o>> \o SubSeq(v, 1, 5)
           m == <<o>> \o l
<1>9. /\ Pila(s, 0) /\ Recibe(n + 1, Metodos[o][msj], "llamar", a)
      /\ lista' = m /\ UNCHANGED <<ventana, fin, perdida>>
  BY <1>2, <1>3, <1>4, <1>5, <1>7, <1>8 DEF EnviarAMetodo, ConA6
<1>10. ~perdida => Lleva(m, n + 1, a, s)
  <2>1. ~perdida => Lleva(m, n + 1, a, IF n >= 6 THEN InsertAt(p, 1, v[6]) ELSE p)
    BY <1>3, <1>6, LlevaUnoMas
  <2>2. ~perdida => Insertar(p, k, e) = InsertAt(p, 1, v[6])
    BY <1>7, <1>8, InsertarTipo
  <2> QED
    BY ONLY <2>1, <2>2
<1>11. s \in Seq(Valores)
  BY <1>7, InsertarTipo
<1>12. PICK w \in Seq(Valores) : w = <<o>> /\ Len(w) = 1
  <2>1. <<o>> \in Seq(Valores) /\ Len(<<o>>) = 1
    OBVIOUS
  <2> QED
    BY <2>1
<1>13. m \in Seq(Valores)
  <2>1. w \o l \in Seq(Valores)
    BY Union
  <2> QED
    BY ONLY <1>12, <2>1
<1>14. a \in Seq(Valores) /\ Len(a) = NN
  <2>1. w \o SubSeq(v, 1, 6 - Len(w)) \in Seq(Valores) /\ Len(w \o SubSeq(v, 1, 6 - Len(w))) = 6
    BY <1>3, <1>12, Delante
  <2>2. 6 - Len(w) = 5
    BY <1>12
  <2>3. a = w \o SubSeq(v, 1, 6 - Len(w))
    BY ONLY <1>12, <2>2
  <2> HIDE DEF a
  <2> QED
    BY <2>1, <2>3 DEF NN
<1>15. Metodos[o][msj] \in Valores /\ "llamar" \in Valores
  BY SonValores DEF EnviarAMetodo, TieneMetodo
<1>16. ventana' = NADA /\ fin' = "no" /\ n + 1 \in Nat
  BY <1>1, <1>9, VueloTipo
<1> HIDE DEF s, a, m
<1>17. CASE ~perdida
  <2>1. Lleva(m, n + 1, a, s) <=> ~perdida'
    BY <1>9, <1>10, <1>17
  <2> QED
    BY <1>9, <1>11, <1>13, <1>14, <1>15, <1>16, <2>1, EnviaEntrega
<1>18. CASE perdida
  <2>1. Inv'
    BY <1>1, EnviarAMetodoInv
  <2>2. vuelo' # NADA
    BY <1>9, <1>14, <1>15, <1>16, EnvioValido DEF Recibe
  <2>3. perdida' /\ lista' \in Seq(Valores)
    BY <1>9, <1>13, <1>18
  <2> QED
    BY <1>16, <2>1, <2>2, <2>3, PerdidaEntrega DEF Llegan, Medida, EnFFI
<1> QED
  BY <1>17, <1>18

LEMMA EnviarANoEncontradoEntrega ==
  ASSUME InvEntrega, NEW o \in Valores, NEW msj \in Valores, EnviarANoEncontrado(o, msj)
  PROVE  Llegan'
<1>1. Inv /\ fin = "no" /\ vuelo # NADA
  BY DEF EnviarANoEncontrado, EnRecv, InvEntrega
<1>2. PICK n \in Nat : n = vuelo.args
  BY <1>1, VueloTipo
<1>3. PICK v \in Seq(Valores) : v = vuelo.a /\ Len(v) = 6
  BY <1>1, VueloTipo
<1>4. PICK p \in Seq(Valores) : p = pila
  BY <1>1, VueloTipo
<1>5. PICK l \in Seq(Valores) : l = lista
  BY DEF InvEntrega, Llegan
<1>6. ~perdida => Lleva(l, n, v, p)
  BY <1>1, <1>2, <1>3, <1>4, <1>5, VueloLleva
<1>7. PICK k \in Int : /\ k = Len(pila) - EnPila(n) /\ k \in {0, 0 - 1}
                       /\ ~perdida => k = 0
  BY <1>1, <1>2, PrimeroEnPila
<1>8. PICK e \in Valores, c \in Valores : e = v[6] /\ c = v[5]
  BY <1>3, ElementOfSeq
<1> DEFINE con6 == IF n >= 7 THEN Insertar(p, k, e) ELSE p
           s == IF n >= 6 THEN Insertar(con6, k, c) ELSE con6
           a == <<o, msj>> \o SubSeq(v, 1, 4)
           m == <<o, msj>> \o l
<1>9. /\ Pila(s, 0) /\ Recibe(n + 2, NoEncontrado[o], "llamar", a) /\ lista' = m
      /\ perdida' = (perdida \/ n \in {5, 6}) /\ UNCHANGED <<ventana, fin>>
  BY <1>2, <1>3, <1>4, <1>5, <1>7, <1>8 DEF EnviarANoEncontrado
<1>10. con6 \in Seq(Valores)
  BY <1>7, InsertarTipo
<1>11. s \in Seq(Valores)
  <2> HIDE DEF con6
  <2> QED
    BY <1>7, <1>10, InsertarTipo
<1>12. ~perdida => (Lleva(m, n + 2, a, s) <=> n \notin {5, 6})
  <2>1. SUFFICES ASSUME ~perdida PROVE Lleva(m, n + 2, a, s) <=> n \notin {5, 6}
    OBVIOUS
  <2>2. con6 = IF n >= 7 THEN InsertAt(p, 1, v[6]) ELSE p
    BY <1>7, <1>8, <2>1, InsertarTipo
  <2>3. PICK q \in Seq(Valores) : q = con6
    BY <1>10
  <2>4. s = IF n >= 6 THEN InsertAt(q, 1, v[5]) ELSE q
    <3>1. Insertar(q, k, c) = InsertAt(q, 1, c)
      BY <1>7, <2>1, InsertarTipo
    <3> QED
      BY ONLY <1>8, <2>3, <3>1
  <2>5. PICK t : t = s
    OBVIOUS
  <2>6. Lleva(m, n + 2, a, t) <=> n \notin {5, 6}
    <3>1. q = IF n >= 7 THEN InsertAt(p, 1, v[6]) ELSE p
      BY ONLY <2>2, <2>3
    <3>2. t = IF n >= 6 THEN InsertAt(q, 1, v[5]) ELSE q
      BY ONLY <2>4, <2>5
    <3> HIDE DEF con6, s
    <3> QED
      BY <1>3, <1>6, <2>1, <3>1, <3>2, LlevaDosMas
  <2> QED
    BY ONLY <2>5, <2>6
<1>13. PICK w \in Seq(Valores) : w = <<o, msj>> /\ Len(w) = 2
  <2>1. <<o, msj>> \in Seq(Valores) /\ Len(<<o, msj>>) = 2
    OBVIOUS
  <2> QED
    BY <2>1
<1>14. m \in Seq(Valores)
  <2>1. w \o l \in Seq(Valores)
    BY Union
  <2> QED
    BY ONLY <1>13, <2>1
<1>15. a \in Seq(Valores) /\ Len(a) = NN
  <2>1. w \o SubSeq(v, 1, 6 - Len(w)) \in Seq(Valores) /\ Len(w \o SubSeq(v, 1, 6 - Len(w))) = 6
    BY <1>3, <1>13, Delante
  <2>2. 6 - Len(w) = 4
    BY <1>13
  <2>3. a = w \o SubSeq(v, 1, 6 - Len(w))
    BY ONLY <1>13, <2>2
  <2> HIDE DEF a
  <2> QED
    BY ONLY <2>1, <2>3 DEF NN
<1>16. NoEncontrado[o] \in Valores /\ "llamar" \in Valores
  BY SonValores DEF EnviarANoEncontrado
<1> HIDE DEF con6, s, a, m
<1>17. ventana' = NADA /\ fin' = "no" /\ n + 2 \in Nat
  <2>1. ventana = NADA
    BY <1>1, VueloTipo
  <2>2. n + 2 \in Nat
    OBVIOUS
  <2> QED
    BY ONLY <1>1, <1>9, <2>1, <2>2
<1>18. CASE ~perdida
  <2>1. perdida' <=> n \in {5, 6}
    BY ONLY <1>9, <1>18
  <2>2. Lleva(m, n + 2, a, s) <=> ~perdida'
    BY ONLY <1>12, <1>18, <2>1
  <2> QED
    BY <1>9, <1>11, <1>14, <1>15, <1>16, <1>17, <2>2, EnviaEntrega
<1>19. CASE perdida
  <2>1. Inv'
    BY <1>1, EnviarANoEncontradoInv
  <2>2. vuelo' # NADA
    BY <1>9, <1>15, <1>16, <1>17, EnvioValido DEF Recibe
  <2>3. perdida'
    BY ONLY <1>9, <1>19
  <2>4. lista' \in Seq(Valores)
    BY <1>9, <1>14
  <2> QED
    BY <1>17, <2>1, <2>2, <2>3, <2>4, PerdidaEntrega DEF Llegan, Medida, EnFFI
<1> QED
  BY <1>18, <1>19

\* The stack after the registers, all of them taken.
LEMMA LlevaEntera ==
  ASSUME NEW l \in Seq(Valores), NEW n \in Nat, n >= 6, NEW a \in Seq(Valores), Len(a) = 6,
         NEW s \in Seq(Valores), Lleva(l, n, a, s)
  PROVE  a \o s = l
<1>1. PICK t \in Seq(Valores) : t = a \o s /\ Len(t) = Len(a) + Len(s)
  BY Union
<1>2. \A i \in 1..Len(a) + Len(s) : t[i] = IF i <= Len(a) THEN a[i] ELSE s[i - Len(a)]
  BY <1>1, ConcatProperties
<1>3. Len(s) = n - 6 /\ Len(l) = n /\ Len(t) = Len(l)
  BY <1>1, EnPilaNatural DEF Lleva
<1>4. ASSUME NEW i \in 1..Len(t) PROVE t[i] = l[i]
  <2>1. CASE i <= 6
    <3>1. t[i] = a[i]
      BY <1>1, <1>2, <2>1
    <3> QED
      BY <1>3, <2>1, <3>1 DEF Lleva
  <2>2. CASE i > 6
    <3>1. PICK j \in 1..Len(s) : j = i - 6 /\ j + 6 = i
      BY <1>1, <2>2
    <3>2. t[i] = s[j]
      BY <1>1, <1>2, <2>2, <3>1
    <3>3. s[j] = l[j + 6]
      BY DEF Lleva
    <3> QED
      BY <3>1, <3>2, <3>3
  <2> QED
    BY <2>1, <2>2
<1>5. t = l
  BY <1>3, <1>4, SeqEqual
<1> QED
  BY <1>1, <1>5

LEMMA Todo ==
  ASSUME NEW V, NEW s \in Seq(V), NEW n, n = Len(s)
  PROVE  Sin(s, n) = <<>> /\ Ultimos(s, n) = s
<1>1. Len(s) - n = 0
  OBVIOUS
<1>2. SubSeq(s, 1, 0) = <<>> /\ SubSeq(s, 1, Len(s)) = s
  BY SubSeqFull
<1> QED
  BY <1>1, <1>2 DEF Sin, Ultimos

LEMMA UnoSolo ==
  ASSUME NEW V, NEW s \in Seq(V), NEW i \in 1..Len(s)
  PROVE  SubSeq(s, i, i) = <<s[i]>>
<1>1. SubSeq(s, i, i) = <<s[i]>> \o SubSeq(s, i + 1, i)
  BY SubSeqRecursiveFirst
<1>2. SubSeq(s, i + 1, i) = <<>>
  BY SubSeqEmpty
<1>3. <<s[i]>> \in Seq(V)
  BY ElementOfSeq
<1>4. <<s[i]>> \o <<>> = <<s[i]>>
  BY <1>3, ConcatEmptySeq
<1> QED
  BY <1>1, <1>2, <1>4

-------------------------------------------------------------------------------
\* Each parameter is a piece of the arguments.
LEMMA FijosEnteros ==
  ASSUME NEW l \in Seq(Valores), NEW m \in Nat, Len(l) = m, NEW ss,
         ss = [i \in 1..m |-> <<l[i]>>]
  PROVE  FlattenSeq(ss) = l
<1>0. Len(ss) = m
  OBVIOUS
<1>1. CASE m = 0
  <2>1. ss = <<>> /\ l = <<>>
    BY <1>1
  <2> QED
    BY <2>1, AplanarNada
<1>2. CASE m # 0
  <2>1. PICK corte \in [0..m -> 0..Len(l)] : corte = [i \in 0..m |-> i]
    OBVIOUS
  <2>2. ASSUME NEW i \in 1..m
        PROVE  corte[i - 1] <= corte[i] /\ ss[i] = SubSeq(l, corte[i - 1] + 1, corte[i])
    <3>1. corte[i - 1] = i - 1 /\ corte[i] = i /\ corte[i - 1] + 1 = i
      BY <2>1
    <3>2. SubSeq(l, i, i) = <<l[i]>>
      BY UnoSolo
    <3> QED
      BY <3>1, <3>2
  <2>3. corte[0] = 0 /\ corte[m] = Len(l)
    BY <2>1
  <2> QED
    BY <1>0, <1>2, <2>2, <2>3, AplanarCortes
<1> QED
  BY <1>1, <1>2

LEMMA VariablesEnteras ==
  ASSUME NEW l \in Seq(Valores), NEW p, NEW m \in Nat, p.params = m,
         NEW v \in 1..m, p.variadic = v, Len(l) >= m - 1
  PROVE  FlattenSeq(Variables(p, l)) = l
<1> DEFINE medio == Len(l) - (v - 1) - (m - v)
           ss == [i \in 1..m |->
                    IF i <= v - 1 THEN <<l[i]>>
                    ELSE IF i = v THEN SubSeq(l, v, v - 1 + medio)
                    ELSE <<l[medio + i - 1]>>]
<1>1. Variables(p, l) = ss
  <2>1. (v - 1) + 1 = v
    OBVIOUS
  <2> QED
    BY <2>1 DEF Variables
<1>2. medio \in Nat /\ medio = Len(l) - m + 1 /\ Len(l) \in Nat
  OBVIOUS
<1>3. Len(ss) = m /\ m # 0
  OBVIOUS
<1>4. ASSUME NEW i \in 1..m
      PROVE  /\ i <= v - 1 => ss[i] = <<l[i]>>
             /\ i = v => ss[i] = SubSeq(l, v, v - 1 + medio)
             /\ i > v => ss[i] = <<l[medio + i - 1]>>
  OBVIOUS
<1> HIDE DEF medio, ss
<1>5. PICK corte \in [0..m -> 0..Len(l)] :
        corte = [i \in 0..m |-> IF i <= v - 1 THEN i ELSE medio + i - 1]
  <2>1. ASSUME NEW i \in 0..m
        PROVE  (IF i <= v - 1 THEN i ELSE medio + i - 1) \in 0..Len(l)
    BY <1>2
  <2> QED
    BY <2>1
<1>6. corte[0] = 0 /\ corte[m] = Len(l)
  <2>1. corte[0] = 0
    BY <1>5
  <2>2. corte[m] = medio + m - 1
    BY <1>5
  <2> QED
    BY <1>2, <2>1, <2>2
<1>7. ASSUME NEW i \in 1..m
      PROVE  corte[i - 1] <= corte[i] /\ ss[i] = SubSeq(l, corte[i - 1] + 1, corte[i])
  <2>0. i - 1 \in 0..m /\ i \in 0..m
    OBVIOUS
  <2>1. CASE i <= v - 1
    <3>1. corte[i - 1] = i - 1 /\ corte[i] = i /\ corte[i - 1] + 1 = i
      BY <1>5, <2>0, <2>1
    <3>2. i \in 1..Len(l)
      BY <1>2, <2>1
    <3>3. SubSeq(l, i, i) = <<l[i]>>
      BY <3>2, UnoSolo
    <3> QED
      BY <1>4, <2>1, <3>1, <3>3
  <2>2. CASE i = v
    <3>1. corte[i - 1] = v - 1 /\ corte[i] = medio + v - 1 /\ corte[i - 1] + 1 = v
          /\ medio + v - 1 = v - 1 + medio
      BY <1>2, <1>5, <2>0, <2>2
    <3>2. ss[i] = SubSeq(l, v, v - 1 + medio)
      BY <1>4, <2>2
    <3> QED
      BY <1>2, <2>2, <3>1, <3>2
  <2>3. CASE i > v
    <3>0. medio + i - 1 \in 1..Len(l)
      BY ONLY <1>2, <2>3, m \in Nat, i \in 1..m, v \in 1..m
    <3>1. PICK j \in 1..Len(l) : j = medio + i - 1
      BY <3>0
    <3>2. corte[i] = j
      BY <1>5, <2>0, <2>3, <3>1
    <3>3. corte[i - 1] = j - 1
      BY <1>2, <1>5, <2>0, <2>3, <3>1
    <3>4. SubSeq(l, j, j) = <<l[j]>> /\ j - 1 + 1 = j /\ j - 1 <= j
      BY UnoSolo
    <3>5. ss[i] = <<l[j]>>
      BY <1>4, <2>3, <3>1
    <3> QED
      BY <3>2, <3>3, <3>4, <3>5
  <2> QED
    BY <2>1, <2>2, <2>3
<1>8. FlattenSeq(ss) = l
  BY <1>3, <1>6, <1>7, AplanarCortes
<1> QED
  BY <1>1, <1>8

\* What the prologue reads is the list of arguments.
LEMMA ParamsLee ==
  ASSUME NEW l \in Seq(Valores), NEW n \in Nat, NEW a \in Seq(Valores), Len(a) = 6,
         NEW s \in Seq(Valores), Lleva(l, n, a, s)
  PROVE  /\ SubSeq(a, 1, Menor(n, NN)) \o Ultimos(s, EnPila(n)) = l
         /\ \A i \in 1..n : (IF i <= NN THEN a[i] ELSE s[Len(s) - (n - NN) + (i - NN)]) = l[i]
<1>1. Ultimos(s, EnPila(n)) = s
  BY Todo DEF Lleva
<1>2. CASE n >= 6
  <2>1. Menor(n, NN) = 6 /\ SubSeq(a, 1, 6) = a
    <3>1. Menor(n, NN) = 6
      BY <1>2 DEF Menor, NN
    <3> QED
      BY <3>1, SubSeqFull
  <2>2. a \o s = l
    BY <1>2, LlevaEntera
  <2>3. Len(s) = n - 6
    BY <1>2, EnPilaNatural DEF Lleva
  <2>4. ASSUME NEW i \in 1..n
        PROVE  (IF i <= 6 THEN a[i] ELSE s[Len(s) - (n - 6) + (i - 6)]) = l[i]
    <3>1. CASE i <= 6
      BY <3>1 DEF Lleva
    <3>2. CASE i > 6
      <4>1. PICK j \in 1..Len(s) : j = i - 6 /\ j + 6 = i /\ Len(s) - (n - 6) + (i - 6) = j
        BY <2>3, <3>2
      <4>2. s[j] = l[i]
        BY <4>1 DEF Lleva
      <4>3. ~(i <= 6)
        BY <3>2
      <4> QED
        BY ONLY <4>1, <4>2, <4>3
    <3> QED
      BY <3>1, <3>2
  <2> QED
    BY <1>1, <2>1, <2>2, <2>4 DEF NN
<1>3. CASE n < 6
  <2>1. Menor(n, NN) = n
    BY <1>3 DEF Menor, NN
  <2>2. s = <<>>
    BY <1>3, EnPilaNatural, VaciaSiLenCero DEF Lleva
  <2>3. PICK r \in Seq(Valores) : r = SubSeq(a, 1, n) /\ Len(r) = n
    <3>1. n \in 0..Len(a)
      BY <1>3
    <3> QED
      BY <3>1, Inicio
  <2>4. ASSUME NEW i \in 1..n PROVE r[i] = l[i] /\ a[i] = l[i] /\ i <= 6
    <3>0. PICK u \in 1..Len(a) + 1 : u = 1
      OBVIOUS
    <3>1. PICK j \in u - 1..Len(a) : j = n
      BY <1>3, <3>0
    <3>2. SubSeq(a, u, j)[i] = a[i + u - 1]
      BY <3>0, <3>1, TrozoPuntos
    <3>3. r[i] = a[i]
      BY <2>3, <3>0, <3>1, <3>2
    <3>4. a[i] = l[i] /\ i <= 6
      BY <1>3 DEF Lleva
    <3> QED
      BY <3>3, <3>4
  <2>5. r = l
    <3>1. Len(l) = n
      BY DEF Lleva
    <3> QED
      BY <2>3, <2>4, <3>1, SeqEqual
  <2>6. r \o s = l
    BY <2>2, <2>5, ConcatEmptySeq
  <2>7. ASSUME NEW i \in 1..n
        PROVE  (IF i <= NN THEN a[i] ELSE s[Len(s) - (n - NN) + (i - NN)]) = l[i]
    BY <2>4 DEF NN
  <2> QED
    BY <1>1, <2>1, <2>3, <2>6, <2>7
<1>4. n >= 6 \/ n < 6
  OBVIOUS
<1> QED
  BY ONLY <1>2, <1>3, <1>4

LEMMA ParamsEntrega ==
  ASSUME InvEntrega, NEW p \in Prototipos, Params(p)
  PROVE  Llegan'
<1>1. Inv /\ fin = "no" /\ vuelo # NADA
  BY DEF Params, EnRecv, InvEntrega
<1>2. CASE \E como \in {"error", "roto"} : Acabar(como)
  BY <1>2, AcabarEntrega
<1>3. CASE ~Falta /\ Acepta(p) /\ Tomar(p)
  <2>1. ~perdida
    BY <1>1, <1>3, VueloPierde
  <2>2. PICK n \in Nat : n = vuelo.args
    BY <1>1, VueloTipo
  <2>3. PICK a \in Seq(Valores) : a = vuelo.a /\ Len(a) = 6
    BY <1>1, VueloTipo
  <2>4. PICK s \in Seq(Valores) : s = pila
    BY <1>1, VueloTipo
  <2>5. PICK l \in Seq(Valores) : l = lista
    BY DEF InvEntrega, Llegan
  <2>6. Lleva(l, n, a, s)
    BY <1>1, <2>1, <2>2, <2>3, <2>4, <2>5, VueloLleva DEF InvEntrega
  <2>7. PICK m \in Nat : m = p.params
    BY PrototiposValidos
  <2>8. PICK v \in 0..m : v = p.variadic
    BY <2>7, PrototiposValidos
  <2>9. m = p.params /\ v = p.variadic
    BY <2>7, <2>8
  <2>10. /\ IF v = 0 THEN n = m ELSE n >= m - 1
         /\ locales' = IF v = 0 THEN Fijos(p) ELSE
                         Variables(p, SubSeq(a, 1, Menor(n, NN)) \o Ultimos(s, EnPila(n)))
         /\ vuelo' = NADA /\ UNCHANGED <<ventana, fin, lista, perdida>>
    BY <1>3, <2>2, <2>3, <2>4, <2>9 DEF Acepta, Tomar, SinArgumentos, historia
  <2>11. Len(l) = n
    BY <2>6 DEF Lleva
  <2>12. FlattenSeq(locales)' = l
    <3>1. CASE v = 0
      <4>1. Fijos(p) = [i \in 1..n |-> <<l[i]>>]
        <5>1. Fijos(p) = [i \in 1..n |->
                            <<IF i <= NN THEN a[i] ELSE s[Len(s) - (n - NN) + (i - NN)]>>]
          BY <2>2, <2>3, <2>4, <2>9, <2>10, <3>1 DEF Fijos
        <5>2. \A i \in 1..n : (IF i <= NN THEN a[i] ELSE s[Len(s) - (n - NN) + (i - NN)]) = l[i]
          BY <2>3, <2>6, ParamsLee
        <5> QED
          BY <5>1, <5>2
      <4>2. PICK ss : ss = Fijos(p) /\ locales' = ss
        BY <2>10, <3>1
      <4>3. FlattenSeq(ss) = l
        BY <2>11, <4>1, <4>2, FijosEnteros
      <4> QED
        BY <4>2, <4>3
    <3>2. CASE v # 0
      <4>1. SubSeq(a, 1, Menor(n, NN)) \o Ultimos(s, EnPila(n)) = l
        BY <2>3, <2>6, ParamsLee
      <4>2. PICK ss : ss = Variables(p, l) /\ locales' = ss
        BY <2>10, <3>2, <4>1
      <4>3. FlattenSeq(ss) = l
        BY <2>9, <2>10, <2>11, <3>2, <4>2, VariablesEnteras
      <4> QED
        BY <4>2, <4>3
    <3> QED
      BY <3>1, <3>2
  <2>13. Exacta'
    <3>1. ventana' = NADA /\ fin' = "no"
      BY <1>1, <2>10, VueloTipo
    <3> QED
      BY <2>5, <2>10, <2>12, <3>1 DEF Exacta
  <2>14. ~perdida' /\ lista' \in Seq(Valores) /\ ventana' = NADA
    BY <1>1, <2>10, <2>1, <2>5, VueloTipo
  <2> QED
    BY <2>13, <2>14 DEF Entrega, Llegan, Medida, EnFFI
<1> QED
  BY <1>2, <1>3 DEF Params

-------------------------------------------------------------------------------
\* The values of a piece of a sequence.
LEMMA Pedazo ==
  ASSUME NEW V, NEW s \in Seq(V), NEW d \in Int, NEW e \in Int, 1 <= d, d <= e + 1,
         e <= Len(s), NEW r, r = SubSeq(s, d, e)
  PROVE  r \in Seq(V) /\ Len(r) = e - d + 1 /\ \A i \in 1..e - d + 1 : r[i] = s[i + d - 1]
<1>1. \A k \in d..e : s[k] \in V
  OBVIOUS
<1>2. SubSeq(s, d, e) \in Seq(V)
      /\ Len(SubSeq(s, d, e)) = (IF d <= e THEN e - d + 1 ELSE 0)
      /\ \A k \in 1..e - d + 1 : SubSeq(s, d, e)[k] = s[d + k - 1]
  BY <1>1, SubSeqProperties
<1>3. \A i \in 1..e - d + 1 : i + d - 1 = d + i - 1
  OBVIOUS
<1> QED
  BY <1>2, <1>3


\* pdcrt_mover_a_cima with the six registers full: the first two values of the
\* stack end on top of it, where the registers that are left are taken from.
LEMMA MovidaPuntos ==
  ASSUME NEW s \in Seq(Valores), Len(s) >= 2, NEW t,
         t = SubSeq(s, 1, 0) \o SubSeq(s, 3, Len(s)) \o SubSeq(s, 1, 2)
  PROVE  /\ t \in Seq(Valores) /\ Len(t) = Len(s)
         /\ \A i \in 1..Len(s) - 2 : t[i] = s[i + 2]
         /\ t[Len(s) - 1] = s[1] /\ t[Len(s)] = s[2]
<1>1. t \in Seq(Valores) /\ Len(t) = Len(s)
  BY MovidaEntera
<1>4. PICK r \in Seq(Valores) : /\ r = SubSeq(s, 3, Len(s)) /\ Len(r) = Len(s) - 2
                                /\ \A i \in 1..Len(s) - 2 : r[i] = s[i + 2]
  <2>1. PICK r : r = SubSeq(s, 3, Len(s))
    OBVIOUS
  <2>2. /\ r \in Seq(Valores) /\ Len(r) = Len(s) - 3 + 1
        /\ \A i \in 1..Len(s) - 3 + 1 : r[i] = s[i + 3 - 1]
    <3>1. PICK d \in Int : d = 3
      OBVIOUS
    <3>2. PICK e \in Int : e = Len(s)
      OBVIOUS
    <3>3. r = SubSeq(s, d, e) /\ 1 <= d /\ d <= e + 1 /\ e <= Len(s)
      BY <2>1, <3>1, <3>2
    <3>4. r \in Seq(Valores) /\ Len(r) = e - d + 1 /\ \A i \in 1..e - d + 1 : r[i] = s[i + d - 1]
      BY ONLY <3>3, d \in Int, e \in Int, s \in Seq(Valores), Pedazo
    <3> QED
      BY ONLY <3>1, <3>2, <3>4
  <2>3. Len(r) = Len(s) - 2 /\ \A i \in 1..Len(s) - 2 : r[i] = s[i + 2]
    BY <2>2
  <2> QED
    BY <2>1, <2>2, <2>3
<1>5. PICK q \in Seq(Valores) : q = SubSeq(s, 1, 2) /\ Len(q) = 2 /\ q[1] = s[1] /\ q[2] = s[2]
  <2>1. PICK q : q = SubSeq(s, 1, 2)
    OBVIOUS
  <2>2. q \in Seq(Valores) /\ Len(q) = 2 - 1 + 1 /\ \A i \in 1..2 - 1 + 1 : q[i] = s[i + 1 - 1]
    BY <2>1, Pedazo
  <2>3. Len(q) = 2 /\ q[1] = s[1] /\ q[2] = s[2]
    BY <2>2
  <2> QED
    BY <2>1, <2>2, <2>3
<1>6. t = r \o q
  <2>1. SubSeq(s, 1, 0) = <<>> /\ <<>> \o r = r
    BY VaciaMas
  <2> QED
    BY <1>4, <1>5, <2>1
<1>7. \A i \in 1..Len(r) + Len(q) : t[i] = IF i <= Len(r) THEN r[i] ELSE q[i - Len(r)]
  <2>1. r \in Seq(Valores) /\ q \in Seq(Valores)
    OBVIOUS
  <2> QED
    BY ONLY <1>6, <2>1, ConcatProperties
<1>8. \A i \in 1..Len(s) - 2 : t[i] = s[i + 2]
  BY <1>4, <1>5, <1>7
<1>9. t[Len(s) - 1] = s[1] /\ t[Len(s)] = s[2]
  BY <1>4, <1>5, <1>7
<1> QED
  BY <1>1, <1>8, <1>9

\* The first two arguments taken, when there are eight or more.
LEMMA LlevaDosMenos ==
  ASSUME NEW l \in Seq(Valores), NEW n \in Nat, n >= 8, NEW a \in Seq(Valores), Len(a) = 6,
         NEW s \in Seq(Valores), Lleva(l, n, a, s), NEW t,
         t = SubSeq(s, 1, 0) \o SubSeq(s, 3, Len(s)) \o SubSeq(s, 1, 2)
  PROVE  Lleva(SubSeq(l, 3, Len(l)), n - 2, SubSeq(a, 3, 6) \o Ultimos(t, 2), Sin(t, 2))
<1>1. Len(s) = n - 6 /\ Len(l) = n
  BY EnPilaNatural DEF Lleva
<1>2. /\ t \in Seq(Valores) /\ Len(t) = Len(s)
      /\ \A i \in 1..Len(s) - 2 : t[i] = s[i + 2]
      /\ t[Len(s) - 1] = s[1] /\ t[Len(s)] = s[2]
  BY <1>1, MovidaPuntos
<1>3. PICK m \in Seq(Valores) : /\ m = SubSeq(l, 3, Len(l)) /\ Len(m) = n - 2
                                /\ \A i \in 1..n - 2 : m[i] = l[i + 2]
  <2>1. PICK r : r = SubSeq(l, 3, Len(l))
    OBVIOUS
  <2>2. /\ r \in Seq(Valores) /\ Len(r) = Len(l) - 3 + 1
        /\ \A i \in 1..Len(l) - 3 + 1 : r[i] = l[i + 3 - 1]
    BY <1>1, <2>1, Pedazo
  <2>3. Len(r) = n - 2 /\ \A i \in 1..n - 2 : r[i] = l[i + 2]
    BY <1>1, <2>2
  <2> QED
    BY <2>1, <2>2, <2>3
<1>4. PICK w \in Seq(Valores) : w = Ultimos(t, 2) /\ Len(w) = 2 /\ w[1] = s[1] /\ w[2] = s[2]
  <2>1. PICK x : x = SubSeq(t, Len(t) - 1, Len(t))
    OBVIOUS
  <2>2. /\ x \in Seq(Valores) /\ Len(x) = Len(t) - (Len(t) - 1) + 1
        /\ \A i \in 1..Len(t) - (Len(t) - 1) + 1 : x[i] = t[i + (Len(t) - 1) - 1]
    <3>1. t \in Seq(Valores) /\ Len(t) >= 2
      BY <1>1, <1>2
    <3>0. PICK e \in Int : e = Len(t)
      BY <1>2
    <3>2. PICK d \in Int : d = Len(t) - 1 /\ e = Len(t)
      BY ONLY <3>0, e \in Int
    <3>3. x = SubSeq(t, d, e)
      BY ONLY <2>1, <3>2
    <3>4. x \in Seq(Valores) /\ Len(x) = e - d + 1 /\ \A i \in 1..e - d + 1 : x[i] = t[i + d - 1]
      BY ONLY <3>1, <3>2, <3>3, d \in Int, e \in Int, Pedazo
    <3> QED
      BY ONLY <3>2, <3>4
  <2>3. Len(x) = 2 /\ x[1] = t[Len(s) - 1] /\ x[2] = t[Len(s)]
    <3>1. Len(t) - (Len(t) - 1) + 1 = 2 /\ Len(t) = Len(s) /\ Len(s) \in Nat
      BY <1>2
    <3>2. 1 + (Len(s) - 1) - 1 = Len(s) - 1 /\ 2 + (Len(s) - 1) - 1 = Len(s)
      BY <3>1
    <3>3. Len(x) = 2 /\ \A i \in 1..2 : x[i] = t[i + (Len(s) - 1) - 1]
      BY <2>2, <3>1
    <3>4. x[1] = t[1 + (Len(s) - 1) - 1] /\ x[2] = t[2 + (Len(s) - 1) - 1]
      BY ONLY <3>3, 1 \in 1..2, 2 \in 1..2
    <3> QED
      BY <3>2, <3>3, <3>4
  <2>4. Ultimos(t, 2) = x
    <3>1. Len(t) - 2 + 1 = Len(t) - 1
      BY <1>2
    <3> QED
      BY <2>1, <3>1 DEF Ultimos
  <2> QED
    BY <1>2, <2>2, <2>3, <2>4
<1>5. PICK b : /\ b = SubSeq(a, 3, 6) \o Ultimos(t, 2)
               /\ \A i \in 1..4 : b[i] = a[i + 2]
               /\ b[5] = s[1] /\ b[6] = s[2]
  <2>1. PICK x : x = SubSeq(a, 3, 6)
    OBVIOUS
  <2>2. x \in Seq(Valores) /\ Len(x) = 6 - 3 + 1 /\ \A i \in 1..6 - 3 + 1 : x[i] = a[i + 3 - 1]
    <3>1. PICK d \in Int : d = 3
      OBVIOUS
    <3>2. PICK e \in Int : e = 6
      OBVIOUS
    <3>3. x = SubSeq(a, d, e) /\ 1 <= d /\ d <= e + 1 /\ e <= Len(a)
      BY <2>1, <3>1, <3>2
    <3>4. x \in Seq(Valores) /\ Len(x) = e - d + 1 /\ \A i \in 1..e - d + 1 : x[i] = a[i + d - 1]
      BY ONLY <3>3, d \in Int, e \in Int, a \in Seq(Valores), Pedazo
    <3> QED
      BY ONLY <3>1, <3>2, <3>4
  <2>5. x \in Seq(Valores) /\ Len(x) = 4 /\ \A i \in 1..4 : x[i] = a[i + 2]
    BY <2>2
  <2>6. \A i \in 1..Len(x) + Len(w) : (x \o w)[i] = IF i <= Len(x) THEN x[i] ELSE w[i - Len(x)]
    BY <2>5, ConcatProperties
  <2>7. PICK b : b = x \o w
    OBVIOUS
  <2>8. \A i \in 1..6 : b[i] = IF i <= 4 THEN x[i] ELSE w[i - 4]
    <3>1. Len(x) = 4 /\ Len(w) = 2
      BY <1>4, <2>5
    <3>2. \A i \in 1..4 + 2 : (x \o w)[i] = IF i <= 4 THEN x[i] ELSE w[i - 4]
      BY ONLY <2>6, <3>1
    <3>3. \A i \in 1..6 : i \in 1..4 + 2
      OBVIOUS
    <3> QED
      BY ONLY <2>7, <3>2, <3>3
  <2>9. /\ \A i \in 1..4 : b[i] = a[i + 2]
        /\ b[5] = w[1] /\ b[6] = w[2]
    BY <2>5, <2>8
  <2> QED
    BY <1>4, <2>1, <2>7, <2>9
<1>6. PICK r \in Seq(Valores) : /\ r = Sin(t, 2) /\ Len(r) = n - 8
                                /\ \A i \in 1..n - 8 : r[i] = s[i + 2]
  <2>1. PICK r : r = SubSeq(t, 1, Len(t) - 2)
    OBVIOUS
  <2>2. /\ r \in Seq(Valores) /\ Len(r) = Len(t) - 2 - 1 + 1
        /\ \A i \in 1..Len(t) - 2 - 1 + 1 : r[i] = t[i + 1 - 1]
    <3>1. t \in Seq(Valores) /\ Len(t) >= 2
      BY <1>1, <1>2
    <3>2. PICK e \in Int : e = Len(t) - 2 /\ 1 <= e + 1 /\ e <= Len(t)
      <4>1. PICK z \in Int : z = Len(t) /\ z >= 2
        BY <3>1
      <4>2. z - 2 \in Int /\ 1 <= (z - 2) + 1 /\ z - 2 <= z
        BY <4>1
      <4> QED
        BY <4>1, <4>2
    <3>3. PICK d \in Int : d = 1
      OBVIOUS
    <3>4. r = SubSeq(t, d, e) /\ 1 <= d /\ d <= e + 1
      BY ONLY <2>1, <3>2, <3>3
    <3>5. r \in Seq(Valores) /\ Len(r) = e - d + 1 /\ \A i \in 1..e - d + 1 : r[i] = t[i + d - 1]
      BY ONLY <3>1, <3>2, <3>4, d \in Int, e \in Int, Pedazo
    <3> QED
      BY ONLY <3>2, <3>3, <3>5
  <2>3. Len(r) = n - 8 /\ \A i \in 1..n - 8 : r[i] = t[i]
    BY <1>1, <1>2, <2>2
  <2>4. \A i \in 1..n - 8 : t[i] = s[i + 2]
    <3>1. Len(s) - 2 = n - 8
      BY <1>1
    <3> QED
      BY ONLY <1>2, <3>1
  <2>5. r = Sin(t, 2) /\ \A i \in 1..n - 8 : r[i] = s[i + 2]
    BY ONLY <2>1, <2>3, <2>4 DEF Sin
  <2> QED
    BY ONLY <2>2, <2>3, <2>5
<1>7. \A i \in 1..6 : i <= n - 2 => b[i] = m[i]
  <2>1. ASSUME NEW i \in 1..4 PROVE b[i] = m[i]
    <3>1. i + 2 \in 1..6 /\ i + 2 <= n /\ i \in 1..n - 2
      OBVIOUS
    <3>2. a[i + 2] = l[i + 2]
      BY <3>1 DEF Lleva
    <3> QED
      BY <1>3, <1>5, <3>1, <3>2
  <2>2. b[5] = m[5] /\ b[6] = m[6]
    <3>1. PICK x \in 1..Len(s), y \in 1..Len(s) : x = 1 /\ y = 2
      BY <1>1
    <3>2. s[x] = l[x + 6] /\ s[y] = l[y + 6]
      BY DEF Lleva
    <3>3. PICK z \in 1..n - 2, k \in 1..n - 2 : z = 5 /\ k = 6
      OBVIOUS
    <3>4. m[z] = l[z + 2] /\ m[k] = l[k + 2]
      BY <1>3
    <3>5. z + 2 = x + 6 /\ k + 2 = y + 6
      BY <3>1, <3>3
    <3> QED
      BY <1>5, <3>1, <3>2, <3>3, <3>4, <3>5
  <2>3. \A i \in 1..6 : i \in 1..4 \/ i = 5 \/ i = 6
    OBVIOUS
  <2> QED
    BY <2>1, <2>2, <2>3
<1>8. Len(r) = EnPila(n - 2)
  <2>1. PICK k \in Nat : k = n - 2 /\ k >= 6
    OBVIOUS
  <2>2. EnPila(k) = k - 6 /\ k - 6 = n - 8
    BY <2>1, EnPilaNatural
  <2> QED
    BY ONLY <1>6, <2>1, <2>2
<1>9. ASSUME NEW i \in 1..Len(r) PROVE r[i] = m[i + 6]
  <2>1. PICK j \in 1..Len(s) : j = i + 2 /\ i \in 1..n - 8
    BY <1>1, <1>6
  <2>2. s[j] = l[j + 6] /\ r[i] = s[j]
    BY <1>6, <2>1 DEF Lleva
  <2>3. PICK k \in 1..n - 2 : k = i + 6 /\ k + 2 = j + 6
    BY <2>1
  <2>4. m[k] = l[k + 2]
    BY <1>3
  <2> QED
    BY <2>2, <2>3, <2>4
<1>10. Lleva(m, n - 2, b, r)
  BY <1>3, <1>7, <1>8, <1>9 DEF Lleva
<1> QED
  BY <1>3, <1>5, <1>6, <1>10

\* And when there are four or fewer.
LEMMA LlevaDosMenosPocos ==
  ASSUME NEW l \in Seq(Valores), NEW n \in 2..4, NEW a \in Seq(Valores), Len(a) = 6,
         Lleva(l, n, a, <<>>), NEW w \in Seq(Valores), Len(w) = 2
  PROVE  Lleva(SubSeq(l, 3, Len(l)), n - 2, SubSeq(a, 3, 6) \o w, <<>>)
<1>1. Len(l) = n
  BY DEF Lleva
<1>4. PICK x \in Seq(Valores) : x = SubSeq(a, 3, 6) /\ Len(x) = 4 /\ \A i \in 1..4 : x[i] = a[i + 2]
  <2>1. PICK x : x = SubSeq(a, 3, 6)
    OBVIOUS
  <2>2. x \in Seq(Valores) /\ Len(x) = 6 - 3 + 1 /\ \A i \in 1..6 - 3 + 1 : x[i] = a[i + 3 - 1]
    <3>1. PICK d \in Int : d = 3
      OBVIOUS
    <3>2. PICK e \in Int : e = 6
      OBVIOUS
    <3>3. x = SubSeq(a, d, e) /\ 1 <= d /\ d <= e + 1 /\ e <= Len(a)
      BY <2>1, <3>1, <3>2
    <3>4. x \in Seq(Valores) /\ Len(x) = e - d + 1 /\ \A i \in 1..e - d + 1 : x[i] = a[i + d - 1]
      BY ONLY <3>3, d \in Int, e \in Int, a \in Seq(Valores), Pedazo
    <3> QED
      BY ONLY <3>1, <3>2, <3>4
  <2>3. Len(x) = 4 /\ \A i \in 1..4 : x[i] = a[i + 2]
    BY <2>2
  <2> QED
    BY <2>1, <2>2, <2>3
<1>5. PICK b : b = SubSeq(a, 3, 6) \o w /\ \A i \in 1..4 : b[i] = a[i + 2]
  <2>1. \A i \in 1..Len(x) + Len(w) : (x \o w)[i] = IF i <= Len(x) THEN x[i] ELSE w[i - Len(x)]
    BY ConcatProperties
  <2>2. PICK b : b = x \o w
    OBVIOUS
  <2>3. \A i \in 1..4 : b[i] = a[i + 2]
    BY <1>4, <2>1, <2>2
  <2> QED
    BY <1>4, <2>2, <2>3
<1>6. PICK m : /\ m = SubSeq(l, 3, Len(l)) /\ Len(m) = n - 2
               /\ \A i \in 1..n - 2 : m[i] = l[i + 2]
  <2>1. PICK r : r = SubSeq(l, 3, Len(l))
    OBVIOUS
  <2>2. /\ r \in Seq(Valores) /\ Len(r) = Len(l) - 3 + 1
        /\ \A i \in 1..Len(l) - 3 + 1 : r[i] = l[i + 3 - 1]
    BY <1>1, <2>1, Pedazo
  <2>3. Len(r) = n - 2 /\ \A i \in 1..n - 2 : r[i] = l[i + 2]
    BY <1>1, <2>2
  <2> QED
    BY <2>1, <2>2, <2>3
<1>7. ASSUME NEW i \in 1..6, i <= n - 2 PROVE b[i] = m[i]
  <2>1. i \in 1..4 /\ i + 2 \in 1..6 /\ i + 2 <= n /\ i \in 1..n - 2
    BY <1>7
  <2>2. a[i + 2] = l[i + 2]
    BY <2>1 DEF Lleva
  <2> QED
    BY <1>5, <1>6, <2>1, <2>2
<1>8. Len(<<>>) = EnPila(n - 2)
  <2>1. PICK k \in Nat : k = n - 2 /\ k <= 6
    OBVIOUS
  <2> QED
    BY <2>1, EnPilaNatural
<1>9. Lleva(m, n - 2, b, <<>>)
  BY <1>6, <1>7, <1>8 DEF Lleva
<1> QED
  BY <1>5, <1>6, <1>9

LEMMA EnviarMensajeEntrega ==
  ASSUME InvEntrega, EnviarMensaje
  PROVE  Llegan'
<1>1. Inv /\ fin = "no" /\ ~perdida /\ vuelo # NADA
  BY VueloPierde DEF EnviarMensaje, EnRecv, InvEntrega
<1>2. PICK n \in Nat : n = vuelo.args
  BY <1>1, EnvioTipo
<1>3. PICK v \in Seq(Valores) : v = vuelo.a /\ Len(v) = 6 /\ v[1] \in Valores /\ v[2] \in Valores
  BY <1>1, EnvioTipo
<1>4. PICK p \in Seq(Valores) : p = pila /\ Len(p) = EnPila(n)
  BY <1>1, <1>2, EnvioTipo
<1>5. PICK l \in Seq(Valores) : l = lista
  BY DEF InvEntrega, Llegan
<1>6. Lleva(l, n, v, p)
  BY <1>1, <1>2, <1>3, <1>4, <1>5, VueloLleva
<1> DEFINE pos == IF n <= 6 THEN 0 ELSE Len(p) - (n - 6)
           sacados == (IF n >= 6 THEN 1 ELSE 0) + (IF n >= 5 THEN 1 ELSE 0)
<1>7. pos = 0
  BY <1>4, EnPilaNatural
<1>8. CASE n < 2
  <2>1. PICK como \in {"error", "roto"} : como = "error" /\ como # "roto"
    OBVIOUS
  <2>2. Acabar(como)
    BY <1>2, <1>8, <2>1 DEF EnviarMensaje
  <2> QED
    BY <2>2, AcabarEntrega
<1>9. CASE n \in {5, 6, 7}
  <2>1. Len(p) - pos = 1 \/ Len(p) < sacados
    <3>1. n \in {5, 6} => Len(p) = 0 /\ sacados >= 1
      BY <1>4, EnPilaNatural
    <3>2. n = 7 => Len(p) = 1
      BY <1>4, EnPilaNatural
    <3> QED
      BY <1>7, <1>9, <3>1, <3>2
  <2>2. PICK como \in {"error", "roto"} : como = "roto"
    OBVIOUS
  <2>3. Acabar(como)
    BY <1>2, <1>4, <1>9, <2>1, <2>2 DEF EnviarMensaje
  <2> QED
    BY <2>3, AcabarEntrega
<1>10. CASE n >= 2 /\ n \notin {5, 6, 7}
  <2>1. ~(Len(p) - pos = 1 \/ Len(p) < sacados)
    <3>1. CASE n <= 4
      <4>1. Len(p) = 0 /\ sacados = 0
        BY <1>4, <3>1, EnPilaNatural
      <4> QED
        BY <1>7, <4>1
    <3>2. CASE n >= 8
      <4>1. Len(p) = EnPila(n) /\ EnPila(n) = n - 6
        BY <1>4, <3>2, EnPilaNatural
      <4>2. sacados = 2
        BY <3>2
      <4> HIDE DEF pos, sacados
      <4> QED
        BY <1>7, <3>2, <4>1, <4>2
    <3> QED
      BY <1>10, <3>1, <3>2
  <2> DEFINE a == SubSeq(v, 3, 6) \o
                    (IF sacados = 2 THEN Ultimos(Movida(pos), 2)
                     ELSE IF sacados = 1 THEN <<Last(Movida(pos)), NULO>>
                     ELSE <<NULO, NULO>>)
  <2>2. /\ Pila(Sin(Movida(pos), sacados), Len(p) + 2)
        /\ Recibe(n - 2, v[1], v[2], a)
        /\ lista' = SubSeq(l, 3, Len(l)) /\ UNCHANGED <<ventana, fin, perdida>>
    BY <1>2, <1>3, <1>4, <1>5, <1>10, <2>1 DEF EnviarMensaje
  <2>3. ~perdida' /\ ventana' = NADA /\ fin' = "no" /\ n - 2 \in Nat
    <3>1. ventana = NADA
      BY <1>1, EnvioTipo
    <3> HIDE DEF a, sacados, pos
    <3> QED
      BY <1>1, <1>10, <2>2, <3>1
  <2>4. PICK x \in Seq(Valores) : x = SubSeq(v, 3, 6) /\ Len(x) = 4
    <3>1. PICK d \in 1..Len(v) + 1 : d = 3
      BY <1>3
    <3>2. PICK e \in d - 1..Len(v) : e = 6
      BY <1>3, <3>1
    <3>3. SubSeq(v, d, e) \in Seq(Valores) /\ Len(SubSeq(v, d, e)) = e - d + 1
      BY Trozo
    <3>4. v \in Seq(Valores) /\ e - d + 1 = 4
      BY <3>1, <3>2
    <3> QED
      BY ONLY <3>1, <3>2, <3>3, <3>4
  <2>5. PICK m \in Seq(Valores) : m = SubSeq(l, 3, Len(l))
    <3>0. Len(l) = n
      BY <1>6 DEF Lleva
    <3>1. PICK d \in 1..Len(l) + 1 : d = 3
      BY <1>10, <3>0
    <3>2. PICK e \in d - 1..Len(l) : e = Len(l)
      BY <1>10, <3>0, <3>1
    <3>3. SubSeq(l, d, e) \in Seq(Valores)
      BY Trozo
    <3> QED
      BY <3>1, <3>2, <3>3
  <2>6. PICK w \in Seq(Valores) : w = <<NULO, NULO>> /\ Len(w) = 2
    <3>1. <<NULO, NULO>> \in Seq(Valores) /\ Len(<<NULO, NULO>>) = 2
      BY SonValores
    <3> QED
      BY <3>1
  <2>7. CASE n <= 4
    <3>1. p = <<>> /\ sacados = 0
      BY <1>4, <2>7, EnPilaNatural, VaciaSiLenCero
    <3>2. Movida(pos) = <<>>
      BY <1>4, <1>7, <3>1 DEF Movida
    <3>3. Sin(Movida(pos), sacados) = <<>>
      BY <3>1, <3>2 DEF Sin
    <3>4. a = x \o w
      BY <2>4, <2>6, <3>1
    <3>5. PICK b \in Seq(Valores) : b = a /\ Len(b) = NN
      <4>1. x \o w \in Seq(Valores) /\ Len(x \o w) = 6
        BY <2>4, <2>6, Union
      <4> QED
        BY <3>4, <4>1 DEF NN
    <3>6. Lleva(m, n - 2, b, <<>>)
      <4>1. n \in 2..4 /\ Lleva(l, n, v, <<>>)
        BY <1>6, <1>10, <2>7, <3>1
      <4>2. Lleva(SubSeq(l, 3, Len(l)), n - 2, SubSeq(v, 3, 6) \o w, <<>>)
        BY <1>3, <2>6, <4>1, LlevaDosMenosPocos
      <4> QED
        BY <2>4, <2>5, <3>4, <3>5, <4>2
    <3>7. PICK s \in Seq(Valores) : s = <<>>
      <4>1. <<>> \in Seq(Valores)
        OBVIOUS
      <4> QED
        BY ONLY <4>1
    <3>8. Pila(s, Len(p) + 2) /\ Recibe(n - 2, v[1], v[2], b) /\ lista' = m
      BY <2>2, <2>5, <3>3, <3>5, <3>7
    <3>9. Lleva(m, n - 2, b, s) <=> ~perdida'
      BY <2>3, <3>6, <3>7
    <3> HIDE DEF a, sacados, pos
    <3> QED
      BY <1>3, <2>3, <3>5, <3>8, <3>9, EnviaEntrega
  <2>8. CASE n >= 8
    <3>1. Len(p) = n - 6 /\ Len(p) >= 2 /\ sacados = 2
      <4>1. Len(p) = EnPila(n) /\ EnPila(n) = n - 6
        BY <1>4, <2>8, EnPilaNatural
      <4>2. sacados = 2
        BY <2>8
      <4> HIDE DEF pos, sacados
      <4> QED
        BY <2>8, <4>1, <4>2
    <3>2. PICK t \in Seq(Valores) : /\ t = Movida(pos) /\ Len(t) = Len(p)
                                    /\ t = SubSeq(p, 1, 0) \o SubSeq(p, 3, Len(p)) \o SubSeq(p, 1, 2)
      <4>1. Movida(pos) = SubSeq(p, 1, 0) \o SubSeq(p, 3, Len(p)) \o SubSeq(p, 1, 2)
        BY <1>4, <1>7, <3>1 DEF Movida
      <4> QED
        BY <3>1, <4>1, MovidaEntera
    <3>3. PICK d \in 0..Len(t) : d = 2
      BY <3>1, <3>2
    <3>4. /\ Sin(t, d) \in Seq(Valores)
          /\ Ultimos(t, d) \in Seq(Valores) /\ Len(Ultimos(t, d)) = d
      BY Cortes
    <3>5. a = x \o Ultimos(t, 2)
      BY <2>4, <3>1, <3>2
    <3>6. PICK b \in Seq(Valores) : b = a /\ Len(b) = NN
      <4>1. PICK r \in Seq(Valores) : r = Ultimos(t, 2) /\ Len(r) = 2
        BY <3>3, <3>4
      <4>2. x \o r \in Seq(Valores) /\ Len(x \o r) = Len(x) + Len(r)
        BY Union
      <4>3. Len(x) + Len(r) = 6
        <5>1. Len(x) = 4
          BY ONLY <2>4
        <5>2. Len(r) = 2
          BY ONLY <4>1
        <5> QED
          BY ONLY <5>1, <5>2
      <4> QED
        BY <3>5, <4>1, <4>2, <4>3 DEF NN
    <3>7. Lleva(m, n - 2, b, Sin(t, 2))
      <4>1. Lleva(SubSeq(l, 3, Len(l)), n - 2, SubSeq(v, 3, 6) \o Ultimos(t, 2), Sin(t, 2))
        BY <1>3, <1>6, <2>8, <3>2, LlevaDosMenos
      <4> QED
        BY <2>4, <2>5, <3>5, <3>6, <4>1
    <3>8. PICK s \in Seq(Valores) : s = Sin(t, 2)
      BY <3>3, <3>4
    <3>9. Pila(s, Len(p) + 2) /\ Recibe(n - 2, v[1], v[2], b) /\ lista' = m
      BY <2>2, <2>5, <3>1, <3>2, <3>6, <3>8
    <3>10. Lleva(m, n - 2, b, s) <=> ~perdida'
      BY <2>3, <3>7, <3>8
    <3> HIDE DEF a, sacados, pos
    <3> QED
      BY <1>3, <2>3, <3>6, <3>9, <3>10, EnviaEntrega
  <2> QED
    BY <1>10, <2>7, <2>8
<1> QED
  BY <1>8, <1>9, <1>10

LEMMA SinRespuestaEntrega ==
  ASSUME InvEntrega, SinRespuesta
  PROVE  Llegan'
<1>1. Acabar("error") /\ "error" \in {"error", "roto"}
  BY DEF SinRespuesta
<1> QED
  BY <1>1, AcabarEntrega

\* What a step that leaves a window has to show.
LEMMA VentanaEntrega ==
  ASSUME NEW s \in Seq(Valores), NEW i \in Nat, NEW t \in Nat, Pila(s, 0),
         ventana' = [idc |-> i, tam |-> t], vuelo' = NADA, fin' = "no",
         NEW l \in Seq(Valores), lista' = l, t = Len(l), i = 0 /\ s = l <=> ~perdida'
  PROVE  Llegan'
<1>1. ventana' # NADA /\ pila' = s
  BY VentanaValida DEF Pila
<1>2. ~EnCuerpo'
  BY <1>1 DEF EnCuerpo
<1>3. ventana' = [idc |-> 0, tam |-> Len(l)] <=> i = 0
  OBVIOUS
<1>4. Exacta' <=> i = 0 /\ s = l
  BY <1>1, <1>2, <1>3 DEF Exacta
<1>5. Entrega'
  BY ONLY <1>4, i = 0 /\ s = l <=> ~perdida' DEF Entrega
<1>6. Len(lista') = ventana'.tam
  OBVIOUS
<1> QED
  BY <1>5, <1>6 DEF Llegan, Medida

LEMMA InvocarFFIEntrega ==
  ASSUME InvEntrega, NEW s \in Fijas, InvocarFFI(s)
  PROVE  Llegan'
<1>1. pila = <<>> /\ Len(pila) = 0 /\ s \in Seq(Valores) /\ Len(s) \in Nat
  BY LlamaTipo, SonValores DEF InvocarFFI, InvEntrega
<1>2. pila \o s = s
  BY <1>1, VaciaMas
<1>3. /\ Pila(s, 0) /\ ventana' = [idc |-> 0, tam |-> Len(s)] /\ vuelo' = NADA
      /\ fin' = "no" /\ lista' = s /\ ~perdida'
  BY <1>1, <1>2, LlamaTipo DEF InvocarFFI, InvEntrega
<1> QED
  BY <1>1, <1>3, VentanaEntrega

LEMMA FuncionDeClosureEntrega ==
  ASSUME InvEntrega, FuncionDeClosure
  PROVE  Llegan'
<1>1. Inv /\ fin = "no" /\ vuelo # NADA
  BY DEF FuncionDeClosure, EnRecv, InvEntrega
<1>2. CASE Acabar("roto")
  BY <1>2, AcabarEntrega
<1>3. CASE ~Falta /\ AbrirVentana
  <2>1. ~perdida
    BY <1>1, <1>3, VueloPierde
  <2>2. PICK n \in Nat : n = vuelo.args
    BY <1>1, VueloTipo
  <2>3. PICK v \in Seq(Valores) : v = vuelo.a /\ Len(v) = 6
    BY <1>1, VueloTipo
  <2>4. PICK p \in Seq(Valores) : p = pila /\ Len(p) = EnPila(n)
    BY <1>1, <2>1, <2>2, EnvioTipo
  <2>5. PICK l \in Seq(Valores) : l = lista
    BY DEF InvEntrega, Llegan
  <2>6. Lleva(l, n, v, p)
    BY <2>1, <1>1, <2>2, <2>3, <2>4, <2>5, VueloLleva
  <2>7. PICK c \in Seq(Valores) : c = capturas
    BY DEF InvEntrega, Inv, TipoLlamadas
  <2>8. PICK k \in Nat : k = Len(c)
    OBVIOUS
  <2> DEFINE todos == Sin(p, EnPila(n)) \o c \o v \o Ultimos(p, EnPila(n))
  <2>9. /\ Pila(todos, 0)
        /\ ventana' = [idc |-> Len(todos) - (n + k), tam |-> n + k] /\ vuelo' = NADA
        /\ lista' = c \o l /\ perdida' = (n < NN) /\ UNCHANGED fin
    BY <1>3, <2>2, <2>3, <2>4, <2>5, <2>7, <2>8 DEF AbrirVentana
  <2>10. PICK t \in Seq(Valores) : t = todos /\ t = c \o v \o p /\ Len(t) = k + 6 + Len(p)
    <3>1. Sin(p, EnPila(n)) = <<>> /\ Ultimos(p, EnPila(n)) = p
      BY <2>4, Todo
    <3>2. <<>> \o c = c
      BY VaciaMas
    <3>3. todos = c \o v \o p
      BY ONLY <3>1, <3>2
    <3>4. PICK r \in Seq(Valores) : r = c \o v /\ Len(r) = k + 6
      <4>1. c \o v \in Seq(Valores) /\ Len(c \o v) = Len(c) + Len(v)
        BY Union
      <4>2. Len(c \o v) = k + 6
        BY ONLY <2>3, <2>8, <4>1
      <4> QED
        BY <4>1, <4>2
    <3>5. r \o p \in Seq(Valores) /\ Len(r \o p) = k + 6 + Len(p)
      BY <3>4, Union
    <3> QED
      BY <3>3, <3>4, <3>5
  <2> HIDE DEF todos
  <2>11. PICK m \in Seq(Valores) : m = c \o l /\ Len(m) = k + n
    <3>1. c \o l \in Seq(Valores) /\ Len(c \o l) = k + Len(l)
      BY <2>8, Union
    <3> QED
      BY <2>6, <3>1 DEF Lleva
  <2>12. PICK e \in Nat : e = Len(p) /\ (n <= 6 => e = 0) /\ (n >= 6 => e = n - 6)
    BY <2>4, EnPilaNatural
  <2>13. PICK i \in Nat : i = k + 6 + e - (n + k)
    <3>1. k + 6 + e - (n + k) = 6 + e - n /\ 6 + e - n \in Nat
      BY ONLY <2>12, k \in Nat, n \in Nat, e \in Nat
    <3> QED
      BY ONLY <3>1
  <2>14. PICK z \in Nat : z = n + k
    OBVIOUS
  <2>15. i = k + 6 + e - (n + k) /\ z = n + k
    BY <2>13, <2>14
  <2>16. z = Len(m) /\ (i = 0 /\ t = m <=> ~(n < 6))
    <3>1. z = Len(m)
      BY ONLY <2>11, <2>15, k \in Nat, n \in Nat
    <3>2. CASE n < 6
      BY <2>12, <2>15, <3>1, <3>2
    <3>3. CASE n >= 6
      <4>1. i = 0
        <5>1. e = n - 6
          BY <2>12, <3>3
        <5>2. k + 6 + (n - 6) - (n + k) = 0
          OBVIOUS
        <5> QED
          BY ONLY <2>15, <5>1, <5>2
      <4>2. v \o p = l
        BY <2>3, <2>6, <3>3, LlevaEntera
      <4>3. c \o v \o p = c \o (v \o p)
        BY ConcatAssociative, SMTT(30)
      <4>4. t = m
        BY <2>10, <2>11, <4>2, <4>3
      <4> QED
        BY <3>1, <3>3, <4>1, <4>4
    <3> QED
      BY <3>2, <3>3
  <2>17. /\ Pila(t, 0) /\ ventana' = [idc |-> i, tam |-> z] /\ vuelo' = NADA
         /\ fin' = "no" /\ lista' = m
    BY <1>1, <2>9, <2>10, <2>11, <2>12, <2>15
  <2>18. i = 0 /\ t = m <=> ~perdida'
    BY ONLY <2>9, <2>16 DEF NN
  <2> QED
    BY <2>16, <2>17, <2>18, VentanaEntrega
<1> QED
  BY <1>2, <1>3 DEF FuncionDeClosure

\* The window is the list that the program sees, unless it lost something.
LEMMA VentanaExacta ==
  ASSUME InvEntrega, EnFFI, Verifica
  PROVE  /\ Inv /\ fin = "no" /\ vuelo = NADA /\ lista \in Seq(Valores)
         /\ pila \in Seq(Valores) /\ cap \in Nat /\ sobra \in Nat /\ perdida \in BOOLEAN
         /\ ventana = [idc |-> sobra, tam |-> Len(lista)]
         /\ Len(pila) = sobra + Len(lista) /\ (perdida <=> sobra # 0)
         /\ ~perdida => pila = lista
<1>1. Inv /\ Entrega /\ Len(lista) = ventana.tam
  BY DEF InvEntrega, Llegan, Medida
<1>2. ~perdida => pila = lista
  BY <1>1 DEF Entrega, Exacta, EnFFI
<1> QED
  BY <1>1, <1>2, VentanaTipo, VentanaJusta DEF InvEntrega, Llegan, EnFFI, Inv, TipoLlamadas

LEMMA PonerEnVentanaEntrega ==
  ASSUME InvEntrega, EnFFI, NEW k \in Nat, k <= ventana.tam, NEW v \in Valores,
         PonerEnVentana(Sin(pila, k), v)
  PROVE  Llegan'
<1>1. Verifica /\ fin = "no" /\ vuelo = NADA /\ cap \in Nat /\ perdida \in BOOLEAN
  BY VentanaExacta DEF PonerEnVentana
<1>2. PICK l \in Seq(Valores), p \in Seq(Valores), i \in Nat :
         /\ l = lista /\ p = pila /\ i = sobra /\ ventana = [idc |-> i, tam |-> Len(l)]
         /\ Len(p) = i + Len(l) /\ (perdida <=> i # 0) /\ (~perdida => p = l)
  BY <1>1, VentanaExacta
<1>3. PICK n \in 0..Len(l) : n = Len(l) - k
  <2>1. PICK z \in Nat : z = Len(l)
    OBVIOUS
  <2>2. ventana.tam = z
    BY <1>2, <2>1
  <2>3. z - k \in 0..z
    BY <2>2
  <2> QED
    BY <2>1, <2>3
<1>4. PICK r \in Seq(Valores) : r = Sin(pila, k) /\ r = SubSeq(p, 1, i + n) /\ Len(r) = i + n
  <2>1. k \in 0..Len(p)
    BY <1>2
  <2>2. Sin(p, k) \in Seq(Valores) /\ Len(Sin(p, k)) = Len(p) - k
    BY <2>1, Cortes
  <2>3. Len(p) - k = i + n
    BY <1>2, <1>3
  <2> QED
    BY ONLY <1>2, <2>2, <2>3 DEF Sin
<1>5. CASE Len(r) < cap /\ ~Terminado("desbordado", Len(r) + 1)
  <2>1. PICK t \in Seq(Valores) : t = Append(r, v) /\ Len(t) = Len(r) + 1
    <3>1. Append(r, v) \in Seq(Valores) /\ Len(Append(r, v)) = Len(r) + 1
      OBVIOUS
    <3> QED
      BY <3>1
  <2>2. PICK m \in Seq(Valores) : m = Append(SubSeq(l, 1, n), v) /\ Len(m) = n + 1
    <3>1. SubSeq(l, 1, n) \in Seq(Valores) /\ Len(SubSeq(l, 1, n)) = n
      BY Inicio
    <3>2. PICK q \in Seq(Valores) : q = SubSeq(l, 1, n) /\ Len(q) = n
      BY <3>1
    <3>3. Append(q, v) \in Seq(Valores) /\ Len(Append(q, v)) = Len(q) + 1
      OBVIOUS
    <3> QED
      BY ONLY <3>2, <3>3
  <2>3. Len(r) - ventana.idc = n /\ Len(r) + 1 - ventana.idc = n + 1
    BY <1>2, <1>4
  <2>4. [ventana EXCEPT !.tam = Len(r) + 1 - ventana.idc] = [idc |-> i, tam |-> Len(m)]
    BY <1>2, <2>2, <2>3
  <2>5. Append(SubSeq(lista, 1, Len(r) - ventana.idc), v) = m
    BY ONLY <1>2, <2>2, <2>3
  <2>6. /\ Pila(t, 0) /\ ventana' = [idc |-> i, tam |-> Len(m)] /\ lista' = m
        /\ vuelo' = NADA /\ fin' = "no" /\ perdida' = perdida
    BY <1>1, <1>4, <1>5, <2>1, <2>4, <2>5 DEF PonerEnVentana
  <2>7. i = 0 /\ t = m <=> ~perdida'
    <3>1. i = 0 => t = m
      <4>1. i = 0 => r = SubSeq(l, 1, n)
        BY <1>2, <1>4
      <4> QED
        BY ONLY <2>1, <2>2, <4>1
    <3> QED
      BY ONLY <1>1, <1>2, <2>6, <3>1
  <2>8. PICK z \in Nat : z = Len(m)
    OBVIOUS
  <2>9. ventana' = [idc |-> i, tam |-> z]
    BY <2>6, <2>8
  <2> QED
    BY <2>6, <2>7, <2>8, <2>9, VentanaEntrega
<1>6. CASE ~(Len(r) < cap) \/ Terminado("desbordado", Len(r) + 1)
  <2>1. Terminado("desbordado", Len(r) + 1)
    BY <1>4, <1>6 DEF PonerEnVentana
  <2> QED
    BY <2>1, TerminadoEntrega
<1> QED
  BY <1>5, <1>6

LEMMA EmpujarEntrega ==
  ASSUME InvEntrega, NEW v \in Valores, Empujar(v)
  PROVE  Llegan'
<1>1. EnFFI /\ Verifica /\ PonerEnVentana(pila, v)
  BY DEF Empujar, PonerEnVentana
<1>2. PICK k \in Nat : k = 0 /\ k <= ventana.tam
  BY <1>1, VentanaTipo DEF InvEntrega
<1>3. Sin(pila, k) = pila
  BY <1>1, <1>2, VentanaExacta, SinNada
<1> QED
  BY <1>1, <1>2, <1>3, PonerEnVentanaEntrega

LEMMA EmpujarClosureEntrega ==
  ASSUME InvEntrega, NEW k \in Nat, EmpujarClosure(k)
  PROVE  Llegan'
<1>1. EnFFI /\ PonerEnVentana(Sin(pila, k), FFI) /\ k <= ventana.tam
  BY DEF EmpujarClosure
<1>2. FFI \in Valores
  BY SonValores
<1> QED
  BY <1>1, <1>2, PonerEnVentanaEntrega

LEMMA ExtenderFFIEntrega ==
  ASSUME InvEntrega, NEW n \in Nat, ExtenderFFI(n)
  PROVE  Llegan'
<1>1. /\ EnFFI /\ Verifica /\ perdida' = (perdida \/ n > 0)
      /\ UNCHANGED <<pila, vuelo, fin, lista>>
  BY DEF ExtenderFFI
<1>2. PICK l \in Seq(Valores), i \in Nat :
         /\ l = lista /\ i = sobra /\ ventana = [idc |-> i, tam |-> Len(l)] /\ fin = "no"
         /\ vuelo = NADA /\ perdida \in BOOLEAN
         /\ Len(pila) = i + Len(l) /\ (perdida <=> i # 0) /\ (~perdida => pila = l)
  BY <1>1, VentanaExacta
<1>3. PICK m \in Nat : m = Len(l) + n
  OBVIOUS
<1>4. ventana' = [idc |-> i, tam |-> m] /\ ventana' # NADA
  BY <1>2, <1>3, VentanaValida DEF ExtenderFFI
<1>5. lista' \in Seq(Valores) /\ Medida'
  <2>1. lista' = l /\ Len(pila') = i + Len(l)
    BY <1>1, <1>2
  <2>2. Verifica' => i + m <= i + Len(l)
    BY <1>4, <2>1 DEF Verifica
  <2>3. Verifica' => m = Len(l)
    BY <1>3, <2>2
  <2> QED
    BY <1>4, <2>1, <2>3 DEF Medida
<1>6. CASE perdida \/ n > 0
  <2>1. Inv'
    BY ExtenderFFIInv DEF InvEntrega
  <2>2. perdida'
    BY ONLY <1>1, <1>6
  <2> QED
    BY <1>4, <1>5, <2>1, <2>2, PerdidaEntrega DEF Llegan
<1>7. CASE ~perdida /\ ~(n > 0)
  <2>1. m = Len(l) /\ i = 0 /\ ~perdida' /\ pila' = l /\ lista' = l
    BY <1>1, <1>2, <1>3, <1>7
  <2>2. ~EnCuerpo'
    BY <1>4 DEF EnCuerpo
  <2>3. Exacta'
    BY <1>1, <1>2, <1>4, <2>1, <2>2 DEF Exacta
  <2> QED
    BY <1>5, <2>1, <2>3 DEF Entrega, Llegan
<1> QED
  BY ONLY <1>6, <1>7

LEMMA DevolverFFIEntrega ==
  ASSUME InvEntrega, DevolverFFI
  PROVE  Llegan'
<1>1. PICK l \in Seq(Valores), p \in Seq(Valores), i \in Nat :
         /\ l = lista /\ p = pila /\ i = sobra /\ ventana = [idc |-> i, tam |-> Len(l)]
         /\ Len(p) = i + Len(l) /\ (~perdida => p = l) /\ vuelo = NADA /\ fin = "no"
  BY VentanaExacta DEF DevolverFFI
<1>2. CASE ventana.tam > 0 /\ ~Acabar("error")
  <2>1. PICK u \in Valores : u = Last(p) /\ u = Last(IF perdida THEN p ELSE l)
    <3>1. Len(p) \in 1..Len(p)
      BY <1>1, <1>2
    <3>2. Last(p) \in Valores
      BY <3>1, ElementOfSeq DEF Last
    <3> QED
      BY <1>1, <3>2
  <2>2. /\ locales' = <<<<u>>>> /\ lista' = <<u>> /\ ventana' = NADA /\ vuelo' = NADA
        /\ fin' = "no" /\ ~perdida'
    BY <1>1, <1>2, <2>1 DEF DevolverFFI
  <2>3. FlattenSeq(<<<<u>>>>) = <<u>>
    BY AplanarUno
  <2>4. PICK ss : ss = <<<<u>>>> /\ locales' = ss /\ FlattenSeq(ss) = <<u>>
    BY <2>2, <2>3
  <2>5. Exacta'
    BY <2>2, <2>4 DEF Exacta
  <2>6. <<u>> \in Seq(Valores)
    OBVIOUS
  <2>7. ~EnFFI'
    BY <2>2 DEF EnFFI
  <2> QED
    BY <2>2, <2>5, <2>6, <2>7 DEF Entrega, Llegan, Medida
<1>3. CASE ~(ventana.tam > 0) \/ Acabar("error")
  <2>1. Acabar("error")
    BY <1>3 DEF DevolverFFI
  <2> QED
    BY <2>1, AcabarEntrega
<1> QED
  BY <1>2, <1>3

LEMMA FallarFFIEntrega ==
  ASSUME InvEntrega, FallarFFI
  PROVE  Llegan'
<1>1. Acabar("error")
  BY DEF FallarFFI
<1> QED
  BY <1>1, AcabarEntrega

LEMMA TerminarEntrega ==
  ASSUME InvEntrega, Terminar
  PROVE  Llegan'
<1>1. /\ fin' = "ok" /\ vuelo' = NADA /\ ventana' = NADA /\ ~perdida'
      /\ lista' \in Seq(Valores)
  BY CuerpoTipo DEF Terminar, Sigue, EnCuerpo, InvEntrega, Llegan, historia
<1>2. ~EnCuerpo' /\ ~EnFFI'
  BY <1>1 DEF EnCuerpo, EnFFI
<1>3. Exacta'
  BY <1>1, <1>2 DEF Exacta
<1> QED
  BY <1>1, <1>2, <1>3 DEF Entrega, Llegan, Medida

-------------------------------------------------------------------------------
LEMMA EntregaInicial == ASSUME Init PROVE Llegan
<1>1. Exacta
  BY AplanarNada DEF Init, Exacta
<1>2. <<>> \in Seq(Valores)
  OBVIOUS
<1>3. ~EnFFI
  BY DEF Init, EnFFI
<1> QED
  BY <1>1, <1>2, <1>3 DEF Init, Entrega, Llegan, Medida

LEMMA PasoEntrega ==
  ASSUME InvEntrega, [Next]_vars
  PROVE  Llegan'
<1>1. ASSUME NEW d \in Destinos PROVE d[1] \in Valores /\ d[2] \in Valores
  BY <1>1, SonValores
<1>2. \A yo \in Objetos, msj \in Mensajes : yo \in Valores /\ msj \in Valores
  BY SonValores
<1>3. NULO \in Valores /\ 0..1 \subseteq Nat
  BY SonValores
<1>4. CASE UNCHANGED vars
  <2>1. (Exacta' <=> Exacta) /\ (Medida' <=> Medida)
    BY <1>4 DEF vars, historia, Exacta, Medida, EnCuerpo, EnFFI, Verifica
  <2> QED
    BY <1>4, <2>1 DEF vars, historia, InvEntrega, Llegan, Entrega
<1>5. CASE Next
  BY <1>1, <1>2, <1>3, <1>5, LlamarFijaEntrega, LlamarVariadicaEntrega, SeguirEntrega,
     ParamsEntrega, EnviarAMetodoEntrega, EnviarANoEncontradoEntrega,
     EnviarMensajeEntrega, SinRespuestaEntrega, InvocarFFIEntrega,
     FuncionDeClosureEntrega, EmpujarEntrega, ExtenderFFIEntrega, EmpujarClosureEntrega,
     DevolverFFIEntrega, FallarFFIEntrega, TerminarEntrega DEF Next
<1> QED
  BY <1>4, <1>5

\* What arrives is what was passed if and only if no step was one of those that lose
\* something, which Entrega names.
THEOREM EntregaSiempre == Spec => []Entrega
<1>1. Init => InvEntrega
  BY InicioInv, EntregaInicial DEF InvEntrega
<1>2. InvEntrega /\ [Next]_vars => InvEntrega'
  BY PasoInv, PasoEntrega DEF InvEntrega
<1>3. InvEntrega => Entrega
  BY DEF InvEntrega, Llegan
<1> QED
  BY <1>1, <1>2, <1>3, PTL DEF Spec
===============================================================================

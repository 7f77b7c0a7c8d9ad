--------------------------- MODULE CorrutinaPruebas ---------------------------
(***************************************************************************)
(* Proofs about Corrutina: its type invariant, that an actor that waits is *)
(* held once and that it implements a stack, for any number of coroutines  *)
(* and sites, in every program that advances a coroutine from one actor.   *)
(***************************************************************************)
EXTENDS Corrutina, Naturales, SequenceTheorems, TLAPS

\* The programs of Corrutina that advance a coroutine from one actor only.
UnActor == \A p \in Programas : "otro_actor" \notin p

\* The actor that runs does not wait, and it has started.
CorreUno ==
  /\ espera[corriendo] = NADA
  /\ \A c \in Coros : estado[c] = "INICIAL" => corriendo # c /\ espera[c] = NADA

\* UnSoloUso alone is not inductive: the actor that leaves must not be waiting
\* somewhere else already.
Inv == TipoOK /\ UnSoloUso /\ CorreUno

-------------------------------------------------------------------------------
(* Lemmas.                                                                 *)

\* A continuation is neither NADA nor anything but an actor and a site.
LEMMA ContinuacionNoEsNada ==
  ASSUME NEW a \in Actores, NEW s \in Sitios
  PROVE  /\ K(a, s) \in Continuaciones
         /\ K(a, s) # NADA
         /\ K(a, s).actor = a /\ K(a, s).sitio = s
         /\ s # NADA
BY NadaNoEsDato DEF K, Continuaciones

\* The type invariant holds initially.
LEMMA TipoInicial == Init => TipoOK
BY DEF Init, TipoOK, Actores, Estados

\* The type invariant is inductive.
LEMMA TipoInductivo == TipoOK /\ [Next]_vars => TipoOK'
<1> SUFFICES ASSUME TipoOK, [Next]_vars PROVE TipoOK'
  OBVIOUS
<1> USE DEF TipoOK, Actores, Estados
<1>1. ASSUME NEW c \in Coros, NEW s \in Sitios, AvanzarInicial(c, s)
      PROVE  TipoOK'
  BY <1>1, ContinuacionNoEsNada DEF AvanzarInicial
<1>2. ASSUME NEW c \in Coros, NEW s \in Sitios, AvanzarSuspendida(c, s)
      PROVE  TipoOK'
  BY <1>2, ContinuacionNoEsNada DEF AvanzarSuspendida, Continuar, PuntoDe, Continuaciones
<1>3. ASSUME NEW c \in Coros, NEW s \in Sitios, Generar(c, s)
      PROVE  TipoOK'
  BY <1>3, ContinuacionNoEsNada DEF Generar, Continuar, PuntoDe, Continuaciones
<1>4. ASSUME NEW c \in Coros, Devolver(c)
      PROVE  TipoOK'
  BY <1>4 DEF Devolver, Continuaciones
<1>5. ASSUME NEW c \in Coros, Error(c)
      PROVE  TipoOK'
  BY <1>5 DEF Error
<1>6. CASE Terminar
  BY <1>6 DEF Terminar
<1>7. CASE UNCHANGED vars
  BY <1>7 DEF vars
<1> QED
  BY <1>1, <1>2, <1>3, <1>4, <1>5, <1>6, <1>7 DEF Next

\* Every variable has its type, and a coroutine holds a continuation exactly
\* when its estado says so.
THEOREM TipoSiempre == Spec => []TipoOK
BY TipoInicial, TipoInductivo, PTL DEF Spec

-------------------------------------------------------------------------------
(* An actor that waits is held by one coroutine, and bodies go back to it. *)

\* The invariant holds initially: nobody waits and nothing is held.
LEMMA InvInicial == Init => Inv
<1> SUFFICES ASSUME Init PROVE Inv
  OBVIOUS
<1>1. TipoOK
  BY TipoInicial
<1>2. UnoLoGuarda
  BY DEF Init, UnoLoGuarda, Guardan
<1>3. VuelveAQuienGuarda /\ CorreUno
  BY PrincipalNoEsCorrutina DEF Init, VuelveAQuienGuarda, CorreUno, Actores
<1> QED
  BY <1>1, <1>2, <1>3 DEF Inv, UnSoloUso

\* avanzar on a coroutine that has not started.
LEMMA InvAvanzarInicial ==
  ASSUME Inv, TipoOK', NEW c \in Coros, NEW s \in Sitios, AvanzarInicial(c, s)
  PROVE  Inv'
<1> USE DEF Inv, UnSoloUso, TipoOK
<1>1. /\ punto[c] = NADA /\ c # corriendo /\ espera[c] = NADA
      /\ Guardan(corriendo) = {} /\ Guardan(c) = {}
  BY DEF AvanzarInicial, CorreUno, UnoLoGuarda, Actores
<1>2. /\ punto' = [punto EXCEPT ![c] = K(corriendo, s)]
      /\ espera' = [espera EXCEPT ![corriendo] = s]
      /\ corriendo' = c
      /\ K(corriendo, s) # NADA /\ K(corriendo, s).actor = corriendo /\ s # NADA
  BY ContinuacionNoEsNada DEF AvanzarInicial
<1>3. UnoLoGuarda'
  <2> SUFFICES ASSUME NEW a \in Actores
               PROVE  IF espera'[a] # NADA
                      THEN \E d \in Coros : Guardan(a)' = {d} /\ punto'[d] = K(a, espera'[a])
                      ELSE Guardan(a)' = {}
    BY DEF UnoLoGuarda
  <2>1. CASE a = corriendo
    <3>1. Guardan(a)' = {c}
      BY <1>1, <1>2, <2>1 DEF Guardan
    <3> QED
      BY <1>2, <2>1, <3>1
  <2>2. CASE a # corriendo
    <3>1. Guardan(a)' = Guardan(a)
      BY <1>1, <1>2, <2>2 DEF Guardan
    <3>2. \A d \in Guardan(a) : punto'[d] = punto[d]
      BY <1>1, <1>2, <2>2 DEF Guardan
    <3>3. espera'[a] = espera[a]
      BY <1>2, <2>2
    <3> QED
      BY <3>1, <3>2, <3>3 DEF UnoLoGuarda
  <2> QED
    BY <2>1, <2>2
<1>4. VuelveAQuienGuarda'
  BY <1>1 DEF AvanzarInicial, VuelveAQuienGuarda
<1>5. CorreUno'
  BY <1>1, <1>2, PrincipalNoEsCorrutina DEF AvanzarInicial, CorreUno, Actores
<1> QED
  BY <1>3, <1>4, <1>5

\* avanzar on a suspended coroutine and generar: the continuation that c holds
\* goes on and the one of the actor that runs takes its place.
LEMMA InvIntercambio ==
  ASSUME Inv, TipoOK', NEW c \in Coros, NEW s \in Sitios,
         punto[c] # NADA,
         punto' = [punto EXCEPT ![c] = K(corriendo, s)],
         Continuar(s, punto[c]),
         \A d \in Coros : (estado[d] = "INICIAL") = (estado'[d] = "INICIAL")
  PROVE  UnoLoGuarda' /\ CorreUno'
<1> USE DEF Inv, UnSoloUso, TipoOK
<1> DEFINE x == punto[c].actor
<1>1. x \in Actores /\ c \in Guardan(x)
  BY DEF Guardan, Continuaciones
<1>2. espera[x] # NADA /\ Guardan(x) = {c}
  BY <1>1 DEF UnoLoGuarda
<1>3. x # corriendo /\ Guardan(corriendo) = {}
  BY <1>2 DEF CorreUno, UnoLoGuarda
<1>4. /\ K(corriendo, s) # NADA /\ K(corriendo, s).actor = corriendo /\ s # NADA
  BY ContinuacionNoEsNada
<1>5. corriendo' = x /\ espera' = [espera EXCEPT ![corriendo] = s, ![x] = NADA]
  BY DEF Continuar
<1>6. UnoLoGuarda'
  <2> SUFFICES ASSUME NEW a \in Actores
               PROVE  IF espera'[a] # NADA
                      THEN \E d \in Coros : Guardan(a)' = {d} /\ punto'[d] = K(a, espera'[a])
                      ELSE Guardan(a)' = {}
    BY DEF UnoLoGuarda
  <2>1. CASE a = corriendo
    <3>1. Guardan(a)' = {c}
      BY <1>3, <1>4, <2>1 DEF Guardan
    <3>2. espera'[a] = s
      BY <1>3, <1>5, <2>1
    <3> QED
      BY <1>4, <2>1, <3>1, <3>2
  <2>2. CASE a = x
    <3>1. Guardan(a)' = {}
      BY <1>2, <1>3, <1>4, <2>2 DEF Guardan
    <3>2. espera'[a] = NADA
      BY <1>1, <1>3, <1>5, <2>2
    <3> QED
      BY <3>1, <3>2
  <2>3. CASE a # corriendo /\ a # x
    <3>1. Guardan(a)' = Guardan(a)
      BY <1>4, <2>3 DEF Guardan
    <3>2. \A d \in Guardan(a) : punto'[d] = punto[d]
      BY <1>4, <2>3 DEF Guardan
    <3>3. espera'[a] = espera[a]
      BY <1>5, <2>3
    <3> QED
      BY <3>1, <3>2, <3>3 DEF UnoLoGuarda
  <2> QED
    BY <2>1, <2>2, <2>3
<1>7. CorreUno'
  BY <1>1, <1>2, <1>3, <1>5 DEF CorreUno, Actores
<1> QED
  BY <1>6, <1>7

\* The end of the body of c.
LEMMA InvDevolver ==
  ASSUME Inv, TipoOK', NEW c \in Coros, Devolver(c)
  PROVE  Inv'
<1> USE DEF Inv, UnSoloUso, TipoOK
<1> DEFINE x == punto[c].actor
<1>1. punto[c] # NADA /\ x \in Actores /\ c \in Guardan(x) /\ retorno[c].actor = x
  BY DEF Devolver, Guardan, Continuaciones, VuelveAQuienGuarda
<1>2. espera[x] # NADA /\ Guardan(x) = {c}
  BY <1>1 DEF UnoLoGuarda
<1>3. /\ corriendo' = x /\ espera' = [espera EXCEPT ![x] = NADA]
      /\ punto' = [punto EXCEPT ![c] = NADA]
      /\ estado' = [estado EXCEPT ![c] = "FINALIZADA"]
  BY <1>1 DEF Devolver
<1>4. UnoLoGuarda'
  <2> SUFFICES ASSUME NEW a \in Actores
               PROVE  IF espera'[a] # NADA
                      THEN \E d \in Coros : Guardan(a)' = {d} /\ punto'[d] = K(a, espera'[a])
                      ELSE Guardan(a)' = {}
    BY DEF UnoLoGuarda
  <2>1. CASE a = x
    <3>1. Guardan(a)' = {}
      BY <1>2, <1>3, <2>1 DEF Guardan
    <3> QED
      BY <1>1, <1>3, <2>1, <3>1
  <2>2. CASE a # x
    <3>1. Guardan(a)' = Guardan(a)
      BY <1>1, <1>3, <2>2 DEF Guardan
    <3>2. \A d \in Guardan(a) : punto'[d] = punto[d]
      BY <1>1, <1>3, <2>2 DEF Guardan
    <3>3. espera'[a] = espera[a]
      BY <1>3, <2>2
    <3> QED
      BY <3>1, <3>2, <3>3 DEF UnoLoGuarda
  <2> QED
    BY <2>1, <2>2
<1>5. VuelveAQuienGuarda'
  BY <1>3 DEF Devolver, VuelveAQuienGuarda
<1>6. CorreUno'
  BY <1>1, <1>2, <1>3 DEF CorreUno, Actores
<1> QED
  BY <1>4, <1>5, <1>6

\* The invariant is inductive in the programs that advance each coroutine from
\* one actor.
LEMMA InvInductivo ==
  ASSUME UnActor
  PROVE  Inv /\ [Next]_vars => Inv'
<1> SUFFICES ASSUME Inv, [Next]_vars PROVE Inv'
  OBVIOUS
<1>0. TipoOK'
  BY TipoInductivo DEF Inv, UnSoloUso
<1>1. ASSUME NEW c \in Coros, NEW s \in Sitios, AvanzarInicial(c, s)
      PROVE  Inv'
  BY <1>0, <1>1, InvAvanzarInicial
<1>2. ASSUME NEW c \in Coros, NEW s \in Sitios, AvanzarSuspendida(c, s)
      PROVE  Inv'
  <2>1. /\ corriendo = retorno[c].actor /\ usa' = usa
        /\ "otro_sitio" \notin usa => s = retorno[c].sitio
    BY <1>2, UnActor DEF AvanzarSuspendida, UnActor, Inv, TipoOK
  <2>2. UnoLoGuarda' /\ CorreUno'
    BY <1>0, <1>2, InvIntercambio DEF AvanzarSuspendida, PuntoDe, Inv, UnSoloUso, TipoOK
  <2>3. VuelveAQuienGuarda'
    <3>1. retorno[c] = K(retorno[c].actor, retorno[c].sitio)
      BY <1>2, NadaNoEsDato DEF AvanzarSuspendida, Inv, TipoOK, Continuaciones, K
    <3>2. K(corriendo, s).actor = corriendo
      BY ContinuacionNoEsNada DEF Inv, TipoOK
    <3> QED
      BY <1>2, <2>1, <3>1, <3>2
         DEF AvanzarSuspendida, VuelveAQuienGuarda, Inv, UnSoloUso, TipoOK
  <2> QED
    BY <1>0, <2>2, <2>3 DEF Inv, UnSoloUso
<1>3. ASSUME NEW c \in Coros, NEW s \in Sitios, Generar(c, s)
      PROVE  Inv'
  <2>1. UnoLoGuarda' /\ CorreUno'
    BY <1>0, <1>3, InvIntercambio DEF Generar, PuntoDe, Inv, UnSoloUso, TipoOK
  <2>2. VuelveAQuienGuarda'
    BY <1>3 DEF Generar, VuelveAQuienGuarda, Inv, UnSoloUso, TipoOK
  <2> QED
    BY <1>0, <2>1, <2>2 DEF Inv, UnSoloUso
<1>4. ASSUME NEW c \in Coros, Devolver(c)
      PROVE  Inv'
  BY <1>0, <1>4, InvDevolver
<1>5. ASSUME NEW c \in Coros, Error(c)
      PROVE  Inv'
  BY <1>0, <1>5 DEF Error, Inv, UnSoloUso, UnoLoGuarda, VuelveAQuienGuarda, Guardan, CorreUno
<1>6. CASE Terminar
  BY <1>0, <1>6 DEF Terminar, Inv, UnSoloUso, UnoLoGuarda, VuelveAQuienGuarda, Guardan, CorreUno
<1>7. CASE UNCHANGED vars
  BY <1>0, <1>7 DEF vars, Inv, UnSoloUso, UnoLoGuarda, VuelveAQuienGuarda, Guardan, CorreUno
<1> QED
  BY <1>1, <1>2, <1>3, <1>4, <1>5, <1>6, <1>7 DEF Next

\* In a program that advances each coroutine from one actor, whatever it does
\* with the generators: every actor that waits is held by exactly one
\* coroutine, at the site where it left, and nobody holds the one that runs; a
\* body ends where its coroutine holds, up to the site when the program advances
\* a coroutine from several sites.
THEOREM UnSoloUsoSiempre ==
  ASSUME UnActor
  PROVE  Spec => []UnSoloUso
<1>1. Inv => UnSoloUso
  BY DEF Inv
<1>2. Inv /\ [Next]_vars => Inv'
  BY InvInductivo
<1> QED
  BY InvInicial, <1>1, <1>2, PTL DEF Spec

-------------------------------------------------------------------------------
(* Coroutines enter and leave one another as a stack.                      *)

\* p is the actors that wait for one another, from the main program to the one
\* that runs: each coroutine holds the continuation of the one before it.
Enlaza(p, quien, est, pt) ==
  /\ p \in Seq(Actores) /\ Len(p) > 0
  /\ p[1] = PRINCIPAL /\ p[Len(p)] = quien
  /\ \A i \in 2 .. Len(p) :
       p[i] \in Coros /\ est[p[i]] = "EJECUTANDOSE" /\ pt[p[i]] # NADA /\ pt[p[i]].actor = p[i - 1]
  /\ \A i, j \in 1 .. Len(p) : p[i] = p[j] => i = j

\* The equation of the function that Pila computes with.
EcuacionDePila(f, quien, pt) ==
  f = [n \in Nat |->
        IF n = 0 THEN <<quien>>
        ELSE LET q == f[n - 1] IN
               IF Head(q) = PRINCIPAL \/ pt[Head(q)] = NADA THEN q
               ELSE <<pt[Head(q)].actor>> \o q]

DesdeEl(quien, pt) == (CHOOSE f : EcuacionDePila(f, quien, pt))[Cardinality(Coros)]

LEMMA PilaEsDesdeEl == Pila = DesdeEl(corriendo, punto)
BY DEF Pila, DesdeEl, EcuacionDePila

LEMMA PilaEsDesdeElDespues == Pila' = DesdeEl(corriendo', punto')
BY DEF Pila, DesdeEl, EcuacionDePila

\* No actor is twice in the stack, so it is no longer than the coroutines and
\* the main program together.
LEMMA PilaAcotada ==
  ASSUME IsFiniteSet(Coros), NEW p, NEW quien, NEW est, NEW pt, Enlaza(p, quien, est, pt)
  PROVE  Cardinality(Coros) \in Nat /\ Len(p) <= Cardinality(Coros) + 1
<1> DEFINE f == [i \in 2 .. Len(p) |-> p[i]]
<1>1. Len(p) \in Nat /\ Len(p) > 0
  BY DEF Enlaza
<1>2. f \in Injection(2 .. Len(p), Coros)
  BY <1>1 DEF Enlaza, Injection, IsInjective
<1>3. Cardinality(2 .. Len(p)) <= Cardinality(Coros)
  BY <1>2, FS_Injection
<1>4. Cardinality(2 .. Len(p)) = Len(p) - 1
  BY <1>1, FS_Interval
<1>5. Cardinality(Coros) \in Nat
  BY FS_CardinalityType
<1> QED
  BY <1>1, <1>3, <1>4, <1>5

\* The function that Pila computes with goes up the stack one actor at a time.
LEMMA PilaPorPasos ==
  ASSUME NEW p, NEW quien, NEW est, NEW pt, Enlaza(p, quien, est, pt)
  PROVE  \E f : /\ EcuacionDePila(f, quien, pt)
                /\ \A n \in Nat : n + 1 >= Len(p) => f[n] = p
<1> DEFINE desde(n) == IF n < Len(p) THEN Len(p) - n ELSE 1
           f == [n \in Nat |-> SubSeq(p, desde(n), Len(p))]
<1>1. Len(p) \in Nat /\ Len(p) > 0 /\ p \in Seq(Actores)
  BY DEF Enlaza
<1>2. \A n \in Nat : desde(n) \in 1 .. Len(p) /\ f[n] = SubSeq(p, desde(n), Len(p))
  BY <1>1
<1>3. f[0] = <<quien>>
  <2>1. desde(0) = Len(p)
    BY <1>1
  <2>2. SubSeq(p, Len(p), Len(p)) = <<p[Len(p)]>> \o SubSeq(p, Len(p) + 1, Len(p))
    BY <1>1, SubSeqRecursiveFirst
  <2>3. SubSeq(p, Len(p) + 1, Len(p)) = <<>>
    BY <1>1, SubSeqEmpty
  <2>4. p[Len(p)] = quien /\ quien \in Actores
    BY <1>1 DEF Enlaza
  <2>5. <<quien>> \o <<>> = <<quien>>
    BY <2>4
  <2>6. f[0] = SubSeq(p, Len(p), Len(p))
    BY <1>2, <2>1
  <2> QED
    BY <2>2, <2>3, <2>4, <2>5, <2>6
<1>4. ASSUME NEW n \in Nat, n # 0
      PROVE  f[n] = IF Head(f[n - 1]) = PRINCIPAL \/ pt[Head(f[n - 1])] = NADA THEN f[n - 1]
                    ELSE <<pt[Head(f[n - 1])].actor>> \o f[n - 1]
  <2> DEFINE k == desde(n - 1)
  <2>1. n - 1 \in Nat /\ k \in 1 .. Len(p) /\ f[n - 1] = SubSeq(p, k, Len(p))
    <3>1. n - 1 \in Nat
      BY <1>4
    <3> HIDE DEF desde, f
    <3> QED
      BY <1>2, <3>1
  <2>2. Head(f[n - 1]) = p[k]
    <3> HIDE DEF f, k
    <3> QED
      BY <1>1, <2>1, HeadTailOfSubSeq
  <2>3. CASE k = 1
    <3>1. p[k] = PRINCIPAL
      BY <2>3 DEF Enlaza
    <3>2. desde(n) = k
      BY <1>1, <1>4, <2>3
    <3> QED
      BY <1>2, <2>1, <2>2, <3>1, <3>2
  <2>4. CASE k # 1
    <3>1. k \in 2 .. Len(p) /\ desde(n) = k - 1
      BY <1>1, <1>4, <2>1, <2>4
    <3>2. p[k] # PRINCIPAL /\ pt[p[k]] # NADA /\ pt[p[k]].actor = p[k - 1]
      BY <3>1, PrincipalNoEsCorrutina DEF Enlaza
    <3>3. SubSeq(p, k - 1, Len(p)) = <<p[k - 1]>> \o SubSeq(p, k, Len(p))
      <4> HIDE DEF k
      <4>1. k - 1 \in 1 .. Len(p) /\ Len(p) \in (k - 1) .. Len(p) /\ (k - 1) + 1 = k
        BY <1>1, <3>1
      <4> QED
        BY <1>1, <4>1, SubSeqRecursiveFirst
    <3> HIDE DEF k
    <3>4. f[n] = SubSeq(p, k - 1, Len(p))
      BY <1>2, <3>1
    <3> QED
      BY <2>1, <2>2, <3>2, <3>3, <3>4
  <2> QED
    BY <2>3, <2>4
<1>5. \A n \in Nat : n + 1 >= Len(p) => f[n] = p
  <2>1. SubSeq(p, 1, Len(p)) = p
    BY <1>1, SubSeqFull
  <2>2. \A n \in Nat : n + 1 >= Len(p) => desde(n) = 1
    BY <1>1
  <2> QED
    BY <1>2, <2>1, <2>2
<1>6. f = [n \in Nat |-> f[n]]
  OBVIOUS
<1> HIDE DEF f
<1>7. EcuacionDePila(f, quien, pt)
  BY <1>3, <1>4, <1>6 DEF EcuacionDePila
<1> QED
  BY <1>5, <1>7

\* And it is the only function that does.
LEMMA EcuacionUnica ==
  ASSUME NEW f, NEW g, NEW quien, NEW pt,
         EcuacionDePila(f, quien, pt), EcuacionDePila(g, quien, pt)
  PROVE  \A n \in Nat : f[n] = g[n]
<1> DEFINE S == {n \in Nat : f[n] = g[n]}
<1>1. 0 \in S
  BY DEF EcuacionDePila
<1>2. ASSUME NEW n \in Nat, n \in S
      PROVE  n + 1 \in S
  <2>1. n + 1 \in Nat /\ n + 1 # 0 /\ (n + 1) - 1 = n
    OBVIOUS
  <2>2. f[n] = g[n]
    BY <1>2
  <2>3. ASSUME NEW h, EcuacionDePila(h, quien, pt), NEW m \in Nat, m # 0
        PROVE  h[m] = IF Head(h[m - 1]) = PRINCIPAL \/ pt[Head(h[m - 1])] = NADA THEN h[m - 1]
                      ELSE <<pt[Head(h[m - 1])].actor>> \o h[m - 1]
    BY <2>3 DEF EcuacionDePila
  <2> HIDE DEF S
  <2>4. f[n + 1] = g[n + 1]
    BY <2>1, <2>2, <2>3
  <2> QED
    BY <2>1, <2>4 DEF S
<1> HIDE DEF S
<1>3. Nat \subseteq S
  BY <1>1, <1>2, Induccion
<1> QED
  BY <1>3 DEF S

\* Pila is the stack.
LEMMA PilaUnica ==
  ASSUME IsFiniteSet(Coros), NEW p, NEW quien, NEW est, NEW pt, Enlaza(p, quien, est, pt)
  PROVE  DesdeEl(quien, pt) = p
<1>1. Cardinality(Coros) \in Nat /\ Len(p) <= Cardinality(Coros) + 1 /\ Len(p) \in Nat
  BY PilaAcotada DEF Enlaza
<1>2. PICK f : /\ EcuacionDePila(f, quien, pt)
               /\ \A n \in Nat : n + 1 >= Len(p) => f[n] = p
  BY PilaPorPasos
<1> DEFINE g == CHOOSE h : EcuacionDePila(h, quien, pt)
<1>3. EcuacionDePila(g, quien, pt)
  BY <1>2
<1> HIDE DEF g
<1>4. \A n \in Nat : f[n] = g[n]
  BY <1>2, <1>3, EcuacionUnica
<1>5. g[Cardinality(Coros)] = p
  BY <1>1, <1>2, <1>4
<1> QED
  BY <1>5 DEF DesdeEl, g

\* While only its own body uses the generator of a coroutine, the actors that
\* wait form a stack, and a suspended coroutine holds its own body.
InvPila ==
  "generar_ajeno" \notin usa =>
    /\ \E p : Enlaza(p, corriendo, estado, punto)
    /\ \A c \in Coros : estado[c] = "SUSPENDIDA" => punto[c].actor = c

\* Entering a coroutine that does not run puts it on the stack.
LEMMA EntrarApila ==
  ASSUME TipoOK, NEW p, Enlaza(p, corriendo, estado, punto),
         NEW c \in Coros, NEW s \in Sitios, estado[c] # "EJECUTANDOSE",
         estado' = [estado EXCEPT ![c] = "EJECUTANDOSE"],
         punto' = [punto EXCEPT ![c] = K(corriendo, s)],
         corriendo' = c
  PROVE  /\ Enlaza(Append(p, c), corriendo', estado', punto')
         /\ \A i \in 1 .. Len(p) : p[i] # c
<1> DEFINE q == Append(p, c)
<1>1. p \in Seq(Actores) /\ Len(p) \in Nat /\ Len(p) > 0 /\ c \in Actores
  BY DEF Enlaza, Actores
<1>2. /\ q \in Seq(Actores) /\ Len(q) = Len(p) + 1
      /\ \A i \in 1 .. Len(p) : q[i] = p[i]
      /\ q[Len(p) + 1] = c
  BY <1>1, AppendProperties
<1>3. \A i \in 1 .. Len(p) : p[i] # c
  <2>1. \A i \in 2 .. Len(p) : p[i] # c
    BY DEF Enlaza
  <2>2. p[1] # c
    BY PrincipalNoEsCorrutina DEF Enlaza
  <2> QED
    BY <1>1, <2>1, <2>2
<1>4. K(corriendo, s) # NADA /\ K(corriendo, s).actor = corriendo
  BY ContinuacionNoEsNada DEF TipoOK
<1> HIDE DEF q
<1>5. q[1] = PRINCIPAL /\ q[Len(q)] = corriendo'
  BY <1>1, <1>2 DEF Enlaza
<1>6. ASSUME NEW i \in 2 .. Len(q)
      PROVE  /\ q[i] \in Coros /\ estado'[q[i]] = "EJECUTANDOSE"
             /\ punto'[q[i]] # NADA /\ punto'[q[i]].actor = q[i - 1]
  <2>1. CASE i = Len(p) + 1
    <3>1. q[i] = c /\ q[i - 1] = corriendo
      BY <1>1, <1>2, <2>1 DEF Enlaza
    <3> QED
      BY <1>4, <3>1 DEF TipoOK
  <2>2. CASE i # Len(p) + 1
    <3>1. i \in 2 .. Len(p) /\ i - 1 \in 1 .. Len(p)
      BY <1>1, <1>2, <2>2
    <3>2. q[i] = p[i] /\ q[i - 1] = p[i - 1] /\ p[i] # c
      BY <1>2, <1>3, <3>1
    <3> QED
      BY <3>1, <3>2 DEF Enlaza, TipoOK
  <2> QED
    BY <2>1, <2>2
<1>7. \A i, j \in 1 .. Len(q) : q[i] = q[j] => i = j
  BY <1>1, <1>2, <1>3 DEF Enlaza
<1>8. Enlaza(q, corriendo', estado', punto')
  BY <1>1, <1>2, <1>5, <1>6, <1>7 DEF Enlaza
<1> QED
  BY <1>3, <1>8 DEF q

\* Leaving the coroutine that runs takes it off the stack.
LEMMA SalirDesapila ==
  ASSUME TipoOK, NEW p, Enlaza(p, corriendo, estado, punto),
         corriendo \in Coros, corriendo' = punto[corriendo].actor,
         \A d \in Coros : d # corriendo => estado'[d] = estado[d] /\ punto'[d] = punto[d]
  PROVE  /\ Len(p) > 1 /\ p[Len(p)] = corriendo
         /\ Enlaza(SubSeq(p, 1, Len(p) - 1), corriendo', estado', punto')
<1> DEFINE q == SubSeq(p, 1, Len(p) - 1)
<1>1. p \in Seq(Actores) /\ Len(p) \in Nat /\ Len(p) > 0 /\ p[Len(p)] = corriendo
  BY DEF Enlaza
<1>2. Len(p) > 1
  BY <1>1, PrincipalNoEsCorrutina DEF Enlaza
<1>3. \A i \in 1 .. (Len(p) - 1) : p[i] \in Actores
  BY <1>1
<1>4. /\ q \in Seq(Actores) /\ Len(q) = Len(p) - 1
      /\ \A i \in 1 .. Len(p) - 1 : q[i] = p[i]
  <2>1. 1 \in Int /\ Len(p) - 1 \in Int /\ 1 <= Len(p) - 1
    BY <1>1, <1>2
  <2>2. /\ q \in Seq(Actores)
        /\ Len(q) = IF 1 <= Len(p) - 1 THEN (Len(p) - 1) - 1 + 1 ELSE 0
        /\ \A i \in 1 .. (Len(p) - 1) - 1 + 1 : q[i] = p[1 + i - 1]
    BY <1>3, <2>1, SubSeqProperties
  <2> HIDE DEF q
  <2> QED
    BY <1>1, <2>1, <2>2
<1> HIDE DEF q
<1>5. q[1] = PRINCIPAL /\ q[Len(q)] = corriendo'
  <2>1. punto[corriendo].actor = p[Len(p) - 1]
    BY <1>1, <1>2 DEF Enlaza
  <2> QED
    BY <1>1, <1>2, <1>4, <2>1 DEF Enlaza
<1>6. ASSUME NEW i \in 2 .. Len(q)
      PROVE  /\ q[i] \in Coros /\ estado'[q[i]] = "EJECUTANDOSE"
             /\ punto'[q[i]] # NADA /\ punto'[q[i]].actor = q[i - 1]
  <2>1. i \in 2 .. Len(p) /\ i # Len(p) /\ q[i] = p[i] /\ q[i - 1] = p[i - 1]
    BY <1>1, <1>4
  <2>2. p[i] # corriendo
    BY <1>1, <2>1 DEF Enlaza
  <2> QED
    BY <2>1, <2>2 DEF Enlaza
<1>7. \A i, j \in 1 .. Len(q) : q[i] = q[j] => i = j
  <2>1. \A i \in 1 .. Len(q) : i \in 1 .. Len(p) /\ q[i] = p[i]
    BY <1>1, <1>4
  <2>2. \A i, j \in 1 .. Len(p) : p[i] = p[j] => i = j
    BY DEF Enlaza
  <2> QED
    BY <2>1, <2>2
<1>8. Enlaza(q, corriendo', estado', punto')
  BY <1>1, <1>2, <1>4, <1>5, <1>6, <1>7 DEF Enlaza
<1> QED
  BY <1>1, <1>2, <1>8 DEF q

\* Every step keeps the stack, and enters or leaves at most one coroutine.
LEMMA PasoDePila ==
  ASSUME UnActor, IsFiniteSet(Coros), Inv, InvPila, [Next]_vars
  PROVE  /\ InvPila'
         /\ \/ PC!Next
            \/ UNCHANGED <<IF "generar_ajeno" \in usa THEN <<PRINCIPAL>> ELSE Pila,
                           IF "generar_ajeno" \in usa THEN {}
                           ELSE {c \in Coros : estado[c] = "FINALIZADA"}>>
<1> USE DEF Inv
<1>1. usa' = usa
  BY DEF Next, vars, AvanzarInicial, AvanzarSuspendida, Generar, Devolver, Error, Terminar
<1>2. CASE "generar_ajeno" \in usa
  BY <1>1, <1>2 DEF InvPila
<1>3. CASE "generar_ajeno" \notin usa
  <2> DEFINE fin == {c \in Coros : estado[c] = "FINALIZADA"}
  <2>1. PICK p : Enlaza(p, corriendo, estado, punto)
    BY <1>3 DEF InvPila
  <2>2. Pila = p
    BY <2>1, PilaEsDesdeEl, PilaUnica
  <2>3. \A q : Enlaza(q, corriendo', estado', punto') => Pila' = q
    BY PilaEsDesdeElDespues, PilaUnica
  <2>4. \A c \in Coros : estado[c] = "SUSPENDIDA" => punto[c].actor = c
    BY <1>3 DEF InvPila
  <2>5. SUFFICES
          /\ \E q : Enlaza(q, corriendo', estado', punto')
          /\ \A c \in Coros : estado'[c] = "SUSPENDIDA" => punto'[c].actor = c
          /\ \/ /\ \E c \in Coros : /\ ~\E i \in DOMAIN p : p[i] = c
                                    /\ c \notin fin /\ Pila' = Append(p, c)
                /\ fin' = fin
             \/ /\ Len(p) > 1 /\ Pila' = SubSeq(p, 1, Len(p) - 1)
                /\ fin' \in {fin, fin \union {p[Len(p)]}}
             \/ Pila' = p /\ fin' = fin
    BY <1>1, <1>3, <2>2
       DEF InvPila, PC!Next, PC!Avanzar, PC!Salir, PC!EnLaPila
  <2> DEFINE Meta(q) == /\ Enlaza(q, corriendo', estado', punto')
                        /\ \A c \in Coros : estado'[c] = "SUSPENDIDA" => punto'[c].actor = c
  <2>6. p \in Seq(Actores) /\ DOMAIN p = 1 .. Len(p)
    BY <2>1 DEF Enlaza
  <2>7. ASSUME NEW c \in Coros, NEW s \in Sitios, AvanzarInicial(c, s) \/ AvanzarSuspendida(c, s)
        PROVE  /\ Meta(Append(p, c)) /\ \A i \in 1 .. Len(p) : p[i] # c
               /\ c \notin fin /\ fin' = fin
    <3>1. /\ estado[c] \in {"INICIAL", "SUSPENDIDA"}
          /\ estado' = [estado EXCEPT ![c] = "EJECUTANDOSE"]
          /\ punto' = [punto EXCEPT ![c] = K(corriendo, s)]
          /\ corriendo' = c
      BY <2>4, <2>7 DEF AvanzarInicial, AvanzarSuspendida, Continuar, PuntoDe
    <3>2. Enlaza(Append(p, c), corriendo', estado', punto') /\ \A i \in 1 .. Len(p) : p[i] # c
      BY <2>1, <3>1, EntrarApila
    <3>3. \A d \in Coros : estado'[d] = "SUSPENDIDA" => punto'[d].actor = d
      BY <2>4, <3>1 DEF TipoOK
    <3>4. c \notin fin /\ fin' = fin
      BY <3>1 DEF TipoOK
    <3> QED
      BY <3>2, <3>3, <3>4
  <2>8. ASSUME NEW c \in Coros, (\E s \in Sitios : Generar(c, s)) \/ Devolver(c)
        PROVE  /\ Meta(SubSeq(p, 1, Len(p) - 1)) /\ Len(p) > 1
               /\ fin' \in {fin, fin \union {p[Len(p)]}}
    <3>1. corriendo = c /\ estado[c] = "EJECUTANDOSE"
      BY <1>3, <2>8 DEF Generar, Devolver
    <3>2. corriendo' = punto[c].actor
      BY <2>8, <3>1 DEF Generar, Continuar, PuntoDe, Devolver, Inv, UnSoloUso, VuelveAQuienGuarda
    <3>3. \A d \in Coros : d # c => estado'[d] = estado[d] /\ punto'[d] = punto[d]
      BY <2>8 DEF Generar, Devolver, TipoOK
    <3>4. /\ Len(p) > 1 /\ p[Len(p)] = c
          /\ Enlaza(SubSeq(p, 1, Len(p) - 1), corriendo', estado', punto')
      BY <2>1, <3>1, <3>2, <3>3, SalirDesapila
    <3>5. estado'[c] = "SUSPENDIDA" => punto'[c].actor = c
      BY <2>8, <3>1, ContinuacionNoEsNada DEF Generar, Devolver, TipoOK
    <3>6. fin' \in {fin, fin \union {c}}
      <4>1. estado'[c] = "SUSPENDIDA" \/ estado'[c] = "FINALIZADA"
        BY <2>8 DEF Generar, Devolver, TipoOK
      <4> QED
        BY <3>1, <3>3, <4>1
    <3> QED
      BY <2>4, <3>3, <3>4, <3>5, <3>6
  <2>9. ASSUME UNCHANGED <<estado, punto, corriendo>>
        PROVE  Meta(p) /\ fin' = fin
    BY <2>1, <2>4, <2>9
  <2> HIDE DEF fin
  <2>10. CASE \E c \in Coros, s \in Sitios : AvanzarInicial(c, s) \/ AvanzarSuspendida(c, s)
    BY <2>3, <2>6, <2>7, <2>10
  <2>11. CASE \E c \in Coros : (\E s \in Sitios : Generar(c, s)) \/ Devolver(c)
    BY <2>3, <2>8, <2>11
  <2>12. CASE (\E c \in Coros : Error(c)) \/ Terminar \/ UNCHANGED vars
    BY <2>3, <2>9, <2>12 DEF Error, Terminar, vars
  <2> QED
    BY <2>10, <2>11, <2>12 DEF Next
<1> QED
  BY <1>2, <1>3

\* At first the main program is alone in the stack.
LEMMA PilaInicial ==
  ASSUME IsFiniteSet(Coros)
  PROVE  Init => InvPila /\ PC!Init
<1> SUFFICES ASSUME Init PROVE InvPila /\ PC!Init
  OBVIOUS
<1>1. Enlaza(<<PRINCIPAL>>, corriendo, estado, punto)
  BY DEF Init, Enlaza, Actores
<1>2. Pila = <<PRINCIPAL>>
  BY <1>1, PilaEsDesdeEl, PilaUnica
<1>3. {c \in Coros : estado[c] = "FINALIZADA"} = {}
  BY DEF Init
<1>4. InvPila
  BY <1>1 DEF Init, InvPila
<1> QED
  BY <1>2, <1>3, <1>4 DEF PC!Init

\* In a program that advances each coroutine from one actor, avanzar, generar
\* and the end of a body enter and leave coroutines as a stack, while only the
\* body of a coroutine uses its generator; for any number of coroutines.
THEOREM ImplementaPilaSiempre ==
  ASSUME UnActor, IsFiniteSet(Coros)
  PROVE  Spec => ImplementaPila
<1>1. Init => InvPila /\ PC!Init
  BY PilaInicial
<1>2. Inv /\ InvPila /\ [Next]_vars =>
        InvPila' /\ [PC!Next]_<<IF "generar_ajeno" \in usa THEN <<PRINCIPAL>> ELSE Pila,
                                IF "generar_ajeno" \in usa THEN {}
                                ELSE {c \in Coros : estado[c] = "FINALIZADA"}>>
  BY PasoDePila
<1>3. Inv /\ [Next]_vars => Inv'
  BY InvInductivo
<1> QED
  BY InvInicial, <1>1, <1>2, <1>3, PTL DEF Spec, ImplementaPila, PC!Spec
===============================================================================

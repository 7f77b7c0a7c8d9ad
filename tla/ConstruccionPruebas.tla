-------------------------- MODULE ConstruccionPruebas -------------------------
(***************************************************************************)
(* Proofs about Construccion: for every program and every sequence of runs *)
(* of pdc, what is registered and saved is the closure of the imports, a   *)
(* module on a cycle never is, and an executable has all it depends on.    *)
(***************************************************************************)
EXTENDS Construccion, SequenceTheorems, Naturales, TLAPS

\* The imports of modules are modules.
LEMMA DirectasSonModulos ==
  ASSUME TipoOK
  PROVE  \A m \in Modulos : Directas(m) \subseteq Modulos
<1> SUFFICES ASSUME NEW m \in Modulos, NEW i \in DOMAIN fuente[m]
             PROVE  fuente[m][i].modulo \in Modulos
  BY DEF Directas
<1>1. fuente[m] \in Seq(Importaciones)
  BY FuentesSonProgramas DEF TipoOK
<1>2. fuente[m][i] \in Importaciones
  BY <1>1, ElementOfSeq
<1> QED
  BY <1>2 DEF Importaciones

\* Alcanzables has the two properties that define it.
LEMMA AlcanzablesEsCerrado ==
  ASSUME TipoOK, NEW m \in Modulos
  PROVE  CerradoPara(m, Alcanzables(m))
<1>1. Directas(m) \subseteq Alcanzables(m)
  BY DirectasSonModulos DEF Alcanzables, CerradoPara
<1>2. ASSUME NEW x \in Alcanzables(m), NEW y \in Directas(x)
      PROVE  y \in Alcanzables(m)
  <2>1. x \in Modulos /\ y \in Modulos
    BY <1>2, DirectasSonModulos DEF Alcanzables
  <2>2. ASSUME NEW s \in SUBSET Modulos, CerradoPara(m, s)
        PROVE  y \in s
    <3>1. x \in s
      BY <2>2 DEF Alcanzables
    <3> QED
      BY <3>1, <2>2, <1>2 DEF CerradoPara
  <2> QED
    BY <2>1, <2>2 DEF Alcanzables
<1> QED
  BY <1>1, <1>2 DEF CerradoPara

\* And it is the least set that has them.
LEMMA AlcanzablesEsMenor ==
  ASSUME NEW m \in Modulos, NEW s \in SUBSET Modulos, CerradoPara(m, s)
  PROVE  Alcanzables(m) \subseteq s
BY DEF Alcanzables

\* What a dependency depends on is depended on.
LEMMA AlcanzablesEsTransitivo ==
  ASSUME TipoOK, NEW m \in Modulos, NEW d \in Alcanzables(m)
  PROVE  Alcanzables(d) \subseteq Alcanzables(m)
<1>1. d \in Modulos /\ Alcanzables(m) \in SUBSET Modulos
  BY DEF Alcanzables
<1>2. CerradoPara(d, Alcanzables(m))
  BY AlcanzablesEsCerrado DEF CerradoPara
<1> QED
  BY <1>1, <1>2, AlcanzablesEsMenor

\* The prefixes Compilar computes from an exact database are exact.
LEMMA PrefijosSonExactos ==
  ASSUME TipoOK, CierreExacto, NEW m \in Modulos, Directas(m) \subseteq DOMAIN bd
  PROVE  Prefijos(m) = Alcanzables(m)
<1>1. \A d \in Directas(m) : d \in Modulos /\ bd[d] = Alcanzables(d)
  BY DirectasSonModulos DEF CierreExacto
<1>2. Prefijos(m) \subseteq Alcanzables(m)
  <2>1. Directas(m) \subseteq Alcanzables(m)
    BY AlcanzablesEsCerrado DEF CerradoPara
  <2>2. \A d \in Directas(m) : Alcanzables(d) \subseteq Alcanzables(m)
    BY <2>1, AlcanzablesEsTransitivo
  <2> QED
    BY <1>1, <2>1, <2>2 DEF Prefijos
<1>3. Prefijos(m) \in SUBSET Modulos
  BY <1>1 DEF Prefijos, Alcanzables
<1>4. CerradoPara(m, Prefijos(m))
  <2>1. Directas(m) \subseteq Prefijos(m)
    BY DEF Prefijos
  <2>2. ASSUME NEW d \in Directas(m)
        PROVE  Alcanzables(d) \subseteq Prefijos(m) /\ Directas(d) \subseteq Prefijos(m)
    <3>1. Alcanzables(d) \subseteq Prefijos(m)
      BY <1>1 DEF Prefijos
    <3>2. Directas(d) \subseteq Alcanzables(d)
      BY <1>1, AlcanzablesEsCerrado DEF CerradoPara
    <3> QED
      BY <3>1, <3>2
  <2>3. ASSUME NEW d \in Directas(m), NEW x \in Alcanzables(d)
        PROVE  Directas(x) \subseteq Prefijos(m)
    <3>1. Directas(x) \subseteq Alcanzables(d)
      BY <1>1, AlcanzablesEsCerrado DEF CerradoPara
    <3> QED
      BY <3>1, <2>2
  <2>4. ASSUME NEW x \in Prefijos(m)
        PROVE  Directas(x) \subseteq Prefijos(m)
    BY <1>1, <2>2, <2>3 DEF Prefijos
  <2> QED
    BY <2>1, <2>4 DEF CerradoPara
<1>5. Alcanzables(m) \subseteq Prefijos(m)
  BY <1>3, <1>4, AlcanzablesEsMenor
<1> QED
  BY <1>2, <1>5

\* A module whose imports are all registered is not on a cycle.
LEMMA RegistrableNoEsCiclico ==
  ASSUME TipoOK, CierreExacto, SinCiclos, NEW m \in Modulos,
         Directas(m) \subseteq DOMAIN bd
  PROVE  m \notin Alcanzables(m)
<1> SUFFICES ASSUME m \in Alcanzables(m)
             PROVE  FALSE
  OBVIOUS
<1>1. \A d \in Directas(m) : d \in Modulos /\ bd[d] = Alcanzables(d) /\ d \notin Alcanzables(d)
  BY DirectasSonModulos DEF CierreExacto, SinCiclos
<1>2. PICK d \in Directas(m) : m = d \/ m \in Alcanzables(d)
  BY <1>1, PrefijosSonExactos DEF Prefijos
<1>3. CASE m = d
  BY <1>1, <1>3
<1>4. CASE m \in Alcanzables(d)
  <2>1. Directas(m) \subseteq Alcanzables(d)
    BY <1>1, <1>4, AlcanzablesEsCerrado DEF CerradoPara
  <2> QED
    BY <2>1, <1>1
<1> QED
  BY <1>2, <1>3, <1>4

\* No step of pdc writes a source.
LEMMA LaFuenteQueda ==
  ASSUME [Next]_vars
  PROVE  fuente' = fuente
BY DEF Next, Compilar, vars, Empezar, EmpezarPaso, TerminarPaso, TerminarModulo,
       Enlazar, GuardarInterfaz, Terminar, DependenciaLista, CompilarDependencia,
       DependenciaDesconocida, Interrumpir, Salir, Comenzar

\* The sources stay as they are, and so does what a module depends on.
LEMMA AlcanzablesNoCambia ==
  ASSUME fuente' = fuente
  PROVE  \A m : Alcanzables(m)' = Alcanzables(m) /\ Directas(m)' = Directas(m)
BY DEF Alcanzables, CerradoPara, Directas

-------------------------------------------------------------------------------
\* The inputs of a command line, one by one.
LEMMA EntradasDeOrden ==
  ASSUME NEW o \in Ordenes
  PROVE  /\ o \in OrdenesPosibles /\ o # NINGUNO
         /\ o.entradas \in Seq(Entradas) /\ o.guardar \in Seq(Modulos)
         /\ \A i \in DOMAIN o.entradas :
              i \in Nat /\ i >= 1 /\ o.entradas[i] \in Entradas
              /\ o.entradas[i].modulo \in Modulos
<1>1. o \in OrdenesPosibles /\ o # NINGUNO
  BY OrdenesSonValidas, NingunoNoEsOrden
<1>2. o.entradas \in Seq(Entradas) /\ o.guardar \in Seq(Modulos)
  BY <1>1 DEF OrdenesPosibles
<1>3. ASSUME NEW i \in DOMAIN o.entradas
      PROVE  i \in Nat /\ i >= 1 /\ o.entradas[i] \in Entradas
  BY <1>2, ElementOfSeq, LenProperties
<1> QED
  BY <1>1, <1>2, <1>3 DEF Entradas

-------------------------------------------------------------------------------
\* A command line has an input to start with.
LEMMA OrdenNoVacia ==
  ASSUME NEW o \in Ordenes
  PROVE  1 \in DOMAIN o.entradas
<1>1. PICK i : i \in DOMAIN o.entradas
  BY OrdenesSonValidas DEF OrdenValida
<1>2. o.entradas \in Seq(Entradas)
  BY EntradasDeOrden
<1> QED
  BY <1>1, <1>2, LenProperties

\* The interface of -q that comes next.
LEMMA PorGuardar ==
  ASSUME TipoOK, fase = "guardar", guardadas < Len(orden.guardar)
  PROVE  orden.guardar[guardadas + 1] \in Modulos
<1>1. orden.guardar \in Seq(Modulos)
  BY EntradasDeOrden DEF TipoOK
<1>2. guardadas + 1 \in 1 .. Len(orden.guardar)
  BY <1>1, LenProperties DEF TipoOK
<1> QED
  BY <1>1, <1>2, ElementOfSeq

Llamadas(c) == [entrada : c, dep : Nat \ {0}]

\* What TipoOK says of the call of Compilar that is on top.
LEMMA LaCima ==
  ASSUME TipoOK, fase # "libre", pila # <<>>
  PROVE  /\ Len(pila) \in Nat \ {0}
         /\ Cima \in Llamadas(completado)
         /\ Cima.entrada \in DOMAIN orden.entradas
         /\ Compilado \in Modulos
<1>1. pila \in Seq(Llamadas(completado)) /\ completado \subseteq DOMAIN orden.entradas
  BY DEF TipoOK, Llamadas
<1>2. Len(pila) \in Nat \ {0}
  BY <1>1, EmptySeq
<1>3. Cima \in Llamadas(completado)
  BY <1>1, <1>2, ElementOfSeq DEF Cima
<1>4. Cima.entrada \in DOMAIN orden.entradas
  BY <1>1, <1>3 DEF Llamadas
<1>5. orden \in Ordenes
  BY DEF TipoOK
<1> QED
  BY <1>2, <1>3, <1>4, <1>5, EntradasDeOrden DEF Compilado

\* Moving the call on top to its next import leaves it the same call.
LEMMA ElSiguiente ==
  ASSUME TipoOK, fase # "libre", pila # <<>>
  PROVE  /\ Siguiente \in Seq(Llamadas(completado))
         /\ Len(Siguiente) = Len(pila)
         /\ \A k \in DOMAIN pila :
              /\ Siguiente[k].entrada = pila[k].entrada
              /\ Siguiente[k].dep = IF k = Len(pila) THEN Cima.dep + 1 ELSE pila[k].dep
<1>1. pila \in Seq(Llamadas(completado))
  BY DEF TipoOK, Llamadas
<1>2. Len(pila) \in Nat \ {0} /\ Cima \in Llamadas(completado)
  BY LaCima
<1>3. [Cima EXCEPT !.dep = @ + 1] \in Llamadas(completado)
  BY <1>2 DEF Llamadas
<1>4. /\ [Cima EXCEPT !.dep = @ + 1].entrada = Cima.entrada
      /\ [Cima EXCEPT !.dep = @ + 1].dep = Cima.dep + 1
  BY <1>2 DEF Llamadas
<1>5. Siguiente \in Seq(Llamadas(completado)) /\ Len(Siguiente) = Len(pila)
  BY <1>1, <1>2, <1>3, ExceptSeq DEF Siguiente, ConCima
<1>6. ASSUME NEW k \in DOMAIN pila
      PROVE  /\ Siguiente[k].entrada = pila[k].entrada
             /\ Siguiente[k].dep = IF k = Len(pila) THEN Cima.dep + 1 ELSE pila[k].dep
  <2>1. CASE k = Len(pila)
    BY <1>1, <1>4, <2>1 DEF Siguiente, ConCima, Cima
  <2>2. CASE k # Len(pila)
    BY <1>1, <2>2 DEF Siguiente, ConCima
  <2> QED
    BY <2>1, <2>2
<1> QED
  BY <1>5, <1>6

\* The calls under the one on top.
LEMMA LasDeAbajo ==
  ASSUME TipoOK, fase # "libre", pila # <<>>, NEW abajo,
         abajo = SubSeq(pila, 1, Len(pila) - 1)
  PROVE  /\ abajo \in Seq(Llamadas(completado))
         /\ Len(abajo) = Len(pila) - 1
         /\ \A k \in 1 .. Len(pila) - 1 : abajo[k] = pila[k]
<1>1. pila \in Seq(Llamadas(completado))
  BY DEF TipoOK, Llamadas
<1>2. Len(pila) \in Nat \ {0}
  BY LaCima
<1> DEFINE n == Len(pila) - 1
           S == Llamadas(completado)
<1>3. n \in Int /\ 1 \in Int /\ \A k \in 1 .. n : pila[k] \in S
  BY <1>1, <1>2, ElementOfSeq
<1>4. /\ SubSeq(pila, 1, n) \in Seq(S)
      /\ Len(SubSeq(pila, 1, n)) = IF 1 <= n THEN n - 1 + 1 ELSE 0
      /\ \A k \in 1 .. n - 1 + 1 : SubSeq(pila, 1, n)[k] = pila[1 + k - 1]
  <2> HIDE DEF n, S
  <2> QED
    BY <1>3, SubSeqProperties
<1>5. /\ abajo \in Seq(S)
      /\ Len(abajo) = IF 1 <= n THEN n - 1 + 1 ELSE 0
      /\ \A k \in 1 .. n - 1 + 1 : abajo[k] = pila[1 + k - 1]
  <2> HIDE DEF S
  <2> QED
    BY ONLY <1>4, abajo = SubSeq(pila, 1, n), Zenon
<1> HIDE DEF S
<1>6. n \in Nat /\ n - 1 + 1 = n /\ \A k \in 1 .. n : 1 + k - 1 = k
  BY <1>2
<1> QED
  BY <1>5, <1>6 DEF S

\* A step of pdc keeps the shape of every field.
LEMMA TipoInductivo ==
  ASSUME TipoOK, [Next]_vars
  PROVE  TipoOK'
<1>1. ASSUME NEW o \in Ordenes, Empezar(o)
      PROVE  TipoOK'
  <2>1. ModulosDe(o, "ipd") \subseteq Modulos
    BY EntradasDeOrden DEF ModulosDe
  <2>2. DOMAIN bd' \subseteq Modulos /\ \A m \in DOMAIN bd' : bd'[m] \subseteq Modulos
    BY <1>1, <2>1 DEF Empezar, TipoOK, Fallar
  <2>3. tablas' \in [DOMAIN orden'.entradas -> SUBSET Modulos]
    BY <1>1 DEF Empezar
  <2>4. pila' \in Seq(Llamadas(completado'))
    BY <1>1, EmptySeq DEF Empezar
  <2> QED
    BY <1>1, <2>2, <2>3, <2>4 DEF Empezar, TipoOK, Fallar, disco, Llamadas
<1>2. CASE EmpezarPaso
  <2>1. pila' \in Seq(Llamadas(completado'))
    BY <1>2 DEF EmpezarPaso, Comenzar, Llamadas
  <2> QED
    BY <1>2, <2>1 DEF EmpezarPaso, Comenzar, TipoOK, disco, Llamadas
<1>3. CASE TerminarPaso
  <2>1. orden \in Ordenes /\ paso \in DOMAIN orden.entradas
    BY <1>3 DEF TerminarPaso, TipoOK
  <2>2. objs' \subseteq Modulos
    BY <1>3, <2>1, EntradasDeOrden DEF TerminarPaso, TipoOK
  <2> QED
    BY <1>3, <2>2 DEF TerminarPaso, TipoOK
<1>4. ASSUME NEW d \in Modulos, DependenciaLista(d)
      PROVE  TipoOK'
  <2>1. pila' \in Seq(Llamadas(completado'))
    BY <1>4, ElSiguiente DEF DependenciaLista, Pendiente
  <2> QED
    BY <1>4, <2>1 DEF DependenciaLista, Pendiente, TipoOK, disco, Llamadas
<1>5. ASSUME NEW d \in Modulos, CompilarDependencia(d)
      PROVE  TipoOK'
  <2>1. PICK i \in Nombran(d) :
          Comenzar(i) /\ pila' = Append(Siguiente, [entrada |-> i, dep |-> 1])
    BY <1>5 DEF CompilarDependencia
  <2>2. i \in DOMAIN orden.entradas
    BY DEF Nombran
  <2>3. completado' = completado \union {i}
    BY <2>1 DEF Comenzar
  <2>4. Siguiente \in Seq(Llamadas(completado'))
    <3>1. Llamadas(completado) \subseteq Llamadas(completado')
      BY <2>3 DEF Llamadas
    <3> QED
      BY <3>1, <1>5, ElSiguiente, SeqMonotonic DEF CompilarDependencia, Pendiente
  <2>5. pila' \in Seq(Llamadas(completado'))
    <3>1. [entrada |-> i, dep |-> 1] \in Llamadas(completado')
      BY <2>3 DEF Llamadas
    <3> QED
      BY <3>1, <2>1, <2>4, AppendProperties
  <2> QED
    BY <1>5, <2>1, <2>2, <2>3, <2>5
    DEF CompilarDependencia, Pendiente, Comenzar, TipoOK, disco, Llamadas
<1>6. ASSUME NEW d \in Modulos, DependenciaDesconocida(d)
      PROVE  TipoOK'
  BY <1>6 DEF DependenciaDesconocida, Pendiente, TipoOK, Fallar, disco
<1>7. CASE TerminarModulo
  <2>1. Compilado \in Modulos /\ Cima.entrada \in DOMAIN orden.entradas
    BY <1>7, LaCima DEF TerminarModulo
  <2>2. Directas(Compilado) \subseteq DOMAIN bd => Prefijos(Compilado) \subseteq Modulos
    BY <2>1, DirectasSonModulos DEF Prefijos, TipoOK
  <2>3. DOMAIN bd' \subseteq Modulos /\ \A m \in DOMAIN bd' : bd'[m] \subseteq Modulos
    BY <1>7, <2>1, <2>2 DEF TerminarModulo, TipoOK
  <2>4. tablas' \in [DOMAIN orden.entradas -> SUBSET Modulos]
    BY <1>7, <2>1, <2>2 DEF TerminarModulo, TipoOK
  <2>5. pila' \in Seq(Llamadas(completado))
    BY <1>7, LasDeAbajo DEF TerminarModulo
  <2> QED
    BY <1>7, <2>3, <2>4, <2>5 DEF TerminarModulo, TipoOK, Fallar, disco, Llamadas
<1>8. CASE Enlazar
  <2>1. orden \in Ordenes /\ tablas \in [DOMAIN orden.entradas -> SUBSET Modulos]
    BY <1>8 DEF Enlazar, TipoOK
  <2>2. 1 \in DOMAIN orden.entradas
    BY <2>1, OrdenNoVacia
  <2>3. exe' \in [principal : Modulos, tabla : SUBSET Modulos] \union {NINGUNO}
    BY <1>8, <2>1, <2>2, EntradasDeOrden DEF Enlazar, TipoOK
  <2> QED
    BY <1>8, <2>3 DEF Enlazar, TipoOK, Fallar
<1>9. CASE GuardarInterfaz
  <2>1. orden.guardar[guardadas + 1] \in Modulos
    BY <1>9, PorGuardar DEF GuardarInterfaz
  <2>2. DOMAIN ipd' \subseteq Modulos /\ \A m \in DOMAIN ipd' : ipd'[m] \subseteq Modulos
    BY <1>9, <2>1 DEF GuardarInterfaz, SinInterfaz, TipoOK
  <2> QED
    BY <1>9, <2>2 DEF GuardarInterfaz, TipoOK, Fallar
<1>10. CASE Terminar
  BY <1>10 DEF Terminar, TipoOK, disco
<1>11. CASE Interrumpir
  <2>1. DOMAIN ipd' \subseteq Modulos /\ \A m \in DOMAIN ipd' : ipd'[m] \subseteq Modulos
    BY <1>11 DEF Interrumpir, SinInterfaz, TipoOK
  <2> QED
    BY <1>11, <2>1 DEF Interrumpir, TipoOK, Fallar
<1>12. CASE Salir
  <2>1. pila' \in Seq(Llamadas(completado'))
    BY <1>12, EmptySeq DEF Salir
  <2> QED
    BY <1>12, <2>1 DEF Salir, TipoOK, disco, Llamadas
<1>13. CASE UNCHANGED vars
  BY <1>13 DEF vars, TipoOK
<1> QED
  BY <1>1, <1>2, <1>3, <1>4, <1>5, <1>6, <1>7, <1>8, <1>9, <1>10, <1>11, <1>12, <1>13
  DEF Next, Compilar

Registro == CierreExacto /\ SinCiclos

Entrada(m, prefijos) == prefijos = Alcanzables(m) /\ m \notin Alcanzables(m)

\* What is registered and saved is right when each entry is, by the sources of
\* before the step, which do not change.
LEMMA RegistroPorEntradas ==
  ASSUME fuente' = fuente,
         \A m \in DOMAIN bd' : Entrada(m, bd'[m]),
         \A m \in DOMAIN ipd' : Entrada(m, ipd'[m])
  PROVE  Registro'
<1>1. \A m : Alcanzables(m)' = Alcanzables(m)
  BY AlcanzablesNoCambia
<1>2. \A m \in DOMAIN bd' : bd'[m] = Alcanzables(m)' /\ m \notin Alcanzables(m)'
  BY <1>1 DEF Entrada
<1>3. \A m \in DOMAIN ipd' : ipd'[m] = Alcanzables(m)' /\ m \notin Alcanzables(m)'
  BY <1>1 DEF Entrada
<1> QED
  BY <1>2, <1>3 DEF Registro, CierreExacto, SinCiclos

\* A step of pdc keeps the database and the interfaces right.
LEMMA RegistroInductivo ==
  ASSUME TipoOK, Registro, [Next]_vars
  PROVE  Registro'
<1>0. /\ fuente' = fuente
      /\ \A m \in DOMAIN bd : Entrada(m, bd[m])
      /\ \A m \in DOMAIN ipd : Entrada(m, ipd[m])
  <2>1. fuente' = fuente
    BY LaFuenteQueda
  <2> QED
    BY <2>1 DEF Registro, CierreExacto, SinCiclos, Entrada
<1>1. ASSUME NEW o \in Ordenes, Empezar(o)
      PROVE  Registro'
  <2>1. ipd' = ipd
    BY <1>1 DEF Empezar, disco
  <2>2. \A m \in DOMAIN bd' : m \in DOMAIN ipd /\ bd'[m] = ipd[m]
    BY <1>1 DEF Empezar, Fallar
  <2> QED
    BY <1>0, <2>1, <2>2, RegistroPorEntradas
<1>2. CASE TerminarModulo
  <2>1. ipd' = ipd
    BY <1>2 DEF TerminarModulo, disco
  <2>2. Compilado \in Modulos
    BY <1>2, LaCima DEF TerminarModulo
  <2>3. CASE bd' = bd
    BY <1>0, <2>1, <2>3, RegistroPorEntradas
  <2>4. CASE bd' # bd
    <3>1. /\ Directas(Compilado) \subseteq DOMAIN bd
          /\ bd' = [m \in DOMAIN bd \union {Compilado} |->
                      IF m = Compilado THEN Prefijos(m) ELSE bd[m]]
      BY <1>2, <2>4 DEF TerminarModulo
    <3>2. Entrada(Compilado, Prefijos(Compilado))
      BY <3>1, <2>2, PrefijosSonExactos, RegistrableNoEsCiclico DEF Entrada, Registro
    <3>3. \A m \in DOMAIN bd' : Entrada(m, bd'[m])
      BY <1>0, <3>1, <3>2
    <3> QED
      BY <1>0, <2>1, <3>3, RegistroPorEntradas
  <2> QED
    BY <2>3, <2>4
<1>3. CASE GuardarInterfaz
  <2>1. bd' = bd
    BY <1>3 DEF GuardarInterfaz
  <2>2. ASSUME NEW m \in DOMAIN ipd'
        PROVE  \/ m \in DOMAIN bd /\ ipd'[m] = bd[m]
               \/ m \in DOMAIN ipd /\ ipd'[m] = ipd[m]
    BY <1>3 DEF GuardarInterfaz, SinInterfaz
  <2>3. \A m \in DOMAIN ipd' : Entrada(m, ipd'[m])
    BY <1>0, <2>2
  <2> QED
    BY <1>0, <2>1, <2>3, RegistroPorEntradas
<1>4. CASE Interrumpir
  <2>1. bd' = bd /\ \A m \in DOMAIN ipd' : m \in DOMAIN ipd /\ ipd'[m] = ipd[m]
    BY <1>4 DEF Interrumpir, SinInterfaz
  <2> QED
    BY <1>0, <2>1, RegistroPorEntradas
<1>5. CASE Salir
  <2>1. bd' = <<>> /\ ipd' = ipd
    BY <1>5 DEF Salir, disco
  <2> QED
    BY <1>0, <2>1, RegistroPorEntradas
<1>6. CASE bd' = bd /\ ipd' = ipd
  BY <1>0, <1>6, RegistroPorEntradas
<1>7. \/ \E o \in Ordenes : Empezar(o)
      \/ TerminarModulo \/ GuardarInterfaz \/ Interrumpir \/ Salir
      \/ bd' = bd /\ ipd' = ipd
  BY DEF Next, Compilar, vars, disco, EmpezarPaso, TerminarPaso, Enlazar, Terminar,
         DependenciaLista, CompilarDependencia, DependenciaDesconocida, Comenzar
<1> QED
  BY <1>1, <1>2, <1>3, <1>4, <1>5, <1>6, <1>7

\* A compilarPd step marked as taken is in progress or has written its table.
EnPila(i) == \E k \in DOMAIN pila : pila[k].entrada = i
ConTabla(i) == tablas[i] = Alcanzables(orden.entradas[i].modulo)

\* A step of pdc loses no step of the command line.
LEMMA PasosInductivo ==
  ASSUME TipoOK, Registro, PasosExactos, [Next]_vars
  PROVE  PasosExactos'
<1> SUFFICES ASSUME fase' = "pasos"
             PROVE  /\ \A i \in DOMAIN orden'.entradas :
                         i < paso' /\ orden'.entradas[i].lenguaje = "pd" => i \in completado'
                    /\ \A i \in completado' : EnPila(i)' \/ ConTabla(i)'
  BY DEF PasosExactos, EnPila, ConTabla
<1>0. \A m : Alcanzables(m)' = Alcanzables(m)
  BY LaFuenteQueda, AlcanzablesNoCambia
<1>1. CASE fase # "pasos"
  <2>1. \E o \in Ordenes : Empezar(o)
    BY <1>1 DEF Next, Compilar, vars, EmpezarPaso, TerminarPaso, TerminarModulo,
        Enlazar, GuardarInterfaz, Terminar, DependenciaLista, CompilarDependencia,
        DependenciaDesconocida, Interrumpir, Salir, Pendiente, Fallar
  <2>2. /\ completado' = {} /\ paso' = 1
        /\ \A i \in DOMAIN orden'.entradas : i \in Nat /\ i >= 1
    BY <2>1, EntradasDeOrden DEF Empezar
  <2> QED
    BY <2>2
<1>2. CASE fase = "pasos"
  <2>0. /\ \A i \in DOMAIN orden.entradas :
             i < paso /\ orden.entradas[i].lenguaje = "pd" => i \in completado
        /\ \A i \in completado : EnPila(i) \/ ConTabla(i)
        /\ orden \in Ordenes
    BY <1>2 DEF PasosExactos, EnPila, ConTabla, TipoOK
  <2>1. CASE EmpezarPaso
    <3>1. completado' = completado \union {paso} /\ orden' = orden /\ paso' = paso
      BY <2>1 DEF EmpezarPaso, Comenzar
    <3>2. EnPila(paso)'
      BY <2>1 DEF EmpezarPaso, EnPila
    <3>3. \A i \in completado : ConTabla(i)'
      BY <2>0, <2>1, <1>0 DEF EmpezarPaso, Comenzar, EnPila, ConTabla
    <3> QED
      BY <2>0, <3>1, <3>2, <3>3
  <2>2. CASE TerminarPaso
    <3>1. completado' = completado /\ orden' = orden /\ paso' = paso + 1
      BY <2>2 DEF TerminarPaso
    <3>2. \A i \in completado : ConTabla(i)'
      BY <2>0, <2>2, <1>0 DEF TerminarPaso, EnPila, ConTabla
    <3>3. ASSUME NEW i \in DOMAIN orden.entradas,
                 i < paso + 1, orden.entradas[i].lenguaje = "pd"
          PROVE  i \in completado
      <4>1. i \in Nat /\ paso \in Nat
        BY <2>0, EntradasDeOrden DEF TipoOK
      <4>2. i < paso \/ i = paso
        BY <4>1, <3>3
      <4> QED
        BY <4>2, <3>3, <2>0, <2>2 DEF TerminarPaso
    <3> QED
      BY <3>1, <3>2, <3>3
  <2>3. ASSUME NEW d \in Modulos, DependenciaLista(d)
        PROVE  /\ completado' = completado /\ orden' = orden /\ paso' = paso
               /\ \A i \in completado : EnPila(i)' \/ ConTabla(i)'
    <3>1. completado' = completado /\ orden' = orden /\ paso' = paso /\ tablas' = tablas
      BY <2>3 DEF DependenciaLista
    <3>2. pila' = Siguiente /\ pila # <<>> /\ fase # "libre"
      BY <2>3, <1>2 DEF DependenciaLista, Pendiente
    <3>3. pila \in Seq(Llamadas(completado))
      BY DEF TipoOK, Llamadas
    <3>4. \A k \in DOMAIN pila : k \in DOMAIN pila' /\ pila'[k].entrada = pila[k].entrada
      BY <3>2, <3>3, ElSiguiente, LenProperties
    <3>5. \A i \in completado : EnPila(i) => EnPila(i)'
      BY <3>4 DEF EnPila
    <3> QED
      BY <2>0, <3>1, <3>5, <1>0 DEF ConTabla
  <2>4. ASSUME NEW d \in Modulos, CompilarDependencia(d)
        PROVE  /\ completado \subseteq completado' /\ orden' = orden /\ paso' = paso
               /\ \A i \in completado' : EnPila(i)' \/ ConTabla(i)'
    <3>1. PICK j \in Nombran(d) :
            Comenzar(j) /\ pila' = Append(Siguiente, [entrada |-> j, dep |-> 1])
      BY <2>4 DEF CompilarDependencia
    <3>2. /\ completado' = completado \union {j}
          /\ orden' = orden /\ paso' = paso /\ tablas' = tablas
      BY <3>1, <2>4 DEF CompilarDependencia, Comenzar
    <3>3. pila # <<>> /\ fase # "libre" /\ pila \in Seq(Llamadas(completado))
      BY <2>4, <1>2 DEF CompilarDependencia, Pendiente, TipoOK, Llamadas
    <3> DEFINE S == Llamadas(completado')
               e == [entrada |-> j, dep |-> 1]
               q == Siguiente
    <3>4. e \in S /\ e.entrada = j
      BY <3>2 DEF Llamadas
    <3>5. Llamadas(completado) \subseteq S
      BY <3>2 DEF Llamadas
    <3>6. q \in Seq(S) /\ Len(q) = Len(pila)
      BY <3>3, <3>5, ElSiguiente, SeqMonotonic
    <3>7. \A k \in DOMAIN pila : q[k].entrada = pila[k].entrada
      BY <3>3, ElSiguiente
    <3>8. /\ pila' \in Seq(S) /\ Len(pila') = Len(q) + 1
          /\ \A k \in 1 .. Len(q) : pila'[k] = q[k]
          /\ pila'[Len(q) + 1] = e
      <4> HIDE DEF S, q, e
      <4> QED
        BY <3>1, <3>4, <3>6, AppendProperties DEF q, e
    <3>9. DOMAIN pila = 1 .. Len(pila) /\ DOMAIN pila' = 1 .. Len(pila) + 1
      BY <3>3, <3>6, <3>8, LenProperties
    <3>10. Len(pila) \in Nat
      BY <3>3, LenProperties
    <3>11. EnPila(j)'
      <4> HIDE DEF S, q, e
      <4> QED
        BY <3>4, <3>6, <3>8, <3>9, <3>10 DEF EnPila
    <3>12. \A i \in completado : EnPila(i) => EnPila(i)'
      <4> HIDE DEF S, q, e
      <4>1. \A k \in DOMAIN pila : k \in DOMAIN pila' /\ pila'[k].entrada = pila[k].entrada
        BY <3>6, <3>7, <3>8, <3>9, <3>10
      <4> QED
        BY <4>1 DEF EnPila
    <3>13. \A i \in completado : ConTabla(i) => ConTabla(i)'
      BY <3>2, <1>0 DEF ConTabla
    <3> QED
      BY <2>0, <3>2, <3>11, <3>12, <3>13
  <2>5. CASE TerminarModulo
    <3>1. /\ Directas(Compilado) \subseteq DOMAIN bd
          /\ tablas' = [tablas EXCEPT ![Cima.entrada] = Prefijos(Compilado)]
          /\ completado' = completado /\ orden' = orden /\ paso' = paso
          /\ pila' = SubSeq(pila, 1, Len(pila) - 1)
      BY <2>5 DEF TerminarModulo, Fallar
    <3>2. /\ Cima.entrada \in DOMAIN orden.entradas /\ Compilado \in Modulos
          /\ Len(pila) \in Nat \ {0}
      BY <2>5, LaCima DEF TerminarModulo
    <3>3. PICK e : e = Cima.entrada
      OBVIOUS
    <3>4. ConTabla(e)'
      <4>1. Prefijos(Compilado) = Alcanzables(Compilado)
        BY <3>1, <3>2, PrefijosSonExactos DEF Registro
      <4>2. tablas'[e] = Prefijos(Compilado)
        BY <3>1, <3>2, <3>3, <1>2 DEF TipoOK
      <4> QED
        BY <3>1, <3>3, <4>1, <4>2, <1>0 DEF ConTabla, Compilado
    <3>5. ASSUME NEW i \in completado, ConTabla(i), i # e
          PROVE  ConTabla(i)'
      BY <3>1, <3>3, <3>5, <1>0, <1>2 DEF ConTabla, TipoOK
    <3>6. ASSUME NEW i \in completado, EnPila(i), i # e
          PROVE  EnPila(i)'
      <4>1. PICK k \in DOMAIN pila : pila[k].entrada = i
        BY <3>6 DEF EnPila
      <4>2. k # Len(pila)
        BY <4>1, <3>3, <3>6 DEF Cima
      <4>3. DOMAIN pila = 1 .. Len(pila)
        BY LenProperties DEF TipoOK
      <4>4. k \in 1 .. Len(pila) - 1
        BY <4>2, <4>3, <3>2
      <4>5. /\ pila' \in Seq(Llamadas(completado)) /\ Len(pila') = Len(pila) - 1
            /\ pila'[k] = pila[k]
        BY <4>4, <3>1, <2>5, LasDeAbajo DEF TerminarModulo
      <4>6. k \in DOMAIN pila'
        BY <4>4, <4>5, LenProperties
      <4> QED
        BY <4>1, <4>5, <4>6 DEF EnPila
    <3> QED
      BY <2>0, <3>1, <3>4, <3>5, <3>6
  <2>6. CASE UNCHANGED vars
    BY <2>0, <2>6, <1>0 DEF vars, EnPila, ConTabla
  <2>7. \/ EmpezarPaso \/ TerminarPaso \/ TerminarModulo \/ UNCHANGED vars
        \/ \E d \in Modulos : DependenciaLista(d) \/ CompilarDependencia(d)
    BY <1>2 DEF Next, Compilar, Empezar, Enlazar, GuardarInterfaz, Terminar,
                DependenciaDesconocida, Interrumpir, Salir, Fallar
  <2> QED
    BY <2>0, <2>1, <2>2, <2>3, <2>4, <2>5, <2>6, <2>7
<1> QED
  BY <1>1, <1>2

\* An executable is made from the table of the first input, which is done.
LEMMA ExeInductivo ==
  ASSUME TipoOK, PasosExactos, EjecutableCompleto, [Next]_vars
  PROVE  EjecutableCompleto'
<1>1. \A m : Alcanzables(m)' = Alcanzables(m)
  BY LaFuenteQueda, AlcanzablesNoCambia
<1>2. CASE exe' = exe
  BY <1>1, <1>2 DEF EjecutableCompleto
<1>3. CASE exe' # exe
  <2>1. Enlazar
    BY <1>3 DEF Next, Compilar, vars, disco, Empezar, EmpezarPaso, TerminarPaso,
      TerminarModulo, GuardarInterfaz, Terminar, DependenciaLista, CompilarDependencia,
      DependenciaDesconocida, Interrumpir, Salir, Comenzar
  <2>2. /\ exe' = [principal |-> orden.entradas[1].modulo, tabla |-> tablas[1]]
        /\ orden.entradas[1].lenguaje = "pd"
        /\ fase = "pasos" /\ pila = <<>> /\ paso \notin DOMAIN orden.entradas
    <3>1. orden \in Ordenes
      BY <2>1 DEF Enlazar, TipoOK
    <3>2. orden.formato \in {"objeto", "ejecutable"}
      BY <3>1, EntradasDeOrden DEF OrdenesPosibles
    <3> QED
      BY <2>1, <3>2, <1>3 DEF Enlazar, Enlazable
  <2>3. 1 \in DOMAIN orden.entradas /\ orden.entradas \in Seq(Entradas)
    BY <2>2, OrdenNoVacia, EntradasDeOrden DEF TipoOK
  <2>4. 1 < paso
    <3>1. DOMAIN orden.entradas = 1 .. Len(orden.entradas) /\ Len(orden.entradas) \in Nat
      BY <2>3, LenProperties
    <3>2. paso \in Nat \ {0}
      BY DEF TipoOK
    <3> QED
      BY <2>2, <2>3, <3>1, <3>2
  <2>5. 1 \in completado
    BY <2>2, <2>3, <2>4 DEF PasosExactos
  <2>6. tablas[1] = Alcanzables(orden.entradas[1].modulo)
    <3>1. DOMAIN pila = {}
      BY <2>2
    <3> QED
      BY <2>2, <2>5, <3>1 DEF PasosExactos
  <2> QED
    BY <1>1, <2>2, <2>6 DEF EjecutableCompleto
<1> QED
  BY <1>2, <1>3

\* All that a module of the database, of an interface, of a table or of the
\* executable depends on is free of cycles as well.
SinCiclo(s) == \A x \in s : x \notin Alcanzables(x)

DependenciasSinCiclos ==
  /\ \A m \in DOMAIN bd \union DOMAIN ipd : SinCiclo(Alcanzables(m))
  /\ \A i \in DOMAIN tablas : SinCiclo(tablas[i])
  /\ exe # NINGUNO => SinCiclo(exe.tabla)

\* A step of pdc makes no table with a module on a cycle.
LEMMA DependenciasInductivo ==
  ASSUME TipoOK, Registro, DependenciasSinCiclos, [Next]_vars
  PROVE  DependenciasSinCiclos'
<1>1. /\ \A m : Alcanzables(m)' = Alcanzables(m)
      /\ \A s : SinCiclo(s)' <=> SinCiclo(s)
  <2>1. \A m : Alcanzables(m)' = Alcanzables(m)
    BY LaFuenteQueda, AlcanzablesNoCambia
  <2> QED
    BY <2>1 DEF SinCiclo
<1>2. ASSUME \A m \in DOMAIN bd' \union DOMAIN ipd' : SinCiclo(Alcanzables(m)),
             \A i \in DOMAIN tablas' : SinCiclo(tablas'[i]),
             exe' # NINGUNO => SinCiclo(exe'.tabla)
      PROVE  DependenciasSinCiclos'
  BY <1>1, <1>2 DEF DependenciasSinCiclos
<1>3. ASSUME DOMAIN bd' \union DOMAIN ipd' \subseteq DOMAIN bd \union DOMAIN ipd,
             tablas' = tablas, exe' = exe
      PROVE  DependenciasSinCiclos'
  BY <1>2, <1>3 DEF DependenciasSinCiclos
<1>4. ASSUME NEW o \in Ordenes, Empezar(o)
      PROVE  DependenciasSinCiclos'
  <2>1. ipd' = ipd /\ exe' = exe /\ DOMAIN bd' \subseteq DOMAIN ipd
    BY <1>4 DEF Empezar, disco, Fallar
  <2>2. \A i \in DOMAIN tablas' : tablas'[i] = {}
    BY <1>4 DEF Empezar
  <2> QED
    BY <1>2, <2>1, <2>2 DEF DependenciasSinCiclos, SinCiclo
<1>5. CASE TerminarModulo
  <2> DEFINE c == Compilado
             t == Prefijos(c)
  <2>1. ipd' = ipd /\ exe' = exe /\ c \in Modulos
    BY <1>5, LaCima DEF TerminarModulo, disco
  <2>2. CASE Directas(c) \subseteq DOMAIN bd
    <3>1. t = Alcanzables(c)
      BY <2>1, <2>2, PrefijosSonExactos DEF Registro
    <3>2. SinCiclo(t)
      BY <2>2 DEF Prefijos, SinCiclo, DependenciasSinCiclos, Registro, CierreExacto, SinCiclos
    <3>3. \A m \in DOMAIN bd' : m \in DOMAIN bd \/ m = c
      BY <1>5, <2>2 DEF TerminarModulo
    <3>4. \A i \in DOMAIN tablas' : i \in DOMAIN tablas /\ (tablas'[i] = t \/ tablas'[i] = tablas[i])
      BY <1>5, <2>2 DEF TerminarModulo
    <3> HIDE DEF c, t
    <3> QED
      BY <1>2, <2>1, <3>1, <3>2, <3>3, <3>4 DEF DependenciasSinCiclos
  <2>3. CASE ~(Directas(c) \subseteq DOMAIN bd)
    BY <1>3, <1>5, <2>1, <2>3 DEF TerminarModulo
  <2> QED
    BY <2>2, <2>3
<1>6. CASE Enlazar
  <2>1. bd' = bd /\ ipd' = ipd /\ tablas' = tablas
    BY <1>6 DEF Enlazar
  <2>2. exe' # exe => exe'.tabla = tablas[1]
    BY <1>6 DEF Enlazar
  <2>3. 1 \in DOMAIN tablas
    BY <1>6, OrdenNoVacia DEF Enlazar, TipoOK
  <2> QED
    BY <1>2, <2>1, <2>2, <2>3 DEF DependenciasSinCiclos
<1>7. CASE GuardarInterfaz \/ Interrumpir
  BY <1>3, <1>7 DEF GuardarInterfaz, Interrumpir, SinInterfaz
<1>8. CASE Salir
  BY <1>2, <1>8 DEF Salir, disco, DependenciasSinCiclos
<1>9. CASE bd' = bd /\ ipd' = ipd /\ tablas' = tablas /\ exe' = exe
  BY <1>3, <1>9
<1>10. \/ \E o \in Ordenes : Empezar(o)
       \/ TerminarModulo \/ Enlazar \/ GuardarInterfaz \/ Interrumpir \/ Salir
       \/ bd' = bd /\ ipd' = ipd /\ tablas' = tablas /\ exe' = exe
  BY DEF Next, Compilar, vars, disco, EmpezarPaso, TerminarPaso, Terminar,
         DependenciaLista, CompilarDependencia, DependenciaDesconocida, Comenzar
<1> QED
  BY <1>4, <1>5, <1>6, <1>7, <1>8, <1>9, <1>10

-------------------------------------------------------------------------------
\* What is true of the calls of Compilar in progress q, the steps taken c and
\* the modules of the database b while the loop over pasos lasts.
ModuloDe(i) == orden.entradas[i].modulo
Esta(q, i) == \E k \in 1 .. Len(q) : q[k].entrada = i

\* A step taken is of a source, which is registered when its call is over.
Comienzos(q, c, b) ==
  \A i \in c :
    /\ orden.entradas[i].lenguaje = "pd"
    /\ orden.entradas[i].esModulo => Esta(q, i) \/ ModuloDe(i) \in b

\* The database has the interfaces, and each module of it comes from one of them
\* or from a step whose call is over.
Base(q, c, b) ==
  /\ ModulosDe(orden, "ipd") \subseteq b
  /\ \A m \in b : \E i \in DOMAIN orden.entradas :
       /\ ModuloDe(i) = m
       /\ orden.entradas[i].lenguaje = "ipd" \/ (i \in c /\ ~Esta(q, i))

\* Each call is of another step, and of a module that the call below imports.
Distintas(q) == \A k, l \in 1 .. Len(q) : q[k].entrada = q[l].entrada => k = l

EnCadena(q) ==
  \A k \in 1 .. Len(q) : k + 1 \in 1 .. Len(q) =>
    ModuloDe(q[k + 1].entrada) \in Directas(ModuloDe(q[k].entrada))

\* Nothing is left to do for the imports a call has gone past.
Atendido(c, m) ==
  \E i \in Nombran(m) : orden.entradas[i].lenguaje = "ipd" \/ i \in c

Pedidas(q, c) ==
  \A k \in 1 .. Len(q) : \A j \in DOMAIN fuente[ModuloDe(q[k].entrada)] :
    j < q[k].dep => Atendido(c, fuente[ModuloDe(q[k].entrada)][j].modulo)

Compila(q, c, b) ==
  Comienzos(q, c, b) /\ Base(q, c, b) /\ Distintas(q) /\ EnCadena(q) /\ Pedidas(q, c)

Compilacion == fase = "pasos" => Compila(pila, completado, DOMAIN bd)

\* The frame of the steps of the loop.
LEMMA CompilaPasa ==
  ASSUME orden' = orden, fuente' = fuente, Compila(pila', completado', DOMAIN bd')
  PROVE  Compilacion'
<1>1. /\ \A i : ModuloDe(i)' = ModuloDe(i)
      /\ \A m : Directas(m)' = Directas(m) /\ Nombran(m)' = Nombran(m)
  BY DEF ModuloDe, Directas, Nombran
<1>2. Comienzos(pila, completado, DOMAIN bd)'
  BY <1>1 DEF Compila, Comienzos, Esta
<1>3. Base(pila, completado, DOMAIN bd)'
  <2>1. ModulosDe(orden, "ipd")' = ModulosDe(orden, "ipd")
    BY DEF ModulosDe
  <2> QED
    BY <1>1, <2>1 DEF Compila, Base, Esta
<1>4. Distintas(pila)' /\ EnCadena(pila)'
  BY <1>1 DEF Compila, Distintas, EnCadena
<1>5. Pedidas(pila, completado)'
  BY <1>1 DEF Compila, Pedidas, Atendido
<1> QED
  BY <1>2, <1>3, <1>4, <1>5 DEF Compilacion, Compila

\* Each call of Compilar in progress is of a step taken.
LEMMA CadaLlamada ==
  ASSUME TipoOK, fase # "libre", NEW k \in 1 .. Len(pila)
  PROVE  /\ pila[k] \in Llamadas(completado)
         /\ pila[k].entrada \in completado /\ pila[k].entrada \in DOMAIN orden.entradas
         /\ ModuloDe(pila[k].entrada) \in Modulos
<1>1. pila \in Seq(Llamadas(completado)) /\ completado \subseteq DOMAIN orden.entradas
  BY DEF TipoOK, Llamadas
<1>2. pila[k] \in Llamadas(completado)
  BY <1>1, ElementOfSeq
<1>3. orden \in Ordenes /\ pila[k].entrada \in DOMAIN orden.entradas
  BY <1>1, <1>2 DEF TipoOK, Llamadas
<1> QED
  BY <1>2, <1>3, EntradasDeOrden DEF ModuloDe, Llamadas

\* A call in progress reaches the module of every call above it.
LEMMA LaDeArribaSeAlcanza ==
  ASSUME TipoOK, fase # "libre", EnCadena(pila),
         NEW k \in 1 .. Len(pila), NEW l \in 1 .. Len(pila), k < l
  PROVE  ModuloDe(pila[l].entrada) \in Alcanzables(ModuloDe(pila[k].entrada))
<1> DEFINE M(i) == ModuloDe(pila[i].entrada)
           S == {n \in Nat : k + 1 + n \in 1 .. Len(pila) => M(k + 1 + n) \in Alcanzables(M(k))}
<1>1. Len(pila) \in Nat /\ k \in Nat /\ l \in Nat
  BY LenProperties DEF TipoOK
<1>2. M(k) \in Modulos
  BY CadaLlamada
<1>3. CerradoPara(M(k), Alcanzables(M(k)))
  <2> HIDE DEF M
  <2> QED
    BY <1>2, AlcanzablesEsCerrado
<1>4. 0 \in S
  BY <1>1, <1>3 DEF EnCadena, CerradoPara
<1>5. ASSUME NEW n \in Nat, n \in S PROVE n + 1 \in S
  <2>1. ASSUME k + 1 + (n + 1) \in 1 .. Len(pila)
        PROVE  M(k + 1 + (n + 1)) \in Alcanzables(M(k))
    <3>1. k + 1 + n \in 1 .. Len(pila) /\ (k + 1 + n) + 1 = k + 1 + (n + 1)
      BY <1>1, <2>1
    <3>2. M(k + 1 + n) \in Alcanzables(M(k))
      BY <1>5, <3>1
    <3>3. M(k + 1 + (n + 1)) \in Directas(M(k + 1 + n))
      BY <2>1, <3>1 DEF EnCadena
    <3> HIDE DEF M
    <3> QED
      BY <1>3, <3>2, <3>3 DEF CerradoPara
  <2> QED
    BY <2>1
<1>6. Nat \subseteq S
  <2> HIDE DEF S
  <2> QED
    BY <1>4, <1>5, Induccion
<1>7. l - k - 1 \in Nat /\ k + 1 + (l - k - 1) = l
  BY <1>1
<1>8. l - k - 1 \in S
  <2> HIDE DEF S
  <2> QED
    BY <1>6, <1>7
<1> QED
  BY <1>7, <1>8

\* A step pushes its call with the others as they were.
LEMMA LlamadaNueva ==
  ASSUME TipoOK, fase # "libre", pila # <<>>, NEW c, completado \subseteq c,
         NEW e \in Llamadas(c), NEW q, q = Siguiente, NEW r, r = Append(q, e)
  PROVE  /\ Len(r) = Len(pila) + 1
         /\ \A k \in 1 .. Len(pila) :
              /\ r[k].entrada = pila[k].entrada
              /\ r[k].dep = IF k = Len(pila) THEN Cima.dep + 1 ELSE pila[k].dep
         /\ r[Len(pila) + 1] = e
<1>1. /\ q \in Seq(Llamadas(completado)) /\ Len(q) = Len(pila)
      /\ \A k \in DOMAIN pila :
           /\ q[k].entrada = pila[k].entrada
           /\ q[k].dep = IF k = Len(pila) THEN Cima.dep + 1 ELSE pila[k].dep
  BY ElSiguiente
<1>2. Llamadas(completado) \subseteq Llamadas(c)
  BY DEF Llamadas
<1>3. q \in Seq(Llamadas(c))
  BY <1>1, <1>2, SeqMonotonic
<1>4. /\ Len(r) = Len(q) + 1 /\ \A k \in 1 .. Len(q) : r[k] = q[k]
      /\ r[Len(q) + 1] = e
  BY <1>3, AppendProperties
<1>5. DOMAIN pila = 1 .. Len(pila)
  BY LenProperties DEF TipoOK
<1> QED
  BY <1>1, <1>4, <1>5

\* Going past an import that is attended to leaves the rest as it was.
LEMMA PedidasSigue ==
  ASSUME TipoOK, fase # "libre", pila # <<>>, NEW c, completado \subseteq c,
         Pedidas(pila, completado),
         Atendido(c, fuente[Compilado][Cima.dep].modulo),
         NEW q, NEW k \in 1 .. Len(pila),
         q[k].entrada = pila[k].entrada,
         q[k].dep = IF k = Len(pila) THEN Cima.dep + 1 ELSE pila[k].dep,
         NEW j \in DOMAIN fuente[ModuloDe(q[k].entrada)], j < q[k].dep
  PROVE  Atendido(c, fuente[ModuloDe(q[k].entrada)][j].modulo)
<1> DEFINE m == ModuloDe(pila[k].entrada)
<1>1. m \in Modulos /\ pila[k] \in Llamadas(completado)
  BY CadaLlamada
<1>2. j \in Nat /\ pila[k].dep \in Nat
  <2>1. fuente[m] \in Seq(Importaciones)
    BY <1>1, FuentesSonProgramas DEF TipoOK
  <2> QED
    BY <1>1, <2>1, LenProperties DEF Llamadas
<1>3. CASE j < pila[k].dep
  BY <1>3 DEF Pedidas, Atendido
<1>4. CASE ~(j < pila[k].dep)
  <2>1. k = Len(pila) /\ pila[k] = Cima
    BY <1>4 DEF Cima
  <2>2. j = Cima.dep
    BY <1>2, <1>4, <2>1
  <2> QED
    BY <2>1, <2>2 DEF Compilado, ModuloDe
<1> QED
  BY <1>3, <1>4

\* A step of the loop keeps the calls, the steps taken and the database in step.
LEMMA CompilacionInductivo ==
  ASSUME TipoOK, Compilacion, [Next]_vars
  PROVE  Compilacion'
<1>1. SUFFICES ASSUME fase' = "pasos" PROVE Compilacion'
  BY DEF Compilacion
<1>2. fuente' = fuente
  BY LaFuenteQueda
<1>3. CASE fase # "pasos"
  <2>1. PICK o \in Ordenes : Empezar(o)
    BY <1>1, <1>3 DEF Next, Compilar, vars, EmpezarPaso, TerminarPaso, TerminarModulo,
        Enlazar, GuardarInterfaz, Terminar, DependenciaLista, CompilarDependencia,
        DependenciaDesconocida, Interrumpir, Salir, Pendiente, Fallar
  <2>2. /\ completado' = {} /\ pila' = <<>> /\ orden' = o
        /\ DOMAIN bd' = ModulosDe(o, "ipd")
    BY <1>1, <2>1 DEF Empezar, Fallar
  <2> QED
    BY <2>2 DEF Compilacion, Compila, Comienzos, Base, Distintas, EnCadena, Pedidas,
                ModulosDe, ModuloDe, Esta
<1>4. CASE fase = "pasos"
  <2> DEFINE n == Len(pila)
             b == DOMAIN bd
  <2>0. /\ Comienzos(pila, completado, b) /\ Base(pila, completado, b)
        /\ Distintas(pila) /\ EnCadena(pila) /\ Pedidas(pila, completado)
        /\ n \in Nat /\ DOMAIN pila = 1 .. n /\ fase # "libre" /\ orden \in Ordenes
    BY <1>4, LenProperties DEF Compilacion, Compila, TipoOK
  <2>1. CASE EmpezarPaso
    <3>1. /\ completado' = completado \union {paso} /\ orden' = orden /\ bd' = bd
          /\ pila' = <<[entrada |-> paso, dep |-> 1]>> /\ pila = <<>>
          /\ paso \notin completado /\ orden.entradas[paso].lenguaje = "pd"
      BY <2>1 DEF EmpezarPaso, Comenzar
    <3>2. /\ Len(pila') = 1 /\ pila'[1].entrada = paso /\ pila'[1].dep = 1
          /\ \A i : ~Esta(pila, i)
          /\ \A i : Esta(pila', i) <=> i = paso
      BY <3>1 DEF Esta
    <3>3. Comienzos(pila', completado', b)
      BY <2>0, <3>1, <3>2 DEF Comienzos
    <3>4. Base(pila', completado', b)
      BY <2>0, <3>1, <3>2 DEF Base
    <3>5. Distintas(pila') /\ EnCadena(pila')
      BY <3>2 DEF Distintas, EnCadena
    <3>6. Pedidas(pila', completado')
      <4>1. paso \in DOMAIN orden.entradas
        BY <2>1 DEF EmpezarPaso
      <4>2. fuente[ModuloDe(paso)] \in Seq(Importaciones)
        BY <2>0, <4>1, EntradasDeOrden, FuentesSonProgramas DEF ModuloDe, TipoOK
      <4>3. \A j \in DOMAIN fuente[ModuloDe(paso)] : ~(j < 1)
        BY <4>2, LenProperties
      <4> QED
        BY <3>2, <4>3 DEF Pedidas
    <3> QED
      BY <1>2, <3>1, <3>3, <3>4, <3>5, <3>6, CompilaPasa DEF Compila
  <2>2. CASE TerminarPaso
    BY <1>2, <2>0, <2>2, CompilaPasa DEF TerminarPaso, Compila
  <2>3. ASSUME NEW d \in Modulos, DependenciaLista(d)
        PROVE  Compilacion'
    <3>1. /\ completado' = completado /\ orden' = orden /\ bd' = bd
          /\ pila' = Siguiente /\ pila # <<>>
          /\ d = fuente[Compilado][Cima.dep].modulo /\ Atendido(completado, d)
      BY <2>3 DEF DependenciaLista, Pendiente, Hecha, Atendido
    <3>2. PICK q : q = Siguiente
      OBVIOUS
    <3>3. /\ Len(q) = n
          /\ \A k \in 1 .. n :
               /\ q[k].entrada = pila[k].entrada
               /\ q[k].dep = IF k = n THEN Cima.dep + 1 ELSE pila[k].dep
      BY <2>0, <3>1, <3>2, ElSiguiente
    <3>4. \A i : Esta(q, i) <=> Esta(pila, i)
      BY <3>3 DEF Esta
    <3>5. Comienzos(q, completado, b) /\ Base(q, completado, b)
      BY <2>0, <3>4 DEF Comienzos, Base
    <3>6. Distintas(q) /\ EnCadena(q)
      BY <2>0, <3>3 DEF Distintas, EnCadena
    <3>7. Pedidas(q, completado)
      <4> SUFFICES ASSUME NEW k \in 1 .. n, NEW j \in DOMAIN fuente[ModuloDe(q[k].entrada)],
                          j < q[k].dep
                   PROVE  Atendido(completado, fuente[ModuloDe(q[k].entrada)][j].modulo)
        BY <3>3 DEF Pedidas
      <4> QED
        BY <2>0, <3>1, <3>3, PedidasSigue
    <3> QED
      BY <1>2, <3>1, <3>2, <3>5, <3>6, <3>7, CompilaPasa DEF Compila
  <2>4. ASSUME NEW d \in Modulos, CompilarDependencia(d)
        PROVE  Compilacion'
    <3>1. PICK i \in Nombran(d) :
            /\ Idc(d, i) /\ ~Hecha(i) /\ Comenzar(i)
            /\ pila' = Append(Siguiente, [entrada |-> i, dep |-> 1])
      BY <2>4 DEF CompilarDependencia
    <3>2. /\ completado' = completado \union {i} /\ orden' = orden /\ bd' = bd
          /\ pila # <<>> /\ d = fuente[Compilado][Cima.dep].modulo
          /\ i \notin completado /\ orden.entradas[i].lenguaje = "pd"
          /\ i \in DOMAIN orden.entradas /\ ModuloDe(i) = d /\ d \in Directas(Compilado)
      <4>1. i \in DOMAIN orden.entradas /\ ModuloDe(i) = d
        BY DEF Nombran, ModuloDe
      <4>2. orden.entradas[i] \in Entradas
        BY <2>0, <4>1, EntradasDeOrden
      <4> QED
        BY <2>4, <3>1, <4>1, <4>2 DEF CompilarDependencia, Pendiente, Comenzar, Hecha,
                                      Entradas, Directas
    <3>3. PICK r : r = pila'
      OBVIOUS
    <3>4. /\ Len(r) = n + 1 /\ r[n + 1].entrada = i /\ r[n + 1].dep = 1
          /\ \A k \in 1 .. n :
               /\ r[k].entrada = pila[k].entrada
               /\ r[k].dep = IF k = n THEN Cima.dep + 1 ELSE pila[k].dep
      <4>1. PICK e : e = [entrada |-> i, dep |-> 1]
        OBVIOUS
      <4>2. PICK c : c = completado \union {i}
        OBVIOUS
      <4> PICK q : q = Siguiente
        OBVIOUS
      <4>3. e \in Llamadas(c) /\ completado \subseteq c /\ q = Siguiente /\ r = Append(q, e)
        BY <3>1, <3>3, <4>1, <4>2 DEF Llamadas
      <4>4. /\ Len(r) = Len(pila) + 1 /\ r[Len(pila) + 1] = e
            /\ \A k \in 1 .. Len(pila) :
                 /\ r[k].entrada = pila[k].entrada
                 /\ r[k].dep = IF k = Len(pila) THEN Cima.dep + 1 ELSE pila[k].dep
        <5>1. fase # "libre" /\ pila # <<>>
          BY <2>0, <3>2
        <5>2. e \in Llamadas(c) /\ completado \subseteq c
          BY <4>3
        <5>3. q = Siguiente /\ r = Append(q, e)
          BY <4>3
        <5> QED
          BY ONLY TipoOK, <5>1, <5>2, <5>3, LlamadaNueva
      <4> QED
        BY <4>1, <4>4
    <3>5. /\ \A k \in 1 .. n : k \in 1 .. n + 1 /\ k # n + 1
          /\ \A k \in 1 .. n + 1 : k \in 1 .. n \/ k = n + 1
          /\ n + 1 \in 1 .. n + 1 /\ n \in Nat \ {0} /\ Cima = pila[n]
      BY <2>0, <3>2, LaCima DEF Cima
    <3>6. /\ \A k \in 1 .. n : pila[k].entrada \in completado
          /\ \A x : Esta(pila, x) => x \in completado
      BY <2>0, CadaLlamada DEF Esta
    <3>7. \A x : Esta(r, x) <=> Esta(pila, x) \/ x = i
      BY <3>4, <3>5 DEF Esta
    <3>8. Comienzos(r, completado', b)
      BY <2>0, <3>2, <3>7 DEF Comienzos
    <3>9. Base(r, completado', b)
      BY <2>0, <3>2, <3>7 DEF Base
    <3>10. Distintas(r)
      <4>1. ASSUME NEW k \in 1 .. n + 1, NEW l \in 1 .. n + 1,
                   r[k].entrada = r[l].entrada
            PROVE  k = l
        <5>1. CASE k = n + 1 \/ l = n + 1
          BY <3>2, <3>4, <3>5, <3>6, <4>1, <5>1
        <5>2. CASE k \in 1 .. n /\ l \in 1 .. n
          BY <2>0, <3>4, <4>1, <5>2 DEF Distintas
        <5> QED
          BY <3>5, <5>1, <5>2
      <4> QED
        BY <3>4, <4>1 DEF Distintas
    <3>11. EnCadena(r)
      <4> SUFFICES ASSUME NEW k \in 1 .. n + 1, k + 1 \in 1 .. n + 1
                   PROVE  ModuloDe(r[k + 1].entrada) \in Directas(ModuloDe(r[k].entrada))
        BY <3>4 DEF EnCadena
      <4>1. k \in 1 .. n
        BY <3>5
      <4>2. CASE k = n
        BY <3>2, <3>4, <3>5, <4>2 DEF Compilado, ModuloDe
      <4>3. CASE k # n
        <5>1. k + 1 \in 1 .. n
          BY <3>5, <4>1, <4>3
        <5> QED
          BY <2>0, <3>4, <4>1, <5>1 DEF EnCadena
      <4> QED
        BY <4>2, <4>3
    <3>12. Pedidas(r, completado')
      <4> SUFFICES ASSUME NEW k \in 1 .. n + 1,
                          NEW j \in DOMAIN fuente[ModuloDe(r[k].entrada)], j < r[k].dep
                   PROVE  Atendido(completado', fuente[ModuloDe(r[k].entrada)][j].modulo)
        BY <3>4 DEF Pedidas
      <4>1. CASE k = n + 1
        <5>1. fuente[d] \in Seq(Importaciones)
          BY FuentesSonProgramas DEF TipoOK
        <5>2. \A x \in DOMAIN fuente[d] : ~(x < 1)
          BY <5>1, LenProperties
        <5> QED
          BY <3>2, <3>4, <4>1, <5>2
      <4>2. CASE k \in 1 .. n
        <5>1. Atendido(completado', fuente[Compilado][Cima.dep].modulo)
          BY <3>2 DEF Atendido
        <5> QED
          BY <2>0, <3>2, <3>4, <4>2, <5>1, PedidasSigue
      <4> QED
        BY <3>5, <4>1, <4>2
    <3> QED
      BY <1>2, <3>2, <3>3, <3>8, <3>9, <3>10, <3>11, <3>12, CompilaPasa DEF Compila
  <2>5. CASE TerminarModulo
    <3> DEFINE e == Cima.entrada
               abajo == SubSeq(pila, 1, n - 1)
    <3>1. /\ completado' = completado /\ orden' = orden /\ pila # <<>> /\ pila' = abajo
          /\ \/ ~orden.entradas[e].esModulo /\ bd' = bd
             \/ DOMAIN bd' = b \union {Compilado}
      BY <1>1, <1>4, <2>5 DEF TerminarModulo, Fallar
    <3>2. PICK q : q = abajo
      OBVIOUS
    <3>3. /\ Len(q) = n - 1 /\ \A k \in 1 .. n - 1 : q[k] = pila[k]
          /\ n \in Nat \ {0} /\ Cima = pila[n]
          /\ e \in DOMAIN orden.entradas /\ e \in completado
      BY <2>0, <3>1, <3>2, LasDeAbajo, LaCima DEF Cima, Llamadas
    <3>4. /\ \A k \in 1 .. n - 1 : k \in 1 .. n /\ k # n
          /\ \A k \in 1 .. n : k \in 1 .. n - 1 \/ k = n
      BY <3>3
    <3>5. ASSUME NEW x
          PROVE  Esta(q, x) <=> Esta(pila, x) /\ x # e
      <4>1. ASSUME NEW k \in 1 .. n - 1, pila[k].entrada = e
            PROVE  FALSE
        <5>1. n \in 1 .. n /\ pila[n].entrada = e
          BY <3>3
        <5> QED
          BY <2>0, <3>4, <4>1, <5>1 DEF Distintas
      <4>2. Esta(q, x) => Esta(pila, x) /\ x # e
        BY <3>3, <3>4, <4>1 DEF Esta
      <4>3. Esta(pila, x) /\ x # e => Esta(q, x)
        BY <3>3, <3>4 DEF Esta
      <4> QED
        BY <4>2, <4>3
    <3>6. Comienzos(q, completado, DOMAIN bd')
      BY <2>0, <3>1, <3>5 DEF Comienzos, ModuloDe, Compilado
    <3>7. Base(q, completado, DOMAIN bd')
      <4>1. ASSUME NEW m \in DOMAIN bd', m \notin b
            PROVE  ModuloDe(e) = m /\ ~Esta(q, e)
        BY <3>1, <3>5, <4>1 DEF ModuloDe, Compilado
      <4> QED
        BY <2>0, <3>1, <3>3, <3>5, <4>1 DEF Base
    <3>8. Distintas(q)
      BY <2>0, <3>3, <3>4 DEF Distintas
    <3>9. EnCadena(q)
      BY <2>0, <3>3, <3>4 DEF EnCadena
    <3>10. Pedidas(q, completado)
      BY <2>0, <3>3, <3>4 DEF Pedidas
    <3> QED
      BY <1>2, <3>1, <3>2, <3>6, <3>7, <3>8, <3>9, <3>10, CompilaPasa DEF Compila
  <2>6. CASE UNCHANGED vars
    BY <1>2, <2>0, <2>6, CompilaPasa DEF vars, Compila
  <2>7. \/ EmpezarPaso \/ TerminarPaso \/ TerminarModulo \/ UNCHANGED vars
        \/ \E d \in Modulos : DependenciaLista(d) \/ CompilarDependencia(d)
    BY <1>1, <1>4 DEF Next, Compilar, Empezar, Enlazar, GuardarInterfaz, Terminar,
                DependenciaDesconocida, Interrumpir, Salir, Fallar
  <2> QED
    BY <2>1, <2>2, <2>3, <2>4, <2>5, <2>6, <2>7
<1> QED
  BY <1>3, <1>4

\* A module pdc has not failed to compile so far has no reason.
Motivos == fase # "error" => motivo = "ninguno"

LEMMA MotivosInductivo ==
  ASSUME Motivos, [Next]_vars
  PROVE  Motivos'
BY DEF Motivos, Next, Compilar, vars, Empezar, EmpezarPaso, TerminarPaso, TerminarModulo,
       Enlazar, GuardarInterfaz, Terminar, DependenciaLista, CompilarDependencia,
       DependenciaDesconocida, Interrumpir, Salir, Comenzar, Fallar

\* An import that ends its compilation and is not in the database is of a call
\* in progress, which reaches itself.
LEMMA NoEncontradoEsCiclico ==
  ASSUME TipoOK, fase = "pasos", Compilacion, pila # <<>>,
         Cima.dep \notin DOMAIN fuente[Compilado], ~(Directas(Compilado) \subseteq DOMAIN bd)
  PROVE  \E i \in completado : ModuloDe(i) \in Alcanzables(ModuloDe(i))
<1> DEFINE n == Len(pila)
<1>1. /\ n \in Nat \ {0} /\ Cima = pila[n] /\ Cima \in Llamadas(completado)
      /\ Compilado \in Modulos /\ Compilado = ModuloDe(pila[n].entrada)
  BY LaCima DEF Cima, Compilado, ModuloDe
<1>2. PICK j \in DOMAIN fuente[Compilado] : fuente[Compilado][j].modulo \notin DOMAIN bd
  BY DEF Directas
<1> DEFINE d == fuente[Compilado][j].modulo
<1>3. d \in Directas(Compilado)
  BY DEF Directas
<1>4. j < Cima.dep
  <2>1. fuente[Compilado] \in Seq(Importaciones)
    BY <1>1, FuentesSonProgramas DEF TipoOK
  <2> QED
    BY <1>1, <2>1, LenProperties DEF Llamadas
<1>5. Atendido(completado, d)
  BY <1>1, <1>4 DEF Compilacion, Compila, Pedidas
<1>6. PICK i \in Nombran(d) : orden.entradas[i].lenguaje = "ipd" \/ i \in completado
  BY <1>5 DEF Atendido
<1>7. /\ i \in DOMAIN orden.entradas /\ ModuloDe(i) = d /\ orden.entradas[i].esModulo
  BY DEF Nombran, ModuloDe
<1>8. orden.entradas[i].lenguaje # "ipd"
  <2>1. SUFFICES ASSUME orden.entradas[i].lenguaje = "ipd" PROVE FALSE
    OBVIOUS
  <2>2. d \in ModulosDe(orden, "ipd")
    BY <1>7, <2>1 DEF ModulosDe, ModuloDe
  <2> QED
    BY <1>2, <2>2 DEF Compilacion, Compila, Base
<1>9. i \in completado /\ Esta(pila, i)
  BY <1>2, <1>6, <1>7, <1>8 DEF Compilacion, Compila, Comienzos
<1>10. PICK k \in 1 .. n : pila[k].entrada = i
  BY <1>9 DEF Esta
<1>11. CASE k = n
  BY <1>1, <1>3, <1>7, <1>9, <1>10, <1>11, AlcanzablesEsCerrado DEF CerradoPara
<1>12. CASE k # n
  <2>1. k < n /\ n \in 1 .. n
    BY <1>1, <1>12
  <2>2. Compilado \in Alcanzables(d)
    BY <1>1, <1>7, <1>10, <2>1, LaDeArribaSeAlcanza DEF Compilacion, Compila
  <2>3. d \in Modulos
    BY <1>1, <1>3, DirectasSonModulos
  <2>4. d \in Alcanzables(d)
    BY <1>3, <2>2, <2>3, AlcanzablesEsCerrado DEF CerradoPara
  <2> QED
    BY <1>7, <1>9, <2>4
<1> QED
  BY <1>11, <1>12

\* A module that is registered twice has two inputs.
LEMMA YaExisteSeRepite ==
  ASSUME TipoOK, fase = "pasos", Compilacion, pila # <<>>, Compilado \in DOMAIN bd
  PROVE  \E i, j \in DOMAIN orden.entradas : i # j /\ ModuloDe(i) = ModuloDe(j)
<1>1. PICK i \in DOMAIN orden.entradas :
        /\ ModuloDe(i) = Compilado
        /\ orden.entradas[i].lenguaje = "ipd" \/ (i \in completado /\ ~Esta(pila, i))
  BY DEF Compilacion, Compila, Base
<1> DEFINE e == Cima.entrada
<1>2. /\ Len(pila) \in 1 .. Len(pila) /\ e = pila[Len(pila)].entrada
      /\ e \in DOMAIN orden.entradas /\ e \in completado /\ ModuloDe(e) = Compilado
  BY LaCima DEF Cima, Compilado, ModuloDe, Llamadas
<1>3. Esta(pila, e) /\ orden.entradas[e].lenguaje = "pd"
  BY <1>2 DEF Esta, Compilacion, Compila, Comienzos
<1>4. i # e
  BY <1>1, <1>3
<1> QED
  BY <1>1, <1>2, <1>4

\* A step that ends pdc for one of these reasons has it.
LEMMA ErroresInductivo ==
  ASSUME TipoOK, Compilacion, Motivos, ErroresJustificados, [Next]_vars
  PROVE  ErroresJustificados'
<1>1. /\ fuente' = fuente /\ \A m : Alcanzables(m)' = Alcanzables(m)
  BY LaFuenteQueda, AlcanzablesNoCambia
<1>2. CASE TerminarModulo
  <2>1. /\ fase = "pasos" /\ pila # <<>> /\ Cima.dep \notin DOMAIN fuente[Compilado]
        /\ orden' = orden /\ completado' = completado /\ motivo = "ninguno"
    BY <1>2 DEF TerminarModulo, Motivos
  <2>2. motivo' = "no_encontrado" =>
          \E i \in completado : ModuloDe(i) \in Alcanzables(ModuloDe(i))
    BY <1>2, <2>1, NoEncontradoEsCiclico DEF TerminarModulo, Fallar
  <2>3. motivo' = "ya_existe" =>
          \E i, j \in DOMAIN orden.entradas : i # j /\ ModuloDe(i) = ModuloDe(j)
    BY <1>2, <2>1, YaExisteSeRepite DEF TerminarModulo, Fallar
  <2> QED
    BY <1>1, <2>1, <2>2, <2>3 DEF ErroresJustificados, ModuloDe
<1>3. CASE UNCHANGED vars
  BY <1>1, <1>3 DEF vars, ErroresJustificados
<1>4. motivo' \in {"no_encontrado", "ya_existe"} => TerminarModulo \/ UNCHANGED vars
  BY DEF Motivos, Next, Compilar, Empezar, EmpezarPaso, TerminarPaso,
       Enlazar, GuardarInterfaz, Terminar, DependenciaLista, CompilarDependencia,
       DependenciaDesconocida, Interrumpir, Salir, Comenzar, Fallar, Pendiente
<1>5. CASE motivo' \notin {"no_encontrado", "ya_existe"}
  BY <1>5 DEF ErroresJustificados
<1> QED
  BY <1>2, <1>3, <1>4, <1>5

-------------------------------------------------------------------------------
\* Type correctness: over any runs of pdc the fields have the shape the code
\* gives them, and a call of Compilar is of a step marked as taken.
THEOREM TipoSiempre == Spec => []TipoOK
<1>1. Init => TipoOK
  <2> SUFFICES ASSUME Init
               PROVE  TipoOK
    OBVIOUS
  <2>1. pila \in Seq(Llamadas(completado))
    BY EmptySeq DEF Init
  <2> QED
    BY <2>1 DEF Init, TipoOK, Llamadas
<1>2. TipoOK /\ [Next]_vars => TipoOK'
  BY TipoInductivo
<1> QED
  BY <1>1, <1>2, PTL DEF Spec

\* Over any runs of pdc the database and the interfaces are right.
LEMMA RegistroSiempre == Spec => []Registro
<1>1. Init => Registro
  BY DEF Init, Registro, CierreExacto, SinCiclos
<1>2. TipoOK /\ Registro /\ [Next]_vars => Registro'
  BY RegistroInductivo
<1> QED
  BY <1>1, <1>2, TipoSiempre, PTL DEF Spec

\* The prefixes registered and saved are the closure of the imports, for any
\* modules, programs and command lines (compilador.pd:239-253).
THEOREM CierreSiempre == Spec => []CierreExacto
<1>1. Registro => CierreExacto
  BY DEF Registro
<1> QED
  BY <1>1, RegistroSiempre, PTL

\* No module on a cycle of imports is ever registered or saved.
THEOREM SinCiclosSiempre == Spec => []SinCiclos
<1>1. Registro => SinCiclos
  BY DEF Registro
<1> QED
  BY <1>1, RegistroSiempre, PTL

\* The loop over pasos leaves no source behind, and every compiled one has the
\* table of what it depends on (ProcesarPaso, compilador.pd:1674-1677).
THEOREM PasosSiempre == Spec => []PasosExactos
<1>1. Init => PasosExactos
  BY DEF Init, PasosExactos
<1>2. TipoOK /\ Registro /\ PasosExactos /\ [Next]_vars => PasosExactos'
  BY PasosInductivo
<1> QED
  BY <1>1, <1>2, TipoSiempre, RegistroSiempre, PTL DEF Spec

\* An executable registers exactly the modules its main depends on: what it
\* imports while it runs is always there (lowerer.pd:47-60).
THEOREM EjecutableSiempre == Spec => []EjecutableCompleto
<1>1. Init => EjecutableCompleto
  BY DEF Init, EjecutableCompleto
<1>2. TipoOK /\ PasosExactos /\ EjecutableCompleto /\ [Next]_vars => EjecutableCompleto'
  BY ExeInductivo
<1> QED
  BY <1>1, <1>2, TipoSiempre, PasosSiempre, PTL DEF Spec

\* Nothing that is registered, saved or linked depends on a cycle of imports.
LEMMA DependenciasSiempre == Spec => []DependenciasSinCiclos
<1>1. Init => DependenciasSinCiclos
  BY DEF Init, DependenciasSinCiclos
<1>2. TipoOK /\ Registro /\ DependenciasSinCiclos /\ [Next]_vars => DependenciasSinCiclos'
  BY DependenciasInductivo
<1> QED
  BY <1>1, <1>2, TipoSiempre, RegistroSiempre, PTL DEF Spec

\* The calls of Compilar in progress, the steps taken and the database agree.
LEMMA CompilacionSiempre == Spec => []Compilacion
<1>1. Init => Compilacion
  BY DEF Init, Compilacion
<1>2. TipoOK /\ Compilacion /\ [Next]_vars => Compilacion'
  BY CompilacionInductivo
<1> QED
  BY <1>1, <1>2, TipoSiempre, PTL DEF Spec

\* pdc fails to find a module of the command line only when the sources have a
\* cycle, and to register one only when it was given twice.
THEOREM ErroresSiempre == Spec => []ErroresJustificados
<1>1. Init => Motivos /\ ErroresJustificados
  BY DEF Init, Motivos, ErroresJustificados
<1>2. Motivos /\ [Next]_vars => Motivos'
  BY MotivosInductivo
<1>3. TipoOK /\ Compilacion /\ Motivos /\ ErroresJustificados /\ [Next]_vars
        => ErroresJustificados'
  BY ErroresInductivo
<1> QED
  BY <1>1, <1>2, <1>3, TipoSiempre, CompilacionSiempre, PTL DEF Spec
===============================================================================

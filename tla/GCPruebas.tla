------------------------------- MODULE GCPruebas -------------------------------
(***************************************************************************)
(* Proofs about GC for any heap, any limit of minor collections and any    *)
(* number of fields.                                                       *)
(***************************************************************************)
EXTENDS GC, TLAPS

-------------------------------------------------------------------------------
(* The inductive invariant of the safe programs.                           *)

\* The programs that close no file, use no coroutine, and do not both put
\* frames in the heap and find the heap full.
Seguro(p) ==
  /\ "corrutinas" \notin p /\ "cerrar" \notin p
  /\ "crear_marco" \notin p \/ "por_memoria" \notin p

\* Whether a mark phase is under way.
EnColeccion == fase \in {"raices", "grises", "reinicio"}

\* v is marked, or nothing frees it in this collection, and v is not a
\* forwarding header.
ASalvo(v) ==
  /\ \/ grupo[v] \in {"GRIS", "NEGRO", "RECURSOS"}
     \/ ~Mayor /\ grupo[v] = "BLANCO_VIEJO"
  /\ tipo[v] # "REUBICADO"

\* Collections that move nothing are major, and happen in programs that may
\* find the heap full.
InvRecoleccion ==
  /\ Seguro(usa)
  /\ EnColeccion /\ ~MuevePila => Mayor /\ "por_memoria" \in usa

\* Resources are the open files; there are no coroutines.
InvTipos ==
  /\ \A o \in Obj : tipo[o] # "CORO"
  /\ \A o \in Obj : grupo[o] = "RECURSOS" <=> o \in abiertos
  /\ \A o \in abiertos : campos[o] = {} /\ tipo[o] = "VALOP"

\* The C stack holds frames, listed there or marked.
InvPila ==
  /\ \A o \in Obj : grupo[o] = "BLANCO_EN_LA_PILA" => o \in enPila
  /\ \A o \in enPila : /\ grupo[o] \in {"BLANCO_EN_LA_PILA", "GRIS", "NEGRO"}
                       /\ tipo[o] \in {"MARCO", "REUBICADO"}
                       /\ MuevePila /\ EnColeccion => grupo[o] = "BLANCO_EN_LA_PILA"

\* A forwarding header is left in the C stack, in a collection that moves it,
\* and leads to a marked copy in the heap.
InvReubicado ==
  \A o \in Obj : tipo[o] = "REUBICADO" =>
    /\ fase = "grises" /\ MuevePila
    /\ o \in enPila
    /\ nueva[o] \in Obj \ enPila
    /\ grupo[nueva[o]] \in {"GRIS", "NEGRO"} /\ tipo[nueva[o]] # "REUBICADO"

\* In a program that puts no frame in the heap, no object of the heap points
\* to the C stack, except the copies that are still to be visited.
InvMonton ==
  "crear_marco" \notin usa =>
    \A o \in Vivos \ enPila :
      \/ fase = "grises" /\ MuevePila /\ grupo[o] = "GRIS"
      \/ campos[o] \intersect enPila = {}

\* The remembered set is complete until the roots are marked.
InvRecordado ==
  fase \in {"programa", "raices", "trampolin"} =>
    /\ \A o \in Obj : grupo[o] \notin {"GRIS", "NEGRO"}
    /\ \A o \in EnGrupo("BLANCO_VIEJO") : \A v \in campos[o] :
         grupo[v] \notin {"BLANCO_JOVEN", "BLANCO_EN_LA_PILA"}

\* From then on what is marked, or is not collected, points to what is kept.
InvMarcado ==
  fase \in {"grises", "reinicio"} =>
    /\ \A r \in raices : ASalvo(r)
    /\ \A o \in EnGrupo("NEGRO") : \A v \in campos[o] : ASalvo(v)
    /\ ~Mayor => \A o \in Obj : /\ grupo[o] # "RAICES_VIEJAS"
                                /\ grupo[o] = "BLANCO_VIEJO" => \A v \in campos[o] : ASalvo(v)

\* After the sweep nothing else is left.
InvBarrido ==
  fase = "reinicio" =>
    \A o \in Vivos : \/ grupo[o] \in {"NEGRO", "RECURSOS"}
                     \/ ~Mayor /\ grupo[o] = "BLANCO_VIEJO"

Inv ==
  /\ TipoOK /\ SinColgantes
  /\ InvRecoleccion /\ InvTipos /\ InvPila /\ InvReubicado /\ InvMonton
  /\ InvRecordado /\ InvMarcado /\ InvBarrido

-------------------------------------------------------------------------------
(* Type correctness.                                                       *)

\* The counter of minor collections passes its limit only in the collection
\* that resets it.
InvCnt == cnt > LimiteMenores => EnColeccion /\ MuevePila

\* A forwarding header leads somewhere.
InvNueva == \A o \in Obj : tipo[o] = "REUBICADO" => nueva[o] \in Obj

\* TipoOK alone is not inductive: cnt would grow, and a slot could become NULO.
InvTipo == TipoOK /\ InvCnt /\ InvNueva

\* The invariant holds initially.
LEMMA TipoInicial == Init => InvTipo
BY LimiteEsNatural
   DEF Init, InvTipo, TipoOK, InvCnt, InvNueva, Grupos, Tipos, Fases, Recolecciones, NingunaRecoleccion

\* A fresh object has a header of the right type.
LEMMA TipoNuevoObjeto ==
  ASSUME InvTipo, EnPrograma, NEW n \in Obj, NEW g \in Grupos, NEW t \in Tipos \ {"REUBICADO"},
         NEW p \in BOOLEAN, NEW cs \in SUBSET Obj,
         NuevoObjeto(n, g, t, p, cs), abiertos' \in SUBSET Obj
  PROVE  InvTipo'
<1> USE DEF NuevoObjeto, InvTipo, TipoOK
<1>1. TipoOK'
  OBVIOUS
<1>2. InvCnt' /\ InvNueva'
  BY DEF InvCnt, InvNueva, EnColeccion, MuevePila, EnPrograma
<1> QED
  BY <1>1, <1>2

\* A continuation is no field or one.
LEMMA ContinuacionesSonCampos ==
  TipoOK => Continuaciones \subseteq SUBSET Obj
BY DEF TipoOK, Continuaciones

\* Marking keeps the types: the copies are objects, and slots point to them.
LEMMA TipoMarcar ==
  ASSUME InvTipo, NEW S \in SUBSET Obj, NEW f \in Copias(S), NEW h \in Obj \union {NULO},
         h = NULO => raices \subseteq S,
         Marcar(S, f, h)
  PROVE  /\ grupo' \in [Obj -> Grupos] /\ tipo' \in [Obj -> Tipos]
         /\ nueva' \in [Obj -> Obj \union {NULO}] /\ InvNueva'
         /\ campos' \in [Obj -> SUBSET Obj]
         /\ raices' \subseteq Obj
<1> DEFINE destinos == {Destino(f, v) : v \in S}
           copias   == {f[v] : v \in Mover(S)}
           original(n) == CHOOSE v \in Mover(S) : f[v] = n
<1> USE DEF InvTipo, TipoOK
<1>1. Mover(S) \subseteq S /\ \A v \in Mover(S) : f[v] \in Obj
  BY DEF Mover, Copias
<1>2. \A n \in copias : original(n) \in Mover(S)
  OBVIOUS
<1>3. ASSUME NEW v \in Obj, v \in Mover({v}) => v \in S
      PROVE  Destino(f, v) \in Obj
  BY <1>1, <1>3 DEF Destino, Mover, InvNueva
<1>4. destinos \subseteq Obj
  BY <1>3, ZenonT(60)
<1>5. grupo' \in [Obj -> Grupos]
  BY DEF Marcar, Gris, Grupos
<1>6. tipo' \in [Obj -> Tipos]
  BY <1>1, <1>2 DEF Marcar, Tipos
<1>7. nueva' \in [Obj -> Obj \union {NULO}]
  BY <1>1 DEF Marcar
<1>8. campos' \in [Obj -> SUBSET Obj]
  BY <1>1, <1>2, <1>4 DEF Marcar
<1>9. InvNueva'
  BY <1>1, <1>2 DEF Marcar, InvNueva, Mover
<1>10. raices' \subseteq Obj
  <2>1. CASE h = NULO
    BY <1>3, <2>1, ZenonT(60) DEF Marcar
  <2>2. CASE h # NULO
    BY <2>2 DEF Marcar
  <2> QED
    BY <2>1, <2>2
<1> QED
  BY <1>5, <1>6, <1>7, <1>8, <1>9, <1>10

\* The type invariant is inductive, in every program.
LEMMA TipoInductivo == InvTipo /\ [Next]_vars => InvTipo'
<1> SUFFICES ASSUME InvTipo, [Next]_vars PROVE InvTipo'
  OBVIOUS
<1>0. /\ {"BLANCO_EN_LA_PILA", "BLANCO_JOVEN", "RECURSOS"} \subseteq Grupos
      /\ {"MARCO", "DATO", "CORO", "VALOP"} \subseteq Tipos \ {"REUBICADO"}
  BY DEF Grupos, Tipos
<1>1. CASE \E n \in Obj : InicializarMarco(n) \/ CrearMarco(n)
  <2>1. PICK n \in Obj : InicializarMarco(n) \/ CrearMarco(n)
    BY <1>1
  <2>2. PICK k \in Continuaciones :
          \/ NuevoObjeto(n, "BLANCO_EN_LA_PILA", "MARCO", TRUE, k)
          \/ NuevoObjeto(n, "BLANCO_JOVEN", "MARCO", FALSE, k)
    BY <2>1 DEF InicializarMarco, CrearMarco
  <2>3. k \in SUBSET Obj /\ abiertos' \in SUBSET Obj /\ EnPrograma
    BY <2>1, ContinuacionesSonCampos DEF InicializarMarco, CrearMarco, InvTipo, TipoOK
  <2> QED
    BY <1>0, <2>2, <2>3, TipoNuevoObjeto
<1>2. CASE \E n \in Obj : AlojarObj(n)
  <2>1. PICK n \in Obj : AlojarObj(n)
    BY <1>2
  <2>2. abiertos' \in SUBSET Obj /\ {} \in SUBSET Obj
    BY <2>1 DEF AlojarObj, InvTipo, TipoOK
  <2> QED
    BY <1>0, <2>1, <2>2, TipoNuevoObjeto DEF AlojarObj
<1>3. CASE \E n \in Obj : AlojarRsc(n)
  <2>1. PICK n \in Obj : AlojarRsc(n)
    BY <1>3
  <2>2. abiertos' \in SUBSET Obj /\ {} \in SUBSET Obj
    BY <2>1 DEF AlojarRsc, InvTipo, TipoOK
  <2> QED
    BY <1>0, <2>1, <2>2, TipoNuevoObjeto DEF AlojarRsc
<1>4. CASE \E n, c \in Obj : CrearCorrutina(n, c)
  <2>1. PICK n \in Obj, c \in Obj : CrearCorrutina(n, c)
    BY <1>4
  <2>2. abiertos' \in SUBSET Obj /\ {c} \in SUBSET Obj
    BY <2>1 DEF CrearCorrutina, InvTipo, TipoOK
  <2> QED
    BY <1>0, <2>1, <2>2, TipoNuevoObjeto DEF CrearCorrutina
<1>5. CASE \E r \in Obj : Cerrar(r) \/ TerminarCorrutina(r) \/ Soltar(r)
  BY <1>5 DEF Cerrar, TerminarCorrutina, Soltar, objetos, InvTipo, TipoOK, InvCnt, InvNueva,
              EnColeccion, MuevePila
<1>6. CASE \E c, v \in Obj : Escribir(c, v) \/ Borrar(c, v)
  BY <1>6 DEF Escribir, Borrar, Barrera, InvTipo, TipoOK, Grupos, InvCnt, InvNueva,
              EnColeccion, MuevePila
<1>7. CASE \E c, v \in Obj : CambiarPunto(c, v) \/ Leer(c, v)
  BY <1>7 DEF CambiarPunto, Leer, objetos, InvTipo, TipoOK, InvCnt, InvNueva,
              EnColeccion, MuevePila
<1>8. CASE RecolectarPorPila \/ RecolectarPorMemoria
  <2>1. PICK t \in {"SIN_PILA", "SIN_MEMORIA"}, b \in BOOLEAN :
          /\ Iniciar(t, b)
          /\ \/ t = "SIN_PILA" /\ cnt' = cnt + 1
             \/ cnt' = cnt
    <3> DEFINE b == cnt + 1 > LimiteMenores
    <3>1. b \in BOOLEAN
      OBVIOUS
    <3>2. CASE RecolectarPorPila
      <4>1. Iniciar("SIN_PILA", b) /\ cnt' = cnt + 1
        BY <3>2 DEF RecolectarPorPila
      <4> HIDE DEF b
      <4> QED
        BY <3>1, <4>1
    <3>3. CASE RecolectarPorMemoria
      BY <3>3 DEF RecolectarPorMemoria
    <3> QED
      BY <1>8, <3>2, <3>3
  <2> QED
    BY <2>1, LimiteEsNatural
       DEF Iniciar, EnPrograma, objetos, InvTipo, TipoOK, Fases, Recolecciones,
           InvCnt, InvNueva, EnColeccion, MuevePila
<1>9. CASE MarcarRaices
  <2>1. PorMarcar \subseteq Obj /\ raices \subseteq PorMarcar
    BY DEF PorMarcar, EnGrupo, InvTipo, TipoOK
  <2>2. PICK f \in Copias(PorMarcar) : Marcar(PorMarcar, f, NULO)
    BY <1>9 DEF MarcarRaices
  <2>3. /\ grupo' \in [Obj -> Grupos] /\ tipo' \in [Obj -> Tipos]
        /\ nueva' \in [Obj -> Obj \union {NULO}] /\ InvNueva'
        /\ campos' \in [Obj -> SUBSET Obj]
        /\ raices' \subseteq Obj
    BY <2>1, <2>2, TipoMarcar
  <2> QED
    BY <1>9, <2>3 DEF MarcarRaices, InvTipo, TipoOK, Fases, InvCnt, EnColeccion, MuevePila
<1>10. CASE \E h \in Obj : ProcesarGris(h)
  <2>1. PICK h \in Obj : ProcesarGris(h)
    BY <1>10
  <2>2. campos[h] \subseteq Obj /\ h # NULO
    BY NuloNoEsObjeto DEF InvTipo, TipoOK
  <2>3. PICK f \in Copias(campos[h]) : Marcar(campos[h], f, h)
    BY <2>1 DEF ProcesarGris
  <2>4. /\ grupo' \in [Obj -> Grupos] /\ tipo' \in [Obj -> Tipos]
        /\ nueva' \in [Obj -> Obj \union {NULO}] /\ InvNueva'
        /\ campos' \in [Obj -> SUBSET Obj]
        /\ raices' \subseteq Obj
    BY <2>2, <2>3, TipoMarcar
  <2> QED
    BY <2>1, <2>4 DEF ProcesarGris, InvTipo, TipoOK, InvCnt, EnColeccion, MuevePila
<1>11. CASE Recolectar
  BY <1>11 DEF Recolectar, InvTipo, TipoOK, Grupos, Tipos, Fases, InvCnt, InvNueva,
               EnColeccion, MuevePila
<1>12. CASE MoverNegrosABlancos
  BY <1>12, LimiteEsNatural
     DEF MoverNegrosABlancos, CntTrasRecolectar, InvTipo, TipoOK, Grupos, Fases, Recolecciones,
         NingunaRecoleccion, InvCnt, InvNueva, EnColeccion, MuevePila
<1>13. CASE Trampolin
  BY <1>13 DEF Trampolin, objetos, InvTipo, TipoOK, Fases, InvCnt, InvNueva, EnColeccion, MuevePila
<1>14. CASE UNCHANGED vars
  BY <1>14 DEF vars, InvTipo, TipoOK, InvCnt, InvNueva, EnColeccion, MuevePila
<1> QED
  BY <1>1, <1>2, <1>3, <1>4, <1>5, <1>6, <1>7, <1>8, <1>9, <1>10, <1>11, <1>12, <1>13, <1>14
     DEF Next, Programa, Recolector

\* Every variable has its type, in every program.
THEOREM TipoSiempre == Spec => []TipoOK
<1>1. InvTipo => TipoOK
  BY DEF InvTipo
<1> QED
  BY TipoInicial, TipoInductivo, <1>1, PTL DEF Spec

-------------------------------------------------------------------------------
(* The program keeps the invariant.                                        *)

\* The invariant holds initially.
LEMMA InvInicial ==
  ASSUME \A p \in Programas : Seguro(p)
  PROVE  Init => Inv
<1> SUFFICES ASSUME Init PROVE Inv
  OBVIOUS
<1>1. TipoOK
  BY TipoInicial DEF InvTipo
<1>2. SinColgantes /\ InvRecoleccion /\ InvTipos
  BY DEF Init, SinColgantes, Vivos, InvRecoleccion, InvTipos, EnColeccion
<1>3. InvPila /\ InvReubicado /\ InvMonton
  BY DEF Init, InvPila, InvReubicado, InvMonton, Vivos
<1>4. InvRecordado /\ InvMarcado /\ InvBarrido
  BY DEF Init, InvRecordado, InvMarcado, InvBarrido, EnGrupo
<1> QED
  BY <1>1, <1>2, <1>3, <1>4 DEF Inv

\* A fresh object that points to objects the program holds.
LEMMA InvNuevoObjeto ==
  ASSUME Inv, TipoOK', EnPrograma, NEW n \in Obj, NEW g, NEW t, NEW cs \in SUBSET raices,
         Libre(n),
         g \in {"BLANCO_EN_LA_PILA", "BLANCO_JOVEN", "RECURSOS"},
         t \in {"MARCO", "DATO", "VALOP"},
         g = "BLANCO_EN_LA_PILA" => t = "MARCO",
         g = "RECURSOS" => t = "VALOP" /\ cs = {},
         g = "BLANCO_JOVEN" /\ "crear_marco" \notin usa => cs = {},
         grupo' = [grupo EXCEPT ![n] = g],
         tipo' = [tipo EXCEPT ![n] = t],
         campos' = [campos EXCEPT ![n] = cs],
         enPila' = IF g = "BLANCO_EN_LA_PILA" THEN enPila \union {n} ELSE enPila,
         raices' = raices \union {n},
         abiertos' = IF g = "RECURSOS" THEN abiertos \union {n} ELSE abiertos,
         UNCHANGED <<nueva, fase, recoleccion, cnt, usa>>
  PROVE  Inv'
<1> USE DEF Inv, TipoOK, EnPrograma
<1>1. /\ grupo[n] = "NINGUNO" /\ n \notin raices /\ n \notin enPila /\ n \notin abiertos
      /\ \A o \in Vivos : n \notin campos[o]
  BY DEF Libre, InvPila, InvTipos
<1>2. \A o \in Obj : tipo'[o] # "REUBICADO"
  BY DEF InvReubicado
<1>3. SinColgantes'
  BY <1>1 DEF SinColgantes, Vivos
<1>4. InvRecoleccion' /\ InvTipos'
  BY <1>1 DEF InvRecoleccion, InvTipos, EnColeccion
<1>5. InvPila'
  BY <1>1 DEF InvPila, EnColeccion
<1>6. InvReubicado'
  BY <1>2 DEF InvReubicado
<1>7. InvMonton'
  BY <1>1 DEF InvMonton, Vivos
<1>8. InvRecordado'
  BY <1>1 DEF InvRecordado, EnGrupo, Vivos
<1>9. InvMarcado' /\ InvBarrido'
  BY DEF InvMarcado, InvBarrido
<1> QED
  BY <1>3, <1>4, <1>5, <1>6, <1>7, <1>8, <1>9

\* Creating objects and opening files.
LEMMA InvCrear ==
  ASSUME Inv, TipoOK', NEW n \in Obj,
         InicializarMarco(n) \/ CrearMarco(n) \/ AlojarObj(n) \/ AlojarRsc(n)
  PROVE  Inv'
<1> USE InvNuevoObjeto DEF NuevoObjeto
<1>1. Continuaciones \subseteq SUBSET raices /\ {} \in SUBSET raices
  BY DEF Continuaciones
<1>2. CASE InicializarMarco(n)
  BY <1>1, <1>2 DEF InicializarMarco
<1>3. CASE CrearMarco(n)
  BY <1>1, <1>3 DEF CrearMarco
<1>4. CASE AlojarObj(n)
  BY <1>1, <1>4 DEF AlojarObj
<1>5. CASE AlojarRsc(n)
  BY <1>1, <1>5 DEF AlojarRsc
<1> QED
  BY <1>2, <1>3, <1>4, <1>5

\* Writing a value: the barrier keeps the remembered set complete, and values
\* are never in the C stack.
LEMMA InvEscribir ==
  ASSUME Inv, TipoOK', NEW c \in Obj, NEW v \in Obj, Escribir(c, v)
  PROVE  Inv'
<1> USE DEF Inv, TipoOK, EnPrograma, Escribir, Barrera
<1>1. v \notin enPila /\ c \in Vivos /\ v \in Vivos
  BY DEF InvPila, InvReubicado, SinColgantes
<1>2. SinColgantes'
  BY <1>1 DEF SinColgantes, Vivos
<1>3. InvRecoleccion' /\ InvTipos'
  BY DEF InvRecoleccion, InvTipos, EnColeccion
<1>4. InvPila'
  BY DEF InvPila, EnColeccion
<1>5. InvReubicado'
  BY DEF InvReubicado
<1>6. InvMonton'
  BY <1>1 DEF InvMonton, Vivos
<1>7. InvRecordado'
  BY DEF InvRecordado, EnGrupo
<1>8. InvMarcado' /\ InvBarrido'
  BY DEF InvMarcado, InvBarrido
<1> QED
  BY <1>2, <1>3, <1>4, <1>5, <1>6, <1>7, <1>8

\* Overwriting, reading and dropping a value, and starting a collection.
LEMMA InvOtros ==
  ASSUME Inv, TipoOK', NEW c \in Obj, NEW v \in Obj,
         \/ Borrar(c, v) \/ Leer(c, v) \/ Soltar(c)
         \/ RecolectarPorPila \/ RecolectarPorMemoria \/ Trampolin
  PROVE  Inv'
<1> USE DEF Inv, TipoOK, EnPrograma, objetos
<1>1. CASE Borrar(c, v)
  BY <1>1 DEF Borrar, SinColgantes, Vivos, InvRecoleccion, InvTipos, EnColeccion, InvPila,
              InvReubicado, InvMonton, InvRecordado, EnGrupo, InvMarcado, InvBarrido
<1>2. CASE Leer(c, v)
  BY <1>2 DEF Leer, SinColgantes, Vivos, InvRecoleccion, InvTipos, EnColeccion, InvPila, MuevePila,
              InvReubicado, InvMonton, InvRecordado, EnGrupo, InvMarcado, InvBarrido
<1>3. CASE Soltar(c)
  BY <1>3 DEF Soltar, SinColgantes, Vivos, InvRecoleccion, InvTipos, EnColeccion, InvPila, MuevePila,
              InvReubicado, InvMonton, InvRecordado, EnGrupo, InvMarcado, InvBarrido
<1>4. CASE RecolectarPorPila \/ RecolectarPorMemoria
  BY <1>4 DEF RecolectarPorPila, RecolectarPorMemoria, Iniciar,
              SinColgantes, Vivos, InvRecoleccion, InvTipos, EnColeccion, InvPila, MuevePila, Mayor,
              InvReubicado, InvMonton, InvRecordado, EnGrupo, InvMarcado, InvBarrido
<1>5. CASE Trampolin
  BY <1>5 DEF Trampolin, SinColgantes, Vivos, InvRecoleccion, InvTipos, EnColeccion, InvPila, MuevePila,
              InvReubicado, InvMonton, InvRecordado, EnGrupo, InvMarcado, InvBarrido
<1> QED
  BY <1>1, <1>2, <1>3, <1>4, <1>5

-------------------------------------------------------------------------------
(* The collector keeps the invariant.                                      *)

\* What marking the slots that point into S does to each object: the copies,
\* the forwarding headers they leave, h itself, and the others.  Every slot
\* ends at an object that is kept and, if the stack moves, in the heap.
LEMMA InvMarcar ==
  ASSUME Inv, TipoOK, fase \in {"raices", "grises"},
         NEW S \in SUBSET Vivos, NEW f \in Copias(S), NEW h \in Obj \union {NULO},
         h \in Obj => grupo[h] = "GRIS" /\ S = campos[h],
         Marcar(S, f, h)
  PROVE  LET copias == {f[v] : v \in Mover(S)} IN
         /\ \A v \in Mover(S) :
              /\ f[v] \in Obj /\ grupo[f[v]] = "NINGUNO" /\ f[v] \notin raices
              /\ grupo'[v] = "BLANCO_EN_LA_PILA" /\ tipo'[v] = "REUBICADO"
              /\ campos'[v] = {} /\ nueva'[v] = f[v]
         /\ \A n \in copias : \E v \in Mover(S) :
              /\ f[v] = n /\ n \in Obj /\ n \notin enPila
              /\ grupo'[n] = "GRIS" /\ tipo'[n] = tipo[v] /\ campos'[n] = campos[v]
              /\ nueva'[n] = nueva[n]
         /\ h \in Obj => /\ h \notin Mover(S) /\ h \notin copias
                         /\ grupo'[h] = "NEGRO" /\ tipo'[h] = tipo[h] /\ nueva'[h] = nueva[h]
                         /\ campos'[h] = {Destino(f, v) : v \in S}
         /\ \A o \in Obj : o \notin Mover(S) /\ o \notin copias /\ o # h =>
              /\ tipo'[o] = tipo[o] /\ campos'[o] = campos[o] /\ nueva'[o] = nueva[o]
              /\ \/ grupo'[o] = grupo[o]
                 \/ grupo'[o] = Gris(o) /\ o \in Vivos /\ (MuevePila => o \notin enPila)
         /\ \A v \in S :
              /\ Destino(f, v) \in Obj
              /\ ~MuevePila \/ grupo[v] # "BLANCO_EN_LA_PILA" => Destino(f, v) = v
              /\ grupo'[Destino(f, v)] \in {"GRIS", "NEGRO", "RECURSOS"}
                   \/ (~Mayor /\ grupo'[Destino(f, v)] = "BLANCO_VIEJO")
              /\ tipo'[Destino(f, v)] # "REUBICADO"
              /\ MuevePila => Destino(f, v) \notin enPila
<1> DEFINE destinos == {Destino(f, v) : v \in S}
           copias   == {f[v] : v \in Mover(S)}
           original(n) == CHOOSE v \in Mover(S) : f[v] = n
<1> USE DEF TipoOK
<1>1. \A v \in Mover(S) : /\ v \in S /\ v \in Obj /\ v \in enPila /\ MuevePila /\ tipo[v] # "REUBICADO"
                          /\ grupo[v] = "BLANCO_EN_LA_PILA" /\ v # h
  BY DEF Mover, Vivos, Inv, InvPila, EnColeccion
<1>2. \A v \in Mover(S) : f[v] \in Obj /\ Libre(f[v])
  BY DEF Copias
<1>3. \A n \in copias : /\ n \in Obj /\ grupo[n] = "NINGUNO" /\ n \notin raices /\ n \notin enPila
                        /\ n \notin Mover(S) /\ n # h
  BY <1>1, <1>2 DEF Libre, Inv, InvPila
<1>4. \A n \in copias : original(n) \in Mover(S) /\ f[original(n)] = n
  OBVIOUS
<1>5. ASSUME NEW v \in S
      PROVE  \/ /\ v \in Mover(S) /\ Destino(f, v) = f[v]
             \/ /\ tipo[v] = "REUBICADO" /\ Destino(f, v) = nueva[v]
                /\ nueva[v] \in Obj /\ nueva[v] \notin enPila
                /\ grupo[nueva[v]] \in {"GRIS", "NEGRO"} /\ tipo[nueva[v]] # "REUBICADO"
             \/ /\ v \notin Mover(S) /\ tipo[v] # "REUBICADO" /\ Destino(f, v) = v
                /\ v \in Obj /\ v \in Vivos /\ (MuevePila => v \notin enPila)
  BY DEF Destino, Mover, Vivos, Inv, InvReubicado
<1>6. \A v \in S : Destino(f, v) \in Obj /\ Destino(f, v) \notin Mover(S)
                   /\ (MuevePila => Destino(f, v) \notin enPila)
                   /\ (Destino(f, v) \notin copias => Destino(f, v) \in Vivos)
                   /\ (~MuevePila \/ grupo[v] # "BLANCO_EN_LA_PILA" => Destino(f, v) = v)
  BY <1>1, <1>3, <1>5 DEF Vivos, Inv, InvReubicado, InvPila, EnColeccion
<1>7. \A o \in Obj :
        /\ o \in copias => /\ grupo'[o] = "GRIS" /\ tipo'[o] = tipo[original(o)]
                           /\ campos'[o] = campos[original(o)] /\ nueva'[o] = nueva[o]
        /\ o \in Mover(S) => /\ grupo'[o] = grupo[o] /\ tipo'[o] = "REUBICADO"
                             /\ campos'[o] = {} /\ nueva'[o] = f[o]
        /\ o = h => /\ grupo'[o] = "NEGRO" /\ tipo'[o] = tipo[o] /\ nueva'[o] = nueva[o]
                    /\ campos'[o] = destinos
        /\ o \notin Mover(S) /\ o \notin copias /\ o # h =>
              /\ tipo'[o] = tipo[o] /\ campos'[o] = campos[o] /\ nueva'[o] = nueva[o]
              /\ grupo'[o] = IF o \in destinos THEN Gris(o) ELSE grupo[o]
  <2> SUFFICES ASSUME NEW o \in Obj
               PROVE  /\ o \in copias => /\ grupo'[o] = "GRIS" /\ tipo'[o] = tipo[original(o)]
                                 /\ campos'[o] = campos[original(o)] /\ nueva'[o] = nueva[o]
                      /\ o \in Mover(S) => /\ grupo'[o] = grupo[o] /\ tipo'[o] = "REUBICADO"
                                           /\ campos'[o] = {} /\ nueva'[o] = f[o]
                      /\ o = h => /\ grupo'[o] = "NEGRO" /\ tipo'[o] = tipo[o]
                                  /\ nueva'[o] = nueva[o] /\ campos'[o] = destinos
                      /\ o \notin Mover(S) /\ o \notin copias /\ o # h =>
                            /\ tipo'[o] = tipo[o] /\ campos'[o] = campos[o] /\ nueva'[o] = nueva[o]
                            /\ grupo'[o] = IF o \in destinos THEN Gris(o) ELSE grupo[o]
    OBVIOUS
  <2>1. /\ grupo'[o] = IF o \in copias THEN "GRIS"
                       ELSE IF o = h THEN "NEGRO"
                       ELSE IF o \in destinos THEN Gris(o) ELSE grupo[o]
        /\ tipo'[o] = IF o \in copias THEN tipo[original(o)]
                      ELSE IF o \in Mover(S) THEN "REUBICADO" ELSE tipo[o]
        /\ nueva'[o] = IF o \in Mover(S) THEN f[o] ELSE nueva[o]
        /\ campos'[o] = IF o \in copias THEN campos[original(o)]
                        ELSE IF o \in Mover(S) THEN {}
                        ELSE IF o = h THEN destinos ELSE campos[o]
    BY DEF Marcar
  <2> HIDE DEF copias, destinos, original
  <2>2. o \in Mover(S) => o \notin copias /\ o # h /\ o \notin destinos
    BY <1>1, <1>3, <1>6 DEF destinos
  <2>3. o = h => o \notin copias
    BY <1>3
  <2> QED
    BY <2>1, <2>2, <2>3
<1>8. ASSUME NEW v \in S
      PROVE  /\ grupo'[Destino(f, v)] \in {"GRIS", "NEGRO", "RECURSOS"}
                  \/ (~Mayor /\ grupo'[Destino(f, v)] = "BLANCO_VIEJO")
             /\ tipo'[Destino(f, v)] # "REUBICADO"
  <2> DEFINE d == Destino(f, v)
  <2>1. CASE d \in copias
    <3>1. d \in Obj /\ original(d) \in Mover(S)
      BY <1>3, <1>4, <2>1
    <3>2. grupo'[d] = "GRIS" /\ tipo'[d] = tipo[original(d)]
      BY <1>7, <2>1, <3>1
    <3>3. tipo[original(d)] # "REUBICADO"
      BY <1>1, <3>1
    <3> QED
      BY <3>2, <3>3
  <2>2. CASE d \notin copias /\ d = h
    <3>1. d \in Obj /\ tipo[d] # "REUBICADO"
      BY <1>5, <1>6, <2>2
    <3> QED
      BY <1>7, <2>2, <3>1
  <2>3. CASE d \notin copias /\ d # h
    <3>1. d \in Obj /\ d \in Vivos /\ d \notin Mover(S) /\ d \in destinos
      BY <1>6, <2>3
    <3>2. tipo[d] # "REUBICADO"
      BY <1>5, <2>3
    <3>3. grupo'[d] = Gris(d) /\ tipo'[d] = tipo[d]
      BY <1>7, <2>3, <3>1
    <3>4. grupo[d] \in Grupos /\ grupo[d] # "NINGUNO"
      BY <3>1 DEF Vivos
    <3> QED
      BY <3>2, <3>3, <3>4 DEF Gris, Grupos
  <2> QED
    BY <2>1, <2>2, <2>3
<1> HIDE DEF copias, destinos, original
<1>9. \A o \in Obj : o \notin Mover(S) /\ o \notin copias /\ o # h =>
        \/ grupo'[o] = grupo[o]
        \/ grupo'[o] = Gris(o) /\ o \in Vivos /\ (MuevePila => o \notin enPila)
  BY <1>6, <1>7 DEF destinos
<1>10. \A n \in copias : \E v \in Mover(S) :
              /\ f[v] = n /\ n \in Obj /\ n \notin enPila
              /\ grupo'[n] = "GRIS" /\ tipo'[n] = tipo[v] /\ campos'[n] = campos[v]
              /\ nueva'[n] = nueva[n]
  BY <1>3, <1>4, <1>7
<1>11. \A v \in Mover(S) :
              /\ f[v] \in Obj /\ grupo[f[v]] = "NINGUNO" /\ f[v] \notin raices
              /\ grupo'[v] = "BLANCO_EN_LA_PILA" /\ tipo'[v] = "REUBICADO"
              /\ campos'[v] = {} /\ nueva'[v] = f[v]
  BY <1>1, <1>2, <1>7 DEF Libre
<1>12. h \in Obj => /\ h \notin Mover(S) /\ h \notin copias
                    /\ grupo'[h] = "NEGRO" /\ tipo'[h] = tipo[h] /\ nueva'[h] = nueva[h]
                    /\ campos'[h] = {Destino(f, v) : v \in S}
  BY <1>1, <1>3, <1>7 DEF destinos
<1> QED
  BY <1>6, <1>7, <1>8, <1>9, <1>10, <1>11, <1>12 DEF copias

\* What MarcarRaices and ProcesarGris have in common.
LEMMA InvTrasMarcar ==
  ASSUME Inv, TipoOK', fase \in {"raices", "grises"},
         NEW S \in SUBSET Vivos, NEW f \in Copias(S), NEW h \in Obj \union {NULO},
         h \in Obj => grupo[h] = "GRIS" /\ S = campos[h],
         h \notin Obj => raices \subseteq S,
         Marcar(S, f, h),
         fase' = "grises", UNCHANGED <<enPila, abiertos, recoleccion, usa>>
  PROVE  /\ SinColgantes' /\ InvRecoleccion' /\ InvTipos' /\ InvPila' /\ InvReubicado' /\ InvMonton'
         /\ \A d \in {Destino(f, v) : v \in S} : ASalvo(d)'
         /\ \A o \in Obj : fase = "grises" /\ ASalvo(o) => ASalvo(o)'
<1> DEFINE copias == {f[v] : v \in Mover(S)}
<1> USE DEF TipoOK
<1>1. \A v \in Mover(S) :
        /\ f[v] \in Obj /\ grupo[f[v]] = "NINGUNO" /\ f[v] \notin raices
        /\ grupo'[v] = "BLANCO_EN_LA_PILA" /\ tipo'[v] = "REUBICADO"
        /\ campos'[v] = {} /\ nueva'[v] = f[v]
        /\ v \in Vivos /\ v \in enPila /\ MuevePila /\ tipo[v] # "REUBICADO"
        /\ f[v] \in copias
  BY InvMarcar DEF Mover, Inv
<1>2. \A n \in copias : /\ grupo[n] = "NINGUNO" /\ MuevePila
                        /\ \E v \in Mover(S) :
                              /\ f[v] = n /\ n \in Obj /\ n \notin enPila
                              /\ grupo'[n] = "GRIS" /\ tipo'[n] = tipo[v] /\ campos'[n] = campos[v]
                              /\ nueva'[n] = nueva[n]
  BY <1>1, InvMarcar DEF Inv
<1>3. h \in Obj => /\ h \notin Mover(S) /\ h \notin copias
                   /\ grupo'[h] = "NEGRO" /\ tipo'[h] = tipo[h] /\ nueva'[h] = nueva[h]
                   /\ campos'[h] = {Destino(f, v) : v \in S}
  BY InvMarcar DEF Inv
<1>4. \A o \in Obj : o \notin Mover(S) /\ o \notin copias /\ o # h =>
        /\ tipo'[o] = tipo[o] /\ campos'[o] = campos[o] /\ nueva'[o] = nueva[o]
        /\ \/ grupo'[o] = grupo[o]
           \/ grupo'[o] = Gris(o) /\ o \in Vivos /\ (MuevePila => o \notin enPila)
  BY InvMarcar DEF Inv
<1>5. \A v \in S :
        /\ Destino(f, v) \in Obj
        /\ ~MuevePila \/ grupo[v] # "BLANCO_EN_LA_PILA" => Destino(f, v) = v
        /\ grupo'[Destino(f, v)] \in {"GRIS", "NEGRO", "RECURSOS"}
             \/ (~Mayor /\ grupo'[Destino(f, v)] = "BLANCO_VIEJO")
        /\ tipo'[Destino(f, v)] # "REUBICADO"
        /\ MuevePila => Destino(f, v) \notin enPila
  BY InvMarcar DEF Inv
<1> HIDE DEF copias
<1>6. \A d \in {Destino(f, v) : v \in S} : ASalvo(d)'
  BY <1>5 DEF ASalvo, Mayor
<1>7. Vivos \subseteq Vivos'
  BY <1>1, <1>2, <1>3, <1>4 DEF Vivos, Gris
<1>8. SinColgantes'
  <2>1. raices' \subseteq Vivos'
    <3>1. CASE h \in Obj
      <4>1. raices' = raices
        BY <3>1, NuloNoEsObjeto DEF Marcar
      <4> QED
        BY <1>7, <4>1 DEF Inv, SinColgantes
    <3>2. CASE h \notin Obj
      <4>1. raices' = {Destino(f, r) : r \in raices}
        BY <3>2 DEF Marcar
      <4>2. \A r \in raices : Destino(f, r) \in Vivos'
        BY <1>5, <3>2 DEF Vivos
      <4> QED
        BY <4>1, <4>2
    <3> QED
      BY <3>1, <3>2
  <2>2. ASSUME NEW o \in Vivos'
        PROVE  campos'[o] \subseteq Vivos'
    <3>1. o \in Obj
      BY DEF Vivos
    <3>2. CASE o \in Mover(S)
      BY <1>1, <3>2
    <3>3. CASE o \in copias
      BY <1>1, <1>2, <1>7, <3>3 DEF Inv, SinColgantes
    <3>4. CASE o = h
      BY <1>3, <1>5, <3>1, <3>4 DEF Vivos
    <3>5. CASE o \notin Mover(S) /\ o \notin copias /\ o # h
      BY <1>4, <1>7, <3>1, <3>5 DEF Vivos, Inv, SinColgantes
    <3> QED
      BY <3>2, <3>3, <3>4, <3>5
  <2> QED
    BY <2>1, <2>2 DEF SinColgantes
<1>9. InvRecoleccion'
  BY DEF Inv, InvRecoleccion, EnColeccion, MuevePila, Mayor
<1>10. InvTipos'
  <2>1. \A o \in Obj : tipo'[o] # "CORO"
    BY <1>1, <1>2, <1>3, <1>4 DEF Inv, InvTipos, Vivos
  <2>2. \A o \in Obj : grupo'[o] = "RECURSOS" <=> grupo[o] = "RECURSOS"
    BY <1>1, <1>2, <1>3, <1>4 DEF Gris, Inv, InvPila, EnColeccion
  <2>3. \A o \in abiertos : campos'[o] = campos[o] /\ tipo'[o] = tipo[o]
    BY <1>1, <1>2, <1>3, <1>4 DEF Inv, InvTipos, InvPila, EnColeccion
  <2> QED
    BY <2>1, <2>2, <2>3 DEF Inv, InvTipos
<1>11. InvPila'
  BY <1>1, <1>2, <1>3, <1>4 DEF Gris, Inv, InvPila, EnColeccion, MuevePila
<1>12. InvReubicado'
  <2> SUFFICES ASSUME NEW o \in Obj, tipo'[o] = "REUBICADO"
               PROVE  /\ MuevePila /\ o \in enPila
                      /\ nueva'[o] \in Obj \ enPila
                      /\ grupo'[nueva'[o]] \in {"GRIS", "NEGRO"} /\ tipo'[nueva'[o]] # "REUBICADO"
    BY DEF InvReubicado, MuevePila
  <2>1. CASE o \in Mover(S)
    BY <1>1, <1>2, <2>1
  <2>2. CASE o \notin Mover(S)
    <3>1. o \notin copias /\ tipo[o] = "REUBICADO"
      BY <1>1, <1>2, <1>3, <1>4, <2>2
    <3>2. /\ fase = "grises" /\ MuevePila /\ o \in enPila
          /\ nueva[o] \in Obj \ enPila
          /\ grupo[nueva[o]] \in {"GRIS", "NEGRO"} /\ tipo[nueva[o]] # "REUBICADO"
      BY <3>1 DEF Inv, InvReubicado
    <3>3. o # h
      BY <3>2 DEF Inv, InvPila, EnColeccion
    <3>4. nueva'[o] = nueva[o]
      BY <1>4, <2>2, <3>1, <3>3
    <3>5. nueva[o] \notin Mover(S) /\ nueva[o] \notin copias
      BY <1>1, <1>2, <3>2
    <3> QED
      BY <1>3, <1>4, <3>2, <3>4, <3>5 DEF Gris
  <2> QED
    BY <2>1, <2>2
<1>13. InvMonton'
  <2> SUFFICES ASSUME "crear_marco" \notin usa, NEW o \in Vivos' \ enPila
               PROVE  (MuevePila /\ grupo'[o] = "GRIS") \/ campos'[o] \intersect enPila = {}
    BY DEF InvMonton, MuevePila
  <2>1. o \in Obj /\ o \notin Mover(S)
    BY <1>1 DEF Vivos
  <2>2. CASE o \in copias
    BY <1>2, <2>2
  <2>3. CASE o = h
    <3>1. CASE MuevePila
      <4>1. \A x \in campos'[h] : x \notin enPila
        BY <1>3, <1>5, <2>1, <2>3, <3>1
      <4> QED
        BY <2>3, <4>1
    <3>2. CASE ~MuevePila
      <4>1. \A v \in S : Destino(f, v) = v
        BY <1>5, <3>2
      <4>2. {Destino(f, v) : v \in S} = S
        BY <4>1
      <4>3. campos'[h] = campos[h]
        BY <1>3, <2>1, <2>3, <4>2
      <4> QED
        BY <2>1, <2>3, <3>2, <4>3 DEF Vivos, Inv, InvMonton
    <3> QED
      BY <3>1, <3>2
  <2>4. CASE o \notin copias /\ o # h
    <3>1. o \in Vivos /\ campos'[o] = campos[o] /\ (grupo[o] = "GRIS" => grupo'[o] = "GRIS")
      BY <1>4, <2>1, <2>4 DEF Vivos, Gris
    <3> QED
      BY <3>1 DEF Inv, InvMonton
  <2> QED
    BY <2>2, <2>3, <2>4
<1>14. ASSUME NEW o \in Obj, fase = "grises", ASalvo(o)
       PROVE  ASalvo(o)'
  <2>1. o \notin copias
    BY <1>2, <1>14 DEF ASalvo
  <2>2. o \notin Mover(S)
    BY <1>1, <1>14 DEF ASalvo, Inv, InvPila, EnColeccion
  <2> QED
    BY <1>3, <1>4, <1>14, <2>1, <2>2 DEF ASalvo, Mayor, Gris
<1> QED
  BY <1>6, <1>8, <1>9, <1>10, <1>11, <1>12, <1>13, <1>14

\* Marking the roots: an object of the old generation that a minor collection
\* skips pointed to the old generation, to the remembered set or to resources.
LEMMA InvMarcarRaices ==
  ASSUME Inv, TipoOK', MarcarRaices
  PROVE  Inv'
<1> USE DEF TipoOK
<1>1. fase = "raices" /\ fase' = "grises" /\ UNCHANGED <<enPila, abiertos, recoleccion, usa>>
  BY DEF MarcarRaices
<1>2. PorMarcar \in SUBSET Vivos /\ raices \subseteq PorMarcar /\ NULO \notin Obj
  BY NuloNoEsObjeto DEF MarcarRaices, Asercion, PorMarcar
<1>3. PICK f \in Copias(PorMarcar) : Marcar(PorMarcar, f, NULO)
  BY DEF MarcarRaices
<1>4. /\ SinColgantes' /\ InvRecoleccion' /\ InvTipos' /\ InvPila' /\ InvReubicado' /\ InvMonton'
      /\ \A d \in {Destino(f, v) : v \in PorMarcar} : ASalvo(d)'
  BY <1>1, <1>2, <1>3, InvTrasMarcar
<1> DEFINE copias == {f[v] : v \in Mover(PorMarcar)}
<1>5. \A v \in Mover(PorMarcar) : grupo[v] = "BLANCO_EN_LA_PILA" /\ grupo'[v] = "BLANCO_EN_LA_PILA"
  BY <1>1, <1>2, <1>3, InvMarcar DEF Inv, Mover, InvPila, EnColeccion, Vivos
<1>6. \A n \in copias : grupo[n] = "NINGUNO" /\ grupo'[n] = "GRIS"
  BY <1>1, <1>2, <1>3, InvMarcar DEF Inv
<1>7. \A o \in Obj : o \notin Mover(PorMarcar) /\ o \notin copias =>
        /\ tipo'[o] = tipo[o] /\ campos'[o] = campos[o]
        /\ grupo'[o] = grupo[o] \/ grupo'[o] = Gris(o)
  BY <1>1, <1>2, <1>3, InvMarcar DEF Inv
<1>8. \A v \in PorMarcar : grupo[v] # "BLANCO_EN_LA_PILA" => Destino(f, v) = v
  BY <1>1, <1>2, <1>3, InvMarcar DEF Inv
<1> HIDE DEF copias
<1>9. \A o \in Obj : grupo[o] \notin {"GRIS", "NEGRO"}
  BY <1>1 DEF Inv, InvRecordado
<1>10. \A r \in raices' : ASalvo(r)'
  <2>1. raices' = {Destino(f, r) : r \in raices}
    BY <1>3 DEF Marcar
  <2> QED
    BY <1>2, <1>4, <2>1
<1>11. \A o \in Obj : grupo'[o] # "NEGRO"
  BY <1>5, <1>6, <1>7, <1>9 DEF Gris
<1>12. ASSUME ~Mayor, NEW o \in Obj, grupo[o] = "RAICES_VIEJAS"
       PROVE  ASalvo(o)'
  <2>1. o \in PorMarcar
    BY <1>12 DEF PorMarcar, EnGrupo
  <2>2. o \in {Destino(f, v) : v \in PorMarcar}
    BY <1>8, <1>12, <2>1
  <2> QED
    BY <1>4, <2>2
<1>13. ASSUME ~Mayor, NEW o \in Obj
       PROVE  /\ grupo'[o] # "RAICES_VIEJAS"
              /\ grupo'[o] = "BLANCO_VIEJO" => \A v \in campos'[o] : ASalvo(v)'
  <2>1. grupo'[o] # "RAICES_VIEJAS"
    <3>1. CASE grupo[o] = "RAICES_VIEJAS"
      BY <1>12, <1>13, <3>1 DEF ASalvo
    <3>2. CASE grupo[o] # "RAICES_VIEJAS"
      BY <1>5, <1>6, <1>7, <3>2 DEF Gris
    <3> QED
      BY <3>1, <3>2
  <2>2. ASSUME grupo'[o] = "BLANCO_VIEJO", NEW v \in campos'[o]
        PROVE  ASalvo(v)'
    <3>1. grupo[o] = "BLANCO_VIEJO" /\ campos'[o] = campos[o]
      BY <1>5, <1>6, <1>7, <2>2 DEF Gris
    <3>2. /\ v \in Vivos
          /\ grupo[v] \notin {"BLANCO_JOVEN", "BLANCO_EN_LA_PILA"}
      BY <1>1, <2>2, <3>1 DEF Inv, SinColgantes, Vivos, InvRecordado, EnGrupo
    <3>3. v \in Obj /\ grupo[v] \in {"BLANCO_VIEJO", "RAICES_VIEJAS", "RECURSOS"}
      BY <1>9, <3>2 DEF Vivos, Inv, Grupos
    <3>4. CASE grupo[v] = "RAICES_VIEJAS"
      BY <1>12, <1>13, <3>3, <3>4
    <3>5. CASE grupo[v] \in {"BLANCO_VIEJO", "RECURSOS"}
      <4>1. grupo'[v] = grupo[v] /\ tipo'[v] = tipo[v] /\ tipo[v] # "REUBICADO"
        BY <1>1, <1>5, <1>6, <1>7, <1>13, <3>3, <3>5 DEF Gris, Inv, InvReubicado
      <4> QED
        BY <1>1, <1>13, <3>5, <4>1 DEF ASalvo, Mayor
    <3> QED
      BY <3>3, <3>4, <3>5
  <2> QED
    BY <2>1, <2>2
<1>14. InvMarcado'
  BY <1>1, <1>10, <1>11, <1>13 DEF InvMarcado, EnGrupo, Mayor
<1>15. InvRecordado' /\ InvBarrido'
  BY <1>1 DEF InvRecordado, InvBarrido
<1> QED
  BY <1>4, <1>14, <1>15 DEF Inv

\* Visiting a grey object: what it points to is kept, and what was safe stays
\* safe.
LEMMA InvProcesarGris ==
  ASSUME Inv, TipoOK', NEW h \in Obj, ProcesarGris(h)
  PROVE  Inv'
<1> USE DEF TipoOK
<1>1. /\ fase = "grises" /\ fase' = "grises" /\ grupo[h] = "GRIS" /\ campos[h] \in SUBSET Vivos
      /\ UNCHANGED <<enPila, abiertos, recoleccion, usa>>
  BY DEF ProcesarGris, Asercion
<1>2. PICK f \in Copias(campos[h]) : Marcar(campos[h], f, h)
  BY DEF ProcesarGris
<1>3. /\ SinColgantes' /\ InvRecoleccion' /\ InvTipos' /\ InvPila' /\ InvReubicado' /\ InvMonton'
      /\ \A d \in {Destino(f, v) : v \in campos[h]} : ASalvo(d)'
      /\ \A o \in Obj : ASalvo(o) => ASalvo(o)'
  BY <1>1, <1>2, InvTrasMarcar
<1> DEFINE copias == {f[v] : v \in Mover(campos[h])}
<1>4. \A v \in Mover(campos[h]) : grupo'[v] = "BLANCO_EN_LA_PILA"
  BY <1>1, <1>2, InvMarcar DEF Inv
<1>5. \A n \in copias : grupo'[n] = "GRIS"
  BY <1>1, <1>2, InvMarcar DEF Inv
<1>6. \A o \in Obj : o \notin Mover(campos[h]) /\ o \notin copias /\ o # h =>
        /\ campos'[o] = campos[o]
        /\ grupo'[o] = grupo[o] \/ grupo'[o] = Gris(o)
  BY <1>1, <1>2, InvMarcar DEF Inv
<1>7. grupo'[h] = "NEGRO" /\ campos'[h] = {Destino(f, v) : v \in campos[h]}
  BY <1>1, <1>2, InvMarcar DEF Inv
<1>8. raices' = raices
  BY <1>2, NuloNoEsObjeto DEF Marcar
<1> HIDE DEF copias
<1>9. \A r \in raices' : ASalvo(r)'
  BY <1>1, <1>3, <1>8 DEF Inv, InvMarcado
<1>10. ASSUME NEW o \in Obj, grupo'[o] = "NEGRO", NEW v \in campos'[o]
       PROVE  ASalvo(v)'
  <2>1. CASE o = h
    BY <1>3, <1>7, <1>10, <2>1
  <2>2. CASE o # h
    <3>1. grupo[o] = "NEGRO" /\ campos'[o] = campos[o]
      BY <1>4, <1>5, <1>6, <1>10, <2>2 DEF Gris
    <3>2. v \in Obj /\ ASalvo(v)
      BY <1>1, <1>10, <3>1 DEF Inv, InvMarcado, EnGrupo
    <3> QED
      BY <1>3, <3>2
  <2> QED
    BY <2>1, <2>2
<1>11. ASSUME ~Mayor, NEW o \in Obj
       PROVE  /\ grupo'[o] # "RAICES_VIEJAS"
              /\ grupo'[o] = "BLANCO_VIEJO" => \A v \in campos'[o] : ASalvo(v)'
  <2>1. grupo[o] # "RAICES_VIEJAS" /\ (grupo[o] = "BLANCO_VIEJO" => \A v \in campos[o] : ASalvo(v))
    BY <1>1, <1>11 DEF Inv, InvMarcado
  <2>2. /\ grupo'[o] # "RAICES_VIEJAS"
        /\ grupo'[o] = "BLANCO_VIEJO" => grupo[o] = "BLANCO_VIEJO" /\ campos'[o] = campos[o]
    BY <1>4, <1>5, <1>6, <1>7, <2>1 DEF Gris
  <2>3. campos[o] \subseteq Obj
    BY DEF Inv
  <2> QED
    BY <1>3, <2>1, <2>2, <2>3
<1>12. InvMarcado'
  BY <1>1, <1>9, <1>10, <1>11 DEF InvMarcado, EnGrupo, Mayor
<1>13. InvRecordado' /\ InvBarrido'
  BY <1>1 DEF InvRecordado, InvBarrido
<1> QED
  BY <1>3, <1>12, <1>13 DEF Inv

\* The sweep frees nothing that is safe, and every forwarding header.
LEMMA InvRecolectar ==
  ASSUME Inv, TipoOK', Recolectar
  PROVE  Inv'
<1> USE DEF TipoOK
<1>1. /\ fase = "grises" /\ fase' = "reinicio" /\ enPila' = enPila \ Basura
      /\ UNCHANGED <<abiertos, raices, recoleccion, cnt, usa>>
      /\ \A o \in Obj : grupo[o] # "GRIS"
  BY DEF Recolectar, EnGrupo
<1>2. \A o \in Obj :
        /\ o \in Basura => /\ grupo'[o] = "NINGUNO" /\ tipo'[o] = "DATO"
                           /\ campos'[o] = {} /\ nueva'[o] = NULO
        /\ o \notin Basura => /\ grupo'[o] = grupo[o] /\ tipo'[o] = tipo[o]
                              /\ campos'[o] = campos[o] /\ nueva'[o] = nueva[o]
  BY DEF Recolectar
<1>3. \A v \in Obj : ASalvo(v) => v \in Vivos /\ v \notin Basura
  BY DEF ASalvo, Basura, Vivos, Inv, InvTipos
<1>4. \A o \in Vivos : o \notin Basura =>
        \/ grupo[o] \in {"NEGRO", "RECURSOS"}
        \/ ~Mayor /\ grupo[o] = "BLANCO_VIEJO"
  BY <1>1 DEF Vivos, Basura, Inv, InvMarcado, Grupos
<1>5. ASSUME NEW o \in Vivos, o \notin Basura
      PROVE  \A v \in campos[o] : v \in Obj /\ ASalvo(v)
  BY <1>1, <1>4, <1>5 DEF Vivos, Inv, InvMarcado, InvTipos, EnGrupo
<1>6. \A r \in raices : r \in Obj /\ ASalvo(r)
  BY <1>1 DEF Inv, InvMarcado
<1>7. \A o \in enPila : o \in Obj /\ (MuevePila => o \in Basura)
  BY <1>1 DEF Inv, InvPila, EnColeccion, Basura
<1>8. \A o \in Vivos' : o \in Obj /\ o \in Vivos /\ o \notin Basura
  BY <1>2 DEF Vivos
<1>9. \A v \in Obj : ASalvo(v) => v \in Vivos' /\ ASalvo(v)'
  BY <1>1, <1>2, <1>3 DEF Vivos, ASalvo, Mayor
<1>10. SinColgantes'
  BY <1>1, <1>2, <1>5, <1>6, <1>8, <1>9 DEF SinColgantes
<1>11. InvRecoleccion'
  BY <1>1 DEF Inv, InvRecoleccion, EnColeccion, MuevePila, Mayor
<1>12. InvTipos'
  BY <1>1, <1>2 DEF Inv, InvTipos, Basura
<1>13. InvPila'
  BY <1>1, <1>2, <1>7 DEF Inv, InvPila, EnColeccion, MuevePila
<1>14. InvReubicado'
  BY <1>2, <1>7 DEF Inv, InvReubicado
<1>15. InvMonton'
  <2> SUFFICES ASSUME "crear_marco" \notin usa, NEW o \in Vivos' \ enPila'
               PROVE  campos'[o] \intersect enPila' = {}
    BY <1>1 DEF InvMonton
  <2>1. CASE MuevePila
    BY <1>1, <1>7, <2>1
  <2>2. CASE ~MuevePila
    <3>1. o \in Vivos \ enPila /\ campos'[o] = campos[o]
      BY <1>1, <1>2, <1>8
    <3>2. campos[o] \intersect enPila = {}
      BY <2>2, <3>1 DEF Inv, InvMonton
    <3> QED
      BY <1>1, <3>1, <3>2
  <2> QED
    BY <2>1, <2>2
<1>16. InvRecordado'
  BY <1>1 DEF InvRecordado
<1>17. InvMarcado'
  <2>1. \A r \in raices' : ASalvo(r)'
    BY <1>1, <1>6, <1>9
  <2>2. \A o \in Vivos' : \A v \in campos'[o] : ASalvo(v)'
    BY <1>2, <1>5, <1>8, <1>9
  <2>3. ~Mayor => \A o \in Obj : grupo'[o] # "RAICES_VIEJAS"
    BY <1>1, <1>2 DEF Inv, InvMarcado
  <2> QED
    BY <1>1, <2>1, <2>2, <2>3 DEF InvMarcado, EnGrupo, Vivos, Mayor
<1>18. InvBarrido'
  BY <1>1, <1>2, <1>4, <1>8 DEF InvBarrido, Mayor
<1> QED
  BY <1>10, <1>11, <1>12, <1>13, <1>14, <1>15, <1>16, <1>17, <1>18 DEF Inv

\* The reset: the survivors are old, so the remembered set is complete without
\* an entry, unless an old object points to a frame left in the C stack.
LEMMA InvMoverNegros ==
  ASSUME Inv, TipoOK', MoverNegrosABlancos
  PROVE  Inv'
<1> USE DEF TipoOK
<1>1. /\ fase = "reinicio" /\ fase' \in {"programa", "trampolin"}
      /\ UNCHANGED <<tipo, enPila, campos, nueva, abiertos, raices, usa>>
  BY DEF MoverNegrosABlancos
<1>2. \A o \in Obj :
        grupo'[o] = IF grupo[o] = "NEGRO"
                    THEN IF o \in enPila THEN "BLANCO_EN_LA_PILA" ELSE "BLANCO_VIEJO"
                    ELSE grupo[o]
  BY DEF MoverNegrosABlancos
<1>3. \A o \in Vivos : grupo[o] \in {"NEGRO", "RECURSOS", "BLANCO_VIEJO"}
  BY <1>1 DEF Inv, InvBarrido
<1>4. enPila \subseteq Vivos /\ (MuevePila => enPila = {})
  BY <1>1, <1>3 DEF Inv, InvPila, EnColeccion, Vivos
<1>5. ~MuevePila => \A o \in Vivos \ enPila : campos[o] \intersect enPila = {}
  BY <1>1 DEF Inv, InvRecoleccion, EnColeccion, Seguro, InvMonton
<1>6. \A o \in Obj : o \in Vivos' <=> o \in Vivos
  BY <1>2 DEF Vivos
<1>7. SinColgantes'
  BY <1>1, <1>6 DEF Inv, SinColgantes, Vivos
<1>8. InvRecoleccion' /\ InvTipos'
  BY <1>1, <1>2 DEF Inv, InvRecoleccion, InvTipos, EnColeccion
<1>9. InvPila'
  BY <1>1, <1>2 DEF Inv, InvPila, EnColeccion, Vivos
<1>10. InvReubicado'
  BY <1>1 DEF Inv, InvReubicado
<1>11. InvMonton'
  BY <1>1, <1>6 DEF Inv, InvMonton, Vivos
<1>12. InvRecordado'
  <2>1. \A o \in Obj : grupo'[o] \notin {"GRIS", "NEGRO"}
    BY <1>2, <1>3 DEF Vivos
  <2>2. ASSUME NEW o \in Obj, grupo'[o] = "BLANCO_VIEJO", NEW v \in campos[o]
        PROVE  grupo'[v] \notin {"BLANCO_JOVEN", "BLANCO_EN_LA_PILA"}
    <3>1. o \in Vivos \ enPila
      BY <1>2, <2>2 DEF Vivos, Inv, InvPila
    <3>2. v \in Vivos /\ v \notin enPila
      BY <1>4, <1>5, <2>2, <3>1 DEF Inv, SinColgantes
    <3> QED
      BY <1>2, <1>3, <3>2 DEF Vivos
  <2> QED
    BY <1>1, <2>1, <2>2 DEF InvRecordado, EnGrupo
<1>13. InvMarcado' /\ InvBarrido'
  BY <1>1 DEF InvMarcado, InvBarrido
<1> QED
  BY <1>7, <1>8, <1>9, <1>10, <1>11, <1>12, <1>13 DEF Inv

-------------------------------------------------------------------------------
(* The theorems about the safe programs.                                   *)

\* Every step keeps the invariant.
LEMMA InvInductivo == Inv /\ TipoOK' /\ [Next]_vars => Inv'
<1> SUFFICES ASSUME Inv, TipoOK', [Next]_vars PROVE Inv'
  OBVIOUS
<1>1. "corrutinas" \notin usa /\ "cerrar" \notin usa /\ \A o \in Obj : tipo[o] # "CORO"
  BY DEF Inv, InvRecoleccion, Seguro, InvTipos
<1>2. CASE \E n \in Obj : InicializarMarco(n) \/ CrearMarco(n) \/ AlojarObj(n) \/ AlojarRsc(n)
  BY <1>2, InvCrear
<1>3. CASE \E c, v \in Obj : Escribir(c, v)
  BY <1>3, InvEscribir
<1>4. CASE \E c, v \in Obj : Borrar(c, v) \/ Leer(c, v) \/ Soltar(c)
  BY <1>4, InvOtros
<1>5. CASE \/ \E n, c \in Obj : CrearCorrutina(n, c) \/ CambiarPunto(n, c)
           \/ \E r \in Obj : Cerrar(r) \/ TerminarCorrutina(r)
  BY <1>1, <1>5 DEF CrearCorrutina, CambiarPunto, Cerrar, TerminarCorrutina
<1>6. CASE MarcarRaices
  BY <1>6, InvMarcarRaices
<1>7. CASE \E h \in Obj : ProcesarGris(h)
  BY <1>7, InvProcesarGris
<1>8. CASE Recolectar
  BY <1>8, InvRecolectar
<1>9. CASE MoverNegrosABlancos
  BY <1>9, InvMoverNegros
<1>10. CASE UNCHANGED vars
  BY <1>10 DEF vars, Inv, TipoOK, SinColgantes, Vivos, InvRecoleccion, InvTipos, EnColeccion, InvPila,
              MuevePila, InvReubicado, InvMonton, InvRecordado, EnGrupo, InvMarcado, ASalvo, Mayor,
              InvBarrido
<1>11. CASE RecolectarPorPila \/ RecolectarPorMemoria \/ Trampolin
  <2>1. CASE Obj = {}
    BY <1>11, <2>1
       DEF RecolectarPorPila, RecolectarPorMemoria, Trampolin, Iniciar, objetos, EnPrograma, Inv,
           TipoOK, SinColgantes, Vivos, InvRecoleccion, InvTipos, EnColeccion, InvPila, MuevePila, Mayor,
           InvReubicado, InvMonton, InvRecordado, EnGrupo, InvMarcado, InvBarrido
  <2>2. CASE Obj # {}
    BY <1>11, <2>2, InvOtros
  <2> QED
    BY <2>1, <2>2
<1> QED
  BY <1>2, <1>3, <1>4, <1>5, <1>6, <1>7, <1>8, <1>9, <1>10, <1>11 DEF Next, Programa, Recolector

\* The invariant holds always.
LEMMA InvSiempre ==
  ASSUME \A p \in Programas : Seguro(p)
  PROVE  Spec => []Inv
<1>1. Init => Inv
  BY InvInicial
<1> QED
  BY <1>1, TipoSiempre, InvInductivo, PTL DEF Spec

\* No collection frees or moves an object away from a pointer to it, in the
\* safe programs, whatever the heap and the frequency of major collections.
THEOREM SinColgantesSiempre ==
  ASSUME \A p \in Programas : Seguro(p)
  PROVE  Spec => []SinColgantes
<1>1. Inv => SinColgantes
  BY DEF Inv
<1> QED
  BY <1>1, InvSiempre, PTL

\* A black object points to objects the sweep keeps, and to no forwarding
\* header.
THEOREM TricolorSiempre ==
  ASSUME \A p \in Programas : Seguro(p)
  PROVE  Spec => []Tricolor
<1>1. Inv => Tricolor
  BY DEF Inv, InvMarcado, Tricolor, ASalvo
<1> QED
  BY <1>1, InvSiempre, PTL

\* The write barrier keeps the remembered set complete.
THEOREM ConjuntoRecordadoSiempre ==
  ASSUME \A p \in Programas : Seguro(p)
  PROVE  Spec => []ConjuntoRecordado
<1>1. Inv => ConjuntoRecordado
  BY DEF Inv, InvRecordado, ConjuntoRecordado
<1> QED
  BY <1>1, InvSiempre, PTL

\* The assertion of pdcrt_gc_marcar never fails.
THEOREM AsercionSiempre ==
  ASSUME \A p \in Programas : Seguro(p)
  PROVE  Spec => []AsercionDeMarcar
<1>1. Inv => AsercionDeMarcar
  <2> SUFFICES ASSUME Inv PROVE AsercionDeMarcar
    OBVIOUS
  <2>1. PorMarcar \subseteq Vivos
    BY DEF Inv, SinColgantes, PorMarcar, EnGrupo, Vivos
  <2>2. \A h \in EnGrupo("GRIS") : campos[h] \subseteq Vivos
    BY DEF Inv, SinColgantes, EnGrupo, Vivos
  <2> QED
    BY <2>1, <2>2 DEF AsercionDeMarcar, Asercion
<1> QED
  BY <1>1, InvSiempre, PTL

\* When longjmp discards the C stack no object is left in it.
THEOREM PilaVaciaSiempre ==
  ASSUME \A p \in Programas : Seguro(p)
  PROVE  Spec => []PilaVaciaAlSaltar
<1> DEFINE Salto == fase = "trampolin" => enPila = {}
<1>1. Init => Salto
  BY DEF Init
<1>2. Inv /\ Salto /\ [Next]_vars => Salto'
  <2> SUFFICES ASSUME Inv, Salto, [Next]_vars, fase' = "trampolin" PROVE enPila' = {}
    OBVIOUS
  <2>1. CASE Programa
    BY <2>1 DEF Programa, EnPrograma, InicializarMarco, CrearMarco, AlojarObj, AlojarRsc, CrearCorrutina,
                NuevoObjeto, Cerrar, TerminarCorrutina, Soltar, Escribir, Borrar, CambiarPunto, Leer,
                RecolectarPorPila, RecolectarPorMemoria, Iniciar
  <2>2. CASE \/ MarcarRaices \/ \E h \in Obj : ProcesarGris(h)
             \/ Recolectar \/ Trampolin
    BY <2>2 DEF MarcarRaices, ProcesarGris, Recolectar, Trampolin
  <2>3. CASE MoverNegrosABlancos
    BY <2>3 DEF MoverNegrosABlancos, Inv, TipoOK, InvPila, EnColeccion, InvBarrido, Vivos
  <2>4. CASE UNCHANGED vars
    BY <2>4 DEF vars
  <2> QED
    BY <2>1, <2>2, <2>3, <2>4 DEF Next, Recolector
<1>3. Inv /\ Salto => PilaVaciaAlSaltar
  BY DEF PilaVaciaAlSaltar, Inv, InvReubicado, Vivos
<1> HIDE DEF Salto
<1> QED
  BY <1>1, <1>2, <1>3, InvSiempre, PTL DEF Spec

-------------------------------------------------------------------------------
(* A collection is transparent and, if it is major, complete.              *)

\* Where marking the slots that point into S leaves each object that was in
\* some group: a moved frame at its copy and the others in their place, with
\* the fields they had, and no two of them in one place.
LEMMA SeguirTrasMarcar ==
  ASSUME Inv, InvReubicado', fase \in {"raices", "grises"}, fase' = "grises",
         NEW S \in SUBSET Vivos, NEW f \in Copias(S), NEW h \in Obj \union {NULO},
         h \in Obj => grupo[h] = "GRIS" /\ S = campos[h],
         Marcar(S, f, h)
  PROVE  /\ \A v \in S : /\ Seguir(v)' = Destino(f, v)
                         /\ \A d : d = Destino(f, v) => d \in Obj /\ Seguir(d)' = d
         /\ \A o \in Vivos : \A x : x = Seguir(o) => Seguir(x)' = Seguir(o)'
         /\ \A o \in Vivos : tipo[o] # "REUBICADO" =>
              \A x : x = Seguir(o)' =>
                /\ x \in Obj /\ tipo'[x] # "REUBICADO"
                /\ campos'[x] = IF o = h THEN {Destino(f, v) : v \in S} ELSE campos[o]
         /\ \A o, p \in Vivos :
              tipo[o] # "REUBICADO" /\ tipo[p] # "REUBICADO" /\ Seguir(o)' = Seguir(p)' => o = p
         /\ \A o \in Obj : tipo[o] = "REUBICADO" => tipo'[o] = "REUBICADO" /\ campos'[o] = campos[o]
         /\ \A o \in Obj : tipo'[o] = "REUBICADO" => tipo[o] = "REUBICADO" \/ campos'[o] = {}
<1> DEFINE copias == {f[v] : v \in Mover(S)}
<1> USE DEF TipoOK
<1>1. \A v \in Mover(S) :
        /\ v \in S /\ v \in Obj /\ v \in enPila /\ MuevePila /\ tipo[v] # "REUBICADO"
        /\ f[v] \in Obj /\ grupo[f[v]] = "NINGUNO" /\ f[v] \notin Vivos
        /\ tipo'[v] = "REUBICADO" /\ campos'[v] = {} /\ nueva'[v] = f[v]
        /\ f[v] \in copias
  BY InvMarcar DEF Mover, Vivos, Inv
<1>2. \A v, w \in Mover(S) : f[v] = f[w] => v = w
  BY DEF Copias
<1>3. \A v \in Mover(S) : tipo'[f[v]] = tipo[v] /\ campos'[f[v]] = campos[v]
  <2>1. \A n \in copias : \E v \in Mover(S) :
           f[v] = n /\ tipo'[n] = tipo[v] /\ campos'[n] = campos[v]
    BY InvMarcar DEF Inv
  <2> HIDE DEF copias
  <2> QED
    BY <1>1, <1>2, <2>1
<1>4. h \in Obj => /\ h \notin Mover(S) /\ tipo'[h] = tipo[h]
                   /\ campos'[h] = {Destino(f, v) : v \in S} /\ nueva'[h] = nueva[h]
  BY InvMarcar DEF Inv
<1>5. \A o \in Obj : o \notin Mover(S) /\ o \notin copias /\ o # h =>
        tipo'[o] = tipo[o] /\ campos'[o] = campos[o] /\ nueva'[o] = nueva[o]
  BY InvMarcar DEF Inv
<1>6. \A v \in S : Destino(f, v) \in Obj /\ tipo'[Destino(f, v)] # "REUBICADO"
  BY InvMarcar DEF Inv
<1>7. \A n \in copias : n \in Obj /\ n \notin Vivos /\ tipo'[n] # "REUBICADO" /\ tipo[n] # "REUBICADO"
  <2>1. \A n \in copias : \E v \in Mover(S) : n = f[v]
    OBVIOUS
  <2>2. \A n \in Obj : tipo[n] = "REUBICADO" => n \in Vivos
    BY DEF Inv, InvReubicado, InvPila, Vivos
  <2> HIDE DEF copias
  <2> QED
    BY <1>1, <1>3, <2>1, <2>2
<1> HIDE DEF copias
<1>8. \A o \in Vivos : o \in Obj /\ o \notin copias /\ (o \notin Mover(S) => tipo'[o] = tipo[o] /\ nueva'[o] = nueva[o])
  BY <1>4, <1>5, <1>7 DEF Vivos
<1>9. \A o \in Vivos : Seguir(o)' = IF o \in Mover(S) THEN f[o] ELSE Seguir(o)
  BY <1>1, <1>8 DEF Seguir
<1>10. \A v \in S : /\ Seguir(v)' = Destino(f, v)
                    /\ \A d : d = Destino(f, v) => d \in Obj /\ Seguir(d)' = d
  <2>1. \A v \in S : v \in Mover(S) <=> v \in Mover({v})
    BY DEF Mover
  <2>2. \A v \in Mover(S) : tipo[v] # "REUBICADO"
    BY <1>1
  <2> QED
    BY <1>6, <1>9, <2>1, <2>2 DEF Destino, Seguir
<1>11. \A o \in Vivos : \A x : x = Seguir(o) => Seguir(x)' = Seguir(o)'
  <2> SUFFICES ASSUME NEW o \in Vivos, NEW x, x = Seguir(o), tipo[o] = "REUBICADO"
               PROVE  Seguir(x)' = Seguir(o)'
    BY DEF Seguir
  <2>1. o \in Obj /\ x = nueva[o]
    BY DEF Vivos, Seguir
  <2>2. o \notin Mover(S) /\ tipo'[o] = "REUBICADO" /\ nueva'[o] = x
    BY <1>1, <1>8, <2>1
  <2>3. tipo'[x] # "REUBICADO"
    BY <2>1, <2>2 DEF InvReubicado
  <2> QED
    BY <2>2, <2>3 DEF Seguir
<1>12. \A o \in Vivos : tipo[o] # "REUBICADO" =>
         \A x : x = Seguir(o)' =>
           /\ x \in Obj /\ tipo'[x] # "REUBICADO"
           /\ campos'[x] = IF o = h THEN {Destino(f, v) : v \in S} ELSE campos[o]
  <2> SUFFICES ASSUME NEW o \in Vivos, tipo[o] # "REUBICADO", NEW x, x = Seguir(o)'
               PROVE  /\ x \in Obj /\ tipo'[x] # "REUBICADO"
                      /\ campos'[x] = IF o = h THEN {Destino(f, v) : v \in S} ELSE campos[o]
    OBVIOUS
  <2>1. CASE o \in Mover(S)
    BY <1>1, <1>3, <1>4, <1>9, <2>1
  <2>2. CASE o \notin Mover(S)
    <3>1. x = o
      BY <1>9, <2>2 DEF Seguir
    <3> QED
      BY <1>4, <1>5, <1>8, <2>2, <3>1
  <2> QED
    BY <2>1, <2>2
<1>13. \A o, p \in Vivos :
         tipo[o] # "REUBICADO" /\ tipo[p] # "REUBICADO" /\ Seguir(o)' = Seguir(p)' => o = p
  BY <1>1, <1>2, <1>9 DEF Seguir
<1>14. \A o \in Obj : tipo[o] = "REUBICADO" => tipo'[o] = "REUBICADO" /\ campos'[o] = campos[o]
  <2> SUFFICES ASSUME NEW o \in Obj, tipo[o] = "REUBICADO"
               PROVE  tipo'[o] = "REUBICADO" /\ campos'[o] = campos[o]
    OBVIOUS
  <2>1. o \notin Mover(S) /\ o \notin copias
    BY <1>1, <1>7
  <2>2. grupo[o] = "BLANCO_EN_LA_PILA"
    BY DEF Inv, InvReubicado, InvPila, EnColeccion
  <2>3. o # h
    BY <2>2
  <2> QED
    BY <1>5, <2>1, <2>3
<1>15. \A o \in Obj : tipo'[o] = "REUBICADO" => tipo[o] = "REUBICADO" \/ campos'[o] = {}
  BY <1>1, <1>4, <1>5, <1>7
<1> QED
  BY <1>10, <1>11, <1>12, <1>13, <1>14, <1>15

\* A step of the collector changes no pointer of the program, up to the new
\* addresses of the frames.
LEMMA PasoTransparenteDelRecolector ==
  Inv /\ Inv' /\ [Next]_vars => [PasoTransparente]_vars
<1> SUFFICES ASSUME Inv, Inv', Next, fase # "programa"
             PROVE  /\ {Seguir(x)' : x \in {Seguir(v) : v \in raices}} = {Seguir(v) : v \in raices}'
                    /\ \A o \in {x \in Vivos : tipo[x] # "REUBICADO"} :
                         Seguir(o)' \in Vivos' =>
                           {Seguir(x)' : x \in {Seguir(v) : v \in campos[o]}}
                             = {Seguir(v)' : v \in campos'[Seguir(o)']}
                    /\ \A o, p \in {x \in Vivos : tipo[x] # "REUBICADO"} :
                         Seguir(o)' = Seguir(p)' => o = p
  BY DEF PasoTransparente
<1> USE DEF TipoOK
<1>1. CASE MarcarRaices \/ \E h \in Obj : ProcesarGris(h)
  <2>1. PICK S \in SUBSET Vivos, h \in Obj \union {NULO} : \E f \in Copias(S) :
          /\ h \in Obj => grupo[h] = "GRIS" /\ S = campos[h]
          /\ h \notin Obj => raices \subseteq S
          /\ Marcar(S, f, h)
          /\ h \in Obj => fase = "grises" /\ raices' = raices
    <3>1. CASE MarcarRaices
      BY <3>1, NuloNoEsObjeto DEF MarcarRaices, Asercion, PorMarcar
    <3>2. ASSUME NEW h \in Obj, ProcesarGris(h)
          PROVE  /\ campos[h] \in SUBSET Vivos /\ grupo[h] = "GRIS" /\ fase = "grises"
                 /\ \E f \in Copias(campos[h]) : Marcar(campos[h], f, h) /\ raices' = raices
      BY <3>2, NuloNoEsObjeto DEF ProcesarGris, Asercion, Marcar
    <3> QED
      BY <1>1, <3>1, <3>2
  <2>2. PICK f \in Copias(S) : Marcar(S, f, h)
    BY <2>1
  <2>3. fase \in {"raices", "grises"} /\ fase' = "grises" /\ InvReubicado'
    BY <1>1 DEF MarcarRaices, ProcesarGris, Inv
  <2>4. /\ \A v \in S : /\ Seguir(v)' = Destino(f, v)
                        /\ \A d : d = Destino(f, v) => Seguir(d)' = d
        /\ \A o \in Vivos : \A x : x = Seguir(o) => Seguir(x)' = Seguir(o)'
        /\ \A o \in Vivos : tipo[o] # "REUBICADO" =>
              \A x : x = Seguir(o)' =>
                campos'[x] = IF o = h THEN {Destino(f, v) : v \in S} ELSE campos[o]
        /\ \A o, p \in Vivos :
              tipo[o] # "REUBICADO" /\ tipo[p] # "REUBICADO" /\ Seguir(o)' = Seguir(p)' => o = p
    BY <2>1, <2>2, <2>3, SeguirTrasMarcar
  <2>5. \A R \in SUBSET Vivos :
          {Seguir(x)' : x \in {Seguir(v) : v \in R}} = {Seguir(v)' : v \in R}
    BY <2>4
  <2>6. {Seguir(x)' : x \in {Destino(f, v) : v \in S}} = {Seguir(v)' : v \in S}
    BY <2>4
  <2>7. raices \in SUBSET Vivos /\ \A o \in Vivos : campos[o] \in SUBSET Vivos
    BY DEF Inv, SinColgantes
  <2>8. {Seguir(v) : v \in raices}' = {Seguir(v)' : v \in raices}
    <3>1. CASE h \in Obj
      BY <2>1, <3>1
    <3>2. CASE h \notin Obj
      <4>1. raices \subseteq S /\ raices' = {Destino(f, r) : r \in raices}
        BY <2>1, <2>2, <3>2 DEF Marcar
      <4> QED
        BY <2>4, <4>1
    <3> QED
      BY <3>1, <3>2
  <2>9. ASSUME NEW o \in Vivos, tipo[o] # "REUBICADO"
        PROVE  {Seguir(x)' : x \in {Seguir(v) : v \in campos[o]}}
                 = {Seguir(v)' : v \in campos'[Seguir(o)']}
    <3>1. campos'[Seguir(o)'] = IF o = h THEN {Destino(f, v) : v \in S} ELSE campos[o]
      BY <2>4, <2>9
    <3>2. o = h => S = campos[o]
      BY <2>1, <2>9 DEF Vivos
    <3> QED
      BY <2>5, <2>6, <2>7, <3>1, <3>2
  <2> QED
    BY <2>4, <2>5, <2>7, <2>8, <2>9
<1>2. CASE Recolectar \/ MoverNegrosABlancos \/ Trampolin
  <2>1. /\ raices' = raices
        /\ \A o \in Obj : tipo'[o] # "REUBICADO"
        /\ \A r \in raices : tipo[r] # "REUBICADO"
    <3>1. raices' = raices /\ fase' # "grises"
      BY <1>2 DEF Recolectar, MoverNegrosABlancos, Trampolin
    <3>2. \A r \in raices : tipo[r] # "REUBICADO"
      BY <1>2 DEF Recolectar, MoverNegrosABlancos, Trampolin, Inv, InvReubicado, InvMarcado, ASalvo
    <3> QED
      BY <3>1, <3>2 DEF Inv, InvReubicado
  <2>2. \A o \in Vivos' : /\ o \in Vivos /\ campos'[o] = campos[o]
                          /\ \A v \in campos[o] : v \in Obj /\ tipo[v] # "REUBICADO"
    <3>1. CASE Recolectar
      <4> SUFFICES ASSUME NEW o \in Vivos'
                   PROVE  /\ o \in Vivos /\ campos'[o] = campos[o]
                          /\ \A v \in campos[o] : v \in Obj /\ tipo[v] # "REUBICADO"
        OBVIOUS
      <4>1. o \in Obj /\ o \notin Basura /\ o \in Vivos /\ campos'[o] = campos[o]
        BY <3>1 DEF Recolectar, Vivos, Inv
      <4>2. \/ grupo[o] \in {"NEGRO", "RECURSOS"}
            \/ ~Mayor /\ grupo[o] = "BLANCO_VIEJO"
        BY <3>1, <4>1 DEF Recolectar, EnGrupo, Vivos, Basura, Inv, InvMarcado, Grupos
      <4>3. \A v \in campos[o] : v \in Obj /\ tipo[v] # "REUBICADO"
        BY <3>1, <4>1, <4>2 DEF Recolectar, Inv, InvMarcado, InvTipos, EnGrupo, ASalvo
      <4> QED
        BY <4>1, <4>3
    <3>2. CASE MoverNegrosABlancos \/ Trampolin
      BY <3>2 DEF MoverNegrosABlancos, Trampolin, objetos, Vivos, Inv, InvReubicado
    <3> QED
      BY <1>2, <3>1, <3>2
  <2>3. \A o \in Obj : Seguir(o)' = o
    BY <2>1 DEF Seguir
  <2>4. \A R \in SUBSET Obj : {Seguir(v)' : v \in R} = R
    BY <2>3
  <2>5. {Seguir(v) : v \in raices} = raices
    BY <2>1 DEF Seguir
  <2>6. {Seguir(v) : v \in raices}' = raices
    BY <2>1, <2>3 DEF Inv
  <2>7. \A o \in Vivos' : {Seguir(v) : v \in campos[o]} = campos[o]
    BY <2>2 DEF Seguir
  <2>8. raices \in SUBSET Obj /\ \A o \in Obj : campos[o] \in SUBSET Obj
    BY DEF Inv
  <2>9. {Seguir(x)' : x \in {Seguir(v) : v \in raices}} = {Seguir(v) : v \in raices}'
    BY <2>4, <2>5, <2>6, <2>8
  <2>10. ASSUME NEW o \in Obj, Seguir(o)' \in Vivos'
         PROVE  {Seguir(x)' : x \in {Seguir(v) : v \in campos[o]}}
                  = {Seguir(v)' : v \in campos'[Seguir(o)']}
    <3>1. Seguir(o)' = o /\ o \in Vivos'
      BY <2>3, <2>10
    <3>2. campos'[o] = campos[o]
      BY <2>2, <3>1
    <3> QED
      BY <2>4, <2>7, <2>8, <3>1, <3>2
  <2> QED
    BY <2>3, <2>9, <2>10 DEF Vivos
<1>3. CASE Programa
  BY <1>3 DEF Programa, EnPrograma, InicializarMarco, CrearMarco, AlojarObj, AlojarRsc, CrearCorrutina,
              Cerrar, TerminarCorrutina, Soltar, Escribir, Borrar, CambiarPunto, Leer,
              RecolectarPorPila, RecolectarPorMemoria, Iniciar
<1> QED
  BY <1>1, <1>2, <1>3 DEF Next, Recolector

\* Every collection is transparent to the program.
THEOREM TransparenteSiempre ==
  ASSUME \A p \in Programas : Seguro(p)
  PROVE  Spec => Transparente
BY InvSiempre, PasoTransparenteDelRecolector, PTL DEF Spec, Transparente

\* A set of objects with the roots, and with what its objects point to.
Cerrado(S) ==
  /\ raices \subseteq S
  /\ \A x \in S : /\ campos[x] \subseteq S
                  /\ tipo[x] = "REUBICADO" => nueva[x] \in S

\* A major collection marks nothing but what every such set contains.
InvAlcance ==
  EnColeccion /\ Mayor =>
    /\ \A o \in Obj : tipo[o] = "REUBICADO" => campos[o] = {}
    /\ \A S \in SUBSET Obj : Cerrado(S) =>
         EnGrupo("GRIS") \union EnGrupo("NEGRO") \subseteq S

\* What marking turns grey or black was marked, or a slot of S leads to it.
LEMMA SoloSeMarcaDesdeS ==
  ASSUME NEW S, NEW f, NEW h, Marcar(S, f, h), NEW o \in Obj, grupo'[o] \in {"GRIS", "NEGRO"}
  PROVE  \/ grupo[o] \in {"GRIS", "NEGRO"} \/ o = h
         \/ \E v \in S : o = Destino(f, v)
<1>1. CASE o \in {f[v] : v \in Mover(S)}
  <2>1. PICK v \in Mover(S) : o = f[v]
    BY <1>1
  <2>2. v \in S /\ v \in Mover({v}) /\ tipo[v] # "REUBICADO"
    BY <2>1 DEF Mover
  <2> QED
    BY <2>1, <2>2 DEF Destino
<1>2. CASE o \notin {f[v] : v \in Mover(S)}
  BY <1>2 DEF Marcar
<1> QED
  BY <1>1, <1>2

\* Marking goes no further than the set in which the program can move.
LEMMA AlcanceTrasMarcar ==
  ASSUME Inv, InvAlcance, InvReubicado', fase \in {"raices", "grises"}, fase' = "grises", Mayor,
         UNCHANGED <<enPila, recoleccion>>,
         NEW S \in SUBSET Vivos, NEW f \in Copias(S), NEW h \in Obj \union {NULO},
         h \in Obj => grupo[h] = "GRIS" /\ S = campos[h] /\ fase = "grises" /\ raices' = raices,
         h \notin Obj => S = raices,
         Marcar(S, f, h)
  PROVE  InvAlcance'
<1>1. /\ \A v \in S : Seguir(v)' = Destino(f, v)
      /\ \A o \in Vivos : \A x : x = Seguir(o) => Seguir(x)' = Seguir(o)'
      /\ \A o \in Vivos : tipo[o] # "REUBICADO" =>
           \A x : x = Seguir(o)' =>
             campos'[x] = IF o = h THEN {Destino(f, v) : v \in S} ELSE campos[o]
      /\ \A o \in Obj : tipo[o] = "REUBICADO" => tipo'[o] = "REUBICADO" /\ campos'[o] = campos[o]
      /\ \A o \in Obj : tipo'[o] = "REUBICADO" => tipo[o] = "REUBICADO" \/ campos'[o] = {}
  BY SeguirTrasMarcar
<1> USE DEF TipoOK
<1>2. /\ \A o \in Obj : tipo[o] = "REUBICADO" => campos[o] = {}
      /\ \A T \in SUBSET Obj : Cerrado(T) => EnGrupo("GRIS") \union EnGrupo("NEGRO") \subseteq T
  BY DEF InvAlcance, EnColeccion
<1>3. raices \subseteq Vivos /\ \A o \in Vivos : o \in Obj /\ campos[o] \subseteq Vivos
  BY DEF Inv, SinColgantes, Vivos
<1>4. ASSUME NEW T \in SUBSET Obj, Cerrado(T)'
      PROVE  \A o \in Obj : grupo'[o] \in {"GRIS", "NEGRO"} => o \in T
  <2> DEFINE U == {o \in Vivos : Seguir(o)' \in T}
  <2>1. raices' \subseteq T /\ \A x \in T : campos'[x] \subseteq T /\ (tipo'[x] = "REUBICADO" => nueva'[x] \in T)
    BY <1>4 DEF Cerrado
  <2>2. \A x \in Vivos : x \in T => x \in U
    BY <2>1 DEF Seguir
  <2>3. raices \subseteq U
    <3>1. CASE h \in Obj
      BY <1>3, <2>1, <2>2, <3>1
    <3>2. CASE h \notin Obj
      <4>1. raices' = {Destino(f, r) : r \in raices} /\ S = raices
        BY <3>2 DEF Marcar
      <4> QED
        BY <1>1, <1>3, <2>1, <4>1
    <3> QED
      BY <3>1, <3>2
  <2>4. ASSUME NEW x \in U
        PROVE  campos[x] \subseteq U
    <3>1. CASE tipo[x] = "REUBICADO"
      BY <1>2, <1>3, <3>1
    <3>2. CASE tipo[x] # "REUBICADO"
      <4>1. (IF x = h THEN {Destino(f, v) : v \in S} ELSE campos[x]) \subseteq T
        BY <1>1, <2>1, <3>2
      <4>2. CASE x = h
        <5>1. campos[x] = S
          BY <1>3, <4>2
        <5> QED
          BY <1>1, <4>1, <4>2, <5>1
      <4>3. CASE x # h
        BY <1>3, <2>2, <4>1, <4>3
      <4> QED
        BY <4>2, <4>3
    <3> QED
      BY <3>1, <3>2
  <2>5. ASSUME NEW x \in U, tipo[x] = "REUBICADO"
        PROVE  nueva[x] \in U
    <3>1. PICK y : y = nueva[x]
      OBVIOUS
    <3>2. y \in Vivos /\ y = Seguir(x)
      BY <1>3, <2>5, <3>1 DEF Inv, InvReubicado, Vivos, Seguir
    <3>3. Seguir(y)' = Seguir(x)'
      BY <1>1, <3>2
    <3> QED
      BY <3>1, <3>2, <3>3
  <2>6. Cerrado(U) /\ U \in SUBSET Obj
    BY <1>3, <2>3, <2>4, <2>5 DEF Cerrado
  <2>7. EnGrupo("GRIS") \union EnGrupo("NEGRO") \subseteq U
    BY <1>2, <2>6
  <2>8. ASSUME NEW o \in Obj, grupo[o] \in {"GRIS", "NEGRO"}
        PROVE  o \in T
    <3>1. o \in U
      BY <2>7, <2>8 DEF EnGrupo
    <3>2. tipo'[o] # "REUBICADO"
      BY <2>8 DEF Inv, InvPila, EnColeccion, InvReubicado, MuevePila
    <3> QED
      BY <3>1, <3>2 DEF Seguir
  <2>9. S \subseteq U
    <3>1. CASE h \in Obj
      <4>1. h \in U
        BY <2>7, <3>1 DEF EnGrupo
      <4> QED
        BY <2>4, <3>1, <4>1
    <3>2. CASE h \notin Obj
      BY <2>3, <3>2
    <3> QED
      BY <3>1, <3>2
  <2>10. ASSUME NEW v \in S
         PROVE  Destino(f, v) \in T
    BY <1>1, <2>9
  <2> HIDE DEF U
  <2> QED
    BY <2>8, <2>10, SoloSeMarcaDesdeS
<1>5. \A o \in Obj : tipo'[o] = "REUBICADO" => campos'[o] = {}
  BY <1>1, <1>2
<1> QED
  BY <1>4, <1>5 DEF InvAlcance, EnGrupo

\* The bound on what is marked is inductive: the sweep keeps the black objects,
\* whose fields are safe.
LEMMA AlcanceInductivo == Inv /\ Inv' /\ InvAlcance /\ [Next]_vars => InvAlcance'
<1> SUFFICES ASSUME Inv, Inv', InvAlcance, [Next]_vars PROVE InvAlcance'
  OBVIOUS
<1>1. CASE MarcarRaices \/ \E h \in Obj : ProcesarGris(h)
  <2>1. /\ fase \in {"raices", "grises"} /\ fase' = "grises" /\ InvReubicado'
        /\ UNCHANGED <<enPila, recoleccion>>
    BY <1>1 DEF MarcarRaices, ProcesarGris, Inv
  <2>2. CASE Mayor
    <3>1. PICK S \in SUBSET Vivos, h \in Obj \union {NULO} : \E f \in Copias(S) :
            /\ h \in Obj => grupo[h] = "GRIS" /\ S = campos[h] /\ fase = "grises" /\ raices' = raices
            /\ h \notin Obj => S = raices
            /\ Marcar(S, f, h)
      <4>1. CASE MarcarRaices
        BY <2>2, <4>1, NuloNoEsObjeto DEF MarcarRaices, Asercion, PorMarcar
      <4>2. ASSUME NEW h \in Obj, ProcesarGris(h)
            PROVE  /\ campos[h] \in SUBSET Vivos /\ grupo[h] = "GRIS" /\ fase = "grises"
                   /\ \E f \in Copias(campos[h]) : Marcar(campos[h], f, h) /\ raices' = raices
        BY <4>2, NuloNoEsObjeto DEF ProcesarGris, Asercion, Marcar
      <4> QED
        BY <1>1, <4>1, <4>2
    <3>2. PICK f \in Copias(S) : Marcar(S, f, h)
      BY <3>1
    <3> QED
      BY <2>1, <2>2, <3>1, <3>2, AlcanceTrasMarcar
  <2>3. CASE ~Mayor
    BY <2>1, <2>3 DEF InvAlcance, Mayor
  <2> QED
    BY <2>2, <2>3
<1>2. CASE Recolectar
  <2> SUFFICES ASSUME Mayor
               PROVE  /\ \A o \in Obj : tipo'[o] # "REUBICADO"
                      /\ \A S \in SUBSET Obj : Cerrado(S)' =>
                           \A o \in Obj : grupo'[o] \in {"GRIS", "NEGRO"} => o \in S
    BY <1>2 DEF Recolectar, InvAlcance, EnGrupo, Mayor
  <2>1. \A o \in Obj : tipo'[o] # "REUBICADO"
    BY <1>2 DEF Recolectar, Inv, InvReubicado
  <2>2. ASSUME NEW S \in SUBSET Obj, Cerrado(S)'
        PROVE  \A o \in Obj : grupo'[o] \in {"GRIS", "NEGRO"} => o \in S
    <3> DEFINE U == {o \in S : ASalvo(o)}
    <3>1. \A o \in Obj : ASalvo(o) => o \notin Basura /\ campos'[o] = campos[o]
      BY <1>2 DEF Recolectar, ASalvo, Basura, Inv, InvTipos
    <3>2. raices \subseteq U
      BY <1>2, <2>2 DEF Recolectar, Cerrado, Inv, TipoOK, InvMarcado
    <3>3. ASSUME NEW x \in U
          PROVE  campos[x] \subseteq U /\ tipo[x] # "REUBICADO"
      <4>1. x \in Obj /\ ASalvo(x) /\ campos[x] \subseteq S
        BY <2>2, <3>1 DEF Cerrado
      <4>2. grupo[x] \in {"NEGRO", "RECURSOS"}
        BY <1>2, <4>1 DEF Recolectar, EnGrupo, ASalvo
      <4>3. \A v \in campos[x] : ASalvo(v)
        BY <1>2, <4>1, <4>2 DEF Recolectar, Inv, InvMarcado, InvTipos, EnGrupo
      <4> QED
        BY <4>1, <4>3 DEF ASalvo
    <3>4. Cerrado(U) /\ U \in SUBSET Obj
      BY <3>2, <3>3 DEF Cerrado
    <3>5. EnGrupo("GRIS") \union EnGrupo("NEGRO") \subseteq U
      BY <1>2, <3>4 DEF Recolectar, InvAlcance, EnColeccion
    <3>6. \A o \in Obj : grupo'[o] \in {"GRIS", "NEGRO"} => grupo'[o] = grupo[o]
      BY <1>2 DEF Recolectar
    <3> QED
      BY <3>5, <3>6 DEF EnGrupo
  <2> QED
    BY <2>1, <2>2
<1>3. CASE RecolectarPorPila \/ RecolectarPorMemoria
  <2>1. fase = "programa" /\ UNCHANGED objetos
    BY <1>3 DEF RecolectarPorPila, RecolectarPorMemoria, Iniciar, EnPrograma
  <2> QED
    BY <2>1 DEF objetos, Inv, InvRecordado, InvReubicado, InvAlcance, EnGrupo
<1>4. CASE MoverNegrosABlancos \/ Trampolin
  BY <1>4 DEF MoverNegrosABlancos, Trampolin, InvAlcance, EnColeccion
<1>5. CASE Programa /\ ~RecolectarPorPila /\ ~RecolectarPorMemoria
  <2>1. fase' = "programa"
    BY <1>5 DEF Programa, EnPrograma, InicializarMarco, CrearMarco, AlojarObj, AlojarRsc, CrearCorrutina,
              NuevoObjeto, Cerrar, TerminarCorrutina, Soltar, Escribir, Borrar, CambiarPunto, Leer
  <2> QED
    BY <2>1 DEF InvAlcance, EnColeccion
<1>6. CASE UNCHANGED vars
  BY <1>6 DEF vars, InvAlcance, EnColeccion, Mayor, EnGrupo, Cerrado
<1> QED
  BY <1>1, <1>2, <1>3, <1>4, <1>5, <1>6 DEF Next, Recolector

\* A major collection leaves nothing but the resources and what the program can
\* reach, cycles or not.
THEOREM MayorRecogeTodoSiempre ==
  ASSUME \A p \in Programas : Seguro(p)
  PROVE  Spec => []MayorRecogeTodo
<1>1. Init => InvAlcance
  BY DEF Init, InvAlcance, EnColeccion
<1>2. Inv /\ InvAlcance => MayorRecogeTodo
  <2> SUFFICES ASSUME Inv, InvAlcance, fase = "reinicio", Mayor,
                      NEW o \in Vivos, grupo[o] # "RECURSOS",
                      NEW S \in SUBSET Obj, raices \subseteq S, \A x \in S : campos[x] \subseteq S
               PROVE  o \in S
    BY DEF MayorRecogeTodo, Alcanzables, Vivos
  <2>1. o \in EnGrupo("NEGRO")
    BY DEF Inv, InvBarrido, EnGrupo, Vivos
  <2>2. Cerrado(S)
    BY DEF Cerrado, Inv, InvReubicado
  <2> QED
    BY <2>1, <2>2 DEF InvAlcance, EnColeccion
<1> QED
  BY <1>1, <1>2, InvSiempre, AlcanceInductivo, PTL DEF Spec

-------------------------------------------------------------------------------
(* Resources, in every program.                                            *)

\* The open files are in the group of the resources.
InvAbiertos == \A o \in abiertos : grupo[o] = "RECURSOS"

\* No step frees an open file or moves it to another group.
LEMMA AbiertosInductivo ==
  TipoOK /\ InvAbiertos /\ [Next]_vars =>
    InvAbiertos' /\ \A o \in abiertos : grupo'[o] = "RECURSOS"
<1> SUFFICES ASSUME TipoOK, InvAbiertos, [Next]_vars
             PROVE  InvAbiertos' /\ \A o \in abiertos : grupo'[o] = "RECURSOS"
  OBVIOUS
<1> USE DEF TipoOK, InvAbiertos
<1>1. CASE \E n, c \in Obj : \/ InicializarMarco(n) \/ CrearMarco(n) \/ AlojarObj(n) \/ AlojarRsc(n)
                             \/ CrearCorrutina(n, c)
  <2>1. ASSUME NEW n, NEW g, NEW t, NEW p, NEW cs, NuevoObjeto(n, g, t, p, cs)
        PROVE  grupo[n] = "NINGUNO" /\ grupo' = [grupo EXCEPT ![n] = g]
    BY <2>1 DEF NuevoObjeto, Libre
  <2>2. PICK n \in Obj, c \in Obj : \/ InicializarMarco(n) \/ CrearMarco(n) \/ AlojarObj(n)
                                    \/ AlojarRsc(n) \/ CrearCorrutina(n, c)
    BY <1>1
  <2>3. /\ grupo[n] = "NINGUNO"
        /\ \/ grupo' = [grupo EXCEPT ![n] = "RECURSOS"] /\ abiertos' = abiertos \union {n}
           \/ abiertos' = abiertos /\ \E g : grupo' = [grupo EXCEPT ![n] = g]
    BY <2>1, <2>2 DEF InicializarMarco, CrearMarco, AlojarObj, AlojarRsc, CrearCorrutina
  <2> QED
    BY <2>3
<1>2. CASE \E c, v \in Obj : \/ Cerrar(c) \/ TerminarCorrutina(c) \/ Soltar(c)
                             \/ Escribir(c, v) \/ Borrar(c, v) \/ CambiarPunto(c, v) \/ Leer(c, v)
  BY <1>2 DEF Cerrar, TerminarCorrutina, Soltar, Escribir, Barrera, Borrar, CambiarPunto, Leer, objetos
<1>3. CASE RecolectarPorPila \/ RecolectarPorMemoria \/ Trampolin
  BY <1>3 DEF RecolectarPorPila, RecolectarPorMemoria, Iniciar, Trampolin, objetos
<1>4. ASSUME NEW S, NEW f \in Copias(S), NEW h, Marcar(S, f, h), abiertos' = abiertos,
             h \in Obj => grupo[h] = "GRIS"
      PROVE  \A o \in abiertos : grupo'[o] = "RECURSOS"
  <2> SUFFICES ASSUME NEW o \in abiertos PROVE grupo'[o] = "RECURSOS"
    OBVIOUS
  <2> DEFINE copias   == {f[v] : v \in Mover(S)}
             destinos == {Destino(f, v) : v \in S}
  <2>1. o \notin copias /\ o # h /\ Gris(o) = "RECURSOS"
    BY <1>4 DEF Copias, Libre, Gris
  <2>2. grupo'[o] = IF o \in copias THEN "GRIS"
                    ELSE IF o = h THEN "NEGRO"
                    ELSE IF o \in destinos THEN Gris(o) ELSE grupo[o]
    BY <1>4 DEF Marcar
  <2> HIDE DEF copias, destinos
  <2> QED
    BY <2>1, <2>2
<1>5. CASE MarcarRaices
  BY <1>4, <1>5, NuloNoEsObjeto DEF MarcarRaices
<1>6. CASE \E h \in Obj : ProcesarGris(h)
  BY <1>4, <1>6 DEF ProcesarGris
<1>7. CASE Recolectar \/ MoverNegrosABlancos
  BY <1>7 DEF Recolectar, Basura, MoverNegrosABlancos
<1>8. CASE UNCHANGED vars
  BY <1>8 DEF vars
<1> QED
  BY <1>1, <1>2, <1>3, <1>5, <1>6, <1>7, <1>8 DEF Next, Programa, Recolector

\* An open file is never freed before it is closed, in every program.
THEOREM AbiertosSiempre == Spec => AbiertosSeConservan
<1>1. Init => InvAbiertos
  BY DEF Init, InvAbiertos
<1>2. TipoOK /\ InvAbiertos /\ [Next]_vars => [\A o \in abiertos : grupo'[o] = "RECURSOS"]_vars
  BY AbiertosInductivo
<1>3. TipoOK /\ InvAbiertos /\ [Next]_vars => InvAbiertos'
  BY AbiertosInductivo
<1> QED
  BY <1>1, <1>2, <1>3, TipoSiempre, PTL DEF Spec, AbiertosSeConservan
===============================================================================

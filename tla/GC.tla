---------------------------------- MODULE GC ----------------------------------
(***************************************************************************)
(* The generational, partly moving garbage collector of the C runtime      *)
(* (runtime/c/pdcrt/pdcrt_gc.c) together with the operations of the        *)
(* program that create, link and drop objects.                             *)
(*                                                                         *)
(* An object is an address with a header: the group (grupo) that lists it, *)
(* its kind (tipo), whether it lives in the C stack (en_la_pila) and the   *)
(* set of addresses it points to (campos).  Only the frames (MARCO) that   *)
(* compiled functions declare live in the C stack.  A collection that runs *)
(* because the C stack is full (SIN_PILA) copies the reachable ones to the *)
(* heap and leaves a forwarding header (REUBICADO) behind; a collection    *)
(* that runs because the heap is full (SIN_MEMORIA) moves nothing.         *)
(*                                                                         *)
(* A collection is a sequence of steps: the roots are marked, grey objects *)
(* are visited one at a time, then come the sweep and the reset.  The      *)
(* program is stopped meanwhile, as in the code.                           *)
(*                                                                         *)
(* Abstractions: the fields of an object are a set, the order in which     *)
(* grey objects are visited is free, the links of the group lists are not  *)
(* modelled (a group is the set of its objects), and "heap full" is a free *)
(* choice.  A freed address is handed out again only when nothing points   *)
(* to it, so a dangling pointer stays recognisable.                        *)
(***************************************************************************)
EXTENDS Integers, FiniteSets

CONSTANTS
  Obj,             \* addresses
  NULO,            \* the null pointer
  LimiteMenores,   \* SIN_PILA collections before a major one (100 in the code)
  MaxCampos,       \* bound on the fields of one object, its continuation apart
  Programas        \* sets of optional runtime services; a run uses one of them

(***************************************************************************)
(* The optional services of the runtime a program may use:                 *)
(*   "crear_marco"  operations that put a frame in the heap whose          *)
(*                  continuation is a frame of the C stack (importar,      *)
(*                  paraCadaPar, avanzar)                                  *)
(*   "por_memoria"  allocations that find the heap full, recolectarBasura  *)
(*   "corrutinas"   crearCorrutina, avanzar and generar                    *)
(*   "recursos"     opening files                                          *)
(*   "cerrar"       closing files                                          *)
(***************************************************************************)
Servicios == {"crear_marco", "por_memoria", "corrutinas", "recursos", "cerrar"}

ASSUME NuloNoEsObjeto == NULO \notin Obj
ASSUME LimiteEsNatural == LimiteMenores \in Nat
ASSUME ProgramasUsanServicios == Programas \subseteq SUBSET Servicios

VARIABLES
  grupo,       \* pdcrt_cabecera_gc.grupo of each address
  tipo,        \* pdcrt_cabecera_gc.tipo of each address
  enPila,      \* the addresses whose header has en_la_pila set
  campos,      \* the addresses each object points to
  nueva,       \* pdcrt_reubicado.nueva_direccion
  abiertos,    \* the resources whose valop has a liberar function
  raices,      \* ctx->pila, the chain of raices_locales, the fields of ctx
  fase,        \* where the collector is ("programa" when it is not running)
  recoleccion, \* the parameters of the current collection
  cnt,         \* ctx->cnt
  usa          \* the services this program uses; never changes

objetos == <<grupo, tipo, enPila, campos, nueva, abiertos>>
vars == <<grupo, tipo, enPila, campos, nueva, abiertos, raices,
          fase, recoleccion, cnt, usa>>

-------------------------------------------------------------------------------
(* Groups and kinds: pdcrt_gc_tipo_grupo and pdcrt_tipo_obj_gc.            *)

Grupos == {"NINGUNO", "BLANCO_JOVEN", "BLANCO_VIEJO", "BLANCO_EN_LA_PILA",
           "GRIS", "NEGRO", "RAICES_VIEJAS", "RECURSOS"}

\* TEXTO, ARREGLO, CLOSURE, CAJA, TABLA and INSTANCIA behave alike here: DATO.
Tipos == {"MARCO", "DATO", "CORO", "VALOP", "REUBICADO"}

Fases == {"programa", "raices", "grises", "reinicio", "trampolin"}

Recolecciones == [tipo : {"SIN_PILA", "SIN_MEMORIA"}, mayor : BOOLEAN]

\* The value of recoleccion outside of a collection, where nothing reads it.
NingunaRecoleccion == [tipo |-> "SIN_PILA", mayor |-> FALSE]

\* The objects in some group; the others were never allocated or were freed.
Vivos == {o \in Obj : grupo[o] # "NINGUNO"}

EnGrupo(g) == {o \in Obj : grupo[o] = g}

\* An address the allocator may hand out: unlisted and not pointed to.
Libre(n) ==
  /\ grupo[n] = "NINGUNO"
  /\ n \notin raices
  /\ \A o \in Vivos : n \notin campos[o]

-------------------------------------------------------------------------------
(***************************************************************************)
(* The program.  raices stands for everything the running function holds:  *)
(* every operation of the runtime stores the values it still needs as      *)
(* roots before an allocation and reloads them after it.                   *)
(***************************************************************************)

EnPrograma == fase = "programa"

\* Bound: there is always room for the copies of the frames of the C stack, as
\* running out of addresses stops the program.
HayLugar(n, enPilaDeC) ==
  Cardinality({o \in Obj : Libre(o)} \ {n})
    >= Cardinality(enPila \union (IF enPilaDeC THEN {n} ELSE {}))

\* pdcrt_inicializar_obj: the header of a fresh object.
NuevoObjeto(n, g, t, enPilaDeC, cs) ==
  /\ Libre(n) /\ HayLugar(n, enPilaDeC)
  /\ grupo'  = [grupo EXCEPT ![n] = g]
  /\ tipo'   = [tipo EXCEPT ![n] = t]
  /\ campos' = [campos EXCEPT ![n] = cs]
  /\ enPila' = IF enPilaDeC THEN enPila \union {n} ELSE enPila
  /\ raices' = raices \union {n}
  /\ UNCHANGED <<nueva, fase, recoleccion, cnt, usa>>

\* The continuation of a new frame: none, or any frame the program holds.
Continuaciones == {{}} \union {{k} : k \in {r \in raices : tipo[r] = "MARCO"}}

\* pdcrt_inicializar_marco: a compiled function declares its frame.
InicializarMarco(n) ==
  /\ EnPrograma
  /\ \E k \in Continuaciones : NuevoObjeto(n, "BLANCO_EN_LA_PILA", "MARCO", TRUE, k)
  /\ UNCHANGED abiertos

\* pdcrt_crear_marco: the runtime puts a frame in the heap.
CrearMarco(n) ==
  /\ EnPrograma
  /\ "crear_marco" \in usa
  /\ \E k \in Continuaciones : NuevoObjeto(n, "BLANCO_JOVEN", "MARCO", FALSE, k)
  /\ UNCHANGED abiertos

\* pdcrt_alojar_obj for an array, a closure, a box, a table, a text...
AlojarObj(n) ==
  /\ EnPrograma
  /\ NuevoObjeto(n, "BLANCO_JOVEN", "DATO", FALSE, {})
  /\ UNCHANGED abiertos

\* pdcrt_crear_corrutina_obj: a coroutine in its initial state.
CrearCorrutina(n, cuerpo) ==
  /\ EnPrograma
  /\ "corrutinas" \in usa
  /\ cuerpo \in raices /\ tipo[cuerpo] = "DATO"
  /\ NuevoObjeto(n, "BLANCO_JOVEN", "CORO", FALSE, {cuerpo})
  /\ UNCHANGED abiertos

\* pdcrt_alojar_rsc: an open file.
AlojarRsc(n) ==
  /\ EnPrograma
  /\ "recursos" \in usa
  /\ NuevoObjeto(n, "RECURSOS", "VALOP", FALSE, {})
  /\ abiertos' = abiertos \union {n}

\* pdcrt_recv_archivo, cerrar: the valop loses its liberar function.
Cerrar(r) ==
  /\ EnPrograma
  /\ "cerrar" \in usa
  /\ r \in raices /\ r \in abiertos
  /\ abiertos' = abiertos \ {r}
  /\ UNCHANGED <<grupo, tipo, enPila, campos, nueva, raices, fase, recoleccion, cnt, usa>>

\* The barrier that knows of the frames of the C stack only.
BarreraSoloPila(c, v) ==
  IF grupo[c] = "BLANCO_VIEJO" /\ grupo[v] = "BLANCO_EN_LA_PILA"
  THEN [grupo EXCEPT ![c] = "RAICES_VIEJAS"]
  ELSE grupo

\* pdcrt_barrera_de_escritura: an old object that gets a pointer to an object
\* outside the old generation joins the remembered set.
Barrera(c, v) ==
  IF /\ grupo[c] = "BLANCO_VIEJO"
     /\ grupo[v] \in {"BLANCO_JOVEN", "BLANCO_EN_LA_PILA"}
  THEN [grupo EXCEPT ![c] = "RAICES_VIEJAS"]
  ELSE grupo

\* A value is stored in a register, a box, an array, a table or an attribute.
\* Frames are not values: only continuations point to them.
Escribir(c, v) ==
  /\ EnPrograma
  /\ c \in raices /\ tipo[c] \in {"MARCO", "DATO"}
  /\ v \in raices /\ tipo[v] \in {"DATO", "CORO", "VALOP"}
  /\ v \notin campos[c]
  /\ Cardinality({w \in campos[c] : tipo[w] # "MARCO"}) < MaxCampos
  /\ grupo'  = Barrera(c, v)
  /\ campos' = [campos EXCEPT ![c] = @ \union {v}]
  /\ UNCHANGED <<tipo, enPila, nueva, abiertos, raices, fase, recoleccion, cnt, usa>>

\* The slot that held v is overwritten with a number, NULO or a boolean.
Borrar(c, v) ==
  /\ EnPrograma
  /\ c \in raices /\ tipo[c] \in {"MARCO", "DATO"}
  /\ v \in campos[c] /\ tipo[v] # "MARCO"
  /\ campos' = [campos EXCEPT ![c] = @ \ {v}]
  /\ UNCHANGED <<grupo, tipo, enPila, nueva, abiertos, raices, fase, recoleccion, cnt, usa>>

\* avanzar and generar: the coroutine keeps the continuation of its caller
\* (or of its body) and the program goes on with the one it held.  There is
\* no write barrier in this path.
CambiarPunto(c, m) ==
  /\ EnPrograma
  /\ c \in raices /\ tipo[c] = "CORO"
  /\ m \in raices /\ tipo[m] = "MARCO"
  /\ raices' = raices \union campos[c]
  /\ campos' = [campos EXCEPT ![c] = {m}]
  /\ UNCHANGED <<grupo, tipo, enPila, nueva, abiertos, fase, recoleccion, cnt, usa>>

\* pdcrt_recv_corrutina_avanzar_k1: the body of the coroutine returned, its
\* state is FINALIZADA and the collector visits nothing in it any more.
TerminarCorrutina(c) ==
  /\ EnPrograma
  /\ c \in raices /\ tipo[c] = "CORO"
  /\ \E m \in campos[c] : tipo[m] = "MARCO"
  /\ campos' = [campos EXCEPT ![c] = {}]
  /\ UNCHANGED <<grupo, tipo, enPila, nueva, abiertos, raices, fase, recoleccion, cnt, usa>>

\* A field is read into a register: following a continuation, a variable...
Leer(c, v) ==
  /\ EnPrograma
  /\ c \in raices /\ tipo[c] # "CORO"
  /\ v \in campos[c] /\ v \notin raices
  /\ raices' = raices \union {v}
  /\ UNCHANGED <<objetos, fase, recoleccion, cnt, usa>>

\* The running function stops holding a value: it pops it or continues.
Soltar(r) ==
  /\ EnPrograma
  /\ r \in raices
  /\ raices' = raices \ {r}
  /\ UNCHANGED <<objetos, fase, recoleccion, cnt, usa>>

\* pdcrt_trampolin after a SIN_PILA collection: longjmp discards the C stack.
Trampolin ==
  /\ fase = "trampolin"
  /\ fase' = "programa"
  /\ UNCHANGED <<objetos, raices, recoleccion, cnt, usa>>

-------------------------------------------------------------------------------
(***************************************************************************)
(* The collector: pdcrt_recolectar_basura_simple, called with the stack    *)
(* full (por_pila) or the heap full (por_memoria).                         *)
(***************************************************************************)

Mayor == recoleccion.mayor
MuevePila == recoleccion.tipo = "SIN_PILA"

Iniciar(t, mayor) ==
  /\ EnPrograma
  /\ fase' = "raices"
  /\ recoleccion' = [tipo |-> t, mayor |-> mayor]
  /\ UNCHANGED <<objetos, raices, usa>>

\* pdcrt_recolectar_basura_por_pila, from PDCRT_K and PDCRT_VERIFICA_PILA.
RecolectarPorPila ==
  /\ cnt' = cnt + 1
  /\ Iniciar("SIN_PILA", cnt + 1 > LimiteMenores)

\* pdcrt_intenta_invocar_al_recolector before an allocation, recolectarBasura.
RecolectarPorMemoria ==
  /\ "por_memoria" \in usa
  /\ UNCHANGED cnt
  /\ Iniciar("SIN_MEMORIA", TRUE)

\* pdcrt_gc_intenta_mover_a_gris with the old generation skipped always.
GrisSinViejos(h) ==
  IF grupo[h] \in {"BLANCO_JOVEN", "BLANCO_EN_LA_PILA", "RAICES_VIEJAS"}
  THEN "GRIS" ELSE grupo[h]

\* pdcrt_gc_intenta_mover_a_gris: the old generation stays white in a minor
\* collection; resources and objects already marked do not change group.
Gris(h) ==
  IF \/ grupo[h] \in {"BLANCO_JOVEN", "BLANCO_EN_LA_PILA", "RAICES_VIEJAS"}
     \/ grupo[h] = "BLANCO_VIEJO" /\ Mayor
  THEN "GRIS" ELSE grupo[h]

\* The frames leave the C stack in major collections only.
MoverSoloEnMayores(S) ==
  {v \in S : MuevePila /\ Mayor /\ v \in enPila /\ tipo[v] # "REUBICADO"}

\* The objects of S that pdcrt_gc_marcar gives to pdcrt_gc_reubicar.
Mover(S) == {v \in S : MuevePila /\ v \in enPila /\ tipo[v] # "REUBICADO"}

\* The addresses the copies of the objects of S may get.
Copias(S) ==
  {f \in [Mover(S) -> {n \in Obj : Libre(n)}] :
     \A v, w \in Mover(S) : f[v] = f[w] => v = w}

\* pdcrt_gc_marcar without the test of REUBICADO.
DestinoSinSeguir(f, v) == IF v \in Mover({v}) THEN f[v] ELSE v

\* Where a slot that pointed to v points after pdcrt_gc_marcar: to the
\* forwarded address, to the new copy or to v itself.
Destino(f, v) ==
  IF tipo[v] = "REUBICADO" THEN nueva[v]
  ELSE IF v \in Mover({v}) THEN f[v] ELSE v

\* pdcrt_gc_marcar on every slot that points into S.  A copy starts young and
\* becomes grey at once; the original keeps its group and becomes a forwarding
\* header.  h, if it is an object, is the one whose fields are being visited.
Marcar(S, f, h) ==
  LET destinos == {Destino(f, v) : v \in S}
      copias   == {f[v] : v \in Mover(S)}
      original(n) == CHOOSE v \in Mover(S) : f[v] = n
  IN /\ grupo' = [o \in Obj |->
                    IF o \in copias THEN "GRIS"
                    ELSE IF o = h THEN "NEGRO"
                    ELSE IF o \in destinos THEN Gris(o) ELSE grupo[o]]
     /\ tipo' = [o \in Obj |->
                   IF o \in copias THEN tipo[original(o)]
                   ELSE IF o \in Mover(S) THEN "REUBICADO" ELSE tipo[o]]
     /\ nueva' = [o \in Obj |-> IF o \in Mover(S) THEN f[o] ELSE nueva[o]]
     /\ campos' = [o \in Obj |->
                     IF o \in copias
                     THEN campos[original(o)]
                     ELSE IF o \in Mover(S) THEN {}
                     ELSE IF o = h THEN destinos ELSE campos[o]]
     /\ raices' = IF h = NULO THEN {Destino(f, r) : r \in raices} ELSE raices

\* pdcrt_gc_marcar aborts on a pointer to an object that was freed.
Asercion(S) == S \subseteq Vivos

\* What pdcrt_gc_marcar_y_mover_todo marks: the roots and, in a minor
\* collection, the remembered set.  The loop over the resources that follows
\* it in the code marks nothing: marcar skips the group RECURSOS.
PorMarcar == raices \union (IF Mayor THEN {} ELSE EnGrupo("RAICES_VIEJAS"))

MarcarRaices ==
  /\ fase = "raices"
  /\ Asercion(PorMarcar)
  /\ \E f \in Copias(PorMarcar) : Marcar(PorMarcar, f, NULO)
  /\ fase' = "grises"
  /\ UNCHANGED <<enPila, abiertos, recoleccion, cnt, usa>>

\* The fields of a grey object are marked, and it stays grey.
ProcesarGrisSinEnnegrecer(h) ==
  /\ fase = "grises"
  /\ grupo[h] = "GRIS"
  /\ Asercion(campos[h])
  /\ \E f \in Copias(campos[h]) : Marcar(campos[h], f, NULO)
  /\ UNCHANGED <<enPila, abiertos, fase, recoleccion, cnt, usa>>

\* pdcrt_gc_procesar_gris: the fields of a grey object are marked and it
\* becomes black.
ProcesarGris(h) ==
  /\ fase = "grises"
  /\ grupo[h] = "GRIS"
  /\ Asercion(campos[h])
  /\ \E f \in Copias(campos[h]) : Marcar(campos[h], f, h)
  /\ UNCHANGED <<enPila, abiertos, fase, recoleccion, cnt, usa>>

\* The sweep forgets the remembered set.
BasuraSinRaicesViejas ==
  {o \in Obj :
     \/ grupo[o] \in {"BLANCO_EN_LA_PILA", "BLANCO_JOVEN"}
     \/ Mayor /\ grupo[o] = "BLANCO_VIEJO"
     \/ Mayor /\ grupo[o] = "RECURSOS" /\ o \notin abiertos}

\* The sweep frees the resources of the unreachable objects too.
BasuraConRecursos ==
  {o \in Obj :
     \/ grupo[o] \in {"BLANCO_EN_LA_PILA", "BLANCO_JOVEN"}
     \/ Mayor /\ grupo[o] \in {"BLANCO_VIEJO", "RAICES_VIEJAS", "RECURSOS"}}

\* What pdcrt_gc_recolectar frees.  A closed resource is freed by the next
\* major collection whether or not something points to it.
Basura ==
  {o \in Obj :
     \/ grupo[o] \in {"BLANCO_EN_LA_PILA", "BLANCO_JOVEN"}
     \/ Mayor /\ grupo[o] \in {"BLANCO_VIEJO", "RAICES_VIEJAS"}
     \/ Mayor /\ grupo[o] = "RECURSOS" /\ o \notin abiertos}

\* pdcrt_gc_recolectar: the sweep.
Recolectar ==
  /\ fase = "grises" /\ EnGrupo("GRIS") = {}
  /\ grupo'  = [o \in Obj |-> IF o \in Basura THEN "NINGUNO" ELSE grupo[o]]
  /\ tipo'   = [o \in Obj |-> IF o \in Basura THEN "DATO" ELSE tipo[o]]
  /\ campos' = [o \in Obj |-> IF o \in Basura THEN {} ELSE campos[o]]
  /\ nueva'  = [o \in Obj |-> IF o \in Basura THEN NULO ELSE nueva[o]]
  /\ enPila' = enPila \ Basura
  /\ fase' = "reinicio"
  /\ UNCHANGED <<abiertos, raices, recoleccion, cnt, usa>>

\* The counter of minor collections is never reset.
CntSinReinicio == cnt

\* The end of pdcrt_recolectar_basura_por_pila.
CntTrasRecolectar == IF MuevePila /\ cnt > LimiteMenores THEN 0 ELSE cnt

\* pdcrt_gc_mover_negros_a_blancos.  A SIN_PILA collection goes back to the
\* trampoline, the other one to the operation that wanted memory.
MoverNegrosABlancos ==
  /\ fase = "reinicio"
  /\ grupo' = [o \in Obj |->
                 IF grupo[o] = "NEGRO"
                 THEN IF o \in enPila THEN "BLANCO_EN_LA_PILA" ELSE "BLANCO_VIEJO"
                 ELSE grupo[o]]
  /\ cnt' = CntTrasRecolectar
  /\ fase' = IF MuevePila THEN "trampolin" ELSE "programa"
  /\ recoleccion' = NingunaRecoleccion
  /\ UNCHANGED <<tipo, enPila, campos, nueva, abiertos, raices, usa>>

-------------------------------------------------------------------------------
Init ==
  /\ grupo  = [o \in Obj |-> "NINGUNO"]
  /\ tipo   = [o \in Obj |-> "DATO"]
  /\ campos = [o \in Obj |-> {}]
  /\ nueva  = [o \in Obj |-> NULO]
  /\ enPila = {} /\ abiertos = {} /\ raices = {}
  /\ fase = "programa"
  /\ recoleccion = NingunaRecoleccion
  /\ cnt = 0
  /\ usa \in Programas

Programa ==
  \/ \E n \in Obj : InicializarMarco(n) \/ CrearMarco(n) \/ AlojarObj(n) \/ AlojarRsc(n)
  \/ \E n, c \in Obj : CrearCorrutina(n, c)
  \/ \E r \in Obj : Cerrar(r) \/ TerminarCorrutina(r) \/ Soltar(r)
  \/ \E c, v \in Obj : Escribir(c, v) \/ Borrar(c, v) \/ CambiarPunto(c, v) \/ Leer(c, v)
  \/ RecolectarPorPila
  \/ RecolectarPorMemoria

Recolector ==
  \/ MarcarRaices
  \/ \E h \in Obj : ProcesarGris(h)
  \/ Recolectar \/ MoverNegrosABlancos \/ Trampolin

Next == Programa \/ Recolector

Spec == Init /\ [][Next]_vars

\* A collection runs to its end before the program continues.
SpecJusta == Spec /\ WF_vars(Recolector)

-------------------------------------------------------------------------------
(* Properties.                                                             *)

\* Every variable has its type.
TipoOK ==
  /\ grupo \in [Obj -> Grupos]
  /\ tipo \in [Obj -> Tipos]
  /\ enPila \subseteq Obj
  /\ campos \in [Obj -> SUBSET Obj]
  /\ nueva \in [Obj -> Obj \union {NULO}]
  /\ abiertos \subseteq Obj
  /\ raices \subseteq Obj
  /\ fase \in Fases
  /\ recoleccion \in Recolecciones
  /\ cnt \in 0 .. LimiteMenores + 1
  /\ usa \in Programas

\* No collection frees an object that a root or a surviving object points to:
\* neither the sweep nor the moving of frames leaves a dangling pointer.
SinColgantes ==
  /\ raices \subseteq Vivos
  /\ \A o \in Vivos : campos[o] \subseteq Vivos

\* The assertion of pdcrt_gc_marcar (h->grupo != PDCRT_TGRP_NINGUNO): the
\* collector never follows a pointer to a freed object.
AsercionDeMarcar ==
  /\ fase = "raices" => Asercion(PorMarcar)
  /\ fase = "grises" => \A h \in EnGrupo("GRIS") : Asercion(campos[h])

\* While the grey objects are processed a black object never points to an
\* object the sweep is going to free, nor to a forwarding header.
Tricolor ==
  fase = "grises" =>
    \A o \in EnGrupo("NEGRO") : \A v \in campos[o] :
      /\ grupo[v] \in {"NEGRO", "GRIS", "RECURSOS"} \/ (~Mayor /\ grupo[v] = "BLANCO_VIEJO")
      /\ tipo[v] # "REUBICADO"

\* Between collections the remembered set is complete: an old object outside
\* of it points to no young object and to no frame of the C stack, so a minor
\* collection may skip it.
ConjuntoRecordado ==
  fase = "programa" =>
    \A o \in EnGrupo("BLANCO_VIEJO") : \A v \in campos[o] :
      grupo[v] \notin {"BLANCO_JOVEN", "BLANCO_EN_LA_PILA"}

\* When the trampoline discards the C stack nothing alive is left in it and no
\* forwarding header can be reached: every frame was copied and every pointer
\* to it was updated.
PilaVaciaAlSaltar ==
  fase = "trampolin" =>
    \A o \in Vivos : o \notin enPila /\ tipo[o] # "REUBICADO"

\* Follows the forwarding header of a moved frame.
Seguir(v) == IF tipo[v] = "REUBICADO" THEN nueva[v] ELSE v

\* A step of the collector changes no pointer of the program, up to the new
\* addresses of the frames it moves: an object it keeps leads to the same
\* objects as before, and so do the roots, also once the forwarding headers
\* are swept; and two objects are never merged.
PasoTransparente ==
  LET destinos(S) == {Seguir(v) : v \in S} IN
  fase # "programa" =>
    /\ {Seguir(x)' : x \in destinos(raices)} = destinos(raices)'
    /\ \A o \in {x \in Vivos : tipo[x] # "REUBICADO"} :
         Seguir(o)' \in Vivos' =>
           {Seguir(x)' : x \in destinos(campos[o])} = {Seguir(v)' : v \in campos'[Seguir(o)']}
    /\ \A o, p \in {x \in Vivos : tipo[x] # "REUBICADO"} : Seguir(o)' = Seguir(p)' => o = p

Transparente == [][PasoTransparente]_vars

\* What the program can still reach: the least set with the roots that is
\* closed under campos.
Alcanzables ==
  {o \in Obj : \A S \in SUBSET Obj :
     (raices \subseteq S /\ \A x \in S : campos[x] \subseteq S) => o \in S}

\* A major collection frees everything the program cannot reach, cycles
\* included, except the resources.
MayorRecogeTodo ==
  fase = "reinicio" /\ Mayor =>
    \A o \in Vivos : grupo[o] = "RECURSOS" \/ o \in Alcanzables

\* An open file is never freed before it is closed, reachable or not.
AbiertosSeConservan == [][\A o \in abiertos : grupo'[o] = "RECURSOS"]_vars

\* Every collection ends: the grey objects run out and the program goes on,
\* or the collector stops at the assertion of pdcrt_gc_marcar.
RecoleccionTermina ==
  fase # "programa" ~> (fase = "programa" \/ ~AsercionDeMarcar)
===============================================================================

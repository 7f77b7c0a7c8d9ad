------------------------------- MODULE Corrutina ------------------------------
(***************************************************************************)
(* Coroutines (pdcrt_recv_corrutina, pdcrt_recv_corrutina_avanzar_k1 and   *)
(* pdcrt_corrutina_generar in runtime/c/pdcrt/pdcrt_impls.c).              *)
(*                                                                         *)
(* The program is in continuation-passing style: the runtime keeps no      *)
(* stack of callers, and the continuation of an operation is the frame of  *)
(* whoever called it with the place where it goes on.  An actor is the     *)
(* main program or the body of a coroutine; a continuation is an actor and *)
(* the site of the call it made.  A coroutine swaps the continuation it    *)
(* holds with the one of whoever calls avanzar or generar.                 *)
(*                                                                         *)
(* Abstractions: the values avanzar and generar carry are left out; an     *)
(* actor makes its calls from a few sites, in any order; an error ends the *)
(* program, as no part of it runs under a handler.                         *)
(***************************************************************************)
EXTENDS Naturals, FiniteSets, Sequences

CONSTANTS
  Coros,       \* coroutines
  PRINCIPAL,   \* the main program
  Sitios,      \* the places an actor calls avanzar and generar from
  NADA,        \* no continuation
  Programas    \* sets of liberties; a run uses one of them

(***************************************************************************)
(* The liberties a program may take with its coroutines:                   *)
(*   "otro_sitio"     avanzar a suspended coroutine from another call      *)
(*   "otro_actor"     avanzar a suspended coroutine from another procedure *)
(*   "generar_ajeno"  give the generator of a coroutine to other bodies    *)
(***************************************************************************)
Libertades == {"otro_sitio", "otro_actor", "generar_ajeno"}

ASSUME PrincipalNoEsCorrutina == PRINCIPAL \notin Coros
ASSUME ProgramasTomanLibertades == Programas \subseteq SUBSET Libertades

VARIABLES
  estado,      \* pdcrt_corrutina.estado of each coroutine
  punto,       \* punto_de_suspencion or punto_de_continuacion, by its estado
  retorno,     \* the continuation of the frame avanzar creates (m->k)
  corriendo,   \* the actor that runs
  parado,      \* whether the program stopped, at its end or at an error
  espera,      \* the site each actor that left waits at, or NADA
  usa          \* the liberties this program takes; never changes

vars == <<estado, punto, retorno, corriendo, parado, espera, usa>>

Estados == {"INICIAL", "SUSPENDIDA", "EJECUTANDOSE", "FINALIZADA"}

Actores == Coros \union {PRINCIPAL}

Continuaciones == [actor : Actores, sitio : Sitios]

K(a, s) == [actor |-> a, sitio |-> s]

ASSUME NadaNoEsDato == NADA \notin Continuaciones \union Sitios

-------------------------------------------------------------------------------
\* pdcrt_continuar: the running actor leaves at s and k goes on.
Continuar(s, k) ==
  /\ corriendo' = k.actor
  /\ espera' = [espera EXCEPT ![corriendo] = s, ![k.actor] = NADA]

\* avanzar on a coroutine that has not started: its body is called with a new
\* frame whose continuation is the caller.
AvanzarInicial(c, s) ==
  /\ ~parado
  /\ estado[c] = "INICIAL"
  /\ estado' = [estado EXCEPT ![c] = "EJECUTANDOSE"]
  /\ punto' = [punto EXCEPT ![c] = K(corriendo, s)]
  /\ retorno' = [retorno EXCEPT ![c] = K(corriendo, s)]
  /\ corriendo' = c
  /\ espera' = [espera EXCEPT ![corriendo] = s]
  /\ UNCHANGED <<parado, usa>>

\* The continuation of the frame instead of the one the coroutine holds.
PuntoDelMarco(c) == retorno[c]

\* Where avanzar resumes a suspended coroutine and generar goes back to.
PuntoDe(c) == punto[c]

\* avanzar on a coroutine that may be running.
AvanzarSinMirarEstado(c, s) ==
  /\ ~parado
  /\ estado[c] \in {"SUSPENDIDA", "EJECUTANDOSE"}
  /\ estado' = [estado EXCEPT ![c] = "EJECUTANDOSE"]
  /\ punto' = [punto EXCEPT ![c] = K(corriendo, s)]
  /\ Continuar(s, PuntoDe(c))
  /\ UNCHANGED <<retorno, parado, usa>>

\* avanzar on a suspended coroutine: the caller takes the place of the
\* continuation it held.
AvanzarSuspendida(c, s) ==
  /\ ~parado
  /\ estado[c] = "SUSPENDIDA"
  /\ corriendo # retorno[c].actor => "otro_actor" \in usa
  /\ s # retorno[c].sitio => "otro_sitio" \in usa
  /\ estado' = [estado EXCEPT ![c] = "EJECUTANDOSE"]
  /\ punto' = [punto EXCEPT ![c] = K(corriendo, s)]
  /\ Continuar(s, PuntoDe(c))
  /\ UNCHANGED <<retorno, parado, usa>>

\* pdcrt_corrutina_generar, called by the body of c or by whoever has the
\* closure that avanzar gave to it.
Generar(c, s) ==
  /\ ~parado
  /\ estado[c] = "EJECUTANDOSE"
  /\ corriendo # c => "generar_ajeno" \in usa
  /\ estado' = [estado EXCEPT ![c] = "SUSPENDIDA"]
  /\ punto' = [punto EXCEPT ![c] = K(corriendo, s)]
  /\ Continuar(s, PuntoDe(c))
  /\ UNCHANGED <<retorno, parado, usa>>

\* The end of a body that leaves its continuation in the coroutine.
DevolverSinSoltar(c) ==
  /\ ~parado
  /\ corriendo = c
  /\ estado[c] = "EJECUTANDOSE"
  /\ estado' = [estado EXCEPT ![c] = "FINALIZADA"]
  /\ corriendo' = retorno[c].actor
  /\ espera' = [espera EXCEPT ![retorno[c].actor] = NADA]
  /\ UNCHANGED <<punto, retorno, parado, usa>>

\* pdcrt_recv_corrutina_avanzar_k1: the body of c ended.  It goes back to the
\* continuation of its frame, the first avanzar.
Devolver(c) ==
  /\ ~parado
  /\ corriendo = c
  /\ estado[c] = "EJECUTANDOSE"
  /\ estado' = [estado EXCEPT ![c] = "FINALIZADA"]
  /\ punto' = [punto EXCEPT ![c] = NADA]
  /\ corriendo' = retorno[c].actor
  /\ espera' = [espera EXCEPT ![retorno[c].actor] = NADA]
  /\ UNCHANGED <<retorno, parado, usa>>

\* pdcrt_errortb: avanzar on a coroutine that runs or ended, generar for one
\* that does not run, the end of the body of one that does not run.
Error(c) ==
  /\ ~parado
  /\ \/ estado[c] \in {"EJECUTANDOSE", "FINALIZADA"}
     \/ estado[c] # "EJECUTANDOSE" /\ (corriendo = c \/ "generar_ajeno" \in usa)
  /\ parado' = TRUE
  /\ UNCHANGED <<estado, punto, retorno, corriendo, espera, usa>>

\* pdcrt_continuacion_de_ejecutar: the main program ended.
Terminar ==
  /\ ~parado
  /\ corriendo = PRINCIPAL
  /\ parado' = TRUE
  /\ UNCHANGED <<estado, punto, retorno, corriendo, espera, usa>>

Init ==
  /\ estado = [c \in Coros |-> "INICIAL"]
  /\ punto = [c \in Coros |-> NADA]
  /\ retorno = [c \in Coros |-> NADA]
  /\ corriendo = PRINCIPAL
  /\ parado = FALSE
  /\ espera = [a \in Actores |-> NADA]
  /\ usa \in Programas

Next ==
  \/ \E c \in Coros, s \in Sitios : AvanzarInicial(c, s) \/ AvanzarSuspendida(c, s) \/ Generar(c, s)
  \/ \E c \in Coros : Devolver(c) \/ Error(c)
  \/ Terminar

Spec == Init /\ [][Next]_vars

-------------------------------------------------------------------------------
(* Properties.                                                             *)

\* Every variable has its type, and a coroutine holds a continuation exactly
\* when its estado says so (the collector relies on it to visit the union).
TipoOK ==
  /\ estado \in [Coros -> Estados]
  /\ punto \in [Coros -> Continuaciones \union {NADA}]
  /\ retorno \in [Coros -> Continuaciones \union {NADA}]
  /\ corriendo \in Actores
  /\ parado \in BOOLEAN
  /\ espera \in [Actores -> Sitios \union {NADA}]
  /\ usa \in Programas
  /\ \A c \in Coros :
       /\ punto[c] # NADA <=> estado[c] \in {"SUSPENDIDA", "EJECUTANDOSE"}
       /\ retorno[c] # NADA <=> estado[c] # "INICIAL"

Guardan(a) == {c \in Coros : punto[c] # NADA /\ punto[c].actor = a}

\* An actor that waits is held by exactly one coroutine, at the site where it
\* left, and nobody holds the one that runs.
UnoLoGuarda ==
  \A a \in Actores :
    IF espera[a] # NADA
    THEN \E c \in Coros : Guardan(a) = {c} /\ punto[c] = K(a, espera[a])
    ELSE Guardan(a) = {}

\* The end of the body of c goes back to the actor that c holds, and to the
\* site too in the programs that advance each coroutine from one site.
VuelveAQuienGuarda ==
  \A c \in Coros : estado[c] = "EJECUTANDOSE" =>
    /\ retorno[c].actor = punto[c].actor
    /\ "otro_sitio" \notin usa => retorno[c] = punto[c]

\* avanzar and generar resume the actor that the coroutine holds, at the site
\* where it waits, and nobody holds it any more: they use no continuation twice
\* and forget no actor.  The end of a body uses the continuation of its frame.
\* In the programs that advance each coroutine from one site that is the one
\* that is held, so each continuation is used once.  In those that advance it
\* from several sites the actor is right and the site may not be: then the
\* continuation of the first avanzar is used again and the one that waits is
\* dropped (VuelveAlUltimoAvanzar).
UnSoloUso == UnoLoGuarda /\ VuelveAQuienGuarda

\* A body ends where its last avanzar waits: tests/lenguaje/coro/coro2.pd
\* (necesitas coro#avanzar = 2) advances a coroutine from two sites.
VuelveAlUltimoAvanzar ==
  \A c \in Coros : estado[c] = "EJECUTANDOSE" => retorno[c] = punto[c]

\* The actors that wait for one another: the one that runs is the last, and
\* before each coroutine comes the actor whose continuation it holds.
Pila ==
  LET desde[n \in Nat] ==
        IF n = 0 THEN <<corriendo>>
        ELSE LET p == desde[n - 1] IN
               IF Head(p) = PRINCIPAL \/ punto[Head(p)] = NADA THEN p
               ELSE <<punto[Head(p)].actor>> \o p
  IN desde[Cardinality(Coros)]

\* While only its own body uses the generator of a coroutine, avanzar, generar
\* and the end of the body enter and leave coroutines as the calls and returns
\* of a stack would.
PC == INSTANCE PilaDeCorrutinas WITH
        pila <- IF "generar_ajeno" \in usa THEN <<PRINCIPAL>> ELSE Pila,
        terminadas <- IF "generar_ajeno" \in usa THEN {}
                      ELSE {c \in Coros : estado[c] = "FINALIZADA"}

ImplementaPila == PC!Spec
===============================================================================

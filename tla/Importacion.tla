------------------------------ MODULE Importacion -----------------------------
(***************************************************************************)
(* The modules of a running program (pdcrt_importar, pdcrt_importar_k1 and *)
(* pdcrt_exportar in pdcrt_ops.c; pdcrt_main and pdcrt_cargar_dependencia  *)
(* in pdcrt.c).                                                            *)
(*                                                                         *)
(* registro_de_modulos has the code of the modules of the executable;      *)
(* registro_de_espacios_de_nombres has the namespace each module left when *)
(* its body ended.  An import takes the namespace, or runs the body first  *)
(* and looks again.  A body that runs is not marked anywhere, so an import *)
(* that comes from a function called in the middle of a body runs that     *)
(* body again.                                                             *)
(*                                                                         *)
(* Abstractions: a body is the sequence of its imports and an export at    *)
(* its end; a function may import, call and return in any order, and may   *)
(* be called as soon as the body of its module has begun; a namespace is   *)
(* the module and the number of the load that made it; the module of the   *)
(* runtime, loaded the same way before the others, is left out; an error   *)
(* ends the program, and a body does not leave through a coroutine.        *)
(***************************************************************************)
EXTENDS Naturals, Sequences, FiniteSets, FiniteSetsExt

CONSTANTS
  Modulos,
  NINGUNO,
  MaxMarcos   \* bound: how deep the frames get before functions stop calling

VARIABLES
  fuente,     \* the program: the imports of every module; never changes
  registro,   \* the keys of registro_de_modulos
  espacios,   \* registro_de_espacios_de_nombres
  cargas,     \* how many times the body of each module began
  marcos,     \* the frames, innermost last
  vistos,     \* the namespaces of each module that imports delivered
  error       \* the error that ended the program, or NINGUNO

vars == <<fuente, registro, espacios, cargas, marcos, vistos, error>>

Importaciones == [modulo : Modulos, en : {"cuerpo", "funcion"}]

Errores == {"no_existe", "no_guardo"}

-------------------------------------------------------------------------------
EnFunciones(m) == {fuente[m][i].modulo : i \in {j \in DOMAIN fuente[m] :
                                                  fuente[m][j].en = "funcion"}}

\* Mutant: the first import of a body is skipped.
FaltanDesdeElSegundo(f) == {i \in DOMAIN fuente[f.modulo] :
                              i > f.pos /\ fuente[f.modulo][i].en = "cuerpo"}

\* The imports written at the top of the module that frame f has yet to make, and
\* the next of them.
Faltan(f) == {i \in DOMAIN fuente[f.modulo] :
                i >= f.pos /\ fuente[f.modulo][i].en = "cuerpo"}
Proxima(f) == Min(Faltan(f))

\* Mutant: a body begins before its first import.
MarcoDesdeCero(tipo, m, carga) == [tipo |-> tipo, modulo |-> m, carga |-> carga, pos |-> 0]

\* A frame of a body, of a function, or the one pdcrt_importar makes to wait.
Marco(tipo, m, carga) == [tipo |-> tipo, modulo |-> m, carga |-> carga, pos |-> 1]

Cima == marcos[Len(marcos)]
Abajo == SubSeq(marcos, 1, Len(marcos) - 1)

\* Whether the innermost frame imports d next.
Importa(d) ==
  /\ marcos # <<>> /\ error = NINGUNO
  /\ \/ /\ Cima.tipo = "cuerpo"
        /\ \E i \in Faltan(Cima) :
             i = Proxima(Cima) /\ d = fuente[Cima.modulo][i].modulo
     \/ Cima.tipo = "funcion" /\ d \in EnFunciones(Cima.modulo)

\* Mutant: the body makes the same import again.
AvanzadosQuietos == marcos

\* The frames once the import the innermost frame made is behind it.
Avanzados ==
  IF Cima.tipo = "cuerpo"
  THEN Append(Abajo, [Cima EXCEPT !.pos = Proxima(Cima) + 1]) ELSE marcos

\* Mutant: the namespaces are not looked at before loading a module.
PorCargarSiempre(d) == d \in Modulos

\* registro_de_espacios_de_nombres does not have the module yet.
PorCargar(d) == d \notin DOMAIN espacios

Empieza(m) == [cargas EXCEPT ![m] = @ + 1]

Entregar(d) == vistos' = [vistos EXCEPT ![d] = @ \union {espacios[d]}]

Inactivo ==
  /\ registro = {} /\ espacios = <<>> /\ marcos = <<>> /\ error = NINGUNO
  /\ cargas = [m \in Modulos |-> 0] /\ vistos = [m \in Modulos |-> {}]

\* pdcrt_main: the table of main is registered, then its body is run directly.
Arrancar(principal, tabla) ==
  /\ registro = {}
  /\ registro' = {principal} \union tabla
  /\ cargas' = Empieza(principal)
  /\ marcos' = <<Marco("cuerpo", principal, 1)>>
  /\ UNCHANGED <<fuente, espacios, vistos, error>>

\* pdcrt_importar, when the namespace is there.
ImportarListo(d) ==
  /\ Importa(d) /\ ~PorCargar(d)
  /\ Entregar(d)
  /\ marcos' = Avanzados
  /\ UNCHANGED <<fuente, registro, espacios, cargas, error>>

\* pdcrt_importar, when it is not: the body has to run, and a frame waits for it.
ImportarYCargar(d) ==
  /\ Importa(d) /\ PorCargar(d)
  /\ IF d \in registro
     THEN /\ cargas' = Empieza(d)
          /\ marcos' = Append(Append(Avanzados, Marco("importar", d, 0)),
                            Marco("cuerpo", d, cargas[d] + 1))
          /\ UNCHANGED error
     ELSE error' = "no_existe" /\ UNCHANGED <<cargas, marcos>>
  /\ UNCHANGED <<fuente, registro, espacios, vistos>>

\* pdcrt_exportar: the body ends and its namespace replaces any other.
Exportar ==
  /\ marcos # <<>> /\ error = NINGUNO
  /\ Cima.tipo = "cuerpo" /\ Faltan(Cima) = {}
  /\ espacios' = [m \in DOMAIN espacios \union {Cima.modulo} |->
                    IF m = Cima.modulo THEN Cima.carga ELSE espacios[m]]
  /\ marcos' = Abajo
  /\ UNCHANGED <<fuente, registro, cargas, vistos, error>>

\* pdcrt_importar_k1: the body the frame waited for has returned.
ImportarK1 ==
  /\ marcos # <<>> /\ error = NINGUNO /\ Cima.tipo = "importar"
  /\ IF Cima.modulo \in DOMAIN espacios
     THEN Entregar(Cima.modulo) /\ marcos' = Abajo /\ UNCHANGED error
     ELSE error' = "no_guardo" /\ UNCHANGED <<marcos, vistos>>
  /\ UNCHANGED <<fuente, registro, espacios, cargas>>

\* The program calls a function of m that imports, and the function returns.
LlamarFuncion(m) ==
  /\ marcos # <<>> /\ error = NINGUNO /\ Len(marcos) < MaxMarcos
  /\ Cima.tipo # "importar" /\ cargas[m] > 0 /\ EnFunciones(m) # {}
  /\ marcos' = Append(marcos, Marco("funcion", m, 0))
  /\ UNCHANGED <<fuente, registro, espacios, cargas, vistos, error>>

Retornar ==
  /\ marcos # <<>> /\ error = NINGUNO /\ Cima.tipo = "funcion"
  /\ marcos' = Abajo
  /\ UNCHANGED <<fuente, registro, espacios, cargas, vistos, error>>

Correr ==
  \/ Exportar \/ ImportarK1 \/ Retornar
  \/ \E m \in Modulos :
       ImportarListo(m) \/ ImportarYCargar(m) \/ LlamarFuncion(m)

-------------------------------------------------------------------------------
Marcos == [tipo : {"cuerpo", "funcion", "importar"}, modulo : Modulos,
           carga : Nat, pos : Nat \ {0}]

TipoImportacion ==
  /\ registro \subseteq Modulos
  /\ DOMAIN espacios \subseteq Modulos /\ \A m \in DOMAIN espacios : espacios[m] \in Nat
  /\ cargas \in [Modulos -> Nat]
  /\ marcos \in Seq(Marcos)
  /\ vistos \in [Modulos -> SUBSET Nat]
  /\ error \in Errores \union {NINGUNO}

\* An import never ends in one of its errors: what it names was registered, and
\* the body it ran left a namespace (pdcrt_ops.c:775 and 808).
ImportarNoFalla == error = NINGUNO

\* Code that runs after an import finds the module whole: all that a body has
\* imported so far has ended, unless the import came back into it.
DependenciasListas ==
  \A k \in DOMAIN marcos : marcos[k].tipo = "cuerpo" =>
    \A i \in DOMAIN fuente[marcos[k].modulo] :
      LET d == fuente[marcos[k].modulo][i]
      IN  i < marcos[k].pos /\ d.en = "cuerpo" =>
            \/ d.modulo \in DOMAIN espacios
            \/ \E j \in DOMAIN marcos : j > k /\ marcos[j].tipo = "importar"
                                             /\ marcos[j].modulo = d.modulo

\* A body runs once and everyone that imports a module has the same namespace,
\* when no function imports (as in every module of the repository).
SinImportarEnFunciones == \A m \in Modulos : EnFunciones(m) = {}

UnSoloEspacio ==
  SinImportarEnFunciones =>
    \A m \in Modulos : cargas[m] <= 1 /\ Cardinality(vistos[m]) <= 1

\* A body begins again only while an earlier run of it is in progress and a
\* function called from it, or from what it imported, makes the import.
RecargaSoloReentrante ==
  [][\A m \in Modulos :
       cargas[m] > 0 /\ cargas'[m] > cargas[m] =>
         \E j, k \in DOMAIN marcos :
           /\ j < k /\ marcos[j].tipo = "cuerpo" /\ marcos[j].modulo = m
           /\ marcos[k].tipo = "funcion"]_vars
===============================================================================

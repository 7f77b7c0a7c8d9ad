----------------------------- MODULE Construccion -----------------------------
(***************************************************************************)
(* The compiler driver (pdc/compilador.pd), the module database            *)
(* (pdc/módulos.pd) and the files that link one run of pdc to the next.    *)
(*                                                                         *)
(* A run of pdc takes inputs in order.  An input is a source (.pd) or an   *)
(* interface (.ipd) that an earlier run saved, and has the name of a       *)
(* module unless it was given as a plain file.  Compiling a source first   *)
(* asks for each module it imports, which compiles an input of the same    *)
(* command line that was not compiled yet, and ends by computing the       *)
(* prefixes of all it depends on, its own imports and theirs.  The         *)
(* executable registers exactly those modules.                             *)
(*                                                                         *)
(* Abstractions: a source is the sequence of its imports; a module is its  *)
(* own prefix (-Zid) and names its interface and object files; the sources *)
(* do not change between runs; a library of interfaces (-k) is the set of  *)
(* interfaces in it; the steps of the C compiler and of the assembler are  *)
(* one, and they do not fail; objects are compiled with -fno-main.         *)
(***************************************************************************)
EXTENDS Naturals, Sequences, FiniteSets

CONSTANTS
  Modulos,   \* the modules there are sources for
  NINGUNO,   \* no command line, no executable
  Fuentes,   \* programs: each gives the imports of every module
  Ordenes    \* command lines

\* An import written at the top of a module, or in one of its functions.
Importaciones == [modulo : Modulos, en : {"cuerpo", "funcion"}]

\* What a command line names: -c or an executable, -q and object files.
Entradas == [modulo : Modulos, lenguaje : {"pd", "ipd"}, esModulo : BOOLEAN]

OrdenesPosibles == [entradas : Seq(Entradas), formato : {"objeto", "ejecutable"},
                    guardar : Seq(Modulos), objetos : SUBSET Modulos]

\* An interface always has the name of a module; a single source makes an object.
OrdenValida(o) ==
  /\ \A i \in DOMAIN o.entradas :
       o.entradas[i].lenguaje = "ipd" => o.entradas[i].esModulo
  /\ \E i \in DOMAIN o.entradas : o.entradas[i].lenguaje = "pd"
  /\ o.formato = "objeto" =>
       \A i, j \in DOMAIN o.entradas :
         o.entradas[i].lenguaje = "pd" /\ o.entradas[j].lenguaje = "pd" => i = j

ASSUME FuentesSonProgramas == Fuentes \subseteq [Modulos -> Seq(Importaciones)]
ASSUME OrdenesSonValidas ==
  Ordenes \subseteq OrdenesPosibles /\ \A o \in Ordenes : OrdenValida(o)
ASSUME NingunoNoEsOrden == NINGUNO \notin OrdenesPosibles

VARIABLES
  fuente,      \* the program on disk; never changes
  ipd,         \* the interface files: the prefixes each of them holds
  objs,        \* the modules with an object file
  exe,         \* the last executable, or NINGUNO
  orden,       \* the command line pdc runs, or NINGUNO
  bd,          \* bdMod: prefijosDeLosMódulosTransitivos of each module
  completado,  \* the compilarPd steps already taken
  paso,        \* the input the loop over pasos is at
  pila,        \* the calls of Compilar in progress
  tablas,      \* the prefixes written with the C code of each input
  guardadas,   \* how many of the interfaces of -q were saved
  fase,        \* "libre", "pasos", "guardar", "fin" or "error"
  motivo       \* why pdc stopped with an error

disco == <<ipd, objs, exe>>
vars == <<fuente, ipd, objs, exe, orden, bd, completado, paso, pila, tablas,
          guardadas, fase, motivo>>

-------------------------------------------------------------------------------
\* DependenciasDelNodo: every import of the tree, those of functions included.
Directas(m) == {fuente[m][i].modulo : i \in DOMAIN fuente[m]}

ModulosDe(o, lenguaje) ==
  {o.entradas[i].modulo : i \in {j \in DOMAIN o.entradas :
                                   o.entradas[j].lenguaje = lenguaje}}

\* Whether two inputs of a language have the same module.
Repite(o, lenguaje) ==
  \E i, j \in DOMAIN o.entradas :
    /\ i # j /\ o.entradas[i].modulo = o.entradas[j].modulo
    /\ o.entradas[i].lenguaje = lenguaje /\ o.entradas[j].lenguaje = lenguaje

\* The inputs that have the name of m.
Nombran(m) == {i \in DOMAIN orden.entradas :
                 orden.entradas[i].esModulo /\ orden.entradas[i].modulo = m}

\* idcPasoPdPorMódulo: whether i is the last input with the name of m.
Idc(m, i) == i \in Nombran(m) /\ \A j \in Nombran(m) : j <= i

\* Mutant: the inputs were compiled in the order of the imports.
HechaDeAntemano(i) == i \in DOMAIN orden.entradas

\* Whether nothing is left to do for input i: an interface, or a step taken.
Hecha(i) == orden.entradas[i].lenguaje = "ipd" \/ i \in completado

Fallar(m) == fase' = "error" /\ motivo' = m

Init ==
  /\ fuente \in Fuentes
  /\ ipd = <<>> /\ objs = {} /\ exe = NINGUNO
  /\ orden = NINGUNO /\ bd = <<>> /\ completado = {} /\ paso = 1 /\ pila = <<>>
  /\ tablas = <<>> /\ guardadas = 0 /\ fase = "libre" /\ motivo = "ninguno"

\* The start of pdc up to the loop over pasos: the interfaces are read.
Empezar(o) ==
  /\ fase = "libre"
  /\ orden' = o
  /\ completado' = {} /\ paso' = 1 /\ pila' = <<>> /\ guardadas' = 0
  /\ tablas' = [i \in DOMAIN o.entradas |-> {}]
  /\ IF ModulosDe(o, "ipd") \subseteq DOMAIN ipd /\ ~Repite(o, "ipd")
     THEN /\ bd' = [m \in ModulosDe(o, "ipd") |-> ipd[m]]
          /\ fase' = "pasos" /\ motivo' = "ninguno"
     ELSE bd' = <<>> /\ Fallar("interfaz")
  /\ UNCHANGED <<fuente, disco>>

\* Mutant: the step is not marked as completed.
ComenzarSinMarcar(i) ==
  UNCHANGED <<fuente, disco, orden, completado, bd, tablas, guardadas, fase, motivo>>

\* Mutant: the module is registered before it is compiled.
ComenzarRegistrando(i) ==
  /\ completado' = completado \union {i}
  /\ bd' = [m \in DOMAIN bd \union {orden.entradas[i].modulo} |->
             IF m \in DOMAIN bd THEN bd[m] ELSE {}]
  /\ UNCHANGED <<fuente, disco, orden, tablas, guardadas, fase, motivo>>

\* ProcesarPaso for a compilarPd step: the step is completed before it starts.
Comenzar(i) ==
  /\ completado' = completado \union {i}
  /\ UNCHANGED <<fuente, disco, orden, bd, tablas, guardadas, fase, motivo>>

EmpezarPaso ==
  /\ fase = "pasos" /\ pila = <<>> /\ paso \in DOMAIN orden.entradas
  /\ orden.entradas[paso].lenguaje = "pd" /\ paso \notin completado
  /\ Comenzar(paso)
  /\ pila' = <<[entrada |-> paso, dep |-> 1]>>
  /\ UNCHANGED paso

\* The compilarC and compilarAsm steps of an input, which only the loop takes.
TerminarPaso ==
  /\ fase = "pasos" /\ pila = <<>> /\ paso \in DOMAIN orden.entradas
  /\ orden.entradas[paso].lenguaje = "pd" => paso \in completado
  /\ paso' = paso + 1
  /\ objs' = IF orden.formato = "objeto" /\ orden.entradas[paso].lenguaje = "pd"
             THEN objs \union {orden.entradas[paso].modulo} ELSE objs
  /\ UNCHANGED <<fuente, ipd, exe, orden, bd, completado, pila, tablas, guardadas,
                 fase, motivo>>

Cima == pila[Len(pila)]
Compilado == orden.entradas[Cima.entrada].modulo
ConCima(p) == [pila EXCEPT ![Len(pila)] = p]

\* Mutant: the loop over the dependencies does not advance.
SiguienteIgual == pila

Siguiente == ConCima([Cima EXCEPT !.dep = @ + 1])

\* The module a Compilar in progress asks for next.
Pendiente(d) ==
  /\ fase = "pasos" /\ pila # <<>>
  /\ Cima.dep \in DOMAIN fuente[Compilado]
  /\ d = fuente[Compilado][Cima.dep].modulo

\* ProcesarMódulo, when nothing is left to do for the dependency.
DependenciaLista(d) ==
  /\ Pendiente(d) /\ \E i \in Nombran(d) : Idc(d, i) /\ Hecha(i)
  /\ pila' = Siguiente
  /\ UNCHANGED <<fuente, disco, orden, bd, completado, paso, tablas, guardadas,
                 fase, motivo>>

\* ProcesarMódulo, when the dependency is an input to compile first.
CompilarDependencia(d) ==
  /\ Pendiente(d)
  /\ \E i \in Nombran(d) :
       /\ Idc(d, i) /\ ~Hecha(i)
       /\ Comenzar(i)
       /\ pila' = Append(Siguiente, [entrada |-> i, dep |-> 1])
  /\ UNCHANGED paso

\* ProcesarMódulo, when the command line does not name the dependency.
DependenciaDesconocida(d) ==
  /\ Pendiente(d) /\ Nombran(d) = {}
  /\ Fallar("desconocida")
  /\ UNCHANGED <<fuente, disco, orden, bd, completado, paso, pila, tablas, guardadas>>

\* Mutant: the prefixes of the imports are forgotten.
PrefijosDirectos(m) == Directas(m)

\* prefijosTransitivos: what a module imports and what those import.
Prefijos(m) == Directas(m) \union UNION {bd[d] : d \in Directas(m)}

\* The rest of Compilar and the end of ProcesarPaso.
TerminarModulo ==
  /\ fase = "pasos" /\ pila # <<>>
  /\ Cima.dep \notin DOMAIN fuente[Compilado]
  /\ IF Directas(Compilado) \subseteq DOMAIN bd
     THEN /\ tablas' = [tablas EXCEPT ![Cima.entrada] = Prefijos(Compilado)]
          /\ IF ~orden.entradas[Cima.entrada].esModulo
             THEN UNCHANGED <<bd, fase, motivo>>
             ELSE IF Compilado \in DOMAIN bd
                  THEN Fallar("ya_existe") /\ UNCHANGED bd
                  ELSE /\ bd' = [m \in DOMAIN bd \union {Compilado} |->
                                   IF m = Compilado THEN Prefijos(m) ELSE bd[m]]
                       /\ UNCHANGED <<fase, motivo>>
     ELSE Fallar("no_encontrado") /\ UNCHANGED <<bd, tablas>>
  /\ pila' = SubSeq(pila, 1, Len(pila) - 1)
  /\ UNCHANGED <<fuente, disco, orden, completado, paso, guardadas>>

\* The end of the loop: compilarObjsAEjecutable, when an executable is made.
\* The linker wants the code of every module the table of main names, once.
Enlazable ==
  LET codigo == ModulosDe(orden, "pd") \union orden.objetos
  IN  /\ orden.entradas[1].lenguaje = "pd"
      /\ {orden.entradas[1].modulo} \union tablas[1] \subseteq codigo
      /\ ~Repite(orden, "pd")
      /\ orden.objetos \subseteq objs /\ orden.objetos \intersect ModulosDe(orden, "pd") = {}

Enlazar ==
  /\ fase = "pasos" /\ pila = <<>> /\ paso \notin DOMAIN orden.entradas
  /\ IF orden.formato = "ejecutable" /\ ~Enlazable
     THEN Fallar("enlace") /\ UNCHANGED exe
     ELSE /\ exe' = IF orden.formato = "objeto" THEN exe
                    ELSE [principal |-> orden.entradas[1].modulo, tabla |-> tablas[1]]
          /\ fase' = "guardar" /\ UNCHANGED motivo
  /\ UNCHANGED <<fuente, ipd, objs, orden, bd, completado, paso, pila, tablas, guardadas>>

\* An interface of -q: the file is truncated, then the module is looked up.
SinInterfaz(m) == [x \in DOMAIN ipd \ {m} |-> ipd[x]]

GuardarInterfaz ==
  /\ fase = "guardar" /\ guardadas < Len(orden.guardar)
  /\ guardadas' = guardadas + 1
  /\ LET m == orden.guardar[guardadas + 1]
     IN  IF m \in DOMAIN bd
         THEN /\ ipd' = [x \in DOMAIN ipd \union {m} |-> IF x = m THEN bd[m] ELSE ipd[x]]
              /\ UNCHANGED <<fase, motivo>>
         ELSE ipd' = SinInterfaz(m) /\ Fallar("no_encontrado_q")
  /\ UNCHANGED <<fuente, objs, exe, orden, bd, completado, paso, pila, tablas>>

Terminar ==
  /\ fase = "guardar" /\ guardadas = Len(orden.guardar)
  /\ fase' = "fin"
  /\ UNCHANGED <<fuente, disco, orden, bd, completado, paso, pila, tablas, guardadas, motivo>>

\* pdc is killed, maybe with an interface truncated and not written yet.
Interrumpir ==
  /\ fase \in {"pasos", "guardar"}
  /\ Fallar("interrumpido")
  /\ \/ UNCHANGED ipd
     \/ /\ fase = "guardar" /\ guardadas < Len(orden.guardar)
        /\ ipd' = SinInterfaz(orden.guardar[guardadas + 1])
  /\ UNCHANGED <<fuente, objs, exe, orden, bd, completado, paso, pila, tablas, guardadas>>

\* The process ends: only the files are left.
Salir ==
  /\ fase \in {"fin", "error"}
  /\ orden' = NINGUNO /\ bd' = <<>> /\ completado' = {} /\ paso' = 1 /\ pila' = <<>>
  /\ tablas' = <<>> /\ guardadas' = 0 /\ fase' = "libre" /\ motivo' = "ninguno"
  /\ UNCHANGED <<fuente, disco>>

Compilar ==
  \/ EmpezarPaso \/ TerminarPaso \/ TerminarModulo \/ Enlazar
  \/ GuardarInterfaz \/ Terminar
  \/ \E d \in Modulos :
       DependenciaLista(d) \/ CompilarDependencia(d) \/ DependenciaDesconocida(d)

Next == (\E o \in Ordenes : Empezar(o)) \/ Compilar \/ Interrumpir \/ Salir

Spec == Init /\ [][Next]_vars

-------------------------------------------------------------------------------
\* The modules m depends on: the least set with its imports that has the
\* imports of each of its modules.
CerradoPara(m, s) == Directas(m) \subseteq s /\ \A x \in s : Directas(x) \subseteq s
Alcanzables(m) == {d \in Modulos : \A s \in SUBSET Modulos : CerradoPara(m, s) => d \in s}

\* The fields have the shape the code gives them, and a call of Compilar in
\* progress is of an input of the command line whose step is marked as taken.
TipoOK ==
  /\ fuente \in Fuentes
  /\ DOMAIN ipd \subseteq Modulos /\ \A m \in DOMAIN ipd : ipd[m] \subseteq Modulos
  /\ DOMAIN bd \subseteq Modulos /\ \A m \in DOMAIN bd : bd[m] \subseteq Modulos
  /\ objs \subseteq Modulos
  /\ exe \in [principal : Modulos, tabla : SUBSET Modulos] \union {NINGUNO}
  /\ orden \in Ordenes \union {NINGUNO}
  /\ paso \in Nat \ {0} /\ guardadas \in Nat
  /\ fase \in {"libre", "pasos", "guardar", "fin", "error"}
  /\ IF fase = "libre" THEN orden = NINGUNO /\ completado = {} /\ pila = <<>>
     ELSE /\ orden \in Ordenes
          /\ completado \subseteq DOMAIN orden.entradas
          /\ tablas \in [DOMAIN orden.entradas -> SUBSET Modulos]
  /\ pila \in Seq([entrada : completado, dep : Nat \ {0}])

\* The prefixes a module is registered with, or saved with in an interface, are
\* the modules it depends on, over any sequence of runs, of which some were
\* killed (prefijosTransitivos, compilador.pd:239-253).
CierreExacto ==
  /\ \A m \in DOMAIN bd : bd[m] = Alcanzables(m)
  /\ \A m \in DOMAIN ipd : ipd[m] = Alcanzables(m)

\* A module that imports itself, through others or not, is never registered nor
\* saved: an import of a module still being compiled is an error and no
\* sequence of runs gets around it (ProcesarPaso, compilador.pd:1679).
SinCiclos == \A m \in DOMAIN bd \union DOMAIN ipd : m \notin Alcanzables(m)

\* A compilarPd step marked as taken is in progress or has written the table of
\* its input, and the loop leaves no source behind.
PasosExactos ==
  fase = "pasos" =>
    /\ \A i \in DOMAIN orden.entradas :
         i < paso /\ orden.entradas[i].lenguaje = "pd" => i \in completado
    /\ \A i \in completado :
         \/ \E k \in DOMAIN pila : pila[k].entrada = i
         \/ tablas[i] = Alcanzables(orden.entradas[i].modulo)

\* Compilation fails to find a module the command line names only when the
\* sources have a cycle, and a module is registered twice only when the command
\* line gives it twice.
ErroresJustificados ==
  /\ motivo = "no_encontrado" =>
       \E i \in completado : orden.entradas[i].modulo \in Alcanzables(orden.entradas[i].modulo)
  /\ motivo = "ya_existe" =>
       \E i, j \in DOMAIN orden.entradas :
         i # j /\ orden.entradas[i].modulo = orden.entradas[j].modulo

\* An executable registers every module its main depends on and no other.
EjecutableCompleto ==
  exe # NINGUNO => exe.tabla = Alcanzables(exe.principal)

\* A run of pdc ends, whatever cycles the sources have.
PdcTermina == fase = "pasos" ~> fase \in {"fin", "error"}
===============================================================================

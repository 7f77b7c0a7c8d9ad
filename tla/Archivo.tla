-------------------------------- MODULE Archivo -------------------------------
(***************************************************************************)
(* The files, directories and processes a program uses: the Archivo object *)
(* (pdcrt_impls/archivo.c), the messages of the runtime that open, create, *)
(* remove and execute (pdcrt_impls.c), and what the collector and the end  *)
(* of the context (pdcrt.c) do with the objects.  The operations of        *)
(* several system calls take several steps.                                *)
(*                                                                         *)
(* An error ends the program with abort(): no part of it runs under a      *)
(* handler.  The questions an object answers without changing anything     *)
(* (estáAbierto, posiciónActual, finDelArchivo, error) are left out.       *)
(***************************************************************************)
EXTENDS Vio

CONSTANTS
  Objs,    \* the memory for Archivo objects
  Modos,   \* the modes __AbrirArchivo is called with
  Cap      \* buffer_cap of __leerTodo

ASSUME ModosNaturales == Modos \subseteq Nat
ASSUME CapPositivo == Cap \in Nat \ {0}
ASSUME NadaNoEsObjeto == NADA \notin Objs

\* What the variables hold when they do not hold NADA.
Posiciones == [de : Inodos \union {DIR}, pos : Nat, modo : SUBSET {"lectura", "escritura"}]
Recursos == [archivo : Fds \union {NADA}, liberar : BOOLEAN]
Operaciones ==
  [paso : {"siguiente", "volver", "todo", "abrir_dir", "cerrar_dir", "esperar"},
   de : Objs \union Rutas \union Fds \union {NADA}, pos : Nat, leido : Seq(Bytes)]

ASSUME NadaNoEsRegistro ==
  NADA \notin Posiciones /\ NADA \notin Recursos /\ NADA \notin Operaciones

VARIABLES
  objs,         \* pdcrt_rsc_archivo and the liberar of its valop, or NADA
  op,           \* the operation between two system calls, or NADA
  hijo,         \* what became of the child process, or NADA
  dado,         \* which operation delivered, and what
  fin,          \* "no", or how the process ended
  vistos        \* history: what has been in the file that __leerTodo reads, and
                \* where, since it began

vars == <<nombres, datos, fds, objs, op, hijo, dado, fin, vistos>>

\* The program runs, between two operations.
Puede == fin = "no" /\ op = NADA

\* arch->archivo of an object the program holds.
Fd(o) == objs[o].archivo
Abierto(o) == Puede /\ objs[o] # NADA /\ Fd(o) # NADA

Entregar(v) == dado' = v

En(paso, de, pos, leido) == [paso |-> paso, de |-> de, pos |-> pos, leido |-> leido]
Seguir(o) == op' = o /\ Entregar(<<>>)
Completar(v) == op' = NADA /\ Entregar(v)

-------------------------------------------------------------------------------
\* The mode of abrirArchivo: its units and its hundreds.
OpcionesDe(modo) ==
  [intencion |-> IF modo % 10 = 1 THEN {"escritura"} ELSE {"lectura"},
   crear |-> IF modo % 10 = 1 THEN "crear_nuevo" ELSE "error_nuevo",
   abrir |-> IF (modo \div 100) % 10 = 1 THEN "truncar_existente" ELSE "abrir_existente"]

\* Runtime#abrirArchivo: an object comes out even if the file could not be open.
Abrir(o, r, modo) ==
  /\ Puede /\ objs[o] = NADA
  /\ \E f \in Fds \union {NADA} :
       /\ AbrirArchivo(r, OpcionesDe(modo), f)
       /\ objs' = [objs EXCEPT ![o] = [archivo |-> f, liberar |-> TRUE]]
  /\ Entregar(<<>>)
  /\ UNCHANGED <<op, hijo, fin>>

\* Mutant: the object keeps the descriptor it closed.
CerradoConArchivo(o) == [objs[o] EXCEPT !.liberar = FALSE]

\* Archivo#cerrar.
Cerrado(o) == [archivo |-> NADA, liberar |-> FALSE]
Cerrar(o) ==
  /\ Abierto(o)
  /\ Close(Fd(o))
  /\ objs' = [objs EXCEPT ![o] = Cerrado(o)]
  /\ Entregar(<<>>)
  /\ UNCHANGED <<op, hijo, fin>>

LeerByte(o) ==
  /\ Abierto(o) /\ PuedeLeer(Fd(o))
  /\ LET leido == Leido(Fd(o), 1)
     IN  /\ Mover(Fd(o), fds[Fd(o)].pos + Len(leido))
         /\ Entregar(<<"byte", leido>>)
  /\ UNCHANGED <<disco, objs, op, hijo, fin>>

\* Archivo#obtenerSiguienteByte: where it is, a byte, which is what it delivers,
\* and back.
ObtenerSiguiente(o) ==
  /\ Abierto(o)
  /\ Seguir(En("siguiente", o, fds[Fd(o)].pos, <<>>))
  /\ UNCHANGED <<disco, fds, objs, hijo, fin>>

SiguienteLeer ==
  /\ op # NADA /\ op.paso = "siguiente" /\ PuedeLeer(Fd(op.de))
  /\ LET leido == Leido(Fd(op.de), 1)
     IN  /\ Mover(Fd(op.de), fds[Fd(op.de)].pos + Len(leido))
         /\ op' = En("volver", op.de, op.pos, <<>>)
         /\ Entregar(<<"siguiente", leido>>)
  /\ UNCHANGED <<disco, objs, hijo, fin>>

SiguienteVolver ==
  /\ op # NADA /\ op.paso = "volver"
  /\ Mover(Fd(op.de), op.pos)
  /\ op' = NADA
  /\ UNCHANGED <<disco, objs, hijo, dado, fin>>

\* Archivo#__leerTodo: it reads until a read does not fill the buffer.
LeerTodo(o) ==
  /\ Abierto(o) /\ PuedeLeer(Fd(o))
  /\ Seguir(En("todo", o, fds[Fd(o)].pos, <<>>))
  /\ UNCHANGED <<disco, fds, objs, hijo, fin>>

\* Mutants: a read that delivers nothing is not the last one; the first read is.
UltimaNunca(leido) == Len(leido) > Cap
UltimaSiempre(leido) == Len(leido) <= Cap

Ultima(leido) == Len(leido) < Cap
TodoLeer ==
  /\ op # NADA /\ op.paso = "todo"
  /\ LET leido == Leido(Fd(op.de), Cap)
         texto == op.leido \o leido
     IN  /\ Mover(Fd(op.de), fds[Fd(op.de)].pos + Len(leido))
         /\ IF Ultima(leido) THEN Completar(<<"todo", texto>>)
            ELSE Seguir(En("todo", op.de, op.pos, texto))
  /\ UNCHANGED <<disco, objs, hijo, fin>>

\* Archivo#escribirByte and Archivo#escribirTexto.
Escribir(o, s) ==
  /\ Abierto(o) /\ PuedeEscribir(Fd(o)) /\ fds[Fd(o)].pos + Len(s) <= MaxTam
  /\ Escribe(Fd(o), s, Len(s))
  /\ Mover(Fd(o), fds[Fd(o)].pos + Len(s))
  /\ Entregar(<<>>)
  /\ UNCHANGED <<nombres, objs, op, hijo, fin>>

\* Archivo#cambiarPosición: eof stays as it was.
CambiarPosicion(o, p) ==
  /\ Abierto(o)
  /\ Mover(Fd(o), p)
  /\ Entregar(<<>>)
  /\ UNCHANGED <<disco, objs, op, hijo, fin>>

-------------------------------------------------------------------------------
\* Runtime#crearDirectorio: mkdir, open and close, with others in between.
CrearDirectorio(r) ==
  /\ Puede
  /\ Mkdir(r)
  /\ Seguir(En("abrir_dir", r, 0, <<>>))
  /\ UNCHANGED <<objs, hijo, fin>>

DirectorioAbrir ==
  /\ op # NADA /\ op.paso = "abrir_dir"
  /\ \E f \in Fds : /\ Open(op.de, {"O_DIRECTORY"}, {"lectura"}, f)
                    /\ Seguir(En("cerrar_dir", f, 0, <<>>))
  /\ UNCHANGED <<objs, hijo, fin>>

DirectorioCerrar ==
  /\ op # NADA /\ op.paso = "cerrar_dir"
  /\ Close(op.de)
  /\ Completar(<<>>)
  /\ UNCHANGED <<objs, hijo, fin>>

\* Runtime#borrarArchivo and Runtime#borrarDirectorio.
BorrarRuta(r) ==
  /\ Puede
  /\ Borrar(r, Inodos) \/ Borrar(r, {DIR})
  /\ Entregar(<<>>)
  /\ UNCHANGED <<objs, op, hijo, fin>>

\* Runtime#ejecutar: fork, then waitpid until the child ends.
Ejecutar ==
  /\ Puede
  /\ hijo' = "corre"
  /\ Seguir(En("esperar", NADA, 0, <<>>))
  /\ UNCHANGED <<disco, fds, objs, fin>>

\* The child exits, is killed (as it is when execve fails), stops or goes on.
PasoDelHijo ==
  /\ \/ hijo = "corre" /\ hijo' \in {"salio", "muerto", "parado"}
     \/ hijo = "parado" /\ hijo' \in {"corre", "muerto"}
  /\ UNCHANGED <<disco, fds, objs, op, dado, fin>>

Esperar ==
  /\ op # NADA /\ op.paso = "esperar" /\ hijo \in {"salio", "muerto"}
  /\ Completar(IF hijo = "salio" THEN <<"ok">> ELSE <<"otro">>)
  /\ hijo' = NADA
  /\ UNCHANGED <<disco, fds, objs, fin>>

-------------------------------------------------------------------------------
\* A major collection frees the resources without liberar, whoever holds them.
Recolectar ==
  /\ Puede
  /\ objs' = [o \in Objs |-> IF objs[o] # NADA /\ ~objs[o].liberar THEN NADA ELSE objs[o]]
  /\ UNCHANGED <<disco, fds, op, hijo, dado, fin>>

\* pdcrt_cerrar_contexto: every resource that has liberar is closed.
PorLiberar == {o \in Objs : objs[o] # NADA /\ objs[o].liberar /\ Fd(o) # NADA}
Salir ==
  /\ Puede
  /\ fds' = [f \in Fds |-> IF \E o \in PorLiberar : Fd(o) = f THEN NADA ELSE fds[f]]
  /\ objs' = [o \in Objs |-> NADA]
  /\ fin' = "ok"
  /\ UNCHANGED <<disco, op, hijo, dado>>

\* pdcrt_error, of the program or of an operation: a write may have been partial,
\* and the system closes what was open.
Fallar ==
  /\ fin = "no"
  /\ \/ UNCHANGED datos
     \/ \E o \in Objs, s \in Textos : \E n \in 1..Len(s) - 1 :
          /\ Abierto(o) /\ PuedeEscribir(Fd(o)) /\ fds[Fd(o)].pos + n <= MaxTam
          /\ Escribe(Fd(o), s, n)
  /\ fds' = [f \in Fds |-> NADA] /\ objs' = [o \in Objs |-> NADA]
  /\ op' = NADA /\ hijo' = NADA /\ fin' = "error"
  /\ UNCHANGED <<nombres, dado>>

-------------------------------------------------------------------------------
\* The file that __leerTodo reads, and what every step adds to vistos.
Leyendo == IF op # NADA /\ op.paso = "todo" THEN op.de ELSE NADA
Puestos(d) == {<<k, d[k]>> : k \in DOMAIN d}
Recordar ==
  vistos' = IF Leyendo' = NADA THEN {}
            ELSE vistos \union Puestos(datos[fds[Fd(Leyendo)].de])'

Init ==
  /\ nombres = [r \in Rutas |-> NADA] /\ datos = [i \in Inodos |-> <<>>]
  /\ fds = [f \in Fds |-> NADA] /\ objs = [o \in Objs |-> NADA]
  /\ op = NADA /\ hijo = NADA /\ dado = <<>> /\ fin = "no" /\ vistos = {}

\* The steps the runtime takes by itself, once an operation began.
Avanzar ==
  \/ SiguienteLeer \/ SiguienteVolver \/ TodoLeer
  \/ DirectorioAbrir \/ DirectorioCerrar \/ Esperar

Programa ==
  \/ \E o \in Objs :
       \/ \E r \in Rutas, modo \in Modos : Abrir(o, r, modo)
       \/ Cerrar(o) \/ LeerByte(o) \/ ObtenerSiguiente(o) \/ LeerTodo(o)
       \/ \E s \in Textos : Escribir(o, s)
       \/ \E p \in 0..MaxTam : CambiarPosicion(o, p)
  \/ \E r \in Rutas : CrearDirectorio(r) \/ BorrarRuta(r)
  \/ Ejecutar \/ Recolectar \/ Salir \/ Fallar

Afuera ==
  /\ fin = "no"
  /\ PasoDelHijo \/ (OtroPrograma /\ UNCHANGED <<objs, op, hijo, dado, fin>>)

Next == (Programa \/ Avanzar \/ Afuera) /\ Recordar

\* The operation cannot go on: the file was not open to read, the directory or
\* a descriptor for it is missing.
Impedida ==
  /\ op # NADA
  /\ \/ op.paso = "siguiente" /\ ~PuedeLeer(Fd(op.de))
     \/ op.paso = "abrir_dir" /\ (nombres[op.de] # DIR \/ Libres = {})

\* What was called returns: the operation goes on, or fails when it cannot.
Spec ==
  Init /\ [][Next]_vars /\ WF_vars((Avanzar \/ (Impedida /\ Fallar)) /\ Recordar)

-------------------------------------------------------------------------------
TipoArchivo ==
  /\ nombres \in [Rutas -> Inodos \union {DIR, NADA}]
  /\ datos \in [Inodos -> Seq(Bytes)]
  /\ fds \in [Fds -> Posiciones \union {NADA}]
  /\ objs \in [Objs -> Recursos \union {NADA}]
  /\ op \in Operaciones \union {NADA}
  /\ hijo \in {"corre", "parado", "salio", "muerto", NADA}
  /\ fin \in {"no", "ok", "error"}
  /\ vistos \in SUBSET (Nat \X Bytes)

\* Each descriptor of the process has one owner, an object or the operation in
\* progress, and whoever has one finds it open.  So no operation touches a
\* descriptor that was closed and given again, and none is lost: at the end of
\* the context nothing is open.
DeLaOperacion == IF op # NADA /\ op.paso = "cerrar_dir" THEN {op.de} ELSE {}
DeObjetos == {o \in Objs : objs[o] # NADA /\ Fd(o) # NADA}
Propiedad ==
  /\ \A o \in DeObjetos : fds[Fd(o)] # NADA /\ Fd(o) \notin DeLaOperacion /\ objs[o].liberar
  /\ \A o, p \in DeObjetos : Fd(o) = Fd(p) => o = p
  /\ \A f \in Fds : fds[f] # NADA => f \in DeLaOperacion \/ \E o \in DeObjetos : Fd(o) = f
  /\ \A f \in DeLaOperacion : fds[f] # NADA

\* Seen from the program, every file has a cursor of its own and each operation
\* but __leerTodo is one step on it, whatever the other programs do in between.
\* __leerTodo begins and ends.  When it ends nothing is left after the cursor, and
\* each byte it delivers has been in its place since it began; so it delivers
\* what is left of a file that others only append to, and of one that they
\* truncate or overwrite in the middle it may deliver what the file never was.
EnMedio(o) == op # NADA /\ op.paso \in {"siguiente", "volver", "todo"} /\ op.de = o
Posicion(o) == IF EnMedio(o) THEN op.pos ELSE fds[Fd(o)].pos
Cursores ==
  [o \in Objs |-> IF o \in DeObjetos
                  THEN [de |-> fds[Fd(o)].de, pos |-> Posicion(o), modo |-> fds[Fd(o)].modo]
                  ELSE NADA]
F == INSTANCE Fichero WITH cursor <- Cursores, leyendo <- Leyendo

ImplementaFichero == F!Spec

\* An operation that began ends, maybe with an error, once the child it waits for
\* ended.
PorTerminar == op # NADA /\ (op.paso = "esperar" => hijo \in {"salio", "muerto"})
OperacionTermina == PorTerminar ~> op = NADA
===============================================================================

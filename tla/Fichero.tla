-------------------------------- MODULE Fichero -------------------------------
(***************************************************************************)
(* What the files of a program promise: each open file has a cursor of its *)
(* own, and every operation of the program is one step on it, but for the  *)
(* one that reads a file to its end.  There are no descriptors here, and   *)
(* no system calls.  Archivo implements it.                                *)
(*                                                                         *)
(* It does not promise that crearDirectorio fails on a directory that      *)
(* exists, as bepd/x/sistemaDeArchivos/archivo.pd:56 says: nobody looks at *)
(* what mkdir answers, and it succeeds (Responder).                        *)
(***************************************************************************)
EXTENDS Naturals, Sequences, FiniteSetsExt

CONSTANTS Rutas, Inodos, Objs, Bytes, CERO, Textos, MaxTam, NADA, DIR

\* pdcrt_opciones_abrir_archivo.
Opciones ==
  [intencion : SUBSET {"lectura", "escritura"}, crear : {"error_nuevo", "crear_nuevo"},
   abrir : {"error_existente", "abrir_existente", "truncar_existente"}]

\* What an operation answers that is not a content of a file.
Respuestas == {<<>>, <<"ok">>, <<"otro">>}

VARIABLES
  nombres,   \* what each path names: an inode, a directory or nothing
  datos,     \* the contents of the inodes
  cursor,    \* where each open file reads and writes next
  dado,      \* which operation delivered, and what
  leyendo,   \* the file the program reads to its end, or NADA
  vistos     \* what has been in it, and where, since it began

vars == <<nombres, datos, cursor, dado, leyendo, vistos>>

Contenidos == UNION {[1..n -> Bytes] : n \in 0..MaxTam}
Puestos(d) == {<<k, d[k]>> : k \in DOMAIN d}

\* Writing s at position p, with a hole when p is beyond the end.
Escrito(d, p, s) ==
  [k \in 1..Max({Len(d), p + Len(s)}) |->
     IF k \in p + 1..p + Len(s) THEN s[k - p]
     ELSE IF k <= Len(d) THEN d[k] ELSE CERO]

Abierto(o) == cursor[o] # NADA
Libre(i) == /\ \A r \in Rutas : nombres[r] # i
            /\ \A o \in Objs : Abierto(o) => cursor[o].de # i
Regular(o) == Abierto(o) /\ cursor[o].de \in Inodos

\* Up to n bytes from the cursor of o.
Siguientes(o, n) ==
  LET d == datos[cursor[o].de]
  IN  SubSeq(d, cursor[o].pos + 1, Min({cursor[o].pos + n, Len(d)}))

Ponerse(o, c) == cursor' = [cursor EXCEPT ![o] = c]
Entregar(v) == dado' = v

-------------------------------------------------------------------------------
\* pdcrt_accion_crear and pdcrt_accion_abrir_archivo, by their comments: "error
\* si no existe", "crear si no existe", "error si el archivo existe", "abrir
\* existente", "truncar existente".
Abrir(o, r, opciones) ==
  /\ ~Abierto(o)
  /\ \/ /\ nombres[r] = NADA /\ opciones.crear = "crear_nuevo"
        /\ \E i \in Inodos :
             /\ Libre(i)
             /\ nombres' = [nombres EXCEPT ![r] = i]
             /\ datos' = [datos EXCEPT ![i] = <<>>]
             /\ Ponerse(o, [de |-> i, pos |-> 0, modo |-> opciones.intencion])
     \/ /\ nombres[r] \in Inodos /\ opciones.abrir # "error_existente"
        /\ datos' = IF opciones.abrir = "truncar_existente"
                    THEN [datos EXCEPT ![nombres[r]] = <<>>] ELSE datos
        /\ Ponerse(o, [de |-> nombres[r], pos |-> 0,
                       modo |-> opciones.intencion])
        /\ UNCHANGED nombres
     \/ /\ nombres[r] = DIR /\ opciones.intencion = {"lectura"}
        /\ Ponerse(o, [de |-> DIR, pos |-> 0, modo |-> {"lectura"}])
        /\ UNCHANGED <<nombres, datos>>
  /\ Entregar(<<>>)

Cerrar(o) ==
  /\ Abierto(o) /\ Ponerse(o, NADA) /\ Entregar(<<>>)
  /\ UNCHANGED <<nombres, datos>>

\* The next byte, if there is one.
LeerByte(o) ==
  /\ Regular(o) /\ "lectura" \in cursor[o].modo
  /\ Entregar(<<"byte", Siguientes(o, 1)>>)
  /\ Ponerse(o, [cursor[o] EXCEPT !.pos = @ + Len(Siguientes(o, 1))])
  /\ UNCHANGED <<nombres, datos>>

\* The next byte, without moving.
ObtenerSiguiente(o) ==
  /\ Regular(o) /\ "lectura" \in cursor[o].modo
  /\ Entregar(<<"siguiente", Siguientes(o, 1)>>)
  /\ UNCHANGED <<nombres, datos, cursor>>

\* It starts to read o to its end.
ComenzarTodo(o) ==
  /\ Regular(o) /\ "lectura" \in cursor[o].modo
  /\ leyendo = NADA /\ leyendo' = o
  /\ Entregar(<<>>)
  /\ UNCHANGED <<nombres, datos, cursor>>

\* It has read t: every byte has been in its place, and nothing is left.
LeerTodo(o, t) ==
  /\ leyendo = o /\ leyendo' = NADA
  /\ \A k \in DOMAIN t : <<cursor[o].pos + k, t[k]>> \in vistos
  /\ cursor[o].pos + Len(t) >= Len(datos[cursor[o].de])
  /\ Entregar(<<"todo", t>>)
  /\ Ponerse(o, [cursor[o] EXCEPT !.pos = @ + Len(t)])
  /\ UNCHANGED <<nombres, datos>>

Escribir(o, s) ==
  /\ Regular(o) /\ "escritura" \in cursor[o].modo
  /\ datos' = [datos EXCEPT ![cursor[o].de] =
                 IF s = <<>> THEN @ ELSE Escrito(@, cursor[o].pos, s)]
  /\ Ponerse(o, [cursor[o] EXCEPT !.pos = @ + Len(s)])
  /\ Entregar(<<>>)
  /\ UNCHANGED nombres

CambiarPosicion(o, p) ==
  /\ Abierto(o) /\ Ponerse(o, [cursor[o] EXCEPT !.pos = p]) /\ Entregar(<<>>)
  /\ UNCHANGED <<nombres, datos>>

\* An operation that leaves the files as they are.
Responder(v) == Entregar(v) /\ UNCHANGED <<nombres, datos, cursor>>

\* The program ends, maybe in the middle of writing s.
Terminar ==
  /\ cursor' = [o \in Objs |-> NADA] /\ leyendo' = NADA
  /\ UNCHANGED <<nombres, dado>>
  /\ \/ UNCHANGED datos
     \/ \E o \in Objs, s \in Textos : \E n \in DOMAIN s :
          /\ Regular(o) /\ "escritura" \in cursor[o].modo
          /\ datos' = [datos EXCEPT ![cursor[o].de] =
                         Escrito(@, cursor[o].pos, SubSeq(s, 1, n))]

-------------------------------------------------------------------------------
\* Names and contents change by the program or by another one.
CrearDirectorio(r) ==
  /\ nombres[r] = NADA /\ nombres' = [nombres EXCEPT ![r] = DIR]
  /\ UNCHANGED <<datos, cursor>> /\ dado' \in {dado, <<>>}

Borrar(r) ==
  /\ nombres' = [nombres EXCEPT ![r] = NADA]
  /\ UNCHANGED <<datos, cursor>> /\ dado' \in {dado, <<>>}

CrearOtro(r) ==
  /\ nombres[r] = NADA
  /\ \E i \in Inodos : /\ Libre(i)
                       /\ nombres' = [nombres EXCEPT ![r] = i]
                       /\ datos' = [datos EXCEPT ![i] = <<>>]
  /\ UNCHANGED <<cursor, dado>>

\* It truncates, overwrites or appends: any contents may follow any others.
CambiarOtro(i, d) ==
  /\ datos' = [datos EXCEPT ![i] = d]
  /\ UNCHANGED <<nombres, cursor, dado>>

-------------------------------------------------------------------------------
Init ==
  /\ nombres = [r \in Rutas |-> NADA] /\ datos = [i \in Inodos |-> <<>>]
  /\ cursor = [o \in Objs |-> NADA] /\ dado = <<>>
  /\ leyendo = NADA /\ vistos = {}

UnPaso ==
  \/ \E o \in Objs :
       \/ \E r \in Rutas, opciones \in Opciones : Abrir(o, r, opciones)
       \/ Cerrar(o) \/ LeerByte(o) \/ ObtenerSiguiente(o)
       \/ \E s \in Textos : Escribir(o, s)
       \/ \E p \in 0..MaxTam : CambiarPosicion(o, p)
  \/ \E v \in Respuestas : Responder(v)

Otros ==
  \/ \E r \in Rutas : CrearDirectorio(r) \/ Borrar(r) \/ CrearOtro(r)
  \/ \E i \in Inodos, d \in Contenidos : CambiarOtro(i, d)

Paso ==
  \/ UnPaso /\ leyendo = NADA /\ leyendo' = NADA
  \/ \E o \in Objs : ComenzarTodo(o) \/ \E t \in Contenidos : LeerTodo(o, t)
  \/ Terminar
  \/ Otros /\ leyendo' = leyendo

\* Every step adds to vistos what the file holds after it.
Recordar ==
  vistos' = IF leyendo' = NADA THEN {} ELSE vistos \union Puestos(datos[cursor[leyendo].de])'

Next == Paso /\ Recordar

Spec == Init /\ [][Next]_vars
===============================================================================

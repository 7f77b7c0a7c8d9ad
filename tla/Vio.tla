---------------------------------- MODULE Vio ---------------------------------
(***************************************************************************)
(* The operating system layer of the runtime (pdcrt_vios/vio_linux.c) and  *)
(* the part of the system it stands on: the names, the contents and the    *)
(* descriptors of the process.  Other programs create and remove files and *)
(* change what is in them at any moment.                                   *)
(*                                                                         *)
(* Abstractions: files are regular, so a read is short only at their end,  *)
(* and a read and a write of another program come one after the other;     *)
(* any descriptor that is free may be given; an error is one of a kind, as *)
(* no caller in the runtime tells one from another; permissions and O_PATH *)
(* are left out, and relative paths: all paths are looked up from the same *)
(* directory.                                                              *)
(***************************************************************************)
EXTENDS Naturals, Sequences, FiniteSetsExt

CONSTANTS
  Rutas, Inodos, Fds,
  Bytes, CERO,   \* CERO fills the holes of a file
  Textos,        \* what the program writes at once
  MaxTam,        \* bound: no file is longer
  NADA, DIR

ASSUME HayCero == CERO \in Bytes
ASSUME TextosSonBytes == Textos \subseteq Seq(Bytes)
ASSUME TamNatural == MaxTam \in Nat
ASSUME SonDistintos ==
  /\ DIR \notin Inodos /\ NADA \notin Inodos \union {DIR} \union Fds

VARIABLES
  nombres,   \* what each path names: an inode, DIR or NADA
  datos,     \* the contents of the inodes
  fds        \* the descriptors of the process, or NADA

disco == <<nombres, datos>>

Contenidos == UNION {[1..n -> Bytes] : n \in 0..MaxTam}

Libres == {f \in Fds : fds[f] = NADA}
InodosLibres == {i \in Inodos : /\ \A r \in Rutas : nombres[r] # i
                               /\ \A f \in Fds : fds[f] # NADA => fds[f].de # i}

Descriptor(de, modo) == [de |-> de, pos |-> 0, modo |-> modo]

\* Mutant: a hole is left without filling.
EscritoConHueco(d, p, s) ==
  [k \in 1..Max({Len(d), p + Len(s)}) |->
     IF k \in p + 1..p + Len(s) THEN s[k - p]
     ELSE IF k <= Len(d) THEN d[k] ELSE NADA]

\* Writing s at position p of d; a hole before p is filled with zeros.
Escrito(d, p, s) ==
  [k \in 1..Max({Len(d), p + Len(s)}) |->
     IF k \in p + 1..p + Len(s) THEN s[k - p]
     ELSE IF k <= Len(d) THEN d[k] ELSE CERO]

-------------------------------------------------------------------------------
\* open(2): f is the descriptor it gives.
Open(r, oflags, modo, f) ==
  /\ f \in Libres
  /\ \/ /\ nombres[r] = NADA /\ "O_CREAT" \in oflags
        /\ \E i \in InodosLibres : /\ nombres' = [nombres EXCEPT ![r] = i]
                                   /\ datos' = [datos EXCEPT ![i] = <<>>]
                                   /\ fds' = [fds EXCEPT ![f] = Descriptor(i, modo)]
     \/ /\ nombres[r] \in Inodos /\ oflags \intersect {"O_EXCL", "O_DIRECTORY"} = {}
        /\ datos' = IF "O_TRUNC" \in oflags
                    THEN [datos EXCEPT ![nombres[r]] = <<>>] ELSE datos
        /\ fds' = [fds EXCEPT ![f] = Descriptor(nombres[r], modo)]
        /\ UNCHANGED nombres
     \/ /\ nombres[r] = DIR /\ "escritura" \notin modo
        /\ oflags \intersect {"O_CREAT", "O_TRUNC"} = {}
        /\ fds' = [fds EXCEPT ![f] = Descriptor(DIR, modo)]
        /\ UNCHANGED disco

\* close(2).
Close(f) == fds' = [fds EXCEPT ![f] = NADA] /\ UNCHANGED disco

\* The options of pdcrt_vio_linux_abrir_archivo as the flags of open(2).
Oflags(opciones) ==
  (IF opciones.crear = "crear_nuevo" THEN {"O_CREAT"} ELSE {})
  \union (IF opciones.abrir = "truncar_existente" THEN {"O_TRUNC"} ELSE {})
  \union (IF opciones.abrir = "error_existente" /\ opciones.crear = "crear_nuevo"
          THEN {"O_EXCL"} ELSE {})

\* pdcrt_vio_linux_abrir_archivo: with both errors asked for, the file that was
\* open is reported as an error and its descriptor stays open.
AbrirArchivo(r, opciones, f) ==
  /\ f # NADA => Open(r, Oflags(opciones), opciones.intencion, f)
  /\ f = NADA =>
       \/ UNCHANGED <<disco, fds>>
       \/ /\ opciones.crear = "error_nuevo" /\ opciones.abrir = "error_existente"
          /\ \E g \in Libres : Open(r, Oflags(opciones), opciones.intencion, g)

\* pdcrt_vio_linux_leer: up to cap bytes from the position of f.
PuedeLeer(f) == fds[f].de # DIR /\ "lectura" \in fds[f].modo
Leido(f, cap) ==
  LET d == datos[fds[f].de]
  IN  SubSeq(d, fds[f].pos + 1, Min({fds[f].pos + cap, Len(d)}))

\* pdcrt_vio_linux_escribir: writev(2) writes n bytes of s.
PuedeEscribir(f) == fds[f].de # DIR /\ "escritura" \in fds[f].modo
Escribe(f, s, n) ==
  datos' = [datos EXCEPT ![fds[f].de] =
              IF n = 0 THEN @ ELSE Escrito(@, fds[f].pos, SubSeq(s, 1, n))]

\* pdcrt_vio_linux_posicionar and the positions that read and write leave.
Mover(f, p) == fds' = [fds EXCEPT ![f].pos = p]

\* pdcrt_vio_linux_borrar_archivo_por_ruta and borrar_directorio_por_ruta.
Borrar(r, tipo) ==
  /\ nombres[r] \in tipo
  /\ nombres' = [nombres EXCEPT ![r] = NADA]
  /\ UNCHANGED <<datos, fds>>

\* mkdir(2); pdcrt_vio_linux_abrir_directorio does not look at its result.
Mkdir(r) ==
  /\ nombres' \in IF nombres[r] = NADA
                  THEN {nombres, [nombres EXCEPT ![r] = DIR]} ELSE {nombres}
  /\ UNCHANGED <<datos, fds>>

-------------------------------------------------------------------------------
\* Another program creates a file or a directory, removes a name, or changes a
\* file that somebody can reach: it appends, truncates, overwrites.
OtroPrograma ==
  /\ UNCHANGED fds
  /\ \/ \E r \in Rutas :
          \/ /\ nombres[r] = NADA
             /\ \E i \in InodosLibres : /\ nombres' = [nombres EXCEPT ![r] = i]
                                        /\ datos' = [datos EXCEPT ![i] = <<>>]
          \/ /\ nombres[r] = NADA /\ nombres' = [nombres EXCEPT ![r] = DIR]
             /\ UNCHANGED datos
          \/ nombres' = [nombres EXCEPT ![r] = NADA] /\ UNCHANGED datos
     \/ \E i \in Inodos \ InodosLibres, d \in Contenidos :
          datos' = [datos EXCEPT ![i] = d] /\ UNCHANGED nombres
===============================================================================

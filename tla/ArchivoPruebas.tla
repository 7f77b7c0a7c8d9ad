---------------------------- MODULE ArchivoPruebas ----------------------------
(***************************************************************************)
(* Proofs about Archivo, for any paths, descriptors, objects, contents and *)
(* modes, with other programs that create, remove and change files in the  *)
(* middle of an operation: its type invariant, that each descriptor has    *)
(* one owner, and that it implements Fichero.                              *)
(***************************************************************************)
EXTENDS Archivo, TLAPS

\* The type of the variables that are not history.
Tipo ==
  /\ nombres \in [Rutas -> Inodos \union {DIR, NADA}]
  /\ datos \in [Inodos -> Seq(Bytes)]
  /\ fds \in [Fds -> Posiciones \union {NADA}]
  /\ objs \in [Objs -> Recursos \union {NADA}]
  /\ op \in Operaciones \union {NADA}
  /\ hijo \in {"corre", "parado", "salio", "muerto", NADA}
  /\ fin \in {"no", "ok", "error"}

\* What the steps of an operation find where it began.
EnOperacion ==
  op # NADA =>
    /\ op.paso \in {"siguiente", "volver", "todo"} => op.de \in DeObjetos
    /\ op.paso = "todo" => fds[Fd(op.de)].de # DIR
    /\ op.paso = "abrir_dir" => op.de \in Rutas
    /\ op.paso = "cerrar_dir" => op.de \in Fds

Inv == Tipo /\ Propiedad /\ EnOperacion

-------------------------------------------------------------------------------
(* Lemmas.                                                                 *)

LEMMA MaxDeDos ==
  ASSUME NEW a \in Nat, NEW c \in Nat
  PROVE  Max({a, c}) = IF a <= c THEN c ELSE a
  BY DEF Max

LEMMA MinDeDos ==
  ASSUME NEW a \in Nat, NEW c \in Nat
  PROVE  Min({a, c}) = IF a <= c THEN a ELSE c
  BY DEF Min

\* What is read are bytes.
LEMMA LeidoSonBytes ==
  ASSUME Tipo, NEW f \in Fds, fds[f] # NADA, fds[f].de # DIR, NEW cap \in Nat
  PROVE  Leido(f, cap) \in Seq(Bytes)
<1> DEFINE d == datos[fds[f].de]
<1>1. d \in Seq(Bytes) /\ fds[f].pos \in Nat
  BY DEF Tipo, Posiciones
<1>2. Len(d) \in Nat /\ fds[f].pos + cap \in Nat
  BY <1>1
<1> HIDE DEF d
<1>3. Min({fds[f].pos + cap, Len(d)}) \in Nat /\ Min({fds[f].pos + cap, Len(d)}) <= Len(d)
  BY <1>2, MinDeDos
<1>4. \A n \in Nat : n <= Len(d) => SubSeq(d, fds[f].pos + 1, n) \in Seq(Bytes)
  BY <1>1
<1>5. Leido(f, cap) = SubSeq(d, fds[f].pos + 1, Min({fds[f].pos + cap, Len(d)}))
  BY DEF Leido, d
<1> QED
  BY <1>3, <1>4, <1>5

\* What is written are bytes.
LEMMA EscritoSonBytes ==
  ASSUME NEW d \in Seq(Bytes), NEW p \in Nat, NEW s \in Seq(Bytes)
  PROVE  Escrito(d, p, s) \in Seq(Bytes)
<1>1. PICK n \in Nat : n = Max({Len(d), p + Len(s)})
  BY MaxDeDos
<1>2. \A k \in 1..n : Escrito(d, p, s)[k] \in Bytes
  BY <1>1, HayCero DEF Escrito
<1>3. Escrito(d, p, s) \in [1..n -> Bytes]
  BY <1>1, <1>2 DEF Escrito
<1> QED
  BY <1>3

\* The contents of the bound are the short sequences of bytes.
LEMMA ContenidosSon ==
  ASSUME NEW d
  PROVE  d \in Contenidos <=> d \in Seq(Bytes) /\ Len(d) <= MaxTam
<1>1. ASSUME d \in Contenidos PROVE d \in Seq(Bytes) /\ Len(d) <= MaxTam
  <2>1. PICK n \in 0..MaxTam : d \in [1..n -> Bytes]
    BY <1>1 DEF Contenidos
  <2> QED
    BY <2>1, TamNatural
<1>2. ASSUME d \in Seq(Bytes), Len(d) <= MaxTam PROVE d \in Contenidos
  <2>1. Len(d) \in 0..MaxTam /\ d \in [1..Len(d) -> Bytes]
    BY <1>2, TamNatural
  <2> QED
    BY <2>1 DEF Contenidos
<1> QED
  BY <1>1, <1>2

\* Writing reaches the end of what is written, or the old end.
LEMMA EscritoMide ==
  ASSUME NEW d \in Seq(Bytes), NEW p \in Nat, NEW s \in Seq(Bytes)
  PROVE  Len(Escrito(d, p, s)) = IF Len(d) <= p + Len(s) THEN p + Len(s) ELSE Len(d)
<1>1. PICK n \in Nat : /\ n = Max({Len(d), p + Len(s)})
                       /\ n = IF Len(d) <= p + Len(s) THEN p + Len(s) ELSE Len(d)
  BY MaxDeDos
<1>2. DOMAIN Escrito(d, p, s) = 1..n
  BY <1>1 DEF Escrito
<1>3. Escrito(d, p, s) \in Seq(Bytes)
  BY EscritoSonBytes
<1> QED
  BY <1>1, <1>2, <1>3

\* Moving a descriptor changes its position only.
LEMMA MoverSolo ==
  ASSUME Tipo, NEW f \in Fds, fds[f] # NADA, NEW p \in Nat, Mover(f, p)
  PROVE  /\ fds' \in [Fds -> Posiciones \union {NADA}]
         /\ fds'[f] = [de |-> fds[f].de, pos |-> p, modo |-> fds[f].modo]
         /\ \A g \in Fds \ {f} : fds'[g] = fds[g]
         /\ \A g \in Fds : fds'[g] = NADA <=> fds[g] = NADA
         /\ \A g \in Fds : fds[g] # NADA =>
              fds'[g].de = fds[g].de /\ fds'[g].modo = fds[g].modo
<1>1. fds[f] \in Posiciones
  BY DEF Tipo
<1>2. fds' = [fds EXCEPT ![f] = [fds[f] EXCEPT !.pos = p]]
  BY DEF Mover
<1>3. [fds[f] EXCEPT !.pos = p] = [de |-> fds[f].de, pos |-> p, modo |-> fds[f].modo]
  BY <1>1 DEF Posiciones
<1>4. [fds[f] EXCEPT !.pos = p] \in Posiciones
  BY <1>1, <1>3 DEF Posiciones
<1> QED
  BY <1>1, <1>2, <1>3, <1>4, NadaNoEsRegistro DEF Tipo

\* open(2) gives a descriptor that was free.
LEMMA OpenDaDescriptor ==
  ASSUME Tipo, NEW r \in Rutas, NEW oflags, NEW f,
         NEW modo \in SUBSET {"lectura", "escritura"}, Open(r, oflags, modo, f)
  PROVE  /\ f \in Fds /\ fds[f] = NADA
         /\ fds' \in [Fds -> Posiciones \union {NADA}]
         /\ fds'[f] # NADA
         /\ \A g \in Fds \ {f} : fds'[g] = fds[g]
         /\ nombres' \in [Rutas -> Inodos \union {DIR, NADA}]
         /\ datos' \in [Inodos -> Seq(Bytes)]
<1>1. f \in Fds /\ fds[f] = NADA
  BY DEF Open, Libres
<1>2. PICK de \in Inodos \union {DIR} : fds' = [fds EXCEPT ![f] = Descriptor(de, modo)]
  BY DEF Open, InodosLibres
<1>3. Descriptor(de, modo) \in Posiciones
  BY DEF Descriptor, Posiciones
<1>4. nombres' \in [Rutas -> Inodos \union {DIR, NADA}] /\ datos' \in [Inodos -> Seq(Bytes)]
  <2>1. <<>> \in Seq(Bytes)
    OBVIOUS
  <2> QED
    BY <2>1, ZenonT(60) DEF Open, InodosLibres, disco, Tipo
<1> QED
  BY <1>1, <1>2, <1>3, <1>4, NadaNoEsRegistro DEF Tipo

\* The steps that leave descriptors, objects and the operation's as they are.
LEMMA PropiedadIgual ==
  ASSUME Propiedad, objs' = objs, DeLaOperacion' = DeLaOperacion, DeLaOperacion \subseteq Fds,
         \A g \in Fds : fds'[g] = NADA <=> fds[g] = NADA,
         Tipo
  PROVE  Propiedad' /\ DeObjetos' = DeObjetos
<1>1. DeObjetos' = DeObjetos /\ \A o \in Objs : Fd(o)' = Fd(o)
  BY DEF DeObjetos, Fd
<1>2. \A o \in DeObjetos : Fd(o) \in Fds
  BY DEF DeObjetos, Fd, Tipo, Recursos
<1>3. DeObjetos \subseteq Objs
  BY DEF DeObjetos
<1> QED
  BY <1>1, <1>2, <1>3 DEF Propiedad

\* An object with a file has a descriptor that is open.
LEMMA FdDeObjeto ==
  ASSUME Inv, NEW o \in DeObjetos
  PROVE  /\ o \in Objs /\ objs[o] # NADA /\ objs[o] \in Recursos
         /\ Fd(o) \in Fds /\ fds[Fd(o)] # NADA /\ fds[Fd(o)] \in Posiciones
  BY DEF Inv, Tipo, Propiedad, DeObjetos, Fd, Recursos

LEMMA AbiertoEsDeObjeto ==
  ASSUME NEW o \in Objs, Abierto(o)
  PROVE  o \in DeObjetos /\ op = NADA
  BY DEF Abierto, Puede, DeObjetos

\* A step that moves the descriptor of an object, between operations or inside one
\* that is not about directories.
LEMMA MoverConserva ==
  ASSUME Inv, NEW o \in DeObjetos, NEW p \in Nat, Mover(Fd(o), p),
         op = NADA \/ op.paso \in {"siguiente", "volver", "todo"},
         nombres' = nombres, datos' \in [Inodos -> Seq(Bytes)],
         UNCHANGED <<objs, hijo, fin>>,
         op' # NADA => /\ op' \in Operaciones /\ op'.de = o
                       /\ op'.paso \in {"volver", "todo"}
                       /\ op'.paso = "todo" => fds[Fd(o)].de # DIR
  PROVE  Inv'
<1>1. Fd(o) \in Fds /\ fds[Fd(o)] # NADA
  BY FdDeObjeto
<1>2. /\ fds' \in [Fds -> Posiciones \union {NADA}]
      /\ \A g \in Fds : fds'[g] = NADA <=> fds[g] = NADA
      /\ \A g \in Fds : fds[g] # NADA => fds'[g].de = fds[g].de
  BY <1>1, MoverSolo DEF Inv
<1>3. Tipo'
  <2>1. op' \in Operaciones \union {NADA} /\ hijo' = hijo /\ fin' = fin /\ objs' = objs
    OBVIOUS
  <2> QED
    BY <1>2, <2>1 DEF Inv, Tipo
<1>4. DeLaOperacion = {} /\ DeLaOperacion' = {}
  BY DEF DeLaOperacion
<1>5. Propiedad' /\ DeObjetos' = DeObjetos
  BY <1>2, <1>4, PropiedadIgual DEF Inv
<1>6. Fd(o)' = Fd(o)
  BY DEF Fd
<1>7. EnOperacion'
  <2>1. ASSUME op' # NADA
        PROVE  op'.de \in DeObjetos' /\ (op'.paso = "todo" => fds'[Fd(o)].de # DIR)
    BY <1>1, <1>2, <1>5, <2>1
  <2>2. op' # NADA => objs'[op'.de].archivo = Fd(o)
    BY DEF Fd
  <2> QED
    BY <2>1, <2>2 DEF EnOperacion, Fd
<1> QED
  BY <1>3, <1>5, <1>7 DEF Inv

\* A step that leaves the descriptors and the objects as they are.
LEMMA SinDescriptores ==
  ASSUME Inv, UNCHANGED <<fds, objs>>, Tipo',
         DeLaOperacion = {}, DeLaOperacion' = {}, EnOperacion'
  PROVE  Inv'
<1>1. Propiedad'
  BY PropiedadIgual DEF Inv
<1> QED
  BY <1>1 DEF Inv

-------------------------------------------------------------------------------
(* The steps of the program.                                               *)

LEMMA InicioInv == ASSUME Init PROVE Inv
<1>1. Tipo
  BY DEF Init, Tipo
<1>2. DeObjetos = {} /\ DeLaOperacion = {}
  BY DEF Init, DeObjetos, DeLaOperacion
<1>3. Propiedad
  BY <1>2 DEF Init, Propiedad
<1> QED
  BY <1>1, <1>3 DEF Inv, EnOperacion, Init

LEMMA AbrirInv ==
  ASSUME Inv, NEW o \in Objs, NEW r \in Rutas, NEW modo \in Modos, Abrir(o, r, modo)
  PROVE  Inv'
<1> DEFINE opciones == OpcionesDe(modo)
<1>1. /\ opciones.intencion \in SUBSET {"lectura", "escritura"}
      /\ opciones.abrir # "error_existente"
  BY DEF OpcionesDe
<1>2. PICK f \in Fds \union {NADA} :
        /\ AbrirArchivo(r, opciones, f)
        /\ objs' = [objs EXCEPT ![o] = [archivo |-> f, liberar |-> TRUE]]
  BY DEF Abrir
<1> HIDE DEF opciones
<1>3. [archivo |-> f, liberar |-> TRUE] \in Recursos
  BY DEF Recursos
<1>4. /\ objs' \in [Objs -> Recursos \union {NADA}]
      /\ objs'[o] = [archivo |-> f, liberar |-> TRUE] /\ objs'[o] # NADA
      /\ \A p \in Objs \ {o} : objs'[p] = objs[p]
  BY <1>2, <1>3, NadaNoEsRegistro DEF Inv, Tipo
<1>5. op' = NADA /\ op = NADA /\ objs[o] = NADA /\ UNCHANGED <<hijo, fin>>
  BY DEF Abrir, Puede
<1>6. DeLaOperacion = {} /\ DeLaOperacion' = {}
  BY <1>5 DEF DeLaOperacion
<1>7. CASE f = NADA
  <2>1. UNCHANGED <<nombres, datos, fds>>
    BY <1>1, <1>2, <1>7 DEF AbrirArchivo, disco
  <2>2. DeObjetos' = DeObjetos /\ \A p \in DeObjetos : p # o /\ Fd(p)' = Fd(p)
    BY <1>4, <1>5, <1>7 DEF DeObjetos, Fd
  <2>3. Tipo'
    BY <1>4, <1>5, <2>1 DEF Inv, Tipo
  <2>4. Propiedad'
    BY <1>4, <1>6, <2>1, <2>2 DEF Inv, Propiedad, DeObjetos
  <2> QED
    BY <1>5, <2>3, <2>4 DEF Inv, EnOperacion
<1>8. CASE f # NADA
  <2>1. Open(r, Oflags(opciones), opciones.intencion, f)
    BY <1>2, <1>8 DEF AbrirArchivo
  <2>2. /\ f \in Fds /\ fds[f] = NADA
        /\ fds' \in [Fds -> Posiciones \union {NADA}]
        /\ fds'[f] # NADA
        /\ \A g \in Fds \ {f} : fds'[g] = fds[g]
        /\ nombres' \in [Rutas -> Inodos \union {DIR, NADA}]
        /\ datos' \in [Inodos -> Seq(Bytes)]
    BY <1>1, <2>1, OpenDaDescriptor DEF Inv
  <2>3. Tipo'
    BY <1>4, <1>5, <2>2 DEF Inv, Tipo
  <2>4. /\ DeObjetos' = DeObjetos \union {o} /\ o \notin DeObjetos
        /\ Fd(o)' = f /\ \A p \in DeObjetos : Fd(p)' = Fd(p)
    BY <1>4, <1>5, <1>8 DEF DeObjetos, Fd
  <2>5. \A p \in DeObjetos : Fd(p) \in Fds /\ Fd(p) # f
    BY <2>2, FdDeObjeto
  <2>6. \A p \in DeObjetos' : fds'[Fd(p)'] # NADA /\ objs'[p].liberar
    BY <1>4, <2>2, <2>4, <2>5 DEF Inv, Propiedad, DeObjetos
  <2>7. \A p, q \in DeObjetos' : Fd(p)' = Fd(q)' => p = q
    BY <2>4, <2>5 DEF Inv, Propiedad
  <2>8. \A g \in Fds : fds'[g] # NADA => \E p \in DeObjetos' : Fd(p)' = g
    BY <1>6, <2>2, <2>4 DEF Inv, Propiedad
  <2>9. Propiedad'
    BY <1>6, <2>6, <2>7, <2>8 DEF Propiedad
  <2> QED
    BY <1>5, <2>3, <2>9 DEF Inv, EnOperacion
<1> QED
  BY <1>7, <1>8

LEMMA CerrarInv ==
  ASSUME Inv, NEW o \in Objs, Cerrar(o)
  PROVE  Inv'
<1>1. o \in DeObjetos /\ op = NADA /\ op' = NADA
  BY AbiertoEsDeObjeto DEF Cerrar
<1>2. Fd(o) \in Fds /\ fds[Fd(o)] # NADA /\ objs[o] # NADA
  BY <1>1, FdDeObjeto
<1>3. /\ fds' \in [Fds -> Posiciones \union {NADA}] /\ fds'[Fd(o)] = NADA
      /\ \A g \in Fds : g # Fd(o) => fds'[g] = fds[g]
  BY <1>2 DEF Cerrar, Close, Inv, Tipo
<1>4. /\ objs' \in [Objs -> Recursos \union {NADA}] /\ objs'[o].archivo = NADA
      /\ \A p \in Objs \ {o} : objs'[p] = objs[p]
  BY <1>1 DEF Cerrar, Cerrado, Recursos, Inv, Tipo
<1>5. DeObjetos' = DeObjetos \ {o} /\ \A p \in DeObjetos \ {o} : Fd(p)' = Fd(p)
  BY <1>4 DEF DeObjetos, Fd
<1>6. \A p \in DeObjetos \ {o} : Fd(p) \in Fds /\ Fd(p) # Fd(o)
  BY <1>1, FdDeObjeto DEF Inv, Propiedad
<1>7. DeLaOperacion = {} /\ DeLaOperacion' = {}
  BY <1>1 DEF DeLaOperacion
<1>8. Propiedad'
  BY <1>1, <1>3, <1>4, <1>5, <1>6, <1>7 DEF Inv, Propiedad, DeObjetos
<1>9. Tipo'
  BY <1>1, <1>3, <1>4 DEF Cerrar, Close, disco, Inv, Tipo
<1> QED
  BY <1>1, <1>8, <1>9 DEF Inv, EnOperacion

\* Reading, writing and moving.
LEMMA LeerByteInv ==
  ASSUME Inv, NEW o \in Objs, LeerByte(o)
  PROVE  Inv'
<1>1. o \in DeObjetos /\ op = NADA /\ op' = NADA
  BY AbiertoEsDeObjeto DEF LeerByte
<1>2. Fd(o) \in Fds /\ fds[Fd(o)] # NADA /\ fds[Fd(o)].pos \in Nat /\ fds[Fd(o)].de # DIR
  BY <1>1, FdDeObjeto DEF LeerByte, PuedeLeer, Posiciones
<1>3. Len(Leido(Fd(o), 1)) \in Nat
  BY <1>2, LeidoSonBytes DEF Inv
<1>4. PICK p \in Nat : Mover(Fd(o), p)
  BY <1>2, <1>3 DEF LeerByte
<1>5. nombres' = nombres /\ datos' \in [Inodos -> Seq(Bytes)] /\ UNCHANGED <<objs, hijo, fin>>
  BY DEF LeerByte, disco, Inv, Tipo
<1> QED
  BY <1>1, <1>4, <1>5, MoverConserva

LEMMA SiguienteInv ==
  ASSUME Inv, NEW o \in Objs, ObtenerSiguiente(o)
  PROVE  Inv'
<1>1. o \in DeObjetos /\ op = NADA /\ UNCHANGED <<nombres, datos, fds, objs, hijo, fin>>
  BY AbiertoEsDeObjeto DEF ObtenerSiguiente, disco
<1>2. Fd(o) \in Fds /\ fds[Fd(o)].pos \in Nat
  BY <1>1, FdDeObjeto DEF Posiciones
<1>3. op' \in Operaciones /\ op'.paso = "siguiente" /\ op'.de = o
  BY <1>1, <1>2 DEF ObtenerSiguiente, Seguir, En, Operaciones
<1>4. Tipo'
  BY <1>1, <1>3 DEF Inv, Tipo
<1>5. DeLaOperacion = {} /\ DeLaOperacion' = {}
  BY <1>1, <1>3 DEF DeLaOperacion
<1>6. EnOperacion'
  BY <1>1, <1>3 DEF EnOperacion, DeObjetos, Fd
<1> QED
  BY <1>1, <1>4, <1>5, <1>6, SinDescriptores

LEMMA SiguienteLeerInv ==
  ASSUME Inv, SiguienteLeer
  PROVE  Inv'
<1> DEFINE o == op.de
<1>1. o \in DeObjetos /\ op # NADA /\ op.paso = "siguiente"
  BY DEF SiguienteLeer, Inv, EnOperacion
<1>2. Fd(o) \in Fds /\ fds[Fd(o)] # NADA /\ fds[Fd(o)].pos \in Nat /\ fds[Fd(o)].de # DIR
  BY <1>1, FdDeObjeto DEF SiguienteLeer, PuedeLeer, Posiciones
<1>3. Len(Leido(Fd(o), 1)) \in Nat
  BY <1>2, LeidoSonBytes DEF Inv
<1>4. PICK p \in Nat : Mover(Fd(o), p)
  BY <1>2, <1>3 DEF SiguienteLeer
<1>5. nombres' = nombres /\ datos' \in [Inodos -> Seq(Bytes)] /\ UNCHANGED <<objs, hijo, fin>>
  BY DEF SiguienteLeer, disco, Inv, Tipo
<1>6. op \in Operaciones
  BY <1>1 DEF Inv, Tipo
<1>7. op' \in Operaciones /\ op'.de = o /\ op'.paso = "volver"
  BY <1>6 DEF SiguienteLeer, En, Operaciones
<1> HIDE DEF o
<1> QED
  BY <1>1, <1>4, <1>5, <1>7, MoverConserva

LEMMA SiguienteVolverInv ==
  ASSUME Inv, SiguienteVolver
  PROVE  Inv'
<1> DEFINE o == op.de
<1>1. o \in DeObjetos /\ op # NADA /\ op.paso = "volver" /\ op' = NADA
  BY DEF SiguienteVolver, Inv, EnOperacion
<1>2. op \in Operaciones
  BY <1>1 DEF Inv, Tipo
<1>3. PICK p \in Nat : Mover(Fd(o), p)
  BY <1>2 DEF SiguienteVolver, Operaciones
<1>4. nombres' = nombres /\ datos' \in [Inodos -> Seq(Bytes)] /\ UNCHANGED <<objs, hijo, fin>>
  BY DEF SiguienteVolver, disco, Inv, Tipo
<1> HIDE DEF o
<1> QED
  BY <1>1, <1>3, <1>4, MoverConserva

LEMMA LeerTodoInv ==
  ASSUME Inv, NEW o \in Objs, LeerTodo(o)
  PROVE  Inv'
<1>1. o \in DeObjetos /\ op = NADA /\ UNCHANGED <<nombres, datos, fds, objs, hijo, fin>>
  BY AbiertoEsDeObjeto DEF LeerTodo, disco
<1>2. Fd(o) \in Fds /\ fds[Fd(o)].pos \in Nat /\ fds[Fd(o)].de # DIR
  BY <1>1, FdDeObjeto DEF Posiciones, LeerTodo, PuedeLeer
<1>3. op' \in Operaciones /\ op'.paso = "todo" /\ op'.de = o
  BY <1>1, <1>2 DEF LeerTodo, Seguir, En, Operaciones
<1>4. Tipo'
  BY <1>1, <1>3 DEF Inv, Tipo
<1>5. DeLaOperacion = {} /\ DeLaOperacion' = {}
  BY <1>1, <1>3 DEF DeLaOperacion
<1>6. EnOperacion'
  BY <1>1, <1>2, <1>3 DEF EnOperacion, DeObjetos, Fd
<1> QED
  BY <1>1, <1>4, <1>5, <1>6, SinDescriptores

LEMMA TodoLeerInv ==
  ASSUME Inv, TodoLeer
  PROVE  Inv'
<1> DEFINE o == op.de
           leido == Leido(Fd(o), Cap)
<1>1. o \in DeObjetos /\ op # NADA /\ op.paso = "todo" /\ fds[Fd(o)].de # DIR
  BY DEF TodoLeer, Inv, EnOperacion
<1>2. Fd(o) \in Fds /\ fds[Fd(o)] # NADA /\ fds[Fd(o)].pos \in Nat
  BY <1>1, FdDeObjeto DEF Posiciones
<1>3. leido \in Seq(Bytes) /\ Len(leido) \in Nat
  BY <1>1, <1>2, LeidoSonBytes, CapPositivo DEF Inv
<1>4. op \in Operaciones /\ op.leido \in Seq(Bytes)
  BY <1>1 DEF Inv, Tipo, Operaciones
<1>5. op.leido \o leido \in Seq(Bytes)
  BY <1>3, <1>4
<1>6. PICK p \in Nat : Mover(Fd(o), p)
  BY <1>2, <1>3 DEF TodoLeer
<1>7. nombres' = nombres /\ datos' \in [Inodos -> Seq(Bytes)] /\ UNCHANGED <<objs, hijo, fin>>
  BY DEF TodoLeer, disco, Inv, Tipo
<1> HIDE DEF leido
<1>8. op' = NADA \/ op' = En("todo", o, op.pos, op.leido \o leido)
  BY DEF TodoLeer, Completar, Seguir, leido
<1>9. op.pos \in Nat /\ o \in Objs
  BY <1>1, <1>4, FdDeObjeto DEF Operaciones
<1> HIDE DEF o
<1>10. En("todo", o, op.pos, op.leido \o leido) \in Operaciones
  BY <1>5, <1>9 DEF En, Operaciones
<1>11. op' # NADA => op' \in Operaciones /\ op'.de = o /\ op'.paso = "todo"
  <2>1. /\ En("todo", o, op.pos, op.leido \o leido).de = o
        /\ En("todo", o, op.pos, op.leido \o leido).paso = "todo"
    BY DEF En
  <2> QED
    BY <1>8, <1>10, <2>1
<1> QED
  BY <1>1, <1>6, <1>7, <1>11, MoverConserva

LEMMA EscribirInv ==
  ASSUME Inv, NEW o \in Objs, NEW s \in Textos, Escribir(o, s)
  PROVE  Inv'
<1>1. o \in DeObjetos /\ op = NADA /\ op' = NADA
  BY AbiertoEsDeObjeto DEF Escribir
<1>2. Fd(o) \in Fds /\ fds[Fd(o)] # NADA /\ fds[Fd(o)].pos \in Nat
      /\ fds[Fd(o)].de \in Inodos /\ s \in Seq(Bytes) /\ Len(s) \in Nat
  BY <1>1, FdDeObjeto, TextosSonBytes DEF Escribir, PuedeEscribir, Posiciones
<1>3. PICK p \in Nat : Mover(Fd(o), p)
  BY <1>2 DEF Escribir
<1>4. datos' \in [Inodos -> Seq(Bytes)]
  <2>1. \A n \in 0..Len(s) : SubSeq(s, 1, n) \in Seq(Bytes)
    BY <1>2
  <2>2. datos[fds[Fd(o)].de] \in Seq(Bytes) /\ SubSeq(s, 1, Len(s)) \in Seq(Bytes)
    BY <1>2, <2>1 DEF Inv, Tipo
  <2>3. Escrito(datos[fds[Fd(o)].de], fds[Fd(o)].pos, SubSeq(s, 1, Len(s))) \in Seq(Bytes)
    BY ONLY <1>2, <2>2, EscritoSonBytes
  <2> QED
    BY <1>2, <2>2, <2>3 DEF Escribir, Escribe, Inv, Tipo
<1>5. nombres' = nombres /\ UNCHANGED <<objs, hijo, fin>>
  BY DEF Escribir
<1> QED
  BY <1>1, <1>3, <1>4, <1>5, MoverConserva

LEMMA CambiarPosicionInv ==
  ASSUME Inv, NEW o \in Objs, NEW p \in 0..MaxTam, CambiarPosicion(o, p)
  PROVE  Inv'
<1>1. o \in DeObjetos /\ op = NADA /\ op' = NADA /\ p \in Nat /\ Mover(Fd(o), p)
  BY AbiertoEsDeObjeto, TamNatural DEF CambiarPosicion
<1>2. nombres' = nombres /\ datos' \in [Inodos -> Seq(Bytes)] /\ UNCHANGED <<objs, hijo, fin>>
  BY DEF CambiarPosicion, disco, Inv, Tipo
<1> QED
  BY <1>1, <1>2, MoverConserva

\* Directories.
LEMMA CrearDirectorioInv ==
  ASSUME Inv, NEW r \in Rutas, CrearDirectorio(r)
  PROVE  Inv'
<1>1. /\ nombres' \in [Rutas -> Inodos \union {DIR, NADA}]
      /\ UNCHANGED <<datos, fds, objs, hijo, fin>> /\ op = NADA
  BY DEF CrearDirectorio, Mkdir, Puede, Inv, Tipo
<1>2. op' \in Operaciones /\ op'.paso = "abrir_dir" /\ op'.de = r
  <2>1. op' = En("abrir_dir", r, 0, <<>>)
    BY DEF CrearDirectorio, Seguir
  <2> QED
    BY <2>1 DEF En, Operaciones
<1>3. Tipo'
  BY <1>1, <1>2 DEF Inv, Tipo
<1>4. DeLaOperacion = {} /\ DeLaOperacion' = {}
  BY <1>1, <1>2 DEF DeLaOperacion
<1>5. EnOperacion'
  BY <1>2 DEF EnOperacion
<1> QED
  BY <1>1, <1>3, <1>4, <1>5, SinDescriptores

LEMMA DirectorioAbrirInv ==
  ASSUME Inv, DirectorioAbrir
  PROVE  Inv'
<1>1. op # NADA /\ op.paso = "abrir_dir" /\ op.de \in Rutas
  BY DEF DirectorioAbrir, Inv, EnOperacion
<1>2. PICK f \in Fds : /\ Open(op.de, {"O_DIRECTORY"}, {"lectura"}, f)
                       /\ op' = En("cerrar_dir", f, 0, <<>>)
  BY DEF DirectorioAbrir, Seguir
<1>3. /\ fds[f] = NADA
      /\ fds' \in [Fds -> Posiciones \union {NADA}]
      /\ fds'[f] # NADA
      /\ \A g \in Fds \ {f} : fds'[g] = fds[g]
      /\ nombres' \in [Rutas -> Inodos \union {DIR, NADA}]
      /\ datos' \in [Inodos -> Seq(Bytes)]
  BY <1>1, <1>2, OpenDaDescriptor DEF Inv
<1>4. op' \in Operaciones /\ op' # NADA /\ op'.paso = "cerrar_dir" /\ op'.de = f
  <2>1. En("cerrar_dir", f, 0, <<>>) \in Operaciones
    BY DEF En, Operaciones
  <2>2. En("cerrar_dir", f, 0, <<>>).paso = "cerrar_dir" /\ En("cerrar_dir", f, 0, <<>>).de = f
    BY DEF En
  <2> QED
    BY <1>2, <2>1, <2>2, NadaNoEsRegistro
<1>5. UNCHANGED <<objs, hijo, fin>>
  BY DEF DirectorioAbrir
<1>6. Tipo'
  BY <1>3, <1>4, <1>5 DEF Inv, Tipo
<1>7. DeLaOperacion = {} /\ DeLaOperacion' = {f}
  BY <1>1, <1>4 DEF DeLaOperacion
<1>8. DeObjetos' = DeObjetos /\ \A p \in Objs : Fd(p)' = Fd(p)
  BY <1>5 DEF DeObjetos, Fd
<1>9. \A p \in DeObjetos : p \in Objs /\ Fd(p) \in Fds /\ Fd(p) # f
  BY <1>3, FdDeObjeto
<1>10. Propiedad'
  BY <1>3, <1>5, <1>7, <1>8, <1>9 DEF Inv, Propiedad
<1>11. EnOperacion'
  BY <1>2, <1>4 DEF EnOperacion
<1> QED
  BY <1>6, <1>10, <1>11 DEF Inv

LEMMA DirectorioCerrarInv ==
  ASSUME Inv, DirectorioCerrar
  PROVE  Inv'
<1> DEFINE f == op.de
<1>1. f \in Fds /\ DeLaOperacion = {f} /\ DeLaOperacion' = {} /\ op' = NADA
  BY DEF DirectorioCerrar, Completar, Inv, EnOperacion, DeLaOperacion
<1>2. fds' = [fds EXCEPT ![f] = NADA] /\ UNCHANGED <<nombres, datos, objs, hijo, fin>>
  BY DEF DirectorioCerrar, Close, disco
<1> HIDE DEF f
<1>3. /\ fds' \in [Fds -> Posiciones \union {NADA}] /\ fds'[f] = NADA
      /\ \A g \in Fds : g # f => fds'[g] = fds[g]
  BY <1>1, <1>2 DEF Inv, Tipo
<1>4. Tipo'
  BY <1>1, <1>2, <1>3 DEF Inv, Tipo
<1>5. DeObjetos' = DeObjetos /\ \A p \in Objs : Fd(p)' = Fd(p)
  BY <1>2 DEF DeObjetos, Fd
<1>6. \A p \in DeObjetos : p \in Objs /\ Fd(p) \in Fds /\ Fd(p) # f
  BY <1>1, FdDeObjeto DEF Inv, Propiedad
<1>7. Propiedad'
  BY <1>1, <1>2, <1>3, <1>5, <1>6 DEF Inv, Propiedad
<1> QED
  BY <1>1, <1>4, <1>7 DEF Inv, EnOperacion

LEMMA BorrarRutaInv ==
  ASSUME Inv, NEW r \in Rutas, BorrarRuta(r)
  PROVE  Inv'
<1>1. /\ nombres' \in [Rutas -> Inodos \union {DIR, NADA}]
      /\ UNCHANGED <<datos, fds, objs, op, hijo, fin>> /\ op = NADA
  BY DEF BorrarRuta, Borrar, Puede, Inv, Tipo
<1> QED
  BY <1>1, SinDescriptores DEF Inv, Tipo, DeLaOperacion, EnOperacion

\* The child process.
LEMMA EjecutarInv ==
  ASSUME Inv, Ejecutar
  PROVE  Inv'
<1>1. UNCHANGED <<nombres, datos, fds, objs, fin>> /\ op = NADA /\ hijo' = "corre"
  BY DEF Ejecutar, Puede, disco
<1>2. op' \in Operaciones /\ op'.paso = "esperar"
  <2>1. op' = En("esperar", NADA, 0, <<>>)
    BY DEF Ejecutar, Seguir
  <2> QED
    BY <2>1 DEF En, Operaciones
<1>3. Tipo'
  BY <1>1, <1>2 DEF Inv, Tipo
<1>4. DeLaOperacion = {} /\ DeLaOperacion' = {} /\ EnOperacion'
  BY <1>1, <1>2 DEF DeLaOperacion, EnOperacion
<1> QED
  BY <1>1, <1>3, <1>4, SinDescriptores

LEMMA EsperarInv ==
  ASSUME Inv, Esperar
  PROVE  Inv'
<1>1. /\ UNCHANGED <<nombres, datos, fds, objs, fin>> /\ hijo' = NADA
      /\ op' = NADA /\ op.paso = "esperar"
  BY DEF Esperar, Completar, disco
<1>2. Tipo'
  BY <1>1 DEF Inv, Tipo
<1>3. DeLaOperacion = {} /\ DeLaOperacion' = {} /\ EnOperacion'
  BY <1>1 DEF DeLaOperacion, EnOperacion
<1> QED
  BY <1>1, <1>2, <1>3, SinDescriptores

-------------------------------------------------------------------------------
(* The steps that change the objects, and those of the others.             *)

LEMMA RecolectarInv ==
  ASSUME Inv, Recolectar
  PROVE  Inv'
<1>1. UNCHANGED <<nombres, datos, fds, op, hijo, fin>> /\ op = NADA
  BY DEF Recolectar, Puede, disco
<1>2. /\ objs' \in [Objs -> Recursos \union {NADA}]
      /\ \A o \in Objs : objs'[o] = IF objs[o] # NADA /\ ~objs[o].liberar THEN NADA
                                    ELSE objs[o]
  BY DEF Recolectar, Inv, Tipo
<1>3. DeObjetos' = DeObjetos /\ \A o \in DeObjetos : objs'[o] = objs[o] /\ Fd(o)' = Fd(o)
  BY <1>2 DEF DeObjetos, Fd, Inv, Propiedad
<1>4. Tipo'
  BY <1>1, <1>2 DEF Inv, Tipo
<1>5. DeLaOperacion' = DeLaOperacion
  BY <1>1 DEF DeLaOperacion
<1>6. Propiedad'
  BY <1>1, <1>3, <1>5 DEF Inv, Propiedad
<1> QED
  BY <1>1, <1>4, <1>6 DEF Inv, EnOperacion

\* When nothing is open and no object has a file.
LEMMA TodoCerrado ==
  ASSUME fds' \in [Fds -> {NADA}], objs' \in [Objs -> {NADA}], op' = NADA
  PROVE  Propiedad' /\ EnOperacion'
<1>1. DeObjetos' = {} /\ DeLaOperacion' = {}
  BY DEF DeObjetos, DeLaOperacion
<1> QED
  BY <1>1 DEF Propiedad, EnOperacion

LEMMA SalirInv ==
  ASSUME Inv, Salir
  PROVE  Inv'
<1>1. UNCHANGED <<nombres, datos, hijo>> /\ op = NADA /\ op' = NADA /\ fin' = "ok"
  BY DEF Salir, Puede, disco
<1>2. \A f \in Fds : fds[f] # NADA => \E o \in PorLiberar : Fd(o) = f
  BY <1>1 DEF Inv, Propiedad, DeLaOperacion, DeObjetos, PorLiberar
<1>3. fds' \in [Fds -> {NADA}] /\ objs' \in [Objs -> {NADA}]
  BY <1>2 DEF Salir
<1>4. Tipo'
  BY <1>1, <1>3 DEF Inv, Tipo
<1> QED
  BY <1>1, <1>3, <1>4, TodoCerrado DEF Inv

LEMMA FallarInv ==
  ASSUME Inv, Fallar
  PROVE  Inv'
<1>1. /\ fds' \in [Fds -> {NADA}] /\ objs' \in [Objs -> {NADA}]
      /\ op' = NADA /\ hijo' = NADA /\ fin' = "error" /\ nombres' = nombres
  BY DEF Fallar
<1>2. datos' \in [Inodos -> Seq(Bytes)]
  <2>1. CASE datos' = datos
    BY <2>1 DEF Inv, Tipo
  <2>2. ASSUME NEW o \in Objs, NEW s \in Textos, NEW n \in 1..Len(s) - 1,
               Abierto(o), PuedeEscribir(Fd(o)), Escribe(Fd(o), s, n)
        PROVE  datos' \in [Inodos -> Seq(Bytes)]
    <3>1. o \in DeObjetos
      BY <2>2, AbiertoEsDeObjeto
    <3>2. fds[Fd(o)].pos \in Nat /\ fds[Fd(o)].de \in Inodos /\ s \in Seq(Bytes)
      BY <2>2, <3>1, FdDeObjeto, TextosSonBytes DEF PuedeEscribir, Posiciones
    <3>3. datos[fds[Fd(o)].de] \in Seq(Bytes) /\ SubSeq(s, 1, n) \in Seq(Bytes)
      BY <3>2 DEF Inv, Tipo
    <3>4. Escrito(datos[fds[Fd(o)].de], fds[Fd(o)].pos, SubSeq(s, 1, n)) \in Seq(Bytes)
      BY ONLY <3>2, <3>3, EscritoSonBytes
    <3> QED
      BY <2>2, <3>2, <3>3, <3>4 DEF Escribe, Inv, Tipo
  <2> QED
    BY <2>1, <2>2 DEF Fallar
<1>3. Tipo'
  BY <1>1, <1>2 DEF Inv, Tipo
<1> QED
  BY <1>1, <1>3, TodoCerrado DEF Inv

LEMMA AfueraInv ==
  ASSUME Inv, Afuera
  PROVE  Inv'
<1>1. UNCHANGED <<fds, objs, op, fin>>
  BY DEF Afuera, PasoDelHijo, OtroPrograma
<1>2. hijo' \in {"corre", "parado", "salio", "muerto", NADA}
  BY DEF Afuera, PasoDelHijo, Inv, Tipo
<1>3. nombres' \in [Rutas -> Inodos \union {DIR, NADA}] /\ datos' \in [Inodos -> Seq(Bytes)]
  <2>1. <<>> \in Seq(Bytes)
    OBVIOUS
  <2>2. \A d \in Contenidos : d \in Seq(Bytes)
    BY ContenidosSon
  <2>3. CASE PasoDelHijo
    BY <2>3 DEF PasoDelHijo, disco, Inv, Tipo
  <2>4. ASSUME NEW r \in Rutas, NEW i \in InodosLibres,
               nombres' = [nombres EXCEPT ![r] = i], datos' = [datos EXCEPT ![i] = <<>>]
        PROVE  nombres' \in [Rutas -> Inodos \union {DIR, NADA}]
               /\ datos' \in [Inodos -> Seq(Bytes)]
    BY <2>1, <2>4 DEF InodosLibres, Inv, Tipo
  <2>5. ASSUME NEW i \in Inodos, NEW d \in Contenidos, nombres' = nombres,
               datos' = [datos EXCEPT ![i] = d]
        PROVE  nombres' \in [Rutas -> Inodos \union {DIR, NADA}]
               /\ datos' \in [Inodos -> Seq(Bytes)]
    BY <2>2, <2>5 DEF Inv, Tipo
  <2>6. ASSUME NEW r \in Rutas, datos' = datos,
               \/ nombres' = [nombres EXCEPT ![r] = DIR]
               \/ nombres' = [nombres EXCEPT ![r] = NADA]
        PROVE  nombres' \in [Rutas -> Inodos \union {DIR, NADA}]
               /\ datos' \in [Inodos -> Seq(Bytes)]
    BY <2>6 DEF Inv, Tipo
  <2>7. CASE OtroPrograma
    BY <2>4, <2>5, <2>6, <2>7 DEF OtroPrograma
  <2> QED
    BY <2>3, <2>7 DEF Afuera
<1>4. Tipo'
  BY <1>1, <1>2, <1>3 DEF Inv, Tipo
<1>5. DeLaOperacion' = DeLaOperacion /\ DeObjetos' = DeObjetos /\ EnOperacion'
  BY <1>1 DEF DeLaOperacion, DeObjetos, Fd, Inv, EnOperacion
<1>6. DeLaOperacion \subseteq Fds
  BY DEF DeLaOperacion, Inv, EnOperacion
<1>7. Propiedad'
  BY <1>1, <1>5, <1>6, PropiedadIgual DEF Inv
<1> QED
  BY <1>4, <1>5, <1>7 DEF Inv

-------------------------------------------------------------------------------
LEMMA PasoInv == ASSUME Inv, [Next]_vars PROVE Inv'
<1>1. CASE Avanzar
  BY <1>1, SiguienteLeerInv, SiguienteVolverInv, TodoLeerInv, DirectorioAbrirInv,
     DirectorioCerrarInv, EsperarInv DEF Avanzar
<1>2. CASE Programa
  BY <1>2, AbrirInv, CerrarInv, LeerByteInv, SiguienteInv, LeerTodoInv, EscribirInv,
     CambiarPosicionInv, CrearDirectorioInv, BorrarRutaInv, EjecutarInv, RecolectarInv,
     SalirInv, FallarInv DEF Programa
<1>3. CASE Afuera
  BY <1>3, AfueraInv
<1>4. CASE UNCHANGED vars
  BY <1>4 DEF vars, Inv, Tipo, Propiedad, EnOperacion, DeObjetos, DeLaOperacion, Fd
<1> QED
  BY <1>1, <1>2, <1>3, <1>4 DEF Next

\* What is invariant of pdcrt_recv_archivo and of the operations of the runtime.
THEOREM InvSiempre == Spec => []Inv
<1>1. Init => Inv
  BY InicioInv
<1>2. Inv /\ [Next]_vars => Inv'
  BY PasoInv
<1> QED
  BY <1>1, <1>2, PTL DEF Spec

\* No descriptor is lost, shared, or used after it was closed.
THEOREM PropiedadSiempre == Spec => []Propiedad
<1>1. Inv => Propiedad
  BY DEF Inv
<1> QED
  BY <1>1, InvSiempre, PTL

-------------------------------------------------------------------------------
(* Archivo implements Fichero.                                             *)

\* s is what d has after position p, and every byte of s was seen in its place.
Parte(s, d, p) == \A k \in 1..Len(s) : s[k] = d[p + k]
Visto(s, p, v) == \A k \in 1..Len(s) : <<p + k, s[k]>> \in v

\* No file is longer than the bound.
Cortos == \A i \in Inodos : Len(datos[i]) <= MaxTam

\* The history is about the file that is being read, and holds what is in it.
Memoria ==
  /\ vistos \subseteq (1..MaxTam) \X Bytes
  /\ Leyendo = NADA => vistos = {}
  /\ Leyendo # NADA => Puestos(datos[fds[Fd(Leyendo)].de]) \subseteq vistos

\* What an operation in progress has read was seen after the place where it
\* began, and nothing is delivered yet.
InvLeido ==
  op # NADA =>
    /\ op.paso = "siguiente" => op.pos = fds[Fd(op.de)].pos
    /\ op.paso = "todo" =>
         /\ "lectura" \in fds[Fd(op.de)].modo
         /\ Len(op.leido) = fds[Fd(op.de)].pos - op.pos
         /\ Visto(op.leido, op.pos, vistos)
         /\ dado = <<>>

\* The steps that Fichero does not see.
Quieto == UNCHANGED <<nombres, datos, Cursores, dado, Leyendo>>

\* The cursor of an object with a file.
LEMMA CursorDeObjeto ==
  ASSUME Inv, NEW o \in DeObjetos
  PROVE  /\ Cursores[o] = [de |-> fds[Fd(o)].de, pos |-> Posicion(o), modo |-> fds[Fd(o)].modo]
         /\ Cursores[o] \in Posiciones /\ Cursores[o] # NADA /\ Posicion(o) \in Nat
<1>1. o \in Objs /\ fds[Fd(o)] \in Posiciones
  BY FdDeObjeto
<1>2. EnMedio(o) => op.pos \in Nat
  BY DEF EnMedio, Inv, Tipo, Operaciones
<1>3. Posicion(o) \in Nat
  BY <1>1, <1>2 DEF Posicion, Posiciones
<1> QED
  BY <1>1, <1>3, NadaNoEsRegistro DEF Cursores, Posiciones

LEMMA CursorSinArchivo ==
  ASSUME NEW o \in Objs, o \notin DeObjetos
  PROVE  Cursores[o] = NADA
  BY DEF Cursores

LEMMA CursoresIguales ==
  ASSUME DeObjetos' = DeObjetos,
         \A o \in DeObjetos : /\ fds'[Fd(o)'].de = fds[Fd(o)].de
                              /\ fds'[Fd(o)'].modo = fds[Fd(o)].modo
                              /\ Posicion(o)' = Posicion(o)
  PROVE  Cursores' = Cursores
  BY DEF Cursores

\* Nobody is in the middle of an operation on a file, before or after the step.
LEMMA CursoresQuietos ==
  ASSUME UNCHANGED <<fds, objs>>, \A o \in Objs : ~EnMedio(o) /\ ~EnMedio(o)'
  PROVE  Cursores' = Cursores
<1>1. DeObjetos' = DeObjetos /\ DeObjetos \subseteq Objs
  BY DEF DeObjetos, Fd
<1>2. \A o \in DeObjetos : Posicion(o)' = Posicion(o) /\ Fd(o)' = Fd(o)
  BY <1>1 DEF Posicion, Fd
<1> QED
  BY <1>1, <1>2, CursoresIguales

\* Moving the descriptor of an object moves its cursor, and no other.
LEMMA CursorAlMover ==
  ASSUME Inv, NEW o \in DeObjetos, NEW p \in Nat, Mover(Fd(o), p), objs' = objs,
         op = NADA \/ EnMedio(o), op' = NADA \/ EnMedio(o)',
         NEW q \in Nat, q = IF EnMedio(o)' THEN op'.pos ELSE p
  PROVE  Cursores' = [Cursores EXCEPT ![o] = [Cursores[o] EXCEPT !.pos = q]]
<1>1. Fd(o) \in Fds /\ fds[Fd(o)] # NADA /\ o \in Objs
  BY FdDeObjeto
<1>2. /\ fds'[Fd(o)] = [de |-> fds[Fd(o)].de, pos |-> p, modo |-> fds[Fd(o)].modo]
      /\ \A g \in Fds \ {Fd(o)} : fds'[g] = fds[g]
  BY <1>1, MoverSolo DEF Inv
<1>3. DeObjetos' = DeObjetos /\ \A n \in Objs : Fd(n)' = Fd(n)
  BY DEF DeObjetos, Fd
<1>4. \A n \in DeObjetos \ {o} :
        /\ n \in Objs /\ Fd(n) \in Fds \ {Fd(o)}
        /\ ~EnMedio(n) /\ ~EnMedio(n)'
  BY FdDeObjeto DEF EnMedio, Inv, Propiedad
<1>5. \A n \in Objs \ {o} : Cursores'[n] = Cursores[n]
  BY <1>2, <1>3, <1>4 DEF Cursores, Posicion
<1>6. Posicion(o)' = q
  BY <1>1, <1>2, <1>3 DEF Posicion
<1>7. Cursores'[o] = [de |-> fds[Fd(o)].de, pos |-> q, modo |-> fds[Fd(o)].modo]
  BY <1>1, <1>2, <1>3, <1>6 DEF Cursores
<1>8. Cursores'[o] = [Cursores[o] EXCEPT !.pos = q]
  <2>1. Cursores[o] = [de |-> fds[Fd(o)].de, pos |-> Posicion(o), modo |-> fds[Fd(o)].modo]
    BY CursorDeObjeto
  <2>2. [Cursores[o] EXCEPT !.pos = q] = [de |-> fds[Fd(o)].de, pos |-> q, modo |-> fds[Fd(o)].modo]
    BY ONLY <2>1
  <2> QED
    BY <1>7, <2>2
<1> QED
  BY <1>1, <1>5, <1>8 DEF Cursores

\* Parts of a sequence, and two sequences together.
LEMMA Subsecuencia ==
  ASSUME NEW S, NEW s \in Seq(S), NEW m \in Nat, NEW n \in Nat, n <= Len(s)
  PROVE  /\ SubSeq(s, m + 1, n) \in Seq(S)
         /\ Len(SubSeq(s, m + 1, n)) = IF m <= n THEN n - m ELSE 0
         /\ \A k \in 1..Len(SubSeq(s, m + 1, n)) : SubSeq(s, m + 1, n)[k] = s[m + k]
  OBVIOUS

LEMMA Concatenacion ==
  ASSUME NEW S, NEW s \in Seq(S), NEW t \in Seq(S)
  PROVE  /\ s \o t \in Seq(S) /\ Len(s \o t) = Len(s) + Len(t)
         /\ \A k \in 1..Len(s) : (s \o t)[k] = s[k]
         /\ \A k \in 1..Len(s \o t) : k > Len(s) => (s \o t)[k] = t[k - Len(s)]
  OBVIOUS

LEMMA SecuenciasIguales ==
  ASSUME NEW S, NEW s \in Seq(S), NEW t \in Seq(S), Len(s) = Len(t),
         \A k \in 1..Len(s) : s[k] = t[k]
  PROVE  s = t
  OBVIOUS

\* The bytes a read delivers.
LEMMA SiguientesSon ==
  ASSUME NEW d \in Seq(Bytes), NEW q \in Nat, NEW n \in Nat
  PROVE  LET s == SubSeq(d, q + 1, Min({q + n, Len(d)}))
         IN  /\ s \in Seq(Bytes)
             /\ Len(s) = IF q > Len(d) THEN 0 ELSE IF q + n <= Len(d) THEN n ELSE Len(d) - q
             /\ \A k \in 1..Len(s) : s[k] = d[q + k]
<1>1. PICK m \in Nat : m = Min({q + n, Len(d)}) /\ m = IF q + n <= Len(d) THEN q + n ELSE Len(d)
  BY MinDeDos
<1>2. /\ SubSeq(d, q + 1, m) \in Seq(Bytes)
      /\ Len(SubSeq(d, q + 1, m)) = IF q <= m THEN m - q ELSE 0
      /\ \A k \in 1..Len(SubSeq(d, q + 1, m)) : SubSeq(d, q + 1, m)[k] = d[q + k]
  <2>1. m <= Len(d)
    BY <1>1
  <2> QED
    BY ONLY <2>1, m \in Nat, Subsecuencia
<1> DEFINE s == SubSeq(d, q + 1, m)
<1>3. Len(d) \in Nat
  OBVIOUS
<1>4. Len(s) = IF q > Len(d) THEN 0 ELSE IF q + n <= Len(d) THEN n ELSE Len(d) - q
  BY <1>1, <1>2, <1>3
<1>5. s = SubSeq(d, q + 1, Min({q + n, Len(d)}))
  BY <1>1
<1> HIDE DEF s
<1> QED
  BY ONLY <1>2, <1>4, <1>5 DEF s

LEMMA LeidoSon ==
  ASSUME Inv, NEW f \in Fds, fds[f] # NADA, fds[f].de # DIR, NEW n \in Nat
  PROVE  LET d == datos[fds[f].de]
             q == fds[f].pos
         IN  /\ d \in Seq(Bytes) /\ q \in Nat
             /\ Leido(f, n) = SubSeq(d, q + 1, Min({q + n, Len(d)}))
             /\ Leido(f, n) \in Seq(Bytes)
             /\ Len(Leido(f, n)) =
                  IF q > Len(d) THEN 0 ELSE IF q + n <= Len(d) THEN n ELSE Len(d) - q
             /\ Parte(Leido(f, n), d, q)
<1>1. datos[fds[f].de] \in Seq(Bytes) /\ fds[f].pos \in Nat
  BY DEF Inv, Tipo, Posiciones
<1> QED
  BY <1>1, SiguientesSon DEF Leido, Parte

\* The bytes of a part were in the file.
LEMMA ParteVista ==
  ASSUME NEW d \in Seq(Bytes), NEW q \in Nat, NEW t \in Seq(Bytes), Parte(t, d, q),
         Len(t) = 0 \/ q + Len(t) <= Len(d)
  PROVE  Visto(t, q, Puestos(d))
<1>1. ASSUME NEW k \in 1..Len(t) PROVE <<q + k, t[k]>> \in Puestos(d)
  <2>1. q + k \in DOMAIN d /\ t[k] = d[q + k]
    BY DEF Parte
  <2> QED
    BY <2>1 DEF Puestos
<1> QED
  BY <1>1 DEF Visto

\* Reading more after what was read.
LEMMA LeerMas ==
  ASSUME NEW p \in Nat, NEW q \in Nat, NEW v,
         NEW s \in Seq(Bytes), NEW t \in Seq(Bytes),
         Len(s) = q - p, Visto(s, p, v), Visto(t, q, v)
  PROVE  s \o t \in Seq(Bytes) /\ Len(s \o t) = q - p + Len(t) /\ Visto(s \o t, p, v)
<1>1. /\ s \o t \in Seq(Bytes) /\ Len(s \o t) = Len(s) + Len(t)
      /\ \A k \in 1..Len(s) : (s \o t)[k] = s[k]
      /\ \A k \in 1..Len(s \o t) : k > Len(s) => (s \o t)[k] = t[k - Len(s)]
  BY ONLY Concatenacion, s \in Seq(Bytes), t \in Seq(Bytes)
<1>2. ASSUME NEW k \in 1..Len(s \o t) PROVE <<p + k, (s \o t)[k]>> \in v
  <2>1. CASE k <= Len(s)
    <3>1. k \in 1..Len(s) /\ (s \o t)[k] = s[k]
      BY <1>1, <2>1
    <3> QED
      BY <3>1 DEF Visto
  <2>2. CASE k > Len(s)
    <3>1. (s \o t)[k] = t[k - Len(s)] /\ k - Len(s) \in 1..Len(t)
      <4>1. Len(s) \in Nat /\ Len(t) \in Nat /\ k \in Nat
        OBVIOUS
      <4> QED
        BY ONLY <1>1, <2>2, <4>1, k \in 1..Len(s \o t)
    <3>2. q + (k - Len(s)) = p + k
      OBVIOUS
    <3> QED
      BY <3>1, <3>2 DEF Visto
  <2>3. k \in Nat /\ Len(s) \in Nat
    OBVIOUS
  <2> QED
    BY ONLY <2>1, <2>2, <2>3
<1> QED
  BY <1>1, <1>2 DEF Visto

LEMMA InicioLeido == ASSUME Init PROVE Cortos /\ Memoria /\ InvLeido
  BY TamNatural DEF Init, Cortos, Memoria, InvLeido, Leyendo

\* No step makes a file longer than the bound.
LEMMA CortosPaso ==
  ASSUME Inv, Cortos, Programa \/ Avanzar \/ Afuera
  PROVE  Cortos'
<1>1. ASSUME datos' = datos PROVE Cortos'
  BY <1>1 DEF Cortos
<1>2. ASSUME NEW i \in Inodos, NEW d, Len(d) <= MaxTam, datos' = [datos EXCEPT ![i] = d]
      PROVE  Cortos'
  BY <1>2 DEF Cortos, Inv, Tipo
<1>3. ASSUME NEW i \in Inodos, datos' = [datos EXCEPT ![i] = <<>>]
      PROVE  Cortos'
  <2>1. Len(<<>>) <= MaxTam
    BY TamNatural
  <2> QED
    BY <1>2, <1>3, <2>1
<1>4. ASSUME NEW r, NEW oflags, NEW modo, NEW f, Open(r, oflags, modo, f)
      PROVE  Cortos'
  BY <1>1, <1>3, <1>4 DEF Open, InodosLibres, disco
<1>5. ASSUME NEW o \in Objs, NEW s \in Seq(Bytes), NEW n \in 0..Len(s), Abierto(o),
             PuedeEscribir(Fd(o)), fds[Fd(o)].pos + n <= MaxTam, Escribe(Fd(o), s, n)
      PROVE  Cortos'
  <2>1. /\ fds[Fd(o)].pos \in Nat /\ fds[Fd(o)].de \in Inodos
        /\ datos[fds[Fd(o)].de] \in Seq(Bytes)
    BY <1>5, AbiertoEsDeObjeto, FdDeObjeto DEF PuedeEscribir, Posiciones, Inv, Tipo
  <2>2. SubSeq(s, 1, n) \in Seq(Bytes) /\ Len(SubSeq(s, 1, n)) = n
    BY <1>5
  <2>3. PICK e \in Seq(Bytes), p \in Nat, t \in Seq(Bytes) :
          e = datos[fds[Fd(o)].de] /\ p = fds[Fd(o)].pos /\ t = SubSeq(s, 1, n)
    BY <2>1, <2>2
  <2>4. Len(e) <= MaxTam /\ p + Len(t) <= MaxTam
    BY <1>5, <2>1, <2>2, <2>3 DEF Cortos
  <2>5. Len(Escrito(e, p, t)) <= MaxTam
    BY <2>4, EscritoMide
  <2>6. datos' = [datos EXCEPT ![fds[Fd(o)].de] = IF n = 0 THEN e ELSE Escrito(e, p, t)]
    BY <1>5, <2>3 DEF Escribe
  <2> QED
    BY <1>2, <2>1, <2>4, <2>5, <2>6
<1>6. CASE Programa
  <2>1. ASSUME NEW o \in Objs, NEW r \in Rutas, NEW modo \in Modos, Abrir(o, r, modo)
        PROVE  Cortos'
    BY <1>1, <1>4, <2>1 DEF Abrir, AbrirArchivo, disco
  <2>2. ASSUME NEW o \in Objs, NEW s \in Textos, Escribir(o, s)
        PROVE  Cortos'
    <3>1. s \in Seq(Bytes) /\ Len(s) \in 0..Len(s)
      BY TextosSonBytes
    <3> QED
      BY <1>5, <2>2, <3>1 DEF Escribir
  <2>3. CASE Fallar
    <3>1. ASSUME NEW o \in Objs, NEW s \in Textos, NEW n \in 1..Len(s) - 1, Abierto(o),
                 PuedeEscribir(Fd(o)), fds[Fd(o)].pos + n <= MaxTam, Escribe(Fd(o), s, n)
          PROVE  Cortos'
      <4>1. s \in Seq(Bytes) /\ n \in 0..Len(s)
        BY TextosSonBytes
      <4> QED
        BY <1>5, <3>1, <4>1
    <3> QED
      BY <1>1, <2>3, <3>1 DEF Fallar
  <2>4. CASE \/ Ejecutar \/ Recolectar \/ Salir
             \/ \E r \in Rutas : CrearDirectorio(r) \/ BorrarRuta(r)
    BY <1>1, <2>4
       DEF Ejecutar, Recolectar, Salir, CrearDirectorio, Mkdir, BorrarRuta, Borrar, disco
  <2>5. ASSUME NEW o \in Objs,
               \/ Cerrar(o) \/ LeerByte(o) \/ ObtenerSiguiente(o) \/ LeerTodo(o)
               \/ \E p \in 0..MaxTam : CambiarPosicion(o, p)
        PROVE  Cortos'
    BY <1>1, <2>5
       DEF Cerrar, Close, LeerByte, ObtenerSiguiente, LeerTodo, CambiarPosicion, disco
  <2> QED
    BY <1>6, <2>1, <2>2, <2>3, <2>4, <2>5 DEF Programa
<1>7. CASE Avanzar
  <2>1. CASE DirectorioAbrir
    BY <1>4, <2>1 DEF DirectorioAbrir
  <2>2. CASE SiguienteLeer \/ SiguienteVolver \/ TodoLeer \/ DirectorioCerrar \/ Esperar
    BY <1>1, <2>2
       DEF SiguienteLeer, SiguienteVolver, TodoLeer, DirectorioCerrar, Close, Esperar, disco
  <2> QED
    BY <1>7, <2>1, <2>2 DEF Avanzar
<1>8. CASE Afuera
  <2>1. ASSUME NEW i \in Inodos, NEW d \in Contenidos, datos' = [datos EXCEPT ![i] = d]
        PROVE  Cortos'
    BY <1>2, <2>1, ContenidosSon
  <2> QED
    BY <1>1, <1>3, <1>8, <2>1 DEF Afuera, PasoDelHijo, OtroPrograma, InodosLibres, disco
<1> QED
  BY <1>6, <1>7, <1>8

\* The history goes on.
LEMMA MemoriaPaso ==
  ASSUME Inv', Cortos', Memoria, Recordar
  PROVE  Memoria' /\ (Leyendo' # NADA => vistos \subseteq vistos')
<1>1. CASE Leyendo' = NADA
  BY <1>1 DEF Recordar, Memoria
<1>2. CASE Leyendo' # NADA
  <2> DEFINE d == datos'[fds'[Fd(Leyendo)'].de]
  <2>1. vistos' = vistos \union Puestos(d)
    BY <1>2 DEF Recordar, Puestos
  <2>2. d \in Seq(Bytes) /\ Len(d) <= MaxTam
    <3>1. op' # NADA /\ op'.paso = "todo" /\ Leyendo' = op'.de
      BY <1>2 DEF Leyendo
    <3>2. Leyendo' \in DeObjetos' /\ fds'[Fd(Leyendo)'].de # DIR
      BY <3>1 DEF Inv, EnOperacion, Fd
    <3>3. fds'[Fd(Leyendo)'] \in Posiciones
      BY <3>2 DEF Inv, Tipo, Propiedad, DeObjetos, Fd, Recursos
    <3>4. fds'[Fd(Leyendo)'].de \in Inodos
      BY <3>2, <3>3 DEF Posiciones
    <3> QED
      BY <3>4 DEF Inv, Tipo, Cortos
  <2> HIDE DEF d
  <2>3. Puestos(d) \subseteq (1..MaxTam) \X Bytes
    <3>1. \A k \in DOMAIN d : k \in 1..MaxTam /\ d[k] \in Bytes
      BY <2>2, TamNatural
    <3> QED
      BY <3>1 DEF Puestos
  <2>4. Puestos(datos'[fds'[Fd(Leyendo)'].de]) \subseteq vistos'
    BY <2>1 DEF d
  <2>5. Puestos(datos[fds[Fd(Leyendo)].de])' = Puestos(datos'[fds'[Fd(Leyendo)'].de])
    BY DEF Puestos
  <2> QED
    BY <1>2, <2>1, <2>3, <2>4, <2>5 DEF Memoria
<1> QED
  BY <1>1, <1>2

LEMMA TodoLeerLeido ==
  ASSUME Inv, Memoria, InvLeido, TodoLeer, Leyendo' # NADA => vistos \subseteq vistos'
  PROVE  InvLeido'
<1> DEFINE o == op.de
           f == Fd(op.de)
           leido == Leido(Fd(op.de), Cap)
           d == datos[fds[Fd(op.de)].de]
           q == fds[Fd(op.de)].pos
<1>1. o \in DeObjetos /\ op # NADA /\ op.paso = "todo" /\ fds[f].de # DIR
  BY DEF TodoLeer, Inv, EnOperacion
<1>2. f \in Fds /\ fds[f] # NADA /\ o \in Objs
  BY <1>1, FdDeObjeto
<1>3. op.leido \in Seq(Bytes) /\ op.pos \in Nat /\ Cap \in Nat \ {0}
  BY <1>1, CapPositivo DEF Inv, Tipo, Operaciones
<1>4. /\ d \in Seq(Bytes) /\ q \in Nat /\ leido \in Seq(Bytes)
      /\ Len(leido) = 0 \/ q + Len(leido) <= Len(d)
      /\ Parte(leido, d, q)
  <2> HIDE DEF d, q, leido, f, o
  <2>1. /\ d \in Seq(Bytes) /\ q \in Nat /\ leido \in Seq(Bytes)
        /\ Len(leido) = IF q > Len(d) THEN 0 ELSE IF q + Cap <= Len(d) THEN Cap ELSE Len(d) - q
        /\ Parte(leido, d, q)
    BY <1>1, <1>2, <1>3, LeidoSon DEF d, q, leido, f
  <2>2. Len(d) \in Nat
    BY <2>1
  <2> QED
    BY ONLY <1>3, <2>1, <2>2
<1>5. /\ "lectura" \in fds[f].modo /\ Len(op.leido) = q - op.pos
      /\ Visto(op.leido, op.pos, vistos)
  BY <1>1 DEF InvLeido
<1>6. Visto(leido, q, vistos)
  <2>1. Leyendo = o /\ Leyendo # NADA
    BY <1>1, <1>2, NadaNoEsObjeto DEF Leyendo
  <2>2. Puestos(d) \subseteq vistos
    BY <2>1 DEF Memoria
  <2> HIDE DEF d, q, leido
  <2>3. Visto(leido, q, Puestos(d))
    BY <1>4, ParteVista
  <2> QED
    BY <2>2, <2>3 DEF Visto
<1>7. /\ Mover(f, q + Len(leido)) /\ objs' = objs
      /\ op' = NADA \/ (op' = En("todo", o, op.pos, op.leido \o leido) /\ dado' = <<>>)
  BY DEF TodoLeer, Completar, Seguir, Entregar, disco
<1> HIDE DEF leido, d, q
<1>8. /\ Len(op.leido \o leido) = q - op.pos + Len(leido)
      /\ Visto(op.leido \o leido, op.pos, vistos)
  <2>1. PICK s \in Seq(Bytes), t \in Seq(Bytes), p \in Nat, r \in Nat :
          s = op.leido /\ t = leido /\ p = op.pos /\ r = q
    BY <1>3, <1>4
  <2>2. Len(s) = r - p /\ Visto(s, p, vistos) /\ Visto(t, r, vistos)
    BY <1>5, <1>6, <2>1
  <2>3. Len(s \o t) = r - p + Len(t) /\ Visto(s \o t, p, vistos)
    BY <2>2, LeerMas
  <2> QED
    BY <2>1, <2>3
<1>9. fds'[f] = [de |-> fds[f].de, pos |-> q + Len(leido), modo |-> fds[f].modo]
  BY <1>2, <1>4, <1>7, MoverSolo DEF Inv
<1> HIDE DEF f, o
<1>10. CASE op' # NADA
  <2>1. /\ op'.paso = "todo" /\ op'.de = o /\ op'.pos = op.pos
        /\ op'.leido = op.leido \o leido /\ dado' = <<>>
    BY <1>7, <1>10 DEF En
  <2>2. objs'[op'.de].archivo = f
    BY <1>7, <2>1 DEF f, o, Fd
  <2>3. "lectura" \in fds'[f].modo /\ fds'[f].pos = q + Len(leido)
    BY <1>5, <1>9
  <2>4. Len(op'.leido) = fds'[f].pos - op'.pos
    <3>1. q \in Nat /\ Len(leido) \in Nat /\ op.pos \in Nat
      BY <1>3, <1>4
    <3> QED
      BY ONLY <1>8, <2>1, <2>3, <3>1
  <2>5. Visto(op'.leido, op'.pos, vistos')
    <3>1. Leyendo' # NADA
      BY <1>2, <1>10, <2>1, NadaNoEsObjeto DEF Leyendo
    <3>2. vistos \subseteq vistos'
      BY <3>1
    <3> QED
      BY ONLY <1>8, <2>1, <3>2 DEF Visto
  <2> QED
    BY <2>1, <2>2, <2>3, <2>4, <2>5 DEF InvLeido, Fd, Visto
<1> QED
  BY <1>10 DEF InvLeido

LEMMA SinLeido ==
  ASSUME op' # NADA => op'.paso \notin {"siguiente", "todo"}
  PROVE  InvLeido'
  BY DEF InvLeido

LEMMA SiguienteLeido ==
  ASSUME Inv, NEW o \in Objs, ObtenerSiguiente(o)
  PROVE  InvLeido'
<1>1. UNCHANGED <<fds, objs>> /\ op' = En("siguiente", o, fds[Fd(o)].pos, <<>>)
  BY DEF ObtenerSiguiente, Seguir
<1>2. op'.paso = "siguiente" /\ op'.de = o /\ op'.pos = fds[Fd(o)].pos
  BY <1>1 DEF En
<1> QED
  BY <1>1, <1>2 DEF InvLeido, Fd

LEMMA LeerTodoLeido ==
  ASSUME Inv, NEW o \in Objs, LeerTodo(o)
  PROVE  InvLeido'
<1>1. /\ UNCHANGED <<fds, objs>> /\ op' = En("todo", o, fds[Fd(o)].pos, <<>>)
      /\ "lectura" \in fds[Fd(o)].modo /\ dado' = <<>>
  BY DEF LeerTodo, Seguir, Entregar, PuedeLeer, disco
<1>2. op'.paso = "todo" /\ op'.de = o /\ op'.pos = fds[Fd(o)].pos /\ op'.leido = <<>>
  BY <1>1 DEF En
<1>3. o \in DeObjetos
  BY AbiertoEsDeObjeto DEF LeerTodo
<1>4. fds[Fd(o)].pos \in Nat
  BY <1>3, FdDeObjeto DEF Posiciones
<1>5. Len(op'.leido) = fds[Fd(o)].pos - op'.pos
  BY <1>2, <1>4
<1>6. Visto(op'.leido, op'.pos, vistos')
  BY <1>2 DEF Visto
<1> QED
  BY <1>1, <1>2, <1>5, <1>6 DEF InvLeido, Fd, Visto

\* What was seen stays seen, whatever the other programs do.
LEMMA AfueraLeido ==
  ASSUME Inv, InvLeido, Afuera, Leyendo' # NADA => vistos \subseteq vistos'
  PROVE  InvLeido'
<1>1. UNCHANGED <<fds, objs, op, dado>>
  BY DEF Afuera, PasoDelHijo, OtroPrograma
<1>2. CASE op = NADA \/ op.paso # "todo"
  BY <1>1, <1>2 DEF InvLeido, Fd
<1>3. CASE op # NADA /\ op.paso = "todo"
  <2>1. op.de \in Objs
    BY <1>3, FdDeObjeto DEF Inv, EnOperacion
  <2>2. Leyendo' # NADA
    BY <1>1, <1>3, <2>1, NadaNoEsObjeto DEF Leyendo
  <2>3. Visto(op.leido, op.pos, vistos)
    BY <1>3 DEF InvLeido
  <2>4. Visto(op.leido, op.pos, vistos')
    BY <2>2, <2>3 DEF Visto
  <2> QED
    BY <1>1, <1>3, <2>4 DEF InvLeido, Fd, Visto
<1> QED
  BY <1>2, <1>3

LEMMA PasoLeido ==
  ASSUME Inv, Memoria, InvLeido, Programa \/ Avanzar \/ Afuera,
         Leyendo' # NADA => vistos \subseteq vistos'
  PROVE  InvLeido'
<1>1. CASE Avanzar
  <2>1. CASE SiguienteLeer
    BY <2>1, SinLeido DEF SiguienteLeer, En
  <2>2. CASE DirectorioAbrir
    BY <2>2, SinLeido DEF DirectorioAbrir, Seguir, En
  <2>3. CASE SiguienteVolver \/ DirectorioCerrar \/ Esperar
    BY <2>3, SinLeido DEF SiguienteVolver, DirectorioCerrar, Esperar, Completar
  <2> QED
    BY <1>1, <2>1, <2>2, <2>3, TodoLeerLeido DEF Avanzar
<1>2. CASE Programa
  <2>1. ASSUME NEW r \in Rutas, CrearDirectorio(r) PROVE InvLeido'
    BY <2>1, SinLeido DEF CrearDirectorio, Seguir, En
  <2>2. CASE Ejecutar
    BY <2>2, SinLeido DEF Ejecutar, Seguir, En
  <2>3. ASSUME NEW o \in Objs,
               \/ \E r \in Rutas, modo \in Modos : Abrir(o, r, modo)
               \/ Cerrar(o) \/ LeerByte(o)
               \/ \E s \in Textos : Escribir(o, s)
               \/ \E p \in 0..MaxTam : CambiarPosicion(o, p)
        PROVE  InvLeido'
    <3>1. op' = op /\ op = NADA
      BY <2>3 DEF Abrir, Cerrar, LeerByte, Escribir, CambiarPosicion, Abierto, Puede
    <3> QED
      BY <3>1, SinLeido
  <2>4. CASE (\E r \in Rutas : BorrarRuta(r)) \/ Recolectar \/ Salir \/ Fallar
    <3>1. op' = NADA
      BY <2>4 DEF BorrarRuta, Recolectar, Salir, Fallar, Puede
    <3> QED
      BY <3>1, SinLeido
  <2> QED
    BY <1>2, <2>1, <2>2, <2>3, <2>4, SiguienteLeido, LeerTodoLeido DEF Programa
<1> QED
  BY <1>1, <1>2, AfueraLeido

\* The invariant of the history and of what is read.
InvVisto == Cortos /\ Memoria /\ InvLeido

LEMMA PasoVisto ==
  ASSUME Inv, Inv', InvVisto, [Next]_vars
  PROVE  InvVisto'
<1>1. CASE Next
  <2>1. Cortos'
    BY <1>1, CortosPaso DEF Next, InvVisto
  <2>2. Memoria' /\ (Leyendo' # NADA => vistos \subseteq vistos')
    BY <1>1, <2>1, MemoriaPaso DEF Next, InvVisto
  <2>3. InvLeido'
    BY <1>1, <2>2, PasoLeido DEF Next, InvVisto
  <2> QED
    BY <2>1, <2>2, <2>3 DEF InvVisto
<1>2. CASE UNCHANGED vars
  BY <1>2 DEF vars, InvVisto, Cortos, Memoria, InvLeido, Leyendo, Puestos, Visto, Fd
<1> QED
  BY <1>1, <1>2

\* Type correctness of pdcrt_recv_archivo and of the layer below it.
THEOREM TipoArchivoSiempre == Spec => []TipoArchivo
<1>1. Init => Inv /\ InvVisto
  BY InicioInv, InicioLeido DEF InvVisto
<1>2. Inv /\ InvVisto /\ [Next]_vars => Inv' /\ InvVisto'
  BY PasoInv, PasoVisto
<1>3. Inv /\ InvVisto => TipoArchivo
  <2>1. (1..MaxTam) \X Bytes \subseteq Nat \X Bytes
    BY TamNatural
  <2> QED
    BY <2>1 DEF Inv, Tipo, TipoArchivo, InvVisto, Memoria
<1> QED
  BY <1>1, <1>2, <1>3, PTL DEF Spec

\* Each step is one of Fichero, or none.
LEMMA AbrirImplementa ==
  ASSUME Inv, Inv', NEW o \in Objs, NEW r \in Rutas, NEW modo \in Modos, Abrir(o, r, modo)
  PROVE  F!UnPaso
<1> DEFINE opciones == OpcionesDe(modo)
<1>1. /\ opciones \in F!Opciones /\ opciones.abrir # "error_existente"
      /\ opciones.intencion \in SUBSET {"lectura", "escritura"}
      /\ "escritura" \notin opciones.intencion => opciones.intencion = {"lectura"}
  BY DEF OpcionesDe, F!Opciones
<1>2. PICK f \in Fds \union {NADA} :
        /\ AbrirArchivo(r, opciones, f)
        /\ objs' = [objs EXCEPT ![o] = [archivo |-> f, liberar |-> TRUE]]
  BY DEF Abrir
<1> HIDE DEF opciones
<1>3. /\ op = NADA /\ op' = NADA /\ objs[o] = NADA /\ dado' = <<>>
      /\ \A n \in Objs : ~EnMedio(n) /\ ~EnMedio(n)'
  BY DEF Abrir, Puede, Entregar, EnMedio
<1>4. o \notin DeObjetos /\ Cursores[o] = NADA
  BY <1>3 DEF DeObjetos, Cursores
<1>5. /\ objs'[o] = [archivo |-> f, liberar |-> TRUE] /\ objs'[o] # NADA
      /\ \A n \in Objs \ {o} : objs'[n] = objs[n]
  <2>1. [archivo |-> f, liberar |-> TRUE] \in Recursos
    BY DEF Recursos
  <2> QED
    BY <1>2, <2>1, NadaNoEsRegistro DEF Inv, Tipo
<1>6. CASE f = NADA
  <2>1. UNCHANGED <<nombres, datos, fds>>
    BY <1>1, <1>2, <1>6 DEF AbrirArchivo, disco
  <2>2. /\ DeObjetos' = DeObjetos
        /\ \A n \in DeObjetos : Fd(n)' = Fd(n) /\ Posicion(n)' = Posicion(n)
    BY <1>3, <1>4, <1>5, <1>6, <2>1 DEF DeObjetos, Fd, Posicion
  <2>3. Cursores' = Cursores
    BY <2>1, <2>2, CursoresIguales
  <2>4. F!Responder(<<>>)
    BY <1>3, <2>1, <2>3 DEF F!Responder, F!Entregar
  <2> QED
    BY <2>4 DEF F!UnPaso, F!Respuestas
<1>7. CASE f # NADA
  <2>1. Open(r, Oflags(opciones), opciones.intencion, f)
    BY <1>2, <1>7 DEF AbrirArchivo
  <2>2. f \in Fds /\ fds[f] = NADA /\ \A g \in Fds \ {f} : fds'[g] = fds[g]
    BY <1>1, <2>1, OpenDaDescriptor DEF Inv
  <2>3. /\ DeObjetos' = DeObjetos \union {o} /\ Fd(o)' = f
        /\ \A n \in DeObjetos : n \in Objs /\ Fd(n)' = Fd(n) /\ Fd(n) \in Fds \ {f}
    BY <1>4, <1>5, <1>7, <2>2, FdDeObjeto DEF DeObjetos, Fd
  <2>4. \A n \in Objs \ {o} : Cursores'[n] = Cursores[n]
    BY <1>3, <2>2, <2>3 DEF Cursores, Posicion
  <2>5. ASSUME NEW de, fds' = [fds EXCEPT ![f] = Descriptor(de, opciones.intencion)]
        PROVE  F!Ponerse(o, [de |-> de, pos |-> 0, modo |-> opciones.intencion])
    <3>1. fds'[f] = [de |-> de, pos |-> 0, modo |-> opciones.intencion]
      BY <2>2, <2>5 DEF Descriptor, Inv, Tipo
    <3>2. Cursores'[o] = [de |-> de, pos |-> 0, modo |-> opciones.intencion]
      BY <1>3, <2>3, <3>1 DEF Cursores, Posicion
    <3> QED
      BY <2>4, <3>2 DEF Cursores, F!Ponerse
  <2>6. \A i \in InodosLibres : i \in Inodos /\ F!Libre(i)
    <3>1. \A n \in Objs : Cursores[n] # NADA =>
            n \in DeObjetos /\ Cursores[n].de = fds[Fd(n)].de
      BY DEF Cursores
    <3> QED
      BY <2>3, <3>1, FdDeObjeto DEF InodosLibres, F!Libre, F!Abierto
  <2>7. F!Abrir(o, r, opciones)
    <3>1. ASSUME NEW i \in InodosLibres, nombres[r] = NADA, "O_CREAT" \in Oflags(opciones),
                 nombres' = [nombres EXCEPT ![r] = i], datos' = [datos EXCEPT ![i] = <<>>],
                 fds' = [fds EXCEPT ![f] = Descriptor(i, opciones.intencion)]
          PROVE  F!Abrir(o, r, opciones)
      <4>1. opciones.crear = "crear_nuevo"
        BY <3>1 DEF Oflags
      <4> QED
        BY <1>3, <1>4, <2>5, <2>6, <3>1, <4>1 DEF F!Abrir, F!Abierto, F!Entregar
    <3>2. ASSUME nombres[r] \in Inodos, nombres' = nombres,
                 datos' = IF "O_TRUNC" \in Oflags(opciones)
                          THEN [datos EXCEPT ![nombres[r]] = <<>>] ELSE datos,
                 fds' = [fds EXCEPT ![f] = Descriptor(nombres[r], opciones.intencion)]
          PROVE  F!Abrir(o, r, opciones)
      <4>1. "O_TRUNC" \in Oflags(opciones) <=> opciones.abrir = "truncar_existente"
        BY DEF Oflags
      <4> QED
        BY <1>1, <1>3, <1>4, <2>5, <3>2, <4>1 DEF F!Abrir, F!Abierto, F!Entregar
    <3>3. ASSUME nombres[r] = DIR, "escritura" \notin opciones.intencion,
                 UNCHANGED <<nombres, datos>>,
                 fds' = [fds EXCEPT ![f] = Descriptor(DIR, opciones.intencion)]
          PROVE  F!Abrir(o, r, opciones)
      BY <1>1, <1>3, <1>4, <2>5, <3>3 DEF F!Abrir, F!Abierto, F!Entregar
    <3> QED
      BY <2>1, <3>1, <3>2, <3>3 DEF Open, disco
  <2> QED
    BY <1>1, <2>7 DEF F!UnPaso
<1> QED
  BY <1>6, <1>7

LEMMA CerrarImplementa ==
  ASSUME Inv, Inv', NEW o \in Objs, Cerrar(o)
  PROVE  F!UnPaso
<1>1. /\ o \in DeObjetos /\ UNCHANGED <<nombres, datos>> /\ dado' = <<>>
      /\ \A n \in Objs : ~EnMedio(n) /\ ~EnMedio(n)'
  BY AbiertoEsDeObjeto DEF Cerrar, Close, Entregar, EnMedio, disco
<1>2. Fd(o) \in Fds
  BY <1>1, FdDeObjeto
<1>3. /\ \A g \in Fds : g # Fd(o) => fds'[g] = fds[g]
      /\ objs'[o].archivo = NADA
      /\ \A n \in Objs \ {o} : objs'[n] = objs[n]
  BY <1>2 DEF Cerrar, Cerrado, Close, Inv, Tipo
<1>4. DeObjetos' = DeObjetos \ {o} /\ \A n \in DeObjetos \ {o} : Fd(n)' = Fd(n)
  BY <1>3 DEF DeObjetos, Fd
<1>5. \A n \in DeObjetos \ {o} : n \in Objs /\ Fd(n) \in Fds /\ Fd(n) # Fd(o)
  BY <1>1, FdDeObjeto DEF Inv, Propiedad
<1>6. \A n \in Objs : Cursores'[n] = IF n = o THEN NADA ELSE Cursores[n]
  BY <1>1, <1>3, <1>4, <1>5 DEF Cursores, Posicion
<1>7. Cursores' = [Cursores EXCEPT ![o] = NADA]
  BY <1>6 DEF Cursores
<1>8. F!Cerrar(o)
  BY <1>1, <1>7, CursorDeObjeto DEF F!Cerrar, F!Abierto, F!Ponerse, F!Entregar
<1> QED
  BY <1>8 DEF F!UnPaso

\* A cursor may be read when its descriptor may.
LEMMA CursorLegible ==
  ASSUME Inv, NEW o \in DeObjetos, fds[Fd(o)].de # DIR
  PROVE  /\ F!Regular(o) /\ Cursores[o].de = fds[Fd(o)].de
         /\ Cursores[o].modo = fds[Fd(o)].modo /\ Cursores[o].pos = Posicion(o)
<1>1. fds[Fd(o)].de \in Inodos /\ o \in Objs
  BY FdDeObjeto DEF Posiciones
<1>2. /\ Cursores[o] = [de |-> fds[Fd(o)].de, pos |-> Posicion(o), modo |-> fds[Fd(o)].modo]
      /\ Cursores[o] # NADA
  BY CursorDeObjeto
<1>3. /\ Cursores[o].de = fds[Fd(o)].de
      /\ Cursores[o].modo = fds[Fd(o)].modo /\ Cursores[o].pos = Posicion(o)
  BY <1>2
<1> QED
  BY <1>1, <1>2, <1>3 DEF F!Regular, F!Abierto

LEMMA LeerByteImplementa ==
  ASSUME Inv, Inv', NEW o \in Objs, LeerByte(o)
  PROVE  F!UnPaso
<1>1. /\ o \in DeObjetos /\ op = NADA /\ op' = NADA /\ ~EnMedio(o) /\ ~EnMedio(o)'
      /\ UNCHANGED <<nombres, datos, objs>>
  BY AbiertoEsDeObjeto DEF LeerByte, EnMedio, disco
<1>2. /\ Fd(o) \in Fds /\ fds[Fd(o)] # NADA /\ fds[Fd(o)].pos \in Nat
      /\ fds[Fd(o)].de # DIR /\ "lectura" \in fds[Fd(o)].modo
  BY <1>1, FdDeObjeto DEF LeerByte, PuedeLeer, Posiciones
<1>3. /\ F!Regular(o) /\ Cursores[o].de = fds[Fd(o)].de
      /\ Cursores[o].modo = fds[Fd(o)].modo /\ Cursores[o].pos = fds[Fd(o)].pos
  BY <1>1, <1>2, CursorLegible DEF Posicion
<1>4. F!Siguientes(o, 1) = Leido(Fd(o), 1)
  BY <1>3 DEF F!Siguientes, Leido, Min, F!Min
<1>5. PICK p \in Nat : Mover(Fd(o), p) /\ p = fds[Fd(o)].pos + Len(Leido(Fd(o), 1))
  <2>1. Len(Leido(Fd(o), 1)) \in Nat
    BY <1>2, LeidoSonBytes DEF Inv
  <2> QED
    BY <1>2, <2>1 DEF LeerByte
<1>6. Cursores' = [Cursores EXCEPT ![o] = [Cursores[o] EXCEPT !.pos = p]]
  BY <1>1, <1>5, CursorAlMover
<1>7. dado' = <<"byte", F!Siguientes(o, 1)>>
  BY <1>4 DEF LeerByte, Entregar
<1>8. F!LeerByte(o)
  BY <1>1, <1>2, <1>3, <1>4, <1>5, <1>6, <1>7 DEF F!LeerByte, F!Entregar, F!Ponerse
<1> QED
  BY <1>8 DEF F!UnPaso

\* An operation of several steps begins.
LEMMA EmpezarQuieto ==
  ASSUME Inv, NEW o \in DeObjetos, op = NADA, UNCHANGED <<nombres, datos, fds, objs>>,
         op'.de = o, op'.pos = fds[Fd(o)].pos
  PROVE  Cursores' = Cursores
<1>1. /\ DeObjetos' = DeObjetos /\ DeObjetos \subseteq Objs
      /\ \A n \in Objs : Fd(n)' = Fd(n)
  BY DEF DeObjetos, Fd
<1>2. \A n \in DeObjetos : Posicion(n)' = Posicion(n)
  BY <1>1 DEF Posicion, EnMedio
<1> QED
  BY <1>1, <1>2, CursoresIguales

LEMMA EmpezarImplementa ==
  ASSUME Inv, NEW o \in Objs, ObtenerSiguiente(o)
  PROVE  F!UnPaso
<1>1. /\ o \in DeObjetos /\ op = NADA /\ UNCHANGED <<nombres, datos, fds, objs>> /\ dado' = <<>>
      /\ op' = En("siguiente", o, fds[Fd(o)].pos, <<>>)
  BY AbiertoEsDeObjeto DEF ObtenerSiguiente, Seguir, Entregar, disco
<1>2. op'.de = o /\ op'.pos = fds[Fd(o)].pos
  BY <1>1 DEF En
<1>3. Cursores' = Cursores
  BY <1>1, <1>2, EmpezarQuieto
<1> QED
  BY <1>1, <1>3 DEF F!UnPaso, F!Responder, F!Respuestas, F!Entregar

LEMMA LeerTodoImplementa ==
  ASSUME Inv, NEW o \in Objs, LeerTodo(o)
  PROVE  F!ComenzarTodo(o)
<1>1. /\ o \in DeObjetos /\ op = NADA /\ UNCHANGED <<nombres, datos, fds, objs>> /\ dado' = <<>>
      /\ op' = En("todo", o, fds[Fd(o)].pos, <<>>)
      /\ "lectura" \in fds[Fd(o)].modo /\ fds[Fd(o)].de # DIR
  BY AbiertoEsDeObjeto DEF LeerTodo, PuedeLeer, Seguir, Entregar, disco
<1>2. op'.de = o /\ op'.pos = fds[Fd(o)].pos /\ op'.paso = "todo"
  BY <1>1 DEF En
<1>3. Cursores' = Cursores
  BY <1>1, <1>2, EmpezarQuieto
<1>4. Leyendo = NADA
  BY <1>1 DEF Leyendo
<1>5. Leyendo' = o
  <2>1. En("todo", o, fds[Fd(o)].pos, <<>>) \in Operaciones
    BY <1>1, FdDeObjeto DEF En, Operaciones, Posiciones
  <2>2. op' # NADA
    BY <1>1, <2>1, NadaNoEsRegistro
  <2> QED
    BY <1>2, <2>2 DEF Leyendo
<1>6. F!Regular(o) /\ Cursores[o].modo = fds[Fd(o)].modo
  BY <1>1, CursorLegible
<1> QED
  BY <1>1, <1>3, <1>4, <1>5, <1>6 DEF F!ComenzarTodo, F!Entregar

LEMMA SiguienteLeerImplementa ==
  ASSUME Inv, Inv', InvLeido, SiguienteLeer
  PROVE  F!UnPaso
<1> PICK o \in DeObjetos : o = op.de
  BY DEF SiguienteLeer, Inv, EnOperacion
<1> DEFINE leido == Leido(Fd(o), 1)
<1>1. /\ op # NADA /\ op.paso = "siguiente" /\ op.pos = fds[Fd(o)].pos
      /\ UNCHANGED <<nombres, datos, objs>>
  BY DEF SiguienteLeer, Inv, EnOperacion, InvLeido, disco
<1>2. /\ Fd(o) \in Fds /\ fds[Fd(o)] # NADA /\ fds[Fd(o)].pos \in Nat
      /\ fds[Fd(o)].de # DIR /\ "lectura" \in fds[Fd(o)].modo
      /\ o \in Objs
  BY <1>1, FdDeObjeto DEF SiguienteLeer, PuedeLeer, Posiciones
<1>3. EnMedio(o) /\ Posicion(o) = fds[Fd(o)].pos
  BY <1>1 DEF EnMedio, Posicion
<1>4. /\ op' = En("volver", o, op.pos, <<>>) /\ dado' = <<"siguiente", leido>>
      /\ Mover(Fd(o), fds[Fd(o)].pos + Len(leido))
  BY DEF SiguienteLeer, Entregar
<1>5. op'.paso = "volver" /\ op'.de = o /\ op'.pos = fds[Fd(o)].pos
  BY <1>1, <1>4 DEF En
<1>6. leido \in Seq(Bytes)
  BY <1>2, LeidoSonBytes DEF Inv
<1> HIDE DEF leido
<1>7. PICK p \in Nat : Mover(Fd(o), p)
  BY <1>2, <1>4, <1>6
<1>8. op' = NADA \/ EnMedio(o)'
  BY <1>2, <1>5 DEF EnMedio
<1>9. fds[Fd(o)].pos = IF EnMedio(o)' THEN op'.pos ELSE p
  <2>1. op' # NADA
    <3>1. op' = En("volver", o, fds[Fd(o)].pos, <<>>)
      BY <1>1, <1>4
    <3>2. En("volver", o, fds[Fd(o)].pos, <<>>) \in Operaciones
      BY <1>2 DEF En, Operaciones
    <3> QED
      BY <3>1, <3>2, NadaNoEsRegistro
  <2> QED
    BY <1>5, <1>8, <2>1
<1>10. Cursores' = [Cursores EXCEPT ![o] = [Cursores[o] EXCEPT !.pos = fds[Fd(o)].pos]]
  BY <1>1, <1>2, <1>3, <1>7, <1>8, <1>9, CursorAlMover
<1>11. /\ F!Regular(o) /\ Cursores[o].de = fds[Fd(o)].de
       /\ Cursores[o].modo = fds[Fd(o)].modo /\ Cursores[o].pos = fds[Fd(o)].pos
  BY <1>1, <1>2, <1>3, CursorLegible
<1>12. Cursores' = Cursores
  <2>1. Cursores[o] = [de |-> fds[Fd(o)].de, pos |-> fds[Fd(o)].pos, modo |-> fds[Fd(o)].modo]
    BY <1>1, <1>3, CursorDeObjeto
  <2>2. [Cursores[o] EXCEPT !.pos = fds[Fd(o)].pos] = Cursores[o]
    BY ONLY <2>1
  <2> QED
    BY <1>10, <2>2 DEF Cursores
<1>13. F!Siguientes(o, 1) = leido
  BY <1>11 DEF F!Siguientes, Leido, Min, F!Min, leido
<1>14. F!ObtenerSiguiente(o)
  BY <1>1, <1>2, <1>4, <1>11, <1>12, <1>13 DEF F!ObtenerSiguiente, F!Entregar
<1> QED
  BY <1>2, <1>14 DEF F!UnPaso

LEMMA SiguienteVolverImplementa ==
  ASSUME Inv, Inv', SiguienteVolver
  PROVE  Quieto
<1> PICK o \in DeObjetos : o = op.de
  BY DEF SiguienteVolver, Inv, EnOperacion
<1>1. /\ op # NADA /\ op.paso = "volver" /\ op' = NADA
      /\ Mover(Fd(o), op.pos) /\ UNCHANGED <<nombres, datos, objs, dado>>
  BY DEF SiguienteVolver, Inv, EnOperacion, disco
<1>2. op.pos \in Nat
  BY <1>1 DEF Inv, Tipo, Operaciones
<1>3. EnMedio(o) /\ ~EnMedio(o)' /\ Posicion(o) = op.pos
  BY <1>1 DEF EnMedio, Posicion
<1>4. Cursores' = [Cursores EXCEPT ![o] = [Cursores[o] EXCEPT !.pos = op.pos]]
  BY <1>1, <1>2, <1>3, CursorAlMover
<1>5. Cursores[o] = [de |-> fds[Fd(o)].de, pos |-> op.pos, modo |-> fds[Fd(o)].modo]
  BY <1>1, <1>3, CursorDeObjeto
<1>6. [Cursores[o] EXCEPT !.pos = op.pos] = Cursores[o]
  BY ONLY <1>5
<1>7. Cursores' = Cursores
  BY <1>4, <1>6 DEF Cursores
<1> QED
  BY <1>1, <1>7 DEF Quieto, Leyendo

LEMMA TodoLeerImplementa ==
  ASSUME Inv, Inv', InvVisto, TodoLeer
  PROVE  (\E o \in Objs, t \in Contenidos : F!LeerTodo(o, t)) \/ Quieto
<1> PICK o \in DeObjetos : o = op.de
  BY DEF TodoLeer, Inv, EnOperacion
<1> DEFINE f == Fd(o)
           leido == Leido(Fd(o), Cap)
           d == datos[fds[Fd(o)].de]
           q == fds[Fd(o)].pos
           texto == op.leido \o Leido(Fd(o), Cap)
<1>1. /\ op # NADA /\ op.paso = "todo" /\ fds[f].de # DIR
      /\ UNCHANGED <<nombres, datos, objs>>
  BY DEF TodoLeer, Inv, EnOperacion, disco
<1>2. f \in Fds /\ fds[f] # NADA /\ o \in Objs /\ Leyendo = o /\ Leyendo # NADA
  BY <1>1, FdDeObjeto, NadaNoEsObjeto DEF Leyendo
<1>3. op.leido \in Seq(Bytes) /\ op.pos \in Nat /\ Cap \in Nat \ {0}
  BY <1>1, CapPositivo DEF Inv, Tipo, Operaciones
<1>4. /\ d \in Seq(Bytes) /\ q \in Nat /\ leido \in Seq(Bytes)
      /\ Len(leido) = IF q > Len(d) THEN 0 ELSE IF q + Cap <= Len(d) THEN Cap ELSE Len(d) - q
      /\ Parte(leido, d, q)
  BY <1>1, <1>2, <1>3, LeidoSon
<1>5. /\ "lectura" \in fds[f].modo /\ Len(op.leido) = q - op.pos
      /\ Visto(op.leido, op.pos, vistos) /\ dado = <<>>
  BY <1>1 DEF InvVisto, InvLeido
<1>6. EnMedio(o) /\ Posicion(o) = op.pos
  BY <1>1 DEF EnMedio, Posicion
<1>7. /\ Mover(f, q + Len(leido))
      /\ \/ op' = NADA /\ dado' = <<"todo", texto>> /\ Len(leido) < Cap
         \/ op' = En("todo", o, op.pos, texto) /\ dado' = <<>>
  BY DEF TodoLeer, Completar, Seguir, Entregar, Ultima
<1>8. /\ F!Regular(o) /\ Cursores[o].de = fds[f].de
      /\ Cursores[o].modo = fds[f].modo /\ Cursores[o].pos = op.pos
      /\ Cursores[o] = [de |-> fds[f].de, pos |-> op.pos, modo |-> fds[f].modo]
  BY <1>1, <1>6, CursorLegible, CursorDeObjeto
<1>9. datos[Cursores[o].de] = d
  BY <1>8
<1>10. PICK p \in Nat : Mover(Fd(o), p) /\ p = q + Len(leido)
  BY <1>4, <1>7
<1>11. Puestos(d) \subseteq vistos
  BY <1>2 DEF InvVisto, Memoria
<1>12. texto = op.leido \o leido
  OBVIOUS
<1> HIDE DEF leido, d, q, texto
<1>13. /\ texto \in Seq(Bytes) /\ Len(texto) = q - op.pos + Len(leido)
       /\ Visto(texto, op.pos, vistos)
  <2>1. Len(leido) = 0 \/ q + Len(leido) <= Len(d)
    BY <1>3, <1>4
  <2>2. Visto(leido, q, Puestos(d))
    BY <1>4, <2>1, ParteVista
  <2>3. Visto(leido, q, vistos)
    BY <1>11, <2>2 DEF Visto
  <2>4. PICK s \in Seq(Bytes), t \in Seq(Bytes), n \in Nat, r \in Nat :
          s = op.leido /\ t = leido /\ n = op.pos /\ r = q
    BY <1>3, <1>4
  <2>5. Len(s) = r - n /\ Visto(s, n, vistos) /\ Visto(t, r, vistos)
    BY <1>5, <2>3, <2>4
  <2>6. /\ s \o t \in Seq(Bytes) /\ Len(s \o t) = r - n + Len(t)
        /\ Visto(s \o t, n, vistos)
    BY <2>5, LeerMas
  <2> QED
    BY <1>12, <2>4, <2>6
<1>14. CASE op' = En("todo", o, op.pos, texto) /\ dado' = <<>>
  <2>1. op'.paso = "todo" /\ op'.de = o /\ op'.pos = op.pos
    BY <1>14 DEF En
  <2>2. op' # NADA
    <3>1. En("todo", o, op.pos, texto) \in Operaciones
      BY <1>2, <1>3, <1>13 DEF En, Operaciones
    <3> QED
      BY <1>14, <3>1, NadaNoEsRegistro
  <2> HIDE DEF f
  <2>3. EnMedio(o)'
    BY <2>1, <2>2 DEF EnMedio
  <2>4. op.pos = IF EnMedio(o)' THEN op'.pos ELSE p
    BY <2>1, <2>3
  <2>5. Cursores' = [Cursores EXCEPT ![o] = [Cursores[o] EXCEPT !.pos = op.pos]]
    BY <1>1, <1>3, <1>6, <1>10, <2>3, <2>4, CursorAlMover
  <2>6. [Cursores[o] EXCEPT !.pos = op.pos] = Cursores[o]
    BY ONLY <1>8
  <2>7. Cursores' = Cursores
    BY <2>5, <2>6 DEF Cursores
  <2>8. Leyendo' = Leyendo
    BY <1>2, <2>1, <2>2 DEF Leyendo
  <2> QED
    BY <1>1, <1>5, <1>14, <2>7, <2>8 DEF Quieto
<1>15. CASE op' = NADA /\ dado' = <<"todo", texto>> /\ Len(leido) < Cap
  <2> HIDE DEF f
  <2>1. ~EnMedio(o)' /\ Leyendo' = NADA
    BY <1>15 DEF EnMedio, Leyendo
  <2>2. Cursores' = [Cursores EXCEPT ![o] = [Cursores[o] EXCEPT !.pos = p]]
    BY <1>1, <1>6, <1>10, <1>15, <2>1, CursorAlMover
  <2>3. Len(texto) \in Nat /\ Len(leido) \in Nat /\ Len(d) \in Nat
    BY <1>4, <1>13
  <2>4. p = op.pos + Len(texto) /\ op.pos + Len(texto) >= Len(d)
    <3>1. p = op.pos + Len(texto)
      BY ONLY <1>3, <1>4, <1>10, <1>13, <2>3
    <3>2. q + Len(leido) >= Len(d)
      BY ONLY <1>3, <1>4, <1>15, <2>3
    <3> QED
      BY ONLY <1>10, <3>1, <3>2
  <2>5. texto \in Contenidos
    <3>1. CASE texto = <<>>
      <4>1. <<>> \in Seq(Bytes) /\ Len(<<>>) <= MaxTam
        BY TamNatural
      <4> QED
        BY <3>1, <4>1, ContenidosSon
    <3>2. CASE texto # <<>>
      <4>1. Len(texto) \in 1..Len(texto)
        BY <1>13, <3>2
      <4>2. <<op.pos + Len(texto), texto[Len(texto)]>> \in vistos
        BY <1>13, <4>1 DEF Visto
      <4>3. op.pos + Len(texto) \in 1..MaxTam
        BY <4>2 DEF InvVisto, Memoria
      <4>4. Len(texto) <= MaxTam
        BY <1>3, <2>3, <4>3, TamNatural
      <4> QED
        BY <1>13, <4>4, ContenidosSon
    <3> QED
      BY <3>1, <3>2
  <2>6. F!LeerTodo(o, texto)
    <3>1. \A k \in DOMAIN texto : <<Cursores[o].pos + k, texto[k]>> \in vistos
      BY <1>8, <1>13 DEF Visto
    <3>2. Cursores[o].pos + Len(texto) >= Len(datos[Cursores[o].de])
      BY <1>8, <1>9, <2>4
    <3>3. Cursores' = [Cursores EXCEPT ![o] = [Cursores[o] EXCEPT !.pos = @ + Len(texto)]]
      BY <1>8, <2>2, <2>4
    <3> QED
      BY <1>1, <1>2, <1>15, <2>1, <3>1, <3>2, <3>3 DEF F!LeerTodo, F!Entregar, F!Ponerse
  <2> QED
    BY <1>2, <2>5, <2>6
<1> QED
  BY <1>7, <1>14, <1>15

\* Both modules write the same.
LEMMA EscritoIgual ==
  ASSUME NEW d, NEW p, NEW s
  PROVE  F!Escrito(d, p, s) = Escrito(d, p, s)
BY DEF Escrito, F!Escrito, Max, F!Max

LEMMA EscribirImplementa ==
  ASSUME Inv, Inv', NEW o \in Objs, NEW s \in Textos, Escribir(o, s)
  PROVE  F!UnPaso
<1>1. /\ o \in DeObjetos /\ op = NADA /\ op' = NADA /\ ~EnMedio(o) /\ ~EnMedio(o)'
      /\ UNCHANGED <<nombres, objs>> /\ dado' = <<>>
  BY AbiertoEsDeObjeto DEF Escribir, EnMedio, Entregar
<1>2. /\ Fd(o) \in Fds /\ fds[Fd(o)] # NADA /\ fds[Fd(o)].pos \in Nat
      /\ fds[Fd(o)].de # DIR /\ "escritura" \in fds[Fd(o)].modo
      /\ s \in Seq(Bytes) /\ Len(s) \in Nat
  BY <1>1, FdDeObjeto, TextosSonBytes DEF Escribir, PuedeEscribir, Posiciones
<1>3. /\ F!Regular(o) /\ Cursores[o].de = fds[Fd(o)].de
      /\ Cursores[o].modo = fds[Fd(o)].modo /\ Cursores[o].pos = fds[Fd(o)].pos
  BY <1>1, <1>2, CursorLegible DEF Posicion
<1>4. PICK p \in Nat : Mover(Fd(o), p) /\ p = fds[Fd(o)].pos + Len(s)
  BY <1>2 DEF Escribir
<1>5. Cursores' = [Cursores EXCEPT ![o] = [Cursores[o] EXCEPT !.pos = p]]
  BY <1>1, <1>4, CursorAlMover
<1>6. SubSeq(s, 1, Len(s)) = s /\ (Len(s) = 0 <=> s = <<>>)
  BY <1>2
<1>7. datos' = [datos EXCEPT ![Cursores[o].de] =
                  IF s = <<>> THEN @ ELSE F!Escrito(@, Cursores[o].pos, s)]
  <2> DEFINE i == fds[Fd(o)].de
             q == fds[Fd(o)].pos
  <2>1. datos' = [datos EXCEPT ![i] = IF Len(s) = 0 THEN @ ELSE Escrito(@, q, SubSeq(s, 1, Len(s)))]
    BY DEF Escribir, Escribe
  <2>2. datos' = [datos EXCEPT ![i] = IF s = <<>> THEN @ ELSE F!Escrito(@, q, s)]
    BY <1>6, <2>1, EscritoIgual
  <2> QED
    BY <1>3, <2>2
<1>8. F!Escribir(o, s)
  BY <1>1, <1>2, <1>3, <1>4, <1>5, <1>7 DEF F!Escribir, F!Entregar, F!Ponerse
<1> QED
  BY <1>8 DEF F!UnPaso

LEMMA CambiarPosicionImplementa ==
  ASSUME Inv, Inv', NEW o \in Objs, NEW p \in 0..MaxTam, CambiarPosicion(o, p)
  PROVE  F!UnPaso
<1>1. /\ o \in DeObjetos /\ op = NADA /\ op' = NADA /\ ~EnMedio(o) /\ ~EnMedio(o)'
      /\ UNCHANGED <<nombres, datos, objs>> /\ dado' = <<>> /\ p \in Nat
      /\ Mover(Fd(o), p)
  BY AbiertoEsDeObjeto, TamNatural DEF CambiarPosicion, EnMedio, Entregar, disco
<1>2. Cursores' = [Cursores EXCEPT ![o] = [Cursores[o] EXCEPT !.pos = p]]
  BY <1>1, CursorAlMover
<1>3. F!CambiarPosicion(o, p)
  BY <1>1, <1>2, CursorDeObjeto
     DEF F!CambiarPosicion, F!Abierto, F!Entregar, F!Ponerse
<1> QED
  BY <1>3 DEF F!UnPaso

\* Directories and processes have no cursor.
LEMMA CrearDirectorioImplementa ==
  ASSUME Inv, NEW r \in Rutas, CrearDirectorio(r)
  PROVE  F!UnPaso \/ F!Otros
<1>1. op' = En("abrir_dir", r, 0, <<>>) /\ op = NADA /\ UNCHANGED <<datos, fds, objs>> /\ dado' = <<>>
  BY DEF CrearDirectorio, Mkdir, Seguir, Entregar, Puede
<1>2. op'.paso = "abrir_dir"
  BY <1>1 DEF En
<1>3. Cursores' = Cursores
  BY <1>1, <1>2, CursoresQuietos DEF EnMedio
<1>4. nombres' = nombres \/ (nombres[r] = NADA /\ nombres' = [nombres EXCEPT ![r] = DIR])
  BY DEF CrearDirectorio, Mkdir
<1> QED
  BY <1>1, <1>3, <1>4
     DEF F!UnPaso, F!Responder, F!Respuestas, F!Entregar, F!Otros, F!CrearDirectorio

LEMMA DirectorioAbrirImplementa ==
  ASSUME Inv, DirectorioAbrir
  PROVE  F!UnPaso
<1>1. PICK f \in Fds : /\ Open(op.de, {"O_DIRECTORY"}, {"lectura"}, f)
                       /\ op' = En("cerrar_dir", f, 0, <<>>) /\ dado' = <<>>
  BY DEF DirectorioAbrir, Seguir, Entregar
<1>2. op'.paso = "cerrar_dir" /\ op.paso = "abrir_dir" /\ op # NADA /\ objs' = objs
  BY <1>1 DEF DirectorioAbrir, En
<1>3. UNCHANGED <<nombres, datos>> /\ \A g \in Fds : g # f => fds'[g] = fds[g]
  BY <1>1 DEF Open, disco, Inv, Tipo
<1>4. fds[f] = NADA
  BY <1>1 DEF Open, Libres
<1>5. DeObjetos' = DeObjetos /\ DeObjetos \subseteq Objs
  BY <1>2 DEF DeObjetos, Fd
<1>6. \A n \in DeObjetos : Fd(n)' = Fd(n) /\ fds'[Fd(n)] = fds[Fd(n)]
  BY <1>2, <1>3, <1>4, <1>5, FdDeObjeto DEF Fd
<1>7. \A n \in DeObjetos : Posicion(n)' = Posicion(n)
  BY <1>2, <1>6 DEF Posicion, EnMedio
<1>8. Cursores' = Cursores
  BY <1>5, <1>6, <1>7, CursoresIguales
<1> QED
  BY <1>1, <1>3, <1>8 DEF F!UnPaso, F!Responder, F!Respuestas, F!Entregar

LEMMA DirectorioCerrarImplementa ==
  ASSUME Inv, DirectorioCerrar
  PROVE  F!UnPaso
<1>1. /\ op # NADA /\ op.paso = "cerrar_dir" /\ op' = NADA /\ dado' = <<>>
      /\ UNCHANGED <<nombres, datos, objs>>
      /\ fds' = [fds EXCEPT ![op.de] = NADA]
  BY DEF DirectorioCerrar, Close, Completar, Entregar, disco
<1>2. DeObjetos' = DeObjetos /\ DeObjetos \subseteq Objs
  BY <1>1 DEF DeObjetos, Fd
<1>3. \A n \in DeObjetos : Fd(n) \in Fds /\ Fd(n) # op.de
  BY <1>1, FdDeObjeto DEF Inv, Propiedad, DeLaOperacion
<1>4. \A n \in DeObjetos : Fd(n)' = Fd(n) /\ fds'[Fd(n)] = fds[Fd(n)]
  BY <1>1, <1>2, <1>3 DEF Fd, Inv, Tipo
<1>5. \A n \in DeObjetos : Posicion(n)' = Posicion(n)
  BY <1>1, <1>4 DEF Posicion, EnMedio
<1>6. Cursores' = Cursores
  BY <1>2, <1>4, <1>5, CursoresIguales
<1>7. F!Responder(<<>>)
  BY <1>1, <1>6 DEF F!Responder, F!Entregar
<1> QED
  BY <1>7 DEF F!UnPaso, F!Respuestas

LEMMA BorrarRutaImplementa ==
  ASSUME Inv, NEW r \in Rutas, BorrarRuta(r)
  PROVE  F!Otros
<1>1. /\ nombres' = [nombres EXCEPT ![r] = NADA] /\ op = NADA /\ dado' = <<>>
      /\ UNCHANGED <<datos, fds, objs, op>>
  BY DEF BorrarRuta, Borrar, Puede, Entregar
<1>2. Cursores' = Cursores
  BY <1>1, CursoresQuietos DEF EnMedio
<1> QED
  BY <1>1, <1>2 DEF F!Otros, F!Borrar

LEMMA EjecutarImplementa ==
  ASSUME Inv, Ejecutar
  PROVE  F!UnPaso
<1>1. /\ op' = En("esperar", NADA, 0, <<>>) /\ op = NADA
      /\ UNCHANGED <<nombres, datos, fds, objs>> /\ dado' = <<>>
  BY DEF Ejecutar, Seguir, Entregar, Puede, disco
<1>2. op'.paso = "esperar"
  BY <1>1 DEF En
<1>3. Cursores' = Cursores
  BY <1>1, <1>2, CursoresQuietos DEF EnMedio
<1> QED
  BY <1>1, <1>3 DEF F!UnPaso, F!Responder, F!Respuestas, F!Entregar

LEMMA EsperarImplementa ==
  ASSUME Inv, Esperar
  PROVE  F!UnPaso
<1>1. /\ op.paso = "esperar" /\ op' = NADA /\ dado' \in {<<"ok">>, <<"otro">>}
      /\ UNCHANGED <<nombres, datos, fds, objs>>
  BY DEF Esperar, Completar, Entregar, disco
<1>2. Cursores' = Cursores
  BY <1>1, CursoresQuietos DEF EnMedio
<1>3. F!Responder(dado')
  BY <1>1, <1>2 DEF F!Responder, F!Entregar
<1> QED
  BY <1>1, <1>3 DEF F!UnPaso, F!Respuestas

LEMMA RecolectarImplementa ==
  ASSUME Inv, Recolectar
  PROVE  Quieto
<1>1. UNCHANGED <<nombres, datos, fds, op, dado>> /\ op = NADA
  BY DEF Recolectar, Puede, disco
<1>2. /\ DeObjetos' = DeObjetos /\ DeObjetos \subseteq Objs
      /\ \A n \in DeObjetos : Fd(n)' = Fd(n)
  BY DEF Recolectar, DeObjetos, Fd, Inv, Propiedad
<1>3. \A n \in DeObjetos : Posicion(n)' = Posicion(n)
  BY <1>1, <1>2 DEF Posicion, EnMedio
<1>4. Cursores' = Cursores
  BY <1>1, <1>2, <1>3, CursoresIguales
<1> QED
  BY <1>1, <1>4 DEF Quieto, Leyendo

\* When the process ends, no cursor is left.
LEMMA SinCursores ==
  ASSUME objs' \in [Objs -> {NADA}]
  PROVE  Cursores' = [o \in Objs |-> NADA]
<1>1. DeObjetos' = {}
  BY DEF DeObjetos
<1> QED
  BY <1>1 DEF Cursores

LEMMA SalirImplementa ==
  ASSUME Inv, Salir
  PROVE  F!Terminar
<1>1. UNCHANGED <<nombres, datos, dado>> /\ Cursores' = [o \in Objs |-> NADA]
      /\ Leyendo' = NADA
  BY SinCursores DEF Salir, Puede, Leyendo, disco
<1> QED
  BY <1>1 DEF F!Terminar

LEMMA FallarImplementa ==
  ASSUME Inv, Fallar
  PROVE  F!Terminar
<1>1. UNCHANGED <<nombres, dado>> /\ Cursores' = [o \in Objs |-> NADA]
      /\ Leyendo' = NADA
  BY SinCursores DEF Fallar, Leyendo
<1>2. CASE datos' = datos
  BY <1>1, <1>2 DEF F!Terminar
<1>3. ASSUME NEW o \in Objs, NEW s \in Textos, NEW n \in 1..Len(s) - 1,
             Abierto(o), PuedeEscribir(Fd(o)), Escribe(Fd(o), s, n)
      PROVE  F!Terminar
  <2>1. o \in DeObjetos /\ ~EnMedio(o)
    BY <1>3, AbiertoEsDeObjeto DEF EnMedio
  <2>2. fds[Fd(o)].de # DIR /\ "escritura" \in fds[Fd(o)].modo
    BY <1>3 DEF PuedeEscribir
  <2>3. /\ F!Regular(o) /\ Cursores[o].de = fds[Fd(o)].de
        /\ Cursores[o].modo = fds[Fd(o)].modo /\ Cursores[o].pos = fds[Fd(o)].pos
    BY <2>1, <2>2, CursorLegible DEF Posicion
  <2>4. n \in DOMAIN s /\ n # 0
    BY <1>3, TextosSonBytes
  <2>5. datos' = [datos EXCEPT ![Cursores[o].de] =
                    F!Escrito(@, Cursores[o].pos, SubSeq(s, 1, n))]
    <3> DEFINE i == fds[Fd(o)].de
               q == fds[Fd(o)].pos
    <3>1. datos' = [datos EXCEPT ![i] = IF n = 0 THEN @ ELSE Escrito(@, q, SubSeq(s, 1, n))]
      BY <1>3 DEF Escribe
    <3>2. datos' = [datos EXCEPT ![i] = F!Escrito(@, q, SubSeq(s, 1, n))]
      BY <2>4, <3>1, EscritoIgual
    <3> QED
      BY <2>3, <3>2
  <2> QED
    BY <1>1, <2>2, <2>3, <2>4, <2>5 DEF F!Terminar
<1> QED
  BY <1>2, <1>3 DEF Fallar

LEMMA AfueraImplementa ==
  ASSUME Inv, Afuera
  PROVE  F!Otros \/ Quieto
<1>1. UNCHANGED <<fds, objs, op, dado>>
  BY DEF Afuera, PasoDelHijo, OtroPrograma
<1>2. /\ DeObjetos' = DeObjetos
      /\ \A n \in DeObjetos : Fd(n)' = Fd(n) /\ Posicion(n)' = Posicion(n)
  BY <1>1 DEF DeObjetos, Fd, Posicion, EnMedio
<1>3. Cursores' = Cursores
  BY <1>1, <1>2, CursoresIguales
<1>4. CASE PasoDelHijo
  BY <1>1, <1>3, <1>4 DEF PasoDelHijo, Quieto, Leyendo, disco
<1>5. \A i \in InodosLibres : i \in Inodos /\ F!Libre(i)
  <2>1. \A n \in Objs : Cursores[n] # NADA =>
          n \in DeObjetos /\ Cursores[n].de = fds[Fd(n)].de
    BY DEF Cursores
  <2> QED
    BY <2>1, FdDeObjeto DEF InodosLibres, F!Libre, F!Abierto
<1>6. CASE OtroPrograma
  <2>1. ASSUME NEW r \in Rutas, nombres[r] = NADA, NEW i \in InodosLibres,
               nombres' = [nombres EXCEPT ![r] = i], datos' = [datos EXCEPT ![i] = <<>>]
        PROVE  F!Otros
    BY <1>1, <1>3, <1>5, <2>1 DEF F!Otros, F!CrearOtro
  <2>2. ASSUME NEW r \in Rutas, datos' = datos,
               \/ nombres[r] = NADA /\ nombres' = [nombres EXCEPT ![r] = DIR]
               \/ nombres' = [nombres EXCEPT ![r] = NADA]
        PROVE  F!Otros
    BY <1>1, <1>3, <2>2 DEF F!Otros, F!CrearDirectorio, F!Borrar
  <2>3. ASSUME NEW i \in Inodos, NEW d \in Contenidos, nombres' = nombres,
               datos' = [datos EXCEPT ![i] = d]
        PROVE  F!Otros
    BY <1>1, <1>3, <2>3 DEF F!Otros, F!CambiarOtro, F!Contenidos, Contenidos
  <2> QED
    BY <1>6, <2>1, <2>2, <2>3 DEF OtroPrograma
<1> QED
  BY <1>4, <1>6 DEF Afuera

-------------------------------------------------------------------------------
LEMMA InicioImplementa == ASSUME Init PROVE F!Init
<1>1. DeObjetos = {}
  BY DEF Init, DeObjetos
<1> QED
  BY <1>1 DEF Init, F!Init, Cursores, Leyendo

\* Both modules remember the same.
LEMMA RecordarImplementa ==
  ASSUME Inv', Recordar
  PROVE  F!Recordar
<1>1. CASE Leyendo' = NADA
  BY <1>1 DEF Recordar, F!Recordar
<1>2. CASE Leyendo' # NADA
  <2>1. op' # NADA /\ op'.paso = "todo" /\ Leyendo' = op'.de
    BY <1>2 DEF Leyendo
  <2>2. Leyendo' \in DeObjetos' /\ DeObjetos' \subseteq Objs
    BY <2>1 DEF Inv, EnOperacion, DeObjetos
  <2>3. Cursores'[Leyendo'].de = fds'[Fd(Leyendo)'].de
    BY <2>2 DEF Cursores
  <2> QED
    BY <1>2, <2>3 DEF Recordar, F!Recordar, Puestos, F!Puestos
<1> QED
  BY <1>1, <1>2

\* A step that Fichero does not see leaves what is remembered as it was.
LEMMA QuietoImplementa ==
  ASSUME Inv, Inv', InvVisto, Quieto, Recordar
  PROVE  UNCHANGED F!vars
<1>1. CASE Leyendo' = NADA
  BY <1>1 DEF Quieto, Recordar, InvVisto, Memoria, F!vars
<1>2. CASE Leyendo' # NADA
  <2>1. Leyendo = Leyendo' /\ op # NADA /\ op.paso = "todo" /\ Leyendo = op.de
        /\ op' # NADA /\ op'.paso = "todo" /\ Leyendo' = op'.de
    BY <1>2 DEF Quieto, Leyendo
  <2>2. Leyendo \in DeObjetos /\ Leyendo' \in DeObjetos' /\ DeObjetos' \subseteq Objs
    BY <2>1 DEF Inv, EnOperacion, DeObjetos
  <2>3. /\ Cursores[Leyendo].de = fds[Fd(Leyendo)].de
        /\ Cursores'[Leyendo'].de = fds'[Fd(Leyendo)'].de
    BY <2>2 DEF Cursores, DeObjetos
  <2>4. fds'[Fd(Leyendo)'].de = fds[Fd(Leyendo)].de
    BY <2>1, <2>3 DEF Quieto
  <2>5. Puestos(datos[fds[Fd(Leyendo)].de])' = Puestos(datos[fds[Fd(Leyendo)].de])
    BY <2>4 DEF Quieto, Puestos
  <2>6. Puestos(datos[fds[Fd(Leyendo)].de]) \subseteq vistos
    BY <1>2, <2>1 DEF InvVisto, Memoria
  <2>7. vistos' = vistos \union Puestos(datos[fds[Fd(Leyendo)].de])'
    BY <1>2 DEF Recordar
  <2>8. vistos' = vistos
    BY <2>5, <2>6, <2>7
  <2> QED
    BY <2>8 DEF Quieto, F!vars
<1> QED
  BY <1>1, <1>2

LEMMA PasoImplementa ==
  ASSUME Inv, Inv', InvVisto, [Next]_vars
  PROVE  [F!Next]_F!vars
<1> DEFINE Quietos == Leyendo = NADA /\ Leyendo' = NADA
<1>1. ASSUME F!UnPaso, Quietos, Recordar PROVE F!Next
  BY <1>1, RecordarImplementa DEF F!Next, F!Paso
<1>2. ASSUME F!Otros, Leyendo' = Leyendo, Recordar PROVE F!Next
  BY <1>2, RecordarImplementa DEF F!Next, F!Paso
<1>3. ASSUME Recordar,
             \/ F!Terminar
             \/ \E o \in Objs : F!ComenzarTodo(o) \/ \E t \in Contenidos : F!LeerTodo(o, t)
      PROVE  F!Next
  BY <1>3, RecordarImplementa DEF F!Next, F!Paso, F!Contenidos, Contenidos
<1>4. ASSUME Quieto, Recordar PROVE UNCHANGED F!vars
  BY <1>4, QuietoImplementa
<1>5. CASE Avanzar /\ Recordar
  <2>1. CASE TodoLeer
    BY <1>3, <1>4, <1>5, <2>1, TodoLeerImplementa
  <2>2. CASE SiguienteVolver
    BY <1>4, <1>5, <2>2, SiguienteVolverImplementa
  <2>3. CASE SiguienteLeer \/ DirectorioAbrir \/ DirectorioCerrar \/ Esperar
    <3>1. Quietos
      BY <2>3 DEF SiguienteLeer, DirectorioAbrir, DirectorioCerrar, Esperar, Seguir,
                  Completar, En, Leyendo
    <3>2. F!UnPaso
      BY <2>3, SiguienteLeerImplementa, DirectorioAbrirImplementa,
         DirectorioCerrarImplementa, EsperarImplementa DEF InvVisto
    <3> QED
      BY <1>1, <1>5, <3>1, <3>2
  <2> QED
    BY <1>5, <2>1, <2>2, <2>3 DEF Avanzar
<1>6. CASE Programa /\ Recordar
  <2>1. ASSUME NEW o \in Objs,
               \/ \E r \in Rutas, modo \in Modos : Abrir(o, r, modo)
               \/ Cerrar(o) \/ LeerByte(o)
               \/ \E s \in Textos : Escribir(o, s)
               \/ \E p \in 0..MaxTam : CambiarPosicion(o, p)
        PROVE  F!Next
    <3>1. op' = op /\ op = NADA
      BY <2>1 DEF Abrir, Cerrar, LeerByte, Escribir, CambiarPosicion, Abierto, Puede
    <3>2. Quietos
      BY <3>1 DEF Leyendo
    <3>3. F!UnPaso
      BY <2>1, AbrirImplementa, CerrarImplementa, LeerByteImplementa, EscribirImplementa,
         CambiarPosicionImplementa
    <3> QED
      BY <1>1, <1>6, <3>2, <3>3
  <2>2. ASSUME NEW o \in Objs, ObtenerSiguiente(o)
        PROVE  F!Next
    <3>1. Quietos
      BY <2>2 DEF ObtenerSiguiente, Abierto, Puede, Seguir, En, Leyendo
    <3> QED
      BY <1>1, <1>3, <1>6, <2>2, <3>1, EmpezarImplementa
  <2>3. ASSUME NEW o \in Objs, LeerTodo(o)
        PROVE  F!Next
    BY <1>3, <1>6, <2>3, LeerTodoImplementa
  <2>4. ASSUME NEW r \in Rutas, CrearDirectorio(r) \/ BorrarRuta(r)
        PROVE  F!Next
    <3>1. Quietos
      BY <2>4 DEF CrearDirectorio, BorrarRuta, Puede, Seguir, En, Leyendo
    <3> QED
      BY <1>1, <1>2, <1>6, <2>4, <3>1, CrearDirectorioImplementa, BorrarRutaImplementa
  <2>5. CASE Ejecutar
    <3>1. Quietos
      BY <2>5 DEF Ejecutar, Puede, Seguir, En, Leyendo
    <3> QED
      BY <1>1, <1>6, <2>5, <3>1, EjecutarImplementa
  <2>6. CASE Recolectar
    BY <1>4, <1>6, <2>6, RecolectarImplementa
  <2>7. CASE Salir \/ Fallar
    BY <1>3, <1>6, <2>7, SalirImplementa, FallarImplementa
  <2> QED
    BY <1>6, <2>1, <2>2, <2>3, <2>4, <2>5, <2>6, <2>7 DEF Programa
<1>7. CASE Afuera /\ Recordar
  <2>1. op' = op
    BY <1>7 DEF Afuera, PasoDelHijo
  <2>2. Leyendo' = Leyendo
    BY <2>1 DEF Leyendo
  <2> QED
    BY <1>2, <1>4, <1>7, <2>2, AfueraImplementa
<1>8. CASE UNCHANGED vars
  BY <1>8 DEF vars, F!vars, Cursores, Posicion, EnMedio, DeObjetos, Fd, Leyendo
<1> QED
  BY <1>5, <1>6, <1>7, <1>8 DEF Next

\* Other programs may create, remove, append to, truncate and overwrite files
\* between the system calls of an operation.  Each one is still a single step on a
\* cursor of its own, but for __leerTodo: what it delivers reaches the end of the
\* file, and each of its bytes was in its place since it began.
THEOREM ImplementaSiempre == Spec => ImplementaFichero
<1>1. Init => Inv /\ InvVisto /\ F!Init
  BY InicioInv, InicioLeido, InicioImplementa DEF InvVisto
<1>2. Inv /\ InvVisto /\ [Next]_vars => Inv' /\ InvVisto'
  BY PasoInv, PasoVisto
<1>3. Inv /\ Inv' /\ InvVisto /\ [Next]_vars => [F!Next]_F!vars
  BY PasoImplementa
<1> QED
  BY <1>1, <1>2, <1>3, PTL DEF Spec, ImplementaFichero, F!Spec
===============================================================================

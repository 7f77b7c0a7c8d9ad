# A verification of the PseudoD v3 runtime

PseudoD v3 is a language in Spanish. Its compiler (`src/pdc`, written in
PseudoD) turns modules into C in continuation-passing style, and its runtime
(`src/runtime/c/pdcrt`, written in C) runs that C: objects, a generational
collector that moves frames out of the C stack, hash tables, coroutines,
modules, a foreign function interface. This directory holds TLA+ models of the
parts whose correctness depends on long sequences of steps, the TLC
configurations that check them on small instances, and theorems that TLAPS
proves for every instance.

Identifiers of the models keep the names of the source, in Spanish.

## The system

| Component | Its state | Its operations | What makes it correct |
|---|---|---|---|
| **Garbage collector** (`pdcrt_gc.c`, macros of `pdcrt.h`) | seven lists of objects by colour and age (`grupo`), a header per object, the counter of minor collections `ctx->cnt`, the roots | allocate, write with a barrier, collect by stack (minor or major) or by memory, mark, move a frame, sweep, return through the trampoline | nothing reachable is freed, nothing is lost or merged when frames move, the remembered set is complete, everything unreachable goes in a major collection, a collection ends |
| **Objects and operations** (`pdcrt_ops.c`) | frames, arrays, closures, boxes, instances | create, link, read, call, return | each operation roots what it uses after an allocation |
| **Hash tables** (`pdcrt_tabla.c`) | buckets with relative links, `buckets_ocupados` | set, look up, remove, empty, resize, iterate | a table is a map, whatever the collisions; a resizing loses no pair; an iteration visits each key once |
| **Coroutines** (`pdcrt_impls.c`) | `estado` and a union that holds a continuation | `avanzar`, `generar`, the end of the body | no actor is forgotten or resumed twice; coroutines enter and leave as calls |
| **Trampoline, nested execution, errors** (`pdcrt.c`) | three jump buffers with flags, `continuacion_actual`, `inicio_del_stack` | `pdcrt_ejecutar`, `pdcrt_trampolin`, `pdcrt_error` | the buffers are saved and restored as a stack |
| **Modules and namespaces** (`importar`, `exportar` in `pdcrt_ops.c`) | the registry of modules, the registry of namespaces | load, import, export, read a name | every import is answered; the body of a module runs once, unless a function called from it imports it; a name is bound once |
| **Classes and instances** (`pdcrt_impls.c`, `runtime.pd`) | methods, attributes, superclasses | send a message, `fijarAtributo` | the nearest method is found |
| **Texts** (`pdcrt.c`, `pdcrt_ops.c`) | the array of interned texts | create, sweep | equal texts are the same object |
| **Calls** (`pdcrt_ops.c`, `pdcrt_impls.c`, emitted code) | six registers and the stack of the context (`ctx->pila`) | call with fixed, expanded or variable arguments, pass a message on | who answers gets what the caller passed; nobody leaves values in the stack, takes those of another or writes past its memory |
| **Foreign functions** (`pdffi.c`) | a window of the stack, captured values | call C, push, capture, return, send messages from C | C sees its arguments; what C holds stays alive |
| **Files and VIO** (`archivo.c`, `pdcrt_vios`) | a descriptor in a resource object | open, read, write, seek, close, directories, processes | each descriptor has one owner; an operation of several system calls, but the reading of a whole file, is one step for the program; an operation ends |
| **Compiler driver** (`compilador.pd`, `módulos.pd`, `dependencias.pd`) | the steps of a command line, the module database, interface and object files | compile an input, ask for the module it imports, link, save an interface | each module is compiled once, after what it uses; what is registered and saved is exactly what a module depends on; a cycle is an error |
| **Compiler passes** (the rest of `pdc`) | CST, scopes, AST, captures, IR | tokenize, parse, resolve names, mark captures, lower, emit | names mean what their scope says; captures are the free variables |
| **Library** (`bepd`) | none of its own | dictionaries, sets, iteration, text, JSON | sequential code, with tests in `tests/código` |

How they interact: compiled functions and runtime operations pass a
continuation (`pdcrt_k`: a C function and a frame) and never return to their
caller, so the C stack only grows. When it is full (`PDCRT_K`,
`PDCRT_VERIFICA_PILA`) the collector moves the frames that are reachable to the
heap and `longjmp` discards the stack. An allocation may run the collector too,
when the heap is full, and then nothing moves. So every component depends on the
collector, and the collector depends on a contract with all of them: every
pointer stored into an object passes through the write barrier, and every value
used after an allocation is a root during it. Coroutines are objects that hold
continuations, that is, pointers into the C stack. Files are objects that the
sweep must not free while they are open. Calls meet in the stack of the
context: emitted code, receivers in C, prologues and foreign functions push
and take values by position, each trusting the count of the one before.

The compiler and the runtime agree on modules through three kinds of files. A
run of `pdc` compiles sources and reads interfaces (`.ipd`) of earlier runs; the
C code of the main module carries a table of the modules to register
(`PDCRT_DECLARAR_DEPS`); the running program finds in that table, and only
there, the code of what it imports.

There are no threads in a program; around it there are other processes, which
change the files it uses, and the child it waits for. What is hard is the interleaving of the program with
collections, at the points the code allows, and the long sequences of legal
calls: a pointer stored in one collection cycle that matters two collections
later; a table that only after four insertions has the layout that a removal
gets wrong; a coroutine that is advanced from two places; a closure of imports
that four runs of the compiler relay to one another. `PROJECT.json` lists
these hazards at their lines.

## Modules

| Module | Models | Used by |
|---|---|---|
| `GC` | the collector, and the program as the collector sees it | `MCGC`, `GCPruebas` |
| `GCPruebas` | proofs about `GC` | |
| `Tabla` | `pdcrt_tabla.c`, with `Tabla#paraCadaPar` | `MCTabla`, `TablaPruebas` |
| `TablaPruebas` | proofs about `Tabla`, the refinement among them | |
| `Mapa` | what a table promises (abstract) | `Tabla` |
| `Corrutina` | `avanzar`, `generar` and the end of a body | `MCCorrutina`, `CorrutinaPruebas` |
| `PilaDeCorrutinas` | what coroutines promise: a stack of calls (abstract) | `Corrutina` |
| `CorrutinaPruebas` | proofs about `Corrutina`, the refinement among them | |
| `Construccion` | runs of the compiler driver and the files that link them | `Programa` |
| `ConstruccionPruebas` | proofs about `Construccion` | `ProgramaPruebas` |
| `Importacion` | `importar`, `exportar` and the registries of a running program | `Programa` |
| `Programa` | both together: executables are made, and one is started | `MCPrograma` |
| `ProgramaPruebas` | proofs about `Programa` | |
| `Fichero` | what files promise: a cursor each, atomic operations (abstract) | `Archivo` |
| `Vio` | `vio_linux.c` and the part of the system it stands on | `Archivo` |
| `Archivo` | the Archivo object and the messages about files, directories and processes | `MCArchivo`, `ArchivoPruebas` |
| `ArchivoPruebas` | proofs about `Archivo`, the refinement among them | |
| `Llamadas` | how arguments travel: calls, receivers, prologues, foreign functions | `MCLlamadas`, `LlamadasPruebas` |
| `LlamadasPruebas` | proofs about `Llamadas` | |
| `Naturales` | induction, least elements, functions defined by recursion and powers of 2, as lemmas about sets and functions | the proof modules but `GCPruebas` and `ArchivoPruebas` |
| `MCGC`, `MCTabla`, `MCCorrutina`, `MCPrograma`, `MCArchivo`, `MCLlamadas` | instances for TLC | |

### GC

An object is an address with a group, a kind, a mark of whether it is in the C
stack, and a set of fields. `raices` is everything the running function holds:
the pila of the context, the chain of `raices_locales`, its own variables. The
actions of the program are the ways objects come to be and point to each other:

| Action | Code |
|---|---|
| `InicializarMarco`, `CrearMarco` | a compiled function declares a frame in the C stack; the runtime makes one in the heap |
| `AlojarObj`, `CrearCorrutina`, `AlojarRsc` | the other objects |
| `Escribir`, `Borrar`, `Leer`, `Soltar` | registers, boxes, arrays, tables, attributes; the write barrier is `Barrera` |
| `CambiarPunto`, `TerminarCorrutina` | what `avanzar` and `generar` do to a coroutine |
| `Cerrar` | `Archivo#cerrar` |
| `RecolectarPorPila`, `RecolectarPorMemoria` | the start of a collection |
| `MarcarRaices`, `ProcesarGris`, `Recolectar`, `MoverNegrosABlancos` | `pdcrt_recolectar_basura_simple`, step by step |
| `Trampolin` | `longjmp` after a collection by stack |

The order of the grey objects and the addresses of copies are free choices.
A freed address is given out again only when no pointer to it is left, so that
a dangling pointer can be recognised: the model reports it where the code would
read memory that belongs to something else. `Programas` says which optional
services the program uses (`usa`), so a run can speak of the programs for which
a property holds. An operation keeps as roots all it will use. These places of
the code do not; they are hazards of `PROJECT.json` and are not in the model
yet:

- `PDCRT_K` does not root `res` (`pdcrt.h:690`), which
  `pdcrt_recv_corrutina_avanzar_k1` and `pdffi_dentro_de_ejecutar_k` use after it;
- `Tabla#paraCadaPar` does not root the table while its frame is made
  (`pdcrt_impls.c:1376`);
- `Runtime#ejecutar` does not root `k`, and some receivers have no roots of
  their own;
- `pdcrt_ejecutar_opt` does not root its first frame while it creates a closure
  (`pdcrt.c:848`).

### Tabla

`tbl` is the C structure; `Fijar`, `Eliminar`, `Rehashear` and `Vacia` are the
functions of `pdcrt_tabla.c` from table to table, and the actions are the
messages a table answers. `iterador` is the index of `paraCadaPar`: between two
of its steps the program's procedure may use any operation. `Cadena` walks the
links as the loops of the code do. The number of keys is what a program makes
it, so the number of buckets and the keys that are there at once need a bound:
`Cabe`, a guard of the two actions that make a table grow.

Two keys are equal if they are the same or `Iguales` has them: `pdcrt_igualdad`
makes an integer and a float equal when their values are, and their hashes are
not the same. So both can be keys at once, as long as no search of one meets
the other, and where they meet depends on the number of buckets and on which
keys were moved. What follows from it is in the model:

- A resizing that brings two such keys to one chain, as it does with 8 and 8.0
  when 16 buckets become 8, merges them and fails the assertion at the end of
  `pdcrt_tabla_rehashear`. The program stops there: `FijarEn` and `RehashearCon`
  have the assertion as a guard, and the properties say when it fails.
- Setting 8.0 may change the value of 8, and looking up or removing it may find
  8, if 8 is in its way.
- Removing 1.0 when 1 is in its main position, moved there as a collision of 9,
  frees the last bucket of the chain of 9, which still leads to it
  (`RompeCadena`). The table is not followed from there: the loops of the code
  read the stale key of a bucket that is not active, and may not end.

NaN, which is not equal to itself, integers beyond 2^53, of which two may be
equal to one float, and keys whose `igualA` or hash is a method of the program are
left out (`IgualesEsTransitiva`).

### Corrutina

An actor is the main program or a body; a continuation is an actor and the
place where it goes on. `punto` is the union of the C structure, `retorno` the
continuation of the frame that the first `avanzar` makes. `espera` remembers
where each actor stopped, to say which continuations are still to be used.

### Construccion

A source is the sequence of its imports, those of its functions included
(`DependenciasDelNodo` finds both). A command line is its inputs, what it
makes (an object or an executable), the interfaces to save and the objects to
link. Between runs only the files stay: `ipd`, `objs`, `exe`.

| Action | Code |
|---|---|
| `Empezar` | `EjecutarCompilador` up to the loop over `pasos`: interfaces are read into `bdMod`, the steps are made |
| `EmpezarPaso`, `TerminarPaso` | the loop over `pasos`, `ProcesarPaso` |
| `DependenciaLista`, `CompilarDependencia`, `DependenciaDesconocida` | `ProcesarMódulo`, called by `Compilar` for each import: nothing to do, a step to take first (a call inside the call: `pila`), a name nobody gave |
| `TerminarModulo` | the rest of `Compilar` and `agregarMódulo`: the transitive prefixes, or an error because an import is not in `bdMod` or the module already is |
| `Enlazar` | the link of the executable |
| `GuardarInterfaz`, `Terminar` | the interfaces of `-q` |
| `Interrumpir`, `Salir` | pdc is killed in any step, also after it truncated an interface; the process ends |

What is abstracted: a module is its own prefix (as with `-Zid`) and names its
files; an interface is the set of prefixes it holds (its exports are left out); a library of interfaces
(`-k`) is the set of them; the sources do not change; the C compiler and
the assembler are one step that does not fail; the linker succeeds when it has
the code of every module of the table, once. C and assembler inputs, shared
objects and saved libraries (`-Y`) are not modelled. Seen while reading and not
modelled either: for an input in C, `compilador.pd:1427` makes a `compilarC`
step with four values where the alternative has five fields (`pdcrtMain` is
missing).

### Importacion and Programa

A frame is a body, a function of a module that imports, or the frame in
which `pdcrt_importar` waits. A body makes its imports in order and exports;
functions of modules whose body has begun may be called at any time, by bodies
or functions, and may import, call or return. A namespace is the number of the
load of its module that made it, so two loads can be told apart.

| Action | Code |
|---|---|
| `Arrancar` | `pdcrt_main`: the table of main is registered, its body is called directly |
| `ImportarListo`, `ImportarYCargar` | `pdcrt_importar`: the namespace is there; or the code is called, or the import fails |
| `Exportar` | `pdcrt_exportar` |
| `ImportarK1` | `pdcrt_importar_k1`: the namespace is looked up again |
| `LlamarFuncion`, `Retornar` | the program |

`Programa` puts `Construccion` and `Importacion` together: runs of `pdc`, with
errors and kills, until some executable is started with the table it was given.
The module of the runtime, which is loaded the same way before the others, is left out, and a
body does not leave through a coroutine. One run checks the driver alone and the
driver followed by a program.

### Vio, Archivo and Fichero

`Vio` has the names, the contents (inodes) and the descriptors, with one
operator per system call or per function of `vio_linux.c`, and `OtroPrograma`:
between two system calls any other process may create a file or a directory,
remove a name, or give a file that somebody can reach any other contents: it
truncates, overwrites or appends. `Archivo` has the objects, and `op`, what an
operation of several system calls remembers between two of them. `vistos` is
history: which bytes, and where, the file that `__leerTodo` reads has had since it
began.

| Action | Code |
|---|---|
| `Abrir` | `Runtime#abrirArchivo`; when it fails the object has no descriptor |
| `Cerrar`, `LeerByte`, `Escribir`, `CambiarPosicion` | the messages of the same names (`Escribir` is `escribirByte` and `escribirTexto`) |
| `ObtenerSiguiente`, `SiguienteLeer`, `SiguienteVolver` | `obtenerSiguienteByte`: asks for the position, reads, seeks back |
| `LeerTodo`, `TodoLeer` | `__leerTodo`: reads until a read is short |
| `CrearDirectorio`, `DirectorioAbrir`, `DirectorioCerrar` | `crearDirectorio`: `mkdir`, `open`, `close` |
| `BorrarRuta` | `borrarArchivo`, `borrarDirectorio` |
| `Ejecutar`, `PasoDelHijo`, `Esperar` | `ejecutar`: `fork`, what the child does, the loop of `waitpid` |
| `Recolectar` | a major collection: resources without `liberar` are freed, whoever holds them |
| `Salir`, `Fallar` | `pdcrt_cerrar_contexto`; `pdcrt_error`, after a partial write or none |

`Fichero` has neither descriptors nor system calls: a cursor for each open
file, and operations of one step, but for the reading of a whole file. The
refinement mapping (`Cursores`) gives an object in the middle of an operation the
position where it began; a peek is the abstract step at its read. `__leerTodo` is not one
step, since another program may truncate the file, or overwrite what was
read, between two reads: it begins (`ComenzarTodo`) and ends (`LeerTodo`), the text it
delivers has each byte from a moment in which it was in its place, and nothing
is left after the cursor when it ends. Of a file that others only append to this is
what is left of it. `dado` is what an operation delivers to its continuation.

What is abstracted: files are regular, so a read is short only at the end; any
free descriptor may be given; an error is of one kind (no caller in the runtime
tells one from another) and ends the program, as it does outside of a handler;
permissions and relative paths are left out. `Vio!AbrirArchivo` has one case
that no message of the runtime asks for: with both `error_nuevo` and
`error_existente` it fails and keeps the descriptor it opened.

Seen while reading and not modelled:

- `borrar_archivo_por_ruta` and `borrar_directorio_por_ruta` test for EEXIST
  where ENOENT is meant, so a missing file is reported as DESCONOCIDO.
- `crearDirectorio` succeeds on a directory that exists, since the result of
  `mkdir` is not looked at. This is in the model (`Vio!Mkdir`) and `Fichero`
  does not promise otherwise, although the documentation of
  `bepd/x/sistemaDeArchivos/archivo.pd:56` says that it fails. And when the `open`
  that follows fails, there is an error although the directory was made.
- The environment of a process (`vio_linux.c:1244`): the `=` replaces the first
  character of the name, the place between name and value is not
  initialized, and each entry begins on the zero that ends the one before.
- `pdcrt_vio_linux_leer` (`vio_linux.c:733`) goes below zero in the count of bytes
  when it has several buffers and the first is not filled. The runtime passes one.

### Llamadas

`pila` is the stack of the context, `cap` the room it has and `tope` how far the
last step wrote in it; `vuelo` is a message in flight, with the six
registers as its receiver gets them; `ventana` is the window of the foreign
function that runs; `locales` is what a prologue put in the registers of its
frame. Three variables are history. `lista` has the arguments as the language sees
them, which every action updates by what the message means and not by what
the code does; the property `Entrega` compares both. `perdida` says that what
runs now does not have what was passed. `sobra` is how many values the last
closure of C leaves in the stack.

| Action | Code |
|---|---|
| `LlamarFija`, `LlamarVariadica` | emitted calls: `pdcrt_llamar0` to `pdcrt_llamarnr`; `pdcrt_expandir_varargs` with `pdcrt_llamarn` |
| `Params` | `pdcrt_params`, in the prologue of a procedure |
| `EnviarAMetodo`, `EnviarANoEncontrado` | `pdcrt_recv_instancia`, `pdcrt_recv_fallback_a_clase` |
| `EnviarMensaje` | `Runtime#enviarMensaje` |
| `SinRespuesta` | the errors of the receivers |
| `InvocarFFI`, `FuncionDeClosure` | `pdffi_invocar_funcion` and the opcode `ffiC`; a closure of C |
| `Empujar`, `ExtenderFFI`, `EmpujarClosure`, `DevolverFFI`, `FallarFFI` | `pdffi_empujar`, `pdffi_extender_pila`, `pdffi_empujar_closure`, the return, the errors |
| `Seguir`, `Terminar` | the body goes on; the end of an execution leaves its result |

Five places of the code do not deliver the arguments. `perdida` marks the
steps that take one of them and `Entrega` says that they are exactly these:

- `Runtime#enviarMensaje` with 5, 6 or 7 arguments (`pdcrt_impls.c:1863`): its
  position and its count of the values to take from the stack are wrong there;
- `mensajeNoEncontrado` for a message of 5 or 6 arguments (`2330`): the last
  one no longer fits in the registers and is not kept;
- a closure of C called with n < 6 arguments (`pdffi.c:394`): all six
  registers are pushed and the window is the last n values. The function sees
  others than its arguments, and the 6 - n below are still in the stack when it
  returned;
- `pdffi_extender_pila` (`pdffi.c:42`) enlarges the window by values that
  nobody pushed;
- `pdffi_empujar` (`pdffi.c:57`) writes without asking for room: past the memory
  of the stack when it is full.

After a step that lost arguments the model goes on with what the code has, through
the receivers that follow, up to the body that gets the result, unless someone
reads before the first place of the stack (`fin = "roto"`) or has written past the
last one (`"desbordado"`), which are undefined behaviour. A body that goes on with values
left in the stack makes no more calls in the model (`Llama`): in the code they pile up,
and the reversals of `pdffi_funcion_de_closure` are wrong then.

## Runs

| Run | Question | Result |
|---|---|---|
| `gc_seguro` | Is the collector safe, exact, complete and transparent? | holds: 1.9 million states |
| `gc_servicios` | Do open files survive, and do collections end, with coroutines and closed files? | holds: 0.6 million states |
| `gc_heap_lleno` | May a program use frames in the heap and fill the heap? | the assertion of `pdcrt_gc_marcar` fails |
| `gc_corrutinas` | May a program use coroutines? | the assertion fails |
| `gc_cierre` | May a program close a file and keep it? | the assertion fails |
| `tabla` | Is a table a map, in every layout? When does its assertion fail, with keys that are equal and have different hashes? | holds: 18 thousand states |
| `tabla_eliminar` | Does `eliminar` remove its key? | a key stored as a collision stays |
| `corrutina` | Is every actor that waits resumed once, where it waits; are coroutines calls? | holds, but for the site a body ends at: 58 thousand states |
| `corrutina_retorno` | Does a body end where its last `avanzar` waits? | it goes back to the first one |
| `programa` | Do modules get the exact closure of their imports, in any sequence of runs of `pdc`? Can an import of a program that was built and started fail? Do bodies run once? | holds: 574 thousand states |
| `archivos` | Does each descriptor have one owner; are operations of several system calls single steps for the program, and what does the reading of a whole file deliver; do they end? | holds: 136 thousand states |
| `llamadas` | Do arguments arrive through any chain of receivers, with the stack left as it was found? | holds, but for exactly the five places above: 1.2 million states |

**The collector.** `gc_seguro` checks programs that use one of two services:
frames in the heap with a continuation in the C stack (`crear_marco`), or a full
heap (`por_memoria`). Its properties: no pointer dangles (`SinColgantes`); the
colours are right in the mark phase (`Tricolor`); the remembered set is complete
(`ConjuntoRecordado`); the C stack is empty when it is discarded
(`PilaVaciaAlSaltar`); a step of the collector changes no pointer of what it
keeps, but for the new addresses, and two objects never become one
(`Transparente`); a major collection leaves nothing unreachable
(`MayorRecogeTodo`).

The three violations are the services that break it. Both services together: a
collection by memory makes a frame of the heap old although its continuation is
in the C stack, and nothing records it (`pdcrt_gc_mover_negros_a_blancos`).
Coroutines: `avanzar` and `generar` store continuations without a barrier.
Files: the sweep frees a closed file that is still held. In each, two or three
collections separate the cause from the failed assertion.

**Tables.** `tabla` quantifies over the next operation in every state as well
(`FijarSeVe`, `RehashearConserva`, `EliminarRespetaLasDemas`), so it checks each
operation on each reachable layout. Each says what holds of any keys and what
holds only when keys that are equal are the same (`Distintas`): the assertion of the
resizing, that the pair that is set is that of the key itself, that a removal leaves the
chains whole. `RehashearConserva` also says that the assertion does fail when
two keys that are equal and different meet, and `EliminarRespetaLasDemas` which
removals break a chain. And `ImplementaMapa` checks that the whole
table refines `Mapa`. `Mapa!Next` lets `eliminar` remove nothing, by a step in
which nothing changes: that `eliminar` misses its key is stated by `EliminarQuita`
alone.

**Coroutines.** `corrutina` covers programs that advance each coroutine from one
procedure. `UnSoloUso` says that an actor that waits is held by one coroutine, with
the site where it waits, and that the one that runs is held by none: what `avanzar` and
`generar` resume is used once. The end of a body goes to the continuation of its
frame, the first `avanzar`. This is the actor that is held; it is the site too
in the programs that advance each coroutine from one site, and in the others
(`otro_sitio`) that continuation is used a second time and the one of the last
`avanzar` never. `corrutina_retorno`, which is `tests/lenguaje/coro/coro2.pd`, shows it.
With `generar_ajeno` (the generator given to another body) the order of a stack is
lost, and the refinement says nothing of those programs, but `UnSoloUso` still
holds.

**The compiler driver.** The reference is `Alcanzables`, the least set that has
the imports of a module and the imports of its elements; the code never computes
it as a fixed point, it unites what each import was registered with.
`CierreExacto` and `EjecutableCompleto` say that this is enough, also when it
came through interfaces of earlier runs. A step is marked as completed before it
compiles: this is how a cycle becomes an error and not an endless recursion
(`PdcTermina`), and `SinCiclos` says that no order of runs gets around it.
`PasosExactos` says that a completed step that is not in progress did its work.
`ErroresJustificados` says that the two errors of the module database have
their causes in the sources or in the command line.

**Programs.** `ImportarNoFalla` joins both halves: a program that the compiler
made never stops in one of the errors of `pdcrt_importar`. `DependenciasListas`
says that code after an import finds the module whole, or is being run by it.
Nothing marks a body that is running, so a function that is called in the middle
of the body and imports the module runs it again, and its importers may hold two namespaces:
`UnSoloEspacio` says that without imports in functions this cannot happen, and
`RecargaSoloReentrante` that with them it happens in that case only. No module
of the repository imports in a function. `ProgramaTermina` says that all imports
of a program without them are answered.

**Files.** `Propiedad` says that every open descriptor belongs to one object or
to the operation in progress, and that whoever has one finds it open: so a
number that was closed and given again is never used by its old owner, also
when the old owner is a closed file that the collector freed, and the end of
the context leaves nothing open. `ImplementaFichero` is the refinement, with
other programs that truncate and overwrite as they like.
`OperacionTermina` says that a peek, a read of a whole file, the making of a
directory and the wait for a child end, maybe with an error; the wait, once the
child ended (a child that stops has not).

**Calls.** The interesting counts are those around six, where the arguments go
over from the registers to the stack, and each receiver that adds an argument
moves that edge by one: chains of up to three receivers cross it. `Entrega`
compares what arrives with what was passed, and is an equivalence: it fails
after the five steps and after no other. `PilaBalanceada` says what the stack holds
whenever a body runs: nothing, so each one took what it pushed, or the
values that a closure of C left, as many as it lacked arguments for six.
`SinDesbordar` says that the room that was asked for is enough, also for the
value that `pdcrt_expandir_varargs` moves past the end for a moment; only
`pdffi_empujar` writes past it, and then `tope` is above `cap`.

### Bounds

- `Obj`: 4 addresses (3 in `gc_servicios`). A forwarding header needs a frame and
  its copy; a dangling pointer through the old generation needs an old object, a
  young one and a frame. `HayLugar` keeps room for the copies, since running out
  of addresses in the middle of a collection would stop the model and not the
  program. Addresses are symmetric; the run with liveness uses no symmetry.
- `LimiteMenores = 1`: minor collections are followed by major ones (100 in the
  code), so both kinds follow each other in every order.
- `MaxCampos = 1`: one field besides the continuation. Chains and cycles of
  objects remain.
- `TamMinimo = 2` and `TamMaximo = 8` buckets (8 and no limit in the code; no step
  takes the table past `TamMaximo`, which for the theorems is any number), with
  three sets of keys that are there at once (`Juntas`). Four keys that are all
  different fill the table, and `HashDePrueba` has keys that collide in every
  size, in some sizes, and with buckets where others were moved. In the second
  set two keys are equal, apart in the largest table and together in the others
  (as 8 and 8.0 in 16 and 8 buckets); in the third two are equal and one comes to
  hold the main position of the other (as 1 and 1.0).
- `Modulos`: 3, with seven programs (a chain, triangles with imports in bodies
  and in functions, cycles of one and of two modules), every command line of
  one or two inputs, and of three in order, each a source, a plain file or an
  interface, and the command lines that build everything at once in other
  orders or a module at a time. Three modules are enough for a closure that passes
  through an interface and for a cycle behind a module that is not in it.
- `MaxMarcos = 6`: how deep the frames get before functions stop calling. A reload
  needs five: a body, a function of it, the frame that waits, the second body,
  and a function in it.
- `Rutas`, `Inodos`: 1 each, `Fds` and `Objs`: 2 each: a descriptor can be
  closed and given to another object, and two objects can have the same file
  open. `MaxTam = 2` and `Cap = 1` (4096 in the code): `__leerTodo` takes several
  reads. There are two bytes, so what others write may differ from what was
  there. `MaxTam` bounds what others append, so a file that grows faster than
  it is read is not covered. `Modos`: to read (10), to write (1), to write and
  truncate (101).
- `Llamadas`: calls of up to nine arguments (three in the stack), objects
  whose methods are procedures, closures of C or other objects, up to two
  arrays in a call. `MaxVentana = 7`: a foreign function pushes
  until its window has seven values.
- `Coros`: 3, and 2 places to call from: coroutines nest three deep.

### Fairness

`gc_servicios` uses `SpecJusta`: weak fairness of the steps of the collector
and the trampoline as a whole. The code justifies it: a collection is a C
function that runs to its end before the program does anything, and its steps
are disabled outside of it. Nothing is assumed of the program. `programa`
uses weak fairness of the steps of a run of `pdc` (`EnPdc(Compilar)`), a
sequential process that waits for nothing; nobody has to start one, and it may
be killed. It also uses weak fairness of the running program as a whole, which
is one sequential process too, and not of any of its choices; `ProgramaTermina`
speaks of programs without imports in functions, whose steps are all
determined. `archivos` uses weak fairness of the next step of the operation in
progress, or of its failure when it cannot go on (`Avanzar`, `Impedida`): a C
function that was called goes on by itself, and only waits for its child.
Nothing is assumed of the child or of the other programs. The other runs check
safety and need no fairness.

Deadlock is checked in `gc_seguro`, `tabla` and `tabla_eliminar`. In the other
runs the system may stop: a program ends, and the collector stops at its
assertion.

## Proofs

TLAPS proves, for any sets and limits that satisfy the named assumptions of the
modules:

| Theorem | Says | For |
|---|---|---|
| `GCPruebas!TipoSiempre` | `[]TipoOK` | every program |
| `GCPruebas!AbiertosSiempre` | `AbiertosSeConservan` | every program |
| `GCPruebas!SinColgantesSiempre` | `[]SinColgantes` | safe programs |
| `GCPruebas!TricolorSiempre` | `[]Tricolor` | safe programs |
| `GCPruebas!ConjuntoRecordadoSiempre` | `[]ConjuntoRecordado` | safe programs |
| `GCPruebas!PilaVaciaSiempre` | `[]PilaVaciaAlSaltar` | safe programs |
| `GCPruebas!AsercionSiempre` | `[]AsercionDeMarcar` | safe programs |
| `GCPruebas!TransparenteSiempre` | `Transparente` | safe programs |
| `GCPruebas!MayorRecogeTodoSiempre` | `[]MayorRecogeTodo` | safe programs |
| `TablaPruebas!TipoSiempre` | `[]TipoOK` | any keys, values, hashes, equalities (symmetric and transitive), resizings and number of buckets |
| `TablaPruebas!CadenasSiempre` | `[]CadenasCorrectas` | the same |
| `TablaPruebas!FijarSiempre` | `[]FijarSeVe` | the same |
| `TablaPruebas!RehashearSiempre` | `[]RehashearConserva` | the same |
| `TablaPruebas!EliminarSiempre` | `[]EliminarRespetaLasDemas` | the same |
| `TablaPruebas!IteracionSiempre` | `[]IteracionCompleta` | the same |
| `TablaPruebas!ImplementaMapaSiempre` | `ImplementaMapa`: `Tabla` implements `Mapa` | the same |
| `CorrutinaPruebas!TipoSiempre` | `[]TipoOK` | every program |
| `CorrutinaPruebas!UnSoloUsoSiempre` | `[]UnSoloUso` | programs that advance each coroutine from one actor, at one site or several (it says less of these) |
| `CorrutinaPruebas!ImplementaPilaSiempre` | `ImplementaPila`: `Corrutina` implements `PilaDeCorrutinas` | the same, with finitely many coroutines |
| `ConstruccionPruebas!TipoSiempre` | `[]TipoOK` | every set of modules, program and command line |
| `ConstruccionPruebas!CierreSiempre` | `[]CierreExacto` | the same |
| `ConstruccionPruebas!SinCiclosSiempre` | `[]SinCiclos` | the same |
| `ConstruccionPruebas!PasosSiempre` | `[]PasosExactos` | the same |
| `ConstruccionPruebas!EjecutableSiempre` | `[]EjecutableCompleto` | the same |
| `ConstruccionPruebas!ErroresSiempre` | `[]ErroresJustificados` | the same |
| `ProgramaPruebas!TipoImportacionSiempre` | `[]TipoImportacion` | the same, any depth of frames |
| `ProgramaPruebas!ImportarSiempre` | `[]ImportarNoFalla` | the same, any depth of frames |
| `ProgramaPruebas!DependenciasListasSiempre` | `[]DependenciasListas` | the same |
| `ProgramaPruebas!RecargaSoloReentranteSiempre` | `RecargaSoloReentrante` | the same |
| `ProgramaPruebas!UnSoloEspacioSiempre` | `[]UnSoloEspacio` | the same |
| `ArchivoPruebas!TipoArchivoSiempre` | `[]TipoArchivo` | any paths, inodes, descriptors, objects, texts, modes, sizes |
| `ArchivoPruebas!PropiedadSiempre` | `[]Propiedad` | the same |
| `ArchivoPruebas!ImplementaSiempre` | `ImplementaFichero`: `Archivo` implements `Fichero` | the same |
| `LlamadasPruebas!TipoLlamadasSiempre` | `[]TipoLlamadas` | any values, objects, methods, prototypes and lists of arguments |
| `LlamadasPruebas!PilaSiempre` | `[]PilaBalanceada`: what is left after a closure of C is in it | the same |
| `LlamadasPruebas!SinDesbordarSiempre` | `[]SinDesbordar`: but for a push without room | the same |
| `LlamadasPruebas!EntregaSiempre` | `[]Entrega`: exact in all steps but five, and not exact in these | the same |

A program is safe (`Seguro`) if it uses no coroutine, closes no file, and does
not use both frames in the heap and a full heap. The violations show that each
condition is needed. Every safety property of the passing runs is stated by one
of these theorems.

The argument for the collector is the inductive invariant `Inv` of
`GCPruebas`. `SinColgantes` is not inductive: the sweep keeps it only because
what survives is marked (`InvMarcado`), marking ends with that only because the
old generation that a minor collection skips points to nothing young
(`InvRecordado`), and the reset restores this only because the frames that are
left in the C stack, in a collection that moves none, are not the fields of a
heap object (`InvMonton`): this is where the condition on both services is
used. `InvReubicado` says where forwarding headers lead, `InvPila` that the C
stack holds frames only and in which colours, `InvBarrido` what is left after
the sweep. The lemma `InvMarcar` says what marking does to each of the four
kinds of object (copies, forwarding headers, the visited object, the others),
and the lemmas of the steps that mark use it.

`Transparente` follows from `Inv` step by step: marking takes two objects to two
different ones because each copy has an address that was free. That a major
collection leaves nothing unreachable is the opposite of safety, marking not too
much, and needs its own invariant, `InvAlcance`: what is marked belongs to every
set that has the roots and is closed under fields and forwarding. A
path to each object does not survive when objects move; the closed sets do.

For tables, `Bien` says that the buckets are chained by main position and that no
two of one chain have equal keys; equal keys in two chains are allowed, and only
the same key is stored once (`LlavesUnicas`). The chains are taken apart from what the buckets hold:
`Eslabones` speaks of three functions on the active buckets, the head of the
chain, the next bucket and a rank that grows along the links, so chains end and
do not meet. An operation changes these functions in one of a few ways (a chain of
its own, one more after the head, a member that moves to another bucket, one
less), and there is a lemma for each. The branch of `pdcrt_tabla_fijar` that moves a collision
out of a main position (`ReubicarBien`) and the one of `pdcrt_tabla_eliminar`
that puts the last pair of the chain in the place of the removed one
(`QuitarUltimo`) are where the links could break. The branch that frees the last
bucket of a chain on its own does break them when that bucket is in another chain: `CadenaRota`
and `EliminarBien` say that this is exactly `RompeCadena`, and `NoRompe` that
it needs keys that are equal and different. `Cadena` and the copy of
`Rehashear` are recursive functions: `Naturales` gives that they exist and what
they satisfy. The copy counts (`Copiada`): each pair makes one more bucket or is merged with an
equal key, so the assertion at the end decides whether any was merged
(`CopiaPaso`, `RehashearBien`). If it holds every pair is there; it holds if no
two keys are equal and different, and fails if two that are have one main position
in the new table (`NoSeJuntan`). With `Bien`, the search of a key finds one bucket at most, with an equal key
(`LugaresSon`), and its own if it is stored (`SeEncuentra`), so the properties, which speak of what is found, come down to
what the buckets hold (`Guarda`). `ConPar` says which key a `fijar` sets. The iteration counts right
because a key that is there keeps its bucket when it is set (`FijarBien`).

For coroutines, `UnSoloUso` has two parts: an actor that waits is held by one
coroutine, at the site where it waits (`UnoLoGuarda`), and the frame of a body
that runs goes back to the actor its coroutine holds (`VuelveAQuienGuarda`), which
is where the condition on programs is used; to the same site only if the
program has one. `Inv` adds that the actor that runs waits nowhere, and that a
coroutine that has not started neither runs nor waits (`CorreUno`): without it the
actor that leaves could be waiting somewhere else already. For the refinement, `InvPila` says that there is a sequence of
actors without repetitions, from the main program to the one that runs, in which
each holds the continuation of the one before; `Pila`, which follows these links
from the top, finds that sequence. It is only true of programs whose generators
are used by their own bodies, as the refinement itself.

For the driver, the lemmas say what `Alcanzables` is: it is closed, it is
contained in every closed set, and if the imports of a module are registered
with exact prefixes, `Prefijos` is exact for it. So `CierreExacto`
is kept by the one step that registers a module, when all its imports are
registered (the error of `buscarMódulo` is the other case). `SinCiclos` is
kept by the same step: a module on a cycle reaches itself through one of its
imports `d`, so what `d` depends on contains the imports of the module, `d`
among them, and `d` was registered before. `ipd` keeps both
over a kill, since a truncated interface is no interface.

`ErroresJustificados` needs to know what the calls of `Compilar` in progress have
done (`Compila`): each is of another step, of a module that the call below imports
(`EnCadena`), and the imports it has gone past were taken care of. So an import
that is not in the database when a module ends is one whose own call is still
below in the stack, and the stack from there to the top is a cycle.

For programs, what has to be invariant is that the registry is closed under
imports (`RegistroCerrado`), which `EjecutableCompleto` gives when the
executable starts, and that under each frame that waits the next one is the
body of its module until that module has a namespace (`EsperasAtendidas`). The
first answers the error of line 781 and the second the one of line 808.

`DependenciasListas` is inductive once it is said of any stack of frames
(`Listas`). A body that was begun and has no namespace is still in the stack
(`Cargados`); what runs above a body, without a function in between, is something
its module depends on (`Cadena`), and no module of the registry depends on
itself, which comes from `SinCiclos` through the interfaces and the tables
(`DependenciasSinCiclos`). So only a function can import a module whose body is
running: this is `RecargaSoloReentrante`, and without imports in functions
`UnSoloEspacio`.

For files, `Inv` is the type, `Propiedad` and what the steps of an operation
find where it began (`EnOperacion`): an object that has a peek in progress
still has its descriptor, since the program does nothing else meanwhile. The
refinement speaks of `vistos`, the bytes that the file of the text in progress has
had, each with its place, since the reading began. It only grows, so what
`InvVisto` says survives other programs that truncate and overwrite: each byte
read so far was in its place at some moment since then (`InvLeido`), what the file has now is among
what was seen (`Memoria`), and a file has at most `MaxTam` bytes (`Cortos`), so that the last read, a short one,
leaves nothing after the cursor. `__leerTodo` implements two abstract steps, its
beginning (`LeerTodoImplementa`) and its end (`TodoLeerImplementa`); between
them nothing of the abstract file changes but what the other programs do to
the contents. `RecordarImplementa` says that `vistos` follows the contents as the
abstract one does. The other lemmas `...Implementa` map one action to its
abstract one or to no change.

For calls, `Inv` says what the stack holds at each moment (`Ocupada`): the
arguments of the message in flight that do not fit in the registers, one less if
a `mensajeNoEncontrado` lost one; or, from the place `sobra` on, the values of the window
of the foreign function that runs; or `sobra` values when a body runs. `sobra` is 0
but in a closure of C and in the body it returns to. Every receiver trusts
this count and every action leaves it true for the next one, which is why the
number of arguments and the length of the chain do not matter. `HayLugar` puts
the values in the stack below the highest place that was written, and this one
below the room that was asked for, unless the execution ended because a
foreign function wrote past it (`fin = "desbordado"`). `Entrega` is an equivalence: what a
receiver, a window or a body has is what was passed if and only if no step lost
some. From left to right it says that the steps of the five places do deliver something
else (`PerdidaEntrega`, and `Medida` for windows: one that has values of its caller is
too long to be the list), so the exception is not wider than the fault.
From right to left, `Lleva` says where each argument of a message is, in a register
or in the stack, and there is a lemma for one more or two more at the front, where
the last registers go over to the stack, and for two less (`LlevaUnoMas`,
`LlevaDosMas`, `LlevaDosMenos`). The expansion of arrays and the rest of a variadic procedure are folds over the call
(`FlattenSeq`), and their lemmas say what they hold at each place. Of the
assumptions on the constants two are of interest. `SonSecuencias` says that an
array holds a sequence of values. `NadaNoEsRegistro` says that the absent value is
neither a message nor a window. TLC evaluates both on the instance it checks.

The theorems of the library on induction and recursion take an operator as a
parameter, which the provers here cannot instantiate. `Naturales` states them of
sets and functions: a set of naturals that has 0 and the successor of each element
has them all (by the cardinality of an interval and its subsets), so a set
that is not empty has a least element and a step function has one function that it
defines. The numbers `2 ^ n` are cardinalities of sets of subsets, which is
all that is known of them.

Only model-checked: liveness (`RecoleccionTermina`, `PdcTermina`,
`ProgramaTermina`, `OperacionTermina`), which the prover does not do under
fairness, and what the code does not satisfy, of which TLC gives the
counterexample.

## Not modelled, and the plan

1. Proofs: that the conditions of the theorems are needed, as theorems (today the
   violations show it on instances); proofs about what the points below add.
2. `GC`: a slot for the value in flight of `PDCRT_K`; the links of the group
   lists.
3. `Ejecucion`: `pdcrt_ejecutar` saves its jump buffers so that executions may
   nest, but in a program of today they never do: the only caller that nests
   one, `pdffi_enviar_mensaje` (`pdffi.c:545`), fails before it runs anything,
   and `pdcrt_ejecutar_protegido` has no caller. To be modelled when they do.
4. Names in a namespace (`extraerv`, `agregar_nombre`) against the exports of
   the interface; inputs in C, and libraries of interfaces that `pdc` saves.
5. `Textos`: interned texts and the sweep. Equal texts are the same object.
6. `Capturas` and `Nombres`: the compiler's analyses as functions on small
   trees, against the definitions of free variables and of scope, over sets
   whose `eliminar` may keep an element.

Of VIO, temporary directories, the listing of a directory, renaming, clocks and
the environment are left out: each is one system call without state of its own.

Left out for good: the tokenizer, the parser and the emission of C (functions
on text whose grammar is their only specification), arithmetic and text
methods, build files, scripts and vendored code.

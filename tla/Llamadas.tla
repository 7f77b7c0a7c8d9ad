-------------------------------- MODULE Llamadas ------------------------------
(***************************************************************************)
(* How the arguments of a message reach who answers it.  The first six go  *)
(* in registers and the others in the stack of the context (ctx->pila),    *)
(* which everybody shares: generated code, the receivers that pass a       *)
(* message on (pdcrt_impls.c), the prologue of a procedure (pdcrt_params)  *)
(* and the window of a foreign function (pdffi.c).                         *)
(*                                                                         *)
(* A body keeps its values in registers of its frame, so between two calls *)
(* there is nothing of its own in the stack and one body stands for all.   *)
(* Values are names; what a message does besides moving them is left out.  *)
(* Three variables are history: lista, the arguments as the program sees   *)
(* them; perdida, whether a step lost some and what runs now has others;   *)
(* sobra, how many values the last closure of C leaves in the stack.  When *)
(* it leaves some the body goes on, but its next calls are not followed.   *)
(***************************************************************************)
EXTENDS Naturals, Sequences, SequencesExt, FiniteSets

CONSTANTS
  Valores,
  NULO, NADA,
  PROC, RUNTIME, FFI,  \* a procedure, the runtime and a closure of C
  Instancias,
  Metodos,             \* Metodos[o][msj]: of an instance or of the class of a value
  NoEncontrado,        \* metodo_no_encontrado of an instance, or NADA
  Contenido,           \* Contenido[a]: the elements of an array
  Objetos, Mensajes,
  Destinos,            \* who the program calls, and with which message
  Fijas, Variadicas,   \* the lists of arguments of the calls of a program
  Prototipos,          \* [params, variadic]: 0 if no parameter is variadic
  MaxVentana           \* bound: values a foreign function has in its window

ASSUME PrototiposValidos ==
  \A p \in Prototipos : p.params \in Nat /\ p.variadic \in 0..p.params
ASSUME VentanaNatural == MaxVentana \in Nat
ASSUME CadaInstancia == Instancias \subseteq DOMAIN NoEncontrado
ASSUME SonValores ==
  /\ {NULO, PROC, RUNTIME, FFI, "llamar"} \union Objetos \union Mensajes \subseteq Valores
  /\ Fijas \union Variadicas \subseteq Seq(Valores)
  /\ Destinos \subseteq Valores \X Valores
  /\ \A o \in DOMAIN Metodos : \A msj \in DOMAIN Metodos[o] : Metodos[o][msj] \in Valores
  /\ \A o \in Instancias : NoEncontrado[o] \in Valores \union {NADA}
ASSUME SonSecuencias == \A a \in DOMAIN Contenido : Contenido[a] \in Seq(Valores)

NN == 6  \* PDCRT_NN_IMM

\* A message in flight, and the window of a foreign function.
Envios ==
  [args : Nat, yo : Valores, msj : Valores, a : {s \in Seq(Valores) : Len(s) = NN}]
Ventanas == [idc : Nat, tam : Nat]

ASSUME NadaNoEsRegistro == NADA \notin Envios /\ NADA \notin Ventanas

VARIABLES
  pila, cap,  \* ctx->pila and ctx->cap_pila
  tope,       \* one more than the last place of the stack the last step wrote
  vuelo,      \* the arguments of the receiver that runs, or NADA
  ventana,    \* the pdffi_ctx of the foreign function that runs, or NADA
  capturas,   \* what FFI captured
  locales,    \* what pdcrt_params put in the registers: a sequence for each one
  fin,        \* "no", "ok", "error", or undefined behaviour: "desbordado" if a
              \* foreign function wrote past the memory of the stack, or "roto"
  lista, perdida, sobra

historia == <<lista, perdida, sobra>>
vars == <<pila, cap, tope, vuelo, ventana, capturas, locales, fin, historia>>

EnPila(n) == IF n <= NN THEN 0 ELSE n - NN
Menor(a, b) == IF a <= b THEN a ELSE b
Mayor(a, b) == IF a <= b THEN b ELSE a

Ultimos(s, n) == SubSeq(s, Len(s) - n + 1, Len(s))
Sin(s, n) == SubSeq(s, 1, Len(s) - n)

\* Mutant: the registers without an argument are not nulo.
RegistrosSinNulos(s) == SubSeq(s, 1, Menor(Len(s), NN))

\* Six registers for s, and what does not fit in them.
Registros(s) == [i \in 1..NN |-> IF i <= Len(s) THEN s[i] ELSE NULO]
Resto(s) == SubSeq(s, NN + 1, Len(s))

\* Mutant: it doubles the room, even if that is not enough.
ExtenderAlDoble(c, tam, n) == IF tam + n > c THEN 2 * c ELSE c

\* pdcrt_extender_pila, when there are tam values and room for c.
Extender(c, tam, n) == IF tam + n > c THEN Mayor(tam + n, 2 * c) ELSE c

\* A call of a receiver: its arguments, the stack and what was written.
Recibe(n, yo, msj, a) == vuelo' = [args |-> n, yo |-> yo, msj |-> msj, a |-> a]
Pila(s, escrito) == pila' = s /\ tope' = Mayor(Len(s), escrito)

EnCuerpo == fin = "no" /\ vuelo = NADA /\ ventana = NADA
Sigue == EnCuerpo /\ locales = <<>> /\ lista = <<>>
Llama == Sigue /\ sobra = 0
EnRecv(yo, msj) == fin = "no" /\ vuelo # NADA /\ vuelo.yo = yo /\ vuelo.msj = msj

\* The arguments that are counted are more than those in the registers and the
\* stack: whoever reads them reads before its first place.
Falta == EnPila(vuelo.args) > Len(pila)

\* The process ends, or its memory means nothing any more.
Terminado(como, escrito) ==
  /\ fin' = como /\ vuelo' = NADA /\ ventana' = NADA
  /\ Pila(<<>>, escrito) /\ lista' = <<>> /\ locales' = <<>>
  /\ perdida' = (como # "error") /\ sobra' = 0
Acabar(como) == Terminado(como, 0)

-------------------------------------------------------------------------------
\* Generated code, and pdcrt_llamar0 to pdcrt_llamarnr.
LlamarFija(yo, msj, s) ==
  /\ Llama
  /\ Recibe(Len(s), yo, msj, Registros(s))
  /\ Pila(pila \o Resto(s), 0)
  /\ cap' = Extender(cap, Len(pila), EnPila(Len(s)))
  /\ lista' = s
  /\ UNCHANGED <<ventana, capturas, locales, fin, perdida, sobra>>

\* Generated code for an argument that is expanded: all of them are pushed,
\* pdcrt_expandir_varargs replaces each array by its elements in place (and
\* moves a value that is past the last one), pdcrt_llamarn takes six back.
Expandida(s) ==
  FlattenSeq([i \in DOMAIN s |-> IF s[i] \in DOMAIN Contenido THEN Contenido[s[i]]
                                 ELSE <<s[i]>>])
Sueltos(s) == {i \in DOMAIN s : s[i] \notin DOMAIN Contenido}

LlamarVariadica(yo, msj, s) ==
  LET todos == pila \o Expandida(s)
      n == Len(todos) - Len(pila)
      elementos == n - Cardinality(Sueltos(s))
  IN  /\ Llama
      /\ Recibe(n, yo, msj,
                [i \in 1..NN |-> IF i <= n THEN todos[Len(pila) + i] ELSE NULO])
      /\ Pila(IF n <= NN THEN Sin(todos, n)
              ELSE SubSeq(todos, 1, Len(pila)) \o Ultimos(todos, n - NN),
              Mayor(Len(pila) + Len(s), Len(todos) + 1))
      /\ cap' = Extender(Extender(cap, Len(pila), Len(s)), Len(pila) + Len(s), elementos + 1)
      /\ lista' = Expandida(s)
      /\ UNCHANGED <<ventana, capturas, locales, fin, perdida, sobra>>

-------------------------------------------------------------------------------
\* The body uses its locals, or returns.
Seguir ==
  /\ EnCuerpo /\ ~Sigue
  /\ locales' = <<>> /\ lista' = <<>>
  /\ UNCHANGED <<pila, cap, tope, vuelo, ventana, capturas, fin, perdida, sobra>>

-------------------------------------------------------------------------------
\* pdcrt_params: the locals of the procedure.
Fijos(p) ==
  [i \in 1..p.params |->
     <<IF i <= NN THEN vuelo.a[i]
       ELSE pila[Len(pila) - (vuelo.args - NN) + (i - NN)]>>]

Variables(p, todos) ==
  LET prefijo == p.variadic - 1
      sufijo == p.params - p.variadic
      medio == Len(todos) - prefijo - sufijo
  IN  [i \in 1..p.params |->
         IF i <= prefijo THEN <<todos[i]>>
         ELSE IF i = p.variadic THEN SubSeq(todos, prefijo + 1, prefijo + medio)
         ELSE <<todos[medio + i - 1]>>]

\* Mutant: the variadic prologue leaves the arguments that came in the stack.
SinArgumentosFijos(p) == IF p.variadic = 0 THEN Sin(pila, EnPila(vuelo.args)) ELSE pila

\* The prologue takes its arguments from the stack.
SinArgumentos(p) == Sin(pila, EnPila(vuelo.args))

\* The variadic prologue moves the arguments before it counts them.
Acepta(p) == IF p.variadic = 0 THEN vuelo.args = p.params ELSE vuelo.args >= p.params - 1
Lee(p) == Acepta(p) \/ p.variadic # 0
Tomar(p) ==
  LET enregs == Menor(vuelo.args, NN)
      todos == SubSeq(vuelo.a, 1, enregs) \o Ultimos(pila, EnPila(vuelo.args))
  IN  /\ locales' = IF p.variadic = 0 THEN Fijos(p) ELSE Variables(p, todos)
      /\ cap' = IF p.variadic = 0 THEN cap ELSE Extender(cap, Len(pila), enregs)
      /\ Pila(SinArgumentos(p), IF p.variadic = 0 THEN 0 ELSE Len(pila) + enregs)
      /\ vuelo' = NADA
      /\ UNCHANGED <<ventana, fin, historia>>
Params(p) ==
  /\ EnRecv(PROC, "llamar")
  /\ \/ Acepta(p) /\ ~Falta /\ Tomar(p)
     \/ ~Acepta(p) /\ Acabar("error") /\ UNCHANGED cap
     \/ Lee(p) /\ Falta /\ Acabar("roto") /\ UNCHANGED cap
  /\ UNCHANGED capturas

\* pdcrt_insertar: a negative position counts from the top, with v in it.
Insertar(s, argp, v) == InsertAt(s, IF argp < 0 THEN Len(s) + 2 + argp ELSE argp + 1, v)

\* Mutant: a6 is only kept when there are arguments in the stack.
ConA6SiHayMas(argp) == IF vuelo.args >= 7 THEN Insertar(pila, argp, vuelo.a[6]) ELSE pila

\* pdcrt_recv_instancia with a method and pdcrt_recv_fallback_a_clase: yo is
\* the first argument, and a6 no longer fits in the registers.
ConA6(argp) == IF vuelo.args >= 6 THEN Insertar(pila, argp, vuelo.a[6]) ELSE pila
TieneMetodo(o, msj) == o \in DOMAIN Metodos /\ msj \in DOMAIN Metodos[o]
EnviarAMetodo(o, msj) ==
  LET n == vuelo.args
      argp == Len(pila) - EnPila(n)
  IN  /\ EnRecv(o, msj) /\ TieneMetodo(o, msj)
      /\ Pila(ConA6(argp), 0)
      /\ cap' = IF n >= 6 THEN Extender(cap, Len(pila), 1) ELSE cap
      /\ Recibe(n + 1, Metodos[o][msj], "llamar", <<o>> \o SubSeq(vuelo.a, 1, 5))
      /\ lista' = <<o>> \o lista
      /\ UNCHANGED <<ventana, capturas, locales, fin, perdida, sobra>>

\* pdcrt_recv_instancia without it: yo and msj are the first arguments.
EnviarANoEncontrado(o, msj) ==
  LET n == vuelo.args
      argp == Len(pila) - EnPila(n)
      con6 == IF n >= 7 THEN Insertar(pila, argp, vuelo.a[6]) ELSE pila
  IN  /\ EnRecv(o, msj) /\ o \in Instancias /\ ~TieneMetodo(o, msj)
      /\ NoEncontrado[o] # NADA
      /\ Pila(IF n >= 6 THEN Insertar(con6, argp, vuelo.a[5]) ELSE con6, 0)
      /\ cap' = Extender(cap, Len(pila), 2)
      /\ Recibe(n + 2, NoEncontrado[o], "llamar", <<o, msj>> \o SubSeq(vuelo.a, 1, 4))
      /\ lista' = <<o, msj>> \o lista
      /\ perdida' = (perdida \/ n \in {5, 6})
      /\ UNCHANGED <<ventana, capturas, locales, fin, sobra>>

\* Runtime#enviarMensaje: pdcrt_mover_a_cima(-(args - 6), 2), where -0 is the
\* bottom of the stack, and then two values are taken, or one, or none.
Movida(pos) ==
  IF pos = Len(pila) THEN pila
  ELSE SubSeq(pila, 1, pos) \o SubSeq(pila, pos + 3, Len(pila)) \o SubSeq(pila, pos + 1, pos + 2)
EnviarMensaje ==
  LET n == vuelo.args
      pos == IF n <= 6 THEN 0 ELSE Len(pila) - (n - 6)
      sacados == (IF n >= 6 THEN 1 ELSE 0) + (IF n >= 5 THEN 1 ELSE 0)
  IN  /\ EnRecv(RUNTIME, "enviarMensaje")
      /\ \/ /\ n < 2 /\ Acabar("error") /\ UNCHANGED cap
         \/ /\ n >= 2 /\ (Len(pila) - pos = 1 \/ Len(pila) < sacados)
            /\ Acabar("roto") /\ UNCHANGED cap
         \/ /\ n >= 2 /\ Len(pila) - pos # 1 /\ Len(pila) >= sacados
            /\ Pila(Sin(Movida(pos), sacados), Len(pila) + 2)
            /\ cap' = Extender(cap, Len(pila), 2)
            /\ Recibe(n - 2, vuelo.a[1], vuelo.a[2],
                      SubSeq(vuelo.a, 3, 6) \o
                      (IF sacados = 2 THEN Ultimos(Movida(pos), 2)
                       ELSE IF sacados = 1 THEN <<Last(Movida(pos)), NULO>>
                       ELSE <<NULO, NULO>>))
            /\ lista' = SubSeq(lista, 3, Len(lista))
            /\ UNCHANGED <<ventana, fin, locales, perdida, sobra>>
      /\ UNCHANGED capturas

\* Nobody answers: "Método no encontrado", or a message that is no text.
SinRespuesta ==
  /\ fin = "no" /\ vuelo # NADA
  /\ LET o == vuelo.yo
         msj == vuelo.msj
     IN  \/ msj \notin Mensajes
         \/ /\ ~TieneMetodo(o, msj)
            /\ o \in Instancias => NoEncontrado[o] = NADA
            /\ o \in {PROC, FFI} => msj # "llamar"
            /\ o = RUNTIME => msj # "enviarMensaje"
  /\ Acabar("error")
  /\ UNCHANGED <<cap, capturas>>

-------------------------------------------------------------------------------
\* The opcode ffiC: the arguments are pushed and pdffi_invocar_funcion makes
\* them the window of the function.
InvocarFFI(s) ==
  /\ Llama
  /\ Pila(pila \o s, 0)
  /\ cap' = Extender(cap, Len(pila), Len(s))
  /\ ventana' = [idc |-> Len(pila), tam |-> Len(s)]
  /\ lista' = s
  /\ UNCHANGED <<vuelo, capturas, locales, fin, perdida, sobra>>

\* pdffi_funcion_de_closure: all six registers are pushed, however many there
\* are, and the window is as many values as there are.  (Its two reversals are
\* right when the stack has nothing else, as it has here.)
AbrirVentana ==
  LET n == vuelo.args
      k == Len(capturas)
      todos == Sin(pila, EnPila(n)) \o capturas \o vuelo.a \o Ultimos(pila, EnPila(n))
  IN  /\ Pila(todos, 0)
      /\ cap' = Extender(cap, Len(pila), NN + k)
      /\ ventana' = [idc |-> Len(todos) - (n + k), tam |-> n + k]
      /\ vuelo' = NADA
      /\ lista' = capturas \o lista
      /\ perdida' = (n < NN) /\ sobra' = IF n < NN THEN NN - n ELSE 0
      /\ UNCHANGED <<locales, fin>>
FuncionDeClosure ==
  /\ EnRecv(FFI, "llamar")
  /\ \/ ~Falta /\ AbrirVentana
     \/ Falta /\ Acabar("roto") /\ UNCHANGED cap
  /\ UNCHANGED capturas

EnFFI == fin = "no" /\ ventana # NADA
Verifica == ventana.idc + ventana.tam <= Len(pila)

\* pdffi_empujar does not look for room.
PonerEnVentana(resto, v) ==
  /\ Verifica
  /\ \/ /\ Len(resto) < cap
        /\ Pila(Append(resto, v), 0)
        /\ ventana' = [ventana EXCEPT !.tam = Len(resto) + 1 - ventana.idc]
        /\ lista' = Append(SubSeq(lista, 1, Len(resto) - ventana.idc), v)
        /\ UNCHANGED <<vuelo, fin, locales, perdida, sobra>>
     \/ Len(resto) >= cap /\ Terminado("desbordado", Len(resto) + 1)

Empujar(v) ==
  /\ EnFFI /\ ventana.tam < MaxVentana
  /\ PonerEnVentana(pila, v)
  /\ UNCHANGED <<cap, capturas>>

\* pdffi_extender_pila: the window grows, and the stack does not.  If it grew,
\* nothing but an error is left to the function.
ExtenderFFI(n) ==
  /\ EnFFI /\ Verifica /\ ventana.tam > 0
  /\ cap' = Extender(cap, Len(pila), n)
  /\ ventana' = [ventana EXCEPT !.tam = @ + n]
  /\ perdida' = (perdida \/ n > 0)
  /\ UNCHANGED <<pila, tope, vuelo, capturas, locales, fin, lista, sobra>>

\* pdffi_empujar_closure: the last k values are captured.
EmpujarClosure(k) ==
  /\ EnFFI /\ ventana.tam < MaxVentana /\ k <= ventana.tam
  /\ capturas' = Ultimos(pila, k)
  /\ PonerEnVentana(Sin(pila, k), FFI)
  /\ UNCHANGED cap

\* The function returns its last value and the window is dropped.  If it had
\* other values than those it was called with, so may that one be.
DevolverFFI ==
  /\ EnFFI /\ Verifica
  /\ \/ /\ ventana.tam > 0
        /\ Pila(SubSeq(pila, 1, ventana.idc), ventana.idc + 1)
        /\ locales' = <<<<Last(pila)>>>>
        /\ lista' = <<Last(IF perdida THEN pila ELSE lista)>>
        /\ ventana' = NADA /\ perdida' = FALSE
        /\ UNCHANGED <<vuelo, fin, sobra>>
     \/ ventana.tam = 0 /\ Acabar("error")
  /\ UNCHANGED <<cap, capturas>>

\* pdffi_error, a value of another type, more than one result, a window that is
\* not in the stack, and pdffi_enviar_mensaje: what it starts takes the number of
\* arguments for the message and fails.
FallarFFI ==
  /\ EnFFI /\ Acabar("error")
  /\ UNCHANGED <<cap, capturas>>

\* pdcrt_continuacion_de_ejecutar: the program ends and leaves its result.
Terminar ==
  /\ Sigue
  /\ Pila(Append(pila, NULO), 0)
  /\ cap' = Extender(cap, Len(pila), 1)
  /\ fin' = "ok"
  /\ UNCHANGED <<vuelo, ventana, capturas, locales, historia>>

-------------------------------------------------------------------------------
\* The import of the runtime has already run, and made room for its result.
Init ==
  /\ pila = <<>> /\ cap = 1 /\ tope = 0
  /\ vuelo = NADA /\ ventana = NADA /\ capturas = <<>> /\ locales = <<>>
  /\ fin = "no" /\ lista = <<>> /\ perdida = FALSE /\ sobra = 0

Next ==
  \/ \E d \in Destinos :
       \/ \E s \in Fijas : LlamarFija(d[1], d[2], s)
       \/ \E s \in Variadicas : LlamarVariadica(d[1], d[2], s)
  \/ Seguir
  \/ \E yo \in Objetos, msj \in Mensajes :
       \/ EnviarAMetodo(yo, msj) \/ EnviarANoEncontrado(yo, msj)
  \/ \E p \in Prototipos : Params(p)
  \/ EnviarMensaje \/ SinRespuesta
  \/ \E s \in Fijas : InvocarFFI(s)
  \/ FuncionDeClosure \/ Empujar(NULO) \/ DevolverFFI \/ FallarFFI
  \/ \E n \in 0..1 : ExtenderFFI(n) \/ EmpujarClosure(n)
  \/ Terminar

Spec == Init /\ [][Next]_vars

-------------------------------------------------------------------------------
TipoLlamadas ==
  /\ pila \in Seq(Valores) /\ capturas \in Seq(Valores)
  /\ cap \in Nat /\ tope \in Nat
  /\ vuelo \in Envios \union {NADA}
  /\ ventana \in Ventanas \union {NADA}
  /\ vuelo = NADA \/ ventana = NADA
  /\ fin \in {"no", "ok", "error", "desbordado", "roto"}
  /\ perdida \in BOOLEAN /\ sobra \in Nat

\* What the receiver, the window of the foreign function or the body has is what
\* the language says the caller passed, whoever passed it on.
Exacta ==
  /\ fin \notin {"desbordado", "roto"}
  /\ vuelo # NADA =>
       /\ vuelo.args = Len(lista)
       /\ \A i \in 1..Menor(NN, Len(lista)) : vuelo.a[i] = lista[i]
       /\ pila = Resto(lista)
  /\ ventana # NADA => ventana = [idc |-> 0, tam |-> Len(lista)] /\ pila = lista
  /\ EnCuerpo => FlattenSeq(locales) = lista

\* The arguments arrive, through any chain of receivers, but for those of a step
\* that loses them: enviarMensaje with 5 to 7 arguments, a message nobody
\* understands with 5 or 6, a closure of C with less than 6, and a foreign
\* function that asks for room or pushes without it.  Whoever comes after it, up
\* to the body that goes on, does not have what was passed.
Entrega == Exacta <=> ~perdida

\* A body finds the stack as it was: no call left anything in it, or took anything
\* it did not push.  The exception is a closure of C that is called with n < 6
\* arguments: its window begins 6 - n values above, and they are left there.
PilaBalanceada == EnCuerpo => Len(pila) = sobra

\* Nobody writes past the memory of the stack, not even for a moment, but a
\* foreign function that pushes without having asked for room.
SinDesbordar == tope > cap => fin = "desbordado"
===============================================================================

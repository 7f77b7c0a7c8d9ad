------------------------------- MODULE MCPrograma -----------------------------
(***************************************************************************)
(* Instances of Programa for TLC.                                          *)
(***************************************************************************)
EXTENDS Programa, TLC

CONSTANTS a, b, c

C(m) == [modulo |-> m, en |-> "cuerpo"]
F(m) == [modulo |-> m, en |-> "funcion"]

\* A chain, a diamond, and functions that import what their callers load.
ProgramasDeTres ==
  { a :> <<C(b)>> @@ b :> <<C(c)>> @@ c :> <<>>,
    a :> <<C(c), C(b), C(c)>> @@ b :> <<C(c)>> @@ c :> <<>>,
    a :> <<C(b), F(c)>> @@ b :> <<F(c)>> @@ c :> <<>>,
    a :> <<C(b), C(c)>> @@ b :> <<F(c)>> @@ c :> <<>>,
    a :> <<C(b), C(c)>> @@ b :> <<C(c), F(a)>> @@ c :> <<>>,
    a :> <<C(b)>> @@ b :> <<C(c)>> @@ c :> <<F(b)>>,
    a :> <<F(a)>> @@ b :> <<C(c), F(c)>> @@ c :> <<>> }

E(m, l, e) == [modulo |-> m, lenguaje |-> l, esModulo |-> e]
Tipos == {<<"pd", TRUE>>, <<"pd", FALSE>>, <<"ipd", TRUE>>}

Lineas ==
  {<<E(m, t[1], t[2])>> : m \in Modulos, t \in Tipos}
  \union {<<E(m, t[1], t[2]), E(n, u[1], u[2])>> :
            m \in Modulos, n \in Modulos, t \in Tipos, u \in Tipos}
  \union {<<E(a, t[1], t[2]), E(b, u[1], u[2]), E(c, v[1], v[2])>> :
            t \in Tipos, u \in Tipos, v \in Tipos}

\* What make does: a module at a time, or everything at once in several orders.
Construcciones ==
  LET Fuente(m) == E(m, "pd", TRUE)
      Interfaz(m) == E(m, "ipd", TRUE)
      Archivo(m) == E(m, "pd", FALSE)
      Ejecutable(entradas, objetos) ==
        [entradas |-> entradas, formato |-> "ejecutable", guardar |-> <<>>,
         objetos |-> objetos]
      Objeto(entradas) ==
        [entradas |-> entradas, formato |-> "objeto", objetos |-> {},
         guardar |-> <<entradas[1].modulo>>]
  IN  { Objeto(<<Fuente(c)>>), Objeto(<<Fuente(b), Interfaz(c)>>),
        Ejecutable(<<Archivo(a), Fuente(b), Fuente(c)>>, {}),
        Ejecutable(<<Fuente(a), Fuente(c), Fuente(b)>>, {}),
        Ejecutable(<<Archivo(a), Interfaz(b), Interfaz(c)>>, {b, c}),
        Ejecutable(<<Archivo(a), Interfaz(b)>>, {b}) }

\* And every other command line of up to three inputs.
OrdenesDeTres ==
  Construcciones \union
  {o \in [entradas : Lineas, formato : {"objeto", "ejecutable"},
          guardar : {<<>>} \union {<<m>> : m \in Modulos}, objetos : {{}, {c}}] :
     OrdenValida(o) /\ (o.formato = "objeto" => o.objetos = {})
                    /\ (o.formato = "ejecutable" => o.guardar = <<>>)}
===============================================================================

------------------------------- MODULE MCLlamadas -----------------------------
(***************************************************************************)
(* An instance of Llamadas for TLC: calls of up to nine arguments, to      *)
(* objects whose methods are procedures, closures of C and other objects,  *)
(* and so are those that answer what an object does not understand.        *)
(***************************************************************************)
EXTENDS Llamadas

Nombres == <<"a", "b", "c", "d", "e", "f", "g", "h", "i">>

LosObjetos == {"proc", "runtime", "ffi", "obj", "anidado", "delega", "desvia", "remite",
               "cede", "nadie", "num"}
LasInstancias == {"obj", "anidado", "delega", "desvia", "remite", "cede", "nadie"}
LosMetodos ==
  [o \in LosObjetos \ {"runtime", "ffi"} |->
     CASE o = "obj" -> [m |-> "proc", llamar |-> "proc"]
       [] o = "proc" -> [m |-> "ffi"]
       [] o = "anidado" -> [m |-> "delega"]
       [] o = "num" -> [m |-> "obj"]
       [] OTHER -> [otro |-> "proc"]]
LosNoEncontrado ==
  [o \in LasInstancias |-> CASE o = "delega" -> "proc" [] o = "desvia" -> "delega"
                              [] o = "remite" -> "obj" [] o = "cede" -> "ffi"
                              [] OTHER -> NADA]
LosDestinos ==
  {<<"proc", "llamar">>, <<"proc", "m">>, <<"ffi", "llamar">>, <<"runtime", "enviarMensaje">>}
  \union {<<o, "m">> : o \in LasInstancias \union {"num"}}

LosArreglos == [v |-> <<>>, w |-> <<"x">>, z |-> <<"x", "y", "x">>]

Primeros(n) == SubSeq(Nombres, 1, n)
LasFijas ==
  {Primeros(n) : n \in 0..9} \union {<<"proc", "m">> \o Primeros(n) : n \in 0..7}
  \union {<<"obj", "m">> \o Primeros(n) : n \in {0, 6}}
LasVariadicas ==
  {Primeros(n) \o <<a>> \o s : n \in {0, 5, 6}, a \in DOMAIN LosArreglos,
                               s \in {<<>>, <<"h", "w">>}}
LosValores ==
  LosObjetos \union Range(Nombres) \union DOMAIN LosArreglos
  \union {"x", "y", "nulo", "llamar", "m", "enviarMensaje"}
LosPrototipos ==
  {[params |-> n, variadic |-> 0] : n \in 0..11}
  \union {p \in [params : {1, 2, 3, 9}, variadic : {1, 2}] : p.variadic <= p.params}
===============================================================================

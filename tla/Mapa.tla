--------------------------------- MODULE Mapa ---------------------------------
(***************************************************************************)
(* What a table of the language promises (bepd/datos/diccionario.pd): it   *)
(* maps keys, each at most once, to values.  Tabla implements it.          *)
(***************************************************************************)
CONSTANTS Llaves, Valores

VARIABLE mapa   \* a function from the keys that are present to their values

Vacio == [x \in {} |-> x]

\* fijarEn: the key gets the value, whether or not it was present.
Con(m, k, v) == [x \in DOMAIN m \union {k} |-> IF x = k THEN v ELSE m[x]]

\* eliminar: the key and its value go away.
Sin(m, k) == [x \in DOMAIN m \ {k} |-> m[x]]

Init == mapa = Vacio

\* One call of fijarEn, eliminar or vaciar.
Next ==
  LET m == mapa IN
    mapa' \in {Con(m, k, v) : k \in Llaves, v \in Valores}
                \union {Sin(m, k) : k \in Llaves} \union {Vacio}

Spec == Init /\ [][Next]_mapa
===============================================================================

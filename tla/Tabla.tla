--------------------------------- MODULE Tabla --------------------------------
(***************************************************************************)
(* The hash table of the runtime (runtime/c/pdcrt/pdcrt_tabla.c): one      *)
(* array of buckets, the keys that collide chained through the free ones   *)
(* with relative links (off_colision, 0 at the end of a chain), and the    *)
(* iteration of Tabla#paraCadaPar (pdcrt_impls.c), whose callback may call *)
(* any operation of the table.                                             *)
(*                                                                         *)
(* Abstractions: keys and values are model values; Hash gives the hash of  *)
(* a key, and hash & mascara is a remainder because the number of buckets  *)
(* is a power of 2; Iguales has the different keys that pdcrt_igualdad     *)
(* takes for equal, as 8 and 8.0, whose hashes are not the same; the stale *)
(* key and value of an inactive bucket, which nothing reads while chains   *)
(* are whole, are NADA; num_colisiones, a statistic nothing in the runtime *)
(* reads, is left out.                                                     *)
(***************************************************************************)
EXTENDS Integers, FiniteSets

CONSTANTS
  Llaves,      \* keys
  Valores,     \* values
  NADA,        \* the content of an inactive bucket
  Hash,        \* pdcrt_hash of each key
  Iguales,     \* the pairs of different keys that pdcrt_igualdad makes equal
  Juntas,      \* bound: the sets of keys that a table is filled with
  TamMinimo,   \* PDCRT_TABLA_TAM_MINIMO (8 in the code)
  Adicionales, \* bound: the arguments Tabla#rehashear is called with
  TamMaximo    \* bound on the number of buckets

ASSUME HashEsNatural == Hash \in [Llaves -> Nat]
ASSUME IgualesEsSimetrica ==
  Iguales \subseteq Llaves \X Llaves /\ \A a, b \in Llaves : <<a, b>> \in Iguales => <<b, a>> \in Iguales
\* Integers beyond 2^53, of which two may be equal to one float, are left out.
ASSUME IgualesEsTransitiva ==
  \A a, b, c \in Llaves : <<a, b>> \in Iguales /\ <<b, c>> \in Iguales => a = c \/ <<a, c>> \in Iguales
ASSUME TamMinimoEsPotencia ==
  TamMinimo \in Nat /\ TamMinimo > 1 /\ \E x \in 0 .. TamMinimo : TamMinimo = 2 ^ x
ASSUME TamMaximoAlcanza == TamMaximo \in Nat /\ TamMinimo <= TamMaximo
ASSUME AdicionalesSonNaturales == Adicionales \subseteq Nat
ASSUME NadaNoEsDato == NADA \notin Llaves \union Valores

VARIABLES
  tbl,         \* the table: mascara, buckets and buckets_ocupados
  iterador,    \* the index local to paraCadaPar, -1 when it is not running
  visitas,     \* how many times the iteration called its argument with a key
  modificada   \* whether the iteration saw more than fijarEn on present keys

vars == <<tbl, iterador, visitas, modificada>>

-------------------------------------------------------------------------------
(* Buckets and chains.                                                     *)

Inactivo == [activo |-> FALSE, off |-> 0, llave |-> NADA, valor |-> NADA]

\* pdcrt_igualdad, of a key that is equal to itself (not NaN).
Igualdad(a, b) == a = b \/ <<a, b>> \in Iguales

Bucket(k, v, off) == [activo |-> TRUE, off |-> off, llave |-> k, valor |-> v]

NumBuckets(t) == t.mascara + 1

\* pdcrt_redondear_a_p2: the least power of 2 that is not less than n.
RedondearAP2(n) == CHOOSE p \in {2 ^ x : x \in 0 .. n} :
                     p >= n /\ \A x \in 0 .. n : 2 ^ x >= n => p <= 2 ^ x

\* pdcrt_tabla_inicializar, once its capacity is a power of 2.
Vacia(cap) ==
  [mascara |-> cap - 1, buckets |-> [i \in 0 .. cap - 1 |-> Inactivo], ocupados |-> 0]

\* The main position of a key: &tbl->buckets[hash & tbl->mascara].
Principal(t, k) == Hash[k] % NumBuckets(t)

\* The buckets that at += at->off_colision visits from i on.
Cadena(t, i) ==
  LET hasta[n \in Nat] ==
        IF n = 0 THEN {i}
        ELSE LET js == hasta[n - 1] IN js \union {j + t.buckets[j].off : j \in js}
  IN hasta[NumBuckets(t)]

\* Where the loop that looks for k stops: the bucket that has a key equal to k.
\* It follows the links from the main position of k even if the bucket there
\* belongs to the chain of another key.
Lugares(t, k) ==
  LET i == Principal(t, k) IN
    IF t.buckets[i].activo THEN {j \in Cadena(t, i) : Igualdad(k, t.buckets[j].llave)} ELSE {}

\* pdcrt_tabla_en: whether k is there, and its value.
Contiene(t, k) == Lugares(t, k) # {}

ValorDe(t, k) == t.buckets[CHOOSE j \in Lugares(t, k) : TRUE].valor

\* pdcrt_tabla_reclamar_bucket: the first inactive bucket.
Inactivos(t) == {i \in 0 .. t.mascara : ~t.buckets[i].activo}
Reclamar(t) == CHOOSE i \in Inactivos(t) : \A j \in Inactivos(t) : i <= j

-------------------------------------------------------------------------------
(* pdcrt_tabla_fijar                                                       *)

Colisiona(t, k) == t.buckets[Principal(t, k)].activo /\ ~Contiene(t, k)

\* An absolute link instead of a relative one.
EnlaceAbsoluto(t, i, col) ==
  IF t.buckets[i].off = 0 THEN 0 ELSE i + t.buckets[i].off

\* The link of the bucket col to the bucket that followed i.
Enlace(t, i, col) ==
  IF t.buckets[i].off = 0 THEN 0 ELSE (i + t.buckets[i].off) - col

\* The bucket that links to i in the chain of p.
Anterior(t, p, i) ==
  CHOOSE j \in Cadena(t, p) : j # i /\ j + t.buckets[j].off = i

\* As the next operator, with nothing that leads to the new bucket.
AgregarSinEnlazar(t, k, v, i, col) ==
  [t EXCEPT !.ocupados = @ + 1, !.buckets[col] = Bucket(k, v, Enlace(t, i, col))]

\* b1 belongs to the chain of k: k joins it in the bucket col, after b1.
AgregarColision(t, k, v, i, col) ==
  [t EXCEPT !.ocupados = @ + 1,
            !.buckets[col] = Bucket(k, v, Enlace(t, i, col)),
            !.buckets[i].off = col - i]

\* As the next operator, with the chain that goes through b1 left as it was.
ReubicarSinEnlazar(t, k, v, i, col) ==
  [t EXCEPT !.ocupados = @ + 1,
            !.buckets[col] = [t.buckets[i] EXCEPT !.off = Enlace(t, i, col)],
            !.buckets[i] = Bucket(k, v, 0)]

\* b1 is a collision of another chain: it moves to col and k takes its place.
ReubicarColision(t, k, v, i, col) ==
  LET at == Anterior(t, Principal(t, t.buckets[i].llave), i) IN
    [t EXCEPT !.ocupados = @ + 1,
              !.buckets[col] = [t.buckets[i] EXCEPT !.off = Enlace(t, i, col)],
              !.buckets[at].off = col - at,
              !.buckets[i] = Bucket(k, v, 0)]

\* pdcrt_tabla_fijar when there is room.
FijarConLugar(t, k, v) ==
  LET i == Principal(t, k) IN
    CASE ~t.buckets[i].activo ->
           [t EXCEPT !.ocupados = @ + 1, !.buckets[i] = Bucket(k, v, 0)]
      [] Contiene(t, k) ->
           [t EXCEPT !.buckets[CHOOSE j \in Lugares(t, k) : TRUE].valor = v]
      [] Colisiona(t, k) ->
           IF Principal(t, t.buckets[i].llave) = i
           THEN AgregarColision(t, k, v, i, Reclamar(t))
           ELSE ReubicarColision(t, k, v, i, Reclamar(t))

\* The pairs that are collisions are not put again.
RehashearSinColisiones(t, nueva) ==
  LET cap == RedondearAP2(IF nueva < TamMinimo THEN TamMinimo ELSE nueva)
      copia[n \in 0 .. NumBuckets(t)] ==
        IF n = 0 THEN Vacia(cap)
        ELSE LET b == t.buckets[n - 1]
                 previa == copia[n - 1]
             IN IF b.activo /\ Principal(t, b.llave) = n - 1
                THEN FijarConLugar(previa, b.llave, b.valor) ELSE previa
  IN IF nueva <= t.ocupados THEN t ELSE copia[NumBuckets(t)]

\* pdcrt_tabla_rehashear: every pair is put again, in the order of the old
\* array, in an empty one.  It does nothing if the pairs would fill it.
Rehashear(t, nueva) ==
  LET cap == RedondearAP2(IF nueva < TamMinimo THEN TamMinimo ELSE nueva)
      copia[n \in 0 .. NumBuckets(t)] ==
        IF n = 0 THEN Vacia(cap)
        ELSE LET b == t.buckets[n - 1]
                 previa == copia[n - 1]
             IN IF b.activo THEN FijarConLugar(previa, b.llave, b.valor) ELSE previa
  IN IF nueva <= t.ocupados THEN t ELSE copia[NumBuckets(t)]

\* pdcrt_tabla_fijar: a collision in a full table doubles it first.
Duplica(t, k) == Colisiona(t, k) /\ Inactivos(t) = {}

Doble(t) == Rehashear(t, 2 * NumBuckets(t))

Fijar(t, k, v) == FijarConLugar(IF Duplica(t, k) THEN Doble(t) ELSE t, k, v)

-------------------------------------------------------------------------------
(* pdcrt_tabla_eliminar                                                    *)

\* As the next operator, but the value of the last pair stays behind.
QuitarSinMoverValor(t, i) ==
  LET ultimo == CHOOSE j \in Cadena(t, i) : t.buckets[j].off = 0
      penultimo == Anterior(t, i, ultimo)
  IN IF ultimo = i
     THEN [t EXCEPT !.ocupados = @ - 1, !.buckets[i] = Inactivo]
     ELSE [t EXCEPT !.ocupados = @ - 1,
                    !.buckets[penultimo].off = 0,
                    !.buckets[ultimo] = Inactivo,
                    !.buckets[i].llave = t.buckets[ultimo].llave]

\* The pair of b1 is removed: the last pair of its chain takes its place.
QuitarPrincipal(t, i) ==
  LET ultimo == CHOOSE j \in Cadena(t, i) : t.buckets[j].off = 0
      penultimo == Anterior(t, i, ultimo)
  IN IF ultimo = i
     THEN [t EXCEPT !.ocupados = @ - 1, !.buckets[i] = Inactivo]
     ELSE [t EXCEPT !.ocupados = @ - 1,
                    !.buckets[penultimo].off = 0,
                    !.buckets[ultimo] = Inactivo,
                    !.buckets[i].llave = t.buckets[ultimo].llave,
                    !.buckets[i].valor = t.buckets[ultimo].valor]

\* The bucket is freed even if a chain goes on from it.
EliminarSinMirarCadena(t, k) ==
  LET i == Principal(t, k) IN
    IF t.buckets[i].activo /\ Igualdad(k, t.buckets[i].llave)
    THEN [t EXCEPT !.ocupados = @ - 1, !.buckets[i] = Inactivo] ELSE t

\* The loop sets prev to the bucket it has just moved to, so at = prev ends it
\* after the first bucket: a key stored as a collision is never removed.
Eliminar(t, k) ==
  LET i == Principal(t, k) IN
    IF t.buckets[i].activo /\ Igualdad(k, t.buckets[i].llave)
    THEN QuitarPrincipal(t, i) ELSE t

\* The bucket it frees is the last of the chain of another key, equal to k: the
\* bucket before it still leads there.
RompeCadena(t, k) ==
  LET i == Principal(t, k) IN
    /\ t.buckets[i].activo /\ Igualdad(k, t.buckets[i].llave)
    /\ t.buckets[i].off = 0 /\ Principal(t, t.buckets[i].llave) # i

-------------------------------------------------------------------------------
(* The actions: the messages of pdcrt_recv_tabla.                          *)

Iterando == iterador # -1

\* A callback that does more than fijarEn on a present key spoils the
\* iteration; what it visits is not counted any more.
Registrar(modifica) ==
  /\ UNCHANGED iterador
  /\ modificada' = (modificada \/ (Iterando /\ modifica))
  /\ visitas' = IF modificada' THEN [k \in Llaves |-> 0] ELSE visitas

\* The keys in the buckets.
Activos(t) == {i \in 0 .. t.mascara : t.buckets[i].activo}
Guardadas(t) == {t.buckets[i].llave : i \in Activos(t)}

\* Bounds: TamMaximo and Juntas.
Cabe ==
  /\ NumBuckets(tbl') <= TamMaximo
  /\ \E J \in Juntas : Guardadas(tbl') \subseteq J

\* The assertion that ends pdcrt_tabla_rehashear: without it the program stops.
Asercion(antes, despues) == despues.ocupados = antes.ocupados

\* pdcrt_tabla_fijar gets past it.
NoSeDetiene(t, k) == Duplica(t, k) => Asercion(t, Doble(t))

FijarEn(k, v) ==
  /\ NoSeDetiene(tbl, k)
  /\ tbl' = Fijar(tbl, k, v)
  /\ Cabe
  /\ Registrar(~Contiene(tbl, k))

\* Tables with a broken chain are not followed: their loops read the stale key
\* of a bucket that is not active, and some have no end.
EliminarLlave(k) ==
  /\ ~RompeCadena(tbl, k)
  /\ tbl' = Eliminar(tbl, k)
  /\ Registrar(TRUE)

\* pdcrt_tabla_vaciar keeps the array.
Vaciar ==
  /\ tbl' = Vacia(NumBuckets(tbl))
  /\ Registrar(TRUE)

\* Tabla#rehashear: adicional.
RehashearCon(adicional) ==
  /\ tbl' = Rehashear(tbl, tbl.ocupados + adicional)
  /\ Asercion(tbl, tbl')
  /\ Cabe
  /\ Registrar(TRUE)

\* The first bucket is skipped.
ParaCadaParDesdeUno ==
  /\ ~Iterando
  /\ iterador' = 1
  /\ visitas' = [k \in Llaves |-> 0]
  /\ modificada' = FALSE
  /\ UNCHANGED tbl

\* Tabla#paraCadaPar: the iteration starts at the first bucket.
ParaCadaPar ==
  /\ ~Iterando
  /\ iterador' = 0
  /\ visitas' = [k \in Llaves |-> 0]
  /\ modificada' = FALSE
  /\ UNCHANGED tbl

\* pdcrt_tabla_para_cada_par_k1: the next bucket, and the call if it is active.
VisitarBucket ==
  /\ Iterando /\ iterador < NumBuckets(tbl)
  /\ iterador' = iterador + 1
  /\ LET b == tbl.buckets[iterador] IN
       visitas' = IF b.activo /\ ~modificada THEN [visitas EXCEPT ![b.llave] = @ + 1]
                  ELSE visitas
  /\ UNCHANGED <<tbl, modificada>>

TerminarIteracion ==
  /\ Iterando /\ iterador >= NumBuckets(tbl)
  /\ iterador' = -1
  /\ visitas' = [k \in Llaves |-> 0]
  /\ modificada' = FALSE
  /\ UNCHANGED tbl

-------------------------------------------------------------------------------
\* pdcrt_tabla_inicializar for a capacity of at most TamMinimo.
Init ==
  /\ tbl = Vacia(TamMinimo)
  /\ iterador = -1
  /\ visitas = [k \in Llaves |-> 0]
  /\ modificada = FALSE

Next ==
  \/ \E k \in Llaves, v \in Valores : FijarEn(k, v)
  \/ \E k \in Llaves : EliminarLlave(k)
  \/ Vaciar
  \/ \E adicional \in Adicionales : RehashearCon(adicional)
  \/ ParaCadaPar \/ VisitarBucket \/ TerminarIteracion

Spec == Init /\ [][Next]_vars

-------------------------------------------------------------------------------
(* Properties.                                                             *)

\* No two keys of K are equal and different, as 8 and 8.0 are.
Distintas(K) == \A a, b \in K : Igualdad(a, b) => a = b

\* What the table holds, as pdcrt_tabla_en sees it.
Pares(t) == [k \in Guardadas(t) |-> ValorDe(t, k)]

M == INSTANCE Mapa WITH mapa <- Pares(tbl)

\* Every variable has its type and a link never leaves the array.
TipoOK ==
  /\ tbl.mascara + 1 \in {2 ^ x : x \in 1 .. TamMaximo}
  /\ tbl.mascara < TamMaximo
  /\ tbl.ocupados \in 0 .. tbl.mascara + 1
  /\ DOMAIN tbl.buckets = 0 .. tbl.mascara
  /\ \A i \in 0 .. tbl.mascara :
       /\ tbl.buckets[i].activo \in BOOLEAN
       /\ i + tbl.buckets[i].off \in 0 .. tbl.mascara
       /\ tbl.buckets[i].llave \in Llaves \union {NADA}
       /\ tbl.buckets[i].valor \in Valores \union {NADA}
  /\ iterador \in -1 .. TamMaximo
  /\ visitas \in [Llaves -> 0 .. TamMaximo]
  /\ modificada \in BOOLEAN

\* Every chain is made of active buckets whose keys have the same main
\* position, starts there and comes to an end: the loops that follow it stop.
CadenasEnteras(t) ==
  \A i \in Activos(t) :
    LET p == Principal(t, t.buckets[i].llave) IN
      /\ i \in Cadena(t, p)
      /\ Cadena(t, p) \subseteq Activos(t)
      /\ \A j \in Cadena(t, p) : Principal(t, t.buckets[j].llave) = p
      /\ \E j \in Cadena(t, p) : t.buckets[j].off = 0

\* Chains are whole.  The search for a stored key ends at its bucket and at no
\* other, equal keys or not, so none is stored twice; buckets_ocupados, which
\* Tabla#longitud returns, is their number.
CadenasCorrectas ==
  /\ CadenasEnteras(tbl)
  /\ \A i \in Activos(tbl) : Lugares(tbl, tbl.buckets[i].llave) = {i}
  /\ tbl.ocupados = Cardinality(Guardadas(tbl))

\* Whatever the layout the table is in, fijarEn makes its key found with its
\* value and changes nothing else.  When 8 is there and 8.0 is set, the pair of
\* 8 may be the one that changes, by where they are; and the program may stop at
\* the assertion of the resizing.  Neither happens when keys that are equal are
\* the same.
FijarSeVe ==
  LET pares == Pares(tbl) IN
    \A k \in Llaves, v \in Valores :
      LET t == Fijar(tbl, k, v)
          nuevos == Pares(t)
      IN /\ NoSeDetiene(tbl, k) =>
              /\ Contiene(t, k) /\ ValorDe(t, k) = v
              /\ \E x \in Llaves : Igualdad(k, x) /\ nuevos = M!Con(pares, x, v)
         /\ Distintas(Guardadas(tbl) \union {k}) =>
              NoSeDetiene(tbl, k) /\ nuevos = M!Con(pares, k, v)

\* Whatever the layout, the assertion at the end of pdcrt_tabla_rehashear (the
\* number of pairs is the same) holds if the keys that are equal are the same,
\* and fails if two that are not come to have one main position, as 8 and 8.0 do
\* in 8 buckets and not in 16.  If it holds the resizing keeps every pair.
RehashearConserva ==
  LET pares == Pares(tbl) IN
    \A n \in 0 .. TamMaximo :
      LET t == Rehashear(tbl, n) IN
        /\ Distintas(Guardadas(tbl)) => Asercion(tbl, t)
        /\ Asercion(tbl, t) => /\ Pares(t) = pares
                               /\ \A a, b \in Guardadas(tbl) :
                                    Igualdad(a, b) /\ Principal(t, a) = Principal(t, b) => a = b

\* Whatever the layout, eliminar removes at most one key, equal to the one it
\* is given, and touches no other; it leaves chains whole, except when it finds
\* an equal key that is the last of another chain, as 1 in the main position of
\* 1.0, which never happens when keys that are equal are the same.
EliminarRespetaLasDemas ==
  LET pares == Pares(tbl) IN
    \A k \in Llaves :
      LET t == Eliminar(tbl, k) IN
        /\ CadenasEnteras(t) <=> ~RompeCadena(tbl, k)
        /\ Distintas(Guardadas(tbl) \union {k}) => ~RompeCadena(tbl, k)
        /\ ~RompeCadena(tbl, k) =>
             \/ t = tbl
             \/ \E x \in Llaves : Igualdad(k, x) /\ Pares(t) = M!Sin(pares, x)

\* Diccionario#eliminar: "Elimina la llave y su valor de este diccionario".
EliminarQuita == \A k \in Llaves : ~Contiene(Eliminar(tbl, k), k)

\* An iteration whose callback only uses fijarEn on keys that are present (the
\* one destructive operation bepd/datos/diccionario.pd allows) calls it exactly
\* once with each key.
IteracionCompleta ==
  Iterando /\ ~modificada /\ iterador = NumBuckets(tbl) =>
    \A k \in Llaves : visitas[k] = IF k \in Guardadas(tbl) THEN 1 ELSE 0

\* What the program sees of a table is a map: an operation sets or removes one
\* key or all of them, and resizing and iterating show nothing.
ImplementaMapa == M!Spec
===============================================================================

--------------------------- MODULE PilaDeCorrutinas ---------------------------
(***************************************************************************)
(* What coroutines promise (tests/lenguaje/coro): the procedures that are  *)
(* waiting for a coroutine form a stack.  avanzar enters a coroutine that  *)
(* is not in it; generar, and the end of the body, go back to whoever      *)
(* entered it last; a coroutine that ended is never entered again.         *)
(* Corrutina implements it.                                                *)
(***************************************************************************)
EXTENDS Naturals, Sequences

CONSTANTS Coros, PRINCIPAL

VARIABLES
  pila,        \* the procedures that entered one another, the running one last
  terminadas   \* the coroutines whose body ended

EnLaPila(c) == \E i \in DOMAIN pila : pila[i] = c

Avanzar(c) ==
  /\ ~EnLaPila(c) /\ c \notin terminadas
  /\ pila' = Append(pila, c)
  /\ UNCHANGED terminadas

Salir ==
  /\ Len(pila) > 1
  /\ pila' = SubSeq(pila, 1, Len(pila) - 1)
  /\ terminadas' \in {terminadas, terminadas \union {pila[Len(pila)]}}

Init == pila = <<PRINCIPAL>> /\ terminadas = {}

Next == (\E c \in Coros : Avanzar(c)) \/ Salir

Spec == Init /\ [][Next]_<<pila, terminadas>>
===============================================================================

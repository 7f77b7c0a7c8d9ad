----------------------------- MODULE MCCorrutina ------------------------------
(***************************************************************************)
(* Instances of Corrutina for TLC.                                         *)
(***************************************************************************)
EXTENDS Corrutina

\* Programs that advance each coroutine from one procedure.
ProgramasDeUnActor == {{}, {"otro_sitio"}, {"generar_ajeno"}}

\* Programs that advance a coroutine from two sites, as coro2.pd does.
ProgramasDeDosSitios == {{"otro_sitio"}}
===============================================================================

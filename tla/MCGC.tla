--------------------------------- MODULE MCGC ---------------------------------
(***************************************************************************)
(* Instances of GC for TLC.                                                *)
(***************************************************************************)
EXTENDS GC, TLC

Simetria == Permutations(Obj)

\* Programs whose services never put an unrecorded pointer from the old
\* generation to a frame of the C stack.
ProgramasSeguros == {{"crear_marco", "recursos"}, {"por_memoria", "recursos"}}

\* Programs with coroutines and files that they close.
ProgramasConServicios == {{"corrutinas", "recursos", "cerrar"}}

\* A program whose runtime calls put frames in the heap and whose allocations
\* find the heap full.
ProgramasConHeapLleno == {{"crear_marco", "por_memoria"}}

\* A program with coroutines.
ProgramasConCorrutinas == {{"corrutinas"}}

\* A program that closes its files and keeps them.
ProgramasQueCierran == {{"recursos", "cerrar"}}
===============================================================================

------------------------------- MODULE MCArchivo ------------------------------
(***************************************************************************)
(* An instance of Archivo for TLC.                                         *)
(***************************************************************************)
EXTENDS Archivo

CONSTANT b

TextosCortos == {<<b>>, <<b, b>>}
===============================================================================

------------------------------- MODULE MCTabla --------------------------------
(***************************************************************************)
(* Instances of Tabla for TLC: hashes that collide in every table, in the  *)
(* small ones only, and with the buckets the others are moved to.  l1 and  *)
(* l5 are equal, with one main position in all tables but the largest (as  *)
(* 8 and 8.0); l2 and l6 are equal and come to hold the bucket of each     *)
(* other (as 1 and 1.0).                                                   *)
(***************************************************************************)
EXTENDS Tabla, TLC

CONSTANTS l1, l2, l3, l4, l5, l6

HashDePrueba ==
  LET h == l1 :> 0 @@ l2 :> 8 @@ l3 :> 1 @@ l4 :> 4 @@ l5 :> 4 @@ l6 :> 2
  IN [l \in Llaves |-> h[l]]

SonIguales == {<<l1, l5>>, <<l5, l1>>, <<l2, l6>>, <<l6, l2>>}
===============================================================================

-------------------------- MODULE MCCompositional --------------------------
(***************************************************************************)
(* Compositional delivery of a stack of three blocks, and two calls that   *)
(* share one template cache.  The constants are model values and numbers   *)
(* of the configurations.                                                  *)
(***************************************************************************)
EXTENDS Compositional
=============================================================================

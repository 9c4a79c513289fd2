---------------------------- MODULE MCMergeTiles ----------------------------
(* Model checking of MergeTiles. *)
EXTENDS MergeTiles
=============================================================================

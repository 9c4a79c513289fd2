---------------------------- MODULE MCNdkCamera ----------------------------
(* Two shoots of two frames. *)
EXTENDS NdkCamera
=============================================================================

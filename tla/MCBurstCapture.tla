--------------------------- MODULE MCBurstCapture ---------------------------
(* Two bursts of two frames. *)
EXTENDS BurstCapture
=============================================================================

---------------------------- MODULE MCAppSession ----------------------------
(* Two intents, one press, stress runs of one and two shots. *)
EXTENDS AppSession
=============================================================================

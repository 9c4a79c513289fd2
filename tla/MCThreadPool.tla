---------------------------- MODULE MCThreadPool ----------------------------
(* Two workers and the caller; calls of one to three tasks. *)
EXTENDS ThreadPool
=============================================================================

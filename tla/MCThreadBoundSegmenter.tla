----------------------- MODULE MCThreadBoundSegmenter -----------------------
(* Two JNI threads; two segmenters one after the other; three jobs. *)
EXTENDS ThreadBoundSegmenter
=============================================================================

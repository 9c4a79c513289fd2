----------------------------- MODULE MCPipeline -----------------------------
(* Values for model checking Pipeline: the frames of the emulated and the   *)
(* real sensors, of the tests and of the app without a camera, with and     *)
(* without a GPU, in every merge mode.                                      *)
EXTENDS Pipeline
Sizes == {[w |-> 4080, h |-> 3060], [w |-> 4080, h |-> 3072], [w |-> 1024, h |-> 768], [w |-> 16, h |-> 16]}
MCConfs ==
  {[w |-> s.w, h |-> s.h, max |-> 8, mode |-> m, ltm |-> m = "wiener", gpu |-> g] :
     s \in Sizes, m \in Modes, g \in BOOLEAN}
=============================================================================

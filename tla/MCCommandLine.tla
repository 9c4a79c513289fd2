--------------------------- MODULE MCCommandLine ---------------------------
(* Values for model checking CommandLine: the idle baseline, the inference  *)
(* alone and the burst, measured and not, with each kind of segmenter and   *)
(* with and without the GPU.                                                *)
EXTENDS CommandLine
Base == [valid |-> TRUE, mode |-> "burst", timed |-> FALSE, frames |-> 0, mask |-> FALSE,
         seg |-> "none", gpuBlur |-> FALSE, policy |-> FALSE, repeat |-> 1]
MCOptions ==
  { [Base EXCEPT !.valid = FALSE],
    [Base EXCEPT !.mode = "idle", !.timed = TRUE],
    [Base EXCEPT !.mode = "seg", !.seg = "cpu"],
    [Base EXCEPT !.mode = "seg", !.seg = "npu", !.timed = TRUE],
    [Base EXCEPT !.mask = TRUE, !.repeat = 2, !.frames = 3],
    [Base EXCEPT !.seg = "emu", !.timed = TRUE, !.frames = 1],
    [Base EXCEPT !.seg = "gpu", !.gpuBlur = TRUE, !.policy = TRUE, !.timed = TRUE] }
=============================================================================

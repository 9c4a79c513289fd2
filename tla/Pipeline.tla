------------------------------ MODULE Pipeline ------------------------------
(***************************************************************************)
(* Pipeline::run (core/src/pipeline.cc): the stages of one burst, over     *)
(* buffers that live as long as the Pipeline, with the segmentation on a   *)
(* thread of its own, the blur on the GPU when there is one                *)
(* (core/src/gpu_blur.cc), and the scratch arena that the stages take in   *)
(* turns (Arena in image.h).                                               *)
(*                                                                         *)
(* A buffer is modelled by the run whose burst it was computed from, or    *)
(* Torn if from several, or from one still being written.  The arena is    *)
(* modelled by its offset in bytes.  parallel_for is atomic here: it is    *)
(* the subject of ThreadPool, and the merge of MergeTiles.                 *)
(*                                                                         *)
(* The GPU and the segmenter are external.  A dispatch may take any time,  *)
(* also for ever, whether or not the host has stopped waiting for it.      *)
(***************************************************************************)
EXTENDS Integers, Sequences, FiniteSets

CONSTANTS
  Confs,      \* records [w, h, max, mode, ltm, gpu]: what a Pipeline is built with
  Frames,     \* numbers of frames of a burst
  NLevels,    \* AlignParams::nlevels; scratch_bytes counts eight images a frame
  MaxRuns     \* bound: runs

Modes == {"spatial", "wiener", "superres"}

ASSUME PipelineAssumption ==
  /\ Confs \subseteq [w : Nat \ {0}, h : Nat \ {0}, max : 1 .. 16, mode : Modes,
                      ltm : BOOLEAN, gpu : BOOLEAN]
  /\ Frames \subseteq Nat \ {0} /\ NLevels \in 1 .. 8 /\ MaxRuns \in Nat

Torn == -1
NoDispatch == -2
Tags == -1 .. MaxRuns    \* 0: as constructed

Buffers == {"rgb256", "maskBuf", "merged", "rgba", "rgbLinQ", "alpha", "blur",
            "mapRgb", "mapAlpha", "mapOut"}
MainPC == {"idle", "gray", "align", "merge", "finish", "join", "refine", "upload",
           "submit", "wait", "download", "cpuBlur", "composite"}
SegPC == {"none", "prep", "infer", "turn", "ended"}

VARIABLES
  conf,      \* the Pipeline's parameters
  run, n,    \* runs begun, frames of the current one
  pc,        \* the caller: the next stage
  mask,      \* mask256: null, the caller's, or mask_buf_
  asked,     \* what the caller gave: a mask, a segmenter, or neither
  segpc,     \* the segmentation thread
  segOk,     \* seg_ok
  turned,    \* mask_buf_ has been turned to the sensor's orientation
  buf,       \* the buffers
  off,       \* scratch_: bytes in use
  bokeh,     \* out_.bokeh
  pending,   \* the GPU queue: dispatches submitted and not begun
  exec,      \* what the dispatch in execution computes from
  fence,     \* fence_ is signalled
  overlap    \* history: this run met a dispatch of an earlier one

segVars == <<segpc, segOk, turned>>
gpuVars == <<pending, exec, fence, overlap>>
vars == <<conf, run, n, pc, mask, asked, segVars, buf, off, bokeh, gpuVars>>

Init ==
  /\ conf \in Confs
  /\ run = 0 /\ n = 0 /\ pc = "idle"
  /\ mask = "null" /\ asked = "none"
  /\ segpc = "none" /\ segOk = FALSE /\ turned = FALSE
  /\ buf = [b \in Buffers |-> 0]
  /\ off = 0
  /\ bokeh = FALSE
  /\ pending = 0 /\ exec = NoDispatch /\ fence = FALSE /\ overlap = FALSE

-----------------------------------------------------------------------------
(* The scratch arena *)

Least(a, b) == IF a < b THEN a ELSE b
Largest(S) == CHOOSE x \in S : \A y \in S : y <= x

W == conf.w
H == conf.h
Quarter == (W \div 4) * (H \div 4)
MiB == 1048576

\* scratch_bytes: the most any stage needs, and 8 MiB.
ScratchBytes ==
  Largest({(conf.max * ((W * H) \div 4) * 8) \div 3 + conf.max * 64 * 8 + MiB,
           W * H * (IF conf.mode = "superres" THEN 12 ELSE 8),
           W * H * 4 + Quarter * 16,
           (W \div 4 + 1) * (H \div 4) * 72}) + 8 * MiB

\* alloc of images of so many bytes, one after the other, each on a cache line: the
\* bytes in use after each of them.
Used(from, images) ==
  LET upTo[k \in 0 .. Len(images)] ==
        IF k = 0 THEN from ELSE 64 * ((upTo[k - 1] + 63) \div 64) + images[k]
  IN upTo
Alloc(from, images) == Used(from, images)[Len(images)]

\* Level l of the pyramid of a gray frame, which is level 0 and has half the sides of
\* the burst's.
Halved(side) == LET half[k \in Nat] == IF k = 0 THEN side ELSE half[k - 1] \div 2 IN half
LevelExists(l) == \A k \in 1 .. l : Halved(W)[k] >= 4 /\ Halved(H)[k] >= 4
Level(l) == 2 * Halved(W)[l + 1] * Halved(H)[l + 1]

\* How many levels there are on top of a gray frame.
Depth == Cardinality({k \in 1 .. NLevels - 1 : LevelExists(k)})

\* The gray frames first, then the pyramid of each.
GrayImages ==
  [i \in 1 .. n * (1 + Depth) |->
     IF i <= n THEN Level(0) ELSE Level(((i - n - 1) % Depth) + 1)]
Repeat(x, k) == [i \in 1 .. k |-> x]
MergeImages == IF n = 1 \/ conf.mode = "superres" THEN <<>> ELSE Repeat(W * H * 4, 2)
FinishImages ==
  IF conf.mode = "superres" /\ n > 1 THEN <<W * H * 12>>
  ELSE IF conf.ltm THEN <<W * H * 4, Quarter * 12, Quarter * 4>>
  ELSE <<W * H * 4>>
RefineImages == Repeat(Quarter * 4, 9) \o <<Quarter * 12>>
CpuBlurImages == <<(W \div 4 + 1) * 4 * (H \div 4) * 4>>

-----------------------------------------------------------------------------
(* The stages *)

\* What is computed from several buffers.
Of(S) == IF \E t \in Tags : S = {t} THEN CHOOSE t \in Tags : S = {t} ELSE Torn
Set(b, t) == buf' = [buf EXCEPT ![b] = t]

\* The frames of the burst that are used (mutant: all of them).
AllFrames(frames) == frames
Taken(frames) == Least(frames, conf.max)

\* run is called, with a mask, a segmenter or neither.  The segmentation
\* thread starts at once.
Run(what, frames) ==
  /\ pc = "idle" /\ run < MaxRuns
  /\ run' = run + 1
  /\ n' = Taken(frames)
  /\ asked' = what
  /\ mask' = IF what = "mask" THEN "given" ELSE "null"
  /\ off' = 0
  /\ segpc' = IF what = "seg" THEN "prep" ELSE "none"
  /\ segOk' = FALSE
  /\ pc' = "gray"
  /\ overlap' = FALSE
  /\ UNCHANGED <<conf, turned, buf, bokeh, pending, exec, fence>>

Gray ==
  /\ pc = "gray"
  /\ off' = Alloc(off, GrayImages)
  /\ pc' = "align"
  /\ UNCHANGED <<conf, run, n, mask, asked, segVars, buf, bokeh, gpuVars>>

\* The motion fields are on the heap: the pyramids are not needed after them,
\* and the arena is reset (mutant: it is not).
NoReset(o) == o
Reset(o) == 0
Align ==
  /\ pc = "align"
  /\ off' = Reset(off)
  /\ pc' = "merge"
  /\ UNCHANGED <<conf, run, n, mask, asked, segVars, buf, bokeh, gpuVars>>

Merge ==
  /\ pc = "merge"
  /\ Set("merged", run)
  /\ off' = Alloc(off, MergeImages)
  /\ pc' = "finish"
  /\ UNCHANGED <<conf, run, n, mask, asked, segVars, bokeh, gpuVars>>

\* finish reads the merged frame, finish_rgb the burst.
Finish ==
  /\ pc = "finish"
  /\ LET t == IF conf.mode = "superres" /\ n > 1 THEN run ELSE buf["merged"] IN
       buf' = [buf EXCEPT !["rgba"] = t, !["rgbLinQ"] = t]
  /\ off' = Alloc(Reset(off), FinishImages)
  /\ pc' = "join"
  /\ UNCHANGED <<conf, run, n, mask, asked, segVars, bokeh, gpuVars>>

\* join returns when the thread has ended.
Joined(s) == s \in {"none", "ended"}

\* The mask of a segmentation that failed is not used (mutant: it is).
AnyMask == segpc # "none"
SegMask == segpc # "none" /\ segOk

Join ==
  /\ pc = "join"
  /\ Joined(segpc)
  /\ mask' = IF SegMask THEN "buf" ELSE mask
  /\ bokeh' = (mask' # "null")
  /\ off' = 0
  /\ pc' = IF mask' = "null" THEN "idle" ELSE "refine"
  /\ UNCHANGED <<conf, run, n, asked, segVars, buf, gpuVars>>

MaskTag ==
  IF mask = "given" THEN run
  ELSE IF turned /\ segpc = "ended" THEN buf["maskBuf"] ELSE Torn

Refine ==
  /\ pc = "refine"
  /\ Set("alpha", Of({MaskTag, buf["rgbLinQ"]}))
  /\ off' = Alloc(off, RefineImages)
  /\ pc' = IF conf.gpu THEN "upload" ELSE "cpuBlur"
  /\ UNCHANGED <<conf, run, n, mask, asked, segVars, bokeh, gpuVars>>

CpuBlur ==
  /\ pc = "cpuBlur"
  /\ Set("blur", Of({buf["rgbLinQ"], buf["alpha"]}))
  /\ off' = Alloc(off, CpuBlurImages)
  /\ pc' = "composite"
  /\ UNCHANGED <<conf, run, n, mask, asked, segVars, bokeh, gpuVars>>

Composite ==
  /\ pc = "composite"
  /\ Set("rgba", Of({buf["rgba"], buf["blur"], buf["alpha"]}))
  /\ off' = Alloc(off, <<Quarter * 4>>)
  /\ pc' = "idle"
  /\ UNCHANGED <<conf, run, n, mask, asked, segVars, bokeh, gpuVars>>

-----------------------------------------------------------------------------
(* The segmentation thread *)

Prep ==
  /\ segpc = "prep"
  /\ Set("rgb256", run)
  /\ segpc' = "infer"
  /\ UNCHANGED <<conf, run, n, pc, mask, asked, segOk, turned, off, bokeh, gpuVars>>

\* seg->run (external) fills mask_buf_, or fails and leaves anything in it.
Infer(ok) ==
  /\ segpc = "infer"
  /\ segOk' = ok
  /\ turned' = FALSE
  /\ IF ok THEN Set("maskBuf", buf["rgb256"])
     ELSE \E t \in {buf["maskBuf"], Torn} : Set("maskBuf", t)
  /\ segpc' = IF ok THEN "turn" ELSE "ended"
  /\ UNCHANGED <<conf, run, n, pc, mask, asked, off, bokeh, gpuVars>>

\* mask256_to_sensor
Turn ==
  /\ segpc = "turn"
  /\ turned' = TRUE
  /\ segpc' = "ended"
  /\ UNCHANGED <<conf, run, n, pc, mask, asked, segOk, buf, off, bokeh, gpuVars>>

-----------------------------------------------------------------------------
(* The blur on the GPU *)

\* memcpy to mapped memory, which a late dispatch may still be reading.
Upload ==
  /\ pc = "upload"
  /\ buf' = [buf EXCEPT !["mapRgb"] = buf["rgbLinQ"], !["mapAlpha"] = buf["alpha"]]
  /\ exec' = IF exec = NoDispatch THEN exec ELSE Torn
  /\ overlap' = (pending > 0 \/ exec # NoDispatch)
  /\ pc' = "submit"
  /\ UNCHANGED <<conf, run, n, mask, asked, segVars, off, bokeh, pending, fence>>

\* Resetting the command buffer of a dispatch that has not ended is undefined:
\* the dispatch may go on, or be gone.
Submit(ok, kept) ==
  /\ pc = "submit"
  /\ ~kept => overlap
  /\ fence' = FALSE
  /\ pending' = (IF kept THEN pending ELSE 0) + (IF ok THEN 1 ELSE 0)
  /\ exec' = IF kept THEN exec ELSE NoDispatch
  /\ pc' = IF ok THEN "wait" ELSE "cpuBlur"
  /\ UNCHANGED <<conf, run, n, mask, asked, segVars, buf, off, bokeh, overlap>>

Signalled ==
  /\ pc = "wait" /\ fence
  /\ pc' = "download"
  /\ UNCHANGED <<conf, run, n, mask, asked, segVars, buf, off, bokeh, gpuVars>>

\* Two seconds have passed, or the device is lost (mutant: no time limit).
NoTimeLimit == FALSE
TimesOut == ~fence
GiveUp ==
  /\ pc = "wait" /\ TimesOut
  /\ pc' = "cpuBlur"
  /\ UNCHANGED <<conf, run, n, mask, asked, segVars, buf, off, bokeh, gpuVars>>

Download ==
  /\ pc = "download"
  /\ Set("blur", buf["mapOut"])
  /\ pc' = "composite"
  /\ UNCHANGED <<conf, run, n, mask, asked, segVars, off, bokeh, gpuVars>>

DispatchBegins ==
  /\ pending > 0 /\ exec = NoDispatch
  /\ pending' = pending - 1
  /\ exec' = Of({buf["mapRgb"], buf["mapAlpha"]})
  /\ Set("mapOut", Torn)
  /\ UNCHANGED <<conf, run, n, pc, mask, asked, segVars, off, bokeh, fence, overlap>>

DispatchEnds ==
  /\ exec # NoDispatch
  /\ Set("mapOut", exec)
  /\ exec' = NoDispatch
  /\ fence' = TRUE
  /\ UNCHANGED <<conf, run, n, pc, mask, asked, segVars, off, bokeh, pending, overlap>>

-----------------------------------------------------------------------------

GpuRun ==
  \/ Upload \/ Signalled \/ GiveUp \/ Download
  \/ \E ok, kept \in BOOLEAN : Submit(ok, kept)

Stage ==
  \/ Gray \/ Align \/ Merge \/ Finish \/ Join \/ Refine \/ CpuBlur \/ Composite
  \/ GpuRun

SegStep ==
  \/ Prep \/ Turn
  \/ \E ok \in BOOLEAN : Infer(ok)

Next ==
  \/ \E what \in {"mask", "seg", "none"}, frames \in Frames : Run(what, frames)
  \/ Stage
  \/ SegStep
  \/ DispatchBegins \/ DispatchEnds

\* The caller and the segmentation thread run, and an inference ends
\* (ThreadBoundSegmenter); nothing is assumed of the GPU.
Fairness == WF_vars(Stage) /\ WF_vars(SegStep)

Safety == Init /\ [][Next]_vars
Spec == Safety /\ Fairness

-----------------------------------------------------------------------------
(* Properties *)

\* Every variable has its type; off is the subject of ArenaFits.
TypeOK ==
  /\ conf \in Confs
  /\ run \in 0 .. MaxRuns /\ n \in 0 .. conf.max
  /\ pc \in MainPC /\ segpc \in SegPC
  /\ mask \in {"null", "given", "buf"} /\ asked \in {"none", "mask", "seg"}
  /\ segOk \in BOOLEAN /\ turned \in BOOLEAN /\ bokeh \in BOOLEAN
  /\ buf \in [Buffers -> Tags]
  /\ pending \in 0 .. MaxRuns /\ exec \in Tags \cup {NoDispatch}
  /\ fence \in BOOLEAN /\ overlap \in BOOLEAN

\* The stages never take more scratch memory than scratch_bytes counted on:
\* Arena::alloc aborts the program if they do.
ArenaFits == off \in 0 .. ScratchBytes

Returned == pc = "idle" /\ run > 0

\* "One shutter is one run": what run returns was computed from its own burst
\* and mask alone, although every buffer is used again, an inference may fail
\* half way and the GPU may give up; and it is blurred if and only if this run had
\* a mask: the caller's, or one that its own segmentation has ended with.  (If the
\* GPU gave up in an earlier run and is still at it, the blur may be that run's.)
FreshOutput ==
  Returned =>
    /\ buf["merged"] = run
    /\ ~overlap => buf["rgba"] = run
    /\ bokeh => buf["alpha"] = run
    /\ segpc \in {"none", "ended"}
    /\ bokeh <=> asked = "mask" \/ (asked = "seg" /\ segOk)

\* Every run returns, also when the GPU never answers.
RunReturns == pc # "idle" ~> pc = "idle"
=============================================================================

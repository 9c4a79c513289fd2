--------------------------- MODULE PipelineProofs ---------------------------
(***************************************************************************)
(* Pipelines of every size and mode, with and without a GPU, and any       *)
(* number of runs: what Pipeline::run returns was computed from its own    *)
(* burst and mask alone, and no stage takes more scratch memory than       *)
(* scratch_bytes counted on.                                               *)
(***************************************************************************)
EXTENDS Pipeline, FiniteSetTheorems, NaturalsInduction, WellFoundedInduction, TLAPS

AfterRefine == {"upload", "submit", "wait", "download", "cpuBlur", "composite"}
AfterJoin == {"refine"} \cup AfterRefine
AfterFinish == {"join"} \cup AfterJoin
AfterMerge == {"finish"} \cup AfterFinish
BeforeJoin == {"gray", "align", "merge", "finish", "join"}
BeforeSubmit == BeforeJoin \cup {"refine", "upload", "submit"}

HasMask == asked = "mask" \/ (asked = "seg" /\ segOk)

\* A run submits one dispatch at most.
OneDispatch == pending <= run /\ (pc \in BeforeSubmit => pending < run)

\* The segmentation of this run: what it has computed so far, and from which burst.
Segmented ==
  /\ asked = "seg" <=> segpc # "none"
  /\ segOk => segpc \in {"turn", "ended"} /\ buf["maskBuf"] = run
  /\ segpc = "infer" => buf["rgb256"] = run
  /\ segpc = "turn" => segOk
  /\ segpc = "ended" /\ segOk => turned

\* What each stage finds: the results of the stages before it, from this burst.
Staged ==
  /\ pc \in AfterMerge => buf["merged"] = run
  /\ pc \in AfterFinish => buf["rgba"] = run /\ buf["rgbLinQ"] = run
  /\ pc \in BeforeJoin => mask = IF asked = "mask" THEN "given" ELSE "null"
  /\ pc \in AfterJoin => /\ bokeh /\ HasMask /\ segpc \in {"none", "ended"}
                         /\ mask = IF asked = "mask" THEN "given" ELSE "buf"
  /\ pc \in AfterRefine => buf["alpha"] = run

\* The blur, when no earlier dispatch is about: the one dispatch of this run is in
\* the queue, in execution, or done.
Queued == pending = 1 /\ exec = NoDispatch /\ ~fence
Executing == pending = 0 /\ exec = run /\ ~fence
Done == pending = 0 /\ exec = NoDispatch /\ buf["mapOut"] = run
Blurred ==
  ~overlap =>
    /\ pc \in {"submit", "wait"} => buf["mapRgb"] = run /\ buf["mapAlpha"] = run
    /\ pc = "submit" => pending = 0 /\ exec = NoDispatch
    /\ pc = "wait" => Queued \/ Executing \/ (Done /\ fence)
    /\ pc = "download" => Done
    /\ pc = "composite" => buf["blur"] = run

IInv == TypeOK /\ OneDispatch /\ Segmented /\ Staged /\ Blurred /\ FreshOutput

-----------------------------------------------------------------------------

\* A run is told apart from a torn buffer and from an empty queue.
LEMMA Numbers ==
  ASSUME TypeOK
  PROVE  /\ run \in Nat /\ run \in Tags /\ run # Torn /\ run # NoDispatch /\ NoDispatch \notin Tags
         /\ conf.max \in Nat /\ pending \in Nat
         /\ \A b \in Buffers : buf[b] \in Tags
<1>1. run \in 0 .. MaxRuns /\ MaxRuns \in Nat /\ pending \in 0 .. MaxRuns
  BY PipelineAssumption DEF TypeOK
<1>2. run \in Nat /\ run \in Tags /\ run # Torn /\ run # NoDispatch /\ NoDispatch \notin Tags /\ pending \in Nat
  BY <1>1 DEF Tags, Torn, NoDispatch
<1>3. conf.max \in 1 .. 16
  BY PipelineAssumption DEF TypeOK
<1>4. conf.max \in Nat
  BY <1>3
<1> QED  BY <1>2, <1>4 DEF TypeOK

\* What is computed from one burst is of that burst, and what is computed at all has a tag.
LEMMA OfOne ==
  ASSUME NEW t \in Tags
  PROVE  Of({t}) = t
<1>1. \A u \in Tags : {t} = {u} => t = u
  OBVIOUS
<1> QED  BY <1>1 DEF Of

\* What is computed from buffers is of a run, or torn.
LEMMA OfTags ==
  ASSUME NEW S
  PROVE  Of(S) \in Tags
<1>1. Torn \in Tags
  BY PipelineAssumption DEF Tags, Torn
<1> QED  BY <1>1 DEF Of

\* A stage before the join, which the segmentation may overtake.
LEMMA EarlyKeeps ==
  ASSUME IInv, Gray \/ Align \/ Merge \/ Finish
  PROVE  IInv'
<1>1. /\ UNCHANGED <<conf, run, n, mask, asked, segpc, segOk, turned, bokeh, pending, exec, fence, overlap>>
      /\ pc \in {"gray", "align", "merge", "finish"} /\ pc' \in {"align", "merge", "finish", "join"}
      /\ \A b \in Buffers \ {"merged", "rgba", "rgbLinQ"} : buf'[b] = buf[b]
      /\ buf' \in [Buffers -> Tags]
      /\ pc' \in {"finish", "join"} => buf'["merged"] = run
      /\ pc' = "join" => buf'["rgba"] = run /\ buf'["rgbLinQ"] = run
  <2>1. buf \in [Buffers -> Tags] /\ run \in Tags
    BY Numbers DEF IInv, TypeOK
  <2>2. CASE Gray \/ Align
    BY <2>1, <2>2 DEF Gray, Align, segVars, gpuVars
  <2>3. CASE Merge
    BY <2>1, <2>3 DEF Merge, Set, segVars, gpuVars, Buffers
  <2>4. CASE Finish
    <3>1. buf["merged"] = run
      BY <2>4 DEF Finish, IInv, Staged, AfterMerge
    <3>2. buf' = [buf EXCEPT !["rgba"] = run, !["rgbLinQ"] = run]
      BY <2>4, <3>1 DEF Finish
    <3> QED  BY <2>1, <2>4, <3>1, <3>2 DEF Finish, segVars, gpuVars, Buffers
  <2> QED  BY <2>2, <2>3, <2>4
<1>2. TypeOK'
  <2>1. pc' \in MainPC
    BY <1>1 DEF MainPC
  <2> QED  BY <1>1, <2>1 DEF IInv, TypeOK
<1>3. OneDispatch'
  BY <1>1 DEF IInv, OneDispatch, BeforeSubmit, BeforeJoin
<1>4. Segmented'
  BY <1>1 DEF IInv, Segmented, Buffers
<1>5. Staged'
  BY <1>1 DEF IInv, Staged, AfterMerge, AfterFinish, AfterJoin, AfterRefine, BeforeJoin
<1>6. Blurred' /\ FreshOutput'
  BY <1>1 DEF Blurred, FreshOutput, Returned
<1> QED  BY <1>2, <1>3, <1>4, <1>5, <1>6 DEF IInv

\* run is called: nothing of this burst has been computed, and it has no mask yet.
LEMMA RunKeeps ==
  ASSUME IInv, NEW what \in {"mask", "seg", "none"}, NEW frames \in Frames, Run(what, frames)
  PROVE  IInv'
<1>1. /\ pc = "idle" /\ run < MaxRuns /\ run' = run + 1 /\ n' = Taken(frames) /\ asked' = what
      /\ mask' = (IF what = "mask" THEN "given" ELSE "null")
      /\ segpc' = (IF what = "seg" THEN "prep" ELSE "none") /\ segOk' = FALSE
      /\ pc' = "gray" /\ overlap' = FALSE
      /\ UNCHANGED <<conf, turned, buf, bokeh, pending, exec, fence>>
  BY DEF Run
<1>2. run \in Nat /\ MaxRuns \in Nat /\ conf.max \in Nat /\ frames \in Nat /\ pending <= run /\ pending \in Nat
  BY Numbers, PipelineAssumption DEF IInv, OneDispatch
<1>3. TypeOK'
  <2>1. run' \in 0 .. MaxRuns /\ n' \in 0 .. conf'.max
    BY <1>1, <1>2 DEF Taken, Least
  <2>2. pc' \in MainPC /\ segpc' \in SegPC
    BY <1>1 DEF MainPC, SegPC
  <2>3. /\ mask' \in {"null", "given", "buf"} /\ asked' \in {"none", "mask", "seg"}
        /\ segOk' \in BOOLEAN /\ overlap' \in BOOLEAN
    BY <1>1
  <2> QED  BY <1>1, <2>1, <2>2, <2>3 DEF IInv, TypeOK
<1>4. OneDispatch'
  BY <1>1, <1>2 DEF OneDispatch
<1>5. Segmented' /\ Staged' /\ Blurred' /\ FreshOutput'
  <2>1. Segmented'
    BY <1>1 DEF Segmented
  <2>2. Staged'
    BY <1>1 DEF Staged, AfterMerge, AfterFinish, AfterJoin, AfterRefine, BeforeJoin
  <2>3. Blurred' /\ FreshOutput'
    BY <1>1 DEF Blurred, FreshOutput, Returned
  <2> QED  BY <2>1, <2>2, <2>3
<1> QED  BY <1>3, <1>4, <1>5 DEF IInv

\* The join: the mask is the one asked for, or that of a segmentation that has
\* ended well; without one run returns.
LEMMA JoinKeeps ==
  ASSUME IInv, Join
  PROVE  IInv'
<1>1. /\ pc = "join" /\ segpc \in {"none", "ended"}
      /\ mask' = (IF segpc # "none" /\ segOk THEN "buf" ELSE mask)
      /\ bokeh' = (mask' # "null") /\ pc' = (IF mask' = "null" THEN "idle" ELSE "refine")
      /\ UNCHANGED <<conf, run, n, asked, segpc, segOk, turned, buf, pending, exec, fence, overlap>>
  BY DEF Join, Joined, SegMask, segVars, gpuVars
<1>2. mask = (IF asked = "mask" THEN "given" ELSE "null") /\ asked \in {"none", "mask", "seg"}
  BY <1>1 DEF IInv, Staged, BeforeJoin, TypeOK
<1>3. /\ mask' = (IF asked = "mask" THEN "given" ELSE IF HasMask THEN "buf" ELSE "null")
      /\ mask' # "null" <=> HasMask
      /\ segpc # "none" <=> asked = "seg"
  BY <1>1, <1>2 DEF HasMask, IInv, Segmented
<1>4. TypeOK'
  <2>1. pc' \in MainPC /\ mask' \in {"null", "given", "buf"} /\ bokeh' \in BOOLEAN
    BY <1>1, <1>3 DEF MainPC
  <2> QED  BY <1>1, <2>1 DEF IInv, TypeOK
<1>5. OneDispatch' /\ Segmented'
  BY <1>1 DEF IInv, OneDispatch, Segmented, BeforeSubmit, BeforeJoin
<1>6. buf["merged"] = run /\ buf["rgba"] = run /\ buf["rgbLinQ"] = run
  BY <1>1 DEF IInv, Staged, AfterMerge, AfterFinish
<1>7. CASE HasMask
  <2>1. pc' = "refine" /\ bokeh'
    BY <1>1, <1>3, <1>7
  <2>2. Staged'
    BY <1>1, <1>3, <1>6, <1>7, <2>1 DEF Staged, HasMask, AfterRefine, BeforeJoin
  <2>3. Blurred' /\ FreshOutput'
    BY <2>1 DEF Blurred, FreshOutput, Returned
  <2> QED  BY <1>4, <1>5, <2>2, <2>3 DEF IInv
<1>8. CASE ~HasMask
  <2>1. pc' = "idle" /\ ~bokeh'
    BY <1>1, <1>3, <1>8
  <2>2. Staged' /\ Blurred'
    BY <2>1 DEF Staged, Blurred, AfterMerge, AfterFinish, AfterJoin, AfterRefine, BeforeJoin
  <2>3. FreshOutput'
    BY <1>1, <1>6, <1>8, <2>1 DEF FreshOutput, HasMask
  <2> QED  BY <1>4, <1>5, <2>2, <2>3 DEF IInv
<1> QED  BY <1>7, <1>8

-----------------------------------------------------------------------------
(* Portrait: the stages after the join *)

\* The burst is finished and the mask is there: the stages of the portrait change
\* neither until the picture is composed.
LEMMA PortraitKeeps ==
  ASSUME IInv, pc \in AfterJoin, pc' \in AfterRefine,
         UNCHANGED <<conf, run, n, mask, asked, segpc, segOk, turned, bokeh>>,
         buf' \in [Buffers -> Tags],
         \A b \in {"merged", "rgba", "rgbLinQ", "maskBuf", "rgb256"} : buf'[b] = buf[b],
         pc = "refine" \/ buf'["alpha"] = buf["alpha"], buf'["alpha"] = run,
         pending' \in 0 .. MaxRuns, exec' \in Tags \cup {NoDispatch},
         fence' \in BOOLEAN, overlap' \in BOOLEAN,
         OneDispatch', Blurred'
  PROVE  IInv'
<1>1. pc \notin BeforeJoin /\ pc' \notin BeforeJoin /\ pc' # "idle" /\ pc' # "refine"
      /\ pc \in AfterMerge /\ pc \in AfterFinish /\ pc' \in AfterJoin
  BY DEF AfterJoin, AfterRefine, AfterFinish, AfterMerge, BeforeJoin
<1>2. TypeOK'
  <2>1. pc' \in MainPC
    BY DEF AfterRefine, MainPC
  <2> QED  BY <2>1 DEF IInv, TypeOK
<1>3. Segmented'
  BY DEF IInv, Segmented
<1>4. Staged'
  BY <1>1 DEF IInv, Staged, HasMask
<1>5. FreshOutput'
  BY <1>1 DEF FreshOutput, Returned
<1> QED  BY <1>2, <1>3, <1>4, <1>5 DEF IInv

\* What the stages after the join find.
LEMMA PortraitHas ==
  ASSUME IInv, pc \in AfterJoin
  PROVE  /\ buf \in [Buffers -> Tags] /\ buf["merged"] = run /\ buf["rgba"] = run /\ buf["rgbLinQ"] = run
         /\ pc # "refine" => buf["alpha"] = run
         /\ bokeh /\ HasMask /\ segpc \in {"none", "ended"}
         /\ mask = (IF asked = "mask" THEN "given" ELSE "buf")
         /\ pending \in 0 .. MaxRuns /\ exec \in Tags \cup {NoDispatch}
         /\ fence \in BOOLEAN /\ overlap \in BOOLEAN
<1>1. pc \in AfterMerge /\ pc \in AfterFinish /\ (pc # "refine" => pc \in AfterRefine)
  BY DEF AfterJoin, AfterFinish, AfterMerge
<1> QED  BY <1>1 DEF IInv, Staged, TypeOK

\* The mask that is refined is the caller's, or that of this burst, turned.
LEMMA RefineKeeps ==
  ASSUME IInv, Refine
  PROVE  IInv'
<1>1. /\ pc = "refine" /\ pc' \in {"upload", "cpuBlur"}
      /\ buf' = [buf EXCEPT !["alpha"] = Of({MaskTag, buf["rgbLinQ"]})]
      /\ UNCHANGED <<conf, run, n, mask, asked, segpc, segOk, turned, bokeh, pending, exec, fence, overlap>>
  BY DEF Refine, Set, segVars, gpuVars
<1>2. pc \in AfterJoin /\ pc' \in AfterRefine
  BY <1>1 DEF AfterJoin, AfterRefine
<1>3. MaskTag = run
  BY <1>2, PortraitHas DEF IInv, Segmented, HasMask, MaskTag
<1>4. Of({MaskTag, buf["rgbLinQ"]}) = run
  <2>1. {MaskTag, buf["rgbLinQ"]} = {run}
    BY <1>2, <1>3, PortraitHas
  <2> QED  BY <2>1, OfOne, Numbers DEF IInv
<1>5. /\ buf' \in [Buffers -> Tags] /\ buf'["alpha"] = run
      /\ \A b \in {"merged", "rgba", "rgbLinQ", "maskBuf", "rgb256"} : buf'[b] = buf[b]
  BY <1>1, <1>2, <1>4, PortraitHas, Numbers DEF Buffers, IInv
<1>6. OneDispatch'
  BY <1>1 DEF IInv, OneDispatch, BeforeSubmit
<1>7. Blurred'
  BY <1>1 DEF Blurred
<1> QED  BY <1>1, <1>2, <1>5, <1>6, <1>7, PortraitHas, PortraitKeeps

\* The blur on the CPU, and what comes back from the GPU.
LEMMA BlurKeeps ==
  ASSUME IInv, CpuBlur \/ Download
  PROVE  IInv'
<1>1. /\ pc \in {"cpuBlur", "download"} /\ pc' = "composite"
      /\ UNCHANGED <<conf, run, n, mask, asked, segpc, segOk, turned, bokeh, pending, exec, fence, overlap>>
  BY DEF CpuBlur, Download, segVars, gpuVars
<1>2. pc \in AfterJoin /\ pc' \in AfterRefine
  BY <1>1 DEF AfterJoin, AfterRefine
<1>3. PICK t \in Tags : buf' = [buf EXCEPT !["blur"] = t] /\ (~overlap => t = run)
  <2>1. CASE CpuBlur
    <3>1. {buf["rgbLinQ"], buf["alpha"]} = {run}
      BY <1>1, <1>2, PortraitHas
    <3> QED  BY <2>1, <3>1, OfOne, Numbers DEF CpuBlur, Set, IInv
  <2>2. CASE Download
    <3>1. buf["mapOut"] \in Tags /\ (~overlap => buf["mapOut"] = run)
      BY <2>2, Numbers DEF Download, IInv, Blurred, Done, Buffers
    <3> QED  BY <2>2, <3>1 DEF Download, Set
  <2> QED  BY <2>1, <2>2
<1>4. /\ buf' \in [Buffers -> Tags] /\ buf'["alpha"] = buf["alpha"] /\ buf["alpha"] = run
      /\ buf'["blur"] = t
      /\ \A b \in {"merged", "rgba", "rgbLinQ", "maskBuf", "rgb256"} : buf'[b] = buf[b]
  BY <1>1, <1>2, <1>3, PortraitHas DEF Buffers
<1>5. OneDispatch'
  BY <1>1 DEF IInv, OneDispatch, BeforeSubmit, BeforeJoin
<1>6. Blurred'
  BY <1>1, <1>3, <1>4 DEF Blurred
<1> QED  BY <1>1, <1>2, <1>4, <1>5, <1>6, PortraitHas, PortraitKeeps

\* The picture is composed of three buffers of this burst, and run returns.
LEMMA CompositeKeeps ==
  ASSUME IInv, Composite
  PROVE  IInv'
<1>1. /\ pc = "composite" /\ pc' = "idle"
      /\ buf' = [buf EXCEPT !["rgba"] = Of({buf["rgba"], buf["blur"], buf["alpha"]})]
      /\ UNCHANGED <<conf, run, n, mask, asked, segpc, segOk, turned, bokeh, pending, exec, fence, overlap>>
  BY DEF Composite, Set, segVars, gpuVars
<1>2. pc \in AfterJoin
  BY <1>1 DEF AfterJoin, AfterRefine
<1>3. ~overlap => Of({buf["rgba"], buf["blur"], buf["alpha"]}) = run
  <2> SUFFICES ASSUME ~overlap
               PROVE  Of({buf["rgba"], buf["blur"], buf["alpha"]}) = run
    OBVIOUS
  <2>1. {buf["rgba"], buf["blur"], buf["alpha"]} = {run}
    BY <1>1, <1>2, PortraitHas DEF IInv, Blurred
  <2> QED  BY <2>1, OfOne, Numbers DEF IInv
<1>4. /\ buf' \in [Buffers -> Tags] /\ buf'["rgba"] = Of({buf["rgba"], buf["blur"], buf["alpha"]})
      /\ \A b \in {"merged", "alpha", "maskBuf", "rgb256"} : buf'[b] = buf[b]
  BY <1>1, <1>2, OfTags, PortraitHas DEF Buffers
<1>5. TypeOK'
  <2>1. pc' \in MainPC
    BY <1>1 DEF MainPC
  <2> QED  BY <1>1, <1>4, <2>1 DEF IInv, TypeOK
<1>6. OneDispatch' /\ Segmented'
  BY <1>1, <1>4 DEF IInv, OneDispatch, Segmented, BeforeSubmit, BeforeJoin
<1>7. Staged' /\ Blurred'
  BY <1>1 DEF Staged, Blurred, AfterMerge, AfterFinish, AfterJoin, AfterRefine, BeforeJoin
<1>8. FreshOutput'
  BY <1>1, <1>2, <1>3, <1>4, PortraitHas DEF FreshOutput, HasMask
<1> QED  BY <1>5, <1>6, <1>7, <1>8 DEF IInv

-----------------------------------------------------------------------------
(* The GPU *)

\* Copying to memory the GPU may still be reading: then this run overlaps.
LEMMA UploadKeeps ==
  ASSUME IInv, Upload
  PROVE  IInv'
<1>1. /\ pc = "upload" /\ pc' = "submit"
      /\ buf' = [buf EXCEPT !["mapRgb"] = buf["rgbLinQ"], !["mapAlpha"] = buf["alpha"]]
      /\ exec' = (IF exec = NoDispatch THEN exec ELSE Torn)
      /\ overlap' = (pending > 0 \/ exec # NoDispatch)
      /\ UNCHANGED <<conf, run, n, mask, asked, segpc, segOk, turned, bokeh, pending, fence>>
  BY DEF Upload, segVars
<1>2. pc \in AfterJoin /\ pc' \in AfterRefine
  BY <1>1 DEF AfterJoin, AfterRefine
<1>3. buf["rgbLinQ"] = run /\ buf["alpha"] = run /\ buf \in [Buffers -> Tags]
  BY <1>1, <1>2, PortraitHas
<1>4. /\ buf' \in [Buffers -> Tags] /\ buf'["alpha"] = run /\ buf'["mapRgb"] = run /\ buf'["mapAlpha"] = run
      /\ \A b \in {"merged", "rgba", "rgbLinQ", "maskBuf", "rgb256"} : buf'[b] = buf[b]
  BY <1>1, <1>3 DEF Buffers
<1>5. exec' \in Tags \cup {NoDispatch} /\ overlap' \in BOOLEAN
  <2>1. Torn \in Tags
    BY PipelineAssumption DEF Tags, Torn
  <2>2. overlap' \in BOOLEAN
    BY <1>1
  <2> QED  BY <1>1, <1>2, <2>1, <2>2, PortraitHas
<1>6. OneDispatch'
  BY <1>1 DEF IInv, OneDispatch, BeforeSubmit
<1>7. Blurred'
  <2>1. ~overlap' => pending' = 0 /\ exec' = NoDispatch
    <3>1. ~overlap' => ~(pending > 0) /\ exec = NoDispatch
      BY <1>1
    <3>2. pending' = pending /\ pending \in Nat
      BY <1>1, Numbers DEF IInv
    <3> QED  BY <1>1, <3>1, <3>2
  <2> QED  BY <1>1, <1>4, <2>1 DEF Blurred
<1> QED  BY <1>1, <1>2, <1>3, <1>4, <1>5, <1>6, <1>7, PortraitHas, PortraitKeeps

\* The dispatch of this run enters the queue, behind one that may be left over.
LEMMA SubmitKeeps ==
  ASSUME IInv, NEW ok \in BOOLEAN, NEW kept \in BOOLEAN, Submit(ok, kept)
  PROVE  IInv'
<1>1. /\ pc = "submit" /\ pc' = (IF ok THEN "wait" ELSE "cpuBlur") /\ (~kept => overlap)
      /\ fence' = FALSE /\ pending' = (IF kept THEN pending ELSE 0) + (IF ok THEN 1 ELSE 0)
      /\ exec' = (IF kept THEN exec ELSE NoDispatch)
      /\ UNCHANGED <<conf, run, n, mask, asked, segpc, segOk, turned, buf, bokeh, overlap>>
  BY DEF Submit, segVars
<1>2. pc \in AfterJoin /\ pc' \in AfterRefine
  BY <1>1 DEF AfterJoin, AfterRefine
<1>3. pending < run /\ run \in Nat /\ run <= MaxRuns /\ pending \in Nat /\ MaxRuns \in Nat
  BY <1>1, Numbers, PipelineAssumption DEF IInv, OneDispatch, BeforeSubmit, TypeOK
<1>4. pending' \in 0 .. MaxRuns /\ pending' <= run
  BY <1>1, <1>3
<1>5. OneDispatch'
  BY <1>1, <1>4 DEF OneDispatch, BeforeSubmit, BeforeJoin
<1>6. Blurred'
  <2> SUFFICES ASSUME ~overlap
               PROVE  Blurred'
    BY <1>1 DEF Blurred
  <2>1. kept /\ pending = 0 /\ exec = NoDispatch /\ buf["mapRgb"] = run /\ buf["mapAlpha"] = run
    BY <1>1 DEF IInv, Blurred
  <2>2. ok => Queued'
    BY <1>1, <2>1 DEF Queued
  <2> QED  BY <1>1, <2>1, <2>2 DEF Blurred
<1>7. buf["alpha"] = run /\ exec' \in Tags \cup {NoDispatch} /\ fence' \in BOOLEAN
  BY <1>1, <1>2, PortraitHas
<1> QED  BY <1>1, <1>2, <1>4, <1>5, <1>6, <1>7, PortraitHas, PortraitKeeps

\* The wait ends: with the fence of this run's dispatch, or without it.
LEMMA WaitKeeps ==
  ASSUME IInv, Signalled \/ GiveUp
  PROVE  IInv'
<1>1. /\ pc = "wait" /\ ((fence /\ pc' = "download") \/ pc' = "cpuBlur")
      /\ UNCHANGED <<conf, run, n, mask, asked, segpc, segOk, turned, buf, bokeh, pending, exec, fence, overlap>>
  BY DEF Signalled, GiveUp, segVars, gpuVars
<1>2. pc \in AfterJoin /\ pc' \in AfterRefine
  BY <1>1 DEF AfterJoin, AfterRefine
<1>3. OneDispatch'
  BY <1>1 DEF IInv, OneDispatch, BeforeSubmit, BeforeJoin
<1>4. Blurred'
  BY <1>1 DEF IInv, Blurred, Queued, Executing, Done
<1>5. buf["alpha"] = run /\ buf \in [Buffers -> Tags]
  BY <1>1, <1>2, PortraitHas
<1> QED  BY <1>1, <1>2, <1>3, <1>4, <1>5, PortraitHas, PortraitKeeps

\* The GPU begins or ends a dispatch, whatever the host does meanwhile: only its
\* output buffer changes.
LEMMA DispatchKeeps ==
  ASSUME IInv, DispatchBegins \/ DispatchEnds
  PROVE  IInv'
<1>1. /\ UNCHANGED <<conf, run, n, pc, mask, asked, segpc, segOk, turned, bokeh, overlap>>
      /\ pending' \in {pending, pending - 1} /\ pending' \in 0 .. MaxRuns
      /\ exec' \in Tags \cup {NoDispatch} /\ fence' \in BOOLEAN
      /\ buf' \in [Buffers -> Tags] /\ \A b \in Buffers \ {"mapOut"} : buf'[b] = buf[b]
  <2>1. /\ pending \in 0 .. MaxRuns /\ buf \in [Buffers -> Tags] /\ exec \in Tags \cup {NoDispatch}
        /\ fence \in BOOLEAN /\ Torn \in Tags /\ MaxRuns \in Nat
    BY PipelineAssumption DEF IInv, TypeOK, Tags, Torn
  <2>2. CASE DispatchBegins
    <3>1. pending' = pending - 1 /\ pending > 0
      BY <2>2 DEF DispatchBegins
    <3>2. pending' \in 0 .. MaxRuns
      BY <2>1, <3>1
    <3> QED  BY <2>1, <2>2, <3>1, <3>2, OfTags DEF DispatchBegins, Set, segVars, Buffers
  <2>3. CASE DispatchEnds
    <3>1. exec \in Tags /\ buf' = [buf EXCEPT !["mapOut"] = exec]
      BY <2>1, <2>3 DEF DispatchEnds, Set
    <3>2. fence' \in BOOLEAN
      BY <2>3 DEF DispatchEnds
    <3> QED  BY <2>1, <2>3, <3>1, <3>2 DEF DispatchEnds, segVars, Buffers
  <2> QED  BY <2>2, <2>3
<1>2. TypeOK'
  BY <1>1 DEF IInv, TypeOK
<1>3. OneDispatch'
  BY <1>1, Numbers DEF IInv, OneDispatch
<1>4. Segmented' /\ Staged' /\ FreshOutput'
  BY <1>1 DEF IInv, Segmented, Staged, FreshOutput, Returned, HasMask, Buffers
<1>5. Blurred'
  <2> SUFFICES ASSUME ~overlap
               PROVE  Blurred'
    BY <1>1 DEF Blurred
  <2>1. /\ pc' = pc /\ pc # "submit" /\ pc # "download"
        /\ pc' = "composite" => buf'["blur"] = run'
        /\ pc' = "wait" => buf'["mapRgb"] = run' /\ buf'["mapAlpha"] = run'
    BY <1>1 DEF DispatchBegins, DispatchEnds, IInv, Blurred, Done, Buffers
  <2>2. CASE pc = "wait" /\ DispatchBegins
    <3>1. Queued /\ buf["mapRgb"] = run /\ buf["mapAlpha"] = run
      BY <2>2 DEF DispatchBegins, IInv, Blurred, Queued, Executing, Done
    <3>2. exec' = Of({run})
      BY <2>2, <3>1 DEF DispatchBegins
    <3>3. Executing'
      BY <1>1, <2>2, <3>1, <3>2, OfOne, Numbers DEF DispatchBegins, IInv, Executing, Queued
    <3> QED  BY <1>1, <2>1, <2>2, <3>3 DEF Blurred
  <2>3. CASE pc = "wait" /\ DispatchEnds
    <3>1. Executing
      BY <2>3 DEF DispatchEnds, IInv, Blurred, Queued, Executing, Done
    <3>2. Done' /\ fence'
      BY <1>1, <2>3, <3>1 DEF DispatchEnds, Set, Executing, Done, IInv, TypeOK, Buffers
    <3> QED  BY <1>1, <2>1, <2>3, <3>2 DEF Blurred
  <2> QED  BY <2>1, <2>2, <2>3 DEF Blurred
<1> QED  BY <1>2, <1>3, <1>4, <1>5 DEF IInv

-----------------------------------------------------------------------------
(* The segmentation thread *)

\* The segmentation thread writes its two buffers only.
LEMMA SegKeeps ==
  ASSUME IInv, SegStep
  PROVE  IInv'
<1>1. /\ UNCHANGED <<conf, run, n, pc, mask, asked, bokeh, pending, exec, fence, overlap>>
      /\ segpc \in {"prep", "infer", "turn"} /\ segpc' \in {"infer", "turn", "ended"}
      /\ segOk' \in BOOLEAN /\ turned' \in BOOLEAN
      /\ buf' \in [Buffers -> Tags] /\ \A b \in Buffers \ {"rgb256", "maskBuf"} : buf'[b] = buf[b]
  <2>1. buf \in [Buffers -> Tags] /\ run \in Tags /\ Torn \in Tags /\ segOk \in BOOLEAN /\ turned \in BOOLEAN
    BY Numbers, PipelineAssumption DEF IInv, TypeOK, Tags, Torn
  <2>2. CASE Prep
    BY <2>1, <2>2 DEF Prep, Set, gpuVars, Buffers
  <2>3. CASE Turn
    BY <2>1, <2>3 DEF Turn, gpuVars, Buffers
  <2>4. ASSUME NEW ok \in BOOLEAN, Infer(ok)
        PROVE  /\ UNCHANGED <<conf, run, n, pc, mask, asked, bokeh, pending, exec, fence, overlap>>
               /\ segpc = "infer" /\ segpc' \in {"turn", "ended"}
               /\ segOk' \in BOOLEAN /\ turned' \in BOOLEAN
               /\ buf' \in [Buffers -> Tags] /\ \A b \in Buffers \ {"maskBuf"} : buf'[b] = buf[b]
    <3>1. PICK t \in Tags : buf' = [buf EXCEPT !["maskBuf"] = t]
      BY <2>1, <2>4 DEF Infer, Set, Buffers
    <3>2. segOk' \in BOOLEAN /\ turned' \in BOOLEAN
      BY <2>4 DEF Infer
    <3> QED  BY <2>1, <2>4, <3>1, <3>2 DEF Infer, gpuVars, Buffers
  <2> QED  BY <2>2, <2>3, <2>4 DEF SegStep
<1>2. TypeOK'
  <2>1. segpc' \in SegPC
    BY <1>1 DEF SegPC
  <2> QED  BY <1>1, <2>1 DEF IInv, TypeOK
<1>3. OneDispatch'
  BY <1>1 DEF IInv, OneDispatch
<1>4. Segmented'
  <2>1. asked' = "seg" <=> segpc' # "none"
    BY <1>1 DEF IInv, Segmented
  <2>2. CASE Prep
    BY <1>1, <2>1, <2>2 DEF Prep, Set, IInv, Segmented, TypeOK, Buffers
  <2>3. CASE Turn
    BY <1>1, <2>1, <2>3 DEF Turn, IInv, Segmented
  <2>4. CASE Infer(TRUE)
    BY <1>1, <2>1, <2>4 DEF Infer, Set, IInv, Segmented, TypeOK, Buffers
  <2>5. CASE Infer(FALSE)
    BY <1>1, <2>1, <2>5 DEF Infer, Segmented
  <2> QED  BY <2>2, <2>3, <2>4, <2>5 DEF SegStep
\* The caller is not past the join, which waits for this thread.
<1>5. pc \notin AfterJoin /\ ~Returned
  BY <1>1 DEF IInv, Staged, FreshOutput
<1>6. Staged'
  BY <1>1, <1>5 DEF IInv, Staged, Buffers, AfterJoin
<1>7. Blurred' /\ FreshOutput'
  BY <1>1, <1>5 DEF Blurred, FreshOutput, Returned, AfterJoin, AfterRefine
<1> QED  BY <1>2, <1>3, <1>4, <1>6, <1>7 DEF IInv

-----------------------------------------------------------------------------

\* Before the first run.
LEMMA InitIInv == Init => IInv
<1> SUFFICES ASSUME Init  PROVE IInv
  OBVIOUS
<1>1. /\ run = 0 /\ n = 0 /\ pc = "idle" /\ mask = "null" /\ asked = "none" /\ segpc = "none"
      /\ segOk = FALSE /\ turned = FALSE /\ bokeh = FALSE /\ buf = [b \in Buffers |-> 0]
      /\ pending = 0 /\ exec = NoDispatch /\ fence = FALSE /\ overlap = FALSE /\ conf \in Confs
  BY DEF Init
<1>2. TypeOK
  <2>1. /\ segOk \in BOOLEAN /\ turned \in BOOLEAN /\ bokeh \in BOOLEAN
        /\ fence \in BOOLEAN /\ overlap \in BOOLEAN
    BY <1>1
  <2>2. conf.max \in 1 .. 16
    BY <1>1, PipelineAssumption
  <2>3. run \in 0 .. MaxRuns /\ n \in 0 .. conf.max /\ pending \in 0 .. MaxRuns /\ buf \in [Buffers -> Tags]
    BY <1>1, <2>2, PipelineAssumption DEF Tags
  <2> QED  BY <1>1, <2>1, <2>3 DEF TypeOK, MainPC, SegPC
<1>3. OneDispatch /\ Segmented
  BY <1>1 DEF OneDispatch, Segmented, BeforeSubmit, BeforeJoin
<1>4. Staged /\ Blurred /\ FreshOutput
  BY <1>1 DEF Staged, Blurred, FreshOutput, Returned, AfterMerge, AfterFinish, AfterJoin,
     AfterRefine, BeforeJoin
<1> QED  BY <1>2, <1>3, <1>4 DEF IInv

\* Every step of the caller, the segmentation thread and the GPU.
LEMMA NextIInv == IInv /\ [Next]_vars => IInv'
<1> SUFFICES ASSUME IInv, [Next]_vars  PROVE IInv'
  OBVIOUS
<1>1. ASSUME NEW what \in {"mask", "seg", "none"}, NEW frames \in Frames, Run(what, frames)
      PROVE  IInv'
  BY <1>1, RunKeeps
<1>2. CASE Stage
  BY <1>2, EarlyKeeps, JoinKeeps, RefineKeeps, BlurKeeps, CompositeKeeps, UploadKeeps,
     SubmitKeeps, WaitKeeps DEF Stage, GpuRun
<1>3. CASE SegStep
  BY <1>3, SegKeeps
<1>4. CASE DispatchBegins \/ DispatchEnds
  BY <1>4, DispatchKeeps
<1>5. CASE UNCHANGED vars
  <2>1. UNCHANGED <<conf, run, n, pc, mask, asked, segpc, segOk, turned, buf, bokeh, pending, exec,
                    fence, overlap>>
    BY <1>5 DEF vars, segVars, gpuVars
  <2>2. TypeOK' /\ OneDispatch' /\ Segmented' /\ Staged'
    BY <2>1 DEF IInv, TypeOK, OneDispatch, Segmented, Staged, HasMask
  <2>3. Blurred' /\ FreshOutput'
    BY <2>1 DEF IInv, Blurred, FreshOutput, Returned, Queued, Executing, Done
  <2> QED  BY <2>2, <2>3 DEF IInv
<1> QED  BY <1>1, <1>2, <1>3, <1>4, <1>5 DEF Next

\* The strengthening is an invariant.
LEMMA Invariance == Spec => []IInv
BY InitIInv, NextIInv, PTL DEF Spec, Safety

\* Every variable of a Pipeline has its type; the GPU's queue never holds more
\* dispatches than there were runs.
THEOREM TypeCorrect == Spec => []TypeOK
<1>1. IInv => TypeOK
  BY DEF IInv
<1> QED  BY <1>1, Invariance, PTL

\* Pipeline::run: what it returns was computed from its own burst and mask alone,
\* and is blurred if and only if this run had a mask, whatever segmentation and GPU
\* do - unless a dispatch that an earlier run gave up was still about.
THEOREM FreshOutputHolds == Spec => []FreshOutput
<1>1. IInv => FreshOutput
  BY DEF IInv
<1> QED  BY <1>1, Invariance, PTL

-----------------------------------------------------------------------------
(* Induction, as a fact about sets of numbers, and the functions that it gives *)

\* A set of numbers that is not empty has a least one.
LEMMA LeastElement ==
  ASSUME NEW U \in SUBSET Nat, U # {}
  PROVE  \E x \in U : \A y \in U : x <= y
<1>1. PICK x \in U : \A y \in U : ~ (<<y, x>> \in OpToRel(<, Nat))
  BY NatLessThanWellFounded, WFMin
<1>2. ASSUME NEW y \in U PROVE ~(y < x)
  <2>1. <<y, x>> \in Nat \X Nat OBVIOUS
  <2> QED BY <1>1, <2>1 DEF OpToRel
<1> QED BY <1>2

\* A set of numbers with 0, and with each number's successor, has them all.
LEMMA Induction ==
  ASSUME NEW U \in SUBSET Nat, 0 \in U, \A m \in U : m + 1 \in U
  PROVE  U = Nat
<1> SUFFICES ASSUME Nat \ U # {} PROVE FALSE
  OBVIOUS
<1>1. PICK x \in Nat \ U : \A y \in Nat \ U : x <= y
  BY LeastElement
<1>2. x # 0 /\ x - 1 \in Nat /\ (x - 1) + 1 = x /\ ~(x <= x - 1)
  BY <1>1
<1>3. x - 1 \in U
  BY <1>1, <1>2
<1> QED  BY <1>1, <1>2, <1>3

\* f goes from each number up to m to the next by G.
Steps(m, f, S, a, G) ==
  /\ f \in [0 .. m -> S]
  /\ f[0] = a
  /\ \A k \in Nat : k < m => f[k + 1] = G[k][f[k]]

\* One step more.
LEMMA OneStepMore ==
  ASSUME NEW S, NEW a \in S, NEW G \in [Nat -> [S -> S]],
         NEW m \in Nat, NEW f, Steps(m, f, S, a, G)
  PROVE  \E g : Steps(m + 1, g, S, a, G)
<1> DEFINE last == G[m][f[m]]
           g == [k \in 0 .. m + 1 |-> IF k = m + 1 THEN last ELSE f[k]]
<1>1. f \in [0 .. m -> S] /\ f[0] = a /\ \A k \in Nat : k < m => f[k + 1] = G[k][f[k]]
  BY DEF Steps
<1>2. m \in 0 .. m /\ 0 \in 0 .. m
  OBVIOUS
<1>3. last \in S
  <2>1. f[m] \in S
    BY <1>1, <1>2
  <2>2. G[m] \in [S -> S]
    OBVIOUS
  <2> QED  BY <2>1, <2>2
<1> HIDE DEF last
<1>4. \A k \in 0 .. m : g[k] = f[k]
  <2> TAKE k \in 0 .. m
  <2>1. k \in 0 .. m + 1 /\ k # m + 1
    OBVIOUS
  <2> QED  BY <2>1
<1>5. g[m + 1] = last
  <2>1. m + 1 \in 0 .. m + 1
    OBVIOUS
  <2> QED  BY <2>1
<1>6. g \in [0 .. m + 1 -> S]
  <2>1. ASSUME NEW k \in 0 .. m + 1 PROVE (IF k = m + 1 THEN last ELSE f[k]) \in S
    <3>1. k = m + 1 \/ k \in 0 .. m
      OBVIOUS
    <3> QED  BY <1>1, <1>3, <3>1
  <2> QED  BY <2>1
<1> HIDE DEF g
<1>7. g[0] = a
  BY <1>1, <1>2, <1>4
<1>8. ASSUME NEW k \in Nat, k < m + 1 PROVE g[k + 1] = G[k][g[k]]
  <2>1. CASE k = m
    BY <1>2, <1>4, <1>5, <2>1 DEF last
  <2>2. CASE k < m
    <3>1. k \in 0 .. m /\ k + 1 \in 0 .. m
      BY <2>2
    <3>2. g[k] = f[k] /\ g[k + 1] = f[k + 1] /\ f[k + 1] = G[k][f[k]]
      BY <1>1, <1>4, <2>2, <3>1
    <3> QED  BY <3>2
  <2> QED  BY <1>8, <2>1, <2>2
<1> QED  BY <1>6, <1>7, <1>8 DEF Steps

\* There are functions that go as far as one likes,
LEMMA Finitely ==
  ASSUME NEW S, NEW a \in S, NEW G \in [Nat -> [S -> S]], NEW m \in Nat
  PROVE  \E f : Steps(m, f, S, a, G)
<1> DEFINE U == {k \in Nat : \E f : Steps(k, f, S, a, G)}
<1>1. 0 \in U
  <2> DEFINE f == [k \in 0 .. 0 |-> a]
  <2>1. f \in [0 .. 0 -> S] /\ f[0] = a /\ \A k \in Nat : ~(k < 0)
    OBVIOUS
  <2> HIDE DEF f
  <2>2. Steps(0, f, S, a, G)
    BY <2>1 DEF Steps
  <2> QED  BY <2>2
<1>2. \A k \in U : k + 1 \in U
  <2> SUFFICES ASSUME NEW k \in Nat, \E f : Steps(k, f, S, a, G)
               PROVE  \E f : Steps(k + 1, f, S, a, G)
    OBVIOUS
  <2>1. PICK f : Steps(k, f, S, a, G)
    OBVIOUS
  <2> QED  BY <2>1, OneStepMore
<1>3. U \in SUBSET Nat
  OBVIOUS
<1> HIDE DEF U
<1>4. U = Nat
  BY <1>1, <1>2, <1>3, Induction
<1> QED  BY <1>4 DEF U

\* and they agree as far as they go.
LEMMA OneWay ==
  ASSUME NEW S, NEW a \in S, NEW G \in [Nat -> [S -> S]],
         NEW m \in Nat, NEW f, Steps(m, f, S, a, G),
         NEW l \in Nat, NEW g, Steps(l, g, S, a, G), m <= l
  PROVE  f[m] = g[m]
<1> DEFINE V == {k \in Nat : k <= m => f[k] = g[k]}
<1>1. 0 \in V
  BY DEF Steps
<1>2. \A k \in V : k + 1 \in V
  <2> SUFFICES ASSUME NEW k \in Nat, k <= m => f[k] = g[k], k + 1 <= m
               PROVE  f[k + 1] = g[k + 1]
    OBVIOUS
  <2>1. k < m /\ k < l /\ k <= m
    OBVIOUS
  <2>2. f[k] = g[k] /\ f[k + 1] = G[k][f[k]] /\ g[k + 1] = G[k][g[k]]
    BY <2>1 DEF Steps
  <2> QED  BY <2>2
<1>3. V \in SUBSET Nat
  OBVIOUS
<1> HIDE DEF V
<1>4. m \in V
  BY <1>1, <1>2, <1>3, Induction
<1> QED  BY <1>4 DEF V

\* f goes from each number to the next by G, for ever.
Iterates(f, S, a, G) ==
  f \in [Nat -> S] /\ f[0] = a /\ \A k \in Nat : f[k + 1] = G[k][f[k]]

\* There is a function that does.
LEMMA Iterated ==
  ASSUME NEW S, NEW a \in S, NEW G \in [Nat -> [S -> S]]
  PROVE  \E f : Iterates(f, S, a, G)
<1> DEFINE To(m) == CHOOSE f : Steps(m, f, S, a, G)
           F == [m \in Nat |-> To(m)[m]]
<1>1. \A m \in Nat : Steps(m, To(m), S, a, G)
  BY Finitely
<1>2. \A m \in Nat : F[m] = To(m)[m]
  OBVIOUS
<1> HIDE DEF To
<1>3. F \in [Nat -> S]
  <2>1. ASSUME NEW m \in Nat PROVE To(m)[m] \in S
    <3>1. To(m) \in [0 .. m -> S] /\ m \in 0 .. m
      BY <1>1 DEF Steps
    <3> QED  BY <3>1
  <2> QED  BY <2>1
<1> HIDE DEF F
<1>4. F[0] = a
  BY <1>1, <1>2 DEF Steps
<1>5. ASSUME NEW k \in Nat PROVE F[k + 1] = G[k][F[k]]
  <2>1. k + 1 \in Nat /\ k < k + 1 /\ k <= k + 1
    OBVIOUS
  <2>2. Steps(k, To(k), S, a, G) /\ Steps(k + 1, To(k + 1), S, a, G)
    BY <1>1, <2>1
  <2>3. To(k)[k] = To(k + 1)[k]
    <3> QED  BY OneWay, <2>1, <2>2
  <2>4. To(k + 1)[k + 1] = G[k][To(k + 1)[k]]
    BY <2>1, <2>2 DEF Steps
  <2> QED  BY <1>2, <2>1, <2>3, <2>4
<1> QED  BY <1>3, <1>4, <1>5 DEF Iterates

-----------------------------------------------------------------------------
(* The pyramid, and allocations one after the other *)

\* Halved goes by halves from a side.
LEMMA Halving ==
  ASSUME NEW s \in Nat
  PROVE  /\ Halved(s) \in [Nat -> Nat] /\ Halved(s)[0] = s
         /\ \A k \in Nat : Halved(s)[k + 1] = Halved(s)[k] \div 2
<1> DEFINE G == [k \in Nat |-> [x \in Nat |-> x \div 2]]
<1>1. G \in [Nat -> [Nat -> Nat]] /\ \A k, x \in Nat : G[k][x] = x \div 2
  <2>1. \A x \in Nat : x \div 2 \in Nat
    OBVIOUS
  <2> QED  BY <2>1
<1> HIDE DEF G
<1>2. PICK f \in [Nat -> Nat] : f[0] = s /\ \A k \in Nat : f[k + 1] = G[k][f[k]]
  <2>1. \E f : Iterates(f, Nat, s, G)
    BY <1>1, Iterated
  <2> QED  BY <2>1 DEF Iterates
<1>3. f = [k \in Nat |-> IF k = 0 THEN s ELSE f[k - 1] \div 2]
  <2>1. ASSUME NEW k \in Nat, k # 0 PROVE f[k] = f[k - 1] \div 2
    <3>1. k - 1 \in Nat /\ (k - 1) + 1 = k
      BY <2>1
    <3>2. f[k - 1] \in Nat /\ f[(k - 1) + 1] = G[k - 1][f[k - 1]]
      BY <1>2, <3>1
    <3> QED  BY <1>1, <3>1, <3>2
  <2> QED  BY <1>2, <2>1
<1> DEFINE half == CHOOSE h : h = [k \in Nat |-> IF k = 0 THEN s ELSE h[k - 1] \div 2]
<1>4. half = [k \in Nat |-> IF k = 0 THEN s ELSE half[k - 1] \div 2]
  BY <1>3
<1>5. Halved(s) = half
  BY DEF Halved
<1> HIDE DEF half
<1>6. half[0] = s /\ \A k \in Nat : half[k + 1] = half[k] \div 2
  <2>1. half[0] = s
    BY <1>4
  <2>2. ASSUME NEW k \in Nat PROVE half[k + 1] = half[k] \div 2
    <3>1. k + 1 \in Nat /\ k + 1 # 0 /\ (k + 1) - 1 = k
      OBVIOUS
    <3> QED  BY <1>4, <3>1
  <2> QED  BY <2>1, <2>2
<1>7. half = f
  <2> DEFINE V == {k \in Nat : half[k] = f[k]}
  <2>1. 0 \in V
    BY <1>2, <1>6
  <2>2. \A k \in V : k + 1 \in V
    <3> SUFFICES ASSUME NEW k \in Nat, half[k] = f[k] PROVE half[k + 1] = f[k + 1]
      OBVIOUS
    <3>1. f[k + 1] = f[k] \div 2
      <4>1. f[k] \in Nat
        BY <1>2
      <4> QED  BY <1>1, <1>2, <4>1
    <3> QED  BY <1>6, <3>1
  <2>3. V \in SUBSET Nat
    OBVIOUS
  <2> HIDE DEF V
  <2>4. V = Nat
    BY <2>1, <2>2, <2>3, Induction
  <2>5. \A k \in Nat : half[k] = f[k]
    BY <2>4 DEF V
  <2> QED  BY <1>3, <1>4, <2>5
<1> QED  BY <1>2, <1>5, <1>6, <1>7

\* Rounding up to a cache line.
LEMMA Rounding ==
  ASSUME NEW x \in Nat
  PROVE  64 * ((x + 63) \div 64) \in Nat /\ 64 * ((x + 63) \div 64) <= x + 63
<1> DEFINE q == (x + 63) \div 64
<1>1. q \in Nat /\ 64 * q <= x + 63
  OBVIOUS
<1> HIDE DEF q
<1>2. 64 * q \in Nat /\ 64 * q <= x + 63
  BY <1>1
<1> QED  BY <1>2 DEF q

\* Used goes from each image to the next, from a cache line.
LEMMA Using ==
  ASSUME NEW from \in Nat, NEW images \in Seq(Nat)
  PROVE  /\ \A k \in 0 .. Len(images) : Used(from, images)[k] \in Nat
         /\ Used(from, images)[0] = from
         /\ \A k \in 0 .. Len(images) - 1 :
              Used(from, images)[k + 1] = 64 * ((Used(from, images)[k] + 63) \div 64) + images[k + 1]
<1> DEFINE N == Len(images)
           Bytes(k) == IF k \in 0 .. N - 1 THEN images[k + 1] ELSE 0
           G == [k \in Nat |-> [x \in Nat |-> 64 * ((x + 63) \div 64) + Bytes(k)]]
<1>0. N \in Nat /\ DOMAIN images = 1 .. N
  OBVIOUS
<1>1. \A k \in Nat : Bytes(k) \in Nat
  <2> SUFFICES ASSUME NEW k \in 0 .. N - 1 PROVE images[k + 1] \in Nat
    OBVIOUS
  <2>1. k + 1 \in 1 .. N
    BY <1>0
  <2> QED  BY <2>1
<1>2. \A k \in 0 .. N - 1 : Bytes(k) = images[k + 1]
  OBVIOUS
<1> HIDE DEF N, Bytes
<1>3. G \in [Nat -> [Nat -> Nat]] /\ \A k, x \in Nat : G[k][x] = 64 * ((x + 63) \div 64) + Bytes(k)
  <2>1. ASSUME NEW k \in Nat, NEW x \in Nat PROVE 64 * ((x + 63) \div 64) + Bytes(k) \in Nat
    <3> DEFINE y == 64 * ((x + 63) \div 64)
    <3>1. y \in Nat
      BY Rounding
    <3> HIDE DEF y
    <3>2. y + Bytes(k) \in Nat
      BY <1>1, <3>1
    <3> QED  BY <3>2 DEF y
  <2> DEFINE V(k, x) == 64 * ((x + 63) \div 64) + Bytes(k)
  <2>2. \A k, x \in Nat : V(k, x) \in Nat
    BY <2>1
  <2> HIDE DEF V
  <2>3. [k \in Nat |-> [x \in Nat |-> V(k, x)]] \in [Nat -> [Nat -> Nat]]
    BY <2>2
  <2>4. G = [k \in Nat |-> [x \in Nat |-> V(k, x)]]
    BY DEF V
  <2> QED  BY <2>3, <2>4 DEF V
<1> HIDE DEF G
<1>4. PICK f : Iterates(f, Nat, from, G)
  BY <1>3, Iterated
<1>5. f \in [Nat -> Nat] /\ f[0] = from /\ \A k \in Nat : f[k + 1] = G[k][f[k]]
  BY <1>4 DEF Iterates
<1>6. \A k \in 0 .. N - 1 : f[k + 1] = 64 * ((f[k] + 63) \div 64) + images[k + 1]
  <2> TAKE k \in 0 .. N - 1
  <2>1. k \in Nat /\ f[k] \in Nat
    BY <1>0, <1>5
  <2>2. f[k + 1] = G[k][f[k]]
    BY <1>5, <2>1
  <2>3. G[k][f[k]] = 64 * ((f[k] + 63) \div 64) + Bytes(k)
    BY <1>3, <2>1
  <2>4. Bytes(k) = images[k + 1]
    BY <1>2
  <2> QED  BY <2>2, <2>3, <2>4
<1> DEFINE g == [k \in 0 .. N |-> f[k]]
           After(h, k) == IF k = 0 THEN from ELSE 64 * ((h[k - 1] + 63) \div 64) + images[k]
           upTo == CHOOSE h : h = [k \in 0 .. N |-> After(h, k)]
<1>7. g = [k \in 0 .. N |-> After(g, k)]
  <2>1. ASSUME NEW k \in 0 .. N PROVE f[k] = After(g, k)
    <3>1. CASE k = 0
      BY <1>5, <3>1
    <3>2. CASE k # 0
      <4>1. k - 1 \in 0 .. N - 1 /\ k - 1 \in 0 .. N /\ (k - 1) + 1 = k
        BY <1>0, <3>2
      <4>2. g[k - 1] = f[k - 1]
        BY <4>1
      <4>3. f[(k - 1) + 1] = 64 * ((f[k - 1] + 63) \div 64) + images[(k - 1) + 1]
        BY <1>6, <4>1
      <4> QED  BY <3>2, <4>1, <4>2, <4>3
    <3> QED  BY <3>1, <3>2
  <2> HIDE DEF After
  <2> QED  BY <2>1
<1>8. upTo = [k \in 0 .. N |-> After(upTo, k)]
  <2> HIDE DEF g, After
  <2> QED  BY <1>7
<1>9. Used(from, images) = upTo
  BY DEF Used, N
<1> HIDE DEF upTo
<1>10. upTo[0] = from
  <2>1. 0 \in 0 .. N
    BY <1>0
  <2> QED  BY <1>8, <2>1
<1>11. \A k \in 0 .. N - 1 : upTo[k + 1] = 64 * ((upTo[k] + 63) \div 64) + images[k + 1]
  <2> TAKE k \in 0 .. N - 1
  <2>1. k + 1 \in 0 .. N /\ k + 1 # 0 /\ (k + 1) - 1 = k
    BY <1>0
  <2>2. upTo[k + 1] = After(upTo, k + 1)
    <3> HIDE DEF After
    <3> QED  BY <1>8, <2>1
  <2> QED  BY <2>1, <2>2
<1> HIDE DEF After
<1>12. \A k \in 0 .. N : upTo[k] = f[k]
  <2> DEFINE U == {k \in Nat : k <= N => upTo[k] = f[k]}
  <2>1. 0 \in U
    BY <1>5, <1>10
  <2>2. \A k \in U : k + 1 \in U
    <3> SUFFICES ASSUME NEW k \in Nat, k <= N => upTo[k] = f[k], k + 1 <= N
                 PROVE  upTo[k + 1] = f[k + 1]
      OBVIOUS
    <3>1. k \in 0 .. N - 1 /\ k <= N
      BY <1>0
    <3> QED  BY <1>6, <1>11, <3>1
  <2>3. U \in SUBSET Nat
    OBVIOUS
  <2> HIDE DEF U
  <2>4. U = Nat
    BY <2>1, <2>2, <2>3, Induction
  <2>5. \A k \in 0 .. N : k \in Nat /\ k <= N
    BY <1>0
  <2> QED  BY <2>4, <2>5 DEF U
<1>13. \A k \in 0 .. N : upTo[k] \in Nat
  <2>1. \A k \in 0 .. N : k \in Nat
    BY <1>0
  <2> QED  BY <1>5, <1>12, <2>1
<1> QED  BY <1>9, <1>10, <1>11, <1>13 DEF N

\* What is in use after the images, or `scale` times as much, is no more than a p that
\* grows by each image and the most that rounding adds.
LEMMA Below ==
  ASSUME NEW from \in Nat, NEW images \in Seq(Nat), NEW scale \in Nat,
         NEW p, \A k \in 0 .. Len(images) : p[k] \in Nat,
         scale * from <= p[0],
         \A k \in 0 .. Len(images) - 1 : p[k] + scale * (63 + images[k + 1]) <= p[k + 1]
  PROVE  Alloc(from, images) \in Nat /\ scale * Alloc(from, images) <= p[Len(images)]
<1> DEFINE N == Len(images)
           upTo == Used(from, images)
           U == {k \in Nat : k <= N => scale * upTo[k] <= p[k]}
<1>0. N \in Nat /\ DOMAIN images = 1 .. N
  OBVIOUS
<1>1. /\ \A k \in 0 .. N : upTo[k] \in Nat
      /\ upTo[0] = from
      /\ \A k \in 0 .. N - 1 : upTo[k + 1] = 64 * ((upTo[k] + 63) \div 64) + images[k + 1]
  BY Using
<1>2. 0 \in U
  BY <1>1
<1>3. \A k \in U : k + 1 \in U
  <2> SUFFICES ASSUME NEW k \in Nat, k <= N => scale * upTo[k] <= p[k], k + 1 <= N
               PROVE  scale * upTo[k + 1] <= p[k + 1]
    OBVIOUS
  <2>1. k \in 0 .. N - 1 /\ k \in 0 .. N /\ k + 1 \in 0 .. N /\ k + 1 \in 1 .. N /\ k <= N
    BY <1>0
  <2>2. PICK u \in Nat : u = upTo[k]
    BY <1>1, <2>1
  <2>3. PICK v \in Nat : v = upTo[k + 1]
    BY <1>1, <2>1
  <2>4. PICK b \in Nat : b = images[k + 1]
    BY <1>0, <2>1
  <2>5. v <= u + 63 + b
    <3>1. v = 64 * ((u + 63) \div 64) + b
      BY <1>1, <2>1, <2>2, <2>3, <2>4
    <3>2. PICK y : y = 64 * ((u + 63) \div 64)
      OBVIOUS
    <3>3. y \in Nat /\ y <= u + 63
      BY <3>2, Rounding
    <3> QED  BY <3>1, <3>2, <3>3
  <2>6. scale * v <= scale * u + scale * (63 + b)
    <3>1. PICK d \in Nat : d = u + 63 + b - v
      BY <2>5
    <3>2. scale * d \in Nat
      OBVIOUS
    <3>3. scale * u + scale * (63 + b) = scale * v + scale * d
      <4>1. u + (63 + b) = v + d
        BY <3>1
      <4>2. scale * u + scale * (63 + b) = scale * (u + (63 + b))
        OBVIOUS
      <4>3. scale * v + scale * d = scale * (v + d)
        OBVIOUS
      <4> QED  BY <4>1, <4>2, <4>3
    <3>4. scale * v \in Nat /\ scale * u \in Nat /\ scale * (63 + b) \in Nat
      OBVIOUS
    <3> QED  BY <3>2, <3>3, <3>4
  <2>7. scale * u <= p[k] /\ p[k] + scale * (63 + b) <= p[k + 1] /\ p[k] \in Nat /\ p[k + 1] \in Nat
    BY <2>1, <2>2, <2>4
  <2>8. \A x, y, z, q, r \in Nat : x <= y + z /\ y <= q /\ q + z <= r => x <= r
    OBVIOUS
  <2>9. scale * v <= p[k + 1]
    <3>1. scale * v \in Nat /\ scale * u \in Nat /\ scale * (63 + b) \in Nat
      OBVIOUS
    <3> DEFINE x == scale * v
               y == scale * u
               z == scale * (63 + b)
    <3>2. x \in Nat /\ y \in Nat /\ z \in Nat /\ x <= y + z /\ y <= p[k] /\ p[k] + z <= p[k + 1]
      BY <2>6, <2>7, <3>1
    <3> HIDE DEF x, y, z
    <3>3. x <= p[k + 1]
      BY <2>7, <2>8, <3>2
    <3> QED  BY <3>3 DEF x
  <2> QED  BY <2>3, <2>9
<1>4. U \in SUBSET Nat
  OBVIOUS
<1> HIDE DEF U
<1>5. U = Nat
  BY <1>2, <1>3, <1>4, Induction
<1>6. Alloc(from, images) = upTo[N]
  BY DEF Alloc
<1>7. N \in 0 .. N
  BY <1>0
<1>8. scale * upTo[N] <= p[N]
  <2> HIDE DEF N, upTo
  <2> QED  BY <1>0, <1>5 DEF U
<1> QED  BY <1>1, <1>6, <1>7, <1>8

\* The product of greater numbers is greater.
LEMMA Products ==
  ASSUME NEW x \in Nat, NEW y \in Nat, NEW p \in Nat, NEW q \in Nat, p <= x, q <= y
  PROVE  p * q \in Nat /\ x * y \in Nat /\ p * q <= x * y
<1>1. PICK d \in Nat : x = p + d
  <2>1. x - p \in Nat /\ x = p + (x - p)
    OBVIOUS
  <2> QED  BY <2>1
<1>2. PICK e \in Nat : y = q + e
  <2>1. y - q \in Nat /\ y = q + (y - q)
    OBVIOUS
  <2> QED  BY <2>1
<1>3. p * q \in Nat /\ p * e \in Nat /\ d * y \in Nat
  OBVIOUS
<1>4. x * y = p * y + d * y /\ p * y = p * q + p * e
  BY <1>1, <1>2
<1> QED  BY <1>3, <1>4

\* The side of a level, twice, is no more than that of the level below it.
LEMMA Sides ==
  ASSUME NEW s \in Nat, NEW k \in Nat
  PROVE  Halved(s)[k] \in Nat /\ 2 * Halved(s)[k + 1] <= Halved(s)[k]
<1>1. Halved(s)[k] \in Nat /\ Halved(s)[k + 1] = Halved(s)[k] \div 2
  BY Halving
<1>2. \A x \in Nat : 2 * (x \div 2) <= x
  OBVIOUS
<1> QED  BY <1>1, <1>2

\* A level is no more than a quarter of the one below it, and the gray frame no more
\* than half of the burst's.
LEMMA Levels ==
  ASSUME W \in Nat, H \in Nat
  PROVE  /\ \A l \in Nat : Level(l) \in Nat /\ 4 * Level(l + 1) <= Level(l)
         /\ Level(0) <= 2 * ((W * H) \div 4)
<1>1. ASSUME NEW l \in Nat PROVE Level(l) \in Nat /\ 4 * Level(l + 1) <= Level(l)
  <2> DEFINE x == Halved(W)[l + 1]
             y == Halved(H)[l + 1]
             p == Halved(W)[(l + 1) + 1]
             q == Halved(H)[(l + 1) + 1]
  <2>1. x \in Nat /\ y \in Nat /\ p \in Nat /\ q \in Nat /\ 2 * p <= x /\ 2 * q <= y
    <3>1. l + 1 \in Nat /\ (l + 1) + 1 \in Nat
      OBVIOUS
    <3> QED  BY <3>1, Sides
  <2>2. Level(l) = 2 * x * y /\ Level(l + 1) = 2 * p * q
    BY DEF Level
  <2> HIDE DEF x, y, p, q
  <2>3. (2 * p) * (2 * q) <= x * y /\ x * y \in Nat
    <3>1. 2 * p \in Nat /\ 2 * q \in Nat
      BY <2>1
    <3> QED  BY <2>1, <3>1, Products
  <2>4. p * q \in Nat /\ (2 * p) * (2 * q) = 4 * (p * q) /\ 2 * x * y = 2 * (x * y) /\ 2 * p * q = 2 * (p * q)
    BY <2>1
  <2> DEFINE u == x * y
             v == p * q
  <2>5. u \in Nat /\ v \in Nat /\ 4 * v <= u /\ 2 * x * y = 2 * u /\ 2 * p * q = 2 * v
    BY <2>3, <2>4
  <2> HIDE DEF u, v
  <2> QED  BY <2>2, <2>5
<1>2. Level(0) <= 2 * ((W * H) \div 4)
  <2> DEFINE p == Halved(W)[0 + 1]
             q == Halved(H)[0 + 1]
  <2>1. p \in Nat /\ q \in Nat /\ 2 * p <= W /\ 2 * q <= H
    <3>1. Halved(W)[0] = W /\ Halved(H)[0] = H
      BY Halving
    <3>2. 0 \in Nat /\ 0 + 1 \in Nat
      OBVIOUS
    <3> QED  BY <3>1, <3>2, Sides
  <2>2. Level(0) = 2 * p * q
    BY DEF Level
  <2> HIDE DEF p, q
  <2>3. (2 * p) * (2 * q) <= W * H /\ W * H \in Nat
    <3>1. 2 * p \in Nat /\ 2 * q \in Nat
      BY <2>1
    <3> QED  BY <2>1, <3>1, Products
  <2>4. p * q \in Nat /\ (2 * p) * (2 * q) = 4 * (p * q) /\ 2 * p * q = 2 * (p * q)
    BY <2>1
  <2>5. \A u, v \in Nat : 4 * v <= u => 2 * v <= 2 * (u \div 4)
    OBVIOUS
  <2>6. 4 * (p * q) <= W * H
    BY <2>3, <2>4
  <2>7. 2 * (p * q) <= 2 * ((W * H) \div 4)
    BY <2>3, <2>4, <2>5, <2>6
  <2> QED  BY <2>2, <2>4, <2>7
<1> QED  BY <1>1, <1>2

\* A gray frame and its pyramid are no more than eight images.
LEMMA Depths ==
  ASSUME NLevels \in 1 .. 8
  PROVE  Depth \in 0 .. 7
<1> DEFINE K == {k \in 1 .. NLevels - 1 : LevelExists(k)}
<1>1. K \subseteq 1 .. 7
  OBVIOUS
<1> HIDE DEF K
<1>2. IsFiniteSet(1 .. 7) /\ Cardinality(1 .. 7) = 7
  <2>1. IsFiniteSet(1 .. 7) /\ Cardinality(1 .. 7) = IF 1 > 7 THEN 0 ELSE 7 - 1 + 1
    <3>1. 1 \in Int /\ 7 \in Int
      OBVIOUS
    <3> QED  BY <3>1, FS_Interval, Zenon
  <2> QED  BY <2>1
<1>3. IsFiniteSet(K) /\ Cardinality(K) <= 7
  BY <1>1, <1>2, FS_Subset
<1>4. Cardinality(K) \in Nat
  BY <1>3, FS_CardinalityType
<1>5. Depth = Cardinality(K)
  BY DEF Depth, K
<1> QED  BY <1>3, <1>4, <1>5

\* A number is its quotient and its remainder.
LEMMA Divided ==
  ASSUME NEW m \in Nat, NEW d \in Nat \ {0}
  PROVE  m = (m \div d) * d + (m % d) /\ m % d \in 0 .. d - 1 /\ m \div d \in Nat
<1>1. m = (m \div d) * d + (m % d) /\ m % d \in 0 .. d - 1 /\ m \div d \in Int
  BY SMTT(30)
<1>2. m \div d >= 0
  BY SMTT(30)
<1> QED  BY <1>1, <1>2

\* Multiplied and divided by d.
LEMMA Quotient ==
  ASSUME NEW q \in Nat, NEW d \in Nat \ {0}, NEW r \in 0 .. d - 1
  PROVE  (q * d + r) \div d = q /\ (q * d + r) % d = r
  BY SMTT(30)

\* Division by d: from a number to the next the remainder grows by one, or it is 0 and
\* the quotient grows by one.
LEMMA OneFurther ==
  ASSUME NEW d \in Nat \ {0}, NEW m \in Nat
  PROVE  \/ /\ (m % d) + 1 < d
            /\ (m + 1) \div d = m \div d /\ (m + 1) % d = (m % d) + 1
         \/ /\ (m % d) + 1 = d
            /\ (m + 1) \div d = m \div d + 1 /\ (m + 1) % d = 0
<1> DEFINE q == m \div d
           r == m % d
<1>1. q \in Nat /\ r \in 0 .. d - 1 /\ m = q * d + r
  BY Divided
<1> HIDE DEF q, r
<1>2. CASE r + 1 < d
  <2>1. r + 1 \in 0 .. d - 1
    BY <1>1, <1>2
  <2>2. m + 1 = q * d + (r + 1)
    BY <1>1
  <2>3. (m + 1) \div d = q /\ (m + 1) % d = r + 1
    BY <1>1, <2>1, <2>2, Quotient
  <2> QED  BY <1>2, <2>3 DEF q, r
<1>3. CASE r + 1 = d
  <2>1. 0 \in 0 .. d - 1 /\ q + 1 \in Nat
    BY <1>1
  <2>2. m + 1 = (q + 1) * d + 0
    BY <1>1, <1>3
  <2>3. (m + 1) \div d = q + 1 /\ (m + 1) % d = 0
    BY <1>1, <2>1, <2>2, Quotient
  <2> QED  BY <1>3, <2>3 DEF q, r
<1>4. r + 1 < d \/ r + 1 = d
  BY <1>1
<1> QED  BY <1>2, <1>3, <1>4

\* The gray frames and their pyramids take four thirds of the gray frames, and what
\* rounding adds.
LEMMA GrayFits ==
  ASSUME W \in Nat, H \in Nat, n \in Nat, NLevels \in 1 .. 8
  PROVE  /\ Alloc(0, GrayImages) \in Nat
         /\ 3 * Alloc(0, GrayImages) <= 1512 * n + 4 * (n * Level(0))
<1> DEFINE D == Depth
           L == [l \in Nat |-> Level(l)]
           M == n * (1 + D)
           q(i) == (i - n) \div D
           r(i) == (i - n) % D
           p == [i \in 0 .. M |->
                   IF i <= n THEN 189 * i + 3 * (i * L[0])
                   ELSE 189 * i + 3 * (n * L[0]) + q(i) * L[0] + (L[0] - L[r(i)])]
<1>1. D \in 0 .. 7
  BY Depths
<1>2. L \in [Nat -> Nat] /\ \A l \in Nat : L[l] = Level(l) /\ 4 * L[l + 1] <= L[l]
  BY Levels
<1>3. M \in Nat /\ n <= M /\ (D = 0 => M = n) /\ M = n + n * D
  <2>1. n * D \in Nat /\ n * (1 + D) = n + n * D /\ n * 0 = 0
    BY <1>1
  <2> QED  BY <2>1
<1> HIDE DEF D, L
<1>4. \A l \in Nat : L[l] <= L[0]
  <2> DEFINE U == {l \in Nat : L[l] <= L[0]}
  <2>1. 0 \in U
    BY <1>2
  <2>2. \A l \in U : l + 1 \in U
    <3> SUFFICES ASSUME NEW l \in Nat, L[l] <= L[0] PROVE L[l + 1] <= L[0]
      OBVIOUS
    <3>1. L[l + 1] \in Nat /\ L[l] \in Nat /\ L[0] \in Nat /\ 4 * L[l + 1] <= L[l]
      BY <1>2
    <3> QED  BY <3>1
  <2>3. U \in SUBSET Nat
    OBVIOUS
  <2> HIDE DEF U
  <2>4. U = Nat
    BY <2>1, <2>2, <2>3, Induction
  <2> QED  BY <2>4 DEF U
<1>5. /\ GrayImages \in Seq(Nat) /\ Len(GrayImages) = M
      /\ \A i \in 1 .. M : GrayImages[i] = IF i <= n THEN L[0] ELSE L[((i - n - 1) % D) + 1]
  <2> DEFINE image(i) == IF i <= n THEN Level(0) ELSE Level(((i - n - 1) % D) + 1)
  <2>1. \A i \in 1 .. M : image(i) = IF i <= n THEN L[0] ELSE L[((i - n - 1) % D) + 1]
    <3> TAKE i \in 1 .. M
    <3>1. CASE i <= n
      BY <1>2, <3>1
    <3>2. CASE i > n
      <4>1. D \in Nat \ {0} /\ i - n - 1 \in Nat
        BY <1>1, <1>3, <3>2
      <4>2. (i - n - 1) % D \in 0 .. D - 1
        BY <4>1, Divided
      <4>3. ((i - n - 1) % D) + 1 \in Nat
        BY <1>1, <4>2
      <4> QED  BY <1>2, <3>2, <4>3
    <3> QED  BY <3>1, <3>2
  <2>2. \A i \in 1 .. M : image(i) \in Nat
    <3> TAKE i \in 1 .. M
    <3>1. CASE i <= n
      BY <1>2, <2>1, <3>1
    <3>2. CASE i > n
      <4>1. D \in Nat \ {0} /\ i - n - 1 \in Nat
        BY <1>1, <1>3, <3>2
      <4>2. (i - n - 1) % D \in 0 .. D - 1
        BY <4>1, Divided
      <4>3. ((i - n - 1) % D) + 1 \in Nat
        BY <1>1, <4>2
      <4> QED  BY <1>2, <2>1, <3>2, <4>3
    <3> QED  BY <3>1, <3>2
  <2>3. GrayImages = [i \in 1 .. M |-> image(i)]
    BY DEF GrayImages, D
  <2> HIDE DEF image, M
  <2>4. [i \in 1 .. M |-> image(i)] \in Seq(Nat) /\ Len([i \in 1 .. M |-> image(i)]) = M
    BY <1>3, <2>2
  <2> QED  BY <2>1, <2>3, <2>4
<1> HIDE DEF M
<1>6. ASSUME NEW i \in 0 .. M, i >= n, D > 0
      PROVE  q(i) \in Nat /\ r(i) \in 0 .. D - 1 /\ r(i) \in Nat
             /\ p[i] = 189 * i + 3 * (n * L[0]) + q(i) * L[0] + (L[0] - L[r(i)])
  <2>1. i - n \in Nat /\ D \in Nat \ {0}
    BY <1>1, <1>6
  <2>2. q(i) \in Nat /\ r(i) \in 0 .. D - 1
    BY <2>1, Divided
  <2>3. CASE i > n
    BY <2>2, <2>3
  <2>4. CASE i = n
    <3>1. q(i) = 0 /\ r(i) = 0
      <4>1. 0 \in 0 .. D - 1 /\ 0 * D + 0 = i - n
        BY <2>1, <2>4
      <4>2. (0 * D + 0) \div D = 0 /\ (0 * D + 0) % D = 0
        BY <2>1, <4>1, Quotient
      <4> QED  BY <4>1, <4>2
    <3>2. L[0] \in Nat
      BY <1>2
    <3>3. p[i] = 189 * i + 3 * (n * L[0])
      BY <2>4
    <3> HIDE DEF p, q, r
    <3>4. n * L[0] \in Nat /\ 0 * L[0] = 0
      BY <3>2
    <3> QED  BY <2>2, <2>4, <3>1, <3>2, <3>3, <3>4
  <2> QED  BY <1>6, <2>2, <2>3, <2>4
<1>7. \A i \in 0 .. M : p[i] \in Nat
  <2> TAKE i \in 0 .. M
  <2>1. CASE i <= n
    <3>1. i * L[0] \in Nat /\ p[i] = 189 * i + 3 * (i * L[0])
      BY <1>2, <2>1
    <3> HIDE DEF p
    <3> QED  BY <3>1
  <2>2. CASE i > n
    <3>1. D > 0
      BY <1>1, <1>3, <2>2
    <3>2. q(i) \in Nat /\ r(i) \in Nat /\ p[i] = 189 * i + 3 * (n * L[0]) + q(i) * L[0] + (L[0] - L[r(i)])
      BY <1>6, <2>2, <3>1
    <3> HIDE DEF p, q, r
    <3>3. L[0] \in Nat /\ n * L[0] \in Nat /\ q(i) * L[0] \in Nat /\ L[0] - L[r(i)] \in Nat
      BY <1>2, <1>4, <3>2
    <3> QED  BY <3>2, <3>3
  <2> QED  BY <2>1, <2>2
<1>8. ASSUME NEW i \in 0 .. M - 1 PROVE p[i] + 3 * (63 + GrayImages[i + 1]) <= p[i + 1]
  <2>1. i + 1 \in 1 .. M /\ i + 1 \in 0 .. M /\ i \in 0 .. M
    BY <1>3
  <2>2. CASE i < n
    <3>1. GrayImages[i + 1] = L[0]
      BY <1>5, <2>1, <2>2
    <3>2. p[i] = 189 * i + 3 * (i * L[0]) /\ p[i + 1] = 189 * (i + 1) + 3 * ((i + 1) * L[0])
      BY <2>1, <2>2
    <3> HIDE DEF p
    <3>3. L[0] \in Nat /\ i * L[0] \in Nat /\ (i + 1) * L[0] = i * L[0] + L[0]
      BY <1>2
    <3> QED  BY <3>1, <3>2, <3>3
  <2>3. CASE i >= n
    <3>1. D > 0 /\ D \in Nat \ {0} /\ i - n \in Nat
      BY <1>1, <1>3, <2>3
    <3>2. GrayImages[i + 1] = L[r(i) + 1]
      <4>1. ~(i + 1 <= n) /\ (i + 1) - n - 1 = i - n
        BY <2>3
      <4> QED  BY <1>5, <2>1, <4>1
    <3>3. /\ q(i) \in Nat /\ r(i) \in Nat /\ q(i + 1) \in Nat /\ r(i + 1) \in Nat
          /\ p[i] = 189 * i + 3 * (n * L[0]) + q(i) * L[0] + (L[0] - L[r(i)])
          /\ p[i + 1] = 189 * (i + 1) + 3 * (n * L[0]) + q(i + 1) * L[0] + (L[0] - L[r(i + 1)])
      BY <1>6, <2>1, <2>3, <3>1
    <3>4. \/ q(i + 1) = q(i) /\ r(i + 1) = r(i) + 1
          \/ q(i + 1) = q(i) + 1 /\ r(i + 1) = 0
      <4>1. (i - n) + 1 = (i + 1) - n
        OBVIOUS
      <4>2. q(i + 1) = ((i - n) + 1) \div D /\ r(i + 1) = ((i - n) + 1) % D
        BY <4>1, Zenon
      <4>3. \/ ((i - n) + 1) \div D = (i - n) \div D /\ ((i - n) + 1) % D = ((i - n) % D) + 1
            \/ ((i - n) + 1) \div D = (i - n) \div D + 1 /\ ((i - n) + 1) % D = 0
        BY <3>1, OneFurther
      <4> QED  BY <4>2, <4>3, Zenon
    <3> HIDE DEF p, q, r
    <3>5. /\ L[0] \in Nat /\ L[r(i)] \in Nat /\ L[r(i) + 1] \in Nat /\ L[r(i + 1)] \in Nat
          /\ 4 * L[r(i) + 1] <= L[r(i)]
      BY <1>2, <3>3
    <3>6. n * L[0] \in Nat /\ q(i) * L[0] \in Nat /\ (q(i) + 1) * L[0] = q(i) * L[0] + L[0]
      BY <3>3, <3>5
    <3>7. CASE q(i + 1) = q(i) /\ r(i + 1) = r(i) + 1
      BY <3>2, <3>3, <3>5, <3>6, <3>7
    <3>8. CASE q(i + 1) = q(i) + 1 /\ r(i + 1) = 0
      BY <3>2, <3>3, <3>5, <3>6, <3>8
    <3> QED  BY <3>4, <3>7, <3>8
  <2> QED  BY <2>2, <2>3
<1>9. p[M] <= 1512 * n + 4 * (n * L[0])
  <2>1. M \in 0 .. M
    BY <1>3
  <2>2. L[0] \in Nat /\ n * L[0] \in Nat
    BY <1>2
  <2>3. CASE D = 0
    <3>1. p[M] = 189 * n + 3 * (n * L[0])
      BY <1>3, <2>1, <2>3
    <3> HIDE DEF p
    <3> QED  BY <2>2, <3>1
  <2>4. CASE D > 0
    <3>1. q(M) = n /\ r(M) = 0
      <4>1. D \in Nat \ {0} /\ 0 \in 0 .. D - 1 /\ n * D + 0 = M - n
        BY <1>1, <1>3, <2>4
      <4>2. (n * D + 0) \div D = n /\ (n * D + 0) % D = 0
        BY <4>1, Quotient
      <4> QED  BY <4>1, <4>2
    <3>2. p[M] = 189 * M + 3 * (n * L[0]) + n * L[0] + (L[0] - L[0])
      BY <1>3, <1>6, <2>1, <2>4, <3>1
    <3> HIDE DEF p, q, r
    <3>3. M <= 8 * n
      BY <1>1, <1>3
    <3> QED  BY <1>3, <2>2, <3>2, <3>3
  <2> QED  BY <1>1, <2>3, <2>4
<1>10. 3 * 0 <= p[0]
  BY <1>3, <1>7
<1> HIDE DEF p
<1>11. Alloc(0, GrayImages) \in Nat /\ 3 * Alloc(0, GrayImages) <= p[M]
  BY <1>5, <1>7, <1>8, <1>10, Below
<1>12. L[0] \in Nat /\ L[0] = Level(0) /\ n * L[0] \in Nat /\ p[M] \in Nat
  <2>1. M \in 0 .. M
    BY <1>3
  <2> QED  BY <1>2, <1>7, <2>1
<1> QED  BY <1>9, <1>11, <1>12

-----------------------------------------------------------------------------
(* The scratch arena of each stage *)

\* The largest of four numbers is one of them and at least each.
LEMMA LargestOfFour ==
  ASSUME NEW a \in Nat, NEW b \in Nat, NEW c \in Nat, NEW d \in Nat
  PROVE  \E m \in Nat : m = Largest({a, b, c, d}) /\ a <= m /\ b <= m /\ c <= m /\ d <= m
<1> DEFINE S == {a, b, c, d}
<1>1. \E x \in S : \A y \in S : y <= x
  <2>1. PICK p \in {a, b} : a <= p /\ b <= p
    OBVIOUS
  <2>2. PICK q \in {c, d} : c <= q /\ d <= q
    OBVIOUS
  <2>3. PICK x \in {p, q} : p <= x /\ q <= x
    OBVIOUS
  <2>4. x \in S /\ a <= x /\ b <= x /\ c <= x /\ d <= x
    BY <2>1, <2>2, <2>3
  <2> QED  BY <2>4
<1>2. Largest(S) \in S /\ \A y \in S : y <= Largest(S)
  BY <1>1 DEF Largest
<1> QED  BY <1>2

\* The pixels of the rows of the CPU's blur, of one channel.
Blurs == (W \div 4 + 1) * (H \div 4)

\* What scratch_bytes counts on is enough for each stage.
LEMMA ScratchSuffices ==
  ASSUME TypeOK
  PROVE  /\ W \in Nat /\ H \in Nat /\ conf.max \in Nat /\ n \in Nat /\ n <= conf.max
         /\ W * H \in Nat /\ Quarter \in Nat /\ Blurs \in Nat /\ Quarter <= Blurs
         /\ ScratchBytes \in Nat /\ 8 * MiB \in Nat /\ 8 * MiB >= 8388608
         /\ (conf.max * ((W * H) \div 4) * 8) \div 3 + conf.max * 512 + 8388608 <= ScratchBytes
         /\ 8 * (W * H) + 8388608 <= ScratchBytes \/ conf.mode = "superres"
         /\ 12 * (W * H) + 8388608 <= ScratchBytes \/ conf.mode # "superres"
         /\ 4 * (W * H) + 16 * Quarter + 8388608 <= ScratchBytes
         /\ 72 * Blurs + 8388608 <= ScratchBytes
<1>1. W \in Nat /\ H \in Nat /\ conf.max \in Nat /\ n \in Nat /\ n <= conf.max
  <2>1. conf \in [w : Nat \ {0}, h : Nat \ {0}, max : 1 .. 16, mode : Modes, ltm : BOOLEAN, gpu : BOOLEAN]
    BY PipelineAssumption DEF TypeOK
  <2>2. conf.w \in Nat /\ conf.h \in Nat /\ conf.max \in 1 .. 16 /\ n \in 0 .. conf.max
    BY <2>1 DEF TypeOK
  <2> QED  BY <2>2 DEF W, H
<1>2. MiB = 1048576
  BY DEF MiB
<1> DEFINE wh == W * H
           wq == W \div 4
           hq == H \div 4
<1>3. wh \in Nat /\ wq \in Nat /\ hq \in Nat
  BY <1>1
<1>4. Quarter = wq * hq /\ Blurs = (wq + 1) * hq
  BY DEF Quarter, Blurs
<1> HIDE DEF wq, hq
<1>5. Quarter \in Nat /\ Blurs \in Nat /\ Quarter <= Blurs
  <2>1. wq * hq \in Nat /\ (wq + 1) * hq = wq * hq + hq
    BY <1>3
  <2> QED  BY <1>3, <1>4, <2>1
<1> DEFINE k == conf.max * ((W * H) \div 4) * 8
           a == k \div 3 + conf.max * 64 * 8 + MiB
           b == W * H * (IF conf.mode = "superres" THEN 12 ELSE 8)
           c == W * H * 4 + Quarter * 16
           d == (W \div 4 + 1) * (H \div 4) * 72
<1>6. a \in Nat /\ k \div 3 \in Nat /\ a = k \div 3 + conf.max * 512 + 1048576
  <2>1. wh \div 4 \in Nat
    BY <1>3
  <2>2. conf.max * (wh \div 4) \in Nat
    BY <1>1, <2>1
  <2>3. k \in Nat
    BY <2>2
  <2> HIDE DEF k
  <2>4. k \div 3 \in Nat
    BY <2>3
  <2>5. conf.max * 64 * 8 = conf.max * 512 /\ conf.max * 512 \in Nat
    BY <1>1
  <2> QED  BY <1>2, <2>4, <2>5
<1>7. b = (IF conf.mode = "superres" THEN 12 * wh ELSE 8 * wh) /\ b \in Nat
  BY <1>3
<1>8. c = 4 * wh + 16 * Quarter /\ c \in Nat
  BY <1>3, <1>5
<1>9. d = 72 * Blurs /\ d \in Nat
  <2>1. d = Blurs * 72
    BY DEF Blurs
  <2> HIDE DEF d
  <2> QED  BY <1>5, <2>1
<1>10. ScratchBytes = Largest({a, b, c, d}) + 8 * MiB
  BY DEF ScratchBytes
<1> HIDE DEF a, b, c, d
<1>11. PICK m \in Nat : m = Largest({a, b, c, d}) /\ a <= m /\ b <= m /\ c <= m /\ d <= m
  <2>1. a \in Nat /\ b \in Nat /\ c \in Nat /\ d \in Nat
    BY <1>6, <1>7, <1>8, <1>9
  <2> QED  BY <2>1, LargestOfFour, Zenon
<1>12. ScratchBytes = m + 8388608
  BY <1>2, <1>10, <1>11
<1>13. k = conf.max * (wh \div 4) * 8
  OBVIOUS
<1> HIDE DEF k
<1>14. conf.max * 512 \in Nat
  BY <1>1
<1>15. k \div 3 + conf.max * 512 + 8388608 <= ScratchBytes
  BY <1>6, <1>11, <1>12, <1>14
<1>16. /\ 8 * wh + 8388608 <= ScratchBytes \/ conf.mode = "superres"
       /\ 12 * wh + 8388608 <= ScratchBytes \/ conf.mode # "superres"
  BY <1>3, <1>7, <1>11, <1>12
<1>17. 4 * wh + 16 * Quarter + 8388608 <= ScratchBytes
  BY <1>3, <1>5, <1>8, <1>11, <1>12
<1>18. 72 * Blurs + 8388608 <= ScratchBytes /\ ScratchBytes \in Nat
  BY <1>5, <1>9, <1>11, <1>12
<1>19. 8 * MiB \in Nat /\ 8 * MiB >= 8388608
  BY <1>2
<1> QED  BY <1>1, <1>3, <1>5, <1>15, <1>16, <1>17, <1>18, <1>19 DEF k

\* No image,
LEMMA AllocNone ==
  ASSUME NEW from \in Nat
  PROVE  Alloc(from, <<>>) = from
<1>1. <<>> \in Seq(Nat) /\ Len(<<>>) = 0
  OBVIOUS
<1> QED  BY <1>1, Using DEF Alloc

\* an image,
LEMMA AllocOne ==
  ASSUME NEW from \in Nat, NEW x \in Nat
  PROVE  Alloc(from, <<x>>) \in Nat /\ Alloc(from, <<x>>) <= from + 63 + x
<1> DEFINE p == [k \in 0 .. 1 |-> IF k = 0 THEN from ELSE from + 63 + x]
<1>1. <<x>> \in Seq(Nat) /\ Len(<<x>>) = 1 /\ <<x>>[1] = x
  OBVIOUS
<1>2. p[0] = from /\ p[1] = from + 63 + x
  OBVIOUS
<1>3. \A k \in 0 .. Len(<<x>>) : p[k] \in Nat
  BY <1>1
<1> HIDE DEF p
<1>4. \A k \in 0 .. Len(<<x>>) - 1 : p[k] + 1 * (63 + <<x>>[k + 1]) <= p[k + 1]
  BY <1>1, <1>2
<1>5. 1 * from <= p[0] /\ 1 \in Nat
  BY <1>2
<1>6. Alloc(from, <<x>>) \in Nat /\ 1 * Alloc(from, <<x>>) <= p[Len(<<x>>)]
  BY <1>1, <1>3, <1>4, <1>5, Below
<1> QED  BY <1>1, <1>2, <1>6

\* three images,
LEMMA AllocThree ==
  ASSUME NEW from \in Nat, NEW x \in Nat, NEW y \in Nat, NEW z \in Nat
  PROVE  Alloc(from, <<x, y, z>>) \in Nat /\ Alloc(from, <<x, y, z>>) <= from + 189 + x + y + z
<1> DEFINE s == <<x, y, z>>
           p == [k \in 0 .. 3 |-> IF k = 0 THEN from ELSE IF k = 1 THEN from + 63 + x
                                  ELSE IF k = 2 THEN from + 126 + x + y ELSE from + 189 + x + y + z]
<1>1. s \in Seq(Nat) /\ Len(s) = 3 /\ s[1] = x /\ s[2] = y /\ s[3] = z
  OBVIOUS
<1>2. p[0] = from /\ p[1] = from + 63 + x /\ p[2] = from + 126 + x + y /\ p[3] = from + 189 + x + y + z
  OBVIOUS
<1> HIDE DEF p, s
<1>3. \A k \in 0 .. Len(s) : k = 0 \/ k = 1 \/ k = 2 \/ k = 3
  BY <1>1
<1>4. \A k \in 0 .. Len(s) : p[k] \in Nat
  BY <1>2, <1>3
<1>5. \A k \in 0 .. Len(s) - 1 : p[k] + 1 * (63 + s[k + 1]) <= p[k + 1]
  <2>1. \A k \in 0 .. Len(s) - 1 : k = 0 \/ k = 1 \/ k = 2
    BY <1>1
  <2>2. p[0] + 1 * (63 + s[0 + 1]) <= p[0 + 1]
    BY <1>1, <1>2
  <2>3. p[1] + 1 * (63 + s[1 + 1]) <= p[1 + 1]
    BY <1>1, <1>2
  <2>4. p[2] + 1 * (63 + s[2 + 1]) <= p[2 + 1]
    BY <1>1, <1>2
  <2> QED  BY <2>1, <2>2, <2>3, <2>4
<1>6. 1 * from <= p[0] /\ 1 \in Nat
  BY <1>2
<1>7. Alloc(from, s) \in Nat /\ 1 * Alloc(from, s) <= p[Len(s)]
  BY <1>1, <1>4, <1>5, <1>6, Below
<1>8. Alloc(from, s) <= from + 189 + x + y + z
  BY <1>1, <1>2, <1>7
<1> QED  BY <1>7, <1>8 DEF s

\* any number of images of the same size, and one more: rounding adds 63 bytes to each
\* at most.
LEMMA AllocMany ==
  ASSUME NEW from \in Nat, NEW x \in Nat, NEW m \in Nat, NEW y \in Nat
  PROVE  /\ Alloc(from, Repeat(x, m)) \in Nat
         /\ Alloc(from, Repeat(x, m)) <= from + m * (63 + x)
         /\ Alloc(from, Repeat(x, m) \o <<y>>) \in Nat
         /\ Alloc(from, Repeat(x, m) \o <<y>>) <= from + m * (63 + x) + 63 + y
<1> DEFINE b == 63 + x
           s == Repeat(x, m)
           t == s \o <<y>>
           p == [k \in Nat |-> from + k * b]
           q == [k \in Nat |-> IF k <= m THEN from + k * b ELSE from + m * b + 63 + y]
<1>1. s \in Seq(Nat) /\ Len(s) = m /\ \A k \in 1 .. m : s[k] = x
  BY DEF Repeat
<1> HIDE DEF s
<1>2. t \in Seq(Nat) /\ Len(t) = m + 1 /\ (\A k \in 1 .. m : t[k] = x) /\ t[m + 1] = y
  BY <1>1
<1> HIDE DEF t
<1>3. b \in Nat
  OBVIOUS
<1>4. \A k \in Nat : k * b \in Nat /\ (k + 1) * b = k * b + b
  BY <1>3
<1>5. \A k \in Nat : p[k] = from + k * b /\ p[k] \in Nat
  BY <1>4
<1>6. \A k \in Nat : q[k] = (IF k <= m THEN from + k * b ELSE from + m * b + 63 + y) /\ q[k] \in Nat
  BY <1>4
<1>7. 0 * b = 0
  BY <1>3
<1> HIDE DEF p, q
<1>8. Alloc(from, s) \in Nat /\ 1 * Alloc(from, s) <= p[Len(s)]
  <2>1. \A k \in 0 .. Len(s) : p[k] \in Nat
    BY <1>1, <1>5
  <2>2. ASSUME NEW k \in 0 .. Len(s) - 1 PROVE p[k] + 1 * (63 + s[k + 1]) <= p[k + 1]
    <3>1. k \in Nat /\ k + 1 \in Nat /\ k + 1 \in 1 .. m
      BY <1>1
    <3>2. s[k + 1] = x /\ p[k + 1] = from + k * b + b /\ p[k] = from + k * b /\ k * b \in Nat
      BY <1>1, <1>4, <1>5, <3>1
    <3> QED  BY <1>3, <3>2
  <2>3. 1 * from <= p[0] /\ 1 \in Nat
    BY <1>5, <1>7
  <2> QED  BY <1>1, <2>1, <2>2, <2>3, Below
<1>9. Alloc(from, t) \in Nat /\ 1 * Alloc(from, t) <= q[Len(t)]
  <2>1. \A k \in 0 .. Len(t) : q[k] \in Nat
    BY <1>2, <1>6
  <2>2. ASSUME NEW k \in 0 .. Len(t) - 1 PROVE q[k] + 1 * (63 + t[k + 1]) <= q[k + 1]
    <3>1. k \in Nat /\ k + 1 \in Nat /\ k <= m
      BY <1>2
    <3>2. q[k] = from + k * b /\ k * b \in Nat
      BY <1>4, <1>6, <3>1
    <3>3. CASE k < m
      <4>1. k + 1 \in 1 .. m /\ k + 1 <= m
        BY <3>1, <3>3
      <4>2. t[k + 1] = x /\ q[k + 1] = from + (k + 1) * b /\ (k + 1) * b = k * b + b
        BY <1>2, <1>4, <1>6, <3>1, <4>1
      <4> QED  BY <1>3, <3>2, <4>2
    <3>4. CASE k = m
      <4>1. t[k + 1] = y /\ q[k + 1] = from + k * b + 63 + y
        <5>1. ~(k + 1 <= m)
          BY <3>4
        <5> QED  BY <1>2, <1>6, <3>1, <3>4, <5>1
      <4> QED  BY <3>2, <4>1
    <3> QED  BY <3>1, <3>3, <3>4
  <2>3. 1 * from <= q[0] /\ 1 \in Nat
    BY <1>6, <1>7
  <2> QED  BY <1>2, <2>1, <2>2, <2>3, Below
<1>10. Alloc(from, s) <= from + m * b
  BY <1>1, <1>5, <1>8
<1>11. Alloc(from, t) <= from + m * b + 63 + y
  <2>1. q[m + 1] = from + m * b + 63 + y
    BY <1>6
  <2> QED  BY <1>2, <1>9, <2>1
<1> QED  BY <1>8, <1>9, <1>10, <1>11 DEF s, t

\* What the arena has in use between the stages: it has been emptied before three of them,
\* and from the refinement of the mask on it only fills.
AfterReset == {"gray", "merge", "refine"}
Refined == {"upload", "submit", "wait", "download", "cpuBlur"}
ArenaInv ==
  /\ off \in Nat /\ off <= ScratchBytes
  /\ pc \in AfterReset => off = 0
  /\ pc \in Refined => off <= 48 * Quarter + 640
  /\ pc = "composite" => off <= 48 * Quarter + 16 * Blurs + 768

\* The parameters of a Pipeline do not change, so the arena does not either.
LEMMA SameArena ==
  ASSUME TypeOK, conf' = conf, off' \in Nat, off' <= ScratchBytes,
         pc' \in AfterReset => off' = 0,
         pc' \in Refined => off' <= 48 * Quarter + 640,
         pc' = "composite" => off' <= 48 * Quarter + 16 * Blurs + 768
  PROVE  ArenaInv'
<1>1. Quarter' = Quarter /\ Blurs' = Blurs
  BY DEF Quarter, Blurs, W, H
<1>2. ScratchBytes' = ScratchBytes
  BY <1>1 DEF ScratchBytes, W, H
<1> QED  BY <1>1, <1>2 DEF ArenaInv

\* gray_pyramid takes the first of the four sizes at most.
LEMMA GrayArena ==
  ASSUME TypeOK, ArenaInv, Gray
  PROVE  ArenaInv'
<1>1. /\ pc = "gray" /\ off = 0 /\ off' = Alloc(off, GrayImages) /\ pc' = "align" /\ conf' = conf
  BY DEF Gray, ArenaInv, AfterReset
<1> DEFINE a == Alloc(0, GrayImages)
           l == Level(0)
           q == (W * H) \div 4
<1>2. /\ W \in Nat /\ H \in Nat /\ conf.max \in Nat /\ n \in Nat /\ n <= conf.max /\ W * H \in Nat
      /\ ScratchBytes \in Nat
      /\ (conf.max * q * 8) \div 3 + conf.max * 512 + 8388608 <= ScratchBytes
  BY ScratchSuffices
<1>3. a \in Nat /\ 3 * a <= 1512 * n + 4 * (n * l)
  BY <1>2, GrayFits, PipelineAssumption
<1>4. l \in Nat /\ l <= 2 * q /\ q \in Nat
  BY <1>2, Levels
<1>5. off' = a
  BY <1>1
<1> HIDE DEF a, l, q
<1>6. n * l \in Nat /\ n * l <= conf.max * (2 * q)
  <2>1. 2 * q \in Nat
    BY <1>4
  <2> QED  BY <1>2, <1>4, <2>1, Products
<1>7. conf.max * q \in Nat /\ conf.max * (2 * q) = 2 * (conf.max * q)
  BY <1>2, <1>4
<1> DEFINE m == conf.max * q
<1>8. m \in Nat /\ n * l <= 2 * m /\ (m * 8) \div 3 + conf.max * 512 + 8388608 <= ScratchBytes
  BY <1>2, <1>6, <1>7
<1> HIDE DEF m
<1>9. 3 * a <= 1512 * conf.max + 8 * m
  BY <1>2, <1>3, <1>6, <1>8
<1>10. a <= 504 * conf.max + (m * 8) \div 3 + 1
  BY <1>2, <1>3, <1>8, <1>9
<1>11. a <= ScratchBytes
  BY <1>2, <1>3, <1>8, <1>10
<1> QED  BY <1>1, <1>3, <1>5, <1>11, SameArena DEF AfterReset, Refined

\* So does merge, the second.
LEMMA MergeArena ==
  ASSUME TypeOK, ArenaInv, Merge
  PROVE  ArenaInv'
<1>1. pc = "merge" /\ off = 0 /\ off' = Alloc(off, MergeImages) /\ pc' = "finish" /\ conf' = conf
  BY DEF Merge, ArenaInv, AfterReset
<1>2. /\ W * H \in Nat /\ ScratchBytes \in Nat
      /\ 8 * (W * H) + 8388608 <= ScratchBytes \/ conf.mode = "superres"
      /\ 72 * Blurs + 8388608 <= ScratchBytes /\ Blurs \in Nat
  BY ScratchSuffices
<1>3. CASE n = 1 \/ conf.mode = "superres"
  <2>1. off' = 0
    BY <1>1, <1>3, AllocNone DEF MergeImages
  <2> QED  BY <1>1, <1>2, <2>1, SameArena DEF AfterReset, Refined
<1>4. CASE ~(n = 1 \/ conf.mode = "superres")
  <2> DEFINE x == W * H * 4
  <2>1. x \in Nat /\ x = 4 * (W * H)
    BY <1>2
  <2>2. off' = Alloc(0, Repeat(x, 2))
    BY <1>1, <1>4 DEF MergeImages
  <2> HIDE DEF x
  <2>3. off' \in Nat /\ off' <= 0 + 2 * (63 + x)
    BY <2>1, <2>2, AllocMany
  <2>4. off' <= ScratchBytes
    BY <1>2, <1>4, <2>1, <2>3
  <2> QED  BY <1>1, <2>3, <2>4, SameArena DEF AfterReset, Refined
<1> QED  BY <1>3, <1>4

\* So does finish, the second or the third.
LEMMA FinishArena ==
  ASSUME TypeOK, ArenaInv, Finish
  PROVE  ArenaInv'
<1>1. pc = "finish" /\ off' = Alloc(0, FinishImages) /\ pc' = "join" /\ conf' = conf
  BY DEF Finish, Reset
<1>2. /\ W * H \in Nat /\ Quarter \in Nat /\ ScratchBytes \in Nat
      /\ 12 * (W * H) + 8388608 <= ScratchBytes \/ conf.mode # "superres"
      /\ 4 * (W * H) + 16 * Quarter + 8388608 <= ScratchBytes
  BY ScratchSuffices
<1> DEFINE wh == W * H
           x == W * H * 4
           z == W * H * 12
<1>3. wh \in Nat /\ x \in Nat /\ x = 4 * wh /\ z \in Nat /\ z = 12 * wh
  BY <1>2
<1>4. off' \in Nat /\ off' <= ScratchBytes
  <2>1. CASE conf.mode = "superres" /\ n > 1
    <3>1. off' = Alloc(0, <<z>>)
      BY <1>1, <2>1 DEF FinishImages
    <3> HIDE DEF z
    <3>2. off' \in Nat /\ off' <= 0 + 63 + z
      BY <1>3, <3>1, AllocOne
    <3>3. 12 * wh + 8388608 <= ScratchBytes
      BY <1>2, <2>1
    <3> HIDE DEF wh
    <3> QED  BY <1>2, <1>3, <3>2, <3>3
  <2>2. CASE ~(conf.mode = "superres" /\ n > 1) /\ ~conf.ltm
    <3>1. FinishImages = <<x>>
      BY <2>2 DEF FinishImages
    <3> HIDE DEF x
    <3>2. off' \in Nat /\ off' <= 0 + 63 + x
      BY <1>1, <1>3, <3>1, AllocOne
    <3>3. 4 * wh + 16 * Quarter + 8388608 <= ScratchBytes
      BY <1>2
    <3> HIDE DEF wh
    <3> QED  BY <1>2, <1>3, <3>2, <3>3
  <2>3. CASE ~(conf.mode = "superres" /\ n > 1) /\ conf.ltm
    <3>1. FinishImages = <<x, Quarter * 12, Quarter * 4>>
      BY <2>3 DEF FinishImages
    <3> HIDE DEF x
    <3> DEFINE half == Quarter * 12
               quart == Quarter * 4
    <3>2. half \in Nat /\ quart \in Nat
      BY <1>2
    <3>3. off' \in Nat /\ off' <= 0 + 189 + x + half + quart
      <4>1. off' = Alloc(0, <<x, half, quart>>)
        BY <1>1, <3>1
      <4> HIDE DEF half, quart
      <4>2. Alloc(0, <<x, half, quart>>) \in Nat /\ Alloc(0, <<x, half, quart>>) <= 0 + 189 + x + half + quart
        <5>1. 0 \in Nat /\ x \in Nat /\ half \in Nat /\ quart \in Nat
          BY <1>3, <3>2
        <5> HIDE DEF x
        <5> QED  BY <5>1, AllocThree
      <4> QED  BY <4>1, <4>2
    <3>4. 4 * wh + 16 * Quarter + 8388608 <= ScratchBytes
      BY <1>2
    <3> HIDE DEF wh
    <3> QED  BY <1>2, <1>3, <3>3, <3>4
  <2> QED  BY <2>1, <2>2, <2>3
<1> QED  BY <1>1, <1>4, SameArena DEF AfterReset, Refined

\* The refinement, the blur and the composition take the fourth at most, together.
LEMMA BokehArena ==
  ASSUME TypeOK, ArenaInv, Refine \/ CpuBlur \/ Composite
  PROVE  ArenaInv'
<1>1. /\ Quarter \in Nat /\ Blurs \in Nat /\ Quarter <= Blurs /\ ScratchBytes \in Nat
      /\ 72 * Blurs + 8388608 <= ScratchBytes
  BY ScratchSuffices
<1>2. Quarter * 4 \in Nat /\ Quarter * 12 \in Nat /\ off \in Nat
  BY <1>1 DEF ArenaInv
<1>3. CASE Refine
  <2>1. pc' \in {"upload", "cpuBlur"} /\ conf' = conf /\ off' = Alloc(0, Repeat(Quarter * 4, 9) \o <<Quarter * 12>>)
    BY <1>3 DEF Refine, RefineImages, ArenaInv, AfterReset
  <2>2. off' \in Nat /\ off' <= 0 + 9 * (63 + Quarter * 4) + 63 + Quarter * 12
    BY <1>2, <2>1, AllocMany
  <2>3. off' <= 48 * Quarter + 640 /\ off' <= ScratchBytes
    BY <1>1, <2>2
  <2> QED  BY <2>1, <2>2, <2>3, SameArena DEF AfterReset, Refined
<1>4. CASE CpuBlur
  <2> DEFINE x == (W \div 4 + 1) * 4 * (H \div 4) * 4
  <2>1. off <= 48 * Quarter + 640 /\ pc' = "composite" /\ conf' = conf /\ off' = Alloc(off, <<x>>)
    BY <1>4 DEF CpuBlur, CpuBlurImages, ArenaInv, Refined
  <2>2. x = 16 * Blurs /\ x \in Nat
    <3>1. W \div 4 + 1 \in Nat /\ H \div 4 \in Nat
      BY ScratchSuffices
    <3> DEFINE a == W \div 4 + 1
               b == H \div 4
    <3>2. x = a * 4 * b * 4 /\ Blurs = a * b
      BY DEF Blurs
    <3> HIDE DEF a, b
    <3>3. a * 4 * b * 4 = 16 * (a * b)
      <4>1. a \in Nat /\ b \in Nat
        BY <3>1 DEF a, b
      <4> QED  BY <4>1
    <3>4. x = 16 * Blurs
      BY <3>2, <3>3
    <3> HIDE DEF x
    <3> QED  BY <1>1, <3>4
  <2> HIDE DEF x
  <2>3. off' \in Nat /\ off' <= off + 63 + x
    BY <1>2, <2>1, <2>2, AllocOne
  <2>4. off' <= 48 * Quarter + 16 * Blurs + 768 /\ off' <= ScratchBytes
    BY <1>1, <1>2, <2>1, <2>2, <2>3
  <2> QED  BY <2>1, <2>3, <2>4, SameArena DEF AfterReset, Refined
<1>5. CASE Composite
  <2>1. off <= 48 * Quarter + 16 * Blurs + 768 /\ pc' = "idle" /\ conf' = conf /\ off' = Alloc(off, <<Quarter * 4>>)
    BY <1>5 DEF Composite, ArenaInv
  <2>2. off' \in Nat /\ off' <= off + 63 + Quarter * 4
    BY <1>2, <2>1, AllocOne
  <2>3. off' <= ScratchBytes
    BY <1>1, <1>2, <2>1, <2>2
  <2> QED  BY <2>1, <2>2, <2>3, SameArena DEF AfterReset, Refined
<1> QED  BY <1>3, <1>4, <1>5

\* Every other step empties the arena or leaves it alone.
LEMMA OtherArena ==
  ASSUME TypeOK, ArenaInv,
         \/ \E what \in {"mask", "seg", "none"}, frames \in Frames : Run(what, frames)
         \/ Align \/ Join \/ GpuRun \/ SegStep \/ DispatchBegins \/ DispatchEnds \/ UNCHANGED vars
  PROVE  ArenaInv'
<1>1. ScratchBytes \in Nat /\ Quarter \in Nat /\ Blurs \in Nat
  BY ScratchSuffices
<1>2. conf' = conf
  BY DEF Run, Align, Join, GpuRun, Upload, Signalled, GiveUp, Download, Submit, SegStep, Prep, Turn, Infer,
     DispatchBegins, DispatchEnds, vars
<1>3. CASE off' = 0
  BY <1>1, <1>2, <1>3, SameArena
<1>4. CASE off' = off /\ (pc' = pc \/ (pc \in Refined /\ pc' \in Refined \cup {"composite"}))
  <2>1. pc' \in AfterReset => off' = 0
    BY <1>4 DEF ArenaInv, AfterReset, Refined
  <2>2. pc' \in Refined => off' <= 48 * Quarter + 640
    BY <1>4 DEF ArenaInv
  <2>3. pc' = "composite" => off' <= 48 * Quarter + 16 * Blurs + 768
    <3>1. pc = "composite" \/ pc \in Refined \/ pc' # "composite"
      BY <1>4
    <3>2. off \in Nat
      BY DEF ArenaInv
    <3> QED  BY <1>1, <1>4, <3>1, <3>2 DEF ArenaInv
  <2> QED  BY <1>2, <1>4, <2>1, <2>2, <2>3, SameArena DEF ArenaInv
<1>5. off' = 0 \/ (off' = off /\ (pc' = pc \/ (pc \in Refined /\ pc' \in Refined \cup {"composite"})))
  BY DEF Run, Align, Reset, Join, GpuRun, Upload, Signalled, GiveUp, Download, Submit, SegStep, Prep, Turn, Infer,
     DispatchBegins, DispatchEnds, vars, Refined
<1> QED  BY <1>3, <1>4, <1>5

\* scratch_bytes: no stage of any run takes more scratch memory than the Pipeline was
\* given, so Arena::alloc never aborts the program, for frames of every size, every number
\* of them, every mode of the merge, and pyramids of up to eight levels.
THEOREM ArenaFitsHolds == Spec => []ArenaFits
<1>1. Init => ArenaInv
  <2> SUFFICES ASSUME Init PROVE ArenaInv
    OBVIOUS
  <2>1. TypeOK
    BY InitIInv DEF IInv
  <2> QED  BY <2>1, ScratchSuffices DEF Init, ArenaInv
<1>2. TypeOK /\ ArenaInv /\ [Next]_vars => ArenaInv'
  BY GrayArena, MergeArena, FinishArena, BokehArena, OtherArena DEF Next, Stage
<1>3. TypeOK /\ ArenaInv => ArenaFits
  BY ScratchSuffices DEF ArenaInv, ArenaFits
<1> QED  BY <1>1, <1>2, <1>3, TypeCorrect, PTL DEF Spec, Safety
=============================================================================

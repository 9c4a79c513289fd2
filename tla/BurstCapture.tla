---------------------------- MODULE BurstCapture ----------------------------
(***************************************************************************)
(* The Camera2 (Kotlin) capture path: CaptureController.shoot, which asks  *)
(* the camera for a burst of N frames, and BurstDumper, which collects the *)
(* images, the results and the failures of one burst until it is complete  *)
(* or its two-second timer fires.                                          *)
(*                                                                         *)
(* shoot runs on the UI thread; every callback and the timer run one at a  *)
(* time on the handler thread "cam".  Results and failures are bound to    *)
(* the dumper of the request, images are not: the listener gives an image  *)
(* to whatever burst is current when it arrives.                           *)
(*                                                                         *)
(* A frame is a pair <<burst, index>>, which orders frames as their        *)
(* sensor timestamps do.  The camera (external) may deliver images and     *)
(* results in any order, late, or not at all, and may deliver the image of *)
(* a capture it reports as failed (CaptureFailure.wasImageCaptured).       *)
(***************************************************************************)
EXTENDS Naturals, FiniteSets, Sequences, SequencesExt

CONSTANTS
  N,          \* frames of a burst
  MaxBursts   \* bound: bursts

ASSUME CaptureAssumption == N \in Nat \ {0} /\ MaxBursts \in Nat \ {0}

Bursts == 1 .. MaxBursts
NoBurst == 0
Frames == Bursts \X (1 .. N)
Earlier(f, g) == f[1] < g[1] \/ (f[1] = g[1] /\ f[2] < g[2])

VARIABLES
  device,    \* device and session are open and a preview result made us ready
  current,   \* current: the burst in progress
  begun,     \* number of bursts begun
  dumper,    \* the fields of each BurstDumper
  timer,     \* the postDelayed timer of each burst
  image,     \* what the camera did with each frame's image
  result,    \* ... and with its result
  ended      \* history: how each burst ended, one entry per onBurst call

camera == <<image, result>>
app == <<current, dumper, ended>>
vars == <<device, begun, timer, camera, app>>

Fresh == [slots |-> <<>>, failed |-> 0, results |-> {}, finished |-> FALSE]

Init ==
  /\ device = FALSE
  /\ current = NoBurst
  /\ begun = 0
  /\ dumper = [b \in Bursts |-> Fresh]
  /\ timer = [b \in Bursts |-> "unset"]
  /\ image = [f \in Frames |-> "none"]
  /\ result = [f \in Frames |-> "none"]
  /\ ended = [b \in Bursts |-> <<>>]

-----------------------------------------------------------------------------
(* BurstDumper.  d is the dumper as the handler just updated it. *)

\* finish(): slots in timestamp order (mutant: in arrival order).
ArrivalOrder(slots) == slots
Sorted(slots) ==
  LET S == ToSet(slots) IN
    CHOOSE s \in [1 .. Cardinality(S) -> S] : \A i, j \in DOMAIN s : i < j => Earlier(s[i], s[j])

\* finish() and onDone: current = null, then listener.onBurst posts the burst.
Finish(b, d, how) ==
  /\ dumper' = [dumper EXCEPT ![b] = [d EXCEPT !.finished = TRUE, !.slots = Sorted(d.slots)]]
  /\ current' = NoBurst
  /\ ended' = [ended EXCEPT ![b] = Append(@, how)]

\* The count of results that completes a burst (mutants: it is not looked at;
\* failures do not count).
EnoughImages(d) == Len(d.slots) + d.failed >= N
AllImages(d) == Len(d.slots) >= N /\ Cardinality(d.results) >= Len(d.slots)
Complete(d) == Len(d.slots) + d.failed >= N /\ Cardinality(d.results) >= Len(d.slots)

MaybeFinish(b, d) ==
  IF ~d.finished /\ Complete(d)
  THEN Finish(b, d, "complete")
  ELSE /\ dumper' = [dumper EXCEPT ![b] = d]
       /\ UNCHANGED <<current, ended>>

\* When an image is kept (mutant: one more than there are slots).
AcceptsOneMore(d) == Len(d.slots) <= N /\ ~d.finished
AcceptsImage(d) == Len(d.slots) < N /\ ~d.finished

-----------------------------------------------------------------------------
(* The handler thread *)

\* OnImageAvailable: the image goes to the current burst, or is closed unread.
OnImage(f) ==
  /\ image[f] = "pending"
  /\ image' = [image EXCEPT ![f] = "delivered"]
  /\ IF current # NoBurst /\ AcceptsImage(dumper[current])
     THEN MaybeFinish(current, [dumper[current] EXCEPT !.slots = Append(@, f)])
     ELSE UNCHANGED app
  /\ UNCHANGED <<device, begun, timer, result>>

OnResult(f) ==
  /\ result[f] = "pending"
  /\ result' = [result EXCEPT ![f] = "completed"]
  /\ MaybeFinish(f[1], [dumper[f[1]] EXCEPT !.results = @ \cup {f}])
  /\ UNCHANGED <<device, begun, timer, image>>

OnFailed(f) ==
  /\ result[f] = "pending"
  /\ result' = [result EXCEPT ![f] = "failed"]
  /\ MaybeFinish(f[1], [dumper[f[1]] EXCEPT !.failed = @ + 1])
  /\ UNCHANGED <<device, begun, timer, image>>

\* finishIfPending (mutants: it forgets that the burst has ended; it never acts).
PendingOrNot(d) == Len(d.slots) > 0
NeverPending(d) == FALSE
Pending(d) == ~d.finished /\ Len(d.slots) > 0

OnTimer(b) ==
  /\ timer[b] = "armed"
  /\ timer' = [timer EXCEPT ![b] = "fired"]
  /\ IF Pending(dumper[b]) THEN Finish(b, dumper[b], "timeout") ELSE UNCHANGED app
  /\ UNCHANGED <<device, begun, camera>>

-----------------------------------------------------------------------------
(* The UI thread *)

\* shoot is rejected while a burst is in progress.
NotBusy == current = NoBurst

Shoot ==
  LET b == begun + 1 IN
  /\ device
  /\ NotBusy
  /\ begun < MaxBursts
  /\ begun' = b
  /\ current' = b
  /\ image' = [f \in Frames |-> IF f[1] = b THEN "pending" ELSE image[f]]
  /\ result' = [f \in Frames |-> IF f[1] = b THEN "pending" ELSE result[f]]
  /\ timer' = [timer EXCEPT ![b] = "armed"]
  /\ UNCHANGED <<device, dumper, ended>>

\* start, onOpened, onConfigured and the first preview result.
CameraUp ==
  /\ ~device
  /\ device' = TRUE
  /\ UNCHANGED <<begun, timer, camera, app>>

\* stop (the surface is gone) or a disconnect: nobody tells the burst.
CameraDown ==
  /\ device
  /\ device' = FALSE
  /\ UNCHANGED <<begun, timer, camera, app>>

-----------------------------------------------------------------------------
(* The camera *)

LoseImage(f) ==
  /\ image[f] = "pending"
  /\ image' = [image EXCEPT ![f] = "lost"]
  /\ UNCHANGED <<device, begun, timer, result, app>>

\* The session is closed before the frame was captured: no callback comes.
LoseResult(f) ==
  /\ result[f] = "pending"
  /\ result' = [result EXCEPT ![f] = "lost"]
  /\ UNCHANGED <<device, begun, timer, image, app>>

-----------------------------------------------------------------------------

Handler(f) == OnImage(f) \/ LoseImage(f) \/ OnResult(f) \/ OnFailed(f) \/ LoseResult(f)

Next ==
  \/ Shoot \/ CameraUp \/ CameraDown
  \/ \E f \in Frames : Handler(f)
  \/ \E b \in Bursts : OnTimer(b)

\* The handler thread runs what is posted to it, and the camera settles every
\* frame one way or another.  Nobody has to press the button.
Fairness ==
  /\ \A f \in Frames : WF_vars(OnImage(f) \/ LoseImage(f))
                    /\ WF_vars(OnResult(f) \/ OnFailed(f) \/ LoseResult(f))
  /\ \A b \in Bursts : WF_vars(OnTimer(b))

Spec == Init /\ [][Next]_vars /\ Fairness

-----------------------------------------------------------------------------
(* Properties *)

Dumpers == [slots : Seq(Frames), failed : 0 .. N, results : SUBSET Frames, finished : BOOLEAN]

\* Every variable has its type; a dumper never holds more than N frames.
TypeOK ==
  /\ device \in BOOLEAN
  /\ current \in Bursts \cup {NoBurst}
  /\ begun \in 0 .. MaxBursts
  /\ dumper \in [Bursts -> Dumpers]
  /\ \A b \in Bursts : Len(dumper[b].slots) <= N
  /\ timer \in [Bursts -> {"unset", "armed", "fired"}]
  /\ image \in [Frames -> {"none", "pending", "delivered", "lost"}]
  /\ result \in [Frames -> {"none", "pending", "completed", "failed", "lost"}]
  /\ ended \in [Bursts -> Seq({"complete", "timeout"})]

Unfinished == {b \in Bursts : b <= begun /\ ~dumper[b].finished}

\* However image, result, failure and timer race, a burst is handed to the
\* processing thread once, when it is finished, and until then it is current: the
\* timer or a late callback of an old burst never ends the new one or frees its
\* place.
HandedOverOnce ==
  /\ Unfinished = (IF current = NoBurst THEN {} ELSE {current})
  /\ \A b \in Bursts : Len(ended[b]) = (IF dumper[b].finished THEN 1 ELSE 0)

Foreign(b) == {f \in ToSet(dumper[b].slots) : f[1] # b}

\* A finished burst's slots are in capture order, whatever order they came in,
\* and no frame is in two slots.  A frame of another burst is among them only if
\* that one was ended before the frame came.
SlotsInCaptureOrder ==
  \A b \in Bursts :
    /\ dumper[b].finished =>
         \A i, j \in DOMAIN dumper[b].slots :
           i < j => Earlier(dumper[b].slots[i], dumper[b].slots[j])
    /\ \A f \in Foreign(b) :
         f[1] < b /\ dumper[f[1]].finished /\ f \notin ToSet(dumper[f[1]].slots)

FailedWithImage(b) == \E i \in 1 .. N : result[<<b, i>>] = "failed" /\ image[<<b, i>>] = "delivered"

\* The camera has said of the frame all it will: both halves came, or it failed.
Accounted(f) == result[f] = "failed" \/ (image[f] = "delivered" /\ result[f] = "completed")

\* Counting is enough, unless the burst caught a foreign frame or the camera
\* delivered the image of a failed capture: it ends complete neither too early,
\* but with the result of each of its frames, nor too late: once all its frames
\* have come or failed, in any order, it has ended, and needs no timer.
CountsSuffice ==
  \A b \in Bursts :
    Foreign(b) = {} /\ ~FailedWithImage(b) =>
      /\ ended[b] = <<"complete">> => ToSet(dumper[b].slots) \subseteq dumper[b].results
      /\ (\A i \in 1 .. N : Accounted(<<b, i>>)) => dumper[b].finished

\* Lost frames, results and failures do not stall a burst that has a frame
\* before its timer fires, whatever is lost later.
BurstWithFrameEnds ==
  \A b \in Bursts :
    Len(dumper[b].slots) > 0 /\ timer[b] = "armed" ~> dumper[b].finished

-----------------------------------------------------------------------------
(* What the comments say, and the code does not do *)

\* CaptureController.kt:174: after two seconds the burst ends with what there
\* is.  A burst that has no frame by then has no timer any more: if a frame or a
\* result stays out, it is current for ever and every later shoot is rejected.
EveryBurstEnds == \A b \in Bursts : b <= begun ~> dumper[b].finished

\* CaptureController.kt:21: all frames of a burst have the same exposure.  They
\* do if they are the frames of that burst's one request.
BurstHasOneExposure ==
  \A b \in Bursts : dumper[b].finished => Foreign(b) = {}
=============================================================================

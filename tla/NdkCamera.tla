----------------------------- MODULE NdkCamera -----------------------------
(***************************************************************************)
(* android/ndk_camera.cc: the C++ capture path.  shoot blocks its caller   *)
(* (a JNI entry that holds g_mu, so there is one shoot at a time) while    *)
(* two camera threads deliver: the image listener copies each image into   *)
(* the next slot, the capture callbacks record results and failures.  All  *)
(* of them take m_, except the line of shoot that resets failed_.          *)
(*                                                                         *)
(* Unlike the Kotlin path nothing ties a callback to a burst: whatever     *)
(* arrives while a burst is active_ counts for it.  What is checked here   *)
(* is that the frames handed to the pipeline (pointers into the slots,     *)
(* no copy) stay what they were until the next shoot.                      *)
(*                                                                         *)
(* A frame is a pair <<burst, index>>, ordered as its sensor timestamp.    *)
(***************************************************************************)
EXTENDS Naturals, FiniteSets, Sequences, SequencesExt

CONSTANTS
  N,         \* n_: frames of a burst
  MaxShoots  \* bound: calls of shoot

ASSUME NdkAssumption == N \in Nat \ {0} /\ MaxShoots \in Nat \ {0}

Shoots == 1 .. MaxShoots
Slots == 1 .. N
Frames == Shoots \X Slots
NoFrame == <<0, 0>>
Earlier(f, g) == f[1] < g[1] \/ (f[1] = g[1] /\ f[2] < g[2])

VARIABLES
  pc,       \* the thread in shoot
  begun,    \* number of shoots begun
  active,   \* active_
  count,    \* count_
  ts,       \* ts_: the frame (timestamp) recorded for each slot
  memory,   \* the pixels of each slot: the frame they are of
  results,  \* the keys of results_
  failed,   \* failed_
  out,      \* the caller's NdkBurst: slots in order, and the frames they were
  valid,    \* out belongs to a shoot that returned true, and none began since
  image,    \* what the camera did with each frame's image
  result,   \* ... and with its result
  taken     \* history: the frames each successful shoot returned

collected == <<active, count, ts, memory, results>>
output == <<out, valid, taken>>
camera == <<image, result>>
vars == <<pc, begun, collected, failed, output, camera>>

Init ==
  /\ pc = "idle" /\ begun = 0
  /\ active = FALSE /\ count = 0
  /\ ts = [k \in Slots |-> NoFrame]
  /\ memory = [k \in Slots |-> NoFrame]
  /\ results = {} /\ failed = 0
  /\ out = [slots |-> <<>>, frames |-> <<>>] /\ valid = FALSE
  /\ image = [f \in Frames |-> "none"]
  /\ result = [f \in Frames |-> "none"]
  /\ taken = [b \in Shoots |-> {}]

-----------------------------------------------------------------------------
(* shoot *)

\* What shoot resets under the lock.
ResetState ==
  /\ results' = {} /\ ts' = [k \in Slots |-> NoFrame] /\ active' = TRUE
  /\ count' = 0

Reset ==
  /\ pc = "idle"
  /\ begun < MaxShoots
  /\ begun' = begun + 1
  /\ ResetState
  /\ valid' = FALSE
  /\ pc' = "clear"
  /\ UNCHANGED <<memory, failed, out, taken, camera>>

\* failed_ = 0, with the lock not held.
ClearFailed ==
  /\ pc = "clear"
  /\ failed' = 0
  /\ pc' = "capture"
  /\ UNCHANGED <<begun, collected, output, camera>>

Capture ==
  /\ pc = "capture"
  /\ pc' = "wait"
  /\ image' = [f \in Frames |-> IF f[1] = begun THEN "pending" ELSE image[f]]
  /\ result' = [f \in Frames |-> IF f[1] = begun THEN "pending" ELSE result[f]]
  /\ UNCHANGED <<begun, collected, failed, output>>

\* ACameraCaptureSession_capture fails: shoot returns false, active_ stays set.
CaptureRefused ==
  /\ pc = "capture"
  /\ pc' = "idle"
  /\ UNCHANGED <<begun, collected, failed, output, camera>>

\* The predicate of wait_for.
Complete == count + failed >= N /\ Cardinality(results) >= count

\* What shoot does to the collecting state after the wait (mutant: it is re-armed
\* at the end of a burst for the next one).
Rearm == active' = TRUE /\ count' = 0
Deactivate == active' = FALSE /\ UNCHANGED count

\* The order in which the slots are handed out (mutant: as they were filled).
FilledOrder == [k \in 1 .. count |-> k]
TimestampOrder ==
  CHOOSE s \in [1 .. count -> 1 .. count] : \A j, k \in 1 .. count : j < k => Earlier(ts[s[j]], ts[s[k]])

\* The rest of shoot, under the lock it holds after the wait.
Return ==
  /\ Deactivate
  /\ IF count = 0
     THEN UNCHANGED output
     ELSE /\ out' = [slots |-> TimestampOrder,
                     frames |-> [k \in 1 .. count |-> ts[TimestampOrder[k]]]]
          /\ valid' = TRUE
          /\ taken' = [taken EXCEPT ![begun] = {ts[k] : k \in 1 .. count}]
  /\ pc' = "idle"
  /\ UNCHANGED <<begun, ts, memory, results, failed, camera>>

ReturnComplete ==
  /\ pc = "wait"
  /\ Complete
  /\ Return

\* wait_for gives up (mutant: it waits without a timeout).
NeverTimesOut == FALSE
TimesOut == pc = "wait"

ReturnTimeout ==
  /\ pc = "wait"
  /\ TimesOut
  /\ Return

-----------------------------------------------------------------------------
(* The camera's threads *)

\* When an image is copied (mutant: one more than there are slots).
AcceptsOneMore == active /\ count <= N
Accepts == active /\ count < N

OnImage(f) ==
  /\ image[f] = "pending"
  /\ image' = [image EXCEPT ![f] = "delivered"]
  /\ IF Accepts
     THEN /\ count' = count + 1
          /\ ts' = [ts EXCEPT ![count + 1] = f]
          /\ memory' = [memory EXCEPT ![count + 1] = f]
     ELSE UNCHANGED <<count, ts, memory>>
  /\ UNCHANGED <<pc, begun, active, results, failed, output, result>>

OnStillResult(f) ==
  /\ result[f] = "pending"
  /\ result' = [result EXCEPT ![f] = "completed"]
  /\ results' = results \cup {f}
  /\ UNCHANGED <<pc, begun, active, count, ts, memory, failed, output, image>>

OnCaptureFailed(f) ==
  /\ result[f] = "pending"
  /\ result' = [result EXCEPT ![f] = "failed"]
  /\ failed' = failed + 1
  /\ UNCHANGED <<pc, begun, collected, output, image>>

\* The data race: a late ++failed_ overlaps failed_ = 0 and overwrites it.
FailedOverwritesReset(f) ==
  /\ pc = "clear"
  /\ result[f] = "pending"
  /\ result' = [result EXCEPT ![f] = "failed"]
  /\ failed' = failed + 1
  /\ pc' = "capture"
  /\ UNCHANGED <<begun, collected, output, image>>

Lose(f) ==
  \/ /\ image[f] = "pending"
     /\ image' = [image EXCEPT ![f] = "lost"]
     /\ UNCHANGED <<pc, begun, collected, failed, output, result>>
  \/ /\ result[f] = "pending"
     /\ result' = [result EXCEPT ![f] = "lost"]
     /\ UNCHANGED <<pc, begun, collected, failed, output, image>>

-----------------------------------------------------------------------------

ShootStep == ClearFailed \/ Capture \/ CaptureRefused \/ ReturnComplete \/ ReturnTimeout

CameraStep(f) ==
  OnImage(f) \/ OnStillResult(f) \/ OnCaptureFailed(f) \/ FailedOverwritesReset(f) \/ Lose(f)

\* Every shoot has been made and every frame is settled.
Over ==
  /\ pc = "idle" /\ begun = MaxShoots
  /\ \A f \in Frames : image[f] # "pending" /\ result[f] # "pending"
  /\ UNCHANGED vars

Next == Reset \/ ShootStep \/ (\E f \in Frames : CameraStep(f)) \/ Over

\* The thread in shoot runs and its timeout elapses; the camera owes nothing.
Fairness == WF_vars(ShootStep)

Spec == Init /\ [][Next]_vars /\ Fairness

-----------------------------------------------------------------------------
(* Properties *)

\* Every variable has its type.
TypeOK ==
  /\ pc \in {"idle", "clear", "capture", "wait"}
  /\ begun \in 0 .. MaxShoots
  /\ active \in BOOLEAN /\ valid \in BOOLEAN
  /\ count \in 0 .. N
  /\ ts \in [Slots -> Frames \cup {NoFrame}]
  /\ memory \in [Slots -> Frames \cup {NoFrame}]
  /\ results \subseteq Frames
  /\ failed \in 0 .. N * MaxShoots
  /\ ToSet(out.slots) \subseteq Slots /\ ToSet(out.frames) \subseteq Frames
  /\ image \in [Frames -> {"none", "pending", "delivered", "lost"}]
  /\ result \in [Frames -> {"none", "pending", "completed", "failed", "lost"}]
  /\ \A b \in Shoots : taken[b] \subseteq Frames

\* "On success out is valid until the next shoot": late images do not write
\* over the pixels of a burst that has been handed out, whose frames are in
\* capture order, each in a slot of its own; and nothing collected for one burst
\* is handed out again with a later one.
OutputIntact ==
  /\ valid =>
       /\ \A k \in DOMAIN out.slots : memory[out.slots[k]] = out.frames[k]
       /\ \A j, k \in DOMAIN out.frames :
            j < k => Earlier(out.frames[j], out.frames[k]) /\ out.slots[j] # out.slots[k]
  /\ \A a, b \in Shoots : a # b => taken[a] \cap taken[b] = {}

\* A shoot returns, whatever the camera loses.
ShootReturns == pc # "idle" ~> pc = "idle"
=============================================================================

----------------------------- MODULE AppSession -----------------------------
(***************************************************************************)
(* MainActivity.kt over CaptureController: shots and power experiments as  *)
(* chains of callbacks on three threads.  The UI thread takes the button   *)
(* presses and the intents of the experiment script (scripts/power_app.sh) *)
(* and runs what is posted to it; "cam" ends bursts and calls onBurst;     *)
(* "proc" runs one message after the other.  Nothing holds a chain         *)
(* together but the next callback: a shot that is refused posts nothing,   *)
(* and a press of the button in the middle starts a second chain.          *)
(*                                                                         *)
(* A burst is what BurstCapture says it is: one at a time, ended once, or  *)
(* never.  The Kotlin capture path (ndkMode off) of a phone with a camera. *)
(***************************************************************************)
EXTENDS Naturals, Sequences

CONSTANTS
  Counts,      \* --ei count of a stress run
  Default,     \* count of an intent that does not give one (30)
  MaxIntents,  \* bound: intents
  MaxPresses,  \* bound: presses of SHOOT, DUMP and EMU
  MaxLaps,     \* bound: bursts that fit into the time of a capture stage
  MaxDowns     \* bound: times the surface goes

ASSUME SessionAssumption ==
  /\ Counts \cup {Default} \subseteq Nat \ {0}
  /\ {MaxIntents, MaxPresses, MaxLaps, MaxDowns} \subseteq Nat

Labels == 1 .. MaxIntents
Experiments == {"idle", "capture", "loop", "stress"}   \* loop: plain, portrait, seg, jpeg
Actions == Experiments \cup {"shoot", "emu"}
Messages == {"init", "stress", "process", "loop", "emu"}
Nobody == 0

VARIABLES
  surface, device, ready, inflight, downs,   \* cam: device and session, ready, a preview
                                             \* result still on its way, times closed
  native, pipe,        \* nativeReady; what g_pipe was made for
  current, lost,       \* cam.current; that burst will never end
  handing,             \* "cam" is between current = null and onBurst
  hold, captureOnly,   \* holdBurst, captureOnly
  laps,                \* pIterMs of a capture stage
  left, total, shots,  \* stressLeft, stressTotal, entries of pShots
  pending, retries,    \* pendingAction; posted runPendingWhenReady
  label,               \* pLabel
  posted, idles,       \* doShoot posted to the UI thread; idle stages running
  proc,                \* messages of "proc", the one in execution first
  presses, asked,      \* presses so far; the intents so far
  awaiting, gaveUp,    \* the script: whose record it waits for; it ever gave up
  broken,              \* history: the experiment met a failure
  records              \* the records written

camera == <<surface, device, ready, inflight, downs>>
burst == <<current, lost, handing>>
stage == <<hold, captureOnly, laps, idles>>
stress == <<left, total, shots>>
intent == <<pending, retries, label, asked, gaveUp>>
procVars == <<native, pipe, proc>>
outcome == <<awaiting, records>>
vars == <<camera, burst, stage, stress, intent, procVars, posted, presses, outcome, broken>>

Init ==
  /\ surface = FALSE /\ device = FALSE /\ ready = FALSE /\ inflight = FALSE /\ downs = 0
  /\ native = FALSE /\ pipe = "none" /\ proc = <<>>
  /\ current = FALSE /\ lost = FALSE /\ handing = FALSE
  /\ hold = FALSE /\ captureOnly = FALSE /\ laps = 0 /\ idles = 0
  /\ left = 0 /\ total = 0 /\ shots = 0
  /\ pending = "none" /\ retries = 0 /\ label = Nobody /\ asked = <<>> /\ gaveUp = FALSE
  /\ posted = 0 /\ presses = 0
  /\ awaiting = Nobody /\ records = <<>> /\ broken = FALSE

-----------------------------------------------------------------------------
(* Shared by the handlers *)

\* doShoot and CaptureController.shoot: nothing follows a shot that is refused
\* (mutant: it is also refused while "proc" has work).
HasCamera == ready /\ native /\ device
AcceptedIdle == HasCamera /\ ~current /\ proc = <<>>
Accepted == HasCamera /\ ~current
Shoot == current' = (current \/ Accepted) /\ UNCHANGED <<lost, handing>>

\* writeRecord: the label is read when the record is written.
WriteRecord(mode, iters, entries) ==
  /\ records' = Append(records, [label |-> label, mode |-> mode, iters |-> iters, shots |-> entries])
  /\ awaiting' = Nobody

\* runPendingWhenReady: start what was asked for, or look again in 300 ms.
Runnable(a) == a # "none" /\ native /\ (a = "emu" \/ ready)
Shoots(a) == a \in {"shoot", "loop", "capture"}
RunPending(a, timers) ==
  /\ pending' = IF Runnable(a) THEN "none" ELSE a
  /\ retries' = timers + (IF a = "none" \/ Runnable(a) THEN 0 ELSE 1)
  /\ IF Runnable(a) /\ Shoots(a) THEN Shoot ELSE UNCHANGED burst
  /\ IF Runnable(a) THEN
       /\ proc' = IF a \in {"stress", "emu"} THEN Append(proc, a) ELSE proc
       /\ hold' = (hold \/ a = "loop")
       /\ captureOnly' = (captureOnly \/ a = "capture")
       /\ laps' = IF a \in {"capture", "loop", "idle"} THEN 0 ELSE laps
       /\ idles' = idles + (IF a = "idle" THEN 1 ELSE 0)
     ELSE UNCHANGED <<stage, proc>>
Refused(a) == Runnable(a) /\ Shoots(a) /\ ~HasCamera

-----------------------------------------------------------------------------
(* The UI thread *)

Press ==
  /\ presses < MaxPresses
  /\ presses' = presses + 1
  /\ Shoot
  /\ UNCHANGED <<camera, stage, stress, intent, procVars, posted, outcome, broken>>

PressEmu ==
  /\ presses < MaxPresses
  /\ presses' = presses + 1
  /\ proc' = Append(proc, "emu")
  /\ UNCHANGED <<camera, burst, stage, stress, intent, native, pipe, posted, outcome, broken>>

\* takeAction.  The script sends its next intent when it has the record of the
\* last experiment, or has given up waiting for it.
Intent(a, count) ==
  /\ Len(asked) < MaxIntents
  /\ awaiting = Nobody
  /\ a # "stress" => count = Default
  /\ label' = Len(asked) + 1
  /\ asked' = Append(asked, [mode |-> a, count |-> count])
  /\ total' = count
  /\ awaiting' = IF a \in Experiments THEN Len(asked) + 1 ELSE Nobody
  /\ RunPending(a, retries)
  /\ broken' = Refused(a)
  /\ UNCHANGED <<camera, left, shots, native, pipe, posted, presses, gaveUp, records>>

GiveUp ==
  /\ awaiting # Nobody
  /\ awaiting' = Nobody
  /\ gaveUp' = TRUE
  /\ UNCHANGED <<camera, burst, stage, stress, pending, retries, label, asked, procVars,
                 posted, presses, records, broken>>

Retry ==
  /\ retries > 0
  /\ RunPending(pending, retries - 1)
  /\ broken' = (broken \/ Refused(pending))
  /\ UNCHANGED <<camera, stress, label, asked, gaveUp, native, pipe, posted, presses, outcome>>

PostedShoot ==
  /\ posted > 0
  /\ posted' = posted - 1
  /\ Shoot
  /\ broken' = (broken \/ ~HasCamera)
  /\ UNCHANGED <<camera, stage, stress, intent, procVars, presses, outcome>>

IdleEnds ==
  /\ idles > 0
  /\ idles' = idles - 1
  /\ WriteRecord("idle", 0, 0)
  /\ UNCHANGED <<camera, burst, hold, captureOnly, laps, stress, intent, procVars, posted, presses, broken>>

\* surfaceCreated: the camera is asked for, and a pipeline if there is none yet.
SurfaceCreated ==
  /\ ~surface
  /\ surface' = TRUE
  /\ proc' = IF native THEN proc ELSE Append(proc, "init")
  /\ UNCHANGED <<device, ready, inflight, downs, burst, stage, stress, intent, native, pipe,
                  posted, presses, outcome, broken>>

\* surfaceDestroyed.  A preview result may already be on its way to "cam".
SurfaceDestroyed ==
  /\ surface /\ downs < MaxDowns
  /\ downs' = downs + 1
  /\ surface' = FALSE /\ ready' = FALSE /\ device' = FALSE
  /\ inflight' = (inflight \/ device)
  /\ UNCHANGED <<burst, stage, stress, intent, procVars, posted, presses, outcome, broken>>

-----------------------------------------------------------------------------
(* The thread "cam" *)

CameraOpens ==
  /\ surface /\ ~device /\ ~handing
  /\ device' = TRUE
  /\ UNCHANGED <<surface, ready, inflight, downs, burst, stage, stress, intent, procVars,
                 posted, presses, outcome, broken>>

PreviewResult ==
  /\ device \/ inflight
  /\ ~handing
  /\ ready' = TRUE
  /\ inflight' = (inflight /\ device)
  /\ UNCHANGED <<surface, device, downs, burst, stage, stress, intent, procVars, posted,
                 presses, outcome, broken>>

\* The burst ends: BurstDumper's onDone first makes room for the next.
BurstEnds ==
  /\ current /\ ~lost /\ ~handing
  /\ current' = FALSE
  /\ handing' = TRUE
  /\ UNCHANGED <<camera, lost, stage, stress, intent, procVars, posted, presses, outcome, broken>>

\* No frame of the burst ever comes, or a result stays out (BurstCapture).
BurstIsLost ==
  /\ current /\ ~lost
  /\ lost' = TRUE /\ broken' = TRUE
  /\ UNCHANGED <<camera, current, handing, stage, stress, intent, procVars, posted, presses, outcome>>

\* onBurst: to the stage that waits for it ...
OnBurstHeld ==
  /\ handing /\ hold
  /\ handing' = FALSE /\ hold' = FALSE
  /\ proc' = Append(proc, "loop")
  /\ UNCHANGED <<camera, current, lost, captureOnly, laps, idles, stress, intent, native, pipe,
                  posted, presses, outcome, broken>>

\* ... counted, and the next one shot, or the capture stage ended ...
OnBurstCounted ==
  /\ handing /\ ~hold /\ captureOnly
  /\ handing' = FALSE
  /\ laps' = laps + 1
  /\ \/ /\ laps' < MaxLaps
        /\ posted' = posted + 1
        /\ UNCHANGED <<captureOnly, outcome>>
     \/ /\ captureOnly' = FALSE
        /\ WriteRecord("capture", laps', 0)
        /\ UNCHANGED posted
  /\ UNCHANGED <<camera, current, lost, hold, idles, stress, intent, procVars, presses, broken>>

\* ... or processed.
OnBurstProcessed ==
  /\ handing /\ ~hold /\ ~captureOnly
  /\ handing' = FALSE
  /\ proc' = Append(proc, "process")
  /\ UNCHANGED <<camera, current, lost, stage, stress, intent, native, pipe, posted,
                 presses, outcome, broken>>

-----------------------------------------------------------------------------
(* The thread "proc" *)

\* The first message is done: until then it is the one in execution.
Ends(m) ==
  /\ proc # <<>> /\ Head(proc) = m
  /\ proc' = Tail(proc)
  /\ UNCHANGED <<camera, burst, hold, captureOnly, idles, intent, presses>>

InitEnds ==
  /\ Ends("init")
  /\ native' = TRUE /\ pipe' = "camera"
  /\ UNCHANGED <<laps, stress, posted, outcome, broken>>

\* doEmu: found or not.  Without a pipeline it makes one of 16 x 16.
EmuEnds(found) ==
  /\ Ends("emu")
  /\ native' = (native \/ found)
  /\ pipe' = IF found /\ ~native THEN "emu" ELSE pipe
  /\ UNCHANGED <<laps, stress, posted, outcome, broken>>

\* The start of a stress run (mutant: without emptying the list of shots).
NotEmptied(k) == k
Emptied(k) == 0
StressBegins ==
  /\ Ends("stress")
  /\ shots' = Emptied(shots)
  /\ laps' = 0
  /\ left' = total
  /\ posted' = posted + 1
  /\ UNCHANGED <<total, native, pipe, outcome, broken>>

\* process answers "": not the size of the pipeline, or another failure.
ProcessFails ==
  /\ Ends("process")
  /\ broken' = TRUE
  /\ UNCHANGED <<laps, stress, native, pipe, posted, outcome>>

\* A shot has its picture; during a stress run it counts (mutant: always).
Counted(k) == TRUE
InStress(k) == k > 0
ProcessEnds ==
  /\ Ends("process")
  /\ pipe = "camera"
  /\ IF InStress(left) THEN
       /\ left' = left - 1
       /\ shots' = shots + 1
       /\ laps' = IF left' > 0 THEN laps + 1 ELSE 0
       /\ IF left' > 0 THEN posted' = posted + 1 /\ UNCHANGED outcome
          ELSE WriteRecord("stress", total, shots') /\ UNCHANGED posted
     ELSE UNCHANGED <<left, shots, laps, posted, outcome>>
  /\ UNCHANGED <<total, native, pipe, broken>>

\* stageLoop: the same burst again and again until the time is over.
LoopEnds ==
  /\ Ends("loop")
  /\ laps' = laps + 1
  /\ WriteRecord("loop", laps', 0)
  /\ UNCHANGED <<stress, native, pipe, posted, broken>>

-----------------------------------------------------------------------------

UiStep == Retry \/ PostedShoot \/ IdleEnds
OnBurst == OnBurstHeld \/ OnBurstCounted \/ OnBurstProcessed
CamStep == BurstEnds \/ BurstIsLost \/ OnBurst
ProcStep ==
  \/ InitEnds \/ StressBegins \/ ProcessFails \/ ProcessEnds \/ LoopEnds
  \/ \E found \in BOOLEAN : EmuEnds(found)

Next ==
  \/ Press \/ PressEmu \/ GiveUp
  \/ \E a \in Actions, count \in Counts \cup {Default} : Intent(a, count)
  \/ UiStep \/ CamStep \/ ProcStep
  \/ SurfaceCreated \/ SurfaceDestroyed \/ CameraOpens \/ PreviewResult

\* The three threads run, a burst ends or is lost.  Nobody has to press, to send
\* an intent or to give up, and the camera need not open.
Fairness ==
  /\ WF_vars(Retry) /\ WF_vars(PostedShoot) /\ WF_vars(IdleEnds)
  /\ WF_vars(CamStep) /\ WF_vars(ProcStep)

Safety == Init /\ [][Next]_vars
Spec == Safety /\ Fairness

-----------------------------------------------------------------------------
(* Properties *)

\* Every variable has its type.
TypeOK ==
  /\ {surface, device, ready, inflight, native} \subseteq BOOLEAN
  /\ {current, lost, handing, hold, captureOnly} \subseteq BOOLEAN
  /\ {gaveUp, broken} \subseteq BOOLEAN
  /\ pipe \in {"none", "emu", "camera"}
  /\ pending \in Actions \cup {"none"}
  /\ {laps, left, total, shots, retries, posted, idles} \subseteq Nat
  /\ presses \in 0 .. MaxPresses /\ downs \in 0 .. MaxDowns
  /\ proc \in Seq(Messages)
  /\ label = Len(asked) /\ asked \in Seq([mode : Actions, count : Counts \cup {Default}])
  /\ awaiting \in {Nobody, label}
  /\ records \in Seq([label : Labels, mode : Experiments, iters : Nat, shots : Nat])

\* A record says what its label's experiment was: the right kind of experiment,
\* a stress run's shots as many as were asked for, and one record for each label
\* - whatever is pressed meanwhile, also when an earlier experiment left a second
\* chain of shots behind.  (Once the script has given up on an experiment, what is
\* left of that one mixes with the next.)
RecordsAreWhole ==
  ~gaveUp =>
    /\ \A i \in DOMAIN records :
         LET r == records[i] IN
           /\ r.mode = asked[r.label].mode
           /\ r.mode = "stress" =>
                r.iters = asked[r.label].count /\ r.shots = asked[r.label].count
    /\ \A i, j \in DOMAIN records : records[i].label = records[j].label => i = j

\* What an experiment goes on from, wherever it is: its intent is still looked at,
\* its message or timer waits, or its chain has a burst, a post or a picture on
\* the way.
Queued(m) == \E i \in DOMAIN proc : proc[i] = m
GoesOn ==
  \/ retries > 0 /\ pending = asked[label].mode
  \/ idles > 0 \/ Queued("loop") \/ Queued("stress")
  \/ hold /\ (current \/ handing)
  \/ captureOnly /\ (current \/ handing \/ posted > 0)
  \/ left > 0 /\ (current \/ handing \/ posted > 0 \/ Queued("process"))

\* No chain breaks off: the record the script waits for is on its way, whatever is
\* pressed and whichever shots are refused, unless the experiment met a failure.
RecordIsOnItsWay == ~gaveUp /\ awaiting # Nobody /\ ~broken /\ ~lost => GoesOn

\* Each experiment has its one record: those there are are whole, the other is on
\* its way.
RecordsAddUp == RecordsAreWhole /\ RecordIsOnItsWay

\* A shot that is rejected because another burst is in progress does not end an
\* experiment: that burst continues the chain.  Once begun, an experiment ends with
\* its record unless a burst is lost, a shot finds no camera or a picture fails.
ExperimentEnds ==
  awaiting # Nobody /\ pending = "none" ~> awaiting = Nobody \/ broken \/ lost
=============================================================================

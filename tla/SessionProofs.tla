--------------------------- MODULE SessionProofs ---------------------------
(***************************************************************************)
(* What holds over a session of the app, however long.                     *)
(*                                                                         *)
(* AppSession: power experiments, for any number of intents, presses and   *)
(* bursts.  While the script has not given up on one, there is one         *)
(* experiment at a time, which is in one place only, and its record is its *)
(* own.                                                                    *)
(*                                                                         *)
(* ThermalControl: how many frames the bursts of the session merge, for    *)
(* any targets, limits and loads.                                          *)
(***************************************************************************)
EXTENDS AppSession, ThermalControl, TLAPS

-----------------------------------------------------------------------------
(* The invariant *)

\* What "proc" still has to do.
LoopQueued == \E i \in DOMAIN proc : proc[i] = "loop"
StressQueued == \E i \in DOMAIN proc : proc[i] = "stress"
QueuedOnce ==
  \A i, j \in DOMAIN proc : proc[i] \in {"loop", "stress"} /\ proc[i] = proc[j] => i = j

\* The kind of the experiment the script waits for.
Mode == IF awaiting = Nobody THEN "none" ELSE asked[label].mode

\* Where an experiment can be: not begun, a timer, captureOnly, holdBurst, a message
\* of "proc", or a stress run that has shots left.  It is in one of these at most,
\* and it is the one the script waits for.
OneExperiment ==
  /\ pending \in Experiments => pending = Mode
  /\ idles > 0 => Mode = "idle" /\ idles = 1 /\ pending # "idle"
  /\ captureOnly => Mode = "capture" /\ pending # "capture"
  /\ hold => Mode = "loop" /\ pending # "loop"
  /\ LoopQueued => Mode = "loop" /\ pending # "loop" /\ ~hold
  /\ StressQueued => Mode = "stress" /\ pending # "stress" /\ left = 0
  /\ left > 0 => Mode = "stress" /\ pending # "stress" /\ shots + left = total
  /\ QueuedOnce
  /\ awaiting # Nobody => total = asked[label].count

\* The records so far are whole, and that of the experiment in progress is not there.
RecordsSoFar ==
  /\ \A i \in DOMAIN records :
       LET r == records[i] IN
         /\ r.label \in 1 .. label /\ r.label # awaiting
         /\ r.mode = asked[r.label].mode
         /\ r.mode = "stress" => r.iters = asked[r.label].count /\ r.shots = asked[r.label].count
  /\ \A i, j \in DOMAIN records : records[i].label = records[j].label => i = j

LabelFits == label <= MaxIntents /\ (gaveUp => label # Nobody)

IInv == TypeOK /\ LabelFits /\ (~gaveUp => OneExperiment /\ RecordsSoFar)

-----------------------------------------------------------------------------
(* Messages of "proc" *)

\* A message more.
LEMMA Appended ==
  ASSUME TypeOK, NEW p \in Messages, proc' = Append(proc, p)
  PROVE  /\ proc' \in Seq(Messages)
         /\ LoopQueued' => LoopQueued \/ p = "loop"
         /\ StressQueued' => StressQueued \/ p = "stress"
         /\ QueuedOnce /\ (p = "loop" => ~LoopQueued) /\ (p = "stress" => ~StressQueued) => QueuedOnce'
<1>1. proc \in Seq(Messages)
  BY DEF TypeOK
<1>2. proc' \in Seq(Messages) /\ Len(proc) \in Nat /\ Len(proc') = Len(proc) + 1
  BY <1>1
<1>3. \A i \in DOMAIN proc' : (i \in DOMAIN proc /\ proc'[i] = proc[i]) \/ (i = Len(proc) + 1 /\ proc'[i] = p)
  BY <1>1, <1>2
<1>4. LoopQueued' => LoopQueued \/ p = "loop"
  BY <1>3 DEF LoopQueued
<1>5. StressQueued' => StressQueued \/ p = "stress"
  BY <1>3 DEF StressQueued
<1>6. ASSUME QueuedOnce, p = "loop" => ~LoopQueued, p = "stress" => ~StressQueued
      PROVE  QueuedOnce'
  <2> SUFFICES ASSUME NEW i \in DOMAIN proc', NEW j \in DOMAIN proc',
                      proc'[i] \in {"loop", "stress"}, proc'[i] = proc'[j]
               PROVE  i = j
    BY DEF QueuedOnce
  <2>1. CASE i \in DOMAIN proc /\ j \in DOMAIN proc /\ proc'[i] = proc[i] /\ proc'[j] = proc[j]
    BY <1>6, <2>1 DEF QueuedOnce
  <2>2. CASE i = Len(proc) + 1 /\ j = Len(proc) + 1
    BY <2>2
  <2>3. ASSUME NEW k \in DOMAIN proc, proc[k] = p
        PROVE  p \notin {"loop", "stress"}
    BY <1>6, <2>3 DEF LoopQueued, StressQueued
  <2> QED  BY <1>3, <2>1, <2>2, <2>3
<1> QED  BY <1>2, <1>4, <1>5, <1>6

\* A message done.
LEMMA TakenOff ==
  ASSUME TypeOK, proc # <<>>, proc' = Tail(proc)
  PROVE  /\ proc' \in Seq(Messages)
         /\ LoopQueued' => LoopQueued
         /\ StressQueued' => StressQueued
         /\ QueuedOnce => QueuedOnce'
         /\ Head(proc) = "loop" => LoopQueued /\ (QueuedOnce => ~LoopQueued')
         /\ Head(proc) = "stress" => StressQueued /\ (QueuedOnce => ~StressQueued')
<1>1. proc \in Seq(Messages) /\ Len(proc) \in Nat \ {0}
  BY DEF TypeOK
<1>2. proc' \in Seq(Messages) /\ Len(proc') = Len(proc) - 1
  BY <1>1
<1>3. /\ \A i \in DOMAIN proc' : i \in Nat /\ i + 1 \in DOMAIN proc /\ i + 1 # 1 /\ proc'[i] = proc[i + 1]
      /\ 1 \in DOMAIN proc /\ Head(proc) = proc[1]
  BY <1>1, <1>2
<1>4. LoopQueued' => LoopQueued
  BY <1>3 DEF LoopQueued
<1>5. StressQueued' => StressQueued
  BY <1>3 DEF StressQueued
<1>6. ASSUME QueuedOnce
      PROVE  QueuedOnce'
  <2> SUFFICES ASSUME NEW i \in DOMAIN proc', NEW j \in DOMAIN proc',
                      proc'[i] \in {"loop", "stress"}, proc'[i] = proc'[j]
               PROVE  i = j
    BY DEF QueuedOnce
  <2>1. i + 1 = j + 1
    BY <1>3, <1>6 DEF QueuedOnce
  <2> QED  BY <1>3, <2>1
<1>7. ASSUME Head(proc) = "loop"
      PROVE  LoopQueued /\ (QueuedOnce => ~LoopQueued')
  BY <1>3, <1>7 DEF LoopQueued, QueuedOnce
<1>8. ASSUME Head(proc) = "stress"
      PROVE  StressQueued /\ (QueuedOnce => ~StressQueued')
  BY <1>3, <1>8 DEF StressQueued, QueuedOnce
<1> QED  BY <1>2, <1>4, <1>5, <1>6, <1>7, <1>8

-----------------------------------------------------------------------------
(* Types *)

\* An experiment that is somewhere has a label.
LEMMA Labelled ==
  ASSUME IInv, idles > 0 \/ captureOnly \/ LoopQueued \/ left > 0
  PROVE  label \in Labels
<1>1. label \in Nat /\ label <= MaxIntents /\ MaxIntents \in Nat /\ awaiting \in {Nobody, label}
  BY SessionAssumption DEF IInv, TypeOK, LabelFits
<1>2. label # Nobody
  <2>1. CASE gaveUp
    BY <2>1 DEF IInv, LabelFits
  <2>2. CASE ~gaveUp
    <3>1. Mode \in Experiments
      BY <2>2 DEF IInv, OneExperiment, Experiments
    <3>2. awaiting # Nobody
      BY <3>1 DEF Mode, Experiments
    <3> QED  BY <1>1, <3>2
  <2> QED  BY <2>1, <2>2
<1> QED  BY <1>1, <1>2 DEF Labels, Nobody

\* A record more.
LEMMA RecordTypes ==
  ASSUME TypeOK, label \in Labels, NEW m \in Experiments, NEW k \in Nat, NEW e \in Nat, WriteRecord(m, k, e)
  PROVE  /\ records' \in Seq([label : Labels, mode : Experiments, iters : Nat, shots : Nat])
         /\ awaiting' = Nobody
<1> DEFINE r == [label |-> label, mode |-> m, iters |-> k, shots |-> e]
<1>1. r \in [label : Labels, mode : Experiments, iters : Nat, shots : Nat]
  OBVIOUS
<1>2. records' = Append(records, r) /\ awaiting' = Nobody
  BY DEF WriteRecord
<1> HIDE DEF r
<1> QED  BY <1>1, <1>2 DEF TypeOK

BurstTypes == current \in BOOLEAN /\ lost \in BOOLEAN /\ handing \in BOOLEAN
CameraTypes ==
  /\ surface \in BOOLEAN /\ device \in BOOLEAN /\ ready \in BOOLEAN /\ inflight \in BOOLEAN
  /\ downs \in 0 .. MaxDowns
StageTypes == hold \in BOOLEAN /\ captureOnly \in BOOLEAN /\ laps \in Nat /\ idles \in Nat
StressTypes == left \in Nat /\ total \in Nat /\ shots \in Nat
IntentTypes ==
  /\ pending \in Actions \cup {"none"} /\ retries \in Nat /\ gaveUp \in BOOLEAN
  /\ label = Len(asked) /\ asked \in Seq([mode : Actions, count : Counts \cup {Default}])
ProcTypes == native \in BOOLEAN /\ pipe \in {"none", "emu", "camera"} /\ proc \in Seq(Messages)
OutcomeTypes ==
  /\ awaiting \in {Nobody, label}
  /\ records \in Seq([label : Labels, mode : Experiments, iters : Nat, shots : Nat])
RestTypes == posted \in Nat /\ presses \in 0 .. MaxPresses /\ broken \in BOOLEAN

\* The type of the state part by part.
LEMMA TypeParts ==
  TypeOK <=> /\ BurstTypes /\ CameraTypes /\ StageTypes /\ StressTypes /\ IntentTypes
             /\ ProcTypes /\ OutcomeTypes /\ RestTypes
BY DEF TypeOK, BurstTypes, CameraTypes, StageTypes, StressTypes, IntentTypes, ProcTypes, OutcomeTypes, RestTypes

\* runPendingWhenReady leaves a burst, a stage and the messages of their types.
LEMMA RunPendingTypes ==
  ASSUME TypeOK, NEW a \in Actions \cup {"none"}, NEW timers \in Nat, RunPending(a, timers)
  PROVE  /\ pending' \in Actions \cup {"none"} /\ retries' \in Nat
         /\ BurstTypes' /\ StageTypes' /\ proc' \in Seq(Messages)
<1>1. BurstTypes /\ StageTypes /\ ProcTypes
  BY TypeParts
<1>2. pending' \in Actions \cup {"none"}
  BY DEF RunPending
<1>3. retries' \in Nat
  BY DEF RunPending
<1>4. BurstTypes'
  BY <1>1 DEF RunPending, BurstTypes, Shoot, burst
<1>5. StageTypes'
  <2>1. CASE Runnable(a)
    BY <1>1, <2>1 DEF RunPending, StageTypes
  <2>2. CASE ~Runnable(a)
    BY <1>1, <2>2 DEF RunPending, StageTypes, stage
  <2> QED  BY <2>1, <2>2
<1>6. proc' \in Seq(Messages)
  <2>1. proc' = proc \/ (a \in {"stress", "emu"} /\ proc' = Append(proc, a))
    BY DEF RunPending
  <2> QED  BY <1>1, <2>1, Appended DEF ProcTypes, Messages
<1> QED  BY <1>2, <1>3, <1>4, <1>5, <1>6

\* Every step leaves every variable of its type.
LEMMA TypeStep ==
  ASSUME IInv, [Next]_vars
  PROVE  TypeOK'
<1> DEFINE Parts == /\ BurstTypes /\ CameraTypes /\ StageTypes /\ StressTypes /\ IntentTypes
                    /\ ProcTypes /\ OutcomeTypes /\ RestTypes
<1>1. TypeOK /\ Parts
  BY TypeParts DEF IInv
<1>2. /\ Default \in Nat /\ MaxIntents \in Nat /\ MaxDowns \in Nat /\ MaxPresses \in Nat
      /\ \A c \in Counts \cup {Default} : c \in Nat
  BY SessionAssumption
<1> SUFFICES Parts'
  BY TypeParts, PTL
<1> USE DEF Actions, Messages, Experiments
<1>3. CASE Press \/ PostedShoot
  <2>1. BurstTypes' /\ posted' \in Nat /\ presses' \in 0 .. MaxPresses /\ broken' \in BOOLEAN
    <3>1. BurstTypes'
      BY <1>1, <1>3 DEF Press, PostedShoot, Shoot, BurstTypes
    <3>2. broken' \in BOOLEAN
      BY <1>1, <1>3 DEF Press, PostedShoot, RestTypes
    <3>3. posted' \in Nat /\ presses' \in 0 .. MaxPresses
      BY <1>1, <1>2, <1>3 DEF Press, PostedShoot, RestTypes
    <3> QED  BY <3>1, <3>2, <3>3
  <2>2. UNCHANGED <<camera, stage, stress, intent, procVars, outcome>>
    BY <1>3 DEF Press, PostedShoot
  <2> QED
    BY <1>1, <2>1, <2>2 DEF camera, stage, stress, intent, procVars, outcome, CameraTypes, StageTypes,
       StressTypes, IntentTypes, ProcTypes, OutcomeTypes, RestTypes
<1>4. CASE PressEmu
  <2>1. proc' \in Seq(Messages) /\ presses' \in 0 .. MaxPresses
    BY <1>1, <1>2, <1>4, Appended DEF PressEmu, RestTypes
  <2>2. UNCHANGED <<camera, burst, stage, stress, intent, native, pipe, posted, outcome, broken>>
    BY <1>4 DEF PressEmu
  <2> QED
    BY <1>1, <2>1, <2>2 DEF camera, burst, stage, stress, intent, outcome, BurstTypes, CameraTypes, StageTypes,
       StressTypes, IntentTypes, ProcTypes, OutcomeTypes, RestTypes
<1>5. ASSUME NEW a \in Actions, NEW count \in Counts \cup {Default}, Intent(a, count)
      PROVE  Parts'
  <2>1. RunPending(a, retries)
    BY <1>5 DEF Intent
  <2>2. /\ pending' \in Actions \cup {"none"} /\ retries' \in Nat
        /\ BurstTypes' /\ StageTypes' /\ proc' \in Seq(Messages)
    BY <1>1, <2>1, RunPendingTypes DEF IntentTypes
  <2>3. label' = Len(asked') /\ asked' \in Seq([mode : Actions, count : Counts \cup {Default}])
    <3> DEFINE r == [mode |-> a, count |-> count]
    <3>1. r \in [mode : Actions, count : Counts \cup {Default}] /\ asked' = Append(asked, r)
      BY <1>5 DEF Intent
    <3> HIDE DEF r
    <3>2. label' = Len(asked) + 1
      BY <1>5 DEF Intent
    <3> QED  BY <1>1, <3>1, <3>2 DEF IntentTypes
  <2>4. awaiting' \in {Nobody, label'} /\ broken' \in BOOLEAN /\ total' \in Nat
    BY <1>2, <1>5 DEF Intent, Refused
  <2>5. UNCHANGED <<camera, left, shots, native, pipe, posted, presses, gaveUp, records>>
    BY <1>5 DEF Intent
  <2> QED
    BY <1>1, <2>2, <2>3, <2>4, <2>5 DEF camera, CameraTypes,
       StressTypes, IntentTypes, ProcTypes, OutcomeTypes, RestTypes
<1>6. CASE GiveUp
  <2>1. /\ awaiting' = Nobody /\ gaveUp' = TRUE
        /\ UNCHANGED <<camera, burst, stage, stress, pending, retries, label, asked, procVars,
                       posted, presses, records, broken>>
    BY <1>6 DEF GiveUp
  <2> QED
    BY <1>1, <2>1 DEF camera, burst, stage, stress, procVars, BurstTypes, CameraTypes, StageTypes,
       StressTypes, IntentTypes, ProcTypes, OutcomeTypes, RestTypes
<1>7. CASE Retry
  <2>1. retries - 1 \in Nat /\ pending \in Actions \cup {"none"} /\ RunPending(pending, retries - 1)
    BY <1>1, <1>7 DEF Retry, IntentTypes
  <2>2. /\ pending' \in Actions \cup {"none"} /\ retries' \in Nat
        /\ BurstTypes' /\ StageTypes' /\ proc' \in Seq(Messages)
    BY <1>1, <2>1, RunPendingTypes
  <2>3. broken' \in BOOLEAN
    BY <1>1, <1>7 DEF Retry, RestTypes
  <2>4. UNCHANGED <<camera, stress, label, asked, gaveUp, native, pipe, posted, presses, outcome>>
    BY <1>7 DEF Retry
  <2> QED
    BY <1>1, <2>2, <2>3, <2>4 DEF camera, stress, outcome, CameraTypes,
       StressTypes, IntentTypes, ProcTypes, OutcomeTypes, RestTypes
<1>8. CASE IdleEnds
  <2>1. idles' \in Nat /\ WriteRecord("idle", 0, 0) /\ label \in Labels
    BY <1>1, <1>8, Labelled DEF IdleEnds, StageTypes
  <2>2. /\ records' \in Seq([label : Labels, mode : Experiments, iters : Nat, shots : Nat])
        /\ awaiting' = Nobody
    BY <1>1, <2>1, RecordTypes
  <2>3. UNCHANGED <<camera, burst, hold, captureOnly, laps, stress, intent, procVars, posted, presses, broken>>
    BY <1>8 DEF IdleEnds
  <2> QED
    BY <1>1, <2>1, <2>2, <2>3 DEF camera, burst, stress, intent, procVars, BurstTypes, CameraTypes,
       StageTypes, StressTypes, IntentTypes, ProcTypes, OutcomeTypes, RestTypes
<1>9. CASE SurfaceCreated \/ SurfaceDestroyed \/ CameraOpens \/ PreviewResult
  <2>1. CameraTypes'
    <3>1. downs' \in 0 .. MaxDowns
      BY <1>1, <1>2, <1>9 DEF SurfaceCreated, SurfaceDestroyed, CameraOpens, PreviewResult, CameraTypes
    <3>2. surface' \in BOOLEAN /\ device' \in BOOLEAN /\ ready' \in BOOLEAN /\ inflight' \in BOOLEAN
      BY <1>1, <1>9 DEF SurfaceCreated, SurfaceDestroyed, CameraOpens, PreviewResult, CameraTypes
    <3> QED  BY <3>1, <3>2 DEF CameraTypes
  <2>2. proc' \in Seq(Messages)
    <3>1. proc' = proc \/ proc' = Append(proc, "init")
      BY <1>9 DEF SurfaceCreated, SurfaceDestroyed, CameraOpens, PreviewResult, procVars
    <3> QED  BY <1>1, <3>1, Appended DEF ProcTypes
  <2>3. UNCHANGED <<burst, stage, stress, intent, native, pipe, posted, presses, outcome, broken>>
    BY <1>9 DEF SurfaceCreated, SurfaceDestroyed, CameraOpens, PreviewResult, procVars
  <2> QED
    BY <1>1, <2>1, <2>2, <2>3 DEF burst, stage, stress, intent, outcome, BurstTypes,
       StageTypes, StressTypes, IntentTypes, ProcTypes, OutcomeTypes, RestTypes
<1>10. CASE BurstEnds \/ BurstIsLost
  <2>1. BurstTypes' /\ broken' \in BOOLEAN
    BY <1>1, <1>10 DEF BurstEnds, BurstIsLost, BurstTypes, RestTypes
  <2>2. UNCHANGED <<camera, stage, stress, intent, procVars, posted, presses, outcome>>
    BY <1>10 DEF BurstEnds, BurstIsLost
  <2> QED
    BY <1>1, <2>1, <2>2 DEF camera, stage, stress, intent, procVars, outcome, CameraTypes, StageTypes,
       StressTypes, IntentTypes, ProcTypes, OutcomeTypes, RestTypes
<1>11. CASE OnBurstHeld \/ OnBurstProcessed
  <2>1. proc' \in Seq(Messages)
    BY <1>1, <1>11, Appended DEF OnBurstHeld, OnBurstProcessed
  <2>2. BurstTypes' /\ StageTypes'
    BY <1>1, <1>11 DEF OnBurstHeld, OnBurstProcessed, BurstTypes, StageTypes, stage
  <2>3. UNCHANGED <<camera, stress, intent, native, pipe, posted, presses, outcome, broken>>
    BY <1>11 DEF OnBurstHeld, OnBurstProcessed
  <2> QED
    BY <1>1, <2>1, <2>2, <2>3 DEF camera, stress, intent, outcome, CameraTypes,
       StressTypes, IntentTypes, ProcTypes, OutcomeTypes, RestTypes
<1>12. CASE OnBurstCounted
  <2>1. laps' \in Nat /\ BurstTypes' /\ label \in Labels
    <3>1. label \in Labels
      BY <1>12, Labelled DEF OnBurstCounted
    <3>2. laps' = laps + 1 /\ handing' = FALSE /\ current' = current /\ lost' = lost
      BY <1>12 DEF OnBurstCounted
    <3>3. laps' \in Nat
      BY <1>1, <3>2 DEF StageTypes
    <3> QED  BY <1>1, <3>1, <3>2, <3>3 DEF BurstTypes
  <2>2. OutcomeTypes' /\ captureOnly' \in BOOLEAN /\ posted' \in Nat
    <3>1. CASE posted' = posted + 1 /\ UNCHANGED <<captureOnly, outcome>>
      <4>1. label' = label
        BY <1>12 DEF OnBurstCounted, intent
      <4> QED  BY <1>1, <3>1, <4>1 DEF outcome, OutcomeTypes, StageTypes, RestTypes
    <3>2. CASE captureOnly' = FALSE /\ WriteRecord("capture", laps', 0) /\ posted' = posted
      BY <1>1, <2>1, <3>2, RecordTypes DEF OutcomeTypes, RestTypes
    <3> QED  BY <1>12, <3>1, <3>2 DEF OnBurstCounted
  <2>3. UNCHANGED <<camera, current, lost, hold, idles, stress, intent, procVars, presses, broken>>
    BY <1>12 DEF OnBurstCounted
  <2> QED
    BY <1>1, <2>1, <2>2, <2>3 DEF camera, stress, intent, procVars, CameraTypes, StageTypes,
       StressTypes, IntentTypes, ProcTypes, RestTypes
<1>13. CASE ProcStep
  <2>1. /\ proc # <<>> /\ proc' = Tail(proc)
        /\ UNCHANGED <<camera, burst, hold, captureOnly, idles, intent, presses>>
    BY <1>13 DEF ProcStep, InitEnds, StressBegins, ProcessFails, ProcessEnds, LoopEnds, EmuEnds, Ends
  <2>2. proc' \in Seq(Messages)
    BY <1>1, <2>1, TakenOff
  <2>3. native' \in BOOLEAN /\ pipe' \in {"none", "emu", "camera"}
    BY <1>1, <1>13 DEF ProcStep, InitEnds, StressBegins, ProcessFails, ProcessEnds, LoopEnds, EmuEnds, ProcTypes
  <2>4. laps' \in Nat /\ StressTypes' /\ posted' \in Nat /\ broken' \in BOOLEAN
    <3>1. CASE ProcStep /\ ~ProcessEnds
      <4>1. broken' \in BOOLEAN
        BY <1>1, <3>1 DEF ProcStep, InitEnds, StressBegins, ProcessFails, LoopEnds, EmuEnds, RestTypes
      <4>2. /\ laps' \in {laps, 0, laps + 1} /\ posted' \in {posted, posted + 1}
            /\ left' \in {left, total} /\ shots' \in {shots, 0} /\ total' = total
        BY <3>1 DEF ProcStep, InitEnds, StressBegins, ProcessFails, LoopEnds, EmuEnds, Emptied, stress
      <4> QED  BY <1>1, <4>1, <4>2 DEF StageTypes, StressTypes, RestTypes
    <3>2. CASE ProcessEnds
      <4>1. CASE InStress(left)
        <5>1. /\ left' = left - 1 /\ shots' = shots + 1 /\ left > 0 /\ total' = total
              /\ laps' = IF left' > 0 THEN laps + 1 ELSE 0
              /\ posted' = posted + 1 \/ posted' = posted
          BY <3>2, <4>1 DEF ProcessEnds, InStress
        <5>2. broken' \in BOOLEAN
          BY <1>1, <3>2 DEF ProcessEnds, RestTypes
        <5> QED  BY <1>1, <5>1, <5>2 DEF StageTypes, StressTypes, RestTypes
      <4>2. CASE ~InStress(left)
        <5>1. UNCHANGED <<left, shots, laps, posted, total, broken>>
          BY <3>2, <4>2 DEF ProcessEnds
        <5> QED  BY <1>1, <5>1 DEF StageTypes, StressTypes, RestTypes
      <4> QED  BY <4>1, <4>2
    <3> QED  BY <1>13, <3>1, <3>2
  <2>5. OutcomeTypes'
    <3>1. label' = label
      BY <2>1 DEF intent
    <3>2. CASE outcome' = outcome
      BY <1>1, <3>1, <3>2 DEF outcome, OutcomeTypes
    <3>3. CASE ProcessEnds /\ outcome' # outcome
      <4>1. left > 0 /\ WriteRecord("stress", total, shots')
        BY <3>3 DEF ProcessEnds, InStress
      <4>2. shots' \in Nat /\ total \in Nat
        BY <1>1, <2>4 DEF StressTypes
      <4> QED  BY <1>1, <3>1, <4>1, <4>2, Labelled, RecordTypes DEF OutcomeTypes
    <3>4. CASE LoopEnds
      <4>1. WriteRecord("loop", laps', 0) /\ Head(proc) = "loop"
        BY <3>4 DEF LoopEnds, Ends
      <4>2. LoopQueued
        BY <1>1, <2>1, <4>1, TakenOff
      <4> QED  BY <1>1, <2>4, <3>1, <4>1, <4>2, Labelled, RecordTypes DEF OutcomeTypes
    <3> QED
      BY <1>13, <3>2, <3>3, <3>4 DEF ProcStep, InitEnds, StressBegins, ProcessFails, EmuEnds
  <2> QED
    BY <1>1, <2>1, <2>2, <2>3, <2>4, <2>5 DEF camera, burst, intent, BurstTypes, CameraTypes, StageTypes,
       IntentTypes, ProcTypes, RestTypes
<1>14. CASE UNCHANGED vars
  BY <1>1, <1>14 DEF vars, camera, burst, stage, stress, intent, procVars, outcome, BurstTypes, CameraTypes,
     StageTypes, StressTypes, IntentTypes, ProcTypes, OutcomeTypes, RestTypes
<1> QED
  BY <1>3, <1>4, <1>5, <1>6, <1>7, <1>8, <1>9, <1>10, <1>11, <1>12, <1>13, <1>14
     DEF Next, UiStep, CamStep, OnBurst

-----------------------------------------------------------------------------
(* One experiment, one record *)

\* Nothing of an experiment is anywhere.
Nowhere ==
  idles = 0 /\ ~captureOnly /\ ~hold /\ ~LoopQueued /\ ~StressQueued /\ left = 0

\* A step that starts nothing and records nothing.
LEMMA Quiet ==
  ASSUME IInv, ~gaveUp, UNCHANGED <<pending, awaiting, label, asked, records, idles, stress>>,
         captureOnly' => captureOnly, hold' => hold,
         LoopQueued' => LoopQueued, StressQueued' => StressQueued, QueuedOnce => QueuedOnce'
  PROVE  OneExperiment' /\ RecordsSoFar'
<1>1. OneExperiment /\ RecordsSoFar
  BY DEF IInv
<1>2. Mode' = Mode
  BY DEF Mode
<1>3. OneExperiment'
  BY <1>1, <1>2 DEF OneExperiment, stress
<1>4. RecordsSoFar'
  BY <1>1 DEF RecordsSoFar
<1> QED  BY <1>3, <1>4

\* What runPendingWhenReady begins.
LEMMA Begins ==
  ASSUME IInv, NEW a, NEW t, RunPending(a, t), Nowhere, QueuedOnce
  PROVE  /\ pending' \in {a, "none"}
         /\ idles' > 0 => a = "idle" /\ idles' = 1 /\ pending' = "none"
         /\ captureOnly' => a = "capture" /\ pending' = "none"
         /\ hold' => a = "loop" /\ pending' = "none"
         /\ ~LoopQueued'
         /\ StressQueued' => a = "stress" /\ pending' = "none"
         /\ QueuedOnce'
<1>1. CASE Runnable(a)
  <2>1. /\ pending' = "none"
        /\ hold' = (hold \/ a = "loop")
        /\ captureOnly' = (captureOnly \/ a = "capture")
        /\ idles' = idles + (IF a = "idle" THEN 1 ELSE 0)
        /\ proc' = IF a \in {"stress", "emu"} THEN Append(proc, a) ELSE proc
    BY <1>1 DEF RunPending
  <2>2. idles' = IF a = "idle" THEN 1 ELSE 0
    BY <2>1 DEF Nowhere
  <2>3. ~LoopQueued' /\ (StressQueued' => a = "stress") /\ QueuedOnce'
    <3>1. CASE a \in {"stress", "emu"}
      <4>1. a \in Messages /\ proc' = Append(proc, a) /\ a # "loop"
        BY <2>1, <3>1 DEF Messages
      <4> QED  BY <4>1, Appended DEF IInv, Nowhere
    <3>2. CASE a \notin {"stress", "emu"}
      BY <2>1, <3>2 DEF Nowhere, LoopQueued, StressQueued, QueuedOnce
    <3> QED  BY <3>1, <3>2
  <2>4. (captureOnly' => a = "capture") /\ (hold' => a = "loop")
    BY <2>1 DEF Nowhere
  <2> QED  BY <2>1, <2>2, <2>3, <2>4
<1>2. CASE ~Runnable(a)
  <2>1. pending' = a /\ UNCHANGED <<stage, proc>>
    BY <1>2 DEF RunPending
  <2> QED  BY <2>1 DEF Nowhere, stage, LoopQueued, StressQueued, QueuedOnce
<1> QED  BY <1>1, <1>2

\* Appending keeps the elements and adds one.
LEMMA AppendIs ==
  ASSUME NEW R, NEW s \in Seq(R), NEW r
  PROVE  \A i \in DOMAIN Append(s, r) :
           \/ i \in DOMAIN s /\ Append(s, r)[i] = s[i]
           \/ i = Len(s) + 1 /\ Append(s, r)[i] = r
  OBVIOUS

\* The record of the experiment that was awaited.
LEMMA RecordIsOwn ==
  ASSUME IInv, ~gaveUp, NEW m \in Experiments, Mode = m, NEW k, NEW e,
         m = "stress" => k = total /\ e = total,
         WriteRecord(m, k, e), label' = label, asked' = asked
  PROVE  RecordsSoFar' /\ awaiting' = Nobody
<1> DEFINE r == [label |-> label, mode |-> m, iters |-> k, shots |-> e]
<1>1. OneExperiment /\ RecordsSoFar /\ awaiting \in {Nobody, label} /\ label \in Nat
  BY DEF IInv, TypeOK
<1>2. awaiting # Nobody /\ awaiting = label /\ asked[label].mode = m
  BY <1>1 DEF Mode, Experiments
<1>3. label \in Nat \ {0} /\ (m = "stress" => k = asked[label].count /\ e = asked[label].count)
  BY <1>1, <1>2 DEF OneExperiment, Nobody
<1>4. records' = Append(records, r) /\ awaiting' = Nobody
  BY DEF WriteRecord
<1>5. r.label = label /\ r.mode = m /\ r.iters = k /\ r.shots = e
  OBVIOUS
<1> HIDE DEF r
<1>6. \A i \in DOMAIN records' :
        (i \in DOMAIN records /\ records'[i] = records[i]) \/ (i = Len(records) + 1 /\ records'[i] = r)
  <2> DEFINE R == [label : Labels, mode : Experiments, iters : Nat, shots : Nat]
  <2>1. records \in Seq(R)
    BY DEF IInv, TypeOK
  <2> HIDE DEF R
  <2> QED  BY <1>4, <2>1, AppendIs
<1>7. \A i \in DOMAIN records :
        /\ records[i].label \in 1 .. label /\ records[i].label # label
        /\ records[i].mode = asked[records[i].label].mode
        /\ records[i].mode = "stress" =>
             records[i].iters = asked[records[i].label].count /\ records[i].shots = asked[records[i].label].count
  BY <1>1, <1>2 DEF RecordsSoFar
<1>8. /\ r.label \in 1 .. label /\ r.mode = asked[r.label].mode
      /\ r.mode = "stress" => r.iters = asked[r.label].count /\ r.shots = asked[r.label].count
  BY <1>2, <1>3, <1>5
<1>9. \A i \in DOMAIN records' :
        LET x == records'[i] IN
          /\ x.label \in 1 .. label /\ x.label # Nobody
          /\ x.mode = asked[x.label].mode
          /\ x.mode = "stress" => x.iters = asked[x.label].count /\ x.shots = asked[x.label].count
  BY <1>3, <1>6, <1>7, <1>8 DEF Nobody
<1>10. ASSUME NEW i \in DOMAIN records', NEW j \in DOMAIN records', records'[i].label = records'[j].label
       PROVE  i = j
  <2>1. CASE i \in DOMAIN records /\ j \in DOMAIN records /\ records'[i] = records[i] /\ records'[j] = records[j]
    BY <1>1, <1>10, <2>1 DEF RecordsSoFar
  <2>2. CASE i = Len(records) + 1 /\ j = Len(records) + 1
    BY <2>2
  <2> QED  BY <1>5, <1>6, <1>7, <1>10, <2>1, <2>2
<1> QED  BY <1>4, <1>9, <1>10 DEF RecordsSoFar

\* An intent finds nothing of another experiment.
LEMMA IntentKeeps ==
  ASSUME IInv, ~gaveUp, NEW a \in Actions, NEW count \in Counts \cup {Default}, Intent(a, count)
  PROVE  OneExperiment' /\ RecordsSoFar'
<1>1. OneExperiment /\ RecordsSoFar /\ label = Len(asked) /\ label \in Nat /\ left \in Nat /\ idles \in Nat
  BY DEF IInv, TypeOK
<1>2. /\ awaiting = Nobody /\ RunPending(a, retries) /\ total' = count /\ label' = Len(asked) + 1
      /\ asked' = Append(asked, [mode |-> a, count |-> count])
      /\ awaiting' = (IF a \in Experiments THEN Len(asked) + 1 ELSE Nobody)
      /\ left' = left /\ shots' = shots /\ records' = records
  BY DEF Intent
<1>3. Mode = "none" /\ Nowhere /\ QueuedOnce
  BY <1>1, <1>2 DEF Mode, OneExperiment, Nowhere
<1>4. \A i \in 1 .. label : asked'[i] = asked[i]
  BY <1>1, <1>2 DEF IInv, TypeOK
<1>5. asked'[label'].mode = a /\ asked'[label'].count = count
  <2> DEFINE r == [mode |-> a, count |-> count]
  <2>1. r.mode = a /\ r.count = count /\ asked' = Append(asked, r)
    BY <1>2
  <2> HIDE DEF r
  <2>2. asked'[label'] = r
    BY <1>1, <1>2, <2>1 DEF IInv, TypeOK
  <2> QED  BY <2>1, <2>2
<1>6. a \in Experiments => Mode' = a
  BY <1>1, <1>2, <1>5 DEF Mode, Nobody
<1>7. /\ pending' \in {a, "none"}
      /\ idles' > 0 => a = "idle" /\ idles' = 1 /\ pending' = "none"
      /\ captureOnly' => a = "capture" /\ pending' = "none"
      /\ hold' => a = "loop" /\ pending' = "none"
      /\ ~LoopQueued'
      /\ StressQueued' => a = "stress" /\ pending' = "none"
      /\ QueuedOnce'
  BY <1>2, <1>3, Begins
<1>8. left' = 0
  BY <1>2, <1>3 DEF Nowhere
<1>9. OneExperiment'
  BY <1>2, <1>5, <1>6, <1>7, <1>8 DEF OneExperiment, Experiments
<1>10. RecordsSoFar'
  <2>1. \A i \in DOMAIN records : records[i].label \in 1 .. label
    BY <1>1 DEF RecordsSoFar
  <2>2. \A x \in 1 .. label : x \in 1 .. label' /\ x # awaiting'
    BY <1>1, <1>2 DEF Nobody
  <2> QED  BY <1>1, <1>2, <1>4, <2>1, <2>2 DEF RecordsSoFar
<1> QED  BY <1>9, <1>10

\* A timer that finds something to begin begins the experiment awaited, of which
\* nothing has begun.
LEMMA RetryKeeps ==
  ASSUME IInv, ~gaveUp, Retry
  PROVE  OneExperiment' /\ RecordsSoFar'
<1>1. OneExperiment /\ RecordsSoFar /\ pending \in Actions \cup {"none"} /\ left \in Nat /\ idles \in Nat
  BY DEF IInv, TypeOK
<1>2. /\ RunPending(pending, retries - 1)
      /\ UNCHANGED <<stress, label, asked, awaiting, records>>
  BY DEF Retry, outcome
<1>3. Mode' = Mode
  BY <1>2 DEF Mode
<1>4. RecordsSoFar'
  BY <1>1, <1>2 DEF RecordsSoFar
<1>5. CASE pending \in Experiments
  <2>1. pending = Mode /\ Nowhere /\ QueuedOnce
    BY <1>1, <1>5 DEF OneExperiment, Nowhere
  <2>2. /\ pending' \in {pending, "none"}
        /\ idles' > 0 => pending = "idle" /\ idles' = 1 /\ pending' = "none"
        /\ captureOnly' => pending = "capture" /\ pending' = "none"
        /\ hold' => pending = "loop" /\ pending' = "none"
        /\ ~LoopQueued'
        /\ StressQueued' => pending = "stress" /\ pending' = "none"
        /\ QueuedOnce'
    BY <1>2, <2>1, Begins
  <2>3. left' = 0
    BY <1>2, <2>1 DEF Nowhere, stress
  <2>4. awaiting # Nobody => total' = asked[label].count
    BY <1>1, <1>2 DEF OneExperiment, stress
  <2>5. OneExperiment'
    BY <1>2, <1>3, <2>1, <2>2, <2>3, <2>4 DEF OneExperiment, Experiments
  <2> QED  BY <1>4, <2>5
<1>6. CASE pending \notin Experiments
  <2>1. /\ pending' \in {pending, "none"} /\ idles' = idles
        /\ hold' = hold /\ captureOnly' = captureOnly
        /\ proc' = proc \/ proc' = Append(proc, "emu")
    <3>1. CASE Runnable(pending)
      <4>1. /\ pending' = "none"
            /\ hold' = (hold \/ pending = "loop") /\ captureOnly' = (captureOnly \/ pending = "capture")
            /\ idles' = idles + (IF pending = "idle" THEN 1 ELSE 0)
            /\ proc' = IF pending \in {"stress", "emu"} THEN Append(proc, pending) ELSE proc
        BY <1>2, <3>1 DEF RunPending
      <4>2. idles' = idles /\ (proc' = proc \/ proc' = Append(proc, "emu"))
        BY <1>1, <1>6, <4>1 DEF Experiments
      <4>3. hold' = hold /\ captureOnly' = captureOnly
        <5>1. hold \in BOOLEAN /\ captureOnly \in BOOLEAN
          BY DEF IInv, TypeOK
        <5> QED  BY <1>6, <4>1, <5>1 DEF Experiments
      <4> QED  BY <4>1, <4>2, <4>3
    <3>2. CASE ~Runnable(pending)
      BY <1>2, <3>2 DEF RunPending, stage
    <3> QED  BY <3>1, <3>2
  <2>2. (LoopQueued' => LoopQueued) /\ (StressQueued' => StressQueued) /\ (QueuedOnce => QueuedOnce')
    <3>1. CASE proc' = proc
      BY <3>1 DEF LoopQueued, StressQueued, QueuedOnce
    <3>2. CASE proc' = Append(proc, "emu")
      BY <3>2, Appended DEF IInv, Messages
    <3> QED  BY <2>1, <3>1, <3>2
  <2>3. OneExperiment'
    BY <1>1, <1>2, <1>3, <1>6, <2>1, <2>2 DEF OneExperiment, Experiments, stress
  <2> QED  BY <1>4, <2>3
<1> QED  BY <1>5, <1>6

\* An experiment that ends was the only one, in its last place, and writes its
\* own record.
LEMMA EndKeeps ==
  ASSUME IInv, ~gaveUp, IdleEnds \/ OnBurstCounted \/ LoopEnds \/ ProcessEnds
  PROVE  OneExperiment' /\ RecordsSoFar'
<1>1. /\ OneExperiment /\ RecordsSoFar /\ QueuedOnce /\ TypeOK
      /\ idles \in Nat /\ left \in Nat /\ shots \in Nat /\ total \in Nat
  BY DEF IInv, TypeOK, OneExperiment
<1>2. label' = label /\ asked' = asked /\ pending' = pending /\ total' = total
  BY DEF IdleEnds, OnBurstCounted, LoopEnds, ProcessEnds, Ends, intent, stress
<1>3. ASSUME awaiting' = Nobody
      PROVE  Mode' = "none"
  BY <1>3 DEF Mode
<1>4. CASE IdleEnds
  <2>1. Mode = "idle" /\ idles = 1 /\ pending # "idle"
    BY <1>1, <1>4 DEF IdleEnds, OneExperiment
  <2>2. WriteRecord("idle", 0, 0) /\ idles' = 0
    BY <1>1, <1>4, <2>1 DEF IdleEnds
  <2>3. RecordsSoFar' /\ awaiting' = Nobody
    BY <1>2, <2>1, <2>2, RecordIsOwn DEF Experiments
  <2>4. hold' = hold /\ captureOnly' = captureOnly /\ left' = left /\ proc' = proc
    BY <1>4 DEF IdleEnds, stress, procVars
  <2>5. pending' \notin Experiments /\ ~hold' /\ ~captureOnly' /\ left' = 0 /\ ~LoopQueued' /\ ~StressQueued' /\ QueuedOnce'
    BY <1>1, <1>2, <2>1, <2>4 DEF OneExperiment, LoopQueued, StressQueued, QueuedOnce
  <2> QED  BY <2>2, <2>3, <2>5 DEF OneExperiment
<1>5. CASE OnBurstCounted
  <2>1. captureOnly /\ hold' = hold /\ idles' = idles /\ left' = left /\ shots' = shots /\ proc' = proc
    BY <1>5 DEF OnBurstCounted, stress, procVars
  <2>2. Mode = "capture" /\ pending # "capture"
    BY <1>1, <2>1 DEF OneExperiment
  <2>3. pending' \notin Experiments /\ ~hold' /\ idles' = 0 /\ left' = 0 /\ ~LoopQueued' /\ ~StressQueued' /\ QueuedOnce'
    BY <1>1, <1>2, <2>1, <2>2 DEF OneExperiment, LoopQueued, StressQueued, QueuedOnce
  <2>4. CASE UNCHANGED <<captureOnly, outcome>>
    <3>1. awaiting' = awaiting /\ records' = records /\ captureOnly' = captureOnly
      BY <2>4 DEF outcome
    <3>2. Mode' = Mode
      BY <1>2, <3>1 DEF Mode
    <3> QED  BY <1>1, <1>2, <2>2, <2>3, <3>1, <3>2 DEF OneExperiment, RecordsSoFar
  <2>5. CASE captureOnly' = FALSE /\ WriteRecord("capture", laps', 0)
    <3>1. RecordsSoFar' /\ awaiting' = Nobody
      BY <1>2, <2>2, <2>5, RecordIsOwn DEF Experiments
    <3> QED  BY <2>3, <2>5, <3>1 DEF OneExperiment
  <2> QED  BY <1>5, <2>4, <2>5 DEF OnBurstCounted
<1>6. CASE LoopEnds
  <2>1. /\ proc # <<>> /\ Head(proc) = "loop" /\ proc' = Tail(proc) /\ WriteRecord("loop", laps', 0)
        /\ hold' = hold /\ captureOnly' = captureOnly /\ idles' = idles /\ left' = left
    BY <1>6 DEF LoopEnds, Ends, stress
  <2>2. LoopQueued /\ ~LoopQueued' /\ QueuedOnce' /\ (StressQueued' => StressQueued)
    BY <1>1, <2>1, TakenOff
  <2>3. Mode = "loop" /\ pending # "loop" /\ ~hold
    BY <1>1, <2>2 DEF OneExperiment
  <2>4. RecordsSoFar' /\ awaiting' = Nobody
    BY <1>2, <2>1, <2>3, RecordIsOwn DEF Experiments
  <2>5. pending' \notin Experiments /\ ~hold' /\ ~captureOnly' /\ idles' = 0 /\ left' = 0 /\ ~StressQueued'
    BY <1>1, <1>2, <2>1, <2>2, <2>3 DEF OneExperiment
  <2> QED  BY <2>2, <2>4, <2>5 DEF OneExperiment
<1>7. CASE ProcessEnds /\ InStress(left)
  <2>1. /\ proc # <<>> /\ proc' = Tail(proc) /\ left > 0 /\ left' = left - 1 /\ shots' = shots + 1
        /\ hold' = hold /\ captureOnly' = captureOnly /\ idles' = idles
        /\ IF left' > 0 THEN outcome' = outcome ELSE WriteRecord("stress", total, shots')
    BY <1>7 DEF ProcessEnds, Ends, InStress
  <2>2. QueuedOnce' /\ (LoopQueued' => LoopQueued) /\ (StressQueued' => StressQueued)
    BY <1>1, <2>1, TakenOff
  <2>3. Mode = "stress" /\ pending # "stress" /\ shots + left = total /\ ~StressQueued
    BY <1>1, <2>1 DEF OneExperiment
  <2>4. /\ pending' \notin Experiments /\ ~hold' /\ ~captureOnly' /\ idles' = 0
        /\ ~LoopQueued' /\ ~StressQueued'
    BY <1>1, <1>2, <2>1, <2>2, <2>3 DEF OneExperiment
  <2>5. shots' + left' = total /\ left' \in Nat
    BY <1>1, <2>1, <2>3
  <2>6. CASE left' > 0
    <3>1. awaiting' = awaiting /\ records' = records
      BY <2>1, <2>6 DEF outcome
    <3>2. Mode' = Mode
      BY <1>2, <3>1 DEF Mode
    <3> QED  BY <1>1, <1>2, <2>2, <2>3, <2>4, <2>5, <3>1, <3>2 DEF OneExperiment, RecordsSoFar, Experiments
  <2>7. CASE ~(left' > 0)
    <3>1. left' = 0 /\ shots' = total
      BY <1>1, <2>1, <2>5, <2>7
    <3>2. RecordsSoFar' /\ awaiting' = Nobody
      BY <1>2, <2>1, <2>3, <2>7, <3>1, RecordIsOwn DEF Experiments
    <3> QED  BY <2>2, <2>4, <3>1, <3>2 DEF OneExperiment
  <2> QED  BY <2>6, <2>7
<1>8. CASE ProcessEnds /\ ~InStress(left)
  <2>1. /\ proc # <<>> /\ proc' = Tail(proc)
        /\ UNCHANGED <<hold, captureOnly, idles, stress, awaiting, records>>
    BY <1>2, <1>8 DEF ProcessEnds, Ends, outcome, stress
  <2> QED  BY <1>1, <1>2, <2>1, TakenOff, Quiet
<1> QED  BY <1>4, <1>5, <1>6, <1>7, <1>8

\* Every step keeps the experiment one and its records whole.
LEMMA ExperimentStep ==
  ASSUME IInv, [Next]_vars, ~gaveUp'
  PROVE  OneExperiment' /\ RecordsSoFar'
<1>1. ~gaveUp
  <2>1. gaveUp' = gaveUp \/ GiveUp
    BY DEF Next, vars, UiStep, CamStep, OnBurst, ProcStep, Press, PressEmu, Intent, Retry, PostedShoot, IdleEnds,
       SurfaceCreated, SurfaceDestroyed, CameraOpens, PreviewResult, BurstEnds, BurstIsLost, OnBurstHeld,
       OnBurstCounted, OnBurstProcessed, Ends, InitEnds, EmuEnds, StressBegins, ProcessFails, ProcessEnds,
       LoopEnds, intent
  <2> QED  BY <2>1 DEF GiveUp
<1>2. ~GiveUp
  BY DEF GiveUp
<1>3. OneExperiment /\ RecordsSoFar /\ TypeOK /\ QueuedOnce
  BY <1>1 DEF IInv, OneExperiment
<1>4. CASE \/ Press \/ PressEmu \/ PostedShoot \/ SurfaceCreated \/ SurfaceDestroyed \/ CameraOpens
           \/ PreviewResult \/ BurstEnds \/ BurstIsLost \/ OnBurstProcessed \/ UNCHANGED vars
  <2>1. /\ UNCHANGED <<pending, awaiting, label, asked, records, idles, stress, captureOnly, hold>>
        /\ proc' = proc \/ \E p \in {"emu", "init", "process"} : proc' = Append(proc, p)
    BY <1>4 DEF Press, PressEmu, PostedShoot, SurfaceCreated, SurfaceDestroyed, CameraOpens, PreviewResult,
       BurstEnds, BurstIsLost, OnBurstProcessed, vars, stage, intent, procVars, outcome
  <2>2. (LoopQueued' => LoopQueued) /\ (StressQueued' => StressQueued) /\ (QueuedOnce => QueuedOnce')
    <3>1. CASE proc' = proc
      BY <3>1 DEF LoopQueued, StressQueued, QueuedOnce
    <3>2. ASSUME NEW p \in {"emu", "init", "process"}, proc' = Append(proc, p)
          PROVE  (LoopQueued' => LoopQueued) /\ (StressQueued' => StressQueued) /\ (QueuedOnce => QueuedOnce')
      BY <1>3, <3>2, Appended DEF Messages
    <3> QED  BY <2>1, <3>1, <3>2
  <2> QED  BY <1>1, <2>1, <2>2, Quiet
<1>5. CASE InitEnds \/ ProcessFails \/ \E found \in BOOLEAN : EmuEnds(found)
  <2>1. /\ UNCHANGED <<pending, awaiting, label, asked, records, idles, stress, captureOnly, hold>>
        /\ proc # <<>> /\ proc' = Tail(proc)
    BY <1>5 DEF InitEnds, ProcessFails, EmuEnds, Ends, intent, outcome
  <2> QED  BY <1>1, <1>3, <2>1, TakenOff, Quiet
<1>6. CASE OnBurstHeld
  <2>1. /\ hold /\ ~hold' /\ proc' = Append(proc, "loop")
        /\ UNCHANGED <<pending, awaiting, label, asked, records, idles, stress, captureOnly>>
    BY <1>6 DEF OnBurstHeld, intent, outcome
  <2>2. Mode = "loop" /\ pending # "loop" /\ ~LoopQueued /\ Mode' = Mode
    BY <1>3, <2>1 DEF OneExperiment, Mode
  <2>3. (StressQueued' => StressQueued) /\ QueuedOnce'
    BY <1>3, <2>1, <2>2, Appended DEF Messages
  <2> QED  BY <1>3, <2>1, <2>2, <2>3 DEF OneExperiment, RecordsSoFar, stress
<1>7. CASE StressBegins
  <2>1. /\ proc # <<>> /\ Head(proc) = "stress" /\ proc' = Tail(proc)
        /\ shots' = 0 /\ left' = total /\ total' = total
        /\ UNCHANGED <<pending, awaiting, label, asked, records, idles, captureOnly, hold>>
    BY <1>7 DEF StressBegins, Ends, Emptied, intent, outcome
  <2>2. StressQueued /\ ~StressQueued' /\ (LoopQueued' => LoopQueued) /\ QueuedOnce'
    BY <1>3, <2>1, TakenOff
  <2>3. Mode = "stress" /\ pending # "stress" /\ Mode' = Mode
    BY <1>3, <2>1, <2>2 DEF OneExperiment, Mode
  <2>4. shots' + left' = total
    BY <1>3, <2>1 DEF TypeOK
  <2> QED  BY <1>3, <2>1, <2>2, <2>3, <2>4 DEF OneExperiment, RecordsSoFar
<1> QED
  BY <1>1, <1>2, <1>4, <1>5, <1>6, <1>7, IntentKeeps, RetryKeeps, EndKeeps
  DEF Next, UiStep, CamStep, OnBurst, ProcStep

\* A label is given to an intent, and the script gives up on an experiment that has one.
LEMMA LabelStep ==
  ASSUME IInv, [Next]_vars
  PROVE  LabelFits'
<1>1. /\ LabelFits /\ label \in Nat /\ label = Len(asked) /\ MaxIntents \in Nat /\ awaiting \in {Nobody, label}
  BY SessionAssumption DEF IInv, TypeOK
<1>2. CASE \E a \in Actions, count \in Counts \cup {Default} : Intent(a, count)
  BY <1>1, <1>2 DEF Intent, LabelFits, Nobody
<1>3. CASE GiveUp
  BY <1>1, <1>3 DEF GiveUp, LabelFits
<1>4. ASSUME ~\E a \in Actions, count \in Counts \cup {Default} : Intent(a, count), ~GiveUp
      PROVE  label' = label /\ gaveUp' = gaveUp
  BY <1>4 DEF Next, vars, UiStep, CamStep, OnBurst, ProcStep, Press, PressEmu, Retry, PostedShoot, IdleEnds,
     SurfaceCreated, SurfaceDestroyed, CameraOpens, PreviewResult, BurstEnds, BurstIsLost, OnBurstHeld,
     OnBurstCounted, OnBurstProcessed, Ends, InitEnds, EmuEnds, StressBegins, ProcessFails, ProcessEnds,
     LoopEnds, intent
<1> QED  BY <1>1, <1>2, <1>3, <1>4 DEF LabelFits

-----------------------------------------------------------------------------
(* The record that is awaited *)

\* A message more: none is lost.
LEMMA QueueGrows ==
  ASSUME TypeOK, NEW p \in Messages, proc' = Append(proc, p)
  PROVE  Queued(p)' /\ \A m : Queued(m) => Queued(m)'
<1>1. proc \in Seq(Messages)
  BY DEF TypeOK
<1>2. Len(proc) \in Nat /\ Len(proc') = Len(proc) + 1 /\ proc' \in Seq(Messages)
  BY <1>1
<1>3. /\ Len(proc) + 1 \in DOMAIN proc' /\ proc'[Len(proc) + 1] = p
      /\ \A i \in DOMAIN proc : i \in DOMAIN proc' /\ proc'[i] = proc[i]
  BY <1>1, <1>2
<1> QED  BY <1>3 DEF Queued

\* A message done: only that one goes.
LEMMA QueueShrinks ==
  ASSUME TypeOK, proc # <<>>, proc' = Tail(proc)
  PROVE  \A m : m # Head(proc) /\ Queued(m) => Queued(m)'
<1>1. proc \in Seq(Messages) /\ Len(proc) \in Nat \ {0} /\ Head(proc) = proc[1]
  BY DEF TypeOK
<1>2. proc' \in Seq(Messages) /\ Len(proc') = Len(proc) - 1
  BY <1>1
<1> SUFFICES ASSUME NEW m, m # Head(proc), NEW i \in DOMAIN proc, proc[i] = m
             PROVE  Queued(m)'
  BY DEF Queued
<1>3. i \in 1 .. Len(proc) /\ i # 1
  BY <1>1
<1>4. i - 1 \in 1 .. Len(proc')
  BY <1>1, <1>2, <1>3
<1>5. i - 1 \in DOMAIN proc' /\ proc'[i - 1] = proc[i]
  BY <1>1, <1>2, <1>3, <1>4
<1> QED  BY <1>5 DEF Queued

\* A step that takes nothing away that the experiment goes on from.
LEMMA GoesOnStill ==
  ASSUME GoesOn, UNCHANGED <<asked, label>>,
         pending = asked[label].mode => UNCHANGED <<pending, retries>>,
         idles > 0 => idles' > 0, left > 0 => left' > 0,
         hold => hold', captureOnly => captureOnly',
         current \/ handing => current' \/ handing',
         posted > 0 => posted' > 0 \/ current',
         \A m \in {"loop", "stress", "process"} : Queued(m) => Queued(m)'
  PROVE  GoesOn'
BY DEF GoesOn

\* What is to begin does, unless its shot finds no camera, or is looked at again.
LEMMA BegunGoesOn ==
  ASSUME TypeOK, NEW a \in Experiments, NEW k \in Nat, RunPending(a, k), ~Refused(a)
  PROVE  \/ idles' > 0 \/ Queued("stress")' \/ (hold' /\ current') \/ (captureOnly' /\ current')
         \/ pending' = a /\ retries' > 0
<1>1. a # "none" /\ idles \in Nat /\ current \in BOOLEAN
  BY DEF TypeOK, Experiments
<1>2. CASE ~Runnable(a)
  BY <1>1, <1>2 DEF RunPending
<1>3. CASE Runnable(a)
  <2>1. /\ proc' = (IF a \in {"stress", "emu"} THEN Append(proc, a) ELSE proc)
        /\ hold' = (hold \/ a = "loop") /\ captureOnly' = (captureOnly \/ a = "capture")
        /\ idles' = idles + (IF a = "idle" THEN 1 ELSE 0)
        /\ Shoots(a) => Shoot
    BY <1>3 DEF RunPending
  <2>2. Shoots(a) => current'
    <3> SUFFICES ASSUME Shoots(a) PROVE current'
      OBVIOUS
    <3>1. HasCamera
      BY <1>3 DEF Refused
    <3> QED  BY <2>1, <3>1 DEF Shoot, Accepted
  <2>3. CASE a = "idle"
    BY <1>1, <2>1, <2>3
  <2>4. CASE a = "stress"
    <3>1. proc' = Append(proc, "stress") /\ "stress" \in Messages
      BY <2>1, <2>4 DEF Messages
    <3> QED  BY <3>1, QueueGrows
  <2>5. CASE a \in {"loop", "capture"}
    BY <2>1, <2>2, <2>5 DEF Shoots
  <2> QED  BY <2>3, <2>4, <2>5 DEF Experiments
<1> QED  BY <1>2, <1>3

\* What is awaited is an experiment.
Awaited == awaiting # Nobody => asked[label].mode \in Experiments

\* An intent begins its experiment or is looked at again.
LEMMA IntentGoesOn ==
  ASSUME IInv, NEW a \in Actions, NEW count \in Counts \cup {Default}, Intent(a, count),
         awaiting' # Nobody
  PROVE  (~broken' => GoesOn') /\ Awaited'
<1>1. /\ a \in Experiments /\ RunPending(a, retries) /\ broken' = Refused(a) /\ TypeOK /\ retries \in Nat
      /\ label' = Len(asked) + 1 /\ asked' = Append(asked, [mode |-> a, count |-> count])
  BY DEF Intent, IInv, TypeOK
<1>2. asked'[label'].mode = a
  <2> DEFINE r == [mode |-> a, count |-> count]
  <2>1. r.mode = a /\ asked' = Append(asked, r)
    BY <1>1
  <2> HIDE DEF r
  <2>2. asked'[label'] = r
    BY <1>1, <2>1 DEF TypeOK
  <2> QED  BY <2>1, <2>2
<1>3. ASSUME ~Refused(a)  PROVE GoesOn'
  <2>1. \/ idles' > 0 \/ Queued("stress")' \/ (hold' /\ current') \/ (captureOnly' /\ current')
        \/ pending' = a /\ retries' > 0
    BY <1>1, <1>3, BegunGoesOn
  <2> QED  BY <1>2, <2>1 DEF GoesOn
<1> QED  BY <1>1, <1>2, <1>3 DEF Awaited

\* A timer that looks again does the same; one that finds nothing more to begin
\* leaves what has begun.
LEMMA RetryGoesOn ==
  ASSUME IInv, ~gaveUp, awaiting # Nobody, GoesOn, Awaited, Retry, ~broken'
  PROVE  GoesOn'
<1>1. /\ RunPending(pending, retries - 1) /\ ~Refused(pending) /\ TypeOK /\ retries - 1 \in Nat
      /\ idles \in Nat /\ pending \in Actions \cup {"none"}
      /\ asked' = asked /\ label' = label /\ posted' = posted /\ left' = left
  <2>1. /\ TypeOK /\ retries \in Nat /\ idles \in Nat /\ pending \in Actions \cup {"none"}
    BY TypeParts DEF IInv, StageTypes, IntentTypes
  <2>2. RunPending(pending, retries - 1) /\ retries > 0 /\ (broken' <=> broken \/ Refused(pending))
    BY DEF Retry
  <2>3. asked' = asked /\ label' = label /\ posted' = posted /\ left' = left
    BY DEF Retry, stress
  <2> QED  BY <2>1, <2>2, <2>3
<1>2. Mode = asked[label].mode /\ OneExperiment
  BY DEF Mode, IInv
<1>3. CASE pending \in Experiments
  <2>1. pending = asked[label].mode
    BY <1>2, <1>3 DEF OneExperiment
  <2>2. \/ idles' > 0 \/ Queued("stress")' \/ (hold' /\ current') \/ (captureOnly' /\ current')
        \/ pending' = pending /\ retries' > 0
    BY <1>1, <1>3, BegunGoesOn
  <2> QED  BY <1>1, <2>1, <2>2 DEF GoesOn
<1>4. CASE pending \notin Experiments
  <2>1. pending # asked[label].mode
    BY <1>4 DEF Awaited
  <2>2. /\ idles' >= idles /\ (hold => hold') /\ (captureOnly => captureOnly')
        /\ proc' = proc \/ \E p \in Messages : proc' = Append(proc, p)
    <3>1. CASE Runnable(pending)
      <4>1. /\ proc' = (IF pending \in {"stress", "emu"} THEN Append(proc, pending) ELSE proc)
            /\ hold' = (hold \/ pending = "loop") /\ captureOnly' = (captureOnly \/ pending = "capture")
            /\ idles' = idles + (IF pending = "idle" THEN 1 ELSE 0)
        BY <1>1, <3>1 DEF RunPending
      <4>2. idles' >= idles
        BY <1>1, <4>1
      <4>3. pending \in {"stress", "emu"} => pending \in Messages
        BY DEF Messages
      <4> QED  BY <4>1, <4>2, <4>3
    <3>2. CASE ~Runnable(pending)
      <4>1. UNCHANGED <<hold, captureOnly, idles, proc>>
        BY <1>1, <3>2 DEF RunPending, stage
      <4> QED  BY <1>1, <4>1
    <3> QED  BY <3>1, <3>2
  <2>3. current \/ handing => current' \/ handing'
    BY <1>1 DEF RunPending, Shoot, burst
  <2>4. \A m \in {"loop", "stress", "process"} : Queued(m) => Queued(m)'
    <3>1. CASE proc' = proc
      BY <3>1 DEF Queued
    <3>2. CASE \E p \in Messages : proc' = Append(proc, p)
      BY <1>1, <3>2, QueueGrows
    <3> QED  BY <2>2, <3>1, <3>2
  <2>5. idles > 0 => idles' > 0
    <3>1. idles' \in Nat
      BY <1>1 DEF RunPending, stage
    <3> QED  BY <1>1, <2>2, <3>1
  <2> QED  BY <1>1, <2>1, <2>2, <2>3, <2>4, <2>5, GoesOnStill
<1> QED  BY <1>3, <1>4

\* A burst that is handed over goes to the experiment it was shot for.
LEMMA HandedGoesOn ==
  ASSUME IInv, ~gaveUp, awaiting # Nobody, GoesOn, OnBurst, awaiting' # Nobody
  PROVE  GoesOn'
<1>1. /\ TypeOK /\ OneExperiment /\ asked' = asked /\ label' = label /\ pending' = pending
      /\ retries' = retries /\ idles' = idles /\ left' = left /\ current' = current /\ posted \in Nat
  BY DEF IInv, TypeOK, OnBurst, OnBurstHeld, OnBurstCounted, OnBurstProcessed, intent, stress, stage
<1>2. CASE OnBurstHeld
  <2>1. proc' = Append(proc, "loop") /\ "loop" \in Messages
    BY <1>2 DEF OnBurstHeld, Messages
  <2> QED  BY <1>1, <2>1, QueueGrows DEF GoesOn
<1>3. CASE OnBurstCounted
  <2>1. captureOnly' = captureOnly /\ captureOnly /\ posted' = posted + 1
    BY <1>3 DEF OnBurstCounted, WriteRecord
  <2> QED  BY <1>1, <2>1 DEF GoesOn
<1>4. CASE OnBurstProcessed
  <2>1. /\ ~hold /\ ~captureOnly /\ posted' = posted
        /\ proc' = Append(proc, "process") /\ "process" \in Messages
    BY <1>4 DEF OnBurstProcessed, Messages
  <2>2. Queued("process")' /\ \A m : Queued(m) => Queued(m)'
    BY <1>1, <2>1, QueueGrows
  <2> QED  BY <1>1, <2>1, <2>2 DEF GoesOn
<1> QED  BY <1>2, <1>3, <1>4 DEF OnBurst

\* A message of "proc" that is done is followed by what it began.
LEMMA ProcGoesOn ==
  ASSUME IInv, ~gaveUp, awaiting # Nobody, GoesOn, ProcStep, awaiting' # Nobody, ~broken'
  PROVE  GoesOn'
<1>1. /\ TypeOK /\ OneExperiment /\ asked' = asked /\ label' = label /\ pending' = pending
      /\ retries' = retries /\ idles' = idles /\ hold' = hold /\ captureOnly' = captureOnly
      /\ current' = current /\ handing' = handing /\ posted \in Nat /\ left \in Nat /\ total \in Nat
      /\ proc # <<>> /\ proc' = Tail(proc)
  BY DEF IInv, TypeOK, ProcStep, InitEnds, EmuEnds, StressBegins, ProcessFails, ProcessEnds, LoopEnds, Ends,
     burst, intent
<1>2. \A m : m # Head(proc) /\ Queued(m) => Queued(m)'
  BY <1>1, QueueShrinks
<1>3. CASE InitEnds \/ \E found \in BOOLEAN : EmuEnds(found)
  <2>1. Head(proc) \in {"init", "emu"} /\ left' = left /\ posted' = posted
    BY <1>3 DEF InitEnds, EmuEnds, Ends, stress
  <2>2. \A m \in {"loop", "stress", "process"} : Queued(m) => Queued(m)'
    BY <1>2, <2>1
  <2> QED  BY <1>1, <2>1, <2>2, GoesOnStill
\* The number of shots of a stress run is positive, so it has its first.
<1>4. CASE StressBegins
  <2>1. left' = total /\ posted' = posted + 1
    BY <1>4 DEF StressBegins
  <2>2. total > 0
    <3>1. /\ label = Len(asked) /\ asked \in Seq([mode : Actions, count : Counts \cup {Default}])
          /\ awaiting \in {Nobody, label}
      BY <1>1, TypeParts DEF IntentTypes, OutcomeTypes
    <3>2. label \in 1 .. Len(asked) /\ total = asked[label].count
      BY <1>1, <3>1 DEF OneExperiment, Nobody
    <3>3. asked[label] \in [mode : Actions, count : Counts \cup {Default}]
      <4> DEFINE Asked == [mode : Actions, count : Counts \cup {Default}]
      <4>1. asked \in Seq(Asked)
        BY <3>1
      <4> HIDE DEF Asked
      <4>2. asked[label] \in Asked
        BY <3>2, <4>1
      <4> QED  BY <4>2 DEF Asked
    <3>4. asked[label].count \in Counts \cup {Default}
      BY <3>3
    <3> QED  BY <3>2, <3>4, SessionAssumption
  <2> QED  BY <1>1, <2>1, <2>2 DEF GoesOn
<1>5. CASE ProcessEnds
  <2>1. Head(proc) = "process"
    BY <1>5 DEF ProcessEnds, Ends
  <2>2. CASE InStress(left)
    <3>1. left' > 0 /\ posted' = posted + 1
      BY <1>5, <2>2 DEF ProcessEnds, WriteRecord
    <3> QED  BY <1>1, <3>1 DEF GoesOn
  <2>3. CASE ~InStress(left)
    <3>1. left' = left /\ posted' = posted /\ ~(left > 0)
      BY <1>5, <2>3 DEF ProcessEnds, InStress
    <3>2. (Queued("loop") => Queued("loop")') /\ (Queued("stress") => Queued("stress")')
      BY <1>2, <2>1
    <3> QED  BY <1>1, <3>1, <3>2 DEF GoesOn
  <2> QED  BY <2>2, <2>3
<1>6. ~ProcessFails /\ ~LoopEnds
  BY DEF ProcessFails, LoopEnds, WriteRecord
<1> QED  BY <1>3, <1>4, <1>5, <1>6 DEF ProcStep

\* Every step keeps the awaited record on its way.
LEMMA WayStep ==
  ASSUME IInv, Awaited, RecordIsOnItsWay, [Next]_vars
  PROVE  Awaited' /\ RecordIsOnItsWay'
<1>1. CASE \E a \in Actions, count \in Counts \cup {Default} : Intent(a, count)
  <2>1. CASE awaiting' # Nobody
    BY <1>1, <2>1, IntentGoesOn DEF RecordIsOnItsWay
  <2> QED  BY <2>1 DEF Awaited, RecordIsOnItsWay
<1>2. ASSUME ~\E a \in Actions, count \in Counts \cup {Default} : Intent(a, count)
      PROVE  Awaited' /\ RecordIsOnItsWay'
  <2>1. /\ awaiting' \in {awaiting, Nobody} /\ asked' = asked /\ label' = label
        /\ (broken => broken') /\ (lost => lost') /\ (gaveUp => gaveUp')
    <3> DEFINE Still == /\ awaiting' \in {awaiting, Nobody} /\ asked' = asked /\ label' = label
                        /\ (broken => broken') /\ (lost => lost') /\ (gaveUp => gaveUp')
    <3>1. ASSUME Press \/ PressEmu \/ PostedShoot  PROVE Still
      <4>1. CASE Press
        BY <4>1 DEF Press, Shoot, intent, outcome
      <4>2. CASE PressEmu
        BY <4>2 DEF PressEmu, burst, intent, outcome
      <4>3. CASE PostedShoot
        BY <4>3 DEF PostedShoot, Shoot, intent, outcome
      <4> QED  BY <3>1, <4>1, <4>2, <4>3
    <3>2. ASSUME GiveUp \/ IdleEnds  PROVE Still
      BY <3>2 DEF GiveUp, IdleEnds, WriteRecord, burst, intent
    <3>3. ASSUME Retry  PROVE Still
      BY <3>3 DEF Retry, RunPending, Shoot, burst, outcome
    <3>4. ASSUME SurfaceCreated \/ SurfaceDestroyed \/ CameraOpens \/ PreviewResult  PROVE Still
      BY <3>4 DEF SurfaceCreated, SurfaceDestroyed, CameraOpens, PreviewResult, burst, intent, outcome
    <3>5. ASSUME BurstEnds \/ BurstIsLost  PROVE Still
      BY <3>5 DEF BurstEnds, BurstIsLost, intent, outcome
    <3>6. ASSUME OnBurst  PROVE Still
      BY <3>6 DEF OnBurst, OnBurstHeld, OnBurstCounted, OnBurstProcessed, WriteRecord, intent, outcome
    <3>7. ASSUME ProcStep  PROVE Still
      BY <3>7 DEF ProcStep, Ends, InitEnds, EmuEnds, StressBegins, ProcessFails, ProcessEnds, LoopEnds,
         WriteRecord, burst, intent, outcome
    <3>8. ASSUME UNCHANGED vars  PROVE Still
      BY <3>8 DEF vars, burst, intent, outcome
    <3> QED  BY <1>2, <3>1, <3>2, <3>3, <3>4, <3>5, <3>6, <3>7, <3>8 DEF Next, UiStep, CamStep
  <2>2. Awaited'
    BY <2>1 DEF Awaited
  <2> SUFFICES ASSUME ~gaveUp', awaiting' # Nobody, ~broken', ~lost'
               PROVE  GoesOn'
    BY <2>2 DEF RecordIsOnItsWay
  <2>3. ~gaveUp /\ awaiting # Nobody /\ GoesOn
    BY <2>1 DEF RecordIsOnItsWay
  <2>4. CASE Retry
    BY <2>3, <2>4, RetryGoesOn
  <2>5. CASE OnBurst
    BY <2>3, <2>5, HandedGoesOn
  <2>6. CASE ProcStep
    BY <2>3, <2>6, ProcGoesOn
  <2>7. ~GiveUp /\ ~IdleEnds /\ ~BurstIsLost
    BY DEF GiveUp, IdleEnds, BurstIsLost, WriteRecord
  <2>8. CASE \/ Press \/ PressEmu \/ PostedShoot \/ SurfaceCreated \/ SurfaceDestroyed \/ CameraOpens
             \/ PreviewResult \/ BurstEnds \/ UNCHANGED vars
    <3>1. /\ UNCHANGED <<asked, label, pending, retries, idles, left, hold, captureOnly>>
          /\ proc' = proc \/ \E p \in Messages : proc' = Append(proc, p)
      BY <2>8 DEF Press, PressEmu, PostedShoot, SurfaceCreated, SurfaceDestroyed, CameraOpens, PreviewResult,
         BurstEnds, vars, stage, stress, intent, procVars, Messages
    <3>2. current \/ handing => current' \/ handing'
      BY <2>8 DEF Press, PressEmu, PostedShoot, SurfaceCreated, SurfaceDestroyed, CameraOpens, PreviewResult,
         BurstEnds, vars, Shoot, burst
    <3>3. posted > 0 => posted' > 0 \/ current'
      <4>1. CASE PostedShoot
        <5>1. HasCamera
          BY <4>1 DEF PostedShoot
        <5> QED  BY <4>1, <5>1 DEF PostedShoot, Shoot, Accepted
      <4>2. CASE ~PostedShoot
        BY <2>8, <4>2 DEF Press, PressEmu, SurfaceCreated, SurfaceDestroyed, CameraOpens, PreviewResult,
           BurstEnds, vars
      <4> QED  BY <4>1, <4>2
    <3>4. \A m \in {"loop", "stress", "process"} : Queued(m) => Queued(m)'
      <4>1. CASE proc' = proc
        BY <4>1 DEF Queued
      <4>2. CASE \E p \in Messages : proc' = Append(proc, p)
        BY <4>2, QueueGrows DEF IInv
      <4> QED  BY <3>1, <4>1, <4>2
    <3> QED  BY <2>3, <3>1, <3>2, <3>3, <3>4, GoesOnStill
  <2> QED  BY <1>2, <2>4, <2>5, <2>6, <2>7, <2>8 DEF Next, UiStep, CamStep
<1> QED  BY <1>1, <1>2

-----------------------------------------------------------------------------
(* The theorems *)

\* Before anything is asked nothing is anywhere.
LEMMA InitIInv == Init => IInv
<1> SUFFICES ASSUME Init
             PROVE  IInv
  OBVIOUS
<1>1. MaxIntents \in Nat /\ 0 \in 0 .. MaxDowns /\ 0 \in 0 .. MaxPresses
  BY SessionAssumption
<1>2. TypeOK
  <2>1. <<>> \in Seq(Messages) /\ <<>> \in Seq([mode : Actions, count : Counts \cup {Default}])
        /\ <<>> \in Seq([label : Labels, mode : Experiments, iters : Nat, shots : Nat]) /\ Len(<<>>) = 0
    OBVIOUS
  <2> QED
    BY <1>1, <2>1, TypeParts DEF Init, BurstTypes, CameraTypes, StageTypes, StressTypes, IntentTypes,
       ProcTypes, OutcomeTypes, RestTypes, Nobody
<1>3. LabelFits
  BY <1>1 DEF Init, LabelFits, Nobody
<1>4. OneExperiment
  BY DEF Init, OneExperiment, LoopQueued, StressQueued, QueuedOnce, Experiments
<1>5. RecordsSoFar
  BY DEF Init, RecordsSoFar
<1> QED  BY <1>2, <1>3, <1>4, <1>5 DEF IInv

\* Every step keeps it.
LEMMA NextIInv == IInv /\ [Next]_vars => IInv'
BY TypeStep, LabelStep, ExperimentStep DEF IInv

\* The invariant of every session.
LEMMA Invariance == Spec => []IInv
BY InitIInv, NextIInv, PTL DEF Spec, Safety

\* Every variable has its type.
THEOREM TypeCorrect == Spec => []TypeOK
<1>1. IInv => TypeOK
  BY DEF IInv
<1> QED  BY <1>1, Invariance, PTL

\* Unless the script gives up on an experiment, each record is of the experiment
\* it is labelled with, a stress run's has the shots that were asked for, and no
\* experiment has two - whatever is pressed and whichever chains of shots cross.
THEOREM RecordsAreWholeHolds == Spec => []RecordsAreWhole
<1>1. IInv => RecordsAreWhole
  BY DEF IInv, RecordsSoFar, RecordsAreWhole
<1> QED  BY <1>1, Invariance, PTL

\* The record the script waits for is on its way: whatever is pressed and whichever
\* shots are refused, nothing breaks the chain of an experiment but a failure.
THEOREM RecordIsOnItsWayHolds == Spec => []RecordIsOnItsWay
<1>1. Init => Awaited /\ RecordIsOnItsWay
  BY DEF Init, Awaited, RecordIsOnItsWay, Nobody
<1>2. IInv /\ Awaited /\ RecordIsOnItsWay /\ [Next]_vars => Awaited' /\ RecordIsOnItsWay'
  BY WayStep
<1> QED  BY <1>1, <1>2, Invariance, PTL DEF Spec, Safety

\* Each experiment has its one record: it is whole or on its way.
THEOREM RecordsAddUpHolds == Spec => []RecordsAddUp
<1>1. RecordsAreWhole /\ RecordIsOnItsWay => RecordsAddUp
  BY DEF RecordsAddUp
<1> QED  BY <1>1, RecordsAreWholeHolds, RecordIsOnItsWayHolds, PTL

-----------------------------------------------------------------------------
(* The thermal policy: for any targets, limits and loads. *)

\* What process has stored since the device's heat last changed is that heat:
\* queries that fail leave it alone.
HeadroomIsCurrent == fresh => headroom = heat

ThermalInv == ThermalTypeOK /\ HeadroomIsCurrent

-----------------------------------------------------------------------------

\* The arithmetic stays within the integers, the divisors being positive.
LEMMA Arithmetic ==
  ASSUME ThermalTypeOK
  PROVE  /\ \A p \in Int : Smoothed(p) \in Int
         /\ \A e, k \in Int : Scaled(e, k) \in Int
         /\ \A k \in Nat : Time(k) \in Nat
         /\ \A h : Merged(h) \in Nat
<1>1. /\ n \in Nat \ {0} /\ ema \in Int
      /\ load.cost \in Nat /\ load.captured \in Nat /\ Fixed \in Nat
      /\ NMax \in Nat /\ NLow \in Nat /\ NMid \in Nat
  BY ThermalAssumption DEF ThermalTypeOK
<1>2. \A p \in Int : Smoothed(p) \in Int
  BY <1>1 DEF Smoothed
<1>3. \A e, k \in Int : Scaled(e, k) \in Int
  BY <1>1 DEF Scaled
<1>4. \A k \in Nat : Time(k) \in Nat
  <2>1. \A k \in Nat : load.cost * k \in Nat
    BY <1>1
  <2> QED
    BY <1>1, <2>1 DEF Time
<1>5. \A h : FramesFor(h) \in Nat
  BY <1>1 DEF FramesFor
<1>6. \A h : Merged(h) \in Nat
  BY <1>1, <1>5 DEF Merged, Least
<1> QED
  BY <1>2, <1>3, <1>4, <1>6

\* report moves the number of frames by at most one, within its limits.
LEMMA ReportType ==
  ASSUME ThermalTypeOK, NEW p \in Nat, Report(p)
  PROVE  /\ n' \in NMin .. NMax /\ ema' \in Int
         /\ dir' \in {"none", "up", "down"} /\ turns' \in Nat
<1>1. /\ n \in NMin .. NMax /\ NMin \in Nat /\ NMax \in Nat
      /\ n - 1 \in Int /\ n + 1 \in Int
      /\ dir \in {"none", "up", "down"} /\ turns \in Nat /\ turns + 1 \in Nat
  BY ThermalAssumption DEF ThermalTypeOK
<1>2. Smoothed(p) \in Int
  BY Arithmetic
<1>3. CASE AboveMin(n) /\ n' = n - 1 /\ ema' = Scaled(Smoothed(p), n - 1)
           /\ dir' = "down" /\ turns' \in {turns, turns + 1}
  <2>1. ema' \in Int
    BY <1>1, <1>2, <1>3, Arithmetic
  <2>2. n' \in NMin .. NMax
    BY <1>1, <1>3 DEF AboveMin
  <2> QED
    BY <1>1, <1>3, <2>1, <2>2
<1>4. CASE BelowMax(n) /\ n' = n + 1 /\ ema' = Scaled(Smoothed(p), n + 1)
           /\ dir' = "up" /\ turns' \in {turns, turns + 1}
  <2>1. ema' \in Int
    BY <1>1, <1>2, <1>4, Arithmetic
  <2>2. n' \in NMin .. NMax
    BY <1>1, <1>4 DEF BelowMax
  <2> QED
    BY <1>1, <1>4, <2>1, <2>2
<1>5. CASE ema' = Smoothed(p) /\ n' = n /\ dir' = dir /\ turns' = turns
  BY <1>1, <1>2, <1>5
<1> QED
  BY <1>3, <1>4, <1>5 DEF Report

\* A reading is the device's heat, or none.
LEMMA ReadingType ==
  ASSUME ThermalTypeOK
  PROVE  /\ Reading \in Heats \cup {NoReading}
         /\ Reading # NoReading => Reading = heat
         /\ Stored(Reading) \in Heats \cup {NoReading}
         /\ NoReading \notin Heats
BY DEF ThermalTypeOK, Reading, Stored, Heats, NoReading

\* The initial states.
LEMMA ThermalBegins == ThermalInit => ThermalInv
<1> SUFFICES ASSUME ThermalInit PROVE ThermalInv
  OBVIOUS
<1>1. NMax \in NMin .. NMax /\ 0 \in 0 .. MaxChanges
  BY ThermalAssumption
<1>2. ThermalInv
  <2>1. on \in BOOLEAN /\ useGov \in BOOLEAN /\ headroom \in Heats \cup {NoReading}
    BY DEF ThermalInit
  <2>2. n \in NMin .. NMax /\ ema \in Int /\ used \in Nat
    BY <1>1 DEF ThermalInit
  <2>3. capable \in BOOLEAN /\ heat \in Heats /\ recent \in BOOLEAN
    BY DEF ThermalInit
  <2>4. load \in Loads /\ changes \in 0 .. MaxChanges
    BY <1>1 DEF ThermalInit
  <2>5. /\ dir \in {"none", "up", "down"} /\ turns \in Nat
        /\ mixed \in BOOLEAN /\ fresh \in BOOLEAN /\ ~fresh
    BY DEF ThermalInit
  <2> QED
    BY <2>1, <2>2, <2>3, <2>4, <2>5 DEF ThermalInv, ThermalTypeOK, HeadroomIsCurrent
<1> QED
  BY <1>2

\* Every step keeps the invariant.
LEMMA ThermalKeeps == ThermalInv /\ [ThermalNext]_thermalVars => ThermalInv'
<1> SUFFICES ASSUME ThermalInv, [ThermalNext]_thermalVars PROVE ThermalInv'
  OBVIOUS
<1> USE DEF ThermalInv
<1>1. ASSUME ReadHeadroom
      PROVE  /\ headroom' \in Heats \cup {NoReading}
             /\ fresh' \in BOOLEAN /\ recent' \in BOOLEAN
             /\ fresh' => headroom' = heat
  BY <1>1, ReadingType DEF ReadHeadroom, ThermalTypeOK, HeadroomIsCurrent, Stored
<1>2. CASE Process
  <2>1. ReadHeadroom /\ used' = Merged(headroom')
    BY <1>2 DEF Process
  <2>2. used' \in Nat /\ Time(used') \in Nat
    BY <2>1, Arithmetic
  <2>3. /\ n' \in NMin .. NMax /\ ema' \in Int
        /\ dir' \in {"none", "up", "down"} /\ turns' \in Nat
    <3>1. CASE on /\ useGov
      BY <1>2, <2>2, <3>1, ReportType DEF Process
    <3>2. CASE ~(on /\ useGov)
      BY <1>2, <3>2 DEF Process, gov, ThermalTypeOK
    <3> QED
      BY <3>1, <3>2
  <2> QED
    BY <1>1, <1>2, <2>1, <2>2, <2>3 DEF Process, phone, ThermalTypeOK, HeadroomIsCurrent
<1>3. CASE ProcessRefused
  BY <1>1, <1>3 DEF ProcessRefused, gov, phone, ThermalTypeOK, HeadroomIsCurrent
<1>4. ASSUME NEW thermal \in BOOLEAN, SetPolicy(thermal) PROVE ThermalInv'
  <2>1. NMax \in NMin .. NMax /\ changes + 1 \in 0 .. MaxChanges
    BY <1>4, ThermalAssumption DEF SetPolicy, ThermalTypeOK
  <2> QED
    <3>1. /\ on' \in BOOLEAN /\ useGov' \in BOOLEAN /\ recent' \in BOOLEAN
          /\ n' \in NMin .. NMax /\ changes' \in 0 .. MaxChanges
      BY <1>4, <2>1 DEF SetPolicy
    <3>2. ema' = -1 /\ turns' = 0
      BY <1>4 DEF SetPolicy
    <3>3. dir' \in {"none", "up", "down"} /\ mixed' \in BOOLEAN
      BY <1>4 DEF SetPolicy
    <3>4. /\ headroom' = headroom /\ used' = used /\ capable' = capable /\ heat' = heat
          /\ load' = load /\ fresh' = fresh
      BY <1>4 DEF SetPolicy, phone
    <3> QED
      BY <3>1, <3>2, <3>3, <3>4 DEF ThermalTypeOK, HeadroomIsCurrent
<1>5. CASE ASecondPasses
  BY <1>5 DEF ASecondPasses, gov, phone, history, ThermalTypeOK, HeadroomIsCurrent
<1>6. CASE ChangeLoad
  <2>1. changes + 1 \in 0 .. MaxChanges
    BY <1>6, ThermalAssumption DEF ChangeLoad, ThermalTypeOK
  <2> QED
    BY <1>6, <2>1 DEF ChangeLoad, gov, phone, ThermalTypeOK, HeadroomIsCurrent
<1>7. CASE ChangeHeat
  <2>1. changes + 1 \in 0 .. MaxChanges
    BY <1>7, ThermalAssumption DEF ChangeHeat, ThermalTypeOK
  <2> QED
    BY <1>7, <2>1 DEF ChangeHeat, gov, ThermalTypeOK, HeadroomIsCurrent
<1>8. CASE UNCHANGED thermalVars
  BY <1>8 DEF thermalVars, gov, phone, history, ThermalTypeOK, HeadroomIsCurrent
<1> QED
  BY <1>2, <1>3, <1>4, <1>5, <1>6, <1>7, <1>8 DEF ThermalNext

\* The invariant holds in every state.
THEOREM ThermalInvariance == ThermalSpec => []ThermalInv
BY ThermalBegins, ThermalKeeps, PTL DEF ThermalSpec, ThermalSafety

\* The state has its types whatever the loads: the governor never leaves
\* n_min .. n_max.
THEOREM ThermalTypeCorrect == ThermalSpec => []ThermalTypeOK
BY ThermalInvariance, PTL DEF ThermalInv

\* Once its heat has been read, no burst merges more frames than that heat
\* allows, whichever of the later queries fail (jni.cc:121-123).
THEOREM HeatIsObeyedHolds == ThermalSpec => HeatIsObeyed
<1>1. ThermalInv /\ [ThermalNext]_thermalVars
      => [Process /\ on /\ ~useGov /\ fresh => used' <= FramesFor(heat)]_thermalVars
  <2> SUFFICES ASSUME ThermalInv, Process, on, ~useGov, fresh
               PROVE  used' <= FramesFor(heat)
    OBVIOUS
  <2>1. headroom' = heat
    BY ReadingType DEF Process, ReadHeadroom, Stored, ThermalInv, HeadroomIsCurrent
  <2>2. used' = Least(load.captured, FramesFor(heat))
    BY <2>1 DEF Process, Merged
  <2>3. load.captured \in Nat /\ FramesFor(heat) \in Nat
    BY ThermalAssumption DEF ThermalInv, ThermalTypeOK, FramesFor
  <2> QED
    BY <2>2, <2>3 DEF Least
<1> QED
  BY <1>1, ThermalInvariance, PTL DEF ThermalSpec, ThermalSafety, HeatIsObeyed

-----------------------------------------------------------------------------
(* The governor does not swing. *)

\* The band is wider than a step: a frame of four is a third more time at most,
\* and 1.10 / 0.80 is more than that; whole milliseconds do not matter from 40 on.
\* (The code has n_min 4 and target_ms 450.)
WideBand == 3 <= NMin /\ 40 <= Target

\* The time of a burst of the present load, when the governor allows k frames.
Burst(k) == Time(Least(load.captured, k))

\* The EMA is under way from below, or from above: it cannot become fast, or slow.
Falling == 8 * Target <= 10 * ema /\ ema <= Burst(n)
Rising == Burst(n) <= ema /\ 10 * ema <= 11 * Target

\* Where n moved last it stays out of the other side of the band, and when it has
\* turned back, or has samples of one load only, it does so for good.
Swings ==
  /\ ema < 0 => n = NMax /\ ~mixed /\ dir = "none"
  /\ dir = "none" => turns = 0
  /\ dir = "down" => n < NMax /\ 8 * Target <= 10 * ema
  /\ dir = "up" => NMin < n /\ 10 * ema <= 11 * Target
  /\ ~mixed => turns = 0 /\ dir # "up" /\ ema <= Burst(n)
  /\ ~mixed /\ dir = "none" => n = NMax
  /\ turns <= 1
  /\ turns = 1 /\ dir = "down" => Falling
  /\ turns = 1 /\ dir = "up" => Rising

\* Division, by its remainder.
LEMMA Divided ==
  ASSUME NEW a \in Nat, NEW d \in Nat \ {0}
  PROVE  /\ a \div d \in Nat
         /\ d * (a \div d) <= a /\ a < d * (a \div d) + d
OBVIOUS

\* An integer that fits below a quotient.
LEMMA Quotient ==
  ASSUME NEW a \in Nat, NEW d \in Nat \ {0}, NEW b \in Int
  PROVE  /\ b * d <= a => b <= a \div d
         /\ a <= b * d => a \div d <= b
<1> DEFINE q == a \div d
<1>1. q \in Nat /\ d * q <= a /\ a < d * q + d
  BY Divided
<1> HIDE DEF q
<1>2. ASSUME b * d <= a, q < b PROVE FALSE
  <2>1. q + 1 <= b /\ d * (q + 1) <= d * b
    BY <1>1, <1>2
  <2>2. d * (q + 1) = d * q + d
    BY <1>1
  <2> QED  BY <1>1, <1>2, <2>1, <2>2
<1>3. ASSUME a <= b * d, b < q PROVE FALSE
  <2>1. b + 1 <= q /\ d * (b + 1) <= d * q
    BY <1>1, <1>3
  <2>2. d * (b + 1) = d * b + d
    BY <1>1
  <2> QED  BY <1>1, <1>3, <2>1, <2>2
<1> QED  BY <1>1, <1>2, <1>3 DEF q

\* The mean lies between the sample and the EMA before.
LEMMA Mean ==
  ASSUME NEW e \in Nat, NEW p \in Nat
  PROVE  LET m == (7 * e + 3 * p) \div 10 IN
           /\ m \in Nat
           /\ e <= p => e <= m /\ m <= p
           /\ p <= e => p <= m /\ m <= e
OBVIOUS

\* A frame less: the scaled EMA is no quick one, and below the time of the burst
\* if it was before.
LEMMA FrameLess ==
  ASSUME NEW e \in Nat, NEW k \in Nat, 4 <= k, NEW t \in Nat, 40 <= t, 11 * t < 10 * e
  PROVE  8 * t <= 10 * ((e * (k - 1)) \div k)
<1> DEFINE a == e * (k - 1)
           q == a \div k
           tk == t * k
           ek == e * k
<1>1. a \in Nat /\ a = ek - e /\ ek \in Nat /\ tk \in Nat
  OBVIOUS
<1>2. q \in Nat /\ k * q <= a /\ a < k * q + k
  BY <1>1, Divided
<1>3. (11 * t + 1) * (k - 1) <= (10 * e) * (k - 1)
  OBVIOUS
<1>4. 11 * tk - 11 * t + k - 1 <= 10 * a
  BY <1>3
<1>5. (t - 40) * (k - 4) >= 0
  OBVIOUS
<1>6. tk - 4 * t - 40 * k + 160 >= 0
  BY <1>5
<1>7. ASSUME 10 * q < 8 * t PROVE FALSE
  <2>1. k * (10 * q) <= k * (8 * t)
    BY <1>2, <1>7
  <2>2. 10 * (k * q) <= 8 * tk
    BY <1>2, <2>1
  <2> HIDE DEF a, q, tk
  <2>3. k * q \in Nat
    BY <1>2
  <2> QED  BY <1>1, <1>2, <1>4, <1>6, <2>2, <2>3
<1> QED  BY <1>2, <1>7
\* A frame more: the scaled EMA is no slow one.
LEMMA FrameMore ==
  ASSUME NEW e \in Nat, NEW k \in Nat, 3 <= k, NEW t \in Nat, 10 * e < 8 * t
  PROVE  10 * ((e * (k + 1)) \div k) <= 11 * t
<1> DEFINE a == e * (k + 1)
           q == a \div k
           ek == e * k
           tk == t * k
<1>1. a \in Nat /\ a = ek + e /\ ek \in Nat /\ tk \in Nat
  OBVIOUS
<1>2. q \in Nat /\ k * q <= a
  BY <1>1, Divided
<1>3. (10 * e) * (k + 1) <= (8 * t) * (k + 1)
  OBVIOUS
<1>4. 10 * a <= 8 * tk + 8 * t
  BY <1>3
<1>5. 8 * t <= 3 * tk
  <2>1. 3 * t <= k * t
    OBVIOUS
  <2> QED  BY <2>1
<1>6. ASSUME 11 * t < 10 * q PROVE FALSE
  <2>1. (11 * t + 1) * k <= (10 * q) * k
    BY <1>2, <1>6
  <2>2. 11 * tk + k <= 10 * (k * q)
    BY <1>2, <2>1
  <2> HIDE DEF a, q, tk
  <2>3. k * q \in Nat
    BY <1>2
  <2> QED  BY <1>1, <1>2, <1>4, <1>5, <2>2, <2>3
<1> QED  BY <1>2, <1>6

\* A burst takes no more per frame the more frames there are.
LEMMA PerFrame ==
  ASSUME NEW f \in Nat, NEW c \in Nat, NEW cap \in Nat, NEW k \in Nat \ {0},
         NEW x, x = IF cap < k THEN cap ELSE k,
         NEW y, y = IF cap < k + 1 THEN cap ELSE k + 1
  PROVE  (f + c * y) * k <= (f + c * x) * (k + 1)
<1>1. x \in Nat /\ y \in Nat /\ c * x \in Nat /\ c * y \in Nat
  OBVIOUS
<1>2. y * k <= x * (k + 1)
  <2>1. CASE cap <= k
    <3>1. x = cap /\ y = cap
      BY <2>1
    <3> QED  BY <3>1
  <2>2. CASE k < cap
    <3>1. x = k /\ y = k + 1
      BY <2>2
    <3> QED  BY <3>1
  <2> QED  BY <2>1, <2>2
<1>3. c * (y * k) <= c * (x * (k + 1))
  <2>1. y * k \in Nat /\ x * (k + 1) \in Nat
    BY <1>1
  <2> HIDE <1>1
  <2> QED  BY <1>2, <2>1
<1>4. (c * y) * k = c * (y * k) /\ (c * x) * (k + 1) = c * (x * (k + 1))
  BY <1>1
<1>5. f * k <= f * (k + 1)
  OBVIOUS
<1>6. /\ (f + c * y) * k = f * k + (c * y) * k
      /\ (f + c * x) * (k + 1) = f * (k + 1) + (c * x) * (k + 1)
  BY <1>1
<1>7. f * k \in Nat /\ f * (k + 1) \in Nat /\ (c * y) * k \in Nat /\ (c * x) * (k + 1) \in Nat
  BY <1>1
<1> QED  BY <1>3, <1>4, <1>5, <1>6, <1>7

\* A frame more adds at most its share to the time of a burst.
LEMMA BurstTimes ==
  ASSUME ThermalTypeOK
  PROVE  /\ \A k \in Nat : Burst(k) \in Nat
         /\ \A k \in Nat \ {0} : Burst(k + 1) * k <= Burst(k) * (k + 1)
<1>1. Fixed \in Nat /\ load.cost \in Nat /\ load.captured \in Nat
  BY ThermalAssumption DEF ThermalTypeOK
<1>2. \A k \in Nat : Burst(k) = Fixed + load.cost * (IF load.captured < k THEN load.captured ELSE k)
  BY DEF Burst, Time, Least
<1>3. ASSUME NEW k \in Nat PROVE Burst(k) \in Nat
  <2>1. load.cost * (IF load.captured < k THEN load.captured ELSE k) \in Nat
    BY <1>1
  <2> QED  BY <1>1, <1>2, <2>1
<1>4. ASSUME NEW k \in Nat \ {0} PROVE Burst(k + 1) * k <= Burst(k) * (k + 1)
  <2>1. /\ Burst(k) = Fixed + load.cost * (IF load.captured < k THEN load.captured ELSE k)
        /\ Burst(k + 1) = Fixed + load.cost * (IF load.captured < k + 1 THEN load.captured ELSE k + 1)
    BY <1>2
  <2> QED  BY <1>1, <2>1, PerFrame
<1> QED  BY <1>3, <1>4

\* What a slow EMA becomes with a frame less.
LEMMA MovesDown ==
  ASSUME WideBand, ThermalTypeOK,
         NEW m \in Nat, Slow(m), AboveMin(n)
  PROVE  /\ 8 * Target <= 10 * Scaled(m, n - 1)
         /\ m <= Burst(n) => Scaled(m, n - 1) <= Burst(n - 1)
<1>1. n \in Nat /\ 4 <= n /\ Target \in Nat /\ 40 <= Target /\ 11 * Target < 10 * m
  BY ThermalAssumption DEF WideBand, ThermalTypeOK, Slow, AboveMin
<1>2. Scaled(m, n - 1) = (m * (n - 1)) \div n
  BY DEF Scaled
<1>3. 8 * Target <= 10 * Scaled(m, n - 1)
  BY <1>1, <1>2, FrameLess
<1>4. ASSUME m <= Burst(n) PROVE Scaled(m, n - 1) <= Burst(n - 1)
  <2> DEFINE k == n - 1
  <2>1. k \in Nat \ {0} /\ n = k + 1 /\ Burst(k) \in Nat /\ Burst(n) \in Nat
    BY <1>1, BurstTimes
  <2>2. Burst(n) * k <= Burst(k) * n
    BY <2>1, BurstTimes
  <2>3. m * k <= Burst(n) * k
    BY <1>4, <2>1
  <2>4. m * k \in Nat /\ Burst(n) * k \in Nat /\ Burst(k) * n \in Nat
    BY <2>1
  <2>5. m * k <= Burst(k) * n
    BY <2>2, <2>3, <2>4
  <2> HIDE DEF k
  <2>6. (m * k) \div n <= Burst(k)
    BY <1>1, <2>1, <2>4, <2>5, Quotient
  <2> QED  BY <1>2, <2>6 DEF k
<1> QED  BY <1>3, <1>4

\* What a fast EMA becomes with a frame more.
LEMMA MovesUp ==
  ASSUME WideBand, ThermalTypeOK,
         NEW m \in Nat, Fast(m), BelowMax(n)
  PROVE  /\ 10 * Scaled(m, n + 1) <= 11 * Target
         /\ Burst(n) <= m => Burst(n + 1) <= Scaled(m, n + 1)
<1>1. n \in Nat /\ 3 <= n /\ Target \in Nat /\ 10 * m < 8 * Target
  BY ThermalAssumption DEF WideBand, ThermalTypeOK, Fast
<1>2. Scaled(m, n + 1) = (m * (n + 1)) \div n
  BY DEF Scaled
<1>3. 10 * Scaled(m, n + 1) <= 11 * Target
  BY <1>1, <1>2, FrameMore
<1>4. ASSUME Burst(n) <= m PROVE Burst(n + 1) <= Scaled(m, n + 1)
  <2> DEFINE k == n + 1
  <2>1. k \in Nat \ {0} /\ Burst(k) \in Nat /\ Burst(n) \in Nat /\ n \in Nat \ {0}
    BY <1>1, BurstTimes
  <2>2. Burst(k) * n <= Burst(n) * k
    BY <2>1, BurstTimes
  <2>3. Burst(n) * k <= m * k
    BY <1>4, <2>1
  <2>4. m * k \in Nat /\ Burst(n) * k \in Nat /\ Burst(k) * n \in Nat
    BY <2>1
  <2>5. Burst(k) * n <= m * k
    BY <2>2, <2>3, <2>4
  <2> HIDE DEF k
  <2>6. Burst(k) <= (m * k) \div n
    BY <1>1, <2>1, <2>4, <2>5, Quotient
  <2> QED  BY <1>2, <2>6 DEF k
<1> QED  BY <1>3, <1>4

\* A report on a burst of the present load keeps the governor from swinging.
LEMMA ReportKeeps ==
  ASSUME WideBand, ThermalTypeOK, Swings, Report(Burst(n)),
         load' = load, mixed' = mixed
  PROVE  Swings'
<1> DEFINE p == Burst(n)
           m == Smoothed(p)
           down == Scaled(m, n - 1)
           up == Scaled(m, n + 1)
<1>1. /\ n \in Nat /\ NMin \in Nat /\ NMax \in Nat /\ NMin <= n /\ n <= NMax /\ 3 <= n
      /\ Target \in Nat /\ ema \in Int /\ turns \in Nat
      /\ dir \in {"none", "up", "down"} /\ mixed \in BOOLEAN
  BY ThermalAssumption DEF WideBand, ThermalTypeOK
<1>2. /\ p \in Nat /\ m \in Nat
      /\ ema < 0 => m = p
      /\ 0 <= ema => /\ ema <= p => ema <= m /\ m <= p
                     /\ p <= ema => p <= m /\ m <= ema
  <2>1. p \in Nat
    BY <1>1, BurstTimes
  <2> HIDE DEF p
  <2>2. CASE ema < 0
    BY <1>1, <2>1, <2>2 DEF Smoothed
  <2>3. CASE 0 <= ema
    <3>1. ema \in Nat /\ m = (7 * ema + 3 * p) \div 10
      BY <1>1, <2>3 DEF Smoothed
    <3> QED  BY <2>1, <2>3, <3>1, Mean
  <2> QED  BY <1>1, <2>2, <2>3
<1>3. \A k : Burst(k) = Fixed + load.cost * Least(load.captured, k)
  BY DEF Burst, Time
<1>4. Burst(n)' = Fixed + load.cost * Least(load.captured, n')
  BY DEF Burst, Time, Least
<1>5. CASE /\ Slow(m) /\ AboveMin(n)
           /\ n' = n - 1 /\ ema' = down
           /\ dir' = "down" /\ turns' = IF dir = "up" THEN turns + 1 ELSE turns
  <2>1. 8 * Target <= 10 * down /\ (m <= p => down <= Burst(n - 1)) /\ down \in Int
    BY <1>1, <1>2, <1>5, MovesDown, Arithmetic
  <2>2. Burst(n)' = Burst(n - 1) /\ Burst(n - 1) \in Nat
    BY <1>1, <1>3, <1>4, <1>5, BurstTimes
  <2>3. 11 * Target < 10 * m
    BY <1>5 DEF Slow
  \* It was under way from below, or turns back.
  <2>4. ~mixed \/ dir = "up" \/ (turns = 1 /\ dir = "down") => m <= p
    BY <1>1, <1>2, <2>3 DEF Swings, Falling
  <2>5. turns' = 1 => ~mixed \/ dir = "up" \/ (turns = 1 /\ dir = "down")
    BY <1>1, <1>5 DEF Swings
  <2>6. turns' <= 1 /\ (~mixed => turns' = 0)
    <3>1. turns = 1 /\ dir = "up" => FALSE
      <4>1. turns = 1 /\ dir = "up" => m <= ema /\ 10 * ema <= 11 * Target
        BY <1>1, <1>2 DEF Swings, Rising
      <4> QED  BY <1>1, <1>2, <2>3, <4>1
    <3> QED  BY <1>1, <1>5, <3>1 DEF Swings
  <2> HIDE DEF p, m, down, up
  <2>7. Falling' \/ ~(~mixed \/ dir = "up" \/ (turns = 1 /\ dir = "down"))
    BY <1>5, <2>1, <2>2, <2>4 DEF Falling
  <2>8. 0 <= ema'
    BY <1>1, <1>5, <2>1
  <2> QED  BY <1>1, <1>5, <2>1, <2>2, <2>5, <2>6, <2>7, <2>8 DEF Swings, Falling
<1>6. CASE /\ Fast(m) /\ BelowMax(n)
           /\ n' = n + 1 /\ ema' = up
           /\ dir' = "up" /\ turns' = IF dir = "down" THEN turns + 1 ELSE turns
  <2>1. 10 * up <= 11 * Target /\ (p <= m => Burst(n + 1) <= up) /\ up \in Nat
    <3>1. up = (m * (n + 1)) \div n /\ m * (n + 1) \in Nat
      BY <1>1, <1>2 DEF Scaled
    <3> HIDE DEF up, m, p
    <3>2. up \in Nat
      BY <1>1, <3>1, Divided
    <3> USE DEF up, m, p
    <3> QED  BY <1>2, <1>6, <3>2, MovesUp
  <2>2. Burst(n)' = Burst(n + 1) /\ Burst(n + 1) \in Nat
    BY <1>1, <1>3, <1>4, <1>6, BurstTimes
  <2>3. 10 * m < 8 * Target /\ n < NMax
    BY <1>6 DEF Fast, BelowMax
  <2>4. mixed
    BY <1>1, <1>2, <2>3 DEF Swings
  <2>5. dir = "down" \/ (turns = 1 /\ dir = "up") => p <= m
    BY <1>1, <1>2, <2>3 DEF Swings, Rising
  <2>6. turns' <= 1
    <3>1. turns = 1 /\ dir = "down" => FALSE
      <4>1. turns = 1 /\ dir = "down" => ema <= m /\ 8 * Target <= 10 * ema
        BY <1>1, <1>2 DEF Swings, Falling
      <4> QED  BY <1>1, <1>2, <2>3, <4>1
    <3> QED  BY <1>1, <1>6, <3>1 DEF Swings
  <2>7. turns' = 1 => dir = "down" \/ (turns = 1 /\ dir = "up")
    BY <1>1, <1>6 DEF Swings
  <2> HIDE DEF p, m, down, up
  <2>8. turns' = 1 => Rising'
    BY <1>6, <2>1, <2>2, <2>5, <2>7 DEF Rising
  <2> QED  BY <1>1, <1>6, <2>1, <2>3, <2>4, <2>6, <2>8 DEF Swings
<1>7. CASE /\ ~(Slow(m) /\ AboveMin(n)) /\ ~(Fast(m) /\ BelowMax(n))
           /\ ema' = m /\ n' = n /\ dir' = dir /\ turns' = turns
  <2>1. Burst(n)' = p
    BY <1>3, <1>4, <1>7
  <2>2. dir = "down" => 8 * Target <= 10 * m
    BY <1>1, <1>2, <1>7 DEF Swings, Fast, BelowMax
  <2>3. dir = "up" => 10 * m <= 11 * Target
    BY <1>1, <1>2, <1>7 DEF Swings, Slow, AboveMin
  <2>4. ~mixed => m <= p
    BY <1>1, <1>2 DEF Swings
  <2>5. turns = 1 /\ dir = "down" => m <= p
    BY <1>1, <1>2 DEF Swings, Falling
  <2>6. turns = 1 /\ dir = "up" => p <= m
    BY <1>1, <1>2 DEF Swings, Rising
  <2> HIDE DEF p, m, down, up
  <2> QED
    BY <1>1, <1>2, <1>7, <2>1, <2>2, <2>3, <2>4, <2>5, <2>6 DEF Swings, Falling, Rising
<1> QED  BY <1>5, <1>6, <1>7 DEF Report

\* Nothing about swings changes when n, the EMA and the load stay.
LEMMA SwingsStay ==
  ASSUME Swings, UNCHANGED <<gov, load, mixed, dir, turns>>
  PROVE  Swings'
BY DEF Swings, Falling, Rising, Burst, Time, Least, gov

\* A new beginning: no move under the present load yet.
LEMMA Afresh ==
  ASSUME ThermalTypeOK', dir' = "none", turns' = 0,
         mixed' \/ (n' = NMax /\ ema' < 0), ema' < 0 => ~mixed' /\ n' = NMax
  PROVE  Swings'
<1>1. Fixed \in Nat /\ load'.cost \in Nat /\ load'.captured \in Nat /\ n' \in Nat /\ ema' \in Int
  BY ThermalAssumption DEF ThermalTypeOK
<1>2. Least(load.captured, n)' \in Nat
  BY <1>1 DEF Least
<1>3. load'.cost * Least(load.captured, n)' \in Nat
  BY <1>1, <1>2
<1>4. Burst(n)' \in Nat
  BY <1>1, <1>3 DEF Burst, Time
<1> QED  BY <1>1, <1>4 DEF Swings

SwingInv == ThermalInv /\ Swings

\* Every step keeps the governor from swinging.
LEMMA SwingStep ==
  ASSUME WideBand, SwingInv, ThermalInv', [ThermalNext]_thermalVars
  PROVE  Swings'
<1>1. Swings /\ ThermalTypeOK /\ ThermalTypeOK'
  BY DEF SwingInv, ThermalInv
<1>2. CASE Process
  <2>1. load' = load /\ mixed' = mixed
    BY <1>2 DEF Process
  <2>2. CASE on /\ useGov
    <3>1. Time(used') = Burst(n)
      BY <1>2, <2>2 DEF Process, Merged, Burst
    <3>2. Report(Burst(n))
      BY <1>2, <2>2, <3>1 DEF Process
    <3> QED  BY <1>1, <2>1, <3>2, ReportKeeps
  <2>3. CASE ~(on /\ useGov)
    BY <1>1, <1>2, <2>1, <2>3, SwingsStay DEF Process
  <2> QED  BY <2>2, <2>3
<1>3. CASE ProcessRefused
  BY <1>1, <1>3, SwingsStay DEF ProcessRefused
<1>4. ASSUME NEW t \in BOOLEAN, SetPolicy(t) PROVE Swings'
  <2>1. n' = NMax /\ ema' = -1 /\ dir' = "none" /\ turns' = 0 /\ mixed' = FALSE
    BY <1>4 DEF SetPolicy
  <2> QED  BY <1>1, <2>1, Afresh
<1>5. CASE ASecondPasses
  BY <1>1, <1>5, SwingsStay DEF ASecondPasses, history
<1>6. CASE ChangeLoad
  <2>1. n' = n /\ ema' = ema /\ dir' = "none" /\ turns' = 0 /\ mixed' = (ema >= 0)
    BY <1>6 DEF ChangeLoad, gov
  <2>2. ema \in Int /\ (ema < 0 => n = NMax)
    BY <1>1 DEF ThermalTypeOK, Swings
  <2>3. ema >= 0 <=> ~(ema < 0)
    BY <2>2
  <2> QED  BY <1>1, <2>1, <2>2, <2>3, Afresh
<1>7. CASE ChangeHeat
  BY <1>1, <1>7, SwingsStay DEF ChangeHeat
<1>8. CASE UNCHANGED thermalVars
  BY <1>1, <1>8, SwingsStay DEF thermalVars, history
<1> QED
  BY <1>2, <1>3, <1>4, <1>5, <1>6, <1>7, <1>8 DEF ThermalNext

\* "prevents oscillation" (perf_hint.h): with a band wider than a step, and whatever
\* a burst costs in time, under one load the number of frames turns back at most
\* once, and only if the EMA still remembers another load.
THEOREM NoOscillationHolds ==
  ASSUME WideBand
  PROVE  ThermalSpec => []NoOscillation
<1>1. ThermalInit => SwingInv
  <2> SUFFICES ASSUME ThermalInit PROVE SwingInv
    OBVIOUS
  <2>1. ThermalInv
    BY ThermalBegins
  <2>2. Burst(n) \in Nat
    BY <2>1, BurstTimes, ThermalAssumption DEF ThermalInv, ThermalTypeOK
  <2> QED  BY <2>1, <2>2 DEF SwingInv, Swings, ThermalInit
<1>2. SwingInv /\ [ThermalNext]_thermalVars => SwingInv'
  <2> SUFFICES ASSUME SwingInv, [ThermalNext]_thermalVars PROVE SwingInv'
    OBVIOUS
  <2>1. ThermalInv'
    BY ThermalKeeps DEF SwingInv
  <2> QED  BY <2>1, SwingStep DEF SwingInv
<1>3. SwingInv => NoOscillation
  BY DEF SwingInv, Swings, NoOscillation
<1> QED  BY <1>1, <1>2, <1>3, PTL DEF ThermalSpec, ThermalSafety
=============================================================================

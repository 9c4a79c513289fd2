--------------------------- MODULE ThermalControl ---------------------------
(***************************************************************************)
(* How many of a burst's frames are merged: ThermalPolicy and              *)
(* LatencyGovernor (core/include/burstpipe/perf_hint.h), and the way       *)
(* process and setPolicy (android/jni.cc) choose between them.             *)
(*                                                                         *)
(* The governor is a feedback loop: merging more frames costs more time,   *)
(* and the time of each burst moves the number of frames of the next.      *)
(* Times are whole milliseconds; the EMA, a double in the code, is rounded *)
(* down to one, which may leave it up to Rounding below its limit.         *)
(*                                                                         *)
(* The platform (external) answers a headroom query with the device's      *)
(* class of heat, or not at all: never on a device without the API, nor    *)
(* within a second of another query.                                       *)
(*                                                                         *)
(* The names that every module has are prefixed: the policy and AppSession *)
(* are of one session, and are extended together.                          *)
(***************************************************************************)
EXTENDS Integers

CONSTANTS
  Target,          \* target_ms
  NMin, NMax,      \* LatencyGovernor::n_min, n_max; the latter also the policy's
  NLow, NMid,      \* ThermalPolicy::n_low, n_mid
  Fixed,           \* time of the stages that do not depend on the frames
  Loads,           \* records [cost, captured]: time per frame, frames of a burst
  MaxChanges       \* bound: changes of load, of heat and of policy

ASSUME ThermalAssumption ==
  /\ Target \in Nat /\ Fixed \in Nat /\ MaxChanges \in Nat
  /\ NMin \in Nat \ {0} /\ NMax \in Nat /\ NMin <= NMax
  /\ NLow \in 1 .. NMax /\ NMid \in 1 .. NMax
  /\ Loads \subseteq [cost : Nat, captured : Nat \ {0}]

Heats == {"cool", "mid", "high"}   \* below h_mid, below h_high, above
NoReading == "none"                \* a negative headroom
Rounding == 4

VARIABLES
  on, useGov,      \* g_thermal_policy, g_use_gov
  headroom,        \* g_headroom
  n, ema,          \* g_gov
  used,            \* frames the last burst merged
  capable, heat,   \* the device: has the headroom API; its class of heat
  recent,          \* a headroom query was made within the last second
  load, changes,   \* the load, and the changes made so far
  dir, turns,      \* history: last move of n, reversals since the last change
  mixed,           \* history: the EMA has samples of more than one load
  fresh            \* history: a reading stored since heat last changed

gov == <<n, ema>>
phone == <<capable, heat>>
history == <<dir, turns, mixed, fresh>>
thermalVars == <<on, useGov, headroom, gov, used, phone, recent, load, changes, history>>

ThermalInit ==
  /\ on = FALSE /\ useGov = FALSE
  /\ headroom = NoReading
  /\ n = NMax /\ ema = -1
  /\ used = 0
  /\ capable \in BOOLEAN /\ heat \in Heats
  /\ recent = FALSE
  /\ load \in Loads /\ changes = 0
  /\ dir = "none" /\ turns = 0 /\ mixed = FALSE /\ fresh = FALSE

-----------------------------------------------------------------------------

Least(a, b) == IF a < b THEN a ELSE b

\* ThermalPolicy::frames_for
FramesFor(h) == CASE h = "high" -> NLow [] h = "mid" -> NMid [] OTHER -> NMax

\* thermal_headroom
Reading == IF capable /\ ~recent THEN heat ELSE NoReading

\* The value process keeps (mutant: a query that fails is stored too).
StoredAlways(h) == h
Stored(h) == IF h # NoReading THEN h ELSE headroom

\* LatencyGovernor::report.  Moving to k frames scales the EMA along (mutant:
\* it does not).
Unscaled(e, k) == e
Scaled(e, k) == (e * k) \div n

Smoothed(p) == IF ema < 0 THEN p ELSE (7 * ema + 3 * p) \div 10

\* The least number of frames (mutant: one less is reached).
AboveLess(k) == k >= NMin
AboveMin(k) == k > NMin

\* Room to merge more again (mutant: the governor never recovers).
NeverBelow(k) == FALSE
BelowMax(k) == k < NMax

Slow(e) == 10 * e > 11 * Target
Fast(e) == 10 * e < 8 * Target

Report(p) ==
  LET e == Smoothed(p) IN
    \/ /\ Slow(e) /\ AboveMin(n)
       /\ n' = n - 1 /\ ema' = Scaled(e, n - 1)
       /\ dir' = "down" /\ turns' = IF dir = "up" THEN turns + 1 ELSE turns
    \/ /\ ~(Slow(e) /\ AboveMin(n))
       /\ Fast(e) /\ BelowMax(n)
       /\ n' = n + 1 /\ ema' = Scaled(e, n + 1)
       /\ dir' = "up" /\ turns' = IF dir = "down" THEN turns + 1 ELSE turns
    \/ /\ ~(Slow(e) /\ AboveMin(n)) /\ ~(Fast(e) /\ BelowMax(n))
       /\ ema' = e /\ UNCHANGED <<n, dir, turns>>

\* The frames of a burst that are merged, and the time that takes.
Merged(h) ==
  IF on THEN Least(load.captured, IF useGov THEN n ELSE FramesFor(h))
  ELSE load.captured
Time(k) == Fixed + load.cost * k

ReadHeadroom ==
  /\ headroom' = Stored(Reading)
  /\ fresh' = (fresh \/ Reading # NoReading)
  /\ recent' = TRUE

Process ==
  /\ ReadHeadroom
  /\ used' = Merged(headroom')
  /\ IF on /\ useGov THEN Report(Time(used')) ELSE UNCHANGED <<gov, dir, turns>>
  /\ UNCHANGED <<on, useGov, phone, load, changes, mixed>>

\* A frame's buffer is missing or too small: process gives up before the merge.
ProcessRefused ==
  /\ ReadHeadroom
  /\ UNCHANGED <<on, useGov, gov, used, phone, load, changes, dir, turns, mixed>>

SetPolicy(thermal) ==
  /\ changes < MaxChanges
  /\ changes' = changes + 1
  /\ on' = thermal
  /\ useGov' = (Reading = NoReading)
  /\ n' = NMax /\ ema' = -1
  /\ recent' = TRUE
  /\ dir' = "none" /\ turns' = 0 /\ mixed' = FALSE
  /\ UNCHANGED <<headroom, used, phone, load, fresh>>

-----------------------------------------------------------------------------
(* The surroundings *)

ASecondPasses ==
  /\ recent' = FALSE
  /\ UNCHANGED <<on, useGov, headroom, gov, used, phone, load, changes, history>>

\* The clocks are throttled, the scene or the number of captured frames changes.
ChangeLoad ==
  /\ changes < MaxChanges
  /\ changes' = changes + 1
  /\ load' \in Loads \ {load}
  /\ dir' = "none" /\ turns' = 0 /\ mixed' = (ema >= 0)
  /\ UNCHANGED <<on, useGov, headroom, gov, used, phone, recent, fresh>>

ChangeHeat ==
  /\ capable
  /\ changes < MaxChanges
  /\ changes' = changes + 1
  /\ heat' \in Heats \ {heat}
  /\ fresh' = FALSE
  /\ UNCHANGED <<on, useGov, headroom, gov, used, capable, recent, load, dir, turns, mixed>>

ThermalNext ==
  \/ Process \/ ProcessRefused
  \/ \E thermal \in BOOLEAN : SetPolicy(thermal)
  \/ ASecondPasses \/ ChangeLoad \/ ChangeHeat

\* A stress run shoots again after every result: bursts keep coming.
ThermalFairness == WF_thermalVars(Process)

ThermalSafety == ThermalInit /\ [][ThermalNext]_thermalVars
ThermalSpec == ThermalSafety /\ ThermalFairness

-----------------------------------------------------------------------------
(* Properties *)

\* Every variable has its type, and the governor stays within n_min and n_max.
ThermalTypeOK ==
  /\ on \in BOOLEAN /\ useGov \in BOOLEAN
  /\ headroom \in Heats \cup {NoReading}
  /\ n \in NMin .. NMax
  /\ ema \in Int
  /\ used \in Nat
  /\ capable \in BOOLEAN /\ heat \in Heats /\ recent \in BOOLEAN
  /\ load \in Loads /\ changes \in 0 .. MaxChanges
  /\ dir \in {"none", "up", "down"} /\ turns \in Nat
  /\ mixed \in BOOLEAN /\ fresh \in BOOLEAN

\* The comment's "prevents oscillation": under one load the number of frames
\* turns back at most once, and only if the EMA still remembers another load.
NoOscillation == turns <= IF mixed THEN 1 ELSE 0

\* A hot device merges few frames: once its heat has been read, no burst merges
\* more than that heat allows until the heat changes, whichever queries fail.
\* (A burst merged before the reading, or without the policy, does not count.)
HeatIsObeyed ==
  [][Process /\ on /\ ~useGov /\ fresh => used' <= FramesFor(heat)]_thermalVars

InBand ==
  /\ 10 * Time(used) <= 11 * Target + 10 * Rounding \/ n = NMin
  /\ 10 * Time(used) >= 8 * Target - 10 * Rounding \/ n = NMax

\* When the load stays the same the governor settles: n stops moving, and the
\* time is within +10% and -20% of the target unless n is at its limit.
Settles == <>[](on /\ useGov => InBand) /\ <>[][n' = n]_thermalVars
=============================================================================

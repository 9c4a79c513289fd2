---------------------------- MODULE NativeObject ----------------------------
(***************************************************************************)
(* An object that wraps handles of a C library, as VkBlur                  *)
(* (core/src/gpu_blur.cc) wraps Vulkan's and LiteRtSegmenter               *)
(* (core/src/seg_litert.cc) LiteRT's.  Its init takes one part after the   *)
(* other and returns at the first that is refused; whoever called it then  *)
(* destroys what there is.  The destructor drops the parts in an order of  *)
(* its own, each if it is there.                                           *)
(*                                                                         *)
(* What init takes and what the destructor drops are parameters: the       *)
(* scripts of the two classes are in NativeScripts.                        *)
(***************************************************************************)
EXTENDS Naturals, Sequences

CONSTANTS
  Kinds,      \* the kinds of objects
  Scripts,    \* for each kind, the steps of init: [takes, on, may], where may
              \* says if a step may "take" its parts, "fail", or "skip" them
  Teardowns   \* for each kind, the sets of parts in the order they are dropped

PartsOf(k) == UNION {Scripts[k][i].takes : i \in 1 .. Len(Scripts[k])}
DroppedBy(k, j) == UNION {Teardowns[k][l] : l \in 1 .. j}

\* Every part is taken by one step, after what it is built on, which cannot have
\* been skipped, and is dropped before that; all are dropped in the end.
Sound ==
  \A k \in Kinds :
    LET steps == 1 .. Len(Scripts[k])
        drops == 1 .. Len(Teardowns[k])
    IN /\ Len(Scripts[k]) \in Nat /\ Len(Teardowns[k]) \in Nat
       /\ \A i, j \in steps : i # j => Scripts[k][i].takes \cap Scripts[k][j].takes = {}
       /\ \A i \in steps : \A q \in Scripts[k][i].on :
            \E l \in 1 .. i - 1 : q \in Scripts[k][l].takes /\ "skip" \notin Scripts[k][l].may
       /\ \A i \in steps, j \in drops :
            Teardowns[k][j] \cap Scripts[k][i].on # {} => Scripts[k][i].takes \subseteq DroppedBy(k, j)
       /\ PartsOf(k) \subseteq DroppedBy(k, Len(Teardowns[k]))

VARIABLE obj   \* [kind, phase, at, held, busy]

Phases == {"none", "init", "ready", "teardown"}

\* No object: before create, after a create that failed, after delete.
NoObject(k) == [kind |-> k, phase |-> "none", at |-> 1, held |-> {}, busy |-> FALSE]

Init == \E k \in Kinds : obj = NoObject(k)

Step == Scripts[obj.kind][obj.at]

-----------------------------------------------------------------------------
(* Operations *)

Create(k) ==
  /\ obj.phase = "none"
  /\ obj' = [NoObject(k) EXCEPT !.phase = "init"]

InInit == obj.phase = "init" /\ obj.at <= Len(Scripts[obj.kind])

Take ==
  /\ InInit /\ "take" \in Step.may
  /\ obj' = [obj EXCEPT !.held = @ \cup Step.takes, !.at = @ + 1]

Skip ==
  /\ InInit /\ "skip" \in Step.may
  /\ obj' = [obj EXCEPT !.at = @ + 1]

\* init returns false; the unique_ptr that holds the object deletes it.
Fail ==
  /\ InInit /\ "fail" \in Step.may
  /\ obj' = [obj EXCEPT !.phase = "teardown", !.at = 1]

Succeed ==
  /\ obj.phase = "init" /\ obj.at > Len(Scripts[obj.kind])
  /\ obj' = [obj EXCEPT !.phase = "ready"]

InitStep == Take \/ Skip \/ Fail \/ Succeed

\* A use of the object after which the device is at rest, or is still at work
\* because the caller has given up waiting.
Use(busy) ==
  /\ obj.phase = "ready"
  /\ obj' = [obj EXCEPT !.busy = busy]

\* The device ends what it was left with.
DeviceEnds ==
  /\ obj.busy
  /\ obj' = [obj EXCEPT !.busy = FALSE]

Destroy ==
  /\ obj.phase = "ready"
  /\ obj' = [obj EXCEPT !.phase = "teardown", !.at = 1]

\* The destructor waits for the device first, then drops part after part.
\* (Mutant: without vkDeviceWaitIdle.)
NoWait == TRUE
DeviceIdle == ~obj.busy
DropNext ==
  /\ obj.phase = "teardown" /\ obj.at <= Len(Teardowns[obj.kind])
  /\ DeviceIdle
  /\ obj' = [obj EXCEPT !.held = @ \ Teardowns[obj.kind][obj.at], !.at = @ + 1]

Deleted ==
  /\ obj.phase = "teardown" /\ obj.at > Len(Teardowns[obj.kind])
  /\ obj' = [obj EXCEPT !.phase = "none", !.at = 1]

TeardownStep == DropNext \/ Deleted

Next ==
  \/ \E k \in Kinds : Create(k)
  \/ InitStep
  \/ \E b \in BOOLEAN : Use(b)
  \/ DeviceEnds
  \/ Destroy
  \/ TeardownStep

Spec == Init /\ [][Next]_obj

-----------------------------------------------------------------------------
(* Properties *)

\* obj has its type.
TypeOK ==
  /\ obj.kind \in Kinds
  /\ obj.phase \in Phases
  /\ obj.at \in Nat \ {0}
  /\ obj.held \subseteq PartsOf(obj.kind)
  /\ obj.busy \in BOOLEAN

\* An object that is gone has left nothing behind, however far init came.
NothingLeaked == obj.phase = "none" => obj.held = {}

\* What a part was built on is there as long as the part is: on the way up, on
\* the way down, and after an init that stopped half way.
BuiltOnHeld ==
  \A i \in 1 .. Len(Scripts[obj.kind]) :
    Scripts[obj.kind][i].takes \cap obj.held # {} => Scripts[obj.kind][i].on \subseteq obj.held

\* Nothing has been dropped while the device is still at work with it.
DroppedIdle == obj.phase = "teardown" /\ obj.at > 1 => ~obj.busy
=============================================================================

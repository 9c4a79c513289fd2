------------------------- MODULE CommandLineProofs -------------------------
(***************************************************************************)
(* A measured run from its options to its exit, for any set of command     *)
(* lines, bursts of any length and size and any number of runs of the      *)
(* emulator: of a complete directory at rest it uses whole frames of one   *)
(* burst, the window it reports is the one it measured, and it leaves      *)
(* nothing behind.                                                         *)
(*                                                                         *)
(* The first part is about one native object and any orders of taking and  *)
(* dropping that are sound; those of VkBlur and LiteRtSegmenter are        *)
(* (ScriptsAssumption of CommandLine).                                     *)
(***************************************************************************)
EXTENDS CommandLine, TLAPS

-----------------------------------------------------------------------------
(* An object with init s and destructor t.  x is its state, y the next one. *)

Parts(s) == UNION {s[i].takes : i \in 1 .. Len(s)}
Dropped(t, j) == UNION {t[l] : l \in 1 .. j}

\* What NativeObject's Sound says of one kind.
SoundOrders(s, t) ==
  /\ Len(s) \in Nat /\ Len(t) \in Nat
  /\ \A i, j \in 1 .. Len(s) : i # j => s[i].takes \cap s[j].takes = {}
  /\ \A i \in 1 .. Len(s) : \A q \in s[i].on :
       \E l \in 1 .. i - 1 : q \in s[l].takes /\ "skip" \notin s[l].may
  /\ \A i \in 1 .. Len(s), j \in 1 .. Len(t) :
       t[j] \cap s[i].on # {} => s[i].takes \subseteq Dropped(t, j)
  /\ Parts(s) \subseteq Dropped(t, Len(t))

Object(k, phase, at, held, busy) ==
  [kind |-> k, phase |-> phase, at |-> at, held |-> held, busy |-> busy]

Shape(s, x) ==
  /\ x = Object(x.kind, x.phase, x.at, x.held, x.busy)
  /\ x.phase \in {"none", "init", "ready", "teardown"}
  /\ x.at \in Nat \ {0}
  /\ x.held \in SUBSET Parts(s)
  /\ x.busy \in BOOLEAN

\* Everything before `at` that could not be skipped has been taken.
TakenSoFar(s, x) ==
  x.phase = "init" =>
    \A l \in 1 .. Len(s) : l < x.at /\ "skip" \notin s[l].may => s[l].takes \subseteq x.held

\* Nothing of what has been dropped is held.
DroppedSoFar(t, x) == x.phase = "teardown" => x.held \cap Dropped(t, x.at - 1) = {}

NoneLeft(x) == x.phase = "none" => x.held = {}
BasesHeld(s, x) == \A i \in 1 .. Len(s) : s[i].takes \cap x.held # {} => s[i].on \subseteq x.held
AtRest(x) == x.phase = "teardown" /\ x.at > 1 => ~x.busy

Clean(s, t, x) ==
  /\ Shape(s, x) /\ TakenSoFar(s, x) /\ DroppedSoFar(t, x)
  /\ NoneLeft(x) /\ BasesHeld(s, x) /\ AtRest(x)

\* The steps of NativeObject, but for Create.
Taking(s, x, y) ==
  /\ x.phase = "init" /\ x.at <= Len(s)
  /\ y = Object(x.kind, "init", x.at + 1, x.held \cup s[x.at].takes, x.busy)
Skipping(s, x, y) ==
  /\ x.phase = "init" /\ x.at <= Len(s) /\ "skip" \in s[x.at].may
  /\ y = Object(x.kind, "init", x.at + 1, x.held, x.busy)
Succeeding(x, y) == x.phase = "init" /\ y = Object(x.kind, "ready", x.at, x.held, x.busy)
Using(x, y) ==
  \E b \in BOOLEAN : (x.phase = "ready" \/ ~b) /\ y = Object(x.kind, x.phase, x.at, x.held, b)
Closing(x, y) == y = Object(x.kind, "teardown", 1, x.held, x.busy)
Dropping(t, x, y) ==
  /\ x.phase = "teardown" /\ x.at <= Len(t) /\ ~x.busy
  /\ y = Object(x.kind, "teardown", x.at + 1, x.held \ t[x.at], x.busy)
Closed(t, x, y) ==
  /\ x.phase = "teardown" /\ x.at > Len(t)
  /\ y = Object(x.kind, "none", 1, x.held, x.busy)

Moves(s, t, x, y) ==
  \/ Taking(s, x, y) \/ Skipping(s, x, y) \/ Succeeding(x, y) \/ Using(x, y)
  \/ Closing(x, y) \/ Dropping(t, x, y) \/ Closed(t, x, y)

\* What has been dropped after one more drop.
LEMMA DroppedNext ==
  ASSUME NEW t, NEW j \in Nat \ {0}
  PROVE  Dropped(t, j) = Dropped(t, j - 1) \cup t[j]
<1>1. 1 .. j = (1 .. j - 1) \cup {j} /\ j \notin 1 .. j - 1
  OBVIOUS
<1> QED  BY <1>1 DEF Dropped

\* An object that has just been made holds nothing, nor does one that is not there.
Begun(k) == Object(k, "init", 1, {}, FALSE)
Absent(k) == Object(k, "none", 1, {}, FALSE)
LEMMA BegunIsClean ==
  ASSUME NEW s, NEW t, NEW k, NEW y, y = Begun(k) \/ y = Absent(k)
  PROVE  Clean(s, t, y) /\ y.kind = k
<1>1. y.kind = k /\ y.at = 1 /\ y.held = {} /\ y.busy = FALSE /\ y.phase \in {"init", "none"}
  BY DEF Object, Begun, Absent
<1>2. {} \in SUBSET Parts(s) /\ 1 \in Nat \ {0} /\ FALSE \in BOOLEAN
  OBVIOUS
<1>3. y = Object(y.kind, y.phase, y.at, y.held, y.busy)
  BY DEF Object, Begun, Absent
<1>4. Shape(s, y)
  BY <1>1, <1>2, <1>3 DEF Shape
<1>5. TakenSoFar(s, y) /\ DroppedSoFar(t, y) /\ NoneLeft(y) /\ BasesHeld(s, y) /\ AtRest(y)
  BY <1>1 DEF TakenSoFar, DroppedSoFar, NoneLeft, BasesHeld, AtRest
<1> QED  BY <1>1, <1>4, <1>5 DEF Clean

\* Taking a part: what it is built on was taken before and is still held.
LEMMA TakingKeeps ==
  ASSUME NEW s, NEW t, SoundOrders(s, t), NEW x, NEW y, Clean(s, t, x), Taking(s, x, y)
  PROVE  Clean(s, t, y)
<1> DEFINE a == x.at
<1>1. a \in 1 .. Len(s) /\ Len(s) \in Nat /\ a \in Nat \ {0} /\ x.phase = "init"
  BY DEF Clean, Shape, Taking, SoundOrders
<1>2. /\ y.kind = x.kind /\ y.phase = "init" /\ y.at = a + 1 /\ y.busy = x.busy
      /\ y.held = x.held \cup s[a].takes
      /\ y = Object(y.kind, y.phase, y.at, y.held, y.busy)
  BY DEF Taking, Object
<1>3. Shape(s, y)
  <2>1. y.held \in SUBSET Parts(s)
    BY <1>1, <1>2 DEF Parts, Clean, Shape
  <2>2. y.busy \in BOOLEAN
    BY <1>2 DEF Clean, Shape
  <2>3. y.at \in Nat \ {0}
    BY <1>1, <1>2
  <2> QED  BY <1>2, <2>1, <2>2, <2>3 DEF Shape
<1>4. TakenSoFar(s, y)
  <2> SUFFICES ASSUME NEW l \in 1 .. Len(s), l < a + 1, "skip" \notin s[l].may
               PROVE  s[l].takes \subseteq y.held
    BY <1>2 DEF TakenSoFar
  <2>1. CASE l = a
    BY <2>1, <1>2
  <2>2. CASE l < a
    BY <2>2, <1>1, <1>2 DEF Clean, TakenSoFar
  <2> QED  BY <1>1, <2>1, <2>2
<1>5. BasesHeld(s, y)
  <2> SUFFICES ASSUME NEW i \in 1 .. Len(s), s[i].takes \cap y.held # {}
               PROVE  s[i].on \subseteq y.held
    BY DEF BasesHeld
  <2>1. CASE s[i].takes \cap x.held # {}
    BY <2>1, <1>2 DEF Clean, BasesHeld
  <2>2. CASE s[i].takes \cap s[a].takes # {}
    <3>1. i = a
      BY <2>2, <1>1 DEF SoundOrders
    <3>2. ASSUME NEW q \in s[i].on
          PROVE  q \in x.held
      <4>1. PICK l \in 1 .. i - 1 : q \in s[l].takes /\ "skip" \notin s[l].may
        BY DEF SoundOrders
      <4>2. l \in 1 .. Len(s) /\ l < a
        BY <3>1, <1>1
      <4> QED  BY <4>1, <4>2, <1>1 DEF Clean, TakenSoFar
    <3> QED  BY <3>2, <1>2
  <2> QED  BY <2>1, <2>2, <1>2
<1>6. DroppedSoFar(t, y) /\ NoneLeft(y) /\ AtRest(y)
  BY <1>2 DEF DroppedSoFar, NoneLeft, AtRest
<1> QED  BY <1>3, <1>4, <1>5, <1>6 DEF Clean

\* Dropping: whatever was built on what is dropped has been dropped.
LEMMA DroppingKeeps ==
  ASSUME NEW s, NEW t, SoundOrders(s, t), NEW x, NEW y, Clean(s, t, x), Dropping(t, x, y)
  PROVE  Clean(s, t, y)
<1> DEFINE a == x.at
<1>1. a \in 1 .. Len(t) /\ Len(t) \in Nat /\ a \in Nat \ {0} /\ x.phase = "teardown" /\ ~x.busy
  BY DEF Clean, Shape, Dropping, SoundOrders
<1>2. /\ y.kind = x.kind /\ y.phase = "teardown" /\ y.at = a + 1 /\ y.busy = x.busy
      /\ y.held = x.held \ t[a]
      /\ y = Object(y.kind, y.phase, y.at, y.held, y.busy)
  BY DEF Dropping, Object
<1>3. Shape(s, y)
  <2>1. y.held \in SUBSET Parts(s) /\ y.busy \in BOOLEAN
    BY <1>2 DEF Clean, Shape
  <2>2. y.at \in Nat \ {0}
    BY <1>1, <1>2
  <2> QED  BY <1>2, <2>1, <2>2 DEF Shape
<1>4. y.held \cap Dropped(t, a) = {}
  <2>1. x.held \cap Dropped(t, a - 1) = {}
    BY <1>1 DEF Clean, DroppedSoFar
  <2> QED  BY <1>1, <1>2, <2>1, DroppedNext
<1>5. DroppedSoFar(t, y)
  <2>1. y.at - 1 = a
    BY <1>1, <1>2
  <2> QED  BY <1>4, <2>1 DEF DroppedSoFar
<1>6. BasesHeld(s, y)
  <2> SUFFICES ASSUME NEW i \in 1 .. Len(s), s[i].takes \cap y.held # {}
               PROVE  s[i].on \subseteq y.held
    BY DEF BasesHeld
  <2>1. s[i].on \subseteq x.held
    BY <1>2 DEF Clean, BasesHeld
  <2>2. t[a] \cap s[i].on = {}
    <3> SUFFICES ASSUME t[a] \cap s[i].on # {}
                 PROVE  FALSE
      OBVIOUS
    <3>1. s[i].takes \subseteq Dropped(t, a)
      BY <1>1 DEF SoundOrders
    <3> QED  BY <3>1, <1>4
  <2> QED  BY <2>1, <2>2, <1>2
<1>7. TakenSoFar(s, y) /\ NoneLeft(y) /\ AtRest(y)
  BY <1>1, <1>2 DEF TakenSoFar, NoneLeft, AtRest
<1> QED  BY <1>3, <1>5, <1>6, <1>7 DEF Clean

\* When the destructor is through, nothing is held.
LEMMA ClosedKeeps ==
  ASSUME NEW s, NEW t, SoundOrders(s, t), NEW x, NEW y, Clean(s, t, x), Closed(t, x, y)
  PROVE  Clean(s, t, y)
<1> DEFINE a == x.at
<1>1. a \in Nat \ {0} /\ Len(t) \in Nat /\ x.phase = "teardown" /\ a > Len(t)
  BY DEF Clean, Shape, Closed, SoundOrders
<1>2. Dropped(t, Len(t)) \subseteq Dropped(t, a - 1)
  <2>1. \A l \in 1 .. Len(t) : l \in 1 .. a - 1
    BY <1>1
  <2> QED  BY <2>1 DEF Dropped
<1>3. x.held = {}
  BY <1>1, <1>2 DEF Clean, Shape, DroppedSoFar, SoundOrders
<1>4. /\ y.kind = x.kind /\ y.phase = "none" /\ y.at = 1 /\ y.held = {} /\ y.busy = x.busy
      /\ y = Object(y.kind, y.phase, y.at, y.held, y.busy)
  BY <1>3 DEF Closed, Object
<1>5. Shape(s, y)
  BY <1>4 DEF Clean, Shape
<1>6. TakenSoFar(s, y) /\ DroppedSoFar(t, y) /\ NoneLeft(y) /\ BasesHeld(s, y) /\ AtRest(y)
  BY <1>4 DEF TakenSoFar, DroppedSoFar, NoneLeft, BasesHeld, AtRest
<1> QED  BY <1>5, <1>6 DEF Clean

\* A teardown begins with everything that is there; the other steps neither take
\* nor drop anything.
LEMMA OtherKeeps ==
  ASSUME NEW s, NEW t, SoundOrders(s, t), NEW x, NEW y, Clean(s, t, x),
         Skipping(s, x, y) \/ Succeeding(x, y) \/ Using(x, y) \/ Closing(x, y)
  PROVE  Clean(s, t, y)
<1>1. /\ y.kind = x.kind /\ y.held = x.held
      /\ y = Object(y.kind, y.phase, y.at, y.held, y.busy)
  BY DEF Skipping, Succeeding, Using, Closing, Object
<1>2. CASE Skipping(s, x, y)
  <2>1. /\ y.phase = "init" /\ y.at = x.at + 1 /\ y.busy = x.busy
        /\ x.phase = "init" /\ x.at \in Nat \ {0} /\ "skip" \in s[x.at].may
    BY <1>2 DEF Skipping, Object, Clean, Shape
  <2>2. Shape(s, y)
    <3>1. y.busy \in BOOLEAN /\ y.held \in SUBSET Parts(s)
      BY <1>1, <2>1 DEF Clean, Shape
    <3> QED  BY <1>1, <2>1, <3>1 DEF Shape
  <2>3. TakenSoFar(s, y)
    <3>1. \A l \in 1 .. Len(s) : l < x.at + 1 => l < x.at \/ l = x.at
      BY <2>1
    <3> QED  BY <1>1, <2>1, <3>1 DEF Clean, TakenSoFar
  <2> QED
    BY <1>1, <2>1, <2>2, <2>3 DEF Clean, DroppedSoFar, NoneLeft, BasesHeld, AtRest
<1>3. CASE Succeeding(x, y) \/ Using(x, y)
  <2>1. /\ y.at = x.at /\ y.busy \in BOOLEAN
        /\ \/ y.phase = x.phase
           \/ x.phase = "init" /\ y.phase = "ready"
        /\ x.phase # "ready" => (y.busy => x.busy)
    BY <1>3 DEF Succeeding, Using, Object, Clean, Shape
  <2>2. Shape(s, y)
    <3>1. y.held \in SUBSET Parts(s) /\ y.at \in Nat \ {0}
      BY <1>1, <2>1 DEF Clean, Shape
    <3> QED  BY <1>1, <2>1, <3>1 DEF Clean, Shape
  <2> QED
    BY <1>1, <2>1, <2>2 DEF Clean, TakenSoFar, DroppedSoFar, NoneLeft, BasesHeld, AtRest
<1>4. CASE Closing(x, y)
  <2>1. y.phase = "teardown" /\ y.at = 1 /\ y.busy = x.busy
    BY <1>4 DEF Closing, Object
  <2>2. Shape(s, y)
    <3>1. y.busy \in BOOLEAN /\ y.held \in SUBSET Parts(s)
      BY <1>1, <2>1 DEF Clean, Shape
    <3> QED  BY <1>1, <2>1, <3>1 DEF Shape
  <2>3. Dropped(t, 1 - 1) = {}
    BY DEF Dropped
  <2> QED
    BY <1>1, <2>1, <2>2, <2>3 DEF Clean, TakenSoFar, DroppedSoFar, NoneLeft, BasesHeld, AtRest
<1> QED  BY <1>2, <1>3, <1>4

\* No step of an object with sound orders leaves anything behind or pulls anything
\* away from under another part.
LEMMA MovesKeep ==
  ASSUME NEW s, NEW t, SoundOrders(s, t), NEW x, NEW y, Clean(s, t, x), Moves(s, t, x, y)
  PROVE  Clean(s, t, y) /\ y.kind = x.kind
<1>1. y.kind = x.kind
  BY DEF Moves, Taking, Skipping, Succeeding, Using, Closing, Dropping, Closed, Object
<1> QED  BY <1>1, TakingKeeps, DroppingKeeps, ClosedKeeps, OtherKeeps DEF Moves

-----------------------------------------------------------------------------
(* Objects of any kinds, used and deleted by anybody *)

CONSTANTS SomeKinds, SomeScripts, SomeTeardowns
VARIABLE some

Any == INSTANCE NativeObject
         WITH Kinds <- SomeKinds, Scripts <- SomeScripts, Teardowns <- SomeTeardowns, obj <- some

AnyInv ==
  /\ some.kind \in SomeKinds
  /\ Clean(SomeScripts[some.kind], SomeTeardowns[some.kind], some)

\* The orders of each kind are sound.
LEMMA AnyOrders ==
  ASSUME Any!Sound, NEW k \in SomeKinds
  PROVE  SoundOrders(SomeScripts[k], SomeTeardowns[k])
<1>1. /\ Any!PartsOf(k) = Parts(SomeScripts[k])
      /\ \A j : Any!DroppedBy(k, j) = Dropped(SomeTeardowns[k], j)
  BY DEF Any!PartsOf, Any!DroppedBy, Parts, Dropped
<1> QED  BY <1>1 DEF Any!Sound, SoundOrders

\* Every step is one of those above.
LEMMA AnyStep ==
  ASSUME Any!Sound, AnyInv, Any!Next
  PROVE  AnyInv'
<1> DEFINE k == some.kind
           s == SomeScripts[k]
           t == SomeTeardowns[k]
<1>1. k \in SomeKinds /\ Clean(s, t, some) /\ SoundOrders(s, t)
  BY AnyOrders DEF AnyInv
<1>2. /\ some = Object(k, some.phase, some.at, some.held, some.busy)
      /\ some.phase \in {"none", "init", "ready", "teardown"}
  BY <1>1 DEF Clean, Shape
<1>3. CASE \E c \in SomeKinds : Any!Create(c)
  <2>1. PICK c \in SomeKinds : some' = Begun(c)
    BY <1>3 DEF Any!Create, Any!NoObject, Object, Begun, Absent
  <2>2. Clean(SomeScripts[c], SomeTeardowns[c], some') /\ some'.kind = c
    BY <2>1, BegunIsClean
  <2> QED  BY <2>2 DEF AnyInv
<1>4. ASSUME ~\E c \in SomeKinds : Any!Create(c)
      PROVE  Moves(s, t, some, some')
  <2>1. CASE Any!InitStep
    BY <2>1, <1>2 DEF Any!InitStep, Any!Take, Any!Skip, Any!Fail, Any!Succeed, Any!InInit, Any!Step,
       Moves, Taking, Skipping, Closing, Succeeding, Object
  <2>2. CASE (\E b \in BOOLEAN : Any!Use(b)) \/ Any!DeviceEnds
    <3>1. Using(some, some')
      BY <2>2, <1>2 DEF Any!Use, Any!DeviceEnds, Using, Object
    <3> QED  BY <3>1 DEF Moves
  <2>3. CASE Any!Destroy
    BY <2>3, <1>2 DEF Any!Destroy, Moves, Closing, Object
  <2>4. CASE Any!TeardownStep
    BY <2>4, <1>2 DEF Any!TeardownStep, Any!DropNext, Any!DeviceIdle, Any!Deleted,
       Moves, Dropping, Closed, Object
  <2> QED  BY <1>4, <2>1, <2>2, <2>3, <2>4 DEF Any!Next
<1>5. CASE ~\E c \in SomeKinds : Any!Create(c)
  <2> HIDE DEF s, t
  <2>1. Clean(s, t, some') /\ some'.kind = k
    BY <1>1, <1>4, <1>5, MovesKeep
  <2> QED  BY <1>1, <2>1 DEF AnyInv, s, t
<1> QED  BY <1>3, <1>5

\* However far init came and whenever the object is deleted, with whatever
\* scripts that are sound: nothing is leaked, nothing is dropped before what is
\* built on it, and nothing while the device is at work.
THEOREM ObjectIsClean ==
  ASSUME Any!Sound
  PROVE  Any!Spec => [](Any!NothingLeaked /\ Any!BuiltOnHeld /\ Any!DroppedIdle)
<1>1. Any!Init => AnyInv
  <2> SUFFICES ASSUME NEW k \in SomeKinds, some = Absent(k)
               PROVE  AnyInv
    BY DEF Any!Init, Any!NoObject, Object, Begun, Absent
  <2> QED  BY BegunIsClean DEF AnyInv
<1>2. AnyInv /\ [Any!Next]_some => AnyInv'
  BY AnyStep DEF AnyInv
<1>3. AnyInv => Any!NothingLeaked /\ Any!BuiltOnHeld /\ Any!DroppedIdle
  BY DEF AnyInv, Clean, NoneLeft, BasesHeld, AtRest, Any!NothingLeaked, Any!BuiltOnHeld, Any!DroppedIdle
<1> QED  BY <1>1, <1>2, <1>3, PTL DEF Any!Spec

-----------------------------------------------------------------------------
(* The blur and the segmenter of a run *)

Handles ==
  /\ gpu.kind \in Kinds /\ Clean(Scripts[gpu.kind], Teardowns[gpu.kind], gpu)
  /\ seg.kind \in Kinds /\ Clean(Scripts[seg.kind], Teardowns[seg.kind], seg)

\* The orders of VkBlur and of LiteRtSegmenter are sound.
LEMMA OrdersOfKinds ==
  ASSUME NEW k \in Kinds
  PROVE  SoundOrders(Scripts[k], Teardowns[k])
<1>1. /\ Gpu!PartsOf(k) = Parts(Scripts[k])
      /\ \A j : Gpu!DroppedBy(k, j) = Dropped(Teardowns[k], j)
  BY DEF Gpu!PartsOf, Gpu!DroppedBy, Parts, Dropped
<1>2. Gpu!Sound
  BY ScriptsAssumption
<1> DEFINE s == Scripts[k]
           t == Teardowns[k]
<1>3. /\ Len(s) \in Nat /\ Len(t) \in Nat
      /\ \A i, j \in 1 .. Len(s) : i # j => s[i].takes \cap s[j].takes = {}
      /\ \A i \in 1 .. Len(s) : \A q \in s[i].on :
           \E l \in 1 .. i - 1 : q \in s[l].takes /\ "skip" \notin s[l].may
      /\ \A i \in 1 .. Len(s), j \in 1 .. Len(t) :
           t[j] \cap s[i].on # {} => s[i].takes \subseteq Gpu!DroppedBy(k, j)
      /\ Gpu!PartsOf(k) \subseteq Gpu!DroppedBy(k, Len(t))
  <2> HIDE DEF Kinds, Scripts, Teardowns
  <2> QED  BY <1>2, Zenon DEF Gpu!Sound
<1>4. Gpu!PartsOf(k) = Parts(s) /\ \A j : Gpu!DroppedBy(k, j) = Dropped(t, j)
  BY <1>1
<1> HIDE DEF s, t
<1>5. SoundOrders(s, t)
  BY <1>3, <1>4 DEF SoundOrders
<1> QED  BY <1>5 DEF s, t

\* Every step of main and of the GPU on the blur keeps it clean.
LEMMA GpuKeeps ==
  ASSUME Handles,
         \/ Gpu!Create("blur") \/ Gpu!InitStep \/ Gpu!TeardownStep \/ Gpu!Destroy
         \/ \E late \in BOOLEAN : Gpu!Use(late)
         \/ Gpu!DeviceEnds
         \/ gpu' = gpu
  PROVE  gpu'.kind \in Kinds /\ Clean(Scripts[gpu'.kind], Teardowns[gpu'.kind], gpu')
<1> DEFINE k == gpu.kind
           s == Scripts[k]
           t == Teardowns[k]
<1>0. "blur" \in Kinds
  BY DEF Kinds
<1> HIDE DEF Kinds, Scripts, Teardowns
<1>1. k \in Kinds /\ Clean(s, t, gpu) /\ SoundOrders(s, t)
  BY OrdersOfKinds DEF Handles
<1>2. /\ gpu = Object(k, gpu.phase, gpu.at, gpu.held, gpu.busy)
      /\ gpu.phase \in {"none", "init", "ready", "teardown"}
  BY <1>1 DEF Clean, Shape
<1>3. CASE Gpu!Create("blur")
  <2>1. gpu' = Begun("blur")
    BY <1>3 DEF Gpu!Create, Gpu!NoObject, Object, Begun, Absent
  <2>2. Clean(Scripts["blur"], Teardowns["blur"], gpu') /\ gpu'.kind = "blur"
    BY <2>1, BegunIsClean
  <2> QED  BY <1>0, <2>2
<1>4. ASSUME ~Gpu!Create("blur"), gpu' # gpu
      PROVE  Moves(s, t, gpu, gpu')
  <2>1. CASE Gpu!InitStep
    BY <2>1, <1>2 DEF Gpu!InitStep, Gpu!Take, Gpu!Skip, Gpu!Fail, Gpu!Succeed, Gpu!InInit, Gpu!Step,
       Moves, Taking, Skipping, Closing, Succeeding, Object
  <2>2. CASE (\E b \in BOOLEAN : Gpu!Use(b)) \/ Gpu!DeviceEnds
    <3>1. Using(gpu, gpu')
      BY <2>2, <1>2 DEF Gpu!Use, Gpu!DeviceEnds, Using, Object
    <3> QED  BY <3>1 DEF Moves
  <2>3. CASE Gpu!Destroy
    BY <2>3, <1>2 DEF Gpu!Destroy, Moves, Closing, Object
  <2>4. CASE Gpu!TeardownStep
    BY <2>4, <1>2 DEF Gpu!TeardownStep, Gpu!DropNext, Gpu!DeviceIdle, Gpu!Deleted,
       Moves, Dropping, Closed, Object
  <2> QED  BY <1>4, <2>1, <2>2, <2>3, <2>4
<1>5. CASE ~Gpu!Create("blur") /\ gpu' # gpu
  <2> HIDE DEF s, t
  <2>1. Clean(s, t, gpu') /\ gpu'.kind = k
    BY <1>1, <1>4, <1>5, MovesKeep
  <2> QED  BY <1>1, <2>1 DEF s, t
<1>6. CASE gpu' = gpu
  BY <1>1, <1>6
<1> QED  BY <1>3, <1>5, <1>6

\* Every step of main on the segmenter keeps it clean.
LEMMA SegKeeps ==
  ASSUME Handles, NEW c \in Kinds,
         Seg!Create(c) \/ Seg!InitStep \/ Seg!TeardownStep \/ Seg!Destroy \/ seg' = seg
  PROVE  seg'.kind \in Kinds /\ Clean(Scripts[seg'.kind], Teardowns[seg'.kind], seg')
<1> DEFINE k == seg.kind
           s == Scripts[k]
           t == Teardowns[k]
<1> HIDE DEF Kinds, Scripts, Teardowns
<1>1. k \in Kinds /\ Clean(s, t, seg) /\ SoundOrders(s, t)
  BY OrdersOfKinds DEF Handles
<1>2. /\ seg = Object(k, seg.phase, seg.at, seg.held, seg.busy)
      /\ seg.phase \in {"none", "init", "ready", "teardown"}
  BY <1>1 DEF Clean, Shape
<1>3. CASE Seg!Create(c)
  <2>1. seg' = Begun(c)
    BY <1>3 DEF Seg!Create, Seg!NoObject, Object, Begun, Absent
  <2>2. Clean(Scripts[c], Teardowns[c], seg') /\ seg'.kind = c
    BY <2>1, BegunIsClean
  <2> QED  BY <2>2
<1>4. ASSUME ~Seg!Create(c), seg' # seg
      PROVE  Moves(s, t, seg, seg')
  <2>1. CASE Seg!InitStep
    BY <2>1, <1>2 DEF Seg!InitStep, Seg!Take, Seg!Skip, Seg!Fail, Seg!Succeed, Seg!InInit, Seg!Step,
       Moves, Taking, Skipping, Closing, Succeeding, Object
  <2>2. CASE Seg!Destroy
    BY <2>2, <1>2 DEF Seg!Destroy, Moves, Closing, Object
  <2>3. CASE Seg!TeardownStep
    BY <2>3, <1>2 DEF Seg!TeardownStep, Seg!DropNext, Seg!DeviceIdle, Seg!Deleted,
       Moves, Dropping, Closed, Object
  <2> QED  BY <1>4, <2>1, <2>2, <2>3
<1>5. CASE ~Seg!Create(c) /\ seg' # seg
  <2> HIDE DEF s, t
  <2>1. Clean(s, t, seg') /\ seg'.kind = k
    BY <1>1, <1>4, <1>5, MovesKeep
  <2> QED  BY <1>1, <2>1 DEF s, t
<1>6. CASE seg' = seg
  BY <1>1, <1>6
<1> QED  BY <1>3, <1>5, <1>6

-----------------------------------------------------------------------------
(* The invariant of a run *)

BeforeMode == {"pipe", "gpuInit", "seg", "segInit", "mode"}
NotYetMeasured == {"off", "warm"} \cup Loading \cup BeforeMode
Reporting == {"batStop", "batJoin", "write"}

\* The files of a directory: no frame that meta.txt lists is older than it or, if
\* they are of one run, of another size; the frames that the run of the emulator has
\* written are its own; and if nobody was cut off, all those that meta.txt lists are
\* of its run.
OfRun(b, s, k) == \A i \in 1 .. k : dir.frame[i].by = b /\ dir.frame[i].size = s
NotOlder ==
  \A i \in 1 .. dir.meta.lines :
    /\ dir.frame[i].by >= dir.meta.by
    /\ dir.frame[i].by = dir.meta.by => dir.frame[i].size = dir.meta.size
Written ==
  /\ NotOlder
  /\ emu.pc \in {"open", "rows"} => emu.i <= emu.len
  /\ emu.pc \in {"open", "rows", "meta"} => dir.meta.by < emu.by
  /\ emu.pc = "open" => OfRun(emu.by, emu.size, emu.i - 1)
  /\ emu.pc = "rows" => OfRun(emu.by, emu.size, emu.i)
  /\ emu.pc \in {"meta", "mask"} => OfRun(emu.by, emu.size, emu.len)
  /\ emu.pc = "mask" => dir.meta.by = emu.by /\ dir.meta.size = emu.size /\ dir.meta.lines <= emu.len
  /\ emu.pc = "off" => dir.meta.by <= emu.by
  /\ emu.pc = "off" /\ ~cut => OfRun(dir.meta.by, dir.meta.size, dir.meta.lines)

\* What has been read of a directory at rest: frames that fit its meta.txt, and if
\* nobody was cut off in it, those of one burst, as many as were asked for.
OfOneBurst == \A i \in DOMAIN burst.frames : burst.frames[i].by = burst.by
FramesFit == \A i \in DOMAIN burst.frames : Fits(burst.frames[i])
Read ==
  /\ pc \in {"off", "meta", "burst"} => burst = NoBurst
  /\ pc = "off" \/ pc \in Loading => used = 0
  /\ pc = "frames" => Len(burst.frames) <= burst.want
  /\ found # "inUse" => FramesFit
  /\ found = "complete" => OfOneBurst /\ used <= Len(burst.frames)
  /\ found # "inUse" /\ pc \in Loading => emu.pc = "off" /\ (found = "complete" => ~cut)
  /\ found # "inUse" /\ pc = "burst" => n <= dir.meta.lines
  /\ found # "inUse" /\ pc = "frames" =>
       /\ n <= dir.meta.lines /\ burst.want = n
       /\ burst.by = dir.meta.by /\ burst.size = dir.meta.size
  /\ found = "complete" /\ (pc = "mask" \/ (pc \in Working /\ opt.mode # "idle")) =>
       Len(burst.frames) = n

\* The count of runs: one before the window, and in it as many as iterations.
Warmed == ran.before = IF opt.mode = "idle" THEN 0 ELSE 1
Measured ==
  /\ Warmed /\ ran.inside = iters
  /\ IF opt.mode = "idle" THEN iters = 0 ELSE iters >= 1 /\ (opt.timed => elapsed)
NoWindow == window = "none" /\ clk = "none" /\ iters = 0
Counted ==
  /\ pc \in Loading \cup BeforeMode \cup {"warm", "iter", "count"} => opt.mode # "idle"
  /\ pc \in NotYetMeasured => NoWindow /\ ran.before = 0
  /\ pc \in {"clock", "begin"} => window = "none" /\ iters = 0 /\ Warmed
  /\ pc = "clock" => clk = "none"
  /\ pc \in {"iter", "count"} => window = "open" \/ (NoWindow /\ ran.before <= opt.repeat)
  /\ window = "none" => ran.inside = 0
  /\ pc = "iter" => IF window = "open" THEN Warmed /\ ran.inside = iters ELSE ran.before < opt.repeat
  /\ pc = "count" => IF window = "open" THEN Warmed /\ ran.inside = iters + 1 ELSE TRUE
  /\ pc = "end" => window = "open" /\ Measured
  /\ pc \in {"clkStop", "clkJoin"} => window = "closed" /\ Measured /\ (opt.timed => elapsed)
  /\ pc \in Reporting =>
       \/ NoWindow /\ ran.before = opt.repeat
       \/ window = "closed" /\ Measured /\ (opt.timed => elapsed)

\* What has been stopped and dropped when main is at pc.
Ended ==
  /\ pc \in Reporting \cup {"uBatStop", "uBatJoin", "exited"} => ~Alive(clk)
  /\ pc \in {"write", "exited"} => ~Alive(bat)
  /\ pc \in {"dropGpu", "uClkStop", "uClkJoin", "uBatStop", "uBatJoin", "exited"} => seg.phase = "none"
  /\ pc \in {"uClkStop", "uClkJoin", "uBatStop", "uBatJoin", "exited"} => gpu.phase = "none"

IInv == TypeOK /\ Handles /\ Written /\ Read /\ Counted /\ Ended

Bursts ==
  [by : 0 .. MaxWrites, size : Sizes \cup {0}, want : 0 .. MaxLength, frames : Seq(Files)]
FileTypes ==
  /\ dir \in [frame : [1 .. MaxLength -> Files], mask : BOOLEAN,
              meta : [by : 0 .. MaxWrites, size : Sizes \cup {0}, lines : 0 .. MaxLength]]
  /\ emu \in [pc : {"off", "open", "rows", "meta", "mask"}, by : 0 .. MaxWrites,
              len : Lengths, size : Sizes \cup {0}, i : 1 .. MaxLength]
  /\ cut \in BOOLEAN
MainTypes ==
  /\ opt \in Options /\ pc \in MainPC /\ found \in {"complete", "cutOff", "inUse"}
  /\ n \in 0 .. MaxLength
  /\ burst \in Bursts
ThreadTypes ==
  /\ bat \in ThreadPC /\ clk \in ThreadPC
  /\ running \in [bat : BOOLEAN, clk : BOOLEAN]
WindowTypes ==
  /\ window \in {"none", "open", "closed"} /\ elapsed \in BOOLEAN
  /\ iters \in Nat /\ ran \in [before : Nat, inside : Nat] /\ used \in Nat

\* The type of the state part by part, that of the handles being theirs.
LEMMA TypeParts ==
  Handles /\ FileTypes /\ MainTypes /\ ThreadTypes /\ WindowTypes => TypeOK
<1> SUFFICES ASSUME Handles, FileTypes, MainTypes, ThreadTypes, WindowTypes
             PROVE  TypeOK
  OBVIOUS
<1>1. Gpu!TypeOK
  <2>1. Gpu!PartsOf(gpu.kind) = Parts(Scripts[gpu.kind])
    BY DEF Gpu!PartsOf, Parts
  <2> HIDE DEF Scripts, Kinds
  <2> QED  BY <2>1 DEF Handles, Clean, Shape, Gpu!TypeOK, Gpu!Phases
<1>2. Seg!TypeOK
  <2>1. Seg!PartsOf(seg.kind) = Parts(Scripts[seg.kind])
    BY DEF Seg!PartsOf, Parts
  <2> HIDE DEF Scripts, Kinds
  <2> QED  BY <2>1 DEF Handles, Clean, Shape, Seg!TypeOK, Seg!Phases
<1> QED
  BY <1>1, <1>2 DEF FileTypes, MainTypes, Bursts, ThreadTypes, WindowTypes, TypeOK

\* MaxLength is the length of the longest burst, and every burst has a frame.
LEMMA Longest ==
  /\ MaxLength \in Lengths /\ MaxLength \in Nat \ {0}
  /\ \A l \in Lengths : l \in 1 .. MaxLength
<1>1. MaxLength \in Lengths /\ \A l \in Lengths : l <= MaxLength
  BY CommandLineAssumption DEF MaxLength
<1> QED  BY <1>1, CommandLineAssumption

\* What is known of a command line.
LEMMA OptionFacts ==
  ASSUME opt \in Options
  PROVE  /\ opt.mode \in Modes /\ opt.frames \in Nat /\ opt.repeat \in Nat \ {0}
         /\ opt.seg \in Segmenters
BY CommandLineAssumption

-----------------------------------------------------------------------------
(* The handles *)

\* The blur and the segmenter stay clean with every step.
LEMMA HandlesStep ==
  ASSUME IInv, [Next]_vars
  PROVE  Handles'
<1> DEFINE GpuStep == \/ Gpu!Create("blur") \/ Gpu!InitStep \/ Gpu!TeardownStep \/ Gpu!Destroy
                      \/ \E late \in BOOLEAN : Gpu!Use(late)
                      \/ Gpu!DeviceEnds
                      \/ gpu' = gpu
           SegStep(c) == Seg!Create(c) \/ Seg!InitStep \/ Seg!TeardownStep \/ Seg!Destroy \/ seg' = seg
<1>1. GpuStep /\ \E c \in Kinds : SegStep(c)
  <2>0. "emu" \in Kinds /\ (opt.seg # "none" => opt.seg \in Kinds)
    BY OptionFacts DEF IInv, TypeOK, Kinds, Segmenters
  <2> HIDE DEF Kinds
  <2>1. CASE Emulator
    BY <2>0, <2>1 DEF Emulator, EmuStart, EmuOpenFrame, EmuRow, EmuCloseFrame, EmuMeta, EmuMask, EmuNoMask,
       EmuCut, Write, nativeVars
  <2>2. CASE \E readable \in BOOLEAN : Start(readable)
    BY <2>0, <2>2 DEF Start, nativeVars
  <2>3. CASE Load
    BY <2>0, <2>3 DEF Load, LoadMeta, LoadBurst, LoadFrame, LoadDone, LoadMask, nativeVars
  <2>4. CASE Make
    BY <2>0, <2>4 DEF Make, MakePipeline, GpuInit, MakeSegmenter, SegInit, ChooseMode, nativeVars
  <2>5. CASE Measure
    BY <2>0, <2>5 DEF Measure, Warm, StartClock, Begin, BurstIteration, Count, End, SegIteration,
       RunPipeline, nativeVars
  <2>6. CASE Finish
    BY <2>0, <2>6 DEF Finish, StopClock, JoinClock, StopBattery, JoinBattery, WriteResults,
       DropSegmenter, DropPipeline, nativeVars
  <2>7. CASE BatteryThread \/ ClockThread \/ TimePasses
    BY <2>0, <2>7 DEF BatteryThread, ClockThread, TimePasses, nativeVars
  <2>8. CASE GpuEnds
    BY <2>0, <2>8 DEF GpuEnds
  <2>9. CASE UNCHANGED vars
    BY <2>0, <2>9 DEF vars, nativeVars
  <2> QED
    BY <2>1, <2>2, <2>3, <2>4, <2>5, <2>6, <2>7, <2>8, <2>9 DEF Next, Main
<1>2. gpu'.kind \in Kinds /\ Clean(Scripts[gpu'.kind], Teardowns[gpu'.kind], gpu')
  BY <1>1, GpuKeeps DEF IInv
<1>3. seg'.kind \in Kinds /\ Clean(Scripts[seg'.kind], Teardowns[seg'.kind], seg')
  BY <1>1, SegKeeps DEF IInv
<1> QED  BY <1>2, <1>3 DEF Handles

-----------------------------------------------------------------------------
(* The files *)

\* Only the emulator writes, and main puts the files away once it has read them.
LEMMA FilesKept ==
  ASSUME [Next]_vars, ~Emulator, ~MakePipeline
  PROVE  dir' = dir /\ emu' = emu /\ cut' = cut
<1>1. CASE (\E readable \in BOOLEAN : Start(readable)) \/ Load
  BY <1>1 DEF Start, Load, LoadMeta, LoadBurst, LoadFrame, LoadDone, LoadMask, fileVars
<1>2. CASE Make
  BY <1>2 DEF Make, GpuInit, MakeSegmenter, SegInit, ChooseMode, fileVars
<1>3. CASE Measure
  BY <1>3 DEF Measure, Warm, StartClock, Begin, BurstIteration, Count, End, SegIteration, fileVars
<1>4. CASE Finish
  BY <1>4 DEF Finish, StopClock, JoinClock, StopBattery, JoinBattery, WriteResults,
     DropSegmenter, DropPipeline, fileVars
<1>5. CASE BatteryThread \/ ClockThread \/ TimePasses \/ GpuEnds
  BY <1>5 DEF BatteryThread, ClockThread, TimePasses, GpuEnds, fileVars
<1>6. CASE UNCHANGED vars
  BY <1>6 DEF vars, fileVars
<1> QED  BY <1>1, <1>2, <1>3, <1>4, <1>5, <1>6 DEF Next, Main

\* The emulator goes on to the next frame.
LEMMA NextFrame ==
  ASSUME NEW b, NEW l, NEW z, NEW i, NEW p, NEW j, NEW e, NEW f,
         e = [pc |-> p, by |-> b, len |-> l, size |-> z, i |-> i],
         f = [e EXCEPT !.i = j, !.pc = "open"]
  PROVE  f = [pc |-> "open", by |-> b, len |-> l, size |-> z, i |-> j]
<1>1. f = [k \in {"pc", "by", "len", "size", "i"} |-> f[k]]
  OBVIOUS
<1>2. f.pc = "open" /\ f.by = b /\ f.len = l /\ f.size = z /\ f.i = j
  OBVIOUS
<1>3. DOMAIN f = {"pc", "by", "len", "size", "i"}
  OBVIOUS
<1> QED  BY <1>1, <1>2, <1>3

\* What is said of the files, and what it is said of.
LEMMA FileFacts ==
  ASSUME IInv
  PROVE  /\ dir.frame \in [1 .. MaxLength -> Files] /\ dir.mask \in BOOLEAN
         /\ dir.meta.by \in 0 .. MaxWrites /\ dir.meta.size \in Sizes \cup {0}
         /\ dir.meta.lines \in 0 .. MaxLength
         /\ dir = [frame |-> dir.frame, mask |-> dir.mask, meta |-> dir.meta]
         /\ dir.meta \in [by : 0 .. MaxWrites, size : Sizes \cup {0}, lines : 0 .. MaxLength]
         /\ emu.pc \in {"off", "open", "rows", "meta", "mask"} /\ emu.by \in 0 .. MaxWrites
         /\ emu.len \in Lengths /\ emu.len \in 1 .. MaxLength
         /\ emu.size \in Sizes \cup {0} /\ emu.i \in 1 .. MaxLength /\ cut \in BOOLEAN
         /\ emu = [pc |-> emu.pc, by |-> emu.by, len |-> emu.len, size |-> emu.size, i |-> emu.i]
         /\ MaxLength \in Nat \ {0} /\ MaxWrites \in Nat /\ Sizes \cup {0} \subseteq Nat
<1>1. /\ dir \in [frame : [1 .. MaxLength -> Files], mask : BOOLEAN,
                  meta : [by : 0 .. MaxWrites, size : Sizes \cup {0}, lines : 0 .. MaxLength]]
      /\ emu \in [pc : {"off", "open", "rows", "meta", "mask"}, by : 0 .. MaxWrites,
                  len : Lengths, size : Sizes \cup {0}, i : 1 .. MaxLength]
      /\ cut \in BOOLEAN
  BY DEF IInv, TypeOK
<1>2. emu.len \in Lengths
  BY <1>1
<1>3. emu.len \in 1 .. MaxLength /\ MaxLength \in Nat \ {0}
  BY <1>2, Longest
<1>4. MaxWrites \in Nat /\ Sizes \cup {0} \subseteq Nat
  BY CommandLineAssumption
<1> QED  BY <1>1, <1>2, <1>3, <1>4

\* One frame's file is written, by the run and in the size that the emulator is at.
LEMMA FrameWritten ==
  ASSUME IInv, NEW f \in Files, f.by = emu.by, f.size = emu.size,
         emu.pc \in {"open", "rows"}, emu.pc = "rows" => dir.frame[emu.i].size = emu.size,
         dir' = [frame |-> [dir.frame EXCEPT ![emu.i] = f], mask |-> dir.mask, meta |-> dir.meta],
         emu' = [pc |-> "rows", by |-> emu.by, len |-> emu.len, size |-> emu.size, i |-> emu.i],
         cut' = cut
  PROVE  FileTypes' /\ Written'
<1> DEFINE q == [dir.frame EXCEPT ![emu.i] = f]
<1>1. q \in [1 .. MaxLength -> Files]
  BY FileFacts
<1>2. FileTypes'
  <2> HIDE DEF q
  <2>1. dir' = [frame |-> q, mask |-> dir.mask, meta |-> dir.meta]
    BY DEF q
  <2> QED  BY <1>1, <2>1, FileFacts DEF FileTypes
<1>3. \A j \in 1 .. MaxLength : dir'.frame[j] = IF j = emu.i THEN f ELSE dir.frame[j]
  BY FileFacts
<1>4. /\ emu'.pc = "rows" /\ emu'.by = emu.by /\ emu'.len = emu.len /\ emu'.size = emu.size
      /\ emu'.i = emu.i /\ dir'.meta = dir.meta
  OBVIOUS
<1>5. emu.i <= emu.len /\ dir.meta.by < emu.by /\ NotOlder
  BY DEF IInv, Written
<1>6. \A j \in 1 .. emu.i : dir'.frame[j].by = emu.by /\ dir'.frame[j].size = emu.size
  <2> SUFFICES ASSUME NEW j \in 1 .. emu.i
               PROVE  dir'.frame[j].by = emu.by /\ dir'.frame[j].size = emu.size
    OBVIOUS
  <2>1. j \in 1 .. MaxLength /\ (j = emu.i \/ j \in 1 .. emu.i - 1)
    BY FileFacts
  <2>2. CASE j = emu.i
    BY <1>3, <2>1, <2>2
  <2>3. CASE j # emu.i
    <3>1. dir.frame[j].by = emu.by /\ dir.frame[j].size = emu.size
      BY <2>1, <2>3 DEF IInv, Written, OfRun
    <3> QED  BY <1>3, <2>1, <2>3, <3>1
  <2> QED  BY <2>2, <2>3
<1>7. NotOlder'
  <2> SUFFICES ASSUME NEW j \in 1 .. dir.meta.lines
               PROVE  /\ dir'.frame[j].by >= dir.meta.by
                      /\ dir'.frame[j].by = dir.meta.by => dir'.frame[j].size = dir.meta.size
    BY <1>4 DEF NotOlder
  <2>1. j \in 1 .. MaxLength
    BY FileFacts
  <2>2. emu.by >= dir.meta.by /\ emu.by # dir.meta.by
    BY <1>5, FileFacts
  <2>3. CASE j = emu.i
    BY <1>3, <2>1, <2>2, <2>3
  <2>4. CASE j # emu.i
    BY <1>3, <1>5, <2>1, <2>4 DEF NotOlder
  <2> QED  BY <2>3, <2>4
<1> QED  BY <1>2, <1>4, <1>5, <1>6, <1>7 DEF Written, OfRun

\* The emulator writes frame after frame under its own number.
LEMMA EmulatorKeeps ==
  ASSUME IInv, Emulator
  PROVE  FileTypes' /\ Written'
<1>1. Written
  BY DEF IInv
<1>2. ASSUME NEW len \in Lengths, NEW size \in Sizes, EmuStart(len, size)
      PROVE  FileTypes' /\ Written'
  <2>1. /\ dir' = dir /\ cut' = cut /\ emu.by + 1 \in 0 .. MaxWrites /\ emu.pc = "off"
        /\ emu' = [pc |-> "open", by |-> emu.by + 1, len |-> len, size |-> size, i |-> 1]
    BY <1>2, FileFacts DEF EmuStart, Write
  <2>2. emu'.pc = "open" /\ emu'.by = emu.by + 1 /\ emu'.len = len /\ emu'.size = size /\ emu'.i = 1
    BY <2>1
  <2>3. FileTypes'
    <3>1. emu' \in [pc : {"off", "open", "rows", "meta", "mask"}, by : 0 .. MaxWrites,
                    len : Lengths, size : Sizes \cup {0}, i : 1 .. MaxLength]
      <4>1. 1 \in 1 .. MaxLength
        BY FileFacts
      <4> QED  BY <2>1, <4>1
    <3> QED  BY <2>1, <3>1, FileFacts DEF FileTypes, IInv, TypeOK
  <2>4. 1 <= len /\ dir.meta.by < emu.by + 1
    BY <1>1, <2>1, FileFacts, Longest DEF Written
  <2> QED  BY <1>1, <2>1, <2>2, <2>3, <2>4 DEF Written, OfRun, NotOlder
<1>3. CASE EmuOpenFrame
  <2> DEFINE f == [by |-> emu.by, size |-> emu.size, written |-> 0]
  <2>1. /\ emu.pc = "open" /\ cut' = cut
        /\ dir' = [frame |-> [dir.frame EXCEPT ![emu.i] = f], mask |-> dir.mask, meta |-> dir.meta]
        /\ emu' = [pc |-> "rows", by |-> emu.by, len |-> emu.len, size |-> emu.size, i |-> emu.i]
    BY <1>3, FileFacts DEF EmuOpenFrame, Write
  <2>2. f \in Files
    BY FileFacts DEF Files
  <2>3. f.by = emu.by /\ f.size = emu.size
    OBVIOUS
  <2> HIDE DEF f
  <2> QED  BY <2>1, <2>2, <2>3, FrameWritten
<1>4. CASE EmuRow
  <2> DEFINE o == dir.frame[emu.i]
             f == [o EXCEPT !.written = @ + 1]
  <2>1. /\ emu.pc = "rows" /\ cut' = cut /\ o.written < emu.size
        /\ dir' = [frame |-> [dir.frame EXCEPT ![emu.i] = f], mask |-> dir.mask, meta |-> dir.meta]
        /\ emu' = emu
    BY <1>4, FileFacts DEF EmuRow, Write
  <2>2. o \in Files /\ o.by = emu.by /\ o.size = emu.size
    BY <1>1, <2>1, FileFacts DEF Written, OfRun
  <2>3. f \in Files /\ f.by = emu.by /\ f.size = emu.size
    <3>1. o = [by |-> o.by, size |-> o.size, written |-> o.written]
      BY <2>2 DEF Files
    <3>2. o.written \in Nat /\ o.written + 1 \in Nat /\ o.written + 1 <= o.size
      <4>1. o.written \in Nat /\ o.size \in Nat
        BY <2>2, FileFacts DEF Files
      <4> QED  BY <2>1, <2>2, <4>1
    <3> HIDE DEF o
    <3>3. f = [by |-> o.by, size |-> o.size, written |-> o.written + 1]
      BY <3>1
    <3>4. o.by \in 0 .. MaxWrites /\ o.size \in Sizes \cup {0}
      BY <2>2 DEF Files
    <3> HIDE DEF f
    <3>5. f.by = o.by /\ f.size = o.size /\ f.written = o.written + 1
      BY <3>3
    <3> QED  BY <2>2, <3>2, <3>3, <3>4, <3>5 DEF Files
  <2>4. emu' = [pc |-> "rows", by |-> emu.by, len |-> emu.len, size |-> emu.size, i |-> emu.i]
    BY <2>1, FileFacts
  <2> HIDE DEF f
  <2> QED  BY <2>1, <2>2, <2>3, <2>4, FrameWritten
<1>5. CASE EmuCloseFrame
  <2>1. /\ emu.pc = "rows" /\ cut' = cut /\ dir' = dir
        /\ emu' = IF emu.i < emu.len
                  THEN [pc |-> "open", by |-> emu.by, len |-> emu.len, size |-> emu.size, i |-> emu.i + 1]
                  ELSE [pc |-> "meta", by |-> emu.by, len |-> emu.len, size |-> emu.size, i |-> emu.i]
    <3>1. /\ emu.pc = "rows" /\ cut' = cut /\ dir' = dir
          /\ emu' = IF emu.i < emu.len THEN [emu EXCEPT !.i = @ + 1, !.pc = "open"]
                                        ELSE [emu EXCEPT !.pc = "meta"]
      BY <1>5 DEF EmuCloseFrame, Write
    <3>2. [emu EXCEPT !.pc = "meta"]
            = [pc |-> "meta", by |-> emu.by, len |-> emu.len, size |-> emu.size, i |-> emu.i]
      BY FileFacts
    <3>3. emu.i < emu.len =>
            emu' = [pc |-> "open", by |-> emu.by, len |-> emu.len, size |-> emu.size, i |-> emu.i + 1]
      BY <3>1, FileFacts, NextFrame
    <3> QED  BY <3>1, <3>2, <3>3
  <2>2. /\ emu'.by = emu.by /\ emu'.len = emu.len /\ emu'.size = emu.size
        /\ IF emu.i < emu.len THEN emu'.pc = "open" /\ emu'.i = emu.i + 1
                              ELSE emu'.pc = "meta" /\ emu'.i = emu.i
    BY <2>1
  <2>3. FileTypes'
    <3>1. emu.i < emu.len => emu.i + 1 \in 1 .. MaxLength
      BY FileFacts
    <3>2. emu' \in [pc : {"off", "open", "rows", "meta", "mask"}, by : 0 .. MaxWrites,
                    len : Lengths, size : Sizes \cup {0}, i : 1 .. MaxLength]
      BY <2>1, <3>1, FileFacts
    <3> QED  BY <2>1, <3>2, FileFacts DEF FileTypes, IInv, TypeOK
  <2>4. NotOlder /\ emu.i <= emu.len /\ dir.meta.by < emu.by /\ OfRun(emu.by, emu.size, emu.i)
    BY <1>1, <2>1 DEF Written
  <2>5. CASE emu.i < emu.len
    <3>1. emu'.i - 1 = emu.i /\ emu'.i <= emu'.len
      <4>1. emu.i \in Nat /\ emu.len \in Nat
        BY FileFacts
      <4> QED  BY <2>2, <2>5, <4>1
    <3> QED  BY <2>1, <2>2, <2>3, <2>4, <2>5, <3>1 DEF Written, OfRun, NotOlder
  <2>6. CASE ~(emu.i < emu.len)
    <3>1. emu.i = emu.len
      BY <2>4, <2>6, FileFacts
    <3> QED  BY <2>1, <2>2, <2>3, <2>4, <2>6, <3>1 DEF Written, OfRun, NotOlder
  <2> QED  BY <2>5, <2>6
<1>6. ASSUME NEW lines \in 0 .. MaxLength, EmuMeta(lines)
      PROVE  FileTypes' /\ Written'
  <2> DEFINE m == [by |-> emu.by, size |-> emu.size, lines |-> lines]
  <2>1. /\ emu.pc = "meta" /\ cut' = cut /\ lines <= emu.len
        /\ dir' = [frame |-> dir.frame, mask |-> dir.mask, meta |-> m]
        /\ emu' = [pc |-> "mask", by |-> emu.by, len |-> emu.len, size |-> emu.size, i |-> emu.i]
    BY <1>6, FileFacts DEF EmuMeta, Write
  <2>2. /\ emu'.pc = "mask" /\ emu'.by = emu.by /\ emu'.len = emu.len /\ emu'.size = emu.size
        /\ dir'.meta.by = emu.by /\ dir'.meta.size = emu.size /\ dir'.meta.lines = lines
        /\ dir'.frame = dir.frame
    BY <2>1
  <2>3. FileTypes'
    <3>1. m \in [by : 0 .. MaxWrites, size : Sizes \cup {0}, lines : 0 .. MaxLength]
      BY FileFacts
    <3> HIDE DEF m
    <3> QED  BY <2>1, <3>1, FileFacts DEF FileTypes
  <2>4. OfRun(emu.by, emu.size, emu.len)
    BY <1>1, <2>1 DEF Written
  <2>5. NotOlder'
    <3> SUFFICES ASSUME NEW j \in 1 .. lines
                 PROVE  dir.frame[j].by = emu.by /\ dir.frame[j].size = emu.size /\ emu.by >= emu.by
      BY <2>2 DEF NotOlder
    <3>1. j \in 1 .. emu.len
      BY <2>1, FileFacts
    <3> QED  BY <2>4, <3>1, FileFacts DEF OfRun
  <2> QED  BY <2>1, <2>2, <2>3, <2>4, <2>5 DEF Written, OfRun
<1>7. ASSUME (\E whole \in BOOLEAN : EmuMask(whole)) \/ EmuNoMask
      PROVE  FileTypes' /\ Written'
  <2>1. PICK mask \in BOOLEAN :
          /\ emu.pc = "mask" /\ cut' = cut
          /\ dir' = [frame |-> dir.frame, mask |-> mask, meta |-> dir.meta]
          /\ emu' = [pc |-> "off", by |-> emu.by, len |-> emu.len, size |-> emu.size, i |-> emu.i]
    <3>1. ASSUME NEW whole \in BOOLEAN, EmuMask(whole)
          PROVE  /\ emu.pc = "mask" /\ cut' = cut
                 /\ dir' = [frame |-> dir.frame, mask |-> whole, meta |-> dir.meta]
                 /\ emu' = [pc |-> "off", by |-> emu.by, len |-> emu.len, size |-> emu.size, i |-> emu.i]
      BY <3>1, FileFacts DEF EmuMask, Write
    <3>2. ASSUME EmuNoMask
          PROVE  /\ emu.pc = "mask" /\ cut' = cut
                 /\ dir' = [frame |-> dir.frame, mask |-> dir.mask, meta |-> dir.meta]
                 /\ emu' = [pc |-> "off", by |-> emu.by, len |-> emu.len, size |-> emu.size, i |-> emu.i]
      BY <3>2, FileFacts DEF EmuNoMask, Write
    <3>3. CASE \E whole \in BOOLEAN : EmuMask(whole)
      BY <3>1, <3>3
    <3>4. dir.mask \in BOOLEAN
      BY FileFacts
    <3> QED  BY <1>7, <3>2, <3>3, <3>4
  <2>2. /\ emu'.pc = "off" /\ emu'.by = emu.by
        /\ dir'.meta = dir.meta /\ dir'.frame = dir.frame
    BY <2>1
  <2>3. FileTypes'
    BY <2>1, FileFacts DEF FileTypes
  <2>4. OfRun(dir.meta.by, dir.meta.size, dir.meta.lines) /\ dir.meta.by <= emu.by
    <3>1. /\ OfRun(emu.by, emu.size, emu.len) /\ dir.meta.lines <= emu.len
          /\ dir.meta.by = emu.by /\ dir.meta.size = emu.size
      BY <1>1, <2>1 DEF Written
    <3>2. \A j \in 1 .. dir.meta.lines : j \in 1 .. emu.len
      BY <3>1, FileFacts
    <3> QED  BY <3>1, <3>2, FileFacts DEF OfRun
  <2> QED  BY <1>1, <2>1, <2>2, <2>3, <2>4 DEF Written, OfRun, NotOlder
<1>8. CASE EmuCut
  <2>1. /\ cut' = TRUE /\ dir' = dir /\ emu.pc \in {"open", "rows", "meta"}
        /\ emu' = [pc |-> "off", by |-> emu.by, len |-> emu.len, size |-> emu.size, i |-> emu.i]
    BY <1>8, FileFacts DEF EmuCut, Write
  <2>2. emu'.pc = "off" /\ emu'.by = emu.by
    BY <2>1
  <2>3. FileTypes'
    BY <2>1, FileFacts DEF FileTypes, IInv, TypeOK
  <2>4. NotOlder /\ dir.meta.by <= emu.by
    BY <1>1, <2>1, FileFacts DEF Written
  <2> QED  BY <2>1, <2>2, <2>3, <2>4 DEF Written, NotOlder
<1> QED
  BY <1>2, <1>3, <1>4, <1>5, <1>6, <1>7, <1>8 DEF Emulator

\* What is said of the files stays true.
LEMMA FilesStep ==
  ASSUME IInv, [Next]_vars
  PROVE  FileTypes' /\ Written'
<1>1. CASE MakePipeline
  <2>1. dir' = EmptyDir /\ emu' = EmuOff /\ cut' = FALSE
    BY <1>1 DEF MakePipeline
  <2>2. emu'.pc = "off" /\ dir'.meta.lines = 0 /\ dir'.meta.by = 0 /\ emu'.by = 0
    BY <2>1 DEF EmuOff, EmptyDir, NoMeta
  <2>3. FileTypes'
    <3>1. /\ 0 \in 0 .. MaxWrites /\ 0 \in 0 .. MaxLength /\ 1 \in 1 .. MaxLength
          /\ MaxLength \in Lengths /\ 0 \in Nat /\ 0 <= 0
      BY Longest, CommandLineAssumption
    <3>2. NoFile \in Files
      BY <3>1 DEF Files, NoFile
    <3>3. [i \in 1 .. MaxLength |-> NoFile] \in [1 .. MaxLength -> Files]
      BY <3>2
    <3> QED  BY <2>1, <3>1, <3>3 DEF FileTypes, EmptyDir, EmuOff, NoMeta
  <2> QED  BY <2>2, <2>3 DEF Written, OfRun, NotOlder
<1>2. CASE ~Emulator /\ ~MakePipeline
  <2>1. dir' = dir /\ emu' = emu /\ cut' = cut
    BY <1>2, FilesKept
  <2> QED  BY <2>1 DEF IInv, TypeOK, FileTypes, Written, OfRun, NotOlder
<1> QED  BY <1>1, <1>2, EmulatorKeeps


-----------------------------------------------------------------------------
(* The types of main's state, the threads' and the window's *)

\* A burst with one more frame.
LEMMA OneMoreFrame ==
  ASSUME NEW b, NEW z, NEW w, NEW s, NEW q, NEW e, NEW f,
         e = [by |-> b, size |-> z, want |-> w, frames |-> s],
         f = [e EXCEPT !.frames = q]
  PROVE  f = [by |-> b, size |-> z, want |-> w, frames |-> q]
<1>1. f = [k \in {"by", "size", "want", "frames"} |-> f[k]]
  OBVIOUS
<1>2. f.by = b /\ f.size = z /\ f.want = w /\ f.frames = q
  OBVIOUS
<1>3. DOMAIN f = {"by", "size", "want", "frames"}
  OBVIOUS
<1> QED  BY <1>1, <1>2, <1>3

\* The frame that is read next: it is taken if it has as many pixels as are wanted.
LEMMA FrameRead ==
  ASSUME IInv, LoadFrame
  PROVE  /\ pc = "frames" /\ Len(burst.frames) < burst.want
         /\ Len(burst.frames) \in Nat
         /\ dir.frame[Len(burst.frames) + 1] \in Files
         /\ found' = found /\ n' = n /\ opt' = opt
         /\ \/ burst' = burst /\ pc' = "dropSeg"
            \/ /\ dir.frame[Len(burst.frames) + 1].written >= burst.size
               /\ burst' = [by |-> burst.by, size |-> burst.size, want |-> burst.want,
                            frames |-> Append(burst.frames, dir.frame[Len(burst.frames) + 1])]
               /\ pc' = pc
<1>1. /\ burst = [by |-> burst.by, size |-> burst.size, want |-> burst.want, frames |-> burst.frames]
      /\ burst.want \in 0 .. MaxLength /\ burst.frames \in Seq(Files)
  BY DEF IInv, TypeOK
<1>2. Len(burst.frames) \in Nat /\ MaxLength \in Nat /\ pc = "frames" /\ Len(burst.frames) < burst.want
  BY <1>1, Longest DEF LoadFrame
<1> DEFINE k == Len(burst.frames) + 1
<1>3. dir.frame[k] \in Files
  <2>1. k \in 1 .. MaxLength
    BY <1>1, <1>2
  <2> QED  BY <2>1, FileFacts
<1>4. \/ burst' = burst /\ pc' = "dropSeg"
      \/ /\ dir.frame[k].written >= burst.size
         /\ burst' = [burst EXCEPT !.frames = Append(@, dir.frame[k])] /\ pc' = pc
  BY DEF LoadFrame, EnoughRead, Return
<1>5. ASSUME burst' = [burst EXCEPT !.frames = Append(@, dir.frame[k])]
      PROVE  burst' = [by |-> burst.by, size |-> burst.size, want |-> burst.want,
                       frames |-> Append(burst.frames, dir.frame[k])]
  BY <1>1, <1>5, OneMoreFrame
<1>6. found' = found /\ n' = n /\ opt' = opt
  BY DEF LoadFrame
<1> QED  BY <1>2, <1>3, <1>4, <1>5, <1>6

\* What is loaded is no longer than the longest burst.
LEMMA MainTypesStep ==
  ASSUME IInv, [Next]_vars
  PROVE  MainTypes'
<1>1. /\ opt \in Options /\ pc \in MainPC /\ n \in 0 .. MaxLength /\ burst \in Bursts
      /\ found \in {"complete", "cutOff", "inUse"}
      /\ dir.meta.by \in 0 .. MaxWrites /\ dir.meta.size \in Sizes \cup {0} /\ dir.meta.lines \in 0 .. MaxLength
      /\ MaxLength \in Nat \ {0} /\ opt.frames \in Nat
      /\ cut \in BOOLEAN
  BY Longest, OptionFacts DEF IInv, TypeOK, Bursts
<1>2. opt' = opt
  BY DEF Next, vars, Emulator, EmuStart, EmuOpenFrame, EmuRow, EmuCloseFrame, EmuMeta, EmuMask, EmuNoMask, EmuCut,
     Write, Main, Start, Load, LoadMeta, LoadBurst, LoadFrame, LoadDone, LoadMask, Make, MakePipeline,
     GpuInit, MakeSegmenter, SegInit, ChooseMode, Measure, Warm, StartClock, Begin, BurstIteration,
     Count, End, SegIteration, Finish, StopClock, JoinClock, StopBattery, JoinBattery, WriteResults,
     DropSegmenter, DropPipeline, BatteryThread, ClockThread, TimePasses, GpuEnds
<1>3. found' \in {"complete", "cutOff", "inUse"}
  <2>1. found' = found \/ found' \in {"complete", "cutOff", "inUse"}
    BY DEF Next, vars, loadVars, Emulator, EmuStart, EmuOpenFrame, EmuRow, EmuCloseFrame, EmuMeta, EmuMask, EmuNoMask,
     EmuCut, Write, Main, Start, Load, LoadMeta, LoadBurst, LoadFrame, LoadDone, LoadMask, Make, MakePipeline,
     GpuInit, MakeSegmenter, SegInit, ChooseMode, Measure, Warm, StartClock, Begin, BurstIteration,
     Count, End, SegIteration, Finish, StopClock, JoinClock, StopBattery, JoinBattery, WriteResults,
     DropSegmenter, DropPipeline, BatteryThread, ClockThread, TimePasses, GpuEnds
  <2> QED  BY <1>1, <2>1
<1>4. CASE LoadMeta
  <2>1. n' = n \/ n' = FramesWanted(opt.frames, dir.meta.lines)
    BY <1>4 DEF LoadMeta
  <2>2. FramesWanted(opt.frames, dir.meta.lines) \in 0 .. MaxLength
    BY <1>1 DEF FramesWanted, Least
  <2>3. burst' = burst /\ (pc' = "dropSeg" \/ pc' = "burst")
    BY <1>4 DEF LoadMeta, Return
  <2> QED  BY <1>1, <1>2, <1>3, <2>1, <2>2, <2>3 DEF MainTypes, MainPC, Loading, Unwinding
<1>5. CASE LoadBurst
  <2>1. \/ burst' = burst
        \/ burst' = [by |-> dir.meta.by, size |-> dir.meta.size,
                     want |-> Least(n, dir.meta.lines), frames |-> <<>>]
    BY <1>5 DEF LoadBurst
  <2>2. Least(n, dir.meta.lines) \in 0 .. MaxLength /\ <<>> \in Seq(Files)
    BY <1>1 DEF Least
  <2>3. n' = n /\ (pc' = "dropSeg" \/ pc' = "frames")
    BY <1>5 DEF LoadBurst, Return
  <2>4. burst' \in Bursts
    <3> DEFINE q == <<>>
               w == Least(n, dir.meta.lines)
    <3>1. burst' = burst \/ burst' = [by |-> dir.meta.by, size |-> dir.meta.size, want |-> w, frames |-> q]
      BY <2>1
    <3>2. w \in 0 .. MaxLength /\ q \in Seq(Files)
      BY <2>2
    <3> HIDE DEF q, w
    <3>3. [by |-> dir.meta.by, size |-> dir.meta.size, want |-> w, frames |-> q] \in Bursts
      BY <1>1, <3>2 DEF Bursts
    <3>4. CASE burst' = burst
      BY <1>1, <3>4
    <3> QED  BY <3>1, <3>3, <3>4
  <2> QED  BY <1>1, <1>2, <1>3, <2>3, <2>4 DEF MainTypes, MainPC, Loading, Unwinding
<1>6. CASE LoadFrame
  <2>1. burst' \in Bursts
    <3> DEFINE f == dir.frame[Len(burst.frames) + 1]
               g == Append(burst.frames, f)
    <3>1. f \in Files
      BY <1>6, FrameRead
    <3>2. \/ burst' = burst
          \/ burst' = [by |-> burst.by, size |-> burst.size, want |-> burst.want, frames |-> g]
      BY <1>6, FrameRead
    <3> HIDE DEF f
    <3>3. /\ g \in Seq(Files) /\ burst.by \in 0 .. MaxWrites /\ burst.size \in Sizes \cup {0}
          /\ burst.want \in 0 .. MaxLength
      BY <1>1, <3>1 DEF Bursts
    <3> HIDE DEF g
    <3>4. [by |-> burst.by, size |-> burst.size, want |-> burst.want, frames |-> g] \in Bursts
      BY <3>3 DEF Bursts
    <3>5. CASE burst' = burst
      BY <1>1, <3>5
    <3> QED  BY <3>2, <3>4, <3>5
  <2>2. n' = n /\ (pc' = "dropSeg" \/ pc' = pc)
    BY <1>6, FrameRead
  <2> QED  BY <1>1, <1>2, <1>3, <2>1, <2>2 DEF MainTypes, MainPC, Unwinding
<1>7. ASSUME ~LoadMeta, ~LoadBurst, ~LoadFrame
      PROVE  n' = n /\ burst' = burst
  BY <1>7 DEF Next, vars, loadVars, Emulator, EmuStart, EmuOpenFrame, EmuRow, EmuCloseFrame, EmuMeta, EmuMask, EmuNoMask,
     EmuCut, Write, Main, Start, Load, LoadDone, LoadMask, Make, MakePipeline,
     GpuInit, MakeSegmenter, SegInit, ChooseMode, Measure, Warm, StartClock, Begin, BurstIteration,
     Count, End, SegIteration, Finish, StopClock, JoinClock, StopBattery, JoinBattery, WriteResults,
     DropSegmenter, DropPipeline, BatteryThread, ClockThread, TimePasses, GpuEnds
<1>8. ASSUME ~LoadMeta, ~LoadBurst, ~LoadFrame
      PROVE  pc' \in MainPC
  <2>1. CASE pc' = pc
    BY <1>1, <2>1
  <2>2. CASE (\E readable \in BOOLEAN : Start(readable)) \/ LoadDone \/ LoadMask
    BY <2>2 DEF Start, LoadDone, LoadMask, Return, MainPC, Loading, Working, Unwinding
  <2>3. CASE MakePipeline \/ GpuInit \/ MakeSegmenter \/ SegInit
    BY <1>1, <2>3 DEF MakePipeline, GpuInit, MakeSegmenter, SegInit, MainPC, Working
  <2>4. CASE ChooseMode
    <3>1. opt.mode \in Modes
      BY <1>1, OptionFacts
    <3>2. opt.mode # "idle"
      BY <2>4 DEF IInv, Counted, ChooseMode, BeforeMode
    <3>3. pc' \in {Before, "dropSeg", "iter"}
      BY <2>4, <3>1, <3>2 DEF ChooseMode, Return, Modes
    <3> QED  BY <3>3 DEF MainPC, Working, Unwinding, Before
  <2>5. CASE Warm \/ StartClock \/ Begin \/ BurstIteration \/ End
    BY <2>5 DEF Warm, StartClock, Begin, BurstIteration, End, MainPC, Working
  <2>6. CASE \E ok \in BOOLEAN : SegIteration(ok)
    BY <2>6 DEF SegIteration, Return, MainPC, Working, Unwinding
  <2>7. CASE Count
    <3>1. pc' \in {"iter", "end", "batStop"}
      <4> DEFINE measured == window = "open"
                 over == IF measured THEN opt.timed => elapsed ELSE ran.before = opt.repeat
      <4>1. pc' = CASE ~over -> "iter"
                   [] over /\ measured -> "end"
                   [] over /\ ~measured -> "batStop"
        BY <2>7 DEF Count
      <4> HIDE DEF measured, over
      <4> QED  BY <4>1
    <3> QED  BY <3>1 DEF MainPC, Working
  <2>8. CASE StopClock \/ JoinClock \/ StopBattery \/ JoinBattery
    BY <2>8 DEF StopClock, JoinClock, StopBattery, JoinBattery, MainPC, Working, Unwinding
  <2>9. CASE WriteResults \/ DropSegmenter \/ DropPipeline
    BY <1>1, <2>9 DEF WriteResults, DropSegmenter, DropPipeline, Return, MainPC, Unwinding
  <2>10. CASE Emulator \/ BatteryThread \/ ClockThread \/ TimePasses \/ GpuEnds \/ UNCHANGED vars
    <3>1. pc' = pc
      BY <2>10 DEF Emulator, EmuStart, EmuOpenFrame, EmuRow, EmuCloseFrame, EmuMeta, EmuMask, EmuNoMask, EmuCut, Write,
         BatteryThread, ClockThread, TimePasses, GpuEnds, vars
    <3> QED  BY <1>1, <3>1
  <2> QED
    BY <1>8, <2>2, <2>3, <2>4, <2>5, <2>6, <2>7, <2>8, <2>9, <2>10 DEF Next, Main, Load, Make, Measure, Finish
<1>9. CASE ~LoadMeta /\ ~LoadBurst /\ ~LoadFrame
  BY <1>1, <1>2, <1>3, <1>7, <1>8, <1>9 DEF MainTypes
<1> QED  BY <1>4, <1>5, <1>6, <1>9

\* The two threads and what tells them to stop.
LEMMA ThreadTypesStep ==
  ASSUME IInv, [Next]_vars
  PROVE  ThreadTypes'
<1>1. /\ bat \in ThreadPC /\ clk \in ThreadPC /\ running \in [bat : BOOLEAN, clk : BOOLEAN]
      /\ running = [bat |-> running.bat, clk |-> running.clk]
  BY DEF IInv, TypeOK
<1>2. ASSUME NEW t, NEW on
      PROVE  Loop(t, on) \in ThreadPC
  BY DEF Loop, ThreadPC
<1>3. CASE (\E readable \in BOOLEAN : Start(readable)) \/ StartClock \/ StopClock \/ StopBattery
  BY <1>1, <1>3 DEF Start, StartClock, StopClock, StopBattery, ThreadTypes, ThreadPC
<1>4. CASE BatteryThread \/ ClockThread
  BY <1>1, <1>2, <1>4 DEF BatteryThread, ClockThread, ThreadTypes
<1>5. ASSUME ~\E readable \in BOOLEAN : Start(readable), ~StartClock, ~StopClock, ~StopBattery,
             ~BatteryThread, ~ClockThread
      PROVE  bat' = bat /\ clk' = clk /\ running' = running
  BY <1>5 DEF Next, vars, threadVars, Emulator, EmuStart, EmuOpenFrame, EmuRow, EmuCloseFrame, EmuMeta, EmuMask, EmuNoMask,
     EmuCut, Write, Main, Load, LoadMeta, LoadBurst, LoadFrame, LoadDone, LoadMask, Make, MakePipeline,
     GpuInit, MakeSegmenter, SegInit, ChooseMode, Measure, Warm, Begin, BurstIteration,
     Count, End, SegIteration, Finish, JoinClock, JoinBattery, WriteResults,
     DropSegmenter, DropPipeline, TimePasses, GpuEnds
<1>6. CASE /\ ~\E readable \in BOOLEAN : Start(readable)
           /\ ~StartClock /\ ~StopClock /\ ~StopBattery /\ ~BatteryThread /\ ~ClockThread
  BY <1>1, <1>5, <1>6 DEF ThreadTypes
<1> QED  BY <1>3, <1>4, <1>6

\* What the window counts are numbers.
LEMMA WindowTypesStep ==
  ASSUME IInv, [Next]_vars
  PROVE  WindowTypes'
<1>1. /\ window \in {"none", "open", "closed"} /\ elapsed \in BOOLEAN
      /\ iters \in Nat /\ ran \in [before : Nat, inside : Nat] /\ used \in Nat
      /\ n \in Nat /\ Len(burst.frames) \in Nat
      /\ NMid \in Nat /\ NLow \in Nat
  BY Longest, CommandLineAssumption DEF IInv, TypeOK
<1>2. ASSUME CountRun
      PROVE  ran' \in [before : Nat, inside : Nat]
  BY <1>1, <1>2 DEF CountRun
<1>3. ASSUME NEW given \in Nat, RunPipeline(given)
      PROVE  used' \in Nat
  BY <1>1, <1>3 DEF RunPipeline, Clamped, Least
<1>4. CASE Warm
  <2>1. used' \in Nat
    BY <1>1, <1>3, <1>4 DEF Warm
  <2> QED  BY <1>1, <1>2, <1>4, <2>1 DEF Warm, WindowTypes
<1>5. CASE BurstIteration
  <2>1. PolicyFrames \in SUBSET Nat
    BY <1>1 DEF PolicyFrames
  <2>2. used' \in Nat
    BY <1>3, <1>5, <2>1 DEF BurstIteration
  <2> QED  BY <1>1, <1>2, <1>5, <2>2 DEF BurstIteration, WindowTypes
<1>6. CASE \E ok \in BOOLEAN : SegIteration(ok)
  BY <1>1, <1>2, <1>6 DEF SegIteration, WindowTypes
<1>7. CASE Begin \/ Count \/ End \/ TimePasses
  <2>1. CASE Begin \/ End \/ TimePasses
    BY <1>1, <2>1 DEF Begin, End, TimePasses, WindowTypes
  <2>2. CASE Count
    <3>1. iters' \in Nat
      BY <1>1, <2>2 DEF Count
    <3>2. window' = window /\ elapsed' = elapsed /\ ran' = ran /\ used' = used
      BY <2>2 DEF Count
    <3> QED  BY <1>1, <3>1, <3>2 DEF WindowTypes
  <2> QED  BY <1>7, <2>1, <2>2
<1>8. ASSUME ~Warm, ~BurstIteration, ~\E ok \in BOOLEAN : SegIteration(ok), ~Begin, ~Count, ~End, ~TimePasses
      PROVE  window' = window /\ elapsed' = elapsed /\ iters' = iters /\ ran' = ran /\ used' = used
  BY <1>8 DEF Next, vars, windowVars, Emulator, EmuStart, EmuOpenFrame, EmuRow, EmuCloseFrame, EmuMeta, EmuMask, EmuNoMask,
     EmuCut, Write, Main, Start, Load, LoadMeta, LoadBurst, LoadFrame, LoadDone, LoadMask, Make, MakePipeline,
     GpuInit, MakeSegmenter, SegInit, ChooseMode, Measure, StartClock,
     Finish, StopClock, JoinClock, StopBattery, JoinBattery, WriteResults,
     DropSegmenter, DropPipeline, BatteryThread, ClockThread, GpuEnds
<1>9. CASE /\ ~Warm /\ ~BurstIteration /\ ~\E ok \in BOOLEAN : SegIteration(ok)
           /\ ~Begin /\ ~Count /\ ~End /\ ~TimePasses
  BY <1>1, <1>8, <1>9 DEF WindowTypes
<1> QED  BY <1>4, <1>5, <1>6, <1>7, <1>9

-----------------------------------------------------------------------------
(* What has been read *)

\* Main goes off Loading and does not come back, and Pipeline::run takes no more
\* frames than were asked for.
LEMMA AfterLoading ==
  ASSUME IInv, Make \/ Measure \/ Finish
  PROVE  /\ burst' = burst /\ n' = n /\ found' = found /\ opt' = opt
         /\ pc' \notin Loading \cup {"off"}
         /\ pc' \in Working => pc \in Working
         /\ used' = used \/ (pc \in Working /\ opt.mode # "idle" /\ used' <= n)
<1>1. n \in Nat /\ NMid \in Nat /\ NLow \in Nat /\ Len(burst.frames) \in Nat
  BY Longest, CommandLineAssumption DEF IInv, TypeOK
<1>2. ASSUME NEW given \in Nat, RunPipeline(given)
      PROVE  used' <= n
  BY <1>1, <1>2 DEF RunPipeline, Clamped, Least
<1>3. CASE Make
  <2>1. burst' = burst /\ n' = n /\ found' = found /\ opt' = opt /\ used' = used
    BY <1>3 DEF Make, MakePipeline, GpuInit, MakeSegmenter, SegInit, ChooseMode, loadVars, windowVars
  <2>2. pc \in BeforeMode
    BY <1>3 DEF Make, MakePipeline, GpuInit, MakeSegmenter, SegInit, ChooseMode, BeforeMode
  <2>3. pc' \in BeforeMode \cup {"warm", "iter", "dropSeg"}
    <3>1. CASE ChooseMode
      <4>1. opt.mode \in Modes /\ opt.mode # "idle"
        BY <3>1, OptionFacts DEF IInv, TypeOK, Counted, ChooseMode, BeforeMode
      <4> QED  BY <3>1, <4>1 DEF ChooseMode, Return, Modes, Before
    <3>2. CASE MakePipeline \/ GpuInit \/ MakeSegmenter \/ SegInit
      BY <3>2 DEF MakePipeline, GpuInit, MakeSegmenter, SegInit, BeforeMode
    <3> QED  BY <1>3, <3>1, <3>2 DEF Make
  <2> QED  BY <2>1, <2>2, <2>3 DEF BeforeMode, Loading, Working
<1>4. CASE Measure
  <2>1. burst' = burst /\ n' = n /\ found' = found /\ opt' = opt
    BY <1>4 DEF Measure, Warm, StartClock, Begin, BurstIteration, Count, End, SegIteration, loadVars
  <2>2. pc \in {"warm", "clock", "begin", "iter", "count", "end"}
    BY <1>4 DEF Measure, Warm, StartClock, Begin, BurstIteration, Count, End, SegIteration
  <2>3. pc' \in {"clock", "begin", "end", "iter", "count", "dropSeg", "clkStop", "batStop"}
    <3>1. CASE Count
      <4> DEFINE measured == window = "open"
                 over == IF measured THEN opt.timed => elapsed ELSE ran.before = opt.repeat
      <4>1. pc' = CASE ~over -> "iter"
                   [] over /\ measured -> "end"
                   [] over /\ ~measured -> "batStop"
        BY <3>1 DEF Count
      <4> HIDE DEF measured, over
      <4> QED  BY <4>1
    <3>2. CASE Measure /\ ~Count
      BY <3>2 DEF Measure, Warm, StartClock, Begin, BurstIteration, End, SegIteration, Return
    <3> QED  BY <1>4, <3>1, <3>2
  <2>4. used' = used \/ (opt.mode # "idle" /\ used' <= n)
    <3>1. CASE Warm
      BY <1>1, <1>2, <3>1 DEF Warm
    <3>2. CASE BurstIteration
      <4>1. PolicyFrames \in SUBSET Nat
        BY <1>1 DEF PolicyFrames
      <4> QED  BY <1>2, <3>2, <4>1 DEF BurstIteration
    <3>3. CASE ~Warm /\ ~BurstIteration
      BY <1>4, <3>3 DEF Measure, StartClock, Begin, Count, End, SegIteration, windowVars
    <3> QED  BY <3>1, <3>2, <3>3
  <2> QED  BY <2>1, <2>2, <2>3, <2>4 DEF Loading, Working
<1>5. CASE Finish
  <2>1. burst' = burst /\ n' = n /\ found' = found /\ opt' = opt /\ used' = used
    BY <1>5 DEF Finish, StopClock, JoinClock, StopBattery, JoinBattery, WriteResults, DropSegmenter,
       DropPipeline, loadVars, windowVars
  <2>2. /\ pc \in {"clkStop", "clkJoin", "batStop", "batJoin", "write"} \cup Unwinding
        /\ pc' \in {"clkStop", "clkJoin", "batStop", "batJoin", "write"} \cup Unwinding \cup {"exited"}
        /\ pc \in Unwinding => pc' \in Unwinding \cup {"exited"}
    BY <1>5 DEF Finish, StopClock, JoinClock, StopBattery, JoinBattery, WriteResults, DropSegmenter,
       DropPipeline, Return, Unwinding
  <2> QED  BY <2>1, <2>2 DEF Loading, Working, Unwinding
<1> QED  BY <1>3, <1>4, <1>5

\* A frame that is taken from a directory at rest fits its meta.txt, and if nobody
\* was cut off it is one of those that meta.txt lists.
LEMMA TakenFits ==
  ASSUME IInv, pc = "frames", found # "inUse", Len(burst.frames) < burst.want,
         NEW f \in Files, f = dir.frame[Len(burst.frames) + 1], f.written >= burst.size
  PROVE  Fits(f) /\ (found = "complete" => f.by = burst.by)
<1> DEFINE k == Len(burst.frames) + 1
<1>1. /\ emu.pc = "off" /\ (found = "complete" => ~cut) /\ n <= dir.meta.lines /\ burst.want = n
      /\ burst.by = dir.meta.by /\ burst.size = dir.meta.size
  BY DEF IInv, Read, Loading
<1>2. /\ n \in Nat /\ Len(burst.frames) \in Nat /\ dir.meta.lines \in Nat
      /\ burst.size \in Nat /\ burst.by \in Nat
  BY <1>1, FileFacts DEF IInv, TypeOK
<1>3. k \in 1 .. dir.meta.lines
  BY <1>1, <1>2
<1>4. f.by >= burst.by /\ (f.by = burst.by => f.size = burst.size)
  BY <1>1, <1>3 DEF IInv, Written, NotOlder
<1>5. f.written \in Nat /\ f.size \in Nat /\ f.written <= f.size
  BY FileFacts DEF Files
<1>6. (f.by = burst.by => Whole(f)) /\ (~Whole(f) => f.size > burst.size)
  BY <1>2, <1>4, <1>5 DEF Whole
<1>7. found = "complete" => f.by = burst.by
  BY <1>1, <1>3 DEF IInv, Written, OfRun
<1> QED  BY <1>4, <1>6, <1>7 DEF Fits

\* What has been read keeps to it with every step of loading.
LEMMA LoadKeepsRead ==
  ASSUME IInv, Load
  PROVE  Read'
<1>1. /\ n \in Nat /\ dir.meta.lines \in Nat /\ opt.frames \in Nat /\ used \in Nat
      /\ burst.frames \in Seq(Files) /\ Len(burst.frames) \in Nat /\ burst.want \in Nat
  BY Longest, OptionFacts DEF IInv, TypeOK
<1>2. Read
  BY DEF IInv
<1>3. found' = found /\ used' = used /\ emu' = emu /\ cut' = cut /\ dir' = dir /\ opt' = opt
  BY DEF Load, LoadMeta, LoadBurst, LoadFrame, LoadDone, LoadMask, fileVars, windowVars, loadVars
<1>4. ASSUME burst' = burst
      PROVE  OfOneBurst' = OfOneBurst /\ FramesFit' = FramesFit
  BY <1>4 DEF OfOneBurst, FramesFit, Fits, Whole
<1>5. CASE LoadMeta
  <2>1. pc = "meta" /\ burst' = burst
    BY <1>5 DEF LoadMeta
  <2>2. pc' = "dropSeg" \/ (pc' = "burst" /\ n' <= dir.meta.lines)
    BY <1>1, <1>5 DEF LoadMeta, Return, FramesWanted, Least
  <2> QED  BY <1>2, <1>3, <1>4, <2>1, <2>2 DEF Read, Loading, Working
<1>6. CASE LoadBurst
  <2>1. pc = "burst" /\ n' = n /\ used = 0 /\ burst = NoBurst
    BY <1>2, <1>6 DEF LoadBurst, Read, Loading
  <2>2. CASE pc' = "dropSeg" /\ burst' = burst
    BY <1>2, <1>3, <1>4, <2>1, <2>2 DEF Read, Loading, Working
  <2>3. CASE /\ pc' = "frames"
             /\ burst' = [by |-> dir.meta.by, size |-> dir.meta.size,
                          want |-> Least(n, dir.meta.lines), frames |-> <<>>]
    <3>1. /\ burst'.by = dir.meta.by /\ burst'.size = dir.meta.size
          /\ burst'.want = Least(n, dir.meta.lines)
          /\ DOMAIN burst'.frames = {} /\ Len(burst'.frames) = 0
      BY <2>3
    <3>2. burst'.want \in Nat /\ (n <= dir.meta.lines => burst'.want = n)
      BY <1>1, <3>1 DEF Least
    <3>3. OfOneBurst' /\ FramesFit'
      BY <3>1 DEF OfOneBurst, FramesFit
    <3> QED  BY <1>2, <1>3, <2>1, <2>3, <3>1, <3>2, <3>3 DEF Read, Loading, Working
  <2> QED  BY <1>6, <2>2, <2>3 DEF LoadBurst, Return
<1>7. CASE LoadFrame
  <2> DEFINE k == Len(burst.frames) + 1
             f == dir.frame[k]
  <2>1. /\ pc = "frames" /\ Len(burst.frames) < burst.want /\ n' = n /\ f \in Files
        /\ \/ burst' = burst /\ pc' = "dropSeg"
           \/ /\ f.written >= burst.size /\ pc' = pc
              /\ burst' = [by |-> burst.by, size |-> burst.size, want |-> burst.want,
                           frames |-> Append(burst.frames, f)]
    BY <1>7, FrameRead
  <2>2. used = 0
    BY <1>2, <2>1 DEF Read, Loading
  <2>3. f.written >= burst.size =>
          /\ found # "inUse" => Fits(f)
          /\ found = "complete" => f.by = burst.by
    BY <2>1, TakenFits
  <2> HIDE DEF f
  <2>4. CASE burst' = burst /\ pc' = "dropSeg"
    BY <1>2, <1>3, <1>4, <2>1, <2>4 DEF Read, Loading, Working
  <2>5. CASE /\ f.written >= burst.size /\ pc' = pc
             /\ burst' = [by |-> burst.by, size |-> burst.size, want |-> burst.want,
                          frames |-> Append(burst.frames, f)]
    <3>1. /\ burst'.by = burst.by /\ burst'.size = burst.size /\ burst'.want = burst.want
          /\ burst'.frames = Append(burst.frames, f)
      BY <2>5
    <3>2. /\ Len(burst'.frames) = k
          /\ \A i \in DOMAIN burst'.frames :
               \/ i \in DOMAIN burst.frames /\ burst'.frames[i] = burst.frames[i]
               \/ burst'.frames[i] = f
      <4> HIDE DEF k
      <4>1. \A i \in 1 .. Len(burst.frames) + 1 : i \in 1 .. Len(burst.frames) \/ i = Len(burst.frames) + 1
        BY <1>1
      <4> QED  BY <1>1, <2>1, <3>1, <4>1 DEF k
    <3>3. found # "inUse" => FramesFit'
      <4> SUFFICES ASSUME found # "inUse", NEW i \in DOMAIN burst'.frames,
                          NEW g, g = burst'.frames[i]
                   PROVE  /\ g.by >= burst'.by
                          /\ g.by = burst'.by => Whole(g)
                          /\ ~Whole(g) => g.size > burst'.size
        BY DEF FramesFit, Fits, Whole
      <4>1. Fits(g)
        BY <1>2, <2>3, <2>5, <3>2 DEF Read, FramesFit
      <4> QED  BY <3>1, <4>1 DEF Fits
    <3>4. found = "complete" => OfOneBurst'
      BY <1>2, <2>3, <2>5, <3>1, <3>2 DEF Read, OfOneBurst
    <3>5. Len(burst'.frames) <= burst.want /\ used <= Len(burst'.frames)
      BY <1>1, <2>1, <2>2, <3>2
    <3> QED
      BY <1>2, <1>3, <2>1, <2>2, <2>5, <3>1, <3>3, <3>4, <3>5 DEF Read, Loading, Working
  <2> QED  BY <2>1, <2>4, <2>5
<1>8. CASE LoadDone
  <2>1. /\ pc = "frames" /\ pc' \in {"mask", "pipe"} /\ burst' = burst /\ n' = n
        /\ Len(burst.frames) = burst.want
    BY <1>8 DEF LoadDone, loadVars
  <2> QED  BY <1>2, <1>3, <1>4, <2>1 DEF Read, Loading, Working
<1>9. CASE LoadMask
  <2>1. pc = "mask" /\ pc' \in {"pipe", "dropSeg"} /\ burst' = burst /\ n' = n
    BY <1>9 DEF LoadMask, loadVars, Return
  <2> QED  BY <1>2, <1>3, <1>4, <2>1 DEF Read, Loading, Working
<1> QED  BY <1>5, <1>6, <1>7, <1>8, <1>9 DEF Load

\* The emulator does not write what main has read, or main knows no directory at
\* rest.
LEMMA ReadStep ==
  ASSUME IInv, [Next]_vars
  PROVE  Read'
<1>1. n \in Nat /\ used \in Nat /\ Len(burst.frames) \in Nat /\ pc \in MainPC
  BY Longest DEF IInv, TypeOK
<1>2. Read
  BY DEF IInv
<1>3. ASSUME burst' = burst
      PROVE  OfOneBurst' = OfOneBurst /\ FramesFit' = FramesFit
  BY <1>3 DEF OfOneBurst, FramesFit, Fits, Whole
<1>4. CASE Emulator
  <2>1. /\ pc \in Loading \cup {"off"} /\ found' = (IF pc \in Loading THEN "inUse" ELSE found)
        /\ pc' = pc /\ n' = n /\ burst' = burst /\ opt' = opt /\ used' = used
    BY <1>4 DEF Emulator, EmuStart, EmuOpenFrame, EmuRow, EmuCloseFrame, EmuMeta, EmuMask, EmuNoMask,
       EmuCut, Write, EmuTurn, windowVars
  <2>2. pc \notin Working
    BY <2>1 DEF Loading, Working
  <2>3. used = 0
    BY <1>2, <2>1 DEF Read
  <2>4. found' # "inUse" => pc = "off" /\ found' = found
    BY <2>1
  <2> QED  BY <1>1, <1>2, <1>3, <2>1, <2>2, <2>3, <2>4 DEF Read, Loading
<1>5. CASE \E readable \in BOOLEAN : Start(readable)
  <2>1. /\ pc = "off" /\ n' = n /\ burst' = burst /\ opt' = opt /\ used' = used
        /\ emu' = emu /\ cut' = cut /\ dir' = dir
        /\ found' # "inUse" => emu.pc = "off" /\ (found' = "complete" => ~cut)
    BY <1>5 DEF Start, fileVars, windowVars
  <2>2. (pc' = "clock" /\ opt.mode = "idle") \/ pc' = "meta" \/ pc' = "dropSeg"
    BY <1>5 DEF Start, Return
  <2>3. burst = NoBurst /\ used = 0
    BY <1>2, <2>1 DEF Read
  <2>4. burst' = NoBurst /\ DOMAIN burst'.frames = {} /\ used' <= Len(burst'.frames)
    BY <1>1, <2>1, <2>3 DEF NoBurst
  <2>5. OfOneBurst' /\ FramesFit'
    BY <2>4 DEF OfOneBurst, FramesFit
  <2>6. /\ pc' \notin {"burst", "frames", "mask"}
        /\ ~(pc' \in Working /\ opt'.mode # "idle")
    BY <2>1, <2>2 DEF Working
  <2> QED  BY <2>1, <2>3, <2>4, <2>5, <2>6 DEF Read
<1>6. CASE Make \/ Measure \/ Finish
  <2>1. /\ burst' = burst /\ n' = n /\ found' = found /\ opt' = opt
        /\ pc' \notin Loading \cup {"off"}
        /\ pc' \in Working => pc \in Working
        /\ used' = used \/ (pc \in Working /\ opt.mode # "idle" /\ used' <= n)
    BY <1>6, AfterLoading
  <2>2. found = "complete" => used' <= Len(burst.frames)
    BY <1>2, <2>1 DEF Read
  <2> QED  BY <1>2, <1>3, <2>1, <2>2 DEF Read, Loading
<1>7. CASE BatteryThread \/ ClockThread \/ TimePasses \/ GpuEnds \/ UNCHANGED vars
  <2>1. /\ pc' = pc /\ n' = n /\ burst' = burst /\ opt' = opt /\ used' = used /\ found' = found
        /\ emu' = emu /\ cut' = cut /\ dir' = dir
    BY <1>7 DEF BatteryThread, ClockThread, TimePasses, GpuEnds, vars, fileVars, loadVars, windowVars
  <2> QED  BY <1>2, <1>3, <2>1 DEF Read
<1> QED  BY <1>4, <1>5, <1>6, <1>7, LoadKeepsRead DEF Next, Main

-----------------------------------------------------------------------------
(* What the window counts *)

\* A count of runs that goes up.
LEMMA RunCounted ==
  ASSUME IInv, CountRun
  PROVE  /\ window = "open" => ran'.inside = ran.inside + 1 /\ ran'.before = ran.before
         /\ window # "open" => ran'.inside = ran.inside /\ ran'.before = ran.before + 1
<1>1. ran \in [before : Nat, inside : Nat]
  BY DEF IInv, TypeOK
<1> QED  BY <1>1 DEF CountRun

\* Nothing is counted before the run that is not measured.
LEMMA CountedBefore ==
  ASSUME IInv, (\E readable \in BOOLEAN : Start(readable)) \/ Load \/ Make
  PROVE  Counted'
<1>1. Counted /\ opt.mode \in Modes /\ opt.repeat \in Nat \ {0}
  BY OptionFacts DEF IInv, TypeOK
<1>2. /\ window' = window /\ elapsed' = elapsed /\ iters' = iters /\ ran' = ran /\ clk' = clk /\ opt' = opt
  BY DEF Start, Load, LoadMeta, LoadBurst, LoadFrame, LoadDone, LoadMask, Make, MakePipeline, GpuInit,
     MakeSegmenter, SegInit, ChooseMode, windowVars, threadVars
<1>3. /\ pc \in NotYetMeasured /\ pc # "warm"
      /\ \/ pc' = "clock" /\ opt.mode = "idle"
         \/ pc' \in Loading \cup BeforeMode \cup {"warm", "iter"} /\ opt.mode # "idle"
         \/ pc' = "dropSeg"
  <2>1. CASE \E readable \in BOOLEAN : Start(readable)
    BY <2>1 DEF Start, Return, NotYetMeasured, Loading
  <2>2. CASE Load
    <3>1. pc \in Loading
      BY <2>2 DEF Load, LoadMeta, LoadBurst, LoadFrame, LoadDone, LoadMask, Loading
    <3>2. pc' \in Loading \cup {"pipe", "dropSeg"}
      BY <2>2, <3>1 DEF Load, LoadMeta, LoadBurst, LoadFrame, LoadDone, LoadMask, Return, Loading
    <3> QED  BY <1>1, <3>1, <3>2 DEF Counted, NotYetMeasured, BeforeMode, Loading
  <2>3. CASE Make
    <3>1. pc \in BeforeMode /\ opt.mode # "idle"
      BY <1>1, <2>3 DEF Make, MakePipeline, GpuInit, MakeSegmenter, SegInit, ChooseMode, BeforeMode, Counted
    <3>2. CASE ChooseMode
      <4>1. pc' \in {"warm", "iter", "dropSeg"}
        BY <1>1, <3>1, <3>2 DEF ChooseMode, Return, Modes, Before
      <4> QED  BY <3>1, <4>1 DEF NotYetMeasured, BeforeMode
    <3>3. CASE MakePipeline \/ GpuInit \/ MakeSegmenter \/ SegInit
      <4>1. pc' \in BeforeMode
        BY <3>3 DEF MakePipeline, GpuInit, MakeSegmenter, SegInit, BeforeMode
      <4> QED  BY <3>1, <4>1 DEF NotYetMeasured, BeforeMode
    <3> QED  BY <2>3, <3>2, <3>3 DEF Make
  <2> QED  BY <2>1, <2>2, <2>3
<1>4. NoWindow /\ ran.before = 0 /\ ran.inside = 0
  BY <1>1, <1>3 DEF Counted, NoWindow
<1>5. NoWindow' /\ ran'.before = 0 /\ ran'.inside = 0
  BY <1>2, <1>4 DEF NoWindow
<1>6. Warmed' \/ opt.mode # "idle"
  BY <1>2, <1>4 DEF Warmed
<1> QED
  BY <1>1, <1>2, <1>3, <1>5, <1>6 DEF Counted, NoWindow, Loading, BeforeMode, NotYetMeasured, Reporting

\* Every iteration of the window is a run in it.
LEMMA CountedInWindow ==
  ASSUME IInv, Measure
  PROVE  Counted'
<1>1. /\ Counted /\ opt.mode \in Modes /\ opt.repeat \in Nat \ {0}
      /\ iters \in Nat /\ ran.before \in Nat /\ ran.inside \in Nat
      /\ window \in {"none", "open", "closed"}
  BY OptionFacts DEF IInv, TypeOK
<1>2. opt' = opt
  BY DEF Measure, Warm, StartClock, Begin, BurstIteration, Count, End, SegIteration
<1>3. CASE Warm
  <2>1. /\ pc = "warm" /\ pc' = "clock" /\ window' = window /\ iters' = iters /\ clk' = clk
        /\ CountRun
    BY <1>3 DEF Warm, threadVars
  <2>2. NoWindow /\ ran.before = 0 /\ ran.inside = 0 /\ opt.mode # "idle"
    BY <1>1, <2>1 DEF Counted, NoWindow, NotYetMeasured
  <2>3. ran'.before = 1 /\ ran'.inside = 0
    BY <2>1, <2>2, RunCounted DEF NoWindow
  <2> QED
    BY <1>2, <2>1, <2>2, <2>3
    DEF Counted, NoWindow, Warmed, Loading, BeforeMode, NotYetMeasured, Reporting
<1>4. CASE StartClock
  <2>1. /\ pc = "clock" /\ pc' = "begin" /\ window' = window /\ iters' = iters /\ ran' = ran
    BY <1>4 DEF StartClock, windowVars
  <2> QED
    BY <1>1, <1>2, <2>1 DEF Counted, Warmed, Loading, BeforeMode, NotYetMeasured, Reporting
<1>5. CASE Begin
  <2>1. /\ pc = "begin" /\ pc' = (IF opt.mode = "idle" THEN "end" ELSE "iter")
        /\ window' = "open" /\ iters' = iters /\ ran' = ran /\ elapsed' = elapsed
    BY <1>5 DEF Begin
  <2>2. iters = 0 /\ ran.inside = 0 /\ Warmed
    BY <1>1, <2>1 DEF Counted
  <2> QED
    BY <1>2, <2>1, <2>2
    DEF Counted, Warmed, Measured, Loading, BeforeMode, NotYetMeasured, Reporting
<1>6. CASE BurstIteration \/ \E ok \in BOOLEAN : SegIteration(ok)
  <2>1. /\ pc = "iter" /\ pc' \in {"count", "dropSeg"} /\ window' = window /\ iters' = iters /\ clk' = clk
        /\ CountRun
    BY <1>6 DEF BurstIteration, SegIteration, Return, threadVars
  <2>2. CASE window = "open"
    <3>1. ran'.inside = iters + 1 /\ ran'.before = ran.before /\ Warmed /\ opt.mode # "idle"
      BY <1>1, <2>1, <2>2, RunCounted DEF Counted
    <3> QED
      BY <1>2, <2>1, <2>2, <3>1
      DEF Counted, Warmed, Loading, BeforeMode, NotYetMeasured, Reporting
  <2>3. CASE window # "open"
    <3>1. NoWindow /\ ran.before < opt.repeat /\ ran.inside = 0 /\ opt.mode # "idle"
      BY <1>1, <2>1, <2>3 DEF Counted, NoWindow
    <3>2. ran'.before <= opt.repeat /\ ran'.inside = 0
      BY <1>1, <2>1, <2>3, <3>1, RunCounted
    <3> QED
      BY <1>2, <2>1, <2>3, <3>1, <3>2
      DEF Counted, NoWindow, Loading, BeforeMode, NotYetMeasured, Reporting
  <2> QED  BY <2>2, <2>3
<1>7. CASE Count
  <2>1. /\ pc = "count" /\ window' = window /\ clk' = clk /\ ran' = ran /\ elapsed' = elapsed
    BY <1>7 DEF Count, threadVars
  <2>2. CASE window = "open"
    <3>1. /\ iters' = iters + 1 /\ ran.inside = iters + 1 /\ Warmed /\ opt.mode # "idle"
      BY <1>1, <1>7, <2>1, <2>2 DEF Count, Counted
    <3>2. (pc' = "end" /\ (opt.timed => elapsed)) \/ pc' = "iter"
      BY <1>7, <2>2 DEF Count
    <3>3. iters' >= 1
      BY <1>1, <3>1
    <3> QED
      BY <1>2, <2>1, <2>2, <3>1, <3>2, <3>3
      DEF Counted, Warmed, Measured, Loading, BeforeMode, NotYetMeasured, Reporting
  <2>3. CASE window # "open"
    <3>1. NoWindow /\ ran.before <= opt.repeat /\ ran.inside = 0 /\ opt.mode # "idle" /\ iters' = iters
      BY <1>1, <1>7, <2>1, <2>3 DEF Count, Counted, NoWindow
    <3>2. \/ pc' = "batStop" /\ ran.before = opt.repeat
          \/ pc' = "iter" /\ ran.before < opt.repeat
      BY <1>1, <1>7, <2>3, <3>1 DEF Count
    <3> QED
      BY <1>2, <2>1, <2>3, <3>1, <3>2
      DEF Counted, NoWindow, Loading, BeforeMode, NotYetMeasured, Reporting
  <2> QED  BY <2>2, <2>3
<1>8. CASE End
  <2>1. /\ pc = "end" /\ pc' = "clkStop" /\ window' = "closed" /\ iters' = iters /\ ran' = ran
        /\ elapsed' = elapsed /\ (opt.mode = "idle" => elapsed)
    BY <1>8 DEF End
  <2>2. Measured /\ (opt.timed => elapsed)
    BY <1>1, <2>1 DEF Counted, Measured
  <2> QED
    BY <1>2, <2>1, <2>2
    DEF Counted, Warmed, Measured, Loading, BeforeMode, NotYetMeasured, Reporting
<1> QED  BY <1>3, <1>4, <1>5, <1>6, <1>7, <1>8 DEF Measure

\* Nothing is counted afterwards.
LEMMA CountedAfter ==
  ASSUME IInv, Finish
  PROVE  Counted'
<1>1. Counted
  BY DEF IInv
<1>2. /\ window' = window /\ elapsed' = elapsed /\ iters' = iters /\ ran' = ran /\ clk' = clk /\ opt' = opt
  BY DEF Finish, StopClock, JoinClock, StopBattery, JoinBattery, WriteResults, DropSegmenter,
     DropPipeline, windowVars, threadVars
<1>3. \/ pc \in {"clkStop", "clkJoin"} /\ pc' \in {"clkJoin", "batStop"}
      \/ pc \in Reporting /\ pc' \in Reporting
      \/ pc' \in Unwinding \cup {"exited"}
  BY DEF Finish, StopClock, JoinClock, StopBattery, JoinBattery, WriteResults, DropSegmenter,
     DropPipeline, Return, Unwinding, Reporting
<1>4. NoWindow' = NoWindow /\ Measured' = Measured
  BY <1>2 DEF NoWindow, Measured, Warmed
<1> QED
  BY <1>1, <1>2, <1>3, <1>4
  DEF Counted, Loading, BeforeMode, NotYetMeasured, Reporting, Unwinding

\* The threads, the clock on the wall and the GPU do not count.
LEMMA CountedStep ==
  ASSUME IInv, [Next]_vars
  PROVE  Counted'
<1>1. Counted
  BY DEF IInv
<1>2. CASE Emulator \/ BatteryThread \/ ClockThread \/ TimePasses \/ GpuEnds \/ UNCHANGED vars
  <2>1. /\ pc' = pc /\ opt' = opt /\ window' = window /\ iters' = iters /\ ran' = ran
        /\ elapsed' = elapsed \/ elapsed' = TRUE
        /\ clk' = clk \/ clk # "none"
    BY <1>2 DEF Emulator, EmuStart, EmuOpenFrame, EmuRow, EmuCloseFrame, EmuMeta, EmuMask, EmuNoMask, EmuCut, Write,
       BatteryThread, ClockThread, Alive, TimePasses, GpuEnds, vars, threadVars, windowVars
  <2>2. Warmed' = Warmed /\ (NoWindow => NoWindow') /\ (Measured => Measured')
    BY <2>1 DEF Warmed, Measured, NoWindow
  <2>3. pc = "clock" /\ clk = "none" => clk' = "none"
    BY <2>1
  <2> QED  BY <1>1, <2>1, <2>2, <2>3 DEF Counted
<1> QED  BY <1>2, CountedBefore, CountedInWindow, CountedAfter DEF Next, Main

-----------------------------------------------------------------------------
(* What has ended *)

\* A thread that has been joined, or was never started, does not come back, nor
\* does an object that has been dropped.
LEMMA EndedStep ==
  ASSUME IInv, [Next]_vars
  PROVE  Ended'
<1>1. Ended
  BY DEF IInv
<1>2. CASE Emulator \/ TimePasses \/ UNCHANGED vars
  <2>1. pc' = pc /\ clk' = clk /\ bat' = bat /\ gpu' = gpu /\ seg' = seg
    BY <1>2 DEF Emulator, EmuStart, EmuOpenFrame, EmuRow, EmuCloseFrame, EmuMeta, EmuMask, EmuNoMask, EmuCut, Write,
       TimePasses, vars, threadVars, nativeVars
  <2> QED  BY <1>1, <2>1 DEF Ended, Alive
<1>3. CASE BatteryThread \/ ClockThread
  <2>1. /\ pc' = pc /\ gpu' = gpu /\ seg' = seg
        /\ clk' = clk \/ Alive(clk)
        /\ bat' = bat \/ Alive(bat)
    BY <1>3 DEF BatteryThread, ClockThread, nativeVars
  <2> QED  BY <1>1, <2>1 DEF Ended, Alive
<1>4. CASE GpuEnds
  <2>1. gpu'.phase = gpu.phase
    <3>1. gpu = Object(gpu.kind, gpu.phase, gpu.at, gpu.held, gpu.busy)
      BY DEF IInv, Handles, Clean, Shape
    <3> QED  BY <1>4, <3>1 DEF GpuEnds, Gpu!DeviceEnds, Object
  <2>2. pc' = pc /\ clk' = clk /\ bat' = bat /\ seg' = seg
    BY <1>4 DEF GpuEnds, threadVars
  <2> QED  BY <1>1, <2>1, <2>2 DEF Ended, Alive
<1>5. CASE (\E readable \in BOOLEAN : Start(readable)) \/ Load \/ Make
  <2>1. Counted'
    BY <1>5, CountedBefore
  <2>2. pc' \in {"clock", "dropSeg", "meta", "burst", "frames", "mask", "pipe", "gpuInit", "seg", "segInit",
                 "mode", "warm", "iter"}
    <3>1. CASE (\E readable \in BOOLEAN : Start(readable)) \/ Load
      BY <3>1 DEF Start, Load, LoadMeta, LoadBurst, LoadFrame, LoadDone, LoadMask, Return
    <3>2. CASE MakePipeline \/ GpuInit \/ MakeSegmenter \/ SegInit
      BY <3>2 DEF MakePipeline, GpuInit, MakeSegmenter, SegInit
    <3>3. CASE ChooseMode
      <4>1. opt.mode \in Modes /\ opt.mode # "idle"
        BY <3>3, OptionFacts DEF IInv, TypeOK, Counted, ChooseMode, BeforeMode
      <4> QED  BY <3>3, <4>1 DEF ChooseMode, Return, Modes, Before
    <3> QED  BY <1>5, <3>1, <3>2, <3>3 DEF Make
  <2> QED  BY <2>2 DEF Ended, Reporting
<1>6. CASE Measure
  <2>1. CASE Measure /\ ~Count
    <3>1. pc' \in {"clock", "begin", "end", "iter", "count", "dropSeg", "clkStop"}
      BY <2>1 DEF Measure, Warm, StartClock, Begin, BurstIteration, End, SegIteration, Return
    <3> QED  BY <3>1 DEF Ended, Reporting
  <2>2. CASE Count
    <3>1. pc = "count" /\ clk' = clk
      BY <2>2 DEF Count, threadVars
    <3>2. pc' = "iter" \/ pc' = "end" \/ (pc' = "batStop" /\ window # "open")
      BY <2>2 DEF Count
    <3>3. pc' = "batStop" => clk = "none"
      BY <3>1, <3>2 DEF IInv, Counted, NoWindow
    <3> QED  BY <3>1, <3>2, <3>3 DEF Ended, Reporting, Alive
  <2> QED  BY <1>6, <2>1, <2>2
<1>7. CASE StopClock \/ JoinClock \/ StopBattery \/ JoinBattery \/ WriteResults
  <2>1. clk' = clk /\ bat' = bat /\ gpu' = gpu /\ seg' = seg
    BY <1>7 DEF StopClock, JoinClock, StopBattery, JoinBattery, WriteResults, threadVars, nativeVars
  <2>2. \/ pc = "clkStop" /\ pc' = "clkJoin"
        \/ pc = "uClkStop" /\ pc' = "uClkJoin"
        \/ pc = "clkJoin" /\ pc' = "batStop" /\ ~Alive(clk)
        \/ pc = "uClkJoin" /\ pc' = "uBatStop" /\ ~Alive(clk)
        \/ pc = "batStop" /\ pc' = "batJoin"
        \/ pc = "uBatStop" /\ pc' = "uBatJoin"
        \/ pc = "batJoin" /\ pc' = "write" /\ ~Alive(bat)
        \/ pc = "uBatJoin" /\ pc' = "exited" /\ ~Alive(bat)
        \/ pc' = "dropSeg"
    BY <1>7 DEF StopClock, JoinClock, StopBattery, JoinBattery, WriteResults, Joined, Return
  <2> QED  BY <1>1, <2>1, <2>2 DEF Ended, Reporting, Alive
<1>8. CASE DropSegmenter
  <2>1. pc = "dropSeg" /\ (pc' = pc \/ (pc' = "dropGpu" /\ seg'.phase = "none"))
    BY <1>8 DEF DropSegmenter
  <2> QED  BY <2>1 DEF Ended, Reporting
<1>9. CASE DropPipeline
  <2>1. /\ pc = "dropGpu" /\ seg' = seg
        /\ pc' = pc \/ (pc' = "uClkStop" /\ gpu'.phase = "none")
    BY <1>9 DEF DropPipeline
  <2> QED  BY <1>1, <2>1 DEF Ended, Reporting
<1> QED
  BY <1>2, <1>3, <1>4, <1>5, <1>6, <1>7, <1>8, <1>9 DEF Next, Main, Finish

-----------------------------------------------------------------------------
(* The theorems *)

\* The invariant holds before anything has been read or written.
LEMMA InitIInv == Init => IInv
<1> SUFFICES ASSUME Init
             PROVE  IInv
  OBVIOUS
<1>1. /\ dir = EmptyDir /\ emu = EmuOff /\ cut = FALSE /\ opt \in Options /\ pc = "off" /\ n = 0
      /\ burst = NoBurst /\ found = "inUse" /\ bat = "none" /\ clk = "none"
      /\ running = [bat |-> FALSE, clk |-> FALSE]
      /\ window = "none" /\ elapsed = FALSE /\ iters = 0 /\ ran = [before |-> 0, inside |-> 0] /\ used = 0
  BY DEF Init
<1>2. Handles
  <2>1. "blur" \in Kinds /\ "emu" \in Kinds /\ (opt.seg # "none" => opt.seg \in Kinds)
    BY <1>1, OptionFacts DEF Kinds, Segmenters
  <2> HIDE DEF Kinds, Scripts, Teardowns
  <2>2. gpu = Absent("blur")
    BY DEF Init, Gpu!NoObject, Absent, Object
  <2>3. PICK c \in Kinds : seg = Absent(c)
    BY <2>1 DEF Init, Seg!NoObject, Absent, Object
  <2>4. Clean(Scripts["blur"], Teardowns["blur"], gpu) /\ gpu.kind = "blur"
    BY <2>2, BegunIsClean
  <2>5. Clean(Scripts[c], Teardowns[c], seg) /\ seg.kind = c
    BY <2>3, BegunIsClean
  <2> QED  BY <2>1, <2>4, <2>5 DEF Handles
<1>3. FileTypes /\ Written
  <2>1. /\ 0 \in 0 .. MaxWrites /\ 0 \in 0 .. MaxLength /\ 1 \in 1 .. MaxLength
        /\ MaxLength \in Lengths /\ 0 \in Nat /\ 0 <= 0
    BY Longest, CommandLineAssumption
  <2>2. NoFile \in Files
    BY <2>1 DEF Files, NoFile
  <2>3. [i \in 1 .. MaxLength |-> NoFile] \in [1 .. MaxLength -> Files]
    BY <2>2
  <2>4. FileTypes
    BY <1>1, <2>1, <2>3 DEF FileTypes, EmptyDir, EmuOff, NoMeta
  <2>5. emu.pc = "off" /\ dir.meta.lines = 0 /\ dir.meta.by = 0 /\ emu.by = 0
    BY <1>1 DEF EmptyDir, EmuOff, NoMeta
  <2> QED  BY <2>4, <2>5 DEF Written, OfRun, NotOlder
<1>4. MainTypes /\ ThreadTypes /\ WindowTypes
  <2>1. 0 \in 0 .. MaxWrites /\ 0 \in 0 .. MaxLength /\ <<>> \in Seq(Files)
    BY Longest, CommandLineAssumption
  <2>2. NoBurst \in Bursts
    <3> DEFINE q == <<>>
    <3>1. q \in Seq(Files) /\ NoBurst = [by |-> 0, size |-> 0, want |-> 0, frames |-> q]
      BY DEF NoBurst
    <3> HIDE DEF q
    <3> QED  BY <2>1, <3>1 DEF Bursts
  <2>3. MainTypes
    BY <1>1, <2>1, <2>2 DEF MainTypes, MainPC
  <2> QED  BY <1>1, <2>3 DEF ThreadTypes, WindowTypes, ThreadPC
<1>5. Read
  <2>1. burst.frames = <<>>
    BY <1>1 DEF NoBurst
  <2> QED  BY <1>1, <2>1 DEF Read, Loading, Working
<1>6. Counted /\ Ended
  BY <1>1 DEF Counted, Ended, NoWindow, Loading, BeforeMode, NotYetMeasured, Reporting
<1> QED  BY <1>2, <1>3, <1>4, <1>5, <1>6, TypeParts DEF IInv

\* Every step keeps it.
LEMMA NextIInv == IInv /\ [Next]_vars => IInv'
<1> SUFFICES ASSUME IInv, [Next]_vars
             PROVE  IInv'
  OBVIOUS
<1>1. Handles' /\ FileTypes' /\ MainTypes' /\ ThreadTypes' /\ WindowTypes'
  BY HandlesStep, FilesStep, MainTypesStep, ThreadTypesStep, WindowTypesStep
<1>2. Written' /\ Read' /\ Counted' /\ Ended'
  BY FilesStep, ReadStep, CountedStep, EndedStep
<1>3. TypeOK'
  BY <1>1, TypeParts, PTL
<1> QED  BY <1>1, <1>2, <1>3 DEF IInv

\* The invariant of every run.
LEMMA Invariance == Spec => []IInv
BY InitIInv, NextIInv, PTL DEF Spec

\* Every variable has its type.
THEOREM TypeCorrect == Spec => []TypeOK
<1>1. IInv => TypeOK
  BY DEF IInv
<1> QED  BY <1>1, Invariance, PTL

\* Of a directory at rest, whatever the sizes of the emulator's runs and wherever they
\* were cut off, no frame is loaded that is older than meta.txt, a frame of the run of
\* meta.txt is whole, and one that is cut off is of a greater size.  If no run was cut
\* off, all are of the run of meta.txt, as many as asked for and as many as
\* Pipeline::run reads.
THEOREM LoadedIsWholeHolds == Spec => []LoadedIsWhole
<1>1. IInv => LoadedIsWhole
  BY DEF IInv, Read, LoadedIsWhole, OfOneBurst, FramesFit
<1> QED  BY <1>1, Invariance, PTL

\* What is reported of a window is what happened in it.
THEOREM WindowIsItsIterationsHolds == Spec => []WindowIsItsIterations
<1>1. IInv => WindowIsItsIterations
  BY DEF IInv, Counted, Ended, Reporting, NoWindow, Measured, Warmed, WindowIsItsIterations
<1> QED  BY <1>1, Invariance, PTL

\* Whichever way main returns, no thread and no handle outlives it, and nothing is
\* dropped too early on the way.
THEOREM CleanExitHolds == Spec => []CleanExit
<1>1. ASSUME IInv
      PROVE  CleanExit
  <2>1. pc = "exited" => ~Alive(bat) /\ ~Alive(clk) /\ gpu.phase = "none" /\ seg.phase = "none"
    BY <1>1 DEF IInv, Ended
  <2> HIDE DEF Kinds, Scripts, Teardowns
  <2>2. Gpu!NothingLeaked /\ Gpu!BuiltOnHeld /\ Gpu!DroppedIdle
    BY <1>1 DEF IInv, Handles, Clean, NoneLeft, BasesHeld, AtRest, Gpu!NothingLeaked, Gpu!BuiltOnHeld,
       Gpu!DroppedIdle
  <2>3. Seg!NothingLeaked /\ Seg!BuiltOnHeld
    BY <1>1 DEF IInv, Handles, Clean, NoneLeft, BasesHeld, Seg!NothingLeaked, Seg!BuiltOnHeld
  <2> QED  BY <2>1, <2>2, <2>3 DEF CleanExit
<1> QED  BY <1>1, Invariance, PTL
=============================================================================

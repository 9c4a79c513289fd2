-------------------------- MODULE NdkCameraProofs --------------------------
(***************************************************************************)
(* The C++ capture path for any number of shoots and of frames: what shoot *)
(* hands out is in capture order, is not written again while it is valid,  *)
(* and is never handed out twice, although nothing ties a callback to a    *)
(* burst and failed_ is reset without the lock.                            *)
(***************************************************************************)
EXTENDS NdkCamera, FiniteSetTheorems, FunctionTheorems, SequenceTheorems, TLAPS

Settling == {"none", "pending", "delivered", "lost"}
Answering == {"none", "pending", "completed", "failed", "lost"}

Types ==
  /\ pc \in {"idle", "clear", "capture", "wait"}
  /\ begun \in 0 .. MaxShoots
  /\ active \in BOOLEAN /\ valid \in BOOLEAN
  /\ count \in 0 .. N
  /\ ts \in [Slots -> Frames \cup {NoFrame}]
  /\ memory \in [Slots -> Frames \cup {NoFrame}]
  /\ results \subseteq Frames
  /\ failed \in Nat
  /\ out \in [slots : Seq(Slots), frames : Seq(Frames)]
  /\ image \in [Frames -> Settling]
  /\ result \in [Frames -> Answering]
  /\ taken \in [Shoots -> SUBSET Frames]

\* The camera knows of no frame before shoot has asked for it.
Asked ==
  \A f \in Frames :
    /\ image[f] # "none" \/ result[f] # "none" => f[1] <= begun
    /\ pc \in {"clear", "capture"} /\ f[1] = begun => image[f] = "none" /\ result[f] = "none"

\* failed_ forgets, but never counts a failure twice.
FailedFrames(res) == {f \in Frames : res[f] = "failed"}
CountsFailures == failed <= Cardinality(FailedFrames(result))

\* The slots in use hold frames that have come, each one in one slot.
SlotsHold ==
  /\ \A k \in 1 .. count : ts[k] \in Frames /\ image[ts[k]] = "delivered" /\ memory[k] = ts[k]
  /\ \A j, k \in 1 .. count : ts[j] = ts[k] => j = k

\* While images are taken in, what is in the slots has not been handed out, and
\* what has been handed out stays apart.
NotTakenYet ==
  /\ \A b \in Shoots : \A f \in taken[b] : image[f] = "delivered"
  /\ active => \A b \in Shoots : \A k \in 1 .. count : ts[k] \notin taken[b]
  /\ \A a, b \in Shoots : a # b => taken[a] \cap taken[b] = {}

\* What has been handed out is what the slots hold, in order, and nothing is taken in.
OutIsSlots ==
  /\ pc # "idle" => active
  /\ valid => /\ ~active
              /\ out.slots \in [1 .. count -> 1 .. count]
              /\ out.frames = [k \in 1 .. count |-> ts[out.slots[k]]]
              /\ \A j, k \in 1 .. count : j < k => Earlier(out.frames[j], out.frames[k])

IInv == Types /\ Asked /\ CountsFailures /\ SlotsHold /\ NotTakenYet /\ OutIsSlots

-----------------------------------------------------------------------------
(* Frames and sorting *)

\* There are n numbers from 1 to n.
LEMMA CountTo ==
  ASSUME NEW n \in Nat
  PROVE  IsFiniteSet(1 .. n) /\ Cardinality(1 .. n) = n
<1>1. 1 \in Int /\ n \in Int /\ (1 > n => n = 0)
  OBVIOUS
<1>2. IsFiniteSet(1 .. n) /\ Cardinality(1 .. n) = IF 1 > n THEN 0 ELSE n - 1 + 1
  BY <1>1, FS_Interval
<1> QED  BY <1>1, <1>2

\* A finite set with a strict total order R can be listed in that order: each
\* element at one more than the number of those below it.
LEMMA SortedListExists ==
  ASSUME NEW S, IsFiniteSet(S), NEW R,
         \A x \in S : <<x, x>> \notin R,
         \A x, y, z \in S : <<x, y>> \in R /\ <<y, z>> \in R => <<x, z>> \in R,
         \A x, y \in S : x # y => <<x, y>> \in R \/ <<y, x>> \in R
  PROVE  \E s \in [1 .. Cardinality(S) -> S] :
           \A i, j \in 1 .. Cardinality(S) : i < j => <<s[i], s[j]>> \in R
<1> DEFINE n == Cardinality(S)
           Below(x) == {y \in S : <<y, x>> \in R}
           rank == [x \in S |-> Cardinality(Below(x)) + 1]
<1>1. n \in Nat
  BY FS_CardinalityType
<1>2. ASSUME NEW x \in S
      PROVE  IsFiniteSet(Below(x)) /\ Cardinality(Below(x)) \in Nat /\ Cardinality(Below(x)) < n
  <2>1. Below(x) \in SUBSET S /\ Below(x) # S
    OBVIOUS
  <2>2. IsFiniteSet(Below(x)) /\ Cardinality(Below(x)) <= n /\ Cardinality(Below(x)) # n
    BY <2>1, FS_Subset
  <2> HIDE DEF Below, n
  <2> QED  BY <2>2, <1>1, FS_CardinalityType
<1>3. ASSUME NEW x \in S, NEW y \in S, <<x, y>> \in R
      PROVE  rank[x] < rank[y]
  <2>1. Below(x) \in SUBSET Below(y) /\ Below(x) # Below(y)
    BY <1>3
  <2>2. Cardinality(Below(x)) <= Cardinality(Below(y)) /\ Cardinality(Below(x)) # Cardinality(Below(y))
    BY <2>1, <1>2, FS_Subset
  <2> HIDE DEF Below
  <2> QED  BY <2>2, <1>2
<1>4. rank \in [S -> 1 .. n]
  <2> HIDE DEF Below, n
  <2> QED  BY <1>1, <1>2
<1> HIDE DEF rank, n
<1>5. rank \in Injection(S, 1 .. n)
  <2>1. ASSUME NEW x \in S, NEW y \in S, rank[x] = rank[y]
        PROVE  x = y
    <3>1. rank[x] \in Int /\ ~(<<x, y>> \in R) /\ ~(<<y, x>> \in R)
      <4>1. rank[x] \in 1 .. n /\ rank[y] \in 1 .. n
        BY <1>4
      <4> QED  BY <1>3, <2>1, <4>1
    <3> QED  BY <3>1
  <2> QED  BY <1>4, <2>1, Fun_IsInj
<1>6. rank \in Surjection(S, 1 .. n)
  <2>1. IsFiniteSet(1 .. n) /\ Cardinality(1 .. n) = n
    BY <1>1, CountTo
  <2> QED  BY <1>5, <2>1, FS_Injection DEF n
<1> DEFINE s == [i \in 1 .. n |-> CHOOSE x \in S : rank[x] = i]
<1>7. \A i \in 1 .. n : s[i] \in S /\ rank[s[i]] = i
  <2>1. \A i \in 1 .. n : \E x \in S : rank[x] = i
    BY <1>6, Fun_SurjectionProperties
  <2> QED  BY <2>1
<1>8. s \in [1 .. n -> S]
  BY <1>7
<1>9. ASSUME NEW i \in 1 .. n, NEW j \in 1 .. n, i < j
      PROVE  <<s[i], s[j]>> \in R
  <2> HIDE DEF s
  <2>1. s[i] # s[j] /\ ~(<<s[j], s[i]>> \in R)
    BY <1>1, <1>3, <1>7, <1>9
  <2> QED  BY <1>7, <2>1
<1> HIDE DEF s
<1> QED  BY <1>8, <1>9 DEF n

\* There are N * MaxShoots frames, and each differs from NoFrame.
LEMMA FrameFacts ==
  /\ IsFiniteSet(Frames) /\ Cardinality(Frames) = N * MaxShoots
  /\ N \in Nat \ {0} /\ MaxShoots \in Nat \ {0} /\ N * MaxShoots \in Nat
  /\ \A f \in Frames : f[1] \in Nat /\ f[2] \in Nat /\ f = <<f[1], f[2]>> /\ f # NoFrame
<1>1. N \in Nat \ {0} /\ MaxShoots \in Nat \ {0}
  BY NdkAssumption
<1>2. /\ IsFiniteSet(1 .. N) /\ Cardinality(1 .. N) = N
      /\ IsFiniteSet(1 .. MaxShoots) /\ Cardinality(1 .. MaxShoots) = MaxShoots
  BY <1>1, CountTo
<1>3. Frames = (1 .. MaxShoots) \X (1 .. N)
  BY DEF Frames, Shoots, Slots
<1>4. /\ IsFiniteSet((1 .. MaxShoots) \X (1 .. N))
      /\ Cardinality((1 .. MaxShoots) \X (1 .. N)) = MaxShoots * N
  <2> DEFINE A == 1 .. MaxShoots
             B == 1 .. N
  <2>1. IsFiniteSet(A) /\ IsFiniteSet(B) /\ Cardinality(A) = MaxShoots /\ Cardinality(B) = N
    BY <1>2
  <2> HIDE DEF A, B
  <2>2. IsFiniteSet(A \X B) /\ Cardinality(A \X B) = Cardinality(A) * Cardinality(B)
    BY <2>1, FS_Product
  <2> QED  BY <2>1, <2>2 DEF A, B
<1>5. MaxShoots * N = N * MaxShoots /\ N * MaxShoots \in Nat
  BY <1>1
<1>6. \A f \in Frames : f[1] \in Nat /\ f[2] \in Nat /\ f = <<f[1], f[2]>> /\ f # NoFrame
  BY <1>1, <1>3 DEF NoFrame
<1> QED  BY <1>1, <1>3, <1>4, <1>5, <1>6

\* What has failed is finitely many frames, at most as many as were asked for.
LEMMA FailuresCounted ==
  ASSUME NEW res
  PROVE  IsFiniteSet(FailedFrames(res)) /\ Cardinality(FailedFrames(res)) \in 0 .. N * MaxShoots
<1>1. FailedFrames(res) \in SUBSET Frames
  BY DEF FailedFrames
<1>2. IsFiniteSet(FailedFrames(res)) /\ Cardinality(FailedFrames(res)) <= N * MaxShoots
  BY <1>1, FrameFacts, FS_Subset
<1>3. Cardinality(FailedFrames(res)) \in Nat
  BY <1>2, FS_CardinalityType
<1> QED  BY <1>2, <1>3, FrameFacts

\* The slots in use can be sorted by their timestamps.
LEMMA TimestampsSort ==
  ASSUME Types, SlotsHold
  PROVE  /\ TimestampOrder \in [1 .. count -> 1 .. count]
         /\ \A j, k \in 1 .. count :
              j < k => Earlier(ts[TimestampOrder[j]], ts[TimestampOrder[k]])
<1> DEFINE S == 1 .. count
           R == {p \in S \X S : Earlier(ts[p[1]], ts[p[2]])}
           OK(s) == \A j, k \in 1 .. count : j < k => Earlier(ts[s[j]], ts[s[k]])
<1>1. count \in Nat /\ IsFiniteSet(S) /\ Cardinality(S) = count
  <2>1. count \in Nat
    BY FrameFacts DEF Types
  <2> QED  BY <2>1, CountTo
<1>2. \A j, k \in S : <<j, k>> \in R <=> Earlier(ts[j], ts[k])
  OBVIOUS
<1>3. /\ \A i \in S : ~Earlier(ts[i], ts[i])
      /\ \A i, j, k \in S : Earlier(ts[i], ts[j]) /\ Earlier(ts[j], ts[k])
                            => Earlier(ts[i], ts[k])
      /\ \A i, j \in S : i # j => Earlier(ts[i], ts[j]) \/ Earlier(ts[j], ts[i])
  <2>1. \A i \in S : ts[i][1] \in Nat /\ ts[i][2] \in Nat /\ ts[i] = <<ts[i][1], ts[i][2]>>
    BY FrameFacts DEF SlotsHold
  <2>2. \A i, j \in S : i # j => ts[i][1] # ts[j][1] \/ ts[i][2] # ts[j][2]
    BY <2>1 DEF SlotsHold
  <2> HIDE DEF S
  <2> QED  BY <2>1, <2>2 DEF Earlier
<1> HIDE DEF R, S
<1>4. \E s \in [1 .. count -> 1 .. count] : OK(s)
  <2>1. PICK s \in [1 .. Cardinality(S) -> S] :
          \A i, j \in 1 .. Cardinality(S) : i < j => <<s[i], s[j]>> \in R
    BY <1>1, <1>2, <1>3, SortedListExists
  <2>2. s \in [1 .. count -> 1 .. count]
    BY <1>1, <2>1 DEF S
  <2>3. \A i \in 1 .. count : s[i] \in S
    BY <2>2 DEF S
  <2> QED  BY <1>1, <1>2, <2>1, <2>2, <2>3
<1> QED  BY <1>4 DEF TimestampOrder

-----------------------------------------------------------------------------
(* The steps *)

\* Nothing has been asked for, nothing is held.
LEMMA InitIInv ==
  ASSUME Init
  PROVE  IInv
<1>1. /\ pc = "idle" /\ begun = 0 /\ active = FALSE /\ count = 0 /\ results = {} /\ failed = 0
      /\ valid = FALSE /\ out = [slots |-> <<>>, frames |-> <<>>]
      /\ ts = [k \in Slots |-> NoFrame] /\ memory = [k \in Slots |-> NoFrame]
      /\ image = [f \in Frames |-> "none"] /\ result = [f \in Frames |-> "none"]
      /\ taken = [b \in Shoots |-> {}]
  BY DEF Init
<1>2. Types
  <2>1. active \in BOOLEAN /\ valid \in BOOLEAN
    BY <1>1
  <2>2. out \in [slots : Seq(Slots), frames : Seq(Frames)]
    BY <1>1
  <2> QED  BY <1>1, <2>1, <2>2, FrameFacts DEF Types, Settling, Answering
<1>3. Asked
  BY <1>1 DEF Asked
<1>4. CountsFailures
  BY <1>1, FailuresCounted DEF CountsFailures
<1>5. SlotsHold /\ NotTakenYet /\ OutIsSlots
  BY <1>1 DEF SlotsHold, NotTakenYet, OutIsSlots
<1> QED  BY <1>2, <1>3, <1>4, <1>5 DEF IInv

\* The start of a shoot: the slots are empty again and what was handed out is void.
LEMMA ResetKeeps ==
  ASSUME IInv, Reset
  PROVE  IInv'
<1>1. /\ begun' = begun + 1 /\ begun < MaxShoots /\ results' = {} /\ active' = TRUE /\ count' = 0
      /\ ts' = [k \in Slots |-> NoFrame] /\ valid' = FALSE /\ pc' = "clear"
      /\ UNCHANGED <<memory, failed, out, taken, image, result>>
  BY DEF Reset, ResetState, camera
<1>2. Types'
  <2>1. active' \in BOOLEAN /\ valid' \in BOOLEAN
    BY <1>1
  <2> QED  BY <1>1, <2>1, FrameFacts DEF IInv, Types
<1>3. Asked'
  <2>1. begun \in Nat
    BY FrameFacts DEF IInv, Types
  <2> QED  BY <1>1, <2>1, FrameFacts DEF IInv, Asked
<1>4. CountsFailures'
  BY <1>1 DEF IInv, CountsFailures
<1>5. SlotsHold' /\ NotTakenYet' /\ OutIsSlots'
  BY <1>1 DEF IInv, SlotsHold, NotTakenYet, OutIsSlots
<1> QED  BY <1>2, <1>3, <1>4, <1>5 DEF IInv

\* The steps of shoot before its wait.
LEMMA BeginKeeps ==
  ASSUME IInv, ClearFailed \/ Capture \/ CaptureRefused
  PROVE  IInv'
<1>1. UNCHANGED <<begun, active, count, ts, memory, results, out, valid, taken>>
  BY DEF ClearFailed, Capture, CaptureRefused, collected, output
<1>2. CASE ClearFailed \/ CaptureRefused
  <2>1. /\ UNCHANGED <<image, result>> /\ failed' \in {0, failed}
        /\ pc \in {"clear", "capture"} /\ pc' \in {"capture", "idle"}
    BY <1>2 DEF ClearFailed, CaptureRefused, camera
  <2>2. Types'
    BY <1>1, <2>1 DEF IInv, Types
  <2>3. Asked'
    BY <1>1, <2>1 DEF IInv, Asked
  <2>4. CountsFailures'
    BY <2>1, FailuresCounted DEF IInv, CountsFailures
  <2>5. SlotsHold' /\ NotTakenYet' /\ OutIsSlots'
    BY <1>1, <2>1 DEF IInv, SlotsHold, NotTakenYet, OutIsSlots
  <2> QED  BY <2>2, <2>3, <2>4, <2>5 DEF IInv
<1>3. CASE Capture
  <2>1. /\ pc = "capture" /\ pc' = "wait" /\ failed' = failed
        /\ image' = [f \in Frames |-> IF f[1] = begun THEN "pending" ELSE image[f]]
        /\ result' = [f \in Frames |-> IF f[1] = begun THEN "pending" ELSE result[f]]
    BY <1>3 DEF Capture
  <2>2. Types'
    BY <1>1, <2>1 DEF IInv, Types, Settling, Answering
  <2>3. \A f \in Frames : f[1] = begun => image[f] = "none" /\ result[f] = "none"
    BY <2>1 DEF IInv, Asked
  <2>4. Asked'
    <3>1. begun \in Nat
      BY FrameFacts DEF IInv, Types
    <3> QED  BY <1>1, <2>1, <3>1 DEF IInv, Asked
  <2>5. CountsFailures'
    <3>1. FailedFrames(result') = FailedFrames(result)
      BY <2>1, <2>3 DEF FailedFrames
    <3> QED  BY <2>1, <3>1 DEF IInv, CountsFailures
  <2>6. \A f \in Frames : image[f] = "delivered" => image'[f] = "delivered"
    BY <2>1, <2>3
  <2>7. SlotsHold'
    BY <1>1, <2>6 DEF IInv, SlotsHold
  <2>8. NotTakenYet'
    BY <1>1, <2>6 DEF IInv, NotTakenYet, Types
  <2>9. OutIsSlots'
    BY <1>1, <2>1 DEF IInv, OutIsSlots
  <2> QED  BY <2>2, <2>4, <2>5, <2>7, <2>8, <2>9 DEF IInv
<1> QED  BY <1>2, <1>3

\* shoot returns: what is in the slots is handed out, in order.
LEMMA ReturnKeeps ==
  ASSUME IInv, ReturnComplete \/ ReturnTimeout
  PROVE  IInv'
<1>1. /\ pc = "wait" /\ pc' = "idle" /\ active' = FALSE /\ active = TRUE
      /\ UNCHANGED <<begun, count, ts, memory, results, failed, image, result>>
  <2>1. pc = "wait" /\ Return
    BY DEF ReturnComplete, ReturnTimeout
  <2>2. active
    BY <2>1 DEF IInv, OutIsSlots
  <2>3. active = TRUE
    BY <2>2 DEF IInv, Types
  <2> QED  BY <2>1, <2>3 DEF Return, Deactivate, camera
<1>2. Asked' /\ CountsFailures' /\ SlotsHold'
  BY <1>1 DEF IInv, Asked, CountsFailures, SlotsHold
<1>3. begun \in Shoots \/ count = 0
  <2>1. ASSUME count # 0
        PROVE  begun \in Shoots
    <3>1. count \in Nat /\ begun \in 0 .. MaxShoots
      BY FrameFacts DEF IInv, Types
    <3>2. ts[1] \in Frames /\ image[ts[1]] = "delivered"
      BY <2>1, <3>1 DEF IInv, SlotsHold
    <3>3. ts[1][1] <= begun /\ ts[1][1] \in 1 .. MaxShoots
      BY <3>2 DEF IInv, Asked, Frames, Shoots
    <3> QED  BY <3>1, <3>3, FrameFacts DEF Shoots
  <2> QED  BY <2>1
<1>4. CASE count = 0
  <2>1. UNCHANGED <<out, valid, taken>>
    BY <1>4 DEF ReturnComplete, ReturnTimeout, Return, output
  <2>2. ~valid
    BY <1>1 DEF IInv, OutIsSlots
  <2>3. Types'
    BY <1>1, <2>1 DEF IInv, Types
  <2>4. NotTakenYet' /\ OutIsSlots'
    BY <1>1, <2>1, <2>2 DEF IInv, NotTakenYet, OutIsSlots
  <2> QED  BY <1>2, <2>3, <2>4 DEF IInv
<1>5. CASE count # 0
  <2> DEFINE o == TimestampOrder
             T == {ts[k] : k \in 1 .. count}
  <2>1. /\ out' = [slots |-> o, frames |-> [k \in 1 .. count |-> ts[o[k]]]]
        /\ valid' = TRUE /\ taken' = [taken EXCEPT ![begun] = T]
    BY <1>5 DEF ReturnComplete, ReturnTimeout, Return
  <2>2. o \in [1 .. count -> 1 .. count]
        /\ \A j, k \in 1 .. count : j < k => Earlier(ts[o[j]], ts[o[k]])
    BY TimestampsSort DEF IInv
  <2>3. T \subseteq Frames /\ \A f \in T : image[f] = "delivered"
    BY DEF IInv, SlotsHold
  <2>4. \A b \in Shoots : T \cap taken[b] = {}
    BY <1>1 DEF IInv, NotTakenYet
  <2> HIDE DEF o
  <2>5. out' \in [slots : Seq(Slots), frames : Seq(Frames)]
    <3>1. count \in Nat /\ 1 .. count \subseteq Slots
      BY FrameFacts DEF IInv, Types, Slots
    <3>2. o \in Seq(Slots)
      BY <2>2, <3>1
    <3>3. [k \in 1 .. count |-> ts[o[k]]] \in [1 .. count -> Frames]
      BY <2>2 DEF IInv, SlotsHold
    <3>4. [k \in 1 .. count |-> ts[o[k]]] \in Seq(Frames)
      BY <3>1, <3>3
    <3> QED  BY <2>1, <3>2, <3>4
  <2> HIDE DEF T
  <2>6. taken \in [Shoots -> SUBSET Frames] /\ taken' \in [Shoots -> SUBSET Frames]
    BY <2>1, <2>3 DEF IInv, Types
  <2>7. Types'
    <3>1. active' \in BOOLEAN /\ valid' \in BOOLEAN
      BY <1>1, <2>1
    <3> QED  BY <1>1, <2>5, <2>6, <3>1 DEF IInv, Types
  <2>8. NotTakenYet'
    <3>1. \A b \in Shoots : taken'[b] = IF b = begun THEN T ELSE taken[b]
      BY <2>1, <2>6
    <3> QED  BY <1>1, <2>3, <2>4, <3>1 DEF IInv, NotTakenYet
  <2>9. OutIsSlots'
    <3>1. out'.slots = o /\ out'.frames = [k \in 1 .. count |-> ts[o[k]]]
      BY <2>1
    <3> QED  BY <1>1, <2>2, <3>1 DEF OutIsSlots
  <2> QED  BY <1>2, <2>7, <2>8, <2>9 DEF IInv
<1> QED  BY <1>4, <1>5

\* An image arrives: it is copied while images are taken in and there is room.
LEMMA ImageKeeps ==
  ASSUME IInv, NEW f \in Frames, OnImage(f)
  PROVE  IInv'
<1>1. /\ image[f] = "pending" /\ image' = [image EXCEPT ![f] = "delivered"]
      /\ UNCHANGED <<pc, begun, active, results, failed, out, valid, taken, result>>
  BY DEF OnImage, output
<1>2. /\ image' \in [Frames -> Settling]
      /\ \A g \in Frames : image'[g] = IF g = f THEN "delivered" ELSE image[g]
  BY <1>1 DEF IInv, Types, Settling
<1>3. Asked' /\ CountsFailures'
  BY <1>1, <1>2 DEF IInv, Asked, CountsFailures
<1>4. \A b \in Shoots : taken[b] \subseteq Frames
  BY DEF IInv, Types
<1>5. CASE UNCHANGED <<count, ts, memory>>
  <2>1. Types'
    BY <1>1, <1>2, <1>5 DEF IInv, Types
  <2>2. SlotsHold'
    BY <1>2, <1>5 DEF IInv, SlotsHold
  <2>3. NotTakenYet'
    BY <1>1, <1>2, <1>4, <1>5 DEF IInv, NotTakenYet
  <2>4. OutIsSlots'
    BY <1>1, <1>5 DEF IInv, OutIsSlots
  <2> QED  BY <1>3, <2>1, <2>2, <2>3, <2>4 DEF IInv
<1>6. CASE /\ Accepts /\ count' = count + 1
           /\ ts' = [ts EXCEPT ![count + 1] = f] /\ memory' = [memory EXCEPT ![count + 1] = f]
  <2>1. active /\ count < N /\ count \in Nat /\ N \in Nat /\ ~valid
    BY <1>6, FrameFacts DEF IInv, Types, OutIsSlots, Accepts
  <2>2. /\ count' \in 0 .. N /\ count + 1 \in Slots
        /\ 1 .. count' = (1 .. count) \cup {count + 1} /\ count + 1 \notin 1 .. count
    BY <1>6, <2>1 DEF Slots
  <2>3. /\ ts' \in [Slots -> Frames \cup {NoFrame}] /\ ts'[count + 1] = f
        /\ memory' \in [Slots -> Frames \cup {NoFrame}] /\ memory'[count + 1] = f
        /\ \A k \in 1 .. count : ts'[k] = ts[k] /\ memory'[k] = memory[k]
    <3>1. 1 .. count \subseteq Slots
      BY <2>1 DEF Slots
    <3> QED  BY <1>6, <2>2, <3>1 DEF IInv, Types
  \* f was still on its way, so it is in no slot and has not been handed out.
  <2>4. (\A k \in 1 .. count : ts[k] # f) /\ \A b \in Shoots : f \notin taken[b]
    BY <1>1 DEF IInv, SlotsHold, NotTakenYet
  <2>5. Types'
    BY <1>1, <1>2, <2>2, <2>3 DEF IInv, Types
  <2>6. SlotsHold'
    BY <1>2, <2>2, <2>3, <2>4 DEF IInv, SlotsHold
  <2>7. NotTakenYet'
    BY <1>1, <1>2, <1>4, <2>1, <2>2, <2>3, <2>4 DEF IInv, NotTakenYet
  <2>8. OutIsSlots'
    BY <1>1, <2>1 DEF IInv, OutIsSlots
  <2> QED  BY <1>3, <2>5, <2>6, <2>7, <2>8 DEF IInv
<1> QED  BY <1>5, <1>6 DEF OnImage

\* A result or a failure arrives, also in the gap where failed_ is reset, or
\* something is lost: the slots are not touched.
LEMMA AnswerKeeps ==
  ASSUME IInv, NEW f \in Frames,
         UNCHANGED <<begun, active, count, ts, memory, out, valid, taken>>,
         pc' = pc \/ (pc = "clear" /\ pc' = "capture"),
         results' \subseteq Frames, NEW how \in Answering \ {"none", "pending"},
         \/ /\ result[f] = "pending" /\ result' = [result EXCEPT ![f] = how]
            /\ failed' = (IF how = "failed" THEN failed + 1 ELSE failed)
            /\ image' = image
         \/ /\ image[f] = "pending" /\ image' = [image EXCEPT ![f] = "lost"]
            /\ UNCHANGED <<failed, result>>
  PROVE  IInv'
<1>1. failed \in Nat /\ image \in [Frames -> Settling] /\ result \in [Frames -> Answering]
  BY DEF IInv, Types
<1>2. /\ failed' \in Nat /\ image' \in [Frames -> Settling] /\ result' \in [Frames -> Answering]
      /\ \A g \in Frames : /\ image[g] = "none" <=> image'[g] = "none"
                           /\ result[g] = "none" <=> result'[g] = "none"
      /\ \A g \in Frames : image[g] = "delivered" => image'[g] = "delivered"
  BY <1>1 DEF Settling, Answering
<1>3. Types'
  BY <1>2 DEF IInv, Types
<1>4. Asked'
  BY <1>2 DEF IInv, Asked
<1>5. CountsFailures'
  <2>1. CASE result[f] = "pending" /\ result' = [result EXCEPT ![f] = how] /\ how = "failed"
    <3>1. FailedFrames(result') = FailedFrames(result) \cup {f}
      BY <1>1, <2>1 DEF FailedFrames
    <3>2. failed' = failed + 1
      BY <2>1, <1>1
    <3>3. /\ Cardinality(FailedFrames(result')) = Cardinality(FailedFrames(result)) + 1
          /\ Cardinality(FailedFrames(result)) \in Nat
      <4>1. f \notin FailedFrames(result)
        BY <2>1 DEF FailedFrames
      <4>2. IsFiniteSet(FailedFrames(result)) /\ Cardinality(FailedFrames(result)) \in Nat
        BY FailuresCounted, FrameFacts
      <4> QED  BY <3>1, <4>1, <4>2, FS_AddElement
    <3> QED  BY <1>1, <3>2, <3>3 DEF IInv, CountsFailures
  <2>2. CASE FailedFrames(result') = FailedFrames(result) /\ failed' = failed
    BY <2>2 DEF IInv, CountsFailures
  <2>3. CASE result[f] = "pending" /\ result' = [result EXCEPT ![f] = how] /\ how # "failed"
    BY <1>1, <2>2, <2>3 DEF FailedFrames
  <2> QED  BY <2>1, <2>2, <2>3
<1>6. SlotsHold'
  BY <1>2 DEF IInv, SlotsHold
<1>7. NotTakenYet'
  BY <1>2 DEF IInv, NotTakenYet, Types
<1>8. OutIsSlots'
  BY DEF IInv, OutIsSlots
<1> QED  BY <1>3, <1>4, <1>5, <1>6, <1>7, <1>8 DEF IInv

\* Every step of the thread in shoot and of the camera.
LEMMA NextIInv ==
  ASSUME IInv, [Next]_(vars)
  PROVE  IInv'
<1>1. CASE Reset
  BY <1>1, ResetKeeps
<1>2. CASE ShootStep
  BY <1>2, BeginKeeps, ReturnKeeps DEF ShootStep
<1>3. ASSUME NEW f \in Frames, OnImage(f)
      PROVE  IInv'
  BY <1>3, ImageKeeps
<1>4. ASSUME NEW f \in Frames,
             OnStillResult(f) \/ OnCaptureFailed(f) \/ FailedOverwritesReset(f) \/ Lose(f)
      PROVE  IInv'
  <2>1. results \subseteq Frames
    BY DEF IInv, Types
  <2>2. {"completed", "failed", "lost"} \subseteq Answering \ {"none", "pending"}
    BY DEF Answering
  <2>3. CASE OnStillResult(f)
    BY <2>1, <2>2, <2>3, AnswerKeeps DEF OnStillResult, output
  <2>4. CASE OnCaptureFailed(f)
    BY <2>1, <2>2, <2>4, AnswerKeeps DEF OnCaptureFailed, output, collected
  <2>5. CASE FailedOverwritesReset(f)
    BY <2>1, <2>2, <2>5, AnswerKeeps DEF FailedOverwritesReset, output, collected
  <2>6. CASE Lose(f)
    BY <2>1, <2>2, <2>6, AnswerKeeps DEF Lose, output, collected
  <2> QED  BY <1>4, <2>3, <2>4, <2>5, <2>6
<1>5. CASE UNCHANGED vars
  <2>1. UNCHANGED <<pc, begun, active, count, ts, memory, results, failed, out, valid, taken, image, result>>
    BY <1>5 DEF vars, collected, output, camera
  <2>2. Types' /\ Asked' /\ CountsFailures'
    BY <2>1 DEF IInv, Types, Asked, CountsFailures
  <2>3. SlotsHold' /\ NotTakenYet' /\ OutIsSlots'
    BY <2>1 DEF IInv, SlotsHold, NotTakenYet, OutIsSlots
  <2> QED  BY <2>2, <2>3 DEF IInv
<1> QED  BY <1>1, <1>2, <1>3, <1>4, <1>5 DEF Next, CameraStep, Over

\* The strengthening is an invariant.
LEMMA Invariance ==
  Spec => []IInv
<1>1. Init => IInv
  BY InitIInv
<1>2. IInv /\ [Next]_(vars) => IInv'
  BY NextIInv
<1> QED  BY <1>1, <1>2, PTL DEF Spec

\* ndk_camera.cc: every variable of the C++ capture path has its type; failed_
\* never exceeds the frames asked for, also if a failure overwrites its reset.
THEOREM TypeCorrect ==
  Spec => []TypeOK
<1>1. IInv => TypeOK
  <2> SUFFICES ASSUME IInv  PROVE TypeOK
    OBVIOUS
  <2>1. failed \in 0 .. N * MaxShoots
    BY FailuresCounted, FrameFacts DEF IInv, Types, CountsFailures
  <2>2. ToSet(out.slots) \subseteq Slots /\ ToSet(out.frames) \subseteq Frames
    BY DEF IInv, Types, ToSet
  <2> QED  BY <2>1, <2>2 DEF IInv, Types, TypeOK, Settling, Answering
<1> QED  BY <1>1, Invariance, PTL

\* ndk_camera.h: "on success out is valid until the next shoot".  Neither a late
\* image nor one of an earlier burst writes over a slot that was handed out, the
\* slots are in capture order, and no frame is handed out twice.
THEOREM OutputIntactHolds ==
  Spec => []OutputIntact
<1>1. IInv => OutputIntact
  <2> SUFFICES ASSUME IInv  PROVE OutputIntact
    OBVIOUS
  <2>1. ASSUME valid
        PROVE  /\ \A k \in DOMAIN out.slots : memory[out.slots[k]] = out.frames[k]
               /\ \A j, k \in DOMAIN out.frames :
                    j < k => /\ Earlier(out.frames[j], out.frames[k])
                             /\ out.slots[j] # out.slots[k]
    <3>1. /\ out.slots \in [1 .. count -> 1 .. count]
          /\ out.frames = [k \in 1 .. count |-> ts[out.slots[k]]]
          /\ \A j, k \in 1 .. count : j < k => Earlier(out.frames[j], out.frames[k])
      BY <2>1 DEF IInv, OutIsSlots
    <3>2. \A k \in 1 .. count : out.slots[k] \in 1 .. count /\ out.frames[k] = ts[out.slots[k]]
      BY <3>1
    <3>3. \A k \in 1 .. count : memory[out.slots[k]] = out.frames[k] /\ out.frames[k] \in Frames
      BY <3>2 DEF IInv, SlotsHold
    <3>4. \A f \in Frames : ~Earlier(f, f)
      BY FrameFacts DEF Earlier
    <3>5. \A j, k \in 1 .. count : j < k => out.slots[j] # out.slots[k]
      BY <3>1, <3>3, <3>4
    <3> QED  BY <3>1, <3>3, <3>5
  <2> QED  BY <2>1 DEF IInv, NotTakenYet, OutputIntact
<1> QED  BY <1>1, Invariance, PTL
=============================================================================

------------------------- MODULE BurstCaptureProofs -------------------------
(***************************************************************************)
(* The Kotlin capture path for any number of bursts and of frames: a burst *)
(* is handed to the app once, in capture order, and as complete as it      *)
(* says, in whatever order images, results, failures and timers come.      *)
(***************************************************************************)
EXTENDS BurstCapture, FiniteSetTheorems, FunctionTheorems, SequenceTheorems, TLAPS

-----------------------------------------------------------------------------
(* Sorting *)

\* There are n numbers from 1 to n.
LEMMA CountTo ==
  ASSUME NEW n \in Nat
  PROVE  IsFiniteSet(1 .. n) /\ Cardinality(1 .. n) = n
<1>1. 1 \in Int /\ n \in Int /\ (1 > n => n = 0)
  OBVIOUS
<1>2. IsFiniteSet(1 .. n) /\ Cardinality(1 .. n) = IF 1 > n THEN 0 ELSE n - 1 + 1
  BY <1>1, FS_Interval
<1> QED  BY <1>1, <1>2

\* A finite set with a strict total order R can be listed in that order: each
\* element at one more than the number of those below it.
LEMMA SortedListExists ==
  ASSUME NEW S, IsFiniteSet(S), NEW R,
         \A x \in S : <<x, x>> \notin R,
         \A x, y, z \in S : <<x, y>> \in R /\ <<y, z>> \in R => <<x, z>> \in R,
         \A x, y \in S : x # y => <<x, y>> \in R \/ <<y, x>> \in R
  PROVE  \E s \in [1 .. Cardinality(S) -> S] :
           \A i, j \in 1 .. Cardinality(S) : i < j => <<s[i], s[j]>> \in R
<1> DEFINE n == Cardinality(S)
           Below(x) == {y \in S : <<y, x>> \in R}
           rank == [x \in S |-> Cardinality(Below(x)) + 1]
<1>1. n \in Nat
  BY FS_CardinalityType
<1>2. ASSUME NEW x \in S
      PROVE  IsFiniteSet(Below(x)) /\ Cardinality(Below(x)) \in Nat /\ Cardinality(Below(x)) < n
  <2>1. Below(x) \in SUBSET S /\ Below(x) # S
    OBVIOUS
  <2>2. IsFiniteSet(Below(x)) /\ Cardinality(Below(x)) <= n /\ Cardinality(Below(x)) # n
    BY <2>1, FS_Subset
  <2> HIDE DEF Below, n
  <2> QED  BY <2>2, <1>1, FS_CardinalityType
<1>3. ASSUME NEW x \in S, NEW y \in S, <<x, y>> \in R
      PROVE  rank[x] < rank[y]
  <2>1. Below(x) \in SUBSET Below(y) /\ Below(x) # Below(y)
    BY <1>3
  <2>2. Cardinality(Below(x)) <= Cardinality(Below(y)) /\ Cardinality(Below(x)) # Cardinality(Below(y))
    BY <2>1, <1>2, FS_Subset
  <2> HIDE DEF Below
  <2> QED  BY <2>2, <1>2
<1>4. rank \in [S -> 1 .. n]
  <2> HIDE DEF Below, n
  <2> QED  BY <1>1, <1>2
<1> HIDE DEF rank, n
<1>5. rank \in Injection(S, 1 .. n)
  <2>1. ASSUME NEW x \in S, NEW y \in S, rank[x] = rank[y]
        PROVE  x = y
    <3>1. rank[x] \in Int /\ ~(<<x, y>> \in R) /\ ~(<<y, x>> \in R)
      <4>1. rank[x] \in 1 .. n /\ rank[y] \in 1 .. n
        BY <1>4
      <4> QED  BY <1>3, <2>1, <4>1
    <3> QED  BY <3>1
  <2> QED  BY <1>4, <2>1, Fun_IsInj
<1>6. rank \in Surjection(S, 1 .. n)
  <2>1. IsFiniteSet(1 .. n) /\ Cardinality(1 .. n) = n
    BY <1>1, CountTo
  <2> QED  BY <1>5, <2>1, FS_Injection DEF n
<1> DEFINE s == [i \in 1 .. n |-> CHOOSE x \in S : rank[x] = i]
<1>7. \A i \in 1 .. n : s[i] \in S /\ rank[s[i]] = i
  <2>1. \A i \in 1 .. n : \E x \in S : rank[x] = i
    BY <1>6, Fun_SurjectionProperties
  <2> QED  BY <2>1
<1>8. s \in [1 .. n -> S]
  BY <1>7
<1>9. ASSUME NEW i \in 1 .. n, NEW j \in 1 .. n, i < j
      PROVE  <<s[i], s[j]>> \in R
  <2> HIDE DEF s
  <2>1. s[i] # s[j] /\ ~(<<s[j], s[i]>> \in R)
    BY <1>1, <1>3, <1>7, <1>9
  <2> QED  BY <1>7, <2>1
<1> HIDE DEF s
<1> QED  BY <1>8, <1>9 DEF n

Stamps == Nat \X Nat

\* What sorting a list of distinct frames gives: the same frames, in the order of
\* their timestamps.
LEMMA SortedIsInOrder ==
  ASSUME NEW slots \in Seq(Stamps), IsInjective(slots)
  PROVE  /\ Sorted(slots) \in Seq(ToSet(slots)) /\ Len(Sorted(slots)) = Len(slots)
         /\ ToSet(Sorted(slots)) = ToSet(slots) /\ IsInjective(Sorted(slots))
         /\ \A i, j \in DOMAIN Sorted(slots) : i < j => Earlier(Sorted(slots)[i], Sorted(slots)[j])
<1> DEFINE S == ToSet(slots)
           n == Cardinality(S)
           R == {p \in S \X S : Earlier(p[1], p[2])}
<1>1. S \subseteq Stamps /\ slots \in Bijection(1 .. Len(slots), S)
  <2>1. slots \in [1 .. Len(slots) -> S] /\ \A t \in S : \E i \in 1 .. Len(slots) : slots[i] = t
    BY DEF ToSet
  <2> QED  BY <2>1, Fun_IsBij DEF ToSet, IsInjective
<1>2. IsFiniteSet(S) /\ n = Len(slots) /\ n \in Nat
  <2>1. IsFiniteSet(1 .. Len(slots)) /\ Cardinality(1 .. Len(slots)) = Len(slots)
    BY CountTo
  <2>2. ExistsBijection(1 .. Len(slots), S)
    BY <1>1 DEF ExistsBijection
  <2> QED  BY <2>1, <2>2, FS_Bijection
<1>3. \A x, y \in S : <<x, y>> \in R <=> Earlier(x, y)
  OBVIOUS
<1>4. /\ \A x \in S : ~Earlier(x, x)
      /\ \A x, y, z \in S : Earlier(x, y) /\ Earlier(y, z) => Earlier(x, z)
      /\ \A x, y \in S : x # y => Earlier(x, y) \/ Earlier(y, x)
  BY <1>1 DEF Earlier, Stamps
<1> DEFINE OK(s) == \A i, j \in DOMAIN s : i < j => Earlier(s[i], s[j])
<1>5. \E s \in [1 .. n -> S] : OK(s)
  <2> HIDE DEF S, n, R
  <2>1. PICK s \in [1 .. n -> S] : \A i, j \in 1 .. n : i < j => <<s[i], s[j]>> \in R
    BY <1>2, <1>3, <1>4, SortedListExists DEF n
  <2> QED  BY <1>3, <2>1
<1>6. Sorted(slots) \in [1 .. n -> S] /\ OK(Sorted(slots))
  BY <1>5 DEF Sorted
<1> DEFINE t == Sorted(slots)
<1> HIDE DEF t
<1>7. t \in [1 .. n -> S] /\ OK(t)
  BY <1>6 DEF t
<1>8. t \in Seq(S) /\ Len(t) = n
  BY <1>2, <1>7
<1>9. \A i, j \in 1 .. n : t[i] = t[j] => i = j
  <2> SUFFICES ASSUME NEW i \in 1 .. n, NEW j \in 1 .. n, t[i] = t[j], i < j
               PROVE  FALSE
    BY <1>2
  <2> QED  BY <1>4, <1>7
<1>10. t \in Injection(1 .. n, S)
  BY <1>7, <1>9, Fun_IsInj
<1>11. t \in Surjection(1 .. n, S)
  <2>1. IsFiniteSet(1 .. n) /\ Cardinality(1 .. n) = n
    BY <1>2, CountTo
  <2> QED  BY <1>2, <1>10, <2>1, FS_Injection
<1>12. ToSet(t) = S
  <2>1. \A x \in S : \E i \in 1 .. n : t[i] = x
    BY <1>11 DEF Surjection
  <2> HIDE DEF S
  <2> QED  BY <1>7, <2>1 DEF ToSet
<1>13. IsInjective(t)
  BY <1>7, <1>9 DEF IsInjective
<1> QED  BY <1>2, <1>7, <1>8, <1>12, <1>13 DEF t

-----------------------------------------------------------------------------
(* The invariant of the Kotlin path *)

\* What has not been asked for has no image, no result and no timer.
Asked ==
  /\ \A f \in Frames : image[f] # "none" \/ result[f] # "none" => f[1] <= begun
  /\ \A b \in Bursts : timer[b] # "unset" \/ dumper[b].finished => b <= begun

\* The burst in progress is the last one, the only one that has not ended.
OnlyCurrent ==
  /\ current # NoBurst => current = begun /\ ~dumper[current].finished
  /\ \A b \in Bursts : b <= begun /\ ~dumper[b].finished => b = current

EndedOnce ==
  \A b \in Bursts : IF dumper[b].finished THEN ended[b] \in {<<"complete">>, <<"timeout">>}
                                          ELSE ended[b] = <<>>

\* A frame is in one slot of one burst at most, and only once it has come.
InOneSlot ==
  /\ \A b \in Bursts : IsInjective(dumper[b].slots)
  /\ \A a, b \in Bursts : \A f \in ToSet(dumper[a].slots) \cap ToSet(dumper[b].slots) : a = b
  /\ \A b \in Bursts : \A f \in ToSet(dumper[b].slots) : image[f] = "delivered"

\* A dumper counts the results and failures of its own burst.
With(res, b, how) == {f \in Frames : f[1] = b /\ res[f] = how}
CountsOwn ==
  \A b \in Bursts : /\ dumper[b].results = With(result, b, "completed")
                    /\ dumper[b].failed = Cardinality(With(result, b, "failed"))

\* A burst that ended complete still is: its counts only grow.
StaysComplete == \A b \in Bursts : ended[b] = <<"complete">> => Complete(dumper[b])

\* One that has not ended is not complete, and has every frame of its own that
\* has come, as long as there is a slot for it.
NotYetComplete == \A b \in Bursts : ~dumper[b].finished => ~Complete(dumper[b])
EndedOrFull(b) == dumper[b].finished \/ Len(dumper[b].slots) = N
HasWhatCame ==
  \A f \in Frames :
    image[f] = "delivered" => f \in ToSet(dumper[f[1]].slots) \/ EndedOrFull(f[1])

IInv ==
  /\ TypeOK /\ Asked /\ OnlyCurrent /\ EndedOnce /\ InOneSlot
  /\ SlotsInCaptureOrder /\ CountsOwn /\ StaysComplete
  /\ NotYetComplete /\ HasWhatCame

-----------------------------------------------------------------------------
(* Lists and counts *)

\* Appending a new element to a list without duplicates.
LEMMA AppendIt ==
  ASSUME NEW S, NEW s \in Seq(S), NEW x \in S
  PROVE  /\ Append(s, x) \in Seq(S) /\ Len(Append(s, x)) = Len(s) + 1
         /\ ToSet(Append(s, x)) = ToSet(s) \cup {x}
         /\ IsInjective(s) /\ x \notin ToSet(s) => IsInjective(Append(s, x))
<1> DEFINE t == Append(s, x)
<1>1. /\ t \in Seq(S) /\ Len(t) = Len(s) + 1 /\ Len(s) \in Nat
      /\ t[Len(s) + 1] = x /\ \A i \in 1 .. Len(s) : t[i] = s[i]
  OBVIOUS
<1>2. DOMAIN t = 1 .. Len(s) + 1 /\ DOMAIN s = 1 .. Len(s)
  BY <1>1
<1>3. DOMAIN t = (DOMAIN s) \cup {Len(s) + 1} /\ Len(s) + 1 \notin DOMAIN s
  BY <1>1, <1>2
<1> HIDE DEF t
<1>4. ToSet(t) = ToSet(s) \cup {x}
  BY <1>1, <1>2, <1>3 DEF ToSet
<1>5. IsInjective(s) /\ x \notin ToSet(s) => IsInjective(t)
  BY <1>1, <1>2, <1>3 DEF ToSet, IsInjective
<1> QED  BY <1>1, <1>4, <1>5 DEF t

OfBurst(b) == {f \in Frames : f[1] = b}

\* A burst has N frames.
LEMMA FramesOfBurst ==
  ASSUME NEW b \in Bursts
  PROVE  IsFiniteSet(OfBurst(b)) /\ Cardinality(OfBurst(b)) = N
<1> DEFINE g == [i \in 1 .. N |-> <<b, i>>]
<1>1. N \in Nat
  BY CaptureAssumption
<1>2. g \in Bijection(1 .. N, OfBurst(b))
  <2>1. g \in [1 .. N -> OfBurst(b)]
    BY DEF OfBurst, Frames
  <2>2. \A i, j \in 1 .. N : g[i] = g[j] => i = j
    OBVIOUS
  <2>3. \A f \in OfBurst(b) : \E i \in 1 .. N : g[i] = f
    BY DEF OfBurst, Frames
  <2> HIDE DEF g
  <2> QED  BY <2>1, <2>2, <2>3, Fun_IsBij
<1>3. ExistsBijection(1 .. N, OfBurst(b))
  BY <1>2 DEF ExistsBijection
<1> QED  BY <1>1, <1>3, CountTo, FS_Bijection

\* Of a burst there are at most N frames.
LEMMA CountOfBurst ==
  ASSUME NEW b \in Bursts, NEW T \in SUBSET OfBurst(b)
  PROVE  IsFiniteSet(T) /\ Cardinality(T) \in 0 .. N
<1>1. IsFiniteSet(T) /\ Cardinality(T) <= N
  BY FramesOfBurst, FS_Subset
<1> QED  BY <1>1, FS_CardinalityType, CaptureAssumption

-----------------------------------------------------------------------------
(* What a handler does to a dumper *)

\* The dumper of b becomes d, and is not complete unless it was; if that ends the
\* burst, it is completed or its time is over.
Updates(b, d) ==
  \/ /\ d.finished \/ ~Complete(d)
     /\ dumper' = [dumper EXCEPT ![b] = d]
     /\ UNCHANGED <<current, ended>>
  \/ /\ ~d.finished
     /\ \/ Complete(d) /\ Finish(b, d, "complete")
        \/ Finish(b, d, "timeout")

\* maybeFinish replaces the dumper of its burst, and no other.
LEMMA MaybeFinishUpdates ==
  ASSUME NEW b, NEW d, MaybeFinish(b, d)
  PROVE  Updates(b, d)
BY DEF MaybeFinish, Updates

\* The frames of a list of slots are the same after sorting.
LEMMA UpdatedDumper ==
  ASSUME TypeOK, NEW b \in Bursts, NEW d \in Dumpers, Len(d.slots) <= N, IsInjective(d.slots),
         Updates(b, d)
  PROVE  /\ dumper' \in [Bursts -> Dumpers]
         /\ \A a \in Bursts \ {b} : dumper'[a] = dumper[a] /\ ended'[a] = ended[a]
         /\ dumper'[b].failed = d.failed /\ dumper'[b].results = d.results
         /\ ToSet(dumper'[b].slots) = ToSet(d.slots) /\ Len(dumper'[b].slots) = Len(d.slots)
         /\ IsInjective(dumper'[b].slots)
         /\ \/ /\ d.finished \/ ~Complete(d)
               /\ dumper'[b] = d
               /\ UNCHANGED <<current, ended>>
            \/ /\ ~d.finished /\ dumper'[b].finished
               /\ current' = NoBurst
               /\ \/ Complete(d) /\ ended' = [ended EXCEPT ![b] = Append(@, "complete")]
                  \/ ended' = [ended EXCEPT ![b] = Append(@, "timeout")]
               /\ \A i, j \in DOMAIN dumper'[b].slots :
                    i < j => Earlier(dumper'[b].slots[i], dumper'[b].slots[j])
<1>1. /\ dumper \in [Bursts -> Dumpers] /\ ended \in [Bursts -> Seq({"complete", "timeout"})]
      /\ d.slots \in Seq(Frames)
  BY DEF TypeOK, Dumpers
<1>2. CASE /\ d.finished \/ ~Complete(d)
           /\ dumper' = [dumper EXCEPT ![b] = d] /\ UNCHANGED <<current, ended>>
  BY <1>1, <1>2
<1>3. ASSUME NEW how, ~d.finished, Finish(b, d, how)
      PROVE  /\ dumper' \in [Bursts -> Dumpers]
             /\ \A a \in Bursts \ {b} : dumper'[a] = dumper[a] /\ ended'[a] = ended[a]
             /\ dumper'[b].failed = d.failed /\ dumper'[b].results = d.results
             /\ ToSet(dumper'[b].slots) = ToSet(d.slots) /\ Len(dumper'[b].slots) = Len(d.slots)
             /\ IsInjective(dumper'[b].slots)
             /\ dumper'[b].finished /\ current' = NoBurst
             /\ ended' = [ended EXCEPT ![b] = Append(@, how)]
             /\ \A i, j \in DOMAIN dumper'[b].slots :
                  i < j => Earlier(dumper'[b].slots[i], dumper'[b].slots[j])
  <2> DEFINE s == Sorted(d.slots)
             e == [d EXCEPT !.finished = TRUE, !.slots = s]
  <2>1. d.slots \in Seq(Stamps)
    <3>1. Frames \subseteq Stamps
      BY CaptureAssumption DEF Frames, Bursts, Stamps
    <3> QED  BY <1>1, <3>1
  <2>2. /\ s \in Seq(ToSet(d.slots)) /\ Len(s) = Len(d.slots) /\ ToSet(s) = ToSet(d.slots)
        /\ IsInjective(s) /\ \A i, j \in DOMAIN s : i < j => Earlier(s[i], s[j])
    BY <2>1, SortedIsInOrder
  <2>3. ToSet(d.slots) \subseteq Frames
    BY <1>1 DEF ToSet
  <2> HIDE DEF s
  <2>4. s \in Seq(Frames)
    BY <2>2, <2>3
  <2>5. /\ e \in Dumpers /\ e.slots = s /\ e.finished = TRUE /\ e.failed = d.failed
        /\ e.results = d.results
    BY <2>4 DEF Dumpers
  <2>6. /\ dumper' = [dumper EXCEPT ![b] = e] /\ current' = NoBurst
        /\ ended' = [ended EXCEPT ![b] = Append(@, how)]
    BY <1>3 DEF Finish, s
  <2> HIDE DEF e
  <2>7. dumper'[b] = e /\ dumper' \in [Bursts -> Dumpers]
    BY <1>1, <2>5, <2>6
  <2>8. \A a \in Bursts \ {b} : dumper'[a] = dumper[a] /\ ended'[a] = ended[a]
    BY <1>1, <2>6
  <2> QED  BY <2>2, <2>5, <2>6, <2>7, <2>8
<1> QED  BY <1>2, <1>3 DEF Updates

\* The rest of the invariant is kept if the dumper of a burst that was begun
\* counts on, and takes no frame once it has ended.
LEMMA UpdateKeeps ==
  ASSUME IInv, NEW b \in Bursts, b <= begun, NEW d \in Dumpers, Updates(b, d),
         Len(d.slots) <= N, IsInjective(d.slots),
         d.finished = dumper[b].finished, d.finished => d.slots = dumper[b].slots,
         d.failed >= dumper[b].failed, dumper[b].results \subseteq d.results,
         IsFiniteSet(d.results), UNCHANGED begun
  PROVE  /\ current' \in Bursts \cup {NoBurst} /\ dumper' \in [Bursts -> Dumpers]
         /\ \A a \in Bursts : Len(dumper'[a].slots) <= N /\ IsInjective(dumper'[a].slots)
         /\ \A a \in Bursts : dumper'[a].finished => a <= begun
         /\ ended' \in [Bursts -> Seq({"complete", "timeout"})]
         /\ OnlyCurrent' /\ EndedOnce' /\ StaysComplete' /\ NotYetComplete'
         /\ \A a \in Bursts :
              dumper'[a].finished =>
                \A i, j \in DOMAIN dumper'[a].slots :
                  i < j => Earlier(dumper'[a].slots[i], dumper'[a].slots[j])
<1>1. /\ dumper \in [Bursts -> Dumpers] /\ ended \in [Bursts -> Seq({"complete", "timeout"})]
      /\ current \in Bursts \cup {NoBurst} /\ begun \in 0 .. MaxBursts
      /\ \A a \in Bursts : a \in Nat /\ a # NoBurst /\ ended[a] \in Seq({"complete", "timeout"})
      /\ \A a \in Bursts : Len(dumper[a].slots) <= N
  <2>1. \A a \in Bursts : a \in Nat /\ a # NoBurst
    BY CaptureAssumption DEF Bursts, NoBurst
  <2> QED  BY <2>1 DEF IInv, TypeOK
<1>2. /\ \A a \in Bursts \ {b} : dumper'[a] = dumper[a] /\ ended'[a] = ended[a]
      /\ dumper' \in [Bursts -> Dumpers]
      /\ dumper'[b].failed = d.failed /\ dumper'[b].results = d.results
      /\ Len(dumper'[b].slots) = Len(d.slots) /\ IsInjective(dumper'[b].slots)
  BY UpdatedDumper DEF IInv
<1> DEFINE Kept == (d.finished \/ ~Complete(d)) /\ dumper'[b] = d /\ UNCHANGED <<current, ended>>
           Done == /\ ~d.finished /\ dumper'[b].finished /\ current' = NoBurst
                   /\ \/ Complete(d) /\ ended' = [ended EXCEPT ![b] = Append(@, "complete")]
                      \/ ended' = [ended EXCEPT ![b] = Append(@, "timeout")]
                   /\ \A i, j \in DOMAIN dumper'[b].slots :
                        i < j => Earlier(dumper'[b].slots[i], dumper'[b].slots[j])
<1>3. Kept \/ Done
  BY UpdatedDumper DEF IInv
<1>4. <<"complete">> # <<>> /\ <<"timeout">> # <<>> /\ <<"complete">> # <<"timeout">>
  OBVIOUS
\* A burst that ends here is the current one, and had not ended before.
<1>5. ASSUME Done
      PROVE  /\ b = current /\ ended[b] = <<>> /\ ~dumper[b].finished
             /\ \/ ended'[b] = <<"complete">> /\ Complete(d)
                \/ ended'[b] = <<"timeout">>
             /\ ended' \in [Bursts -> Seq({"complete", "timeout"})]
  <2>1. ~dumper[b].finished /\ b = current /\ ended[b] = <<>>
    BY <1>5 DEF IInv, OnlyCurrent, EndedOnce
  <2>2. ASSUME NEW how \in {"complete", "timeout"}, ended' = [ended EXCEPT ![b] = Append(@, how)]
        PROVE  ended'[b] = <<how>> /\ ended' \in [Bursts -> Seq({"complete", "timeout"})]
    <3>1. Append(ended[b], how) = <<how>> /\ <<how>> \in Seq({"complete", "timeout"})
      BY <2>1
    <3>2. ended' = [ended EXCEPT ![b] = <<how>>]
      BY <2>2, <3>1
    <3> QED  BY <1>1, <3>1, <3>2
  <2> QED  BY <1>5, <2>1, <2>2
<1>6. /\ current' \in Bursts \cup {NoBurst} /\ ended' \in [Bursts -> Seq({"complete", "timeout"})]
      /\ \A a \in Bursts : Len(dumper'[a].slots) <= N /\ IsInjective(dumper'[a].slots)
      /\ \A a \in Bursts : dumper'[a].finished => a <= begun
  <2>1. current' \in Bursts \cup {NoBurst} /\ ended' \in [Bursts -> Seq({"complete", "timeout"})]
    BY <1>1, <1>3, <1>5
  <2> QED  BY <1>1, <1>2, <2>1 DEF IInv, InOneSlot, Asked
<1>7. OnlyCurrent'
  <2> HIDE DEF NoBurst
  <2>1. CASE Kept
    BY <1>1, <1>2, <2>1 DEF IInv, OnlyCurrent
  <2>2. CASE Done
    BY <1>1, <1>2, <1>5, <2>2 DEF IInv, OnlyCurrent
  <2> QED  BY <1>3, <2>1, <2>2
<1>8. EndedOnce'
  <2> SUFFICES ASSUME NEW a \in Bursts
               PROVE  IF dumper'[a].finished THEN ended'[a] \in {<<"complete">>, <<"timeout">>}
                                             ELSE ended'[a] = <<>>
    BY DEF EndedOnce
  <2>1. CASE a # b
    BY <1>2, <2>1 DEF IInv, EndedOnce
  <2>2. CASE a = b /\ Kept
    BY <2>2 DEF IInv, EndedOnce
  <2>3. CASE a = b /\ Done
    BY <1>5, <2>3
  <2> QED  BY <1>3, <2>1, <2>2, <2>3
<1>9. StaysComplete'
  <2> SUFFICES ASSUME NEW a \in Bursts, ended'[a] = <<"complete">>
               PROVE  Complete(dumper'[a])
    BY DEF StaysComplete, Complete
  <2>1. CASE a # b
    BY <1>2, <2>1 DEF IInv, StaysComplete
  <2>2. CASE a = b /\ Kept
    <3>1. Complete(dumper[b]) /\ d.slots = dumper[b].slots
      <4>1. ended[b] = <<"complete">>
        BY <2>2
      <4> QED  BY <1>4, <4>1 DEF IInv, StaysComplete, EndedOnce
    <3>2. Cardinality(dumper[b].results) <= Cardinality(d.results)
      BY FS_Subset
    <3>3. /\ Cardinality(dumper[b].results) \in Nat /\ Cardinality(d.results) \in Nat
          /\ d.failed \in Nat /\ dumper[b].failed \in Nat /\ Len(d.slots) \in Nat
      <4>1. IsFiniteSet(dumper[b].results)
        BY FS_Subset
      <4>2. d.failed \in Nat /\ dumper[b].failed \in Nat /\ Len(d.slots) \in Nat
        BY <1>1, CaptureAssumption DEF Dumpers
      <4> QED  BY <4>1, <4>2, FS_CardinalityType
    <3> QED  BY <2>2, <3>1, <3>2, <3>3, CaptureAssumption DEF Complete
  <2>3. CASE a = b /\ Done
    <3>1. Complete(d)
      BY <1>4, <1>5, <2>3
    <3> QED  BY <1>2, <2>3, <3>1 DEF Complete
  <2> QED  BY <1>3, <2>1, <2>2, <2>3
<1>10. \A a \in Bursts :
         dumper'[a].finished =>
           \A i, j \in DOMAIN dumper'[a].slots :
             i < j => Earlier(dumper'[a].slots[i], dumper'[a].slots[j])
  <2> SUFFICES ASSUME NEW a \in Bursts, dumper'[a].finished
               PROVE  \A i, j \in DOMAIN dumper'[a].slots :
                        i < j => Earlier(dumper'[a].slots[i], dumper'[a].slots[j])
    OBVIOUS
  <2>1. CASE a # b
    BY <1>2, <2>1 DEF IInv, SlotsInCaptureOrder
  <2>2. CASE a = b /\ Kept
    BY <2>2 DEF IInv, SlotsInCaptureOrder
  <2> QED  BY <1>3, <2>1, <2>2
<1>11. NotYetComplete'
  <2> SUFFICES ASSUME NEW a \in Bursts, ~dumper'[a].finished
               PROVE  ~Complete(dumper'[a])
    BY DEF NotYetComplete, Complete
  <2>1. CASE a # b
    BY <1>2, <2>1 DEF IInv, NotYetComplete
  <2>2. CASE a = b
    BY <1>3, <2>2
  <2> QED  BY <2>1, <2>2
<1> QED  BY <1>2, <1>6, <1>7, <1>8, <1>9, <1>10, <1>11

\* The images F come, and if there are any they come to the current burst b.
Take(b, F) ==
  /\ F # {} => b = current
  /\ \A f \in F : image[f] = "pending" /\ image'[f] = "delivered"
  /\ \A f \in Frames \ F : image'[f] = image[f]

\* The frames in the slots: those that are there stay where they are, and one that
\* comes goes to the current burst, its own or one that has ended without it.
LEMMA SlotsKeep ==
  ASSUME IInv, NEW b \in Bursts, NEW F \in SUBSET Frames,
         \A a \in Bursts \ {b} : dumper'[a] = dumper[a],
         ToSet(dumper'[b].slots) = ToSet(dumper[b].slots) \cup F,
         dumper[b].finished => dumper'[b].finished, Take(b, F)
  PROVE  /\ \A a, c \in Bursts : \A f \in ToSet(dumper'[a].slots) \cap ToSet(dumper'[c].slots) : a = c
         /\ \A a \in Bursts : \A f \in ToSet(dumper'[a].slots) : image'[f] = "delivered"
         /\ \A a \in Bursts : \A f \in ToSet(dumper'[a].slots) : f[1] # a =>
              f[1] < a /\ dumper'[f[1]].finished /\ f \notin ToSet(dumper'[f[1]].slots)
<1>1. \A a \in Bursts : ToSet(dumper[a].slots) \subseteq Frames
  BY DEF IInv, TypeOK, Dumpers, ToSet
<1>2. \A f \in F : \A a \in Bursts : f \notin ToSet(dumper[a].slots)
  BY DEF IInv, InOneSlot, Take
<1>3. \A a \in Bursts : ToSet(dumper'[a].slots) = ToSet(dumper[a].slots) \cup (IF a = b THEN F ELSE {})
  OBVIOUS
<1>4. \A a, c \in Bursts : \A f \in ToSet(dumper'[a].slots) \cap ToSet(dumper'[c].slots) : a = c
  BY <1>2, <1>3 DEF IInv, InOneSlot
<1>5. \A a \in Bursts : \A f \in ToSet(dumper'[a].slots) : image'[f] = "delivered"
  BY <1>1, <1>3 DEF IInv, InOneSlot, Take
<1>6. ASSUME NEW a \in Bursts, NEW f \in ToSet(dumper'[a].slots), f[1] # a
      PROVE  f[1] < a /\ dumper'[f[1]].finished
  <2>1. f \in Frames /\ f[1] \in Bursts /\ a \in Nat /\ f[1] \in Nat
    BY <1>1, <1>3 DEF Frames, Bursts
  <2>2. CASE f \in ToSet(dumper[a].slots)
    BY <1>6, <2>1, <2>2 DEF IInv, SlotsInCaptureOrder, Foreign
  <2>3. CASE f \in F
    <3>1. a = b /\ b = current
      BY <1>2, <1>3, <2>3 DEF Take
    <3>2. f[1] <= begun /\ current = begun /\ current # NoBurst
      BY <2>1, <2>3, <3>1, CaptureAssumption DEF IInv, Asked, OnlyCurrent, NoBurst, Bursts, Take
    <3>3. begun \in Nat
      BY DEF IInv, TypeOK
    <3> QED  BY <1>6, <2>1, <3>1, <3>2, <3>3 DEF IInv, OnlyCurrent
  <2> QED  BY <1>3, <2>2, <2>3
<1>7. \A a \in Bursts : \A f \in ToSet(dumper'[a].slots) :
        f[1] # a => f \notin ToSet(dumper'[f[1]].slots)
  <2>1. \A f \in Frames : f[1] \in Bursts
    BY DEF Frames
  <2> QED  BY <1>1, <1>3, <1>4, <2>1
<1> QED  BY <1>4, <1>5, <1>6, <1>7

-----------------------------------------------------------------------------
(* The steps *)

\* A handler that updates the dumper of b: the images F come into its slots.
LEMMA UpdateStep ==
  ASSUME IInv, NEW b \in Bursts, b <= begun, NEW d \in Dumpers, Updates(b, d),
         Len(dumper[b].slots) <= Len(d.slots), Len(d.slots) <= N, IsInjective(d.slots),
         d.finished = dumper[b].finished, d.finished => d.slots = dumper[b].slots,
         d.failed >= dumper[b].failed, dumper[b].results \subseteq d.results,
         NEW F \in SUBSET Frames, ToSet(d.slots) = ToSet(dumper[b].slots) \cup F, Take(b, F),
         UNCHANGED <<device, begun>>,
         timer' \in [Bursts -> {"unset", "armed", "fired"}],
         image' \in [Frames -> {"none", "pending", "delivered", "lost"}],
         result' \in [Frames -> {"none", "pending", "completed", "failed", "lost"}],
         \A f \in Frames : result[f] = "none" => result'[f] = "none",
         \A a \in Bursts : timer[a] = "unset" => timer'[a] = "unset",
         \A a \in Bursts \ {b} : \A f \in OfBurst(a) : result'[f] = result[f],
         d.results = With(result', b, "completed"),
         d.failed = Cardinality(With(result', b, "failed"))
  PROVE  IInv'
<1>1. /\ \A a \in Bursts \ {b} : dumper'[a] = dumper[a] /\ ended'[a] = ended[a]
      /\ dumper'[b].failed = d.failed /\ dumper'[b].results = d.results
      /\ ToSet(dumper'[b].slots) = ToSet(dumper[b].slots) \cup F
      /\ Len(dumper'[b].slots) = Len(d.slots)
      /\ d.finished => dumper'[b].finished
  BY UpdatedDumper DEF IInv
<1>2. IsFiniteSet(d.results)
  BY CountOfBurst DEF With, OfBurst
<1>3. /\ current' \in Bursts \cup {NoBurst} /\ dumper' \in [Bursts -> Dumpers]
      /\ \A a \in Bursts : Len(dumper'[a].slots) <= N /\ IsInjective(dumper'[a].slots)
      /\ \A a \in Bursts : dumper'[a].finished => a <= begun
      /\ ended' \in [Bursts -> Seq({"complete", "timeout"})]
      /\ OnlyCurrent' /\ EndedOnce' /\ StaysComplete' /\ NotYetComplete'
      /\ \A a \in Bursts :
           dumper'[a].finished =>
             \A i, j \in DOMAIN dumper'[a].slots :
               i < j => Earlier(dumper'[a].slots[i], dumper'[a].slots[j])
  BY <1>2, UpdateKeeps
<1>4. /\ \A a, c \in Bursts : \A f \in ToSet(dumper'[a].slots) \cap ToSet(dumper'[c].slots) : a = c
      /\ \A a \in Bursts : \A f \in ToSet(dumper'[a].slots) : image'[f] = "delivered"
      /\ \A a \in Bursts : \A f \in ToSet(dumper'[a].slots) : f[1] # a =>
           f[1] < a /\ dumper'[f[1]].finished /\ f \notin ToSet(dumper'[f[1]].slots)
  <2>1. dumper[b].finished => dumper'[b].finished
    BY <1>1
  <2> QED  BY <1>1, <2>1, SlotsKeep
<1>5. TypeOK'
  BY <1>3 DEF IInv, TypeOK
<1>6. Asked'
  <2>1. \A f \in Frames : image'[f] # "none" => image[f] # "none"
    BY DEF Take
  <2> QED  BY <1>3, <2>1 DEF IInv, Asked
<1>7. InOneSlot'
  BY <1>3, <1>4 DEF InOneSlot
<1>8. SlotsInCaptureOrder'
  BY <1>3, <1>4 DEF SlotsInCaptureOrder, Foreign
<1>9. CountsOwn'
  <2> SUFFICES ASSUME NEW a \in Bursts
               PROVE  /\ dumper'[a].results = With(result', a, "completed")
                      /\ dumper'[a].failed = Cardinality(With(result', a, "failed"))
    BY DEF CountsOwn
  <2>1. CASE a = b
    BY <1>1, <2>1
  <2>2. CASE a # b
    <3>1. \A how : With(result', a, how) = With(result, a, how)
      BY <2>2 DEF With, OfBurst
    <3> QED  BY <1>1, <2>2, <3>1 DEF IInv, CountsOwn
  <2> QED  BY <2>1, <2>2
<1>10. HasWhatCame'
  <2> SUFFICES ASSUME NEW f \in Frames, image'[f] = "delivered"
               PROVE  f \in ToSet(dumper'[f[1]].slots) \/ EndedOrFull(f[1])'
    BY DEF HasWhatCame, EndedOrFull
  <2>1. /\ f[1] \in Bursts /\ f[1] \in Nat
        /\ \A a \in Bursts : Len(dumper[a].slots) \in Nat /\ Len(dumper[a].slots) <= N
        /\ Len(d.slots) \in Nat
    BY DEF Frames, Bursts, IInv, TypeOK, Dumpers
  <2>2. \A a \in Bursts : EndedOrFull(a) => EndedOrFull(a)'
    <3>1. dumper[b].finished => dumper'[b].finished
      BY <1>1
    <3>2. Len(dumper[b].slots) = N => Len(dumper'[b].slots) = N
      BY <1>1, <2>1, CaptureAssumption
    <3> QED  BY <1>1, <3>1, <3>2 DEF EndedOrFull
  <2>3. CASE f \notin F
    <3>1. f \in ToSet(dumper[f[1]].slots) \/ EndedOrFull(f[1])
      BY <2>3 DEF Take, IInv, HasWhatCame
    <3> QED  BY <1>1, <2>1, <2>2, <3>1
  <2>4. CASE f \in F
    <3>1. f[1] <= begun /\ b = current
      BY <2>1, <2>4 DEF Take, IInv, Asked
    <3>2. dumper[f[1]].finished \/ f[1] = b
      BY <2>1, <3>1 DEF IInv, OnlyCurrent
    <3> QED  BY <1>1, <2>1, <2>2, <2>4, <3>2 DEF EndedOrFull
  <2> QED  BY <2>3, <2>4
<1> QED  BY <1>3, <1>5, <1>6, <1>7, <1>8, <1>9, <1>10 DEF IInv

\* A step that touches no dumper, and neither brings a frame into being nor
\* counts as a result.
LEMMA StillStep ==
  ASSUME IInv, UNCHANGED <<begun, app>>, device' \in BOOLEAN,
         timer' \in [Bursts -> {"unset", "armed", "fired"}],
         image' \in [Frames -> {"none", "pending", "delivered", "lost"}],
         result' \in [Frames -> {"none", "pending", "completed", "failed", "lost"}],
         \A a \in Bursts : timer[a] = "unset" => timer'[a] = "unset",
         \A f \in Frames : image[f] = "none" => image'[f] = "none",
         \A f \in Frames : image[f] = "delivered" => image'[f] = "delivered",
         \A f \in Frames : image'[f] = "delivered" => image[f] = "delivered" \/ EndedOrFull(f[1]),
         \A f \in Frames : result[f] = "none" => result'[f] = "none",
         \A f \in Frames : result'[f] = "completed" <=> result[f] = "completed",
         \A f \in Frames : result'[f] = "failed" <=> result[f] = "failed"
  PROVE  IInv'
<1>1. begun' = begun /\ current' = current /\ dumper' = dumper /\ ended' = ended
  BY DEF app
<1>2. TypeOK'
  BY <1>1 DEF IInv, TypeOK
<1>3. Asked' /\ OnlyCurrent' /\ EndedOnce'
  BY <1>1 DEF IInv, Asked, OnlyCurrent, EndedOnce
<1>4. InOneSlot'
  <2>1. \A a \in Bursts : ToSet(dumper[a].slots) \subseteq Frames
    BY DEF IInv, TypeOK, Dumpers, ToSet
  <2> QED  BY <1>1, <2>1 DEF IInv, InOneSlot
<1>5. SlotsInCaptureOrder' /\ StaysComplete'
  BY <1>1 DEF IInv, SlotsInCaptureOrder, Foreign, StaysComplete, Complete
<1>6. CountsOwn'
  <2>1. \A a : With(result', a, "completed") = With(result, a, "completed")
    BY DEF With
  <2>2. \A a : With(result', a, "failed") = With(result, a, "failed")
    BY DEF With
  <2> QED  BY <1>1, <2>1, <2>2 DEF IInv, CountsOwn
<1>7. NotYetComplete' /\ HasWhatCame'
  BY <1>1 DEF IInv, NotYetComplete, HasWhatCame, EndedOrFull, Complete
<1> QED  BY <1>2, <1>3, <1>4, <1>5, <1>6, <1>7 DEF IInv

\* An image arrives and is taken in by the burst in progress, if there is one.
LEMMA OnImageKeeps ==
  ASSUME IInv, NEW f \in Frames, OnImage(f)
  PROVE  IInv'
<1>1. /\ image[f] = "pending" /\ image' = [image EXCEPT ![f] = "delivered"]
      /\ UNCHANGED <<device, begun, timer, result>>
      /\ device \in BOOLEAN
      /\ timer \in [Bursts -> {"unset", "armed", "fired"}]
      /\ image \in [Frames -> {"none", "pending", "delivered", "lost"}]
      /\ result \in [Frames -> {"none", "pending", "completed", "failed", "lost"}]
  BY DEF OnImage, IInv, TypeOK
<1>2. image' \in [Frames -> {"none", "pending", "delivered", "lost"}]
      /\ image'[f] = "delivered" /\ \A g \in Frames \ {f} : image'[g] = image[g]
  BY <1>1
<1>3. CASE current # NoBurst /\ AcceptsImage(dumper[current])
  <2>0. PICK b \in Bursts : b = current
    BY <1>3 DEF IInv, TypeOK
  <2> DEFINE d == [dumper[b] EXCEPT !.slots = Append(@, f)]
  <2>1. b <= begun /\ dumper[b] \in Dumpers /\ Len(dumper[b].slots) < N
        /\ ~dumper[b].finished /\ begun \in Nat
    BY <1>3, <2>0 DEF IInv, TypeOK, OnlyCurrent, AcceptsImage
  <2>2. dumper[b].slots \in Seq(Frames) /\ IsInjective(dumper[b].slots) /\ f \notin ToSet(dumper[b].slots)
    BY <1>1, <2>1 DEF Dumpers, IInv, InOneSlot
  <2>3. Updates(b, d)
    BY <1>3, <2>0, MaybeFinishUpdates DEF OnImage
  <2>4. /\ d \in Dumpers /\ d.slots = Append(dumper[b].slots, f) /\ d.finished = dumper[b].finished
        /\ d.failed = dumper[b].failed /\ d.results = dumper[b].results
    BY <2>1, <2>2, AppendIt DEF Dumpers
  <2>5. /\ Len(dumper[b].slots) <= Len(d.slots) /\ Len(d.slots) <= N /\ IsInjective(d.slots)
        /\ ToSet(d.slots) = ToSet(dumper[b].slots) \cup {f}
    <3>1. Len(d.slots) = Len(dumper[b].slots) + 1
      BY <2>2, <2>4, AppendIt
    <3>2. Len(dumper[b].slots) <= Len(d.slots) /\ Len(d.slots) <= N
      BY <2>1, <2>2, <3>1, CaptureAssumption
    <3> QED  BY <2>2, <2>4, <3>2, AppendIt
  <2>6. /\ d.results = With(result', b, "completed") /\ d.failed = Cardinality(With(result', b, "failed"))
        /\ d.failed >= dumper[b].failed
    <3>1. \A how : With(result', b, how) = With(result, b, how)
      BY <1>1 DEF With
    <3>2. d.failed \in Nat
      BY <2>1, <2>4, CaptureAssumption DEF Dumpers
    <3> QED  BY <2>1, <2>4, <3>1, <3>2 DEF IInv, CountsOwn
  <2> HIDE DEF d
  <2> DEFINE F == {f}
  <2>7. F \in SUBSET Frames /\ ToSet(d.slots) = ToSet(dumper[b].slots) \cup F /\ Take(b, F)
    BY <1>1, <1>2, <2>0, <2>5 DEF Take
  <2>8. /\ UNCHANGED <<device, begun>>
        /\ timer' \in [Bursts -> {"unset", "armed", "fired"}]
        /\ result' \in [Frames -> {"none", "pending", "completed", "failed", "lost"}]
        /\ \A g \in Frames : result[g] = "none" => result'[g] = "none"
        /\ \A a \in Bursts : timer[a] = "unset" => timer'[a] = "unset"
        /\ \A a \in Bursts \ {b} : \A g \in OfBurst(a) : result'[g] = result[g]
    BY <1>1
  <2>9. /\ Len(dumper[b].slots) <= Len(d.slots) /\ Len(d.slots) <= N /\ IsInjective(d.slots)
        /\ d.finished => d.slots = dumper[b].slots
        /\ dumper[b].results \subseteq d.results
    BY <2>1, <2>4, <2>5
  <2> HIDE DEF F
  <2> QED  BY <1>2, <2>1, <2>3, <2>4, <2>6, <2>7, <2>8, <2>9, UpdateStep
\* An image that is not taken in: its burst has ended, or is full.
<1>4. CASE ~(current # NoBurst /\ AcceptsImage(dumper[current]))
  <2>1. f[1] \in Bursts /\ f[1] <= begun /\ UNCHANGED app
    BY <1>1, <1>4 DEF Frames, IInv, Asked, OnImage
  <2>2. EndedOrFull(f[1])
    <3> SUFFICES ASSUME ~dumper[f[1]].finished
                 PROVE  Len(dumper[f[1]].slots) = N
      BY DEF EndedOrFull
    <3>1. f[1] = current /\ current # NoBurst
      BY <2>1 DEF IInv, OnlyCurrent, NoBurst, Bursts
    <3>2. ~(Len(dumper[f[1]].slots) < N)
      BY <1>4, <3>1 DEF AcceptsImage
    <3>3. Len(dumper[f[1]].slots) \in Nat /\ Len(dumper[f[1]].slots) <= N
      BY <2>1 DEF IInv, TypeOK, Dumpers
    <3> QED  BY <3>2, <3>3, CaptureAssumption
  <2> QED  BY <1>1, <1>2, <2>1, <2>2, StillStep
<1> QED  BY <1>3, <1>4

\* A frame the camera still owes something was asked for.
LEMMA ResultOfBurst ==
  ASSUME IInv, NEW f \in Frames, result[f] = "pending"
  PROVE  /\ f[1] \in Bursts /\ f[1] <= begun /\ dumper[f[1]] \in Dumpers
         /\ dumper[f[1]].slots \in Seq(Frames) /\ IsInjective(dumper[f[1]].slots)
         /\ Len(dumper[f[1]].slots) <= N
<1>1. f[1] \in Bursts
  BY DEF Frames
<1> QED  BY <1>1 DEF IInv, TypeOK, Asked, InOneSlot, Dumpers

\* A result arrives: it goes to the dumper of its own burst.
LEMMA OnResultKeeps ==
  ASSUME IInv, NEW f \in Frames, OnResult(f)
  PROVE  IInv'
<1> DEFINE b == f[1]
           d == [dumper[b] EXCEPT !.results = @ \cup {f}]
<1>1. /\ result[f] = "pending" /\ result' = [result EXCEPT ![f] = "completed"]
      /\ UNCHANGED <<device, begun, timer, image>>
      /\ timer \in [Bursts -> {"unset", "armed", "fired"}]
      /\ image \in [Frames -> {"none", "pending", "delivered", "lost"}]
      /\ result \in [Frames -> {"none", "pending", "completed", "failed", "lost"}]
  BY DEF OnResult, IInv, TypeOK
<1>2. /\ result' \in [Frames -> {"none", "pending", "completed", "failed", "lost"}]
      /\ result'[f] = "completed" /\ \A g \in Frames \ {f} : result'[g] = result[g]
  BY <1>1
<1>3. /\ b \in Bursts /\ b <= begun /\ dumper[b] \in Dumpers
      /\ IsInjective(dumper[b].slots) /\ Len(dumper[b].slots) <= N
  BY <1>1, ResultOfBurst
<1>4. Updates(b, d)
  BY MaybeFinishUpdates DEF OnResult
<1>5. /\ d \in Dumpers /\ d.slots = dumper[b].slots /\ d.finished = dumper[b].finished
      /\ d.failed = dumper[b].failed /\ d.results = dumper[b].results \cup {f}
  BY <1>3 DEF Dumpers
<1>6. /\ d.results = With(result', b, "completed") /\ d.failed = Cardinality(With(result', b, "failed"))
      /\ d.failed >= dumper[b].failed
  <2>1. With(result', b, "completed") = With(result, b, "completed") \cup {f}
    BY <1>1, <1>2 DEF With
  <2>2. With(result', b, "failed") = With(result, b, "failed")
    BY <1>1, <1>2 DEF With
  <2>3. d.failed \in Nat
    BY <1>3, <1>5, CaptureAssumption DEF Dumpers
  <2> HIDE DEF d, b
  <2> QED  BY <1>3, <1>5, <2>1, <2>2, <2>3 DEF IInv, CountsOwn
<1> DEFINE F == {g \in Frames : FALSE}
<1>7. F \in SUBSET Frames /\ ToSet(d.slots) = ToSet(dumper[b].slots) \cup F /\ Take(b, F)
  BY <1>1, <1>5 DEF Take
<1>8. /\ UNCHANGED <<device, begun>>
      /\ timer' \in [Bursts -> {"unset", "armed", "fired"}]
      /\ image' \in [Frames -> {"none", "pending", "delivered", "lost"}]
      /\ \A g \in Frames : result[g] = "none" => result'[g] = "none"
      /\ \A a \in Bursts : timer[a] = "unset" => timer'[a] = "unset"
  BY <1>1, <1>2
<1>9. \A a \in Bursts \ {b} : \A g \in OfBurst(a) : result'[g] = result[g]
  BY <1>2 DEF OfBurst
<1>10. /\ Len(dumper[b].slots) <= Len(d.slots) /\ Len(d.slots) <= N /\ IsInjective(d.slots)
       /\ d.finished => d.slots = dumper[b].slots
       /\ dumper[b].results \subseteq d.results
  BY <1>3, <1>5
<1> HIDE DEF F, d, b
<1> QED  BY <1>2, <1>3, <1>4, <1>5, <1>6, <1>7, <1>8, <1>9, <1>10, UpdateStep

\* A failure arrives: it goes to the dumper of its own burst.
LEMMA OnFailedKeeps ==
  ASSUME IInv, NEW f \in Frames, OnFailed(f)
  PROVE  IInv'
<1> DEFINE b == f[1]
           d == [dumper[b] EXCEPT !.failed = @ + 1]
<1>1. /\ result[f] = "pending" /\ result' = [result EXCEPT ![f] = "failed"]
      /\ UNCHANGED <<device, begun, timer, image>>
      /\ timer \in [Bursts -> {"unset", "armed", "fired"}]
      /\ image \in [Frames -> {"none", "pending", "delivered", "lost"}]
      /\ result \in [Frames -> {"none", "pending", "completed", "failed", "lost"}]
  BY DEF OnFailed, IInv, TypeOK
<1>2. /\ result' \in [Frames -> {"none", "pending", "completed", "failed", "lost"}]
      /\ result'[f] = "failed" /\ \A g \in Frames \ {f} : result'[g] = result[g]
  BY <1>1
<1>3. /\ b \in Bursts /\ b <= begun /\ dumper[b] \in Dumpers
      /\ IsInjective(dumper[b].slots) /\ Len(dumper[b].slots) <= N
  BY <1>1, ResultOfBurst
<1>4. Updates(b, d)
  BY MaybeFinishUpdates DEF OnFailed
\* One more of the burst's N frames has failed, so the count stays within N.
<1>5. /\ With(result', b, "failed") = With(result, b, "failed") \cup {f}
      /\ With(result', b, "completed") = With(result, b, "completed")
      /\ f \notin With(result, b, "failed")
  BY <1>1, <1>2 DEF With
<1>6. /\ Cardinality(With(result', b, "failed")) = dumper[b].failed + 1
      /\ dumper[b].failed + 1 \in 0 .. N /\ dumper[b].failed \in 0 .. N
  <2>1. With(result, b, "failed") \in SUBSET OfBurst(b) /\ With(result', b, "failed") \in SUBSET OfBurst(b)
    BY DEF With, OfBurst
  <2>2. /\ IsFiniteSet(With(result, b, "failed")) /\ Cardinality(With(result, b, "failed")) \in 0 .. N
        /\ Cardinality(With(result', b, "failed")) \in 0 .. N
    BY <1>3, <2>1, CountOfBurst
  <2>3. Cardinality(With(result', b, "failed")) = Cardinality(With(result, b, "failed")) + 1
    BY <1>5, <2>2, FS_AddElement
  <2>4. dumper[b].failed = Cardinality(With(result, b, "failed"))
    BY <1>3 DEF IInv, CountsOwn
  <2> QED  BY <2>2, <2>3, <2>4
<1>7. /\ d \in Dumpers /\ d.slots = dumper[b].slots /\ d.finished = dumper[b].finished
      /\ d.failed = dumper[b].failed + 1 /\ d.results = dumper[b].results
  BY <1>3, <1>6 DEF Dumpers
<1>8. /\ d.results = With(result', b, "completed") /\ d.failed = Cardinality(With(result', b, "failed"))
      /\ d.failed >= dumper[b].failed
  <2> HIDE DEF d, b
  <2>1. dumper[b].results = With(result, b, "completed")
    BY <1>3 DEF IInv, CountsOwn
  <2> QED  BY <1>5, <1>6, <1>7, <2>1, CaptureAssumption
<1> DEFINE F == {g \in Frames : FALSE}
<1>9. F \in SUBSET Frames /\ ToSet(d.slots) = ToSet(dumper[b].slots) \cup F /\ Take(b, F)
  BY <1>1, <1>7 DEF Take
<1>10. /\ UNCHANGED <<device, begun>>
       /\ timer' \in [Bursts -> {"unset", "armed", "fired"}]
       /\ image' \in [Frames -> {"none", "pending", "delivered", "lost"}]
       /\ \A g \in Frames : result[g] = "none" => result'[g] = "none"
       /\ \A a \in Bursts : timer[a] = "unset" => timer'[a] = "unset"
  BY <1>1, <1>2
<1>11. \A a \in Bursts \ {b} : \A g \in OfBurst(a) : result'[g] = result[g]
  BY <1>2 DEF OfBurst
<1>12. /\ Len(dumper[b].slots) <= Len(d.slots) /\ Len(d.slots) <= N /\ IsInjective(d.slots)
       /\ d.finished => d.slots = dumper[b].slots
       /\ dumper[b].results \subseteq d.results
  BY <1>3, <1>7
<1> HIDE DEF F, d, b
<1> QED  BY <1>2, <1>3, <1>4, <1>7, <1>8, <1>9, <1>10, <1>11, <1>12, UpdateStep

\* A burst's timer fires: what has come is handed over, if anything has.
LEMMA OnTimerKeeps ==
  ASSUME IInv, NEW b \in Bursts, OnTimer(b)
  PROVE  IInv'
<1> DEFINE d == dumper[b]
<1>1. /\ timer[b] = "armed" /\ timer' = [timer EXCEPT ![b] = "fired"]
      /\ UNCHANGED <<device, begun, image, result>> /\ device \in BOOLEAN
      /\ timer \in [Bursts -> {"unset", "armed", "fired"}]
      /\ image \in [Frames -> {"none", "pending", "delivered", "lost"}]
      /\ result \in [Frames -> {"none", "pending", "completed", "failed", "lost"}]
  BY DEF OnTimer, camera, IInv, TypeOK
<1>2. timer' \in [Bursts -> {"unset", "armed", "fired"}]
      /\ \A a \in Bursts : timer[a] = "unset" => timer'[a] = "unset"
  BY <1>1
<1>3. CASE Pending(d) /\ Finish(b, d, "timeout")
  <2>1. b <= begun /\ d \in Dumpers /\ Len(d.slots) <= N /\ IsInjective(d.slots)
    BY <1>1 DEF IInv, TypeOK, Asked, InOneSlot
  <2>2. Updates(b, d)
    BY <1>3 DEF Updates, Pending
  <2>3. /\ d.results = With(result', b, "completed") /\ d.failed = Cardinality(With(result', b, "failed"))
        /\ d.failed >= dumper[b].failed /\ dumper[b].results \subseteq d.results
        /\ d.finished = dumper[b].finished
        /\ d.finished => d.slots = dumper[b].slots
        /\ Len(dumper[b].slots) <= Len(d.slots)
    <3>1. d.failed \in Nat /\ Len(d.slots) \in Nat
      BY <2>1, CaptureAssumption DEF Dumpers
    <3> QED  BY <1>1, <3>1 DEF IInv, CountsOwn
  <2> DEFINE F == {g \in Frames : FALSE}
  <2>4. F \in SUBSET Frames /\ ToSet(d.slots) = ToSet(dumper[b].slots) \cup F /\ Take(b, F)
    BY <1>1 DEF Take
  <2>5. /\ UNCHANGED <<device, begun>>
        /\ image' \in [Frames -> {"none", "pending", "delivered", "lost"}]
        /\ result' \in [Frames -> {"none", "pending", "completed", "failed", "lost"}]
        /\ \A g \in Frames : result[g] = "none" => result'[g] = "none"
        /\ \A a \in Bursts \ {b} : \A g \in OfBurst(a) : result'[g] = result[g]
    BY <1>1
  <2> HIDE DEF d, F
  <2> QED  BY <1>2, <2>1, <2>2, <2>3, <2>4, <2>5, UpdateStep
<1>4. CASE UNCHANGED app
  BY <1>1, <1>2, <1>4, StillStep
<1> QED  BY <1>3, <1>4 DEF OnTimer

\* A new burst begins, when there is none.
LEMMA ShootKeeps ==
  ASSUME IInv, Shoot
  PROVE  IInv'
<1> DEFINE b == begun + 1
<1>1. /\ device' = device /\ dumper' = dumper /\ ended' = ended /\ begun' = b /\ current' = b
      /\ current = NoBurst /\ begun < MaxBursts /\ begun \in 0 .. MaxBursts
      /\ device \in BOOLEAN /\ timer' = [timer EXCEPT ![b] = "armed"]
      /\ timer \in [Bursts -> {"unset", "armed", "fired"}]
      /\ image \in [Frames -> {"none", "pending", "delivered", "lost"}]
      /\ result \in [Frames -> {"none", "pending", "completed", "failed", "lost"}]
  BY DEF Shoot, NotBusy, IInv, TypeOK
<1>2. /\ \A f \in Frames : image'[f] = (IF f[1] = b THEN "pending" ELSE image[f])
      /\ \A f \in Frames : result'[f] = (IF f[1] = b THEN "pending" ELSE result[f])
      /\ image' \in [Frames -> {"none", "pending", "delivered", "lost"}]
      /\ result' \in [Frames -> {"none", "pending", "completed", "failed", "lost"}]
  BY <1>1 DEF Shoot
<1>3. b \in Bursts /\ begun \in Nat /\ begun < b /\ b # NoBurst
  BY <1>1, CaptureAssumption DEF Bursts, NoBurst
<1>4. \A a \in Bursts : a \in Nat /\ a # NoBurst
  BY CaptureAssumption DEF Bursts, NoBurst
<1>5. \A f \in Frames : f[1] \in Bursts
  BY DEF Frames
<1> HIDE DEF NoBurst
\* Nothing has happened to the frames of the new burst yet.
<1>6. \A f \in OfBurst(b) : image[f] = "none" /\ result[f] = "none"
  BY <1>3 DEF IInv, Asked, OfBurst
<1>7. TypeOK'
  <2>1. begun' \in 0 .. MaxBursts /\ current' \in Bursts \cup {NoBurst}
    BY <1>1, <1>3, CaptureAssumption
  <2>2. timer' \in [Bursts -> {"unset", "armed", "fired"}]
    BY <1>1
  <2> QED  BY <1>1, <1>2, <2>1, <2>2 DEF IInv, TypeOK
<1>8. Asked'
  <2>1. \A f \in Frames : image'[f] # "none" \/ result'[f] # "none" => f[1] <= b
    BY <1>2, <1>3, <1>4, <1>5 DEF IInv, Asked
  <2>2. \A a \in Bursts : timer'[a] # "unset" \/ dumper[a].finished => a <= b
    BY <1>1, <1>3, <1>4 DEF IInv, Asked
  <2> QED  BY <1>1, <2>1, <2>2 DEF Asked
<1>9. OnlyCurrent'
  <2>1. ~dumper[b].finished
    BY <1>3 DEF IInv, Asked
  <2>2. \A a \in Bursts : a <= b /\ ~dumper[a].finished => a = b
    BY <1>1, <1>3, <1>4 DEF IInv, OnlyCurrent
  <2> QED  BY <1>1, <2>1, <2>2 DEF OnlyCurrent
<1>10. EndedOnce' /\ StaysComplete'
  BY <1>1 DEF IInv, EndedOnce, StaysComplete, Complete
<1>11. InOneSlot' /\ SlotsInCaptureOrder'
  <2>1. \A a \in Bursts : ToSet(dumper[a].slots) \subseteq Frames
    BY DEF IInv, TypeOK, Dumpers, ToSet
  <2>2. \A f \in Frames : image[f] = "delivered" => image'[f] = "delivered"
    BY <1>2, <1>6 DEF OfBurst
  <2>3. InOneSlot'
    BY <1>1, <2>1, <2>2 DEF IInv, InOneSlot
  <2> QED  BY <1>1, <2>3 DEF IInv, SlotsInCaptureOrder, Foreign
<1>12. CountsOwn'
  <2>1. ASSUME NEW how \in {"completed", "failed"}, NEW a
        PROVE  With(result', a, how) = With(result, a, how)
    BY <1>2, <1>6 DEF With, OfBurst
  <2> QED  BY <1>1, <2>1 DEF IInv, CountsOwn
<1>13. NotYetComplete' /\ HasWhatCame'
  <2>1. \A f \in Frames : image'[f] = "delivered" => image[f] = "delivered"
    BY <1>2
  <2> QED  BY <1>1, <2>1 DEF IInv, NotYetComplete, HasWhatCame, EndedOrFull, Complete
<1> QED  BY <1>7, <1>8, <1>9, <1>10, <1>11, <1>12, <1>13 DEF IInv

\* The camera that goes and comes back, and what it loses.
LEMMA CameraKeeps ==
  ASSUME IInv,
         \/ CameraUp \/ CameraDown
         \/ \E f \in Frames : LoseImage(f) \/ LoseResult(f)
  PROVE  IInv'
<1>1. /\ device \in BOOLEAN /\ timer \in [Bursts -> {"unset", "armed", "fired"}]
      /\ image \in [Frames -> {"none", "pending", "delivered", "lost"}]
      /\ result \in [Frames -> {"none", "pending", "completed", "failed", "lost"}]
  BY DEF IInv, TypeOK
<1>2. ASSUME CameraUp \/ CameraDown
      PROVE  IInv'
  BY <1>1, <1>2, StillStep DEF CameraUp, CameraDown, camera
<1>3. ASSUME NEW f \in Frames, LoseImage(f)
      PROVE  IInv'
  BY <1>1, <1>3, StillStep DEF LoseImage
<1>4. ASSUME NEW f \in Frames, LoseResult(f)
      PROVE  IInv'
  BY <1>1, <1>4, StillStep DEF LoseResult
<1> QED  BY <1>2, <1>3, <1>4

\* Nothing has been asked for.
LEMMA InitIInv == Init => IInv
<1> SUFFICES ASSUME Init  PROVE IInv
  OBVIOUS
<1>1. /\ \A b \in Bursts : dumper[b] = Fresh /\ ended[b] = <<>> /\ timer[b] = "unset"
      /\ \A f \in Frames : image[f] = "none" /\ result[f] = "none"
      /\ current = NoBurst /\ begun = 0
  BY DEF Init
<1>2. \A b \in Bursts : b \in Nat /\ ~(b <= 0)
  BY CaptureAssumption DEF Bursts
<1>3. /\ Fresh.slots = <<>> /\ Fresh.failed = 0 /\ Fresh.results = {} /\ Fresh.finished = FALSE
      /\ <<>> \in Seq(Frames) /\ Len(<<>>) = 0 /\ ToSet(<<>>) = {} /\ IsInjective(<<>>)
  BY DEF Fresh, ToSet, IsInjective
<1>4. TypeOK
  <2>1. Fresh \in Dumpers
    BY <1>3, CaptureAssumption DEF Dumpers, Fresh
  <2>2. dumper \in [Bursts -> Dumpers] /\ ended \in [Bursts -> Seq({"complete", "timeout"})]
    BY <2>1 DEF Init
  <2>3. /\ timer \in [Bursts -> {"unset", "armed", "fired"}]
        /\ image \in [Frames -> {"none", "pending", "delivered", "lost"}]
        /\ result \in [Frames -> {"none", "pending", "completed", "failed", "lost"}]
    BY DEF Init
  <2>4. \A b \in Bursts : Len(dumper[b].slots) <= N
    BY <1>1, <1>3, CaptureAssumption
  <2>5. device \in BOOLEAN
    BY DEF Init
  <2>6. begun \in 0 .. MaxBursts /\ current \in Bursts \cup {NoBurst}
    BY <1>1, CaptureAssumption
  <2> QED  BY <2>2, <2>3, <2>4, <2>5, <2>6 DEF TypeOK
<1>5. Asked /\ OnlyCurrent /\ EndedOnce
  BY <1>1, <1>2, <1>3 DEF Asked, OnlyCurrent, EndedOnce
<1>6. InOneSlot /\ SlotsInCaptureOrder
  BY <1>1, <1>3 DEF InOneSlot, SlotsInCaptureOrder, Foreign
<1>7. CountsOwn
  <2>1. \A b \in Bursts : With(result, b, "completed") = {} /\ With(result, b, "failed") = {}
    BY <1>1 DEF With
  <2> QED  BY <1>1, <1>3, <2>1, FS_EmptySet DEF CountsOwn
<1>8. StaysComplete
  <2>1. <<"complete">> # <<>>
    OBVIOUS
  <2> QED  BY <1>1, <2>1 DEF StaysComplete
<1>9. NotYetComplete /\ HasWhatCame
  <2>1. ~Complete(Fresh)
    BY <1>3, CaptureAssumption DEF Complete
  <2> QED  BY <1>1, <2>1 DEF NotYetComplete, HasWhatCame
<1> QED  BY <1>4, <1>5, <1>6, <1>7, <1>8, <1>9 DEF IInv

\* Every step of the app, the camera and the handler thread.
LEMMA NextIInv == IInv /\ [Next]_vars => IInv'
<1> SUFFICES ASSUME IInv, [Next]_vars  PROVE IInv'
  OBVIOUS
<1>1. CASE Shoot
  BY <1>1, ShootKeeps
<1>2. CASE CameraUp \/ CameraDown
  BY <1>2, CameraKeeps
<1>3. ASSUME NEW f \in Frames, Handler(f)
      PROVE  IInv'
  BY <1>3, OnImageKeeps, OnResultKeeps, OnFailedKeeps, CameraKeeps DEF Handler
<1>4. ASSUME NEW b \in Bursts, OnTimer(b)
      PROVE  IInv'
  BY <1>4, OnTimerKeeps
<1>5. CASE UNCHANGED vars
  <2>1. /\ device \in BOOLEAN /\ timer \in [Bursts -> {"unset", "armed", "fired"}]
        /\ image \in [Frames -> {"none", "pending", "delivered", "lost"}]
        /\ result \in [Frames -> {"none", "pending", "completed", "failed", "lost"}]
    BY DEF IInv, TypeOK
  <2> QED  BY <1>5, <2>1, StillStep DEF vars, camera
<1> QED  BY <1>1, <1>2, <1>3, <1>4, <1>5 DEF Next

\* The strengthening is an invariant.
LEMMA Invariance == Spec => []IInv
BY InitIInv, NextIInv, PTL DEF Spec

-----------------------------------------------------------------------------
(* The properties *)

\* Every variable of the Kotlin capture path has its type, and a dumper never
\* holds more than N frames (BurstDumper's check of its size before it adds).
THEOREM TypeCorrect == Spec => []TypeOK
<1>1. IInv => TypeOK
  BY DEF IInv
<1> QED  BY <1>1, Invariance, PTL

\* Each burst is handed to the processing thread once, when it is finished, and
\* until then it is the current one: BurstDumper.finish and onDone, reached from
\* images, results, failures and the timer in any order.
THEOREM HandedOverOnceHolds == Spec => []HandedOverOnce
<1>1. IInv => HandedOverOnce
  <2> SUFFICES ASSUME IInv  PROVE HandedOverOnce
    OBVIOUS
  <2>1. \A b \in Bursts : Len(ended[b]) = (IF dumper[b].finished THEN 1 ELSE 0)
    <3>1. Len(<<"complete">>) = 1 /\ Len(<<"timeout">>) = 1 /\ Len(<<>>) = 0
      OBVIOUS
    <3> QED  BY <3>1 DEF IInv, EndedOnce
  <2>2. Unfinished = (IF current = NoBurst THEN {} ELSE {current})
    <3>1. NoBurst \notin Bursts
      BY DEF Bursts, NoBurst
    <3>2. current # NoBurst => current \in Bursts /\ current <= begun
      BY CaptureAssumption DEF IInv, TypeOK, OnlyCurrent, Bursts
    <3> HIDE DEF NoBurst
    <3> QED  BY <3>1, <3>2 DEF IInv, OnlyCurrent, Unfinished
  <2> QED  BY <2>1, <2>2 DEF HandedOverOnce
<1> QED  BY <1>1, Invariance, PTL

\* BurstDumper.finish sorts: a finished burst's frames are in capture order, each
\* in one slot of one burst, and a foreign frame among them is one that came too
\* late for its own burst.
THEOREM SlotsInCaptureOrderHolds == Spec => []SlotsInCaptureOrder
<1>1. IInv => SlotsInCaptureOrder
  BY DEF IInv
<1> QED  BY <1>1, Invariance, PTL

\* A list without repetitions has as many members as places.
LEMMA CardinalityOfList ==
  ASSUME NEW S, NEW s \in Seq(S), IsInjective(s)
  PROVE  IsFiniteSet(ToSet(s)) /\ Cardinality(ToSet(s)) = Len(s)
<1>1. s \in Bijection(1 .. Len(s), ToSet(s))
  <2>1. s \in [1 .. Len(s) -> ToSet(s)] /\ \A t \in ToSet(s) : \E i \in 1 .. Len(s) : s[i] = t
    BY DEF ToSet
  <2> QED  BY <2>1, Fun_IsBij DEF IsInjective
<1>2. IsFiniteSet(1 .. Len(s)) /\ Cardinality(1 .. Len(s)) = Len(s)
  BY CountTo
<1>3. ExistsBijection(1 .. Len(s), ToSet(s))
  BY <1>1 DEF ExistsBijection
<1> QED  BY <1>2, <1>3, FS_Bijection

\* Two sets of frames of a burst that have nothing in common count apart.
LEMMA ApartCount ==
  ASSUME NEW b \in Bursts, NEW S \in SUBSET OfBurst(b), NEW T \in SUBSET OfBurst(b), S \cap T = {}
  PROVE  Cardinality(S \cup T) = Cardinality(S) + Cardinality(T)
<1>1. IsFiniteSet(S) /\ IsFiniteSet(T) /\ Cardinality(S) \in Nat /\ Cardinality(T) \in Nat
  BY CountOfBurst
<1>2. Cardinality(S \cup T) = Cardinality(S) + Cardinality(T) - Cardinality(S \cap T)
  BY <1>1, FS_Union
<1>3. Cardinality(S \cap T) = 0
  BY FS_EmptySet
<1> QED  BY <1>1, <1>2, <1>3

\* What counting goes by: the frames in the slots, those that failed and those
\* with a result, of a burst with frames of its own only.
LEMMA OwnCounts ==
  ASSUME IInv, NEW b \in Bursts, Foreign(b) = {}, ~FailedWithImage(b)
  PROVE  LET S == ToSet(dumper[b].slots)
             F == With(result, b, "failed")
             R == With(result, b, "completed")
         IN  /\ dumper[b].results = R /\ dumper[b].failed = Cardinality(F)
             /\ Cardinality(S) = Len(dumper[b].slots)
             /\ S \in SUBSET OfBurst(b) /\ F \in SUBSET OfBurst(b) /\ R \in SUBSET OfBurst(b)
             /\ R \cap F = {} /\ S \cap F = {}
<1> DEFINE S == ToSet(dumper[b].slots)
           F == With(result, b, "failed")
           R == With(result, b, "completed")
<1>1. dumper[b].slots \in Seq(Frames) /\ IsInjective(dumper[b].slots) /\ S \subseteq Frames
  BY DEF IInv, TypeOK, Dumpers, InOneSlot, ToSet
<1>2. dumper[b].results = R /\ dumper[b].failed = Cardinality(F)
  BY DEF IInv, CountsOwn
<1>3. Cardinality(S) = Len(dumper[b].slots)
  BY <1>1, CardinalityOfList
<1>4. S \in SUBSET OfBurst(b) /\ F \in SUBSET OfBurst(b) /\ R \in SUBSET OfBurst(b) /\ R \cap F = {}
  BY <1>1 DEF Foreign, OfBurst, With
<1>5. ASSUME NEW f \in S \cap F
      PROVE  FALSE
  <2>1. f \in Frames /\ f[1] = b /\ result[f] = "failed" /\ image[f] = "delivered"
    BY <1>1 DEF With, IInv, InOneSlot
  <2>2. f[2] \in 1 .. N /\ f = <<b, f[2]>>
    BY <2>1 DEF Frames
  <2> QED  BY <2>1, <2>2 DEF FailedWithImage
<1> HIDE DEF S, F, R
<1>6. S \cap F = {}
  BY <1>5
<1> QED  BY <1>2, <1>3, <1>4, <1>6 DEF S, F, R

\* Not too early: images and failures together account for all N frames of a
\* burst that ended complete, and the results that maybeFinish counted can only
\* be those of the images.
LEMMA NotTooEarly ==
  ASSUME IInv, NEW b \in Bursts, Foreign(b) = {}, ~FailedWithImage(b), ended[b] = <<"complete">>
  PROVE  ToSet(dumper[b].slots) \subseteq dumper[b].results
<1> DEFINE S == ToSet(dumper[b].slots)
           F == With(result, b, "failed")
           R == With(result, b, "completed")
           A == OfBurst(b)
<1>1. /\ dumper[b].results = R /\ dumper[b].failed = Cardinality(F)
      /\ Cardinality(S) = Len(dumper[b].slots)
      /\ S \in SUBSET A /\ F \in SUBSET A /\ R \in SUBSET A
      /\ R \cap F = {} /\ S \cap F = {}
  BY OwnCounts
<1>2. Len(dumper[b].slots) + dumper[b].failed >= N /\ Cardinality(R) >= Len(dumper[b].slots)
  BY <1>1 DEF IInv, StaysComplete, Complete
<1> HIDE DEF S, F, R
<1>3. Cardinality(S \cup F) = Cardinality(S) + Cardinality(F)
  BY <1>1, ApartCount
<1> HIDE DEF A
<1>4. /\ IsFiniteSet(A) /\ Cardinality(A) = N
      /\ \A T \in SUBSET A : IsFiniteSet(T) /\ Cardinality(T) \in 0 .. N
  BY FramesOfBurst, CountOfBurst DEF A
<1>5. S \cup F = A
  <2>1. S \cup F \in SUBSET A /\ Cardinality(S \cup F) \in 0 .. N
    BY <1>1, <1>4
  <2>2. Cardinality(S \cup F) = N
    BY <1>1, <1>2, <1>3, <2>1, CaptureAssumption
  <2> QED  BY <1>4, <2>1, <2>2, FS_Subset
<1>6. R = S
  <2>1. R \in SUBSET S
    BY <1>1, <1>5
  <2>2. Cardinality(R) \in Nat /\ Cardinality(S) \in Nat /\ IsFiniteSet(S)
    BY <1>1, <1>4
  <2>3. Cardinality(R) <= Cardinality(S)
    BY <2>1, <2>2, FS_Subset
  <2>4. Cardinality(R) = Cardinality(S)
    BY <1>1, <1>2, <2>2, <2>3
  <2> QED  BY <2>1, <2>2, <2>4, FS_Subset
<1> QED  BY <1>1, <1>6 DEF S

\* Not too late: of a burst whose frames have all come or failed, every one is in
\* its slots or counted as failed, so that it would be complete; and one that has
\* not ended never is.
LEMMA NotTooLate ==
  ASSUME IInv, NEW b \in Bursts, Foreign(b) = {}, ~FailedWithImage(b),
         \A i \in 1 .. N : Accounted(<<b, i>>)
  PROVE  dumper[b].finished
<1> SUFFICES ASSUME ~dumper[b].finished
             PROVE  Complete(dumper[b])
  BY DEF IInv, NotYetComplete
<1> DEFINE S == ToSet(dumper[b].slots)
           F == With(result, b, "failed")
           R == With(result, b, "completed")
           A == OfBurst(b)
<1>1. /\ dumper[b].results = R /\ dumper[b].failed = Cardinality(F)
      /\ Cardinality(S) = Len(dumper[b].slots)
      /\ S \in SUBSET A /\ F \in SUBSET A /\ R \in SUBSET A
      /\ R \cap F = {} /\ S \cap F = {}
  BY OwnCounts
<1>2. \A f \in A : Accounted(f)
  BY DEF OfBurst, Frames
<1>3. R \cup F = A
  BY <1>1, <1>2 DEF Accounted, With, OfBurst
<1>4. R \subseteq S \/ Len(dumper[b].slots) = N
  <2>1. \A f \in R : f \in Frames /\ f[1] = b /\ image[f] = "delivered"
    BY <1>2 DEF Accounted, With, OfBurst
  <2> QED  BY <2>1 DEF IInv, HasWhatCame, EndedOrFull
<1> HIDE DEF S, F, R
<1>5. Cardinality(S \cup F) = Cardinality(S) + Cardinality(F)
      /\ Cardinality(R \cup F) = Cardinality(R) + Cardinality(F)
  BY <1>1, ApartCount
<1> HIDE DEF A
<1>6. /\ Cardinality(A) = N
      /\ \A T \in SUBSET A : IsFiniteSet(T) /\ Cardinality(T) \in 0 .. N
  BY FramesOfBurst, CountOfBurst DEF A
<1>7. /\ Cardinality(S) \in Nat /\ Cardinality(F) \in Nat /\ Cardinality(R) \in Nat
      /\ IsFiniteSet(S) /\ IsFiniteSet(R)
  BY <1>1, <1>6
\* What is in the slots has come and did not fail.
<1>8. S \subseteq R
  BY <1>1, <1>3
<1>9. Cardinality(S) <= Cardinality(R)
  BY <1>7, <1>8, FS_Subset
<1>10. Cardinality(S) + Cardinality(F) >= N
  <2>1. CASE R \subseteq S
    <3>1. S \cup F = A
      BY <1>3, <1>8, <2>1
    <3>2. Cardinality(S) + Cardinality(F) = N
      BY <1>5, <1>6, <3>1
    <3> QED  BY <3>2, CaptureAssumption
  <2>2. CASE Len(dumper[b].slots) = N
    BY <1>1, <1>7, <2>2, CaptureAssumption
  <2> QED  BY <1>4, <2>1, <2>2
<1> QED  BY <1>1, <1>9, <1>10 DEF Complete

\* maybeFinish, which only counts, ends a burst neither before each frame that it
\* hands over has its result, nor later than when the last frame has come or
\* failed.
THEOREM CountsSufficeHolds == Spec => []CountsSuffice
<1>1. IInv => CountsSuffice
  BY NotTooEarly, NotTooLate DEF CountsSuffice
<1> QED  BY <1>1, Invariance, PTL
=============================================================================

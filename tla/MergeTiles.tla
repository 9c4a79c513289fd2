----------------------------- MODULE MergeTiles -----------------------------
(***************************************************************************)
(* The accumulation of merge_burst (core/src/merge.cc), which              *)
(* merge_burst_wiener (core/src/merge_wiener.cc) repeats.  Tiles of T rows *)
(* lie every T/2 rows, so each row of the accumulators num and den belongs *)
(* to two rows of tiles.  The tasks of a parallel_for each add one row of  *)
(* tiles with an unlocked +=; the even rows of tiles and the odd ones are  *)
(* two calls.  Before them a call clears the accumulators, after them one  *)
(* divides num by den.                                                     *)
(*                                                                         *)
(* parallel_for is what ParallelFor says it is, so any tasks of one call   *)
(* may overlap in any way.  A += is a read and a write.  The sums are      *)
(* modelled by what was added: num[y] is the set of the rows of tiles that *)
(* row y has received; the tiles of one row of tiles are added one after   *)
(* the other by one task and count as one.                                 *)
(***************************************************************************)
EXTENDS Naturals

CONSTANTS
  H,   \* height of the image
  T    \* p.tile

\* MergeParams::tile is 32; what the code needs of it is that it is even.
ASSUME MergeAssumption ==
  /\ H \in Nat \ {0}
  /\ T \in Nat \ {0} /\ T % 2 = 0

S == T \div 2
Mty == (H + S - 1) \div S
Rows == 0 .. H - 1
Garbage == H   \* what the scratch arena held before: never a row of tiles

VARIABLES
  pass,     \* the parallel_for the code is at, or in
  busy, n, running, completed, closed,   \* the pool, as ParallelFor sees it
  todo,     \* rows each running task has still to go through
  reg,      \* what a task read in the middle of a +=, if it is in one
  num,      \* num and den: the rows of tiles each row has received
  merged    \* the output

pool == <<busy, n, running, completed, closed>>
vars == <<pass, pool, todo, reg, num, merged>>

PF == INSTANCE ParallelFor WITH MaxTasks <- H

Passes == {"clear", "even", "odd", "normalise", "done"}
Then == [clear |-> "even", even |-> "odd", odd |-> "normalise", normalise |-> "done"]
Idle == [read |-> FALSE, val |-> {}]

Init ==
  /\ pass = "clear"
  /\ PF!Init
  /\ todo = [i \in Rows |-> {}]
  /\ reg = [i \in Rows |-> Idle]
  /\ num = [y \in Rows |-> {Garbage}]
  /\ merged = [y \in Rows |-> {Garbage}]

-----------------------------------------------------------------------------

\* The row of tiles a task adds (mutant: one call for all rows of tiles).
EveryTileRow(p, j) == IF p = "even" THEN j ELSE Mty
TileRow(p, j) == IF p = "even" THEN 2 * j ELSE 2 * j + 1

\* The tasks of a call: (mty + 1 - parity) / 2 (mutant: rounded down).
RoundedDown(p) ==
  CASE p = "even" -> Mty \div 2 [] p = "odd" -> Mty \div 2 [] OTHER -> H
Tasks(p) ==
  CASE p = "even" -> (Mty + 1) \div 2 [] p = "odd" -> Mty \div 2 [] OTHER -> H

\* The rows of a tile: th = min(T, H - y0) of them (mutant: always T).
Unclamped(my) == my * S .. my * S + T - 1
TileRows(my) == {y \in Rows : my * S <= y /\ y < my * S + T}

RowsOf(p, j) == IF p \in {"even", "odd"} THEN TileRows(TileRow(p, j)) ELSE {j}

Begin ==
  /\ pass # "done"
  /\ Tasks(pass) > 0
  /\ PF!Begin(Tasks(pass))
  /\ UNCHANGED <<pass, todo, reg, num, merged>>

StartTask(j) ==
  /\ PF!Start(j)
  /\ todo' = [todo EXCEPT ![j] = RowsOf(pass, j)]
  /\ UNCHANGED <<pass, reg, num, merged>>

\* std::fill
Clear(j) ==
  /\ pass = "clear" /\ j \in running
  /\ j \in todo[j]
  /\ num' = [num EXCEPT ![j] = {}]
  /\ todo' = [todo EXCEPT ![j] = {}]
  /\ UNCHANGED <<pass, pool, reg, merged>>

Read(j, y) ==
  /\ pass \in {"even", "odd"} /\ j \in running
  /\ ~reg[j].read
  /\ y \in todo[j] /\ \A z \in todo[j] : y <= z
  /\ reg' = [reg EXCEPT ![j] = [read |-> TRUE, val |-> num[y]]]
  /\ UNCHANGED <<pass, pool, todo, num, merged>>

Add(j, y) ==
  /\ pass \in {"even", "odd"} /\ j \in running
  /\ reg[j].read
  /\ y \in todo[j] /\ \A z \in todo[j] : y <= z
  /\ num' = [num EXCEPT ![y] = reg[j].val \cup {TileRow(pass, j)}]
  /\ reg' = [reg EXCEPT ![j] = Idle]
  /\ todo' = [todo EXCEPT ![j] = @ \ {y}]
  /\ UNCHANGED <<pass, pool, merged>>

Normalise(j) ==
  /\ pass = "normalise" /\ j \in running
  /\ j \in todo[j]
  /\ merged' = [merged EXCEPT ![j] = num[j]]
  /\ todo' = [todo EXCEPT ![j] = {}]
  /\ UNCHANGED <<pass, pool, reg, num>>

EndTask(j) ==
  /\ todo[j] = {}
  /\ PF!Finish(j)
  /\ UNCHANGED <<pass, todo, reg, num, merged>>

\* With no tasks parallel_for returns at once.
Return ==
  /\ pass # "done"
  /\ IF Tasks(pass) = 0 THEN UNCHANGED pool ELSE PF!Return
  /\ pass' = Then[pass]
  /\ UNCHANGED <<todo, reg, num, merged>>

Done ==
  /\ pass = "done"
  /\ UNCHANGED vars

Next ==
  \/ Begin \/ Return \/ Done
  \/ \E j \in Rows :
       \/ StartTask(j) \/ Clear(j) \/ Normalise(j) \/ EndTask(j)
       \/ \E y \in Rows : Read(j, y) \/ Add(j, y)

Spec == Init /\ [][Next]_vars

-----------------------------------------------------------------------------
(* Properties *)

\* Every variable has its type.
TypeOK ==
  /\ pass \in Passes
  /\ busy \in BOOLEAN /\ n \in 0 .. H /\ closed = FALSE
  /\ running \subseteq Rows /\ completed \subseteq Rows
  /\ todo \in [Rows -> SUBSET Rows]
  /\ reg \in [Rows -> [read : BOOLEAN, val : SUBSET (0 .. H)]]
  /\ num \in [Rows -> SUBSET (0 .. H)]
  /\ merged \in [Rows -> SUBSET (0 .. H)]

\* "So that overlapping rows are not written at the same time": two tasks in
\* progress never have a row of the accumulators in common.
NoRowShared ==
  \A i, j \in running : i # j => RowsOf(pass, i) \cap RowsOf(pass, j) = {}

\* No addition is lost, and none is made to memory that was not cleared: when
\* the merge returns, each row of the output has the contribution of each row
\* of tiles that lies over it, and of at least one.
EveryTileCounted ==
  pass = "done" =>
    \A y \in Rows :
      /\ merged[y] = {my \in 0 .. H : my * S <= y /\ y < my * S + T}
      /\ merged[y] # {}
=============================================================================

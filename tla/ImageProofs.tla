---------------------------- MODULE ImageProofs ----------------------------
(***************************************************************************)
(* What holds of the stages that compute images, for images of every size: *)
(*                                                                         *)
(* - overlapping tiles are merged without a lock and none is lost, for     *)
(*   every height and every even tile size (MergeTiles);                   *)
(* - the disc blur of the GPU computes what the one of the CPU does, and   *)
(*   both their rule; a reflection at the edge keeps the colour of a       *)
(*   pixel; a mask that was computed upright comes back as the sensor sees *)
(*   it (ImageKernels);                                                    *)
(* - no kernel reads outside of what it is given, and every one computes   *)
(*   its rule, whatever the arguments (Kernels).                           *)
(***************************************************************************)
EXTENDS MergeTiles, Kernels, FiniteSetTheorems, FunctionTheorems, SequenceTheorems,
        WellFoundedInduction, TLAPS

-----------------------------------------------------------------------------
(* The merge *)

TilePasses == {"even", "odd"}

\* The rows of tiles that a whole tile pass adds to row y.
PassRows(p, y) ==
  {TileRow(p, j) : j \in {i \in 0 .. Tasks(p) - 1 : y \in RowsOf(p, i)}}

\* The rows of tiles that lie over row y.
Over(y) == {my \in 0 .. H : my * S <= y /\ y < my * S + T}

\* What row y has received from the passes before this one, and in this one.
Before(y) ==
  CASE pass = "odd" -> PassRows("even", y)
    [] pass \in {"normalise", "done"} -> Over(y)
    [] OTHER -> {}
Now(y) ==
  {TileRow(pass, j) : j \in {i \in completed \cup running :
                                /\ busy /\ pass \in TilePasses
                                /\ y \in RowsOf(pass, i) \ todo[i]}}

PoolInv ==
  /\ busy => pass # "done" /\ n = Tasks(pass) /\ Tasks(pass) > 0
  /\ ~busy => running = {}
  /\ busy => running \cup completed \subseteq 0 .. Tasks(pass) - 1
  /\ running \cap completed = {}

TodoInv ==
  \A j \in Rows : /\ j \in running => todo[j] \subseteq RowsOf(pass, j)
                  /\ j \notin running => todo[j] = {} /\ ~reg[j].read

\* A task between its read and its write still holds what the row holds.
RegInv ==
  \A j \in Rows : reg[j].read =>
    /\ pass \in TilePasses /\ todo[j] # {}
    /\ \A y \in todo[j] : (\A z \in todo[j] : y <= z) => reg[j].val = num[y]

Swept(j) == busy /\ (j \in completed \/ (j \in running /\ todo[j] = {}))

SumInv ==
  \A y \in Rows :
    /\ pass # "clear" => num[y] = Before(y) \cup Now(y)
    /\ pass = "clear" /\ Swept(y) => num[y] = {}
    /\ pass = "normalise" /\ Swept(y) => merged[y] = Over(y)
    /\ pass = "done" => merged[y] = Over(y)

Inv == TypeOK /\ PoolInv /\ TodoInv /\ RegInv /\ SumInv

-----------------------------------------------------------------------------
(* The geometry of the tiles *)

\* Half a tile is a positive whole number of rows, and the rows of tiles are
\* just enough to cover the image.
LEMMA TileGeometry ==
  /\ S \in Nat \ {0} /\ T = 2 * S
  /\ Mty \in 1 .. H /\ H <= Mty * S
<1>1. S \in Nat \ {0} /\ T = 2 * S
  BY MergeAssumption DEF S
<1> DEFINE q == Mty
<1>2. H \in Nat \ {0}
  BY MergeAssumption
<1>3. \A a \in Nat, s \in Nat \ {0} :
        /\ a \div s \in Nat
        /\ s * (a \div s) <= a /\ a < s * (a \div s) + s
  OBVIOUS
<1>4. /\ Mty \in Nat
      /\ S * Mty <= H + S - 1 /\ H + S - 1 < S * Mty + S
  BY <1>1, <1>2, <1>3, H + S - 1 \in Nat DEF Mty
<1>5. S * Mty = Mty * S
  BY <1>1, <1>4
<1>6. Mty # 0
  BY <1>1, <1>2, <1>4
<1>7. Mty <= H
  <2> SUFFICES ASSUME Mty >= H + 1 PROVE FALSE
    BY <1>2, <1>4
  <2>1. S * Mty >= S * (H + 1)
    BY <1>1, <1>2, <1>4
  <2>2. S * (H + 1) = S * H + S
    BY <1>1, <1>2
  <2>3. S * H >= H
    BY <1>1, <1>2
  <2> QED
    BY <1>1, <1>2, <1>4, <2>1, <2>2, <2>3
<1> QED
  BY <1>1, <1>2, <1>4, <1>5, <1>6, <1>7

\* The tasks of the calls, and the rows of tiles they stand for.
LEMMA TaskCounts ==
  /\ \A p \in Passes : Tasks(p) \in 0 .. H
  /\ \A p \in TilePasses : \A j \in 0 .. Tasks(p) - 1 : TileRow(p, j) \in 0 .. Mty - 1
  /\ \A my \in 0 .. Mty - 1 : \E p \in TilePasses : \E j \in 0 .. Tasks(p) - 1 :
        my = TileRow(p, j)
<1>1. Mty \in 1 .. H /\ H \in Nat
  BY TileGeometry, MergeAssumption
<1>2. /\ Tasks("even") = (Mty + 1) \div 2
      /\ Tasks("odd") = Mty \div 2
      /\ \A p \in Passes \ TilePasses : Tasks(p) = H
  BY DEF Tasks, Passes, TilePasses
<1>3. \A p \in Passes : Tasks(p) \in 0 .. H
  BY <1>1, <1>2 DEF Passes, TilePasses
<1>4. \A p \in TilePasses : \A j \in 0 .. Tasks(p) - 1 : TileRow(p, j) \in 0 .. Mty - 1
  BY <1>1, <1>2 DEF TilePasses, TileRow
<1>5. ASSUME NEW my \in 0 .. Mty - 1
      PROVE  \E p \in TilePasses : \E j \in 0 .. Tasks(p) - 1 : my = TileRow(p, j)
  <2>1. CASE my % 2 = 0
    <3>1. my \div 2 \in 0 .. Tasks("even") - 1 /\ my = 2 * (my \div 2)
      BY <1>1, <1>2, <2>1
    <3> QED
      BY <3>1 DEF TilePasses, TileRow
  <2>2. CASE my % 2 = 1
    <3>1. my \div 2 \in 0 .. Tasks("odd") - 1 /\ my = 2 * (my \div 2) + 1
      BY <1>1, <1>2, <2>2
    <3> QED
      BY <3>1 DEF TilePasses, TileRow
  <2> QED
    BY <1>1, <2>1, <2>2
<1> QED
  BY <1>3, <1>4, <1>5

\* A row of the image lies under a row of tiles only if it is one of the Mty,
\* and under at least one of them.
LEMMA OverRows ==
  ASSUME NEW y \in Rows
  PROVE  /\ Over(y) = {my \in 0 .. Mty - 1 : y \in TileRows(my)}
         /\ Over(y) # {}
<1>1. /\ S \in Nat \ {0} /\ T = 2 * S /\ Mty \in 1 .. H /\ H <= Mty * S
      /\ H \in Nat /\ y \in 0 .. H - 1
  BY TileGeometry, MergeAssumption DEF Rows
<1>2. ASSUME NEW my \in 0 .. H, my * S <= y
      PROVE  my \in 0 .. Mty - 1
  <2> SUFFICES ASSUME my >= Mty PROVE FALSE
    BY <1>1
  <2>1. my * S >= Mty * S
    BY <1>1
  <2> QED
    BY <1>1, <1>2, <2>1
<1>3. Over(y) = {my \in 0 .. Mty - 1 : y \in TileRows(my)}
  BY <1>1, <1>2 DEF Over, TileRows
<1>4. \A a \in Nat, s \in Nat \ {0} :
        /\ a \div s \in Nat
        /\ s * (a \div s) <= a /\ a < s * (a \div s) + s
  OBVIOUS
<1>5. PICK q \in Nat : q = y \div S /\ S * q <= y /\ y < S * q + S
  BY <1>1, <1>4
<1>6. q * S = S * q /\ S * q >= q
  BY <1>1, <1>5
<1>7. q \in Over(y)
  BY <1>1, <1>5, <1>6 DEF Over
<1> QED
  BY <1>3, <1>7

\* Two rows of tiles of one pass have no row in common: they are a whole tile
\* apart.
LEMMA SamePassDisjoint ==
  ASSUME NEW p \in Passes, NEW i \in 0 .. Tasks(p) - 1, NEW j \in 0 .. Tasks(p) - 1,
         i # j
  PROVE  RowsOf(p, i) \cap RowsOf(p, j) = {}
<1>1. S \in Nat \ {0} /\ T = 2 * S
  BY TileGeometry
<1>2. CASE p \in TilePasses
  <2>1. i \in Nat /\ j \in Nat
    BY TaskCounts
  <2>2. ASSUME NEW a \in Nat, NEW b \in Nat, NEW c \in 0 .. 1, a < b
        PROVE  TileRows(2 * a + c) \cap TileRows(2 * b + c) = {}
    <3>1. (2 * b + c) * S >= (2 * a + c + 2) * S
      BY <1>1, <2>2
    <3>2. (2 * a + c + 2) * S = (2 * a + c) * S + T
      BY <1>1
    <3>3. (2 * a + c) * S \in Nat /\ (2 * b + c) * S \in Nat
      BY <1>1
    <3> QED
      BY <1>1, <3>1, <3>2, <3>3, MergeAssumption DEF TileRows, Rows
  <2>3. PICK c \in 0 .. 1 : RowsOf(p, i) = TileRows(2 * i + c) /\ RowsOf(p, j) = TileRows(2 * j + c)
    <3>1. CASE p = "even"
      <4>1. 2 * i = 2 * i + 0 /\ 2 * j = 2 * j + 0 /\ 0 \in 0 .. 1
        BY <2>1
      <4> QED
        BY <3>1, <4>1 DEF RowsOf, TileRow
    <3>2. CASE p = "odd"
      BY <3>2 DEF RowsOf, TileRow
    <3> QED
      BY <1>2, <3>1, <3>2 DEF TilePasses
  <2> QED
    BY <2>1, <2>2, <2>3
<1>3. CASE p \notin TilePasses
  BY <1>3 DEF RowsOf, TilePasses
<1> QED
  BY <1>2, <1>3

\* The two tile passes together add to a row every row of tiles over it.
LEMMA PassesCover ==
  ASSUME NEW y \in Rows
  PROVE  PassRows("even", y) \cup PassRows("odd", y) = Over(y)
<1>1. \A p \in TilePasses : \A j : RowsOf(p, j) = TileRows(TileRow(p, j))
  BY DEF TilePasses, RowsOf
<1>2. PassRows("even", y) \cup PassRows("odd", y) \subseteq Over(y)
  BY <1>1, OverRows, TaskCounts DEF PassRows, TilePasses
<1>3. ASSUME NEW my \in Over(y)
      PROVE  my \in PassRows("even", y) \cup PassRows("odd", y)
  <2>1. my \in 0 .. Mty - 1 /\ y \in TileRows(my)
    BY OverRows
  <2>2. PICK p \in TilePasses : \E j \in 0 .. Tasks(p) - 1 : my = TileRow(p, j)
    BY <2>1, TaskCounts
  <2>3. my \in PassRows(p, y)
    BY <1>1, <2>1, <2>2 DEF PassRows
  <2> QED
    BY <2>2, <2>3 DEF TilePasses
<1> QED
  BY <1>2, <1>3

\* A task's rows are rows of the image.
LEMMA RowsOfType ==
  ASSUME NEW p, NEW j \in Rows
  PROVE  RowsOf(p, j) \subseteq Rows
BY DEF RowsOf, TileRows

-----------------------------------------------------------------------------
(* The invariant *)

\* The tasks of a call in progress: they are rows of the image, and none of
\* them shares a row with another.
LEMMA TasksInProgress ==
  ASSUME Inv
  PROVE  /\ running \subseteq 0 .. Tasks(pass) - 1
         /\ Tasks(pass) \in 0 .. H
         /\ \A j \in running : busy /\ RowsOf(pass, j) \subseteq Rows
         /\ \A i, j \in running : i # j => RowsOf(pass, i) \cap RowsOf(pass, j) = {}
         /\ \A j \in running : pass \in TilePasses => TileRow(pass, j) \in 0 .. H
<1>1. pass \in Passes /\ Tasks(pass) \in 0 .. H /\ running \subseteq Rows
  BY TaskCounts DEF Inv, TypeOK
<1>2. running \subseteq 0 .. Tasks(pass) - 1
  BY <1>1 DEF Inv, PoolInv
<1>3. \A j \in running : busy /\ RowsOf(pass, j) \subseteq Rows
  BY <1>1, RowsOfType DEF Inv, PoolInv
<1>4. \A i, j \in running : i # j => RowsOf(pass, i) \cap RowsOf(pass, j) = {}
  BY <1>1, <1>2, SamePassDisjoint
<1>5. \A j \in running : pass \in TilePasses => TileRow(pass, j) \in 0 .. H
  <2>1. Mty \in 1 .. H /\ H \in Nat
    BY TileGeometry, MergeAssumption
  <2> QED
    BY <1>2, <2>1, TaskCounts
<1> QED
  BY <1>1, <1>2, <1>3, <1>4, <1>5

\* The first state: nothing is cleared, no call is in progress.
LEMMA InitInv == Init => Inv
<1> SUFFICES ASSUME Init PROVE Inv
  OBVIOUS
<1>1. H \in Nat \ {0}
  BY MergeAssumption
<1>2. TypeOK
  <2>1. /\ todo \in [Rows -> SUBSET Rows]
        /\ num \in [Rows -> SUBSET (0 .. H)] /\ merged \in [Rows -> SUBSET (0 .. H)]
    BY <1>1 DEF Init, Garbage
  <2>2. reg \in [Rows -> [read : BOOLEAN, val : SUBSET (0 .. H)]]
    BY DEF Init, Idle
  <2>3. pass \in Passes /\ busy \in BOOLEAN /\ closed = FALSE
    BY DEF Init, PF!Init, Passes
  <2>4. n \in 0 .. H
    BY <1>1 DEF Init, PF!Init
  <2>5. running \subseteq Rows /\ completed \subseteq Rows
    BY DEF Init, PF!Init
  <2> QED
    BY <2>1, <2>2, <2>3, <2>4, <2>5 DEF TypeOK
<1>3. PoolInv /\ TodoInv /\ RegInv
  BY DEF Init, PF!Init, PoolInv, TodoInv, RegInv, Idle
<1>4. SumInv
  BY DEF Init, PF!Init, SumInv, Swept
<1> QED
  BY <1>2, <1>3, <1>4 DEF Inv

\* A call begins with none of its tasks started.
LEMMA BeginInv == Inv /\ Begin => Inv'
<1> SUFFICES ASSUME Inv, Begin PROVE Inv'
  OBVIOUS
<1>1. /\ ~busy /\ busy' = TRUE /\ n' = Tasks(pass) /\ Tasks(pass) > 0 /\ pass # "done"
      /\ running' = {} /\ completed' = {} /\ closed' = closed
      /\ pass' = pass /\ todo' = todo /\ reg' = reg /\ num' = num /\ merged' = merged
  BY DEF Begin, PF!Begin
<1>2. running = {} /\ Tasks(pass) \in 0 .. H
  BY <1>1, TasksInProgress DEF Inv, PoolInv
<1>3. TypeOK'
  BY <1>1, <1>2 DEF Inv, TypeOK
<1>4. PoolInv' /\ TodoInv' /\ RegInv'
  BY <1>1, <1>2 DEF Inv, PoolInv, TodoInv, RegInv
<1>5. SumInv'
  <2>1. ASSUME NEW y \in Rows
        PROVE  Now(y) = {} /\ Now(y)' = {} /\ Before(y)' = Before(y) /\ ~Swept(y)'
    BY <1>1 DEF Now, Before, Swept
  <2> QED
    BY <1>1, <2>1 DEF Inv, SumInv
<1> QED
  BY <1>3, <1>4, <1>5 DEF Inv

\* A task starts with all its rows ahead of it.
LEMMA StartTaskInv == ASSUME NEW j \in Rows PROVE Inv /\ StartTask(j) => Inv'
<1> SUFFICES ASSUME Inv, StartTask(j) PROVE Inv'
  OBVIOUS
<1>1. /\ busy /\ j \in 0 .. n - 1 /\ j \notin running /\ j \notin completed
      /\ running' = running \cup {j}
      /\ busy' = busy /\ n' = n /\ completed' = completed /\ closed' = closed
      /\ pass' = pass /\ reg' = reg /\ num' = num /\ merged' = merged
      /\ todo' = [todo EXCEPT ![j] = RowsOf(pass, j)]
  BY DEF StartTask, PF!Start, PF!Indices
<1>2. todo' \in [Rows -> SUBSET Rows]
  BY <1>1, RowsOfType DEF Inv, TypeOK
<1>3. \A i \in Rows : todo'[i] = IF i = j THEN RowsOf(pass, j) ELSE todo[i]
  BY <1>1 DEF Inv, TypeOK
<1>4. TypeOK'
  BY <1>1, <1>2 DEF Inv, TypeOK
<1>5. PoolInv'
  BY <1>1 DEF Inv, PoolInv
<1>6. TodoInv' /\ RegInv'
  BY <1>1, <1>3 DEF Inv, TodoInv, RegInv
<1>7. SumInv'
  <2>1. ASSUME NEW y \in Rows
        PROVE  Now(y)' = Now(y) /\ Before(y)' = Before(y)
    <3>1. ASSUME NEW i \in completed' \cup running'
          PROVE  (y \in RowsOf(pass, i) \ todo'[i])
                    <=> (i \in completed \cup running /\ y \in RowsOf(pass, i) \ todo[i])
      BY <1>1, <1>3 DEF Inv, TypeOK
    <3>2. completed \cup running \subseteq completed' \cup running'
      BY <1>1
    <3> QED
      BY <1>1, <3>1, <3>2 DEF Now, Before
  <2>2. ASSUME NEW y \in Rows, pass \in {"clear", "normalise"}
        PROVE  Swept(y)' => Swept(y)
    BY <1>1, <1>3, <2>2 DEF Swept, RowsOf
  <2> QED
    BY <1>1, <2>1, <2>2 DEF Inv, SumInv
<1> QED
  BY <1>4, <1>5, <1>6, <1>7 DEF Inv

\* Clearing a row.
LEMMA ClearInv == ASSUME NEW j \in Rows PROVE Inv /\ Clear(j) => Inv'
<1> SUFFICES ASSUME Inv, Clear(j) PROVE Inv'
  OBVIOUS
<1>1. /\ pass = "clear" /\ j \in running
      /\ busy' = busy /\ n' = n /\ running' = running /\ completed' = completed /\ closed' = closed
      /\ pass' = pass /\ reg' = reg /\ merged' = merged
  BY DEF Clear, pool
<1>2. /\ num' \in [Rows -> SUBSET (0 .. H)] /\ todo' \in [Rows -> SUBSET Rows]
      /\ \A i \in Rows : /\ num'[i] = IF i = j THEN {} ELSE num[i]
                         /\ todo'[i] = IF i = j THEN {} ELSE todo[i]
  BY DEF Clear, Inv, TypeOK
<1>3. TypeOK' /\ PoolInv'
  BY <1>1, <1>2 DEF Inv, TypeOK, PoolInv
<1>4. TodoInv' /\ RegInv'
  BY <1>1, <1>2 DEF Inv, TodoInv, RegInv, TilePasses
<1>5. SumInv'
  BY <1>1, <1>2 DEF Inv, SumInv, Swept
<1> QED
  BY <1>3, <1>4, <1>5 DEF Inv

\* The read of a += takes what the row holds.
LEMMA ReadInv == ASSUME NEW j \in Rows, NEW y \in Rows PROVE Inv /\ Read(j, y) => Inv'
<1> SUFFICES ASSUME Inv, Read(j, y) PROVE Inv'
  OBVIOUS
<1>1. /\ pass \in TilePasses /\ j \in running
      /\ y \in todo[j] /\ \A z \in todo[j] : y <= z
      /\ busy' = busy /\ n' = n /\ running' = running /\ completed' = completed /\ closed' = closed
      /\ pass' = pass /\ todo' = todo /\ num' = num /\ merged' = merged
  BY DEF Read, pool, TilePasses
<1>2. /\ reg' \in [Rows -> [read : BOOLEAN, val : SUBSET (0 .. H)]]
      /\ \A i \in Rows : reg'[i] = IF i = j THEN [read |-> TRUE, val |-> num[y]] ELSE reg[i]
  BY DEF Read, Inv, TypeOK
<1>3. TypeOK' /\ PoolInv' /\ TodoInv'
  BY <1>1, <1>2 DEF Inv, TypeOK, PoolInv, TodoInv
<1>4. RegInv'
  <2> SUFFICES ASSUME NEW i \in Rows, reg'[i].read
               PROVE  todo[i] # {} /\ \A x \in todo[i] : (\A z \in todo[i] : x <= z) => reg'[i].val = num[x]
    BY <1>1 DEF RegInv
  <2>1. CASE i = j
    <3>1. todo[j] \subseteq Nat
      BY MergeAssumption DEF Inv, TypeOK, Rows
    <3>2. \A x \in todo[j] : (\A z \in todo[j] : x <= z) => x = y
      BY <1>1, <3>1
    <3> QED
      BY <1>1, <1>2, <2>1, <3>2
  <2>2. CASE i # j
    BY <1>2, <2>2 DEF Inv, RegInv
  <2> QED
    BY <2>1, <2>2
<1>5. SumInv'
  BY <1>1 DEF Inv, SumInv, Now, Before, Swept
<1> QED
  BY <1>3, <1>4, <1>5 DEF Inv

\* The write of a +=: the row holds what was read and the task's row of tiles.
\* What was read is what the row held, for no other task goes near it.
LEMMA AddInv == ASSUME NEW j \in Rows, NEW y \in Rows PROVE Inv /\ Add(j, y) => Inv'
<1> SUFFICES ASSUME Inv, Add(j, y) PROVE Inv'
  OBVIOUS
<1>1. /\ pass \in TilePasses /\ j \in running /\ reg[j].read
      /\ y \in todo[j] /\ \A z \in todo[j] : y <= z
      /\ busy' = busy /\ n' = n /\ running' = running /\ completed' = completed /\ closed' = closed
      /\ pass' = pass /\ merged' = merged
  BY DEF Add, pool, TilePasses
<1>2. reg[j].val = num[y] /\ TileRow(pass, j) \in 0 .. H
  BY <1>1, TasksInProgress DEF Inv, RegInv
<1>3. /\ num' \in [Rows -> SUBSET (0 .. H)]
      /\ \A x \in Rows : num'[x] = IF x = y THEN num[y] \cup {TileRow(pass, j)} ELSE num[x]
  BY <1>2 DEF Add, Inv, TypeOK
<1>4. /\ todo' \in [Rows -> SUBSET Rows]
      /\ \A i \in Rows : todo'[i] = IF i = j THEN todo[j] \ {y} ELSE todo[i]
  BY DEF Add, Inv, TypeOK
<1>5. /\ reg' \in [Rows -> [read : BOOLEAN, val : SUBSET (0 .. H)]]
      /\ \A i \in Rows : reg'[i] = IF i = j THEN Idle ELSE reg[i]
  BY DEF Add, Inv, TypeOK, Idle
<1>6. TypeOK' /\ PoolInv'
  BY <1>1, <1>3, <1>4, <1>5 DEF Inv, TypeOK, PoolInv
<1>7. TodoInv'
  BY <1>1, <1>4, <1>5 DEF Inv, TodoInv, Idle
<1>8. y \in RowsOf(pass, j) /\ busy
  BY <1>1, TasksInProgress DEF Inv, TodoInv
<1>9. RegInv'
  <2>0. \A i \in Rows : reg'[i].read => todo'[i] # {}
    BY <1>4, <1>5 DEF Inv, RegInv, Idle
  <2> SUFFICES ASSUME NEW i \in Rows, reg'[i].read,
                      NEW x \in todo'[i], \A z \in todo'[i] : x <= z
               PROVE  reg'[i].val = num'[x]
    BY <1>1, <2>0 DEF RegInv
  <2>1. i # j /\ reg'[i] = reg[i] /\ todo'[i] = todo[i]
    BY <1>4, <1>5 DEF Idle
  <2>2. i \in running /\ x \in RowsOf(pass, i) /\ x \in Rows
    BY <2>1 DEF Inv, TodoInv, TypeOK
  <2>3. x # y
    BY <1>1, <1>8, <2>1, <2>2, TasksInProgress
  <2> QED
    BY <1>3, <2>1, <2>2, <2>3 DEF Inv, RegInv
<1>10. SumInv'
  <2>1. ASSUME NEW x \in Rows
        PROVE  Before(x)' = Before(x) /\ Now(x)' = Now(x) \cup (IF x = y THEN {TileRow(pass, j)} ELSE {})
    <3>1. Before(x)' = Before(x)
      BY <1>1 DEF Before
    <3> DEFINE R  == {i \in completed \cup running : x \in RowsOf(pass, i) \ todo[i]}
               R2 == {i \in completed \cup running : x \in RowsOf(pass, i) \ todo'[i]}
    <3>2. completed \cup running \subseteq Rows
      BY DEF Inv, TypeOK
    <3>3. R2 = R \cup (IF x = y THEN {j} ELSE {})
      BY <1>1, <1>4, <1>8, <3>2
    <3>4. /\ Now(x)  = {TileRow(pass, i) : i \in R}
          /\ Now(x)' = {TileRow(pass, i) : i \in R2}
      BY <1>1, <1>8 DEF Now
    <3> HIDE DEF R, R2
    <3> QED
      BY <3>1, <3>3, <3>4
  <2>2. ASSUME NEW x \in Rows
        PROVE  num'[x] = Before(x)' \cup Now(x)'
    <3>1. num[x] = Before(x) \cup Now(x)
      BY <1>1 DEF Inv, SumInv, TilePasses
    <3> QED
      BY <1>3, <2>1, <3>1
  <2> QED
    BY <1>1, <2>2 DEF SumInv, TilePasses
<1> QED
  BY <1>6, <1>7, <1>9, <1>10 DEF Inv

\* Dividing a row.
LEMMA NormaliseInv == ASSUME NEW j \in Rows PROVE Inv /\ Normalise(j) => Inv'
<1> SUFFICES ASSUME Inv, Normalise(j) PROVE Inv'
  OBVIOUS
<1>1. /\ pass = "normalise" /\ j \in running
      /\ busy' = busy /\ n' = n /\ running' = running /\ completed' = completed /\ closed' = closed
      /\ pass' = pass /\ reg' = reg /\ num' = num
  BY DEF Normalise, pool
<1>2. /\ merged' \in [Rows -> SUBSET (0 .. H)] /\ todo' \in [Rows -> SUBSET Rows]
      /\ \A i \in Rows : /\ merged'[i] = IF i = j THEN num[j] ELSE merged[i]
                         /\ todo'[i] = IF i = j THEN {} ELSE todo[i]
  BY DEF Normalise, Inv, TypeOK
<1>3. TypeOK' /\ PoolInv'
  BY <1>1, <1>2 DEF Inv, TypeOK, PoolInv
<1>4. TodoInv' /\ RegInv'
  BY <1>1, <1>2 DEF Inv, TodoInv, RegInv, TilePasses
<1>5. SumInv'
  <2>1. \A y \in Rows : Now(y) = {} /\ Now(y)' = {} /\ Before(y) = Over(y) /\ Before(y)' = Over(y)
    BY <1>1 DEF Now, Before, TilePasses
  <2>2. ASSUME NEW y \in Rows
        PROVE  num[y] = Over(y) /\ (Swept(y)' => merged'[y] = Over(y))
    <3>1. num[y] = Over(y) /\ (Swept(y) => merged[y] = Over(y))
      BY <1>1, <2>1 DEF Inv, SumInv
    <3>2. CASE y = j
      BY <1>2, <3>1, <3>2
    <3>3. CASE y # j
      BY <1>1, <1>2, <3>1, <3>3 DEF Swept
    <3> QED  BY <3>1, <3>2, <3>3
  <2> QED
    BY <1>1, <2>1, <2>2 DEF SumInv
<1> QED
  BY <1>3, <1>4, <1>5 DEF Inv

\* A task ends when it has gone through all its rows.
LEMMA EndTaskInv == ASSUME NEW j \in Rows PROVE Inv /\ EndTask(j) => Inv'
<1> SUFFICES ASSUME Inv, EndTask(j) PROVE Inv'
  OBVIOUS
<1>1. /\ todo[j] = {} /\ j \in running
      /\ running' = running \ {j} /\ completed' = completed \cup {j}
      /\ busy' = busy /\ n' = n /\ closed' = closed
      /\ pass' = pass /\ todo' = todo /\ reg' = reg /\ num' = num /\ merged' = merged
  BY DEF EndTask, PF!Finish
<1>2. TypeOK' /\ PoolInv'
  BY <1>1 DEF Inv, TypeOK, PoolInv
<1>3. ~reg[j].read
  BY <1>1 DEF Inv, RegInv
<1>4. TodoInv' /\ RegInv'
  BY <1>1, <1>3 DEF Inv, TodoInv, RegInv
<1>5. SumInv'
  <2>1. completed' \cup running' = completed \cup running
    BY <1>1
  <2>2. \A y \in Rows : Now(y)' = Now(y) /\ Before(y)' = Before(y)
    BY <1>1, <2>1 DEF Now, Before
  <2>3. \A y \in Rows : Swept(y)' => Swept(y)
    BY <1>1 DEF Swept
  <2> QED
    BY <1>1, <2>2, <2>3 DEF Inv, SumInv
<1> QED
  BY <1>2, <1>4, <1>5 DEF Inv

\* A call returns when all its tasks have ended; one without tasks at once.
\* What it leaves is what the next one starts from.
LEMMA ReturnInv == Inv /\ Return => Inv'
<1> SUFFICES ASSUME Inv, Return PROVE Inv'
  OBVIOUS
<1>1. /\ pass \in Passes /\ pass # "done" /\ pass' = Then[pass]
      /\ todo' = todo /\ reg' = reg /\ num' = num /\ merged' = merged
  BY DEF Return, Inv, TypeOK
<1>2. /\ busy' = FALSE /\ running = {} /\ running' = {}
      /\ n' = n /\ completed' = completed /\ closed' = closed
      /\ IF Tasks(pass) = 0 THEN ~busy ELSE busy /\ completed = 0 .. Tasks(pass) - 1
  <2>1. CASE Tasks(pass) = 0
    BY <2>1, TasksInProgress DEF Return, pool, Inv, PoolInv, TypeOK
  <2>2. CASE Tasks(pass) # 0
    <3>1. busy /\ completed = 0 .. Tasks(pass) - 1
      BY <2>2 DEF Return, PF!Return, PF!Indices, Inv, PoolInv
    <3> QED
      BY <2>2, <3>1, TasksInProgress DEF Return, PF!Return, Inv, PoolInv
  <2> QED
    BY <2>1, <2>2
<1>3. pass' \in Passes
  BY <1>1 DEF Passes, Then
<1>4. TypeOK' /\ PoolInv' /\ TodoInv' /\ RegInv'
  BY <1>1, <1>2, <1>3 DEF Inv, TypeOK, PoolInv, TodoInv, RegInv
<1>5. SumInv'
  <2>1. ASSUME NEW y \in Rows PROVE Now(y)' = {} /\ ~Swept(y)'
    BY <1>2 DEF Now, Swept
  <2>2. CASE pass \in {"clear", "normalise"}
    <3>1. Tasks(pass) = H /\ H \in Nat \ {0}
      BY <2>2, MergeAssumption DEF Tasks
    <3>2. \A y \in Rows : Swept(y)
      BY <1>2, <3>1 DEF Swept, Rows
    <3>3. CASE pass = "clear"
      <4>1. pass' = "even" /\ \A y \in Rows : Before(y)' = {}
        BY <1>1, <3>3 DEF Then, Before
      <4> QED
        BY <1>1, <2>1, <3>2, <3>3, <4>1 DEF Inv, SumInv
    <3>4. CASE pass = "normalise"
      <4>1. pass' = "done" /\ \A y \in Rows : Before(y)' = Over(y) /\ Before(y) = Over(y) /\ Now(y) = {}
        BY <1>1, <3>4 DEF Then, Before, Now, TilePasses
      <4> QED
        BY <1>1, <2>1, <3>2, <3>4, <4>1 DEF Inv, SumInv
    <3> QED
      BY <2>2, <3>3, <3>4
  <2>3. CASE pass \in TilePasses
    <3>1. ASSUME NEW y \in Rows PROVE Now(y) = PassRows(pass, y)
      <4>1. \A i \in Rows : todo[i] = {}
        BY <1>2 DEF Inv, TodoInv
      <4>2. completed \subseteq Rows
        BY DEF Inv, TypeOK
      <4>3. CASE Tasks(pass) = 0
        BY <1>2, <4>3 DEF Now, PassRows
      <4>4. CASE Tasks(pass) # 0
        BY <1>2, <2>3, <4>1, <4>2, <4>4 DEF Now, PassRows
      <4> QED
        BY <4>3, <4>4
    <3>2. CASE pass = "even"
      <4>1. pass' = "odd" /\ \A y \in Rows : Before(y) = {} /\ Before(y)' = PassRows("even", y)
        BY <1>1, <3>2 DEF Then, Before
      <4> QED
        BY <1>1, <2>1, <3>1, <3>2, <4>1 DEF Inv, SumInv
    <3>3. CASE pass = "odd"
      <4>1. /\ pass' = "normalise"
            /\ \A y \in Rows : Before(y) = PassRows("even", y) /\ Before(y)' = Over(y)
        BY <1>1, <3>3 DEF Then, Before
      <4> QED
        BY <1>1, <2>1, <3>1, <3>3, <4>1, PassesCover DEF Inv, SumInv
    <3> QED
      BY <2>3, <3>2, <3>3 DEF TilePasses
  <2> QED
    BY <1>1, <2>2, <2>3 DEF Passes, TilePasses
<1> QED
  BY <1>4, <1>5 DEF Inv

\* A step that changes nothing.
LEMMA StutterInv == Inv /\ UNCHANGED vars => Inv'
<1> SUFFICES ASSUME Inv, UNCHANGED vars PROVE Inv'
  OBVIOUS
<1>1. /\ busy' = busy /\ n' = n /\ running' = running /\ completed' = completed /\ closed' = closed
      /\ pass' = pass /\ todo' = todo /\ reg' = reg /\ num' = num /\ merged' = merged
  BY DEF vars, pool
<1> QED
  BY <1>1 DEF Inv, TypeOK, PoolInv, TodoInv, RegInv, SumInv, Before, Now, Swept

\* The invariant holds in every state.
THEOREM Invariant == Spec => []Inv
<1>1. Inv /\ [Next]_vars => Inv'
  BY BeginInv, StartTaskInv, ClearInv, ReadInv, AddInv, NormaliseInv, EndTaskInv,
     ReturnInv, StutterInv DEF Next, Done
<1> QED
  BY InitInv, <1>1, PTL DEF Spec

-----------------------------------------------------------------------------
(* The theorems *)

\* For every image height and even tile size: the state has its types, so no
\* task writes outside the accumulators.
THEOREM TypeCorrect == Spec => []TypeOK
BY Invariant, PTL DEF Inv

\* Tasks in progress never share a row of the accumulators (merge.cc:83).
THEOREM NoRowSharedHolds == Spec => []NoRowShared
<1>1. Inv => NoRowShared
  BY TasksInProgress DEF NoRowShared
<1> QED
  BY <1>1, Invariant, PTL

\* When the merge returns, no addition has been lost or made twice over: each
\* row has the contribution of every row of tiles over it, and of at least one.
THEOREM EveryTileCountedHolds == Spec => []EveryTileCounted
<1>1. Inv => EveryTileCounted
  BY OverRows DEF Inv, SumInv, EveryTileCounted, Over
<1> QED
  BY <1>1, Invariant, PTL

-----------------------------------------------------------------------------
(* Integers *)

\* A set of numbers that is not empty has a least one.
LEMMA LeastElement ==
  ASSUME NEW U \in SUBSET Nat, U # {}
  PROVE  \E x \in U : \A y \in U : x <= y
<1>1. PICK x \in U : \A y \in U : ~ (<<y, x>> \in OpToRel(<, Nat))
  BY NatLessThanWellFounded, WFMin
<1>2. ASSUME NEW y \in U PROVE ~(y < x)
  <2>1. <<y, x>> \in Nat \X Nat OBVIOUS
  <2> QED BY <1>1, <2>1 DEF OpToRel
<1> QED BY <1>2

\* The half width of a row of the disc (Span) exists: floor of the square root.
LEMMA SpanExists ==
  ASSUME NEW r \in Nat, NEW dy \in -r .. r
  PROVE  LET s == Span(r, dy) IN /\ s \in 0 .. r
           /\ s * s <= r * r - dy * dy /\ (s + 1) * (s + 1) > r * r - dy * dy
<1> DEFINE v == r * r - dy * dy
           U == {t \in Nat : (t + 1) * (t + 1) > v}
<1>1. dy * dy <= r * r /\ dy * dy >= 0
  <2>1. dy <= r /\ -r <= dy OBVIOUS
  <2>2. (r - dy) * (r + dy) >= 0 BY <2>1
  <2> QED BY <2>2
<1>2. v \in Nat /\ v <= r * r  BY <1>1
<1>3. r \in U BY <1>2
<1>4. PICK s \in U : \A t \in U : s <= t  BY <1>3, LeastElement
<1>5. s \in 0 .. r /\ (s + 1) * (s + 1) > v BY <1>3, <1>4
<1>6. s * s <= v
  <2>1. CASE s = 0 BY <2>1, <1>2
  <2>2. CASE s > 0
    <3>1. s - 1 \in Nat /\ ~(s - 1 \in U) BY <2>2, <1>4
    <3>2. ((s - 1) + 1) * ((s - 1) + 1) <= v BY <3>1, <1>2
    <3>3. (s - 1) + 1 = s BY <1>5
    <3> QED BY <3>2, <3>3
  <2> QED BY <2>1, <2>2, <1>5
<1>7. \E t \in 0 .. r : t * t <= v /\ (t + 1) * (t + 1) > v BY <1>5, <1>6
<1> QED BY <1>7 DEF Span

\* A number is taken apart as it was put together (row and column of an index).
LEMMA DivMod ==
  ASSUME NEW a \in Int, NEW m \in Nat \ {0}, NEW b \in 0 .. m - 1
  PROVE  (a * m + b) \div m = a /\ (a * m + b) % m = b
  BY SMTT(30)

\* A number is its quotient and its remainder.
LEMMA DivModOf ==
  ASSUME NEW x \in Int, NEW m \in Nat \ {0}
  PROVE  x = (x \div m) * m + (x % m) /\ x % m \in 0 .. m - 1 /\ x \div m \in Int
  BY SMTT(30)

\* A quotient of two numbers is a number.
LEMMA QuotientType ==
  ASSUME NEW numer \in Nat, NEW den \in Nat \ {0}
  PROVE  numer \div den \in Nat
<1> DEFINE q == numer \div den
<1>1. numer = q * den + (numer % den) /\ numer % den \in 0 .. den - 1 /\ q \in Int
  BY DivModOf
<1> HIDE DEF q
<1>2. q >= 0
  <2> SUFFICES ASSUME q <= -1 PROVE FALSE
    BY <1>1
  <2>1. q * den <= -den
    BY <1>1
  <2> QED  BY <1>1, <2>1
<1> QED  BY <1>1, <1>2 DEF q

-----------------------------------------------------------------------------
(* The disc blur *)

\* disc_blur.comp: the element of the tile for a displacement is in the tile, and
\* it is the pixel at that displacement that was loaded into it.
LEMMA TileElement ==
  ASSUME NEW w \in Nat \ {0}, NEW h \in Nat \ {0}, NEW L \in Nat \ {0}, NEW maxR \in Nat,
         NEW x \in Nat, NEW y \in Nat, NEW dx \in -maxR .. maxR, NEW dy \in -maxR .. maxR
  PROVE  LET ts == TileSide(L, maxR)
             i == ((y % L) + maxR + dy) * ts + (x % L) + maxR + dx
         IN /\ ts \in Nat \ {0}
            /\ i \in 0 .. ts * ts - 1
            /\ i % ts = (x % L) + maxR + dx /\ i \div ts = (y % L) + maxR + dy
            /\ Loaded(w, h, L, maxR, <<x \div L, y \div L>>, i) = <<Clamp(x + dx, w), Clamp(y + dy, h)>>
<1> DEFINE ts == TileSide(L, maxR)
           a == (y % L) + maxR + dy
           b == (x % L) + maxR + dx
           i == a * ts + b
<1>1. /\ x = (x \div L) * L + (x % L) /\ x % L \in 0 .. L - 1 /\ x \div L \in Int
      /\ y = (y \div L) * L + (y % L) /\ y % L \in 0 .. L - 1 /\ y \div L \in Int
  BY DivModOf
<1>2. ts \in Nat \ {0} /\ a \in 0 .. ts - 1 /\ b \in 0 .. ts - 1
  BY <1>1 DEF TileSide
<1>3. i % ts = b /\ i \div ts = a
  <2>1. a \in Int
    BY <1>2
  <2> HIDE DEF a, b, ts
  <2> QED  BY <1>2, <2>1, DivMod, Zenon
<1>4. i \in 0 .. ts * ts - 1
  <2>1. a * ts >= 0 /\ a * ts \in Int
    BY <1>2
  <2>2. a * ts <= (ts - 1) * ts
    BY <1>2
  <2>3. (ts - 1) * ts = ts * ts - ts /\ ts * ts \in Int
    BY <1>2
  <2>4. \A m, q \in Int : m >= 0 /\ m <= q - ts /\ q \in Int => m + b \in 0 .. q - 1
    BY <1>2
  <2> QED BY <2>1, <2>2, <2>3, <2>4
<1>5. /\ (x \div L) * L - maxR + b = x + dx
      /\ (y \div L) * L - maxR + a = y + dy
  BY <1>1
<1>6. Loaded(w, h, L, maxR, <<x \div L, y \div L>>, i) = <<Clamp(x + dx, w), Clamp(y + dy, h)>>
  <2>1. Loaded(w, h, L, maxR, <<x \div L, y \div L>>, i)
         = <<Clamp((x \div L) * L - maxR + (i % ts), w), Clamp((y \div L) * L - maxR + (i \div ts), h)>>
    BY DEF Loaded
  <2> QED BY <2>1, <1>3, <1>5
<1>7. i = ((y % L) + maxR + dy) * ts + (x % L) + maxR + dx
  <2> DEFINE m == a * ts
  <2>1. m \in Int BY <1>2
  <2> HIDE DEF m
  <2>2. m + b = m + (x % L) + maxR + dx BY <2>1, <1>1
  <2> QED BY <2>2 DEF m
<1> HIDE DEF i, a, b, ts
<1> QED BY <1>2, <1>3, <1>4, <1>6, <1>7 DEF i, a, b, ts

\* The disc, as displacements.
Disc(r) == {d \in (-r .. r) \X (-r .. r) : d[1] \in -Span(r, d[2]) .. Span(r, d[2])}

\* The element of the tile for a displacement.
Element(L, maxR, x, y, d) ==
  ((y % L) + maxR + d[2]) * TileSide(L, maxR) + (x % L) + maxR + d[1]

\* disc_blur_direct need not clamp in the interior.
LEMMA DirectTapClamps ==
  ASSUME NEW w \in Nat \ {0}, NEW h \in Nat \ {0}, NEW r \in Nat,
         NEW x \in 0 .. w - 1, NEW y \in 0 .. h - 1, NEW dx \in -r .. r, NEW dy \in -r .. r
  PROVE  DirectTap(w, h, r, x, y, dx, dy) = <<Clamp(x + dx, w), Clamp(y + dy, h)>>
  BY DEF DirectTap, Interior, Clamp, Least, Most

\* The shader reads the elements of the tile for the displacements of the disc.
LEMMA TileReadsAreTheDisc ==
  ASSUME NEW L \in Nat \ {0}, NEW maxR \in Nat, NEW r \in 0 .. maxR, NEW x \in Nat, NEW y \in Nat
  PROVE  TileReads(L, maxR, r, x, y) = {Element(L, maxR, x, y, d) : d \in Disc(r)}
<1> DEFINE ts == TileSide(L, maxR)
           el(d) == Element(L, maxR, x, y, d)
<1>1. \A dy \in -r .. r : Span(r, dy) \in 0 .. r
  BY SpanExists
<1>2. ASSUME NEW d \in Disc(r)
      PROVE  el(d) \in TileReads(L, maxR, r, x, y)
  BY DEF Disc, TileReads, Element
<1>3. ASSUME NEW i \in TileReads(L, maxR, r, x, y)
      PROVE  \E d \in Disc(r) : i = el(d)
  <2>1. PICK dy \in -r .. r : \E dx \in -Span(r, dy) .. Span(r, dy) :
           i = ((y % L) + maxR + dy) * ts + (x % L) + maxR + dx
    BY DEF TileReads
  <2>2. PICK dx \in -Span(r, dy) .. Span(r, dy) : i = ((y % L) + maxR + dy) * ts + (x % L) + maxR + dx
    BY <2>1
  <2>3. dx \in -r .. r
    BY <1>1, SMT
  <2>4. <<dx, dy>> \in Disc(r)
    BY <2>3 DEF Disc
  <2> QED  BY <2>2, <2>4 DEF Element
<1> QED  BY <1>2, <1>3

\* The disc is finite.
LEMMA DiscFinite ==
  ASSUME NEW r \in Nat
  PROVE  IsFiniteSet(Disc(r))
<1>1. IsFiniteSet(-r .. r)
  BY FS_Interval
<1>2. IsFiniteSet((-r .. r) \X (-r .. r))
  BY <1>1, FS_Product
<1> QED  BY <1>2, FS_Subset DEF Disc

\* disc_blur.comp against disc_blur_direct: for every image, every size of a
\* workgroup and every radius the tile has room for, the invocation at a pixel
\* reads inside the shared tile, and counts each pixel of the image as often as
\* the direct sum does: by a bijection from the disc to the elements it reads.
THEOREM GpuBlurIsDirect ==
  ASSUME NEW w \in Nat \ {0}, NEW h \in Nat \ {0}, NEW L \in Nat \ {0}, NEW maxR \in Nat,
         NEW r \in Nat, OnGpu(r, maxR), NEW x \in 0 .. w - 1, NEW y \in 0 .. h - 1
  PROVE  /\ TileReads(L, maxR, r, x, y) \subseteq 0 .. TileSide(L, maxR) * TileSide(L, maxR) - 1
         /\ ShaderTaps(w, h, L, maxR, r, x, y) = DirectTaps(w, h, r, x, y)
<1> DEFINE ts == TileSide(L, maxR)
           el(d) == Element(L, maxR, x, y, d)
           g == <<x \div L, y \div L>>
           at(d) == <<Clamp(x + d[1], w), Clamp(y + d[2], h)>>
<1>1. r \in 0 .. maxR
  BY DEF OnGpu
<1>2. TileReads(L, maxR, r, x, y) = {el(d) : d \in Disc(r)}
  <2>1. x \in Nat /\ y \in Nat
    OBVIOUS
  <2> QED  BY <1>1, <2>1, TileReadsAreTheDisc
<1>3. ASSUME NEW d \in Disc(r)
      PROVE  /\ d = <<d[1], d[2]>> /\ d[1] \in -r .. r /\ d[2] \in -r .. r
             /\ el(d) \in 0 .. ts * ts - 1
             /\ el(d) % ts = (x % L) + maxR + d[1] /\ el(d) \div ts = (y % L) + maxR + d[2]
             /\ Loaded(w, h, L, maxR, g, el(d)) = at(d)
             /\ DirectTap(w, h, r, x, y, d[1], d[2]) = at(d)
  <2>1. d = <<d[1], d[2]>> /\ d[1] \in -r .. r /\ d[2] \in -r .. r
    BY DEF Disc
  <2>2. d[1] \in -maxR .. maxR /\ d[2] \in -maxR .. maxR
    BY <1>1, <2>1
  <2>3. DirectTap(w, h, r, x, y, d[1], d[2]) = at(d)
    <3>1. \A dx, dy \in -r .. r : DirectTap(w, h, r, x, y, dx, dy) = <<Clamp(x + dx, w), Clamp(y + dy, h)>>
      BY DirectTapClamps
    <3> QED  BY <2>1, <3>1
  <2>4. x \in Nat /\ y \in Nat
    OBVIOUS
  <2> QED  BY <2>1, <2>2, <2>3, <2>4, TileElement DEF Element
<1>4. ASSUME NEW c \in Disc(r), NEW d \in Disc(r), el(c) = el(d)
      PROVE  c = d
  <2>1. (x % L) + maxR + c[1] = (x % L) + maxR + d[1] /\ (y % L) + maxR + c[2] = (y % L) + maxR + d[2]
    BY <1>3, <1>4
  <2>2. x % L \in Int /\ y % L \in Int
    BY DivModOf
  <2>3. c[1] \in Int /\ c[2] \in Int /\ d[1] \in Int /\ d[2] \in Int
    BY DEF Disc
  <2>4. \A a, b, e, f \in Int : a + e + b = a + e + f => b = f
    OBVIOUS
  <2>5. c[1] = d[1] /\ c[2] = d[2]
    BY <2>1, <2>2, <2>3, <2>4
  <2> QED  BY <1>3, <2>5
<1>5. ASSUME NEW p \in Pixels(w, h)
      PROVE  Cardinality({i \in TileReads(L, maxR, r, x, y) : Loaded(w, h, L, maxR, g, i) = p})
               = Cardinality({d \in Disc(r) : DirectTap(w, h, r, x, y, d[1], d[2]) = p})
  <2> DEFINE A == {d \in Disc(r) : DirectTap(w, h, r, x, y, d[1], d[2]) = p}
             B == {i \in TileReads(L, maxR, r, x, y) : Loaded(w, h, L, maxR, g, i) = p}
             F == [d \in A |-> el(d)]
  <2>1. F \in [A -> B]
    BY <1>2, <1>3
  <2>2. \A c, d \in A : F[c] = F[d] => c = d
    BY <1>4
  <2>3. \A i \in B : \E d \in A : F[d] = i
    <3> SUFFICES ASSUME NEW i \in B
                 PROVE  \E d \in A : F[d] = i
      OBVIOUS
    <3>1. PICK d \in Disc(r) : i = el(d)
      BY <1>2
    <3>2. d \in A
      BY <1>3, <3>1
    <3> QED  BY <3>1, <3>2
  <2>4. ExistsBijection(A, B)
    <3> HIDE DEF A, B, F
    <3> QED  BY <2>1, <2>2, <2>3, Fun_IsBij DEF ExistsBijection
  <2>5. IsFiniteSet(A)
    BY DiscFinite, FS_Subset
  <2> QED  BY <2>4, <2>5, FS_Bijection
<1>6. DirectTaps(w, h, r, x, y)
        = [p \in Pixels(w, h) |-> Cardinality({d \in Disc(r) : DirectTap(w, h, r, x, y, d[1], d[2]) = p})]
  BY DEF DirectTaps, Disc
<1>7. ShaderTaps(w, h, L, maxR, r, x, y)
        = [p \in Pixels(w, h) |->
             Cardinality({i \in TileReads(L, maxR, r, x, y) : Loaded(w, h, L, maxR, g, i) = p})]
  BY DEF ShaderTaps
<1> QED  BY <1>2, <1>3, <1>5, <1>6, <1>7

\* Squares are in the order of the numbers.
LEMMA SquareOrder ==
  ASSUME NEW a \in Nat, NEW b \in Nat
  PROVE  a <= b <=> a * a <= b * b
<1>1. ASSUME a <= b PROVE a * a <= b * b
  <2>1. a * a <= a * b /\ a * b <= b * b
    BY <1>1
  <2> QED  BY <2>1
<1>2. ASSUME b < a PROVE b * b < a * a
  <2>1. b * b <= a * b /\ a * b < a * a
    BY <1>2
  <2> QED  BY <2>1
<1> QED  BY <1>1, <1>2

\* A disc by half widths, row by row, is the disc by distance.
LEMMA DiscIsRound ==
  ASSUME NEW r \in Nat
  PROVE  Disc(r) = RoundDisc(r)
<1> SUFFICES ASSUME NEW d \in (-r .. r) \X (-r .. r)
             PROVE  d[1] \in -Span(r, d[2]) .. Span(r, d[2]) <=> d[1] * d[1] + d[2] * d[2] <= r * r
  BY DEF Disc, RoundDisc
<1> DEFINE s == Span(r, d[2])
           a == IF d[1] < 0 THEN -d[1] ELSE d[1]
           v == r * r - d[2] * d[2]
<1>1. d[1] \in -r .. r /\ d[2] \in -r .. r
  OBVIOUS
<1>2. s \in 0 .. r /\ s * s <= v /\ (s + 1) * (s + 1) > v
  BY <1>1, SpanExists
<1>3. a \in Nat /\ a * a = d[1] * d[1] /\ (d[1] \in -s .. s <=> a <= s)
  BY <1>1, <1>2
<1>4. a <= s <=> a * a <= v
  <2>1. a * a \in Int /\ s * s \in Int /\ (s + 1) * (s + 1) \in Int /\ v \in Int
    BY <1>1, <1>2, <1>3
  <2>2. ASSUME a <= s PROVE a * a <= v
    <3>1. a * a <= s * s
      BY <2>2, <1>2, <1>3, SquareOrder
    <3> QED  BY <3>1, <2>1, <1>2
  <2>3. ASSUME a > s PROVE a * a > v
    <3>1. s + 1 \in Nat /\ s + 1 <= a
      BY <2>3, <1>2, <1>3
    <3>2. (s + 1) * (s + 1) <= a * a
      BY <3>1, <1>3, SquareOrder
    <3> HIDE DEF a, s, v
    <3> QED  BY <3>2, <2>1, <1>2
  <2> QED  BY <2>2, <2>3, <1>2, <1>3
<1>5. a * a <= v <=> d[1] * d[1] + d[2] * d[2] <= r * r
  <2>1. d[1] * d[1] \in Int /\ d[2] * d[2] \in Int /\ r * r \in Int
    BY <1>1
  <2> QED  BY <2>1, <1>3
<1> HIDE DEF a, s, v
<1> QED  BY <1>3, <1>4, <1>5 DEF s

\* Clamping is taking the nearest pixel there is.
LEMMA ClampIsNearest ==
  ASSUME NEW size \in Nat \ {0}, NEW v \in Int
  PROVE  Clamp(v, size)
           = Nearest(v, size)
<1> DEFINE Near(u) == \A t \in 0 .. size - 1 : Abs(u - v) <= Abs(t - v)
<1>1. Clamp(v, size) \in 0 .. size - 1 /\ Near(Clamp(v, size))
  BY DEF Clamp, Least, Most, Abs
<1>2. ASSUME NEW u \in 0 .. size - 1, Near(u)
      PROVE  u = Clamp(v, size)
  <2>1. Abs(u - v) <= Abs(Clamp(v, size) - v)
    BY <1>1, <1>2
  <2> QED  BY <2>1, <1>1 DEF Clamp, Least, Most, Abs
<1> QED  BY <1>1, <1>2 DEF Nearest

\* Both compute their rule: every point of the round disc counts the pixel that is
\* nearest to it.
THEOREM GpuBlurIsItsRule ==
  ASSUME NEW w \in Nat \ {0}, NEW h \in Nat \ {0}, NEW L \in Nat \ {0}, NEW maxR \in Nat,
         NEW r \in Nat, OnGpu(r, maxR), NEW x \in 0 .. w - 1, NEW y \in 0 .. h - 1
  PROVE  /\ DirectTaps(w, h, r, x, y) = DiscRule(w, h, r)[<<x, y>>]
         /\ ShaderTaps(w, h, L, maxR, r, x, y) = DiscRule(w, h, r)[<<x, y>>]
<1> DEFINE near(d) == <<Nearest(x + d[1], w), Nearest(y + d[2], h)>>
<1>1. DiscRule(w, h, r)[<<x, y>>] = [u \in Pixels(w, h) |-> Cardinality({d \in Disc(r) : u = near(d)})]
  <2>1. <<x, y>> \in Pixels(w, h)
    BY DEF Pixels
  <2>2. Disc(r) = RoundDisc(r)
    BY DiscIsRound
  <2> QED  BY <2>1, <2>2 DEF DiscRule
<1>2. ASSUME NEW d \in Disc(r)
      PROVE  DirectTap(w, h, r, x, y, d[1], d[2]) = near(d)
  <2>1. d[1] \in -r .. r /\ d[2] \in -r .. r
    BY DEF Disc
  <2>2. x + d[1] \in Int /\ y + d[2] \in Int
    BY <2>1
  <2>3. DirectTap(w, h, r, x, y, d[1], d[2]) = <<Clamp(x + d[1], w), Clamp(y + d[2], h)>>
    <3>1. \A dx, dy \in -r .. r : DirectTap(w, h, r, x, y, dx, dy) = <<Clamp(x + dx, w), Clamp(y + dy, h)>>
      BY DirectTapClamps
    <3> QED  BY <2>1, <3>1
  <2>4. Clamp(x + d[1], w) = Nearest(x + d[1], w) /\ Clamp(y + d[2], h) = Nearest(y + d[2], h)
    BY <2>2, ClampIsNearest
  <2> QED  BY <2>3, <2>4
<1>3. DirectTaps(w, h, r, x, y)
        = [p \in Pixels(w, h) |-> Cardinality({d \in Disc(r) : DirectTap(w, h, r, x, y, d[1], d[2]) = p})]
  BY DEF DirectTaps, Disc
<1>4. ASSUME NEW p \in Pixels(w, h)
      PROVE  {d \in Disc(r) : DirectTap(w, h, r, x, y, d[1], d[2]) = p} = {d \in Disc(r) : p = near(d)}
  BY <1>2
<1>5. DirectTaps(w, h, r, x, y) = DiscRule(w, h, r)[<<x, y>>]
  BY <1>1, <1>3, <1>4
<1>6. ShaderTaps(w, h, L, maxR, r, x, y) = DirectTaps(w, h, r, x, y)
  BY GpuBlurIsDirect
<1> QED  BY <1>5, <1>6

-----------------------------------------------------------------------------
(* Reflection and orientation *)

\* finish: in an image of an even size of at least four, a pixel that is reflected
\* at the edge is inside and has the colour of the one it stands for.
THEOREM ReflectionKeepsColour ==
  ASSUME NEW size \in Nat, size % 2 = 0, size >= 4, NEW i \in 0 .. size - 1, NEW k \in -2 .. 2
  PROVE  Mirror(i + k, size) \in 0 .. size - 1 /\ Mirror(i + k, size) % 2 = (i + k) % 2
  BY SMT DEF Mirror

\* mask256_to_sensor undoes the rotation of bayer_to_rgb256, whatever the
\* orientation that is said, negative ones and ones of no right angle included.
THEOREM MaskComesBack ==
  ASSUME NEW side \in Nat, NEW o \in Int, NEW p \in Int \X Int
  PROVE  ToSensor(side, o, ToUpright(side, o, p)) = p
  BY SMTT(30) DEF ToSensor, ToUpright, Degrees, Remainder, Rotate

-----------------------------------------------------------------------------
(* Recursive functions, by induction *)

\* A set of numbers with 0 and the successor of each of its own has them all.
LEMMA Induction ==
  ASSUME NEW U \in SUBSET Nat, 0 \in U, \A m \in U : m + 1 \in U
  PROVE  U = Nat
<1> SUFFICES ASSUME Nat \ U # {} PROVE FALSE
  OBVIOUS
<1>1. PICK x \in Nat \ U : \A y \in Nat \ U : x <= y
  BY LeastElement
<1>2. x # 0 /\ x - 1 \in Nat /\ (x - 1) + 1 = x /\ ~(x <= x - 1)
  BY <1>1
<1>3. x - 1 \in U
  BY <1>1, <1>2
<1> QED  BY <1>1, <1>2, <1>3

\* f goes from each number up to m to the next by G.
Steps(m, f, Vals, a, G) ==
  /\ f \in [0 .. m -> Vals]
  /\ f[0] = a
  /\ \A k \in Nat : k < m => f[k + 1] = G[k][f[k]]

\* One step more.
LEMMA OneStepMore ==
  ASSUME NEW Vals, NEW a \in Vals, NEW G \in [Nat -> [Vals -> Vals]],
         NEW m \in Nat, NEW f, Steps(m, f, Vals, a, G)
  PROVE  \E g : Steps(m + 1, g, Vals, a, G)
<1> DEFINE last == G[m][f[m]]
           g == [k \in 0 .. m + 1 |-> IF k = m + 1 THEN last ELSE f[k]]
<1>1. f \in [0 .. m -> Vals] /\ f[0] = a /\ \A k \in Nat : k < m => f[k + 1] = G[k][f[k]]
  BY DEF Steps
<1>2. m \in 0 .. m /\ 0 \in 0 .. m
  OBVIOUS
<1>3. last \in Vals
  <2>1. f[m] \in Vals
    BY <1>1, <1>2
  <2>2. G[m] \in [Vals -> Vals]
    OBVIOUS
  <2> QED  BY <2>1, <2>2
<1> HIDE DEF last
<1>4. \A k \in 0 .. m : g[k] = f[k]
  <2> TAKE k \in 0 .. m
  <2>1. k \in 0 .. m + 1 /\ k # m + 1
    OBVIOUS
  <2> QED  BY <2>1
<1>5. g[m + 1] = last
  <2>1. m + 1 \in 0 .. m + 1
    OBVIOUS
  <2> QED  BY <2>1
<1>6. g \in [0 .. m + 1 -> Vals]
  <2>1. ASSUME NEW k \in 0 .. m + 1 PROVE (IF k = m + 1 THEN last ELSE f[k]) \in Vals
    <3>1. k = m + 1 \/ k \in 0 .. m
      OBVIOUS
    <3> QED  BY <1>1, <1>3, <3>1
  <2> QED  BY <2>1
<1> HIDE DEF g
<1>7. g[0] = a
  BY <1>1, <1>2, <1>4
<1>8. ASSUME NEW k \in Nat, k < m + 1 PROVE g[k + 1] = G[k][g[k]]
  <2>1. CASE k = m
    BY <1>2, <1>4, <1>5, <2>1 DEF last
  <2>2. CASE k < m
    <3>1. k \in 0 .. m /\ k + 1 \in 0 .. m
      BY <2>2
    <3>2. g[k] = f[k] /\ g[k + 1] = f[k + 1] /\ f[k + 1] = G[k][f[k]]
      BY <1>1, <1>4, <2>2, <3>1
    <3> QED  BY <3>2
  <2> QED  BY <1>8, <2>1, <2>2
<1> QED  BY <1>6, <1>7, <1>8 DEF Steps

\* There are functions that go as far as one likes,
LEMMA Finitely ==
  ASSUME NEW Vals, NEW a \in Vals, NEW G \in [Nat -> [Vals -> Vals]], NEW m \in Nat
  PROVE  \E f : Steps(m, f, Vals, a, G)
<1> DEFINE U == {k \in Nat : \E f : Steps(k, f, Vals, a, G)}
<1>1. 0 \in U
  <2> DEFINE f == [k \in 0 .. 0 |-> a]
  <2>1. f \in [0 .. 0 -> Vals] /\ f[0] = a /\ \A k \in Nat : ~(k < 0)
    OBVIOUS
  <2> HIDE DEF f
  <2>2. Steps(0, f, Vals, a, G)
    BY <2>1 DEF Steps
  <2> QED  BY <2>2
<1>2. \A k \in U : k + 1 \in U
  <2> SUFFICES ASSUME NEW k \in Nat, \E f : Steps(k, f, Vals, a, G)
               PROVE  \E f : Steps(k + 1, f, Vals, a, G)
    OBVIOUS
  <2>1. PICK f : Steps(k, f, Vals, a, G)
    OBVIOUS
  <2> QED  BY <2>1, OneStepMore
<1>3. U \in SUBSET Nat
  OBVIOUS
<1> HIDE DEF U
<1>4. U = Nat
  BY <1>1, <1>2, <1>3, Induction
<1> QED  BY <1>4 DEF U

\* and they agree as far as they go.
LEMMA OneWay ==
  ASSUME NEW Vals, NEW a \in Vals, NEW G \in [Nat -> [Vals -> Vals]],
         NEW m \in Nat, NEW f, Steps(m, f, Vals, a, G),
         NEW l \in Nat, NEW g, Steps(l, g, Vals, a, G), m <= l
  PROVE  f[m] = g[m]
<1> DEFINE V == {k \in Nat : k <= m => f[k] = g[k]}
<1>1. 0 \in V
  BY DEF Steps
<1>2. \A k \in V : k + 1 \in V
  <2> SUFFICES ASSUME NEW k \in Nat, k <= m => f[k] = g[k], k + 1 <= m
               PROVE  f[k + 1] = g[k + 1]
    OBVIOUS
  <2>1. k < m /\ k < l /\ k <= m
    OBVIOUS
  <2>2. f[k] = g[k] /\ f[k + 1] = G[k][f[k]] /\ g[k + 1] = G[k][g[k]]
    BY <2>1 DEF Steps
  <2> QED  BY <2>2
<1>3. V \in SUBSET Nat
  OBVIOUS
<1> HIDE DEF V
<1>4. m \in V
  BY <1>1, <1>2, <1>3, Induction
<1> QED  BY <1>4 DEF V

\* f is a function of the numbers up to m.
UpTo(f, m) == f = [k \in 0 .. m |-> f[k]]

\* A function that goes on by G as long as it is in Vals does so all the way.
LEMMA Followed ==
  ASSUME NEW Vals, NEW a \in Vals, NEW G \in [Nat -> [Vals -> Vals]], NEW m \in Nat,
         NEW f, UpTo(f, m), f[0] = a,
         \A k \in Nat : k < m /\ f[k] \in Vals => f[k + 1] = G[k][f[k]]
  PROVE  Steps(m, f, Vals, a, G)
<1> DEFINE U == {k \in Nat : k <= m => f[k] \in Vals}
<1>1. 0 \in U
  OBVIOUS
<1>2. \A k \in U : k + 1 \in U
  <2> SUFFICES ASSUME NEW k \in Nat, k <= m => f[k] \in Vals, k + 1 <= m
               PROVE  f[k + 1] \in Vals
    OBVIOUS
  <2>1. k < m /\ f[k] \in Vals
    OBVIOUS
  <2>2. f[k + 1] = G[k][f[k]]
    BY <2>1
  <2>3. G[k] \in [Vals -> Vals]
    OBVIOUS
  <2> QED  BY <2>1, <2>2, <2>3
<1>3. U \in SUBSET Nat
  OBVIOUS
<1> HIDE DEF U
<1>4. U = Nat
  BY <1>1, <1>2, <1>3, Induction
<1>5. \A k \in 0 .. m : f[k] \in Vals
  BY <1>4 DEF U
<1>6. f \in [0 .. m -> Vals]
  BY <1>5 DEF UpTo
<1>7. \A k \in Nat : k < m => f[k + 1] = G[k][f[k]]
  BY <1>5
<1> QED  BY <1>6, <1>7 DEF Steps

\* Two functions that start alike and go on alike are alike.
LEMMA Alike ==
  ASSUME NEW m \in Nat, NEW f, NEW g, f[0] = g[0],
         \A k \in Nat : k < m /\ f[k] = g[k] => f[k + 1] = g[k + 1]
  PROVE  \A k \in 0 .. m : f[k] = g[k]
<1> DEFINE U == {k \in Nat : k <= m => f[k] = g[k]}
<1>1. 0 \in U
  OBVIOUS
<1>2. \A k \in U : k + 1 \in U
  OBVIOUS
<1> HIDE DEF U
<1>3. U = Nat
  BY <1>1, <1>2, Induction DEF U
<1> QED  BY <1>3 DEF U

-----------------------------------------------------------------------------
(* Levels of a pyramid, and the inverse of a tone curve *)

\* The size of a level is half that of the one before, rounded up.
LEMMA LevelSizes ==
  ASSUME NEW size \in Nat \ {0}, NEW l \in Nat
  PROVE  /\ LevelSize(size, l) \in Nat \ {0} /\ LevelSize(size, 0) = size
         /\ LevelSize(size, l + 1) = (LevelSize(size, l) + 1) \div 2
<1> DEFINE Vals == Nat \ {0}
           a == size
           G == [k \in Nat |-> [x \in Vals |-> (x + 1) \div 2]]
           After(g, k) == IF k = 0 THEN a ELSE (g[k - 1] + 1) \div 2
           it(m) == CHOOSE g : g = [k \in 0 .. m |-> After(g, k)]
<1>1. G \in [Nat -> [Vals -> Vals]] /\ \A k \in Nat, x \in Vals : G[k][x] = (x + 1) \div 2
  <2>1. \A x \in Vals : (x + 1) \div 2 \in Vals
    OBVIOUS
  <2> QED  BY <2>1
<1>2. \A m \in Nat : LevelSize(size, m) = it(m)[m]
  BY DEF LevelSize
<1>3. a \in Vals /\ a = size
  OBVIOUS
<1> HIDE DEF G, Vals, a
<1>4. ASSUME NEW m \in Nat PROVE Steps(m, it(m), Vals, a, G)
  <2>1. PICK f : Steps(m, f, Vals, a, G)
    BY <1>1, <1>3, Finitely
  <2>2. f = [k \in 0 .. m |-> After(f, k)]
    <3>1. f \in [0 .. m -> Vals] /\ f[0] = a
      BY <2>1 DEF Steps
    <3>2. ASSUME NEW k \in 0 .. m, k # 0 PROVE f[k] = (f[k - 1] + 1) \div 2
      <4>1. k - 1 \in Nat /\ k - 1 < m /\ k - 1 \in 0 .. m /\ (k - 1) + 1 = k
        BY <3>2
      <4>2. f[(k - 1) + 1] = G[k - 1][f[k - 1]] /\ f[k - 1] \in Vals
        BY <2>1, <3>1, <4>1 DEF Steps
      <4> QED  BY <1>1, <4>1, <4>2
    <3> QED  BY <3>1, <3>2
  <2> DEFINE h == it(m)
  <2>3. h = [k \in 0 .. m |-> After(h, k)]
    <3> HIDE DEF After
    <3> QED  BY <2>2
  <2> HIDE DEF h
  <2>4. UpTo(h, m) /\ h[0] = a
    BY <2>3 DEF UpTo
  <2>5. ASSUME NEW k \in Nat, k < m, h[k] \in Vals PROVE h[k + 1] = G[k][h[k]]
    <3>1. k + 1 \in 0 .. m /\ k + 1 # 0 /\ (k + 1) - 1 = k
      BY <2>5
    <3>2. h[k + 1] = (h[k] + 1) \div 2
      BY <2>3, <3>1
    <3> QED  BY <1>1, <2>5, <3>2
  <2>6. Steps(m, h, Vals, a, G)
    BY <1>1, <1>3, <2>4, <2>5, Followed
  <2> QED  BY <2>6 DEF h
<1> HIDE DEF it
<1>5. \A m \in Nat : it(m)[m] \in Vals
  <2> TAKE m \in Nat
  <2>1. it(m) \in [0 .. m -> Vals] /\ m \in 0 .. m
    BY <1>4 DEF Steps
  <2> QED  BY <2>1
<1>6. it(0)[0] = size
  BY <1>3, <1>4 DEF Steps
<1>7. it(l + 1)[l + 1] = (it(l)[l] + 1) \div 2
  <2>1. l + 1 \in Nat /\ l < l + 1 /\ l <= l + 1
    OBVIOUS
  <2>2. Steps(l, it(l), Vals, a, G) /\ Steps(l + 1, it(l + 1), Vals, a, G)
    BY <1>4, <2>1
  <2>3. it(l)[l] = it(l + 1)[l]
    <3>1. G \in [Nat -> [Vals -> Vals]] /\ a \in Vals
      BY <1>1, <1>3
    <3> QED  BY <2>1, <2>2, <3>1, OneWay
  <2>4. it(l + 1)[l + 1] = G[l][it(l + 1)[l]]
    BY <2>1, <2>2 DEF Steps
  <2> QED  BY <1>1, <1>5, <2>3, <2>4
<1> QED  BY <1>2, <1>5, <1>6, <1>7 DEF Vals

\* Every level that is halved is larger than top: a reflection at its edge is inside.
LEMMA LevelsAreLarge ==
  ASSUME NEW w \in Nat \ {0}, NEW h \in Nat \ {0}, NEW top \in Nat, NEW l \in 1 .. Levels(w, h, top) - 1
  PROVE  LevelSize(w, l - 1) > top /\ LevelSize(h, l - 1) > top
<1> DEFINE m == Least(w, h)
           Vals == Nat
           a == m
           G == [k \in Nat |-> [x \in Vals |-> x \div 2]]
           After(g, k) == IF k = 0 THEN a ELSE g[k - 1] \div 2
           it == CHOOSE g : g = [k \in 0 .. m |-> After(g, k)]
           U == {k \in 0 .. m : it[k] > top}
<1>1. G \in [Nat -> [Vals -> Vals]] /\ \A k \in Nat, x \in Vals : G[k][x] = x \div 2
  <2>1. \A x \in Vals : x \div 2 \in Vals
    OBVIOUS
  <2> QED  BY <2>1
<1>2. m \in Nat /\ m <= w /\ m <= h /\ a = m /\ a \in Vals
  BY DEF Least
<1>3. Levels(w, h, top) = 1 + Cardinality(U)
  BY DEF Levels
<1> HIDE DEF G, Vals, a, m
<1>4. Steps(m, it, Vals, a, G)
  <2>1. PICK f : Steps(m, f, Vals, a, G)
    <3>1. G \in [Nat -> [Vals -> Vals]] /\ m \in Nat /\ a \in Vals
      BY <1>1, <1>2
    <3> QED  BY <3>1, Finitely
  <2>2. f = [k \in 0 .. m |-> After(f, k)]
    <3>1. f \in [0 .. m -> Vals] /\ f[0] = a
      BY <2>1 DEF Steps
    <3>2. ASSUME NEW k \in 0 .. m, k # 0 PROVE f[k] = f[k - 1] \div 2
      <4>1. k - 1 \in Nat /\ k - 1 < m /\ k - 1 \in 0 .. m /\ (k - 1) + 1 = k
        BY <1>2, <3>2
      <4>2. f[(k - 1) + 1] = G[k - 1][f[k - 1]] /\ f[k - 1] \in Vals
        BY <2>1, <3>1, <4>1 DEF Steps
      <4> QED  BY <1>1, <4>1, <4>2
    <3> QED  BY <3>1, <3>2
  <2>3. it = [k \in 0 .. m |-> After(it, k)]
    <3> HIDE DEF After
    <3> QED  BY <2>2
  <2> HIDE DEF it
  <2>4. UpTo(it, m) /\ it[0] = a
    BY <1>2, <2>3 DEF UpTo
  <2>5. ASSUME NEW k \in Nat, k < m, it[k] \in Vals PROVE it[k + 1] = G[k][it[k]]
    <3>1. k + 1 \in 0 .. m /\ k + 1 # 0 /\ (k + 1) - 1 = k
      BY <1>2, <2>5
    <3>2. it[k + 1] = it[k] \div 2
      BY <2>3, <3>1
    <3> QED  BY <1>1, <2>5, <3>2
  <2>6. G \in [Nat -> [Vals -> Vals]] /\ m \in Nat /\ a \in Vals
    BY <1>1, <1>2
  <2> QED  BY <2>4, <2>5, <2>6, Followed
<1> HIDE DEF it
<1>5. /\ it[0] = m
      /\ \A k \in 0 .. m : it[k] \in Nat
      /\ \A k \in Nat : k < m => it[k + 1] = it[k] \div 2
  <2>1. \A k \in 0 .. m : it[k] \in Nat
    BY <1>4 DEF Steps, Vals
  <2>2. ASSUME NEW k \in Nat, k < m PROVE it[k + 1] = it[k] \div 2
    <3>1. k \in 0 .. m /\ it[k + 1] = G[k][it[k]]
      BY <1>2, <1>4, <2>2 DEF Steps
    <3> QED  BY <1>1, <2>1, <3>1 DEF Vals
  <2> QED  BY <1>2, <1>4, <2>1, <2>2 DEF Steps
<1>6. \A j, k \in 0 .. m : j <= k => it[k] <= it[j]
  <2> SUFFICES ASSUME NEW j \in 0 .. m PROVE \A k \in 0 .. m : j <= k => it[k] <= it[j]
    OBVIOUS
  <2> DEFINE V == {k \in Nat : k <= m /\ j <= k => it[k] <= it[j]}
  <2>1. 0 \in V
    BY <1>2, <1>5
  <2>2. \A k \in V : k + 1 \in V
    <3> SUFFICES ASSUME NEW k \in V, k + 1 <= m, j <= k + 1 PROVE it[k + 1] <= it[j]
      OBVIOUS
    <3>1. k < m /\ k \in 0 .. m /\ k + 1 \in 0 .. m /\ it[k + 1] = it[k] \div 2 /\ it[k] \in Nat /\ it[j] \in Nat
      BY <1>2, <1>5
    <3>2. it[k + 1] <= it[k]
      BY <3>1
    <3>3. CASE j = k + 1
      BY <3>1, <3>3
    <3>4. CASE j <= k
      BY <1>2, <3>1, <3>2, <3>4
    <3> QED  BY <1>2, <3>3, <3>4
  <2>3. V \in SUBSET Nat
    OBVIOUS
  <2> HIDE DEF V
  <2>4. V = Nat
    BY <2>1, <2>2, <2>3, Induction
  <2> QED  BY <1>2, <2>4 DEF V
<1>7. ASSUME NEW size \in Nat \ {0}, m <= size
      PROVE  \A k \in 0 .. m : it[k] <= LevelSize(size, k)
  <2> DEFINE V == {k \in Nat : k <= m => it[k] <= LevelSize(size, k)}
  <2>1. 0 \in V
    BY <1>2, <1>5, <1>7, LevelSizes
  <2>2. \A k \in V : k + 1 \in V
    <3> SUFFICES ASSUME NEW k \in V, k + 1 <= m PROVE it[k + 1] <= LevelSize(size, k + 1)
      OBVIOUS
    <3>1. k < m /\ k \in 0 .. m /\ it[k + 1] = it[k] \div 2 /\ it[k] \in Nat /\ it[k] <= LevelSize(size, k)
      BY <1>2, <1>5
    <3>2. LevelSize(size, k) \in Nat /\ LevelSize(size, k + 1) = (LevelSize(size, k) + 1) \div 2
      BY LevelSizes
    <3> QED  BY <3>1, <3>2
  <2>3. V \in SUBSET Nat
    OBVIOUS
  <2> HIDE DEF V
  <2>4. V = Nat
    BY <2>1, <2>2, <2>3, Induction
  <2> QED  BY <1>2, <2>4 DEF V
<1>8. IsFiniteSet(U) /\ Cardinality(U) \in Nat
  <2>1. IsFiniteSet(0 .. m)
    BY <1>2, FS_Interval
  <2>2. U \subseteq 0 .. m
    OBVIOUS
  <2> QED  BY <2>1, <2>2, FS_Subset, FS_CardinalityType
<1>9. l \in Nat /\ l >= 1 /\ l <= Cardinality(U)
  BY <1>3, <1>8
<1>10. l - 1 \in U
  <2> SUFFICES ASSUME l - 1 \notin U PROVE FALSE
    OBVIOUS
  <2>1. U \subseteq 0 .. l - 2
    <3> SUFFICES ASSUME NEW k \in U, k >= l - 1 PROVE FALSE
      BY <1>2, <1>9
    <3>1. k \in 0 .. m /\ it[k] > top /\ l - 1 \in 0 .. m
      BY <1>2, <1>9
    <3>2. it[k] <= it[l - 1] /\ it[k] \in Nat /\ it[l - 1] \in Nat
      BY <1>5, <1>6, <3>1
    <3> QED  BY <3>1, <3>2
  <2>2. IsFiniteSet(0 .. l - 2) /\ Cardinality(0 .. l - 2) = l - 1
    <3>1. 0 \in Int /\ l - 2 \in Int
      BY <1>9
    <3>2. IsFiniteSet(0 .. l - 2) /\ Cardinality(0 .. l - 2) = IF 0 > l - 2 THEN 0 ELSE (l - 2) - 0 + 1
      BY <3>1, FS_Interval
    <3> QED  BY <1>9, <3>2
  <2>3. Cardinality(U) <= Cardinality(0 .. l - 2)
    BY <2>1, <2>2, FS_Subset
  <2> QED  BY <1>8, <1>9, <2>2, <2>3
<1>11. it[l - 1] > top /\ it[l - 1] <= LevelSize(w, l - 1) /\ it[l - 1] <= LevelSize(h, l - 1) /\ it[l - 1] \in Nat
  BY <1>2, <1>5, <1>7, <1>10
<1>12. LevelSize(w, l - 1) \in Nat /\ LevelSize(h, l - 1) \in Nat
  <2>1. l - 1 \in Nat
    BY <1>9
  <2> QED  BY <2>1, LevelSizes
<1> QED  BY <1>11, <1>12

\* The search for a value ends at the first entry that is not below it, at the
\* last if there is none.
FirstNotBelow(lut, last, v) ==
  CHOOSE k \in 0 .. last : (\A m \in 0 .. k - 1 : lut[m] < v) /\ (k = last \/ lut[k] >= v)

LEMMA FirstNotBelowExists ==
  ASSUME NEW last \in Nat, NEW lut \in [0 .. last -> Nat], NEW v \in Nat
  PROVE  LET k == FirstNotBelow(lut, last, v)
         IN k \in 0 .. last /\ (\A m \in 0 .. k - 1 : lut[m] < v) /\ (k = last \/ lut[k] >= v)
<1> DEFINE U == {k \in 0 .. last : k = last \/ lut[k] >= v}
<1>1. last \in U /\ U \in SUBSET Nat
  OBVIOUS
<1>2. PICK k \in U : \A m \in U : k <= m
  BY <1>1, LeastElement
<1>3. ASSUME NEW m \in 0 .. k - 1 PROVE lut[m] < v
  <2>1. m \in 0 .. last /\ m # last /\ m \notin U
    BY <1>2
  <2>2. ~(lut[m] >= v) /\ lut[m] \in Nat
    BY <2>1
  <2> QED  BY <2>2
<1>4. k \in 0 .. last /\ (k = last \/ lut[k] >= v)
  BY <1>2
<1>5. \E i \in 0 .. last : (\A m \in 0 .. i - 1 : lut[m] < v) /\ (i = last \/ lut[i] >= v)
  BY <1>3, <1>4
<1> QED  BY <1>5 DEF FirstNotBelow

LEMMA FirstNotBelowIsOne ==
  ASSUME NEW last \in Nat, NEW lut \in [0 .. last -> Nat], NEW v \in Nat,
         NEW k \in 0 .. last, \A m \in 0 .. k - 1 : lut[m] < v, k = last \/ lut[k] >= v
  PROVE  k = FirstNotBelow(lut, last, v)
<1> DEFINE i == FirstNotBelow(lut, last, v)
<1>1. i \in 0 .. last /\ (\A m \in 0 .. i - 1 : lut[m] < v) /\ (i = last \/ lut[i] >= v)
  BY FirstNotBelowExists
<1> HIDE DEF i
<1>2. ~(i < k)
  <2> SUFFICES ASSUME i < k PROVE FALSE
    OBVIOUS
  <2>1. i \in 0 .. k - 1 /\ lut[i] \in Nat
    BY <1>1
  <2> QED  BY <1>1, <2>1
<1>3. ~(k < i)
  <2> SUFFICES ASSUME k < i PROVE FALSE
    OBVIOUS
  <2>1. k \in 0 .. i - 1 /\ lut[k] \in Nat
    BY <1>1
  <2> QED  BY <1>1, <2>1
<1> QED  BY <1>1, <1>2, <1>3 DEF i

LEMMA AdvanceGoesOn ==
  ASSUME NEW last \in Nat, NEW lut \in [0 .. last -> Nat], NEW v \in Nat,
         NEW j \in 0 .. last, \A m \in 0 .. j - 1 : lut[m] < v
  PROVE  Advance(lut, last, j, v) = FirstNotBelow(lut, last, v)
<1> DEFINE i == FirstNotBelow(lut, last, v)
           k == Advance(lut, last, j, v)
           Ends(n1) == (\A m \in j .. n1 - 1 : lut[m] < v) /\ (n1 = last \/ lut[n1] >= v)
<1>1. i \in 0 .. last /\ (\A m \in 0 .. i - 1 : lut[m] < v) /\ (i = last \/ lut[i] >= v)
  BY FirstNotBelowExists
<1> HIDE DEF i
<1>2. i \in j .. last
  <2> SUFFICES ASSUME i < j PROVE FALSE
    BY <1>1
  <2>1. i \in 0 .. j - 1 /\ i # last /\ lut[i] \in Nat
    BY <1>1
  <2> QED  BY <1>1, <2>1
<1>3. Ends(i)
  BY <1>1
<1>4. k = CHOOSE n1 \in j .. last : Ends(n1)
  BY DEF Advance
<1> HIDE DEF Ends, k
<1>5. k \in j .. last /\ Ends(k)
  BY <1>2, <1>3, <1>4
<1>6. k \in 0 .. last /\ (\A m \in 0 .. k - 1 : lut[m] < v) /\ (k = last \/ lut[k] >= v)
  <2>1. \A m \in 0 .. k - 1 : m \in 0 .. j - 1 \/ m \in j .. k - 1
    BY <1>5
  <2> QED  BY <1>5, <2>1 DEF Ends
<1>7. k = FirstNotBelow(lut, last, v)
  BY <1>6, FirstNotBelowIsOne
<1> QED  BY <1>7 DEF k

LEMMA InverseIsFirst ==
  ASSUME NEW last \in Nat, NEW lut \in [0 .. last -> Nat], NEW values \in Nat \ {0}
  PROVE  InverseTone(lut, last, values) = [v \in 0 .. values - 1 |-> FirstNotBelow(lut, last, v)]
<1> DEFINE m == values - 1
           After(g, k) == Advance(lut, last, IF k = 0 THEN 0 ELSE g[k - 1], k)
           it == CHOOSE g : g = [k \in 0 .. m |-> After(g, k)]
           f == [k \in 0 .. m |-> FirstNotBelow(lut, last, k)]
<1>1. InverseTone(lut, last, values) = it
  BY DEF InverseTone
<1>2. ASSUME NEW k \in Nat, NEW j \in 0 .. last, k = 0 => j = 0, k # 0 => j = FirstNotBelow(lut, last, k - 1)
      PROVE  Advance(lut, last, j, k) = FirstNotBelow(lut, last, k)
  <2>1. ASSUME NEW i \in 0 .. j - 1 PROVE lut[i] < k
    <3>1. k # 0 /\ k - 1 \in Nat
      BY <1>2
    <3>2. lut[i] < k - 1
      BY <1>2, <3>1, FirstNotBelowExists
    <3>3. lut[i] \in Nat
      OBVIOUS
    <3> QED  BY <3>1, <3>2, <3>3
  <2> QED  BY <2>1, AdvanceGoesOn
<1>3. f = [k \in 0 .. m |-> After(f, k)]
  <2>1. ASSUME NEW k \in 0 .. m PROVE f[k] = After(f, k)
    <3> DEFINE j == IF k = 0 THEN 0 ELSE f[k - 1]
    <3>1. k \in Nat /\ (k # 0 => k - 1 \in 0 .. m /\ k - 1 \in Nat)
      OBVIOUS
    <3>2. k # 0 => j = FirstNotBelow(lut, last, k - 1)
      BY <3>1
    <3>3. j \in 0 .. last
      <4>1. CASE k = 0
        BY <4>1
      <4>2. CASE k # 0
        <5>1. FirstNotBelow(lut, last, k - 1) \in 0 .. last
          BY <3>1, <4>2, FirstNotBelowExists
        <5> QED  BY <3>2, <4>2, <5>1
      <4> QED  BY <4>1, <4>2
    <3>4. k = 0 => j = 0
      OBVIOUS
    <3> HIDE DEF j
    <3>5. Advance(lut, last, j, k) = FirstNotBelow(lut, last, k)
      BY <1>2, <3>1, <3>2, <3>3, <3>4
    <3> QED  BY <3>5 DEF j
  <2> HIDE DEF After
  <2> QED  BY <2>1
<1>4. it = [k \in 0 .. m |-> After(it, k)]
  <2> HIDE DEF After, f
  <2> QED  BY <1>3
<1> HIDE DEF it, f
<1>5. m \in Nat /\ it[0] = f[0]
  BY <1>3, <1>4
<1>6. ASSUME NEW k \in Nat, k < m, it[k] = f[k] PROVE it[k + 1] = f[k + 1]
  <2>1. k + 1 \in 0 .. m /\ k + 1 # 0 /\ (k + 1) - 1 = k
    BY <1>6
  <2>2. it[k + 1] = After(it, k + 1) /\ f[k + 1] = After(f, k + 1)
    <3> HIDE DEF After
    <3> QED  BY <1>3, <1>4, <2>1
  <2> QED  BY <1>6, <2>1, <2>2
<1> HIDE DEF After
<1>7. \A k \in 0 .. m : it[k] = f[k]
  <2> DEFINE U == {k \in Nat : k <= m => it[k] = f[k]}
  <2>1. 0 \in U
    BY <1>5
  <2>2. ASSUME NEW k \in U PROVE k + 1 \in U
    BY <1>5, <1>6
  <2>3. U \in SUBSET Nat
    OBVIOUS
  <2> HIDE DEF U
  <2>4. U = Nat
    BY <2>1, <2>2, <2>3, Induction
  <2> QED  BY <2>4 DEF U
<1>8. it = f
  BY <1>3, <1>4, <1>5, <1>7
<1> QED  BY <1>1, <1>8 DEF f

-----------------------------------------------------------------------------
(* The searches of a burst *)

\* The displacements that are tried are those of a square.
LEMMA SearchInSquare ==
  ASSUME NEW radius \in Nat
  PROVE  Search(radius) \in Seq((-radius .. radius) \X (-radius .. radius))
<1> DEFINE side == 2 * radius + 1
           count == side * side
           d(k) == <<((k - 1) % side) - radius, ((k - 1) \div side) - radius>>
           Sq == (-radius .. radius) \X (-radius .. radius)
<1>1. side \in Nat \ {0} /\ count \in Nat
  OBVIOUS
<1>2. ASSUME NEW k \in 1 .. count PROVE d(k) \in Sq
  <2> DEFINE q == (k - 1) \div side
             r == (k - 1) % side
  <2>1. k - 1 \in Int /\ k - 1 >= 0 /\ k - 1 < count
    BY <1>1
  <2>2. k - 1 = q * side + r /\ r \in 0 .. side - 1 /\ q \in Int
    BY <1>1, <2>1, DivModOf
  <2> HIDE DEF q, r
  <2>3. q >= 0
    <3> SUFFICES ASSUME q <= -1 PROVE FALSE
      BY <2>2
    <3>1. q * side <= -side
      BY <1>1, <2>2
    <3> QED  BY <1>1, <2>1, <2>2, <3>1
  <2>4. q < side
    <3> SUFFICES ASSUME q >= side PROVE FALSE
      BY <1>1, <2>2
    <3>1. q * side >= side * side
      BY <1>1, <2>2
    <3> QED  BY <1>1, <2>1, <2>2, <3>1
  <2>5. r - radius \in -radius .. radius /\ q - radius \in -radius .. radius
    BY <2>2, <2>3, <2>4
  <2> QED  BY <2>5 DEF q, r
<1>3. Search(radius) = [k \in 1 .. count |-> d(k)]
  BY DEF Search
<1> HIDE DEF d, count, Sq
<1>4. [k \in 1 .. count |-> d(k)] \in [1 .. count -> Sq]
  BY <1>2
<1>5. [k \in 1 .. count |-> d(k)] \in Seq(Sq)
  BY <1>1, <1>4, SeqDef
<1> QED  BY <1>3, <1>5 DEF Sq

\* A displacement has two whole numbers, and so has the sum of two.
LEMMA PlusPairs ==
  ASSUME NEW a \in Int \X Int, NEW b \in Int \X Int
  PROVE  /\ Plus(a, b) \in Int \X Int
         /\ Plus(a, b)[1] = a[1] + b[1] /\ Plus(a, b)[2] = a[2] + b[2]
         /\ a[1] \in Int /\ a[2] \in Int
  BY DEF Plus

\* Of the first k candidates that are allowed, b is the one of the least
\* difference, of equal ones the nearest, of equally near ones the first.
Precedes(j, i, cand, sad, near) ==
  \/ sad[cand[j]] < sad[cand[i]]
  \/ /\ sad[cand[j]] = sad[cand[i]]
     /\ near[cand[j]] < near[cand[i]] \/ (near[cand[j]] = near[cand[i]] /\ j <= i)

Leads(j, k, cand, ok, sad, near) ==
  j \in 1 .. k /\ ok[j] /\ \A i \in 1 .. k : ok[i] => Precedes(j, i, cand, sad, near)

IsBest(k, b, cand, ok, sad, near) ==
  \/ b = None /\ \A i \in 1 .. k : ~ok[i]
  \/ \E j \in 1 .. k : Leads(j, k, cand, ok, sad, near) /\ b = [sad |-> sad[cand[j]], d |-> cand[j]]

\* One candidate more.
Try(k, b, cand, ok, sad, near) ==
  IF ok[k] /\ (b = None \/ sad[cand[k]] < b.sad \/ (sad[cand[k]] = b.sad /\ near[cand[k]] < near[b.d]))
  THEN [sad |-> sad[cand[k]], d |-> cand[k]] ELSE b

LEMMA BestGoesOn ==
  ASSUME NEW D, NEW sad \in [D -> Nat], NEW near \in [D -> Nat], NEW k \in Nat,
         NEW cand, NEW ok, \A i \in 1 .. k + 1 : cand[i] \in D,
         NEW b, IsBest(k, b, cand, ok, sad, near)
  PROVE  IsBest(k + 1, Try(k + 1, b, cand, ok, sad, near), cand, ok, sad, near)
<1> DEFINE this == [sad |-> sad[cand[k + 1]], d |-> cand[k + 1]]
           c == Try(k + 1, b, cand, ok, sad, near)
<1>1. k + 1 \in 1 .. k + 1 /\ \A i \in 1 .. k + 1 : i \in 1 .. k \/ i = k + 1
  OBVIOUS
<1>2. \A i \in 1 .. k + 1 : sad[cand[i]] \in Nat /\ near[cand[i]] \in Nat /\ i \in Nat
  OBVIOUS
<1>3. Precedes(k + 1, k + 1, cand, sad, near)
  BY <1>1, <1>2 DEF Precedes
<1>4. CASE b = None /\ \A i \in 1 .. k : ~ok[i]
  <2>1. CASE ok[k + 1]
    <3>1. c = this
      BY <1>4, <2>1 DEF Try
    <3>2. Leads(k + 1, k + 1, cand, ok, sad, near)
      BY <1>1, <1>3, <1>4, <2>1 DEF Leads
    <3> QED  BY <1>1, <3>1, <3>2 DEF IsBest
  <2>2. CASE ~ok[k + 1]
    <3>1. c = None
      BY <1>4, <2>2 DEF Try
    <3> QED  BY <1>1, <1>4, <2>2, <3>1 DEF IsBest
  <2> QED  BY <2>1, <2>2
<1>5. ASSUME NEW j \in 1 .. k, Leads(j, k, cand, ok, sad, near), b = [sad |-> sad[cand[j]], d |-> cand[j]]
      PROVE  IsBest(k + 1, c, cand, ok, sad, near)
  <2>1. j \in 1 .. k + 1 /\ ok[j] /\ \A i \in 1 .. k : ok[i] => Precedes(j, i, cand, sad, near)
    BY <1>5 DEF Leads
  <2>2. b.sad = sad[cand[j]] /\ b.d = cand[j] /\ b # None
    BY <1>2, <1>5, <2>1 DEF None
  <2> DEFINE better == \/ sad[cand[k + 1]] < sad[cand[j]]
                       \/ sad[cand[k + 1]] = sad[cand[j]] /\ near[cand[k + 1]] < near[cand[j]]
  <2>3. CASE ok[k + 1] /\ better
    <3>1. c = this
      BY <2>2, <2>3 DEF Try
    <3>2. ASSUME NEW i \in 1 .. k, ok[i] PROVE Precedes(k + 1, i, cand, sad, near)
      <4>1. Precedes(j, i, cand, sad, near) /\ i \in 1 .. k + 1
        BY <2>1, <3>2
      <4> QED  BY <1>1, <1>2, <2>1, <2>3, <4>1 DEF Precedes
    <3>3. Leads(k + 1, k + 1, cand, ok, sad, near)
      BY <1>1, <1>3, <2>3, <3>2 DEF Leads
    <3> QED  BY <1>1, <3>1, <3>3 DEF IsBest
  <2>4. CASE ~(ok[k + 1] /\ better)
    <3>1. c = b
      BY <2>2, <2>4 DEF Try
    <3>2. ok[k + 1] => Precedes(j, k + 1, cand, sad, near)
      BY <1>1, <1>2, <2>1, <2>4 DEF Precedes
    <3>3. Leads(j, k + 1, cand, ok, sad, near)
      BY <1>1, <2>1, <3>2 DEF Leads
    <3> QED  BY <1>5, <2>1, <3>1, <3>3 DEF IsBest
  <2> QED  BY <2>3, <2>4
<1> QED  BY <1>4, <1>5 DEF IsBest

\* There is no other.
LEMMA OneIsBest ==
  ASSUME NEW D, NEW sad \in [D -> Nat], NEW near \in [D -> Nat], NEW k \in Nat,
         NEW cand, NEW ok, \A i \in 1 .. k : cand[i] \in D,
         NEW b, IsBest(k, b, cand, ok, sad, near), NEW c, IsBest(k, c, cand, ok, sad, near)
  PROVE  b = c
<1>1. ASSUME NEW j \in 1 .. k, Leads(j, k, cand, ok, sad, near), NEW i \in 1 .. k, Leads(i, k, cand, ok, sad, near)
      PROVE  i = j
  <2>1. Precedes(j, i, cand, sad, near) /\ Precedes(i, j, cand, sad, near)
    BY <1>1 DEF Leads
  <2>2. sad[cand[i]] \in Nat /\ near[cand[i]] \in Nat /\ sad[cand[j]] \in Nat /\ near[cand[j]] \in Nat
    OBVIOUS
  <2> QED  BY <2>1, <2>2 DEF Precedes
<1>2. \A j \in 1 .. k : Leads(j, k, cand, ok, sad, near) => ok[j]
  BY DEF Leads
<1> QED  BY <1>1, <1>2 DEF IsBest

\* A search, candidate by candidate, has the best of those it has tried.
Searched(f, m, cand, ok, sad, near) ==
  /\ UpTo(f, m) /\ f[0] = None
  /\ \A k \in 0 .. m : IsBest(k, f[k], cand, ok, sad, near)
  /\ \A k \in 1 .. m : f[k] = Try(k, f[k - 1], cand, ok, sad, near)

LEMMA SearchIsBest ==
  ASSUME NEW D, NEW sad \in [D -> Nat], NEW near \in [D -> Nat], NEW m \in Nat,
         NEW cand, NEW ok, \A i \in 1 .. m : cand[i] \in D
  PROVE  \E f : Searched(f, m, cand, ok, sad, near)
<1> DEFINE Best(k, b) == IsBest(k, b, cand, ok, sad, near)
           f == [k \in 0 .. m |-> CHOOSE b : Best(k, b)]
           U == {k \in Nat : k <= m => \E b : Best(k, b)}
<1>1. 0 \in U /\ Best(0, None)
  BY DEF IsBest
<1>2. ASSUME NEW k \in Nat, k < m, NEW b, Best(k, b) PROVE Best(k + 1, Try(k + 1, b, cand, ok, sad, near))
  <2>1. \A i \in 1 .. k + 1 : cand[i] \in D
    BY <1>2
  <2> QED  BY <1>2, <2>1, BestGoesOn
<1>3. \A k \in U : k + 1 \in U
  <2> SUFFICES ASSUME NEW k \in Nat, k < m, \E b : Best(k, b) PROVE \E b : Best(k + 1, b)
    OBVIOUS
  <2>1. PICK b : Best(k, b)
    OBVIOUS
  <2> HIDE DEF Best
  <2> QED  BY <1>2, <2>1
<1>4. U \in SUBSET Nat
  OBVIOUS
<1>5. U = Nat
  <2> HIDE DEF U, Best
  <2> QED  BY <1>1, <1>3, <1>4, Induction
<1>6. \A k \in 0 .. m : Best(k, f[k])
  <2> TAKE k \in 0 .. m
  <2>1. k \in U /\ k <= m
    BY <1>5
  <2>2. \E b : Best(k, b)
    BY <2>1
  <2>3. f[k] = CHOOSE b : Best(k, b)
    OBVIOUS
  <2> HIDE DEF Best, f
  <2> QED  BY <2>2, <2>3
<1>7. UpTo(f, m)
  BY DEF UpTo
<1> HIDE DEF f, U
<1>8. ASSUME NEW k \in Nat, k <= m, NEW b, Best(k, b), NEW c, Best(k, c) PROVE b = c
  <2>1. \A i \in 1 .. k : cand[i] \in D
    BY <1>8
  <2> QED  BY <1>8, <2>1, OneIsBest
<1> HIDE DEF Best
<1>9. f[0] = None
  BY <1>1, <1>6, <1>8
<1>10. ASSUME NEW k \in 1 .. m PROVE f[k] = Try(k, f[k - 1], cand, ok, sad, near)
  <2>1. k - 1 \in Nat /\ k - 1 < m /\ k - 1 \in 0 .. m /\ (k - 1) + 1 = k /\ k \in 0 .. m /\ k \in Nat /\ k <= m
    OBVIOUS
  <2>2. Best(k - 1, f[k - 1]) /\ Best(k, f[k])
    BY <1>6, <2>1
  <2>3. Best((k - 1) + 1, Try((k - 1) + 1, f[k - 1], cand, ok, sad, near))
    BY <1>2, <2>1, <2>2
  <2> QED  BY <1>8, <2>1, <2>2, <2>3
<1> QED  BY <1>6, <1>7, <1>9, <1>10 DEF Best, Searched

LEMMA BestType ==
  ASSUME NEW D, NEW sad \in [D -> Nat], NEW near, NEW k \in Nat,
         NEW cand, NEW ok, \A i \in 1 .. k : cand[i] \in D, NEW b, IsBest(k, b, cand, ok, sad, near)
  PROVE  /\ b = None \/ (b.sad \in Nat /\ b.d \in D)
         /\ Found(b) <=> b # None
<1>1. CASE b = None
  BY <1>1 DEF None, Found
<1>2. ASSUME NEW j \in 1 .. k, b = [sad |-> sad[cand[j]], d |-> cand[j]]
      PROVE  b.sad \in Nat /\ b.d \in D
  <2>1. cand[j] \in D /\ sad[cand[j]] \in Nat
    OBVIOUS
  <2> QED  BY <1>2, <2>1
<1>3. b = None \/ (b.sad \in Nat /\ b.d \in D)
  BY <1>2 DEF IsBest
<1>4. b.sad \in Nat => Found(b) /\ b # None
  BY DEF Found, None
<1> QED  BY <1>1, <1>3, <1>4

\* align_frame: which displacements of a list keep a whole tile in the image.
MayTake(w, h, tile, x0, d0, tried) ==
  [k \in 1 .. Len(tried) |-> /\ x0[1] + tile <= w /\ x0[2] + tile <= h
                             /\ Inside(w, h, Plus(x0, Plus(d0, tried[k])), tile, tile)]

Lengths(D) == [d \in D |-> Length1(d)]

LEMMA AlignIsBest ==
  ASSUME NEW w \in Int, NEW h \in Int, NEW tile \in Int, NEW x0 \in Int \X Int, NEW d0 \in Int \X Int,
         NEW radius \in Nat, NEW Sq, Sq = (-radius .. radius) \X (-radius .. radius), NEW sad \in [Sq -> Nat]
  PROVE  IsBest(Len(Search(radius)), AlignTile(w, h, tile, x0, d0, radius, sad), Search(radius),
                MayTake(w, h, tile, x0, d0, Search(radius)), sad, Lengths(Sq))
<1> DEFINE tried == Search(radius)
           near == Lengths(Sq)
           ok == MayTake(w, h, tile, x0, d0, tried)
           m == Len(tried)
           Takes(k, x) == /\ x0[1] + tile <= w /\ x0[2] + tile <= h
                          /\ Inside(w, h, Plus(x0, Plus(d0, tried[k])), tile, tile)
                          /\ Better(sad[tried[k]], tried[k], x)
           One(k, x) == IF Takes(k, x) THEN [sad |-> sad[tried[k]], d |-> tried[k]] ELSE x
           After(g, k) == IF k = 0 THEN None ELSE One(k, g[k - 1])
           it == CHOOSE g : g = [k \in 0 .. m |-> After(g, k)]
           Best(k, b) == IsBest(k, b, tried, ok, sad, near)
<1>1. AlignTile(w, h, tile, x0, d0, radius, sad) = it[m]
  BY DEF AlignTile
<1>2. tried \in Seq(Sq)
  BY SearchInSquare
<1>3. near \in [Sq -> Nat] /\ sad \in [Sq -> Nat]
  BY DEF Lengths, Length1, Abs
<1> HIDE DEF tried
<1>4. m \in Nat /\ \A k \in 1 .. m : tried[k] \in Sq
  BY <1>2
<1>5. \A d \in Sq : near[d] = Length1(d)
  BY DEF Lengths
<1>6. \A k \in 1 .. m : ok[k] <=> /\ x0[1] + tile <= w /\ x0[2] + tile <= h
                                 /\ Inside(w, h, Plus(x0, Plus(d0, tried[k])), tile, tile)
  BY DEF MayTake
<1> HIDE DEF near, ok, m
<1>7. \E f : Searched(f, m, tried, ok, sad, near)
  BY <1>3, <1>4, SearchIsBest, Zenon
<1>8. PICK f : /\ UpTo(f, m) /\ f[0] = None
               /\ \A k \in 0 .. m : Best(k, f[k])
               /\ \A k \in 1 .. m : f[k] = Try(k, f[k - 1], tried, ok, sad, near)
  BY <1>7 DEF Searched
<1>9. ASSUME NEW k \in 1 .. m PROVE f[k] = One(k, f[k - 1])
  <2>1. k - 1 \in 0 .. m /\ k - 1 \in Nat /\ \A i \in 1 .. k - 1 : i \in 1 .. m
    BY <1>4
  <2>2. Best(k - 1, f[k - 1]) /\ f[k] = Try(k, f[k - 1], tried, ok, sad, near)
    BY <1>8, <2>1
  <2>3. /\ f[k - 1] = None \/ (f[k - 1].sad \in Nat /\ f[k - 1].d \in Sq)
        /\ Found(f[k - 1]) <=> f[k - 1] # None
    <3> DEFINE l == k - 1
               b == f[k - 1]
    <3>1. l \in Nat /\ (\A i \in 1 .. l : tried[i] \in Sq) /\ IsBest(l, b, tried, ok, sad, near)
      BY <1>4, <2>1, <2>2
    <3> HIDE DEF l, b
    <3>2. (b = None \/ (b.sad \in Nat /\ b.d \in Sq)) /\ (Found(b) <=> b # None)
      BY <1>3, <3>1, BestType
    <3> QED  BY <3>2 DEF b
  <2>4. tried[k] \in Sq /\ near[tried[k]] = Length1(tried[k])
    BY <1>4, <1>5
  <2>5. f[k - 1] # None => near[f[k - 1].d] = Length1(f[k - 1].d)
    BY <1>5, <2>3
  <2> QED  BY <1>6, <2>2, <2>3, <2>4, <2>5 DEF Try, Better
<1> HIDE DEF One, Best
<1>10. f = [k \in 0 .. m |-> After(f, k)]
  <2>1. ASSUME NEW k \in 0 .. m PROVE f[k] = After(f, k)
    <3>1. k = 0 \/ k \in 1 .. m
      OBVIOUS
    <3> QED  BY <1>8, <1>9, <3>1
  <2> HIDE DEF After
  <2> QED  BY <1>8, <2>1 DEF UpTo
<1>11. it = [k \in 0 .. m |-> After(it, k)]
  <2> HIDE DEF After
  <2> QED  BY <1>10
<1> HIDE DEF it
<1>12. m \in Nat /\ it[0] = f[0]
  BY <1>4, <1>10, <1>11
<1>13. ASSUME NEW k \in Nat, k < m, it[k] = f[k] PROVE it[k + 1] = f[k + 1]
  <2>1. k + 1 \in 0 .. m /\ k + 1 # 0 /\ (k + 1) - 1 = k
    BY <1>4, <1>13
  <2>2. it[k + 1] = After(it, k + 1) /\ f[k + 1] = After(f, k + 1)
    <3> HIDE DEF After
    <3> QED  BY <1>10, <1>11, <2>1
  <2> QED  BY <1>13, <2>1, <2>2
<1> HIDE DEF After
<1>14. it[m] = f[m]
  <2>1. \A k \in 0 .. m : it[k] = f[k]
    BY <1>12, <1>13, Alike
  <2> QED  BY <1>4, <2>1
<1>15. Best(m, it[m])
  BY <1>4, <1>8, <1>14
<1> QED  BY <1>1, <1>15 DEF Best, m, ok, near, tried

\* What the search for a tile ends with is a displacement.
LEMMA AlignFinds ==
  ASSUME NEW w \in Int, NEW h \in Int, NEW tile \in Int, NEW x0 \in Int \X Int, NEW d0 \in Int \X Int,
         NEW radius \in Nat, NEW sad \in [(-radius .. radius) \X (-radius .. radius) -> Nat]
  PROVE  AlignTile(w, h, tile, x0, d0, radius, sad).d \in Int \X Int
<1> DEFINE best == AlignTile(w, h, tile, x0, d0, radius, sad)
           tried == Search(radius)
           Sq == (-radius .. radius) \X (-radius .. radius)
           ok == MayTake(w, h, tile, x0, d0, tried)
           near == Lengths(Sq)
<1>1. IsBest(Len(tried), best, tried, ok, sad, near)
  BY AlignIsBest
<1>2. tried \in Seq(Sq) /\ Sq \subseteq Int \X Int
  BY SearchInSquare
<1> HIDE DEF best, tried, ok, near, Sq
<1>3. Len(tried) \in Nat /\ \A i \in 1 .. Len(tried) : tried[i] \in Sq
  BY <1>2
<1>4. sad \in [Sq -> Nat]
  BY DEF Sq
<1>5. best = None \/ (best.sad \in Nat /\ best.d \in Sq)
  BY <1>1, <1>3, <1>4, BestType
<1> QED  BY <1>2, <1>5 DEF best, None

\* merge_burst and merge_burst_wiener: which candidates keep the tile in the image.
\* Of equal differences the first is taken, however far it is.
MayStay(w, h, x0, tw, th, candidates) ==
  [k \in 1 .. Len(candidates) |-> Inside(w, h, Plus(x0, candidates[k]), tw, th)]
NoneNearer(D) == [d \in D |-> 0]

LEMMA CandidateIsBest ==
  ASSUME NEW w, NEW h, NEW x0, NEW tw, NEW th,
         NEW D, NEW candidates \in Seq(D), NEW sad \in [D -> Nat]
  PROVE  IsBest(Len(candidates), BestCandidate(w, h, x0, tw, th, candidates, sad), candidates,
                MayStay(w, h, x0, tw, th, candidates), sad, NoneNearer(D))
<1> DEFINE near == NoneNearer(D)
           ok == MayStay(w, h, x0, tw, th, candidates)
           m == Len(candidates)
           Takes(k, x) == Inside(w, h, Plus(x0, candidates[k]), tw, th) /\ LessThan(sad[candidates[k]], candidates[k], x)
           One(k, x) == IF Takes(k, x) THEN [sad |-> sad[candidates[k]], d |-> candidates[k]] ELSE x
           After(g, k) == IF k = 0 THEN None ELSE One(k, g[k - 1])
           it == CHOOSE g : g = [k \in 0 .. m |-> After(g, k)]
           Best(k, b) == IsBest(k, b, candidates, ok, sad, near)
<1>1. BestCandidate(w, h, x0, tw, th, candidates, sad) = it[m]
  BY DEF BestCandidate
<1>2. near \in [D -> Nat]
  BY DEF NoneNearer
<1>3. m \in Nat /\ \A k \in 1 .. m : candidates[k] \in D
  OBVIOUS
<1>4. \A d \in D : near[d] = 0
  BY DEF NoneNearer
<1>5. \A k \in 1 .. m : ok[k] <=> Inside(w, h, Plus(x0, candidates[k]), tw, th)
  BY DEF MayStay
<1> HIDE DEF near, ok, m
<1>6. \E f : Searched(f, m, candidates, ok, sad, near)
  BY <1>2, <1>3, SearchIsBest, Zenon
<1>7. PICK f : /\ UpTo(f, m) /\ f[0] = None
               /\ \A k \in 0 .. m : Best(k, f[k])
               /\ \A k \in 1 .. m : f[k] = Try(k, f[k - 1], candidates, ok, sad, near)
  BY <1>6 DEF Searched
<1>8. ASSUME NEW k \in 1 .. m PROVE f[k] = One(k, f[k - 1])
  <2>1. k - 1 \in 0 .. m /\ k - 1 \in Nat /\ \A i \in 1 .. k - 1 : i \in 1 .. m
    BY <1>3
  <2>2. Best(k - 1, f[k - 1]) /\ f[k] = Try(k, f[k - 1], candidates, ok, sad, near)
    BY <1>7, <2>1
  <2>3. /\ f[k - 1] = None \/ (f[k - 1].sad \in Nat /\ f[k - 1].d \in D)
        /\ Found(f[k - 1]) <=> f[k - 1] # None
    <3> DEFINE l == k - 1
               b == f[k - 1]
    <3>1. l \in Nat /\ (\A i \in 1 .. l : candidates[i] \in D) /\ IsBest(l, b, candidates, ok, sad, near)
      BY <1>3, <2>1, <2>2
    <3> HIDE DEF l, b
    <3>2. (b = None \/ (b.sad \in Nat /\ b.d \in D)) /\ (Found(b) <=> b # None)
      BY <3>1, BestType
    <3> QED  BY <3>2 DEF b
  <2>4. candidates[k] \in D /\ near[candidates[k]] = 0
    BY <1>3, <1>4
  <2>5. f[k - 1] # None => near[f[k - 1].d] = 0
    BY <1>4, <2>3
  <2> QED  BY <1>5, <2>2, <2>3, <2>4, <2>5 DEF Try, LessThan
<1> HIDE DEF One, Best
<1>9. f = [k \in 0 .. m |-> After(f, k)]
  <2>1. ASSUME NEW k \in 0 .. m PROVE f[k] = After(f, k)
    <3>1. k = 0 \/ k \in 1 .. m
      OBVIOUS
    <3> QED  BY <1>7, <1>8, <3>1
  <2> HIDE DEF After
  <2> QED  BY <1>7, <2>1 DEF UpTo
<1>10. it = [k \in 0 .. m |-> After(it, k)]
  <2> HIDE DEF After
  <2> QED  BY <1>9
<1> HIDE DEF it
<1>11. m \in Nat /\ it[0] = f[0]
  BY <1>3, <1>9, <1>10
<1>12. ASSUME NEW k \in Nat, k < m, it[k] = f[k] PROVE it[k + 1] = f[k + 1]
  <2>1. k + 1 \in 0 .. m /\ k + 1 # 0 /\ (k + 1) - 1 = k
    BY <1>3, <1>12
  <2>2. it[k + 1] = After(it, k + 1) /\ f[k + 1] = After(f, k + 1)
    <3> HIDE DEF After
    <3> QED  BY <1>9, <1>10, <2>1
  <2> QED  BY <1>12, <2>1, <2>2
<1> HIDE DEF After
<1>13. it[m] = f[m]
  <2>1. \A k \in 0 .. m : it[k] = f[k]
    <3>1. \A k \in Nat : k < m /\ it[k] = f[k] => it[k + 1] = f[k + 1]
      BY <1>12
    <3> HIDE DEF m
    <3> QED  BY <1>11, <3>1, Alike
  <2> QED  BY <1>3, <2>1
<1>14. Best(m, it[m])
  BY <1>3, <1>7, <1>13
<1> QED  BY <1>1, <1>14 DEF Best, m, ok, near

\* The candidate that is taken keeps the tile inside the image.
LEMMA BestIsInside ==
  ASSUME NEW w \in Int, NEW h \in Int, NEW x0 \in Int \X Int, NEW tw \in Int, NEW th \in Int,
         NEW D \in SUBSET (Int \X Int), NEW candidates \in Seq(D), NEW sad \in [D -> Nat]
  PROVE  LET best == BestCandidate(w, h, x0, tw, th, candidates, sad)
         IN best.d \in Int \X Int /\ (Found(best) => Inside(w, h, Plus(x0, best.d), tw, th))
<1> DEFINE best == BestCandidate(w, h, x0, tw, th, candidates, sad)
           m == Len(candidates)
           ok == MayStay(w, h, x0, tw, th, candidates)
           near == NoneNearer(D)
<1>1. IsBest(m, best, candidates, ok, sad, near)
  BY CandidateIsBest
<1>2. \A k \in 1 .. m : candidates[k] \in D /\ (ok[k] => Inside(w, h, Plus(x0, candidates[k]), tw, th))
  BY DEF MayStay
<1> HIDE DEF best, m, ok, near
<1>3. CASE best = None
  <2>1. ~Found(best) /\ best.d \in Int \X Int
    BY <1>3 DEF None, Found
  <2> QED  BY <2>1 DEF best
<1>4. ASSUME NEW k \in 1 .. m, ok[k], best = [sad |-> sad[candidates[k]], d |-> candidates[k]]
      PROVE  best.d \in Int \X Int /\ (Found(best) => Inside(w, h, Plus(x0, best.d), tw, th))
  <2>1. best.d = candidates[k]
    BY <1>4
  <2> QED  BY <1>2, <1>4, <2>1
<1>5. best = None \/ \E k \in 1 .. m : ok[k] /\ best = [sad |-> sad[candidates[k]], d |-> candidates[k]]
  BY <1>1 DEF IsBest, Leads
<1> QED  BY <1>3, <1>4, <1>5 DEF best

\* The list s has each of the first k candidates once, in the order in which they
\* first come: pos is where.
FirstSeen(s, k, candidates) ==
  \E pos \in [1 .. Len(s) -> 1 .. k] :
    /\ \A a \in 1 .. Len(s) : s[a] = candidates[pos[a]]
    /\ \A a, b \in 1 .. Len(s) : a < b => pos[a] < pos[b]
    /\ \A i \in 1 .. k : \E a \in 1 .. Len(s) : s[a] = candidates[i] /\ pos[a] <= i

LEMMA SeenGoesOn ==
  ASSUME NEW D, NEW k \in Nat, NEW candidates, candidates[k + 1] \in D,
         NEW s \in Seq(D), FirstSeen(s, k, candidates)
  PROVE  FirstSeen(IF candidates[k + 1] \in Range(s) THEN s ELSE Append(s, candidates[k + 1]), k + 1, candidates)
<1> DEFINE c == candidates[k + 1]
           l == Len(s)
<1>1. PICK pos \in [1 .. l -> 1 .. k] :
        /\ \A a \in 1 .. l : s[a] = candidates[pos[a]]
        /\ \A a, b \in 1 .. l : a < b => pos[a] < pos[b]
        /\ \A i \in 1 .. k : \E a \in 1 .. l : s[a] = candidates[i] /\ pos[a] <= i
  BY DEF FirstSeen
<1>2. l \in Nat /\ \A a \in 1 .. l : pos[a] \in 1 .. k /\ pos[a] \in 1 .. k + 1 /\ pos[a] \in Nat
  <2>1. l \in Nat
    OBVIOUS
  <2> HIDE DEF l
  <2> QED  BY <1>1, <2>1
<1>3. \A i \in 1 .. k + 1 : i \in 1 .. k \/ i = k + 1
  OBVIOUS
<1>4. CASE c \in Range(s)
  <2>1. PICK a0 \in 1 .. l : s[a0] = c
    BY <1>4 DEF Range
  <2> HIDE DEF l
  <2>2. pos \in [1 .. l -> 1 .. k + 1]
    BY <1>1, <1>2
  <2>3. pos[a0] <= k + 1
    BY <1>2, <2>1
  <2>4. \A i \in 1 .. k + 1 : \E a \in 1 .. l : s[a] = candidates[i] /\ pos[a] <= i
    BY <1>1, <1>3, <2>1, <2>3
  <2>5. FirstSeen(s, k + 1, candidates)
    BY <1>1, <2>2, <2>4 DEF FirstSeen, l
  <2> QED  BY <1>4, <2>5
<1>5. CASE c \notin Range(s)
  <2> DEFINE t == Append(s, c)
             p == [a \in 1 .. l + 1 |-> IF a = l + 1 THEN k + 1 ELSE pos[a]]
  <2>1. /\ Len(t) = l + 1 /\ t[l + 1] = c
        /\ \A a \in 1 .. l : t[a] = s[a]
    OBVIOUS
  <2> HIDE DEF l, t
  <2>2. \A a \in 1 .. l + 1 : a = l + 1 \/ (a \in 1 .. l /\ a # l + 1)
    BY <1>2
  <2>3. l + 1 \in 1 .. l + 1 /\ \A a \in 1 .. l : a \in 1 .. l + 1 /\ a # l + 1
    BY <1>2
  <2>4. p[l + 1] = k + 1 /\ \A a \in 1 .. l : p[a] = pos[a]
    BY <2>3
  <2>5. p \in [1 .. l + 1 -> 1 .. k + 1]
    BY <1>2, <2>2
  <2> HIDE DEF p
  <2>6. \A a \in 1 .. l + 1 : t[a] = candidates[p[a]]
    BY <1>1, <2>1, <2>2, <2>4
  <2>7. ASSUME NEW a \in 1 .. l + 1, NEW b \in 1 .. l + 1, a < b PROVE p[a] < p[b]
    <3>1. a \in 1 .. l
      BY <1>2, <2>7
    <3>2. p[a] = pos[a] /\ pos[a] \in 1 .. k
      BY <1>2, <2>4, <3>1
    <3>3. CASE b = l + 1
      BY <2>4, <3>2, <3>3
    <3>4. CASE b \in 1 .. l
      BY <1>1, <2>4, <2>7, <3>1, <3>4
    <3> QED  BY <2>2, <3>3, <3>4
  <2>8. ASSUME NEW i \in 1 .. k + 1 PROVE \E a \in 1 .. l + 1 : t[a] = candidates[i] /\ p[a] <= i
    <3>1. CASE i = k + 1
      BY <2>1, <2>3, <2>4, <3>1
    <3>2. CASE i \in 1 .. k
      <4>1. PICK a \in 1 .. l : s[a] = candidates[i] /\ pos[a] <= i
        BY <1>1, <3>2
      <4> QED  BY <2>1, <2>3, <2>4, <4>1
    <3> QED  BY <1>3, <3>1, <3>2
  <2>9. FirstSeen(t, k + 1, candidates)
    <3> DEFINE size == Len(t)
    <3>1. /\ p \in [1 .. size -> 1 .. k + 1]
          /\ \A a \in 1 .. size : t[a] = candidates[p[a]]
          /\ \A a, b \in 1 .. size : a < b => p[a] < p[b]
          /\ \A i \in 1 .. k + 1 : \E a \in 1 .. size : t[a] = candidates[i] /\ p[a] <= i
      BY <2>1, <2>5, <2>6, <2>7, <2>8
    <3> HIDE DEF size, p
    <3>2. \E pp \in [1 .. size -> 1 .. k + 1] :
            /\ \A a \in 1 .. size : t[a] = candidates[pp[a]]
            /\ \A a, b \in 1 .. size : a < b => pp[a] < pp[b]
            /\ \A i \in 1 .. k + 1 : \E a \in 1 .. size : t[a] = candidates[i] /\ pp[a] <= i
      BY <3>1, Zenon
    <3> QED  BY <3>2, Zenon DEF FirstSeen, size
  <2> QED  BY <1>5, <2>9 DEF t
<1> QED  BY <1>4, <1>5

\* cand_seen: the list has each candidate once, in the order in which they come.
LEMMA SeenInOrder ==
  ASSUME NEW D, NEW candidates \in Seq(D)
  PROVE  /\ Seen(candidates) \in Seq(D) /\ Len(Seen(candidates)) <= Len(candidates)
         /\ FirstSeen(Seen(candidates), Len(candidates), candidates)
<1> DEFINE m == Len(candidates)
           Vals == Seq(D)
           a == <<>>
           One(k, x) == IF candidates[k] \in Range(x) THEN x ELSE Append(x, candidates[k])
           G == [k \in Nat |-> [x \in Vals |-> IF k + 1 \in 1 .. m THEN One(k + 1, x) ELSE x]]
           After(g, k) == IF k = 0 THEN a ELSE One(k, g[k - 1])
           it == CHOOSE g : g = [k \in 0 .. m |-> After(g, k)]
<1>1. Seen(candidates) = it[m]
  BY DEF Seen
<1>2. m \in Nat /\ \A k \in 1 .. m : candidates[k] \in D
  OBVIOUS
<1>3. a \in Vals /\ Len(a) = 0
  OBVIOUS
<1>4. \A k \in 1 .. m, x \in Vals : One(k, x) \in Vals /\ Len(One(k, x)) <= Len(x) + 1 /\ Len(x) \in Nat
  BY <1>2
<1> HIDE DEF m, Vals, a, One
<1>5. G \in [Nat -> [Vals -> Vals]] /\ \A k \in Nat, x \in Vals : k + 1 \in 1 .. m => G[k][x] = One(k + 1, x)
  BY <1>4
<1> HIDE DEF G
<1>6. Steps(m, it, Vals, a, G)
  <2>1. PICK f : Steps(m, f, Vals, a, G)
    <3>1. G \in [Nat -> [Vals -> Vals]] /\ m \in Nat /\ a \in Vals
      BY <1>2, <1>3, <1>5
    <3> QED  BY <3>1, Finitely
  <2>2. f = [k \in 0 .. m |-> After(f, k)]
    <3>1. f \in [0 .. m -> Vals] /\ f[0] = a
      BY <2>1 DEF Steps
    <3>2. ASSUME NEW k \in 0 .. m, k # 0 PROVE f[k] = One(k, f[k - 1])
      <4>1. k - 1 \in Nat /\ k - 1 < m /\ k - 1 \in 0 .. m /\ (k - 1) + 1 = k /\ k \in 1 .. m
        BY <1>2, <3>2
      <4>2. f[(k - 1) + 1] = G[k - 1][f[k - 1]] /\ f[k - 1] \in Vals
        BY <2>1, <3>1, <4>1 DEF Steps
      <4> QED  BY <1>5, <4>1, <4>2
    <3> QED  BY <3>1, <3>2
  <2>3. it = [k \in 0 .. m |-> After(it, k)]
    <3> HIDE DEF After
    <3> QED  BY <2>2
  <2> HIDE DEF it
  <2>4. UpTo(it, m) /\ it[0] = a
    BY <1>2, <2>3 DEF UpTo
  <2>5. ASSUME NEW k \in Nat, k < m, it[k] \in Vals PROVE it[k + 1] = G[k][it[k]]
    <3>1. k + 1 \in 0 .. m /\ k + 1 \in 1 .. m /\ k + 1 # 0 /\ (k + 1) - 1 = k
      BY <1>2, <2>5
    <3>2. it[k + 1] = One(k + 1, it[k])
      BY <2>3, <3>1
    <3> QED  BY <1>5, <2>5, <3>1, <3>2
  <2>6. G \in [Nat -> [Vals -> Vals]] /\ m \in Nat /\ a \in Vals
    BY <1>2, <1>3, <1>5
  <2> QED  BY <2>4, <2>5, <2>6, Followed
<1> HIDE DEF it
<1>7. it \in [0 .. m -> Vals] /\ it[0] = a /\ m \in 0 .. m
  BY <1>2, <1>6 DEF Steps
<1> DEFINE V == {k \in Nat : k <= m => Len(it[k]) <= k /\ FirstSeen(it[k], k, candidates)}
<1>8. 0 \in V
  <2>1. FirstSeen(a, 0, candidates)
    <3>1. a = <<>> /\ Len(a) = 0
      BY <1>3 DEF a
    <3> DEFINE pos == [i \in 1 .. 0 |-> i]
    <3>2. /\ pos \in [1 .. 0 -> 1 .. 0]
          /\ \A i \in 1 .. 0 : FALSE
      OBVIOUS
    <3> HIDE DEF pos
    <3> QED  BY <3>1, <3>2 DEF FirstSeen
  <2> QED  BY <1>3, <1>7, <2>1
<1>9. \A k \in V : k + 1 \in V
  <2> SUFFICES ASSUME NEW k \in V, k + 1 <= m PROVE Len(it[k + 1]) <= k + 1 /\ FirstSeen(it[k + 1], k + 1, candidates)
    OBVIOUS
  <2>1. k \in Nat /\ k < m /\ k \in 0 .. m /\ k + 1 \in 0 .. m /\ k + 1 \in 1 .. m /\ Len(it[k]) <= k
          /\ FirstSeen(it[k], k, candidates)
    BY <1>2
  <2>2. it[k] \in Vals /\ it[k + 1] = G[k][it[k]]
    BY <1>6, <1>7, <2>1 DEF Steps
  <2>3. it[k + 1] = One(k + 1, it[k])
    BY <1>5, <2>1, <2>2
  <2>4. Len(it[k + 1]) <= Len(it[k]) + 1 /\ Len(it[k]) \in Nat /\ it[k + 1] \in Vals /\ Len(it[k + 1]) \in Nat
    BY <1>4, <1>7, <2>1, <2>2, <2>3 DEF Vals
  <2>5. FirstSeen(One(k + 1, it[k]), k + 1, candidates)
    <3>1. candidates[k + 1] \in D /\ it[k] \in Seq(D)
      BY <1>2, <2>1, <2>2 DEF Vals
    <3> QED  BY <2>1, <3>1, SeenGoesOn DEF One
  <2> QED  BY <2>1, <2>3, <2>4, <2>5
<1>10. V \in SUBSET Nat
  OBVIOUS
<1> HIDE DEF V
<1>11. V = Nat
  BY <1>8, <1>9, <1>10, Induction
<1>12. it[m] \in Vals /\ Len(it[m]) <= m /\ FirstSeen(it[m], m, candidates)
  BY <1>2, <1>7, <1>11 DEF V
<1> QED  BY <1>1, <1>12 DEF Vals, m

\* The tiles of the motion field under a tile of the merge are there, and at most
\* two along each axis.
LEMMA FieldTilesFew ==
  ASSUME NEW side \in Nat \ {0}, NEW k \in Nat, NEW tw \in 1 .. 2 * side, NEW tiles \in Nat \ {0}
  PROVE  LET first == FieldTile(k * side, side, tiles)
             last == FieldTile(k * side + tw - 1, side, tiles)
         IN /\ FieldTiles(k * side, tw, side, tiles) = first .. last
            /\ first \in 0 .. tiles - 1 /\ last \in 0 .. tiles - 1
            /\ first <= last /\ last <= first + 1
<1> DEFINE x == k * side
           u == x \div 2
           v == (x + tw - 1) \div 2
           p == u \div side
           q == v \div side
<1>1. x \in Nat
  OBVIOUS
<1> HIDE DEF x
<1>2. u \in Nat /\ v \in Nat /\ u <= v /\ v <= u + side
  BY <1>1
<1> HIDE DEF u, v
<1>3. /\ u = p * side + (u % side) /\ u % side \in 0 .. side - 1 /\ p \in Int
      /\ v = q * side + (v % side) /\ v % side \in 0 .. side - 1 /\ q \in Int
  BY <1>2, DivModOf
<1> DEFINE r == u % side
           s == v % side
<1>4. u = p * side + r /\ v = q * side + s /\ r \in 0 .. side - 1 /\ s \in 0 .. side - 1 /\ p \in Int /\ q \in Int
  BY <1>3
<1> HIDE DEF p, q, r, s
<1>5. p >= 0
  <2> SUFFICES ASSUME p <= -1 PROVE FALSE
    BY <1>4
  <2>1. p * side <= -side
    BY <1>4
  <2> QED  BY <1>2, <1>4, <2>1
<1>6. p <= q
  <2> SUFFICES ASSUME q <= p - 1 PROVE FALSE
    BY <1>4
  <2>1. q * side <= (p - 1) * side
    BY <1>4
  <2>2. (p - 1) * side = p * side - side
    BY <1>4
  <2>3. p * side \in Int /\ q * side \in Int
    BY <1>4
  <2> QED  BY <1>2, <1>4, <2>1, <2>2, <2>3
<1>7. q <= p + 1
  <2> SUFFICES ASSUME q >= p + 2 PROVE FALSE
    BY <1>4
  <2>1. q * side >= (p + 2) * side
    BY <1>4
  <2>2. (p + 2) * side = p * side + 2 * side
    BY <1>4
  <2>3. p * side \in Int /\ q * side \in Int
    BY <1>4
  <2> QED  BY <1>2, <1>4, <2>1, <2>2, <2>3
<1>8. FieldTile(x, side, tiles) = Least(p, tiles - 1) /\ FieldTile(x + tw - 1, side, tiles) = Least(q, tiles - 1)
  BY DEF FieldTile, u, v, p, q
<1>9. FieldTiles(x, tw, side, tiles) = FieldTile(x, side, tiles) .. FieldTile(x + tw - 1, side, tiles)
  BY DEF FieldTiles
<1>10. /\ Least(p, tiles - 1) \in 0 .. tiles - 1 /\ Least(q, tiles - 1) \in 0 .. tiles - 1
       /\ Least(p, tiles - 1) <= Least(q, tiles - 1) /\ Least(q, tiles - 1) <= Least(p, tiles - 1) + 1
  BY <1>4, <1>5, <1>6, <1>7 DEF Least
<1> QED  BY <1>8, <1>9, <1>10 DEF x

\* The least number of an interval is its first.
LEMMA MinOfInterval ==
  ASSUME NEW i \in Int, NEW j \in Int, i <= j
  PROVE  Min(i .. j) = i
<1>1. \A u \in i .. j : (\A y \in i .. j : u <= y) => u = i
  OBVIOUS
<1>2. i \in i .. j /\ \A y \in i .. j : i <= y
  OBVIOUS
<1> QED  BY <1>1, <1>2 DEF Min

\* The candidates for a tile are the displacements of the tiles of the motion
\* field under it, four at most, row by row.
Placed(candidates, field) ==
  \E place \in [1 .. Len(candidates) -> DOMAIN field] :
    /\ \A k \in 1 .. Len(candidates) : candidates[k] = Twice(field[place[k]])
    /\ \A g \in DOMAIN field : \E k \in 1 .. Len(candidates) : place[k] = g
    /\ \A k, l \in 1 .. Len(candidates) : k < l => RowByRow(place[k], place[l])

LEMMA CandidatesInOrder ==
  ASSUME NEW i \in Int, NEW wide \in 1 .. 2, NEW j \in Int, NEW tall \in 1 .. 2,
         NEW field \in [(i .. i + wide - 1) \X (j .. j + tall - 1) -> Int \X Int]
  PROVE  LET candidates == Candidates(field, i .. i + wide - 1, j .. j + tall - 1)
         IN candidates \in Seq(Int \X Int) /\ Len(candidates) <= 4 /\ Placed(candidates, field)
<1> DEFINE gxs == i .. i + wide - 1
           gys == j .. j + tall - 1
           m == wide * tall
           d(k) == ToBayer(field, <<i + ((k - 1) % wide), j + ((k - 1) \div wide)>>)
<1>1. Cardinality(gxs) = wide /\ Cardinality(gys) = tall
  <2>1. i + wide - 1 \in Int /\ j + tall - 1 \in Int /\ i + wide - 1 >= i /\ j + tall - 1 >= j
    OBVIOUS
  <2>2. Cardinality(gxs) = (i + wide - 1) - i + 1
    BY <2>1, FS_Interval
  <2>3. Cardinality(gys) = (j + tall - 1) - j + 1
    BY <2>1, FS_Interval
  <2> QED  BY <2>2, <2>3
<1>2. Min(gxs) = i /\ Min(gys) = j
  BY MinOfInterval
<1>3. m \in 1 .. 4
  <2>1. CASE wide = 1
    BY <2>1
  <2>2. CASE wide = 2
    BY <2>2
  <2> QED  BY <2>1, <2>2
<1>4. ASSUME NEW k \in 1 .. m
      PROVE  (k - 1) % wide \in 0 .. wide - 1 /\ (k - 1) \div wide \in 0 .. tall - 1
  <2>1. CASE wide = 1
    BY <2>1
  <2>2. CASE wide = 2
    BY <2>2
  <2> QED  BY <2>1, <2>2
<1>5. ASSUME NEW k \in 1 .. m PROVE d(k) \in Int \X Int
  <2> DEFINE g == <<i + ((k - 1) % wide), j + ((k - 1) \div wide)>>
  <2>1. g \in gxs \X gys
    BY <1>4
  <2> HIDE DEF g
  <2>2. field[g] \in Int \X Int
    BY <2>1
  <2>3. Twice(field[g]) \in Int \X Int
    BY <2>2 DEF Twice
  <2> QED  BY <2>3 DEF ToBayer, g
<1> DEFINE place == [k \in 1 .. m |-> <<i + ((k - 1) % wide), j + ((k - 1) \div wide)>>]
<1>a. /\ place \in [1 .. m -> gxs \X gys]
      /\ \A k \in 1 .. m : d(k) = Twice(field[place[k]])
  BY <1>4 DEF ToBayer
<1>b. \A g \in gxs \X gys : \E k \in 1 .. m : place[k] = g
  <2> SUFFICES ASSUME NEW g \in gxs \X gys PROVE \E k \in 1 .. m : place[k] = g
    OBVIOUS
  <2>1. PICK u \in 0 .. wide - 1, v \in 0 .. tall - 1 : g = <<i + u, j + v>>
    <3>1. g[1] - i \in 0 .. wide - 1 /\ g[2] - j \in 0 .. tall - 1
          /\ g = <<i + (g[1] - i), j + (g[2] - j)>>
      OBVIOUS
    <3> QED  BY <3>1
  <2>2. \E k \in 1 .. m : (k - 1) % wide = u /\ (k - 1) \div wide = v
    <3>1. CASE wide = 1
      <4>1. v + 1 \in 1 .. m /\ ((v + 1) - 1) % wide = u /\ ((v + 1) - 1) \div wide = v
        BY <3>1
      <4> QED  BY <4>1
    <3>2. CASE wide = 2
      <4>1. 2 * v + u + 1 \in 1 .. m /\ ((2 * v + u + 1) - 1) % wide = u /\ ((2 * v + u + 1) - 1) \div wide = v
        BY <3>2
      <4> QED  BY <4>1
    <3> QED  BY <3>1, <3>2
  <2> QED  BY <2>1, <2>2
<1>c. \A k, l \in 1 .. m : k < l => RowByRow(place[k], place[l])
  <2> SUFFICES ASSUME NEW k \in 1 .. m, NEW l \in 1 .. m, k < l PROVE RowByRow(place[k], place[l])
    OBVIOUS
  <2>1. CASE wide = 1
    BY <2>1 DEF RowByRow
  <2>2. CASE wide = 2
    BY <2>2 DEF RowByRow
  <2> QED  BY <2>1, <2>2
<1>6. Candidates(field, gxs, gys) = [k \in 1 .. m |-> d(k)]
  BY <1>1, <1>2 DEF Candidates
<1> HIDE DEF d, m, place
<1>7. [k \in 1 .. m |-> d(k)] \in [1 .. m -> Int \X Int] /\ m \in Nat
  BY <1>3, <1>5
<1>8. [k \in 1 .. m |-> d(k)] \in Seq(Int \X Int)
  BY <1>7, SeqDef
<1>9. Len([k \in 1 .. m |-> d(k)]) = m
  <2> DEFINE s == [k \in 1 .. m |-> d(k)]
  <2>1. DOMAIN s = 1 .. m
    OBVIOUS
  <2> HIDE DEF s
  <2>2. DOMAIN s = 1 .. Len(s) /\ Len(s) \in Nat
    BY <1>8, LenProperties DEF s
  <2>3. m \in 1 .. Len(s) /\ (Len(s) = 0 \/ Len(s) \in 1 .. m)
    BY <1>3, <2>1, <2>2
  <2> QED  BY <1>3, <2>2, <2>3 DEF s
<1>10. Placed(Candidates(field, gxs, gys), field)
  <2> DEFINE s == Candidates(field, gxs, gys)
  <2>1. DOMAIN field = gxs \X gys
    OBVIOUS
  <2>2. Len(s) = m /\ \A k \in 1 .. m : s[k] = d(k)
    BY <1>6, <1>9
  <2> HIDE DEF s, gxs, gys
  <2>3. /\ place \in [1 .. Len(s) -> DOMAIN field]
        /\ \A k \in 1 .. Len(s) : s[k] = Twice(field[place[k]])
        /\ \A g \in DOMAIN field : \E k \in 1 .. Len(s) : place[k] = g
        /\ \A k, l \in 1 .. Len(s) : k < l => RowByRow(place[k], place[l])
    BY <1>a, <1>b, <1>c, <2>1, <2>2
  <2> QED  BY <2>3, Zenon DEF Placed, s
<1> QED  BY <1>3, <1>6, <1>8, <1>9, <1>10

\* The tiles of a motion field are numbered along x and along y.
Numbered(field) == DOMAIN field \subseteq Int \X Int

\* A level has a tile.
LEMMA TilesExist ==
  ASSUME NEW size \in Nat, NEW side \in Nat \ {0}
  PROVE  TilesOf(size, side) \in Nat \ {0}
<1> DEFINE q == size \div side
<1>1. q \in Nat
  BY QuotientType
<1>2. TilesOf(size, side) = Most(1, q)
  BY DEF TilesOf
<1> HIDE DEF q
<1> QED  BY <1>1, <1>2 DEF Most

\* A tile of the merge, the tiles of the motion field under it and the
\* displacements it has to choose from.
MergeArguments(f, m, shift, sads) ==
  LET w == f[1]
      h == f[2]
      side == 2 * GrayTile
      x0 == <<m[1] * GrayTile, m[2] * GrayTile>>
      tw == Least(side, w - x0[1])
      th == Least(side, h - x0[2])
      tiles == <<TilesOf(w \div 2, GrayTile), TilesOf(h \div 2, GrayTile)>>
      gxs == FieldTiles(x0[1], tw, GrayTile, tiles[1])
      gys == FieldTiles(x0[2], th, GrayTile, tiles[2])
      field == [g \in gxs \X gys |-> shift[<<g[1] % 2, g[2] % 2>>]]
      candidates == Candidates(field, gxs, gys)
      sad == [d \in Range(candidates) |-> sads[Length1(d) % 3]]
  IN /\ w \in Nat /\ h \in Nat /\ GrayTile \in Nat \ {0} /\ side \in Nat \ {0}
     /\ x0 \in Int \X Int /\ x0[1] \in Nat /\ x0[2] \in Nat
     /\ tw \in 1 .. side /\ th \in 1 .. side /\ tw <= w - x0[1] /\ th <= h - x0[2]
     /\ tiles[1] \in Nat \ {0} /\ tiles[2] \in Nat \ {0}
     /\ gxs \subseteq 0 .. tiles[1] - 1 /\ gys \subseteq 0 .. tiles[2] - 1
     /\ Numbered(field)
     /\ Len(candidates) <= 4 /\ Placed(candidates, field)
     /\ Range(candidates) \in SUBSET (Int \X Int) /\ candidates \in Seq(Range(candidates))
     /\ sad \in [Range(candidates) -> Nat]

LEMMA MergeArgumentsHold ==
  ASSUME NEW f \in Frames, NEW m \in Pixels(f[1], f[2]), NEW shift \in [(0 .. 1) \X (0 .. 1) -> Shifts],
         NEW sads \in [0 .. 2 -> Sads], m[1] * GrayTile < f[1], m[2] * GrayTile < f[2]
  PROVE  MergeArguments(f, m, shift, sads)
<1> DEFINE w == f[1]
           h == f[2]
           side == 2 * GrayTile
           x0 == <<m[1] * GrayTile, m[2] * GrayTile>>
           tw == Least(side, w - x0[1])
           th == Least(side, h - x0[2])
           tiles == <<TilesOf(w \div 2, GrayTile), TilesOf(h \div 2, GrayTile)>>
           gxs == FieldTiles(x0[1], tw, GrayTile, tiles[1])
           gys == FieldTiles(x0[2], th, GrayTile, tiles[2])
           field == [g \in gxs \X gys |-> shift[<<g[1] % 2, g[2] % 2>>]]
           candidates == Candidates(field, gxs, gys)
           sad == [d \in Range(candidates) |-> sads[Length1(d) % 3]]
           D == Range(candidates)
<1>1. x0[1] < w /\ x0[2] < h /\ x0[1] = m[1] * GrayTile /\ x0[2] = m[2] * GrayTile
  OBVIOUS
<1>2. w \in Nat /\ h \in Nat /\ w >= side /\ h >= side /\ GrayTile \in Nat \ {0} /\ side \in Nat \ {0}
  BY KernelsAssumption
<1>3. m[1] \in Nat /\ m[2] \in Nat
  <2>1. m[1] \in 0 .. w - 1 /\ m[2] \in 0 .. h - 1
    BY DEF Pixels
  <2> QED  BY <1>2, <2>1
<1>4. x0 \in Int \X Int /\ x0[1] \in Nat /\ x0[2] \in Nat
  <2> DEFINE x == m[1] * GrayTile
             y == m[2] * GrayTile
  <2>1. x \in Nat /\ y \in Nat
    BY <1>2, <1>3
  <2>2. x0 = <<x, y>>
    OBVIOUS
  <2> HIDE DEF x, y
  <2> QED  BY <2>1, <2>2
<1> HIDE DEF x0, w, h, side
<1>5. tw \in 1 .. side /\ th \in 1 .. side /\ tw <= w - x0[1] /\ th <= h - x0[2]
  <2>1. \A v \in Nat, size \in Nat : v < size => /\ Least(side, size - v) \in 1 .. side
                                               /\ Least(side, size - v) <= size - v
    BY <1>2 DEF Least
  <2> QED  BY <1>1, <1>2, <1>4, <2>1
<1>6. tiles[1] \in Nat \ {0} /\ tiles[2] \in Nat \ {0}
  <2>1. w \div 2 \in Nat /\ h \div 2 \in Nat
    BY <1>2
  <2>2. TilesOf(w \div 2, GrayTile) \in Nat \ {0} /\ TilesOf(h \div 2, GrayTile) \in Nat \ {0}
    BY <1>2, <2>1, TilesExist
  <2> QED  BY <2>2
<1> HIDE DEF tw, th, tiles
<1>7. PICK i, j, wide, tall :
        /\ i \in Int /\ j \in Int /\ wide \in 1 .. 2 /\ tall \in 1 .. 2
        /\ gxs = i .. i + wide - 1 /\ i \in 0 .. tiles[1] - 1 /\ i + wide - 1 \in 0 .. tiles[1] - 1
        /\ gys = j .. j + tall - 1 /\ j \in 0 .. tiles[2] - 1 /\ j + tall - 1 \in 0 .. tiles[2] - 1
  <2> DEFINE Few(gs, size) == \E i \in Int, wide \in 1 .. 2 :
               gs = i .. i + wide - 1 /\ i \in 0 .. size - 1 /\ i + wide - 1 \in 0 .. size - 1
  <2>1. ASSUME NEW k \in Nat, NEW count \in 1 .. side, NEW size \in Nat \ {0}
        PROVE  Few(FieldTiles(k * GrayTile, count, GrayTile, size), size)
    <3> DEFINE first == FieldTile(k * GrayTile, GrayTile, size)
               last == FieldTile(k * GrayTile + count - 1, GrayTile, size)
    <3>1. count \in 1 .. 2 * GrayTile
      BY DEF side
    <3>2. /\ FieldTiles(k * GrayTile, count, GrayTile, size) = first .. last
          /\ first \in 0 .. size - 1 /\ last \in 0 .. size - 1
          /\ first <= last /\ last <= first + 1
      BY <1>2, <3>1, FieldTilesFew
    <3> HIDE DEF first, last
    <3>3. last - first + 1 \in 1 .. 2 /\ first + (last - first + 1) - 1 = last /\ first \in Int
      BY <3>2
    <3> QED  BY <3>2, <3>3
  <2>2. Few(gxs, tiles[1]) /\ Few(gys, tiles[2])
    <3>1. /\ gxs = FieldTiles(m[1] * GrayTile, tw, GrayTile, tiles[1])
          /\ gys = FieldTiles(m[2] * GrayTile, th, GrayTile, tiles[2])
      BY <1>1
    <3> HIDE DEF gxs, gys, Few
    <3> QED  BY <1>3, <1>5, <1>6, <2>1, <3>1
  <2> HIDE DEF gxs, gys
  <2> QED  BY <2>2
<1>8. gxs \subseteq 0 .. tiles[1] - 1 /\ gys \subseteq 0 .. tiles[2] - 1
  <2> HIDE DEF gxs, gys
  <2> QED  BY <1>6, <1>7
<1>9. DOMAIN field = gxs \X gys /\ Numbered(field)
  BY <1>7 DEF Numbered
<1>10. candidates \in Seq(Int \X Int) /\ Len(candidates) <= 4 /\ Placed(candidates, field)
  <2>1. \A g \in gxs \X gys : <<g[1] % 2, g[2] % 2>> \in (0 .. 1) \X (0 .. 1)
    <3>1. \A u \in Int : u % 2 \in 0 .. 1
      OBVIOUS
    <3>2. \A g \in gxs \X gys : g[1] \in Int /\ g[2] \in Int
      BY <1>7
    <3> QED  BY <3>1, <3>2
  <2>2. Shifts \subseteq Int \X Int
    BY KernelsAssumption
  <2>3. field \in [gxs \X gys -> Int \X Int]
    BY <2>1, <2>2
  <2> HIDE DEF field, gxs, gys
  <2>4. field \in [(i .. i + wide - 1) \X (j .. j + tall - 1) -> Int \X Int]
    BY <2>3, <1>7
  <2>5. LET c == Candidates(field, i .. i + wide - 1, j .. j + tall - 1)
        IN c \in Seq(Int \X Int) /\ Len(c) <= 4 /\ Placed(c, field)
    BY <2>4, <1>7, CandidatesInOrder
  <2> QED  BY <2>5, <1>7
<1> HIDE DEF field, candidates
<1>11. D \in SUBSET (Int \X Int) /\ candidates \in Seq(D)
  <2>1. /\ Len(candidates) \in Nat /\ DOMAIN candidates = 1 .. Len(candidates)
        /\ \A k \in 1 .. Len(candidates) : candidates[k] \in Int \X Int
    BY <1>10
  <2>2. D \subseteq Int \X Int
    BY <2>1 DEF Range
  <2>3. candidates \in Seq(D)
    <3>1. \A k \in 1 .. Len(candidates) : candidates[k] \in D
      BY <2>1 DEF Range
    <3>2. candidates = [k \in 1 .. Len(candidates) |-> candidates[k]]
      BY <1>10
    <3>3. candidates \in [1 .. Len(candidates) -> D]
      BY <3>1, <3>2
    <3> QED  BY <2>1, <3>3
  <2> HIDE DEF D
  <2> QED  BY <2>2, <2>3
<1> HIDE DEF D
<1>12. sad \in [D -> Nat]
  <2>1. ASSUME NEW c \in D PROVE sads[Length1(c) % 3] \in Nat
    <3>1. Length1(c) \in Int
      BY <1>11 DEF Length1, Abs
    <3>2. Length1(c) % 3 \in 0 .. 2
      BY <3>1
    <3> QED  BY <3>2, KernelsAssumption
  <2> QED  BY <2>1 DEF D
<1> HIDE DEF gxs, gys, sad
<1>13. /\ w \in Nat /\ h \in Nat /\ GrayTile \in Nat \ {0} /\ side \in Nat \ {0}
       /\ x0 \in Int \X Int /\ x0[1] \in Nat /\ x0[2] \in Nat
       /\ tw \in 1 .. side /\ th \in 1 .. side /\ tw <= w - x0[1] /\ th <= h - x0[2]
       /\ tiles[1] \in Nat \ {0} /\ tiles[2] \in Nat \ {0}
       /\ gxs \subseteq 0 .. tiles[1] - 1 /\ gys \subseteq 0 .. tiles[2] - 1
       /\ Numbered(field)
       /\ Len(candidates) <= 4 /\ Placed(candidates, field)
       /\ D \in SUBSET (Int \X Int) /\ candidates \in Seq(D)
       /\ sad \in [D -> Nat]
  BY <1>2, <1>4, <1>5, <1>6, <1>8, <1>9, <1>10, <1>11, <1>12
<1> QED  BY <1>13 DEF MergeArguments, w, h, side, x0, tw, th, tiles, gxs, gys, field, candidates, sad, D

-----------------------------------------------------------------------------
(* Where the kernels of an image read *)

\* Nothing outside is read in these places.
AllInside(places) == \A at \in places : 0 <= at[1] /\ at[1] < at[2]

LEMMA UnionInside ==
  ASSUME NEW A, NEW B, AllInside(A), AllInside(B)
  PROVE  AllInside(A \cup B)
  BY DEF AllInside

\* The second only if g holds.
LEMMA IfInside ==
  ASSUME NEW A, NEW B, NEW g \in BOOLEAN, AllInside(A), g => AllInside(B)
  PROVE  AllInside(A \cup (IF g THEN B ELSE {}))
<1>1. CASE g
  BY <1>1, UnionInside
<1>2. CASE ~g
  <2>1. A \cup {} = A
    OBVIOUS
  <2> QED  BY <1>2, <2>1
<1> QED  BY <1>1, <1>2

LEMMA UnionsInside ==
  ASSUME NEW sets, \A A \in sets : AllInside(A)
  PROVE  AllInside(UNION sets)
  BY DEF AllInside

LEMMA AlongInside ==
  ASSUME NEW size \in Int, NEW indices, indices \subseteq 0 .. size - 1
  PROVE  AllInside(Along(indices, size))
<1> SUFFICES ASSUME NEW at \in indices \X {size} PROVE 0 <= at[1] /\ at[1] < at[2]
  BY DEF AllInside, Along
<1>1. at[1] \in 0 .. size - 1 /\ at[2] = size
  OBVIOUS
<1> QED  BY <1>1

LEMMA PlacesInside ==
  ASSUME NEW w \in Int, NEW h \in Int, NEW pixels, pixels \subseteq Pixels(w, h)
  PROVE  AllInside(Places(pixels, w, h))
<1>1. ASSUME NEW p \in pixels PROVE AllInside({<<p[1], w>>, <<p[2], h>>})
  <2>1. p[1] \in 0 .. w - 1 /\ p[2] \in 0 .. h - 1
    BY DEF Pixels
  <2>2. 0 <= p[1] /\ p[1] < w /\ 0 <= p[2] /\ p[2] < h
    BY <2>1
  <2> QED  BY <2>2 DEF AllInside
<1> DEFINE sets == {{<<p[1], w>>, <<p[2], h>>} : p \in pixels}
<1>2. \A A \in sets : AllInside(A)
  BY <1>1
<1> HIDE DEF sets
<1>3. AllInside(UNION sets)
  BY <1>2, UnionsInside
<1> QED  BY <1>3 DEF Places, sets

LEMMA CornersInside ==
  ASSUME NEW w \in Int, NEW h \in Int, NEW tw \in Nat \ {0}, NEW th \in Nat \ {0},
         NEW tiles, \A t \in tiles : t \in Int \X Int /\ Inside(w, h, t, tw, th)
  PROVE  AllInside(Corners(tiles, tw, th, w, h))
<1> DEFINE ends == tiles \cup {Plus(t, <<tw - 1, th - 1>>) : t \in tiles}
<1>1. ASSUME NEW t \in tiles
      PROVE  t \in Pixels(w, h) /\ Plus(t, <<tw - 1, th - 1>>) \in Pixels(w, h)
  <2>1. t = <<t[1], t[2]>> /\ t[1] \in Int /\ t[2] \in Int
    OBVIOUS
  <2>2. t[1] >= 0 /\ t[2] >= 0 /\ t[1] + tw <= w /\ t[2] + th <= h
    BY DEF Inside
  <2>3. Plus(t, <<tw - 1, th - 1>>) = <<t[1] + (tw - 1), t[2] + (th - 1)>>
    BY DEF Plus
  <2>4. /\ t[1] \in 0 .. w - 1 /\ t[2] \in 0 .. h - 1
        /\ t[1] + (tw - 1) \in 0 .. w - 1 /\ t[2] + (th - 1) \in 0 .. h - 1
    BY <2>1, <2>2
  <2>5. <<t[1], t[2]>> \in Pixels(w, h) /\ <<t[1] + (tw - 1), t[2] + (th - 1)>> \in Pixels(w, h)
    BY <2>4 DEF Pixels
  <2> QED  BY <2>1, <2>3, <2>5
<1>2. ends \subseteq Pixels(w, h)
  BY <1>1
<1> HIDE DEF ends
<1>3. AllInside(Places(ends, w, h))
  BY <1>2, PlacesInside
<1> QED  BY <1>3 DEF Corners, ends

\* box_filter reads its prefix sums up to the one after the last pixel.
LEMMA BoxInside ==
  ASSUME NEW size \in Nat \ {0}, NEW r \in Nat, BoxFilter(size, r)
  PROVE  AllInside(reads')
<1> DEFINE at(x) == Along({Most(0, x - r), Least(size - 1, x + r) + 1}, size + 1)
           sets == {at(x) : x \in 0 .. size - 1}
<1>1. reads' = UNION sets
  BY DEF BoxFilter, Call
<1>2. ASSUME NEW x \in 0 .. size - 1 PROVE AllInside(at(x))
  <2>1. {Most(0, x - r), Least(size - 1, x + r) + 1} \subseteq 0 .. (size + 1) - 1
    BY DEF Most, Least
  <2>2. size + 1 \in Int
    OBVIOUS
  <2> QED  BY <2>1, <2>2, AlongInside
<1>3. \A A \in sets : AllInside(A)
  BY <1>2
<1> HIDE DEF sets
<1> QED  BY <1>1, <1>3, UnionsInside

\* The two pixels of an interpolation are there.
LEMMA BetweenInside ==
  ASSUME NEW numer \in Nat, NEW den \in Nat \ {0}, NEW size \in Nat \ {0}
  PROVE  Between(numer, den, size).x0 \in 0 .. size - 1 /\ Between(numer, den, size).x1 \in 0 .. size - 1
<1>1. numer \div den \in Nat
  BY QuotientType
<1> DEFINE q == numer \div den
<1>2. q \in Nat
  BY <1>1
<1> HIDE DEF q
<1>3. Between(numer, den, size).x0 = Least(q, size - 1)
      /\ Between(numer, den, size).x1 = Least(Least(q, size - 1) + 1, size - 1)
  BY DEF Between, q
<1> QED  BY <1>2, <1>3 DEF Least

\* resize_bilinear
LEMMA ResizeInside ==
  ASSUME NEW in \in Nat \ {0}, NEW out \in Nat \ {0}, Resize(in, out)
  PROVE  AllInside(reads')
<1> DEFINE at == [x \in 0 .. out - 1 |-> Resample(in, out, x)]
           both == UNION {{at[x].x0, at[x].x1} : x \in 0 .. out - 1}
<1>1. reads' = Along(both, in)
  BY DEF Resize, Call
<1>2. ASSUME NEW x \in 0 .. out - 1 PROVE at[x].x0 \in 0 .. in - 1 /\ at[x].x1 \in 0 .. in - 1
  <2> DEFINE numer == Most(0, Centre(in, out, x))
             den == 2 * out
  <2>1. numer \in Nat /\ den \in Nat \ {0}
    BY DEF Most, Centre
  <2>2. at[x] = Between(numer, den, in)
    BY DEF Resample
  <2> HIDE DEF numer, den, at
  <2> QED  BY <2>1, <2>2, BetweenInside
<1> HIDE DEF at
<1>3. both \subseteq 0 .. in - 1
  BY <1>2
<1> QED  BY <1>1, <1>3, AlongInside

\* bayer_to_rgb256
LEMMA SuperPixelsInside ==
  ASSUME NEW w \in Nat \ {0}, SuperPixels(w)
  PROVE  AllInside(reads')
<1> DEFINE size == w \div 2
           at == [i \in 0 .. ModelSide - 1 |-> SuperPixel(size, ModelSide, i)]
           both == {2 * at[i] + d : i \in 0 .. ModelSide - 1, d \in 0 .. 1}
<1>1. reads' = Along(both, w) /\ w % 2 = 0
  BY DEF SuperPixels, Call
<1>2. w = 2 * size /\ size \in Nat \ {0} /\ ModelSide \in Nat \ {0}
  BY <1>1, KernelsAssumption
<1> HIDE DEF size
<1>3. ASSUME NEW i \in 0 .. ModelSide - 1 PROVE at[i] \in 0 .. size - 1
  <2> DEFINE numer == (2 * i + 1) * size
             den == 2 * ModelSide
             q == numer \div den
  <2>1. numer \in Nat /\ den \in Nat \ {0}
    BY <1>2
  <2>2. at[i] = Least(size - 1, q)
    BY DEF SuperPixel
  <2> HIDE DEF numer, den
  <2>3. q \in Nat
    BY <2>1, QuotientType
  <2> HIDE DEF q
  <2> QED  BY <1>2, <2>2, <2>3 DEF Least
<1> HIDE DEF at
<1>4. both \subseteq 0 .. w - 1
  BY <1>2, <1>3
<1> QED  BY <1>1, <1>4, AlongInside

\* rotate256
LEMMA TurnInside ==
  ASSUME NEW o \in Int, Turn(o)
  PROVE  AllInside(reads')
<1> DEFINE side == ModelSide
           pixels == {ToUpright(side, o, p) : p \in Pixels(side, side)}
<1>1. reads' = Places(pixels, side, side)
  BY DEF Turn, Call
<1>2. side \in Nat \ {0}
  BY KernelsAssumption
<1> HIDE DEF side
<1>3. ASSUME NEW p \in Pixels(side, side) PROVE ToUpright(side, o, p) \in Pixels(side, side)
  <2>1. p = <<p[1], p[2]>> /\ p[1] \in 0 .. side - 1 /\ p[2] \in 0 .. side - 1
    BY DEF Pixels
  <2>2. side - 1 - p[1] \in 0 .. side - 1 /\ side - 1 - p[2] \in 0 .. side - 1
    BY <1>2, <2>1
  <2> QED  BY <2>1, <2>2 DEF ToUpright, Rotate, Pixels
<1>4. pixels \subseteq Pixels(side, side)
  BY <1>3
<1> QED  BY <1>1, <1>2, <1>4, PlacesInside

\* finish: a reflection at the edge of a frame whose side is a multiple of four.
LEMMA DemosaicInside ==
  ASSUME NEW size \in Nat \ {0}, Demosaic(size)
  PROVE  AllInside(reads')
<1> DEFINE at == {Mirror(i + k, size) : i \in 0 .. size - 1, k \in -2 .. 2}
<1>1. reads' = Along(at, size) /\ size % 4 = 0
  BY DEF Demosaic, Call, Accepted
<1>2. size >= 4
  BY <1>1
<1>3. at \subseteq 0 .. size - 1
  <2>1. ASSUME NEW i \in 0 .. size - 1, NEW k \in -2 .. 2
        PROVE  Mirror(i + k, size) \in 0 .. size - 1
    BY <1>2 DEF Mirror
  <2> SUFFICES ASSUME NEW v \in at PROVE v \in 0 .. size - 1
    OBVIOUS
  <2>2. PICK i \in 0 .. size - 1, k \in -2 .. 2 : v = Mirror(i + k, size)
    OBVIOUS
  <2> QED  BY <2>1, <2>2
<1> QED  BY <1>1, <1>3, AlongInside

\* The inverse of the tone curve.
LEMMA InvertToneInside ==
  ASSUME NEW lut \in Curves, InvertTone(lut)
  PROVE  AllInside(reads')
<1>1. PICK last \in DOMAIN lut : lut \in [0 .. last -> Nat]
  BY KernelsAssumption
<1>2. last \in Nat /\ DOMAIN lut = 0 .. last
  <2>1. DOMAIN lut = 0 .. last
    BY <1>1
  <2>2. last \in 0 .. last
    BY <1>1, <2>1
  <2> QED  BY <2>1, <2>2
<1>3. Max(0 .. last) = last
  <2>1. \A u \in 0 .. last : (\A y \in 0 .. last : u >= y) => u = last
    BY <1>2
  <2>2. last \in 0 .. last /\ \A y \in 0 .. last : last >= y
    BY <1>2
  <2> QED  BY <2>1, <2>2 DEF Max
<1>7. InverseTone(lut, last, Values) = [v \in 0 .. Values - 1 |-> FirstNotBelow(lut, last, v)]
  BY <1>1, <1>2, KernelsAssumption, InverseIsFirst
<1> DEFINE inv == InverseTone(lut, last, Values)
           at == {inv[v] : v \in 0 .. Values - 1}
<1>4. reads' = Along(at, last + 1)
  BY <1>2, <1>3 DEF InvertTone, Call
<1>5. \A v \in 0 .. Values - 1 : inv[v] \in 0 .. last
  <2>1. Values \in Nat \ {0}
    BY KernelsAssumption
  <2>2. inv = [v \in 0 .. Values - 1 |-> FirstNotBelow(lut, last, v)]
    BY <1>7
  <2>3. \A v \in 0 .. Values - 1 : FirstNotBelow(lut, last, v) \in 0 .. last
    <3> TAKE v \in 0 .. Values - 1
    <3>1. v \in Nat
      BY <2>1
    <3> QED  BY <1>1, <1>2, <3>1, FirstNotBelowExists
  <2> HIDE DEF inv
  <2> QED  BY <2>2, <2>3
<1> HIDE DEF inv
<1>6. at \subseteq 0 .. (last + 1) - 1 /\ last + 1 \in Int
  BY <1>2, <1>5
<1> QED  BY <1>4, <1>6, AlongInside

\* disc_blur_direct and disc_blur.comp
LEMMA DiscBlurInside ==
  ASSUME NEW w \in Nat \ {0}, NEW h \in Nat \ {0}, NEW r \in Nat, DiscBlur(w, h, r)
  PROVE  AllInside(reads')
<1> DEFINE ts == TileSide(Group, MaxRadius)
           direct(p) == Places(DirectReads(w, h, r, p[1], p[2]), w, h)
           tile(p) == Along(TileReads(Group, MaxRadius, r, p[1], p[2]), ts * ts)
           directs == {direct(p) : p \in Pixels(w, h)}
           tiles == {tile(p) : p \in Pixels(w, h)}
<1>1. reads' = (UNION directs) \cup (IF OnGpu(r, MaxRadius) THEN UNION tiles ELSE {})
  BY DEF DiscBlur, Call
<1>2. \A p \in Pixels(w, h) : p[1] \in 0 .. w - 1 /\ p[2] \in 0 .. h - 1
  BY DEF Pixels
<1>3. ASSUME NEW p \in Pixels(w, h) PROVE AllInside(direct(p))
  <2>1. ASSUME NEW dy \in -r .. r, NEW dx \in -Span(r, dy) .. Span(r, dy)
        PROVE  DirectTap(w, h, r, p[1], p[2], dx, dy) \in Pixels(w, h)
    <3>1. Span(r, dy) \in 0 .. r
      BY SpanExists
    <3>2. dx \in -r .. r
      BY <3>1
    <3> DEFINE x == p[1]
               y == p[2]
    <3>3. x \in 0 .. w - 1 /\ y \in 0 .. h - 1
      BY <1>2
    <3> HIDE DEF x, y
    <3>4. DirectTap(w, h, r, x, y, dx, dy) = <<Clamp(x + dx, w), Clamp(y + dy, h)>>
      BY <3>3, <3>2, DirectTapClamps
    <3>5. x + dx \in Int /\ y + dy \in Int
      BY <3>3, <3>2
    <3>6. \A v \in Int : Clamp(v, w) \in 0 .. w - 1 /\ Clamp(v, h) \in 0 .. h - 1
      BY DEF Clamp, Least, Most
    <3> QED  BY <3>4, <3>5, <3>6 DEF Pixels, x, y
  <2>2. DirectReads(w, h, r, p[1], p[2]) \subseteq Pixels(w, h)
    BY <2>1 DEF DirectReads
  <2> QED  BY <2>2, PlacesInside
<1>4. ASSUME NEW p \in Pixels(w, h), OnGpu(r, MaxRadius) PROVE AllInside(tile(p))
  <2>1. Group \in Nat \ {0} /\ MaxRadius \in Nat
    BY KernelsAssumption
  <2>2. TileReads(Group, MaxRadius, r, p[1], p[2]) \subseteq 0 .. ts * ts - 1
    BY <1>2, <1>4, <2>1, GpuBlurIsDirect
  <2>3. ts * ts \in Int
    BY <2>1 DEF TileSide
  <2> HIDE DEF ts
  <2> QED  BY <2>2, <2>3, AlongInside
<1>5. (\A s \in directs : AllInside(s)) /\ (OnGpu(r, MaxRadius) => \A s \in tiles : AllInside(s))
  BY <1>3, <1>4
<1> HIDE DEF directs, tiles
<1>6. AllInside(UNION directs) /\ (OnGpu(r, MaxRadius) => AllInside(UNION tiles))
  BY <1>5, UnionsInside
<1>7. OnGpu(r, MaxRadius) \in BOOLEAN
  BY DEF OnGpu
<1> QED  BY <1>1, <1>6, <1>7, IfInside

\* pyr_down and pyr_up
LEMMA ToneMapInside ==
  ASSUME NEW w \in Nat \ {0}, NEW h \in Nat \ {0}, ToneMap(w, h)
  PROVE  AllInside(reads')
<1> DEFINE last == Levels(w, h, Top) - 1
           sides == {<<size, l>> : size \in {w, h}, l \in 1 .. last}
           down(s) == LevelSize(s[1], s[2])
           from(s) == LevelSize(s[1], s[2] - 1)
           up(s) == [x \in 0 .. from(s) - 1 |-> Upsample(down(s), x)]
           mirrored(s) == {Mirror(2 * x + k, from(s)) : x \in 0 .. down(s) - 1, k \in -2 .. 2}
           both(s) == UNION {{up(s)[x].x0, up(s)[x].x1} : x \in 0 .. from(s) - 1}
           at(s) == Along(mirrored(s), from(s)) \cup Along(both(s), down(s))
           sets == {at(s) : s \in sides}
<1>1. reads' = UNION sets
  BY DEF ToneMap, Call
<1>2. \A z \in Nat \ {0}, i \in Nat : /\ LevelSize(z, i) \in Nat \ {0}
                                   /\ LevelSize(z, i + 1) = (LevelSize(z, i) + 1) \div 2
  BY LevelSizes
<1>3. ASSUME NEW s \in sides
      PROVE  /\ from(s) \in Nat /\ from(s) >= 3
             /\ down(s) \in Nat \ {0} /\ down(s) = (from(s) + 1) \div 2
  <2>1. PICK size \in {w, h}, l \in 1 .. last : s = <<size, l>>
    OBVIOUS
  <2>2. Top \in Nat /\ Top >= 2
    BY KernelsAssumption
  <2>3. LevelSize(w, l - 1) > Top /\ LevelSize(h, l - 1) > Top
    BY <2>2, LevelsAreLarge
  <2> DEFINE k == l - 1
  <2>4. size \in Nat \ {0} /\ k \in Nat /\ k + 1 = l
    OBVIOUS
  <2>5. /\ LevelSize(size, l - 1) \in Nat \ {0}
        /\ LevelSize(size, l) = (LevelSize(size, l - 1) + 1) \div 2
    <3> HIDE DEF k, sides
    <3>1. LevelSize(size, k) \in Nat \ {0} /\ LevelSize(size, k + 1) = (LevelSize(size, k) + 1) \div 2
      BY <2>4, <1>2
    <3> QED  BY <2>4, <3>1 DEF k
  <2>6. LevelSize(size, l - 1) > Top
    BY <2>3
  <2> DEFINE f == LevelSize(size, l - 1)
             d == LevelSize(size, l)
  <2>7. from(s) = f /\ down(s) = d
    BY <2>1
  <2> HIDE DEF f, d, from, down
  <2>8. f \in Nat /\ f > Top /\ d = (f + 1) \div 2
    BY <2>5, <2>6 DEF f, d
  <2> QED  BY <2>2, <2>7, <2>8
<1>4. ASSUME NEW s \in sides PROVE AllInside(at(s))
  <2> DEFINE f == from(s)
             d == down(s)
  <2>1. f \in Nat /\ f >= 3 /\ d \in Nat \ {0} /\ d = (f + 1) \div 2
    BY <1>3
  <2> HIDE DEF f, d, sides
  <2>2. \A x \in 0 .. d - 1, k \in -2 .. 2 : Mirror(2 * x + k, f) \in 0 .. f - 1
    BY <2>1 DEF Mirror
  <2>3. mirrored(s) \subseteq 0 .. f - 1
    BY <2>2 DEF f, d
  <2>4. ASSUME NEW x \in 0 .. f - 1 PROVE Upsample(d, x).x0 \in 0 .. d - 1 /\ Upsample(d, x).x1 \in 0 .. d - 1
    <3> DEFINE numer == Least(4 * (d - 1), Most(0, 2 * x - 1))
               den == 4
    <3>1. numer \in Nat /\ den \in Nat \ {0}
      BY <2>1 DEF Least, Most
    <3>2. Upsample(d, x) = Between(numer, den, d)
      BY DEF Upsample
    <3> HIDE DEF numer, den
    <3> QED  BY <2>1, <3>1, <3>2, BetweenInside
  <2>5. both(s) \subseteq 0 .. d - 1
    BY <2>4 DEF f, d
  <2> HIDE DEF mirrored, both
  <2>6. AllInside(Along(mirrored(s), f)) /\ AllInside(Along(both(s), d))
    BY <2>1, <2>3, <2>5, AlongInside
  <2> QED  BY <2>6, UnionInside DEF f, d
<1> HIDE DEF at, sides
<1>5. \A A \in sets : AllInside(A)
  BY <1>4
<1> HIDE DEF sets
<1> QED  BY <1>1, <1>5, UnionsInside

-----------------------------------------------------------------------------
(* Where the kernels of a burst read *)

\* The tiles a search compares lie in the image.
LEMMA AlignInside ==
  ASSUME NEW f \in GraySizes, NEW t \in Pixels(f[1], f[2]), NEW d0 \in Shifts, NEW sad \in [Square -> Sads],
         Align(f, t, d0, sad)
  PROVE  AllInside(reads')
<1> DEFINE w == f[1]
           h == f[2]
           x0 == <<t[1] * GrayTile, t[2] * GrayTile>>
           best == AlignTile(w, h, GrayTile, x0, d0, SearchRadius, sad)
           above == TilesOf(w \div 2, GrayTile)
           at(d) == Plus(x0, Plus(d0, d))
           tiles == AlignReads(w, h, GrayTile, x0, d0, SearchRadius, best)
<1>1. reads' = Along(HalfReads(w), w) \cup Along({Parent(t[1], above)}, above)
                 \cup Corners(tiles, GrayTile, GrayTile, w, h)
  BY DEF Align, Call
<1>2. w \in Nat \ {0} /\ h \in Nat \ {0} /\ GrayTile \in Nat \ {0} /\ SearchRadius \in Nat
  BY KernelsAssumption
<1>3. t[1] \in 0 .. w - 1 /\ t[2] \in 0 .. h - 1
  BY DEF Pixels
<1>4. x0 \in Int \X Int /\ x0[1] >= 0 /\ x0[2] >= 0
  <2> DEFINE x == t[1] * GrayTile
             y == t[2] * GrayTile
  <2>1. t[1] \in Nat /\ t[2] \in Nat
    BY <1>2, <1>3
  <2>2. x \in Nat /\ y \in Nat
    BY <1>2, <2>1
  <2>3. x0 = <<x, y>>
    OBVIOUS
  <2> HIDE DEF x, y
  <2> QED  BY <2>2, <2>3
<1>5. d0 \in Int \X Int
  BY KernelsAssumption
<1>6. sad \in [(-SearchRadius .. SearchRadius) \X (-SearchRadius .. SearchRadius) -> Nat]
  BY KernelsAssumption DEF Square
<1> HIDE DEF x0, w, h
<1>7. best.d \in Int \X Int
  <2>1. w \in Int /\ h \in Int /\ GrayTile \in Int /\ SearchRadius \in Nat
    BY <1>2
  <2>2. x0 \in Int \X Int
    BY <1>4
  <2> QED  BY <2>1, <2>2, <1>5, <1>6, AlignFinds
<1>8. AllInside(Along(HalfReads(w), w))
  <2>1. \A x \in 0 .. w \div 2 - 1, i \in 0 .. 1 : 2 * x + i \in 0 .. w - 1
    BY <1>2
  <2>2. HalfReads(w) \subseteq 0 .. w - 1
    BY <2>1 DEF HalfReads
  <2> QED  BY <1>2, <2>2, AlongInside
<1>9. AllInside(Along({Parent(t[1], above)}, above))
  <2>1. above \in Nat \ {0}
    <3>1. w \div 2 \in Nat
      BY <1>2
    <3> QED  BY <1>2, <3>1, TilesExist
  <2> HIDE DEF above
  <2>2. t[1] \div 2 \in Nat
    BY <1>2, <1>3
  <2>3. Parent(t[1], above) \in 0 .. above - 1
    BY <2>1, <2>2 DEF Parent, Least
  <2> QED  BY <2>1, <2>3, AlongInside
<1>10. ASSUME NEW s \in tiles PROVE s \in Int \X Int /\ Inside(w, h, s, GrayTile, GrayTile)
  <2>1. x0[1] + GrayTile <= w /\ x0[2] + GrayTile <= h
    BY <1>2, <1>4 DEF AlignReads
  <2>2. \A d \in Int \X Int : at(d) \in Int \X Int
    BY <1>4, <1>5, PlusPairs
  <2>3. CASE s = x0
    BY <1>4, <2>1, <2>3 DEF Inside
  <2>4. ASSUME NEW d \in Range(Search(SearchRadius)), s = at(d), Inside(w, h, at(d), GrayTile, GrayTile)
        PROVE  s \in Int \X Int
    <3>1. d \in Int \X Int
      <4>1. Search(SearchRadius) \in Seq((-SearchRadius .. SearchRadius) \X (-SearchRadius .. SearchRadius))
        BY <1>2, SearchInSquare
      <4>2. d \in (-SearchRadius .. SearchRadius) \X (-SearchRadius .. SearchRadius)
        BY <2>4, <4>1 DEF Range
      <4> QED  BY <1>2, <4>2
    <3> HIDE DEF at
    <3> QED  BY <2>2, <2>4, <3>1
  <2>5. ASSUME NEW e \in Around, s = at(Plus(best.d, e)) PROVE s \in Int \X Int
    <3>1. e \in Int \X Int
      BY DEF Around
    <3>2. Plus(best.d, e) \in Int \X Int
      BY <1>7, <3>1, PlusPairs
    <3> HIDE DEF at, best
    <3> QED  BY <2>2, <2>5, <3>2
  <2>6. \/ s = x0
        \/ \E d \in Range(Search(SearchRadius)) : s = at(d) /\ Inside(w, h, at(d), GrayTile, GrayTile)
        \/ \E e \in Around : /\ s = at(Plus(best.d, e))
                             /\ Inside(w, h, at(Plus(best.d, e)), GrayTile, GrayTile)
    <3> HIDE DEF best
    <3> QED  BY <2>1, <1>2, <1>4 DEF AlignReads
  <2> HIDE DEF at, best
  <2> QED  BY <2>3, <2>4, <2>5, <2>6
<1> HIDE DEF tiles, above
<1>11. AllInside(Corners(tiles, GrayTile, GrayTile, w, h))
  BY <1>2, <1>10, CornersInside
<1>12. AllInside(Along(HalfReads(w), w) \cup Along({Parent(t[1], above)}, above))
  BY <1>8, <1>9, UnionInside
<1> QED  BY <1>1, <1>11, <1>12, UnionInside

\* The candidates for a tile of the merge and what is the best of them.
LEMMA MergeInside ==
  ASSUME NEW f \in Frames, NEW m \in Pixels(f[1], f[2]), NEW shift \in [(0 .. 1) \X (0 .. 1) -> Shifts],
         NEW sads \in [0 .. 2 -> Sads], NEW stale, NEW accepted \in BOOLEAN,
         Merge(f, m, shift, sads, stale, accepted)
  PROVE  AllInside(reads')
<1> DEFINE w == f[1]
           h == f[2]
           side == 2 * GrayTile
           x0 == <<m[1] * GrayTile, m[2] * GrayTile>>
           tw == Least(side, w - x0[1])
           th == Least(side, h - x0[2])
           tiles == <<TilesOf(w \div 2, GrayTile), TilesOf(h \div 2, GrayTile)>>
           gxs == FieldTiles(x0[1], tw, GrayTile, tiles[1])
           gys == FieldTiles(x0[2], th, GrayTile, tiles[2])
           field == [g \in gxs \X gys |-> shift[<<g[1] % 2, g[2] % 2>>]]
           candidates == Candidates(field, gxs, gys)
           sad == [d \in Range(candidates) |-> sads[Length1(d) % 3]]
           best == SpatialBest(w, h, side, x0, candidates, sad)
           wiener == WienerBest(w, h, side, x0, candidates, sad)
           weighs == Weighs(best, accepted)
           d == Keep(best, stale)
           D == Range(candidates)
           seen == Along({k - 1 : k \in DOMAIN Seen(candidates)}, 4)
           across == Along(gxs, tiles[1])
           down == Along(gys, tiles[2])
           rows == Along(MergeReads(w, h, x0, tw, th, d, weighs), h)
           row == Along({x0[1] + d[1], x0[1] + d[1] + tw - 1}, w)
           whole == Corners({Plus(x0, wiener.d)}, side, side, w, h)
<1>1. reads' = seen \cup across \cup down \cup rows \cup (IF weighs THEN row ELSE {})
                 \cup (IF Found(wiener) THEN whole ELSE {})
  BY DEF Merge, Call
<1>2. m[1] * GrayTile < f[1] /\ m[2] * GrayTile < f[2]
  BY DEF Merge
<1>3. /\ w \in Nat /\ h \in Nat /\ side \in Nat \ {0}
      /\ x0 \in Int \X Int /\ tw \in 1 .. side /\ th \in 1 .. side
      /\ tiles[1] \in Nat \ {0} /\ tiles[2] \in Nat \ {0}
      /\ gxs \subseteq 0 .. tiles[1] - 1 /\ gys \subseteq 0 .. tiles[2] - 1
      /\ Len(candidates) <= 4
      /\ D \in SUBSET (Int \X Int) /\ candidates \in Seq(D) /\ sad \in [D -> Nat]
  <2>1. MergeArguments(f, m, shift, sads)
    BY <1>2, MergeArgumentsHold
  <2> QED  BY <2>1 DEF MergeArguments
<1>4. best = BestCandidate(w, h, x0, tw, th, Seen(candidates), sad)
  BY DEF SpatialBest
<1>5. wiener = IF x0[1] + side > w \/ x0[2] + side > h THEN None
               ELSE BestCandidate(w, h, x0, side, side, candidates, sad)
  BY DEF WienerBest
<1> HIDE DEF w, h, side, x0, tw, th, tiles, gxs, gys, field, candidates, sad, D, best, wiener
<1>9. AllInside(across) /\ AllInside(down)
  <2>1. tiles[1] \in Int /\ tiles[2] \in Int
    BY <1>3
  <2> QED  BY <1>3, <2>1, AlongInside
<1>10. Seen(candidates) \in Seq(D) /\ Len(Seen(candidates)) <= Len(candidates)
  BY <1>3, SeenInOrder
<1>11. AllInside(seen)
  <2> DEFINE s == Seen(candidates)
  <2>1. DOMAIN s = 1 .. Len(s) /\ Len(s) \in Nat /\ Len(s) <= 4
    <3>1. Len(candidates) \in Nat
      BY <1>3
    <3> QED  BY <1>3, <1>10, <3>1
  <2> HIDE DEF s
  <2>2. {k - 1 : k \in DOMAIN s} \subseteq 0 .. 4 - 1
    BY <2>1
  <2>3. AllInside(Along({k - 1 : k \in DOMAIN s}, 4))
    BY <2>2, AlongInside
  <2> QED  BY <2>3 DEF s
<1>12. best.d \in Int \X Int /\ (Found(best) => Inside(w, h, Plus(x0, best.d), tw, th))
  <2>1. LET b == BestCandidate(w, h, x0, tw, th, Seen(candidates), sad)
        IN b.d \in Int \X Int /\ (Found(b) => Inside(w, h, Plus(x0, b.d), tw, th))
    <3>1. w \in Int /\ h \in Int /\ tw \in Int /\ th \in Int /\ x0 \in Int \X Int
      BY <1>3
    <3> QED  BY <3>1, <1>3, <1>10, BestIsInside
  <2> QED  BY <1>4, <2>1
<1>13. Found(wiener) => wiener.d \in Int \X Int /\ Inside(w, h, Plus(x0, wiener.d), side, side)
  <2>1. CASE x0[1] + side > w \/ x0[2] + side > h
    BY <1>5, <2>1 DEF None, Found
  <2>2. CASE ~(x0[1] + side > w \/ x0[2] + side > h)
    <3>1. LET b == BestCandidate(w, h, x0, side, side, candidates, sad)
          IN b.d \in Int \X Int /\ (Found(b) => Inside(w, h, Plus(x0, b.d), side, side))
      <4>1. w \in Int /\ h \in Int /\ side \in Int /\ x0 \in Int \X Int
        BY <1>3
      <4> QED  BY <4>1, <1>3, BestIsInside
    <3> QED  BY <1>5, <2>2, <3>1
  <2> QED  BY <2>1, <2>2
<1>14. AllInside(rows)
  <2>1. MergeReads(w, h, x0, tw, th, d, weighs) \subseteq 0 .. h - 1
    BY DEF MergeReads
  <2> QED  BY <1>3, <2>1, AlongInside
<1>15. weighs => AllInside(row)
  <2> SUFFICES ASSUME weighs PROVE AllInside(row)
    OBVIOUS
  <2>1. d = best.d /\ Found(best)
    BY DEF Weighs, Keep
  <2>2. d \in Int \X Int /\ Inside(w, h, Plus(x0, d), tw, th)
    BY <2>1, <1>12
  <2> HIDE DEF d
  <2>3. Plus(x0, d)[1] = x0[1] + d[1] /\ x0[1] \in Int /\ d[1] \in Int
    BY <1>3, <2>2, PlusPairs
  <2>4. x0[1] + d[1] >= 0 /\ x0[1] + d[1] + tw <= w
    BY <2>2, <2>3 DEF Inside
  <2>6. w \in Int /\ tw \in Nat \ {0}
    BY <1>3
  <2>5. {x0[1] + d[1], x0[1] + d[1] + tw - 1} \subseteq 0 .. w - 1
    BY <2>3, <2>4, <2>6
  <2> QED  BY <2>6, <2>5, AlongInside
<1>16. Found(wiener) => AllInside(whole)
  <2> SUFFICES ASSUME Found(wiener) PROVE AllInside(whole)
    OBVIOUS
  <2>1. Plus(x0, wiener.d) \in Int \X Int /\ Inside(w, h, Plus(x0, wiener.d), side, side)
    BY <1>3, <1>13, PlusPairs
  <2>2. \A t \in {Plus(x0, wiener.d)} : t \in Int \X Int /\ Inside(w, h, t, side, side)
    BY <2>1
  <2> QED  BY <1>3, <2>2, CornersInside
<1>17. weighs \in BOOLEAN /\ Found(wiener) \in BOOLEAN
  BY DEF Weighs, Found
<1> HIDE DEF seen, across, down, rows, row, whole, weighs
<1>18. AllInside(seen \cup across \cup down \cup rows)
  BY <1>9, <1>11, <1>14, UnionInside
<1>19. AllInside((seen \cup across \cup down \cup rows) \cup (IF weighs THEN row ELSE {}))
  BY <1>15, <1>17, <1>18, IfInside
<1> QED  BY <1>1, <1>16, <1>17, <1>19, IfInside

\* The samples of a picture, and the tile that decides the weight.
LEMMA SuperresInside ==
  ASSUME NEW f \in Frames, NEW p \in Pixels(f[1], f[2]), NEW d \in Shifts, Superres(f, p, d)
  PROVE  AllInside(reads')
<1> DEFINE w == f[1]
           h == f[2]
           side == 2 * GrayTile
           tx == Least(p[1] \div side, TilesOf(w \div 2, GrayTile) - 1)
           ty == Least(p[2] \div side, TilesOf(h \div 2, GrayTile) - 1)
           x0 == <<tx * side, ty * side>>
           weighs == SrWeighs(w, h, x0, side, d)
           own == Samples(w, h, p, <<0, 0>>, SampleRadius)
           other == IF weighs THEN Samples(w, h, p, Twice(d), SampleRadius) ELSE {}
           samples == Places(own \cup other, w, h)
           whole == Corners({Plus(x0, Twice(d))}, side, side, w, h)
<1>1. reads' = samples \cup (IF weighs THEN whole ELSE {})
  BY DEF Superres, Call
<1>2. w \in Nat /\ h \in Nat /\ w >= side /\ h >= side /\ GrayTile \in Nat \ {0} /\ side \in Nat \ {0}
  BY KernelsAssumption
<1>3. p[1] \in Nat /\ p[2] \in Nat
  <2>1. p[1] \in 0 .. w - 1 /\ p[2] \in 0 .. h - 1
    BY DEF Pixels
  <2> QED  BY <1>2, <2>1
<1>4. x0 \in Int \X Int
  <2>1. p[1] \div side \in Nat /\ p[2] \div side \in Nat
    BY <1>2, <1>3, QuotientType
  <2>2. w \div 2 \in Nat /\ h \div 2 \in Nat
    BY <1>2
  <2>3. TilesOf(w \div 2, GrayTile) \in Nat \ {0} /\ TilesOf(h \div 2, GrayTile) \in Nat \ {0}
    BY <1>2, <2>2, TilesExist
  <2>4. tx \in Int /\ ty \in Int
    BY <2>1, <2>3 DEF Least
  <2> HIDE DEF tx, ty
  <2>5. tx * side \in Int /\ ty * side \in Int
    BY <1>2, <2>4
  <2> QED  BY <2>5
<1> HIDE DEF x0, side
<1>5. AllInside(samples)
  <2>1. own \subseteq Pixels(w, h) /\ other \subseteq Pixels(w, h)
    BY DEF Samples, IsSample
  <2>2. own \cup other \subseteq Pixels(w, h)
    BY <2>1
  <2> HIDE DEF own, other
  <2>3. w \in Int /\ h \in Int
    BY <1>2
  <2> QED  BY <2>2, <2>3, PlacesInside
<1>6. weighs => AllInside(whole)
  <2> SUFFICES ASSUME weighs PROVE AllInside(whole)
    OBVIOUS
  <2>1. d \in Int \X Int
    BY KernelsAssumption
  <2>2. Twice(d) \in Int \X Int
    BY <2>1 DEF Twice
  <2>3. Plus(x0, Twice(d)) \in Int \X Int
    BY <1>4, <2>2, PlusPairs
  <2>4. Inside(w, h, Plus(x0, Twice(d)), side, side)
    BY DEF SrWeighs
  <2>5. \A t \in {Plus(x0, Twice(d))} : t \in Int \X Int /\ Inside(w, h, t, side, side)
    BY <2>3, <2>4
  <2>6. w \in Int /\ h \in Int /\ side \in Nat \ {0}
    BY <1>2
  <2> QED  BY <2>5, <2>6, CornersInside
<1>7. weighs \in BOOLEAN
  BY DEF SrWeighs, Inside
<1> HIDE DEF samples, weighs, whole
<1> QED  BY <1>1, <1>5, <1>6, <1>7, IfInside

-----------------------------------------------------------------------------
(* No kernel reads outside *)

LEMMA CallInside ==
  ASSUME Image \/ Burst
  PROVE  AllInside(reads')
<1>1. CASE Image
  <2>1. ASSUME NEW size \in Sizes, NEW r \in Radii, BoxFilter(size, r) PROVE AllInside(reads')
    BY <2>1, BoxInside, KernelsAssumption
  <2>2. ASSUME NEW size \in Sizes, SuperPixels(size) PROVE AllInside(reads')
    BY <2>2, SuperPixelsInside, KernelsAssumption
  <2>3. ASSUME NEW size \in Sizes, Demosaic(size) PROVE AllInside(reads')
    BY <2>3, DemosaicInside, KernelsAssumption
  <2>4. ASSUME NEW s \in DiscSizes, NEW r \in DiscRadii, DiscBlur(s[1], s[2], r) PROVE AllInside(reads')
    <3>1. s[1] \in Nat \ {0} /\ s[2] \in Nat \ {0} /\ r \in Nat
      BY KernelsAssumption
    <3> QED  BY <2>4, <3>1, DiscBlurInside
  <2>5. ASSUME NEW in \in Sizes, NEW out \in Sizes, Resize(in, out) PROVE AllInside(reads')
    BY <2>5, ResizeInside, KernelsAssumption
  <2>6. ASSUME NEW o \in Orientations, Turn(o) PROVE AllInside(reads')
    BY <2>6, TurnInside, KernelsAssumption
  <2>7. ASSUME NEW s \in ToneSizes, ToneMap(s[1], s[2]) PROVE AllInside(reads')
    <3>1. s[1] \in Nat \ {0} /\ s[2] \in Nat \ {0}
      BY KernelsAssumption
    <3> QED  BY <2>7, <3>1, ToneMapInside
  <2>8. ASSUME NEW lut \in Curves, InvertTone(lut) PROVE AllInside(reads')
    BY <2>8, InvertToneInside
  <2> QED  BY <1>1, <2>1, <2>2, <2>3, <2>4, <2>5, <2>6, <2>7, <2>8 DEF Image
<1>2. CASE Burst
  <2>1. ASSUME NEW f \in GraySizes, NEW t \in Pixels(f[1], f[2]), NEW d0 \in Shifts,
               NEW sad \in [Square -> Sads], Align(f, t, d0, sad)
        PROVE  AllInside(reads')
    BY <2>1, AlignInside
  <2>2. ASSUME NEW f \in Frames, NEW m \in Pixels(f[1], f[2]), NEW shift \in [(0 .. 1) \X (0 .. 1) -> Shifts],
               NEW sads \in [0 .. 2 -> Sads], NEW stale \in Shifts, NEW accepted \in BOOLEAN,
               Merge(f, m, shift, sads, Twice(stale), accepted)
        PROVE  AllInside(reads')
    BY <2>2, MergeInside
  <2>3. ASSUME NEW f \in Frames, NEW p \in Pixels(f[1], f[2]), NEW d \in Shifts, Superres(f, p, d)
        PROVE  AllInside(reads')
    BY <2>3, SuperresInside
  <2> QED  BY <1>2, <2>1, <2>2, <2>3 DEF Burst
<1> QED  BY <1>1, <1>2

\* Every call starts anew, so that nothing else need be known of the state.
THEOREM ReadsStayInsideHolds == KernelsSpec => []ReadsStayInside
<1>1. KernelsInit => ReadsStayInside
  BY DEF KernelsInit, ReadsStayInside
<1>2. ReadsStayInside /\ [KernelsNext]_kernelVars => ReadsStayInside'
  <2> SUFFICES ASSUME ReadsStayInside, [KernelsNext]_kernelVars PROVE ReadsStayInside'
    OBVIOUS
  <2>1. CASE Image \/ Burst
    BY <2>1, CallInside DEF AllInside, ReadsStayInside
  <2>2. CASE EndCall
    BY <2>2 DEF EndCall, ReadsStayInside
  <2>3. CASE UNCHANGED kernelVars
    BY <2>3 DEF kernelVars, ReadsStayInside
  <2> QED  BY <2>1, <2>2, <2>3 DEF KernelsNext
<1> QED  BY <1>1, <1>2, PTL DEF KernelsSpec

-----------------------------------------------------------------------------
(* What the kernels of an image compute *)

\* A window of an interval is an interval.
LEMMA WindowOf ==
  ASSUME NEW size \in Nat \ {0}, NEW r \in Nat, NEW x \in 0 .. size - 1
  PROVE  LET window == {u \in 0 .. size - 1 : Abs(u - x) <= r}
         IN /\ window = Most(0, x - r) .. Least(size - 1, x + r)
            /\ Cardinality(window) = Least(size - 1, x + r) - Most(0, x - r) + 1
<1> DEFINE lo == Most(0, x - r)
           hi == Least(size - 1, x + r)
           window == {u \in 0 .. size - 1 : Abs(u - x) <= r}
<1>1. lo \in 0 .. x /\ hi \in x .. size - 1
  BY DEF Most, Least
<1>2. window = lo .. hi
  <2>1. \A u \in 0 .. size - 1 : Abs(u - x) <= r <=> u \in lo .. hi
    BY DEF Most, Least, Abs
  <2> HIDE DEF lo, hi
  <2> QED  BY <2>1, <1>1
<1> HIDE DEF lo, hi, window
<1>3. lo \in Int /\ hi \in Int /\ lo <= hi
  BY <1>1
<1>4. Cardinality(lo .. hi) = hi - lo + 1
  BY <1>3, FS_Interval
<1> QED  BY <1>2, <1>4 DEF lo, hi, window

\* Along a row: what the prefix sums give is the mean of the window.
LEMMA RowIsItsRule ==
  ASSUME NEW size \in Nat \ {0}, NEW r \in Nat, NEW x \in 0 .. size - 1
  PROVE  BoxRow(size, r, x) = BoxRule(size, r)[x]
<1> DEFINE lo == Most(0, x - r)
           hi == Least(size - 1, x + r)
           window == {u \in 0 .. size - 1 : Abs(u - x) <= r}
<1>1. window = lo .. hi /\ Cardinality(window) = hi - lo + 1
  BY WindowOf
<1>2. lo \in 0 .. x /\ hi \in x .. size - 1
  BY DEF Most, Least
<1>3. BoxRow(size, r, x) = [taps |-> [u \in 0 .. size - 1 |-> Prefix(u, hi + 1) - Prefix(u, lo)], over |-> hi - lo + 1]
  BY DEF BoxRow
<1>4. BoxRule(size, r)[x] = [taps |-> [u \in 0 .. size - 1 |-> Once(u \in window)], over |-> Cardinality(window)]
  BY DEF BoxRule
<1> HIDE DEF lo, hi, window
<1>5. \A u \in 0 .. size - 1 : Prefix(u, hi + 1) - Prefix(u, lo) = Once(u \in window)
  BY <1>1, <1>2 DEF Prefix, Once
<1> QED  BY <1>1, <1>3, <1>4, <1>5

\* Down a column: the running sum never drifts from its window.
LEMMA ColumnIsItsRule ==
  ASSUME NEW size \in Nat \ {0}, NEW r \in Nat, NEW y \in 0 .. size - 1
  PROVE  BoxColumn(size, r, y) = BoxRule(size, r)[y]
<1> DEFINE m == size - 1
           window(x) == {u \in 0 .. size - 1 : Abs(u - x) <= r}
           After(g, k) == IF k = 0 THEN [v \in 0 .. size - 1 |-> Once(v <= Least(r, size - 1))]
                          ELSE [v \in 0 .. size - 1 |-> g[k - 1][v] + Once(v \in Enters(size, k - 1, r))
                                                                    - Once(v \in Leaves(k - 1, r))]
           it == CHOOSE g : g = [k \in 0 .. m |-> After(g, k)]
           f == [k \in 0 .. m |-> [v \in 0 .. size - 1 |-> Once(v \in window(k))]]
<1>1. RunningSum(size, r) = it
  BY DEF RunningSum
<1>2. ASSUME NEW k \in 0 .. m PROVE f[k] = After(f, k)
  <2>1. CASE k = 0
    <3>1. \A v \in 0 .. size - 1 : v \in window(0) <=> v <= Least(r, size - 1)
      BY DEF Least, Abs
    <3> QED  BY <2>1, <3>1
  <2>2. CASE k # 0
    <3>1. k - 1 \in 0 .. m
      BY <2>2
    <3>2. ASSUME NEW v \in 0 .. size - 1
          PROVE  Once(v \in window(k)) = Once(v \in window(k - 1)) + Once(v \in Enters(size, k - 1, r))
                                           - Once(v \in Leaves(k - 1, r))
      <4>1. v \in Enters(size, k - 1, r) <=> v = k + r
        BY DEF Enters
      <4>2. v \in Leaves(k - 1, r) <=> v = k - 1 - r
        BY DEF Leaves
      <4>3. /\ v \in window(k) <=> v <= k + r /\ k - r <= v
            /\ v \in window(k - 1) <=> v <= k - 1 + r /\ k - 1 - r <= v
        BY DEF Abs
      <4> HIDE DEF window
      <4> QED  BY <4>1, <4>2, <4>3 DEF Once
    <3> HIDE DEF window
    <3> QED  BY <2>2, <3>1, <3>2
  <2> QED  BY <2>1, <2>2
<1>3. f = [k \in 0 .. m |-> After(f, k)]
  <2> HIDE DEF After
  <2> QED  BY <1>2
<1>4. it = [k \in 0 .. m |-> After(it, k)]
  <2> HIDE DEF After, f
  <2> QED  BY <1>3
<1> HIDE DEF f, it
<1>5. m \in Nat /\ it[0] = f[0]
  BY <1>3, <1>4
<1>6. ASSUME NEW k \in Nat, k < m, it[k] = f[k] PROVE it[k + 1] = f[k + 1]
  <2>1. k + 1 \in 0 .. m /\ k + 1 # 0 /\ (k + 1) - 1 = k
    BY <1>6
  <2>2. it[k + 1] = After(it, k + 1) /\ f[k + 1] = After(f, k + 1)
    <3> HIDE DEF After
    <3> QED  BY <1>3, <1>4, <2>1
  <2> QED  BY <1>6, <2>1, <2>2
<1>7. it[y] = f[y]
  <2> HIDE DEF After
  <2>1. \A k \in 0 .. m : it[k] = f[k]
    BY <1>5, <1>6, Alike
  <2> QED  BY <2>1
<1>8. /\ Cardinality(window(y)) = Least(size - 1, y + r) - Most(0, y - r) + 1
      /\ BoxRule(size, r)[y] = [taps |-> [u \in 0 .. size - 1 |-> Once(u \in window(y))], over |-> Cardinality(window(y))]
  BY WindowOf DEF BoxRule
<1> QED  BY <1>1, <1>7, <1>8 DEF BoxColumn, f

\* box_filter
LEMMA BoxIsItsRule ==
  ASSUME NEW size \in Nat \ {0}, NEW r \in Nat, BoxFilter(size, r)
  PROVE  ResultIsItsRule'
<1>1. /\ call' = [kernel |-> "box", arg |-> <<size, r>>]
      /\ got' = [rows |-> [x \in 0 .. size - 1 |-> BoxRow(size, r, x)],
                 columns |-> [y \in 0 .. size - 1 |-> BoxColumn(size, r, y)]]
  BY DEF BoxFilter, Call
<1>2. Rule("box", <<size, r>>) = [rows |-> BoxRule(size, r), columns |-> BoxRule(size, r)]
  BY DEF Rule
<1>3. /\ [x \in 0 .. size - 1 |-> BoxRow(size, r, x)] = BoxRule(size, r)
      /\ [y \in 0 .. size - 1 |-> BoxColumn(size, r, y)] = BoxRule(size, r)
  <2>1. BoxRule(size, r) = [x \in 0 .. size - 1 |-> BoxRule(size, r)[x]]
    BY DEF BoxRule
  <2> QED  BY <2>1, RowIsItsRule, ColumnIsItsRule
<1> QED  BY <1>1, <1>2, <1>3 DEF ResultIsItsRule

\* An interpolation is where it should be: no earlier than the first pixel, no
\* later than the last.
LEMMA BetweenIsCentred ==
  ASSUME NEW v \in Int, NEW den \in Nat \ {0}, NEW size \in Nat \ {0}
  PROVE  Position(Between(Most(0, v), den, size), den) = Centred(v, den, size)
<1> DEFINE numer == Most(0, v)
           q == numer \div den
           end == (size - 1) * den
           back == q * den
<1>1. numer \in Nat /\ (v >= 0 => numer = v) /\ (v < 0 => numer = 0)
  BY DEF Most
<1> HIDE DEF numer
<1>2. q \in Nat
  BY <1>1, QuotientType
<1>3. numer = q * den + (numer % den) /\ numer % den \in 0 .. den - 1
  BY <1>1, DivModOf
<1> HIDE DEF q
<1>4. back \in Nat /\ end \in Nat /\ back <= numer /\ numer < back + den
  BY <1>2, <1>3
<1>5. q >= size - 1 => back >= end
  BY <1>2
<1>6. q < size - 1 => back + den <= end
  <2> SUFFICES ASSUME q < size - 1 PROVE back + den <= end
    OBVIOUS
  <2>1. (size - 1) - (q + 1) \in Nat
    BY <1>2
  <2>2. ((size - 1) - (q + 1)) * den \in Nat
    BY <2>1
  <2>3. ((size - 1) - (q + 1)) * den = end - (back + den)
    BY <1>2
  <2> HIDE DEF end, back
  <2> QED  BY <1>4, <2>2, <2>3
<1>7. Centred(v, den, size) = Most(0, Least(v, end))
  BY DEF Centred
<1>8. CASE q >= size - 1
  <2>1. Between(numer, den, size).x0 = size - 1 /\ Between(numer, den, size).x1 = size - 1
    BY <1>2, <1>8 DEF Between, Least, q
  <2>2. Position(Between(numer, den, size), den) = end
    BY <2>1, <1>4 DEF Position
  <2> HIDE DEF end, back
  <2>3. numer >= end
    BY <1>1, <1>4, <1>5, <1>8
  <2>4. Most(0, Least(v, end)) = end
    BY <1>1, <1>4, <2>3 DEF Most, Least
  <2> QED  BY <1>7, <2>2, <2>4 DEF numer
<1>9. CASE q < size - 1
  <2>1. /\ Between(numer, den, size).x0 = q /\ Between(numer, den, size).x1 = q + 1
        /\ Between(numer, den, size).weight = numer - back
    BY <1>2, <1>9 DEF Between, Least, q
  <2>2. Position(Between(numer, den, size), den) = back + (numer - back)
    BY <2>1, <1>2 DEF Position
  <2> HIDE DEF end, back
  <2>3. Position(Between(numer, den, size), den) = numer
    BY <2>2, <1>1, <1>4
  <2>4. numer < end
    BY <1>1, <1>4, <1>6, <1>9
  <2>5. Most(0, Least(v, end)) = numer
    BY <1>1, <1>4, <2>4 DEF Most, Least
  <2> QED  BY <1>7, <2>3, <2>5 DEF numer
<1> QED  BY <1>2, <1>8, <1>9

\* resize_bilinear
LEMMA ResizeIsItsRule ==
  ASSUME NEW in \in Nat \ {0}, NEW out \in Nat \ {0}, Resize(in, out)
  PROVE  ResultIsItsRule'
<1>1. /\ call' = [kernel |-> "resize", arg |-> <<in, out>>]
      /\ got' = [x \in 0 .. out - 1 |-> Position(Resample(in, out, x), 2 * out)]
  BY DEF Resize, Call
<1>2. Rule("resize", <<in, out>>) = ResizeRule(in, out)
  BY DEF Rule
<1>3. ASSUME NEW x \in 0 .. out - 1
      PROVE  Position(Resample(in, out, x), 2 * out) = Centred((2 * x + 1) * in - out, 2 * out, in)
  <2> DEFINE v == (2 * x + 1) * in - out
             den == 2 * out
  <2>1. v \in Int /\ den \in Nat \ {0}
    OBVIOUS
  <2>2. Resample(in, out, x) = Between(Most(0, v), den, in)
    BY DEF Resample, Centre
  <2> HIDE DEF v, den
  <2>3. Position(Between(Most(0, v), den, in), den) = Centred(v, den, in)
    BY <2>1, BetweenIsCentred
  <2> QED  BY <2>2, <2>3 DEF v, den
<1>4. got' = ResizeRule(in, out)
  BY <1>1, <1>3 DEF ResizeRule
<1> QED  BY <1>1, <1>2, <1>4 DEF ResultIsItsRule

\* local_tone_gain, up the pyramid again
LEMMA ToneMapIsItsRule ==
  ASSUME NEW w \in Nat \ {0}, NEW h \in Nat \ {0}, ToneMap(w, h)
  PROVE  ResultIsItsRule'
<1> DEFINE last == Levels(w, h, Top) - 1
           sides == {<<size, l>> : size \in {w, h}, l \in 1 .. last}
           down(s) == LevelSize(s[1], s[2])
           from(s) == LevelSize(s[1], s[2] - 1)
           up(s) == [x \in 0 .. from(s) - 1 |-> Upsample(down(s), x)]
<1>1. /\ call' = [kernel |-> "tonemap", arg |-> <<w, h>>]
      /\ got' = [s \in sides |-> [x \in 0 .. from(s) - 1 |-> Position(up(s)[x], 4)]]
  BY DEF ToneMap, Call
<1>2. Rule("tonemap", <<w, h>>) = [s \in sides |-> UpsampleRule(down(s), from(s))]
  BY DEF Rule
<1>3. ASSUME NEW s \in sides
      PROVE  down(s) \in Nat \ {0}
  <2>1. PICK size \in {w, h}, l \in 1 .. last : s = <<size, l>>
    OBVIOUS
  <2>2. size \in Nat \ {0} /\ l \in Nat
    OBVIOUS
  <2> HIDE DEF sides
  <2>3. LevelSize(size, l) \in Nat \ {0}
    BY <2>2, LevelSizes
  <2> QED  BY <2>1, <2>3
<1>4. ASSUME NEW size \in Nat \ {0}, NEW x \in Nat
      PROVE  Position(Upsample(size, x), 4) = Centred(2 * x - 1, 4, size)
  <2> DEFINE v == Least(4 * (size - 1), 2 * x - 1)
  <2>1. v \in Int
    BY DEF Least
  <2>2. Upsample(size, x) = Between(Most(0, v), 4, size)
    BY DEF Upsample, Least, Most
  <2>3. Centred(v, 4, size) = Centred(2 * x - 1, 4, size)
    BY DEF Centred, Least, Most
  <2> HIDE DEF v
  <2> QED  BY <2>1, <2>2, <2>3, BetweenIsCentred
<1>5. ASSUME NEW s \in sides
      PROVE  [x \in 0 .. from(s) - 1 |-> Position(up(s)[x], 4)] = UpsampleRule(down(s), from(s))
  <2>1. UpsampleRule(down(s), from(s)) = [x \in 0 .. from(s) - 1 |-> Centred(2 * x - 1, 4, down(s))]
    BY DEF UpsampleRule
  <2>2. \A x \in 0 .. from(s) - 1 : x \in Nat /\ up(s)[x] = Upsample(down(s), x)
    OBVIOUS
  <2> HIDE DEF sides, down, from, up
  <2> QED  BY <1>3, <1>4, <2>1, <2>2
<1> HIDE DEF sides, down, from, up
<1> QED  BY <1>1, <1>2, <1>5 DEF ResultIsItsRule

\* bayer_to_rgb256: the middle of a part lies in one super pixel only.
LEMMA SuperPixelIsItsRule ==
  ASSUME NEW size \in Nat \ {0}, NEW n1 \in Nat \ {0}, NEW i \in 0 .. n1 - 1
  PROVE  SuperPixel(size, n1, i) = SuperPixelRule(size, n1, i)
<1> DEFINE v == (2 * i + 1) * size
           m == 2 * n1
           q == v \div m
           In(s) == v \in m * s .. m * (s + 1) - 1
<1>1. v \in Nat /\ m \in Nat \ {0}
  OBVIOUS
<1>2. q \in Nat /\ v = q * m + (v % m) /\ v % m \in 0 .. m - 1
  <2> HIDE DEF v, m
  <2>1. q \in Nat
    BY <1>1, QuotientType
  <2>2. v \in Int
    BY <1>1
  <2>3. v = q * m + (v % m) /\ v % m \in 0 .. m - 1
    BY <1>1, <2>2, DivModOf
  <2> QED  BY <2>1, <2>3
<1>3. v < m * size
  <2>1. 2 * i + 1 <= m - 1
    OBVIOUS
  <2>2. (m - 1 - (2 * i + 1)) * size \in Nat
    BY <2>1
  <2>3. (m - 1 - (2 * i + 1)) * size = m * size - size - v
    OBVIOUS
  <2> DEFINE all == m * size
  <2>4. all \in Nat
    BY <1>1
  <2> HIDE DEF v, all
  <2> QED  BY <1>1, <2>2, <2>3, <2>4 DEF all
<1> HIDE DEF v, m, q
<1>4. q <= size - 1
  <2> SUFFICES ASSUME q >= size PROVE FALSE
    BY <1>2
  <2>1. (q - size) * m \in Nat
    BY <1>1, <1>2
  <2>2. (q - size) * m = q * m - m * size
    BY <1>1, <1>2
  <2> DEFINE a == q * m
             b == m * size
  <2>3. a \in Int /\ b \in Int
    BY <1>1, <1>2
  <2>4. v >= a /\ v < b
    BY <1>1, <1>2, <1>3
  <2>5. a - b \in Nat
    BY <2>1, <2>2
  <2> HIDE DEF a, b
  <2> QED  BY <1>1, <2>3, <2>4, <2>5
<1>5. In(q)
  <2> DEFINE a == q * m
  <2>1. a \in Int /\ m * q = a /\ m * (q + 1) = a + m
    BY <1>1, <1>2
  <2> HIDE DEF a
  <2>2. v = a + (v % m) /\ v % m \in 0 .. m - 1
    BY <1>2 DEF a
  <2> QED  BY <1>1, <2>1, <2>2
<1>6. ASSUME NEW s \in 0 .. size - 1, In(s) PROVE s = q
  <2>1. s \in Nat
    OBVIOUS
  <2>2. m * s <= v /\ v < m * (s + 1) /\ m * q <= v /\ v < m * (q + 1)
    BY <1>1, <1>2, <1>5, <1>6, <2>1
  <2>3. ASSUME NEW a \in Nat, NEW b \in Nat, a < b, m * b <= v, v < m * (a + 1) PROVE FALSE
    <3>1. (b - (a + 1)) * m \in Nat
      BY <1>1, <2>3
    <3>2. (b - (a + 1)) * m = m * b - m * (a + 1)
      BY <1>1
    <3> DEFINE c == m * b
               d == m * (a + 1)
    <3>3. c \in Int /\ d \in Int
      BY <1>1
    <3>4. c <= v /\ v < d /\ c - d \in Nat
      BY <2>3, <3>1, <3>2
    <3> HIDE DEF c, d
    <3> QED  BY <1>1, <3>3, <3>4
  <2>4. ~(s < q) /\ ~(q < s)
    BY <1>2, <2>1, <2>2, <2>3
  <2> QED  BY <1>2, <2>1, <2>4
<1>7. SuperPixel(size, n1, i) = q
  <2>1. SuperPixel(size, n1, i) = Least(size - 1, q)
    BY DEF SuperPixel, v, m, q
  <2> QED  BY <1>2, <1>4, <2>1 DEF Least
<1>8. SuperPixelRule(size, n1, i) = CHOOSE s \in 0 .. size - 1 : In(s)
  BY DEF SuperPixelRule, v, m
<1> HIDE DEF In
<1>9. q \in 0 .. size - 1
  BY <1>2, <1>4
<1> QED  BY <1>5, <1>6, <1>7, <1>8, <1>9

LEMMA SuperPixelsAreTheirRule ==
  ASSUME NEW w \in Nat \ {0}, SuperPixels(w)
  PROVE  ResultIsItsRule'
<1>1. /\ w % 2 = 0 /\ call' = [kernel |-> "superpixels", arg |-> <<w>>]
      /\ got' = [i \in 0 .. ModelSide - 1 |-> SuperPixel(w \div 2, ModelSide, i)]
  BY DEF SuperPixels, Call
<1>2. Rule("superpixels", <<w>>) = [i \in 0 .. ModelSide - 1 |-> SuperPixelRule(w \div 2, ModelSide, i)]
  BY DEF Rule
<1>3. w \div 2 \in Nat \ {0} /\ ModelSide \in Nat \ {0}
  BY <1>1, KernelsAssumption
<1> DEFINE size == w \div 2
<1> HIDE DEF size
<1>4. \A i \in 0 .. ModelSide - 1 : SuperPixel(size, ModelSide, i) = SuperPixelRule(size, ModelSide, i)
  BY <1>3, SuperPixelIsItsRule DEF size
<1>5. got' = Rule("superpixels", <<w>>)
  BY <1>1, <1>2, <1>4 DEF size
<1> QED  BY <1>1, <1>5 DEF ResultIsItsRule

\* rotate256: a quarter turn, as often as the degrees make quarters.
LEMMA UprightIsItsRule ==
  ASSUME NEW side \in Nat \ {0}, NEW o \in Int, NEW p \in Int \X Int
  PROVE  ToUpright(side, o, p) = TurnRule(side, o, p)
<1> DEFINE After(g, k) == IF k = 0 THEN p ELSE <<side - 1 - g[k - 1][2], g[k - 1][1]>>
           it == CHOOSE g : g = [k \in 0 .. 3 |-> After(g, k)]
           at(k) == CASE k = 0 -> p
                      [] k = 1 -> <<side - 1 - p[2], p[1]>>
                      [] k = 2 -> <<side - 1 - p[1], side - 1 - p[2]>>
                      [] OTHER -> <<p[2], side - 1 - p[1]>>
           f == [k \in 0 .. 3 |-> at(k)]
           quarters == (o \div 90) % 4
<1>1. TurnRule(side, o, p) = IF o % 90 = 0 THEN it[quarters] ELSE p
  BY DEF TurnRule
<1>2. p = <<p[1], p[2]>> /\ p[1] \in Int /\ p[2] \in Int
  OBVIOUS
<1>3. f = [k \in 0 .. 3 |-> After(f, k)]
  <2>1. \A k \in 0 .. 3 : k = 0 \/ k = 1 \/ k = 2 \/ k = 3
    OBVIOUS
  <2>2. After(f, 0) = at(0)
    OBVIOUS
  <2>3. After(f, 1) = at(1)
    BY <1>2
  <2>4. After(f, 2) = at(2)
    BY <1>2
  <2>5. After(f, 3) = at(3)
    BY <1>2
  <2> HIDE DEF After, at
  <2>6. \A k \in 0 .. 3 : f[k] = After(f, k)
    BY <2>1, <2>2, <2>3, <2>4, <2>5
  <2> QED  BY <2>6
<1>4. it = [k \in 0 .. 3 |-> After(it, k)]
  <2> HIDE DEF After, f
  <2> QED  BY <1>3
<1> HIDE DEF it, f
<1>5. \A k \in 0 .. 3 : it[k] = f[k]
  <2>1. it[0] = f[0]
    BY <1>3, <1>4
  <2>2. ASSUME NEW k \in Nat, k < 3, it[k] = f[k] PROVE it[k + 1] = f[k + 1]
    <3>1. k + 1 \in 0 .. 3 /\ k + 1 # 0 /\ (k + 1) - 1 = k
      BY <2>2
    <3>2. it[k + 1] = After(it, k + 1) /\ f[k + 1] = After(f, k + 1)
      <4> HIDE DEF After
      <4> QED  BY <1>3, <1>4, <3>1
    <3> QED  BY <2>2, <3>1, <3>2
  <2> HIDE DEF After
  <2> QED  BY <2>1, <2>2, Alike
<1>6. quarters \in 0 .. 3
  OBVIOUS
<1>7. it[quarters] = at(quarters)
  BY <1>5, <1>6 DEF f
<1>8. Degrees(o) = o % 360
  BY SMTT(30) DEF Degrees, Remainder
<1>9. o % 90 = 0 => o % 360 = 90 * quarters
  BY SMTT(30)
<1>10. o % 90 # 0 => o % 360 # 0 /\ o % 360 # 90 /\ o % 360 # 180 /\ o % 360 # 270
  BY SMTT(30)
<1>11. ToUpright(side, o, p) = IF o % 360 # 0 THEN Rotate(side, o % 360, p) ELSE p
  BY <1>8 DEF ToUpright
<1> HIDE DEF it, quarters
<1>12. CASE o % 90 = 0
  <2>1. quarters = 0 \/ quarters = 1 \/ quarters = 2 \/ quarters = 3
    BY <1>6
  <2>2. ToUpright(side, o, p) = at(quarters)
    BY <1>9, <1>11, <1>12, <2>1 DEF Rotate
  <2> HIDE DEF at
  <2> QED  BY <1>1, <1>7, <1>12, <2>2
<1>13. CASE o % 90 # 0
  BY <1>1, <1>10, <1>11, <1>13 DEF Rotate
<1> QED  BY <1>12, <1>13

LEMMA TurnIsItsRule ==
  ASSUME NEW o \in Int, Turn(o)
  PROVE  ResultIsItsRule'
<1> DEFINE pixels == Pixels(ModelSide, ModelSide)
<1>1. /\ call' = [kernel |-> "turn", arg |-> <<o>>]
      /\ got' = [up |-> [p \in pixels |-> ToUpright(ModelSide, o, p)],
                 back |-> [p \in pixels |-> ToSensor(ModelSide, o, ToUpright(ModelSide, o, p))]]
  BY DEF Turn, Call
<1>2. Rule("turn", <<o>>) = [up |-> [p \in pixels |-> TurnRule(ModelSide, o, p)], back |-> [p \in pixels |-> p]]
  BY DEF Rule
<1>3. ModelSide \in Nat \ {0}
  BY KernelsAssumption
<1>4. \A p \in pixels : p \in Int \X Int
  BY <1>3 DEF Pixels
<1> HIDE DEF pixels
<1>5. \A p \in pixels : /\ ToUpright(ModelSide, o, p) = TurnRule(ModelSide, o, p)
                        /\ ToSensor(ModelSide, o, ToUpright(ModelSide, o, p)) = p
  BY <1>3, <1>4, UprightIsItsRule, MaskComesBack
<1>6. got' = Rule("turn", <<o>>)
  BY <1>1, <1>2, <1>5
<1> QED  BY <1>1, <1>6 DEF ResultIsItsRule

\* finish: the tasks write every row once, each sample is in one pixel of the
\* quarter, and no reflection mixes the colours.
LEMMA DemosaicIsItsRule ==
  ASSUME NEW size \in Nat \ {0}, Demosaic(size)
  PROVE  ResultIsItsRule'
<1> DEFINE rows == [y \in 0 .. size - 1 |-> RowWritten(size, y)]
           quarter == [q \in 0 .. size \div 4 - 1 |-> QuarterTaps(size, q)]
           taps == (0 .. size - 1) \X (-2 .. 2)
           phase == [t \in taps |-> Mirror(t[1] + t[2], size) % 2]
<1>1. /\ size % 4 = 0 /\ call' = [kernel |-> "demosaic", arg |-> <<size>>]
      /\ got' = [rows |-> rows, quarter |-> quarter, phase |-> phase]
  BY DEF Demosaic, Accepted, Call
<1>2. Rule("demosaic", <<size>>)
        = [rows |-> [y \in 0 .. size - 1 |-> 1], quarter |-> [q \in 0 .. size \div 4 - 1 |-> 4],
           phase |-> [t \in taps |-> (t[1] + t[2]) % 2]]
  BY DEF Rule
<1>3. ASSUME NEW y \in 0 .. size - 1 PROVE RowWritten(size, y) = 1
  <2> DEFINE written == {t \in (0 .. size \div 4 - 1) \X (0 .. 3) : 4 * t[1] + t[2] = y}
             t0 == <<y \div 4, y % 4>>
  <2>1. y \div 4 \in 0 .. size \div 4 - 1 /\ y % 4 \in 0 .. 3 /\ 4 * (y \div 4) + (y % 4) = y
    BY <1>1
  <2>2. \A a \in 0 .. size \div 4 - 1, b \in 0 .. 3 : 4 * a + b = y => a = y \div 4 /\ b = y % 4
    OBVIOUS
  <2>3. written = {t0}
    BY <2>1, <2>2
  <2> HIDE DEF written, t0
  <2>4. Cardinality(written) = 1
    BY <2>3, FS_Singleton
  <2> QED  BY <2>4 DEF RowWritten, written
<1>4. ASSUME NEW q \in 0 .. size \div 4 - 1 PROVE QuarterTaps(size, q) = 4
  <2> DEFINE added == {x \in 0 .. size - 1 : x \div 4 < size \div 4 /\ x \div 4 = q}
             lo == 4 * q
             hi == 4 * q + 3
  <2>1. \A x \in Int : x \in 0 .. size - 1 /\ x \div 4 < size \div 4 /\ x \div 4 = q <=> x \in lo .. hi
    BY <1>1
  <2>2. added = lo .. hi
    BY <2>1
  <2>3. lo \in Int /\ hi \in Int /\ lo <= hi /\ hi - lo + 1 = 4
    OBVIOUS
  <2> HIDE DEF added, lo, hi
  <2>4. Cardinality(lo .. hi) = hi - lo + 1
    BY <2>3, FS_Interval
  <2> QED  BY <2>2, <2>3, <2>4 DEF QuarterTaps, added
<1>5. ASSUME NEW t \in taps PROVE Mirror(t[1] + t[2], size) % 2 = (t[1] + t[2]) % 2
  <2> DEFINE i == t[1]
             k == t[2]
  <2>1. i \in 0 .. size - 1 /\ k \in -2 .. 2
    OBVIOUS
  <2>2. size \in Nat /\ size % 2 = 0 /\ size >= 4
    <3>1. size % 4 = 0
      BY <1>1
    <3> QED  BY <3>1
  <2> HIDE DEF i, k
  <2>3. Mirror(i + k, size) % 2 = (i + k) % 2
    BY <2>1, <2>2, ReflectionKeepsColour
  <2> QED  BY <2>3 DEF i, k
<1> HIDE DEF taps
<1>6. got' = Rule("demosaic", <<size>>)
  BY <1>1, <1>2, <1>3, <1>4, <1>5
<1> QED  BY <1>1, <1>6 DEF ResultIsItsRule

\* local_tone_gain, the inverse of the tone curve
LEMMA InverseIsItsRule ==
  ASSUME NEW lut \in Curves, InvertTone(lut)
  PROVE  ResultIsItsRule'
<1>1. PICK last \in DOMAIN lut : lut \in [0 .. last -> Nat]
  BY KernelsAssumption
<1>2. last \in Nat /\ DOMAIN lut = 0 .. last
  BY <1>1
<1>3. Max(DOMAIN lut) = last
  <2>1. \A u \in 0 .. last : (\A y \in 0 .. last : u >= y) => u = last
    BY <1>2
  <2>2. last \in 0 .. last /\ \A y \in 0 .. last : last >= y
    BY <1>2
  <2> QED  BY <1>2, <2>1, <2>2 DEF Max
<1>4. /\ call' = [kernel |-> "inverse", arg |-> <<lut>>]
      /\ got' = InverseTone(lut, last, Values)
  BY <1>3 DEF InvertTone, Call
<1>5. Rule("inverse", <<lut>>) = InverseRule(lut)
  BY DEF Rule
<1> DEFINE reach(v) == {j \in DOMAIN lut : lut[j] >= v}
<1>6. InverseRule(lut) = [v \in 0 .. Values - 1 |-> IF reach(v) = {} THEN last ELSE Min(reach(v))]
  BY <1>3 DEF InverseRule
<1>7. ASSUME NEW v \in Nat
      PROVE  FirstNotBelow(lut, last, v) = IF reach(v) = {} THEN last ELSE Min(reach(v))
  <2> DEFINE k == FirstNotBelow(lut, last, v)
  <2>1. k \in 0 .. last /\ (\A m \in 0 .. k - 1 : lut[m] < v) /\ (k = last \/ lut[k] >= v)
    BY <1>1, <1>2, FirstNotBelowExists
  <2> HIDE DEF k
  <2>2. CASE reach(v) = {}
    <3>1. ~(lut[k] >= v)
      BY <1>2, <2>1, <2>2
    <3> QED  BY <2>1, <2>2, <3>1 DEF k
  <2>3. CASE reach(v) # {}
    <3>1. ASSUME NEW j \in reach(v) PROVE k <= j
      <4>1. j \in 0 .. last /\ lut[j] >= v /\ lut[j] \in Nat
        BY <1>1, <1>2
      <4>2. ~(j \in 0 .. k - 1)
        BY <2>1, <4>1
      <4> QED  BY <2>1, <4>1, <4>2
    <3>2. k \in reach(v)
      <4>1. PICK j : j \in reach(v)
        BY <2>3
      <4>2. j \in 0 .. last /\ lut[j] >= v
        BY <1>2, <4>1
      <4>3. k = last => j = k
        BY <2>1, <3>1, <4>1, <4>2
      <4>4. lut[k] >= v
        BY <2>1, <4>2, <4>3
      <4> QED  BY <1>2, <2>1, <4>4
    <3>3. \A u \in reach(v) : u \in Int
      BY <1>2
    <3> HIDE DEF reach
    <3>4. \A u \in reach(v) : (\A y \in reach(v) : u <= y) => u = k
      BY <2>1, <3>1, <3>2, <3>3
    <3>5. Min(reach(v)) = k
      BY <3>1, <3>2, <3>4 DEF Min
    <3> QED  BY <2>3, <3>5 DEF k
  <2> QED  BY <2>2, <2>3
<1>8. InverseTone(lut, last, Values) = [v \in 0 .. Values - 1 |-> FirstNotBelow(lut, last, v)]
  BY <1>1, <1>2, KernelsAssumption, InverseIsFirst
<1> HIDE DEF reach
<1>9. got' = Rule("inverse", <<lut>>)
  <2>1. \A v \in 0 .. Values - 1 : v \in Nat
    OBVIOUS
  <2> QED  BY <1>4, <1>5, <1>6, <1>7, <1>8, <2>1
<1> QED  BY <1>4, <1>9 DEF ResultIsItsRule

\* How often a row of prefix sums counts a pixel is how many of the displacements
\* of the row come to it, those beyond the edge included.
LEMMA RowTapsCount ==
  ASSUME NEW w \in Nat \ {0}, NEW x \in 0 .. w - 1, NEW s \in Nat, NEW u \in 0 .. w - 1
  PROVE  LET row == {dx \in -s .. s : Clamp(x + dx, w) = u}
         IN IsFiniteSet(row) /\ Cardinality(row) = RowTaps(w, x, s)[u]
<1> DEFINE row == {dx \in -s .. s : Clamp(x + dx, w) = u}
           lo == IF u = 0 THEN -s ELSE Most(-s, u - x)
           hi == IF u = w - 1 THEN s ELSE Least(s, u - x)
           xa == Most(0, x - s)
           xb == Least(w - 1, x + s)
           left == Replicated(xa, x - s)
           right == Replicated(xb, x + s)
<1>1. lo \in Int /\ hi \in Int
  BY DEF Least, Most
<1>2. row = lo .. hi
  <2>1. \A dx \in Int : dx \in -s .. s /\ Clamp(x + dx, w) = u <=> dx \in lo .. hi
    BY DEF Clamp, Least, Most
  <2> HIDE DEF lo, hi
  <2> QED  BY <2>1, <1>1
<1>3. RowTaps(w, x, s)[u] = Prefix(u, xb + 1) - Prefix(u, xa) + left * Prefix(u, 1)
                              + right * (Prefix(u, w) - Prefix(u, w - 1))
  BY DEF RowTaps
<1>4. left \in Int /\ right \in Int
  BY DEF Replicated, Most, Least
<1>5. left * Prefix(u, 1) = IF u = 0 THEN left ELSE 0
  <2> HIDE DEF left
  <2> QED  BY <1>4 DEF Prefix, Once
<1>6. right * (Prefix(u, w) - Prefix(u, w - 1)) = IF u = w - 1 THEN right ELSE 0
  <2> HIDE DEF right
  <2>1. Prefix(u, w) - Prefix(u, w - 1) = IF u = w - 1 THEN 1 ELSE 0
    BY DEF Prefix, Once
  <2> QED  BY <1>4, <2>1
<1>7. RowTaps(w, x, s)[u] = IF lo > hi THEN 0 ELSE hi - lo + 1
  <2>1. RowTaps(w, x, s)[u] = Prefix(u, xb + 1) - Prefix(u, xa) + (IF u = 0 THEN left ELSE 0)
                                + (IF u = w - 1 THEN right ELSE 0)
    BY <1>3, <1>5, <1>6
  <2> QED  BY <2>1 DEF Prefix, Once, Replicated, Most, Least
<1> HIDE DEF lo, hi, row
<1>8. IsFiniteSet(lo .. hi) /\ Cardinality(lo .. hi) = IF lo > hi THEN 0 ELSE hi - lo + 1
  BY <1>1, FS_Interval
<1> QED  BY <1>2, <1>7, <1>8 DEF row

\* The displacements of one row of the disc that come to pixel p.
DiscRow(w, h, r, x, y, dy, p) ==
  {d \in Disc(r) : DirectTap(w, h, r, x, y, d[1], d[2]) = p /\ d[2] = dy}

\* There are as many as the prefix sums of that row count.
LEMMA RowOfTheDisc ==
  ASSUME NEW w \in Nat \ {0}, NEW h \in Nat \ {0}, NEW r \in Nat, NEW x \in 0 .. w - 1, NEW y \in 0 .. h - 1,
         NEW dy \in -r .. r, NEW p \in Pixels(w, h)
  PROVE  Cardinality(DiscRow(w, h, r, x, y, dy, p))
           = IF Clamp(y + dy, h) = p[2] THEN RowTaps(w, x, Span(r, dy))[p[1]] ELSE 0
<1> DEFINE s == Span(r, dy)
           row == DiscRow(w, h, r, x, y, dy, p)
           along == {dx \in -s .. s : Clamp(x + dx, w) = p[1]}
<1>1. s \in 0 .. r
  BY SpanExists
<1>2. p[1] \in 0 .. w - 1 /\ p[2] \in 0 .. h - 1 /\ p = <<p[1], p[2]>>
  BY DEF Pixels
<1>3. ASSUME NEW d \in Disc(r)
      PROVE  /\ d = <<d[1], d[2]>> /\ d[1] \in -Span(r, d[2]) .. Span(r, d[2])
             /\ DirectTap(w, h, r, x, y, d[1], d[2]) = <<Clamp(x + d[1], w), Clamp(y + d[2], h)>>
  <2>1. d = <<d[1], d[2]>> /\ d[1] \in -r .. r /\ d[2] \in -r .. r /\ d[1] \in -Span(r, d[2]) .. Span(r, d[2])
    BY DEF Disc
  <2>2. \A a, b \in -r .. r : DirectTap(w, h, r, x, y, a, b) = <<Clamp(x + a, w), Clamp(y + b, h)>>
    BY DirectTapClamps
  <2> QED  BY <2>1, <2>2
<1>4. CASE Clamp(y + dy, h) # p[2]
  <2>1. row = {}
    BY <1>2, <1>3, <1>4 DEF DiscRow
  <2> HIDE DEF row
  <2> QED  BY <1>4, <2>1, FS_EmptySet DEF row
<1>5. CASE Clamp(y + dy, h) = p[2]
  <2>1. IsFiniteSet(along) /\ Cardinality(along) = RowTaps(w, x, s)[p[1]]
    <3>1. s \in Nat
      BY <1>1
    <3> HIDE DEF s
    <3> QED  BY <1>2, <3>1, RowTapsCount
  <2> DEFINE F == [dx \in along |-> <<dx, dy>>]
  <2>2. ASSUME NEW dx \in along PROVE <<dx, dy>> \in row
    <3>1. dx \in -r .. r /\ dx \in -s .. s /\ Clamp(x + dx, w) = p[1]
      BY <1>1
    <3>2. <<dx, dy>> \in Disc(r)
      BY <3>1 DEF Disc
    <3> DEFINE d == <<dx, dy>>
    <3>3. d[1] = dx /\ d[2] = dy
      BY DEF DiscRow
    <3> HIDE DEF d, row, along
    <3>4. DirectTap(w, h, r, x, y, d[1], d[2]) = p
      BY <1>2, <1>3, <1>5, <3>1, <3>2, <3>3 DEF d
    <3> QED  BY <3>2, <3>3, <3>4 DEF row, d, DiscRow
  <2>3. ASSUME NEW d \in row PROVE d[1] \in along /\ d = <<d[1], dy>>
    <3>1. d \in Disc(r) /\ DirectTap(w, h, r, x, y, d[1], d[2]) = p /\ d[2] = dy
      BY DEF DiscRow
    <3> HIDE DEF row
    <3>2. d = <<d[1], dy>> /\ d[1] \in -s .. s /\ Clamp(x + d[1], w) = p[1]
      BY <1>2, <1>3, <3>1
    <3> QED  BY <3>2
  <2>4. ExistsBijection(along, row)
    <3> HIDE DEF along, row
    <3>1. F \in [along -> row]
      BY <2>2
    <3>2. \A a, b \in along : F[a] = F[b] => a = b
      OBVIOUS
    <3>3. \A d \in row : \E a \in along : F[a] = d
      BY <2>3
    <3> HIDE DEF F
    <3> QED  BY <3>1, <3>2, <3>3, Fun_IsBij DEF ExistsBijection
  <2>5. Cardinality(row) = Cardinality(along)
    <3> HIDE DEF along, row
    <3> QED  BY <2>1, <2>4, FS_Bijection
  <2> HIDE DEF along, row
  <2> QED  BY <1>5, <2>1, <2>5 DEF row
<1> QED  BY <1>4, <1>5

\* disc_blur_normalized against disc_blur_direct: after so many rows the sum has
\* counted the part of the disc that lies in them.
LEMMA PrefixIsDirect ==
  ASSUME NEW w \in Nat \ {0}, NEW h \in Nat \ {0}, NEW r \in Nat, NEW x \in 0 .. w - 1, NEW y \in 0 .. h - 1
  PROVE  PrefixTaps(w, h, r, x, y) = DirectTaps(w, h, r, x, y)
<1> DEFINE m == 2 * r + 1
           row(dy, p) == IF Clamp(y + dy, h) = p[2] THEN RowTaps(w, x, Span(r, dy))[p[1]] ELSE 0
           After(g, k) == IF k = 0 THEN [p \in Pixels(w, h) |-> 0]
                          ELSE [p \in Pixels(w, h) |-> g[k - 1][p] + row(k - 1 - r, p)]
           it == CHOOSE g : g = [k \in 0 .. m |-> After(g, k)]
           to(p) == {d \in Disc(r) : DirectTap(w, h, r, x, y, d[1], d[2]) = p}
           above(k, p) == {d \in to(p) : d[2] < k - r}
           f == [k \in 0 .. m |-> [p \in Pixels(w, h) |-> Cardinality(above(k, p))]]
<1>1. PrefixTaps(w, h, r, x, y) = it[m]
  BY DEF PrefixTaps
<1>2. \A d \in Disc(r) : d[2] \in -r .. r
  BY DEF Disc
<1>2a. ASSUME NEW dy \in -r .. r, NEW p \in Pixels(w, h)
         PROVE  Cardinality(DiscRow(w, h, r, x, y, dy, p)) = row(dy, p)
  BY RowOfTheDisc
<1>3. ASSUME NEW k \in 0 .. m, k # 0, NEW p \in Pixels(w, h)
      PROVE  Cardinality(above(k, p)) = Cardinality(above(k - 1, p)) + row(k - 1 - r, p)
  <2> DEFINE dy == k - 1 - r
             one == DiscRow(w, h, r, x, y, dy, p)
  <2>1. dy \in -r .. r
    BY <1>3
  <2>2. Cardinality(one) = row(dy, p)
    <3> HIDE DEF dy, row
    <3> QED  BY <1>2a, <2>1
  <2>3. above(k, p) = above(k - 1, p) \cup one /\ above(k - 1, p) \cap one = {}
    BY <1>2 DEF DiscRow
  <2>4. IsFiniteSet(above(k - 1, p)) /\ IsFiniteSet(one)
    BY DiscFinite, FS_Subset DEF DiscRow
  <2> DEFINE A == above(k - 1, p)
             B == above(k, p)
  <2> HIDE DEF A, B, one
  <2>5. B = A \cup one /\ A \cap one = {} /\ IsFiniteSet(A) /\ IsFiniteSet(one)
    BY <2>3, <2>4 DEF A, B
  <2>6. Cardinality(B) = Cardinality(A) + Cardinality(one) - Cardinality(A \cap one)
    BY <2>5, FS_Union
  <2>7. Cardinality(A \cap one) = 0 /\ Cardinality(A) \in Nat /\ Cardinality(one) \in Nat
    BY <2>5, FS_EmptySet, FS_CardinalityType
  <2>8. Cardinality(B) = Cardinality(A) + Cardinality(one)
    BY <2>6, <2>7
  <2> QED  BY <2>2, <2>8 DEF A, B
<1>4. \A p \in Pixels(w, h) : Cardinality(above(0, p)) = 0
  <2> TAKE p \in Pixels(w, h)
  <2>1. above(0, p) = {}
    BY <1>2
  <2> QED  BY <2>1, FS_EmptySet
<1>5. f = [k \in 0 .. m |-> After(f, k)]
  <2>1. ASSUME NEW k \in 0 .. m PROVE f[k] = After(f, k)
    <3>1. CASE k = 0
      <4> HIDE DEF above
      <4> QED  BY <1>4, <3>1
    <3>2. CASE k # 0
      <4>1. k - 1 \in 0 .. m
        BY <3>2
      <4> HIDE DEF above, row
      <4>2. f[k] = [p \in Pixels(w, h) |-> Cardinality(above(k, p))]
        OBVIOUS
      <4>3. f[k - 1] = [p \in Pixels(w, h) |-> Cardinality(above(k - 1, p))]
        BY <4>1
      <4>4. After(f, k) = [p \in Pixels(w, h) |-> f[k - 1][p] + row(k - 1 - r, p)]
        BY <3>2
      <4> HIDE DEF f, After
      <4>5. \A p \in Pixels(w, h) : f[k - 1][p] = Cardinality(above(k - 1, p))
        BY <4>3
      <4> QED  BY <1>3, <3>2, <4>2, <4>4, <4>5
    <3> QED  BY <3>1, <3>2
  <2> HIDE DEF After
  <2> QED  BY <2>1
<1>6. it = [k \in 0 .. m |-> After(it, k)]
  <2> HIDE DEF After, f
  <2> QED  BY <1>5
<1> HIDE DEF f, it
<1>7. m \in Nat /\ it[0] = f[0]
  BY <1>5, <1>6
<1>8. ASSUME NEW k \in Nat, k < m, it[k] = f[k] PROVE it[k + 1] = f[k + 1]
  <2>1. k + 1 \in 0 .. m /\ k + 1 # 0 /\ (k + 1) - 1 = k
    BY <1>8
  <2>2. it[k + 1] = After(it, k + 1) /\ f[k + 1] = After(f, k + 1)
    <3> HIDE DEF After
    <3> QED  BY <1>5, <1>6, <2>1
  <2> HIDE DEF row
  <2> QED  BY <1>8, <2>1, <2>2
<1> HIDE DEF After
<1>9. it[m] = f[m]
  <2>1. \A k \in 0 .. m : it[k] = f[k]
    BY <1>7, <1>8, Alike
  <2> QED  BY <1>7, <2>1
<1>10. \A p \in Pixels(w, h) : above(m, p) = to(p)
  BY <1>2
<1>11. f[m] = [p \in Pixels(w, h) |-> Cardinality(to(p))]
  <2>1. f[m] = [p \in Pixels(w, h) |-> Cardinality(above(m, p))]
    BY <1>7 DEF f
  <2> HIDE DEF above, to, m
  <2> QED  BY <1>10, <2>1
<1>12. DirectTaps(w, h, r, x, y) = [p \in Pixels(w, h) |-> Cardinality(to(p))]
  BY DEF DirectTaps, Disc
<1> QED  BY <1>1, <1>9, <1>11, <1>12

\* The three blurs, and whichever is chosen.
LEMMA DiscIsItsRule ==
  ASSUME NEW w \in Nat \ {0}, NEW h \in Nat \ {0}, NEW r \in Nat, DiscBlur(w, h, r)
  PROVE  ResultIsItsRule'
<1> DEFINE pixels == Pixels(w, h)
           rule == DiscRule(w, h, r)
<1>1. /\ call' = [kernel |-> "disc", arg |-> <<w, h, r>>]
      /\ got' = [direct |-> [p \in pixels |-> DirectTaps(w, h, r, p[1], p[2])],
                 prefix |-> [p \in pixels |-> PrefixTaps(w, h, r, p[1], p[2])],
                 blurred |-> [p \in pixels |-> Blurred(w, h, r, p[1], p[2])]]
  BY DEF DiscBlur, Call
<1>2. Rule("disc", <<w, h, r>>) = [direct |-> rule, prefix |-> rule, blurred |-> rule]
  BY DEF Rule
<1>3. rule = [p \in pixels |-> rule[p]]
  BY DEF DiscRule
<1>4. Group \in Nat \ {0} /\ MaxRadius \in Nat
  BY KernelsAssumption
<1>5. ASSUME NEW p \in pixels
      PROVE  /\ DirectTaps(w, h, r, p[1], p[2]) = rule[p]
             /\ PrefixTaps(w, h, r, p[1], p[2]) = rule[p]
             /\ Blurred(w, h, r, p[1], p[2]) = rule[p]
  <2>1. p[1] \in 0 .. w - 1 /\ p[2] \in 0 .. h - 1 /\ p = <<p[1], p[2]>>
    BY DEF Pixels
  <2> HIDE DEF rule
  <2>2. OnGpu(r, r)
    BY DEF OnGpu
  <2>3. 1 \in Nat \ {0}
    OBVIOUS
  <2>4. DirectTaps(w, h, r, p[1], p[2]) = rule[p]
    BY <2>1, <2>2, <2>3, GpuBlurIsItsRule DEF rule
  <2>5. PrefixTaps(w, h, r, p[1], p[2]) = rule[p]
    BY <2>1, <2>4, PrefixIsDirect
  <2>6. OnGpu(r, MaxRadius) => ShaderTaps(w, h, Group, MaxRadius, r, p[1], p[2]) = rule[p]
    BY <1>4, <2>1, GpuBlurIsItsRule DEF rule
  <2> QED  BY <2>4, <2>5, <2>6 DEF Blurred
<1> HIDE DEF pixels, rule
<1>6. got' = Rule("disc", <<w, h, r>>)
  BY <1>1, <1>2, <1>3, <1>5
<1> QED  BY <1>1, <1>6 DEF ResultIsItsRule

-----------------------------------------------------------------------------
(* What the kernels of a burst compute *)

\* Indices of a table, counted row by row, are in the order of their rows, in a
\* row in that of their columns.
LEMMA IndexOrder ==
  ASSUME NEW wide \in Nat \ {0}, NEW i \in Nat, NEW j \in Nat, i < j
  PROVE  i \div wide < j \div wide \/ (i \div wide = j \div wide /\ i % wide < j % wide)
<1> DEFINE a == i \div wide
           b == j \div wide
           c == i % wide
           d == j % wide
           back == (a - b) * wide
           u == a * wide
           v == b * wide
<1>1. i = u + c /\ c \in 0 .. wide - 1 /\ a \in Int
  BY DivModOf
<1>2. j = v + d /\ d \in 0 .. wide - 1 /\ b \in Int
  BY DivModOf
<1> HIDE DEF a, b, c, d
<1>3. back = u - v /\ back \in Int /\ u \in Int /\ v \in Int
  BY <1>1, <1>2
<1>4. a > b => back >= wide
  BY <1>1, <1>2
<1>5. a = b => u = v
  OBVIOUS
<1> HIDE DEF back, u, v
<1>6. a < b \/ (a = b /\ c < d)
  <2>1. ~(a > b)
    BY <1>1, <1>2, <1>3, <1>4
  <2>2. a = b => c < d
    BY <1>1, <1>2, <1>3, <1>5
  <2> QED  BY <1>1, <1>2, <2>1, <2>2
<1> QED  BY <1>6 DEF a, b, c, d

\* Search tries every displacement of the square, row by row.
LEMMA SearchOrder ==
  ASSUME NEW radius \in Nat
  PROVE  LET tried == Search(radius)
         IN /\ \A d \in (-radius .. radius) \X (-radius .. radius) : \E k \in 1 .. Len(tried) : tried[k] = d
            /\ \A i, j \in 1 .. Len(tried) : i < j => RowByRow(tried[i], tried[j])
<1> DEFINE side == 2 * radius + 1
           count == side * side
           at(k) == <<((k - 1) % side) - radius, ((k - 1) \div side) - radius>>
           tried == Search(radius)
<1>1. side \in Nat \ {0} /\ count \in Nat
  OBVIOUS
<1>2. tried = [k \in 1 .. count |-> at(k)]
  BY DEF Search
<1>3. Len(tried) = count
  <2> HIDE DEF at, count
  <2>1. tried \in Seq((-radius .. radius) \X (-radius .. radius))
    BY SearchInSquare
  <2>2. DOMAIN tried = 1 .. count
    BY <1>2
  <2> HIDE DEF tried
  <2> QED  BY <1>1, <2>1, <2>2
<1> HIDE DEF tried
<1>4. ASSUME NEW d \in (-radius .. radius) \X (-radius .. radius)
      PROVE  \E k \in 1 .. count : tried[k] = d
  <2> DEFINE q == d[2] + radius
             r == d[1] + radius
             k == q * side + r + 1
  <2>1. q \in 0 .. side - 1 /\ r \in 0 .. side - 1 /\ d = <<r - radius, q - radius>>
    OBVIOUS
  <2>2. k \in 1 .. count
    <3> DEFINE a == q * side
    <3>1. (side - 1 - q) * side \in Nat /\ (side - 1 - q) * side = count - side - a
      BY <1>1, <2>1
    <3>2. a \in Nat
      BY <1>1, <2>1
    <3> HIDE DEF a, count, q, r, side
    <3>3. a + r + 1 \in 1 .. count
      BY <1>1, <2>1, <3>1, <3>2
    <3> QED  BY <3>3 DEF a
  <2>3. (k - 1) \div side = q /\ (k - 1) % side = r
    <3> HIDE DEF q, r, side
    <3>1. k - 1 = q * side + r
      <4> DEFINE a == q * side
      <4>1. a \in Int
        BY <1>1, <2>1
      <4> HIDE DEF a
      <4>2. (a + r + 1) - 1 = a + r
        BY <2>1, <4>1
      <4> QED  BY <4>2 DEF a
    <3>2. q \in Int
      BY <2>1
    <3>3. (q * side + r) \div side = q /\ (q * side + r) % side = r
      BY <1>1, <2>1, <3>2, DivMod, Zenon
    <3> HIDE DEF k
    <3> QED  BY <3>1, <3>3
  <2> HIDE DEF k, q, r
  <2>4. tried[k] = at(k)
    BY <1>2, <2>2
  <2> QED  BY <2>1, <2>2, <2>3, <2>4
<1>5. ASSUME NEW i \in 1 .. count, NEW j \in 1 .. count, i < j
      PROVE  RowByRow(tried[i], tried[j])
  <2> DEFINE a == i - 1
             b == j - 1
  <2>1. a \in Nat /\ b \in Nat /\ a < b
    BY <1>1, <1>5
  <2>2. tried[i] = <<(a % side) - radius, (a \div side) - radius>> /\ tried[j] = <<(b % side) - radius, (b \div side) - radius>>
    BY <1>2
  <2> HIDE DEF a, b, side
  <2>3. a \div side < b \div side \/ (a \div side = b \div side /\ a % side < b % side)
    BY <1>1, <2>1, IndexOrder
  <2>4. a \div side \in Int /\ b \div side \in Int /\ a % side \in Int /\ b % side \in Int
    BY <1>1, <2>1, DivModOf
  <2> QED  BY <2>2, <2>3, <2>4 DEF RowByRow
<1> QED  BY <1>3, <1>4, <1>5 DEF tried

LEMMA BestIsNearFirst ==
  ASSUME NEW allowed, NEW sad, NEW c \in allowed, \A e \in allowed : sad[c] <= sad[e],
         \A e \in allowed : sad[e] <= sad[c] => c = e \/ NearFirst(c, e),
         \A e \in allowed : NearFirst(c, e) => ~NearFirst(e, c)
  PROVE  BestOf(allowed, sad, NearFirst) = [sad |-> sad[c], d |-> c]
<1> DEFINE least == {d \in allowed : \A e \in allowed : sad[d] <= sad[e]}
           First(d) == \A e \in least : d = e \/ NearFirst(d, e)
           first == CHOOSE d \in least : First(d)
<1>1. BestOf(allowed, sad, NearFirst) = [sad |-> sad[first], d |-> first]
  BY DEF BestOf
<1>2. c \in least /\ First(c)
  OBVIOUS
<1>3. ASSUME NEW e \in least, First(e) PROVE e = c
  BY <1>2, <1>3
<1> HIDE DEF least, First
<1>4. first = c
  BY <1>2, <1>3
<1> QED  BY <1>1, <1>4

\* align_frame: the least difference, of equal ones the shortest displacement, of
\* equally long ones the first row by row.
LEMMA BestIsAlignRule ==
  ASSUME NEW w \in Int, NEW h \in Int, NEW tile \in Nat \ {0}, NEW x0 \in Int \X Int, NEW d0 \in Int \X Int,
         NEW sad \in [Square -> Nat]
  PROVE  AlignTile(w, h, tile, x0, d0, SearchRadius, sad) = AlignRule(w, h, tile, x0, d0, sad)
<1> DEFINE tried == Search(SearchRadius)
           m == Len(tried)
           ok == MayTake(w, h, tile, x0, d0, tried)
           near == Lengths(Square)
           best == AlignTile(w, h, tile, x0, d0, SearchRadius, sad)
           allowed == {d \in Square : /\ x0[1] + tile <= w /\ x0[2] + tile <= h
                                      /\ Plus(x0, Plus(d0, d)) \in (0 .. w - tile) \X (0 .. h - tile)}
<1>1. SearchRadius \in Nat /\ Square = (-SearchRadius .. SearchRadius) \X (-SearchRadius .. SearchRadius)
  BY KernelsAssumption DEF Square
<1>2. \A d \in Square : d \in Int \X Int /\ d[1] \in Int /\ d[2] \in Int
  BY <1>1
<1>3. AlignRule(w, h, tile, x0, d0, sad) = BestOf(allowed, sad, NearFirst)
  BY DEF AlignRule
<1>4. IsBest(m, best, tried, ok, sad, near)
  <2>1. tile \in Int
    OBVIOUS
  <2> QED  BY <1>1, <2>1, AlignIsBest
<1>5. /\ m \in Nat /\ \A k \in 1 .. m : tried[k] \in Square
      /\ \A d \in Square : \E k \in 1 .. m : tried[k] = d
      /\ \A i, j \in 1 .. m : i < j => RowByRow(tried[i], tried[j])
  <2>1. tried \in Seq(Square)
    BY <1>1, SearchInSquare
  <2>2. /\ \A d \in Square : \E k \in 1 .. m : tried[k] = d
        /\ \A i, j \in 1 .. m : i < j => RowByRow(tried[i], tried[j])
    BY <1>1, SearchOrder
  <2> HIDE DEF tried
  <2>3. m \in Nat /\ \A k \in 1 .. m : tried[k] \in Square
    BY <2>1
  <2> QED  BY <2>2, <2>3
<1>6. \A k \in 1 .. m : ok[k] <=> /\ x0[1] + tile <= w /\ x0[2] + tile <= h
                                 /\ Inside(w, h, Plus(x0, Plus(d0, tried[k])), tile, tile)
  BY DEF MayTake
<1>7. ASSUME NEW d \in Square
      PROVE  Plus(x0, Plus(d0, d)) \in (0 .. w - tile) \X (0 .. h - tile)
               <=> Inside(w, h, Plus(x0, Plus(d0, d)), tile, tile)
  <2> DEFINE at == Plus(x0, Plus(d0, d))
  <2>1. at \in Int \X Int
    BY <1>2, PlusPairs
  <2> HIDE DEF at
  <2>2. at = <<at[1], at[2]>> /\ at[1] \in Int /\ at[2] \in Int
    BY <2>1
  <2>3. at \in (0 .. w - tile) \X (0 .. h - tile) <=> at[1] \in 0 .. w - tile /\ at[2] \in 0 .. h - tile
    BY <2>2
  <2>4. at \in (0 .. w - tile) \X (0 .. h - tile) <=> Inside(w, h, at, tile, tile)
    BY <2>2, <2>3 DEF Inside
  <2> QED  BY <2>4 DEF at
<1> HIDE DEF tried, m, best, ok
<1>8. \A k \in 1 .. m : ok[k] <=> tried[k] \in allowed
  BY <1>5, <1>6, <1>7
<1>9. \A d \in allowed : d \in Square /\ \E k \in 1 .. m : tried[k] = d /\ ok[k]
  BY <1>5, <1>8
<1>10. \A d \in Square : near[d] = Length1(d) /\ Length1(d) \in Nat /\ sad[d] \in Nat
  BY <1>2 DEF Lengths, Length1, Abs
<1> HIDE DEF allowed, near, Square
<1>11. CASE \A k \in 1 .. m : ~ok[k]
  <2>1. allowed = {}
    BY <1>9, <1>11
  <2>2. best = None
    BY <1>4, <1>11 DEF IsBest, Leads
  <2> QED  BY <1>3, <2>1, <2>2 DEF best, BestOf
<1>12. ASSUME NEW j \in 1 .. m, Leads(j, m, tried, ok, sad, near), best = [sad |-> sad[tried[j]], d |-> tried[j]]
       PROVE  best = AlignRule(w, h, tile, x0, d0, sad)
  <2> DEFINE c == tried[j]
  <2>1. c \in allowed /\ c \in Square
    BY <1>5, <1>8, <1>12 DEF Leads
  <2>2. ASSUME NEW e \in allowed
        PROVE  /\ sad[c] <= sad[e]
               /\ sad[e] = sad[c] => c = e \/ NearFirst(c, e)
    <3>1. PICK i \in 1 .. m : tried[i] = e /\ ok[i]
      BY <1>9
    <3>2. Precedes(j, i, tried, sad, near) /\ e \in Square
      BY <1>9, <1>12, <3>1 DEF Leads
    <3>3. sad[c] \in Nat /\ sad[e] \in Nat /\ near[c] = Length1(c) /\ near[e] = Length1(e) /\ i \in Nat /\ j \in Nat
      BY <1>10, <2>1, <3>2
    <3>4. j < i => RowByRow(c, e)
      BY <1>5, <3>1
    <3>5. j = i => c = e
      BY <3>1
    <3> HIDE DEF c
    <3>6. \/ sad[c] < sad[e]
          \/ sad[c] = sad[e] /\ (Length1(c) < Length1(e) \/ (Length1(c) = Length1(e) /\ j <= i))
      BY <3>1, <3>2, <3>3 DEF Precedes, c
    <3> QED  BY <3>3, <3>4, <3>5, <3>6 DEF NearFirst
  <2> HIDE DEF c
  <2>3. ASSUME NEW e \in allowed, NearFirst(c, e) PROVE ~NearFirst(e, c)
    <3>1. e \in Square
      BY <1>9
    <3>2. /\ e[1] \in Int /\ e[2] \in Int /\ c[1] \in Int /\ c[2] \in Int
          /\ Length1(e) \in Nat /\ Length1(c) \in Nat
      BY <1>2, <1>10, <2>1, <3>1
    <3> QED  BY <2>3, <3>2 DEF NearFirst, RowByRow
  <2>4. \A e \in allowed : sad[e] <= sad[c] => c = e \/ NearFirst(c, e)
    <3>1. \A e \in allowed : sad[e] \in Nat /\ sad[c] \in Nat
      BY <1>9, <1>10, <2>1
    <3> QED  BY <2>2, <3>1
  <2>5. BestOf(allowed, sad, NearFirst) = [sad |-> sad[c], d |-> c]
    BY <2>1, <2>2, <2>3, <2>4, BestIsNearFirst
  <2> QED  BY <1>3, <1>12, <2>5 DEF c
<1> QED  BY <1>4, <1>11, <1>12 DEF IsBest, Leads, best

LEMMA AlignIsItsRule ==
  ASSUME NEW f \in GraySizes, NEW t \in Pixels(f[1], f[2]), NEW d0 \in Shifts, NEW sad \in [Square -> Sads],
         Align(f, t, d0, sad)
  PROVE  ResultIsItsRule'
<1> DEFINE w == f[1]
           h == f[2]
           x0 == <<t[1] * GrayTile, t[2] * GrayTile>>
           best == AlignTile(w, h, GrayTile, x0, d0, SearchRadius, sad)
<1>1. call' = [kernel |-> "align", arg |-> <<w, h, GrayTile, x0, d0, sad>>] /\ got' = best
  BY DEF Align, Call
<1>2. Rule("align", <<w, h, GrayTile, x0, d0, sad>>) = AlignRule(w, h, GrayTile, x0, d0, sad)
  BY DEF Rule
<1>3. w \in Nat /\ h \in Nat /\ GrayTile \in Nat \ {0} /\ d0 \in Int \X Int
  BY KernelsAssumption
<1>4. x0 \in Int \X Int
  <2>1. t[1] \in Int /\ t[2] \in Int
    BY DEF Pixels
  <2>2. t[1] * GrayTile \in Int /\ t[2] * GrayTile \in Int
    BY <1>3, <2>1
  <2> QED  BY <2>2
<1>5. sad \in [Square -> Nat]
  BY KernelsAssumption
<1>6. w \in Int /\ h \in Int
  BY <1>3
<1> HIDE DEF x0, w, h
<1>7. best = AlignRule(w, h, GrayTile, x0, d0, sad)
  BY <1>3, <1>4, <1>5, <1>6, BestIsAlignRule
<1> QED  BY <1>1, <1>2, <1>7 DEF ResultIsItsRule

\* To look at equal candidates once changes nothing.
LEMMA SeenIsAll ==
  ASSUME NEW w, NEW h, NEW x0, NEW tw, NEW th,
         NEW D, NEW candidates \in Seq(D), NEW sad \in [D -> Nat]
  PROVE  BestCandidate(w, h, x0, tw, th, Seen(candidates), sad) = BestCandidate(w, h, x0, tw, th, candidates, sad)
<1> DEFINE seen == Seen(candidates)
           m == Len(candidates)
           l == Len(seen)
           near == NoneNearer(D)
           all == MayStay(w, h, x0, tw, th, candidates)
           ok == MayStay(w, h, x0, tw, th, seen)
           In(d) == Inside(w, h, Plus(x0, d), tw, th)
           b == BestCandidate(w, h, x0, tw, th, seen, sad)
           c == BestCandidate(w, h, x0, tw, th, candidates, sad)
<1>1. seen \in Seq(D) /\ FirstSeen(seen, m, candidates)
  BY SeenInOrder
<1> HIDE DEF seen
<1>2. m \in Nat /\ l \in Nat /\ (\A k \in 1 .. m : candidates[k] \in D) /\ (\A k \in 1 .. l : seen[k] \in D)
  BY <1>1
<1>3. IsBest(l, b, seen, ok, sad, near) /\ IsBest(m, c, candidates, all, sad, near)
  BY <1>1, CandidateIsBest
<1>4. /\ \A k \in 1 .. m : all[k] <=> In(candidates[k])
      /\ \A k \in 1 .. l : ok[k] <=> In(seen[k])
  BY DEF MayStay
<1>5. near \in [D -> Nat] /\ \A d \in D : near[d] = 0
  BY DEF NoneNearer
<1>6. PICK pos \in [1 .. l -> 1 .. m] :
        /\ \A a \in 1 .. l : seen[a] = candidates[pos[a]]
        /\ \A a, e \in 1 .. l : a < e => pos[a] < pos[e]
        /\ \A i \in 1 .. m : \E a \in 1 .. l : seen[a] = candidates[i] /\ pos[a] <= i
  BY <1>1 DEF FirstSeen
<1> HIDE DEF m, l, near, all, ok, b, c, In
<1>7. IsBest(m, b, candidates, all, sad, near)
  <2>1. CASE b = None /\ \A i \in 1 .. l : ~ok[i]
    <3>1. \A i \in 1 .. m : ~all[i]
      BY <1>4, <1>6, <2>1
    <3> QED  BY <2>1, <3>1 DEF IsBest
  <2>2. ASSUME NEW j \in 1 .. l, Leads(j, l, seen, ok, sad, near), b = [sad |-> sad[seen[j]], d |-> seen[j]]
        PROVE  IsBest(m, b, candidates, all, sad, near)
    <3> DEFINE p == pos[j]
    <3>1. p \in 1 .. m /\ seen[j] = candidates[p]
      BY <1>6
    <3>2. ok[j] /\ all[p]
      BY <1>4, <2>2, <3>1 DEF Leads
    <3>3. ASSUME NEW i \in 1 .. m, all[i] PROVE Precedes(p, i, candidates, sad, near)
      <4>1. PICK a \in 1 .. l : seen[a] = candidates[i] /\ pos[a] <= i
        BY <1>6
      <4>2. ok[a]
        BY <1>4, <3>3, <4>1
      <4>3. Precedes(j, a, seen, sad, near)
        BY <2>2, <4>2 DEF Leads
      <4>4. j <= a => p <= i
        <5>1. pos[a] \in Int /\ p \in Int /\ i \in Int
          <6>1. pos[a] \in 1 .. m /\ p \in 1 .. m /\ i \in 1 .. m
            BY <1>6
          <6> HIDE DEF p
          <6> QED  BY <1>2, <6>1
        <5>2. j = a => p = pos[a]
          OBVIOUS
        <5>3. j < a => p < pos[a]
          BY <1>6
        <5>4. j \in Int /\ a \in Int
          OBVIOUS
        <5> HIDE DEF p
        <5> QED  BY <4>1, <5>1, <5>2, <5>3, <5>4
      <4>5. sad[candidates[p]] \in Nat /\ sad[candidates[i]] \in Nat /\ near[candidates[p]] = 0 /\ near[candidates[i]] = 0
        BY <1>2, <1>5, <3>1
      <4> HIDE DEF p
      <4> QED  BY <3>1, <4>1, <4>3, <4>4, <4>5 DEF Precedes
    <3>4. Leads(p, m, candidates, all, sad, near)
      BY <3>1, <3>2, <3>3 DEF Leads
    <3> HIDE DEF p
    <3> QED  BY <2>2, <3>1, <3>4 DEF IsBest
  <2> QED  BY <1>3, <2>1, <2>2 DEF IsBest
<1>8. b = c
  BY <1>2, <1>3, <1>5, <1>7, OneIsBest
<1> QED  BY <1>8 DEF b, c, seen

\* Where a displacement first comes in a motion field, row by row.
FirstAt(field, d) ==
  CHOOSE g \in DOMAIN field : /\ Twice(field[g]) = d
                              /\ \A k \in DOMAIN field : Twice(field[k]) = d => g = k \/ RowByRow(g, k)

\* Of the least differences the one that comes first there.
BestInField(field, allowed, sad) ==
  BestOf(allowed, sad, LAMBDA d, e : RowByRow(FirstAt(field, d), FirstAt(field, e)))

LEMMA BestIsFirstAt ==
  ASSUME NEW field, NEW allowed, NEW sad, NEW c \in allowed, \A e \in allowed : sad[c] <= sad[e],
         \A e \in allowed : sad[e] <= sad[c] => c = e \/ RowByRow(FirstAt(field, c), FirstAt(field, e)),
         \A e \in allowed : RowByRow(FirstAt(field, c), FirstAt(field, e))
                              => ~RowByRow(FirstAt(field, e), FirstAt(field, c))
  PROVE  BestInField(field, allowed, sad) = [sad |-> sad[c], d |-> c]
<1> DEFINE least == {d \in allowed : \A e \in allowed : sad[d] <= sad[e]}
           First(d) == \A e \in least : d = e \/ RowByRow(FirstAt(field, d), FirstAt(field, e))
           first == CHOOSE d \in least : First(d)
<1>1. BestInField(field, allowed, sad) = [sad |-> sad[first], d |-> first]
  BY DEF BestInField, BestOf
<1>2. c \in least /\ First(c)
  OBVIOUS
<1>3. ASSUME NEW e \in least, First(e) PROVE e = c
  BY <1>2, <1>3
<1> HIDE DEF least, First
<1>4. first = c
  BY <1>2, <1>3
<1> QED  BY <1>1, <1>4

\* Of equal differences the one that comes first in the motion field.
FirstInField(w, h, x0, tw, th, field, sad) ==
  BestInField(field, {Twice(field[g]) : g \in {k \in DOMAIN field :
                        Plus(x0, Twice(field[k])) \in (0 .. w - tw) \X (0 .. h - th)}}, sad)

Choice(w, h, x0, tw, th, D, candidates, sad, field) ==
  /\ w \in Int /\ h \in Int /\ tw \in Int /\ th \in Int /\ x0 \in Int \X Int
  /\ D \in SUBSET (Int \X Int) /\ candidates \in Seq(D) /\ sad \in [D -> Nat]
  /\ Numbered(field) /\ Placed(candidates, field)

LEMMA MergeRuleIs ==
  ASSUME NEW w, NEW h, NEW side, NEW x0, NEW field, NEW sad, NEW accepted, NEW tw, NEW th,
         tw = Least(side, w - x0[1]), th = Least(side, h - x0[2])
  PROVE  MergeRule(w, h, side, x0, field, sad, accepted)
           = [spatial |-> FirstInField(w, h, x0, tw, th, field, sad),
              weighs |-> FirstInField(w, h, x0, tw, th, field, sad) # None /\ accepted,
              wiener |-> IF tw = side /\ th = side THEN FirstInField(w, h, x0, tw, th, field, sad) ELSE None]
  BY DEF MergeRule, FirstAt, FirstInField, BestInField

LEMMA BestIsFirstInField ==
  ASSUME NEW w, NEW h, NEW tw, NEW th, NEW x0, NEW D, NEW candidates, NEW sad, NEW field,
         Choice(w, h, x0, tw, th, D, candidates, sad, field)
  PROVE  BestCandidate(w, h, x0, tw, th, candidates, sad)
           = FirstInField(w, h, x0, tw, th, field, sad)
<1>a. /\ w \in Int /\ h \in Int /\ tw \in Int /\ th \in Int /\ x0 \in Int \X Int
      /\ D \in SUBSET (Int \X Int) /\ candidates \in Seq(D) /\ sad \in [D -> Nat]
      /\ Numbered(field) /\ Placed(candidates, field)
  BY DEF Choice
<1> USE <1>a
<1> DEFINE m == Len(candidates)
           near == NoneNearer(D)
           ok == MayStay(w, h, x0, tw, th, candidates)
           best == BestCandidate(w, h, x0, tw, th, candidates, sad)
           Fits(d) == Plus(x0, d) \in (0 .. w - tw) \X (0 .. h - th)
           allowed == {Twice(field[g]) : g \in {k \in DOMAIN field : Fits(Twice(field[k]))}}
<1>1. m \in Nat /\ \A k \in 1 .. m : candidates[k] \in D
  OBVIOUS
<1>2. IsBest(m, best, candidates, ok, sad, near)
  BY CandidateIsBest
<1>3. \A k \in 1 .. m : ok[k] <=> Inside(w, h, Plus(x0, candidates[k]), tw, th)
  BY DEF MayStay
<1>4. \A d \in D : near[d] = 0 /\ sad[d] \in Nat
  BY DEF NoneNearer
<1>5. ASSUME NEW d \in D PROVE Fits(d) <=> Inside(w, h, Plus(x0, d), tw, th)
  <2> DEFINE at == Plus(x0, d)
  <2>1. d \in Int \X Int
    OBVIOUS
  <2>2. at \in Int \X Int
    BY <2>1, PlusPairs
  <2> HIDE DEF at
  <2>3. at = <<at[1], at[2]>> /\ at[1] \in Int /\ at[2] \in Int
    BY <2>2
  <2>4. at \in (0 .. w - tw) \X (0 .. h - th) <=> at[1] \in 0 .. w - tw /\ at[2] \in 0 .. h - th
    BY <2>3
  <2>5. at \in (0 .. w - tw) \X (0 .. h - th) <=> Inside(w, h, at, tw, th)
    BY <2>3, <2>4 DEF Inside
  <2> QED  BY <2>5 DEF at
<1>6. PICK place \in [1 .. m -> DOMAIN field] :
        /\ \A k \in 1 .. m : candidates[k] = Twice(field[place[k]])
        /\ \A g \in DOMAIN field : \E k \in 1 .. m : place[k] = g
        /\ \A k, l \in 1 .. m : k < l => RowByRow(place[k], place[l])
  BY DEF Placed
<1> HIDE DEF m, near, ok, best, Fits
<1>7. \A k \in 1 .. m : ok[k] <=> Fits(candidates[k])
  BY <1>1, <1>3, <1>5
<1>8. ASSUME NEW d \in allowed PROVE \E k \in 1 .. m : candidates[k] = d /\ ok[k]
  <2>1. PICK g \in DOMAIN field : Fits(Twice(field[g])) /\ d = Twice(field[g])
    OBVIOUS
  <2>2. PICK k \in 1 .. m : place[k] = g
    BY <1>6
  <2> QED  BY <1>6, <1>7, <2>1, <2>2
<1>9. \A k \in 1 .. m : ok[k] => candidates[k] \in allowed
  BY <1>6, <1>7
<1>10. \A g, k \in DOMAIN field : RowByRow(g, k) => ~RowByRow(k, g) /\ g # k
  <2>1. \A g \in DOMAIN field : g[1] \in Int /\ g[2] \in Int
    BY DEF Numbered
  <2> QED  BY <2>1 DEF RowByRow
<1>11. ASSUME NEW j \in 1 .. m, \A i \in 1 .. m : candidates[i] = candidates[j] => j <= i
       PROVE  FirstAt(field, candidates[j]) = place[j]
  <2> DEFINE d == candidates[j]
             Is(g) == Twice(field[g]) = d /\ \A k \in DOMAIN field : Twice(field[k]) = d => g = k \/ RowByRow(g, k)
  <2>1. place[j] \in DOMAIN field /\ Is(place[j])
    <3>1. ASSUME NEW k \in DOMAIN field, Twice(field[k]) = d PROVE place[j] = k \/ RowByRow(place[j], k)
      <4>1. PICK i \in 1 .. m : place[i] = k
        BY <1>6
      <4>2. j <= i
        BY <1>6, <1>11, <3>1, <4>1
      <4>3. i = j \/ j < i
        BY <1>1, <4>2
      <4> QED  BY <1>6, <4>1, <4>3
    <3> QED  BY <1>6, <3>1
  <2>2. ASSUME NEW g \in DOMAIN field, Is(g) PROVE g = place[j]
    BY <1>10, <2>1, <2>2
  <2>3. FirstAt(field, d) = CHOOSE g \in DOMAIN field : Is(g)
    BY DEF FirstAt
  <2> HIDE DEF Is, d
  <2>4. FirstAt(field, d) = place[j]
    BY <2>1, <2>2, <2>3
  <2> QED  BY <2>4 DEF d
<1>12. ASSUME NEW i \in 1 .. m
       PROVE  \E k \in 1 .. m : candidates[k] = candidates[i] /\ k <= i /\ FirstAt(field, candidates[i]) = place[k]
  <2> DEFINE U == {k \in 1 .. m : candidates[k] = candidates[i]}
  <2>1. i \in U /\ U \in SUBSET Nat
    OBVIOUS
  <2>2. PICK k \in U : \A l \in U : k <= l
    BY <2>1, LeastElement
  <2>3. k \in 1 .. m /\ candidates[k] = candidates[i] /\ k <= i
    BY <2>1, <2>2
  <2>4. \A l \in 1 .. m : candidates[l] = candidates[k] => k <= l
    BY <2>2, <2>3
  <2>5. FirstAt(field, candidates[k]) = place[k]
    BY <1>11, <2>3, <2>4
  <2> QED  BY <2>3, <2>5
<1> DEFINE rule == BestInField(field, allowed, sad)
<1> HIDE DEF allowed
<1>13. CASE \A k \in 1 .. m : ~ok[k]
  <2>1. allowed = {}
    BY <1>8, <1>13
  <2>2. best = None
    BY <1>2, <1>13 DEF IsBest, Leads
  <2>3. rule = None
    BY <2>1 DEF BestInField, BestOf
  <2> QED  BY <2>2, <2>3 DEF FirstInField, best, allowed, Fits
<1>14. ASSUME NEW j \in 1 .. m, Leads(j, m, candidates, ok, sad, near),
              best = [sad |-> sad[candidates[j]], d |-> candidates[j]]
       PROVE  best = rule
  <2> DEFINE c == candidates[j]
  <2>1. c \in allowed /\ ok[j]
    BY <1>9, <1>14 DEF Leads
  <2>2. ASSUME NEW i \in 1 .. m, ok[i]
        PROVE  sad[c] <= sad[candidates[i]] /\ (sad[candidates[i]] <= sad[c] => j <= i)
    <3> DEFINE e == candidates[i]
    <3>1. Precedes(j, i, candidates, sad, near)
      BY <1>14, <2>2 DEF Leads
    <3>2. /\ sad[c] \in Nat /\ sad[e] \in Nat /\ near[c] = 0 /\ near[e] = 0
      BY <1>1, <1>4
    <3>3. \/ sad[c] < sad[e]
          \/ sad[c] = sad[e] /\ (near[c] < near[e] \/ (near[c] = near[e] /\ j <= i))
      BY <3>1 DEF Precedes
    <3> HIDE DEF c, e
    <3>4. sad[c] < sad[e] \/ (sad[c] = sad[e] /\ j <= i)
      BY <3>2, <3>3
    <3>5. sad[c] <= sad[e] /\ (sad[e] <= sad[c] => j <= i)
      BY <3>2, <3>4
    <3> QED  BY <3>5 DEF c, e
  <2>3. \A i \in 1 .. m : candidates[i] = c => j <= i
    <3> SUFFICES ASSUME NEW i \in 1 .. m, candidates[i] = c PROVE j <= i
      OBVIOUS
    <3>1. ok[i] /\ sad[c] \in Nat
      BY <1>1, <1>4, <1>7, <2>1
    <3> QED  BY <2>2, <3>1
  <2>4. FirstAt(field, c) = place[j]
    BY <1>11, <2>3
  <2>5. \A e \in allowed : sad[c] <= sad[e]
    BY <1>8, <2>2
  <2>6. ASSUME NEW e \in allowed, sad[e] <= sad[c]
        PROVE  c = e \/ RowByRow(FirstAt(field, c), FirstAt(field, e))
    <3>1. PICK i \in 1 .. m : candidates[i] = e /\ ok[i]
      BY <1>8
    <3>2. PICK k \in 1 .. m : candidates[k] = e /\ k <= i /\ FirstAt(field, e) = place[k]
      BY <1>12, <3>1
    <3>3. ok[k]
      BY <1>7, <3>1, <3>2
    <3>4. j <= k
      BY <2>2, <2>6, <3>2, <3>3
    <3>5. j = k \/ j < k
      BY <1>1, <3>4
    <3> QED  BY <1>6, <2>4, <3>2, <3>5
  <2>7. ASSUME NEW e \in allowed, RowByRow(FirstAt(field, c), FirstAt(field, e))
        PROVE  ~RowByRow(FirstAt(field, e), FirstAt(field, c))
    <3>1. PICK i \in 1 .. m : candidates[i] = e
      BY <1>8
    <3>2. PICK k \in 1 .. m : FirstAt(field, e) = place[k]
      BY <1>12, <3>1
    <3>3. place[k] \in DOMAIN field /\ place[j] \in DOMAIN field
      BY <1>6
    <3> QED  BY <1>10, <2>4, <2>7, <3>2, <3>3
  <2> HIDE DEF c
  <2>8. rule = [sad |-> sad[c], d |-> c]
    <3>1. /\ c \in allowed
          /\ \A e \in allowed : sad[e] <= sad[c] => c = e \/ RowByRow(FirstAt(field, c), FirstAt(field, e))
          /\ \A e \in allowed : RowByRow(FirstAt(field, c), FirstAt(field, e))
                                 => ~RowByRow(FirstAt(field, e), FirstAt(field, c))
      BY <2>1, <2>6, <2>7
    <3> QED  BY <2>5, <3>1, BestIsFirstAt
  <2> HIDE DEF rule
  <2> QED  BY <1>14, <2>8 DEF c
<1>15. best = rule
  <2> HIDE DEF rule
  <2>1. CASE \A k \in 1 .. m : ~ok[k]
    BY <1>13, <2>1 DEF FirstInField, rule, best, allowed, Fits
  <2> QED  BY <1>2, <1>14, <2>1 DEF IsBest
<1> QED  BY <1>15 DEF FirstInField, rule, best, allowed, Fits

LEMMA MergeIsItsRule ==
  ASSUME NEW f \in Frames, NEW m \in Pixels(f[1], f[2]), NEW shift \in [(0 .. 1) \X (0 .. 1) -> Shifts],
         NEW sads \in [0 .. 2 -> Sads], NEW stale, NEW accepted \in BOOLEAN,
         Merge(f, m, shift, sads, stale, accepted)
  PROVE  ResultIsItsRule'
<1> DEFINE w == f[1]
           h == f[2]
           side == 2 * GrayTile
           x0 == <<m[1] * GrayTile, m[2] * GrayTile>>
           tw == Least(side, w - x0[1])
           th == Least(side, h - x0[2])
           tiles == <<TilesOf(w \div 2, GrayTile), TilesOf(h \div 2, GrayTile)>>
           gxs == FieldTiles(x0[1], tw, GrayTile, tiles[1])
           gys == FieldTiles(x0[2], th, GrayTile, tiles[2])
           field == [g \in gxs \X gys |-> shift[<<g[1] % 2, g[2] % 2>>]]
           candidates == Candidates(field, gxs, gys)
           sad == [d \in Range(candidates) |-> sads[Length1(d) % 3]]
           best == SpatialBest(w, h, side, x0, candidates, sad)
           wiener == WienerBest(w, h, side, x0, candidates, sad)
           weighs == Weighs(best, accepted)
           D == Range(candidates)
           near == NoneNearer(D)
           ok == MayStay(w, h, x0, tw, th, candidates)
           rule == FirstInField(w, h, x0, tw, th, field, sad)
           arg == <<w, h, side, x0, field, sad, accepted>>
<1>1. /\ call' = [kernel |-> "merge", arg |-> arg]
      /\ got' = [spatial |-> best, weighs |-> weighs, wiener |-> wiener]
  BY DEF Merge, Call
<1>2. m[1] * GrayTile < f[1] /\ m[2] * GrayTile < f[2]
  BY DEF Merge
<1>3. /\ w \in Nat /\ h \in Nat /\ side \in Nat \ {0}
      /\ x0 \in Int \X Int /\ x0[1] \in Nat /\ x0[2] \in Nat
      /\ tw \in 1 .. side /\ th \in 1 .. side
      /\ Numbered(field) /\ Placed(candidates, field)
      /\ D \in SUBSET (Int \X Int) /\ candidates \in Seq(D) /\ sad \in [D -> Nat]
  <2>1. MergeArguments(f, m, shift, sads)
    BY <1>2, MergeArgumentsHold
  <2> QED  BY <2>1 DEF MergeArguments
<1>4. Rule("merge", arg) = MergeRule(w, h, side, x0, field, sad, accepted)
  <2> HIDE DEF w, h, side, x0, field, sad
  <2>1. /\ arg[1] = w /\ arg[2] = h /\ arg[3] = side /\ arg[4] = x0
        /\ arg[5] = field /\ arg[6] = sad /\ arg[7] = accepted
    OBVIOUS
  <2> HIDE DEF arg
  <2> QED  BY <2>1 DEF Rule
<1>5. MergeRule(w, h, side, x0, field, sad, accepted)
        = [spatial |-> rule, weighs |-> rule # None /\ accepted,
           wiener |-> IF tw = side /\ th = side THEN rule ELSE None]
  <2>1. tw = Least(side, w - x0[1]) /\ th = Least(side, h - x0[2])
    OBVIOUS
  <2> HIDE DEF w, h, side, x0, field, sad, tw, th
  <2> QED  BY <2>1, MergeRuleIs
<1>6. best = BestCandidate(w, h, x0, tw, th, Seen(candidates), sad)
  BY DEF SpatialBest
<1>7. wiener = IF x0[1] + side > w \/ x0[2] + side > h THEN None
               ELSE BestCandidate(w, h, x0, side, side, candidates, sad)
  BY DEF WienerBest
<1>8. tw = Least(side, w - x0[1]) /\ th = Least(side, h - x0[2])
  OBVIOUS
<1> HIDE DEF w, h, side, x0, tw, th, field, candidates, sad, D, best, wiener
<1>9. BestCandidate(w, h, x0, tw, th, candidates, sad) = rule
  <2>1. Choice(w, h, x0, tw, th, D, candidates, sad, field)
    BY <1>3 DEF Choice
  <2> QED  BY <2>1, BestIsFirstInField
<1> HIDE DEF rule
<1>10. best = rule
  <2>1. BestCandidate(w, h, x0, tw, th, Seen(candidates), sad) = BestCandidate(w, h, x0, tw, th, candidates, sad)
    BY <1>3, SeenIsAll
  <2> QED  BY <1>6, <1>9, <2>1
<1>11. weighs <=> rule # None /\ accepted
  <2>1. IsBest(Len(candidates), BestCandidate(w, h, x0, tw, th, candidates, sad), candidates, ok, sad, near)
    BY <1>3, CandidateIsBest
  <2>2. IsBest(Len(candidates), rule, candidates, ok, sad, near)
    BY <1>9, <2>1
  <2>3. Len(candidates) \in Nat /\ \A k \in 1 .. Len(candidates) : candidates[k] \in D
    BY <1>3
  <2> HIDE DEF near, ok
  <2>4. Found(rule) <=> rule # None
    BY <1>3, <2>2, <2>3, BestType
  <2> QED  BY <1>10, <2>4 DEF Weighs
<1>12. wiener = IF tw = side /\ th = side THEN rule ELSE None
  <2>1. tw = side <=> ~(x0[1] + side > w)
    BY <1>3, <1>8 DEF Least
  <2>2. th = side <=> ~(x0[2] + side > h)
    BY <1>3, <1>8 DEF Least
  <2>3. CASE tw = side /\ th = side
    <3>1. wiener = BestCandidate(w, h, x0, side, side, candidates, sad)
      BY <1>7, <2>1, <2>2, <2>3
    <3> QED  BY <1>9, <2>3, <3>1
  <2>4. CASE ~(tw = side /\ th = side)
    BY <1>7, <2>1, <2>2, <2>4
  <2> QED  BY <2>3, <2>4
<1>13. weighs \in BOOLEAN
  BY DEF Weighs, Found
<1> HIDE DEF weighs, arg
<1>14. weighs = (rule # None /\ accepted)
  BY <1>11, <1>13
<1>15. got' = Rule("merge", arg)
  BY <1>1, <1>4, <1>5, <1>10, <1>12, <1>14
<1> QED  BY <1>1, <1>15 DEF ResultIsItsRule

\* Next to every place of a row or column there is an even and an odd one.
LEMMA BothParities ==
  ASSUME NEW size \in Nat, size >= 2, NEW r \in Nat \ {0}, NEW x \in 0 .. size - 1
  PROVE  /\ \E u \in x - r .. x + r : u \in 0 .. size - 1 /\ u % 2 = 0
         /\ \E u \in x - r .. x + r : u \in 0 .. size - 1 /\ u % 2 = 1
<1> DEFINE y == IF x = 0 THEN 1 ELSE x - 1
<1>1. /\ x \in x - r .. x + r /\ x \in 0 .. size - 1
      /\ y \in x - r .. x + r /\ y \in 0 .. size - 1
  OBVIOUS
<1>2. (x % 2 = 0 /\ y % 2 = 1) \/ (x % 2 = 1 /\ y % 2 = 0)
  OBVIOUS
<1> HIDE DEF y
<1> QED  BY <1>1, <1>2

\* merge_superres: the reference alone gives every pixel a sample of each colour.
LEMMA SuperresIsItsRule ==
  ASSUME NEW f \in Frames, NEW p \in Pixels(f[1], f[2]), NEW d \in Shifts, Superres(f, p, d)
  PROVE  ResultIsItsRule'
<1> DEFINE w == f[1]
           h == f[2]
           own == Samples(w, h, p, <<0, 0>>, SampleRadius)
<1>1. /\ call' = [kernel |-> "superres", arg |-> <<w, h, p, d>>]
      /\ got' = {Channel(u) : u \in own}
  BY DEF Superres, Call
<1>2. Rule("superres", <<w, h, p, d>>) = {"r", "g", "b"}
  BY DEF Rule
<1>3. w \in Nat /\ h \in Nat /\ w >= 2 /\ h >= 2 /\ SampleRadius \in Nat \ {0}
  BY KernelsAssumption
<1>4. p[1] \in 0 .. w - 1 /\ p[2] \in 0 .. h - 1
  BY DEF Pixels
<1> HIDE DEF w, h
<1>5. /\ \E u \in p[1] - SampleRadius .. p[1] + SampleRadius : u \in 0 .. w - 1 /\ u % 2 = 0
      /\ \E u \in p[1] - SampleRadius .. p[1] + SampleRadius : u \in 0 .. w - 1 /\ u % 2 = 1
      /\ \E u \in p[2] - SampleRadius .. p[2] + SampleRadius : u \in 0 .. h - 1 /\ u % 2 = 0
      /\ \E u \in p[2] - SampleRadius .. p[2] + SampleRadius : u \in 0 .. h - 1 /\ u % 2 = 1
  BY <1>3, <1>4, BothParities
<1>6. PICK even \in Int, odd \in Int :
        /\ even \in p[1] - SampleRadius .. p[1] + SampleRadius /\ even \in 0 .. w - 1 /\ even % 2 = 0
        /\ odd \in p[1] - SampleRadius .. p[1] + SampleRadius /\ odd \in 0 .. w - 1 /\ odd % 2 = 1
  BY <1>5
<1>7. PICK Even \in Int, Odd \in Int :
        /\ Even \in p[2] - SampleRadius .. p[2] + SampleRadius /\ Even \in 0 .. h - 1 /\ Even % 2 = 0
        /\ Odd \in p[2] - SampleRadius .. p[2] + SampleRadius /\ Odd \in 0 .. h - 1 /\ Odd % 2 = 1
  BY <1>5
<1>8. ASSUME NEW x \in p[1] - SampleRadius .. p[1] + SampleRadius,
             NEW y \in p[2] - SampleRadius .. p[2] + SampleRadius,
             x \in 0 .. w - 1, y \in 0 .. h - 1
      PROVE  <<x, y>> \in own
  <2>1. own = {u \in (p[1] - SampleRadius .. p[1] + SampleRadius)
                     \X (p[2] - SampleRadius .. p[2] + SampleRadius) : u \in Pixels(w, h)}
    BY <1>3, <1>4 DEF Samples, IsSample
  <2>2. <<x, y>> \in Pixels(w, h)
    BY <1>8 DEF Pixels
  <2> HIDE DEF own
  <2> QED  BY <2>1, <2>2
<1> HIDE DEF own
<1>9. <<even, Even>> \in own /\ <<odd, Odd>> \in own /\ <<odd, Even>> \in own
  BY <1>6, <1>7, <1>8
<1>10. Channel(<<even, Even>>) = "r" /\ Channel(<<odd, Odd>>) = "b" /\ Channel(<<odd, Even>>) = "g"
  BY <1>6, <1>7 DEF Channel, Colour
<1>11. \A u \in own : Channel(u) \in {"r", "g", "b"}
  BY DEF Channel
<1>12. got' = {"r", "g", "b"}
  BY <1>1, <1>9, <1>10, <1>11
<1> QED  BY <1>1, <1>2, <1>12 DEF ResultIsItsRule

-----------------------------------------------------------------------------
(* Every kernel computes what it should *)

LEMMA CallIsItsRule ==
  ASSUME Image \/ Burst
  PROVE  ResultIsItsRule'
<1>1. CASE Image
  <2>1. ASSUME NEW size \in Sizes, NEW r \in Radii, BoxFilter(size, r) PROVE ResultIsItsRule'
    BY <2>1, BoxIsItsRule, KernelsAssumption
  <2>2. ASSUME NEW size \in Sizes, SuperPixels(size) PROVE ResultIsItsRule'
    BY <2>2, SuperPixelsAreTheirRule, KernelsAssumption
  <2>3. ASSUME NEW size \in Sizes, Demosaic(size) PROVE ResultIsItsRule'
    BY <2>3, DemosaicIsItsRule, KernelsAssumption
  <2>4. ASSUME NEW s \in DiscSizes, NEW r \in DiscRadii, DiscBlur(s[1], s[2], r) PROVE ResultIsItsRule'
    <3>1. s[1] \in Nat \ {0} /\ s[2] \in Nat \ {0} /\ r \in Nat
      BY KernelsAssumption
    <3> QED  BY <2>4, <3>1, DiscIsItsRule
  <2>5. ASSUME NEW in \in Sizes, NEW out \in Sizes, Resize(in, out) PROVE ResultIsItsRule'
    BY <2>5, ResizeIsItsRule, KernelsAssumption
  <2>6. ASSUME NEW o \in Orientations, Turn(o) PROVE ResultIsItsRule'
    BY <2>6, TurnIsItsRule, KernelsAssumption
  <2>7. ASSUME NEW s \in ToneSizes, ToneMap(s[1], s[2]) PROVE ResultIsItsRule'
    <3>1. s[1] \in Nat \ {0} /\ s[2] \in Nat \ {0}
      BY KernelsAssumption
    <3> QED  BY <2>7, <3>1, ToneMapIsItsRule
  <2>8. ASSUME NEW lut \in Curves, InvertTone(lut) PROVE ResultIsItsRule'
    BY <2>8, InverseIsItsRule
  <2> QED  BY <1>1, <2>1, <2>2, <2>3, <2>4, <2>5, <2>6, <2>7, <2>8 DEF Image
<1>2. CASE Burst
  <2>1. ASSUME NEW f \in GraySizes, NEW t \in Pixels(f[1], f[2]), NEW d0 \in Shifts,
               NEW sad \in [Square -> Sads], Align(f, t, d0, sad)
        PROVE  ResultIsItsRule'
    BY <2>1, AlignIsItsRule
  <2>2. ASSUME NEW f \in Frames, NEW m \in Pixels(f[1], f[2]), NEW shift \in [(0 .. 1) \X (0 .. 1) -> Shifts],
               NEW sads \in [0 .. 2 -> Sads], NEW stale \in Shifts, NEW accepted \in BOOLEAN,
               Merge(f, m, shift, sads, Twice(stale), accepted)
        PROVE  ResultIsItsRule'
    BY <2>2, MergeIsItsRule
  <2>3. ASSUME NEW f \in Frames, NEW p \in Pixels(f[1], f[2]), NEW d \in Shifts, Superres(f, p, d)
        PROVE  ResultIsItsRule'
    BY <2>3, SuperresIsItsRule
  <2> QED  BY <1>2, <2>1, <2>2, <2>3 DEF Burst
<1> QED  BY <1>1, <1>2

\* Each kernel computes what it is meant to, for images, radii, curves, motion
\* and differences of any size: what the rules in Kernels say, which are written
\* without running sums, loops or clamped indices.
THEOREM ResultIsItsRuleHolds == KernelsSpec => []ResultIsItsRule
<1>1. KernelsInit => ResultIsItsRule
  BY DEF KernelsInit, NoCall, ResultIsItsRule, Rule
<1>2. ResultIsItsRule /\ [KernelsNext]_kernelVars => ResultIsItsRule'
  <2> SUFFICES ASSUME ResultIsItsRule, [KernelsNext]_kernelVars PROVE ResultIsItsRule'
    OBVIOUS
  <2>1. CASE Image \/ Burst
    BY <2>1, CallIsItsRule
  <2>2. CASE EndCall
    BY <2>2 DEF EndCall, NoCall, ResultIsItsRule, Rule
  <2>3. CASE UNCHANGED kernelVars
    BY <2>3 DEF kernelVars, ResultIsItsRule
  <2> QED  BY <2>1, <2>2, <2>3 DEF KernelsNext
<1> QED  BY <1>1, <1>2, PTL DEF KernelsSpec
=============================================================================

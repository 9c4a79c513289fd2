---------------------------- MODULE BurstKernels ----------------------------
(***************************************************************************)
(* The searches of align.cc, merge.cc, merge_wiener.cc and superres.cc     *)
(* (core/src): which displacements of a tile are tried, which one is       *)
(* taken, and what is then read of the other frame.                        *)
(*                                                                         *)
(* The sum of absolute differences of a tile is what the caller gives for  *)
(* the displacement, sad[d].  A displacement is <<dx, dy>>; a place to     *)
(* read is recorded by the indices and the sizes along x and y.            *)
(***************************************************************************)
EXTENDS ImageKernels, Sequences, Functions

None == [sad |-> -1, d |-> <<0, 0>>]   \* best = UINT32_MAX
Found(best) == best.sad >= 0

Plus(a, b) == <<a[1] + b[1], a[2] + b[2]>>
Twice(d) == <<2 * d[1], 2 * d[2]>>
Length1(d) == Abs(d[1]) + Abs(d[2])

\* A tile of tw x th pixels at <<x, y>> lies inside the image.
Inside(w, h, at, tw, th) == at[1] >= 0 /\ at[2] >= 0 /\ at[1] + tw <= w /\ at[2] + th <= h

-----------------------------------------------------------------------------
(* build_pyramid and align_frame *)

\* bayer_to_gray and downsample2: the first and last column read for a level.
HalfReads(size) == {2 * x + i : x \in 0 .. size \div 2 - 1, i \in 0 .. 1}

\* The tiles of a level of so many pixels, and the tile a level above that
\* predicts tile t.
TilesOf(size, T) == Most(1, size \div T)
Parent(t, above) == Least(t \div 2, above - 1)

\* The displacements round the prediction, row by row.
Search(radius) ==
  LET side == 2 * radius + 1 IN
  [k \in 1 .. side * side |-> <<((k - 1) % side) - radius, ((k - 1) \div side) - radius>>]

\* A smaller difference is better, of two equal ones that nearer the prediction.
Better(sad, d, best) ==
  \/ ~Found(best) \/ sad < best.sad
  \/ sad = best.sad /\ Length1(d) < Length1(best.d)

\* The tile at x0 of an image w x h, predicted to be displaced by d0; sad is of
\* the displacement relative to d0.  Only whole tiles are searched.
AlignTile(w, h, T, x0, d0, radius, sad) ==
  LET tried == Search(radius)
      best[k \in 0 .. Len(tried)] ==
        IF k = 0 THEN None
        ELSE LET before == best[k - 1]
                 d == tried[k]
             IN IF /\ x0[1] + T <= w /\ x0[2] + T <= h
                   /\ Inside(w, h, Plus(x0, Plus(d0, d)), T, T)
                   /\ Better(sad[d], d, before)
                THEN [sad |-> sad[d], d |-> d] ELSE before
  IN best[Len(tried)]

\* sad_at looks one pixel to each side of the best, if there is one.
Around == {<<-1, 0>>, <<1, 0>>, <<0, -1>>, <<0, 1>>}

\* Where the tiles lie that are compared: for the search and, if it is asked
\* for, for the fraction of a pixel.
AlignReads(w, h, T, x0, d0, radius, best) ==
  LET at(d) == Plus(x0, Plus(d0, d)) IN
  IF x0[1] + T > w \/ x0[2] + T > h THEN {}
  ELSE {x0} \cup {at(d) : d \in {e \in Range(Search(radius)) : Inside(w, h, at(e), T, T)}}
            \cup {at(Plus(best.d, e)) : e \in {f \in Around : /\ Found(best)
                                                              /\ Inside(w, h, at(Plus(best.d, f)), T, T)}}

-----------------------------------------------------------------------------
(* merge_burst and merge_burst_wiener: one tile of one frame *)

\* The tiles of the motion field under pixels x0 .. x0 + tw - 1, along one axis:
\* from first to last.
FieldTile(x, GT, tiles) == Least((x \div 2) \div GT, tiles - 1)
FieldTiles(x0, tw, GT, tiles) == FieldTile(x0, GT, tiles) .. FieldTile(x0 + tw - 1, GT, tiles)

\* Their displacements, row by row, from gray to Bayer pixels.
ToBayer(field, g) == Twice(field[g])
Candidates(field, gxs, gys) ==
  LET wide == Cardinality(gxs) IN
  [k \in 1 .. wide * Cardinality(gys) |->
     ToBayer(field, <<Min(gxs) + ((k - 1) % wide), Min(gys) + ((k - 1) \div wide)>>)]

\* cand_seen: the spatial merge looks at equal candidates once.
Seen(candidates) ==
  LET seen[k \in 0 .. Len(candidates)] ==
        IF k = 0 THEN <<>>
        ELSE LET before == seen[k - 1] IN
             IF candidates[k] \in Range(before) THEN before ELSE Append(before, candidates[k])
  IN seen[Len(candidates)]

\* The best of those that stay inside the image (of equal ones the
\* first); sad is of the displacement in Bayer pixels.
LessThan(sad, d, best) == ~Found(best) \/ sad < best.sad
BestCandidate(w, h, x0, tw, th, candidates, sad) ==
  LET best[k \in 0 .. Len(candidates)] ==
        IF k = 0 THEN None
        ELSE LET before == best[k - 1]
                 d == candidates[k]
             IN IF Inside(w, h, Plus(x0, d), tw, th) /\ LessThan(sad[d], d, before)
                THEN [sad |-> sad[d], d |-> d] ELSE before
  IN best[Len(candidates)]

\* merge_burst cuts the tile off at the edge; merge_burst_wiener takes only the
\* reference for such a tile.
SpatialBest(w, h, T, x0, candidates, sad) ==
  BestCandidate(w, h, x0, Least(T, w - x0[1]), Least(T, h - x0[2]), Seen(candidates), sad)
WienerBest(w, h, T, x0, candidates, sad) ==
  IF x0[1] + T > w \/ x0[2] + T > h THEN None
  ELSE BestCandidate(w, h, x0, T, T, candidates, sad)

\* bdx and bdy keep what was best for the tile before, if nothing is for this
\* one; what counts is then the weight, 0 (mutant: the rows are read anyway).
Keep(best, stale) == IF Found(best) THEN best.d ELSE stale
AlwaysWeighs(best, accepted) == TRUE
Weighs(best, accepted) == Found(best) /\ accepted

\* The rows that merge_row reads of the other frame.
MergeReads(w, h, x0, tw, th, d, weighs) ==
  {y \in x0[2] + d[2] .. x0[2] + d[2] + th - 1 : weighs /\ y \in 0 .. h - 1}

-----------------------------------------------------------------------------
(* merge_superres *)

\* The displacement of a whole tile decides its weight; a tile that is cut off
\* has only the reference.
SrWeighs(w, h, x0, RT, d) ==
  /\ x0[1] + RT <= w /\ x0[2] + RT <= h
  /\ Inside(w, h, Plus(x0, Twice(d)), RT, RT)

\* The samples near pixel p of a frame displaced by m.
IsSample(w, h, u) == u \in Pixels(w, h)
Samples(w, h, p, m, radius) ==
  {u \in ((p[1] + m[1]) - radius .. (p[1] + m[1]) + radius) \X
         ((p[2] + m[2]) - radius .. (p[2] + m[2]) + radius) : IsSample(w, h, u)}

\* kCfaColor, of the pattern RGGB: 0 red, 1 and 2 green, 3 blue.
Colour(u) == 2 * (u[2] % 2) + (u[1] % 2)
Channel(u) == IF Colour(u) = 0 THEN "r" ELSE IF Colour(u) = 3 THEN "b" ELSE "g"
=============================================================================

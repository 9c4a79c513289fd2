------------------------------ MODULE Kernels ------------------------------
(***************************************************************************)
(* The kernels of a burst, called one at a time with any of the arguments  *)
(* of an instance: what each computes (ImageKernels, BurstKernels) against *)
(* the rule it is meant to follow, and where it reads.                     *)
(*                                                                         *)
(* A place is the pair of an index and the number of elements it may be an *)
(* index of, along x and along y separately.                               *)
(***************************************************************************)
EXTENDS BurstKernels

CONSTANTS
  Sizes, Radii,          \* lengths of a row or column, radii of a box
  DiscSizes, DiscRadii,  \* images for the disc blur, <<w, h>>
  Group, MaxRadius,      \* side of a workgroup, GpuBlur::kMaxRadius
  ModelSide,             \* side of the model's input: 256
  Orientations,          \* BurstMeta::orientation
  ToneSizes, Top,        \* images for local_tone_gain, <<w, h>>; its 16
  Curves, Values,        \* tone curves, values that can be displayed
  GrayTile,              \* AlignParams::tile; MergeParams::tile is twice that
  GraySizes,             \* levels of a pyramid, <<w, h>>
  Frames,                \* images for the merges, <<w, h>>
  Shifts,                \* displacements in a motion field
  SearchRadius,          \* AlignParams::search_fine
  Sads,                  \* sums of absolute differences
  SampleRadius           \* SrParams::radius

ASSUME KernelsAssumption ==
  /\ Sizes \subseteq Nat \ {0} /\ Radii \subseteq Nat
  /\ DiscSizes \subseteq (Nat \ {0}) \X (Nat \ {0}) /\ DiscRadii \subseteq Nat
  /\ Group \in Nat \ {0} /\ MaxRadius \in Nat
  /\ ModelSide \in Nat \ {0} /\ Orientations \subseteq Int
  /\ ToneSizes \subseteq (Nat \ {0}) \X (Nat \ {0}) /\ Top \in Nat /\ Top >= 2
  /\ Values \in Nat \ {0}
  /\ \A lut \in Curves :
       /\ \E last \in DOMAIN lut : lut \in [0 .. last -> Nat]
       /\ \A j, k \in DOMAIN lut : j <= k => lut[j] <= lut[k]
  /\ GrayTile \in Nat \ {0}
  /\ GraySizes \subseteq (Nat \ {0}) \X (Nat \ {0})
  /\ Frames \subseteq Nat \X Nat /\ \A f \in Frames : f[1] >= 2 * GrayTile /\ f[2] >= 2 * GrayTile
  /\ Shifts \subseteq Int \X Int
  /\ SearchRadius \in Nat /\ SampleRadius \in Nat \ {0} /\ Sads \subseteq Nat

VARIABLES
  call,    \* the kernel and its arguments, or no call
  got,     \* what it computed
  reads    \* where it has read

kernelVars == <<call, got, reads>>

NoCall == [kernel |-> "none", arg |-> <<>>]
KernelsInit == call = NoCall /\ got = <<>> /\ reads = {}

Call(kernel, arg, result, places) ==
  /\ call' = [kernel |-> kernel, arg |-> arg]
  /\ got' = result
  /\ reads' = places

EndCall ==
  /\ call # NoCall
  /\ call' = NoCall /\ got' = <<>> /\ reads' = {}

Along(indices, size) == indices \X {size}
Places(pixels, w, h) == UNION {{<<p[1], w>>, <<p[2], h>>} : p \in pixels}
Corners(tiles, tw, th, w, h) == Places(tiles \cup {Plus(t, <<tw - 1, th - 1>>) : t \in tiles}, w, h)

-----------------------------------------------------------------------------
(* The images *)

BoxFilter(n, r) ==
  Call("box", <<n, r>>,
       [rows |-> [x \in 0 .. n - 1 |-> BoxRow(n, r, x)], columns |-> [y \in 0 .. n - 1 |-> BoxColumn(n, r, y)]],
       UNION {Along({Most(0, x - r), Least(n - 1, x + r) + 1}, n + 1) : x \in 0 .. n - 1})

\* On the GPU, or on the CPU if that declines.
Blurred(w, h, r, x, y) ==
  IF OnGpu(r, MaxRadius) THEN ShaderTaps(w, h, Group, MaxRadius, r, x, y) ELSE PrefixTaps(w, h, r, x, y)

DiscBlur(w, h, r) ==
  LET of(taps(_, _)) == [p \in Pixels(w, h) |-> taps(p[1], p[2])]
      shared == TileSide(Group, MaxRadius) * TileSide(Group, MaxRadius)
  IN Call("disc", <<w, h, r>>,
          [direct |-> of(LAMBDA x, y : DirectTaps(w, h, r, x, y)),
           prefix |-> of(LAMBDA x, y : PrefixTaps(w, h, r, x, y)),
           blurred |-> of(LAMBDA x, y : Blurred(w, h, r, x, y))],
          (UNION {Places(DirectReads(w, h, r, p[1], p[2]), w, h) : p \in Pixels(w, h)}) \cup
          (IF OnGpu(r, MaxRadius)
           THEN UNION {Along(TileReads(Group, MaxRadius, r, p[1], p[2]), shared) : p \in Pixels(w, h)}
           ELSE {}))

Resize(in, out) ==
  LET at == [x \in 0 .. out - 1 |-> Resample(in, out, x)] IN
  Call("resize", <<in, out>>,
       [x \in 0 .. out - 1 |-> Position(at[x], 2 * out)],
       Along(UNION {{at[x].x0, at[x].x1} : x \in 0 .. out - 1}, in))

\* bayer_to_rgb256 along one axis of a frame of w pixels.
SuperPixels(w) ==
  /\ w % 2 = 0
  /\ LET at == [i \in 0 .. ModelSide - 1 |-> SuperPixel(w \div 2, ModelSide, i)] IN
       Call("superpixels", <<w>>, at, Along({2 * at[i] + d : i \in 0 .. ModelSide - 1, d \in 0 .. 1}, w))

Turn(o) ==
  LET n == ModelSide IN
  Call("turn", <<o>>,
       [up |-> [p \in Pixels(n, n) |-> ToUpright(n, o, p)],
        back |-> [p \in Pixels(n, n) |-> ToSensor(n, o, ToUpright(n, o, p))]],
       Places({ToUpright(n, o, p) : p \in Pixels(n, n)}, n, n))

Demosaic(n) ==
  /\ Accepted(n, n)
  /\ Call("demosaic", <<n>>,
          [rows |-> [y \in 0 .. n - 1 |-> RowWritten(n, y)],
           quarter |-> [q \in 0 .. n \div 4 - 1 |-> QuarterTaps(n, q)],
           phase |-> [t \in (0 .. n - 1) \X (-2 .. 2) |-> Mirror(t[1] + t[2], n) % 2]],
          Along({Mirror(i + k, n) : i \in 0 .. n - 1, k \in -2 .. 2}, n))

\* Down the pyramid, and up again, along both axes.
ToneMap(w, h) ==
  LET last == Levels(w, h, Top) - 1
      sides == {<<size, l>> : size \in {w, h}, l \in 1 .. last}
      down(s) == LevelSize(s[1], s[2])
      from(s) == LevelSize(s[1], s[2] - 1)
      up(s) == [x \in 0 .. from(s) - 1 |-> Upsample(down(s), x)]
  IN Call("tonemap", <<w, h>>,
          [s \in sides |-> [x \in 0 .. from(s) - 1 |-> Position(up(s)[x], 4)]],
          UNION {Along({Mirror(2 * x + k, from(s)) : x \in 0 .. down(s) - 1, k \in -2 .. 2}, from(s)) \cup
                 Along(UNION {{up(s)[x].x0, up(s)[x].x1} : x \in 0 .. from(s) - 1}, down(s)) : s \in sides})

InvertTone(lut) ==
  LET last == Max(DOMAIN lut)
      inv == InverseTone(lut, last, Values)
  IN Call("inverse", <<lut>>, inv, Along({inv[v] : v \in 0 .. Values - 1}, last + 1))

Image ==
  \/ \E n \in Sizes : (\E r \in Radii : BoxFilter(n, r)) \/ SuperPixels(n) \/ Demosaic(n)
  \/ \E s \in DiscSizes, r \in DiscRadii : DiscBlur(s[1], s[2], r)
  \/ \E in, out \in Sizes : Resize(in, out)
  \/ \E o \in Orientations : Turn(o)
  \/ \E s \in ToneSizes : ToneMap(s[1], s[2])
  \/ \E lut \in Curves : InvertTone(lut)

-----------------------------------------------------------------------------
(* The searches *)

\* Tile t of a level of the pyramid, the displacement that is predicted.
Align(f, t, d0, sad) ==
  LET T == GrayTile
      w == f[1]
      h == f[2]
      x0 == <<t[1] * T, t[2] * T>>
      best == AlignTile(w, h, T, x0, d0, SearchRadius, sad)
  IN /\ t \in Pixels(TilesOf(w, T), TilesOf(h, T))
     /\ Call("align", <<w, h, T, x0, d0, sad>>, best,
             Along(HalfReads(w), w) \cup
             Along({Parent(t[1], TilesOf(w \div 2, T))}, TilesOf(w \div 2, T)) \cup
             Corners(AlignReads(w, h, T, x0, d0, SearchRadius, best), T, T, w, h))

\* Tile m of the merge, T / 2 apart; stale is what bdx and bdy are left with.
Merge(f, m, shift, sads, stale, accepted) ==
  LET w == f[1]
      h == f[2]
      T == 2 * GrayTile
      x0 == <<m[1] * GrayTile, m[2] * GrayTile>>
      tw == Least(T, w - x0[1])
      th == Least(T, h - x0[2])
      tiles == <<TilesOf(w \div 2, GrayTile), TilesOf(h \div 2, GrayTile)>>
      gxs == FieldTiles(x0[1], tw, GrayTile, tiles[1])
      gys == FieldTiles(x0[2], th, GrayTile, tiles[2])
      field == [g \in gxs \X gys |-> shift[<<g[1] % 2, g[2] % 2>>]]
      candidates == Candidates(field, gxs, gys)
      sad == [d \in Range(candidates) |-> sads[Length1(d) % 3]]
      best == SpatialBest(w, h, T, x0, candidates, sad)
      wiener == WienerBest(w, h, T, x0, candidates, sad)
      weighs == Weighs(best, accepted)
      d == Keep(best, stale)
  IN /\ x0[1] < w /\ x0[2] < h
     /\ Call("merge", <<w, h, T, x0, field, sad, accepted>>,
             [spatial |-> best, weighs |-> weighs, wiener |-> wiener],
             Along({k - 1 : k \in DOMAIN Seen(candidates)}, 4) \cup
             Along(gxs, tiles[1]) \cup Along(gys, tiles[2]) \cup
             Along(MergeReads(w, h, x0, tw, th, d, weighs), h) \cup
             (IF weighs THEN Along({x0[1] + d[1], x0[1] + d[1] + tw - 1}, w) ELSE {}) \cup
             (IF Found(wiener) THEN Corners({Plus(x0, wiener.d)}, T, T, w, h) ELSE {}))

\* Pixel p of the picture, from a frame displaced by d.
Superres(f, p, d) ==
  LET w == f[1]
      h == f[2]
      RT == 2 * GrayTile
      tx == Least(p[1] \div RT, TilesOf(w \div 2, GrayTile) - 1)
      ty == Least(p[2] \div RT, TilesOf(h \div 2, GrayTile) - 1)
      x0 == <<tx * RT, ty * RT>>
      weighs == SrWeighs(w, h, x0, RT, d)
      own == Samples(w, h, p, <<0, 0>>, SampleRadius)
      other == IF weighs THEN Samples(w, h, p, Twice(d), SampleRadius) ELSE {}
  IN /\ p \in Pixels(w, h)
     /\ Call("superres", <<w, h, p, d>>, {Channel(u) : u \in own},
             Places(own \cup other, w, h) \cup
             (IF weighs THEN Corners({Plus(x0, Twice(d))}, RT, RT, w, h) ELSE {}))

Square == (-SearchRadius .. SearchRadius) \X (-SearchRadius .. SearchRadius)

Burst ==
  \/ \E f \in GraySizes : \E t \in Pixels(f[1], f[2]), d0 \in Shifts, sad \in [Square -> Sads] :
       Align(f, t, d0, sad)
  \/ \E f \in Frames :
    \/ \E m \in Pixels(f[1], f[2]), shift \in [(0 .. 1) \X (0 .. 1) -> Shifts],
          sads \in [0 .. 2 -> Sads], stale \in Shifts, accepted \in BOOLEAN :
         Merge(f, m, shift, sads, Twice(stale), accepted)
    \/ \E p \in Pixels(f[1], f[2]), d \in Shifts : Superres(f, p, d)

KernelsNext == (call = NoCall /\ (Image \/ Burst)) \/ EndCall

KernelsSpec == KernelsInit /\ [][KernelsNext]_kernelVars

-----------------------------------------------------------------------------
(* What the kernels are meant to compute *)

\* The mean of the window, as far as there is an image.
BoxRule(n, r) ==
  [x \in 0 .. n - 1 |->
     LET window == {u \in 0 .. n - 1 : Abs(u - x) <= r} IN
     [taps |-> [u \in 0 .. n - 1 |-> Once(u \in window)], over |-> Cardinality(window)]]

\* The centre of pixel x of out in pixels of in, times den: not beyond the first
\* and the last centre.
Centred(num, den, in) == Most(0, Least(num, (in - 1) * den))
ResizeRule(in, out) == [x \in 0 .. out - 1 |-> Centred((2 * x + 1) * in - out, 2 * out, in)]
UpsampleRule(in, out) == [x \in 0 .. out - 1 |-> Centred(2 * x - 1, 4, in)]

\* The one of size elements in which the middle of the i-th of n parts lies.
SuperPixelRule(size, n, i) ==
  CHOOSE s \in 0 .. size - 1 : (2 * i + 1) * size \in 2 * n * s .. 2 * n * (s + 1) - 1

\* The first entry that is not below v, the last if there is none.
InverseRule(lut) ==
  LET last == Max(DOMAIN lut)
      reach(v) == {j \in DOMAIN lut : lut[j] >= v}
  IN [v \in 0 .. Values - 1 |-> IF reach(v) = {} THEN last ELSE Min(reach(v))]

\* As many quarter turns, clockwise, as the degrees make; none if they make no
\* whole number.
TurnRule(n, o, p) ==
  LET quarters == (o \div 90) % 4
      turned[k \in 0 .. 3] == IF k = 0 THEN p ELSE <<n - 1 - turned[k - 1][2], turned[k - 1][1]>>
  IN IF o % 90 = 0 THEN turned[quarters] ELSE p

\* The least difference among the displacements allowed; of those the first in
\* a given order.
BestOf(allowed, sad, Before(_, _)) ==
  LET least == {d \in allowed : \A e \in allowed : sad[d] <= sad[e]} IN
  IF allowed = {} THEN None
  ELSE LET d == CHOOSE c \in least : \A e \in least : c = e \/ Before(c, e)
       IN [sad |-> sad[d], d |-> d]

RowByRow(c, e) == c[2] < e[2] \/ (c[2] = e[2] /\ c[1] < e[1])
NearFirst(c, e) == Length1(c) < Length1(e) \/ (Length1(c) = Length1(e) /\ RowByRow(c, e))

AlignRule(w, h, T, x0, d0, sad) ==
  BestOf({d \in Square : /\ x0[1] + T <= w /\ x0[2] + T <= h
                         /\ Plus(x0, Plus(d0, d)) \in (0 .. w - T) \X (0 .. h - T)},
         sad, NearFirst)

MergeRule(w, h, T, x0, field, sad, accepted) ==
  LET tw == Least(T, w - x0[1])
      th == Least(T, h - x0[2])
      fits(d) == Plus(x0, d) \in (0 .. w - tw) \X (0 .. h - th)
      firstAt(d) == CHOOSE g \in DOMAIN field :
                      /\ Twice(field[g]) = d
                      /\ \A k \in DOMAIN field : Twice(field[k]) = d => g = k \/ RowByRow(g, k)
      best == BestOf({Twice(field[g]) : g \in {k \in DOMAIN field : fits(Twice(field[k]))}},
                     sad, LAMBDA c, e : RowByRow(firstAt(c), firstAt(e)))
  IN [spatial |-> best, weighs |-> best # None /\ accepted,
      wiener |-> IF tw = T /\ th = T THEN best ELSE None]

Rule(kernel, arg) ==
  CASE kernel = "none" -> <<>>
    [] kernel = "box" -> [rows |-> BoxRule(arg[1], arg[2]), columns |-> BoxRule(arg[1], arg[2])]
    [] kernel = "disc" ->
         LET rule == DiscRule(arg[1], arg[2], arg[3])
         IN [direct |-> rule, prefix |-> rule, blurred |-> rule]
    [] kernel = "resize" -> ResizeRule(arg[1], arg[2])
    [] kernel = "superpixels" ->
         [i \in 0 .. ModelSide - 1 |-> SuperPixelRule(arg[1] \div 2, ModelSide, i)]
    [] kernel = "turn" ->
         [up |-> [p \in Pixels(ModelSide, ModelSide) |-> TurnRule(ModelSide, arg[1], p)],
          back |-> [p \in Pixels(ModelSide, ModelSide) |-> p]]
    [] kernel = "demosaic" ->
         [rows |-> [y \in 0 .. arg[1] - 1 |-> 1],
          quarter |-> [q \in 0 .. arg[1] \div 4 - 1 |-> 4],
          phase |-> [t \in (0 .. arg[1] - 1) \X (-2 .. 2) |-> (t[1] + t[2]) % 2]]
    [] kernel = "tonemap" ->
         [s \in {<<size, l>> : size \in {arg[1], arg[2]}, l \in 1 .. Levels(arg[1], arg[2], Top) - 1} |->
            UpsampleRule(LevelSize(s[1], s[2]), LevelSize(s[1], s[2] - 1))]
    [] kernel = "inverse" -> InverseRule(arg[1])
    [] kernel = "align" -> AlignRule(arg[1], arg[2], arg[3], arg[4], arg[5], arg[6])
    [] kernel = "merge" -> MergeRule(arg[1], arg[2], arg[3], arg[4], arg[5], arg[6], arg[7])
    [] kernel = "superres" -> {"r", "g", "b"}

\* Each kernel computes what it is meant to: the two blurs of the CPU and the
\* one of the GPU agree, running sums never drift from their windows, what is
\* resampled stays centred, a mask comes back as the sensor sees it, every row
\* of the picture is written once and no reflection mixes colours, and a search
\* takes the displacement it should, with ties as they are meant.
ResultIsItsRule == got = Rule(call.kernel, call.arg)

\* No kernel reads, of an image, a table, a motion field or the shared tile of
\* a workgroup, what is not there.
ReadsStayInside == \A at \in reads : 0 <= at[1] /\ at[1] < at[2]
=============================================================================

---------------------------- MODULE ImageKernels ----------------------------
(***************************************************************************)
(* The index arithmetic of the image kernels of bokeh.cc, finish.cc and    *)
(* seg.cc (core/src) and of the compute shader disc_blur.comp.             *)
(*                                                                         *)
(* A kernel that adds up pixels is modelled by its taps: how often it      *)
(* counts each pixel (it is linear, so this is what it computes).  A       *)
(* kernel that interpolates is modelled by the two pixels it reads and the *)
(* weight of the second.  The place of a read is recorded as the index and *)
(* the number of elements there are.  Pixels count from 0.                 *)
(***************************************************************************)
EXTENDS Integers, FiniteSets, FiniteSetsExt

Least(a, b) == IF a < b THEN a ELSE b
Most(a, b) == IF a < b THEN b ELSE a
Abs(v) == IF v < 0 THEN -v ELSE v
Pixels(w, h) == (0 .. w - 1) \X (0 .. h - 1)

\* clamp of the shader, std::min(h - 1, std::max(0, ..)) of the C++.
Clamp(v, size) == Least(size - 1, Most(0, v))

\* 1 if the condition holds: what a pixel of value 1 adds.
Once(b) == IF b THEN 1 ELSE 0

\* BurstMeta as parse_meta lets it through.
Accepted(w, h) == w > 0 /\ h > 0 /\ w % 4 = 0 /\ h % 4 = 0

-----------------------------------------------------------------------------
(* box_filter: along a row by prefix sums, down a column by a running sum.  *)

\* How often pixel u is in the prefix sum P[x].
Prefix(u, x) == Once(u < x)

BoxRow(w, r, x) ==
  LET x0 == Most(0, x - r)
      x1 == Least(w - 1, x + r)
  IN [taps |-> [u \in 0 .. w - 1 |-> Prefix(u, x1 + 1) - Prefix(u, x0)], over |-> x1 - x0 + 1]

\* After row y is written, row y + r + 1 is added to acc and row y - r taken
\* from it (mutant: the first row is kept).
KeepsFirst(y, r) == {y - r} \cap {v \in Nat : v > 0}
Leaves(y, r) == {y - r} \cap Nat
Enters(h, y, r) == {y + r + 1} \cap 0 .. h - 1

\* acc as row y is written.
RunningSum(h, r) ==
  LET acc[y \in 0 .. h - 1] ==
        IF y = 0 THEN [v \in 0 .. h - 1 |-> Once(v <= Least(r, h - 1))]
        ELSE LET before == acc[y - 1] IN
             [v \in 0 .. h - 1 |-> before[v] + Once(v \in Enters(h, y - 1, r))
                                             - Once(v \in Leaves(y - 1, r))]
  IN acc

BoxColumn(h, r, y) ==
  [taps |-> RunningSum(h, r)[y], over |-> Least(h - 1, y + r) - Most(0, y - r) + 1]

-----------------------------------------------------------------------------
(* The disc blur, three times: summed pixel by pixel, by prefix sums of the *)
(* rows, and on the GPU.  A tap outside the image counts the pixel at its   *)
(* edge.  Where the subject is (alpha > 0.98) all three copy the pixel.     *)

\* span: floor(sqrt(r * r - dy * dy)).
Span(r, dy) == CHOOSE s \in 0 .. r : s * s <= r * r - dy * dy /\ (s + 1) * (s + 1) > r * r - dy * dy

\* disc_blur_direct does not clamp in the interior.
Interior(w, h, r, x, y) == x >= r /\ x + r < w /\ y >= r /\ y + r < h

DirectTap(w, h, r, x, y, dx, dy) ==
  IF Interior(w, h, r, x, y) THEN <<x + dx, y + dy>> ELSE <<Clamp(x + dx, w), Clamp(y + dy, h)>>

DirectReads(w, h, r, x, y) ==
  UNION {{DirectTap(w, h, r, x, y, dx, dy) : dx \in -Span(r, dy) .. Span(r, dy)} : dy \in -r .. r}

DirectTaps(w, h, r, x, y) ==
  LET disc == {d \in (-r .. r) \X (-r .. r) : d[1] \in -Span(r, d[2]) .. Span(r, d[2])} IN
  [p \in Pixels(w, h) |-> Cardinality({d \in disc : DirectTap(w, h, r, x, y, d[1], d[2]) = p})]

\* disc_blur_normalized: a row is a difference of two prefix sums, and its first
\* and last pixel as often as the span leaves the image.
Replicated(inside, wanted) == IF inside > wanted THEN inside - wanted ELSE wanted - inside
RowTaps(w, x, sx) ==
  LET xa == Most(0, x - sx)
      xb == Least(w - 1, x + sx)
  IN [u \in 0 .. w - 1 |->
        Prefix(u, xb + 1) - Prefix(u, xa)
          + Replicated(xa, x - sx) * Prefix(u, 1)
          + Replicated(xb, x + sx) * (Prefix(u, w) - Prefix(u, w - 1))]

PrefixTaps(w, h, r, x, y) ==
  LET row(dy, p) == IF Clamp(y + dy, h) = p[2] THEN RowTaps(w, x, Span(r, dy))[p[1]] ELSE 0
      sum[k \in 0 .. 2 * r + 1] ==
        IF k = 0 THEN [p \in Pixels(w, h) |-> 0]
        ELSE LET before == sum[k - 1] IN [p \in Pixels(w, h) |-> before[p] + row(k - 1 - r, p)]
  IN sum[2 * r + 1]

\* disc_blur.comp: a workgroup of L x L invocations loads a square of TS x TS
\* pixels, L and maxR on every side.
TileSide(L, maxR) == L + 2 * maxR
Loaded(w, h, L, maxR, g, i) ==
  LET ts == TileSide(L, maxR) IN
  <<Clamp(g[1] * L - maxR + (i % ts), w), Clamp(g[2] * L - maxR + i \div ts, h)>>

\* The elements of the tile that the invocation at a pixel adds up.
TileReads(L, maxR, r, x, y) ==
  LET ts == TileSide(L, maxR)
      row(dy) == ((y % L) + maxR + dy) * ts + (x % L) + maxR
  IN UNION {{row(dy) + dx : dx \in -Span(r, dy) .. Span(r, dy)} : dy \in -r .. r}

ShaderTaps(w, h, L, maxR, r, x, y) ==
  LET reads == TileReads(L, maxR, r, x, y) IN
  [p \in Pixels(w, h) |->
     Cardinality({i \in reads : Loaded(w, h, L, maxR, <<x \div L, y \div L>>, i) = p})]

\* The tile has room for discs of maxR: a larger one is left to the CPU.
OnGpu(r, maxR) == r <= maxR

\* The rule of all three: every point of the disc counts the pixel nearest to it.
RoundDisc(r) == {d \in (-r .. r) \X (-r .. r) : d[1] * d[1] + d[2] * d[2] <= r * r}
Nearest(v, size) == CHOOSE u \in 0 .. size - 1 : \A t \in 0 .. size - 1 : Abs(u - v) <= Abs(t - v)
DiscRule(w, h, r) ==
  [p \in Pixels(w, h) |-> [u \in Pixels(w, h) |->
     Cardinality({d \in RoundDisc(r) : u = <<Nearest(p[1] + d[1], w), Nearest(p[2] + d[2], h)>>})]]

-----------------------------------------------------------------------------
(* Bilinear resampling: pixel x of `out` is at ((x + 1/2) * in / out - 1/2)  *)
(* of `in`, which is num / den.                                             *)

\* A position before or after the image is at its edge.
Between(num, den, size) ==
  LET x0 == Least(num \div den, size - 1) IN
  [x0 |-> x0, x1 |-> Least(x0 + 1, size - 1), weight |-> num - x0 * den]

\* resize_bilinear, composite, and the gain of finish.
Centre(in, out, x) == (2 * x + 1) * in - out
Resample(in, out, x) == Between(Most(0, Centre(in, out, x)), 2 * out, in)

\* pyr_up: twice as large, or one less than that.
Upsample(in, x) == Between(Least(4 * (in - 1), Most(0, 2 * x - 1)), 4, in)

\* Where it is: x0 and the weight of x1, in 1 / den.
Position(b, den) == b.x0 * den + IF b.x1 = b.x0 THEN 0 ELSE b.weight

-----------------------------------------------------------------------------
(* bayer_to_rgb256 and the orientation.  n stands for 256.                  *)

SuperPixel(size, n, i) == Least(size - 1, ((2 * i + 1) * size) \div (2 * n))

\* % of C++.
Remainder(a, b) == IF a >= 0 THEN a % b ELSE -((-a) % b)

\* Into 0 .. 359.
Degrees(o) == Remainder(Remainder(o, 360) + 360, 360)

\* rotate256: where the pixel goes; of no right angle it goes nowhere else.
Rotate(n, deg, p) ==
  CASE deg = 90 -> <<n - 1 - p[2], p[1]>>
    [] deg = 180 -> <<n - 1 - p[1], n - 1 - p[2]>>
    [] deg = 270 -> <<p[2], n - 1 - p[1]>>
    [] OTHER -> p

\* The model's input is turned upright, its mask back to the sensor.
ToUpright(n, o, p) == IF Degrees(o) # 0 THEN Rotate(n, Degrees(o), p) ELSE p
ToSensor(n, o, p) == IF Degrees(o) # 0 THEN Rotate(n, (360 - Degrees(o)) % 360, p) ELSE p

-----------------------------------------------------------------------------
(* finish: demosaicing with reflection at the edges, in blocks of four rows *)

\* ry, rx, and rf of pyr_down.
Mirror(i, size) == IF i < 0 THEN -i ELSE IF i >= size THEN 2 * size - 2 - i ELSE i

\* How often row y is written by the tasks 0 .. H / 4 - 1.
RowWritten(h, y) == Cardinality({t \in (0 .. h \div 4 - 1) \X (0 .. 3) : 4 * t[1] + t[2] = y})

\* How often a pixel is added to each of the quarter's (QW of them in a row).
QuarterTaps(w, q) == Cardinality({x \in 0 .. w - 1 : x \div 4 < w \div 4 /\ x \div 4 = q})

\* local_tone_gain: pyramids of as many levels as halvings keep min(w, h) above
\* top, which stands for 16.
Levels(w, h, top) ==
  LET halved[k \in 0 .. Least(w, h)] == IF k = 0 THEN Least(w, h) ELSE halved[k - 1] \div 2 IN
  1 + Cardinality({k \in 0 .. Least(w, h) : halved[k] > top})

\* The sizes of the levels, 0 the first: pyr_down rounds up.
LevelSize(size, l) ==
  LET s[k \in 0 .. l] == IF k = 0 THEN size ELSE (s[k - 1] + 1) \div 2 IN s[l]

\* The inverse of the tone curve, whose entries go up to `last`: the least entry
\* that is not below v.  The search for v goes on where the one for v - 1 ended.
Advance(lut, last, j, v) ==
  CHOOSE k \in j .. last :
    /\ \A m \in j .. k - 1 : lut[m] < v
    /\ k = last \/ lut[k] >= v
InverseTone(lut, last, values) ==
  LET inv[v \in 0 .. values - 1] == Advance(lut, last, IF v = 0 THEN 0 ELSE inv[v - 1], v)
  IN inv
=============================================================================

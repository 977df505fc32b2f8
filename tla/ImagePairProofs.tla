--------------------------- MODULE ImagePairProofs ---------------------------
(***************************************************************************)
(* The properties of ImagePair for images of every size and for every      *)
(* value of the limits.                                                    *)
(***************************************************************************)
EXTENDS ImagePair, TLAPS

Positive == Nat \ {0}
Pixels   == Positive \X Positive

-----------------------------------------------------------------------------
(***************************************************************************)
(* Rounding                                                                *)
(***************************************************************************)

\* The rounded quotient is at most any whole number that the exact one is not
\* above.
LEMMA RoundedAtMost ==
    ASSUME NEW n \in Nat, NEW m \in Nat, NEW d \in Positive, NEW up \in BOOLEAN,
           NEW bound \in Nat, n * m <= bound * d
    PROVE  Rounded(n, m, d, up) \in Nat /\ Rounded(n, m, d, up) <= bound
<1> DEFINE p == n * m
           q == bound * d
           e == IF up THEN 0 ELSE 1
           sum == 2 * p + d - e
<1>1. p \in Nat /\ q \in Nat /\ e \in 0..1 /\ d >= 1 /\ d \in Nat
  BY DEF Positive
<1>2. sum \in Nat /\ sum < 2 * q + 2 * d
  BY <1>1
<1>3. 2 * q + 2 * d = (2 * d) * (bound + 1)
  <2>1. \A a, b \in Nat : 2 * (b * a) + 2 * a = (2 * a) * (b + 1)
    BY SMT
  <2> QED BY <2>1, <1>1
<1>4. ASSUME NEW a \in Nat, NEW k \in Positive, NEW b \in Nat, a < k * (b + 1)
      PROVE  a \div k \in Nat /\ a \div k <= b
  BY <1>4, SMTT(30) DEF Positive
<1>5. sum < (2 * d) * (bound + 1) /\ 2 * d \in Positive
  BY <1>1, <1>2, <1>3 DEF Positive
<1>6. sum \div (2 * d) \in Nat /\ sum \div (2 * d) <= bound
  BY <1>2, <1>4, <1>5
<1>7. 2 * n * m = 2 * p
  <2>1. \A a, b \in Nat : 2 * a * b = 2 * (a * b)
    BY SMT
  <2> QED BY <2>1
<1> HIDE DEF p, q, e, sum
<1>8. Rounded(n, m, d, up) = sum \div (2 * d)
  BY <1>7 DEF Rounded, sum, p, e
<1> QED BY <1>6, <1>8

\* A factor of at most one neither enlarges a side nor leaves it above the side
\* that the longest one is scaled to.
LEMMA ScaledShrinks ==
    ASSUME NEW n \in Positive, NEW longest \in Positive, n <= longest,
           HeatmapSide < longest, NEW up \in BOOLEAN
    PROVE  Scaled(n, longest, up) \in Positive /\ Scaled(n, longest, up) <= n
             /\ Scaled(n, longest, up) <= HeatmapSide
<1>1. HeatmapSide \in Positive /\ n \in Nat /\ longest \in Nat
  BY SizeAssumption DEF Positive
<1>2. n * HeatmapSide <= n * longest /\ n * HeatmapSide <= HeatmapSide * longest
  <2>1. \A a, b, c \in Nat : b <= c => a * b <= a * c /\ b * a <= c * a
    BY SMT
  <2>2. HeatmapSide <= longest
    BY <1>1 DEF Positive
  <2>3. n * HeatmapSide = HeatmapSide * n
    BY <1>1 DEF Positive
  <2>4. HeatmapSide * n <= HeatmapSide * longest
    BY <2>1, <1>1 DEF Positive
  <2> QED BY <2>1, <2>2, <2>3, <2>4, <1>1 DEF Positive
<1> DEFINE rounded == Rounded(n, HeatmapSide, longest, up)
<1>3. rounded \in Nat /\ rounded <= n
  BY <1>1, <1>2, RoundedAtMost DEF Positive
<1>4. rounded <= HeatmapSide
  BY <1>1, <1>2, RoundedAtMost DEF Positive
<1> HIDE DEF rounded
<1>5. Scaled(n, longest, up) = Larger(1, rounded)
  BY DEF Scaled, rounded
<1> QED BY <1>1, <1>3, <1>4, <1>5 DEF Larger, Positive

\* The rounded quotient is within half of the exact one.
LEMMA RoundedIsNear ==
    ASSUME NEW n \in Nat, NEW m \in Nat, NEW d \in Positive, NEW up \in BOOLEAN
    PROVE  /\ Rounded(n, m, d, up) \in Int
           /\ 2 * (d * Rounded(n, m, d, up)) - 2 * (n * m) \in -d..d
<1> DEFINE p == n * m
           e == IF up THEN 0 ELSE 1
           sum == 2 * p + d - e
           k == 2 * d
           r == sum \div k
<1>1. p \in Nat /\ e \in 0..1 /\ d \in Nat /\ d >= 1
  BY DEF Positive
<1>2. sum \in Nat /\ k \in Positive /\ k = 2 * d /\ sum = 2 * p + d - e
  BY <1>1 DEF Positive
<1>3. \A a \in Nat, b \in Positive :
        a \div b \in Nat /\ b * (a \div b) <= a /\ a < b * (a \div b) + b
  BY SMTT(30) DEF Positive
<1>4. Rounded(n, m, d, up) = r
  <2>1. \A a, b \in Nat : 2 * a * b = 2 * (a * b)
    BY SMT
  <2>2. 2 * n * m = 2 * p
    BY <2>1
  <2> QED BY <2>2 DEF Rounded
<1> HIDE DEF p, e, sum, k
<1>5. r \in Nat /\ k * r <= sum /\ sum < k * r + k
  BY <1>2, <1>3
<1> HIDE DEF r
<1>6. k * r = 2 * (d * r) /\ d * r \in Nat
  <2>1. \A a, b \in Nat : (2 * a) * b = 2 * (a * b) /\ a * b \in Nat
    BY SMT
  <2> QED BY <2>1, <1>1, <1>2, <1>5
<1>7. 2 * (d * r) - 2 * p \in -d..d
  BY <1>1, <1>2, <1>5, <1>6
<1> QED BY <1>4, <1>5, <1>7 DEF p

\* What HeatmapKeepsShape asks of the size that an image was brought to.
InShape(size, original) ==
    2 * (size[1] * original[2] - size[2] * original[1])
        \in -(original[1] + original[2])..(original[1] + original[2])

\* Two sides scaled by one factor, each to within half a pixel, are in shape.
LEMMA ScaledInShape ==
    ASSUME NEW size \in Int \X Int, NEW original \in Pixels,
           NEW m \in Nat, NEW d \in Positive,
           \A i \in {1, 2} : 2 * (d * size[i]) - 2 * (original[i] * m) \in -d..d
    PROVE  InShape(size, original)
<1>1. PICK a \in Int, b \in Int : size[1] = a /\ size[2] = b
  OBVIOUS
<1>2. PICK w \in Positive, h \in Positive : original[1] = w /\ original[2] = h
  BY DEF Pixels
<1>3. 2 * (d * a) - 2 * (w * m) \in -d..d /\ 2 * (d * b) - 2 * (h * m) \in -d..d
  BY <1>1, <1>2
<1>4. \A x \in Int, y \in Nat, l \in Nat : x \in -l..l => x * y \in -(l * y)..(l * y)
  <2> SUFFICES ASSUME NEW x \in Int, NEW y \in Nat, NEW l \in Nat, -l <= x, x <= l
               PROVE  -(l * y) <= x * y /\ x * y <= l * y
    BY SMT
  <2>1. (x + l) * y >= 0 /\ (l - x) * y >= 0
    BY SMT
  <2>2. (x + l) * y = x * y + l * y /\ (l - x) * y = l * y - x * y
    BY SMT
  <2> QED BY <2>1, <2>2, SMT
<1> DEFINE left == (2 * (d * a) - 2 * (w * m)) * h
           right == (2 * (d * b) - 2 * (h * m)) * w
           skew == a * h - b * w
<1>5. /\ left \in -(d * h)..(d * h) /\ right \in -(d * w)..(d * w)
      /\ left \in Int /\ right \in Int
  BY <1>3, <1>4 DEF Positive
<1>6. left - right = d * (2 * skew)
  <2>1. left = 2 * (d * (a * h)) - 2 * ((w * m) * h)
    BY SMT DEF Positive
  <2>2. right = 2 * (d * (b * w)) - 2 * ((h * m) * w)
    BY SMT DEF Positive
  <2>3. (w * m) * h = (h * m) * w
    BY SMT DEF Positive
  <2>4. d * (2 * skew) = 2 * (d * (a * h)) - 2 * (d * (b * w))
    BY SMT DEF Positive
  <2> QED BY <2>1, <2>2, <2>3, <2>4, SMT DEF Positive
<1>7. d * h + d * w = d * (w + h)
  BY SMT DEF Positive
<1>8. skew \in Int /\ w + h \in Nat /\ d \in Nat /\ d >= 1
  BY SMT DEF Positive
<1> HIDE DEF left, right, skew
<1>9. d * (2 * skew) \in -(d * (w + h))..(d * (w + h))
  <2>1. /\ d * h \in Nat /\ d * w \in Nat /\ d * (w + h) \in Nat /\ d * (2 * skew) \in Int
    BY <1>8, SMT DEF Positive
  <2> QED BY <1>5, <1>6, <1>7, <2>1, SMT
<1>10. \A x \in Int, y \in Nat : d * x \in -(d * y)..(d * y) => x \in -y..y
  <2> SUFFICES ASSUME NEW x \in Int, NEW y \in Nat, -(d * y) <= d * x, d * x <= d * y
               PROVE  -y <= x /\ x <= y
    BY <1>8, SMT
  <2>1. x > y => d * (x - y) >= 1
    BY <1>8, SMT
  <2>2. -y > x => d * (-y - x) >= 1
    BY <1>8, SMT
  <2>3. d * (x - y) = d * x - d * y /\ d * (-y - x) = -(d * y) - d * x
    BY <1>8, SMT
  <2>4. d * x \in Int /\ d * y \in Int
    BY <1>8, SMT
  <2> QED BY <2>1, <2>2, <2>3, <2>4, SMT
<1>11. 2 * skew \in -(w + h)..(w + h)
  <2>1. 2 * skew \in Int
    BY <1>8
  <2> QED BY <1>8, <1>9, <1>10, <2>1
<1> QED BY <1>1, <1>2, <1>11 DEF InShape, skew

-----------------------------------------------------------------------------
(***************************************************************************)
(* The inductive invariant: what is known of the pair at each step.        *)
(***************************************************************************)

Typed ==
    /\ use \in Use /\ step \in Step
    /\ ref \in Pixels /\ tst \in Pixels
    /\ uploaded \in Size \X Size

\* A heatmap is resized, DISTS is never padded, and nothing fails.
Ordered ==
    /\ step = "resized" => use = "heatmap"
    /\ step = "matched" => use # "dists"
    /\ step # "raised"

\* From the limits on, the reference stays within them.
Limited == step \in {"stored", "resized", "matched"} => WithinLimits(ref)

\* After the resizing the reference stays within max_side.
Fitted ==
    use = "heatmap" /\ step \in {"resized", "matched"} => Longest(ref) <= HeatmapSide

\* After the matching the two sizes stay equal.
Matched == step \in {"matched", "ready"} => ref = tst

\* Until something is resized the reference is the one that was uploaded.
Untouched == step \in {"uploaded", "stored"} => ref = uploaded[1]

\* From the resizing on it has the shape of the one that was uploaded.
Shaped ==
    /\ use = "heatmap" /\ step \in {"resized", "matched"}
    /\ ref[1] > MinSide /\ ref[2] > MinSide
    => InShape(ref, uploaded[1])

Promised ==
    Comparable /\ HeatmapBounded /\ WorkBounded /\ HeatmapKeepsShape

PairInv == Typed /\ Ordered /\ Limited /\ Fitted /\ Matched /\ Untouched /\ Shaped /\ Promised

\* Uploaded images have pixels; nothing else is claimed of them.
LEMMA InitPair == Init => PairInv
<1> SUFFICES ASSUME Init PROVE PairInv
  OBVIOUS
<1>1. Size \subseteq Pixels
  BY SizeAssumption DEF Size, Pixels, Positive
<1>2. Typed
  BY <1>1 DEF Init, Typed, Use, Step
<1>3. Untouched
  BY DEF Init, Untouched
<1> QED
  BY <1>2, <1>3 DEF Init, PairInv, Ordered, Limited, Fitted, Matched, Shaped,
     Promised, Comparable, HeatmapBounded, WorkBounded, HeatmapKeepsShape

-----------------------------------------------------------------------------
(***************************************************************************)
(* Helpers on sizes                                                        *)
(***************************************************************************)

\* Shrinking both sides keeps a size within its limits.
LEMMA ShrinkingFits ==
    ASSUME NEW a \in Pixels, NEW b \in Pixels, a[1] <= b[1], a[2] <= b[2], WithinLimits(b)
    PROVE  WithinLimits(a)
<1>1. a[1] * a[2] <= b[1] * b[2]
  <2>1. \A x, y, u, v \in Nat : x <= u /\ y <= v => x * y <= u * v
    <3> SUFFICES ASSUME NEW x \in Nat, NEW y \in Nat, NEW u \in Nat, NEW v \in Nat,
                        x <= u, y <= v
                 PROVE  x * y <= u * v
      OBVIOUS
    <3>1. x * y <= u * y /\ u * y <= u * v
      OBVIOUS
    <3> QED BY <3>1
  <2> QED BY <2>1 DEF Pixels, Positive
<1>2. a[1] * a[2] \in Nat /\ b[1] * b[2] \in Nat
  BY DEF Pixels, Positive
<1>3. Longest(a) <= Longest(b) /\ Longest(a) \in Nat /\ Longest(b) \in Nat
  BY DEF Longest, Larger, Pixels, Positive
<1> QED BY <1>1, <1>2, <1>3, SizeAssumption DEF WithinLimits

\* What Resize leaves of the reference.
LEMMA ResizedSizes ==
    ASSUME Typed, Resize
    PROVE  /\ ref' \in Pixels /\ tst' \in Pixels
           /\ ref'[1] <= ref[1] /\ ref'[2] <= ref[2] /\ Longest(ref') <= HeatmapSide
           /\ ref'[1] > MinSide /\ ref'[2] > MinSide => InShape(ref', ref)
<1> DEFINE longest == Larger(Longest(ref), Longest(tst))
           Fit(size, up) ==
             IF longest <= HeatmapSide THEN size
             ELSE <<Scaled(size[1], longest, up[size[1]]), Scaled(size[2], longest, up[size[2]])>>
           sides == {ref[1], ref[2], tst[1], tst[2]}
<1>1. PICK up \in [sides -> BOOLEAN] : ref' = Fit(ref, up) /\ tst' = Fit(tst, up)
  BY DEF Resize
<1>2. /\ sides \subseteq Positive /\ longest \in Positive
      /\ \A n \in sides : n <= longest
      /\ Longest(ref) <= longest /\ Longest(tst) <= longest
  BY DEF Typed, Longest, Larger, Pixels, Positive
<1>3. CASE longest <= HeatmapSide
  <2>1. ref' = ref /\ tst' = tst
    BY <1>1, <1>3
  <2>2. Longest(ref) <= HeatmapSide
    BY <1>2, <1>3, SizeAssumption DEF Typed, Longest, Larger, Pixels, Positive
  <2>3. InShape(ref, ref)
    <3>1. \A a, b \in Positive : a * b - b * a = 0
      BY SMT DEF Positive
    <3>2. ref[1] \in Positive /\ ref[2] \in Positive
      BY DEF Typed, Pixels
    <3>3. 0 \in -(ref[1] + ref[2])..(ref[1] + ref[2])
      BY <3>2 DEF Positive
    <3> QED BY <3>1, <3>2, <3>3 DEF InShape
  <2> QED BY <2>1, <2>2, <2>3 DEF Typed, Pixels, Positive
<1>4. CASE ~(longest <= HeatmapSide)
  <2>1. HeatmapSide < longest
    BY <1>2, <1>4, SizeAssumption DEF Positive
  <2>2. \A n \in sides : /\ Scaled(n, longest, up[n]) \in Positive
                         /\ Scaled(n, longest, up[n]) <= n
                         /\ Scaled(n, longest, up[n]) <= HeatmapSide
    <3> TAKE n \in sides
    <3>1. n \in Positive /\ n <= longest /\ longest \in Positive /\ up[n] \in BOOLEAN
      BY <1>1, <1>2
    <3> HIDE DEF longest, sides
    <3> QED BY <3>1, <2>1, ScaledShrinks
  <2>3. ref' = <<Scaled(ref[1], longest, up[ref[1]]), Scaled(ref[2], longest, up[ref[2]])>>
        /\ tst' = <<Scaled(tst[1], longest, up[tst[1]]), Scaled(tst[2], longest, up[tst[2]])>>
    BY <1>1, <1>4
  <2>4. longest \in Positive /\ HeatmapSide \in Nat /\ MinSide \in Nat /\ MinSide >= 1
    BY <1>2, SizeAssumption DEF Positive
  <2>5. ref[1] \in sides /\ ref[2] \in sides /\ tst[1] \in sides /\ tst[2] \in sides
    OBVIOUS
  <2> HIDE DEF longest, sides
  <2>6. /\ ref'[1] \in Positive /\ ref'[1] <= ref[1] /\ ref'[1] <= HeatmapSide
        /\ ref'[2] \in Positive /\ ref'[2] <= ref[2] /\ ref'[2] <= HeatmapSide
        /\ ref' \in Pixels /\ tst' \in Pixels
    BY <2>2, <2>3, <2>5 DEF Pixels
  <2>7. Longest(ref') <= HeatmapSide
    BY <2>6 DEF Longest, Larger
  <2>8. ASSUME NEW i \in {1, 2}, ref'[i] > MinSide
        PROVE  2 * (longest * ref'[i]) - 2 * (ref[i] * HeatmapSide) \in -longest..longest
    <3>1. ref[i] \in sides /\ ref[i] \in Nat /\ up[ref[i]] \in BOOLEAN
      BY <1>1, <2>5 DEF Typed, Pixels, Positive
    <3> DEFINE rounded == Rounded(ref[i], HeatmapSide, longest, up[ref[i]])
    <3>2. /\ rounded \in Int
          /\ 2 * (longest * rounded) - 2 * (ref[i] * HeatmapSide) \in -longest..longest
      BY <2>4, <3>1, RoundedIsNear
    <3>3. ref'[i] = Larger(1, rounded)
      BY <2>3 DEF Scaled
    <3> HIDE DEF rounded
    <3>4. ref'[i] = rounded
      BY <2>4, <2>8, <3>2, <3>3 DEF Larger
    <3> QED BY <3>2, <3>4
  <2>9. ref'[1] > MinSide /\ ref'[2] > MinSide => InShape(ref', ref)
    <3>1. ref' \in Int \X Int /\ ref \in Pixels
      BY <2>6 DEF Typed, Pixels, Positive
    <3> QED BY <2>4, <2>8, <3>1, ScaledInShape
  <2> QED BY <2>6, <2>7, <2>9
<1> QED BY <1>3, <1>4

\* What padding makes of a size within the limits.
LEMMA PaddedSizes ==
    ASSUME NEW size \in Pixels
    PROVE  /\ Padded(size) \in Pixels
           /\ Padded(size)[1] >= MinSide /\ Padded(size)[2] >= MinSide
           /\ Longest(size) <= HeatmapSide => Longest(Padded(size)) <= HeatmapSide
BY SizeAssumption DEF Padded, Pixels, Positive, Larger, Longest

\* Padding a small side to the minimum costs at most a strip of the longest side.
LEMMA PaddedWork ==
    ASSUME NEW size \in Pixels, WithinLimits(size), MaxImageSide > 0, MaxPixels > 0,
           NEW padded \in {size, Padded(size)}
    PROVE  LET side == Larger(MinSide, MaxImageSide) IN
           /\ Longest(padded) <= side
           /\ padded[1] * padded[2] <= Larger(MaxPixels, MinSide * side)
<1> DEFINE side == Larger(MinSide, MaxImageSide)
           work == Larger(MaxPixels, MinSide * side)
<1>1. /\ side \in Nat /\ MinSide <= side /\ MaxImageSide <= side
      /\ MinSide * side \in Nat /\ MaxPixels \in Nat /\ MinSide \in Positive
  BY SizeAssumption DEF Larger, Positive
<1>2. work \in Nat /\ MaxPixels <= work /\ MinSide * side <= work
  BY <1>1 DEF Larger
<1>3. /\ size[1] \in Nat /\ size[2] \in Nat /\ size[1] <= side /\ size[2] <= side
      /\ size[1] * size[2] <= MaxPixels
  BY <1>1, SizeAssumption DEF WithinLimits, Longest, Larger, Pixels, Positive
<1> HIDE DEF side, work
<1>4. padded[1] \in Nat /\ padded[2] \in Nat /\ padded[1] <= side /\ padded[2] <= side
  BY <1>1, <1>3 DEF Padded, Larger, Positive
<1>5. padded[1] * padded[2] <= work
  <2>1. CASE padded = size
    BY <2>1, <1>1, <1>2, <1>3
  <2>2. CASE padded = Padded(size) /\ size[1] < MinSide
    <3>1. padded[1] = MinSide
      BY <2>2, <1>1, <1>3 DEF Padded, Larger, Positive
    <3>2. MinSide * padded[2] <= MinSide * side
      BY <1>1, <1>4 DEF Positive
    <3> QED BY <3>1, <3>2, <1>1, <1>2, <1>4 DEF Positive
  <2>3. CASE padded = Padded(size) /\ size[2] < MinSide
    <3>1. padded[2] = MinSide
      BY <2>3, <1>1, <1>3 DEF Padded, Larger, Positive
    <3>2. padded[1] * MinSide <= MinSide * side
      BY <1>1, <1>4 DEF Positive
    <3> QED BY <3>1, <3>2, <1>1, <1>2, <1>4 DEF Positive
  <2>4. CASE padded = Padded(size) /\ ~(size[1] < MinSide) /\ ~(size[2] < MinSide)
    <3>1. padded[1] = size[1] /\ padded[2] = size[2]
      BY <2>4, <1>1, <1>3 DEF Padded, Larger, Positive
    <3> QED BY <3>1, <1>1, <1>2, <1>3
  <2> QED BY <2>1, <2>2, <2>3, <2>4
<1>6. Longest(padded) <= side
  BY <1>4 DEF Longest, Larger
<1> QED BY <1>5, <1>6 DEF side, work

-----------------------------------------------------------------------------
(***************************************************************************)
(* The steps                                                               *)
(***************************************************************************)

\* The invariant is about the pair and its stage alone.
LEMMA StutterPair == PairInv /\ UNCHANGED vars => PairInv'
BY DEF vars, PairInv, Typed, Ordered, Limited, Fitted, Matched, Untouched, Shaped, InShape,
   Promised, Comparable, HeatmapBounded, WorkBounded, HeatmapKeepsShape, WithinLimits

\* Validation lets only images within the limits pass.
LEMMA ValidatePair == PairInv /\ Validate => PairInv'
<1> SUFFICES ASSUME PairInv, Validate PROVE PairInv'
  OBVIOUS
<1>1. /\ step' \in {"stored", "rejected"}
      /\ step' = "stored" => WithinLimits(ref)
      /\ ref' = ref /\ tst' = tst /\ use' = use /\ uploaded' = uploaded
  BY DEF Validate
<1>2. Typed' /\ Ordered' /\ Fitted' /\ Matched'
  BY <1>1 DEF PairInv, Typed, Step, Ordered, Fitted, Matched
<1>3. Limited'
  BY <1>1 DEF Limited, WithinLimits
<1>4. Untouched' /\ Shaped'
  BY <1>1 DEF PairInv, Validate, Untouched, Shaped
<1>5. Promised'
  BY <1>1 DEF Promised, Comparable, HeatmapBounded, WorkBounded, HeatmapKeepsShape
<1> QED BY <1>2, <1>3, <1>4, <1>5 DEF PairInv

\* Resizing brings both images within max_side and never enlarges one.
LEMMA ResizePair == PairInv /\ Resize => PairInv'
<1> SUFFICES ASSUME PairInv, Resize PROVE PairInv'
  OBVIOUS
<1>1. /\ step = "stored" /\ use = "heatmap" /\ step' = "resized"
      /\ use' = use /\ uploaded' = uploaded
  BY DEF Resize
<1>2. /\ ref' \in Pixels /\ tst' \in Pixels /\ ref \in Pixels
      /\ ref'[1] <= ref[1] /\ ref'[2] <= ref[2] /\ Longest(ref') <= HeatmapSide
      /\ ref'[1] > MinSide /\ ref'[2] > MinSide => InShape(ref', ref)
  BY ResizedSizes DEF PairInv, Typed
<1>3. Typed' /\ Ordered' /\ Matched'
  BY <1>1, <1>2 DEF PairInv, Typed, Step, Ordered, Matched
<1>4. Limited'
  <2>1. WithinLimits(ref)
    BY <1>1 DEF PairInv, Limited
  <2>2. WithinLimits(ref')
    BY <2>1, <1>2, ShrinkingFits
  <2> QED BY <2>2 DEF Limited, WithinLimits
<1>5. Fitted'
  BY <1>2 DEF Fitted
<1>6. Untouched' /\ Shaped'
  <2>1. ref = uploaded'[1]
    BY <1>1 DEF PairInv, Untouched
  <2> QED BY <1>1, <1>2, <2>1 DEF Untouched, Shaped, InShape
<1>7. Promised'
  BY <1>1 DEF Promised, Comparable, HeatmapBounded, WorkBounded, HeatmapKeepsShape
<1> QED BY <1>3, <1>4, <1>5, <1>6, <1>7 DEF PairInv

\* Matching gives the test image the size of the reference.
LEMMA MatchPair == PairInv /\ Match => PairInv'
<1> SUFFICES ASSUME PairInv, Match PROVE PairInv'
  OBVIOUS
<1>1. /\ step = (IF use = "heatmap" THEN "resized" ELSE "stored")
      /\ step' = (IF use = "dists" THEN "ready" ELSE "matched")
      /\ tst' = ref /\ ref' = ref /\ use' = use /\ uploaded' = uploaded
  BY DEF Match
<1>2. Typed' /\ Ordered' /\ Matched'
  BY <1>1 DEF PairInv, Typed, Step, Use, Ordered, Matched
<1>3. ref \in Pixels /\ WithinLimits(ref)
  BY <1>1 DEF PairInv, Typed, Limited
<1>4. Limited'
  BY <1>1, <1>3 DEF Limited, WithinLimits
<1>5. Fitted'
  BY <1>1 DEF PairInv, Fitted
<1>6. Untouched' /\ Shaped'
  BY <1>1 DEF PairInv, Untouched, Shaped, InShape
<1>7. step' = "ready" => use' = "dists"
  BY <1>1
<1>8. Comparable' /\ HeatmapBounded' /\ HeatmapKeepsShape'
  BY <1>1, <1>2, <1>7 DEF Comparable, HeatmapBounded, HeatmapKeepsShape
<1>9. WorkBounded'
  BY <1>1, <1>3, PaddedWork DEF WorkBounded
<1> QED BY <1>2, <1>4, <1>5, <1>6, <1>8, <1>9 DEF PairInv, Promised

\* Padding keeps the pair equal and fulfils what is promised of a ready pair.
LEMMA PadPair == PairInv /\ Pad => PairInv'
<1> SUFFICES ASSUME PairInv, Pad PROVE PairInv'
  OBVIOUS
<1>1. /\ step = "matched" /\ use # "dists" /\ ref = tst /\ ref \in Pixels
      /\ step' = "ready" /\ ref' = Padded(ref) /\ tst' = Padded(tst)
      /\ use' = use /\ uploaded' = uploaded
  BY DEF Pad, PairInv, Typed, Ordered, Matched
<1>2. /\ ref' \in Pixels /\ tst' = ref'
      /\ ref'[1] >= MinSide /\ ref'[2] >= MinSide
      /\ Longest(ref) <= HeatmapSide => Longest(ref') <= HeatmapSide
  BY <1>1, PaddedSizes
<1>3. Typed' /\ Ordered' /\ Limited' /\ Fitted' /\ Matched' /\ Untouched' /\ Shaped'
  BY <1>1, <1>2 DEF PairInv, Typed, Step, Ordered, Limited, Fitted, Matched, Untouched, Shaped
<1>4. Comparable'
  BY <1>1, <1>2 DEF Comparable
<1>5. HeatmapBounded'
  BY <1>1, <1>2 DEF HeatmapBounded, PairInv, Fitted
<1>6. HeatmapKeepsShape'
  <2>1. ref'[1] > MinSide /\ ref'[2] > MinSide
        => /\ ref[1] > MinSide /\ ref[2] > MinSide
           /\ ref'[1] = ref[1] /\ ref'[2] = ref[2]
    BY <1>1, SizeAssumption DEF Padded, Larger, Pixels, Positive
  <2>2. use = "heatmap" /\ ref'[1] > MinSide /\ ref'[2] > MinSide
        => InShape(ref', uploaded'[1])
    BY <1>1, <2>1 DEF PairInv, Shaped, InShape
  <2> QED BY <1>1, <2>2 DEF HeatmapKeepsShape, InShape
<1>7. WorkBounded'
  <2>1. WithinLimits(ref)
    BY <1>1 DEF PairInv, Limited
  <2> QED BY <1>1, <2>1, PaddedWork DEF WorkBounded
<1> QED BY <1>3, <1>4, <1>5, <1>6, <1>7 DEF PairInv, Promised

\* At every stage of create_compare_job and process_compare_job the pair has the
\* sizes that the stages before it leave, for all uploads and all limits.
THEOREM PairInvariant == Spec => []PairInv
<1>1. Init => PairInv
  BY InitPair
<1>2. PairInv /\ [Next]_vars => PairInv'
  BY StutterPair, ValidatePair, ResizePair, MatchPair, PadPair DEF Next
<1> QED BY <1>1, <1>2, PTL DEF Spec

\* Type correctness: no image ever loses its last pixel.
THEOREM TypeCorrect == Spec => []TypeOK
<1>1. PairInv => TypeOK
  BY DEF PairInv, Typed, TypeOK, Pixels, Positive
<1> QED BY <1>1, PairInvariant, PTL

\* Every accepted pair reaches its network as two images of one size, whatever
\* two shapes were uploaded; pad_pair_to_min_side never raises.
THEOREM AlwaysComparable == Spec => []Comparable
<1>1. PairInv => Comparable
  BY DEF PairInv, Promised
<1> QED BY <1>1, PairInvariant, PTL

\* A heatmap stays within max_side through rounding and padding.
THEOREM HeatmapsBounded == Spec => []HeatmapBounded
<1>1. PairInv => HeatmapBounded
  BY DEF PairInv, Promised
<1> QED BY <1>1, PairInvariant, PTL

\* The limits on what is uploaded bound what a network is given.
THEOREM WorkStaysBounded == Spec => []WorkBounded
<1>1. PairInv => WorkBounded
  BY DEF PairInv, Promised
<1> QED BY <1>1, PairInvariant, PTL

\* A heatmap has the shape of the reference, whatever the test image: rounding each
\* side of compute_lpips_heatmap's reference by itself costs half a pixel of each at
\* most, and neither matching nor padding costs more.
THEOREM HeatmapsKeepShape == Spec => []HeatmapKeepsShape
<1>1. PairInv => HeatmapKeepsShape
  BY DEF PairInv, Promised
<1> QED BY <1>1, PairInvariant, PTL
=============================================================================

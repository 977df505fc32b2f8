------------------------------ MODULE ImagePair ------------------------------
(***************************************************************************)
(* The sizes of a pair of images on its way from the upload to a network:  *)
(* the limits of _validate_image_bytes (app/api/routes/compare.py), then   *)
(* what app/core/image_io.py does to the pair for each of the three uses   *)
(* that the metrics make of it.  Pixels are left out; a size is            *)
(* <<width, height>>.                                                      *)
(***************************************************************************)
EXTENDS Integers

CONSTANTS
    Side,         \* the widths and heights that are uploaded
    MaxImageSide, \* COMPARE_MAX_IMAGE_SIDE
    MaxPixels,    \* COMPARE_MAX_IMAGE_PIXELS
    HeatmapSide,  \* LpipsHeatmapConfig.max_side
    MinSide       \* LpipsMetric._LPIPS_MIN_SIDE

\* The schema keeps max_side at 128 and above; the minimum for LPIPS is 64.
ASSUME SizeAssumption ==
    /\ Side \subseteq Nat \ {0}
    /\ MaxImageSide \in Int /\ MaxPixels \in Int
    /\ MinSide \in Nat \ {0} /\ HeatmapSide \in Nat /\ MinSide <= HeatmapSide

VARIABLES
    use,      \* LPIPS distance, LPIPS heatmap or DISTS distance
    step,     \* what has been done to the pair
    ref, tst, \* the sizes of the reference and of the test image
    uploaded  \* history: the two sizes that were uploaded

vars == <<use, step, ref, tst, uploaded>>

Use  == {"lpips", "heatmap", "dists"}
Step == {"uploaded", "rejected", "stored", "resized", "matched", "ready", "raised"}
Size == Side \X Side

Larger(a, b)  == IF a > b THEN a ELSE b
Longest(size) == Larger(size[1], size[2])

Init ==
    /\ use \in Use
    /\ ref \in Size /\ tst \in Size
    /\ uploaded = <<ref, tst>>
    /\ step = "uploaded"

-----------------------------------------------------------------------------
\* Deviation: only an image that is too wide and too high is too large.
BothTooLong(size) ==
    /\ MaxImageSide > 0 => size[1] <= MaxImageSide \/ size[2] <= MaxImageSide
    /\ MaxPixels > 0 => size[1] * size[2] <= MaxPixels

\* A limit that is not positive is switched off.
WithinLimits(size) ==
    /\ MaxImageSide > 0 => Longest(size) <= MaxImageSide
    /\ MaxPixels > 0 => size[1] * size[2] <= MaxPixels

Validate ==
    /\ step = "uploaded"
    /\ step' = IF WithinLimits(ref) /\ WithinLimits(tst) THEN "stored" ELSE "rejected"
    /\ UNCHANGED <<use, ref, tst, uploaded>>

-----------------------------------------------------------------------------
\* round(n * m / d): the nearest integer.  Where two are equally near, Python
\* takes the even one, but the factor m / d is a rounded float: either is
\* possible.
Rounded(n, m, d, up) == (2 * n * m + d - (IF up THEN 0 ELSE 1)) \div (2 * d)

\* Deviation: a side may vanish.
ScaledToNothing(n, longest, up) == Rounded(n, HeatmapSide, longest, up)

Scaled(n, longest, up) == Larger(1, Rounded(n, HeatmapSide, longest, up))

\* Deviation: the factor is taken from the test image alone.
ResizeByTest ==
    LET Fit(size) == <<Scaled(size[1], Longest(tst), TRUE), Scaled(size[2], Longest(tst), TRUE)>> IN
    /\ step = "stored" /\ use = "heatmap"
    /\ IF Longest(tst) <= HeatmapSide THEN UNCHANGED <<ref, tst>>
                                      ELSE ref' = Fit(ref) /\ tst' = Fit(tst)
    /\ step' = "resized"
    /\ UNCHANGED <<use, uploaded>>

\* Deviation: each side is cut to max_side by itself.
ResizeEachSide ==
    LET Cut(n) == IF n > HeatmapSide THEN HeatmapSide ELSE n IN
    /\ step = "stored" /\ use = "heatmap"
    /\ ref' = <<Cut(ref[1]), Cut(ref[2])>> /\ tst' = <<Cut(tst[1]), Cut(tst[2])>>
    /\ step' = "resized"
    /\ UNCHANGED <<use, uploaded>>

\* resize_pair_to_max_side: one factor for the two, from the longest side.
Resize ==
    LET longest == Larger(Longest(ref), Longest(tst)) IN
    /\ step = "stored" /\ use = "heatmap"
    /\ \E up \in [{ref[1], ref[2], tst[1], tst[2]} -> BOOLEAN] :
         LET Fit(size) ==
               IF longest <= HeatmapSide THEN size
               ELSE <<Scaled(size[1], longest, up[size[1]]), Scaled(size[2], longest, up[size[2]])>> IN
         ref' = Fit(ref) /\ tst' = Fit(tst)
    /\ step' = "resized"
    /\ UNCHANGED <<use, uploaded>>

\* Deviation: a smaller test image is left as it is.
MatchDown ==
    /\ step = IF use = "heatmap" THEN "resized" ELSE "stored"
    /\ tst' = IF Longest(tst) > Longest(ref) THEN ref ELSE tst
    /\ step' = IF use = "dists" THEN "ready" ELSE "matched"
    /\ UNCHANGED <<use, ref, uploaded>>

\* match_size: the test image takes the size of the reference.  DISTS wants no
\* more than that.
Match ==
    /\ step = IF use = "heatmap" THEN "resized" ELSE "stored"
    /\ tst' = ref
    /\ step' = IF use = "dists" THEN "ready" ELSE "matched"
    /\ UNCHANGED <<use, ref, uploaded>>

\* A border on both sides that adds up to what is missing.
Padded(size) == <<Larger(size[1], MinSide), Larger(size[2], MinSide)>>

\* pad_pair_to_min_side raises ValueError unless the sizes are equal.
Pad ==
    /\ step = "matched"
    /\ IF ref = tst THEN ref' = Padded(ref) /\ tst' = Padded(tst) /\ step' = "ready"
                    ELSE step' = "raised" /\ UNCHANGED <<ref, tst>>
    /\ UNCHANGED <<use, uploaded>>

Next == Validate \/ Resize \/ Match \/ Pad

Spec == Init /\ [][Next]_vars

-----------------------------------------------------------------------------
\* No step leaves an image without pixels, however thin it was.
TypeOK ==
    /\ use \in Use /\ step \in Step
    /\ ref \in (Nat \ {0}) \X (Nat \ {0}) /\ tst \in (Nat \ {0}) \X (Nat \ {0})
    /\ uploaded \in Size \X Size

\* Every accepted pair, whatever its two shapes, reaches its network as two
\* images of one size, at least MinSide on each side for LPIPS; the ValueError
\* of the padding is never raised.
Comparable ==
    /\ step # "raised"
    /\ step = "ready" => ref = tst
    /\ step = "ready" /\ use # "dists" => ref[1] >= MinSide /\ ref[2] >= MinSide

\* A heatmap is never larger than max_side, although it is padded after it was
\* resized.
HeatmapBounded == step = "ready" /\ use = "heatmap" => Longest(ref) <= HeatmapSide

\* The limits on what is uploaded also bound what a network is given, although
\* both images are changed in between: no side exceeds the limit on sides, and
\* padding takes a thin image past the limit on pixels only up to MinSide rows of
\* a full side.
WorkBounded ==
    step = "ready" /\ MaxImageSide > 0 /\ MaxPixels > 0 =>
        LET side == Larger(MinSide, MaxImageSide) IN
        Longest(ref) <= side /\ ref[1] * ref[2] <= Larger(MaxPixels, MinSide * side)

\* The heatmap can be laid over the reference, whose shape it has whatever the
\* shape of the test image: its two sides are rounded apart, but neither is more
\* than half a pixel from the uploaded one scaled by the one factor.  Only a side
\* of MinSide or less, which rounding or padding may have lifted, is excepted.
HeatmapKeepsShape ==
    LET original == uploaded[1]
        skew == ref[1] * original[2] - ref[2] * original[1] IN
    step = "ready" /\ use = "heatmap" /\ ref[1] > MinSide /\ ref[2] > MinSide =>
        2 * skew \in -(original[1] + original[2])..(original[1] + original[2])
=============================================================================

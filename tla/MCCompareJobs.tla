---------------------------- MODULE MCCompareJobs ----------------------------
(***************************************************************************)
(* Instances of CompareJobs for TLC.  The requests are chosen so that a    *)
(* job id is contested, with different metrics on the two sides, and so    *)
(* that the three metrics all occur.                                       *)
(***************************************************************************)
EXTENDS CompareJobs, TLC

\* Two submissions of one job id.
ContestedJobOf    == [r1 |-> "j1", r2 |-> "j1"]
ContestedMetricOf == [r1 |-> "both", r2 |-> "dists"]

\* The same, beside an independent job.
MixedJobOf    == [r1 |-> "j1", r2 |-> "j1", r3 |-> "j2"]
MixedMetricOf == [r1 |-> "both", r2 |-> "dists", r3 |-> "lpips"]

\* Two submissions of one job id, of which only one asks for a heatmap.
EitherMetricOf == [r1 |-> "lpips", r2 |-> "dists"]

\* A worker on each queue.
BothQueues == [cpu1 |-> "cpu", gpu1 |-> "gpu"]

\* One worker on the CPU queue; the others compete for the GPU queue and are
\* interchangeable.
CpuWorker   == CHOOSE w \in Worker : TRUE
ManyGpu     == [w \in Worker |-> IF w = CpuWorker THEN "cpu" ELSE "gpu"]
GpuSymmetry == Permutations(Worker \ {CpuWorker})
=============================================================================

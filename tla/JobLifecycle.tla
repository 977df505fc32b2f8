---------------------------- MODULE JobLifecycle -----------------------------
(***************************************************************************)
(* What the service promises about one job, as its clients see it: the     *)
(* statuses that GET /v1/compare/jobs/{id} may show, in which order, what  *)
(* has been published by then, and which of the job's URLs are offered and *)
(* served.  It knows nothing of queues, workers or Redis commands.         *)
(* CompareJobs implements it as long as nothing dies and nothing is        *)
(* delivered twice.                                                        *)
(***************************************************************************)
CONSTANTS Job, Metric, None

VARIABLE job   \* job[j]: what is published about j, or None

Status == {"queued", "running", "done", "error"}
Result == {"lpips", "heatmap", "dists"}
Link   == {"heatmap", "error"}

\* What is published about a job: its URLs are offered, and they are served.
Published == [metric : Metric, status : Status, results : SUBSET Result,
              offered : SUBSET Link, served : SUBSET Link]

\* The results of a metric: the LPIPS distance comes with its heatmap.
Wanted(metric) ==
    {x \in Result : IF x = "dists" THEN metric # "lpips" ELSE metric # "dists"}

\* The URLs a job has at a status: its heatmap or its error, once it is settled.
Links(metric, status) ==
    {x \in Link :
        IF x = "error" THEN status = "error"
                       ELSE status = "done" /\ "heatmap" \in Wanted(metric)}

Init == job = [j \in Job |-> None]

Submit(j, metric) ==
    /\ job[j] = None
    /\ job' = [job EXCEPT ![j] =
                 [metric |-> metric, status |-> "queued", results |-> {},
                  offered |-> {}, served |-> {}]]

\* A URL is offered in the step in which it starts to be served.
Becomes(j, from, to) ==
    /\ job[j] # None /\ job[j].status = from
    /\ job' = [job EXCEPT ![j].status = to,
                          ![j].offered = Links(job[j].metric, to),
                          ![j].served = Links(job[j].metric, to)]

Start(j)    == Becomes(j, "queued", "running")
Reject(j)   == Becomes(j, "queued", "error")
Fail(j)     == Becomes(j, "running", "error")
FallBack(j) == Becomes(j, "running", "queued")

\* "done" is shown only when everything that was asked for is there.
Finish(j) ==
    /\ Becomes(j, "running", "done")
    /\ job[j].results = Wanted(job[j].metric)

Publish(j, x) ==
    /\ job[j] # None /\ job[j].status = "running"
    /\ x \in Wanted(job[j].metric) \ job[j].results
    /\ job' = [job EXCEPT ![j].results = @ \cup {x}]

Next ==
    \E j \in Job :
        \/ \E metric \in Metric : Submit(j, metric)
        \/ Start(j) \/ Reject(j) \/ Fail(j) \/ FallBack(j) \/ Finish(j)
        \/ \E x \in Result : Publish(j, x)

Settled(j) == job[j] # None /\ job[j].status \in {"done", "error"}

\* Every submitted job is settled in the end.
Progress == \A j \in Job : job[j] # None ~> Settled(j)

Safety == Init /\ [][Next]_job
Spec   == Safety /\ Progress
=============================================================================

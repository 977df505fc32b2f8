CONSTANTS
    Request = {"r1", "r2", "r3"}
    Worker = {"cpu1", "gpu1"}
    Reader = {}
    Job = {"j1", "j2"}
    Metric = {"lpips", "dists", "both"}
    None = None
    JobOf <- MixedJobOf
    MetricOf <- MixedMetricOf
    Consumes <- BothQueues
    Mode = "auto"
    GpuQueueEnabled = TRUE
    JobsExpire = FALSE
    HeatmapsExpire = FALSE
    Faults = {"compute", "gpu", "publish_lost"}
    MaxFaults = 3
SPECIFICATION FairSpec
INVARIANTS TypeOK OneCarrier DoneComplete LeavesNoTrace
PROPERTIES SettledIsFinal KeepsPromise
CHECK_DEADLOCK FALSE

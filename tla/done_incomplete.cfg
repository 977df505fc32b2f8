CONSTANTS
    Request = {"r1", "r2"}
    Worker = {"cpu1", "gpu1"}
    Reader = {}
    Job = {"j1"}
    Metric = {"lpips", "dists", "both"}
    None = None
    JobOf <- ContestedJobOf
    MetricOf <- ContestedMetricOf
    Consumes <- BothQueues
    Mode = "auto"
    GpuQueueEnabled = TRUE
    JobsExpire = FALSE
    HeatmapsExpire = FALSE
    Faults = {"publish_unsure"}
    MaxFaults = 1
SPECIFICATION Spec
INVARIANTS DoneComplete
CHECK_DEADLOCK FALSE

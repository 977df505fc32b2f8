CONSTANTS
    Request = {"r1", "r2"}
    Worker = {"cpu1", "gpu1"}
    Reader = {}
    Job = {"j1"}
    Metric = {"lpips", "dists", "both"}
    None = None
    JobOf <- ContestedJobOf
    MetricOf <- ContestedMetricOf
    Consumes <- BothQueues
    Mode = "auto"
    GpuQueueEnabled = TRUE
    JobsExpire = FALSE
    HeatmapsExpire = FALSE
    Faults = {"temp"}
    MaxFaults = 1
SPECIFICATION Spec
INVARIANTS NoOrphan
CHECK_DEADLOCK FALSE

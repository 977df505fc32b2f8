CONSTANTS
    Request = {"r1", "r2"}
    Worker = {"cpu1", "gpu1"}
    Reader = {"d1"}
    Job = {"j1"}
    Metric = {"lpips", "dists", "both"}
    None = None
    JobOf <- ContestedJobOf
    MetricOf <- ContestedMetricOf
    Consumes <- BothQueues
    Mode = "auto"
    GpuQueueEnabled = TRUE
    JobsExpire = TRUE
    HeatmapsExpire = TRUE
    Faults = {}
    MaxFaults = 0
SPECIFICATION Spec
INVARIANTS HeatmapBelongs
CHECK_DEADLOCK FALSE

CONSTANTS
    Request = {"r1", "r2"}
    Worker = {"cpu1", "gpu1"}
    Reader = {}
    Job = {"j1"}
    Metric = {"lpips", "dists", "both"}
    None = None
    JobOf <- ContestedJobOf
    MetricOf <- ContestedMetricOf
    Consumes <- BothQueues
    Mode = "auto"
    GpuQueueEnabled = TRUE
    JobsExpire = FALSE
    HeatmapsExpire = FALSE
    Faults = {"compute", "gpu", "crash"}
    MaxFaults = 3
SPECIFICATION FairSpec
INVARIANTS NoOrphan InflightExact
PROPERTIES Settles
CHECK_DEADLOCK FALSE

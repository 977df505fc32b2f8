CONSTANTS
    Request = {"r1", "r2"}
    Worker = {"cpu1", "gpu1"}
    Reader = {}
    Job = {"j1"}
    Metric = {"lpips", "dists", "both"}
    None = None
    JobOf <- ContestedJobOf
    MetricOf <- ContestedMetricOf
    Consumes <- BothQueues
    Mode = "auto"
    GpuQueueEnabled = TRUE
    JobsExpire = TRUE
    HeatmapsExpire = TRUE
    Faults = {"gpu", "compute", "reconnect", "publish_lost", "publish_unsure"}
    MaxFaults = 1
SPECIFICATION FairSpec
INVARIANTS NoOrphan
PROPERTIES Settles
CHECK_DEADLOCK FALSE

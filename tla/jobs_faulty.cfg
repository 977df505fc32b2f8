CONSTANTS
    Request = {"r1", "r2"}
    Worker = {w1, w2, w3}
    Reader = {"d1"}
    Job = {"j1"}
    Metric = {"lpips", "dists", "both"}
    None = None
    JobOf <- ContestedJobOf
    MetricOf <- EitherMetricOf
    Consumes <- ManyGpu
    Mode = "auto"
    GpuQueueEnabled = TRUE
    JobsExpire = FALSE
    HeatmapsExpire = FALSE
    Faults = {"compute", "gpu", "temp", "soft_limit", "redis", "publish_lost", "publish_unsure", "republish_lost", "finally", "api_crash", "kill", "crash", "reconnect"}
    MaxFaults = 2
SPECIFICATION Spec
INVARIANTS HeatmapBelongs HeatmapDelivered InflightCovers
SYMMETRY GpuSymmetry
CHECK_DEADLOCK FALSE

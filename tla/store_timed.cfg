CONSTANTS
    Job = {"j1"}
    Client = {"c1", "c2"}
    Metric = {"lpips"}
    None = None
    JobsExpire = TRUE
    HeatmapsExpire = TRUE
    CallsMayFail = TRUE
    JobTtl = 2
    HeatmapTtl = 1
    Second = 3
    Updates <- FewUpdates
SPECIFICATION TimedSpec
INVARIANTS EveryKeyExpires
CHECK_DEADLOCK FALSE

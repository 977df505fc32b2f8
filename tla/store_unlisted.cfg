CONSTANTS
    Job = {"j1"}
    Client = {"c1", "c2"}
    Metric = {"lpips", "dists"}
    None = None
    JobsExpire = TRUE
    HeatmapsExpire = FALSE
    CallsMayFail = FALSE
    JobTtl = 1
    HeatmapTtl = 0
    Second = 3
    Updates <- AllUpdates
SPECIFICATION TimedSpec
INVARIANTS IndexCovers
CHECK_DEADLOCK FALSE

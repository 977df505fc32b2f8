CONSTANTS
    Job = {"j1"}
    Client = {"c1", "c2"}
    Metric = {"lpips", "dists"}
    None = None
    JobsExpire = FALSE
    HeatmapsExpire = FALSE
    CallsMayFail = FALSE
    JobTtl = 0
    HeatmapTtl = 0
    Second = 3
    Updates <- AllUpdates
SPECIFICATION TimedSpec
INVARIANTS TypeOK IndexCovers HeatmapBacked
PROPERTIES IdentityStable
CHECK_DEADLOCK FALSE

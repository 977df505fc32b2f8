CONSTANTS
    Key <- MCKey
    Limit <- MCLimit
    Window <- MCWindow
    MaxTime = 5
    MaxCalls = 3
    Slot = {s1, s2}
    Client = {"c1"}
    Nonce = {"n1", "n2"}
    None = None
    Upload <- MCUpload
    Query <- MCQuery
    RateLimiting = TRUE
    MaxTotal = 3
    MaxFile = 2
    Signing = TRUE
    Skew = 3
    RequireNonce = TRUE
    NonceTtl = 2
SPECIFICATION AdmissionSpec
INVARIANTS TypeOK NeverTooMany BucketBounded NonceSingleUse RefusedSpendsNothing CacheWithinTtl
PROPERTIES ImplementsWindow
SYMMETRY SlotSymmetry
CHECK_DEADLOCK FALSE

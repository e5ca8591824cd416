SPECIFICATION Spec
CONSTANTS
    Leaf = {l1, l2}
    Log = {g1, g2}
    ForeignLog = ForeignLog
    MaxResponses = 2
    MaxScts = 3
    Pin = {l1}
    MinLogs = 2
    Setting = {"ech", "alpn"}
    Intermediate = {c1, c2}
    Capacity = 1
INVARIANTS
    OnlyVouchedServers
    RevokedIsRefused
    HardRequireNeedsGood
    StrictNeedsDistinctLogs
    GoodEvidencePasses
PROPERTY
    CacheIsFedByVerifiedChains
CHECK_DEADLOCK FALSE

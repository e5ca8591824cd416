SPECIFICATION BuilderSpec
CONSTANTS
    Leaf = {l1, l2}
    Log = {g1, g2}
    ForeignLog = ForeignLog
    MaxResponses = 1
    MaxScts = 1
    Pin = {l1}
    MinLogs = 1
    Setting = {"ech", "alpn"}
INVARIANT Tls13OnlyByDefault
CHECK_DEADLOCK FALSE

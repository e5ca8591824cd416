SPECIFICATION MCSpec
CONSTANTS
    a = a
    b = b
    c = c
    d = d
    s1 = s1
    s2 = s2
    s3 = s3
    Thread <- MCThread
    Session <- MCSession
    NoSession = NoSession
    Capacity = 3
    KeyLabel = {l1, l2}
    TokenKey <- MCTokenKey
    Character = {"a", "*", "."}
    HostPattern <- MCHostPattern
    HostName <- MCHostName
    Offer <- MCOffer
    RawSignature <- MCRawSignature
    NoKey = NoKey
CHECK_DEADLOCK FALSE
INVARIANTS
    SessionsAreExclusive
    PermitsAreBacked
    IdlePoolIsComplete
    TenantsAreSeparated
    SignaturesArriveIntact
PROPERTY
    ExhaustionPasses

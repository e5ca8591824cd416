SPECIFICATION TokenSpec
CONSTANTS
    KeyLabel = {l1}
    TokenKey <- MCOneKey
    Character = {"a", "*", "."}
    HostPattern = {}
    HostName = {}
    Offer <- MCFullOffer
    RawSignature <- MCPlainSignature
    NoKey = NoKey
INVARIANT SupportedKeysServe
CHECK_DEADLOCK FALSE

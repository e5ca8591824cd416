SPECIFICATION TokenSpec
CONSTANTS
    KeyLabel = {l1}
    TokenKey <- MCOneKey
    Character = {"a", "*", "."}
    HostPattern <- MCEmptyPattern
    HostName <- MCOneHost
    Offer <- MCFullOffer
    RawSignature <- MCPlainSignature
    NoKey = NoKey
INVARIANT EmptyEntryIsDefault
CHECK_DEADLOCK FALSE

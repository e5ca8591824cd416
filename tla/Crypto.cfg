SPECIFICATION MCSpec
CONSTANTS
    Session = {s1, s2}
    Opener = {o1}
    Aad = {a1, a2}
    MaxConfigs = 2
    MaxNameLen = 1
    NameLen = {1, 2}
    MaxSeq = 2
    SigningAlgorithm = {"Ed25519", "EcdsaP256", "EcdsaP384", "Rsa2048"}
    CaAlgorithm = {"Ed25519"}
    CommonName = {"ca"}
    San = {"host"}
    Builders <- MCBuilders
    MaxPathLen = 1
    MaxCerts = 4
    MaxLeaves = 1
    MaxCsrs = 1
    HandshakeCerts = 3
    Offered <- MCOffered
    ExplicitLen = 2
    TagLen = 2
    Message <- MCMessage
    MaxRecords = 3
    Bits = {0, 1, 4, 7}
    PnBytes <- MCPnBytes
    PnMask <- MCPnMask
    SampleLen = 16
    PayloadLen = 17
    PacketTag = 16
SYMMETRY Symmetry
CHECK_DEADLOCK FALSE
INVARIANTS
    NoncesAreUnique
    OpenedInOrder
    ReleasedIsOpenable
    IssuedChainsVerify
    ConnectedServersHoldTheKey
    GoodServersConnect
    SecretsAgree
    RecordsArriveAsSent
    HeadersSurviveProtection

SPECIFICATION QuicSpec
CONSTANTS
    Bits = {0, 1, 4, 7}
    PnBytes <- MCPnBytes
    PnMask <- MCPnMask
    SampleLen = 16
    PayloadLen = 17
    PacketTag = 16
CHECK_DEADLOCK FALSE
INVARIANT OpenedPacketsAreReturned

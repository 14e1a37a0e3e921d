CONSTANTS
    Script <- Stream
    Redelivered <- EveryPacket
    SN_MODULUS = 4
    MAX_RLC_SEGMENTS_NUM = 2
    NumBlocks = 10
    MacKnown <- Always
    JoinMayFail = FALSE
SPECIFICATION AmSpec
INVARIANTS GenuineSdus

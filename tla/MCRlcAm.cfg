CONSTANTS
    Script <- Stream
    Redelivered <- RepeatedSafely
    SN_MODULUS = 4
    MAX_RLC_SEGMENTS_NUM = 2
    NumBlocks = 10
    MacKnown <- Always
    JoinMayFail = FALSE
SPECIFICATION AmSpec
INVARIANTS MemoryAccounted GenuineSdus ReportsMatchSegments

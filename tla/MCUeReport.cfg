CONSTANTS
    r1 = r1
    r2 = r2
    imsi1 = imsi1
    imsi2 = imsi2
    mTmsi1 = mTmsi1
    Rntis <- TwoRntis
    Imsis <- TwoImsis
    MTmsis <- OneMTmsi
    NoId = NoId
    MAX_NUM_UE_INFO_REPORT = 2
    gMaxRrcCtxIdleCount = 1
    gMaxIdleCount = 2
    MaxMessages = 4
    AllocMayFail = TRUE
SPECIFICATION Spec
INVARIANTS NoIdentityIsDropped OneContextPerRnti
PROPERTIES EveryIdentityIsReported ContextsAreReleased

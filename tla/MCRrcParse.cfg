CONSTANTS
    r1 = r1
    r2 = r2
    imsi1 = imsi1
    imsi2 = imsi2
    mTmsi1 = mTmsi1
    mTmsi2 = mTmsi2
    Rntis <- TwoRntis
    Imsis <- TwoImsis
    MTmsis <- TwoMTmsis
    NoId = NoId
    AllocMayFail = TRUE
    MaxRrcMessages = 3
    CcchContextMayFail = FALSE
SPECIFICATION ParseSpec
INVARIANTS BuffersLiveAsLongAsUsed IdentitiesOfTheUe

CONSTANTS
    Pdus <- AllPdus
    MAX_NUM_CHANNELS = 2
    MaxCcchLength = 2
    AllocMayFail = TRUE
    MaxSubheaders = 3
    MaxLength = 12
SPECIFICATION Spec
INVARIANTS SdusAsSent CopiesStayInside CopiesAreDisjoint BlocksComeBack

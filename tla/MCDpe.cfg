SPECIFICATION DpeSpec
CONSTANTS
    Interval = 10
    Margin = 4
    ReportPeriod = 2
    Imsis = {"i1", "i2"}
    AnyImsi = "any"
    MaxDay = 2
    MaxLogins = 3
    MaxRequests = 2
    Builds = {"TARGET_LOCATION", "TARGET_ANALYSIS"}
    Infos <- MCInfos
    Identities <- MCIdentities
    MaxReport = 2
    MaxInfos = 4
    MaxInbox = 1
INVARIANTS
    DpeTypeOK
    OamHearsOfLoss
    MissesAreReal
    NominalTimesStayTrue
    BehaviorsAreOfTheirQuery
PROPERTIES
    LostOnlyWhenSilent
    SilentTargetIsGivenUp
CHECK_DEADLOCK FALSE

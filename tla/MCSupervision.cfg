SPECIFICATION SupervisionSpec
CONSTANTS
    Events = {"ulp", "kpi"}
    KpiEvent = "kpi"
    UlpEvent = "ulp"
    TickOrder <- MCTickOrder
    KpiPeriod = 2
    Nobody = "nobody"
    MaxProcesses = 3
    MaxContinueFail = 2
    MaxForkFailures = 2
    MaxExecFailures = 1
    MaxCrashes = 1
    MaxHeartbeatReqSend = 2
    MaxQueue = 2
INVARIANTS
    NoSleeperIsForgotten
    OneInstance
PROPERTIES
    EveryThreadRunsAgain
    HeartbeatTestEnds
    DeadUlpIsNoticed
CHECK_DEADLOCK FALSE

CONSTANTS
    c1 = c1
    c2 = c2
    c3 = c3
    ue1 = ue1
    ue2 = ue2
    Contexts <- ContextsOfThree
    Rntis <- TwoUes
    NoContext = NoContext
    gMaxIdleCount = 2
    MaxPackets = 4
    MaxPasses = 3
SPECIFICATION Spec
INVARIANTS ListHoldsLiveContexts CleanerStandsOnLiveContexts
PROPERTIES SilentUesAreForgotten

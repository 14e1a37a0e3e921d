CONSTANTS
    t1 = t1
    t2 = t2
    i1 = i1
    i2 = i2
    i3 = i3
    Writers <- TwoWriters
    NoItem = NoItem
    Items <- ThreeItems
    MAX_NUM_LOG_BUFFER_BLOCK = 2
    Configs <- BothTypes
    Lines <- SomeLines
    MSG_RESERVE = 3
    MEM_RESERVE = 1
    LOG_BUFF = 9
    MaxLines = 5
SPECIFICATION Spec
INVARIANTS EachLineOnceInOrder ReaderStandsAtTheOldest ItemsAreConserved
PROPERTIES ImplementsOrderedLog EveryLineIsWritten FullBuffersAreWritten

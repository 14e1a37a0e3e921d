SPECIFICATION Spec
CONSTANTS
    b1 = b1
    b2 = b2
    b3 = b3
    NoBlock = NoBlock
    Threads = {worker, cleaner}
    Blocks <- MCBlocks
    NumPools = 2
    PoolOf <- MCPoolOf
    PoolSize <- MCPoolSize
    PoolBuffer <- MCPoolBuffer
    Lengths <- MCLengths
INVARIANTS
    BlockConservation
    NoDoubleFree
    
    KpiMemInRange

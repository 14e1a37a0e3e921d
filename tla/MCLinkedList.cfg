SPECIFICATION Spec
CONSTANTS
    Nodes = {n1, n2, n3, n4}
    Threads = {t1, t2}
    Null = Null
INVARIANTS
    WellLinked
PROPERTIES
    ImplementsSeqList

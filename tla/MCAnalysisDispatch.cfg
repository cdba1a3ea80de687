SPECIFICATION FairSpec
CONSTANTS
    a = a
    b = b
    c = c
    d = d
    e = e
    Nodes <- MCNodes
    Succs <- MCSuccs
    Roots <- MCRoots
    WorkerCap = 3
    AggressiveRelease = TRUE
CHECK_DEADLOCK FALSE
INVARIANTS
    TypeOK
    ConsumersSeeSummaries
    DispatchComplete
PROPERTIES
    ImplementsLifetime
    AnalyzeReturns

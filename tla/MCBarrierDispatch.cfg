SPECIFICATION FairSpec
CONSTANTS
    a = a
    b = b
    c = c
    d = d
    Nodes <- MCNodes
    Succs <- DiamondSuccs
    Roots <- MCRoots
    WorkerCap = 2
    AggressiveRelease = TRUE
    HitSets <- MixedHits
    MayFail = TRUE
    MayJoin = TRUE
CHECK_DEADLOCK FALSE
INVARIANTS
    TypeOK
    SoundSummaries
    TypecheckBeforeAnalyze
    BatchComplete
PROPERTIES
    AnalyzeReturns

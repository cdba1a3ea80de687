CONSTANTS
    Getters = {g1, g2}
    Keys = {t, p}
    Futures = {f1, f2, f3}
    NoFuture = NoFuture
    Persistent = {p}
    Releasable = {p}
SPECIFICATION FairSpec
INVARIANTS TypeOK ComputedOnce Delivered EntryWhileAwaited
PROPERTIES ValueStable GetReturns

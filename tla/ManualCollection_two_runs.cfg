CONSTANTS
    Run = {r1, r2}
    Dataset = {"core"}
    DependsOn <- ChainDepends
    Rank <- CanonicalRank
    Bound = {}
    NoRun = NoRun
    Executor = {e1, e2}
    MaxPending = 1
    Reader = {c1}
    Atomic = {"core"}
    Requests <- AllRequests
    MaxCrashes = 1
SPECIFICATION Spec
SYMMETRY Symmetry
INVARIANTS
    StatusTellsTheTruth
    NoDuplicateProviderWork
PROPERTY
    DecidedTasksStayDecided
CHECK_DEADLOCK FALSE

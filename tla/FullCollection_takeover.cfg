CONSTANTS
    Run = {r1}
    Dataset = {"ranking"}
    DependsOn <- ChainDepends
    Rank <- CanonicalRank
    Bound = {r1}
    NoRun = NoRun
    NoCaller = NoCaller
    Executor = {e1, e2}
    MaxPending = 0
    Reader = {c1, c2}
    Atomic = {}
    Contested = {"ranking"}
    MaxReplays = 1
    MaxCrashes = 1
SPECIFICATION Spec
SYMMETRY Symmetry
INVARIANTS
    OneExecutionPerKey
    TakeoverWaitsForTheTasks
PROPERTY
    RejectionLeavesNoReservation
CHECK_DEADLOCK FALSE

CONSTANTS
    Run = {r1}
    Dataset = {"ranking"}
    DependsOn <- ChainDepends
    Rank <- CanonicalRank
    Bound = {r1}
    NoRun = NoRun
    NoCaller = NoCaller
    Executor = {e1}
    MaxPending = 0
    Reader = {c1}
    Atomic = {}
    Contested = {}
    MaxReplays = 0
    MaxCrashes = 1
SPECIFICATION LiveSpec
PROPERTY
    ClaimedRunsSettle
CHECK_DEADLOCK FALSE

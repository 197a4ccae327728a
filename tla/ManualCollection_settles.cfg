CONSTANTS
    Run = {r1}
    Dataset = {"ranking", "turnover"}
    DependsOn <- ChainDepends
    Rank <- CanonicalRank
    Bound = {}
    NoRun = NoRun
    Executor = {e1}
    MaxPending = 0
    Reader = {c1}
    Atomic = {}
    Requests <- ChainRequests
    MaxCrashes = 1
SPECIFICATION LiveSpec
INVARIANTS
    CollectedOnPrerequisites
    SettledRunIsHonest
PROPERTIES
    TasksSettle
    AnsweredRunsSettle
CHECK_DEADLOCK FALSE

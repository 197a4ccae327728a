CONSTANTS
    Worker = {w1, w2}
    Owner = {task1}
    Durations = {1}
    NoToken = NoToken
    MaxTime = 1
    MaxGeneration = 2
    RunRow = {k1}
    Policy = {"reject", "overwrite"}
    Nothing = Nothing
    MaxAudits = 2
    MaxTarget = 1
SPECIFICATION RelabelSpec
CONSTRAINT Explored
SYMMETRY WorkerSymmetry
INVARIANTS
    
    MovedAnswersToAudits
PROPERTIES
    RollbackSparesLaterWork
    OnlyNewestGenerationAdmitted
    ImplementsOwnership
CHECK_DEADLOCK FALSE

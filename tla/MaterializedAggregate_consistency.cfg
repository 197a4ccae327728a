CONSTANTS
    Input = {core, limits}
    Core = core
    Limits = limits
    Rank <- ComposeOrder
    Value = {a, b}
    Missing = Missing
    Writer = {w1, w2}
    Reader = {q1}
    Attempts = 2
    MaxWrites = 3
    MaxAside = 1
    MaxActive = 2
SPECIFICATION Spec
SYMMETRY Symmetry
INVARIANTS
    StoredAggregateIsOneMoment
    QuietAggregateIsCurrent
    ServedIsOneMoment
    ConflictsAreEarned
CHECK_DEADLOCK FALSE

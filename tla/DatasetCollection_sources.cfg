SPECIFICATION DatasetSpec
CONSTANTS
    IndexOrder <- MCIndexOrder
    None = None
    Catalogs = {"a", "b"}
    Values = {1, 2}
    Thin = {2}
    Workers = {w1, w2}
    NoOne = NoOne
    Scopes <- MCScopes
    Bound <- MCBound
CHECK_DEADLOCK FALSE
INVARIANTS
    SettledIsFinal
    SnapshotsMatchFacts
PROPERTIES
    NothingIsOverwrittenUnseen
    CoreKeepsItsIndices
    LeasesComeFree

CONSTANTS
    Date <- MCDate
    Effective <- MCEffective
    Today = "fri"
    Resource <- MCResource
    SectionOf <- MCSectionOf
    Pinned <- MCPinned
    Paged <- MCPaged
    Group = "breadth"
    Call = {c1, c2}
    Nothing = Nothing
    MaxStarts = 3
    MaxChanges = 1
    MaxPublish = 1
SPECIFICATION MarketSpec
SYMMETRY Symmetry
INVARIANTS
    OneDateShown
    DateIsTheReaders
    
CHECK_DEADLOCK FALSE

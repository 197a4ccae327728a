CONSTANTS
    Operation <- MCOperation
    Kind <- MCKind
    Plan <- MCPlan
    Budget <- MCBudget
    Key <- MCKey
    CodeOf <- MCCodeOf
    Listed = {"s1"}
    Value = {"a", "b"}
    Absent = Absent
    Earlier <- MCEarlier
    MaxRequests = 2
    Together <- MCTogether
    MaxResumes = 1
    MaxCrashes = 1
SPECIFICATION Spec
INVARIANTS
    SuccessMeansStored
    BudgetIsKept
PROPERTIES
    OperationsSettle
CHECK_DEADLOCK FALSE

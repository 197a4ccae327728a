CONSTANTS
    Reader <- MCReader
    ProcessOf <- MCProcessOf
    Nobody = Nobody
    MaxReads = 3
    MaxLapses = 1
    MaxCrashes = 1
SPECIFICATION Spec
INVARIANTS
    OneFetchPerCohort
    ResultsAreTrue
PROPERTY
    RequestsReturn
CHECK_DEADLOCK FALSE

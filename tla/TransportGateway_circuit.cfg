CONSTANTS
    Caller = {c1, c2, c3}
    Request = {r1, r2}
    Cached = {r1}
    Threshold = 2
    MaxRetries = 1
    Nobody = Nobody
SPECIFICATION LiveSpec
INVARIANTS
    ProbeWillEnd
    OneFetchPerRequest
PROPERTIES
    OpenCircuitIsStrict
    CallsReturn
CHECK_DEADLOCK FALSE

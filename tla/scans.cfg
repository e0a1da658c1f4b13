SPECIFICATION ScansSpec
CONSTANTS
    Null = Null
    MarketCodes = {c1}
    Browsers = {s1}
    Requests = {q1, q2}
    RepeatAt = 3
    VelocityAt = 2
    MaxScans = 3
    MaxNonces = 3
    MaxCases = 2
CONSTRAINT Bound
INVARIANTS
    NoncesAreSpentOnce
PROPERTIES
    CopiesAreSuspected
    
SYMMETRY Symmetry
CHECK_DEADLOCK FALSE

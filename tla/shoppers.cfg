SPECIFICATION Spec
CONSTANTS
    Callers = {k1, k2}
    Tokens = {t1}
    RequestIds = {r1}
    MaxTries = 2
    MaxPerHour = 1
    MaxChallenges = 2
    MaxAccounts = 2
    MaxPassword = 2
CONSTRAINT Bound
INVARIANTS
    ACodeWinsOnce
    RequestsAreDoneOnce
 
SYMMETRY Symmetry
CHECK_DEADLOCK FALSE

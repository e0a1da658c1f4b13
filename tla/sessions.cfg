SPECIFICATION SignInSpec
CONSTANTS
    None = None
    SessionIds = {s1}
    Requests = {q1, q2}
    Stamps = {t1, t2}
    MaxRotation = 2
    MaxResets = 1
    Verifiers = {v1, v2}
    MaxTries = 2
    MaxCodes = 3
    MaxFactors = 2
    MaxGuesses = 3
INVARIANTS
    EachTokenIsSpentOnce
    LiveRowsHoldOneToken
    CodesWinOnceWithinTries
PROPERTY RevokedStaysRevoked
CONSTRAINT Bound
SYMMETRY Symmetry
CHECK_DEADLOCK FALSE

SPECIFICATION Spec
CONSTANTS
    None = None
    Docs = {d1}
    FileRequests = {f1, f2}
    Names = {n1, n2}
    TakenNames = {}
    Writers = {w1}
    ChangeIds = {r1, r2}
    SuperAdmins = {a1}
    Delegated = TRUE
    MaxDecisions = 2
CONSTRAINT Bound
INVARIANTS
    AccessFollowsDecisions
    EveryReviewIsMailed
    VerifiedDocumentsHaveFiles
PROPERTY NoEditIsUndone
SYMMETRY Symmetry
CHECK_DEADLOCK FALSE

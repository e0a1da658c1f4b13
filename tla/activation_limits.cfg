SPECIFICATION Spec
CONSTANTS
    v1 = v1
    v2 = v2
    s1 = s1
    b1 = b1
    b2 = b2
    None = None
    Requests = {r1, r2}
    Vendors = {v1, v2}
    Sources = {s1}
    Batches = {b1, b2}
    Owner <- MCOwner
    Rank <- MCRank
    Window = 2
    Cooldown = 2
    MaxAttempts = 2
    MaxTime = 4
INVARIANTS
    NeverMoreThanMaxAttempts
PROPERTIES
    EveryCounterIsARollingLimit
    CooldownIsFixed
    EveryRequestEnds

SPECIFICATION Spec
CONSTANTS
    None = None
    Workers = {w1, w2}
    MaxMessages = 2
    MaxAttempts = 2
    Clients = {c1, c2}
    Keys = {k1}
INVARIANTS
    OneWorkerPerMessage
    OutcomeIsTrue
    OneAnswerPerKey
PROPERTIES
    DeliveredOnlyOnce
    EveryMessageSettles
CHECK_DEADLOCK FALSE

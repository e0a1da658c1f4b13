SPECIFICATION Spec
CONSTANTS
    None = None
    v1 = v1
    own1 = own1
    own2 = own2
    general = general
    b1 = b1
    oldKey = oldKey
    newKey = newKey
    LeftSize = 2
    RightSize = 3
    RoundValue <- MCRoundValue
    Vendors = {v1}
    Platform = platform
    Products = {own1, own2, general}
    HomeOf <- MCHomeOf
    Keys = {k1, k2}
    Batches = {b1, b2}
    Requests = {q1, q2}
    Quantities = {1, 3}
    MaxNamespace = 2
    Versions = {oldKey, newKey}
    Claims = {c1, c2}
    Claimants = {u1, u2}
    MaxTries = 1
    MaxSent = 2
CONSTRAINT Bound
INVARIANTS
    AllocationsNeverCollide
    TokensReadBack
    OnlyRotationsRefuse
    ActiveProductsWereReviewed
PROPERTIES
    CodesComeFromActiveProducts
    InventoryIsSoldOnce
SYMMETRY Symmetry
CHECK_DEADLOCK FALSE

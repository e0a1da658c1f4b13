SPECIFICATION Spec
CONSTANTS
    b1 = b1
    b2 = b2
    c1 = c1
    c2 = c2
    d1 = d1
    d2 = d2
    own = own
    placeholder = placeholder
    None = None
    Batches = {b1, b2}
    Codes = {c1, c2}
    BatchOf <- MCBatchOf
    Mode <- MCMode
    Products = {own}
    InternalProducts = {}
    LotRefs = {ref1}
    Dates = {d1, d2}
    CodeWriters = {}
    BatchWriters = {w2}
    Scanners = {s1}
INVARIANTS
    LotDatesAgree
    NoGenuineAfterRecall
SYMMETRY Symmetry

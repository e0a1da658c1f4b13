SPECIFICATION Spec
CONSTANTS
    b1 = b1
    c1 = c1
    c2 = c2
    own = own
    placeholder = placeholder
    None = None
    Batches = {b1}
    Codes = {c1, c2}
    BatchOf <- MCBatchOf
    Mode <- MCMode
    Products = {own, placeholder}
    InternalProducts = {placeholder}
    LotRefs = {ref}
    Dates = {}
    CodeWriters = {w1}
    BatchWriters = {w2}
    Scanners = {s1}
INVARIANT NoGenuineAfterRecall
SYMMETRY Symmetry

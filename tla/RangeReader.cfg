SPECIFICATION Spec
CONSTANTS
    Requests = {q1, q2}
    Opener = opener
    Size = 3
    Deflaters = {d1, d2}
    MaxReads = 2
    MaxSeeks = 2
    None = None
SYMMETRY Symmetry
CHECK_DEADLOCK FALSE
INVARIANTS BytesInPlace OpenRequestsCounted CachedReaderPrivate DeflaterOwned

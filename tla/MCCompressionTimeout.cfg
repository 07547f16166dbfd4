SPECIFICATION Spec
CONSTANTS
    less = less
    full = full
    chain = chain
    dplane = dplane
    none = none
    Threads = {t1, t2}
    Sessions = {less, full, chain, dplane, none}
    Kind <- MCKind
    Concurrent = 2
    Slots = 4
    MaxCalls = 4
    MaxFaults = 1
    None = None
SYMMETRY MCSymmetry
INVARIANTS
    CookieFreedOnce
\* The bounds are used up.
CHECK_DEADLOCK FALSE

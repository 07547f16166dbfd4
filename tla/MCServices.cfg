SPECIFICATION Spec
CONSTANTS
    asym1 = asym1
    dc1 = dc1
    Lists <- MCLists
    Kind <- MCKind
    PoolSize = 2
    Used = {asym1, dc1}
    Submitters = {s1}
    Pollers = {p1, p2}
    Earlier = 1
    MaxReq = 2
    MaxCalls = 4
    MaxFaults = 3
    MaxOn = 1
    MaxRef = 2
    None = None
SYMMETRY MCSymmetry
INVARIANTS
    AnsweredOnce
    DummiesInOrder
    GenuineFirst
    FatalToAll
    LifecycleAgrees
    
\* The bounds are used up, or a null pointer was followed.
CHECK_DEADLOCK FALSE

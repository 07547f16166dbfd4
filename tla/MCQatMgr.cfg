\* Two processes, one section they both want, and three connections
\* whose threads have the same tid.
CONSTANTS
    Clients = {c1, c2}
    num_section_data = 1
    Tids = {1}
    MaxConns = 3
SPECIFICATION FairSpec
\* The bound on the connections ends a behaviour.
CHECK_DEADLOCK FALSE
INVARIANTS
    SectionExclusive
    HeldWhileUp
    AssignedHasThread
PROPERTIES
    SectionComesFree
    GetAnswered

\* Two threads, interrupted reads, and a restart with another section.
CONSTANTS
    Threads = {t1, t2}
    Devices = {d1, d2}
    Instances = {i1, i2}
    Missing = {i2}
    MaxReads = 3
    MaxSections = 2
SPECIFICATION Spec
SYMMETRY Symmetry
\* The bound on the reads ends a behaviour.
CHECK_DEADLOCK FALSE
INVARIANTS
    ValueIsAsked

CONSTANTS
    Parent = parent
    Child = child
    Mem = {m1, m2}
    QwordWidth = 2
    BitmapLen = 3
    Reserved = 1
    MaxLookup = 1
    MaxCache = 1
    NumIova = 6
    HashSize = 2
    Hole = {5}
    Requests <- SmallAndLarge
    MaxDevices = 2
    MaxCalls = 4
    None = None
SPECIFICATION Spec
SYMMETRY Symmetry
\* The bound on the calls ends a behaviour.
CHECK_DEADLOCK FALSE
INVARIANTS
    BlocksDisjoint
    SearchFirstFit
    IovaExact
    IovaFound
    MappedExact
    Translated

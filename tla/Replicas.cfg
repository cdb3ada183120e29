SPECIFICATION Spec
CONSTANTS
    a = a
    b = b
    s1 = s1
    s2 = s2
    p1 = p1
    p2 = p2
    Store = {a, b}
    Project = {p1, p2}
    Session = {s1, s2}
    Memory = {m1, m2}
    HomeOf <- MCHomeOf
    Plans <- MCPlans
    MaxWrites = 5
    None = None
SYMMETRY MemorySymmetry
INVARIANTS
    AppliesCleanly
    PeersAgree
    NothingSharedVanishes
    NotSuperseded
    HistoryIsSent
    LocalReferences
CHECK_DEADLOCK FALSE

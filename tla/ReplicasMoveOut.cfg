SPECIFICATION Spec
CONSTANTS
    a = a
    b = b
    s1 = s1
    s2 = s2
    p1 = p1
    p2 = p2
    Store = {a, b}
    Project = {p1, p2}
    Session = {s1}
    Memory = {m1}
    HomeOf <- MCHomeOf
    Plans <- MovesOut
    MaxWrites = 3
    None = None
INVARIANT NothingVanishes
CHECK_DEADLOCK FALSE

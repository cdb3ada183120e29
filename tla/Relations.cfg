SPECIFICATION Spec
CONSTANTS
    Store = {s1, s2}
    Memory = {m1, m2}
    Starts <- MCStarts
    Relation = {r1}
    Verb = {"supersedes", "related"}
    DeadAfter = 1
    MaxOps = 3
    MaxReplays = 1
    None = None
SYMMETRY Symmetry
INVARIANTS
    VerdictsJoin
    DeferredWaits
    VerdictsFollowLog
CHECK_DEADLOCK FALSE

SPECIFICATION Spec
CONSTANTS
    Worker = {w1, w2}
    Memory = {m1}
    PushBatch = 2
    PullBatch = 1
    MaxEdits = 2
    MaxPeer = 1
    MaxFaults = 1
    LateRequests = TRUE
    LeaseOutlives = FALSE
    None = None
SYMMETRY Symmetry
INVARIANTS
    TypeOK
    NoLostWrite
    CausalDelivery
    ConvergesOnLog
PROPERTIES
    AppliesEachOnce
    KeepsPromise

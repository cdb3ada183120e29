SPECIFICATION FairSpec
CONSTANTS
    Worker = {w1, w2}
    Memory = {m1}
    PushBatch = 2
    PullBatch = 1
    MaxEdits = 3
    MaxPeer = 1
    MaxFaults = 2
    LateRequests = FALSE
    LeaseOutlives = TRUE
    None = None
INVARIANTS
    OneCycle
    NewestEditSurvives
PROPERTIES
    EditsAreDelivered
    EndsQuiet

SPECIFICATION Spec
CONSTANTS
    Device = {d1, d2}
    Project = {1}
    Item = {1, 2}
    ProjectOf <- MCProjectOf
    SessionOf <- MCSessionOf
    Granted <- AllGranted
    Handler = {"mutations"}
    PoolSizes = {2}
    PageSize = 1
    MaxBatch = 2
    MaxRequests = 2
    MaxAborts = 0
    MaxPauses = 0
    None = None
INVARIANT NothingSkipped
CHECK_DEADLOCK FALSE

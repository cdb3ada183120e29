SPECIFICATION FairSpec
CONSTANTS
    Device = {d1, d2}
    Project = {1, 2}
    Item = {1, 2, 3}
    ProjectOf <- MCProjectOf
    SessionOf <- MCSessionOf
    Granted <- AllGranted
    Handler = {"mutations", "chunk"}
    PoolSizes = {1, 2}
    PageSize = 1
    MaxBatch = 2
    MaxRequests = 2
    MaxAborts = 1
    MaxPauses = 1
    None = None
INVARIANTS
    ChunkRowsOnce
    
PROPERTIES
    OnlyOvertakenSkipped
    RequestsAnswered
CHECK_DEADLOCK FALSE

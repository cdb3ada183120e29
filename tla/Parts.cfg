SPECIFICATION MCSpec
CONSTANTS
    Proc = {p1, p2}
    Released = 3
    Newest = 6
    Found = {0, 1, 3, 4}
    Kept = 2
    MaxCuts = 1
    Store = {a, b}
    Retention = 2
    MaxEdits = 3
    Prompt = {1}
    Skew = 2
    MaxTime = 4
    Agent = {x, y}
    MaxLineEdits = 2
    MaxRuns = 3
    MaxLine = 6
    Begin = Begin
    Protocol = Protocol
    End = End
    Installer = {i1, i2}
    File = {m1, m2}
    MaxTrouble = 2
    None = None
INVARIANTS
    EachMigrationOnce
    SerialHistoryKept
    DeletedStaysDeleted
    SamePrompts
    NotesSurvive
    InstructedHasBlock
    AllOrNothing
PROPERTIES
    OpensItsOwn
    WayBack
\* Every part is bounded and stops.
CHECK_DEADLOCK FALSE

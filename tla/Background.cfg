SPECIFICATION MCSpec
CONSTANTS
    Proc = {p1, p2}
    Capture = {1, 2}
    Learnings = 2
    Refusable = {1}
    Cap = 1
    MaxTrouble = 2
    Memory = {1, 2}
    Text = {1, 2, 3}
    Budget = 1
    MaxEdits = 3
    MaxBusy = 1
    None = None
INVARIANTS
    OneReplay
    KeptIsKept
    CurrentIsOfText
PROPERTIES
    KeptIsStored
    AllCovered

SPECIFICATION Spec
CONSTANTS
    c1 = c1
    d1 = d1
    d2 = d2
    task = task
    ask = ask
    key = key
    note = note
    NoMessage = none
    Messages <- MCMessages
    LaneOf <- MCLaneOf
    Callers <- MCOneCaller
    Drainers <- MCDrainers
    MaxOwnRuns = 1
    MaxCrashes = 1
INVARIANTS
    TypeOK
    OneDrain
    NothingForgotten
PROPERTIES
    KeepsDelivery
    DrainEmpties
CHECK_DEADLOCK FALSE

SPECIFICATION Spec
CONSTANTS
    c1 = c1
    d1 = d1
    d2 = d2
    task = task
    ask = ask
    key = key
    note = note
    NoMessage = none
    Messages <- MCTwoMessages
    LaneOf <- MCTwoLanes
    Callers <- MCOneCaller
    Drainers <- MCDrainers
    MaxOwnRuns = 1
    MaxCrashes = 0
PROPERTIES
    NothingStranded
CHECK_DEADLOCK FALSE

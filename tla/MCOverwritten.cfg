SPECIFICATION Spec
CONSTANTS
    ui = ui
    channel = channel
    r1 = r1
    r2 = r2
    chat = chat
    notes = notes
    NoRun = NoRun
    Callers <- MCOneCaller
    Runs <- MCOneRun
    Names <- MCNames
    Operations <- MCMoving
    MaxEpoch = 3
PROPERTIES
    NamesNeverOverwritten
CHECK_DEADLOCK FALSE

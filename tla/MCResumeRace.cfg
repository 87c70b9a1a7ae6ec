SPECIFICATION Spec
CONSTANTS
    ui = ui
    channel = channel
    r1 = r1
    r2 = r2
    chat = chat
    notes = notes
    NoRun = NoRun
    Callers <- MCBothCallers
    Runs <- MCRuns
    Names <- MCOneName
    Operations <- MCResuming
    MaxEpoch = 3
INVARIANTS
    OneLoop
CHECK_DEADLOCK FALSE

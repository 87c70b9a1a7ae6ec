SPECIFICATION Spec
CONSTANTS
    ui = ui
    channel = channel
    r1 = r1
    r2 = r2
    chat = chat
    notes = notes
    NoRun = NoRun
    Callers <- MCBothCallers
    Runs <- MCRuns
    Names <- MCOneName
    Operations <- MCRefused
    MaxEpoch = 3
INVARIANTS
    OneLoop
    HistoryKeptUnderRun
    StopReachesRun
    FlagIsTruthful
SYMMETRY MCSymmetry
CHECK_DEADLOCK FALSE

SPECIFICATION Spec
CONSTANTS
    ui = ui
    channel = channel
    r1 = r1
    r2 = r2
    chat = chat
    notes = notes
    NoRun = NoRun
    Callers <- MCBothCallers
    Runs <- MCRuns
    Names <- MCOneName
    Operations <- MCReplacing
    MaxEpoch = 4
INVARIANTS
    TypeOK
    EpochOwnsTranscript
PROPERTIES
    BusyEnds
CHECK_DEADLOCK FALSE

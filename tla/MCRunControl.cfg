SPECIFICATION RunSpec
CONSTANTS
    v1 = v1
    v2 = v2
    verdict = verdict
    Absent = absent
    Verdict = verdict
    Checks <- MCChecks
    Evidence <- MCEvidence
    Contents <- MCContents
    Routings <- MCRoutings
    MaxContract = 1
    MaxToolCalls = 2
    MaxAutoContinues = 1
    MaxEscalations = 1
    MaxInferenceRetries = 1
    MaxReviewCycles = 1
INVARIANTS
    RunTypeOK
    DoneIsEarned
    CompleteIsDoneUnless
    LicensedExecution
PROPERTIES
    FirstPassIsFresh
    RunsDown
    StopEndsRun
    RunEnds
CHECK_DEADLOCK FALSE

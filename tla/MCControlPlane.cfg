SPECIFICATION Spec
CONSTANTS
    mutation = mutation
    project = project
    e1 = e1
    e2 = e2
    Checks <- MCChecks
    Evidence <- MCEvidence
    MaxContract = 2
INVARIANTS
    PlanPrecedesWork
    ResumeOnlyWhileAwaiting
PROPERTIES
    EvidenceKept
    ImplementsGate
CHECK_DEADLOCK FALSE

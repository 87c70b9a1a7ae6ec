SPECIFICATION Spec
CONSTANTS
    plan = plan
    sum = sum
    probe = probe
    g1 = g1
    e1 = e1
    e2 = e2
    p = p
    a = a
    b = b
    k1 = k1
    k2 = k2
    v1 = v1
    f1 = f1
    Workflows <- MCWorkflows
    GlobalChecks = {g1}
    EndpointChecks = {p}
    Endpoints = {e1, e2}
    Runs <- MCRuns
    Indefinite = indefinite
    MinimumEvidence <- MCMinimum
    EvidenceIds = {v1}
    FindingIds = {f1}
    Claimants = {a, b}
    Nobody = nobody
    Callers = {k1, k2}
    Nothing = nothing
    Lease = 2
    MaxClock = 2
    MaxDelay = 0
    MaxRevision = 8
SYMMETRY Perms
VIEW Alike
INVARIANTS
    TypeOK
    QueueIsHonest
    CompletedIsSupported
    ConfirmedIsSupported
    HolderKeepsRevision
PROPERTIES
    WorkflowInOrder
    NothingIsUndone
    KeepsPromise
CHECK_DEADLOCK FALSE

SPECIFICATION Spec
CONSTANTS
    NumShards = 2
    MaxRuns = 3
    a = a
    b = b
    Findings <- MCFindings
    Nothing = Nothing
    Agent = Agent
    MaxDisturbances = 0
INVARIANT VerdictOnlyWhenDone
CHECK_DEADLOCK FALSE

SPECIFICATION Spec
CONSTANTS
    NumShards = 2
    MaxRuns = 2
    a = a
    b = b
    Findings <- MCFindings
    Nothing = Nothing
    Agent = Agent
    MaxDisturbances = 1
INVARIANTS TypeOK DoneIsSubmitted ScopeIsOpen CompleteIsAll ActiveIsDriven FlagIsHeld FlagIsToken
PROPERTY WorkersRunDown
CHECK_DEADLOCK FALSE

SPECIFICATION Spec
CONSTANTS
    SynchModes = {TRUE, FALSE}
    MidStepCalls = FALSE
    Prompt = TRUE
    SenseDelay = 2
    Threshold = 3
    ServerWait = 4
    MaxStep = 2
    MaxCalls = 2
    MaxLost = 0
INVARIANTS OneDecisionPerStep
PROPERTIES FreshTime KeepsPromise
CHECK_DEADLOCK FALSE

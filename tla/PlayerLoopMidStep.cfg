SPECIFICATION Spec
CONSTANTS
    SynchModes = {FALSE}
    MidStepCalls = TRUE
    Prompt = TRUE
    SenseDelay = 2
    Threshold = 3
    ServerWait = 4
    MaxStep = 2
    MaxCalls = 1
    MaxLost = 0
INVARIANTS OneDecisionPerStep
CHECK_DEADLOCK FALSE

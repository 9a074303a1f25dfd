SPECIFICATION Spec
CONSTANTS
    SynchModes = {FALSE}
    MidStepCalls = TRUE
    Prompt = FALSE
    SenseDelay = 2
    Threshold = 3
    ServerWait = 4
    MaxStep = 2
    MaxCalls = 2
    MaxLost = 1
INVARIANTS TypeOK FollowsServer ByesAnswerEnds
PROPERTIES Terminates StepDecided
CHECK_DEADLOCK FALSE

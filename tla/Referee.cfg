SPECIFICATION Spec
CONSTANTS
    TeamSize = 2
    Receivers = {2}
    IntentionSteps = 2
    MaxIdle = 1
    MaxCalls = 3
    MaxKicks = 3
    MaxLost = 1
    MaxRejoin = 1
INVARIANTS TypeOK InTouch ScoreTrue SetPlayAge IntentionLives ShootoutCounted OneTaker FacesGoal
PROPERTIES DecidesInTouch SetPlayStays
CHECK_DEADLOCK FALSE

SPECIFICATION Spec
CONSTANTS
    BodyTypes = {"TURN", "DASH", "KICK"}
    MaxStep = 4
    MaxLostCommand = 0
    MaxLostSense = 0
    MaxLate = 0
    MaxMissed = 1
PROPERTIES EffectOnce
CHECK_DEADLOCK FALSE

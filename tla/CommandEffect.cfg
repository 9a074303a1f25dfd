SPECIFICATION Spec
CONSTANTS
    BodyTypes = {"TURN", "DASH", "KICK"}
    MaxStep = 5
    MaxLostCommand = 2
    MaxLostSense = 1
    MaxLate = 1
    MaxMissed = 1
INVARIANTS TypeOK EffectTrue EffectExact Heals
PROPERTIES OnceIfDecided
CHECK_DEADLOCK FALSE

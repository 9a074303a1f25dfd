SPECIFICATION Spec
CONSTANTS
    Players = {1, 2}
    Goalie = 1
    Types = {0, 1}
    PtMax = 1
    SubsMax = 2
    MultDefault = FALSE
    MaxFaults = 1
INVARIANTS TypeOK BookKept NeverRefused WasteBounded
PROPERTY TiredReplaced

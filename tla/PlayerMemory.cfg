SPECIFICATION Spec
CONSTANTS
    Mates = {1}
    Opps = {1, 2}
    OurGoalie = 1
    TheirGoalie = 1
    Places = {1, 2, 3}
    MatePlaces = {1, 2}
    OppPlaces = {1, 2, 3}
    Area = {2, 3}
    Views = {{1, 2}, {1, 2, 3}}
    NumberFar = 1
    SeeBuf = 0
    Bias = 1
    FarDist = 2
    GhostDist = 3
    CountThr = 3
    GhostAge = 2
    GhostMax = 1
    MateMax = 1
    OppMax = 3
    MaxTold = 1
    MaxVague = 2
INVARIANTS TypeOK NumbersUnique SeenTrue Bounded
PROPERTIES SeenKept Settles

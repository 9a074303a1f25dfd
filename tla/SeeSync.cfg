\* Every configuration; a datagram is lost, play stops and resumes.
SPECIFICATION Spec
CONSTANTS
    Configs = {"normal", "synch_mode", "synch_see"}
    ViewActions = {"View_Wide", "View_Normal", "View_Synch"}
    MaxLost = 1
    MaxModeChanges = 2
INVARIANTS TypeOK TimingExact SeeForeseen
PROPERTIES SeenBeforeDecision KeepsSynch

\* A datagram is lost, play stops and resumes; narrow and normal views.
SPECIFICATION Spec
CONSTANTS
    Configs = {"normal", "synch_see"}
    ViewActions = {"View_Synch"}
    MaxLost = 1
    MaxModeChanges = 2
PROPERTIES SynchAtLast

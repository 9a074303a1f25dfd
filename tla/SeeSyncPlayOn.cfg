\* Normal server mode, play resumes during the adjustment.
SPECIFICATION Spec
CONSTANTS
    Configs = {"normal"}
    ViewActions = {"View_Wide", "View_Normal", "View_Synch"}
    MaxLost = 0
    MaxModeChanges = 2
PROPERTIES DetectedExactly

\* Server synch mode, play stops before the player is synchronised.
SPECIFICATION Spec
CONSTANTS
    Configs = {"synch_mode"}
    ViewActions = {"View_Synch"}
    MaxLost = 0
    MaxModeChanges = 2
PROPERTIES OutOfPlayPrepares

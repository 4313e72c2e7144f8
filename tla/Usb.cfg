SPECIFICATION Spec
CONSTANTS
    MaxPlugs = 2
    MaxTries = 1
    MaxQueued = 2
    ControlsAnswer = TRUE
    TakesLate = FALSE
 
INVARIANT NoStaleDevice
 
CHECK_DEADLOCK FALSE

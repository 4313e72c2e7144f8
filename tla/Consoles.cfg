SPECIFICATION Spec
CONSTANTS
    Shown = {1, 2}
    Hidden = {3}
    Pids = {1, 2, 3}
    Sizes <- MC_Sizes
    Readers = {1}
    MaxBusy = 1
    FgDisturbed = FALSE
INVARIANTS
    
    HiddenInUse
    ReadersAreTold
PROPERTY
    KeysComeBack

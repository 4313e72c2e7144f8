SPECIFICATION Spec
CONSTANTS
    c1 = c1
    c2 = c2
    c3 = c3
    a = a
    b = b
    h1 = h1
    h2 = h2
    Clusters = {c1, c2, c3}
    Root = c1
    Names = {a, b}
    PerCluster = 1
    FREE = FREE
    EOC = EOC
    None = None
    MaxVnodes = 3
    Handles = {h1, h2}
    Folders = {h2}
    MaxFiles = 2
    MaxDeferred = 1
    MaxSize = 2
    WriteDeleted = FALSE
    UmountOpening = FALSE
SYMMETRY Symmetry
INVARIANTS    CleanMeansSaved
 
CHECK_DEADLOCK FALSE

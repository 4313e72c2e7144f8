SPECIFICATION Spec
CONSTANTS
    hd = hd
    old = old
    new = new
    b1 = b1
    b2 = b2
    Entries = {1, 2}
    Media = {hd}
    Lbas = {0, 1, 2, 3}
    Size <- MC_Size
    Layout <- MC_Layout
    Data = {old, new}
    Blank = old
    Junk = Junk
    NoMedium = NoMedium
    NoEntry = 0
    Bufs = {b1, b2}
    RangeChunk = 1
    MaxRange = 2
    MaxLocks = 1
    All = All
SYMMETRY MC_Symmetry
INVARIANT BuffersAreFiled
 
PROPERTY FlushedIsStable
CHECK_DEADLOCK FALSE

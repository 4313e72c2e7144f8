SPECIFICATION Spec
CONSTANTS
    Threads = {t1, t2, t3}
    Nobody = Nobody
    Wrap = 4
    MaxDepth = 2
INVARIANT
    OneThingAtATime

SPECIFICATION Spec
CONSTANTS
    c1 = c1
    c2 = c2
    t1 = t1
    t2 = t2
    Threads = {t1, t2}
    Coros = {c1, c2}
    None = None
    NsPerMs = 2
    MsPerSec = 2
    IntMax = 4
    Delays = {1, 3, 5}
    MaxSec = 1
    MaxTime = 12
    MaxSignals = 1
SYMMETRY Symmetry
INVARIANTS TypeOK OrderAgrees  
PROPERTIES NotEarly
CHECK_DEADLOCK FALSE

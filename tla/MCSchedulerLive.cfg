SPECIFICATION FairSpec
CONSTANTS
    m = m
    c1 = c1
    c2 = c2
    c3 = c3
    Coros <- MCCoros2
    MainCoro = m
    NoCoro = NoCoro
    Fds = {f1}
    LocalSize = 2
    MaxEvents = 2
INVARIANT IInv
 
CHECK_DEADLOCK FALSE

SPECIFICATION Spec
CONSTANTS
    m = m
    c1 = c1
    c2 = c2
    c3 = c3
    Coros <- MCCoros
    MainCoro = m
    NoCoro = NoCoro
    Fds = {f1}
    LocalSize = 2
    MaxEvents = 1
SYMMETRY Symmetry
INVARIANT PollDoesNotBlockWork
CHECK_DEADLOCK FALSE

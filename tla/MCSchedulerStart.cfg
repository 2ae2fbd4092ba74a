SPECIFICATION Spec
CONSTANTS
    m = m
    c1 = c1
    c2 = c2
    c3 = c3
    Coros <- MCCoros4
    MainCoro = m
    NoCoro = NoCoro
    Fds = {f1}
    LocalSize = 3
    MaxEvents = 1
SYMMETRY Symmetry4
CONSTRAINT NoWaits
INVARIANTS CounterBounded SlotExclusive
CHECK_DEADLOCK FALSE

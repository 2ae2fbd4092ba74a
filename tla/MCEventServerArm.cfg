SPECIFICATION Spec
CONSTANTS
    s1 = s1
    s2 = s2
    t1 = t1
    t2 = t2
    Threads = {t1, t2}
    Socks = {s1, s2}
    Listener = Listener
    NoSock = NoSock
    MaxOpen = 2
    MaxEvents = 2
    ReqLen = 2
    RespLen = 2
SYMMETRY Symmetry
INVARIANT ArmSucceeds
CHECK_DEADLOCK FALSE

SPECIFICATION Spec
CONSTANTS
    h1 = h1
    h2 = h2
    s1 = s1
    s2 = s2
    t1 = t1
    t2 = t2
    Threads = {t1, t2}
    Handlers = {h1, h2}
    Main = Main
    Socks = {s1, s2}
    Listener = Listener
    None = None
    MaxOpen = 2
    ReqLen = 2
    RespLen = 2
SYMMETRY Symmetry
INVARIANTS TypeOK OneHandler IInv
PROPERTIES  AnsweredInFull
CHECK_DEADLOCK FALSE

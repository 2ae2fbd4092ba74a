SPECIFICATION Spec
CONSTANTS
    c1 = c1
    Main = Main
    Loop = Loop
    RunList = RunList
    Null = Null
    Coros = {Main, Loop, c1}
    MaxSignals = 1
INVARIANT NotEnqueuedTwice
CHECK_DEADLOCK FALSE

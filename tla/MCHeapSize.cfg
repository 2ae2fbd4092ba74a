SPECIFICATION Spec
CONSTANTS
    Keys <- MCKeys
    Null = Null
    INITIAL_SIZE = 4
    MaxItems = 6
INVARIANT SizeIsAllocated
CHECK_DEADLOCK FALSE

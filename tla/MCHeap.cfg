SPECIFICATION Spec
CONSTANTS
    Keys <- MCKeys
    Null = Null
    INITIAL_SIZE = 4
    MaxItems = 6
INVARIANTS TypeOK HeapOrder HoleOrder
PROPERTY ImplementsQueue
CHECK_DEADLOCK FALSE

CONSTANTS
    MemSize = 6
    Bytes = {0, 1, 2, 3, 4, 5}
SPECIFICATION DistinctSpec
INVARIANTS FaultHidden MoveCorrect
CHECK_DEADLOCK FALSE

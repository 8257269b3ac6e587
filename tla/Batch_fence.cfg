CONSTANTS
    Capacity = 4
    Members <- MCMembers
    Cells <- MCCells
    MaxSets = 4
    MaxSubmits = 1
    MaxFaults = 1
SPECIFICATION Spec
INVARIANTS FenceHonoured
CHECK_DEADLOCK FALSE

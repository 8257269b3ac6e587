CONSTANTS
    Capacity = 4
    Members <- MCMembers
    Cells <- MCCells
    MaxSets = 5
    MaxSubmits = 2
    MaxFaults = 1
SPECIFICATION Spec
INVARIANTS OnlyValidMembers MemberRunsOnce FencedIsSequential StatusIsHonest OkMeansRunSinceSet
CHECK_DEADLOCK FALSE

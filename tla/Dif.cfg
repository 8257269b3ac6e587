CONSTANTS
    Jobs <- AllJobs
    BlockSize = 2
    Size = 9
    AppTags = 4
    RefTags = 4
SPECIFICATION Spec
CHECK_DEADLOCK FALSE
INVARIANTS FirstErrorFound UpdateVerifies InsertThenStrip

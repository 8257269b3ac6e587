CONSTANTS
    Jobs <- AllJobs
    Size = 18
    WordSize = 2
    Untouched <- MCUntouched
SPECIFICATION Spec
INVARIANTS DestinationCorrect CrcOfWholeSource ComparisonResult DeltaComplete
PROPERTY WaitIsIdempotent

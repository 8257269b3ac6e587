CONSTANTS
    Jobs <- CompareJobs
    Size = 18
    WordSize = 2
    Untouched <- MCUntouched
SPECIFICATION Spec
INVARIANT CompareOffset

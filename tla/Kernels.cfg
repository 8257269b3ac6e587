CONSTANTS
    Calls <- MCCalls
    Cpus <- MCCpus
    Caches <- MCCaches
    Data <- MCData
    Kilobyte = 32
    SizeRange = 4096
SPECIFICATION Spec
INVARIANTS MoveIsCopy MoveWithinSource FillIsPattern ComparisonsAgree FlushesRange CrcAgrees

CONSTANTS
    Threads = {t1, t2}
    Jobs = {j1, j2}
    n0 = n0
    n1 = n1
    Nodes = {n0, n1}
    AnyNode = AnyNode
    NoJob = NoJob
    DeviceCount = 3
    Capacity = 1
    QueueCount <- MCQueues
    NumaId <- MCNodes
SYMMETRY Symmetric
SPECIFICATION Spec
INVARIANT PortalSafe
CHECK_DEADLOCK FALSE

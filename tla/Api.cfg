SPECIFICATION Spec
CONSTANTS
    j = j
    h1 = h1
    h2 = h2
    b1 = b1
    b2 = b2
    b3 = b3
    call = call
    temporary = temporary
    Jobs = {j}
    Handlers = {h1, h2}
    Heap = {b1, b2, b3}
    Call = call
    Temporary = temporary
    Address <- MCAddress
    Applications <- MCApplications
    Paths = {"software", "hardware", "automatic"}
    SizeRange = 65536
    None = None
    Pending = Pending
INVARIANTS TypeOK ExecutedAsAsked NoStrayWrite BuffersOwnedOnce WaitsOnOwnRecord AcceptedBuffersDisjoint
PROPERTIES OperationSpec WaitEnds
CHECK_DEADLOCK FALSE

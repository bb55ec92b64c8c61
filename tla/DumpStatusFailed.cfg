SPECIFICATION StatusSpec
CONSTANTS
    table = table
    root = root
    sequence = sequence
    blobs = blobs
    w1 = w1
    w2 = w2
    Object <- MCObject
    Kind <- MCKind
    Orders <- MCOrders
    Worker <- MCWorker
    NoObject = NoObject
    AtomicPut = TRUE
    NotFoundMapped = TRUE
INVARIANT FailureIsSeen
CHECK_DEADLOCK FALSE

SPECIFICATION FairCommandSpec
CONSTANTS
    table = table
    root = root
    sequence = sequence
    blobs = blobs
    w1 = w1
    w2 = w2
    Object <- MCObject
    Kind <- MCKind
    Orders <- MCOrders
    Worker <- MCWorker
    NoObject = NoObject
    AtomicPut = FALSE
    Commands <- MCCommands
    NULL = NULL
INVARIANTS PublishedIsComplete SuccessIsDone OneSnapshot ScratchLives TocIsWhole
PROPERTY CommandEnds
CHECK_DEADLOCK FALSE

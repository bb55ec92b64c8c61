SPECIFICATION RetentionSpec
CONSTANTS
    table = table
    root = root
    sequence = sequence
    blobs = blobs
    w1 = w1
    w2 = w2
    Object <- MCFewObjects
    Kind <- MCFewKinds
    Orders <- MCFewOrders
    Worker <- MCOneWorker
    NoObject = NoObject
    AtomicPut = TRUE
    This = 3
    Other <- MCOther
    Commands <- MCCommands
    NotFoundMapped = TRUE
INVARIANTS RetentionTypeOK RetainedIsComplete FailedIsFinal EndIsSeen  LatestIsComplete
CHECK_DEADLOCK FALSE

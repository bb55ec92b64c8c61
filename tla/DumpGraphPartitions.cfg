SPECIFICATION Spec
CONSTANTS
    t1 = t1
    t2 = t2
    t3 = t3
    t4 = t4
    Table <- MCTable
    NoTable = NoTable
    Layouts <- PartitionFirst
    MaxRefs = 2
INVARIANT EveryIdOnce
CHECK_DEADLOCK FALSE

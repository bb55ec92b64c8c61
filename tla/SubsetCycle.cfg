SPECIFICATION SubsetSpec
CONSTANTS
    t1 = t1
    t2 = t2
    t3 = t3
    t4 = t4
    Table <- MCTable
    NoTable = NoTable
    Layouts <- RootFirst
    MaxRefs = 5
    Null = Null
    Partial = Partial
    Unset = Unset
    Failed = Failed
    Schemas <- Hierarchy
    Databases <- MCDatabases
INVARIANTS ParentsAreExcluded
CHECK_DEADLOCK FALSE

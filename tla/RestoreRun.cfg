\* Whole restores; two jobs in the data stage.
SPECIFICATION FairRunSpec
CONSTANTS
    w1 = w1
    w2 = w2
    none = none
    NoEntry = none
    DumpId <- MCDumpId
    Kind <- MCKind
    Archives <- MCArchives
    Options <- MCOptions
    Cases <- MCCases
    Worker <- Two
INVARIANTS
    TypeOK
    InOrder
    ExecutedOnce
    CompleteOnSuccess
    
    PhasedClean
    RowsAreWhole
PROPERTIES
    ImplementsContract
    RunEnds
CHECK_DEADLOCK FALSE

\* The example of docs/configuration.md: several jobs, one table, in order.
SPECIFICATION FairSpec
CONSTANTS
    w1 = w1
    w2 = w2
    none = none
    NoEntry = none
    DumpId <- MCDumpId
    Kind <- MCKind
    Archives <- MCArchives
    Options <- DocumentedOptions
    Worker <- Two
PROPERTIES
    AlwaysTerminates
CHECK_DEADLOCK FALSE

SPECIFICATION FairTableSpec
CONSTANTS
    a = a
    b = b
    t = t
    u = u
    v = v
    p = p
    Transformer <- MCTransformer
    Column <- MCColumn
    Custom <- MCCustom
    Defined <- MCDefined
    Validated <- MCDefined
    Template <- MCTemplate
    Always = Always
    Tables <- MCTables
    MaxRows = 2
    Limit = 2
    Dumps <- MCDumps
INVARIANTS TableTypeOK RecordIsOwned AnswerIsOwn OkIsWhole ProgramsAreReaped
PROPERTY ExecuteReturns
CHECK_DEADLOCK FALSE

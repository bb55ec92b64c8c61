SPECIFICATION FairSpec
CONSTANTS
    a = a
    b = b
    t = t
    u = u
    v = v
    Transformer <- MCTransformer
    Column <- MCColumn
    Always = Always
    Tables <- MCTables
    MaxRows = 2
PROPERTY TransformReturns
CHECK_DEADLOCK FALSE

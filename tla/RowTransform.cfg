SPECIFICATION Spec
CONSTANTS
    Half = 32
    Ratio = 4
    Nano = 8
    Unit = 2
    Part = 4
    Null = Null
    Unset = Unset
    Fail = Fail
    Broken = Broken
    Milli = 2
    Micro = 4
    Int2 = 8
    Int4 = 16
    Saturates = FALSE
    Float4 = 70
    Float8 = 140
    NumericMax = 40
    MaxHash = 64
    LengthBytes = 4
    ByteSymbols = 4
    Seeds = {0, 1, 2, 3, 4, 5}
    Chain <- MCChain
    Template <- MCTemplate
    Render <- MCRender
    ZeroTime <- MCZeroTime
    Stream <- MCStream
    Word <- MCWord
    Digest <- MCDigest
    Decodable <- MCDecodable
    Substitute <- MCSubstitute
    Masked <- MCMasked
    Seed <- MCSeed
    Fill <- MCFill
    Position <- MCPosition
    NumberDraw <- MCNumberDraw
    Bytes <- MCBytes
    Tables <- MCTables
INVARIANTS
    TypeOK
    ValuesInLimits
    KeptNull
    OnlyDeclared
    RowsIndependent
    ReadBackAsSet
    ValidOnly

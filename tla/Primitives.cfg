CONSTANTS
    U64MAX = 214748363
    INPUT_STRING_LEN_LIMIT = 20
    Printed <- MCPrinted
    Styles <- MCStyles
    Alphabet <- MCAlphabet
    MaxTyped = 4
    Rates <- MCRates
    Weights <- MCWeights
    Amounts <- MCAmounts
    MaxCoins = 2
    LOCK_TIME_THRESHOLD = 40
    I64 = 70
    OverflowChecks = TRUE
    BlockTimes = {0, 3, 9}
    MaxBlocks = 3
    InputSequences <- MCInputSequences
    Numbers <- MCNumbers
    Block = 8
    Field = 2
    Word = 8
    KeyLens = {0, 3, 8, 9, 17}
    MaxFed = 36
    WordBits = 8
    HashBits = 8
    P = 2
    M = 10
    Empty = "e"
    OpReturn = "op"
    Scripts = {"a", "b", "c", "d", "e", "op"}
    FilterBlocks <- MCBlocks
    SipKeys <- MCSipKeys
    Source <- MCSource
    BufSizes = {0, 1, 3}
    Limits = {0, 3}
    ChunkLen = 2
    SliceLen = 2
    Offers <- MCOffers
    MaxOut = 3
SPECIFICATION Spec
CHECK_DEADLOCK FALSE
INVARIANTS
    AmountTextsExact
    FeesCover
    LocksConsistent
    HashesStandard
    FiltersNoFalseNegatives
    StreamsExact
PROPERTIES
    OpenStaysOpen
    CallsReturn

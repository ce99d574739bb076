CONSTANTS
    WordSize = 256
    Pow2 <- MCPow2
    Multiplier = 109
    Increment = 57
    RootWidth = 8
    LegacyLimit = 4
    MaxBranch = 1
    ParentBlocks <- MCParentBlocks
    AuxHashes <- MCAuxHashes
    ChainIds = {0, 1, 2}
    Siblings <- MCSiblings
    Indexes <- MCIndexes
    MaxAccepted = 2
    MaxTx = 9
    MaxReceived = 3
    TxLimit = 9
    ByteBits = 3
    U16Size = 8
    ShortSpace = 11
    Sent <- MCSent
    Pools <- MCPools
    Others <- MCOthers
    Nonces = {0, 1}
    Prefills <- MCPrefills
    MaxFull = 4
    Leaves = {1, 2, 3, 4}
    Hidden = {5}
    LeafScripts <- MCLeafScripts
    HashLess <- MCHashLess
    MAX_NODE_COUNT = 3
    ByteSize = 65536
    XOnlyKeys = {1}
    InternalKey = 1
    MaxU32 = 12
    Weights = {1, 2, 5}
    WalkLeaves = {1, 2}
    MaxNodes = 5
    MaxHuffman = 5
SPECIFICATION Spec
INVARIANTS
    MergedMiningSound
    ProofComplete
    ProofSound
    BlocksArrive
    BuilderInvariant
    ScriptsSpendable
PROPERTIES
    HuffmanEnds

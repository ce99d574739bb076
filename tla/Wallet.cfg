CONSTANTS
    Base = 256
    Ints <- MCInts
    Slices <- MCSlices
    PlainOps <- MCOps
    Scripts <- MCScriptsSet
    MaxPushes = 2
    SmallMax = 1300
    Limit = 4
    Chunks <- MCChunks
    PayKeys = {3, 65000}
    Redeem <- MCRedeem
    MerkleRoot <- MCRoot
    Pastes <- MCPastes
    SchnorrSigs <- MCSchnorr
    DerSigs <- MCDer
    SigKeys = {3, 65000}
    Messages = {5, 77}
    KeyBytes = 2
    HardenedBit = 128
    Seeds <- MCSeeds
    Indices = {0, 127}
    StartDepths = {0, 254}
    MaxCalls = 4
    StreamKeys = {3, 65000}
    MaxStream = 3
    Offers <- MCOffers
INIT WalletInit
NEXT WalletNext
INVARIANTS
    ScriptsFaithful
    PaymentsSafe
    WalletsConsistent
PROPERTIES
    SigopsGrow
CHECK_DEADLOCK FALSE

CONSTANTS
    k1 = k1
    Keys = {k1}
    NoKey = NoKey
    SHA256 <- MCSHA256
    Prefix <- MCPrefix
    LeadingZeros <- MCWork
    UINT32 = 65536
    UINT64 = 65536
    COINBASE_AMOUNT = 2
    MaxNonce = 2
    GENESIS_TIMESTAMP = 0
    DIFFICULTY_ADJUSTMENT_INTERVAL = 3
    BLOCK_GENERATION_INTERVAL = 1
    Paths = {}
    Folders = {w}
    w = w
    Amounts = {}
    Addresses <- MCAddresses
    Times = {0, 1, 7}
    InitialFiles <- MCNoPaths
    MaxBlocks = 8
    MaxPool = 0
SPECIFICATION Spec
INVARIANTS DifficultyDocumented DifficultyMovesByOne MinedBlockValid

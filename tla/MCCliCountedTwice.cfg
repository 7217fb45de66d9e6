CONSTANTS
    k1 = k1
    k2 = k2
    Keys = {k1, k2}
    NoKey = NoKey
    SHA256 <- MCSHA256
    Prefix <- MCPrefix
    LeadingZeros <- MCLeadingZeros
    UINT32 = 65536
    UINT64 = 65536
    COINBASE_AMOUNT = 2
    MaxNonce = 0
    GENESIS_TIMESTAMP = 0
    DIFFICULTY_ADJUSTMENT_INTERVAL = 5
    BLOCK_GENERATION_INTERVAL = 1
    Paths = {f1, f2}
    f1 = f1
    f2 = f2
    Folders = {w}
    w = w
    Amounts = {2}
    Addresses <- MCAddresses
    Times = {0}
    InitialFiles <- MCTwoBackups
    MaxBlocks = 5
    MaxPool = 2
SPECIFICATION Spec
PROPERTIES MineAddsCoinbase

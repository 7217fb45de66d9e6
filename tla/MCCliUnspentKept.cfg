CONSTANTS
    k1 = k1
    Keys = {k1}
    NoKey = NoKey
    SHA256 <- MCSHA256
    Prefix <- MCPrefix
    LeadingZeros <- MCLeadingZeros
    UINT32 = 65536
    UINT64 = 65536
    COINBASE_AMOUNT = 2
    MaxNonce = 0
    GENESIS_TIMESTAMP = 0
    DIFFICULTY_ADJUSTMENT_INTERVAL = 5
    BLOCK_GENERATION_INTERVAL = 1
    Paths = {}
    Folders = {}
    Amounts = {1}
    Addresses <- MCAddresses
    Times = {0}
    InitialFiles <- MCNoPaths
    MaxBlocks = 6
    MaxPool = 2
SPECIFICATION Spec
PROPERTIES InputsLeaveUnspent

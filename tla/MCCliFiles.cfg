CONSTANTS
    k1 = k1
    k2 = k2
    Keys = {k1, k2}
    NoKey = NoKey
    SHA256 <- MCSHA256
    Prefix <- MCPrefix
    LeadingZeros <- MCLeadingZeros
    UINT32 = 65536
    UINT64 = 65536
    COINBASE_AMOUNT = 2
    MaxNonce = 0
    GENESIS_TIMESTAMP = 0
    DIFFICULTY_ADJUSTMENT_INTERVAL = 5
    BLOCK_GENERATION_INTERVAL = 1
    Paths = {file}
    file = file
    Folders = {}
    Amounts = {1}
    Addresses <- MCLongAddresses
    Times = {0}
    InitialFiles <- MCSoundFiles
    MaxBlocks = 4
    MaxPool = 1
SPECIFICATION Spec
INVARIANTS ListNeedsBlock SendIffCovered SpendsAuthorised ChainLinked
PROPERTIES PendingKeptOrMined
SYMMETRY MCSymmetry

CONSTANTS
    Machines <- MCMachines
    Order <- MCOrder
    Version <- MCVersion
    SHA256 <- MCSHA256
    LeadingZeros <- MCLeadingZeros
    BYTE = 3
    UINT64 = 6561
    DIFFICULTY_ADJUSTMENT_INTERVAL = 2
    BLOCK_GENERATION_INTERVAL = 1
    MaxNonce = 2
    BLOCKCHAIN_DATA_MAX = 20
    GENESIS_TIMESTAMP = 5
    Lengths = {21}
    Times = {500}
    FirstFiles <- MCFirstFiles
    MaxBlocks = 4
    DiskFills = TRUE
SPECIFICATION Spec
INVARIANTS TypeOK RoundTrip ChainsValid MinedIsValid
PROPERTIES LoadedIsWhole

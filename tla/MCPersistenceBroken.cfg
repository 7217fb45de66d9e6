CONSTANTS
    Ledgers <- MCLedgers
    Genesis <- MCGenesis
    FirstFiles <- MCFirstFiles
    Counts <- MCCounts
    Garbage = Garbage
    DiskFills = FALSE
    ProcessStops = TRUE
SPECIFICATION Spec
PROPERTIES LoadRefusesBroken

CONSTANTS
    Ledgers <- MCLedgers
    Genesis <- MCGenesis
    FirstFiles <- MCFirstFiles
    Counts <- MCCounts
    Garbage = Garbage
    DiskFills = TRUE
    ProcessStops = TRUE
SPECIFICATION Spec
INVARIANTS TypeOK FileIsBeginning
PROPERTIES ImplementsStore CommandsEnd

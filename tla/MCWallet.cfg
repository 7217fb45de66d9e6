CONSTANTS
    Keys = {k1, k2}
    NoKey = NoKey
    Folders = {home, away}
    DiskFills = TRUE
    OpenFails = TRUE
    ProcessStops = TRUE
SPECIFICATION Spec
INVARIANTS TypeOK HalvesMatch
PROPERTIES ImplementsKeyring

CONSTANTS
    Geometry <- MCGeometry
    BusWidth = 2
    WBufSize = 4
    LongSize = 4
    PartTables <- MCPartTables
    FileSizes = {3, 8, 12}
    Ranges <- MCRanges
    MaxFaults = 1
    MaxOps = 1
SPECIFICATION Spec
INVARIANT
    VerifiedMeansStored
CHECK_DEADLOCK FALSE

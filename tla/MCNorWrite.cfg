CONSTANTS
    Geometry <- MCGeometry
    BusWidth = 2
    WBufSize = 4
    LongSize = 4
    PartTables <- MCPartTables
    FileSizes = {3, 8, 12}
    Ranges <- MCRanges
    MaxFaults = 1
    MaxOps = 2
SPECIFICATION FairSpec
INVARIANTS
    TypeOK
    CleanDoneStored
    RelockedOnDone
PROPERTIES
    OutsideUntouched
    OpEnds
CHECK_DEADLOCK FALSE

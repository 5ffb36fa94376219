CONSTANT
    Geometries <- MCGeometries
SPECIFICATION FrobSpec
INVARIANTS
    FrobTypeOK
    RefusedIffUnaligned
    VisitsTheRange
    EraseSizeCovers
CHECK_DEADLOCK FALSE

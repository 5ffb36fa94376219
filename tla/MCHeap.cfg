CONSTANTS
    HeapBase <- MCHeapBase
    HeapSize <- MCHeapSize
    Word <- MCWord
    Sizes <- MCSizes
SPECIFICATION Spec
INVARIANTS
    TypeOK
    HeapTiled
    GrantsApart
    GrantCoversRequest
    RefusalIsFinal
PROPERTIES
    ImplementsBump
CHECK_DEADLOCK FALSE

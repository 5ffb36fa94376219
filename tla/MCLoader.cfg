CONSTANTS
    Size = 15
    Calls <- MCCalls
    Images <- MCImages
    Trees <- MCTrees
    MaxBoots = 2
SPECIFICATION Spec
INVARIANTS
    TypeOK
    LoadedRight
    StartedAsGiven
    
PROPERTIES
    RefusedLeavesMemory
CHECK_DEADLOCK FALSE

CONSTANTS
    f = f
    g = g
    f_text = f_text
    null = null
    NULL <- null
    StandTblSize = 4
    Elements = 2
    Names <- MCNames
    MadeUp <- MCMadeUp
    SymHFuncName <- MCSymHFuncName
    Symbols <- MCSymbols
    Addresses <- MCAddresses
SPECIFICATION Spec
INVARIANTS
    TypeOK
    BucketsAreStacks
    LookupIsNewest
    NoClash
    ValueLookupIsNearest
CHECK_DEADLOCK FALSE

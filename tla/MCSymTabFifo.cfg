CONSTANTS
    f = f
    g = g
    f_text = f_text
    null = null
    NULL <- null
    StandTblSize = 4
    Elements = 2
    Names <- MCNames
    MadeUp <- MCMadeUp
    SymHFuncName <- MCSymHFuncName
    Symbols <- MCSymbols
    Addresses <- MCAddresses
SPECIFICATION Spec
INVARIANT
    IdenticalNodesFifo
CHECK_DEADLOCK FALSE

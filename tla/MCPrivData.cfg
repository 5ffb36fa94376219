CONSTANTS
    Names = {"root", "rootfs"}
    Junk = "?"
    Prefix <- MCPrefix
    Cap = 2
    CmdEntry = 4
    EndEntry = 5
    DefaultParts <- MCDefaultParts
    DefaultNbPart = 2
    ParamNames <- MCParamNames
    ParamValues = {0, 1}
    Flags = {0}
    Texts = {"default", "other"}
    DefaultText = "default"
    EraseUnits <- MCEraseUnits
    BufferedUnits <- MCBufferedUnits
    ParsePrivData = TRUE
    MaxEdits = 4
    MaxSaves = 2
    MaxStarts = 2
    MaxFaults = 1
SPECIFICATION Spec
INVARIANTS
    TypeOK
    TableBringsTheRest
    DelRemovesNamed
PROPERTIES
    SavedIsLoaded
    HeadersKept
CHECK_DEADLOCK FALSE

CONSTANTS
    md = md
    sym = sym
    loadfile = loadfile
    typo = typo
    reset = reset
    HeapBase = 1
    HeapSize = 328
    Word = 4096
    Words <- MCWords
    Length <- MCLength
    Registered = {md, loadfile, reset}
    Underscored = {sym}
    BootKeys = {reset}
    Lines <- MCLines
    MaxLines = 5
SPECIFICATION Spec
INVARIANTS
    TypeOK
    PointersLive
    LeakPerLine
    OutOfMemoryIsFinal
CHECK_DEADLOCK FALSE

CONSTANTS
    a = a
    b = b
    NUL = NUL
    Chars <- MCChars
    BufSize = 4
    MaxKeys = 7
SPECIFICATION Spec
INVARIANTS
    TypeOK
    LineKept
    Terminated

\* A ring of four bytes; two phases with their streams; three runs, one after
\* the other, of which any may be killed.
SPECIFICATION MCSpec
CONSTANTS
    a = a
    b = b
    Byte <- Bytes2
    Pieces <- UpToFive
    MaxLog = 4
    Phases = 2
    MaxPiece = 2
    MaxSent = 4
    MaxLine = 2
    MaxOutput = 11
    Overhead = 2
    Escape = 2
    Runs = {r1, r2, r3}
    Foreign = Foreign
    None = None
INVARIANTS
    LinesLogged
    BudgetHeld
    WholeLog
    OutputRemoved
PROPERTIES
    TailSpec
CHECK_DEADLOCK FALSE

\* As in the run of MCOutput.
SPECIFICATION Spec
CONSTANTS
    Phases = 2
    MaxPiece = 2
    MaxSent = 4
    MaxLine = 2
    MaxOutput = 11
    Overhead = 2
    Escape = 2
INVARIANTS BuffersLeftToCopiers
CHECK_DEADLOCK FALSE

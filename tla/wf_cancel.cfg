SPECIFICATION FairSpec
CONSTANTS
    Runs <- OneRun
    Old <- TwoOld
    Clock = {0, 1}
    Taintable = {}
    Squattable <- OneOld
    Keep = 1
    Verifiers = {}
    None = None
PROPERTIES
    CancelEnds

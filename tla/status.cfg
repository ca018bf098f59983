\* One run around two earlier backups, one of which turns invalid, and status
\* beside them.
SPECIFICATION ScanSpec
CONSTANTS
    Runs = {2}
    Old = {1, 3}
    Clock = {0, 1}
    Taintable = {1}
    Squattable = {}
    Keep = 1
    Verifiers = {}
    None = None
INVARIANTS
    ScanInv
    OneNamePerId
    LastSuccessCurrent

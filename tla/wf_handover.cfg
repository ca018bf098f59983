\* Two runs and a verifier around one earlier backup: crashes, power losses
\* and orphaned process groups between them.
SPECIFICATION Spec
CONSTANTS
    Runs <- TwoRuns
    Old <- OneOld
    Clock = {0, 1}
    Taintable = {2}
    Squattable <- OneOld
    Keep = 1
    Verifiers = {v1}
    None = None
INVARIANTS
    NoTornBackup
    SingleWriter
    ChildConfined
PROPERTIES
    AuditStable
    HashedStageKept

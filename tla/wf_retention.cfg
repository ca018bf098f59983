\* One run over every mix of three earlier backups, pending deletions and
\* stages, with a clock that may be set back, and one writer that may take a
\* .deleting- name or make a tree unsafe.
SPECIFICATION Spec
CONSTANTS
    Runs <- OneRun
    Old <- ThreeOld
    Clock = {0, 1}
    Taintable <- OneOld
    Squattable = {3}
    Keep = 2
    Verifiers = {}
    None = None
INVARIANTS
    IInv
    RetentionDone
    NewestKept
    JustCompletedKept
    OneTreePerName
PROPERTIES
    VaultSpec

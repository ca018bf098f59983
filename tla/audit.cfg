\* Two files, of two blocks of a bit at most, that change places, in two ticks.
\* Stages of two to five files, one in a subdirectory and one with a refused name,
\* and two changes by another writer, at any step.
SPECIFICATION MCSpec
CONSTANTS
    Inodes = {1, 2}
    Byte = {0, 1}
    MaxSize = 2
    MaxTick = 1
    Plain = {f1, f2, f3}
    Deep = {f2}
    Refused = {f3}
    Dirs = {1, 2}
    Length <- LineLength
    MaxEntries = 4
    MaxManifest = 4
    MaxChanges = 2
    Meta = Meta
    Checkpoints = Checkpoints
    Sums = Sums
    Top = Top
    None = None
    Garbled = Garbled
INVARIANTS
    QuietAuditIsTrue
    OkUnderWrites
    SealsWithinLimit
PROPERTIES
    DigestOfOneInstant
CHECK_DEADLOCK FALSE

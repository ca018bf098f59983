\* Two backups and an audit; inodes for each to have another .lock open than the
\* one that has the name; words of four bits; up to four directories below /,
\* paths of up to two components and one link; a root two components below /;
\* verify has up to three backups.
SPECIFICATION MCSpec
CONSTANTS
    Runs = {r1, r2}
    Verifiers = {v1}
    Inodes = {1, 2, 3}
    None = None
    ReplaceWhileHeld = FALSE
    Modulus = 16
    RootDir = RootDir
    Dir = {RootDir, d1, d2, d3, d4}
    Component = {a, b}
    MaxLen = 2
    MaxLinks = 1
    Nodes = {0, 1, 2, 3}
    Slash = 0
    Depth = 2
    MaxBackups = 3
INVARIANTS
    ZeroMeansAll
    EverythingTold
    PathsApart
    WalkInv
    WalkedIsDurable
    NobodyIsRefused
    LockInv
    VerdictTrue
PROPERTIES
    LockSpec
CHECK_DEADLOCK FALSE

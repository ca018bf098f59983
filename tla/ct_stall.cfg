SPECIFICATION Spec
CONSTANTS
    Leader = leader
    Helpers = {h1, h2}
    ForkDuringScan = FALSE
INVARIANTS KilledBeforeGivingUp
CHECK_DEADLOCK FALSE

SPECIFICATION Spec
CONSTANTS
    Leader = leader
    Helpers = {h1, h2}
    ForkDuringScan = TRUE
INVARIANTS GoneWhenReturned
CHECK_DEADLOCK FALSE

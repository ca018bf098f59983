SPECIFICATION FairSpec
CONSTANTS
    Leader = leader
    Helpers = {h1, h2}
    ForkDuringScan = FALSE
INVARIANTS CInv GoneWhenReturned OkIsFinal
PROPERTIES SignalsReachTheGroup ContractSpec Ends
CHECK_DEADLOCK FALSE

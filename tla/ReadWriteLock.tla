----------------------------- MODULE ReadWriteLock -----------------------------
(***************************************************************************)
(* What backup and verify rely on when they "have the lock": a run has it  *)
(* alone, verifiers share it.  Nobody waits for it.                        *)
(***************************************************************************)
CONSTANTS Runs, Verifiers

VARIABLE holders

Init == holders = {}

Acquire(p) ==
    /\ p \notin holders
    /\ IF p \in Runs THEN holders = {} ELSE holders \cap Runs = {}
    /\ holders' = holders \cup {p}

\* Returning and dying release it; a power loss does so for all at once.
Release == holders' \in SUBSET holders

Next == Release \/ \E p \in Runs \cup Verifiers : Acquire(p)

Spec == Init /\ [][Next]_holders

=============================================================================

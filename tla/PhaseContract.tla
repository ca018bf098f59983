----------------------------- MODULE PhaseContract -----------------------------
(***************************************************************************)
(* What the workflow may rely on when it runs a phase of xtrabackup: an    *)
(* outcome other than "uncertain" means that the process group is gone, or *)
(* was never started.                                                      *)
(***************************************************************************)
VARIABLES group, outcome

Init == group = "none" /\ outcome = "none"

Start ==
    /\ group = "none" /\ outcome = "none"
    /\ group' = "live"
    /\ UNCHANGED outcome

NeverStarts ==
    /\ group = "none" /\ outcome = "none"
    /\ outcome' \in {"failed", "cancelled"}
    /\ UNCHANGED group

\* Waited for or not, the group comes to its end.
Exits ==
    /\ group = "live"
    /\ group' = "gone"
    /\ UNCHANGED outcome

Ends ==
    /\ group = "gone" /\ outcome = "none"
    /\ outcome' \in {"ok", "failed", "cancelled"}
    /\ UNCHANGED group

GivesUp ==
    /\ group # "none" /\ outcome = "none"
    /\ outcome' = "uncertain"
    /\ UNCHANGED group

Next == Start \/ NeverStarts \/ Exits \/ Ends \/ GivesUp

Spec == Init /\ [][Next]_<<group, outcome>>

=============================================================================

--------------------------------- MODULE Vault ---------------------------------
(***************************************************************************)
(* What retention promises: the set of complete backups that would survive *)
(* a power loss at this instant.  Backups may join it at any time; some    *)
(* leave it only in a step that leaves at least Keep of them.              *)
(***************************************************************************)
EXTENDS Integers, FiniteSets

CONSTANTS Ids, Keep

VARIABLE vault

Init == vault \subseteq Ids

Store ==
    /\ vault' \in SUBSET Ids
    /\ vault \subseteq vault'

Prune ==
    /\ vault' \in SUBSET Ids
    /\ Cardinality(vault') >= Keep

Next == Store \/ Prune

Spec == Init /\ [][Next]_vault

=============================================================================

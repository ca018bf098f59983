--------------------------- MODULE WorkflowInvariant ---------------------------
(***************************************************************************)
(* The inductive invariant of Workflow, in named parts.  TLC checks it on  *)
(* the instances of the runs, WorkflowProofs proves it for all of them.    *)
(***************************************************************************)
EXTENDS Workflow

\* The flock: one run past it, and no verifier beside that run.
LockInv ==
    /\ \A r \in Runs : pc[r] \in LockedPC <=> lockHolder = r
    /\ lockHolder # None => readers = {}

\* Where the tree of a run is, by how far the run has come.
PlaceInv ==
    \A r \in Runs :
        /\ pc[r] \in {"idle", "lock", "inspect", "preflight"} =>
              at[r] = "none" /\ onDisk[r] = "none"
        /\ pc[r] \in Phase \cup StagePC \cup {"dropStage"} => at[r] = "inprogress"
        /\ pc[r] \in {"syncParent"} \cup RetentionPC => at[r] = "backup"

\* What is in it.
ContentInv ==
    \A r \in Runs :
        /\ pc[r] \in Phase \cup {"validate", "describe"} => tree[r] \in {"raw", "prepared"}
        /\ pc[r] \in {"hash"} => tree[r] = "described"
        /\ pc[r] \in {"check", "syncStage", "promote"} => tree[r] = "sealed"
        /\ pc[r] = "promote" => r \in synced

\* From the metadata on, the deferred cleanup leaves the stage alone.
KeepInv ==
    \A r \in Runs :
        /\ pc[r] \in {"hash", "check", "syncStage", "promote"} => r \in keepStage
        /\ pc[r] = "dropStage" /\ tree[r] \in {"described", "sealed"} => r \in keepStage

\* A process group is waited for, or quarantined, or orphaned.
ChildInv ==
    \A r \in Runs :
        /\ Live(r) => at[r] = "inprogress" /\ tree[r] \in {"raw", "prepared"}
        /\ child[r] # "none" =>
              \/ pc[r] \in Phase /\ child[r] \in {pc[r], "exited"}
              \/ Live(r) /\ pc[r] \in {"dropStage", "unlock"} /\ r \in keepStage
              \/ Live(r) /\ pc[r] \in EndPC

\* No stage but its own beside a run that has passed the inspection.
StageInv ==
    \A r \in Runs : pc[r] \in LockedPC \ {"inspect", "unlock"} => Incomplete \subseteq {r}

\* The names on disk lag behind, never ahead, and in the same order.
LagInv ==
    \A i \in Ids :
        /\ onDisk[i] = "backup" => at[i] \in {"backup", "deleting"}
        /\ onDisk[i] = "deleting" => at[i] \in {"deleting", "none"}
        /\ i \in squatter => "deleting" \notin {at[i], onDisk[i]}

\* During retention the names are durable, but for the one just changed.
DurableInv ==
    \A r \in Runs : pc[r] \in RetentionPC =>
        \A i \in Ids :
            /\ at[i] = "backup" => onDisk[i] = "backup"
            /\ onDisk[i] = "backup" =>
                  at[i] = "backup" \/ (pc[r] = "syncRenamed" /\ i = victim[r])
            /\ onDisk[i] = "deleting" =>
                  at[i] = "deleting" \/ pc[r] \in {"removing", "syncRemoved"}

\* The tree a retention loop is working on.
VictimInv ==
    \A r \in Runs :
        /\ pc[r] \in {"rename", "syncRenamed", "removing", "syncRemoved"} =>
              victim[r] \in Ids
        /\ pc[r] = "rename" => victim[r] \in todo[r] \ {r}
        /\ pc[r] = "syncRenamed" => at[victim[r]] = "deleting"
        /\ pc[r] = "removing" =>
              victim[r] \in squatter \/ at[victim[r]] = "deleting"
        /\ pc[r] = "syncRemoved" => at[victim[r]] # "deleting"

LoopPC == RetentionPC \ {"scan"}

\* The completed backups are the new one, those kept and those still to
\* visit, and every kept one is newer than every one still to visit.
LoopOf(r) ==
    /\ pc[r] \notin LoopPC \cup {"unlock"} => todo[r] = {} /\ kept[r] = {}
    /\ pc[r] \in LoopPC =>
          /\ kept[r] \subseteq Completed \ {r}
          /\ Completed \subseteq {r} \cup kept[r] \cup todo[r]
          /\ todo[r] \cap kept[r] = {}
          /\ \A i \in kept[r], j \in todo[r] : Newer(i, j)
          /\ Cardinality(kept[r]) <= Keep - 1
    /\ pc[r] \in {"pending", "prune", "rename"} => todo[r] \subseteq Completed
    /\ pc[r] \in {"syncRenamed", "removing", "syncRemoved"} =>
          /\ todo[r] \ {victim[r]} \subseteq Completed
          /\ IF victim[r] \in pending[r] THEN todo[r] \subseteq Completed
                                        ELSE victim[r] \notin Completed
    /\ pc[r] = "rename" => Cardinality(kept[r]) >= Keep - 1

LoopInv == \A r \in Runs : LoopOf(r)

\* The interrupted deletions are those still to retry, and the one at hand.
PendingInv ==
    \A r \in Runs :
        /\ pc[r] \in {"prune", "rename", "syncRenamed"} => pending[r] = {}
        /\ pc[r] \in {"removing", "syncRemoved"} /\ victim[r] \notin pending[r] =>
              pending[r] = {}
        /\ pc[r] \in LoopPC =>
              \A i \in Ids : at[i] = "deleting" =>
                  \/ i \in pending[r]
                  \/ pc[r] \in {"syncRenamed", "removing"} /\ i = victim[r]

\* A run that has come to its deferred cleanup returns an error.
FailInv == \A r \in Runs : pc[r] = "dropStage" => r \in failed

\* A run about to succeed: nothing is left but what it kept.
DoneInv ==
    \A r \in Runs : pc[r] = "unlock" /\ r \notin failed =>
        /\ at[r] = "backup" /\ onDisk[r] = "backup"
        /\ Completed \subseteq {r} \cup kept[r]
        /\ Cardinality(kept[r]) <= Keep - 1
        /\ \A i \in Ids : "deleting" \notin {at[i], onDisk[i]}

\* A deletion that is not durable yet is covered by Keep durable backups.
Uncovered == {i \in Ids : onDisk[i] = "backup" /\ at[i] # "backup"}
Settled == {i \in Ids : onDisk[i] = "backup" /\ at[i] = "backup"}

CoverInv == Uncovered # {} => Cardinality(Settled) >= Keep

IInv ==
    /\ TypeOK /\ LockInv /\ PlaceInv /\ ContentInv /\ KeepInv /\ ChildInv
    /\ StageInv /\ SingleWriter /\ NoTornBackup /\ LagInv /\ DurableInv
    /\ VictimInv /\ LoopInv /\ PendingInv /\ FailInv /\ DoneInv /\ CoverInv

=============================================================================

------------------------------- MODULE Workflow -------------------------------
(***************************************************************************)
(* backup(): one run creates a stage, lets xtrabackup fill and prepare it, *)
(* seals it with metadata and a manifest, syncs it, promotes it by a       *)
(* rename, and then prunes older backups down to Keep.  Several runs may   *)
(* be started; an exclusive flock lets one at a time past "lock".  Any     *)
(* step may fail, the run may be cancelled or killed, the power may go,    *)
(* and the process group of xtrabackup may outlive the run that started    *)
(* it.                                                                     *)
(*                                                                         *)
(* pc[r] is the call run r makes next.  The locals of a run that has ended *)
(* are reset: they died with its process.                                  *)
(***************************************************************************)
EXTENDS BackupRoot

CONSTANTS
    Keep,       \* config.Keep
    Verifiers,  \* invocations of `xbkeeper verify`
    None

ASSUME KeepAssumption == Keep \in Nat \ {0}
ASSUME NoneAssumption == None \notin Ids

VARIABLES
    lockHolder, \* the run that holds the flock on .lock exclusively
    readers,    \* the verifiers that hold it shared
    pc,         \* the call each run makes next
    child,      \* the xtrabackup process group each run has started
    cancelled,  \* runs whose context is cancelled (SIGINT, SIGTERM)
    keepStage,  \* runs whose deferred cleanup must leave the stage alone
    failed,     \* runs about to return an error
    event,      \* result in the "phase end" event of retention
    pending,    \* interrupted deletions the run has still to retry
    todo,       \* backups the retention loop has still to visit
    kept,       \* older backups it has counted; the code keeps their number
    victim      \* the tree being deleted

lockVars == <<lockHolder, readers>>
keeperVars == <<cancelled, keepStage, failed, event>>
retentionVars == <<pending, todo, kept, victim>>
vars == <<rootVars, lockVars, pc, child, keeperVars, retentionVars>>

Phase == {"version", "backup", "prepare"}
StagePC == {"validate", "describe", "hash", "check", "syncStage", "promote"}
RetentionPC == {"scan", "pending", "prune", "rename", "syncRenamed",
                "removing", "syncRemoved"}
LockedPC == {"inspect", "preflight", "syncParent", "dropStage", "unlock"}
                \cup Phase \cup StagePC \cup RetentionPC
EndPC == {"done", "crashed"}
PC == {"idle", "lock"} \cup LockedPC \cup EndPC

TypeOK ==
    /\ RootTypeOK
    /\ lockHolder \in Runs \cup {None}
    /\ readers \subseteq Verifiers
    /\ pc \in [Runs -> PC]
    /\ child \in [Runs -> Phase \cup {"none", "exited"}]
    /\ cancelled \subseteq Runs
    /\ keepStage \subseteq Runs
    /\ failed \subseteq Runs
    /\ event \in [Runs -> {"none", "ok", "failed"}]
    /\ pending \in [Runs -> SUBSET Ids]
    /\ todo \in [Runs -> SUBSET Ids]
    /\ kept \in [Runs -> SUBSET Ids]
    /\ victim \in [Runs -> Ids \cup {None}]

Init ==
    /\ RootInit
    /\ lockHolder = None
    /\ readers = {}
    /\ pc = [r \in Runs |-> "idle"]
    /\ child = [r \in Runs |-> "none"]
    /\ cancelled = {}
    /\ keepStage = {}
    /\ failed = {}
    /\ event = [r \in Runs |-> "none"]
    /\ pending = [r \in Runs |-> {}]
    /\ todo = [r \in Runs |-> {}]
    /\ kept = [r \in Runs |-> {}]
    /\ victim = [r \in Runs |-> None]

Live(r) == child[r] \in Phase
Active(r) == pc[r] \notin {"idle"} \cup EndPC

Go(r, next) == pc' = [pc EXCEPT ![r] = next]

\* Run r goes on to next, and changes nothing but the root.
Proceed(r, next) ==
    /\ Go(r, next)
    /\ UNCHANGED <<lockVars, child, keeperVars, retentionVars>>

\* Run r returns an error; what is deferred runs from next on.
Fail(r, next) ==
    /\ Go(r, next)
    /\ failed' = failed \cup {r}
    /\ UNCHANGED <<lockVars, cancelled, keepStage, event, retentionVars>>

\* The process of r is gone, and its locals and its flock with it.
End(r, pcEnd) ==
    /\ Go(r, pcEnd)
    /\ lockHolder' = IF lockHolder = r THEN None ELSE lockHolder
    /\ cancelled' = cancelled \ {r}
    /\ keepStage' = keepStage \ {r}
    /\ failed' = failed \ {r}
    /\ event' = [event EXCEPT ![r] = "none"]
    /\ pending' = [pending EXCEPT ![r] = {}]
    /\ todo' = [todo EXCEPT ![r] = {}]
    /\ kept' = [kept EXCEPT ![r] = {}]
    /\ victim' = [victim EXCEPT ![r] = None]
    /\ UNCHANGED <<rootVars, readers>>

(***************************************************************************)
(* Before the stage exists.                                                *)
(***************************************************************************)
OpenBackupRoot(r) ==
    /\ pc[r] = "idle"
    /\ Proceed(r, "lock")
    /\ UNCHANGED rootVars

\* Mutant: a shared flock does not stop a run.
LockMutant(r) ==
    /\ pc[r] = "lock"
    /\ lockHolder = None
    /\ lockHolder' = r
    /\ Go(r, "inspect")
    /\ UNCHANGED <<rootVars, readers, child, keeperVars, retentionVars>>

\* flock(LOCK_EX|LOCK_NB) on the checked .lock.
Lock(r) ==
    /\ pc[r] = "lock"
    /\ lockHolder = None
    /\ readers = {}
    /\ lockHolder' = r
    /\ Go(r, "inspect")
    /\ UNCHANGED <<rootVars, readers, child, keeperVars, retentionVars>>

\* Mutant: a stage left by another run stops nobody.
InspectMutant(r) ==
    /\ pc[r] = "inspect"
    /\ r \notin cancelled
    /\ InventoryValid
    /\ Proceed(r, "preflight")
    /\ UNCHANGED rootVars

\* A broken inventory, or any stage at all, stops the run here.
Inspect(r) ==
    /\ pc[r] = "inspect"
    /\ r \notin cancelled
    /\ InventoryValid
    /\ Incomplete = {}
    /\ Proceed(r, "preflight")
    /\ UNCHANGED rootVars

\* validateRuntime and freeSpace pass, mkdir of the stage.
Preflight(r) ==
    /\ pc[r] = "preflight"
    /\ MakeStage(r)
    /\ Proceed(r, "version")

\* The same, but the private command log cannot be created.
NoCommandLog(r) ==
    /\ pc[r] = "preflight"
    /\ MakeStage(r)
    /\ Fail(r, "dropStage")
    /\ UNCHANGED child

\* Root or lock unusable: nothing to undo but the lock.
FailsEarly(r) ==
    /\ \/ pc[r] \in {"idle", "lock"} /\ End(r, "done")
       \/ pc[r] \in {"inspect", "preflight"} /\ Fail(r, "unlock") /\ UNCHANGED rootVars
    /\ UNCHANGED child

(***************************************************************************)
(* The three xtrabackup phases, seen from the workflow: runChildStreams    *)
(* returns nil or an error only after it has seen the process group gone,  *)
(* or gives up on it within four seconds and says so.                      *)
(***************************************************************************)
StartChild(r) ==
    /\ pc[r] \in Phase
    /\ child[r] = "none"
    /\ r \notin cancelled
    /\ child' = [child EXCEPT ![r] = pc[r]]
    /\ UNCHANGED <<rootVars, lockVars, pc, keeperVars, retentionVars>>

NextPhase == [version |-> "backup", backup |-> "prepare", prepare |-> "validate"]

PhaseEnds(r) ==
    /\ pc[r] \in Phase
    /\ child[r] = "exited"
    /\ r \notin cancelled
    /\ Go(r, NextPhase[pc[r]])
    /\ child' = [child EXCEPT ![r] = "none"]
    /\ UNCHANGED <<rootVars, lockVars, keeperVars, retentionVars>>

\* Not started, exit status, cancellation, failed inspection, bad version.
PhaseFails(r) ==
    /\ pc[r] \in Phase
    /\ child[r] \in {"none", "exited"}
    /\ child' = [child EXCEPT ![r] = "none"]
    /\ Fail(r, "dropStage")
    /\ UNCHANGED rootVars

\* Mutant: an uncertain end is an end like any other.
PhaseUncertainMutant(r) ==
    /\ pc[r] \in Phase
    /\ child[r] # "none"
    /\ child' = [child EXCEPT ![r] = IF Live(r) THEN @ ELSE "none"]
    /\ Fail(r, "dropStage")
    /\ UNCHANGED rootVars

\* Mutant: a group that survives SIGKILL is waited for.
PhaseUncertainWaits(r) ==
    /\ pc[r] \in Phase
    /\ child[r] = "exited"
    /\ child' = [child EXCEPT ![r] = "none"]
    /\ Go(r, "dropStage")
    /\ failed' = failed \cup {r}
    /\ keepStage' = keepStage \cup {r}
    /\ UNCHANGED <<rootVars, lockVars, cancelled, event, retentionVars>>

\* The group cannot be shown gone: the stage is quarantined.
PhaseUncertain(r) ==
    /\ pc[r] \in Phase
    /\ child[r] # "none"
    /\ child' = [child EXCEPT ![r] = IF Live(r) THEN @ ELSE "none"]
    /\ Go(r, "dropStage")
    /\ failed' = failed \cup {r}
    /\ keepStage' = keepStage \cup {r}
    /\ UNCHANGED <<rootVars, lockVars, cancelled, event, retentionVars>>

(***************************************************************************)
(* From a prepared stage to a promoted backup.                             *)
(***************************************************************************)
\* safeTree and checkpoint.
Validate(r) ==
    /\ pc[r] = "validate"
    /\ r \notin unsafe
    /\ tree[r] = "prepared"
    /\ Proceed(r, "describe")
    /\ UNCHANGED rootVars

\* Mutant: the stage may still be dropped after its metadata.
DescribeMutant(r) ==
    /\ pc[r] = "describe"
    /\ tree' = [tree EXCEPT ![r] = "described"]
    /\ \E t \in Clock : stamp' = [stamp EXCEPT ![r] = t]
    /\ Proceed(r, "hash")
    /\ UNCHANGED <<at, onDisk, synced, unsafe, squatter>>

\* xbkeeper.json carries the wall clock, and ends the time when the stage
\* may be dropped.
Describe(r) ==
    /\ pc[r] = "describe"
    /\ tree' = [tree EXCEPT ![r] = "described"]
    /\ \E t \in Clock : stamp' = [stamp EXCEPT ![r] = t]
    /\ keepStage' = keepStage \cup {r}
    /\ Go(r, "hash")
    /\ UNCHANGED <<at, onDisk, synced, unsafe, squatter, lockVars, child,
                   cancelled, failed, event, retentionVars>>

\* generateManifest and the exclusive write of SHA256SUMS.
Hash(r) ==
    /\ pc[r] = "hash"
    /\ r \notin cancelled
    /\ r \notin unsafe
    /\ tree' = [tree EXCEPT ![r] = "sealed"]
    /\ Proceed(r, "check")
    /\ UNCHANGED <<at, onDisk, synced, unsafe, squatter, stamp>>

Check(r) ==
    /\ pc[r] = "check"
    /\ ValidBackup(r)
    /\ r \notin cancelled
    /\ Proceed(r, "syncStage")
    /\ UNCHANGED rootVars

SyncStage(r) ==
    /\ pc[r] = "syncStage"
    /\ r \notin unsafe
    /\ synced' = synced \cup {r}
    /\ Proceed(r, "promote")
    /\ UNCHANGED <<at, onDisk, tree, unsafe, squatter, stamp>>

Promote(r) ==
    /\ pc[r] = "promote"
    /\ r \notin cancelled
    /\ RenameTo(r, "backup")
    /\ Proceed(r, "syncParent")

\* Some call or check between the phases and the rename fails.
FailsWithStage(r) ==
    /\ pc[r] \in StagePC
    /\ Fail(r, "dropStage")
    /\ UNCHANGED <<rootVars, child>>

\* Mutant: the promotion is not synced.
SyncParentMutant(r) ==
    /\ pc[r] = "syncParent"
    /\ Proceed(r, "scan")
    /\ UNCHANGED rootVars

SyncParent(r) ==
    /\ pc[r] = "syncParent"
    /\ SyncRoot
    /\ Proceed(r, "scan")

\* The backup is promoted, perhaps not durably: nothing is pruned.
SyncParentFails(r) ==
    /\ pc[r] = "syncParent"
    /\ Fail(r, "unlock")
    /\ UNCHANGED <<rootVars, child>>

(***************************************************************************)
(* Retention, with the new backup durable: first what an earlier deletion  *)
(* left behind, then the completed backups beyond Keep, newest first.      *)
(***************************************************************************)
\* What the retention loops leave alone when they read or rename.
RetentionStep(r, next) ==
    /\ Go(r, next)
    /\ UNCHANGED <<lockVars, child, keeperVars>>

Scan(r) ==
    /\ pc[r] = "scan"
    /\ r \notin cancelled
    /\ InventoryValid
    /\ pending' = [pending EXCEPT ![r] = PendingDeletions]
    /\ todo' = [todo EXCEPT ![r] = Completed]
    /\ RetentionStep(r, "pending")
    /\ UNCHANGED <<rootVars, kept, victim>>

\* Cancelled after the promotion: the new backup stays, nothing is pruned.
SkipRetention(r) ==
    /\ pc[r] = "scan"
    /\ r \in cancelled
    /\ Fail(r, "unlock")
    /\ UNCHANGED <<rootVars, child>>

\* The tree behind .deleting-i may be deleted.
Removable(i) == i \in squatter \/ (at[i] = "deleting" /\ i \notin unsafe)

RetryDeletion(r) ==
    /\ pc[r] = "pending"
    /\ r \notin cancelled
    /\ \E i \in pending[r] :
          /\ FirstName(i, pending[r])
          /\ Removable(i)
          /\ victim' = [victim EXCEPT ![r] = i]
    /\ RetentionStep(r, "removing")
    /\ UNCHANGED <<rootVars, pending, todo, kept>>

\* Mutant: interrupted deletions are left for another time.
PendingDoneMutant(r) ==
    /\ pc[r] = "pending"
    /\ RetentionStep(r, "prune")
    /\ UNCHANGED <<rootVars, retentionVars>>

PendingDone(r) ==
    /\ pc[r] = "pending"
    /\ pending[r] = {}
    /\ RetentionStep(r, "prune")
    /\ UNCHANGED <<rootVars, retentionVars>>

\* The backup just made is passed over wherever the order puts it.
SkipNew(r) ==
    /\ pc[r] = "prune"
    /\ r \notin cancelled
    /\ Newest(r, todo[r])
    /\ todo' = [todo EXCEPT ![r] = @ \ {r}]
    /\ RetentionStep(r, "prune")
    /\ UNCHANGED <<rootVars, pending, kept, victim>>

\* Mutant: one old backup too many is kept.
KeepOldMutant(r) ==
    /\ pc[r] = "prune"
    /\ r \notin cancelled
    /\ Cardinality(kept[r]) <= Keep - 1
    /\ \E i \in todo[r] \ {r} :
          /\ Newest(i, todo[r])
          /\ kept' = [kept EXCEPT ![r] = @ \cup {i}]
          /\ todo' = [todo EXCEPT ![r] = @ \ {i}]
    /\ RetentionStep(r, "prune")
    /\ UNCHANGED <<rootVars, pending, victim>>

\* One of the Keep - 1 newest besides the backup just made.
KeepOld(r) ==
    /\ pc[r] = "prune"
    /\ r \notin cancelled
    /\ Cardinality(kept[r]) < Keep - 1
    /\ \E i \in todo[r] \ {r} :
          /\ Newest(i, todo[r])
          /\ kept' = [kept EXCEPT ![r] = @ \cup {i}]
          /\ todo' = [todo EXCEPT ![r] = @ \ {i}]
    /\ RetentionStep(r, "prune")
    /\ UNCHANGED <<rootVars, pending, victim>>

\* Mutant: the new backup is pruned like any other.
PruneOldMutant(r) ==
    /\ pc[r] = "prune"
    /\ r \notin cancelled
    /\ Cardinality(kept[r]) >= Keep - 1
    /\ \E i \in todo[r] :
          /\ Newest(i, todo[r])
          /\ ValidBackup(i)
          /\ i \notin squatter
          /\ victim' = [victim EXCEPT ![r] = i]
    /\ RetentionStep(r, "rename")
    /\ UNCHANGED <<rootVars, pending, todo, kept>>

\* Lstat says that .deleting-i is free.
PruneOld(r) ==
    /\ pc[r] = "prune"
    /\ r \notin cancelled
    /\ Cardinality(kept[r]) >= Keep - 1
    /\ \E i \in todo[r] \ {r} :
          /\ Newest(i, todo[r])
          /\ ValidBackup(i)
          /\ i \notin squatter
          /\ victim' = [victim EXCEPT ![r] = i]
    /\ RetentionStep(r, "rename")
    /\ UNCHANGED <<rootVars, pending, todo, kept>>

\* Mutant: a rename that replaces.
RenameOldMutant(r) ==
    /\ pc[r] = "rename"
    /\ r \notin cancelled
    /\ at[victim[r]] = "backup"
    /\ RenameTo(victim[r], "deleting")
    /\ Proceed(r, "syncRenamed")

\* RENAME_NOREPLACE: the name may have been taken since.
RenameOld(r) ==
    /\ pc[r] = "rename"
    /\ r \notin cancelled
    /\ at[victim[r]] = "backup"
    /\ victim[r] \notin squatter
    /\ RenameTo(victim[r], "deleting")
    /\ Proceed(r, "syncRenamed")

\* Mutant: unlinking begins before the rename is durable.
SyncRenamedMutant(r) ==
    /\ pc[r] = "syncRenamed"
    /\ Proceed(r, "removing")
    /\ UNCHANGED rootVars

SyncRenamed(r) ==
    /\ pc[r] = "syncRenamed"
    /\ SyncRoot
    /\ Proceed(r, "removing")

\* removeTree: safeTree has passed, and every entry is checked again.
RemoveSome(r) ==
    /\ pc[r] = "removing"
    /\ r \notin cancelled
    /\ victim[r] \notin squatter \cup unsafe
    /\ UnlinkSome(victim[r])
    /\ Proceed(r, "removing")

RemoveRest(r) ==
    /\ pc[r] = "removing"
    /\ r \notin cancelled
    /\ IF victim[r] \in squatter
       THEN /\ squatter' = squatter \ {victim[r]}
            /\ UNCHANGED <<at, onDisk, tree, synced, unsafe, stamp>>
       ELSE /\ victim[r] \notin unsafe
            /\ UnlinkRest(victim[r])
    /\ Proceed(r, "syncRemoved")

SyncRemoved(r) ==
    /\ pc[r] = "syncRemoved"
    /\ SyncRoot
    /\ LET retried == victim[r] \in pending[r]
       IN  /\ pending' = [pending EXCEPT ![r] = @ \ {victim[r]}]
           /\ todo' = [todo EXCEPT ![r] = IF retried THEN @ ELSE @ \ {victim[r]}]
           /\ RetentionStep(r, IF retried THEN "pending" ELSE "prune")
    /\ victim' = [victim EXCEPT ![r] = None]
    /\ UNCHANGED kept

\* The deferred closure logs ok = (err == nil).
Report(r, result) == event' = [event EXCEPT ![r] = result]

Retained(r) ==
    /\ pc[r] = "prune"
    /\ todo[r] = {}
    /\ Report(r, "ok")
    /\ Go(r, "unlock")
    /\ UNCHANGED <<rootVars, lockVars, child, cancelled, keepStage, failed,
                   retentionVars>>

\* The run returns an error, and the closure logs what err holds.
ReturnError(r, result) ==
    /\ Report(r, result)
    /\ Go(r, "unlock")
    /\ failed' = failed \cup {r}
    /\ UNCHANGED <<rootVars, lockVars, child, cancelled, keepStage,
                   retentionVars>>

FailsInRetention(r) ==
    /\ pc[r] \in RetentionPC
    /\ pc[r] = "pending" => pending[r] # {}
    /\ pc[r] = "prune" => todo[r] # {}
    /\ ReturnError(r, "failed")

\* The name .deleting-i is taken, or cannot be looked up: the error is
\* returned without being assigned to err.
NameTaken(r) ==
    /\ pc[r] = "prune"
    /\ r \notin cancelled
    /\ Cardinality(kept[r]) >= Keep - 1
    /\ \E i \in todo[r] \ {r} : Newest(i, todo[r]) /\ ValidBackup(i)
    /\ ReturnError(r, "ok")

(***************************************************************************)
(* What backup() has deferred.                                             *)
(***************************************************************************)
\* The stage of a failed run is removed if it is safe and not to be kept.
DropSome(r) ==
    /\ pc[r] = "dropStage"
    /\ r \notin keepStage \cup unsafe
    /\ UnlinkSome(r)
    /\ Proceed(r, "dropStage")

DropRest(r) ==
    /\ pc[r] = "dropStage"
    /\ r \notin keepStage \cup unsafe
    /\ UnlinkRest(r)
    /\ Proceed(r, "unlock")

\* It is to be kept, or unsafe, or an entry of it cannot be removed.
LeaveStage(r) ==
    /\ pc[r] = "dropStage"
    /\ Proceed(r, "unlock")
    /\ UNCHANGED rootVars

Unlock(r) ==
    /\ pc[r] = "unlock"
    /\ End(r, "done")
    /\ UNCHANGED child

EarlyStep(r) ==
    \/ OpenBackupRoot(r) \/ Lock(r) \/ Inspect(r)
    \/ Preflight(r) \/ NoCommandLog(r) \/ FailsEarly(r)

PhaseStep(r) ==
    \/ StartChild(r) \/ PhaseEnds(r) \/ PhaseFails(r) \/ PhaseUncertain(r)

SealStep(r) ==
    \/ Validate(r) \/ Describe(r) \/ Hash(r) \/ Check(r) \/ SyncStage(r)
    \/ Promote(r) \/ FailsWithStage(r) \/ SyncParent(r) \/ SyncParentFails(r)

LoopStep(r) ==
    \/ Scan(r) \/ SkipRetention(r) \/ RetryDeletion(r) \/ PendingDone(r)
    \/ SkipNew(r) \/ KeepOld(r) \/ PruneOld(r) \/ Retained(r) \/ FailsInRetention(r)
    \/ NameTaken(r)

DeleteStep(r) ==
    \/ RenameOld(r) \/ SyncRenamed(r) \/ RemoveSome(r) \/ RemoveRest(r)
    \/ SyncRemoved(r)

DeferredStep(r) == DropSome(r) \/ DropRest(r) \/ LeaveStage(r) \/ Unlock(r)

KeeperStep(r) ==
    \/ EarlyStep(r) \/ PhaseStep(r) \/ SealStep(r)
    \/ LoopStep(r) \/ DeleteStep(r) \/ DeferredStep(r)

(***************************************************************************)
(* xtrabackup, and everything else around the runs.                        *)
(***************************************************************************)
\* A live group, waited for or orphaned, rewrites the stage it was given.
ChildWrites(r) ==
    /\ child[r] \in {"backup", "prepare"}
    /\ \E content \in {"raw", "prepared"}, bad \in SUBSET ({r} \cap Taintable) :
          /\ content = "prepared" => child[r] = "prepare"
          /\ tree' = [tree EXCEPT ![r] = content]
          /\ unsafe' = unsafe \cup bad
    /\ synced' = synced \ {r}
    /\ UNCHANGED <<at, onDisk, squatter, stamp, lockVars, pc, child, keeperVars,
                   retentionVars>>

ChildExits(r) ==
    /\ Live(r)
    /\ child' = [child EXCEPT ![r] = IF pc[r] = @ THEN "exited" ELSE "none"]
    /\ UNCHANGED <<rootVars, lockVars, pc, keeperVars, retentionVars>>

Cancel(r) ==
    /\ Active(r)
    /\ cancelled' = cancelled \cup {r}
    /\ UNCHANGED <<rootVars, lockVars, pc, child, keepStage, failed, event,
                   retentionVars>>

\* SIGKILL of the run only: a live group goes on in its own process group.
Crash(r) ==
    /\ Active(r)
    /\ End(r, "crashed")
    /\ child' = [child EXCEPT ![r] = IF Live(r) THEN @ ELSE "none"]

PowerLoss ==
    /\ LosePower
    /\ pc' = [r \in Runs |-> IF Active(r) THEN "crashed" ELSE pc[r]]
    /\ child' = [r \in Runs |-> "none"]
    /\ lockHolder' = None
    /\ readers' = {}
    /\ cancelled' = {}
    /\ keepStage' = {}
    /\ failed' = {}
    /\ event' = [r \in Runs |-> "none"]
    /\ pending' = [r \in Runs |-> {}]
    /\ todo' = [r \in Runs |-> {}]
    /\ kept' = [r \in Runs |-> {}]
    /\ victim' = [r \in Runs |-> None]

\* Only the root changes.
Outside == UNCHANGED <<lockVars, pc, child, keeperVars, retentionVars>>

\* An operator disposes of a stage whose run and process group are gone.
Resolve(i) ==
    /\ at[i] = "inprogress"
    /\ i \in Runs => ~Active(i) /\ ~Live(i)
    /\ at' = [at EXCEPT ![i] = "none"]
    /\ tree' = [tree EXCEPT ![i] = "none"]
    /\ UNCHANGED <<onDisk, synced, unsafe, squatter, stamp>>
    /\ Outside

\* verify takes and drops the shared flock around its audit.
AuditLock(v) ==
    /\ v \notin readers
    /\ lockHolder = None
    /\ readers' = readers \cup {v}
    /\ UNCHANGED <<rootVars, lockHolder, pc, child, keeperVars, retentionVars>>

AuditUnlock(v) ==
    /\ v \in readers
    /\ readers' = readers \ {v}
    /\ UNCHANGED <<rootVars, lockHolder, pc, child, keeperVars, retentionVars>>

AroundRun(r) == ChildWrites(r) \/ ChildExits(r) \/ Cancel(r) \/ Crash(r)

AroundTree(i) == Resolve(i) \/ ((Writeback(i) \/ Taint(i) \/ Squat(i)) /\ Outside)

Audit(v) == AuditLock(v) \/ AuditUnlock(v)

World ==
    \/ \E r \in Runs : AroundRun(r)
    \/ \E i \in Ids : AroundTree(i)
    \/ \E v \in Verifiers : Audit(v)
    \/ PowerLoss

Next == World \/ \E r \in Runs : KeeperStep(r)

Spec == Init /\ [][Next]_vars

(***************************************************************************)
(* Fairness.  No step of a run waits for anything but its live xtrabackup, *)
(* and a cancelled run waits at most four seconds for that.                *)
(***************************************************************************)
Prompt(r) ==
    /\ pc[r] \in Phase /\ Live(r) => r \in cancelled
    /\ KeeperStep(r)

FairSpec == Spec /\ \A r \in Runs : WF_vars(Prompt(r))

(***************************************************************************)
(* Safety.                                                                 *)
(***************************************************************************)
\* A name backup-i, now or after a power loss, only ever stands for a tree
\* that is complete, validated and wholly on stable storage: syncTree comes
\* before the promotion, and no unlink before the .deleting- name is durable.
NoTornBackup ==
    \A i \in Ids : "backup" \in {at[i], onDisk[i]}
                       => tree[i] = "sealed" /\ i \in synced

\* At most one xtrabackup process group is alive, whichever runs were
\* killed, cancelled or gave up on theirs: the quarantined stage stops every
\* later run although the flock is free again.
SingleWriter == \A r, s \in Runs : Live(r) /\ Live(s) => r = s

\* A live group has its stage under the name it was given, and a run that is
\* past the phase neither uses nor removes that stage.
ChildConfined ==
    \A r \in Runs : Live(r) =>
        /\ at[r] = "inprogress"
        /\ \/ pc[r] = child[r]
           \/ pc[r] \in {"dropStage", "unlock"} /\ r \in keepStage
           \/ pc[r] \in EndPC

\* While an audit holds the shared lock no run adds, renames or unlinks a
\* completed backup.
LeavesAuditAlone ==
    \A i \in Ids : readers # {} /\ readers' # {} =>
        /\ at'[i] = "backup" <=> at[i] = "backup"
        /\ at[i] = "backup" => tree'[i] = tree[i]

AuditStable == [][LeavesAuditAlone]_vars

\* A run that succeeds leaves its backup durable, at most Keep backups, and
\* no interrupted deletion, neither now nor after a power loss.
RetentionDone ==
    \A r \in Runs : pc[r] = "unlock" /\ r \notin failed =>
        /\ at[r] = "backup" /\ onDisk[r] = "backup"
        /\ Cardinality(Completed) <= Keep
        /\ \A i \in Ids : "deleting" \notin {at[i], onDisk[i]}

\* What is about to be pruned is older, by its recorded time, than at least
\* Keep - 1 completed backups besides the new one.
NewestKept ==
    \A r \in Runs : pc[r] = "rename" =>
        Cardinality({i \in Completed \ {r} : Newer(i, victim[r])}) >= Keep - 1

\* The backup a run has just made survives its own retention, whatever the
\* wall clock says of its age.
JustCompletedKept ==
    \A r \in Runs : pc[r] \in RetentionPC => at[r] = "backup" /\ onDisk[r] = "backup"

\* No rename ever lands on a directory someone else put there.
OneTreePerName == \A i \in squatter : at[i] # "deleting"

\* Once it has metadata, a stage is not touched by the run that fails on it.
LeavesHashedStage ==
    \A r \in Runs : pc[r] = "dropStage" /\ tree[r] \in {"described", "sealed"} =>
        pc'[r] = "crashed" \/ (at'[r] = at[r] /\ tree'[r] = tree[r])

HashedStageKept == [][LeavesHashedStage]_vars

\* The retention event on stderr carries the result of retention.
RetentionEventHonest == \A r \in Runs : event[r] = "ok" => r \notin failed

(***************************************************************************)
(* Liveness: a cancelled run ends.                                         *)
(***************************************************************************)
CancelEnds == \A r \in Runs : (r \in cancelled) ~> ~Active(r)

(***************************************************************************)
(* What a power loss would leave implements the abstract vault.            *)
(***************************************************************************)
Surviving == {i \in Ids : onDisk[i] = "backup" /\ tree[i] = "sealed" /\ i \in synced}

V == INSTANCE Vault WITH vault <- Surviving

VaultSpec == V!Spec

=============================================================================

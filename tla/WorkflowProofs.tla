---------------------------- MODULE WorkflowProofs ----------------------------
(***************************************************************************)
(* IInv is an invariant of Workflow, for every set of runs, of earlier     *)
(* backups, of verifiers and of clock readings and every Keep >= 1, and    *)
(* the safety properties and the abstract vault follow from it.            *)
(*                                                                         *)
(* One lemma per part of IInv says that every step preserves it, given the *)
(* parts it rests on; each has one step per group of actions.              *)
(***************************************************************************)
EXTENDS WorkflowInvariant, FiniteSetTheorems, TLAPS

USE DEF Place, Content, PC, LockedPC, Phase, StagePC, RetentionPC, EndPC, LoopPC,
        rootVars, lockVars, keeperVars, retentionVars, Go, Proceed, Fail,
        RetentionStep, End, Report, ReturnError, Live, Active, MakeStage,
        RenameTo, SyncRoot, UnlinkSome, UnlinkRest

\* Every run is the id of a stage, and None is not one.
LEMMA RunsAreIds == Runs \subseteq Ids /\ None \notin Ids
  BY NoneAssumption DEF Ids

USE RunsAreIds

\* The sets the loops count are finite.
LEMMA SubsetFinite ==
    ASSUME NEW S \in SUBSET Ids
    PROVE  IsFiniteSet(S) /\ Cardinality(S) \in Nat
  BY IdsAssumption, FS_Subset, FS_CardinalityType

\* Before its first iteration a loop has kept nothing.
LEMMA EmptyKept == Cardinality({}) = 0
  BY FS_EmptySet

\* A step that adds no uncovered deletion, and takes back no settled backup,
\* keeps every deletion covered.
LEMMA CoverMonotone ==
    ASSUME CoverInv, Uncovered' \subseteq Uncovered, Settled \subseteq Settled'
    PROVE  CoverInv'
  <1>1. Settled' \in SUBSET Ids
    BY DEF Settled
  <1>2. /\ Cardinality(Settled) <= Cardinality(Settled')
        /\ Cardinality(Settled) \in Nat /\ Cardinality(Settled') \in Nat
    BY <1>1, SubsetFinite, FS_Subset
  <1>3. QED
    BY <1>2, KeepAssumption DEF CoverInv

\* Every step keeps the types.
LEMMA TypeStep ==
    ASSUME TypeOK, [Next]_vars
    PROVE  TypeOK'
  <1> USE DEF TypeOK, RootTypeOK
  <1>1. ASSUME NEW r \in Runs, EarlyStep(r) PROVE TypeOK'
    <2>1. CASE FailsEarly(r)
      BY <2>1 DEF FailsEarly
    <2>2. CASE \/ OpenBackupRoot(r) \/ Lock(r) \/ Inspect(r)
               \/ Preflight(r) \/ NoCommandLog(r)
      BY <2>2 DEF OpenBackupRoot, Lock, Inspect, Preflight, NoCommandLog, Ids
    <2>3. QED
      BY <1>1, <2>1, <2>2 DEF EarlyStep
  <1>2. ASSUME NEW r \in Runs, PhaseStep(r) PROVE TypeOK'
    BY <1>2 DEF PhaseStep, StartChild, PhaseEnds, PhaseFails, PhaseUncertain,
       NextPhase
  <1>3. ASSUME NEW r \in Runs, SealStep(r) PROVE TypeOK'
    BY <1>3 DEF SealStep, Validate, Describe, Hash, Check, SyncStage, Promote,
       FailsWithStage, SyncParent, SyncParentFails, Ids
  <1>4. ASSUME NEW r \in Runs, LoopStep(r) PROVE TypeOK'
    BY <1>4 DEF LoopStep, Scan, SkipRetention, RetryDeletion, PendingDone,
       SkipNew, KeepOld, PruneOld, Retained, FailsInRetention, NameTaken,
       PendingDeletions, Completed, Newest, FirstName
  <1>5. ASSUME NEW r \in Runs, DeleteStep(r) PROVE TypeOK'
    BY <1>5 DEF DeleteStep, RenameOld, SyncRenamed, RemoveSome, RemoveRest,
       SyncRemoved
  <1>6. ASSUME NEW r \in Runs, DeferredStep(r) PROVE TypeOK'
    <2>1. CASE DropSome(r) \/ DropRest(r) \/ LeaveStage(r)
      BY <2>1 DEF DropSome, DropRest, LeaveStage
    <2>2. CASE Unlock(r)
      BY <2>2 DEF Unlock
    <2>3. QED
      BY <1>6, <2>1, <2>2 DEF DeferredStep
  <1>7. ASSUME NEW r \in Runs, AroundRun(r) PROVE TypeOK'
    <2>1. CASE Crash(r)
      BY <2>1 DEF Crash
    <2>2. CASE ChildWrites(r) \/ ChildExits(r) \/ Cancel(r)
      BY <2>2 DEF ChildWrites, ChildExits, Cancel
    <2>3. QED
      BY <1>7, <2>1, <2>2 DEF AroundRun
  <1>8. ASSUME NEW i \in Ids, AroundTree(i) PROVE TypeOK'
    BY <1>8 DEF AroundTree, Resolve, Writeback, Taint, Squat, Outside
  <1>9. ASSUME NEW v \in Verifiers, Audit(v) PROVE TypeOK'
    BY <1>9 DEF Audit, AuditLock, AuditUnlock
  <1>10. CASE PowerLoss
    BY <1>10 DEF PowerLoss, LosePower
  <1>11. CASE UNCHANGED vars
    BY <1>11 DEF vars
  <1>12. QED
    BY <1>1, <1>2, <1>3, <1>4, <1>5, <1>6, <1>7, <1>8, <1>9, <1>10, <1>11 DEF
       Next, World, KeeperStep

\* The flock passes to one run at a time, and to no run beside a verifier.
LEMMA LockInvStep ==
    ASSUME TypeOK, LockInv, [Next]_vars
    PROVE  LockInv'
  <1> USE DEF TypeOK, RootTypeOK, LockInv
  <1>1. ASSUME NEW r \in Runs, EarlyStep(r) PROVE LockInv'
    BY <1>1 DEF EarlyStep, OpenBackupRoot, Lock, Inspect, Preflight,
       NoCommandLog, FailsEarly
  <1>2. ASSUME NEW r \in Runs, PhaseStep(r) PROVE LockInv'
    BY <1>2 DEF PhaseStep, StartChild, PhaseEnds, PhaseFails, PhaseUncertain,
       NextPhase
  <1>3. ASSUME NEW r \in Runs, SealStep(r) PROVE LockInv'
    BY <1>3 DEF SealStep, Validate, Describe, Hash, Check, SyncStage, Promote,
       FailsWithStage, SyncParent, SyncParentFails
  <1>4. ASSUME NEW r \in Runs, LoopStep(r) PROVE LockInv'
    BY <1>4 DEF LoopStep, Scan, SkipRetention, RetryDeletion, PendingDone,
       SkipNew, KeepOld, PruneOld, Retained, FailsInRetention, NameTaken
  <1>5. ASSUME NEW r \in Runs, DeleteStep(r) PROVE LockInv'
    BY <1>5 DEF DeleteStep, RenameOld, SyncRenamed, RemoveSome, RemoveRest,
       SyncRemoved
  <1>6. ASSUME NEW r \in Runs, DeferredStep(r) PROVE LockInv'
    BY <1>6 DEF DeferredStep, DropSome, DropRest, LeaveStage, Unlock
  <1>7. ASSUME NEW r \in Runs, AroundRun(r) PROVE LockInv'
    BY <1>7 DEF AroundRun, ChildWrites, ChildExits, Cancel, Crash
  <1>8. ASSUME NEW i \in Ids, AroundTree(i) PROVE LockInv'
    BY <1>8 DEF AroundTree, Resolve, Writeback, Taint, Squat, Outside
  <1>9. ASSUME NEW v \in Verifiers, Audit(v) PROVE LockInv'
    BY <1>9 DEF Audit, AuditLock, AuditUnlock
  <1>10. CASE PowerLoss
    BY <1>10 DEF PowerLoss, LosePower
  <1>11. CASE UNCHANGED vars
    BY <1>11 DEF vars
  <1>12. QED
    BY <1>1, <1>2, <1>3, <1>4, <1>5, <1>6, <1>7, <1>8, <1>9, <1>10, <1>11 DEF
       Next, World, KeeperStep

\* The tree of a run is under the name its pc says.
LEMMA PlaceInvStep ==
    ASSUME TypeOK, LockInv, PlaceInv, LagInv, LoopInv, VictimInv, ChildInv,
           [Next]_vars
    PROVE  PlaceInv'
  <1> USE DEF TypeOK, RootTypeOK, LockInv, PlaceInv
  <1>1. ASSUME NEW r \in Runs, EarlyStep(r) PROVE PlaceInv'
    BY <1>1 DEF EarlyStep, OpenBackupRoot, Lock, Inspect, Preflight,
       NoCommandLog, FailsEarly
  <1>2. ASSUME NEW r \in Runs, PhaseStep(r) PROVE PlaceInv'
    BY <1>2 DEF PhaseStep, StartChild, PhaseEnds, PhaseFails, PhaseUncertain,
       NextPhase
  <1>3. ASSUME NEW r \in Runs, SealStep(r) PROVE PlaceInv'
    BY <1>3 DEF SealStep, Validate, Describe, Hash, Check, SyncStage, Promote,
       FailsWithStage, SyncParent, SyncParentFails
  <1>4. ASSUME NEW r \in Runs, LoopStep(r) PROVE PlaceInv'
    BY <1>4 DEF LoopStep, Scan, SkipRetention, RetryDeletion, PendingDone,
       SkipNew, KeepOld, PruneOld, Retained, FailsInRetention, NameTaken
  <1>5. ASSUME NEW r \in Runs, DeleteStep(r) PROVE PlaceInv'
    <2>1. CASE RenameOld(r)
      BY <2>1 DEF RenameOld, VictimInv, LoopInv, LoopOf
    <2>2. CASE RemoveRest(r)
      BY <2>2 DEF RemoveRest, VictimInv
    <2>3. CASE SyncRenamed(r) \/ RemoveSome(r) \/ SyncRemoved(r)
      BY <2>3 DEF SyncRenamed, RemoveSome, SyncRemoved
    <2>4. QED
      BY <1>5, <2>1, <2>2, <2>3 DEF DeleteStep
  <1>6. ASSUME NEW r \in Runs, DeferredStep(r) PROVE PlaceInv'
    BY <1>6 DEF DeferredStep, DropSome, DropRest, LeaveStage, Unlock
  <1>7. ASSUME NEW r \in Runs, AroundRun(r) PROVE PlaceInv'
    BY <1>7 DEF AroundRun, ChildWrites, ChildExits, Cancel, Crash
  <1>8. ASSUME NEW i \in Ids, AroundTree(i) PROVE PlaceInv'
    BY <1>8 DEF AroundTree, Resolve, Writeback, Taint, Squat, Outside, LagInv
  <1>9. ASSUME NEW v \in Verifiers, Audit(v) PROVE PlaceInv'
    BY <1>9 DEF Audit, AuditLock, AuditUnlock
  <1>10. CASE PowerLoss
    BY <1>10 DEF PowerLoss, LosePower
  <1>11. CASE UNCHANGED vars
    BY <1>11 DEF vars
  <1>12. QED
    BY <1>1, <1>2, <1>3, <1>4, <1>5, <1>6, <1>7, <1>8, <1>9, <1>10, <1>11 DEF
       Next, World, KeeperStep

\* Nobody but a run and its live xtrabackup writes to its stage, so the
\* content follows the pc.
LEMMA ContentInvStep ==
    ASSUME TypeOK, LockInv, PlaceInv, ContentInv, ChildInv, VictimInv,
           [Next]_vars
    PROVE  ContentInv'
  <1> USE DEF TypeOK, RootTypeOK, LockInv, PlaceInv, ContentInv
  <1>1. ASSUME NEW r \in Runs, EarlyStep(r) PROVE ContentInv'
    BY <1>1 DEF EarlyStep, OpenBackupRoot, Lock, Inspect, Preflight,
       NoCommandLog, FailsEarly
  <1>2. ASSUME NEW r \in Runs, PhaseStep(r) PROVE ContentInv'
    BY <1>2 DEF PhaseStep, StartChild, PhaseEnds, PhaseFails, PhaseUncertain,
       NextPhase
  <1>3. ASSUME NEW r \in Runs, SealStep(r) PROVE ContentInv'
    BY <1>3 DEF SealStep, Validate, Describe, Hash, Check, SyncStage, Promote,
       FailsWithStage, SyncParent, SyncParentFails, ValidBackup
  <1>4. ASSUME NEW r \in Runs, LoopStep(r) PROVE ContentInv'
    BY <1>4 DEF LoopStep, Scan, SkipRetention, RetryDeletion, PendingDone,
       SkipNew, KeepOld, PruneOld, Retained, FailsInRetention, NameTaken
  <1>5. ASSUME NEW r \in Runs, DeleteStep(r) PROVE ContentInv'
    BY <1>5 DEF DeleteStep, RenameOld, SyncRenamed, RemoveSome, RemoveRest,
       SyncRemoved, VictimInv
  <1>6. ASSUME NEW r \in Runs, DeferredStep(r) PROVE ContentInv'
    BY <1>6 DEF DeferredStep, DropSome, DropRest, LeaveStage, Unlock
  <1>7. ASSUME NEW r \in Runs, AroundRun(r) PROVE ContentInv'
    BY <1>7 DEF AroundRun, ChildWrites, ChildExits, Cancel, Crash, ChildInv
  <1>8. ASSUME NEW i \in Ids, AroundTree(i) PROVE ContentInv'
    BY <1>8 DEF AroundTree, Resolve, Writeback, Taint, Squat, Outside
  <1>9. ASSUME NEW v \in Verifiers, Audit(v) PROVE ContentInv'
    BY <1>9 DEF Audit, AuditLock, AuditUnlock
  <1>10. CASE PowerLoss
    BY <1>10 DEF PowerLoss, LosePower
  <1>11. CASE UNCHANGED vars
    BY <1>11 DEF vars
  <1>12. QED
    BY <1>1, <1>2, <1>3, <1>4, <1>5, <1>6, <1>7, <1>8, <1>9, <1>10, <1>11 DEF
       Next, World, KeeperStep

\* From the metadata on, the stage of a run is marked to be kept.
LEMMA KeepInvStep ==
    ASSUME TypeOK, LockInv, PlaceInv, ContentInv, ChildInv, KeepInv,
           VictimInv, [Next]_vars
    PROVE  KeepInv'
  <1> USE DEF TypeOK, RootTypeOK, LockInv, PlaceInv, ContentInv, KeepInv
  <1>1. ASSUME NEW r \in Runs, EarlyStep(r) PROVE KeepInv'
    BY <1>1 DEF EarlyStep, OpenBackupRoot, Lock, Inspect, Preflight,
       NoCommandLog, FailsEarly
  <1>2. ASSUME NEW r \in Runs, PhaseStep(r) PROVE KeepInv'
    BY <1>2 DEF PhaseStep, StartChild, PhaseEnds, PhaseFails, PhaseUncertain,
       NextPhase
  <1>3. ASSUME NEW r \in Runs, SealStep(r) PROVE KeepInv'
    BY <1>3 DEF SealStep, Validate, Describe, Hash, Check, SyncStage, Promote,
       FailsWithStage, SyncParent, SyncParentFails
  <1>4. ASSUME NEW r \in Runs, LoopStep(r) PROVE KeepInv'
    BY <1>4 DEF LoopStep, Scan, SkipRetention, RetryDeletion, PendingDone,
       SkipNew, KeepOld, PruneOld, Retained, FailsInRetention, NameTaken
  <1>5. ASSUME NEW r \in Runs, DeleteStep(r) PROVE KeepInv'
    BY <1>5 DEF DeleteStep, RenameOld, SyncRenamed, RemoveSome, RemoveRest,
       SyncRemoved, VictimInv
  <1>6. ASSUME NEW r \in Runs, DeferredStep(r) PROVE KeepInv'
    BY <1>6 DEF DeferredStep, DropSome, DropRest, LeaveStage, Unlock
  <1>7. ASSUME NEW r \in Runs, AroundRun(r) PROVE KeepInv'
    BY <1>7 DEF AroundRun, ChildWrites, ChildExits, Cancel, Crash, ChildInv
  <1>8. ASSUME NEW i \in Ids, AroundTree(i) PROVE KeepInv'
    BY <1>8 DEF AroundTree, Resolve, Writeback, Taint, Squat, Outside
  <1>9. ASSUME NEW v \in Verifiers, Audit(v) PROVE KeepInv'
    BY <1>9 DEF Audit, AuditLock, AuditUnlock
  <1>10. CASE PowerLoss
    BY <1>10 DEF PowerLoss, LosePower
  <1>11. CASE UNCHANGED vars
    BY <1>11 DEF vars
  <1>12. QED
    BY <1>1, <1>2, <1>3, <1>4, <1>5, <1>6, <1>7, <1>8, <1>9, <1>10, <1>11 DEF
       Next, World, KeeperStep

\* A process group outlives its phase only beside a stage that is quarantined
\* or orphaned.
LEMMA ChildInvStep ==
    ASSUME TypeOK, LockInv, PlaceInv, ContentInv, ChildInv, VictimInv, [Next]_vars
    PROVE  ChildInv'
  <1> USE DEF TypeOK, RootTypeOK, LockInv, PlaceInv, ContentInv, ChildInv
  <1>1. ASSUME NEW r \in Runs, EarlyStep(r) PROVE ChildInv'
    BY <1>1 DEF EarlyStep, OpenBackupRoot, Lock, Inspect, Preflight,
       NoCommandLog, FailsEarly
  <1>2. ASSUME NEW r \in Runs, PhaseStep(r) PROVE ChildInv'
    BY <1>2 DEF PhaseStep, StartChild, PhaseEnds, PhaseFails, PhaseUncertain,
       NextPhase
  <1>3. ASSUME NEW r \in Runs, SealStep(r) PROVE ChildInv'
    BY <1>3 DEF SealStep, Validate, Describe, Hash, Check, SyncStage, Promote,
       FailsWithStage, SyncParent, SyncParentFails
  <1>4. ASSUME NEW r \in Runs, LoopStep(r) PROVE ChildInv'
    BY <1>4 DEF LoopStep, Scan, SkipRetention, RetryDeletion, PendingDone,
       SkipNew, KeepOld, PruneOld, Retained, FailsInRetention, NameTaken
  <1>5. ASSUME NEW r \in Runs, DeleteStep(r) PROVE ChildInv'
    BY <1>5 DEF DeleteStep, RenameOld, SyncRenamed, RemoveSome, RemoveRest,
       SyncRemoved, VictimInv
  <1>6. ASSUME NEW r \in Runs, DeferredStep(r) PROVE ChildInv'
    BY <1>6 DEF DeferredStep, DropSome, DropRest, LeaveStage, Unlock
  <1>7. ASSUME NEW r \in Runs, AroundRun(r) PROVE ChildInv'
    BY <1>7 DEF AroundRun, ChildWrites, ChildExits, Cancel, Crash
  <1>8. ASSUME NEW i \in Ids, AroundTree(i) PROVE ChildInv'
    BY <1>8 DEF AroundTree, Resolve, Writeback, Taint, Squat, Outside
  <1>9. ASSUME NEW v \in Verifiers, Audit(v) PROVE ChildInv'
    BY <1>9 DEF Audit, AuditLock, AuditUnlock
  <1>10. CASE PowerLoss
    BY <1>10 DEF PowerLoss, LosePower
  <1>11. CASE UNCHANGED vars
    BY <1>11 DEF vars
  <1>12. QED
    BY <1>1, <1>2, <1>3, <1>4, <1>5, <1>6, <1>7, <1>8, <1>9, <1>10, <1>11 DEF
       Next, World, KeeperStep

\* The inspection holds until the run ends: no stage but its own appears.
LEMMA StageInvStep ==
    ASSUME TypeOK, LockInv, PlaceInv, StageInv, [Next]_vars
    PROVE  StageInv'
  <1> USE DEF TypeOK, RootTypeOK, LockInv, PlaceInv, StageInv, Incomplete
  <1>1. ASSUME NEW r \in Runs, EarlyStep(r) PROVE StageInv'
    BY <1>1 DEF EarlyStep, OpenBackupRoot, Lock, Inspect, Preflight,
       NoCommandLog, FailsEarly
  <1>2. ASSUME NEW r \in Runs, PhaseStep(r) PROVE StageInv'
    BY <1>2 DEF PhaseStep, StartChild, PhaseEnds, PhaseFails, PhaseUncertain,
       NextPhase
  <1>3. ASSUME NEW r \in Runs, SealStep(r) PROVE StageInv'
    BY <1>3 DEF SealStep, Validate, Describe, Hash, Check, SyncStage, Promote,
       FailsWithStage, SyncParent, SyncParentFails
  <1>4. ASSUME NEW r \in Runs, LoopStep(r) PROVE StageInv'
    BY <1>4 DEF LoopStep, Scan, SkipRetention, RetryDeletion, PendingDone,
       SkipNew, KeepOld, PruneOld, Retained, FailsInRetention, NameTaken
  <1>5. ASSUME NEW r \in Runs, DeleteStep(r) PROVE StageInv'
    BY <1>5 DEF DeleteStep, RenameOld, SyncRenamed, RemoveSome, RemoveRest,
       SyncRemoved
  <1>6. ASSUME NEW r \in Runs, DeferredStep(r) PROVE StageInv'
    BY <1>6 DEF DeferredStep, DropSome, DropRest, LeaveStage, Unlock
  <1>7. ASSUME NEW r \in Runs, AroundRun(r) PROVE StageInv'
    BY <1>7 DEF AroundRun, ChildWrites, ChildExits, Cancel, Crash
  <1>8. ASSUME NEW i \in Ids, AroundTree(i) PROVE StageInv'
    BY <1>8 DEF AroundTree, Resolve, Writeback, Taint, Squat, Outside
  <1>9. ASSUME NEW v \in Verifiers, Audit(v) PROVE StageInv'
    BY <1>9 DEF Audit, AuditLock, AuditUnlock
  <1>10. CASE PowerLoss
    BY <1>10 DEF PowerLoss, LosePower
  <1>11. CASE UNCHANGED vars
    BY <1>11 DEF vars
  <1>12. QED
    BY <1>1, <1>2, <1>3, <1>4, <1>5, <1>6, <1>7, <1>8, <1>9, <1>10, <1>11 DEF
       Next, World, KeeperStep

\* A second live group would have a second stage, which the inspection
\* refuses.
LEMMA SingleWriterStep ==
    ASSUME TypeOK, ChildInv, StageInv, SingleWriter, [Next]_vars
    PROVE  SingleWriter'
  <1> USE DEF TypeOK, RootTypeOK, SingleWriter, StageInv, ChildInv, Incomplete
  <1>1. ASSUME NEW r \in Runs, EarlyStep(r) PROVE SingleWriter'
    BY <1>1 DEF EarlyStep, OpenBackupRoot, Lock, Inspect, Preflight,
       NoCommandLog, FailsEarly
  <1>2. ASSUME NEW r \in Runs, PhaseStep(r) PROVE SingleWriter'
    BY <1>2 DEF PhaseStep, StartChild, PhaseEnds, PhaseFails, PhaseUncertain,
       NextPhase
  <1>3. ASSUME NEW r \in Runs, SealStep(r) PROVE SingleWriter'
    BY <1>3 DEF SealStep, Validate, Describe, Hash, Check, SyncStage, Promote,
       FailsWithStage, SyncParent, SyncParentFails
  <1>4. ASSUME NEW r \in Runs, LoopStep(r) PROVE SingleWriter'
    BY <1>4 DEF LoopStep, Scan, SkipRetention, RetryDeletion, PendingDone,
       SkipNew, KeepOld, PruneOld, Retained, FailsInRetention, NameTaken
  <1>5. ASSUME NEW r \in Runs, DeleteStep(r) PROVE SingleWriter'
    BY <1>5 DEF DeleteStep, RenameOld, SyncRenamed, RemoveSome, RemoveRest,
       SyncRemoved
  <1>6. ASSUME NEW r \in Runs, DeferredStep(r) PROVE SingleWriter'
    BY <1>6 DEF DeferredStep, DropSome, DropRest, LeaveStage, Unlock
  <1>7. ASSUME NEW r \in Runs, AroundRun(r) PROVE SingleWriter'
    BY <1>7 DEF AroundRun, ChildWrites, ChildExits, Cancel, Crash
  <1>8. ASSUME NEW i \in Ids, AroundTree(i) PROVE SingleWriter'
    BY <1>8 DEF AroundTree, Resolve, Writeback, Taint, Squat, Outside
  <1>9. ASSUME NEW v \in Verifiers, Audit(v) PROVE SingleWriter'
    BY <1>9 DEF Audit, AuditLock, AuditUnlock
  <1>10. CASE PowerLoss
    BY <1>10 DEF PowerLoss, LosePower
  <1>11. CASE UNCHANGED vars
    BY <1>11 DEF vars
  <1>12. QED
    BY <1>1, <1>2, <1>3, <1>4, <1>5, <1>6, <1>7, <1>8, <1>9, <1>10, <1>11 DEF
       Next, World, KeeperStep

\* Names are made durable in the order in which the tree takes them.
LEMMA LagInvStep ==
    ASSUME TypeOK, LockInv, PlaceInv, LagInv, DurableInv, VictimInv,
           [Next]_vars
    PROVE  LagInv'
  <1> USE DEF TypeOK, RootTypeOK, PlaceInv, LagInv
  <1>1. ASSUME NEW r \in Runs, EarlyStep(r) PROVE LagInv'
    BY <1>1 DEF EarlyStep, OpenBackupRoot, Lock, Inspect, Preflight,
       NoCommandLog, FailsEarly
  <1>2. ASSUME NEW r \in Runs, PhaseStep(r) PROVE LagInv'
    BY <1>2 DEF PhaseStep, StartChild, PhaseEnds, PhaseFails, PhaseUncertain,
       NextPhase
  <1>3. ASSUME NEW r \in Runs, SealStep(r) PROVE LagInv'
    BY <1>3 DEF SealStep, Validate, Describe, Hash, Check, SyncStage, Promote,
       FailsWithStage, SyncParent, SyncParentFails
  <1>4. ASSUME NEW r \in Runs, LoopStep(r) PROVE LagInv'
    BY <1>4 DEF LoopStep, Scan, SkipRetention, RetryDeletion, PendingDone,
       SkipNew, KeepOld, PruneOld, Retained, FailsInRetention, NameTaken
  <1>5. ASSUME NEW r \in Runs, DeleteStep(r) PROVE LagInv'
    BY <1>5 DEF DeleteStep, RenameOld, SyncRenamed, RemoveSome, RemoveRest,
       SyncRemoved, VictimInv, DurableInv
  <1>6. ASSUME NEW r \in Runs, DeferredStep(r) PROVE LagInv'
    BY <1>6 DEF DeferredStep, DropSome, DropRest, LeaveStage, Unlock
  <1>7. ASSUME NEW r \in Runs, AroundRun(r) PROVE LagInv'
    BY <1>7 DEF AroundRun, ChildWrites, ChildExits, Cancel, Crash
  <1>8. ASSUME NEW i \in Ids, AroundTree(i) PROVE LagInv'
    BY <1>8 DEF AroundTree, Resolve, Writeback, Taint, Squat, Outside
  <1>9. ASSUME NEW v \in Verifiers, Audit(v) PROVE LagInv'
    BY <1>9 DEF Audit, AuditLock, AuditUnlock
  <1>10. CASE PowerLoss
    BY <1>10 DEF PowerLoss, LosePower
  <1>11. CASE UNCHANGED vars
    BY <1>11 DEF vars
  <1>12. QED
    BY <1>1, <1>2, <1>3, <1>4, <1>5, <1>6, <1>7, <1>8, <1>9, <1>10, <1>11 DEF
       Next, World, KeeperStep

\* A tree is unlinked or rewritten only while no durable name calls it
\* complete.
LEMMA NoTornBackupStep ==
    ASSUME TypeOK, LockInv, PlaceInv, ContentInv, ChildInv, LagInv,
           DurableInv, VictimInv, NoTornBackup, [Next]_vars
    PROVE  NoTornBackup'
  <1> USE DEF TypeOK, RootTypeOK, PlaceInv, NoTornBackup, LagInv
  <1>1. ASSUME NEW r \in Runs, EarlyStep(r) PROVE NoTornBackup'
    BY <1>1 DEF EarlyStep, OpenBackupRoot, Lock, Inspect, Preflight,
       NoCommandLog, FailsEarly
  <1>2. ASSUME NEW r \in Runs, PhaseStep(r) PROVE NoTornBackup'
    BY <1>2 DEF PhaseStep, StartChild, PhaseEnds, PhaseFails, PhaseUncertain,
       NextPhase
  <1>3. ASSUME NEW r \in Runs, SealStep(r) PROVE NoTornBackup'
    BY <1>3 DEF SealStep, Validate, Describe, Hash, Check, SyncStage, Promote,
       FailsWithStage, SyncParent, SyncParentFails, ContentInv
  <1>4. ASSUME NEW r \in Runs, LoopStep(r) PROVE NoTornBackup'
    BY <1>4 DEF LoopStep, Scan, SkipRetention, RetryDeletion, PendingDone,
       SkipNew, KeepOld, PruneOld, Retained, FailsInRetention, NameTaken
  <1>5. ASSUME NEW r \in Runs, DeleteStep(r) PROVE NoTornBackup'
    BY <1>5 DEF DeleteStep, RenameOld, SyncRenamed, RemoveSome, RemoveRest,
       SyncRemoved, VictimInv, DurableInv
  <1>6. ASSUME NEW r \in Runs, DeferredStep(r) PROVE NoTornBackup'
    BY <1>6 DEF DeferredStep, DropSome, DropRest, LeaveStage, Unlock
  <1>7. ASSUME NEW r \in Runs, AroundRun(r) PROVE NoTornBackup'
    BY <1>7 DEF AroundRun, ChildWrites, ChildExits, Cancel, Crash, ChildInv
  <1>8. ASSUME NEW i \in Ids, AroundTree(i) PROVE NoTornBackup'
    BY <1>8 DEF AroundTree, Resolve, Writeback, Taint, Squat, Outside
  <1>9. ASSUME NEW v \in Verifiers, Audit(v) PROVE NoTornBackup'
    BY <1>9 DEF Audit, AuditLock, AuditUnlock
  <1>10. CASE PowerLoss
    BY <1>10 DEF PowerLoss, LosePower
  <1>11. CASE UNCHANGED vars
    BY <1>11 DEF vars
  <1>12. QED
    BY <1>1, <1>2, <1>3, <1>4, <1>5, <1>6, <1>7, <1>8, <1>9, <1>10, <1>11 DEF
       Next, World, KeeperStep

\* The sync of the root before each loop step is what lets the next one
\* unlink.
LEMMA DurableInvStep ==
    ASSUME TypeOK, LockInv, PlaceInv, LagInv, DurableInv, VictimInv,
           PendingInv, [Next]_vars
    PROVE  DurableInv'
  <1> USE DEF TypeOK, RootTypeOK, LockInv, PlaceInv, DurableInv
  <1>1. ASSUME NEW r \in Runs, EarlyStep(r) PROVE DurableInv'
    BY <1>1 DEF EarlyStep, OpenBackupRoot, Lock, Inspect, Preflight,
       NoCommandLog, FailsEarly
  <1>2. ASSUME NEW r \in Runs, PhaseStep(r) PROVE DurableInv'
    BY <1>2 DEF PhaseStep, StartChild, PhaseEnds, PhaseFails, PhaseUncertain,
       NextPhase
  <1>3. ASSUME NEW r \in Runs, SealStep(r) PROVE DurableInv'
    BY <1>3 DEF SealStep, Validate, Describe, Hash, Check, SyncStage, Promote,
       FailsWithStage, SyncParent, SyncParentFails
  <1>4. ASSUME NEW r \in Runs, LoopStep(r) PROVE DurableInv'
    BY <1>4 DEF LoopStep, Scan, SkipRetention, RetryDeletion, PendingDone,
       SkipNew, KeepOld, PruneOld, Retained, FailsInRetention, NameTaken, Removable
  <1>5. ASSUME NEW r \in Runs, DeleteStep(r) PROVE DurableInv'
    BY <1>5 DEF DeleteStep, RenameOld, SyncRenamed, RemoveSome, RemoveRest,
       SyncRemoved, VictimInv
  <1>6. ASSUME NEW r \in Runs, DeferredStep(r) PROVE DurableInv'
    BY <1>6 DEF DeferredStep, DropSome, DropRest, LeaveStage, Unlock
  <1>7. ASSUME NEW r \in Runs, AroundRun(r) PROVE DurableInv'
    BY <1>7 DEF AroundRun, ChildWrites, ChildExits, Cancel, Crash
  <1>8. ASSUME NEW i \in Ids, AroundTree(i) PROVE DurableInv'
    BY <1>8 DEF AroundTree, Resolve, Writeback, Taint, Squat, Outside, LagInv
  <1>9. ASSUME NEW v \in Verifiers, Audit(v) PROVE DurableInv'
    BY <1>9 DEF Audit, AuditLock, AuditUnlock
  <1>10. CASE PowerLoss
    BY <1>10 DEF PowerLoss, LosePower
  <1>11. CASE UNCHANGED vars
    BY <1>11 DEF vars
  <1>12. QED
    BY <1>1, <1>2, <1>3, <1>4, <1>5, <1>6, <1>7, <1>8, <1>9, <1>10, <1>11 DEF
       Next, World, KeeperStep

\* The tree in hand stays the one that was chosen, until its removal is
\* durable.
LEMMA VictimInvStep ==
    ASSUME TypeOK, LockInv, PlaceInv, VictimInv, LagInv, [Next]_vars
    PROVE  VictimInv'
  <1> USE DEF TypeOK, RootTypeOK, LockInv, PlaceInv, VictimInv, LagInv
  <1>1. ASSUME NEW r \in Runs, EarlyStep(r) PROVE VictimInv'
    BY <1>1 DEF EarlyStep, OpenBackupRoot, Lock, Inspect, Preflight,
       NoCommandLog, FailsEarly
  <1>2. ASSUME NEW r \in Runs, PhaseStep(r) PROVE VictimInv'
    BY <1>2 DEF PhaseStep, StartChild, PhaseEnds, PhaseFails, PhaseUncertain,
       NextPhase
  <1>3. ASSUME NEW r \in Runs, SealStep(r) PROVE VictimInv'
    BY <1>3 DEF SealStep, Validate, Describe, Hash, Check, SyncStage, Promote,
       FailsWithStage, SyncParent, SyncParentFails
  <1>4. ASSUME NEW r \in Runs, LoopStep(r) PROVE VictimInv'
    BY <1>4 DEF LoopStep, Scan, SkipRetention, RetryDeletion, PendingDone,
       SkipNew, KeepOld, PruneOld, Retained, FailsInRetention, NameTaken, Removable,
       Newest, FirstName, ValidBackup
  <1>5. ASSUME NEW r \in Runs, DeleteStep(r) PROVE VictimInv'
    BY <1>5 DEF DeleteStep, RenameOld, SyncRenamed, RemoveSome, RemoveRest,
       SyncRemoved
  <1>6. ASSUME NEW r \in Runs, DeferredStep(r) PROVE VictimInv'
    BY <1>6 DEF DeferredStep, DropSome, DropRest, LeaveStage, Unlock
  <1>7. ASSUME NEW r \in Runs, AroundRun(r) PROVE VictimInv'
    BY <1>7 DEF AroundRun, ChildWrites, ChildExits, Cancel, Crash
  <1>8. ASSUME NEW i \in Ids, AroundTree(i) PROVE VictimInv'
    BY <1>8 DEF AroundTree, Resolve, Writeback, Taint, Squat, Outside
  <1>9. ASSUME NEW v \in Verifiers, Audit(v) PROVE VictimInv'
    BY <1>9 DEF Audit, AuditLock, AuditUnlock
  <1>10. CASE PowerLoss
    BY <1>10 DEF PowerLoss, LosePower
  <1>11. CASE UNCHANGED vars
    BY <1>11 DEF vars
  <1>12. QED
    BY <1>1, <1>2, <1>3, <1>4, <1>5, <1>6, <1>7, <1>8, <1>9, <1>10, <1>11 DEF
       Next, World, KeeperStep

\* No interrupted deletion escapes the two loops.
LEMMA PendingInvStep ==
    ASSUME TypeOK, LockInv, PlaceInv, VictimInv, LagInv, PendingInv,
           [Next]_vars
    PROVE  PendingInv'
  <1> USE DEF TypeOK, RootTypeOK, LockInv, PlaceInv, PendingInv
  <1>1. ASSUME NEW r \in Runs, EarlyStep(r) PROVE PendingInv'
    BY <1>1 DEF EarlyStep, OpenBackupRoot, Lock, Inspect, Preflight,
       NoCommandLog, FailsEarly
  <1>2. ASSUME NEW r \in Runs, PhaseStep(r) PROVE PendingInv'
    BY <1>2 DEF PhaseStep, StartChild, PhaseEnds, PhaseFails, PhaseUncertain,
       NextPhase
  <1>3. ASSUME NEW r \in Runs, SealStep(r) PROVE PendingInv'
    BY <1>3 DEF SealStep, Validate, Describe, Hash, Check, SyncStage, Promote,
       FailsWithStage, SyncParent, SyncParentFails
  <1>4. ASSUME NEW r \in Runs, LoopStep(r) PROVE PendingInv'
    BY <1>4 DEF LoopStep, Scan, SkipRetention, RetryDeletion, PendingDone,
       SkipNew, KeepOld, PruneOld, Retained, FailsInRetention, NameTaken,
       PendingDeletions, Completed
  <1>5. ASSUME NEW r \in Runs, DeleteStep(r) PROVE PendingInv'
    <2>1. CASE RenameOld(r)
      BY <2>1 DEF RenameOld
    <2>2. CASE SyncRenamed(r) \/ RemoveSome(r)
      BY <2>2 DEF SyncRenamed, RemoveSome
    <2>3. CASE RemoveRest(r)
      BY <2>3 DEF RemoveRest, VictimInv, LagInv
    <2>4. CASE SyncRemoved(r)
      BY <2>4 DEF SyncRemoved, VictimInv
    <2>5. QED
      BY <1>5, <2>1, <2>2, <2>3, <2>4 DEF DeleteStep
  <1>6. ASSUME NEW r \in Runs, DeferredStep(r) PROVE PendingInv'
    BY <1>6 DEF DeferredStep, DropSome, DropRest, LeaveStage, Unlock
  <1>7. ASSUME NEW r \in Runs, AroundRun(r) PROVE PendingInv'
    BY <1>7 DEF AroundRun, ChildWrites, ChildExits, Cancel, Crash
  <1>8. ASSUME NEW i \in Ids, AroundTree(i) PROVE PendingInv'
    BY <1>8 DEF AroundTree, Resolve, Writeback, Taint, Squat, Outside
  <1>9. ASSUME NEW v \in Verifiers, Audit(v) PROVE PendingInv'
    BY <1>9 DEF Audit, AuditLock, AuditUnlock
  <1>10. CASE PowerLoss
    BY <1>10 DEF PowerLoss, LosePower
  <1>11. CASE UNCHANGED vars
    BY <1>11 DEF vars
  <1>12. QED
    BY <1>1, <1>2, <1>3, <1>4, <1>5, <1>6, <1>7, <1>8, <1>9, <1>10, <1>11 DEF
       Next, World, KeeperStep

\* The loop keeps the newest backups, and loses count of none.
LEMMA LoopInvStep ==
    ASSUME TypeOK, LockInv, PlaceInv, VictimInv, LagInv, PendingInv, LoopInv,
           [Next]_vars
    PROVE  LoopInv'
  <1> USE DEF TypeOK, RootTypeOK, LockInv, PlaceInv, LoopInv, LoopOf, Newer,
     Completed
  <1>1. ASSUME NEW r \in Runs, EarlyStep(r) PROVE LoopInv'
    BY <1>1 DEF EarlyStep, OpenBackupRoot, Lock, Inspect, Preflight,
       NoCommandLog, FailsEarly
  <1>2. ASSUME NEW r \in Runs, PhaseStep(r) PROVE LoopInv'
    BY <1>2 DEF PhaseStep, StartChild, PhaseEnds, PhaseFails, PhaseUncertain,
       NextPhase
  <1>3. ASSUME NEW r \in Runs, SealStep(r) PROVE LoopInv'
    BY <1>3 DEF SealStep, Validate, Describe, Hash, Check, SyncStage, Promote,
       FailsWithStage, SyncParent, SyncParentFails
  <1>4. ASSUME NEW r \in Runs, LoopStep(r) PROVE LoopInv'
    <2>1. CASE Scan(r)
      <3>1. kept[r] = {}
        BY <2>1 DEF Scan
      <3>2. Cardinality(kept[r]) <= Keep - 1
        BY <3>1, EmptyKept, KeepAssumption
      <3>3. ASSUME NEW q \in Runs \ {r} PROVE LoopOf(q)'
        BY <2>1 DEF Scan
      <3>4. LoopOf(r)'
        BY <2>1, <3>1, <3>2 DEF Scan
      <3>5. QED
        BY <3>3, <3>4
    <2>2. CASE KeepOld(r)
      <3>1. PICK i \in todo[r] \ {r} :
               /\ Newest(i, todo[r])
               /\ kept' = [kept EXCEPT ![r] = @ \cup {i}]
               /\ todo' = [todo EXCEPT ![r] = @ \ {i}]
        BY <2>2 DEF KeepOld
      <3>2. Cardinality(kept'[r]) = Cardinality(kept[r]) + 1
        BY <2>2, <3>1, SubsetFinite, FS_AddElement DEF KeepOld
      <3>3. Cardinality(kept'[r]) <= Keep - 1
        BY <2>2, <3>2, SubsetFinite, KeepAssumption DEF KeepOld
      <3>4. QED
        BY <2>2, <3>1, <3>3 DEF KeepOld, Newest
    <2>3. CASE PruneOld(r)
      BY <2>3, SubsetFinite, KeepAssumption DEF PruneOld, Newest
    <2>4. CASE RetryDeletion(r)
      BY <2>4 DEF RetryDeletion, FirstName
    <2>5. CASE \/ SkipRetention(r) \/ PendingDone(r) \/ Retained(r)
               \/ FailsInRetention(r) \/ NameTaken(r) \/ SkipNew(r)
      BY <2>5 DEF SkipRetention, PendingDone, Retained, FailsInRetention,
         NameTaken, SkipNew
    <2>6. QED
      BY <1>4, <2>1, <2>2, <2>3, <2>4, <2>5 DEF LoopStep
  <1>5. ASSUME NEW r \in Runs, DeleteStep(r) PROVE LoopInv'
    <2>1. CASE RenameOld(r)
      BY <2>1 DEF RenameOld, VictimInv, PendingInv
    <2>2. CASE SyncRenamed(r)
      BY <2>2 DEF SyncRenamed, VictimInv
    <2>3. CASE RemoveSome(r)
      BY <2>3 DEF RemoveSome, VictimInv
    <2>4. CASE RemoveRest(r)
      BY <2>4 DEF RemoveRest, VictimInv, LagInv
    <2>5. CASE SyncRemoved(r)
      BY <2>5 DEF SyncRemoved, VictimInv
    <2>6. QED
      BY <1>5, <2>1, <2>2, <2>3, <2>4, <2>5 DEF DeleteStep
  <1>6. ASSUME NEW r \in Runs, DeferredStep(r) PROVE LoopInv'
    BY <1>6 DEF DeferredStep, DropSome, DropRest, LeaveStage, Unlock
  <1>7. ASSUME NEW r \in Runs, AroundRun(r) PROVE LoopInv'
    BY <1>7 DEF AroundRun, ChildWrites, ChildExits, Cancel, Crash
  <1>8. ASSUME NEW i \in Ids, AroundTree(i) PROVE LoopInv'
    BY <1>8 DEF AroundTree, Resolve, Writeback, Taint, Squat, Outside
  <1>9. ASSUME NEW v \in Verifiers, Audit(v) PROVE LoopInv'
    BY <1>9 DEF Audit, AuditLock, AuditUnlock
  <1>10. CASE PowerLoss
    BY <1>10 DEF PowerLoss, LosePower
  <1>11. CASE UNCHANGED vars
    BY <1>11 DEF vars
  <1>12. QED
    BY <1>1, <1>2, <1>3, <1>4, <1>5, <1>6, <1>7, <1>8, <1>9, <1>10, <1>11 DEF
       Next, World, KeeperStep

\* Only a failed run comes to the deferred removal of its stage.
LEMMA FailInvStep ==
    ASSUME TypeOK, LockInv, FailInv, [Next]_vars
    PROVE  FailInv'
  <1> USE DEF TypeOK, RootTypeOK, LockInv, FailInv
  <1>1. ASSUME NEW r \in Runs, EarlyStep(r) PROVE FailInv'
    BY <1>1 DEF EarlyStep, OpenBackupRoot, Lock, Inspect, Preflight,
       NoCommandLog, FailsEarly
  <1>2. ASSUME NEW r \in Runs, PhaseStep(r) PROVE FailInv'
    BY <1>2 DEF PhaseStep, StartChild, PhaseEnds, PhaseFails, PhaseUncertain,
       NextPhase
  <1>3. ASSUME NEW r \in Runs, SealStep(r) PROVE FailInv'
    BY <1>3 DEF SealStep, Validate, Describe, Hash, Check, SyncStage, Promote,
       FailsWithStage, SyncParent, SyncParentFails
  <1>4. ASSUME NEW r \in Runs, LoopStep(r) PROVE FailInv'
    BY <1>4 DEF LoopStep, Scan, SkipRetention, RetryDeletion, PendingDone,
       SkipNew, KeepOld, PruneOld, Retained, FailsInRetention, NameTaken
  <1>5. ASSUME NEW r \in Runs, DeleteStep(r) PROVE FailInv'
    BY <1>5 DEF DeleteStep, RenameOld, SyncRenamed, RemoveSome, RemoveRest,
       SyncRemoved
  <1>6. ASSUME NEW r \in Runs, DeferredStep(r) PROVE FailInv'
    BY <1>6 DEF DeferredStep, DropSome, DropRest, LeaveStage, Unlock
  <1>7. ASSUME NEW r \in Runs, AroundRun(r) PROVE FailInv'
    BY <1>7 DEF AroundRun, ChildWrites, ChildExits, Cancel, Crash
  <1>8. ASSUME NEW i \in Ids, AroundTree(i) PROVE FailInv'
    BY <1>8 DEF AroundTree, Resolve, Writeback, Taint, Squat, Outside
  <1>9. ASSUME NEW v \in Verifiers, Audit(v) PROVE FailInv'
    BY <1>9 DEF Audit, AuditLock, AuditUnlock
  <1>10. CASE PowerLoss
    BY <1>10 DEF PowerLoss, LosePower
  <1>11. CASE UNCHANGED vars
    BY <1>11 DEF vars
  <1>12. QED
    BY <1>1, <1>2, <1>3, <1>4, <1>5, <1>6, <1>7, <1>8, <1>9, <1>10, <1>11 DEF
       Next, World, KeeperStep

\* What the loops have established still holds when the lock is released.
LEMMA DoneInvStep ==
    ASSUME TypeOK, LockInv, PlaceInv, LagInv, DurableInv, LoopInv,
           PendingInv, FailInv, DoneInv, [Next]_vars
    PROVE  DoneInv'
  <1> USE DEF TypeOK, RootTypeOK, LockInv, PlaceInv, LagInv, DoneInv,
     Completed
  <1>1. ASSUME NEW r \in Runs, EarlyStep(r) PROVE DoneInv'
    BY <1>1 DEF EarlyStep, OpenBackupRoot, Lock, Inspect, Preflight,
       NoCommandLog, FailsEarly
  <1>2. ASSUME NEW r \in Runs, PhaseStep(r) PROVE DoneInv'
    BY <1>2 DEF PhaseStep, StartChild, PhaseEnds, PhaseFails, PhaseUncertain,
       NextPhase
  <1>3. ASSUME NEW r \in Runs, SealStep(r) PROVE DoneInv'
    BY <1>3 DEF SealStep, Validate, Describe, Hash, Check, SyncStage, Promote,
       FailsWithStage, SyncParent, SyncParentFails
  <1>4. ASSUME NEW r \in Runs, LoopStep(r) PROVE DoneInv'
    BY <1>4 DEF LoopStep, Scan, SkipRetention, RetryDeletion, PendingDone,
       SkipNew, KeepOld, PruneOld, Retained, FailsInRetention, NameTaken, DurableInv,
       LoopInv, LoopOf, PendingInv
  <1>5. ASSUME NEW r \in Runs, DeleteStep(r) PROVE DoneInv'
    BY <1>5 DEF DeleteStep, RenameOld, SyncRenamed, RemoveSome, RemoveRest,
       SyncRemoved
  <1>6. ASSUME NEW r \in Runs, DeferredStep(r) PROVE DoneInv'
    BY <1>6 DEF DeferredStep, DropSome, DropRest, LeaveStage, Unlock, FailInv
  <1>7. ASSUME NEW r \in Runs, AroundRun(r) PROVE DoneInv'
    BY <1>7 DEF AroundRun, ChildWrites, ChildExits, Cancel, Crash
  <1>8. ASSUME NEW i \in Ids, AroundTree(i) PROVE DoneInv'
    BY <1>8 DEF AroundTree, Resolve, Writeback, Taint, Squat, Outside
  <1>9. ASSUME NEW v \in Verifiers, Audit(v) PROVE DoneInv'
    BY <1>9 DEF Audit, AuditLock, AuditUnlock
  <1>10. CASE PowerLoss
    BY <1>10 DEF PowerLoss, LosePower
  <1>11. CASE UNCHANGED vars
    BY <1>11 DEF vars
  <1>12. QED
    BY <1>1, <1>2, <1>3, <1>4, <1>5, <1>6, <1>7, <1>8, <1>9, <1>10, <1>11 DEF
       Next, World, KeeperStep

\* When a completed name is given up, Keep others are already durable.
LEMMA CoverInvStep ==
    ASSUME TypeOK, LockInv, PlaceInv, LagInv, DurableInv, VictimInv, LoopInv,
           CoverInv, [Next]_vars
    PROVE  CoverInv'
  <1> USE DEF TypeOK, RootTypeOK, PlaceInv, LagInv, Settled, Uncovered
  <1>1. ASSUME NEW r \in Runs, EarlyStep(r) PROVE CoverInv'
    BY <1>1, CoverMonotone DEF EarlyStep, OpenBackupRoot, Lock, Inspect, Preflight,
       NoCommandLog, FailsEarly
  <1>2. ASSUME NEW r \in Runs, PhaseStep(r) PROVE CoverInv'
    BY <1>2, CoverMonotone DEF PhaseStep, StartChild, PhaseEnds, PhaseFails, PhaseUncertain,
       NextPhase
  <1>3. ASSUME NEW r \in Runs, SealStep(r) PROVE CoverInv'
    <2>1. CASE SyncParent(r)
      BY <2>1 DEF SyncParent, CoverInv
    <2>2. CASE Promote(r)
      BY <2>2, CoverMonotone DEF Promote
    <2>3. CASE \/ Validate(r) \/ Describe(r) \/ Hash(r) \/ Check(r) \/ SyncStage(r)
               \/ FailsWithStage(r) \/ SyncParentFails(r)
      BY <2>3, CoverMonotone DEF Validate, Describe, Hash, Check, SyncStage, FailsWithStage,
         SyncParentFails
    <2>4. QED
      BY <1>3, <2>1, <2>2, <2>3 DEF SealStep
  <1>4. ASSUME NEW r \in Runs, LoopStep(r) PROVE CoverInv'
    BY <1>4, CoverMonotone DEF LoopStep, Scan, SkipRetention, RetryDeletion, PendingDone,
       SkipNew, KeepOld, PruneOld, Retained, FailsInRetention, NameTaken
  <1>5. ASSUME NEW r \in Runs, DeleteStep(r) PROVE CoverInv'
    <2>1. CASE RenameOld(r)
      <3> DEFINE S == kept[r] \cup {r}
      <3>1. S \in SUBSET Ids /\ Cardinality(S) >= Keep
        <4>1. kept[r] \in SUBSET Ids /\ r \notin kept[r] /\ Cardinality(kept[r]) >= Keep - 1
          BY <2>1 DEF RenameOld, LoopInv, LoopOf, Completed
        <4>2. Cardinality(S) = Cardinality(kept[r]) + 1
          BY <4>1, SubsetFinite, FS_AddElement
        <4>3. QED
          BY <4>1, <4>2, SubsetFinite, KeepAssumption
      <3>2. S \subseteq Settled'
        BY <2>1 DEF RenameOld, LoopInv, LoopOf, VictimInv, DurableInv, Completed
      <3>3. Settled' \in SUBSET Ids
        OBVIOUS
      <3>4. Cardinality(S) <= Cardinality(Settled')
        BY <3>2, <3>3, SubsetFinite, FS_Subset
      <3> QED
        BY <3>1, <3>2, <3>3, <3>4, SubsetFinite, KeepAssumption DEF CoverInv
    <2>2. CASE RemoveSome(r)
      BY <2>2, CoverMonotone DEF RemoveSome
    <2>3. CASE RemoveRest(r)
      BY <2>3, CoverMonotone DEF RemoveRest, VictimInv
    <2>4. CASE SyncRenamed(r) \/ SyncRemoved(r)
      BY <2>4 DEF SyncRenamed, SyncRemoved, CoverInv
    <2>5. QED
      BY <1>5, <2>1, <2>2, <2>3, <2>4 DEF DeleteStep
  <1>6. ASSUME NEW r \in Runs, DeferredStep(r) PROVE CoverInv'
    BY <1>6, CoverMonotone DEF DeferredStep, DropSome, DropRest, LeaveStage, Unlock
  <1>7. ASSUME NEW r \in Runs, AroundRun(r) PROVE CoverInv'
    BY <1>7, CoverMonotone DEF AroundRun, ChildWrites, ChildExits, Cancel, Crash
  <1>8. ASSUME NEW i \in Ids, AroundTree(i) PROVE CoverInv'
    BY <1>8, CoverMonotone DEF AroundTree, Resolve, Writeback, Taint, Squat, Outside
  <1>9. ASSUME NEW v \in Verifiers, Audit(v) PROVE CoverInv'
    BY <1>9, CoverMonotone DEF Audit, AuditLock, AuditUnlock
  <1>10. CASE PowerLoss
    BY <1>10 DEF PowerLoss, LosePower, CoverInv
  <1>11. CASE UNCHANGED vars
    BY <1>11, CoverMonotone DEF vars
  <1>12. QED
    BY <1>1, <1>2, <1>3, <1>4, <1>5, <1>6, <1>7, <1>8, <1>9, <1>10, <1>11 DEF
       Next, World, KeeperStep


(***************************************************************************)
(* The inductive invariant.                                                *)
(***************************************************************************)
\* The root as earlier invocations leave it, and no run started yet.
LEMMA InitIInv == Init => IInv
  <1> SUFFICES ASSUME Init PROVE IInv
    OBVIOUS
  <1> USE DEF Init, RootInit
  <1>1. TypeOK
    BY ClockAssumption DEF TypeOK, RootTypeOK, Completed, Ids
  <1>2. LockInv /\ PlaceInv /\ ContentInv /\ KeepInv /\ ChildInv /\ StageInv
    BY DEF LockInv, PlaceInv, ContentInv, KeepInv, ChildInv, StageInv
  <1>3. SingleWriter /\ NoTornBackup /\ LagInv
    BY DEF SingleWriter, NoTornBackup, LagInv, Completed
  <1>4. DurableInv /\ VictimInv /\ LoopInv /\ PendingInv
    BY DEF DurableInv, VictimInv, LoopInv, LoopOf, PendingInv
  <1>5. FailInv /\ DoneInv /\ CoverInv
    BY DEF FailInv, DoneInv, CoverInv, Uncovered
  <1>6. QED
    BY <1>1, <1>2, <1>3, <1>4, <1>5 DEF IInv

\* Every step of a run and of the world around it preserves IInv.
LEMMA NextIInv == IInv /\ [Next]_vars => IInv'
  <1> SUFFICES ASSUME IInv, [Next]_vars PROVE IInv'
    OBVIOUS
  <1> USE DEF IInv
  <1>1. TypeOK' /\ LockInv' /\ PlaceInv' /\ ContentInv' /\ KeepInv'
    BY TypeStep, LockInvStep, PlaceInvStep, ContentInvStep, KeepInvStep
  <1>2. ChildInv' /\ StageInv' /\ SingleWriter' /\ NoTornBackup' /\ LagInv'
    BY ChildInvStep, StageInvStep, SingleWriterStep, NoTornBackupStep, LagInvStep
  <1>3. DurableInv' /\ VictimInv' /\ LoopInv' /\ PendingInv'
    BY DurableInvStep, VictimInvStep, LoopInvStep, PendingInvStep
  <1>4. FailInv' /\ DoneInv' /\ CoverInv'
    BY FailInvStep, DoneInvStep, CoverInvStep
  <1>5. QED
    BY <1>1, <1>2, <1>3, <1>4

\* IInv holds in every reachable state.
THEOREM Invariant == Spec => []IInv
  BY InitIInv, NextIInv, PTL DEF Spec

(***************************************************************************)
(* What follows from it.                                                   *)
(***************************************************************************)
\* Every variable keeps its type.
THEOREM TypeCorrect == Spec => []TypeOK
  <1>1. IInv => TypeOK
    BY DEF IInv
  <1>2. QED
    BY <1>1, Invariant, PTL

\* A completed name, in the root or on disk, always stands for a complete
\* and synced backup.
THEOREM BackupsWhole == Spec => []NoTornBackup
  <1>1. IInv => NoTornBackup
    BY DEF IInv
  <1>2. QED
    BY <1>1, Invariant, PTL

\* One xtrabackup process group at most is alive, even when runs have been
\* killed or have given up on theirs.
THEOREM OneWriter == Spec => []SingleWriter
  <1>1. IInv => SingleWriter
    BY DEF IInv
  <1>2. QED
    BY <1>1, Invariant, PTL

\* A process group that is alive still has its stage, and its run has left
\* that stage alone.
THEOREM StageOfLiveChild == Spec => []ChildConfined
  <1>1. IInv => ChildConfined
    BY DEF IInv, ChildInv, ChildConfined
  <1>2. QED
    BY <1>1, Invariant, PTL

\* Retention never gives up the backup it runs for.
THEOREM NewBackupStays == Spec => []JustCompletedKept
  <1>1. IInv => JustCompletedKept
    BY DEF IInv, PlaceInv, DurableInv, JustCompletedKept
  <1>2. QED
    BY <1>1, Invariant, PTL

\* A rename never lands on a foreign directory.
THEOREM NoClobber == Spec => []OneTreePerName
  <1>1. IInv => OneTreePerName
    BY DEF IInv, TypeOK, RootTypeOK, LagInv, OneTreePerName
  <1>2. QED
    BY <1>1, Invariant, PTL

\* What is renamed away has at least Keep - 1 newer backups besides the one
\* the run has just made.
THEOREM PrunesOldest == Spec => []NewestKept
  <1>1. ASSUME IInv PROVE NewestKept
    <2> SUFFICES ASSUME NEW r \in Runs, pc[r] = "rename"
                 PROVE  Cardinality({i \in Completed \ {r} : Newer(i, victim[r])}) >= Keep - 1
      BY DEF NewestKept
    <2> DEFINE Others == {i \in Completed \ {r} : Newer(i, victim[r])}
    <2>1. victim[r] \in todo[r] /\ LoopOf(r)
      BY <1>1 DEF IInv, VictimInv, LoopInv
    <2>2. kept[r] \subseteq Others /\ Cardinality(kept[r]) >= Keep - 1
      BY <2>1 DEF LoopOf
    <2>3. Others \in SUBSET Ids
      BY DEF Completed
    <2>4. Cardinality(kept[r]) <= Cardinality(Others)
      BY <2>2, <2>3, SubsetFinite, FS_Subset
    <2>5. kept[r] \in SUBSET Ids
      BY <2>2, <2>3
    <2>6. QED
      BY <2>2, <2>3, <2>4, <2>5, SubsetFinite, KeepAssumption
  <1>2. QED
    BY <1>1, Invariant, PTL

\* A run that succeeds leaves its own backup durable, at most Keep backups
\* and no trace of a deletion.
THEOREM SuccessMeansDone == Spec => []RetentionDone
  <1>1. ASSUME IInv PROVE RetentionDone
    <2> SUFFICES ASSUME NEW r \in Runs, pc[r] = "unlock", r \notin failed
                 PROVE  Cardinality(Completed) <= Keep
      BY <1>1 DEF IInv, DoneInv, RetentionDone
    <2>1. Completed \subseteq kept[r] \cup {r} /\ Cardinality(kept[r]) <= Keep - 1
      BY <1>1 DEF IInv, DoneInv
    <2>2. kept[r] \in SUBSET Ids
      BY <1>1 DEF IInv, TypeOK
    <2>3. Cardinality(kept[r] \cup {r}) <= Cardinality(kept[r]) + 1
      <3>1. CASE r \in kept[r]
        <4>1. kept[r] \cup {r} = kept[r]
          BY <3>1
        <4>2. Cardinality(kept[r] \cup {r}) = Cardinality(kept[r])
          BY <4>1, Zenon
        <4>3. QED
          BY <2>2, <4>2, SubsetFinite
      <3>2. CASE r \notin kept[r]
        BY <2>2, <3>2, SubsetFinite, FS_AddElement
      <3>3. QED
        BY <3>1, <3>2
    <2>4. Cardinality(Completed) <= Cardinality(kept[r] \cup {r})
      BY <2>1, <2>2, SubsetFinite, FS_Subset
    <2>5. /\ Cardinality(Completed) \in Nat /\ Cardinality(kept[r]) \in Nat
          /\ Cardinality(kept[r] \cup {r}) \in Nat
      BY <2>2, SubsetFinite DEF Completed
    <2>6. QED
      BY <2>1, <2>3, <2>4, <2>5, KeepAssumption
  <1>2. QED
    BY <1>1, Invariant, PTL

\* While an audit reads, no run adds, renames or unlinks a completed backup:
\* whatever could do so is past the exclusive flock.
THEOREM AuditUndisturbed == Spec => AuditStable
  <1> USE DEF TypeOK, RootTypeOK, LockInv, LeavesAuditAlone
  <1>1. ASSUME IInv, Next PROVE LeavesAuditAlone
    <2> USE <1>1 DEF IInv
    <2>1. ASSUME NEW r \in Runs, EarlyStep(r) PROVE LeavesAuditAlone
      BY <2>1 DEF EarlyStep, OpenBackupRoot, Lock, Inspect, Preflight,
         NoCommandLog, FailsEarly
    <2>2. ASSUME NEW r \in Runs, PhaseStep(r) PROVE LeavesAuditAlone
      BY <2>2 DEF PhaseStep, StartChild, PhaseEnds, PhaseFails, PhaseUncertain
    <2>3. ASSUME NEW r \in Runs, SealStep(r) PROVE LeavesAuditAlone
      BY <2>3 DEF SealStep, Validate, Describe, Hash, Check, SyncStage, Promote,
         FailsWithStage, SyncParent, SyncParentFails
    <2>4. ASSUME NEW r \in Runs, LoopStep(r) PROVE LeavesAuditAlone
      BY <2>4 DEF LoopStep, Scan, SkipRetention, RetryDeletion, PendingDone,
         SkipNew, KeepOld, PruneOld, Retained, FailsInRetention, NameTaken
    <2>5. ASSUME NEW r \in Runs, DeleteStep(r) PROVE LeavesAuditAlone
      BY <2>5 DEF DeleteStep, RenameOld, SyncRenamed, RemoveSome, RemoveRest,
         SyncRemoved, VictimInv
    <2>6. ASSUME NEW r \in Runs, DeferredStep(r) PROVE LeavesAuditAlone
      BY <2>6 DEF DeferredStep, DropSome, DropRest, LeaveStage, Unlock
    <2>7. ASSUME NEW r \in Runs, AroundRun(r) PROVE LeavesAuditAlone
      BY <2>7 DEF AroundRun, ChildWrites, ChildExits, Cancel, Crash, ChildInv
    <2>8. ASSUME NEW i \in Ids, AroundTree(i) PROVE LeavesAuditAlone
      BY <2>8 DEF AroundTree, Resolve, Writeback, Taint, Squat, Outside
    <2>9. ASSUME NEW v \in Verifiers, Audit(v) PROVE LeavesAuditAlone
      BY <2>9 DEF Audit, AuditLock, AuditUnlock
    <2>10. CASE PowerLoss
      BY <2>10 DEF PowerLoss, LosePower
    <2>11. QED
      BY <2>1, <2>2, <2>3, <2>4, <2>5, <2>6, <2>7, <2>8, <2>9, <2>10
         DEF Next, World, KeeperStep
  <1>2. QED
    BY <1>1, Invariant, PTL DEF Spec, AuditStable

\* A stage with metadata is left as it is by the cleanup of a failed run, and
\* by its process group, which is gone by then.
THEOREM HashedStageStays == Spec => HashedStageKept
  <1> USE DEF TypeOK, RootTypeOK, LockInv, KeepInv, LeavesHashedStage
  <1>1. ASSUME IInv, Next PROVE LeavesHashedStage
    <2> USE <1>1 DEF IInv
    <2>1. ASSUME NEW r \in Runs, EarlyStep(r) PROVE LeavesHashedStage
      BY <2>1 DEF EarlyStep, OpenBackupRoot, Lock, Inspect, Preflight,
         NoCommandLog, FailsEarly
    <2>2. ASSUME NEW r \in Runs, PhaseStep(r) PROVE LeavesHashedStage
      BY <2>2 DEF PhaseStep, StartChild, PhaseEnds, PhaseFails, PhaseUncertain
    <2>3. ASSUME NEW r \in Runs, SealStep(r) PROVE LeavesHashedStage
      BY <2>3 DEF SealStep, Validate, Describe, Hash, Check, SyncStage, Promote,
         FailsWithStage, SyncParent, SyncParentFails
    <2>4. ASSUME NEW r \in Runs, LoopStep(r) PROVE LeavesHashedStage
      BY <2>4 DEF LoopStep, Scan, SkipRetention, RetryDeletion, PendingDone,
         SkipNew, KeepOld, PruneOld, Retained, FailsInRetention, NameTaken
    <2>5. ASSUME NEW r \in Runs, DeleteStep(r) PROVE LeavesHashedStage
      BY <2>5 DEF DeleteStep, RenameOld, SyncRenamed, RemoveSome, RemoveRest,
         SyncRemoved, VictimInv
    <2>6. ASSUME NEW r \in Runs, DeferredStep(r) PROVE LeavesHashedStage
      BY <2>6 DEF DeferredStep, DropSome, DropRest, LeaveStage, Unlock
    <2>7. ASSUME NEW r \in Runs, AroundRun(r) PROVE LeavesHashedStage
      BY <2>7 DEF AroundRun, ChildWrites, ChildExits, Cancel, Crash, ChildInv
    <2>8. ASSUME NEW i \in Ids, AroundTree(i) PROVE LeavesHashedStage
      BY <2>8 DEF AroundTree, Resolve, Writeback, Taint, Squat, Outside
    <2>9. ASSUME NEW v \in Verifiers, Audit(v) PROVE LeavesHashedStage
      BY <2>9 DEF Audit, AuditLock, AuditUnlock
    <2>10. CASE PowerLoss
      BY <2>10 DEF PowerLoss, LosePower
    <2>11. QED
      BY <2>1, <2>2, <2>3, <2>4, <2>5, <2>6, <2>7, <2>8, <2>9, <2>10
         DEF Next, World, KeeperStep
  <1>2. QED
    BY <1>1, Invariant, PTL DEF Spec, HashedStageKept

(***************************************************************************)
(* The abstract vault.                                                     *)
(***************************************************************************)
\* A name becomes durable only as what the root says it is.
LEMMA DiskStep ==
    ASSUME TypeOK, [Next]_vars, NEW q \in Ids
    PROVE  onDisk'[q] \in {onDisk[q], at[q]}
  <1> USE DEF TypeOK, RootTypeOK
  <1>1. ASSUME NEW r \in Runs, EarlyStep(r) PROVE onDisk'[q] \in {onDisk[q], at[q]}
    BY <1>1 DEF EarlyStep, OpenBackupRoot, Lock, Inspect, Preflight,
       NoCommandLog, FailsEarly
  <1>2. ASSUME NEW r \in Runs, PhaseStep(r) PROVE onDisk'[q] \in {onDisk[q], at[q]}
    BY <1>2 DEF PhaseStep, StartChild, PhaseEnds, PhaseFails, PhaseUncertain,
       NextPhase
  <1>3. ASSUME NEW r \in Runs, SealStep(r) PROVE onDisk'[q] \in {onDisk[q], at[q]}
    BY <1>3 DEF SealStep, Validate, Describe, Hash, Check, SyncStage, Promote,
       FailsWithStage, SyncParent, SyncParentFails
  <1>4. ASSUME NEW r \in Runs, LoopStep(r) PROVE onDisk'[q] \in {onDisk[q], at[q]}
    BY <1>4 DEF LoopStep, Scan, SkipRetention, RetryDeletion, PendingDone,
       SkipNew, KeepOld, PruneOld, Retained, FailsInRetention, NameTaken
  <1>5. ASSUME NEW r \in Runs, DeleteStep(r) PROVE onDisk'[q] \in {onDisk[q], at[q]}
    BY <1>5 DEF DeleteStep, RenameOld, SyncRenamed, RemoveSome, RemoveRest,
       SyncRemoved
  <1>6. ASSUME NEW r \in Runs, DeferredStep(r) PROVE onDisk'[q] \in {onDisk[q], at[q]}
    BY <1>6 DEF DeferredStep, DropSome, DropRest, LeaveStage, Unlock
  <1>7. ASSUME NEW r \in Runs, AroundRun(r) PROVE onDisk'[q] \in {onDisk[q], at[q]}
    BY <1>7 DEF AroundRun, ChildWrites, ChildExits, Cancel, Crash
  <1>8. ASSUME NEW i \in Ids, AroundTree(i) PROVE onDisk'[q] \in {onDisk[q], at[q]}
    BY <1>8 DEF AroundTree, Resolve, Writeback, Taint, Squat, Outside
  <1>9. ASSUME NEW v \in Verifiers, Audit(v) PROVE onDisk'[q] \in {onDisk[q], at[q]}
    BY <1>9 DEF Audit, AuditLock, AuditUnlock
  <1>10. CASE PowerLoss
    BY <1>10 DEF PowerLoss, LosePower
  <1>11. CASE UNCHANGED vars
    BY <1>11 DEF vars
  <1>12. QED
    BY <1>1, <1>2, <1>3, <1>4, <1>5, <1>6, <1>7, <1>8, <1>9, <1>10, <1>11 DEF
       Next, World, KeeperStep

\* The abstract module's Cardinality is the one of FiniteSets.
LEMMA SameCardinality == ASSUME NEW S PROVE V!Cardinality(S) = Cardinality(S)
  BY Zenon DEF V!Cardinality, Cardinality

\* Workflow implements Vault: the set of backups that would survive a power
\* loss never shrinks below Keep by the hand of retention.
THEOREM ImplementsVault == Spec => VaultSpec
  <1>1. Init => V!Init
    BY DEF V!Init, Surviving
  <1>2. ASSUME IInv, IInv', [Next]_vars PROVE [V!Next]_Surviving
    <2>1. Surviving \in SUBSET Ids /\ Surviving' \in SUBSET Ids
      BY DEF Surviving
    <2>2. CASE Uncovered = {}
      <3>1. Surviving \subseteq Surviving'
        BY <1>2, <2>2, DiskStep DEF IInv, NoTornBackup, Surviving, Uncovered
      <3>2. QED
        BY <2>1, <3>1 DEF V!Next, V!Store
    <2>3. CASE Uncovered # {}
      <3>1. Settled \subseteq Surviving'
        BY <1>2, DiskStep DEF IInv, NoTornBackup, Surviving, Settled
      <3>2. Cardinality(Settled) >= Keep /\ Settled \in SUBSET Ids
        BY <1>2, <2>3 DEF IInv, CoverInv, Settled
      <3>3. Cardinality(Settled) <= Cardinality(Surviving')
        BY <2>1, <3>1, SubsetFinite, FS_Subset
      <3>4. Cardinality(Surviving') >= Keep
        BY <2>1, <3>2, <3>3, SubsetFinite, KeepAssumption
      <3>5. V!Prune
        BY <2>1, <3>4, SameCardinality DEF V!Prune
      <3>6. QED
        BY <3>5 DEF V!Next
    <2>4. QED
      BY <2>2, <2>3
  <1>3. QED
    BY <1>1, <1>2, Invariant, PTL DEF Spec, VaultSpec, V!Spec

=============================================================================

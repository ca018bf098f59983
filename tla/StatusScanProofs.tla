--------------------------- MODULE StatusScanProofs ---------------------------
(***************************************************************************)
(* What a status beside the workflow reports is sound, for every set of    *)
(* runs and of backups: a name once past is not made again while the scan  *)
(* goes on, and the names are looked at in the order of their prefixes.    *)
(***************************************************************************)
EXTENDS StatusScan, WorkflowProofs

USE RunsAreIds
USE DEF Place, Content, PC, LockedPC, Phase, StagePC, RetentionPC, EndPC,
        rootVars, lockVars, keeperVars, retentionVars, Go, Proceed, Fail,
        RetentionStep, End, Report, ReturnError, Live, Active, MakeStage,
        RenameTo, SyncRoot, UnlinkSome, UnlinkRest

Early == {"idle", "lock", "inspect", "preflight"}

\* The id will not get a stage again, and no backup either.
NoStageAgain(i) == i \in Ids /\ at[i] # "inprogress" /\ (i \in Runs => pc[i] \notin Early)
NothingAgain(i) == NoStageAgain(i) /\ at[i] # "backup"

\* The workflow without a power loss.
Quiet ==
    \/ \E r \in Runs : KeeperStep(r) \/ AroundRun(r)
    \/ \E i \in Ids : AroundTree(i)
    \/ \E v \in Verifiers : Audit(v)

(***************************************************************************)
(* The inductive invariant.                                                *)
(***************************************************************************)
ScanTypes ==
    /\ scan \in {"idle", "listing", "visiting", "reading", "reported"}
    /\ stable \subseteq ever /\ ever \subseteq Name
    /\ left \subseteq {"backup", "inprogress"} \X Ids
    /\ status.backups \in [DOMAIN status.backups -> Clock]
    /\ DOMAIN status.backups \subseteq Ids
    /\ status.incomplete \subseteq Ids /\ status.pending \subseteq Ids
    /\ status = [backups |-> status.backups, incomplete |-> status.incomplete,
                  pending |-> status.pending]
    /\ lasting \subseteq once /\ once \subseteq Ids
    /\ squatter \subseteq Squattable

\* What is listed as a backup has been one since the scan began.
OnceInv ==
    /\ scan \in {"idle", "listing"} => status = NoStatus
    /\ scan # "idle" => Complete \subseteq once
    /\ DOMAIN status.backups \subseteq once
    /\ scan = "reading" => \E n \in left : IsNext(n) /\ n[1] = "backup" /\ n[2] \in once

\* No id is met under an earlier name again.
PastInv ==
    /\ scan = "listing" =>
          \A i \in Ids : <<"deleting", i>> \in ever => i \in Squattable \/ NothingAgain(i)
    /\ \A i \in status.pending : i \in Squattable \/ NothingAgain(i)
    /\ \A i \in DOMAIN status.backups : NoStageAgain(i)
    /\ status.incomplete # {} => \A n \in left : n[1] = "inprogress"
    /\ DOMAIN status.backups \cap status.incomplete = {}
    /\ status.pending \cap (DOMAIN status.backups \cup status.incomplete) \subseteq Squattable

\* A backup comes before another one in the order of the inventory.
Later(b, i, j) == b[i] > b[j] \/ (b[i] = b[j] /\ i > j)

\* What has been complete since the scan began is listed, and is in the result
\* with its own time as soon as it is visited; the result has a first backup.
LastingInv ==
    /\ scan = "idle" => lasting = {}
    /\ lasting \subseteq Complete
    /\ scan = "listing" => \A i \in lasting : <<"backup", i>> \in stable
    /\ scan \in {"visiting", "reading", "reported"} =>
          \A i \in lasting : i \in DOMAIN status.backups \/ <<"backup", i>> \in left
    /\ scan = "reported" => left = {}
    /\ \A i \in DOMAIN status.backups : <<"backup", i>> \notin left
    /\ \A i \in lasting : i \in DOMAIN status.backups => status.backups[i] = stamp[i]
    /\ DOMAIN status.backups # {} =>
          \E i \in DOMAIN status.backups :
             \A j \in DOMAIN status.backups \ {i} : Later(status.backups, i, j)

SInv == IInv /\ ScanTypes /\ OnceInv /\ PastInv /\ LastingInv

(***************************************************************************)
(* The workflow below it.                                                  *)
(***************************************************************************)
LEMMA ScanRefinesNext == [ScanNext]_allVars => [Next]_vars
  BY DEF ScanNext, WorkflowStep, allVars, Next, World

\* No step but a power loss makes a stage, or a backup, of a past id.
LEMMA PastStays ==
    ASSUME IInv, Quiet, NEW i \in Ids, NoStageAgain(i)
    PROVE  NoStageAgain(i)' /\ (NothingAgain(i) => NothingAgain(i)')
  <1> USE DEF IInv, TypeOK, RootTypeOK, PlaceInv, NoStageAgain, NothingAgain, Early
  <1> DEFINE Kept == NoStageAgain(i)' /\ (NothingAgain(i) => NothingAgain(i)')
  <1> USE DEF Kept
  <1>1. ASSUME NEW r \in Runs, EarlyStep(r) PROVE Kept
    BY <1>1 DEF EarlyStep, OpenBackupRoot, Lock, Inspect, Preflight,
       NoCommandLog, FailsEarly
  <1>2. ASSUME NEW r \in Runs, PhaseStep(r) PROVE Kept
    BY <1>2 DEF PhaseStep, StartChild, PhaseEnds, PhaseFails, PhaseUncertain,
       NextPhase
  <1>3. ASSUME NEW r \in Runs, SealStep(r) PROVE Kept
    BY <1>3 DEF SealStep, Validate, Describe, Hash, Check, SyncStage, Promote,
       FailsWithStage, SyncParent, SyncParentFails
  <1>4. ASSUME NEW r \in Runs, LoopStep(r) PROVE Kept
    BY <1>4 DEF LoopStep, Scan, SkipRetention, RetryDeletion, PendingDone,
       SkipNew, KeepOld, PruneOld, Retained, FailsInRetention, NameTaken
  <1>5. ASSUME NEW r \in Runs, DeleteStep(r) PROVE Kept
    BY <1>5 DEF DeleteStep, RenameOld, SyncRenamed, RemoveSome, RemoveRest,
       SyncRemoved, VictimInv
  <1>6. ASSUME NEW r \in Runs, DeferredStep(r) PROVE Kept
    BY <1>6 DEF DeferredStep, DropSome, DropRest, LeaveStage, Unlock
  <1>7. ASSUME NEW r \in Runs, AroundRun(r) PROVE Kept
    BY <1>7 DEF AroundRun, ChildWrites, ChildExits, Cancel, Crash
  <1>8. ASSUME NEW j \in Ids, AroundTree(j) PROVE Kept
    BY <1>8 DEF AroundTree, Resolve, Writeback, Taint, Squat, Outside
  <1>9. ASSUME NEW v \in Verifiers, Audit(v) PROVE Kept
    BY <1>9 DEF Audit, AuditLock, AuditUnlock
  <1>10. QED
    BY <1>1, <1>2, <1>3, <1>4, <1>5, <1>6, <1>7, <1>8, <1>9 DEF Quiet, KeeperStep

\* Only the names another writer may take are taken.
LEMMA SquatterStep ==
    ASSUME IInv, squatter \subseteq Squattable, [Next]_vars
    PROVE  squatter' \subseteq Squattable
  <1> DEFINE Kept == squatter' \subseteq Squattable
  <1> USE DEF Kept
  <1>1. ASSUME NEW r \in Runs, EarlyStep(r) PROVE Kept
    BY <1>1 DEF EarlyStep, OpenBackupRoot, Lock, Inspect, Preflight,
       NoCommandLog, FailsEarly
  <1>2. ASSUME NEW r \in Runs, PhaseStep(r) PROVE Kept
    BY <1>2 DEF PhaseStep, StartChild, PhaseEnds, PhaseFails, PhaseUncertain
  <1>3. ASSUME NEW r \in Runs, SealStep(r) PROVE Kept
    BY <1>3 DEF SealStep, Validate, Describe, Hash, Check, SyncStage, Promote,
       FailsWithStage, SyncParent, SyncParentFails
  <1>4. ASSUME NEW r \in Runs, LoopStep(r) PROVE Kept
    BY <1>4 DEF LoopStep, Scan, SkipRetention, RetryDeletion, PendingDone,
       SkipNew, KeepOld, PruneOld, Retained, FailsInRetention, NameTaken
  <1>5. ASSUME NEW r \in Runs, DeleteStep(r) PROVE Kept
    BY <1>5 DEF DeleteStep, RenameOld, SyncRenamed, RemoveSome, RemoveRest,
       SyncRemoved
  <1>6. ASSUME NEW r \in Runs, DeferredStep(r) PROVE Kept
    BY <1>6 DEF DeferredStep, DropSome, DropRest, LeaveStage, Unlock
  <1>7. ASSUME NEW r \in Runs, AroundRun(r) PROVE Kept
    BY <1>7 DEF AroundRun, ChildWrites, ChildExits, Cancel, Crash
  <1>8. ASSUME NEW j \in Ids, AroundTree(j) PROVE Kept
    BY <1>8 DEF AroundTree, Resolve, Writeback, Taint, Squat, Outside
  <1>9. ASSUME NEW v \in Verifiers, Audit(v) PROVE Kept
    BY <1>9 DEF Audit, AuditLock, AuditUnlock
  <1>10. CASE PowerLoss
    BY <1>10 DEF PowerLoss, LosePower
  <1>11. CASE UNCHANGED vars
    BY <1>11 DEF vars
  <1>12. QED
    BY <1>1, <1>2, <1>3, <1>4, <1>5, <1>6, <1>7, <1>8, <1>9, <1>10, <1>11 DEF
       Next, World, KeeperStep

\* The next name is unique.
LEMMA OneIsNext ==
    ASSUME left \subseteq Name, NEW n \in left, NEW o \in left, IsNext(n), IsNext(o)
    PROVE  n = o
  BY IdsAssumption DEF IsNext, Rank, Name

\* A step of the workflow and a step of the scan, apart.
LEMMA StepSplit ==
    ASSUME [ScanNext]_allVars
    PROVE  \/ PowerLoss /\ Reset
           \/ Quiet /\ Watch
           \/ ScanStep /\ UNCHANGED vars
           \/ UNCHANGED allVars
  BY DEF ScanNext, WorkflowStep, Quiet

\* While the workflow rests, what it says of an id stays.
LEMMA Rests ==
    ASSUME UNCHANGED vars
    PROVE  /\ Complete' = Complete /\ Managed' = Managed
           /\ \A i \in Ids : NoStageAgain(i)' = NoStageAgain(i)
           /\ \A i \in Ids : NothingAgain(i)' = NothingAgain(i)
  BY DEF vars, Complete, Completed, ValidBackup, Managed, NoStageAgain, NothingAgain

\* A variable of the scan keeps its type.
LEMMA TypesStep ==
    ASSUME IInv, IInv', ScanTypes, OnceInv, [ScanNext]_allVars
    PROVE  ScanTypes'
  <1>1. squatter' \subseteq Squattable
    BY SquatterStep, ScanRefinesNext DEF ScanTypes
  <1>2. squatter \subseteq Ids /\ squatter' \subseteq Ids /\ stamp \in [Ids -> Clock]
    BY DEF IInv, TypeOK, RootTypeOK
  <1>3. /\ Managed \subseteq Name /\ Managed' \subseteq Name
        /\ Complete \subseteq Ids /\ Complete' \subseteq Ids
    BY <1>2 DEF Managed, Name, Complete, Completed
  <1> USE DEF ScanTypes
  <1>4. CASE Reset
    BY <1>1, <1>4 DEF Reset, NoStatus
  <1>5. CASE Watch
    BY <1>1, <1>3, <1>5 DEF Watch
  <1>6. CASE ScanStep /\ UNCHANGED vars
    <2>1. CASE Begin
      BY <1>1, <1>3, <2>1 DEF Begin
    <2>2. CASE Listed
      <3> PICK names \in SUBSET ever :
              /\ left' = {n \in names : n[1] # "deleting"}
              /\ status' = [status EXCEPT !.pending = {n[2] : n \in names \ left'}]
        BY <2>2 DEF Listed
      <3>1. names \subseteq {"deleting", "backup", "inprogress"} \X Ids
        BY DEF Name
      <3>2. left' \subseteq {"backup", "inprogress"} \X Ids
        BY <3>1
      <3>3. {n[2] : n \in names \ left'} \subseteq Ids
        BY <3>1
      <3>4. /\ status'.backups = status.backups
            /\ status'.incomplete = status.incomplete
            /\ status'.pending = {n[2] : n \in names \ left'}
        OBVIOUS
      <3> QED
        BY <1>1, <2>2, <3>2, <3>3, <3>4 DEF Listed
    <2>3. CASE ValidateBackup \/ Finish
      BY <1>1, <2>3 DEF ValidateBackup, Finish
    <2>4. CASE ReadPreparedAt
      <3> PICK n \in left :
              /\ left' = left \ {n}
              /\ status' = [status EXCEPT !.backups =
                    [i \in DOMAIN @ \cup {n[2]} |-> IF i = n[2] THEN stamp[i] ELSE @[i]]]
        BY <2>4 DEF ReadPreparedAt
      <3>1. n[2] \in Ids /\ stamp[n[2]] \in Clock
        BY <1>2
      <3>2. /\ status'.backups = [i \in DOMAIN status.backups \cup {n[2]} |->
                                   IF i = n[2] THEN stamp[i] ELSE status.backups[i]]
            /\ status'.incomplete = status.incomplete
            /\ status'.pending = status.pending
        OBVIOUS
      <3>3. /\ DOMAIN status'.backups \subseteq Ids
            /\ status'.backups \in [DOMAIN status'.backups -> Clock]
        BY <3>1, <3>2
      <3> QED
        BY <1>1, <2>4, <3>2, <3>3 DEF ReadPreparedAt
    <2>5. CASE VisitStage
      <3> PICK n \in left :
              /\ left' = left \ {n}
              /\ status' = [status EXCEPT !.incomplete = @ \cup {n[2]}]
        BY <2>5 DEF VisitStage
      <3>1. /\ status'.backups = status.backups
            /\ status'.incomplete = status.incomplete \cup {n[2]}
            /\ status'.pending = status.pending
        OBVIOUS
      <3> QED
        BY <1>1, <2>5, <3>1 DEF VisitStage
    <2>6. CASE Return
      BY <1>4, <2>6 DEF Return
    <2> QED
      BY <1>6, <2>1, <2>2, <2>3, <2>4, <2>5, <2>6 DEF ScanStep
  <1>7. CASE UNCHANGED allVars
    BY <1>1, <1>7 DEF allVars, scanVars
  <1> QED
    BY <1>4, <1>5, <1>6, <1>7, StepSplit

\* What is validated is what is read: no other name comes next.
LEMMA OnceStep ==
    ASSUME IInv, ScanTypes, OnceInv, [ScanNext]_allVars
    PROVE  OnceInv'
  <1>0. left \subseteq Name /\ left \subseteq {"backup", "inprogress"} \X Ids
    BY DEF ScanTypes, Name
  <1> USE DEF OnceInv, IsNext, Rank
  <1>1. CASE Reset
    BY <1>1 DEF Reset, NoStatus
  <1>2. CASE Watch
    BY <1>2 DEF Watch, ScanTypes
  <1>3. CASE ScanStep /\ UNCHANGED vars
    <2>0. Complete' = Complete
      BY <1>3, Rests
    <2>1. CASE Begin
      BY <2>0, <2>1 DEF Begin, NoStatus
    <2>2. CASE Listed
      <3>1. status'.backups = status.backups
        BY <2>2 DEF Listed, ScanTypes
      <3> QED
        BY <2>0, <2>2, <3>1 DEF Listed
    <2>3. CASE ValidateBackup
      BY <2>0, <2>3 DEF ValidateBackup
    <2>4. CASE ReadPreparedAt
      <3> PICK n \in left :
              /\ IsNext(n)
              /\ status' = [status EXCEPT !.backups =
                    [i \in DOMAIN @ \cup {n[2]} |-> IF i = n[2] THEN stamp[i] ELSE @[i]]]
        BY <2>4 DEF ReadPreparedAt
      <3>1. n[2] \in once
        BY <1>0, <2>4, OneIsNext DEF ReadPreparedAt
      <3>2. DOMAIN status'.backups = DOMAIN status.backups \cup {n[2]}
        BY DEF ScanTypes
      <3> QED
        BY <2>0, <2>4, <3>1, <3>2 DEF ReadPreparedAt
    <2>5. CASE VisitStage
      <3>1. status'.backups = status.backups
        BY <2>5 DEF VisitStage, ScanTypes
      <3> QED
        BY <2>0, <2>5, <3>1 DEF VisitStage
    <2>6. CASE Finish
      BY <2>0, <2>6 DEF Finish
    <2>7. CASE Return
      BY <1>1, <2>7 DEF Return
    <2> QED
      BY <1>3, <2>1, <2>2, <2>3, <2>4, <2>5, <2>6, <2>7 DEF ScanStep
  <1>4. CASE UNCHANGED allVars
    BY <1>4, Rests DEF allVars, scanVars
  <1> QED
    BY <1>1, <1>2, <1>3, <1>4, StepSplit

\* An interrupted deletion ends what may become of its id.
LEMMA DeletionIsLast ==
    ASSUME IInv, ScanTypes, NEW i \in Ids, <<"deleting", i>> \in Managed
    PROVE  i \in Squattable \/ NothingAgain(i)
  BY DEF IInv, PlaceInv, ScanTypes, Managed, NothingAgain, NoStageAgain, Early,
     TypeOK, RootTypeOK

\* No id is met under an earlier name again.
LEMMA PastStep ==
    ASSUME IInv, IInv', ScanTypes, ScanTypes', OnceInv, PastInv, [ScanNext]_allVars
    PROVE  PastInv'
  <1>0. /\ left \subseteq Name /\ left \subseteq {"backup", "inprogress"} \X Ids
        /\ status.incomplete \subseteq Ids /\ status.pending \subseteq Ids
        /\ DOMAIN status.backups \subseteq Ids
    BY DEF ScanTypes, Name
  <1>1. CASE Reset
    BY <1>1 DEF Reset, NoStatus, PastInv
  <1>2. CASE Quiet /\ Watch
    <2>1. \A i \in Ids : /\ NoStageAgain(i) => NoStageAgain(i)'
                         /\ NothingAgain(i) => NothingAgain(i)'
      BY <1>2, PastStays DEF NothingAgain
    <2>2. \A i \in Ids : <<"deleting", i>> \in Managed' => i \in Squattable \/ NothingAgain(i)'
      <3>1. ASSUME NEW i \in Ids, <<"deleting", i>> \in Managed'
            PROVE  i \in Squattable \/ NothingAgain(i)'
        BY <3>1 DEF IInv, PlaceInv, ScanTypes, Managed, NothingAgain, NoStageAgain,
           Early, TypeOK, RootTypeOK
      <3> QED
        BY <3>1
    <2>3. /\ scan' = scan /\ left' = left /\ status' = status
          /\ scan = "listing" => ever' = ever \cup Managed'
      BY <1>2 DEF Watch
    <2>4. ASSUME scan' = "listing", NEW i \in Ids, <<"deleting", i>> \in ever'
          PROVE  i \in Squattable \/ NothingAgain(i)'
      BY <2>1, <2>2, <2>3, <2>4 DEF PastInv
    <2> QED
      BY <1>0, <2>1, <2>3, <2>4 DEF PastInv
  <1>3. CASE ScanStep /\ UNCHANGED vars
    <2>0. \A i \in Ids : /\ NoStageAgain(i)' = NoStageAgain(i)
                         /\ NothingAgain(i)' = NothingAgain(i)
      BY <1>3, Rests
    <2>1. CASE Begin
      <3>1. status' = NoStatus /\ scan' = "listing" /\ ever' = Managed
        BY <2>1 DEF Begin, OnceInv
      <3>2. \A i \in Ids : <<"deleting", i>> \in Managed => i \in Squattable \/ NothingAgain(i)
        BY DeletionIsLast
      <3> QED
        BY <2>0, <3>1, <3>2 DEF PastInv, NoStatus
    <2>2. CASE Listed
      <3> PICK names \in SUBSET ever :
              /\ left' = {n \in names : n[1] # "deleting"}
              /\ status' = [status EXCEPT !.pending = {n[2] : n \in names \ left'}]
        BY <2>2 DEF Listed
      <3>1. scan = "listing" /\ scan' = "visiting" /\ status = NoStatus
        BY <2>2 DEF Listed, OnceInv
      <3>2. /\ status'.backups = <<>> /\ status'.incomplete = {}
            /\ status'.pending = {n[2] : n \in names \ left'}
        BY <3>1 DEF NoStatus
      <3>3. \A i \in status'.pending : i \in Ids /\ <<"deleting", i>> \in ever
        BY <3>2 DEF ScanTypes, Name
      <3>4. \A i \in status'.pending : i \in Squattable \/ NothingAgain(i)'
        BY <2>0, <3>1, <3>3 DEF PastInv
      <3> QED
        BY <3>1, <3>2, <3>4 DEF PastInv
    <2>3. CASE ValidateBackup \/ Finish
      BY <1>0, <2>0, <2>3 DEF ValidateBackup, Finish, PastInv
    <2>4. CASE ReadPreparedAt
      <3> PICK n \in left :
              /\ IsNext(n) /\ at[n[2]] = "backup"
              /\ left' = left \ {n}
              /\ status' = [status EXCEPT !.backups =
                    [i \in DOMAIN @ \cup {n[2]} |-> IF i = n[2] THEN stamp[i] ELSE @[i]]]
        BY <2>4 DEF ReadPreparedAt
      <3>1. /\ DOMAIN status'.backups = DOMAIN status.backups \cup {n[2]}
            /\ status'.incomplete = status.incomplete
            /\ status'.pending = status.pending
        BY DEF ScanTypes
      <3>2. n[1] = "backup" /\ n[2] \in Ids
        BY <1>0, <2>4, OneIsNext DEF ReadPreparedAt, OnceInv
      <3>3. NoStageAgain(n[2]) /\ ~NothingAgain(n[2])
        BY <3>2 DEF NoStageAgain, NothingAgain, IInv, PlaceInv, Early
      <3>4. status.incomplete = {}
        BY <3>2 DEF PastInv
      <3>5. n[2] \in status.pending => n[2] \in Squattable
        BY <3>3 DEF PastInv
      <3>6. scan' = "visiting"
        BY <2>4 DEF ReadPreparedAt
      <3> QED
        BY <1>0, <2>0, <3>1, <3>2, <3>3, <3>4, <3>5, <3>6 DEF PastInv
    <2>5. CASE VisitStage
      <3> PICK n \in left :
              /\ IsNext(n) /\ n[1] = "inprogress" /\ at[n[2]] = "inprogress"
              /\ left' = left \ {n}
              /\ status' = [status EXCEPT !.incomplete = @ \cup {n[2]}]
        BY <2>5 DEF VisitStage
      <3>1. /\ status'.backups = status.backups
            /\ status'.incomplete = status.incomplete \cup {n[2]}
            /\ status'.pending = status.pending
        BY DEF ScanTypes
      <3>2. n[2] \in Ids /\ ~NoStageAgain(n[2]) /\ ~NothingAgain(n[2])
        BY <1>0 DEF NoStageAgain, NothingAgain
      <3>3. \A o \in left : o[1] = "inprogress"
        BY <1>0 DEF IsNext, Rank
      <3>4. scan' = "visiting"
        BY <2>5 DEF VisitStage
      <3> QED
        BY <1>0, <2>0, <3>1, <3>2, <3>3, <3>4 DEF PastInv
    <2>6. CASE Return
      BY <1>1, <2>6 DEF Return
    <2> QED
      BY <1>3, <2>1, <2>2, <2>3, <2>4, <2>5, <2>6 DEF ScanStep
  <1>4. CASE UNCHANGED allVars
    BY <1>0, <1>4, Rests DEF allVars, scanVars, PastInv
  <1> QED
    BY <1>1, <1>2, <1>3, <1>4, StepSplit

\* The time of a completed backup does not change.
LEMMA StampStays ==
    ASSUME IInv, Quiet, NEW i \in Completed
    PROVE  stamp'[i] = stamp[i]
  <1> DEFINE Kept == stamp'[i] = stamp[i]
  <1> USE DEF Kept
  <1>1. ASSUME NEW r \in Runs, EarlyStep(r) PROVE Kept
    BY <1>1 DEF EarlyStep, OpenBackupRoot, Lock, Inspect, Preflight,
       NoCommandLog, FailsEarly
  <1>2. ASSUME NEW r \in Runs, PhaseStep(r) PROVE Kept
    BY <1>2 DEF PhaseStep, StartChild, PhaseEnds, PhaseFails, PhaseUncertain
  <1>3. ASSUME NEW r \in Runs, SealStep(r) PROVE Kept
    <2>1. CASE Describe(r)
      <3>1. at[r] = "inprogress" /\ at[i] = "backup" /\ i \in Ids
        BY <2>1 DEF Describe, IInv, PlaceInv, Completed
      <3> QED
        BY <2>1, <3>1 DEF Describe, IInv, TypeOK, RootTypeOK
    <2> QED
      BY <1>3, <2>1 DEF SealStep, Validate, Hash, Check, SyncStage, Promote,
         FailsWithStage, SyncParent, SyncParentFails
  <1>4. ASSUME NEW r \in Runs, LoopStep(r) PROVE Kept
    BY <1>4 DEF LoopStep, Scan, SkipRetention, RetryDeletion, PendingDone,
       SkipNew, KeepOld, PruneOld, Retained, FailsInRetention, NameTaken
  <1>5. ASSUME NEW r \in Runs, DeleteStep(r) PROVE Kept
    BY <1>5 DEF DeleteStep, RenameOld, SyncRenamed, RemoveSome, RemoveRest,
       SyncRemoved
  <1>6. ASSUME NEW r \in Runs, DeferredStep(r) PROVE Kept
    BY <1>6 DEF DeferredStep, DropSome, DropRest, LeaveStage, Unlock
  <1>7. ASSUME NEW r \in Runs, AroundRun(r) PROVE Kept
    BY <1>7 DEF AroundRun, ChildWrites, ChildExits, Cancel, Crash
  <1>8. ASSUME NEW j \in Ids, AroundTree(j) PROVE Kept
    BY <1>8 DEF AroundTree, Resolve, Writeback, Taint, Squat, Outside
  <1>9. ASSUME NEW v \in Verifiers, Audit(v) PROVE Kept
    BY <1>9 DEF Audit, AuditLock, AuditUnlock
  <1>10. QED
    BY <1>1, <1>2, <1>3, <1>4, <1>5, <1>6, <1>7, <1>8, <1>9 DEF Quiet, KeeperStep

\* A result with one backup more has a first one, too.
LEMMA FirstOfMore ==
    ASSUME NEW b, DOMAIN b \subseteq Int, \A i \in DOMAIN b : b[i] \in Int,
           DOMAIN b # {} => \E i \in DOMAIN b : \A j \in DOMAIN b \ {i} : Later(b, i, j),
           NEW n \in Int, n \notin DOMAIN b, NEW c,
           DOMAIN c = DOMAIN b \cup {n}, c[n] \in Int, \A i \in DOMAIN b : c[i] = b[i]
    PROVE  \E i \in DOMAIN c : \A j \in DOMAIN c \ {i} : Later(c, i, j)
  <1>1. CASE DOMAIN b = {}
    BY <1>1
  <1>2. CASE DOMAIN b # {}
    <2>1. PICK i \in DOMAIN b : \A j \in DOMAIN b \ {i} : Later(b, i, j)
      BY <1>2
    <2>2. i \in Int /\ i # n /\ c[i] = b[i] /\ c[i] \in Int
      OBVIOUS
    <2>3. CASE Later(c, i, n)
      <3>1. \A j \in DOMAIN c \ {i} : Later(c, i, j)
        BY <2>1, <2>2, <2>3 DEF Later
      <3> QED
        BY <2>1, <3>1
    <2>4. CASE ~Later(c, i, n)
      <3>1. Later(c, n, i)
        BY <2>2, <2>4 DEF Later
      <3>2. ASSUME NEW j \in DOMAIN c \ {n} PROVE Later(c, n, j)
        <4>1. j \in DOMAIN b /\ j \in Int /\ c[j] = b[j] /\ c[j] \in Int
          OBVIOUS
        <4> QED
          BY <2>1, <2>2, <3>1, <4>1 DEF Later
      <3> QED
        BY <3>2
    <2> QED
      BY <2>3, <2>4
  <1> QED
    BY <1>1, <1>2

\* What lasts is visited.
LEMMA LastingStep ==
    ASSUME IInv, ScanTypes, OnceInv, LastingInv, [ScanNext]_allVars
    PROVE  LastingInv'
  <1>0. /\ left \subseteq Name /\ left \subseteq {"backup", "inprogress"} \X Ids
        /\ Ids \subseteq Int /\ Clock \subseteq Int /\ stamp \in [Ids -> Clock]
        /\ DOMAIN status.backups \subseteq Ids /\ \A i \in DOMAIN status.backups : status.backups[i] \in Int
    BY IdsAssumption, ClockAssumption DEF ScanTypes, Name, IInv, TypeOK, RootTypeOK
  <1>1. CASE Reset
    BY <1>1 DEF Reset, NoStatus, LastingInv
  <1>2. CASE Quiet /\ Watch
    <2>1. /\ scan' = scan /\ left' = left /\ status' = status
          /\ scan = "listing" => stable' = stable \cap Managed'
          /\ lasting' \subseteq lasting
          /\ lasting' \subseteq Complete'
      BY <1>2 DEF Watch, LastingInv
    <2>2. \A i \in lasting : stamp'[i] = stamp[i]
      BY <1>2, StampStays DEF LastingInv, Complete
    <2>3. \A i \in Complete' : <<"backup", i>> \in Managed'
      BY DEF Complete, Completed, Managed, Name
    <2> QED
      BY <2>1, <2>2, <2>3 DEF LastingInv
  <1>3. CASE ScanStep /\ UNCHANGED vars
    <2>0. Complete' = Complete /\ stamp' = stamp
      BY <1>3, Rests DEF vars
    <2>1. CASE Begin
      <3>1. status' = NoStatus /\ left' = left /\ scan' = "listing" /\ stable' = Managed
            /\ lasting' = Complete
        BY <2>1 DEF Begin, OnceInv
      <3>2. \A i \in Complete : <<"backup", i>> \in Managed
        BY DEF Complete, Completed, Managed, Name
      <3> QED
        BY <2>0, <3>1, <3>2 DEF LastingInv, NoStatus
    <2>2. CASE Listed
      <3> PICK names \in SUBSET ever :
              /\ stable \subseteq names
              /\ left' = {n \in names : n[1] # "deleting"}
              /\ status' = [status EXCEPT !.pending = {n[2] : n \in names \ left'}]
        BY <2>2 DEF Listed
      <3>1. scan = "listing" /\ scan' = "visiting" /\ status = NoStatus /\ lasting' = lasting
        BY <2>2 DEF Listed, OnceInv
      <3>2. status'.backups = <<>> /\ DOMAIN status'.backups = {}
        BY <3>1 DEF NoStatus
      <3>3. \A i \in lasting : <<"backup", i>> \in left'
        BY <3>1 DEF LastingInv
      <3> QED
        BY <2>0, <3>1, <3>2, <3>3 DEF LastingInv
    <2>3. CASE ValidateBackup
      BY <2>0, <2>3 DEF ValidateBackup, LastingInv
    <2>4. CASE ReadPreparedAt
      <3> PICK n \in left :
              /\ IsNext(n)
              /\ left' = left \ {n}
              /\ status' = [status EXCEPT !.backups =
                    [i \in DOMAIN @ \cup {n[2]} |-> IF i = n[2] THEN stamp[i] ELSE @[i]]]
        BY <2>4 DEF ReadPreparedAt
      <3> DEFINE b == status.backups
                 c == status'.backups
                 k == n[2]
      <3>1. n = <<"backup", k>> /\ k \in Ids
        BY <1>0, <2>4, OneIsNext DEF ReadPreparedAt, OnceInv
      <3>2. c = [i \in DOMAIN b \cup {k} |-> IF i = k THEN stamp[i] ELSE b[i]]
        BY DEF ScanTypes
      <3>3. k \notin DOMAIN b
        BY <3>1 DEF LastingInv
      <3>4. scan = "reading" /\ scan' = "visiting" /\ lasting' = lasting
        BY <2>4 DEF ReadPreparedAt
      <3>5. left' = left \ {<<"backup", k>>}
        BY <3>1
      <3> HIDE DEF b, c, k
      <3>6. DOMAIN c = DOMAIN b \cup {k} /\ c[k] = stamp[k] /\ \A i \in DOMAIN b : c[i] = b[i]
        BY <3>2, <3>3
      <3>7. \E i \in DOMAIN c : \A j \in DOMAIN c \ {i} : Later(c, i, j)
        <4>1. /\ DOMAIN b \subseteq Int /\ (\A i \in DOMAIN b : b[i] \in Int)
              /\ DOMAIN b # {} => \E i \in DOMAIN b : \A j \in DOMAIN b \ {i} : Later(b, i, j)
          BY <1>0 DEF LastingInv, b
        <4>2. k \in Int /\ c[k] \in Int
          BY <1>0, <3>1, <3>6
        <4> QED
          BY <3>3, <3>6, <4>1, <4>2, FirstOfMore
      <3>8. \A i \in DOMAIN c : <<"backup", i>> \notin left'
        BY <3>5, <3>6 DEF LastingInv, b
      <3>9. \A i \in lasting : i \in DOMAIN c \/ <<"backup", i>> \in left'
        BY <3>4, <3>5, <3>6 DEF LastingInv, b
      <3>10. \A i \in lasting : i \in DOMAIN c => c[i] = stamp[i]
        BY <3>6 DEF LastingInv, b
      <3> QED
        BY <2>0, <3>4, <3>7, <3>8, <3>9, <3>10 DEF LastingInv, c
    <2>5. CASE VisitStage
      <3> PICK n \in left :
              /\ n[1] = "inprogress"
              /\ left' = left \ {n}
              /\ status' = [status EXCEPT !.incomplete = @ \cup {n[2]}]
        BY <2>5 DEF VisitStage
      <3>1. status'.backups = status.backups
        BY DEF ScanTypes
      <3>2. scan' = "visiting" /\ scan = "visiting" /\ lasting' = lasting
        BY <2>5 DEF VisitStage
      <3>3. \A i : <<"backup", i>> \in left' <=> <<"backup", i>> \in left
        OBVIOUS
      <3> QED
        BY <2>0, <3>1, <3>2, <3>3 DEF LastingInv
    <2>6. CASE Finish
      BY <2>0, <2>6 DEF Finish, LastingInv
    <2>7. CASE Return
      BY <1>1, <2>7 DEF Return
    <2> QED
      BY <1>3, <2>1, <2>2, <2>3, <2>4, <2>5, <2>6, <2>7 DEF ScanStep
  <1>4. CASE UNCHANGED allVars
    <2>1. Complete' = Complete /\ stamp' = stamp
      BY <1>4, Rests DEF allVars, vars
    <2> QED
      BY <1>4, <2>1 DEF allVars, scanVars, LastingInv
  <1> QED
    BY <1>1, <1>2, <1>3, <1>4, StepSplit

LEMMA InitSInv == Init /\ ScanInit => SInv
  <1> SUFFICES ASSUME Init, ScanInit PROVE SInv
    OBVIOUS
  <1>1. IInv
    BY InitIInv
  <1>2. squatter = {}
    BY DEF Init, RootInit
  <1> USE DEF ScanInit, NoStatus
  <1>3. ScanTypes
    BY <1>2 DEF ScanTypes
  <1>4. OnceInv /\ PastInv
    BY DEF OnceInv, PastInv, NoStatus
  <1>5. LastingInv
    BY DEF LastingInv
  <1> QED
    BY <1>1, <1>3, <1>4, <1>5 DEF SInv

LEMMA NextSInv == SInv /\ [ScanNext]_allVars => SInv'
  <1> SUFFICES ASSUME SInv, [ScanNext]_allVars PROVE SInv'
    OBVIOUS
  <1>1. IInv'
    BY NextIInv, ScanRefinesNext DEF SInv
  <1>2. ScanTypes' /\ OnceInv'
    BY <1>1, TypesStep, OnceStep DEF SInv
  <1>3. PastInv'
    BY <1>1, <1>2, PastStep DEF SInv
  <1>4. LastingInv'
    BY LastingStep DEF SInv
  <1> QED
    BY <1>1, <1>2, <1>3, <1>4 DEF SInv

\* SInv holds in every reachable state.
LEMMA ScanInvariant == ScanSpec => []SInv
  BY InitSInv, NextSInv, PTL DEF ScanSpec

(***************************************************************************)
(* What follows from it.                                                   *)
(***************************************************************************)
\* The scan beside the workflow keeps the types of its state, and a backup in
\* its result was complete at some time since inspectContext began.
THEOREM ListedSound == ScanSpec => []ScanInv
  <1>1. SInv => ScanInv
    <2> SUFFICES ASSUME SInv PROVE ScanInv
      OBVIOUS
    <2>1. ScanTypes /\ OnceInv
      BY DEF SInv
    <2>2. ScanTypeOK
      BY <2>1 DEF ScanTypes, ScanTypeOK, Name
    <2>3. ListedWasComplete
      BY <2>1 DEF OnceInv, ListedWasComplete
    <2> QED
      BY <2>2, <2>3 DEF ScanInv
  <1> QED
    BY <1>1, ScanInvariant, PTL

\* inspectContext reports no id under two names, unless another writer has
\* made a directory with a .deleting- name, whatever is renamed meanwhile.
THEOREM ListedOnce == ScanSpec => []OneNamePerId
  <1>1. SInv => OneNamePerId
    BY DEF SInv, PastInv, OneNamePerId
  <1> QED
    BY <1>1, ScanInvariant, PTL

\* No backup that was complete from the beginning of the scan to its end is newer
\* than last_success, and last_success is omitted only if there was none, whatever
\* was promoted, renamed or unlinked meanwhile.
THEOREM LastSuccessHolds == ScanSpec => []LastSuccessCurrent
  <1>1. ASSUME SInv, scan = "reported", NEW i \in lasting
        PROVE  LastSuccess = i \/ (LastSuccess # None
                  /\ \/ status.backups[LastSuccess] > stamp[i]
                     \/ status.backups[LastSuccess] = stamp[i] /\ LastSuccess > i)
    <2> DEFINE b == status.backups
               k == CHOOSE x \in DOMAIN b : \A y \in DOMAIN b \ {x} : Later(b, x, y)
    <2>1. i \in DOMAIN b /\ b[i] = stamp[i]
      BY <1>1 DEF SInv, LastingInv
    <2>2. \E x \in DOMAIN b : \A y \in DOMAIN b \ {x} : Later(b, x, y)
      BY <1>1, <2>1 DEF SInv, LastingInv
    <2>3. LastSuccess = k
      BY <2>1 DEF LastSuccess, Later
    <2>4. k \in DOMAIN b /\ \A y \in DOMAIN b \ {k} : Later(b, k, y)
      BY <2>2, Zenon
    <2>5. DOMAIN b \subseteq Ids
      BY <1>1 DEF SInv, ScanTypes
    <2> HIDE DEF b, k
    <2>6. k # None
      BY <2>4, <2>5
    <2>7. k = i \/ Later(b, k, i)
      BY <2>1, <2>4
    <2> QED
      BY <2>1, <2>3, <2>6, <2>7 DEF Later, b
  <1>2. SInv => LastSuccessCurrent
    BY <1>1 DEF LastSuccessCurrent, Reported
  <1> QED
    BY <1>2, ScanInvariant, PTL

=============================================================================

------------------------------- MODULE StatusScan -------------------------------
(***************************************************************************)
(* `xbkeeper status` beside the workflow.  inspectContext takes no lock:   *)
(* it lists the root, then looks at one name after the other, while a run  *)
(* promotes, renames and unlinks what it has listed.  ReadDir itself takes *)
(* time.  A name that is there throughout it is listed, one that never is  *)
(* is not, and any other may be.                                           *)
(***************************************************************************)
EXTENDS Workflow

VARIABLES
    scan,    \* "idle", "listing", "visiting", "reading" or "reported"
    stable,  \* names that have been there since the listing began
    ever,    \* names that have been there since then
    left,    \* listed names still to visit
    status,  \* report.Status: id -> prepared_at of Backups, and the other two
    lasting, \* backups complete since the scan began
    once     \* backups that have been complete since then

scanVars == <<scan, stable, ever, left, status, lasting, once>>
allVars == <<vars, scanVars>>

Name == {"deleting", "backup", "inprogress"} \X Ids

Managed ==
    {n \in Name : at[n[2]] = n[1]} \cup {<<"deleting", i>> : i \in squatter}

Complete == {i \in Completed : ValidBackup(i)}

NoStatus == [backups |-> <<>>, incomplete |-> {}, pending |-> {}]

ScanTypeOK ==
    /\ scan \in {"idle", "listing", "visiting", "reading", "reported"}
    /\ stable \subseteq ever /\ ever \subseteq Name
    /\ left \subseteq Name
    /\ DOMAIN status.backups \subseteq Ids
    /\ \A i \in DOMAIN status.backups : status.backups[i] \in Clock
    /\ status.incomplete \subseteq Ids /\ status.pending \subseteq Ids
    /\ lasting \subseteq once /\ once \subseteq Ids

ScanInit ==
    /\ scan = "idle"
    /\ stable = {} /\ ever = {} /\ left = {}
    /\ status = NoStatus
    /\ lasting = {} /\ once = {}

\* The names in the order ReadDir sorts them: ".deleting-", "backup-",
\* "inprogress-", and by id.
Rank(n) == CASE n[1] = "deleting" -> 0 [] n[1] = "backup" -> 1 [] OTHER -> 2
IsNext(n) ==
    /\ n \in left
    /\ \A o \in left \ {n} : Rank(n) < Rank(o) \/ (Rank(n) = Rank(o) /\ n[2] < o[2])

(***************************************************************************)
(* The scan.                                                               *)
(***************************************************************************)
Begin ==
    /\ scan = "idle"
    /\ scan' = "listing"
    /\ stable' = Managed /\ ever' = Managed
    /\ lasting' = Complete /\ once' = Complete
    /\ UNCHANGED <<left, status>>

\* ReadDir returns; the interrupted deletions are listed by name alone.
Listed ==
    /\ scan = "listing"
    /\ \E names \in SUBSET ever :
          /\ stable \subseteq names
          /\ left' = {n \in names : n[1] # "deleting"}
          /\ status' = [status EXCEPT !.pending = {n[2] : n \in names \ left'}]
    /\ scan' = "visiting"
    /\ stable' = {} /\ ever' = {}
    /\ UNCHANGED <<lasting, once>>

\* Mutant: the name of a backup vouches for it.
ValidateBackupMutant ==
    /\ scan = "visiting"
    /\ \E n \in left : IsNext(n) /\ n[1] = "backup"
    /\ scan' = "reading"
    /\ UNCHANGED <<stable, ever, left, status, lasting, once>>

\* validBackupContext.
ValidateBackup ==
    /\ scan = "visiting"
    /\ \E n \in left : IsNext(n) /\ n[1] = "backup" /\ n[2] \in Complete
    /\ scan' = "reading"
    /\ UNCHANGED <<stable, ever, left, status, lasting, once>>

\* Its xbkeeper.json is read once more, by pathname.
ReadPreparedAt ==
    /\ scan = "reading"
    /\ \E n \in left :
          /\ IsNext(n) /\ at[n[2]] = "backup"
          /\ left' = left \ {n}
          /\ status' = [status EXCEPT !.backups =
                [i \in DOMAIN @ \cup {n[2]} |-> IF i = n[2] THEN stamp[i] ELSE @[i]]]
    /\ scan' = "visiting"
    /\ UNCHANGED <<stable, ever, lasting, once>>

\* Mutant: a stage is listed by name, like an interrupted deletion.
VisitStageMutant ==
    /\ scan = "visiting"
    /\ \E n \in left :
          /\ IsNext(n) /\ n[1] = "inprogress"
          /\ left' = left \ {n}
          /\ status' = [status EXCEPT !.incomplete = @ \cup {n[2]}]
    /\ UNCHANGED <<scan, stable, ever, lasting, once>>

\* safeTreeContext.
VisitStage ==
    /\ scan = "visiting"
    /\ \E n \in left :
          /\ IsNext(n) /\ n[1] = "inprogress"
          /\ at[n[2]] = "inprogress" /\ n[2] \notin unsafe
          /\ left' = left \ {n}
          /\ status' = [status EXCEPT !.incomplete = @ \cup {n[2]}]
    /\ UNCHANGED <<scan, stable, ever, lasting, once>>

Finish ==
    /\ scan = "visiting" /\ left = {}
    /\ scan' = "reported"
    /\ UNCHANGED <<stable, ever, left, status, lasting, once>>

Reset ==
    /\ scan' = "idle"
    /\ stable' = {} /\ ever' = {} /\ left' = {}
    /\ status' = NoStatus
    /\ lasting' = {} /\ once' = {}

\* The result has been printed; or a name is gone or not valid when it is
\* looked at, a tree changes under the walk, a call fails, or the context is
\* cancelled, and status fails as a whole.
Return == scan # "idle" /\ Reset

\* Mutant: names begin with a time, so the greatest is taken.
LastSuccessMutant ==
    IF DOMAIN status.backups = {} THEN None
    ELSE CHOOSE i \in DOMAIN status.backups : \A j \in DOMAIN status.backups : j <= i

\* The first name in the order of the inventory, None without a backup.
LastSuccess ==
    LET b == status.backups
        later(i, j) == b[i] > b[j] \/ (b[i] = b[j] /\ i > j)
    IN  IF DOMAIN b = {} THEN None
        ELSE CHOOSE i \in DOMAIN b : \A j \in DOMAIN b \ {i} : later(i, j)

ScanStep ==
    \/ Begin \/ Listed \/ ValidateBackup \/ ReadPreparedAt \/ VisitStage
    \/ Finish \/ Return

(***************************************************************************)
(* The workflow goes on meanwhile.                                         *)
(***************************************************************************)
Watch ==
    /\ IF scan = "listing"
       THEN stable' = stable \cap Managed' /\ ever' = ever \cup Managed'
       ELSE UNCHANGED <<stable, ever>>
    /\ IF scan = "idle"
       THEN UNCHANGED <<lasting, once>>
       ELSE lasting' = lasting \cap Complete' /\ once' = once \cup Complete'
    /\ UNCHANGED <<scan, left, status>>

WorkflowStep ==
    \/ PowerLoss /\ Reset
    \/ /\ \/ \E r \in Runs : KeeperStep(r) \/ AroundRun(r)
          \/ \E i \in Ids : AroundTree(i)
          \/ \E v \in Verifiers : Audit(v)
       /\ Watch

ScanNext == WorkflowStep \/ (ScanStep /\ UNCHANGED vars)

ScanSpec == Init /\ ScanInit /\ [][ScanNext]_allVars

(***************************************************************************)
(* Properties.                                                             *)
(***************************************************************************)
Reported == scan = "reported"

\* A status that reports success reports each id once, although ReadDir may
\* return both names of a tree that is renamed while it runs: every name but
\* those of interrupted deletions is looked at after the listing, and those
\* come first.  Only a foreign .deleting- directory adds a second name.
OneNamePerId ==
    Reported =>
        /\ DOMAIN status.backups \cap status.incomplete = {}
        /\ status.pending \cap (DOMAIN status.backups \cup status.incomplete) \subseteq Squattable

\* What it lists as a backup was complete at some time during the scan.
ListedWasComplete == Reported => DOMAIN status.backups \subseteq once

\* The types, too.
ScanInv == ScanTypeOK /\ ListedWasComplete

\* No backup that was complete during the whole scan is newer than
\* last_success, and there is none if last_success is omitted.
LastSuccessCurrent ==
    Reported => \A i \in lasting : LastSuccess = i \/ (LastSuccess # None
        /\ \/ status.backups[LastSuccess] > stamp[i]
           \/ status.backups[LastSuccess] = stamp[i] /\ LastSuccess > i)

=============================================================================

-------------------------------- MODULE RootWalk --------------------------------
(***************************************************************************)
(* openBackupRoot: the path to the backup root is walked from / down, each *)
(* component looked up in the directory opened before it, created if it is *)
(* missing, checked, opened, compared with what was checked, and its entry *)
(* synced.  Several first runs may do so at once: the lock lies at the end *)
(* of the path.                                                            *)
(*                                                                         *)
(* One directory leads to one next component, so entries[d] is the inode   *)
(* that directory d has under the name of that component, and onDisk[d]    *)
(* the one it has on stable storage.  What replaces an entry is another    *)
(* inode than any before.                                                  *)
(***************************************************************************)
EXTENDS Integers, Sequences, SequencesExt

CONSTANTS
    Runs,
    Inodes,
    Top,      \* the inode of /
    Depth,    \* components of backup_dir
    None,
    Hostile   \* another writer replaces components, and calls fail

VARIABLES
    entries, onDisk,
    used,    \* inodes that have had a name
    good,    \* directories of ours or root's that nobody else may write
    pc,
    trail,   \* the directories a run has walked through; the last one is open
    seen,    \* what Lstat has found
    opened   \* what OpenRoot has opened

fsVars == <<entries, onDisk, used, good>>
vars == <<fsVars, pc, trail, seen, opened>>

PC == {"idle", "lookup", "missing", "lookAgain", "check", "open", "compare",
       "sync", "openRoot", "failed"}

TypeOK ==
    /\ entries \in [Inodes -> Inodes \cup {None}]
    /\ onDisk \in [Inodes -> Inodes \cup {None}]
    /\ used \subseteq Inodes
    /\ good \subseteq used
    /\ pc \in [Runs -> PC]
    /\ \A r \in Runs : trail[r] \in Seq(used) /\ Len(trail[r]) \in 1 .. Depth + 1
    /\ seen \in [Runs -> Inodes \cup {None}]
    /\ opened \in [Runs -> Inodes \cup {None}]

\* Nothing but / is there yet.
Init ==
    /\ entries = [d \in Inodes |-> None]
    /\ onDisk = entries
    /\ used = {Top}
    /\ good = {Top}
    /\ pc = [r \in Runs |-> "idle"]
    /\ trail = [r \in Runs |-> <<Top>>]
    /\ seen = [r \in Runs |-> None]
    /\ opened = [r \in Runs |-> None]

\* The next inode that has not been used.
Fresh == {i \in Inodes \ used : \A j \in Inodes \ used : i <= j}

Cwd(r) == Last(trail[r])

Go(r, next) == pc' = [pc EXCEPT ![r] = next]

\* The run is over, and its descriptors are closed.
Return(r, next) ==
    /\ Go(r, next)
    /\ trail' = [trail EXCEPT ![r] = <<Top>>]
    /\ seen' = [seen EXCEPT ![r] = None]
    /\ opened' = [opened EXCEPT ![r] = None]
    /\ UNCHANGED fsVars

\* The walk that pathnames take: the n-th component from /, if it is there.
Path[n \in 0 .. Depth] ==
    IF n = 0 THEN Top
    ELSE IF Path[n - 1] = None THEN None ELSE entries[Path[n - 1]]

\* backupRootMissing: by pathname, every component that exists is as it should
\* be.
BackupRootFine == \A n \in 1 .. Depth : Path[n] \in good \cup {None}

\* controlledParents, of the component run r is about to create.
ControlledParents(r) == \A n \in 1 .. Len(trail[r]) - 1 : Path[n] \in good

(***************************************************************************)
(* One run.                                                                *)
(***************************************************************************)
Begin(r) ==
    /\ pc[r] = "idle" /\ BackupRootFine
    /\ Go(r, "lookup")
    /\ UNCHANGED <<fsVars, trail, seen, opened>>

Lookup(r) ==
    /\ pc[r] = "lookup"
    /\ seen' = [seen EXCEPT ![r] = entries[Cwd(r)]]
    /\ Go(r, IF entries[Cwd(r)] = None THEN "missing" ELSE "check")
    /\ UNCHANGED <<fsVars, trail, opened>>

\* Mutant: a directory that is there by now is an error.
MkdirMutant(r) ==
    /\ pc[r] = "missing" /\ ControlledParents(r)
    /\ IF entries[Cwd(r)] # None
       THEN Return(r, "failed")
       ELSE /\ \E i \in Fresh :
                  /\ entries' = [entries EXCEPT ![Cwd(r)] = i]
                  /\ used' = used \cup {i}
                  /\ good' = good \cup {i}
            /\ Go(r, "lookAgain")
            /\ UNCHANGED <<onDisk, trail, seen, opened>>

\* mkdir 0700; EEXIST is as good.
Mkdir(r) ==
    /\ pc[r] = "missing" /\ ControlledParents(r)
    /\ \/ /\ entries[Cwd(r)] # None
          /\ UNCHANGED fsVars
       \/ \E i \in Fresh :
             /\ entries[Cwd(r)] = None
             /\ entries' = [entries EXCEPT ![Cwd(r)] = i]
             /\ used' = used \cup {i}
             /\ good' = good \cup {i}
             /\ UNCHANGED onDisk
    /\ Go(r, "lookAgain")
    /\ UNCHANGED <<trail, seen, opened>>

LookAgain(r) ==
    /\ pc[r] = "lookAgain" /\ entries[Cwd(r)] # None
    /\ seen' = [seen EXCEPT ![r] = entries[Cwd(r)]]
    /\ Go(r, "check")
    /\ UNCHANGED <<fsVars, trail, opened>>

\* Directory, not a link, owner, mode; the last component 0700 and ours.
Check(r) ==
    /\ pc[r] = "check" /\ seen[r] \in good
    /\ Go(r, "open")
    /\ UNCHANGED <<fsVars, trail, seen, opened>>

Open(r) ==
    /\ pc[r] = "open" /\ entries[Cwd(r)] # None
    /\ opened' = [opened EXCEPT ![r] = entries[Cwd(r)]]
    /\ Go(r, "compare")
    /\ UNCHANGED <<fsVars, trail, seen>>

\* Mutant: the name still stands for what was opened, whatever was checked.
CompareMutant(r) ==
    /\ pc[r] = "compare" /\ entries[Cwd(r)] = opened[r]
    /\ Go(r, "sync")
    /\ UNCHANGED <<fsVars, trail, seen, opened>>

\* What was checked, what was opened and what the name stands for are one.
Compare(r) ==
    /\ pc[r] = "compare" /\ seen[r] = opened[r] /\ entries[Cwd(r)] = seen[r]
    /\ Go(r, "sync")
    /\ UNCHANGED <<fsVars, trail, seen, opened>>

\* The walk goes on in the directory that was opened.
Descend(r) ==
    /\ trail' = [trail EXCEPT ![r] = Append(@, opened[r])]
    /\ seen' = [seen EXCEPT ![r] = None]
    /\ opened' = [opened EXCEPT ![r] = None]
    /\ Go(r, IF Len(trail[r]) = Depth THEN "openRoot" ELSE "lookup")

\* Mutant: the entry of the root itself is left to the sync of the promotion.
SyncParentMutant(r) ==
    /\ pc[r] = "sync"
    /\ onDisk' = IF Len(trail[r]) = Depth THEN onDisk
                 ELSE [onDisk EXCEPT ![Cwd(r)] = entries[Cwd(r)]]
    /\ Descend(r)
    /\ UNCHANGED <<entries, used, good>>

\* Also if the entry was there before: nobody knows whether it is durable.
SyncParent(r) ==
    /\ pc[r] = "sync"
    /\ onDisk' = [onDisk EXCEPT ![Cwd(r)] = entries[Cwd(r)]]
    /\ Descend(r)
    /\ UNCHANGED <<entries, used, good>>

Active(r) == pc[r] \notin {"idle", "openRoot", "failed"}

\* What the code refuses.
Refuse(r) ==
    /\ \/ pc[r] = "idle" /\ ~BackupRootFine
       \/ pc[r] = "missing" /\ ~ControlledParents(r)
       \/ pc[r] \in {"lookAgain", "open"} /\ entries[Cwd(r)] = None
       \/ pc[r] = "check" /\ seen[r] \notin good
       \/ pc[r] = "compare" /\ ~(seen[r] = opened[r] /\ entries[Cwd(r)] = seen[r])
    /\ Return(r, "failed")

\* A call fails, the context is cancelled, or the run is killed.
Fails(r) ==
    /\ Hostile /\ Active(r)
    /\ Return(r, "failed")

\* The next invocation starts over.
Again(r) ==
    /\ pc[r] \in {"failed", "openRoot"}
    /\ Return(r, "idle")

Step(r) ==
    Begin(r) \/ Lookup(r) \/ Mkdir(r) \/ LookAgain(r) \/ Check(r) \/ Open(r)
        \/ Compare(r) \/ SyncParent(r) \/ Refuse(r) \/ Fails(r) \/ Again(r)

(***************************************************************************)
(* The world around it.                                                    *)
(***************************************************************************)
\* Another writer removes a component, or puts something else in its place.
Swap(d) ==
    /\ Hostile
    /\ \/ /\ entries[d] # None
          /\ entries' = [entries EXCEPT ![d] = None]
          /\ UNCHANGED <<used, good>>
       \/ \E i \in Fresh, fine \in BOOLEAN :
             /\ entries' = [entries EXCEPT ![d] = i]
             /\ used' = used \cup {i}
             /\ good' = IF fine THEN good \cup {i} ELSE good
    /\ UNCHANGED <<onDisk, pc, trail, seen, opened>>

Writeback(d) ==
    /\ onDisk[d] # entries[d]
    /\ onDisk' = [onDisk EXCEPT ![d] = entries[d]]
    /\ UNCHANGED <<entries, used, good, pc, trail, seen, opened>>

PowerLoss ==
    /\ entries' = onDisk
    /\ pc' = [r \in Runs |-> "idle"]
    /\ trail' = [r \in Runs |-> <<Top>>]
    /\ seen' = [r \in Runs |-> None]
    /\ opened' = [r \in Runs |-> None]
    /\ UNCHANGED <<onDisk, used, good>>

Next ==
    \/ \E r \in Runs : Step(r)
    \/ \E d \in used : Swap(d) \/ Writeback(d)
    \/ PowerLoss

Spec == Init /\ [][Next]_vars

(***************************************************************************)
(* Properties.                                                             *)
(***************************************************************************)
\* The entries a run has walked through survive a power loss, whoever made
\* them, unless somebody has removed them since.
WalkedIsDurable ==
    \A r \in Runs : \A n \in 1 .. Len(trail[r]) - 1 :
        LET d == trail[r][n] IN
        entries[d] = trail[r][n + 1] => onDisk[d] = trail[r][n + 1]

\* A run works in directories it has checked, whatever is put in the place of
\* one between the check and the open.
WalkedIsChecked ==
    \A r \in Runs : \A n \in 1 .. Len(trail[r]) : trail[r][n] \in good

\* The types, too.
WalkInv == TypeOK /\ WalkedIsChecked

\* First runs that start together do not stop each other.
NobodyIsRefused == \A r \in Runs : pc[r] # "failed"

=============================================================================

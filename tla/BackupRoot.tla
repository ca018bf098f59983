------------------------------ MODULE BackupRoot ------------------------------
(***************************************************************************)
(* The backup root directory: the managed names in it, the tree behind     *)
(* each name, and what of both is on stable storage.                       *)
(*                                                                         *)
(* A managed name is a prefix and an id (UTC stamp and random token), so   *)
(* an id owns three possible names: inprogress-<id>, backup-<id> and       *)
(* .deleting-<id>.  A rename moves the tree between them in one step, so   *)
(* at[i] is the one name the tree of i has now, and onDisk[i] the one it   *)
(* would have after a power loss.  Ids are integers in the order of their  *)
(* names: the token is random, so that order is unrelated to the order in  *)
(* which the runs start.                                                   *)
(*                                                                         *)
(* The content of a tree is how far the workflow has brought it:           *)
(*   "raw"        what xtrabackup wrote, not (yet) full-prepared           *)
(*   "prepared"   xtrabackup_checkpoints says full-prepared                *)
(*   "described"  and xbkeeper.json is written                             *)
(*   "sealed"     and SHA256SUMS is written: a complete backup             *)
(*   "partial"    some entry is missing: half unlinked, or torn            *)
(***************************************************************************)
EXTENDS Integers, FiniteSets

CONSTANTS
    Runs,       \* invocations of `xbkeeper backup`; a run's token is its id
    Old,        \* ids left in the root by earlier invocations
    Clock,      \* readings of the wall clock, which may jump either way
    Taintable,  \* ids whose tree another writer may make unsafe
    Squattable  \* ids whose .deleting- name another writer may occupy

Ids == Runs \cup Old

ASSUME IdsAssumption ==
    /\ Ids \subseteq Int
    /\ IsFiniteSet(Ids)
    /\ Runs \cap Old = {}

ASSUME ClockAssumption == Clock \subseteq Int /\ 0 \in Clock

VARIABLES
    at,         \* the name each tree has now
    onDisk,     \* the name each tree has on stable storage
    tree,       \* the content of each tree
    synced,     \* ids whose whole content is on stable storage
    unsafe,     \* ids whose tree holds a link, special or non-private entry
    squatter,   \* ids whose .deleting- name is a foreign private directory
    stamp       \* prepared_at of each tree's xbkeeper.json

rootVars == <<at, onDisk, tree, synced, unsafe, squatter, stamp>>

Place == {"none", "inprogress", "backup", "deleting"}
Content == {"none", "raw", "prepared", "described", "sealed", "partial"}

RootTypeOK ==
    /\ at \in [Ids -> Place]
    /\ onDisk \in [Ids -> Place]
    /\ tree \in [Ids -> Content]
    /\ synced \subseteq Ids
    /\ unsafe \subseteq Ids
    /\ squatter \subseteq Ids
    /\ stamp \in [Ids -> Clock]

(***************************************************************************)
(* What a scan of the root finds.                                          *)
(***************************************************************************)
Completed == {i \in Ids : at[i] = "backup"}
Incomplete == {i \in Ids : at[i] = "inprogress"}
PendingDeletions == {i \in Ids : at[i] = "deleting"} \cup squatter

\* validBackup: structure only, no content is hashed.
ValidBackup(i) == tree[i] = "sealed" /\ i \notin unsafe

\* inspectContext fails as a whole on one invalid backup or unsafe stage;
\* what is pending deletion is listed without being looked at.
InventoryValid ==
    /\ \A i \in Completed : ValidBackup(i)
    /\ \A i \in Incomplete : i \notin unsafe

\* The order of the inventory: newest prepared_at first, then greatest name.
Newer(i, j) == stamp[i] > stamp[j] \/ (stamp[i] = stamp[j] /\ i > j)

\* Mutant: the sort is the wrong way round.
NewestMutant(i, S) == i \in S /\ \A j \in S \ {i} : Newer(j, i)

Newest(i, S) == i \in S /\ \A j \in S \ {i} : Newer(i, j)
FirstName(i, S) == i \in S /\ \A j \in S : i <= j

(***************************************************************************)
(* Steps the workflow is made of.                                          *)
(***************************************************************************)
MakeStage(i) ==
    /\ at' = [at EXCEPT ![i] = "inprogress"]
    /\ tree' = [tree EXCEPT ![i] = "raw"]
    /\ UNCHANGED <<onDisk, synced, unsafe, squatter, stamp>>

RenameTo(i, name) ==
    /\ at' = [at EXCEPT ![i] = name]
    /\ UNCHANGED <<onDisk, tree, synced, unsafe, squatter, stamp>>

\* fsync of the root directory: every name in it becomes durable.
SyncRoot ==
    /\ onDisk' = at
    /\ UNCHANGED <<at, tree, synced, unsafe, squatter, stamp>>

\* removeTree has unlinked something, but not everything.
UnlinkSome(i) ==
    /\ tree[i] # "partial"
    /\ tree' = [tree EXCEPT ![i] = "partial"]
    /\ synced' = synced \ {i}
    /\ UNCHANGED <<at, onDisk, unsafe, squatter, stamp>>

\* removeTree has unlinked the rest, the directory last.
UnlinkRest(i) ==
    /\ tree[i] = "partial"
    /\ at' = [at EXCEPT ![i] = "none"]
    /\ tree' = [tree EXCEPT ![i] = "none"]
    /\ UNCHANGED <<onDisk, synced, unsafe, squatter, stamp>>

(***************************************************************************)
(* The world around the workflow.                                          *)
(***************************************************************************)
\* The kernel may write a name back at any time, and in any order.
Writeback(i) ==
    /\ onDisk[i] # at[i]
    /\ onDisk' = [onDisk EXCEPT ![i] = at[i]]
    /\ UNCHANGED <<at, tree, synced, unsafe, squatter, stamp>>

\* What is left of the root after a power loss: the durable names, and
\* behind them any tree that was not synced may be torn.
LosePower ==
    /\ at' = onDisk
    /\ \E torn \in SUBSET (Ids \ synced) :
          tree' = [i \in Ids |->
                     IF onDisk[i] = "none" THEN "none"
                     ELSE IF i \in torn \/ tree[i] = "none" THEN "partial"
                     ELSE tree[i]]
    /\ synced' = {i \in synced : onDisk[i] # "none"}
    /\ UNCHANGED <<onDisk, unsafe, squatter, stamp>>

\* Another writer plants an entry that safeTree and listFiles refuse.
Taint(i) ==
    /\ i \in Taintable \ unsafe
    /\ at[i] \in {"backup", "deleting"}
    /\ unsafe' = unsafe \cup {i}
    /\ UNCHANGED <<at, onDisk, tree, synced, squatter, stamp>>

\* Another writer creates a private directory under the .deleting- name.
Squat(i) ==
    /\ i \in Squattable \ squatter
    /\ at[i] = "backup"
    /\ squatter' = squatter \cup {i}
    /\ UNCHANGED <<at, onDisk, tree, synced, unsafe, stamp>>

\* Earlier invocations leave complete backups, interrupted deletions and
\* quarantined stages behind.
RootInit ==
    /\ at \in {f \in [Ids -> Place] : \A r \in Runs : f[r] = "none"}
    /\ onDisk = at
    /\ \E whole \in SUBSET {i \in Ids : at[i] \in {"inprogress", "deleting"}} :
          tree = [i \in Ids |-> CASE at[i] = "none" -> "none"
                                  [] i \in Completed \cup whole -> "sealed"
                                  [] OTHER -> "partial"]
    /\ synced = Completed
    /\ unsafe = {}
    /\ squatter = {}
    /\ stamp \in {f \in [Ids -> Clock] : \A r \in Runs : f[r] = 0}

=============================================================================

-------------------------------- MODULE LockFile --------------------------------
(***************************************************************************)
(* lock() and sharedLock(): .lock is opened, checked, flocked and looked   *)
(* up again, one call after the other, while other invocations do the same *)
(* and another writer may remove or replace the file.  A flock belongs to  *)
(* the open file, so two invocations that opened different files under the *)
(* same name both get one; the second look is what tells them apart.       *)
(*                                                                         *)
(* The number of an inode is free again once it has neither a name nor an  *)
(* open descriptor.                                                        *)
(***************************************************************************)
EXTENDS Integers

CONSTANTS
    Runs,             \* invocations of `xbkeeper backup`, one after the other
    Verifiers,        \* invocations of `xbkeeper verify`
    Inodes,
    None,
    ReplaceWhileHeld  \* the other writer minds no holder

Procs == Runs \cup Verifiers

ASSUME LockAssumption ==
    /\ Runs \cap Verifiers = {}
    /\ None \notin Inodes
    /\ ReplaceWhileHeld \in BOOLEAN

VARIABLES
    entry,  \* the inode named .lock
    safe,   \* inodes that are private, regular, of the right owner, not linked
    pc,
    fd      \* the inode each invocation has open

vars == <<entry, safe, pc, fd>>

TypeOK ==
    /\ entry \in Inodes \cup {None}
    /\ safe \subseteq Inodes
    /\ pc \in [Procs -> {"idle", "opened", "checked", "locked", "held"}]
    /\ fd \in [Procs -> Inodes \cup {None}]

Init ==
    /\ entry \in Inodes \cup {None}
    /\ safe \in SUBSET (IF entry = None THEN {} ELSE {entry})
    /\ pc = [p \in Procs |-> "idle"]
    /\ fd = [p \in Procs |-> None]

Free(i) == i # entry /\ \A p \in Procs : fd[p] # i

HasFlock(p) == pc[p] \in {"locked", "held"}
Held(p) == pc[p] = "held"

Go(p, next) == pc' = [pc EXCEPT ![p] = next]

(***************************************************************************)
(* One invocation.                                                         *)
(***************************************************************************)
\* Only a backup opens with O_CREATE, and what it creates has mode 0600.
Create(p) ==
    /\ p \in Runs /\ pc[p] = "idle" /\ entry = None
    /\ \E i \in Inodes :
          /\ Free(i)
          /\ entry' = i
          /\ safe' = safe \cup {i}
          /\ fd' = [fd EXCEPT ![p] = i]
    /\ Go(p, "opened")

Open(p) ==
    /\ pc[p] = "idle" /\ entry # None
    /\ fd' = [fd EXCEPT ![p] = entry]
    /\ Go(p, "opened")
    /\ UNCHANGED <<entry, safe>>

CheckLock(p) ==
    /\ pc[p] = "opened" /\ fd[p] \in safe
    /\ Go(p, "checked")
    /\ UNCHANGED <<entry, safe, fd>>

\* Mutant: a backup asks for LOCK_SH.
FlockMutant(p) ==
    /\ pc[p] = "checked"
    /\ \A q \in Procs \ {p} : HasFlock(q) /\ fd[q] = fd[p] => p \in Verifiers \/ q \in Runs
    /\ Go(p, "locked")
    /\ UNCHANGED <<entry, safe, fd>>

\* LOCK_EX for a backup, LOCK_SH for verify, both LOCK_NB.
Flock(p) ==
    /\ pc[p] = "checked"
    /\ \A q \in Procs \ {p} : HasFlock(q) /\ fd[q] = fd[p] => {p, q} \subseteq Verifiers
    /\ Go(p, "locked")
    /\ UNCHANGED <<entry, safe, fd>>

\* Mutant: it is enough that the file is still safe.
LockIdentityMutant(p) ==
    /\ pc[p] = "locked"
    /\ fd[p] \in safe
    /\ Go(p, "held")
    /\ UNCHANGED <<entry, safe, fd>>

LockIdentity(p) ==
    /\ pc[p] = "locked"
    /\ entry = fd[p] /\ fd[p] \in safe
    /\ Go(p, "held")
    /\ UNCHANGED <<entry, safe, fd>>

\* A call fails, the lock is given back, or the process dies; the next
\* invocation starts over.
Close(p) ==
    /\ pc[p] # "idle"
    /\ fd' = [fd EXCEPT ![p] = None]
    /\ Go(p, "idle")
    /\ UNCHANGED <<entry, safe>>

(***************************************************************************)
(* Another writer in the backup root.                                      *)
(***************************************************************************)
Disturbable == ReplaceWhileHeld \/ \A p \in Procs : ~Held(p)

Remove ==
    /\ Disturbable /\ entry # None
    /\ entry' = None
    /\ UNCHANGED <<safe, pc, fd>>

\* Another file is put in its place.
Replace ==
    /\ Disturbable
    /\ \E i \in Inodes, good \in BOOLEAN :
          /\ Free(i)
          /\ entry' = i
          /\ safe' = IF good THEN safe \cup {i} ELSE safe \ {i}
    /\ UNCHANGED <<pc, fd>>

\* chmod, chown or a hard link.
Spoil ==
    /\ entry \in safe
    /\ safe' = safe \ {entry}
    /\ UNCHANGED <<entry, pc, fd>>

Next ==
    \/ \E p \in Procs : Create(p) \/ Open(p) \/ CheckLock(p) \/ Flock(p)
                          \/ LockIdentity(p) \/ Close(p)
    \/ Remove \/ Replace \/ Spoil

Spec == Init /\ [][Next]_vars

(***************************************************************************)
(* Properties.                                                             *)
(***************************************************************************)
\* Whoever went through lock() or sharedLock() has its flock on the file that
\* is named .lock, so the next invocation meets it there.
HolderHasTheName == \A p \in Procs : Held(p) => fd[p] = entry

\* lock() and sharedLock() give the lock the workflow and verify rely on, also
\* when .lock is created, removed and replaced while they are at it.
Lock == INSTANCE ReadWriteLock WITH holders <- {p \in Procs : Held(p)}

LockSpec == Lock!Spec

\* Two invocations never have flocks on the same file that exclude each other.
FlocksAgree ==
    \A p, q \in Procs :
        p # q /\ HasFlock(p) /\ HasFlock(q) /\ fd[p] = fd[q] => {p, q} \subseteq Verifiers

\* Whoever has got past the open has a file, until it is closed.
OpenHasFile == \A p \in Procs : pc[p] = "idle" <=> fd[p] = None

\* The inductive invariant, if nobody replaces .lock under a holder.
LockInv == TypeOK /\ OpenHasFile /\ HolderHasTheName /\ FlocksAgree

=============================================================================

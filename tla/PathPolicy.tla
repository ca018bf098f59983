-------------------------------- MODULE PathPolicy --------------------------------
(***************************************************************************)
(* backup_dir must not overlap datadir.  loadConfig compares the two names *)
(* and never looks at datadir; openBackupRoot creates what is missing of   *)
(* backup_dir; validateRuntime looks at datadir at last.  Anybody may      *)
(* rearrange the directories until the run opens the root.                 *)
(*                                                                         *)
(* A path is the sequence of its components; the target of a link is one,  *)
(* too.  Owners and modes are left to RootWalk.                            *)
(***************************************************************************)
EXTENDS Integers, FiniteSets, Sequences, SequencesExt

CONSTANTS
    Dirs, Top,  \* directories, / among them
    Names,      \* of components
    MaxLen,     \* bound on the components of a path
    MaxLinks,   \* bound on the links there are at a time
    None

Path == BoundedSeq(Names, MaxLen)
Slot == Dirs \X Names

VARIABLES
    fs,  \* what each name in each directory is: a directory, a link or nothing
    backupDir, datadir,
    pc

vars == <<fs, backupDir, datadir, pc>>

TypeOK ==
    /\ fs \in [Slot -> Dirs \cup Path \cup {None}]
    /\ backupDir \in Path /\ datadir \in Path
    /\ pc \in {"load", "loaded", "opening", "validate", "ready", "refused"}

Init ==
    /\ fs = [s \in Slot |-> None]
    /\ backupDir \in Path \ {<<>>} /\ datadir \in Path
    /\ pc = "load"

(***************************************************************************)
(* Pathnames.                                                              *)
(***************************************************************************)
\* Where path p leads to if up to h links are followed, one after the other.
Walk[h \in 0 .. MaxLinks] == [p \in Path |->
    IF p = <<>> THEN Top
    ELSE LET d == Walk[h][Front(p)] IN
         IF d = None THEN None
         ELSE LET n == fs[d, Last(p)] IN
              IF n \in Dirs \cup {None} THEN n
              ELSE IF h = 0 THEN None ELSE Walk[h - 1][n]]

\* pathInfo, for a directory: no component is a link.
PathInfo(p) == Walk[0][p] # None

Prefix(p, n) == SubSeq(p, 1, n)

\* backupRootMissing: what exists of the path is directories; the rest is not
\* there.
BackupRootFine(p) ==
    \/ PathInfo(p)
    \/ \E n \in 0 .. Len(p) - 1 :
          /\ PathInfo(Prefix(p, n))
          /\ fs[Walk[0][Prefix(p, n)], p[n + 1]] = None

\* / overlaps everything.
Overlaps(a, b) == IsPrefix(a, b) \/ IsPrefix(b, a)

(***************************************************************************)
(* The run.                                                                *)
(***************************************************************************)
Goto(next) == pc' = next /\ UNCHANGED <<fs, backupDir, datadir>>

LoadConfig ==
    /\ pc = "load"
    /\ Goto(IF BackupRootFine(backupDir) /\ ~Overlaps(backupDir, datadir)
            THEN "loaded" ELSE "refused")

\* openBackupRoot looks at the path once more.
OpenBackupRoot ==
    /\ pc = "loaded"
    /\ Goto(IF BackupRootFine(backupDir) THEN "opening" ELSE "refused")

InUse == {fs[s] : s \in Slot} \cup {Top}

\* The next missing component.
Mkdir ==
    /\ pc = "opening"
    /\ \E n \in 1 .. Len(backupDir), d \in Dirs \ InUse :
          LET s == <<Walk[0][Prefix(backupDir, n - 1)], backupDir[n]>>
          IN  /\ s[1] # None /\ fs[s] = None
              /\ fs' = [fs EXCEPT ![s] = d]
    /\ UNCHANGED <<backupDir, datadir, pc>>

Opened ==
    /\ pc = "opening" /\ PathInfo(backupDir)
    /\ Goto("validate")

\* Mutant: links on the way to datadir are followed, as stat(2) does.
ValidateRuntimeMutant ==
    /\ pc = "validate"
    /\ Goto(IF Walk[MaxLinks][datadir] # None THEN "ready" ELSE "refused")

ValidateRuntime ==
    /\ pc = "validate"
    /\ Goto(IF PathInfo(datadir) THEN "ready" ELSE "refused")

(***************************************************************************)
(* Whoever sets up the machine, until the run opens the root.              *)
(***************************************************************************)
Links == {s \in Slot : fs[s] \in Path}

\* The directory that slot s is in can be reached, at less than full depth.
Reachable(s) == \E p \in Path : Len(p) < MaxLen /\ Walk[0][p] = s[1]

Change ==
    /\ pc \in {"load", "loaded"}
    /\ \E s \in Slot :
          /\ Reachable(s)
          /\ \/ /\ fs[s] = None
                /\ \E d \in Dirs \ InUse : fs' = [fs EXCEPT ![s] = d]
             \/ /\ fs[s] = None /\ Cardinality(Links) < MaxLinks
                /\ \E p \in Path : fs' = [fs EXCEPT ![s] = p]
             \/ /\ fs[s] # None
                /\ fs[s] \in Dirs => \A n \in Names : fs[fs[s], n] = None
                /\ fs' = [fs EXCEPT ![s] = None]
    /\ UNCHANGED <<backupDir, datadir, pc>>

Next == LoadConfig \/ OpenBackupRoot \/ Mkdir \/ Opened \/ ValidateRuntime \/ Change

Spec == Init /\ [][Next]_vars

(***************************************************************************)
(* Properties.                                                             *)
(***************************************************************************)
\* Directory e is d, or lies below it.
Below(e, d) ==
    \E p \in Path : Walk[0][p] = e /\ \E n \in 0 .. Len(p) : Walk[0][Prefix(p, n)] = d

\* A run that has passed its checks will not back datadir up into itself, nor
\* count its backups as part of it: where the two names lead, as the kernel
\* follows them, neither directory lies in the other, although only names were
\* compared, and before the directories were where they are.
Apart ==
    pc = "ready" =>
        LET root == Walk[MaxLinks][backupDir]
            data == Walk[MaxLinks][datadir]
        IN  root # None /\ data # None /\ ~Below(root, data) /\ ~Below(data, root)

PathInv == TypeOK /\ Apart

=============================================================================

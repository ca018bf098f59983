---------------------------------- MODULE Audit ----------------------------------
(***************************************************************************)
(* SHA256SUMS: a stage is sealed with it, and `verify` audits the backup   *)
(* against it while another writer, whom .lock does not stop, may change   *)
(* what is in it.                                                          *)
(*                                                                         *)
(* What the stage held when it was sealed is "sealed"; "other" is another  *)
(* content of the same sort.  Of the metadata it matters too whether they  *)
(* are of format 1, "undated" (of format 2, without a version or a valid   *)
(* time) or garbled, and of the checkpoints whether they have one          *)
(* backup_type, full-prepared.                                             *)
(*                                                                         *)
(* Snapshots are compared by the times of the kernel, which gives all      *)
(* changes of one tick the same (HashFile).                                *)
(***************************************************************************)
EXTENDS Integers, FiniteSets, Functions

CONSTANTS
    Plain,       \* names of files
    Deep,        \* those of them that lie in a subdirectory
    Refused,     \* those of them that have an unsupported name or lie too deep
    Meta,        \* xbkeeper.json
    Checkpoints, \* xtrabackup_checkpoints
    Sums,        \* SHA256SUMS
    Top,         \* the directory of the backup
    Dirs,        \* how many subdirectories there may be at first
    Length,      \* the length of the manifest's line for each name
    MaxEntries,  \* maxEntries
    MaxManifest, \* maxManifest
    MaxChanges,  \* bound on what the other writer does
    None, Garbled

Names == Plain \cup {Meta, Checkpoints}

VARIABLES
    tree,     \* the content of each file that is there
    dirs,     \* the number of subdirectories
    manifest, \* SHA256SUMS: a content for each name; Garbled; or None
    unsafe,   \* files that are links, special or not private
    fresh,    \* files, and Top, that were last changed in this tick
    changes,  \* how often the other writer has been there
    pc,
    expected, \* the manifest as it was parsed
    todo,     \* files still to be hashed
    open,     \* the one that is being hashed, or None
    torn,     \* it has been written to since it was opened
    stale,    \* what of it and Top differs now from its snapshot
    hashed,   \* Verification.Files
    verdict,  \* Verification.OK or Reason
    quiet,    \* nothing has changed, and no call failed, since the audit began
    blurred,  \* what was looked at and changed in one tick since then
    had       \* the contents each file has had since then, None if it was gone

treeVars == <<tree, dirs, manifest, unsafe>>
lookVars == <<open, torn, stale>>
resultVars == <<expected, todo, hashed, verdict>>
historyVars == <<quiet, blurred, had>>
vars == <<treeVars, fresh, changes, pc, lookVars, resultVars, historyVars>>

ContentOf(n) ==
    {"sealed", "other"} \cup
        CASE n = Meta -> {"format1", "undated", "garbled"}
          [] n = Checkpoints -> {"unprepared"}
          [] OTHER -> {}

Verdict == {"ok", "legacy", "invalid", "mismatch"}

Files == {n \in Names : tree[n] # None}

\* Regular files and directories, SHA256SUMS among them.
Entries == Cardinality(Files) + dirs + (IF manifest = None THEN 0 ELSE 1)

Bytes(S) == SumFunctionOnSet(Length, S)

Auditing == pc \in {"metadata", "structure", "reason", "parse", "list", "hash"}

\* What a snapshot was taken of that will be compared again.
Watched == IF Auditing THEN {Top, open} \ {None} ELSE {}

TypeOK ==
    /\ \A n \in Names : tree[n] \in ContentOf(n) \cup {None}
    /\ \/ manifest \in {Garbled, None}
       \/ DOMAIN manifest \subseteq Names /\ \A n \in DOMAIN manifest : manifest[n] \in ContentOf(n)
    /\ dirs \in Nat
    /\ unsafe \subseteq Files \cup {Sums}
    /\ fresh \subseteq Names \cup {Top} /\ stale \subseteq Watched
    /\ changes \in 0 .. MaxChanges
    /\ todo \subseteq Names /\ open \in todo \cup {None}
    /\ hashed \in 0 .. Cardinality(Names)
    /\ verdict \in Verdict

\* What prepare leaves, which may have a file of the manifest's name, once its
\* checkpoints are found to be full-prepared and the metadata are written; or a
\* backup of format 1.
Init ==
    /\ \E S \in SUBSET Plain, meta \in {"sealed", "format1"} :
          /\ tree = [n \in Names |-> IF n = Meta THEN meta
                                     ELSE IF n \in S \cup {Checkpoints} THEN "sealed" ELSE None]
          /\ pc = IF meta = "sealed" THEN "generate" ELSE "backup"
    /\ dirs \in Dirs
    /\ manifest \in {None} \cup (IF pc = "generate" THEN {Garbled} ELSE {})
    /\ unsafe = {} /\ fresh = Names \cup {Top} /\ changes = 0
    /\ open = None /\ torn = FALSE /\ stale = {}
    /\ expected = None /\ todo = {} /\ hashed = 0 /\ verdict = "invalid"
    /\ quiet = TRUE /\ blurred = {} /\ had = [n \in Names |-> {}]

(***************************************************************************)
(* What the code makes of a tree.                                          *)
(***************************************************************************)
\* Mutant: the limit is that of the manifest.
ListFilesMutant == Entries <= MaxEntries /\ unsafe = {} /\ Files \cap Refused = {}

\* listFiles: it returns Files, and SHA256SUMS.
ListFiles == Entries <= MaxEntries + 1 /\ unsafe = {} /\ Files \cap Refused = {}

\* parseManifest: it returns manifest.
ParseManifest ==
    /\ manifest \notin {Garbled, None} /\ Sums \notin unsafe
    /\ DOMAIN manifest # {}
    /\ Cardinality(DOMAIN manifest) <= MaxEntries
    /\ Bytes(DOMAIN manifest) <= MaxManifest

\* matchingFileSet, of which SHA256SUMS is one more.
MatchingFileSet(m) == DOMAIN m = Files /\ manifest # None

CheckpointRoot == tree[Checkpoints] \notin {None, "unprepared"}

\* validBackupRoot: a backup of format 1 needs no manifest.
ValidBackupRoot ==
    /\ ListFiles
    /\ CheckpointRoot
    /\ tree[Meta] \notin {None, "garbled", "undated"}
    /\ tree[Meta] # "format1" => ParseManifest /\ MatchingFileSet(manifest)

(***************************************************************************)
(* The run seals its stage; nobody else writes to it yet.                  *)
(***************************************************************************)
Generates == ListFiles /\ manifest = None /\ Bytes(Files) <= MaxManifest

GenerateManifest ==
    /\ pc = "generate" /\ Generates
    /\ manifest' = [n \in Files |-> tree[n]]
    /\ fresh' = fresh \cup {Top}
    /\ pc' = "validate"
    /\ UNCHANGED <<tree, dirs, unsafe, changes, lookVars, resultVars, historyVars>>

Validate ==
    /\ pc = "validate" /\ ValidBackupRoot
    /\ pc' = "backup"
    /\ UNCHANGED <<treeVars, fresh, changes, lookVars, resultVars, historyVars>>

\* The stage is kept as it is, and stops later runs.
SealRefused ==
    /\ \/ pc = "generate" /\ ~Generates
       \/ pc = "validate" /\ ~ValidBackupRoot
    /\ pc' = "kept"
    /\ UNCHANGED <<treeVars, fresh, changes, lookVars, resultVars, historyVars>>

\* A call fails, or the run is cancelled.  SHA256SUMS may have been written in
\* part.  The stage is kept, too.
SealFails ==
    /\ pc \in {"generate", "validate"}
    /\ pc' = "failed"
    /\ manifest' \in {manifest} \cup (IF pc = "generate" THEN {Garbled} ELSE {})
    /\ UNCHANGED <<tree, dirs, unsafe, fresh, changes, lookVars, resultVars, historyVars>>

(***************************************************************************)
(* verifyOne.                                                              *)
(***************************************************************************)
OpenBackup ==
    /\ pc = "backup"
    /\ pc' = "metadata"
    /\ quiet' = TRUE /\ blurred' = {}
    /\ had' = [n \in Names |-> {tree[n]}]
    /\ UNCHANGED <<treeVars, fresh, changes, lookVars, resultVars>>

Reports(v) ==
    /\ pc' = "reported"
    /\ verdict' = v
    /\ open' = None /\ torn' = FALSE /\ stale' = {}
    /\ UNCHANGED <<treeVars, fresh, changes, expected, todo, blurred, had>>

Conclude(v) == Reports(v) /\ UNCHANGED <<hashed, quiet>>

Continue(next) ==
    /\ pc' = next
    /\ UNCHANGED <<treeVars, fresh, changes, lookVars, hashed, verdict, historyVars>>

\* Mutant: what verifies as format 2 does not pass for format 1.
ReadMetadataMutant ==
    /\ pc = "metadata"
    /\ IF Meta \in unsafe \/ tree[Meta] \in {None, "garbled"}
       THEN Conclude("invalid")
       ELSE Continue("structure") /\ UNCHANGED <<expected, todo>>

\* Format 1 is never audited, whatever SHA256SUMS says.
ReadMetadata ==
    /\ pc = "metadata"
    /\ IF Meta \in unsafe \/ tree[Meta] \in {None, "garbled"} THEN Conclude("invalid")
       ELSE IF tree[Meta] = "format1" THEN Conclude("legacy")
       ELSE Continue("structure") /\ UNCHANGED <<expected, todo>>

\* If it fails it is looked at again, for the reason.
CheckStructure ==
    /\ pc = "structure"
    /\ Continue(IF ValidBackupRoot THEN "parse" ELSE "reason")
    /\ UNCHANGED <<expected, todo>>

FindReason ==
    /\ pc = "reason"
    /\ Conclude(IF ParseManifest /\ ListFiles /\ ~MatchingFileSet(manifest)
                THEN "mismatch" ELSE "invalid")

ReadManifest ==
    /\ pc = "parse"
    /\ IF ParseManifest
       THEN Continue("list") /\ expected' = manifest /\ UNCHANGED todo
       ELSE Conclude("invalid")

List ==
    /\ pc = "list"
    /\ IF ~ListFiles THEN Conclude("invalid")
       ELSE IF ~MatchingFileSet(expected) THEN Conclude("mismatch")
       ELSE Continue("hash") /\ todo' = Files /\ UNCHANGED expected

\* hashFile, up to the snapshot.
HashStart ==
    /\ pc = "hash" /\ open = None
    /\ \E n \in todo :
          IF tree[n] = None \/ n \in unsafe THEN Conclude("invalid")
          ELSE /\ open' = n /\ torn' = FALSE
               /\ UNCHANGED <<treeVars, fresh, changes, pc, stale, resultVars, historyVars>>

\* A file that was written to while it was read has been read in part before
\* that and in part after it, and its digest may be any.
Digest == IF torn THEN ContentOf(open) ELSE {tree[open]}

Compare(digest) ==
    /\ hashed' = hashed + 1
    /\ IF digest # expected[open]
       THEN Reports("mismatch") /\ UNCHANGED quiet
       ELSE /\ todo' = todo \ {open}
            /\ open' = None /\ torn' = FALSE /\ stale' = stale \ {open}
            /\ UNCHANGED <<treeVars, fresh, changes, pc, expected, verdict, historyVars>>

\* Mutant: the file is not looked at again.
HashEndMutant == pc = "hash" /\ open # None /\ \E digest \in Digest : Compare(digest)

HashEnd ==
    /\ pc = "hash" /\ open # None
    /\ IF open \in stale THEN Conclude("invalid")
       ELSE \E digest \in Digest : Compare(digest)

\* The directory is looked up again.
Finish ==
    /\ pc = "hash" /\ todo = {}
    /\ Conclude(IF Top \in stale THEN "invalid" ELSE "ok")

\* A call fails, or listFiles, readControl or parseManifest sees something change.
CallFails == Auditing /\ Reports("invalid") /\ quiet' = FALSE /\ UNCHANGED hashed

\* The next `verify`, or what a cancelled one leaves.
Return ==
    /\ pc = "reported" \/ Auditing
    /\ pc' = "backup"
    /\ open' = None /\ torn' = FALSE /\ stale' = {}
    /\ expected' = None /\ todo' = {} /\ hashed' = 0 /\ verdict' = "invalid"
    /\ quiet' = TRUE /\ blurred' = {} /\ had' = [n \in Names |-> {}]
    /\ UNCHANGED <<treeVars, fresh, changes>>

(***************************************************************************)
(* The other writer, and the clock.                                        *)
(***************************************************************************)
\* A change that gives the file, or Top, in hidden another time, unless it has
\* that of this tick already: then it may look the same as before.  Those in
\* plain surely look different: they come, go, or change their mode.
Change(hidden, plain) ==
    /\ pc = "backup" \/ Auditing
    /\ changes < MaxChanges
    /\ changes' = changes + 1
    /\ fresh' = fresh \cup hidden \cup plain
    /\ \E seen \in SUBSET hidden :
          /\ hidden \ fresh \subseteq seen
          /\ stale' = stale \cup (Watched \cap (seen \cup plain))
    /\ torn' = (torn \/ open \in hidden \cup plain)
    /\ quiet' = ~Auditing
    /\ blurred' = blurred \cup (Watched \cap hidden \cap fresh)
    /\ had' = IF Auditing THEN [n \in Names |-> had[n] \cup {tree'[n]}] ELSE had
    /\ UNCHANGED <<pc, open, resultVars>>

TopOf(n) == IF n \in Deep THEN {} ELSE {Top}

Overwrite(n) ==
    /\ tree[n] # None
    /\ \E c \in ContentOf(n) : tree' = [tree EXCEPT ![n] = c]
    /\ UNCHANGED <<dirs, manifest, unsafe>>
    /\ Change({n}, {})

Add(n) ==
    /\ tree[n] = None /\ (n \in Deep => dirs > 0)
    /\ \E c \in ContentOf(n) : tree' = [tree EXCEPT ![n] = c]
    /\ UNCHANGED <<dirs, manifest, unsafe>>
    /\ Change(TopOf(n), {n})

Remove(n) ==
    /\ tree[n] # None
    /\ tree' = [tree EXCEPT ![n] = None]
    /\ unsafe' = unsafe \ {n}
    /\ UNCHANGED <<dirs, manifest>>
    /\ Change(TopOf(n), {n})

\* A link to it, or other rights.
Spoil(n) ==
    /\ IF n = Sums THEN manifest # None ELSE tree[n] # None
    /\ unsafe' = unsafe \cup {n}
    /\ UNCHANGED <<tree, dirs, manifest>>
    /\ Change({}, {n} \cap Names)

\* An empty subdirectory comes or goes.
ChangeDirs ==
    /\ dirs' \in {dirs + 1, dirs - 1} \cap Nat
    /\ Files \cap Deep # {} => dirs' > 0
    /\ UNCHANGED <<tree, manifest, unsafe>>
    /\ Change({Top}, {})

\* SHA256SUMS is written anew, with what is there now or with one line more,
\* less or changed, or removed.
Forge ==
    /\ \/ manifest' \in {Garbled, None, [n \in Files |-> tree[n]]}
       \/ /\ manifest \notin {Garbled, None}
          /\ \E n \in Names :
                \/ manifest' = [x \in DOMAIN manifest \ {n} |-> manifest[x]]
                \/ \E c \in ContentOf(n) :
                      manifest' = [x \in DOMAIN manifest \cup {n} |->
                                      IF x = n THEN c ELSE manifest[x]]
    /\ manifest' # manifest
    /\ unsafe' = unsafe \ (IF manifest' = None THEN {Sums} ELSE {})
    /\ UNCHANGED <<tree, dirs>>
    /\ Change(IF None \in {manifest, manifest'} THEN {Top} ELSE {}, {})

TimePasses ==
    /\ fresh # {}
    /\ fresh' = {}
    /\ UNCHANGED <<treeVars, changes, pc, lookVars, resultVars, historyVars>>

Run == GenerateManifest \/ Validate \/ SealRefused \/ SealFails

Verify ==
    \/ OpenBackup \/ ReadMetadata \/ CheckStructure \/ FindReason \/ ReadManifest
    \/ List \/ HashStart \/ HashEnd \/ Finish \/ CallFails \/ Return

OtherWriter ==
    \/ \E n \in Names : Overwrite(n) \/ Add(n) \/ Remove(n)
    \/ \E n \in Names \cup {Sums} : Spoil(n)
    \/ ChangeDirs \/ Forge

Next == Run \/ Verify \/ OtherWriter \/ TimePasses

Spec == Init /\ [][Next]_vars

(***************************************************************************)
(* Properties.                                                             *)
(***************************************************************************)
Reported == pc = "reported"

\* The verdict the documentation promises for a tree that nobody changes.
Truth ==
    IF Meta \in unsafe \/ tree[Meta] \in {None, "garbled"} THEN "invalid"
    ELSE IF tree[Meta] = "format1" THEN "legacy"
    ELSE IF unsafe # {} \/ Files \cap Refused # {} \/ Cardinality(Files) + dirs > MaxEntries
         THEN "invalid"
    ELSE IF manifest \in {None, Garbled} THEN "invalid"
    ELSE IF \/ Cardinality(DOMAIN manifest) \notin 1 .. MaxEntries
            \/ ~ (Bytes(DOMAIN manifest) <= MaxManifest) THEN "invalid"
    ELSE IF DOMAIN manifest # Files THEN "mismatch"
    ELSE IF tree[Meta] = "undated" \/ tree[Checkpoints] \in {None, "unprepared"} THEN "invalid"
    ELSE IF \E n \in Files : manifest[n] # tree[n] THEN "mismatch"
    ELSE "ok"

\* An audit during which nothing changes and no call fails misses no damage,
\* raises no false alarm, blesses no backup of format 1, and counts every file
\* it passes.
QuietAuditIsTrue ==
    Reported /\ quiet => verdict = Truth /\ (verdict = "ok" => hashed = Cardinality(Files))

\* A backup that passes although it has been written to meanwhile still had
\* each file that it was checked for with the right content at some time, and
\* in its top directory the same files throughout: those of the manifest.
\* What was changed in the very tick in which it was looked at is excepted.
OkUnderWrites ==
    Reported /\ verdict = "ok" =>
        /\ \A n \in DOMAIN expected \ blurred : expected[n] \in had[n]
        /\ Top \notin blurred =>
              \A n \in Names \ Deep : IF n \in DOMAIN expected THEN None \notin had[n]
                                                               ELSE had[n] = {None}

\* What the documentation says can be sealed.
Sealable ==
    /\ Cardinality(Files) + dirs <= MaxEntries
    /\ Bytes(Files) <= MaxManifest
    /\ Files \cap Refused = {}
    /\ manifest # Garbled

\* A stage within the limits is sealed, unless a call fails; and what has been
\* sealed and not changed passes.  The types, too.
SealsWithinLimit ==
    /\ TypeOK
    /\ pc = "kept" => ~Sealable
    /\ Reported /\ quiet /\ changes = 0 /\ tree[Meta] # "format1" => verdict = "ok"

=============================================================================

--------------------------------- MODULE MCAudit ---------------------------------
(***************************************************************************)
(* Small instances of what verify does beside another writer: the hashing  *)
(* of one file, and the audit of a backup, for which that is two steps.    *)
(* One of the two runs at a time, and the variables of the other stand     *)
(* still.                                                                  *)
(***************************************************************************)
EXTENDS HashFile, FiniteSets

CONSTANTS
    Plain, Deep, Refused, Meta, Checkpoints, Sums, Top,
    Dirs, Length, MaxEntries, MaxManifest, MaxChanges,
    None, Garbled

VARIABLES
    part,
    tree, dirs, manifest, unsafe, fresh, changes, auditPc,
    open, torn, stale, expected, todo, hashed, verdict,
    quiet, blurred, had

auditVars ==
    <<tree, dirs, manifest, unsafe, fresh, changes, auditPc,
      open, torn, stale, expected, todo, hashed, verdict, quiet, blurred, had>>

A == INSTANCE Audit WITH pc <- auditPc

\* There are finitely many names, and None and Garbled are neither what a file
\* holds nor a manifest.
ASSUME AuditAssumption ==
    /\ IsFiniteSet(Plain)
    /\ {Sums, Top, None} \cap A!Names = {} /\ Top # None /\ Meta # Checkpoints
    /\ Meta \notin Plain /\ Checkpoints \notin Plain
    /\ {Meta, Checkpoints} \cap (Deep \cup Refused) = {}
    /\ Dirs \subseteq Nat /\ MaxEntries \in Nat /\ MaxChanges \in Nat
    /\ None \notin UNION {A!ContentOf(n) : n \in A!Names}
    /\ \A S \in SUBSET A!Names :
          {None, Garbled} \cap [S -> UNION {A!ContentOf(n) : n \in A!Names}] = {}

\* The line of one file is so long that the manifest cannot have it.
LineLength == [n \in Plain \cup {Meta, Checkpoints} |->
                  IF n \in Plain \ (Deep \cup Refused) THEN 3 ELSE 1]

NoAudit ==
    /\ tree = None /\ dirs = None /\ manifest = None /\ unsafe = None /\ fresh = None
    /\ changes = None /\ auditPc = None
    /\ open = None /\ torn = None /\ stale = None
    /\ expected = None /\ todo = None /\ hashed = None /\ verdict = None
    /\ quiet = None /\ blurred = None /\ had = None

MCInit ==
    \/ part = "hash" /\ Init /\ NoAudit
    \/ /\ part = "audit" /\ A!Init
       /\ Init /\ entry = 1 /\ content = [i \in Inodes |-> <<>>]

MCNext ==
    /\ \/ part = "hash" /\ Next /\ UNCHANGED auditVars
       \/ part = "audit" /\ A!Next /\ UNCHANGED vars
    /\ UNCHANGED part

MCSpec == MCInit /\ [][MCNext]_<<part, vars, auditVars>>

\* An audit during which nothing changes says what is so: QuietAuditIsTrue of
\* Audit.
QuietAuditIsTrue == part = "audit" => A!QuietAuditIsTrue

\* A backup that passes although it is written to had every file right, and no
\* others, but for what a tick hides: OkUnderWrites of Audit.
OkUnderWrites == part = "audit" => A!OkUnderWrites

\* A stage within the limits is sealed, and passes: SealsWithinLimit of Audit.
SealsWithinLimit == part = "audit" => A!SealsWithinLimit

=============================================================================

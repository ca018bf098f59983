--------------------------------- MODULE MCStart ---------------------------------
(***************************************************************************)
(* Small instances of what is around a workflow: the command line, and     *)
(* what a run goes through before it makes a stage, which is the paths,    *)
(* the walk to the root, the lock and the free space.  Each part starts    *)
(* from whatever the one before it may have left, so one of them runs at a *)
(* time, and the variables of the others stand still.                      *)
(***************************************************************************)
EXTENDS LockFile, FreeSpace

CONSTANTS
    Dir, RootDir,  \* directories that paths lead through
    Component,
    MaxLen, MaxLinks,
    Nodes, Slash,  \* inodes of the directories that a walk leads through
    Depth,
    MaxBackups

VARIABLES
    part,
    fs, backupDir, datadir, pathPc,
    entries, onDisk, used, good, walkPc, trail, seen, opened,
    cmd, json, names, commandPc, cancelled, results, failure, data, written, broken, stderr, exit

pathVars == <<fs, backupDir, datadir, pathPc>>
walkVars == <<entries, onDisk, used, good, walkPc, trail, seen, opened>>
commandVars ==
    <<cmd, json, names, commandPc, cancelled, results, failure, data, written, broken, stderr, exit>>
mcVars == <<part, vars, spaceVars, pathVars, walkVars, commandVars>>

Paths == INSTANCE PathPolicy WITH
    Dirs <- Dir, Top <- RootDir, Names <- Component, pc <- pathPc

\* First runs and another writer.
Walk == INSTANCE RootWalk WITH
    Inodes <- Nodes, Top <- Slash, Hostile <- TRUE, pc <- walkPc

\* More first runs that nobody disturbs, except that the power may go.
Race == INSTANCE RootWalk WITH
    Runs <- Procs, Inodes <- Nodes, Top <- Slash, Hostile <- FALSE, pc <- walkPc

\* Any invocation.
Command == INSTANCE CommandLine WITH pc <- commandPc

\* A directory is neither a path nor None, which is no path.
ASSUME StartAssumption ==
    /\ RootDir \in Dir /\ None \notin Dir
    /\ MaxLen \in Nat /\ MaxLinks \in Nat
    /\ (Dir \cup {None}) \cap Paths!Path = {}
    /\ Slash \in Nodes /\ None \notin Nodes /\ Depth \in Nat \ {0}
    /\ MaxBackups \in Nat

Part == {"command", "paths", "walk", "race", "lock", "space"}

MCInit ==
    /\ part \in Part
    /\ CASE part = "paths" -> Paths!Init
         [] OTHER -> fs = None /\ backupDir = None /\ datadir = None /\ pathPc = None
    /\ CASE part = "walk" -> Walk!Init
         [] part = "race" -> Race!Init
         [] OTHER ->
              /\ entries = None /\ onDisk = None /\ used = None /\ good = None
              /\ walkPc = None /\ trail = None /\ seen = None /\ opened = None
    /\ CASE part = "command" -> Command!Init
         [] OTHER ->
              /\ cmd = None /\ json = None /\ names = None /\ commandPc = None
              /\ cancelled = None /\ results = None /\ failure = None /\ data = None
              /\ written = None /\ broken = None /\ stderr = None /\ exit = None
    /\ Init /\ (part # "lock" => entry = None)
    /\ SpaceInit /\ (part # "space" => available = 0 /\ needed = 0)

MCNext ==
    /\ \/ /\ part = "command" /\ Command!Next
          /\ UNCHANGED <<vars, spaceVars, pathVars, walkVars>>
       \/ /\ part = "paths" /\ Paths!Next
          /\ UNCHANGED <<vars, spaceVars, walkVars, commandVars>>
       \/ /\ part = "walk" /\ Walk!Next
          /\ UNCHANGED <<vars, spaceVars, pathVars, commandVars>>
       \/ /\ part = "race" /\ Race!Next
          /\ UNCHANGED <<vars, spaceVars, pathVars, commandVars>>
       \/ /\ part = "lock" /\ Next
          /\ UNCHANGED <<spaceVars, pathVars, walkVars, commandVars>>
       \/ /\ part = "space" /\ SpaceNext
          /\ UNCHANGED <<vars, pathVars, walkVars, commandVars>>
    /\ UNCHANGED part

MCSpec == MCInit /\ [][MCNext]_mcVars

\* Status 0 means that the whole result is told and all is well: ZeroMeansAll of
\* CommandLine.
ZeroMeansAll == part = "command" => Command!ZeroMeansAll

\* What became of an invocation is told, and once: EverythingTold of CommandLine.
EverythingTold == part = "command" => Command!EverythingTold

\* What passes the checks of loadConfig, openBackupRoot and validateRuntime does
\* not overlap: PathInv of PathPolicy.
PathsApart == part = "paths" => Paths!PathInv

\* What openBackupRoot has walked through was checked: WalkInv of RootWalk.
WalkInv == part = "walk" => Walk!WalkInv

\* What openBackupRoot has walked through survives a power loss: WalkedIsDurable
\* of RootWalk.
WalkedIsDurable ==
    /\ part = "walk" => Walk!WalkedIsDurable
    /\ part = "race" => Race!WalkedIsDurable

\* First runs that start together do not stop each other: NobodyIsRefused of
\* RootWalk.
NobodyIsRefused == part = "race" => Race!NobodyIsRefused

=============================================================================

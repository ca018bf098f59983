-------------------------------- MODULE FailureLog --------------------------------
(***************************************************************************)
(* Where the output of xtrabackup goes: each run writes it to a file       *)
(* .command-<id> that it removes when it returns; saveFailure first copies *)
(* it to .failure-<token>, which it renames to .last-failure.log.  The     *)
(* exclusive lock lets one run at a time do so; a reader needs none.       *)
(* Removing a file is tried once: what fails is passed over.               *)
(***************************************************************************)
EXTENDS Integers

CONSTANTS
    Runs,
    Foreign,  \* a link, or a file that is not the run's
    None

VARIABLES
    last,     \* .last-failure.log: the run whose output it holds, or what it is
    whole,    \* it holds all of that output
    command,  \* what is under .command-<id> of each run
    failure,  \* runs whose .failure- file exists
    written,  \* those of them that hold the whole output
    stuck,    \* the files that a run has failed to remove
    pc

files == <<last, whole, command, failure, written, stuck>>
vars == <<files, pc>>

PC == {"idle", "phases", "lstat", "create", "write", "rename", "discard", "close",
       "remove", "done", "crashed"}

TypeOK ==
    /\ last \in Runs \cup {Foreign, None}
    /\ whole \in BOOLEAN
    /\ command \in [Runs -> {"output", Foreign, None}]
    /\ written \subseteq failure /\ failure \subseteq Runs
    /\ stuck \subseteq {"command", "failure"} \X Runs
    /\ pc \in [Runs -> PC]

Init ==
    /\ last \in {Foreign, None}
    /\ whole = TRUE
    /\ command = [r \in Runs |-> None] /\ failure = {} /\ written = {} /\ stuck = {}
    /\ pc = [r \in Runs |-> "idle"]

Go(r, next) == pc' = [pc EXCEPT ![r] = next]

Locked == \E r \in Runs : pc[r] \notin {"idle", "done", "crashed"}

OpenCommandLog(r) ==
    /\ pc[r] = "idle" /\ ~Locked
    /\ command' = [command EXCEPT ![r] = "output"]
    /\ Go(r, "phases")
    /\ UNCHANGED <<last, whole, failure, written, stuck>>

PhasesEnd(r) ==
    /\ pc[r] = "phases"
    /\ Go(r, "close") \/ Go(r, "lstat")
    /\ UNCHANGED files

\* What is there is a log of ours, or nothing.
CheckPrevious(r) ==
    /\ pc[r] = "lstat"
    /\ Go(r, IF last = Foreign THEN "close" ELSE "create")
    /\ UNCHANGED files

\* Mutant: the log is written in place.
CreateTempMutant(r) ==
    /\ pc[r] = "create"
    /\ last' = r /\ whole' = FALSE
    /\ failure' = failure \cup {r}
    /\ Go(r, "write")
    /\ UNCHANGED <<command, written, stuck>>

CreateTemp(r) ==
    /\ pc[r] = "create"
    /\ failure' = failure \cup {r}
    /\ Go(r, "write")
    /\ UNCHANGED <<last, whole, command, written, stuck>>

WriteTemp(r) ==
    /\ pc[r] = "write"
    /\ written' = written \cup {r}
    /\ Go(r, "rename")
    /\ UNCHANGED <<last, whole, command, failure, stuck>>

RenameTemp(r) ==
    /\ pc[r] = "rename"
    /\ last' = r /\ whole' = (r \in written)
    /\ failure' = failure \ {r} /\ written' = written \ {r}
    /\ Go(r, "close")
    /\ UNCHANGED <<command, stuck>>

\* Mutant: a short write returns at once.
FailsMutant(r) ==
    /\ \/ pc[r] \in {"lstat", "create"} /\ Go(r, "close")
       \/ pc[r] \in {"write", "rename"} /\ Go(r, "close")
    /\ UNCHANGED files

\* A call of saveFailure fails.
Fails(r) ==
    /\ \/ pc[r] \in {"lstat", "create"} /\ Go(r, "close")
       \/ pc[r] \in {"write", "rename"} /\ Go(r, "discard")
    /\ UNCHANGED files

\* root.Remove, whose error is passed over.
Discard(r) ==
    /\ pc[r] = "discard"
    /\ \/ failure' = failure \ {r} /\ written' = written \ {r} /\ UNCHANGED stuck
       \/ stuck' = stuck \cup {<<"failure", r>>} /\ UNCHANGED <<failure, written>>
    /\ Go(r, "close")
    /\ UNCHANGED <<last, whole, command>>

\* The deferred closure: Stat and Lstat, which may fail, and SameFile.
CheckCommandLog(r) ==
    /\ pc[r] = "close"
    /\ \/ Go(r, IF command[r] = "output" THEN "remove" ELSE "done") /\ UNCHANGED stuck
       \/ Go(r, "done") /\ stuck' = stuck \cup {<<"command", r>>}
    /\ UNCHANGED <<last, whole, command, failure, written>>

\* root.Remove of whatever has the name by now.
RemoveCommandLog(r) ==
    /\ pc[r] = "remove"
    /\ \/ command' = [command EXCEPT ![r] = None] /\ UNCHANGED stuck
       \/ stuck' = stuck \cup {<<"command", r>>} /\ UNCHANGED command
    /\ Go(r, "done")
    /\ UNCHANGED <<last, whole, failure, written>>

Crash(r) ==
    /\ pc[r] \notin {"idle", "done", "crashed"}
    /\ Go(r, "crashed")
    /\ UNCHANGED files

\* Another writer removes the log, or puts something else there.
Plant ==
    /\ last' \in {Foreign, None} \ {last}
    /\ whole' = TRUE
    /\ UNCHANGED <<command, failure, written, stuck, pc>>

\* The same with a command log.
PlantCommand(r) ==
    /\ command[r] # None
    /\ command' \in {[command EXCEPT ![r] = c] : c \in {Foreign, None}}
    /\ UNCHANGED <<last, whole, failure, written, stuck, pc>>

Step(r) ==
    \/ OpenCommandLog(r) \/ PhasesEnd(r) \/ CheckPrevious(r) \/ CreateTemp(r)
    \/ WriteTemp(r) \/ RenameTemp(r) \/ Fails(r) \/ Discard(r) \/ CheckCommandLog(r)
    \/ RemoveCommandLog(r) \/ Crash(r)

Next == Plant \/ \E r \in Runs : Step(r) \/ PlantCommand(r)

Spec == Init /\ [][Next]_vars

(***************************************************************************)
(* Properties.                                                             *)
(***************************************************************************)
\* Whoever opens .last-failure.log at any time, of whichever runs were killed,
\* finds the whole output of one run.
WholeLog == TypeOK /\ whole

\* The output of xtrabackup may tell too much: once no run is at work, none of it
\* is left but .last-failure.log, the files of runs that were killed, and those
\* that a run has tried to remove when it left them.
OutputRemoved ==
    \A r \in Runs : pc[r] # "crashed" /\ ~Locked =>
        /\ command[r] = "output" => <<"command", r>> \in stuck
        /\ r \in failure => <<"failure", r>> \in stuck

=============================================================================

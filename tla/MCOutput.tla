-------------------------------- MODULE MCOutput --------------------------------
(***************************************************************************)
(* Small instances of where the output of xtrabackup goes: the ring of the *)
(* command log, the events of --verbose, and the failure log.  They share  *)
(* no state, so one of them runs at a time, and the variables of the       *)
(* others stand still.                                                     *)
(***************************************************************************)
EXTENDS MCCommandTail

CONSTANTS
    Phases, MaxPiece, MaxSent, MaxLine, MaxOutput, Overhead, Escape,
    Runs, Foreign, None

ASSUME OutputAssumption ==
    /\ Phases \in Nat \ {0} /\ Escape \in Nat \ {0}
    /\ {MaxPiece, MaxSent, MaxLine, MaxOutput, Overhead} \subseteq Nat
    /\ "output" \notin {Foreign, None}

VARIABLES
    part,
    phase, phasePc, uncertain, copying, input, buf, truncated,
    remaining, events, consumed, flushed,
    last, whole, command, failure, written, stuck, runPc

phaseVars ==
    <<phase, phasePc, uncertain, copying, input, buf, truncated, remaining, events, consumed, flushed>>
failureVars == <<last, whole, command, failure, written, stuck, runPc>>

P == INSTANCE PhaseOutput WITH pc <- phasePc

F == INSTANCE FailureLog WITH pc <- runPc

NoPhase ==
    /\ phase = None /\ phasePc = None /\ uncertain = None /\ copying = None
    /\ input = None /\ buf = None /\ truncated = None
    /\ remaining = None /\ events = None /\ consumed = None /\ flushed = None

NoFailure ==
    /\ last = None /\ whole = None /\ command = None
    /\ failure = None /\ written = None /\ stuck = None /\ runPc = None

MCInit ==
    /\ Init
    /\ \/ part = "tail" /\ NoPhase /\ NoFailure
       \/ part = "phases" /\ disk = [i \in Slots |-> a] /\ P!Init /\ NoFailure
       \/ part = "failure" /\ disk = [i \in Slots |-> a] /\ NoPhase /\ F!Init

MCNext ==
    /\ \/ part = "tail" /\ Next /\ UNCHANGED <<phaseVars, failureVars>>
       \/ part = "phases" /\ P!Next /\ UNCHANGED <<vars, failureVars>>
       \/ part = "failure" /\ F!Next /\ UNCHANGED <<vars, phaseVars>>
    /\ UNCHANGED part

MCSpec == MCInit /\ [][MCNext]_<<part, vars, phaseVars, failureVars>>

\* The events of a stream are its lines, in order, flagged where they are cut:
\* LinesLogged of PhaseOutput.
LinesLogged == part = "phases" => P!LinesLogged

\* All phases together stay within maxVerboseOutput: BudgetHeld of PhaseOutput.
BudgetHeld == part = "phases" => P!BudgetHeld

\* The failure log is always the whole output of one run: WholeLog of
\* FailureLog.
WholeLog == part = "failure" => F!WholeLog

\* The other output files are gone once their run is, unless it was killed or
\* failed to remove them: OutputRemoved of FailureLog.
OutputRemoved == part = "failure" => F!OutputRemoved

=============================================================================

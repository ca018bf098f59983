------------------------------- MODULE PhaseOutput -------------------------------
(***************************************************************************)
(* backup --verbose: the stdout and stderr of each phase are copied by two *)
(* goroutines of os/exec into a lineOutput each, which log complete lines  *)
(* as events within a budget that all phases share.  The run flushes the   *)
(* line buffers and reads the version, when runChildStreams has returned.  *)
(***************************************************************************)
EXTENDS Integers, SequencesExt, SequenceFold

CONSTANTS
    Phases,     \* phase 1 is that of the version
    MaxPiece,   \* bound on what a copier reads at once
    MaxSent,    \* bound on the bytes of a stream
    MaxLine,    \* maxVerboseLine
    MaxOutput,  \* maxVerboseOutput
    Overhead,   \* eventOverhead
    Escape      \* how much longer a byte can get when it is logged

Stream == {"stdout", "stderr"}

\* 0 is a newline.
Piece == BoundedSeq({0, 1}, MaxPiece) \ {<<>>}

VARIABLES
    phase, pc,
    uncertain,  \* the phase has ended so, and the run returns an error
    copying,    \* streams whose copier has not ended
    input,      \* what is left of the piece each copier writes
    buf, truncated,
    remaining, events,
    consumed,   \* the bytes each lineOutput of this phase has been given
    flushed     \* streams the run has flushed

lineVars == <<input, buf, truncated, consumed, flushed>>
vars == <<phase, pc, uncertain, copying, lineVars, remaining, events>>

TypeOK ==
    /\ phase \in 1 .. Phases
    /\ pc \in {"run", "flushStdout", "flushStderr", "version", "next", "ended"}
    /\ uncertain \in BOOLEAN
    /\ copying \subseteq Stream
    /\ \A s \in Stream : Len(buf[s]) <= MaxLine /\ Len(consumed[s]) <= MaxSent
    /\ flushed \subseteq Stream
    /\ truncated \in [Stream -> BOOLEAN]

NewBuffers ==
    /\ input = [s \in Stream |-> <<>>]
    /\ buf = [s \in Stream |-> <<>>]
    /\ truncated = [s \in Stream |-> FALSE]
    /\ consumed = [s \in Stream |-> <<>>]
    /\ flushed = {}

Init ==
    /\ phase = 1 /\ pc = "run" /\ uncertain = FALSE
    /\ copying = Stream
    /\ NewBuffers
    /\ remaining = MaxOutput /\ events = <<>>

First(s, n) == IF Len(s) > n THEN SubSeq(s, 1, n) ELSE s

\* Mutant: there is an event as long as anything remains.
FlushMutant(s, line, cut) ==
    /\ IF (line = <<>> /\ ~cut) \/ remaining <= 0
       THEN UNCHANGED <<remaining, events>>
       ELSE LET content == First(line, remaining \div Escape)
            IN  /\ remaining' = remaining - (Escape * Len(content) + Overhead)
                /\ events' = Append(events, [phase |-> phase, stream |-> s, line |-> content,
                                             truncated |-> cut \/ content # line])
    /\ buf' = [buf EXCEPT ![s] = <<>>]
    /\ truncated' = [truncated EXCEPT ![s] = FALSE]

\* lineOutput.flush, under the mutex of the budget; line and cut are what the
\* buffer of the stream holds by then.
Flush(s, line, cut) ==
    /\ IF (line = <<>> /\ ~cut) \/ remaining <= Overhead
       THEN UNCHANGED <<remaining, events>>
       ELSE LET content == First(line, (remaining - Overhead) \div Escape)
            IN  /\ remaining' = remaining - (Escape * Len(content) + Overhead)
                /\ events' = Append(events, [phase |-> phase, stream |-> s, line |-> content,
                                             truncated |-> cut \/ content # line])
    /\ buf' = [buf EXCEPT ![s] = <<>>]
    /\ truncated' = [truncated EXCEPT ![s] = FALSE]

(***************************************************************************)
(* A copier.                                                               *)
(***************************************************************************)
ReadPiece(s) ==
    /\ s \in copying /\ input[s] = <<>>
    /\ \E p \in Piece :
          /\ Len(consumed[s]) + Len(p) <= MaxSent
          /\ input' = [input EXCEPT ![s] = p]
    /\ UNCHANGED <<phase, pc, uncertain, copying, buf, truncated, consumed, flushed, remaining, events>>

\* The next newline of what is left to write, 0 if there is none.
Newline(p) ==
    LET at == {i \in 1 .. Len(p) : p[i] = 0}
    IN  IF at = {} THEN 0 ELSE CHOOSE i \in at : \A j \in at : i <= j

\* One turn of lineOutput.Write: up to the next newline, or to the end.
WritePart(s) ==
    /\ s \in copying /\ input[s] # <<>>
    /\ LET n == Newline(input[s])
           part == IF n = 0 THEN input[s] ELSE SubSeq(input[s], 1, n - 1)
           line == First(buf[s] \o part, MaxLine)
           cut == truncated[s] \/ Len(buf[s] \o part) > MaxLine
       IN  /\ input' = [input EXCEPT ![s] =
                          IF n = 0 THEN <<>> ELSE SubSeq(@, n + 1, Len(@))]
           /\ consumed' = [consumed EXCEPT ![s] = @ \o First(input[s], Len(part) + 1)]
           /\ IF n = 0
              THEN /\ buf' = [buf EXCEPT ![s] = line]
                   /\ truncated' = [truncated EXCEPT ![s] = cut]
                   /\ UNCHANGED <<remaining, events>>
              ELSE Flush(s, line, cut)
    /\ UNCHANGED <<phase, pc, uncertain, copying, flushed>>

StreamEnds(s) ==
    /\ s \in copying /\ input[s] = <<>>
    /\ copying' = copying \ {s}
    /\ UNCHANGED <<phase, pc, uncertain, lineVars, remaining, events>>

(***************************************************************************)
(* The run.                                                                *)
(***************************************************************************)
Flushing == [s \in Stream |-> IF s = "stdout" THEN "flushStdout" ELSE "flushStderr"]

AfterFlush == IF phase = 1 THEN "version" ELSE "next"

\* runChildStreams has waited for the copiers, as Containment shows.
PhaseReturns ==
    /\ pc = "run" /\ copying = {}
    /\ pc' = "flushStdout"
    /\ UNCHANGED <<phase, uncertain, copying, lineVars, remaining, events>>

\* Mutant: the buffers are flushed whatever the outcome.
PhaseUncertainMutant ==
    /\ pc = "run"
    /\ pc' = "flushStdout"
    /\ uncertain' = TRUE
    /\ UNCHANGED <<phase, copying, lineVars, remaining, events>>

\* containmentUncertain: a copier may still be at work.
PhaseUncertain ==
    /\ pc = "run"
    /\ pc' = AfterFlush
    /\ uncertain' = TRUE
    /\ UNCHANGED <<phase, copying, lineVars, remaining, events>>

CloseStream(s) ==
    /\ pc = Flushing[s]
    /\ flushed' = flushed \cup {s}
    /\ Flush(s, buf[s], truncated[s])
    /\ pc' = IF s = "stdout" THEN "flushStderr" ELSE AfterFlush
    /\ UNCHANGED <<phase, uncertain, copying, input, consumed>>

ReadVersion ==
    /\ pc = "version"
    /\ pc' = "next"
    /\ UNCHANGED <<phase, uncertain, copying, lineVars, remaining, events>>

NextPhase ==
    /\ pc = "next" /\ ~uncertain /\ phase < Phases
    /\ phase' = phase + 1 /\ pc' = "run"
    /\ copying' = Stream
    /\ input' = [s \in Stream |-> <<>>]
    /\ consumed' = [s \in Stream |-> <<>>]
    /\ flushed' = {}
    /\ UNCHANGED <<uncertain, buf, truncated, remaining, events>>

\* After the last phase, or one that failed; copiers end with the process.
End ==
    /\ pc = "next"
    /\ pc' = "ended"
    /\ copying' = {}
    /\ UNCHANGED <<phase, uncertain, lineVars, remaining, events>>

Copier(s) == ReadPiece(s) \/ WritePart(s) \/ StreamEnds(s)

Run ==
    \/ PhaseReturns \/ PhaseUncertain \/ ReadVersion \/ NextPhase \/ End
    \/ \E s \in Stream : CloseStream(s)

Next == Run \/ \E s \in Stream : Copier(s)

Spec == Init /\ [][Next]_vars

(***************************************************************************)
(* Properties.                                                             *)
(***************************************************************************)
\* One byte more of a stream: the line it is in the middle of, and the lines that
\* have ended in a newline, whole, without the empty ones.
Scanned == [line : Seq({1}), all : Seq(Seq({1}))]

Scan ==
    [acc \in Scanned |-> [b \in {0, 1} |->
        IF b # 0 THEN [acc EXCEPT !.line = Append(@, b)]
        ELSE [line |-> <<>>,
              all |-> IF acc.line = <<>> THEN acc.all ELSE Append(acc.all, acc.line)]]]

Lines(bytes) == Fold(Scan, [line |-> <<>>, all |-> <<>>], bytes).all

Event == [phase : 1 .. Phases, stream : Stream, line : Seq({1}), truncated : BOOLEAN]

\* The events of this phase and stream.
Keep(s) ==
    [logged \in Seq(Event) |-> [e \in Event |->
        IF e.phase = phase /\ e.stream = s THEN Append(logged, e) ELSE logged]]

Logged(s) == Fold(Keep(s), <<>>, events)

\* However the bytes of a stream are cut into pieces, whatever the other one
\* logs meanwhile, and whether or not a copier outlives its phase, the events of
\* a stream are its lines in order, without a gap as long as there is budget for
\* an event, and what is cut off is flagged.
LinesLogged ==
    \A s \in Stream :
        LET lines == Lines(consumed[s] \o IF s \in flushed THEN <<0>> ELSE <<>>)
            logged == Logged(s)
        IN  /\ Len(logged) <= Len(lines)
            /\ remaining > Overhead => Len(logged) = Len(lines)
            /\ \A k \in 1 .. Len(logged) :
                  /\ IsPrefix(logged[k].line, lines[k])
                  /\ logged[k].truncated <=> logged[k].line # lines[k]

\* The run touches what the copiers write to only when they have ended: "do not
\* touch its line buffers while that copier could still be running".  It holds
\* for the line buffers; the version is read whatever the phase returned.
BuffersLeftToCopiers == pc \in {"flushStdout", "flushStderr", "version"} => copying = {}

\* What an event takes of the budget.
Spend == [n \in Nat |-> [e \in Event |-> n + Overhead + Escape * Len(e.line)]]

\* What all phases together may have put on stderr stays within maxVerboseOutput.
BudgetHeld ==
    /\ TypeOK
    /\ remaining \in 0 .. MaxOutput
    /\ remaining = MaxOutput - Fold(Spend, 0, events)

=============================================================================

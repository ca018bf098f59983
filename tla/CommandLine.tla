------------------------------- MODULE CommandLine -------------------------------
(***************************************************************************)
(* One invocation of xbkeeper, from its arguments to its exit status: the  *)
(* operation, the loop of verify over the backups, and the writes that     *)
(* present the result, any of which may fail.  A result is written as one  *)
(* JSON value, or as a header and details.                                 *)
(***************************************************************************)
EXTENDS Integers, Sequences, SequencesExt

CONSTANT MaxBackups  \* bound on the backups there are to verify

VARIABLES
    cmd, json,
    names,     \* how many backups verify has to audit
    pc,
    cancelled, \* the context, by SIGINT or SIGTERM
    results,   \* verify's: whether each backup audited so far is ok
    failure,   \* operationErr
    data,      \* what of the result is presented; <<>> is null
    written,   \* what of it is on stdout
    broken,    \* a write to stdout has failed
    stderr,    \* the error is on stderr
    exit

inputVars == <<cmd, json, names>>
vars == <<inputVars, pc, cancelled, results, failure, data, written, broken, stderr, exit>>

Command == {"invalid", "version", "backup", "status", "verify"}
Failure == {"none", "operation", "cancelled", "audit"}

TypeOK ==
    /\ cmd \in Command /\ json \in BOOLEAN /\ names \in 0 .. MaxBackups
    /\ pc \in {"parse", "open", "operation", "verifying", "present", "exit", "ended"}
    /\ cancelled \in BOOLEAN
    /\ results \in BoundedSeq({"ok", "failed"}, MaxBackups)
    /\ failure \in Failure
    /\ data \in {<<>>, <<"details">>, results}
    /\ broken \in BOOLEAN /\ stderr \in BOOLEAN
    /\ exit \in {"running", "0", "1", "SIGPIPE"}

Init ==
    /\ cmd \in Command /\ json \in BOOLEAN /\ names \in 0 .. MaxBackups
    /\ cmd # "verify" => names = 0
    /\ cmd \in {"invalid", "version"} => ~json
    /\ pc = "parse" /\ cancelled = FALSE
    /\ results = <<>> /\ failure = "none" /\ data = <<>>
    /\ written = <<>> /\ broken = FALSE /\ stderr = FALSE /\ exit = "running"

\* The operation is over, with what of its result is to be presented.
Result(error, value) ==
    /\ pc' = "present"
    /\ failure' = error /\ data' = value
    /\ UNCHANGED <<inputVars, cancelled, results, written, broken, stderr, exit>>

Goto(next) ==
    /\ pc' = next
    /\ UNCHANGED <<inputVars, cancelled, results, failure, data, written, broken, stderr, exit>>

(***************************************************************************)
(* The operation.                                                          *)
(***************************************************************************)
ParseOptions ==
    /\ pc = "parse"
    /\ Goto(IF cmd = "invalid" THEN "exit" ELSE IF cmd = "version" THEN "present" ELSE "open")

Open ==
    /\ pc = "open"
    /\ Result("operation", <<>>) \/ Goto("operation")

\* Backup and Status give a result only if they succeed.
Operate ==
    /\ pc = "operation" /\ cmd # "verify"
    /\ \/ Result("none", <<"details">>)
       \/ Result("operation", <<>>)
       \/ cancelled /\ Result("cancelled", <<>>)

\* The root, the lock or the list of backups is not there; or nothing is.
VerifyBegins ==
    /\ pc = "operation" /\ cmd = "verify"
    /\ \/ Result("operation", <<>>)
       \/ names # 0 /\ Goto("verifying")

\* Mutant: what was audited before the cancellation is not presented.
VerifyCancelledMutant ==
    /\ pc = "verifying" /\ cancelled
    /\ Result("cancelled", <<>>)

\* Between two backups, in the middle of one, or after the last.
VerifyCancelled ==
    /\ pc = "verifying" /\ cancelled
    /\ Result("cancelled", results)

VerifyOne ==
    /\ pc = "verifying" /\ Len(results) < names
    /\ \E ok \in {"ok", "failed"} : results' = Append(results, ok)
    /\ UNCHANGED <<inputVars, pc, cancelled, failure, data, written, broken, stderr, exit>>

\* Mutant: the last backup decides.
VerifyEndsMutant ==
    /\ pc = "verifying" /\ Len(results) = names
    /\ Result(IF Last(results) = "ok" THEN "none" ELSE "audit", results)

VerifyEnds ==
    /\ pc = "verifying" /\ Len(results) = names
    /\ Result(IF "failed" \in Range(results) THEN "audit" ELSE "none", results)

Cancel ==
    /\ ~cancelled /\ exit = "running"
    /\ cancelled' = TRUE
    /\ UNCHANGED <<inputVars, pc, results, failure, data, written, broken, stderr, exit>>

(***************************************************************************)
(* presentResult, Run and main.                                            *)
(***************************************************************************)
Envelope == [ok |-> failure = "none", error |-> failure, data |-> data]

\* What presentResult writes: the envelope, or the header and the details.
Output ==
    IF cmd = "version" THEN <<"version">>
    ELSE IF json THEN <<Envelope>>
    ELSE <<[ok |-> failure = "none", error |-> failure]>> \o data

Write ==
    /\ pc = "present" /\ ~broken /\ written # Output
    /\ written' = Append(written, Output[Len(written) + 1])
    /\ UNCHANGED <<inputVars, pc, cancelled, results, failure, data, broken, stderr, exit>>

WriteFails ==
    /\ pc = "present" /\ ~broken /\ written # Output
    /\ broken' = TRUE
    /\ UNCHANGED <<inputVars, pc, cancelled, results, failure, data, written, stderr, exit>>

\* The reader of stdout is gone: the runtime lets the signal kill the process.
BrokenPipe ==
    /\ pc = "present" /\ ~broken /\ written # Output
    /\ broken' = TRUE
    /\ pc' = "ended" /\ exit' = "SIGPIPE"
    /\ UNCHANGED <<inputVars, cancelled, results, failure, data, written, stderr>>

Presented ==
    /\ pc = "present" /\ (broken \/ written = Output)
    /\ Goto("exit")

\* A PresentedError is one whose result is on stdout.
Exit ==
    /\ pc = "exit"
    /\ LET err == cmd = "invalid" \/ failure # "none" \/ broken
           presented == cmd # "invalid" /\ failure # "none" /\ ~broken
       IN  /\ stderr' = (err /\ ~presented)
           /\ exit' = IF err THEN "1" ELSE "0"
    /\ pc' = "ended"
    /\ UNCHANGED <<inputVars, cancelled, results, failure, data, written, broken>>

Next ==
    \/ ParseOptions \/ Open \/ Operate \/ VerifyBegins \/ VerifyCancelled \/ VerifyOne
    \/ VerifyEnds \/ Cancel \/ Write \/ WriteFails \/ BrokenPipe \/ Presented \/ Exit

Spec == Init /\ [][Next]_vars

(***************************************************************************)
(* Properties.                                                             *)
(***************************************************************************)
\* An exit status of 0 means that the whole result is on stdout, and if it is
\* that of verify, that there were backups, each was audited and each is ok.
\* The types, too.
ZeroMeansAll ==
    /\ TypeOK
    /\ exit = "0" =>
          /\ cmd # "invalid" /\ written = Output
          /\ cmd = "verify" => names > 0 /\ results = [i \in 1 .. names |-> "ok"]

\* A failure is told once: in the result if that is whole, and on stderr
\* otherwise.
ToldOnce ==
    exit = "1" => (stderr <=> ~(cmd # "invalid" /\ failure # "none" /\ written = Output))

\* The result of verify has every audit that was completed, whether it ended,
\* found damage or was cancelled.
CompletedAuditsTold ==
    cmd = "verify" /\ ~broken /\ results # <<>> =>
        IF json THEN written[1].data = results ELSE Tail(written) = results

\* An invocation that ends by itself has told what became of it, on one of its
\* outputs and not on both, and what it found out before it was stopped.
EverythingTold == pc = "ended" => ToldOnce /\ CompletedAuditsTold

=============================================================================

------------------------------ MODULE Containment ------------------------------
(***************************************************************************)
(* runChildStreams(): start xtrabackup in a process group of its own, poll *)
(* its leader, and once that has exited, or the context is cancelled, or   *)
(* /proc cannot be read, scan /proc for members of the group.  A group     *)
(* that has to stop gets SIGTERM, after two seconds SIGKILL, and after     *)
(* four the loop gives up on it.  The leader is reaped last, so that the   *)
(* number of the group cannot pass to another one while it is signalled.   *)
(*                                                                         *)
(* The scan lists /proc first and then reads one entry after the other.    *)
(* Time is the seconds since SIGTERM; how long anything else takes is left *)
(* open.                                                                   *)
(***************************************************************************)
EXTENDS Naturals

CONSTANTS
    Leader,         \* the child itself
    Helpers,        \* processes it, or one of them, may fork
    ForkDuringScan  \* whether they may do so while /proc is scanned

ASSUME LeaderAssumption == Leader \notin Helpers
ASSUME ForkAssumption == ForkDuringScan \in BOOLEAN

Members == {Leader} \cup Helpers

VARIABLES
    proc,       \* each member; a dead leader is a zombie until it is reaped
    held,       \* a process outside the group holds the output pipe
    cancelled,  \* the context
    pc,         \* where the loop is
    leader,     \* the leader was active when last polled
    failing,    \* inspectionFailed
    term, kill, \* SIGTERM and SIGKILL have been sent
    elapsed,    \* seconds since SIGTERM
    seen,       \* listed members whose entry is still to be read
    waiter,     \* the goroutine in cmd.Wait
    outcome     \* what runChildStreams returns

worldVars == <<proc, held, cancelled>>
loopVars == <<leader, failing, term, kill, elapsed, seen>>
vars == <<worldVars, pc, loopVars, waiter, outcome>>

KillAfter == 2
GiveUpAfter == 4

Loop == {"poll", "signal", "list", "scan", "late"}
Waiting == {"wait", "lastWait"}

TypeOK ==
    /\ proc \in [Members -> {"none", "alive", "dead"}]
    /\ held \in BOOLEAN
    /\ cancelled \in BOOLEAN
    /\ pc \in {"start", "returned"} \cup Loop \cup Waiting
    /\ leader \in BOOLEAN
    /\ failing \in BOOLEAN
    /\ term \in BOOLEAN
    /\ kill \in BOOLEAN
    /\ elapsed \in 0 .. GiveUpAfter
    /\ seen \subseteq Members
    /\ waiter \in {"none", "waiting", "reaped"}
    /\ outcome \in {"none", "ok", "failed", "cancelled", "uncertain"}

Init ==
    /\ proc = [p \in Members |-> "none"]
    /\ held = FALSE
    /\ cancelled \in BOOLEAN
    /\ pc = "start"
    /\ leader = FALSE
    /\ failing = FALSE
    /\ term = FALSE
    /\ kill = FALSE
    /\ elapsed = 0
    /\ seen = {}
    /\ waiter = "none"
    /\ outcome = "none"

Alive(p) == proc[p] = "alive"
Active == \E p \in Members : Alive(p)

Return(result) == pc' = "returned" /\ outcome' = result

(***************************************************************************)
(* The loop.                                                               *)
(***************************************************************************)
Start ==
    /\ pc = "start"
    /\ ~cancelled
    /\ proc' = [proc EXCEPT ![Leader] = "alive"]
    /\ pc' = "poll"
    /\ UNCHANGED <<held, cancelled, loopVars, waiter, outcome>>

NeverStarts ==
    /\ pc = "start"
    /\ Return(IF cancelled THEN "cancelled" ELSE "failed")
    /\ UNCHANGED <<worldVars, loopVars, waiter>>

\* An unreadable entry says that the leader is not active, and stops the run.
PollLeader ==
    /\ pc = "poll"
    /\ \/ leader' = Alive(Leader) /\ UNCHANGED failing
       \/ leader' = FALSE /\ failing' = TRUE
    /\ pc' = "signal"
    /\ UNCHANGED <<worldVars, term, kill, elapsed, seen, waiter, outcome>>

Stopping == cancelled \/ failing

\* Mutant: every pass sends SIGTERM, and the time starts again.
TerminateMutant == term' = TRUE /\ elapsed' = 0

Terminate ==
    /\ term' = TRUE
    /\ elapsed' = IF term THEN elapsed ELSE 0

Signal ==
    /\ pc = "signal"
    /\ Stopping
    /\ Terminate
    /\ kill' = (kill \/ elapsed' >= KillAfter)
    /\ pc' = "list"
    /\ UNCHANGED <<worldVars, leader, failing, seen, waiter, outcome>>

\* Nothing to stop: scan if the leader has exited, else wait for the tick.
NoSignal ==
    /\ pc = "signal"
    /\ ~Stopping
    /\ pc' = IF leader THEN "poll" ELSE "list"
    /\ UNCHANGED <<worldVars, loopVars, waiter, outcome>>

\* Mutant: only the leader is looked for.
ListProcMutant ==
    /\ pc = "list"
    /\ seen' = {p \in {Leader} : Alive(p)}
    /\ pc' = "scan"
    /\ UNCHANGED <<worldVars, leader, failing, term, kill, elapsed, waiter, outcome>>

\* Mutant: the leader is reaped as soon as it exits.
ListProcReaps ==
    /\ pc = "list"
    /\ seen' = {p \in Members : Alive(p)}
    /\ pc' = "scan"
    /\ waiter' = IF leader THEN waiter ELSE "waiting"
    /\ UNCHANGED <<worldVars, leader, failing, term, kill, elapsed, outcome>>

ListProc ==
    /\ pc = "list"
    /\ seen' = {p \in Members : Alive(p)}
    /\ pc' = "scan"
    /\ UNCHANGED <<worldVars, leader, failing, term, kill, elapsed, waiter, outcome>>

\* A member that has died since is passed over, a live one ends the scan.
ReadEntry ==
    /\ pc = "scan"
    /\ \E p \in seen :
          IF Alive(p) THEN pc' = "late" /\ seen' = {}
                      ELSE UNCHANGED pc /\ seen' = seen \ {p}
    /\ UNCHANGED <<worldVars, leader, failing, term, kill, elapsed, waiter, outcome>>

\* Mutant: SIGTERM is sent, and the reason forgotten.
ScanFailsMutant ==
    /\ pc \in {"list", "scan"}
    /\ IF term THEN UNCHANGED <<term, elapsed>> ELSE Terminate
    /\ pc' = "late"
    /\ seen' = {}
    /\ UNCHANGED <<worldVars, leader, failing, kill, waiter, outcome>>

ScanFails ==
    /\ pc \in {"list", "scan"}
    /\ IF term THEN UNCHANGED <<failing, term, elapsed>>
               ELSE failing' = TRUE /\ Terminate
    /\ pc' = "late"
    /\ seen' = {}
    /\ UNCHANGED <<worldVars, leader, kill, waiter, outcome>>

\* Nobody is left: reap the leader.
ScanEnds ==
    /\ pc = "scan"
    /\ seen = {}
    /\ pc' = "wait"
    /\ waiter' = "waiting"
    /\ UNCHANGED <<worldVars, loopVars, outcome>>

NextTick ==
    /\ pc = "late"
    /\ ~(term /\ elapsed >= GiveUpAfter)
    /\ pc' = "poll"
    /\ UNCHANGED <<worldVars, loopVars, waiter, outcome>>

\* Mutant: a group that is given up on is a failure like any other.
GiveUpMutant ==
    /\ pc = "late"
    /\ term /\ elapsed >= GiveUpAfter
    /\ IF leader THEN Return("failed") /\ UNCHANGED waiter
                 ELSE pc' = "lastWait" /\ waiter' = "waiting" /\ UNCHANGED outcome
    /\ UNCHANGED <<worldVars, loopVars>>

GiveUp ==
    /\ pc = "late"
    /\ term /\ elapsed >= GiveUpAfter
    /\ IF leader THEN Return("uncertain") /\ UNCHANGED waiter
                 ELSE pc' = "lastWait" /\ waiter' = "waiting" /\ UNCHANGED outcome
    /\ UNCHANGED <<worldVars, loopVars>>

(***************************************************************************)
(* waitChild(): cmd.Wait in a goroutine that outlives the wait for it.     *)
(***************************************************************************)
Reap ==
    /\ waiter = "waiting"
    /\ proc[Leader] = "dead"
    /\ waiter' = "reaped"
    /\ UNCHANGED <<worldVars, pc, loopVars, outcome>>

\* Whether the output pipe is still open: a member may have closed it.
PipeOpen == {open \in BOOLEAN : (held => open) /\ (open => held \/ Active)}

\* Mutant: that inspection failed is forgotten once the child is reaped.
WaitedMutant ==
    /\ pc = "wait"
    /\ waiter = "reaped"
    /\ \E success \in BOOLEAN, open \in PipeOpen :
          IF open /\ success THEN Return("uncertain")
          ELSE Return(IF cancelled THEN "cancelled"
                      ELSE IF ~success THEN "failed" ELSE "ok")
    /\ UNCHANGED <<worldVars, loopVars, waiter>>

\* The pipes are drained, or given up after WaitDelay; an exit status other
\* than zero hides which.
Waited ==
    /\ pc = "wait"
    /\ waiter = "reaped"
    /\ \E success \in BOOLEAN, open \in PipeOpen :
          IF open /\ success THEN Return("uncertain")
          ELSE Return(IF cancelled THEN "cancelled"
                      ELSE IF failing \/ ~success THEN "failed" ELSE "ok")
    /\ UNCHANGED <<worldVars, loopVars, waiter>>

\* Two seconds are over, or the wait was only to reap if possible.
StopWaiting ==
    /\ pc \in Waiting
    /\ Return("uncertain")
    /\ UNCHANGED <<worldVars, loopVars, waiter>>

Step ==
    \/ Start \/ NeverStarts \/ PollLeader \/ Signal \/ NoSignal \/ ListProc
    \/ ReadEntry \/ ScanFails \/ ScanEnds \/ NextTick \/ GiveUp \/ Waited
    \/ StopWaiting

(***************************************************************************)
(* The group, the context and the time.                                    *)
(***************************************************************************)
Fork(p, q) ==
    /\ Alive(p) /\ proc[q] = "none"
    /\ pc = "scan" => ForkDuringScan
    /\ proc' = [proc EXCEPT ![q] = "alive"]
    /\ UNCHANGED <<held, cancelled, pc, loopVars, waiter, outcome>>

Exit(p) ==
    /\ Alive(p)
    /\ proc' = [proc EXCEPT ![p] = "dead"]
    /\ UNCHANGED <<held, cancelled, pc, loopVars, waiter, outcome>>

\* It leaves the group, with the output pipe.
Detach(p) ==
    /\ p # Leader /\ Alive(p)
    /\ proc' = [proc EXCEPT ![p] = "dead"]
    /\ held' = TRUE
    /\ UNCHANGED <<cancelled, pc, loopVars, waiter, outcome>>

Release ==
    /\ held
    /\ held' = FALSE
    /\ UNCHANGED <<proc, cancelled, pc, loopVars, waiter, outcome>>

Cancel ==
    /\ ~cancelled
    /\ cancelled' = TRUE
    /\ UNCHANGED <<proc, held, pc, loopVars, waiter, outcome>>

Elapse ==
    /\ term /\ elapsed < GiveUpAfter
    /\ elapsed' = elapsed + 1
    /\ UNCHANGED <<worldVars, pc, leader, failing, term, kill, seen, waiter, outcome>>

World ==
    \/ \E p \in Members, q \in Helpers : Fork(p, q)
    \/ \E p \in Members : Exit(p) \/ Detach(p)
    \/ Release \/ Cancel \/ Elapse

Next == Step \/ Reap \/ World

Spec == Init /\ [][Next]_vars

\* The loop goes on with every tick, and time with it.
FairSpec == Spec /\ WF_vars(Step) /\ WF_vars(Elapse)

(***************************************************************************)
(* Properties.                                                             *)
(***************************************************************************)
\* Unless the outcome is uncertain, no member of the group is left to write
\* to the stage.
GoneWhenReturned == outcome \in {"ok", "failed", "cancelled"} => ~Active

\* Success means that the child ended by itself, its group with it, and that
\* nobody holds its output: it was not signalled, not even to be safe.
OkIsFinal == outcome = "ok" => ~Active /\ ~held /\ ~term

\* No signal is sent to the group once its leader may have been reaped.
SignalsReachTheGroup ==
    [][term' # term \/ kill' # kill => waiter = "none"]_vars

\* A group that is given up on while it lives was sent SIGKILL.
KilledBeforeGivingUp == outcome = "uncertain" /\ Alive(Leader) => kill

\* A run that is cancelled, cannot inspect its group, or whose group is gone
\* comes to an outcome.
Ends == (cancelled \/ failing \/ (~Active /\ pc # "start")) ~> outcome # "none"

(***************************************************************************)
(* The inductive invariant.                                                *)
(***************************************************************************)
\* Before it starts, and if it never does, there is no group.
StartInv ==
    /\ pc = "start" => proc[Leader] = "none"
    /\ proc[Leader] = "none" =>
          /\ pc \in {"start", "returned"}
          /\ outcome \in {"none", "failed", "cancelled"}
          /\ \A p \in Members : proc[p] = "none"

\* The scan has still to read every member that is alive, and ends with none.
ScanInv ==
    /\ pc = "scan" => \A p \in Members : Alive(p) => p \in seen
    /\ pc = "wait" => ~Active

\* Signals are sent for a reason that stays, and only before the wait.
StopInv ==
    /\ term => cancelled \/ failing
    /\ waiter # "none" => pc \in Waiting \cup {"returned"}

ReturnInv == outcome # "none" <=> pc = "returned"

CInv ==
    /\ TypeOK /\ StartInv /\ ScanInv /\ StopInv /\ ReturnInv
    /\ GoneWhenReturned /\ OkIsFinal

(***************************************************************************)
(* The contract of a phase.                                                *)
(***************************************************************************)
Group == IF proc[Leader] = "none" THEN "none" ELSE IF Active THEN "live" ELSE "gone"

C == INSTANCE PhaseContract WITH group <- Group

ContractSpec == C!Spec

=============================================================================

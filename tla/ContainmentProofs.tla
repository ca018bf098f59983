--------------------------- MODULE ContainmentProofs ---------------------------
(***************************************************************************)
(* CInv is an invariant of Containment, and Containment implements the     *)
(* contract of a phase, for any number of helpers, provided that none of   *)
(* them is forked while /proc is scanned.                                  *)
(***************************************************************************)
EXTENDS Containment, TLAPS

USE DEF Members, Loop, Waiting, Alive, Active, Return, worldVars, loopVars,
        KillAfter, GiveUpAfter

\* No loop variable, process or outcome leaves its type.
LEMMA TypeStep == ASSUME TypeOK, [Next]_vars PROVE TypeOK'
  <1> USE DEF TypeOK
  <1>1. CASE Start
    BY <1>1 DEF Start
  <1>2. CASE NeverStarts
    BY <1>2 DEF NeverStarts
  <1>3. CASE PollLeader
    <2>1. leader' \in BOOLEAN /\ failing' \in BOOLEAN
      BY <1>3, Zenon DEF PollLeader
    <2>2. QED
      BY <1>3, <2>1 DEF PollLeader
  <1>4. CASE NoSignal
    BY <1>4 DEF NoSignal
  <1>5. CASE Signal
    <2>1. term' \in BOOLEAN /\ kill' \in BOOLEAN
      BY <1>5, Zenon DEF Signal, Terminate
    <2>2. QED
      BY <1>5, <2>1 DEF Signal, Terminate
  <1>6. CASE ScanFails
    <2>1. failing' \in BOOLEAN /\ term' \in BOOLEAN
      BY <1>6, Zenon DEF ScanFails, Terminate
    <2>2. elapsed' \in 0 .. GiveUpAfter
      BY <1>6 DEF ScanFails, Terminate
    <2>3. QED
      BY <1>6, <2>1, <2>2 DEF ScanFails
  <1>7. CASE ListProc \/ ReadEntry \/ ScanEnds \/ NextTick \/ GiveUp
    BY <1>7 DEF ListProc, ReadEntry, ScanEnds, NextTick, GiveUp
  <1>8. CASE Waited \/ StopWaiting \/ Reap
    BY <1>8 DEF Waited, StopWaiting, Reap
  <1>9. CASE \/ \E p \in Members, q \in Helpers : Fork(p, q)
             \/ \E p \in Members : Exit(p) \/ Detach(p)
    <2>1. proc' \in [Members -> {"none", "alive", "dead"}]
      BY <1>9 DEF Fork, Exit, Detach
    <2>2. held' \in BOOLEAN
      BY <1>9, Zenon DEF Fork, Exit, Detach
    <2>3. QED
      BY <1>9, <2>1, <2>2 DEF Fork, Exit, Detach
  <1>10. CASE Release \/ Cancel
    <2>1. held' \in BOOLEAN /\ cancelled' \in BOOLEAN
      BY <1>10, Zenon DEF Release, Cancel
    <2>2. QED
      BY <1>10, <2>1 DEF Release, Cancel
  <1>11. CASE Elapse
    BY <1>11 DEF Elapse
  <1>12. CASE UNCHANGED vars
    BY <1>12 DEF vars
  <1>13. QED
    BY <1>1, <1>2, <1>3, <1>4, <1>5, <1>6, <1>7, <1>8, <1>9, <1>10, <1>11, <1>12
       DEF Next, Step, World

\* With no fork during a scan, the scan misses nobody.
LEMMA CInvStep ==
    ASSUME ~ForkDuringScan, CInv, [Next]_vars
    PROVE  CInv'
  <1> USE DEF TypeOK, CInv, StartInv, ScanInv, StopInv, ReturnInv,
          GoneWhenReturned, OkIsFinal
  <1>1. TypeOK'
    BY TypeStep
  <1>2. CASE Start \/ NeverStarts \/ PollLeader \/ NoSignal
    BY <1>1, <1>2 DEF Start, NeverStarts, PollLeader, NoSignal
  <1>3. CASE Signal \/ ScanFails
    BY <1>1, <1>3 DEF Signal, ScanFails, Terminate, Stopping
  <1>4. CASE ListProc \/ ReadEntry \/ ScanEnds \/ NextTick \/ GiveUp
    BY <1>1, <1>4 DEF ListProc, ReadEntry, ScanEnds, NextTick, GiveUp
  <1>5. CASE Waited \/ StopWaiting \/ Reap
    BY <1>1, <1>5 DEF Waited, StopWaiting, Reap, PipeOpen
  <1>6. ASSUME NEW p \in Members, NEW q \in Helpers, Fork(p, q) PROVE CInv'
    BY <1>1, <1>6, LeaderAssumption DEF Fork
  <1>7. ASSUME NEW p \in Members, Exit(p) \/ Detach(p) PROVE CInv'
    BY <1>1, <1>7 DEF Exit, Detach
  <1>8. CASE Release \/ Cancel \/ Elapse
    BY <1>1, <1>8 DEF Release, Cancel, Elapse
  <1>9. CASE UNCHANGED vars
    BY <1>1, <1>9 DEF vars
  <1>10. QED
    BY <1>2, <1>3, <1>4, <1>5, <1>6, <1>7, <1>8, <1>9 DEF Next, Step, World

\* CInv holds in every reachable state.
THEOREM ScanMissesNobody == ASSUME ~ForkDuringScan PROVE Spec => []CInv
  <1>1. Init => CInv
    <2>1. Init => TypeOK
      <3>1. Init => /\ held \in BOOLEAN /\ cancelled \in BOOLEAN
                    /\ leader \in BOOLEAN /\ failing \in BOOLEAN
                    /\ term \in BOOLEAN /\ kill \in BOOLEAN
        BY Zenon DEF Init
      <3>2. QED
        BY <3>1 DEF Init, TypeOK
    <2>2. Init => StartInv /\ ScanInv /\ StopInv
      BY DEF Init, StartInv, ScanInv, StopInv
    <2>3. Init => ReturnInv /\ GoneWhenReturned /\ OkIsFinal
      BY DEF Init, ReturnInv, GoneWhenReturned, OkIsFinal
    <2>4. QED
      BY <2>1, <2>2, <2>3 DEF CInv
  <1>2. CInv /\ [Next]_vars => CInv'
    BY CInvStep
  <1>3. QED
    BY <1>1, <1>2, PTL DEF Spec

\* An outcome that is not uncertain is returned only after the whole group
\* is gone: what the workflow does next to the stage, it does alone.
THEOREM OutcomeAfterGroup == ASSUME ~ForkDuringScan PROVE Spec => []GoneWhenReturned
  <1>1. CInv => GoneWhenReturned
    BY DEF CInv
  <1>2. QED
    BY <1>1, ScanMissesNobody, PTL

\* Success is never reported of a child that was signalled, nor beside a
\* process that still holds its output.
THEOREM SuccessIsFinal == ASSUME ~ForkDuringScan PROVE Spec => []OkIsFinal
  <1>1. CInv => OkIsFinal
    BY DEF CInv
  <1>2. QED
    BY <1>1, ScanMissesNobody, PTL

\* No signal goes to the number of a group whose leader may be reaped; this
\* needs no assumption on forks.
THEOREM NoStraySignal == Spec => SignalsReachTheGroup
  <1>1. Init => StopInv
    BY DEF Init, StopInv
  <1>2. StopInv /\ [Next]_vars => StopInv'
    BY DEF StopInv, Next, Step, Start, NeverStarts, PollLeader, Signal, NoSignal,
       ListProc, ReadEntry, ScanFails, ScanEnds, NextTick, GiveUp, Waited,
       StopWaiting, Reap, World, Fork, Exit, Detach, Release, Cancel, Elapse,
       Terminate, Stopping, vars
  <1>3. StopInv /\ [Next]_vars =>
           (term' # term \/ kill' # kill => waiter = "none") \/ UNCHANGED vars
    BY DEF StopInv, Next, Step, Start, NeverStarts, PollLeader, Signal, NoSignal,
       ListProc, ReadEntry, ScanFails, ScanEnds, NextTick, GiveUp, Waited,
       StopWaiting, Reap, World, Fork, Exit, Detach, Release, Cancel, Elapse,
       vars
  <1>4. QED
    BY <1>1, <1>2, <1>3, PTL DEF Spec, SignalsReachTheGroup

\* The loop implements the contract of a phase.
THEOREM ImplementsContract == ASSUME ~ForkDuringScan PROVE Spec => ContractSpec
  <1>1. Init => C!Init
    BY DEF Init, C!Init, Group
  <1>2. ASSUME CInv, CInv', [Next]_vars PROVE [C!Next]_<<Group, outcome>>
    <2> USE <1>2 DEF CInv, TypeOK, StartInv, ScanInv, StopInv, ReturnInv,
            GoneWhenReturned, Group
    <2>1. CASE Start
      BY <2>1 DEF Start, C!Next, C!Start
    <2>2. CASE NeverStarts
      BY <2>2 DEF NeverStarts, C!Next, C!NeverStarts
    <2>3. CASE GiveUp \/ StopWaiting
      BY <2>3 DEF GiveUp, StopWaiting, C!Next, C!GivesUp
    <2>4. CASE Waited
      BY <2>4 DEF Waited, C!Next, C!Ends, C!GivesUp
    <2>5. CASE \/ PollLeader \/ Signal \/ NoSignal \/ ListProc \/ ReadEntry
               \/ ScanFails \/ ScanEnds \/ NextTick \/ Reap
      BY <2>5 DEF PollLeader, Signal, NoSignal, ListProc, ReadEntry, ScanFails,
         ScanEnds, NextTick, Reap
    <2>6. ASSUME NEW p \in Members, NEW q \in Helpers, Fork(p, q)
          PROVE  UNCHANGED <<Group, outcome>>
      BY <2>6, LeaderAssumption DEF Fork
    <2>7. ASSUME NEW p \in Members, Exit(p) \/ Detach(p)
          PROVE  [C!Next]_<<Group, outcome>>
      BY <2>7 DEF Exit, Detach, C!Next, C!Exits
    <2>8. CASE Release \/ Cancel \/ Elapse
      BY <2>8 DEF Release, Cancel, Elapse
    <2>9. CASE UNCHANGED vars
      BY <2>9 DEF vars
    <2>10. QED
      BY <2>1, <2>2, <2>3, <2>4, <2>5, <2>6, <2>7, <2>8, <2>9
         DEF Next, Step, World
  <1>3. QED
    BY <1>1, <1>2, ScanMissesNobody, PTL DEF Spec, ContractSpec, C!Spec

=============================================================================

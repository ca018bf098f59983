------------------------------ MODULE MCWorkflow ------------------------------
(***************************************************************************)
(* Small instances of Workflow for TLC.  An id is even if it is a run and  *)
(* odd, or between runs, if it was there before: a name sorts before or    *)
(* after another whichever of them is older.                               *)
(***************************************************************************)
EXTENDS WorkflowInvariant

OneRun == {2}
TwoRuns == {2, 4}
OneOld == {1}
TwoOld == {1, 3}
ThreeOld == {1, 3, 5}

=============================================================================

------------------------------ MODULE SequenceFold ------------------------------
(***************************************************************************)
(* A fold from the left whose step is a function, so that lemmas about it  *)
(* can be cited: step[acc][e] is acc after one element more.               *)
(***************************************************************************)
EXTENDS Integers, Sequences

Fold(step, start, s) ==
    LET acc[n \in 0 .. Len(s)] == IF n = 0 THEN start ELSE step[acc[n - 1]][s[n]]
    IN  acc[Len(s)]

=============================================================================

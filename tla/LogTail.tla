-------------------------------- MODULE LogTail --------------------------------
(***************************************************************************)
(* What a command log promises: it is the last MaxLog bytes of what was    *)
(* written.  A write that fails leaves it alone if there was room, and     *)
(* otherwise may spoil what it holds, but drops nothing.                   *)
(***************************************************************************)
EXTENDS Integers, Sequences

CONSTANTS
    Byte,
    Pieces,  \* what may be written at once
    MaxLog

VARIABLES
    log,
    piece,  \* what the last write was given
    failed  \* it returned an error

After(s, n) == SubSeq(s, n + 1, Len(s))

Newest(s) == After(s, IF Len(s) > MaxLog THEN Len(s) - MaxLog ELSE 0)

Init == log = <<>> /\ piece = <<>> /\ failed = FALSE

Write(p) ==
    /\ piece' = p
    /\ failed' = FALSE
    /\ log' = Newest(log \o p)

Fails(p) ==
    /\ piece' = p
    /\ failed' = TRUE
    /\ IF Len(log) + Len(p) <= MaxLog
       THEN UNCHANGED log
       ELSE \E n \in Len(log) .. MaxLog : log' \in [1 .. n -> Byte]

Next == \E p \in Pieces : Write(p) \/ Fails(p)

Spec == Init /\ [][Next]_<<log, piece, failed>>

=============================================================================

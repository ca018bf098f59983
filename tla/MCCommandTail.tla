----------------------------- MODULE MCCommandTail -----------------------------
(***************************************************************************)
(* A ring of four bytes, and writes that are shorter and longer than it.   *)
(***************************************************************************)
EXTENDS CommandTail

CONSTANTS a, b

Bytes2 == {a, b}
UpToFive == UNION {[1 .. n -> {a, b}] : n \in 0 .. 5}

=============================================================================

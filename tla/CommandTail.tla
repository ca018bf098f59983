------------------------------ MODULE CommandTail ------------------------------
(***************************************************************************)
(* commandTail: the output of xtrabackup goes to a file used as a ring, of *)
(* which Bytes() makes the failure log.  Write and Bytes hold a mutex, so  *)
(* each is one step, whichever of stdout and stderr it serves.             *)
(***************************************************************************)
EXTENDS Integers, Sequences

CONSTANTS
    Byte,
    Pieces,  \* what may be written at once
    MaxLog   \* the length of the ring

ASSUME PiecesAssumption == Pieces \subseteq Seq(Byte)
ASSUME MaxLogAssumption == MaxLog \in Nat \ {0}

VARIABLES
    disk, pos, size,
    piece,  \* what the last Write was given
    failed  \* it returned an error

vars == <<disk, pos, size, piece, failed>>

Slots == 0 .. MaxLog - 1

\* The file starts empty: what is not written yet is not read either.
Init ==
    /\ disk \in [Slots -> Byte]
    /\ pos = 0
    /\ size = 0
    /\ piece = <<>>
    /\ failed = FALSE

\* The file after WriteAt(part, at).
Put(d, at, part) ==
    [i \in Slots |-> IF at <= i /\ i < at + Len(part) THEN part[i - at + 1] ELSE d[i]]

First(p, n) == SubSeq(p, 1, n)
After(p, n) == SubSeq(p, n + 1, Len(p))

Room == MaxLog - pos

Grown(n) == IF size + n < MaxLog THEN size + n ELSE MaxLog

WriteOversized(p) ==
    /\ Len(p) >= MaxLog
    /\ disk' = Put(disk, 0, After(p, Len(p) - MaxLog))
    /\ pos' = 0
    /\ size' = MaxLog

WriteInPlace(p) ==
    /\ Len(p) < MaxLog /\ Len(p) <= Room
    /\ disk' = Put(disk, pos, p)
    /\ pos' = (pos + Len(p)) % MaxLog
    /\ size' = Grown(Len(p))

\* Mutant: the second turn goes on where the first one started.
WriteWrappedMutant(p) ==
    /\ Len(p) < MaxLog /\ Len(p) > Room
    /\ disk' = Put(Put(disk, pos, First(p, Room)), 0, After(p, Room))
    /\ pos' = Len(p) - Room + 1
    /\ size' = Grown(Len(p))

\* The loop turns twice.
WriteWrapped(p) ==
    /\ Len(p) < MaxLog /\ Len(p) > Room
    /\ disk' = Put(Put(disk, pos, First(p, Room)), 0, After(p, Room))
    /\ pos' = Len(p) - Room
    /\ size' = Grown(Len(p))

Write(p) ==
    /\ WriteOversized(p) \/ WriteInPlace(p) \/ WriteWrapped(p)
    /\ piece' = p
    /\ failed' = FALSE

(***************************************************************************)
(* A failing WriteAt has written n bytes of its part.                      *)
(***************************************************************************)
FailsInFirst(p) ==
    /\ \/ /\ Len(p) >= MaxLog
          /\ \E n \in 0 .. MaxLog - 1 :
                disk' = Put(disk, 0, First(After(p, Len(p) - MaxLog), n))
       \/ /\ Len(p) < MaxLog
          /\ \E n \in 0 .. Len(p) - 1 :
                n < Room /\ disk' = Put(disk, pos, First(p, n))
    /\ UNCHANGED <<pos, size>>

\* The first turn has been counted.
FailsInSecond(p) ==
    /\ Len(p) < MaxLog /\ Len(p) > Room
    /\ \E n \in 0 .. Len(p) - Room - 1 :
          disk' = Put(Put(disk, pos, First(p, Room)), 0, First(After(p, Room), n))
    /\ pos' = 0
    /\ size' = Grown(Room)

WriteFails(p) ==
    /\ FailsInFirst(p) \/ FailsInSecond(p)
    /\ piece' = p
    /\ failed' = TRUE

Next == \E p \in Pieces : Write(p) \/ WriteFails(p)

Spec == Init /\ [][Next]_vars

(***************************************************************************)
(* Bytes(): one read from start to the end of the ring, one from 0.        *)
(***************************************************************************)
Start == IF size = MaxLog THEN pos ELSE 0

FirstRead == IF size > MaxLog - Start THEN MaxLog - Start ELSE size

Bytes ==
    [k \in 1 .. size |-> IF k <= FirstRead THEN disk[Start + k - 1] ELSE disk[k - FirstRead - 1]]

(***************************************************************************)
(* Properties.                                                             *)
(***************************************************************************)
TypeOK ==
    /\ disk \in [Slots -> Byte]
    /\ pos \in Slots
    /\ size \in 0 .. MaxLog
    /\ piece \in Seq(Byte)
    /\ failed \in BOOLEAN

\* Until the ring is full, it has been written from slot 0 to pos.
RingInv == TypeOK /\ (size < MaxLog => pos = size)

\* The failure log is the last maxLog bytes of the output, unless a write
\* for which the ring had no room has returned an error.
T == INSTANCE LogTail WITH log <- Bytes

TailSpec == T!Spec

=============================================================================

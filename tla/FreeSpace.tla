-------------------------------- MODULE FreeSpace --------------------------------
(***************************************************************************)
(* freeSpace: the reserve and the allocation of every regular file of      *)
(* datadir are added up in an unsigned 64-bit number and compared with     *)
(* what the file system of backup_dir has left, one file after the other.  *)
(***************************************************************************)
EXTENDS Integers

CONSTANT Modulus  \* 2^64 in the code

ASSUME ModulusAssumption == Modulus \in Nat \ {0}

Word == 0 .. Modulus - 1

VARIABLES
    available,  \* f_bavail * f_bsize
    needed,
    verdict,    \* "none" while the walk goes on
    total       \* history: the reserve and the files looked at, without a width

spaceVars == <<available, needed, verdict, total>>

SpaceTypeOK ==
    /\ available \in Word
    /\ needed \in Word
    /\ verdict \in {"none", "enough", "insufficient", "unsupported"}
    /\ total \in Nat

\* needed starts as min_free_bytes.
SpaceInit ==
    /\ available \in Word
    /\ needed \in Word
    /\ verdict = "none"
    /\ total = needed

\* Mutant: the sum is compared.
FitsMutant(size) == (needed + size) % Modulus <= available

Fits(size) ==
    /\ size <= available
    /\ needed <= (available - size) % Modulus

\* A file of datadir, as Lstat finds it.
Regular ==
    /\ verdict = "none"
    /\ \E size \in Word :
          /\ total' = total + size
          /\ IF Fits(size)
             THEN needed' = (needed + size) % Modulus /\ UNCHANGED verdict
             ELSE verdict' = "insufficient" /\ UNCHANGED needed
    /\ UNCHANGED available

\* A link or special file, or an entry that cannot be looked at.
Unsupported ==
    /\ verdict = "none"
    /\ verdict' = "unsupported"
    /\ UNCHANGED <<available, needed, total>>

WalkEnds ==
    /\ verdict = "none"
    /\ verdict' = IF needed > available THEN "insufficient" ELSE "enough"
    /\ UNCHANGED <<available, needed, total>>

SpaceNext == Regular \/ Unsupported \/ WalkEnds

SpaceSpec == SpaceInit /\ [][SpaceNext]_spaceVars

(***************************************************************************)
(* Properties.                                                             *)
(***************************************************************************)
\* Whatever the sizes of the files, their sum wraps nowhere: the verdict is
\* that of arithmetic without a width.
VerdictTrue ==
    /\ verdict = "enough" => total <= available
    /\ verdict = "insufficient" => total > available

\* The inductive invariant: the sum is exact as long as the walk goes on.
SpaceInv ==
    /\ SpaceTypeOK
    /\ verdict = "none" => needed = total
    /\ VerdictTrue

=============================================================================

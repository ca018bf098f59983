------------------------------- MODULE StartProofs -------------------------------
(***************************************************************************)
(* What MCStart checks of small instances, for any number of runs, audits, *)
(* backups, inodes and links, paths of any length and words of any width.  *)
(* One part runs at a time, so each part has an invariant of its own.      *)
(***************************************************************************)
EXTENDS MCStart, Induction, SequenceTheorems

(***************************************************************************)
(* The lock: LockInv is an invariant of LockFile, and lock() and           *)
(* sharedLock() give the abstract lock, provided that nobody replaces .lock*)
(* while somebody holds it.                                                *)
(***************************************************************************)
USE DEF Procs, Held, HasFlock, Go, Free, Disturbable

LEMMA LockInit == Init => LockInv
  BY LockAssumption DEF Init, LockInv, TypeOK, OpenHasFile, HolderHasTheName, FlocksAgree

\* One step of one invocation.
LEMMA InvocationKeeps ==
  ASSUME LockInv, NEW p \in Procs,
         Create(p) \/ Open(p) \/ CheckLock(p) \/ Flock(p) \/ LockIdentity(p) \/ Close(p)
  PROVE  LockInv'
<1> USE LockAssumption DEF LockInv, TypeOK
<1>1. CASE Create(p)
  <2>1. PICK i \in Inodes : /\ Free(i)
                            /\ entry' = i
                            /\ safe' = safe \cup {i}
                            /\ fd' = [fd EXCEPT ![p] = i]
    BY <1>1 DEF Create
  <2>2. pc' = [pc EXCEPT ![p] = "opened"] /\ entry = None /\ pc[p] = "idle"
    BY <1>1 DEF Create
  <2>3. TypeOK' /\ OpenHasFile' /\ FlocksAgree'
    BY <2>1, <2>2 DEF OpenHasFile, FlocksAgree
  <2>4. \A q \in Procs : ~Held(q)
    BY <2>2 DEF OpenHasFile, HolderHasTheName
  <2> QED
    BY <2>2, <2>3, <2>4 DEF HolderHasTheName
<1>2. CASE Open(p)
  BY <1>2 DEF Open, OpenHasFile, HolderHasTheName, FlocksAgree
<1>3. CASE CheckLock(p)
  BY <1>3 DEF CheckLock, OpenHasFile, HolderHasTheName, FlocksAgree
<1>4. CASE Flock(p)
  BY <1>4 DEF Flock, OpenHasFile, HolderHasTheName, FlocksAgree
<1>5. CASE LockIdentity(p)
  BY <1>5 DEF LockIdentity, OpenHasFile, HolderHasTheName, FlocksAgree
<1>6. CASE Close(p)
  BY <1>6 DEF Close, OpenHasFile, HolderHasTheName, FlocksAgree
<1> QED
  BY <1>1, <1>2, <1>3, <1>4, <1>5, <1>6

\* The other writer: nobody holds the lock when the name changes.
LEMMA WriterKeeps ==
  ASSUME ~ReplaceWhileHeld, LockInv, Remove \/ Replace \/ Spoil
  PROVE  LockInv'
  BY LockAssumption DEF LockInv, TypeOK, OpenHasFile, HolderHasTheName, FlocksAgree,
     Remove, Replace, Spoil

LEMMA LockStep == ASSUME ~ReplaceWhileHeld, LockInv, [Next]_vars PROVE LockInv'
<1>1. CASE UNCHANGED vars
  BY <1>1 DEF vars, LockInv, TypeOK, OpenHasFile, HolderHasTheName, FlocksAgree
<1> QED
  BY <1>1, InvocationKeeps, WriterKeeps DEF Next

\* Whoever holds the lock has it on the file that is named .lock, and no two
\* flocks exclude each other, whoever removes or replaces .lock while nobody
\* holds it.
THEOREM HolderMeetsTheNext == ASSUME ~ReplaceWhileHeld PROVE Spec => []LockInv
<1> QED
  BY LockInit, LockStep, PTL DEF Spec

\* Two that are past lockIdentity have the same file open, so one of them is
\* not a run.
LEMMA HoldersShare ==
  ASSUME LockInv, NEW p \in Procs, NEW q \in Procs, p # q, Held(p), Held(q)
  PROVE  {p, q} \subseteq Verifiers
  BY DEF LockInv, HolderHasTheName, FlocksAgree

\* lock() and sharedLock() keep runs and audits apart as the abstract lock does.
THEOREM ImplementsReadWriteLock == ASSUME ~ReplaceWhileHeld PROVE Spec => LockSpec
<1> DEFINE Holders == {p \in Procs : Held(p)}
<1>1. Init => Lock!Init
  BY DEF Init, Lock!Init
<1>2. ASSUME LockInv, LockInv', [Next]_vars PROVE [Lock!Next]_Holders
  <2> USE <1>2 DEF LockInv, TypeOK
  <2>1. ASSUME NEW p \in Procs, LockIdentity(p) PROVE Lock!Next
    <3>1. pc' = [pc EXCEPT ![p] = "held"] /\ ~Held(p) /\ Held(p)'
      BY <2>1 DEF LockIdentity
    <3>2. Holders' = Holders \cup {p} /\ p \notin Holders
      BY <3>1
    <3>3. \A q \in Holders : {p, q} \subseteq Verifiers
      BY <1>2, <3>1, <3>2, HoldersShare DEF FlocksAgree, HolderHasTheName
    <3>4. IF p \in Runs THEN Holders = {} ELSE Holders \cap Runs = {}
      BY <3>3, LockAssumption
    <3> QED
      BY <3>2, <3>4 DEF Lock!Next, Lock!Acquire
  <2>2. ASSUME NEW p \in Procs, Close(p) PROVE Lock!Next
    <3>1. Holders' \subseteq Holders
      BY <2>2 DEF Close
    <3> QED
      BY <3>1 DEF Lock!Next, Lock!Release
  <2>3. ASSUME NEW p \in Procs, Create(p) \/ Open(p) \/ CheckLock(p) \/ Flock(p)
        PROVE  Holders' = Holders
    BY <2>3 DEF Create, Open, CheckLock, Flock
  <2>4. ASSUME Remove \/ Replace \/ Spoil \/ UNCHANGED vars PROVE Holders' = Holders
    BY <2>4 DEF Remove, Replace, Spoil, vars
  <2> QED
    BY <1>2, <2>1, <2>2, <2>3, <2>4 DEF Next
<1> QED
  BY <1>1, <1>2, HolderMeetsTheNext, PTL DEF Spec, LockSpec, Lock!Spec

HIDE DEF Procs, Held, HasFlock, Go, Free, Disturbable

\* A run of MCStart is one of LockFile, too.
LEMMA LockPart == MCSpec => Spec
<1>1. MCInit => Init
  BY DEF MCInit
<1>2. [MCNext]_mcVars => [Next]_vars
  BY DEF MCNext, mcVars
<1> QED
  BY <1>1, <1>2, PTL DEF MCSpec, Spec

(***************************************************************************)
(* The verdict of freeSpace.                                               *)
(***************************************************************************)
\* What is smaller than the modulus is its own remainder.
LEMMA SmallModulus == \A n \in Word : n % Modulus = n
  BY ModulusAssumption DEF Word

\* A file that fits is added without a carry.
LEMMA FitsIsExact ==
  ASSUME SpaceTypeOK, NEW size \in Word
  PROVE  Fits(size) <=> needed + size <= available
<1>1. CASE size <= available
  <2>1. available - size \in Word
    BY <1>1, ModulusAssumption DEF SpaceTypeOK, Word
  <2>2. (available - size) % Modulus = available - size
    BY <2>1, SmallModulus
  <2> QED
    BY <1>1, <2>2, ModulusAssumption DEF Fits, SpaceTypeOK, Word
<1>2. CASE ~(size <= available)
  BY <1>2, ModulusAssumption DEF Fits, SpaceTypeOK, Word
<1> QED
  BY <1>1, <1>2

LEMMA StartsExact == SpaceInit => SpaceInv
  BY ModulusAssumption DEF SpaceInit, SpaceInv, SpaceTypeOK, VerdictTrue, Word

LEMMA RegularKeeps == SpaceInv /\ Regular => SpaceInv'
<1> SUFFICES ASSUME SpaceInv, Regular
             PROVE  SpaceInv'
  OBVIOUS
<1>1. PICK size \in Word :
        /\ total' = total + size
        /\ IF Fits(size)
           THEN needed' = (needed + size) % Modulus /\ UNCHANGED verdict
           ELSE verdict' = "insufficient" /\ UNCHANGED needed
  BY DEF Regular
<1>2. verdict = "none" /\ needed = total /\ available' = available
  BY DEF Regular, SpaceInv
<1>3. Fits(size) <=> needed + size <= available
  BY FitsIsExact DEF SpaceInv
<1>4. CASE Fits(size)
  <2>1. needed + size \in Word
    BY <1>3, <1>4, ModulusAssumption DEF SpaceInv, SpaceTypeOK, Word
  <2>2. needed' = total' /\ verdict' = "none"
    BY <1>1, <1>2, <1>4, <2>1, SmallModulus
  <2> QED
    BY <1>1, <1>2, <2>1, <2>2, ModulusAssumption DEF SpaceInv, SpaceTypeOK, VerdictTrue, Word
<1>5. CASE ~Fits(size)
  BY <1>1, <1>2, <1>3, <1>5, ModulusAssumption DEF SpaceInv, SpaceTypeOK, VerdictTrue, Word
<1> QED
  BY <1>4, <1>5

LEMMA StaysExact == SpaceInv /\ [SpaceNext]_spaceVars => SpaceInv'
<1> SUFFICES ASSUME SpaceInv, [SpaceNext]_spaceVars
             PROVE  SpaceInv'
  OBVIOUS
<1>1. CASE Regular
  BY <1>1, RegularKeeps
<1>2. CASE Unsupported
  BY <1>2 DEF Unsupported, SpaceInv, SpaceTypeOK, VerdictTrue
<1>3. CASE WalkEnds
  BY <1>3, ModulusAssumption DEF WalkEnds, SpaceInv, SpaceTypeOK, VerdictTrue, Word
<1>4. CASE UNCHANGED spaceVars
  BY <1>4 DEF spaceVars, SpaceInv, SpaceTypeOK, VerdictTrue
<1> QED
  BY <1>1, <1>2, <1>3, <1>4 DEF SpaceNext

\* Whatever the width of the number and the sizes of the files, freeSpace says
\* that there is enough exactly if there is.
THEOREM VerdictHolds == SpaceSpec => []VerdictTrue
<1>1. SpaceInv => VerdictTrue
  BY DEF SpaceInv
<1> QED
  BY StartsExact, StaysExact, <1>1, PTL DEF SpaceSpec

LEMMA SpacePart == MCSpec => SpaceSpec
<1>1. MCInit => SpaceInit
  BY DEF MCInit
<1>2. [MCNext]_mcVars => [SpaceNext]_spaceVars
  BY DEF MCNext, mcVars
<1> QED
  BY <1>1, <1>2, PTL DEF MCSpec, SpaceSpec

(***************************************************************************)
(* The command line.                                                       *)
(***************************************************************************)
Underway == {"parse", "open", "operation", "verifying"}
Over == {"present", "exit", "ended"}

Verdict == {"ok", "failed"}
Failed == {"none", "operation", "cancelled", "audit"}

\* What a part of the output may be.
Details == Verdict \cup {"details"}
Told == {"version"} \cup Details \cup [ok : BOOLEAN, error : Failed]
        \cup [ok : BOOLEAN, error : Failed, data : Seq(Details)]

CommandTyped ==
    /\ cmd \in {"invalid", "version", "backup", "status", "verify"} /\ json \in BOOLEAN
    /\ names \in 0 .. MaxBackups
    /\ commandPc \in Underway \cup Over
    /\ cancelled \in BOOLEAN
    /\ results \in Seq(Verdict) /\ Len(results) <= names
    /\ failure \in Failed
    /\ data \in {<<>>, <<"details">>, results}
    /\ broken \in BOOLEAN /\ stderr \in BOOLEAN
    /\ exit \in {"running", "0", "1", "SIGPIPE"}

\* Nothing is found out before the operation is over, except what the audits of
\* verify say.
NothingYet ==
    commandPc \in Underway =>
        /\ failure = "none" /\ data = <<>>
        /\ commandPc # "verifying" => results = <<>>

\* What verify presents is every audit that it has completed, and if nothing
\* failed, these are all that there were to do.
AuditsPresented ==
    /\ cmd # "verify" => results = <<>>
    /\ commandPc = "verifying" => cmd = "verify" /\ names > 0
    /\ cmd = "verify" /\ commandPc \in Over =>
          /\ data = results
          /\ failure = "none" => /\ names > 0 /\ Len(results) = names
                                 /\ \A i \in 1 .. names : results[i] = "ok"

\* What stdout has is the beginning of the output, and all of it unless a write
\* has failed.
OutputSoFar ==
    /\ written \in Seq(Told)
    /\ commandPc \in Underway \/ cmd = "invalid" => written = <<>> /\ ~broken
    /\ Len(written) <= Len(Command!Output)
    /\ \A i \in 1 .. Len(written) : written[i] = Command!Output[i]
    /\ broken => Len(written) < Len(Command!Output)
    /\ commandPc \in {"exit", "ended"} /\ cmd # "invalid" /\ ~broken =>
          written = Command!Output
    /\ cmd = "invalid" => commandPc \in {"parse", "exit", "ended"} /\ failure = "none"

\* The exit status, and what stderr has.
StatusSays ==
    /\ commandPc = "ended" <=> exit # "running"
    /\ exit = "0" => cmd # "invalid" /\ failure = "none" /\ ~broken
    /\ exit = "1" => stderr <=> ~(cmd # "invalid" /\ failure # "none" /\ ~broken)

CommandInv == CommandTyped /\ NothingYet /\ AuditsPresented /\ OutputSoFar /\ StatusSays

LEMMA DataTyped == ASSUME CommandTyped PROVE data \in Seq(Details)
<1>1. <<>> \in Seq(Details) /\ <<"details">> \in Seq(Details)
  BY DEF Details
<1>2. results \in Seq(Details)
  <2>1. Len(results) \in Nat /\ results = [i \in 1 .. Len(results) |-> results[i]]
        /\ \A i \in 1 .. Len(results) : results[i] \in Verdict
    BY DEF CommandTyped
  <2>2. \A i \in 1 .. Len(results) : results[i] \in Details
    BY <2>1 DEF Details
  <2> QED
    BY <2>1, <2>2
<1> QED
  BY <1>1, <1>2 DEF CommandTyped

\* The first part of an output in words.
Header == [ok |-> failure = "none", error |-> failure]

LEMMA OutputIs ==
  ASSUME CommandTyped
  PROVE  /\ Command!Output \in Seq(Told)
         /\ cmd = "version" => Len(Command!Output) = 1
         /\ cmd # "version" /\ json =>
               Command!Output = <<[ok |-> failure = "none", error |-> failure, data |-> data]>>
         /\ cmd # "version" /\ ~json =>
               /\ Command!Output = <<Header>> \o data
               /\ Len(Command!Output) = 1 + Len(data)
               /\ \A i \in 1 .. Len(data) : Command!Output[i + 1] = data[i]
<1>1. data \in Seq(Details)
  BY DataTyped
<1>2. Header \in Told
  BY DEF CommandTyped, Told, Header
<1>3. CASE cmd = "version"
  <2>1. Command!Output = <<"version">>
    BY <1>3 DEF Command!Output
  <2>2. "version" \in Told
    BY DEF Told
  <2> QED
    BY <1>3, <2>1, <2>2
<1>4. CASE cmd # "version" /\ json
  <2> DEFINE e == [ok |-> failure = "none", error |-> failure, data |-> data]
  <2>1. e \in [ok : BOOLEAN, error : Failed, data : Seq(Details)]
    BY <1>1 DEF CommandTyped
  <2>2. e \in Told
    BY <2>1 DEF Told
  <2>3. Command!Output = <<e>>
    BY <1>4 DEF Command!Output, Command!Envelope
  <2> HIDE DEF e
  <2>4. Command!Output \in Seq(Told)
    BY <2>2, <2>3
  <2> QED
    BY <1>4, <2>3, <2>4 DEF e
<1>5. CASE cmd # "version" /\ ~json
  <2>1. Command!Output = <<Header>> \o data
    BY <1>5 DEF Command!Output, Header
  <2> HIDE DEF Header
  <2>2. Len(data) \in Nat /\ \A i \in 1 .. Len(data) : data[i] \in Told
    BY <1>1 DEF Told
  <2>3. data \in Seq(Told)
    BY <1>1, <2>2
  <2>4. <<Header>> \in Seq(Told) /\ Len(<<Header>>) = 1 /\ <<Header>>[1] = Header
    BY <1>2
  <2> DEFINE h == <<Header>>
  <2> HIDE DEF h
  <2>5. h \o data \in Seq(Told) /\ Len(h \o data) = 1 + Len(data)
        /\ \A i \in 1 .. Len(data) : (h \o data)[i + 1] = data[i]
    BY <2>3, <2>4 DEF h
  <2> QED
    BY <1>5, <2>1, <2>5 DEF h
<1> QED
  BY <1>3, <1>4, <1>5 DEF CommandTyped

\* An output that is begun and is not whole has a next part.
LEMMA MoreToTell ==
  ASSUME NEW S, NEW o \in Seq(S), NEW w \in Seq(S), w # o, Len(w) <= Len(o),
         \A i \in 1 .. Len(w) : w[i] = o[i]
  PROVE  /\ Len(w) < Len(o) /\ o[Len(w) + 1] \in S
         /\ Append(w, o[Len(w) + 1]) \in Seq(S)
         /\ Len(Append(w, o[Len(w) + 1])) = Len(w) + 1
         /\ \A i \in 1 .. Len(w) + 1 : Append(w, o[Len(w) + 1])[i] = o[i]
<1>1. Len(w) # Len(o)
  OBVIOUS
<1>2. Len(w) < Len(o) /\ o[Len(w) + 1] \in S
  BY <1>1
<1> QED
  BY <1>2

LEMMA CommandInit == ASSUME Command!Init PROVE CommandInv
<1>1. MaxBackups \in Nat
  BY StartAssumption
<1>2. /\ cmd \in {"invalid", "version", "backup", "status", "verify"} /\ json \in BOOLEAN
      /\ names \in 0 .. MaxBackups /\ commandPc = "parse" /\ cancelled = FALSE
      /\ results = <<>> /\ failure = "none" /\ data = <<>>
      /\ written = <<>> /\ broken = FALSE /\ stderr = FALSE /\ exit = "running"
  BY DEF Command!Init, Command!Command
<1>3. results \in Seq(Verdict) /\ Len(results) = 0
  BY <1>2
<1>4. CommandTyped
  <2>1. Len(results) <= names /\ data \in {<<>>, <<"details">>, results}
    BY <1>1, <1>2, <1>3
  <2> QED
    BY <1>2, <1>3, <2>1, Zenon DEF CommandTyped, Failed, Underway
<1>5. NothingYet /\ AuditsPresented /\ StatusSays
  BY <1>2 DEF NothingYet, AuditsPresented, StatusSays, Over
<1>6. OutputSoFar
  <2>1. Command!Output \in Seq(Told) /\ written \in Seq(Told)
    BY <1>2, <1>4, OutputIs
  <2>2. Len(Command!Output) \in Nat /\ Len(written) = 0
    BY <1>2, <2>1
  <2> QED
    BY <1>2, <2>1, <2>2 DEF OutputSoFar
<1> QED
  BY <1>4, <1>5, <1>6 DEF CommandInv

LEMMA OutputTyped == (CommandTyped => Command!Output \in Seq(Told))'
<1>1. CommandTyped => Command!Output \in Seq(Told)
  BY OutputIs
<1> QED
  BY <1>1, PTL

\* A step of the operation that does not end it.
LEMMA UnderwayKeeps ==
  ASSUME CommandInv, commandPc \in Underway, commandPc' \in Underway,
         results' \in Seq(Verdict), Len(results') <= names,
         cancelled' \in BOOLEAN,
         commandPc' # "verifying" => results' = <<>>,
         commandPc' = "verifying" => cmd = "verify" /\ names > 0,
         cmd = "invalid" => commandPc' = "parse",
         UNCHANGED <<cmd, json, names, failure, data, written, broken, stderr, exit>>
  PROVE  CommandInv'
<1>1. commandPc # "present" /\ commandPc # "exit" /\ commandPc # "ended" /\ commandPc' # "ended"
      /\ commandPc' # "exit" /\ commandPc' \notin Over /\ data = <<>> /\ failure = "none"
  BY DEF Underway, Over, CommandInv, NothingYet
<1>2. CommandTyped'
  BY <1>1 DEF CommandInv, CommandTyped
<1>3. NothingYet' /\ AuditsPresented'
  BY <1>1 DEF CommandInv, NothingYet, AuditsPresented, CommandTyped
<1>4. StatusSays'
  BY <1>1 DEF CommandInv, StatusSays
<1>5. OutputSoFar'
  <2>1. written' = <<>> /\ ~broken'
    BY DEF CommandInv, OutputSoFar
  <2>2. Command!Output' \in Seq(Told)
    BY <1>2, OutputTyped
  <2>3. Len(Command!Output)' \in Nat /\ Len(written') = 0 /\ written' \in Seq(Told)
    BY <2>1, <2>2
  <2> QED
    BY <1>1, <2>1, <2>2, <2>3 DEF OutputSoFar, CommandInv
<1> QED
  BY <1>2, <1>3, <1>4, <1>5 DEF CommandInv

\* The operation ends.
LEMMA ResultKeeps ==
  ASSUME CommandInv, commandPc \in {"open", "operation", "verifying"}, cmd # "invalid",
         NEW error \in Failed, NEW value \in {<<>>, <<"details">>, results},
         cmd = "verify" =>
            /\ value = results
            /\ error = "none" => /\ names > 0 /\ Len(results) = names
                               /\ \A i \in 1 .. names : results[i] = "ok",
         Command!Result(error, value)
  PROVE  CommandInv'
<1>1. /\ commandPc' = "present" /\ failure' = error /\ data' = value
      /\ UNCHANGED <<cmd, json, names, cancelled, results, written, broken, stderr, exit>>
  BY DEF Command!Result, Command!inputVars
<1>2. CommandTyped'
  BY <1>1 DEF CommandInv, CommandTyped, Over
<1>3. NothingYet' /\ AuditsPresented'
  BY <1>1 DEF CommandInv, NothingYet, AuditsPresented, Underway, Over
<1>4. StatusSays'
  BY <1>1 DEF CommandInv, StatusSays
<1>5. OutputSoFar'
  <2>1. written' = <<>> /\ ~broken'
    BY <1>1 DEF CommandInv, OutputSoFar, Underway
  <2>2. Command!Output' \in Seq(Told)
    BY <1>2, OutputTyped
  <2>3. Len(Command!Output)' \in Nat /\ Len(written') = 0 /\ written' \in Seq(Told)
    BY <2>1, <2>2
  <2> QED
    BY <1>1, <2>1, <2>2, <2>3 DEF OutputSoFar, CommandInv
<1> QED
  BY <1>2, <1>3, <1>4, <1>5 DEF CommandInv

LEMMA ParseKeeps == ASSUME CommandInv, Command!ParseOptions PROVE CommandInv'
<1>1. /\ commandPc = "parse"
      /\ commandPc' = IF cmd = "invalid" THEN "exit" ELSE IF cmd = "version" THEN "present"
                      ELSE "open"
      /\ UNCHANGED <<cmd, json, names, cancelled, results, failure, data, written, broken, stderr,
                     exit>>
  BY DEF Command!ParseOptions, Command!Goto, Command!inputVars
<1>2. results = <<>> /\ failure = "none" /\ data = <<>> /\ written = <<>> /\ ~broken
  BY <1>1 DEF CommandInv, NothingYet, OutputSoFar, Underway
<1>3. CASE cmd \notin {"invalid", "version"}
  <2>1. commandPc' = "open" /\ cmd # "invalid"
    BY <1>1, <1>3
  <2> QED
    BY <1>1, <1>2, <2>1, UnderwayKeeps DEF Underway, CommandInv, CommandTyped
<1>4. CASE cmd \in {"invalid", "version"}
  <2>1. commandPc' \in {"exit", "present"} /\ cmd # "verify" /\ commandPc' # "ended"
        /\ (commandPc' = "exit" => cmd = "invalid") /\ (cmd = "invalid" => commandPc' = "exit")
    BY <1>1, <1>4
  <2>2. CommandTyped'
    BY <1>1, <2>1 DEF CommandInv, CommandTyped, Over
  <2>3. NothingYet' /\ AuditsPresented'
    BY <1>1, <1>2, <2>1 DEF CommandInv, NothingYet, AuditsPresented, Underway
  <2>4. StatusSays'
    BY <1>1, <2>1 DEF CommandInv, StatusSays
  <2>5. Command!Output' \in Seq(Told)
    BY <2>2, OutputTyped
  <2>6. Len(Command!Output)' \in Nat /\ Len(written') = 0 /\ written' \in Seq(Told)
    BY <1>1, <1>2, <2>5
  <2>7. OutputSoFar'
    BY <1>1, <1>2, <2>1, <2>6 DEF OutputSoFar
  <2> QED
    BY <2>2, <2>3, <2>4, <2>7 DEF CommandInv
<1> QED
  BY <1>3, <1>4

LEMMA OperationKeeps ==
  ASSUME CommandInv, Command!Open \/ Command!Operate \/ Command!VerifyBegins
  PROVE  CommandInv'
<1>1. commandPc \in {"open", "operation"} /\ commandPc \in Underway /\ commandPc # "verifying"
  BY DEF Command!Open, Command!Operate, Command!VerifyBegins, Underway
<1>2. cmd # "invalid" /\ results = <<>> /\ results \in Seq(Verdict) /\ Len(results) <= names
      /\ cancelled \in BOOLEAN
  BY <1>1 DEF CommandInv, CommandTyped, NothingYet, OutputSoFar
<1>3. ASSUME NEW next \in {"operation", "verifying"}, Command!Goto(next),
             next = "verifying" => cmd = "verify" /\ names > 0
      PROVE  CommandInv'
  <2>1. /\ commandPc' = next
        /\ UNCHANGED <<cmd, json, names, cancelled, results, failure, data, written, broken,
                       stderr, exit>>
    BY <1>3 DEF Command!Goto, Command!inputVars
  <2>2. commandPc' \in Underway
    BY <2>1 DEF Underway
  <2> QED
    BY <1>1, <1>2, <1>3, <2>1, <2>2, UnderwayKeeps
<1>4. ASSUME NEW error \in Failed, NEW value \in {<<>>, <<"details">>}, Command!Result(error, value),
             cmd = "verify" => error # "none" /\ value = <<>>
      PROVE  CommandInv'
  BY <1>1, <1>2, <1>4, ResultKeeps
<1>5. CASE Command!Open
  BY <1>3, <1>4, <1>5 DEF Command!Open, Failed
<1>6. CASE Command!Operate
  BY <1>4, <1>6 DEF Command!Operate, Failed
<1>7. CASE Command!VerifyBegins
  <2>1. names # 0 => names > 0
    BY DEF CommandInv, CommandTyped
  <2> QED
    BY <1>3, <1>4, <1>7, <2>1 DEF Command!VerifyBegins, Failed
<1> QED
  BY <1>5, <1>6, <1>7

LEMMA VerifyKeeps ==
  ASSUME CommandInv, Command!VerifyCancelled \/ Command!VerifyOne \/ Command!VerifyEnds
  PROVE  CommandInv'
<1>1. commandPc = "verifying" /\ commandPc \in Underway
  BY DEF Command!VerifyCancelled, Command!VerifyOne, Command!VerifyEnds, Underway
<1>2. cmd = "verify" /\ cmd # "invalid" /\ names > 0 /\ names \in Nat /\ cancelled \in BOOLEAN
      /\ results \in Seq(Verdict) /\ Len(results) <= names
  BY <1>1 DEF CommandInv, CommandTyped, AuditsPresented
<1>3. CASE Command!VerifyCancelled
  <2>1. Command!Result("cancelled", results)
    BY <1>3 DEF Command!VerifyCancelled
  <2> QED
    BY <1>1, <1>2, <2>1, ResultKeeps DEF Failed
<1>4. CASE Command!VerifyOne
  <2>1. PICK ok \in Verdict : results' = Append(results, ok)
    BY <1>4 DEF Command!VerifyOne, Verdict
  <2>2. /\ Len(results) < names
        /\ UNCHANGED <<cmd, json, names, commandPc, cancelled, failure, data, written, broken,
                       stderr, exit>>
    BY <1>4 DEF Command!VerifyOne, Command!inputVars
  <2>3. results' \in Seq(Verdict) /\ Len(results') <= names
    BY <1>2, <2>1, <2>2
  <2> QED
    BY <1>1, <1>2, <2>2, <2>3, UnderwayKeeps
<1>5. CASE Command!VerifyEnds
  <2>1. Len(results) = names
    BY <1>5 DEF Command!VerifyEnds
  <2>2. Command!Range(results) = {results[i] : i \in 1 .. names}
    BY <1>2, <2>1 DEF Command!Range
  <2>3. "failed" \in Command!Range(results) \/ \A i \in 1 .. names : results[i] = "ok"
    BY <1>2, <2>1, <2>2 DEF Verdict
  <2>4. CASE "failed" \in Command!Range(results)
    <3>1. Command!Result("audit", results)
      BY <1>5, <2>4 DEF Command!VerifyEnds
    <3> QED
      BY <1>1, <1>2, <3>1, ResultKeeps DEF Failed
  <2>5. CASE "failed" \notin Command!Range(results)
    <3>1. Command!Result("none", results)
      BY <1>5, <2>5 DEF Command!VerifyEnds
    <3> QED
      BY <1>1, <1>2, <2>1, <2>3, <2>5, <3>1, ResultKeeps DEF Failed
  <2> QED
    BY <2>4, <2>5
<1> QED
  BY <1>3, <1>4, <1>5

\* What is to be presented stays the same while it is presented.
LEMMA SameOutput ==
  ASSUME UNCHANGED <<cmd, json, failure, data>>
  PROVE  Command!Output' = Command!Output
  BY DEF Command!Output, Command!Envelope

LEMMA CancelKeeps ==
  ASSUME CommandInv, cancelled' \in BOOLEAN,
         UNCHANGED <<cmd, json, names, commandPc, results, failure, data, written, broken, stderr,
                    exit>>
  PROVE  CommandInv'
<1>1. Command!Output' = Command!Output
  BY SameOutput
<1>2. CommandTyped' /\ NothingYet' /\ AuditsPresented' /\ StatusSays'
  BY DEF CommandInv, CommandTyped, NothingYet, AuditsPresented, StatusSays
<1>3. OutputSoFar'
  BY <1>1 DEF CommandInv, OutputSoFar
<1> QED
  BY <1>2, <1>3 DEF CommandInv

LEMMA WriteKeeps ==
  ASSUME CommandInv, Command!Write \/ Command!WriteFails \/ Command!BrokenPipe
  PROVE  CommandInv'
<1> DEFINE w == written
           o == Command!Output
<1>1. /\ commandPc = "present" /\ ~broken /\ w # o
      /\ UNCHANGED <<cmd, json, names, cancelled, results, failure, data, stderr>>
  BY DEF Command!Write, Command!WriteFails, Command!BrokenPipe, Command!inputVars
<1>2. /\ commandPc \notin Underway /\ commandPc \in Over /\ cmd # "invalid"
      /\ exit \notin {"0", "1"}
  BY <1>1 DEF Underway, Over, CommandInv, OutputSoFar, StatusSays
<1>3. w \in Seq(Told) /\ Len(w) <= Len(o) /\ (\A i \in 1 .. Len(w) : w[i] = o[i]) /\ o \in Seq(Told)
  BY OutputIs DEF CommandInv, OutputSoFar
<1>4. Command!Output' = o
  BY <1>1, SameOutput
<1> HIDE DEF w, o
<1>5. Len(w) \in Nat /\ Len(o) \in Nat
  BY <1>3
<1>6. /\ Len(w) < Len(o)
      /\ Append(w, o[Len(w) + 1]) \in Seq(Told)
      /\ Len(Append(w, o[Len(w) + 1])) = Len(w) + 1
      /\ \A i \in 1 .. Len(w) + 1 : Append(w, o[Len(w) + 1])[i] = o[i]
  BY <1>1, <1>3, MoreToTell
<1>7. ASSUME commandPc' \in {"present", "ended"}, commandPc' = "ended" <=> exit' # "running",
             exit' \in {"running", "SIGPIPE"}, broken' \in BOOLEAN
      PROVE  CommandTyped' /\ NothingYet' /\ AuditsPresented' /\ StatusSays'
  <2>1. commandPc' \notin Underway /\ commandPc' \in Over /\ commandPc' # "verifying"
    BY <1>7 DEF Underway, Over
  <2>2. CommandTyped'
    BY <1>1, <1>7, <2>1 DEF CommandInv, CommandTyped
  <2>3. NothingYet' /\ AuditsPresented'
    BY <1>1, <1>2, <2>1 DEF CommandInv, NothingYet, AuditsPresented
  <2>4. StatusSays'
    BY <1>7 DEF StatusSays
  <2> QED
    BY <2>2, <2>3, <2>4
<1>8. CASE Command!Write
  <2>1. written' = Append(w, o[Len(w) + 1]) /\ UNCHANGED <<commandPc, broken, exit>>
    BY <1>8 DEF Command!Write, Command!inputVars, w, o
  <2>2. CommandTyped' /\ NothingYet' /\ AuditsPresented' /\ StatusSays'
    <3>1. broken \in BOOLEAN /\ (commandPc = "ended" <=> exit # "running") /\ exit \in {"running", "SIGPIPE"}
      BY <1>1, <1>2 DEF CommandInv, CommandTyped, StatusSays
    <3> QED
      BY <1>1, <1>7, <2>1, <3>1
  <2>3. OutputSoFar'
    BY <1>1, <1>2, <1>4, <1>5, <1>6, <2>1 DEF OutputSoFar
  <2> QED
    BY <2>2, <2>3 DEF CommandInv
<1>9. CASE Command!WriteFails \/ Command!BrokenPipe
  <2>1. /\ written' = w /\ broken' = TRUE
        /\ \/ commandPc' = "present" /\ exit' = exit
           \/ commandPc' = "ended" /\ exit' = "SIGPIPE"
    BY <1>1, <1>9 DEF Command!WriteFails, Command!BrokenPipe, Command!inputVars, w
  <2>2. exit = "running"
    BY <1>1 DEF CommandInv, StatusSays
  <2>3. CommandTyped' /\ NothingYet' /\ AuditsPresented' /\ StatusSays'
    BY <1>7, <2>1, <2>2
  <2>4. commandPc' \notin Underway
    BY <2>1 DEF Underway
  <2>5. OutputSoFar'
    BY <1>1, <1>2, <1>3, <1>4, <1>6, <2>1, <2>4 DEF OutputSoFar
  <2> QED
    BY <2>3, <2>5 DEF CommandInv
<1> QED
  BY <1>8, <1>9

LEMMA EndKeeps ==
  ASSUME CommandInv, Command!Presented \/ Command!Exit
  PROVE  CommandInv'
<1>1. UNCHANGED <<cmd, json, names, cancelled, results, failure, data, written, broken>>
  BY DEF Command!Presented, Command!Exit, Command!Goto, Command!inputVars
<1>2. Command!Output' = Command!Output
  BY <1>1, SameOutput
<1>3. CASE Command!Presented
  <2>1. /\ commandPc = "present" /\ (broken \/ written = Command!Output)
        /\ commandPc' = "exit" /\ UNCHANGED <<stderr, exit>>
    BY <1>3 DEF Command!Presented, Command!Goto, Command!inputVars
  <2>2. commandPc \in Over /\ commandPc' \in Over /\ commandPc' \notin Underway
    BY <2>1 DEF Over, Underway
  <2>3. CommandTyped'
    BY <1>1, <2>1, <2>2 DEF CommandInv, CommandTyped
  <2>4. NothingYet' /\ AuditsPresented'
    BY <1>1, <2>1, <2>2 DEF CommandInv, NothingYet, AuditsPresented
  <2>5. StatusSays'
    BY <1>1, <2>1 DEF CommandInv, StatusSays
  <2>6. OutputSoFar'
    BY <1>1, <1>2, <2>1, <2>2 DEF CommandInv, OutputSoFar
  <2> QED
    BY <2>3, <2>4, <2>5, <2>6 DEF CommandInv
<1>4. CASE Command!Exit
  <2>1. /\ commandPc = "exit" /\ commandPc' = "ended"
        /\ stderr' = /\ cmd = "invalid" \/ failure # "none" \/ broken
                     /\ ~(cmd # "invalid" /\ failure # "none" /\ ~broken)
        /\ exit' = IF cmd = "invalid" \/ failure # "none" \/ broken THEN "1" ELSE "0"
    BY <1>4 DEF Command!Exit
  <2>2. commandPc \in Over /\ commandPc' \in Over /\ commandPc' \notin Underway
    BY <2>1 DEF Over, Underway
  <2>3. CommandTyped'
    <3>1. stderr' \in BOOLEAN /\ exit' \in {"running", "0", "1", "SIGPIPE"}
      BY <2>1
    <3> QED
      BY <1>1, <2>2, <3>1 DEF CommandInv, CommandTyped
  <2>4. NothingYet' /\ AuditsPresented'
    BY <1>1, <2>1, <2>2 DEF CommandInv, NothingYet, AuditsPresented
  <2>5. StatusSays'
    BY <1>1, <2>1 DEF CommandInv, StatusSays
  <2>6. OutputSoFar'
    BY <1>1, <1>2, <2>1, <2>2 DEF CommandInv, OutputSoFar
  <2> QED
    BY <2>3, <2>4, <2>5, <2>6 DEF CommandInv
<1> QED
  BY <1>3, <1>4

LEMMA CommandStep == ASSUME CommandInv, [Command!Next]_commandVars PROVE CommandInv'
<1>1. CASE Command!Cancel
  <2>1. cancelled' \in BOOLEAN
        /\ UNCHANGED <<cmd, json, names, commandPc, results, failure, data, written, broken, stderr,
                       exit>>
    BY <1>1 DEF Command!Cancel, Command!inputVars
  <2> QED
    BY <2>1, CancelKeeps
<1>2. CASE UNCHANGED commandVars
  <2>1. cancelled' \in BOOLEAN
        /\ UNCHANGED <<cmd, json, names, commandPc, results, failure, data, written, broken, stderr,
                       exit>>
    BY <1>2 DEF commandVars, CommandInv, CommandTyped
  <2> QED
    BY <2>1, CancelKeeps
<1> QED
  BY <1>1, <1>2, ParseKeeps, OperationKeeps, VerifyKeeps, WriteKeeps, EndKeeps DEF Command!Next

\* The invariant says what the run checks.
LEMMA CommandSays == ASSUME CommandInv PROVE Command!ZeroMeansAll /\ Command!EverythingTold
<1>1. Command!TypeOK
  <2>1. names \in Nat /\ Len(results) \in Nat /\ Len(results) <= names /\ names <= MaxBackups
        /\ MaxBackups \in Nat /\ results \in Seq(Verdict)
    BY StartAssumption DEF CommandInv, CommandTyped
  <2>2. results \in [1 .. Len(results) -> {"ok", "failed"}] /\ Len(results) \in 0 .. MaxBackups
    BY <2>1 DEF Verdict
  <2>3. results \in Command!BoundedSeq({"ok", "failed"}, MaxBackups)
    BY <2>2 DEF Command!BoundedSeq, Command!SeqOf
  <2> QED
    BY <2>3 DEF CommandInv, CommandTyped, Command!TypeOK, Command!Command, Command!Failure,
       Underway, Over, Failed
<1>2. ASSUME exit = "0"
      PROVE  /\ cmd # "invalid" /\ written = Command!Output
             /\ cmd = "verify" => names > 0 /\ results = [i \in 1 .. names |-> "ok"]
  <2>1. commandPc = "ended" /\ cmd # "invalid" /\ failure = "none" /\ ~broken /\ commandPc \in Over
    BY <1>2 DEF CommandInv, StatusSays, Over
  <2>2. written = Command!Output
    BY <2>1 DEF CommandInv, OutputSoFar
  <2>3. ASSUME cmd = "verify"
        PROVE  names > 0 /\ results = [i \in 1 .. names |-> "ok"]
    <3>1. names > 0 /\ Len(results) = names /\ \A i \in 1 .. names : results[i] = "ok"
      BY <2>1, <2>3 DEF CommandInv, AuditsPresented
    <3>2. results = [i \in 1 .. Len(results) |-> results[i]]
      BY DEF CommandInv, CommandTyped
    <3> QED
      BY <3>1, <3>2
  <2> QED
    BY <2>1, <2>2, <2>3
<1>3. ASSUME commandPc = "ended"
      PROVE  Command!ToldOnce
  <2>1. cmd # "invalid" => (broken <=> written # Command!Output)
    BY <1>3 DEF CommandInv, OutputSoFar
  <2> QED
    BY <2>1 DEF CommandInv, StatusSays, Command!ToldOnce
<1>4. ASSUME commandPc = "ended", cmd = "verify", ~broken, results # <<>>
      PROVE  IF json THEN written[1].data = results ELSE Tail(written) = results
  <2>1. written = Command!Output /\ data = results /\ data \in Seq(Details) /\ CommandTyped
    BY <1>4, DataTyped DEF CommandInv, OutputSoFar, AuditsPresented, Over
  <2>2. CASE json
    <3> DEFINE e == [ok |-> failure = "none", error |-> failure, data |-> data]
    <3>1. Command!Output = <<e>>
      BY <1>4, <2>1, <2>2, OutputIs
    <3>2. e.data = data
      OBVIOUS
    <3> HIDE DEF e
    <3>3. written[1] = e
      BY <2>1, <3>1
    <3> QED
      BY <2>1, <2>2, <3>2, <3>3
  <2>3. CASE ~json
    <3> DEFINE h == Header
    <3>1. Command!Output = <<h>> \o data
      BY <1>4, <2>1, <2>3, OutputIs
    <3> HIDE DEF h
    <3>2. Tail(<<h>> \o data) = data
      <4>1. \A S : \A d \in Seq(S) : \A x : Tail(<<x>> \o d) = d
        OBVIOUS
      <4> QED
        BY <2>1, <4>1
    <3> QED
      BY <2>1, <2>3, <3>1, <3>2
  <2> QED
    BY <2>1, <2>2, <2>3 DEF CommandTyped
<1> QED
  BY <1>1, <1>2, <1>3, <1>4
  DEF Command!ZeroMeansAll, Command!EverythingTold, Command!CompletedAuditsTold

CommandPart == part = "command" => CommandInv

LEMMA CommandHolds == MCSpec => []CommandPart
<1>1. MCInit => CommandPart
  <2>1. ASSUME MCInit, part = "command" PROVE Command!Init
    BY <2>1 DEF MCInit
  <2> QED
    BY <2>1, CommandInit DEF CommandPart
<1>2. CommandPart /\ [MCNext]_mcVars => CommandPart'
  <2> SUFFICES ASSUME CommandPart, [MCNext]_mcVars, part' = "command" PROVE CommandInv'
    BY DEF CommandPart
  <2>1. part = "command"
    BY DEF MCNext, mcVars
  <2>2. [Command!Next]_commandVars
    BY <2>1 DEF MCNext, mcVars
  <2> QED
    BY <2>1, <2>2, CommandStep DEF CommandPart
<1> QED
  BY <1>1, <1>2, PTL DEF MCSpec

\* Whatever is asked for, whichever writes fail and whenever the process is told to
\* stop, xbkeeper exits with status 0 only if the whole result is on stdout and,
\* for verify, if there were backups and each of them passed.
THEOREM ZeroSaysAll == MCSpec => []ZeroMeansAll
<1>1. CommandPart => ZeroMeansAll
  BY CommandSays DEF CommandPart, ZeroMeansAll
<1> QED
  BY <1>1, CommandHolds, PTL

\* Every failure is told on exactly one of the two outputs, and a result that was
\* written whole has every audit that was completed.
THEOREM FailureToldOnce == MCSpec => []EverythingTold
<1>1. CommandPart => EverythingTold
  BY CommandSays DEF CommandPart, EverythingTold
<1> QED
  BY <1>1, CommandHolds, PTL

(***************************************************************************)
(* Paths.                                                                  *)
(***************************************************************************)
\* What a path may lead to, and where each path leads to.
Places == Dir \cup {None}
Leads == [Paths!Path -> Places]

FileSystem == [Paths!Slot -> Dir \cup Paths!Path \cup {None}]

\* One step of Paths!Walk in file system F.
Body(F, W, h, p) ==
    IF p = <<>> THEN RootDir
    ELSE LET d == W[h][Paths!Front(p)] IN
         IF d = None THEN None
         ELSE LET n == F[d, Paths!Last(p)] IN
              IF n \in Dir \cup {None} THEN n
              ELSE IF h = 0 THEN None ELSE W[h - 1][n]

IsWalk(F, W) == W = [h \in 0 .. MaxLinks |-> [p \in Paths!Path |-> Body(F, W, h, p)]]

WalkIn(F) == CHOOSE W : IsWalk(F, W)

LEMMA WalkChosen == Paths!Walk = WalkIn(fs) /\ (Paths!Walk)' = WalkIn(fs')
  BY DEF Paths!Walk, WalkIn, IsWalk, Body

LEMMA LastApart ==
  ASSUME NEW E, NEW s \in Seq(E), Len(s) > 0
  PROVE  /\ SubSeq(s, 1, Len(s) - 1) \in Seq(E) /\ Len(SubSeq(s, 1, Len(s) - 1)) = Len(s) - 1
         /\ s[Len(s)] \in E
         /\ s = Append(SubSeq(s, 1, Len(s) - 1), s[Len(s)])
<1>1. PICK n \in Nat : Len(s) = n + 1
  <2>1. Len(s) - 1 \in Nat /\ Len(s) = (Len(s) - 1) + 1
    OBVIOUS
  <2> QED
    BY <2>1
<1>2. Len(s) - 1 = n
  BY <1>1
<1>3. SubSeq(s, 1, n) \in Seq(E) /\ Len(SubSeq(s, 1, n)) = n /\ s[n + 1] \in E
  BY <1>1
<1>4. s = Append(SubSeq(s, 1, n), s[n + 1])
  BY <1>1
<1> QED
  BY <1>1, <1>2, <1>3, <1>4

\* A path that is not empty is one with a component less and a component.
LEMMA PathSplits ==
  /\ \A p \in Paths!Path : p \in Seq(Component) /\ Len(p) \in Nat /\ Len(p) <= MaxLen
  /\ \A p \in Seq(Component) : Len(p) <= MaxLen => p \in Paths!Path
  /\ \A p \in Paths!Path : p # <<>> =>
        /\ Len(p) > 0
        /\ Paths!Front(p) \in Paths!Path /\ Len(Paths!Front(p)) = Len(p) - 1
        /\ Paths!Last(p) \in Component
        /\ p = Append(Paths!Front(p), Paths!Last(p))
  /\ \A p \in Paths!Path : \A n \in 0 .. Len(p) :
        Paths!Prefix(p, n) \in Paths!Path /\ Len(Paths!Prefix(p, n)) = n
<1>1. Paths!Path = UNION {[1 .. m -> Component] : m \in 0 .. MaxLen} /\ MaxLen \in Nat
  BY StartAssumption DEF Paths!Path, Paths!BoundedSeq, Paths!SeqOf
<1>2. \A p \in Paths!Path : p \in Seq(Component) /\ Len(p) \in Nat /\ Len(p) <= MaxLen
  <2> TAKE p \in Paths!Path
  <2>1. PICK m \in 0 .. MaxLen : p \in [1 .. m -> Component]
    BY <1>1
  <2>2. p \in Seq(Component) /\ Len(p) = m
    BY <1>1, <2>1
  <2> QED
    BY <1>1, <2>1, <2>2
<1>3. \A p \in Seq(Component) : Len(p) <= MaxLen => p \in Paths!Path
  <2> SUFFICES ASSUME NEW p \in Seq(Component), Len(p) <= MaxLen PROVE p \in Paths!Path
    OBVIOUS
  <2>1. Len(p) \in 0 .. MaxLen /\ p \in [1 .. Len(p) -> Component]
    BY <1>1
  <2> QED
    BY <1>1, <2>1
<1>4. ASSUME NEW p \in Paths!Path, p # <<>>
      PROVE  /\ Len(p) > 0
             /\ Paths!Front(p) \in Paths!Path /\ Len(Paths!Front(p)) = Len(p) - 1
             /\ Paths!Last(p) \in Component
             /\ p = Append(Paths!Front(p), Paths!Last(p))
  <2>1. p \in Seq(Component) /\ Len(p) \in Nat /\ Len(p) <= MaxLen /\ Len(p) > 0
    BY <1>2, <1>4
  <2> DEFINE f == SubSeq(p, 1, Len(p) - 1)
  <2>2. f \in Seq(Component) /\ Len(f) = Len(p) - 1 /\ p[Len(p)] \in Component
        /\ p = Append(f, p[Len(p)])
    BY <2>1, LastApart
  <2>3. Paths!Front(p) = f /\ Paths!Last(p) = p[Len(p)]
    BY DEF Paths!Front, Paths!Last
  <2> HIDE DEF f
  <2>4. Len(f) <= MaxLen
    BY <1>1, <2>1, <2>2
  <2> QED
    BY <1>3, <2>1, <2>2, <2>3, <2>4
<1>5. ASSUME NEW p \in Paths!Path, NEW n \in 0 .. Len(p)
      PROVE  Paths!Prefix(p, n) \in Paths!Path /\ Len(Paths!Prefix(p, n)) = n
  <2>1. p \in Seq(Component) /\ Len(p) \in Nat /\ Len(p) <= MaxLen
    BY <1>2
  <2>2. SubSeq(p, 1, n) \in Seq(Component) /\ Len(SubSeq(p, 1, n)) = n /\ n <= MaxLen
    BY <1>1, <2>1
  <2> QED
    BY <1>3, <2>2 DEF Paths!Prefix
<1> QED
  BY <1>2, <1>3, <1>4, <1>5

(***************************************************************************)
(* There is such a function as Walk: it is a fold over each path, whose    *)
(* links lead where the one with a link less says.                         *)
(***************************************************************************)
Enter(F, G) ==
    [d \in Places |-> [n \in Component |->
        IF d = None THEN None
        ELSE IF F[d, n] \in Places THEN F[d, n] ELSE G[F[d, n]]]]

Level(F, G) == [p \in Paths!Path |-> Fold(Enter(F, G), RootDir, p)]

LEMMA EnterFolds ==
  ASSUME NEW F \in FileSystem, NEW G \in Leads
  PROVE  Folds(Places, Component, RootDir, Enter(F, G))
<1>1. \A d \in Dir, n \in Component : F[d, n] \in Dir \cup Paths!Path \cup {None}
  BY DEF FileSystem, Paths!Slot
<1>2. RootDir \in Places
  BY StartAssumption DEF Places
<1>3. \A d \in Places, n \in Component : Enter(F, G)[d][n] \in Places
  BY <1>1 DEF Enter, Leads, Places
<1> QED
  BY <1>2, <1>3 DEF Folds, Enter

LEMMA LevelIs ==
  ASSUME NEW F \in FileSystem, NEW G \in Leads
  PROVE  /\ Level(F, G) \in Leads
         /\ Level(F, G)[<<>>] = RootDir
         /\ \A p \in Paths!Path : p # <<>> =>
               Level(F, G)[p] = Enter(F, G)[Level(F, G)[Paths!Front(p)]][Paths!Last(p)]
<1> DEFINE step == Enter(F, G)
<1>1. Folds(Places, Component, RootDir, step)
  BY EnterFolds
<1> HIDE DEF step
<1>2. \A p \in Paths!Path : Fold(step, RootDir, p) \in Places
  BY <1>1, FoldType, PathSplits
<1>3. Fold(step, RootDir, <<>>) = RootDir
  BY <1>1, FoldEmpty
<1>4. \A p \in Paths!Path : p # <<>> =>
         Fold(step, RootDir, p) = step[Fold(step, RootDir, Paths!Front(p))][Paths!Last(p)]
  <2> SUFFICES ASSUME NEW p \in Paths!Path, p # <<>>
               PROVE  Fold(step, RootDir, p)
                        = step[Fold(step, RootDir, Paths!Front(p))][Paths!Last(p)]
    OBVIOUS
  <2> DEFINE q == Paths!Front(p)
             e == Paths!Last(p)
  <2>1. q \in Seq(Component) /\ e \in Component /\ p = Append(q, e)
    BY PathSplits
  <2> HIDE DEF q, e
  <2>2. Fold(step, RootDir, Append(q, e)) = step[Fold(step, RootDir, q)][e]
    BY <1>1, <2>1, FoldAppend
  <2> QED
    BY <2>1, <2>2 DEF q, e
<1>5. <<>> \in Paths!Path /\ \A p \in Paths!Path : p # <<>> => Paths!Front(p) \in Paths!Path
  <2>1. <<>> \in Seq(Component) /\ Len(<<>>) <= MaxLen
    BY StartAssumption
  <2> QED
    BY <2>1, PathSplits
<1>6. Level(F, G) = [p \in Paths!Path |-> Fold(step, RootDir, p)]
  BY DEF Level, step
<1>7. \A p \in Paths!Path : Level(F, G)[p] = Fold(step, RootDir, p)
  BY <1>6
<1>8. Level(F, G) \in Leads
  BY <1>2, <1>6 DEF Leads
<1>9. \A p \in Paths!Path : p # <<>> =>
         Level(F, G)[p] = step[Level(F, G)[Paths!Front(p)]][Paths!Last(p)]
  BY <1>4, <1>5, <1>7
<1> QED
  BY <1>3, <1>5, <1>7, <1>8, <1>9 DEF step

LEMMA WalkExists ==
  ASSUME NEW F \in FileSystem
  PROVE  \E W : IsWalk(F, W)
<1> DEFINE nowhere == [p \in Paths!Path |-> None]
           next == [G \in Leads |-> Level(F, G)]
           start == Level(F, nowhere)
<1>1. nowhere \in Leads
  BY DEF Leads, Places
<1>2. next \in [Leads -> Leads] /\ start \in Leads
  BY <1>1, LevelIs
<1>3. \A G \in Leads : next[G] = Level(F, G)
  OBVIOUS
<1>4. MaxLinks \in Nat
  BY StartAssumption
<1> HIDE DEF next, start
<1>5. PICK W \in [0 .. MaxLinks -> Leads] : Stepwise(W, start, next, MaxLinks)
  BY <1>2, <1>4, StepwiseExists
<1>6. W[0] = start /\ \A h \in 1 .. MaxLinks : W[h] = next[W[h - 1]]
  BY <1>5 DEF Stepwise
<1>7. ASSUME NEW h \in 0 .. MaxLinks
      PROVE  W[h] = [p \in Paths!Path |-> Body(F, W, h, p)]
  <2> DEFINE G == IF h = 0 THEN nowhere ELSE W[h - 1]
  <2>1. h # 0 => h \in 1 .. MaxLinks /\ h - 1 \in 0 .. MaxLinks
    BY <1>4
  <2>2. G \in Leads
    BY <1>1, <1>5, <2>1
  <2>3. W[h] = Level(F, G)
    BY <1>1, <1>3, <1>5, <1>6, <2>1 DEF start
  <2>4. \A q \in Paths!Path : G[q] = IF h = 0 THEN None ELSE W[h - 1][q]
    OBVIOUS
  <2> HIDE DEF G
  <2>5. /\ W[h] \in Leads /\ W[h][<<>>] = RootDir
        /\ \A p \in Paths!Path : p # <<>> =>
              W[h][p] = Enter(F, G)[W[h][Paths!Front(p)]][Paths!Last(p)]
    BY <2>2, <2>3, LevelIs
  <2>6. ASSUME NEW p \in Paths!Path PROVE W[h][p] = Body(F, W, h, p)
    <3>1. CASE p = <<>>
      BY <2>5, <3>1 DEF Body
    <3>2. CASE p # <<>>
      <4> DEFINE d == W[h][Paths!Front(p)]
                 e == Paths!Last(p)
      <4>1. d \in Places /\ e \in Component
        BY <2>5, <3>2, PathSplits DEF Leads
      <4>2. W[h][p] = Enter(F, G)[d][e]
        BY <2>5, <3>2
      <4>3. Body(F, W, h, p) =
              IF d = None THEN None
              ELSE IF F[d, e] \in Dir \cup {None} THEN F[d, e]
              ELSE IF h = 0 THEN None ELSE W[h - 1][F[d, e]]
        BY <3>2 DEF Body
      <4> HIDE DEF d, e
      <4>4. Enter(F, G)[d][e] =
              IF d = None THEN None ELSE IF F[d, e] \in Places THEN F[d, e] ELSE G[F[d, e]]
        BY <4>1 DEF Enter
      <4>5. d # None => F[d, e] \in Dir \cup Paths!Path \cup {None}
        BY <4>1 DEF FileSystem, Paths!Slot, Places
      <4> QED
        BY <2>4, <4>2, <4>3, <4>4, <4>5 DEF Places
    <3> QED
      BY <3>1, <3>2
  <2> QED
    <3> DEFINE B == [p \in Paths!Path |-> Body(F, W, h, p)]
    <3>1. \A p \in Paths!Path : W[h][p] = B[p]
      BY <2>6
    <3> QED
      BY <2>5, <3>1 DEF Leads
<1>8. W = [h \in 0 .. MaxLinks |-> W[h]]
  BY <1>5
<1> DEFINE V == [h \in 0 .. MaxLinks |-> [p \in Paths!Path |-> Body(F, W, h, p)]]
<1>9. W = V
  <2>1. \A h \in 0 .. MaxLinks : W[h] = V[h]
    BY <1>7
  <2> HIDE DEF nowhere
  <2> QED
    BY <1>8, <2>1
<1> QED
  BY <1>9 DEF IsWalk

(***************************************************************************)
(* What follows of where paths lead to.                                    *)
(***************************************************************************)
\* Each directory has one name, and / has none.
OneName(F) ==
    /\ F \in FileSystem
    /\ \A s \in Paths!Slot : F[s] # RootDir
    /\ \A s, t \in Paths!Slot : F[s] \in Dir /\ F[s] = F[t] => s = t

LEMMA WalkIs ==
  ASSUME NEW F \in FileSystem, NEW h \in 0 .. MaxLinks, NEW p \in Paths!Path
  PROVE  WalkIn(F)[h][p] = Body(F, WalkIn(F), h, p)
<1>1. IsWalk(F, WalkIn(F))
  BY WalkExists DEF WalkIn
<1> DEFINE W == WalkIn(F)
<1> HIDE DEF W
<1>2. W = [k \in 0 .. MaxLinks |-> [q \in Paths!Path |-> Body(F, W, k, q)]]
  BY <1>1 DEF IsWalk, W
<1>3. W[h] = [q \in Paths!Path |-> Body(F, W, h, q)]
  BY <1>2
<1>4. W[h][p] = Body(F, W, h, p)
  BY <1>3
<1> QED
  BY <1>4 DEF W

\* Without links, a path that leads somewhere leads there by way of a directory,
\* and so it does if links may be followed.
LEMMA WalkFacts ==
  ASSUME NEW F \in FileSystem
  PROVE  /\ <<>> \in Paths!Path /\ 0 \in 0 .. MaxLinks /\ MaxLinks \in 0 .. MaxLinks
         /\ \A h \in 0 .. MaxLinks : WalkIn(F)[h][<<>>] = RootDir
         /\ \A p \in Paths!Path : WalkIn(F)[0][p] \in Places
         /\ \A p \in Paths!Path : p # <<>> /\ WalkIn(F)[0][p] # None =>
               /\ WalkIn(F)[0][Paths!Front(p)] \in Dir
               /\ <<WalkIn(F)[0][Paths!Front(p)], Paths!Last(p)>> \in Paths!Slot
               /\ WalkIn(F)[0][p] = F[<<WalkIn(F)[0][Paths!Front(p)], Paths!Last(p)>>]
         /\ \A h \in 0 .. MaxLinks, p \in Paths!Path :
               /\ p # <<>>
               /\ WalkIn(F)[0][p] # None
               /\ WalkIn(F)[h][Paths!Front(p)] = WalkIn(F)[0][Paths!Front(p)]
               => WalkIn(F)[h][p] = WalkIn(F)[0][p]
<1> DEFINE W == WalkIn(F)
<1>1. <<>> \in Paths!Path /\ 0 \in 0 .. MaxLinks /\ MaxLinks \in 0 .. MaxLinks
      /\ RootDir \in Dir /\ None \notin Dir
  <2>1. <<>> \in Seq(Component) /\ Len(<<>>) <= MaxLen
    BY StartAssumption
  <2>2. <<>> \in Paths!Path
    BY <2>1, PathSplits
  <2>3. MaxLinks \in Nat /\ RootDir \in Dir /\ None \notin Dir
    BY StartAssumption
  <2> QED
    BY <2>2, <2>3
<1>2. \A h \in 0 .. MaxLinks, p \in Paths!Path : W[h][p] = Body(F, W, h, p)
  BY WalkIs
<1> HIDE DEF W
<1>3. \A h \in 0 .. MaxLinks : W[h][<<>>] = RootDir
  BY <1>1, <1>2 DEF Body
<1>4. ASSUME NEW p \in Paths!Path
      PROVE  /\ W[0][p] \in Places
             /\ p # <<>> /\ W[0][p] # None =>
                   /\ W[0][Paths!Front(p)] # None
                   /\ W[0][p] = F[W[0][Paths!Front(p)], Paths!Last(p)]
  BY <1>1, <1>2 DEF Body, Places
<1>5. ASSUME NEW p \in Paths!Path, p # <<>>, W[0][p] # None
      PROVE  /\ W[0][Paths!Front(p)] \in Dir
             /\ <<W[0][Paths!Front(p)], Paths!Last(p)>> \in Paths!Slot
             /\ W[0][p] = F[<<W[0][Paths!Front(p)], Paths!Last(p)>>]
  <2>1. Paths!Front(p) \in Paths!Path /\ Paths!Last(p) \in Component
    BY <1>5, PathSplits
  <2>2. W[0][Paths!Front(p)] \in Dir
    BY <1>4, <1>5, <2>1 DEF Places
  <2> QED
    BY <1>4, <1>5, <2>1, <2>2 DEF Paths!Slot
<1>6. ASSUME NEW h \in 0 .. MaxLinks, NEW p \in Paths!Path, p # <<>>, W[0][p] # None,
             W[h][Paths!Front(p)] = W[0][Paths!Front(p)]
      PROVE  W[h][p] = W[0][p]
  <2>1. W[0][Paths!Front(p)] # None /\ W[0][p] = F[W[0][Paths!Front(p)], Paths!Last(p)]
        /\ W[0][p] \in Places
    BY <1>4, <1>6
  <2> QED
    BY <1>2, <1>6, <2>1 DEF Body, Places
<1> QED
  BY <1>1, <1>3, <1>4, <1>5, <1>6 DEF W

\* A path without links leads to the same directory whether or not links are
\* followed, as the kernel does.
LEMMA LinksDoNotMatter ==
  ASSUME NEW F \in FileSystem
  PROVE  \A h \in 0 .. MaxLinks, p \in Paths!Path :
            WalkIn(F)[0][p] # None => WalkIn(F)[h][p] = WalkIn(F)[0][p]
<1> SUFFICES ASSUME NEW h \in 0 .. MaxLinks
             PROVE  \A p \in Paths!Path : WalkIn(F)[0][p] # None => WalkIn(F)[h][p] = WalkIn(F)[0][p]
  OBVIOUS
<1> DEFINE W == WalkIn(F)
           S == {n \in Nat : \A p \in Paths!Path :
                    Len(p) = n /\ W[0][p] # None => W[h][p] = W[0][p]}
<1> HIDE DEF W
<1>1. 0 \in S
  <2>1. \A p \in Paths!Path : Len(p) = 0 => p = <<>>
    BY PathSplits
  <2>2. W[h][<<>>] = RootDir /\ W[0][<<>>] = RootDir
    BY WalkFacts DEF W
  <2> QED
    BY <2>1, <2>2
<1>2. ASSUME NEW n \in Nat, n \in S PROVE n + 1 \in S
  <2> SUFFICES ASSUME NEW p \in Paths!Path, Len(p) = n + 1, W[0][p] # None
               PROVE  W[h][p] = W[0][p]
    OBVIOUS
  <2>1. p # <<>>
    OBVIOUS
  <2>2. Paths!Front(p) \in Paths!Path /\ Len(Paths!Front(p)) = n
    BY <2>1, PathSplits
  <2>3. W[0][Paths!Front(p)] # None
    BY <2>1, WalkFacts, StartAssumption DEF W
  <2>4. W[h][Paths!Front(p)] = W[0][Paths!Front(p)]
    BY <1>2, <2>2, <2>3
  <2> QED
    BY <2>1, <2>4, WalkFacts DEF W
<1>3. Nat \subseteq S
  <2> HIDE DEF S
  <2> QED
    BY <1>1, <1>2, SetInduction
<1>4. \A p \in Paths!Path : Len(p) \in S
  <2> HIDE DEF S
  <2> QED
    BY <1>3, PathSplits
<1> QED
  BY <1>4 DEF W

\* No two paths without links lead to the same directory.
LEMMA OnePath ==
  ASSUME NEW F, OneName(F)
  PROVE  \A p, q \in Paths!Path :
            WalkIn(F)[0][p] # None /\ WalkIn(F)[0][p] = WalkIn(F)[0][q] => p = q
<1> DEFINE W == WalkIn(F)
           S == {n \in Nat : \A p, q \in Paths!Path :
                    Len(p) = n /\ W[0][p] # None /\ W[0][p] = W[0][q] => p = q}
<1>0. F \in FileSystem
  BY DEF OneName
<1> HIDE DEF W
<1>1. \A q \in Paths!Path : q # <<>> /\ W[0][q] # None =>
         /\ W[0][Paths!Front(q)] \in Dir
         /\ <<W[0][Paths!Front(q)], Paths!Last(q)>> \in Paths!Slot
         /\ W[0][q] = F[<<W[0][Paths!Front(q)], Paths!Last(q)>>]
  BY <1>0, WalkFacts DEF W
<1>2. W[0][<<>>] = RootDir /\ \A q \in Paths!Path : W[0][q] \in Places
  BY <1>0, WalkFacts DEF W
<1>3. \A q \in Paths!Path : q # <<>> /\ W[0][q] # None => W[0][q] # RootDir
  BY <1>1 DEF OneName
<1>4. 0 \in S
  <2>1. \A p \in Paths!Path : Len(p) = 0 => p = <<>>
    BY PathSplits
  <2> QED
    BY <1>2, <1>3, <2>1
<1>5. ASSUME NEW n \in Nat, n \in S PROVE n + 1 \in S
  <2> SUFFICES ASSUME NEW p \in Paths!Path, NEW q \in Paths!Path,
                      Len(p) = n + 1, W[0][p] # None, W[0][p] = W[0][q]
               PROVE  p = q
    OBVIOUS
  <2>1. p # <<>> /\ q # <<>>
    <3>1. p # <<>>
      OBVIOUS
    <3> QED
      BY <1>2, <1>3, <3>1
  <2> DEFINE s == <<W[0][Paths!Front(p)], Paths!Last(p)>>
             t == <<W[0][Paths!Front(q)], Paths!Last(q)>>
  <2>2. s \in Paths!Slot /\ t \in Paths!Slot /\ F[s] = F[t] /\ F[s] \in Dir
        /\ W[0][Paths!Front(p)] \in Dir
    BY <1>1, <1>2, <2>1 DEF Places
  <2> HIDE DEF s, t
  <2>3. s = t
    BY <2>2 DEF OneName
  <2>4. W[0][Paths!Front(p)] = W[0][Paths!Front(q)] /\ Paths!Last(p) = Paths!Last(q)
    BY <2>3 DEF s, t
  <2>5. /\ Paths!Front(p) \in Paths!Path /\ Paths!Front(q) \in Paths!Path
        /\ Len(Paths!Front(p)) = n
        /\ p = Append(Paths!Front(p), Paths!Last(p))
        /\ q = Append(Paths!Front(q), Paths!Last(q))
    BY <2>1, PathSplits
  <2>6. W[0][Paths!Front(p)] # None
    BY <2>2, StartAssumption
  <2>7. Paths!Front(p) = Paths!Front(q)
    BY <1>5, <2>4, <2>5, <2>6
  <2> QED
    BY <2>4, <2>5, <2>7
<1>6. Nat \subseteq S
  <2> HIDE DEF S
  <2> QED
    BY <1>4, <1>5, SetInduction
<1>7. \A p \in Paths!Path : Len(p) \in S
  <2> HIDE DEF S
  <2> QED
    BY <1>6, PathSplits
<1> QED
  BY <1>7 DEF W

(***************************************************************************)
(* The run.                                                                *)
(***************************************************************************)
PlaceOf(p) == WalkIn(fs)[0][p]

\* What has been found out about the two names holds until the end: they never
\* change, and what leads to a directory is taken away by nobody once the run
\* has opened the root.
PathsInv ==
    /\ OneName(fs)
    /\ backupDir \in Paths!Path /\ datadir \in Paths!Path
    /\ pathPc \in {"load", "loaded", "opening", "validate", "ready", "refused"}
    /\ pathPc \in {"loaded", "opening", "validate", "ready"} => ~Paths!Overlaps(backupDir, datadir)
    /\ pathPc \in {"validate", "ready"} => PlaceOf(backupDir) # None
    /\ pathPc = "ready" => PlaceOf(datadir) # None

\* A name is given to a new directory, to a link or to nothing.
LEMMA NewName ==
  ASSUME NEW F, OneName(F), NEW s \in Paths!Slot, NEW n,
         n \in Dir => n # RootDir /\ \A t \in Paths!Slot : F[t] # n,
         n \in Dir \cup Paths!Path \cup {None}
  PROVE  OneName([F EXCEPT ![s] = n])
<1>1. F \in FileSystem /\ RootDir \in Dir
  BY StartAssumption DEF OneName
<1>2. [F EXCEPT ![s] = n] \in FileSystem
  BY <1>1 DEF FileSystem
<1>3. \A t \in Paths!Slot : [F EXCEPT ![s] = n][t] = IF t = s THEN n ELSE F[t]
  BY <1>1 DEF FileSystem
<1>4. n # RootDir
  BY <1>1, StartAssumption
<1> DEFINE G == [F EXCEPT ![s] = n]
<1> HIDE DEF G
<1>5. \A t \in Paths!Slot : G[t] = IF t = s THEN n ELSE F[t]
  BY <1>3 DEF G
<1>6. OneName(G)
  BY <1>2, <1>4, <1>5 DEF OneName, G
<1> QED
  BY <1>6 DEF G

LEMMA PathsInit == ASSUME Paths!Init PROVE PathsInv
<1>1. fs = [s \in Paths!Slot |-> None] /\ None \notin Dir /\ RootDir \in Dir
  BY StartAssumption DEF Paths!Init
<1>2. OneName(fs)
  BY <1>1 DEF OneName, FileSystem
<1> QED
  BY <1>2 DEF PathsInv, Paths!Init

LEMMA PathsStep == ASSUME PathsInv, [Paths!Next]_pathVars PROVE PathsInv'
<1>1. Paths!Walk = WalkIn(fs)
  BY WalkChosen
<1>2. \A p : Paths!PathInfo(p) <=> PlaceOf(p) # None
  BY <1>1 DEF Paths!PathInfo, PlaceOf
<1>3. ASSUME UNCHANGED fs
      PROVE  \A p : PlaceOf(p)' = PlaceOf(p)
  BY <1>3 DEF PlaceOf
<1>4. CASE Paths!LoadConfig
  BY <1>3, <1>4 DEF PathsInv, Paths!LoadConfig, Paths!Goto
<1>5. CASE Paths!OpenBackupRoot
  BY <1>3, <1>5 DEF PathsInv, Paths!OpenBackupRoot, Paths!Goto
<1>6. CASE Paths!Opened
  BY <1>2, <1>3, <1>6 DEF PathsInv, Paths!Opened, Paths!Goto
<1>7. CASE Paths!ValidateRuntime
  BY <1>2, <1>3, <1>7 DEF PathsInv, Paths!ValidateRuntime, Paths!Goto
<1>8. CASE UNCHANGED pathVars
  BY <1>3, <1>8 DEF PathsInv, pathVars
<1>9. CASE Paths!Mkdir
  <2>1. PICK n \in 1 .. Len(backupDir), d \in Dir \ Paths!InUse :
           LET s == <<Paths!Walk[0][Paths!Prefix(backupDir, n - 1)], backupDir[n]>>
           IN  s[1] # None /\ fs[s] = None /\ fs' = [fs EXCEPT ![s] = d]
    BY <1>9 DEF Paths!Mkdir
  <2> DEFINE e == PlaceOf(Paths!Prefix(backupDir, n - 1))
             s == <<e, backupDir[n]>>
  <2>2. e # None /\ fs' = [fs EXCEPT ![s] = d]
    BY <1>1, <2>1 DEF PlaceOf
  <2>3. backupDir \in Seq(Component) /\ Len(backupDir) \in Nat /\ n - 1 \in 0 .. Len(backupDir)
    BY PathSplits DEF PathsInv
  <2>4. Paths!Prefix(backupDir, n - 1) \in Paths!Path /\ backupDir[n] \in Component
    BY <2>3, PathSplits DEF PathsInv
  <2>5. e \in Places
    BY <2>4, WalkFacts DEF PathsInv, OneName, PlaceOf
  <2> HIDE DEF e
  <2>6. s \in Paths!Slot
    BY <2>2, <2>4, <2>5 DEF Paths!Slot, Places
  <2> HIDE DEF s
  <2>7. d # RootDir /\ \A t \in Paths!Slot : fs[t] # d
    BY DEF Paths!InUse
  <2>8. OneName([fs EXCEPT ![s] = d])
    BY <2>6, <2>7, NewName DEF PathsInv
  <2>9. OneName(fs')
    BY <2>2, <2>8
  <2> QED
    BY <1>9, <2>9 DEF PathsInv, Paths!Mkdir
<1>10. CASE Paths!Change
  <2>1. PICK s \in Paths!Slot :
          \/ \E d \in Dir \ Paths!InUse : fs' = [fs EXCEPT ![s] = d]
          \/ \E p \in Paths!Path : fs' = [fs EXCEPT ![s] = p]
          \/ fs' = [fs EXCEPT ![s] = None]
    BY <1>10 DEF Paths!Change
  <2>2. OneName(fs) /\ None \notin Dir /\ \A p \in Paths!Path : p \notin Dir
    BY StartAssumption DEF PathsInv
  <2>3. OneName(fs')
    <3>1. CASE \E d \in Dir \ Paths!InUse : fs' = [fs EXCEPT ![s] = d]
      <4>1. PICK d \in Dir \ Paths!InUse : fs' = [fs EXCEPT ![s] = d]
        BY <3>1
      <4>2. d # RootDir /\ \A t \in Paths!Slot : fs[t] # d
        BY DEF Paths!InUse
      <4>3. OneName([fs EXCEPT ![s] = d])
        BY <2>2, <4>2, NewName
      <4> QED
        BY <4>1, <4>3
    <3>2. CASE \E p \in Paths!Path : fs' = [fs EXCEPT ![s] = p]
      <4>1. PICK p \in Paths!Path : fs' = [fs EXCEPT ![s] = p]
        BY <3>2
      <4>2. OneName([fs EXCEPT ![s] = p])
        BY <2>2, NewName
      <4> QED
        BY <4>1, <4>2
    <3>3. CASE fs' = [fs EXCEPT ![s] = None]
      <4>1. OneName([fs EXCEPT ![s] = None])
        BY <2>2, NewName
      <4> QED
        BY <3>3, <4>1
    <3> QED
      BY <2>1, <3>1, <3>2, <3>3
  <2> QED
    BY <1>10, <2>3 DEF PathsInv, Paths!Change
<1> QED
  BY <1>4, <1>5, <1>6, <1>7, <1>8, <1>9, <1>10 DEF Paths!Next

\* A name below which another one leads is the beginning of that one.
LEMMA BelowIsPrefix ==
  ASSUME OneName(fs), NEW p \in Paths!Path, NEW q \in Paths!Path,
         PlaceOf(p) # None, PlaceOf(q) # None,
         Paths!Below(PlaceOf(p), PlaceOf(q))
  PROVE  Paths!IsPrefix(q, p)
<1>1. Paths!Walk = WalkIn(fs)
  BY WalkChosen
<1>2. PICK r \in Paths!Path :
          PlaceOf(r) = PlaceOf(p) /\ \E n \in 0 .. Len(r) : PlaceOf(Paths!Prefix(r, n)) = PlaceOf(q)
  BY <1>1 DEF Paths!Below, PlaceOf
<1>3. PICK n \in 0 .. Len(r) : PlaceOf(r) = PlaceOf(p) /\ PlaceOf(Paths!Prefix(r, n)) = PlaceOf(q)
  BY <1>2
<1>4. r = p
  BY <1>3, OnePath DEF PlaceOf
<1>5. Paths!Prefix(r, n) \in Paths!Path /\ Len(Paths!Prefix(r, n)) = n
  BY PathSplits
<1>6. Paths!Prefix(r, n) = q
  BY <1>3, <1>5, OnePath DEF PlaceOf
<1>7. q = SubSeq(p, 1, n) /\ Len(q) = n /\ n \in 0 .. Len(p) /\ q \in Seq(Component)
      /\ Len(p) \in Nat
  BY <1>4, <1>5, <1>6, PathSplits DEF Paths!Prefix
<1>8. SubSeq(q, 1, Len(q)) = q
  BY <1>7
<1> QED
  BY <1>7, <1>8 DEF Paths!IsPrefix

LEMMA PathsSay == ASSUME PathsInv PROVE Paths!PathInv
<1>1. Paths!TypeOK
  BY DEF PathsInv, OneName, FileSystem, Paths!TypeOK
<1>2. ASSUME pathPc = "ready"
      PROVE  /\ Paths!Walk[MaxLinks][backupDir] # None /\ Paths!Walk[MaxLinks][datadir] # None
             /\ ~Paths!Below(Paths!Walk[MaxLinks][backupDir], Paths!Walk[MaxLinks][datadir])
             /\ ~Paths!Below(Paths!Walk[MaxLinks][datadir], Paths!Walk[MaxLinks][backupDir])
  <2>1. /\ OneName(fs) /\ fs \in FileSystem
        /\ backupDir \in Paths!Path /\ datadir \in Paths!Path
        /\ PlaceOf(backupDir) # None /\ PlaceOf(datadir) # None
        /\ ~Paths!IsPrefix(backupDir, datadir) /\ ~Paths!IsPrefix(datadir, backupDir)
    BY <1>2 DEF PathsInv, OneName, Paths!Overlaps
  <2>2. MaxLinks \in 0 .. MaxLinks
    BY StartAssumption
  <2>3. /\ Paths!Walk[MaxLinks][backupDir] = PlaceOf(backupDir)
        /\ Paths!Walk[MaxLinks][datadir] = PlaceOf(datadir)
    BY <2>1, <2>2, WalkChosen, LinksDoNotMatter DEF PlaceOf
  <2> QED
    BY <2>1, <2>3, BelowIsPrefix
<1> QED
  BY <1>1, <1>2 DEF Paths!PathInv, Paths!Apart

PathsPart == part = "paths" => PathsInv

LEMMA PathsHold == MCSpec => []PathsPart
<1>1. MCInit => PathsPart
  <2>1. ASSUME MCInit, part = "paths" PROVE Paths!Init
    BY <2>1 DEF MCInit
  <2> QED
    BY <2>1, PathsInit DEF PathsPart
<1>2. PathsPart /\ [MCNext]_mcVars => PathsPart'
  <2> SUFFICES ASSUME PathsPart, [MCNext]_mcVars, part' = "paths" PROVE PathsInv'
    BY DEF PathsPart
  <2>1. part = "paths"
    BY DEF MCNext, mcVars
  <2>2. [Paths!Next]_pathVars
    BY <2>1 DEF MCNext, mcVars
  <2> QED
    BY <2>1, <2>2, PathsStep DEF PathsPart
<1> QED
  BY <1>1, <1>2, PTL DEF MCSpec

\* Although only the names were compared, and before the directories were where
\* they are, neither the backup root nor datadir lies in the other when a run
\* starts, however long the names are and however many links there are.
THEOREM RootAndDataApart == MCSpec => []PathsApart
<1>1. PathsPart => PathsApart
  BY PathsSay DEF PathsPart, PathsApart
<1> QED
  BY <1>1, PathsHold, PTL

(***************************************************************************)
(* The walk to the root.  RootWalkProofs is about any constants, so about  *)
(* those of the two instances that MCStart has, whose definitions are the  *)
(* same.                                                                   *)
(***************************************************************************)
WalkProofs == INSTANCE RootWalkProofs WITH
    Inodes <- Nodes, Top <- Slash, Hostile <- TRUE, pc <- walkPc

RaceProofs == INSTANCE RootWalkProofs WITH
    Runs <- Procs, Inodes <- Nodes, Top <- Slash, Hostile <- FALSE, pc <- walkPc

LEMMA WalkSensible == WalkProofs!Sensible /\ RaceProofs!Sensible
  BY StartAssumption DEF WalkProofs!Sensible, RaceProofs!Sensible

LEMMA SameInit ==
  (Walk!Init => WalkProofs!Init) /\ (Race!Init => RaceProofs!Init)
  BY DEF Walk!Init, WalkProofs!Init, Race!Init, RaceProofs!Init

LEMMA SameWalkNext == Walk!Next => WalkProofs!Next
  BY DEF Walk!fsVars, WalkProofs!fsVars, Walk!vars, WalkProofs!vars, Walk!PC, WalkProofs!PC,
      Walk!Fresh, WalkProofs!Fresh, Walk!Cwd, WalkProofs!Cwd, Walk!Go, WalkProofs!Go,
      Walk!Return, WalkProofs!Return, Walk!Path, WalkProofs!Path, Walk!BackupRootFine,
      WalkProofs!BackupRootFine, Walk!ControlledParents, WalkProofs!ControlledParents,
      Walk!Begin, WalkProofs!Begin, Walk!Lookup, WalkProofs!Lookup, Walk!Mkdir,
      WalkProofs!Mkdir, Walk!LookAgain, WalkProofs!LookAgain, Walk!Check, WalkProofs!Check,
      Walk!Open, WalkProofs!Open, Walk!Compare, WalkProofs!Compare, Walk!Descend,
      WalkProofs!Descend, Walk!SyncParent, WalkProofs!SyncParent, Walk!Active,
      WalkProofs!Active, Walk!Refuse, WalkProofs!Refuse, Walk!Fails, WalkProofs!Fails,
      Walk!Again, WalkProofs!Again, Walk!Step, WalkProofs!Step, Walk!Swap, WalkProofs!Swap,
      Walk!Writeback, WalkProofs!Writeback, Walk!PowerLoss, WalkProofs!PowerLoss, Walk!Next,
      WalkProofs!Next, Walk!Last, WalkProofs!Last

LEMMA SameRaceNext == Race!Next => RaceProofs!Next
  BY DEF Race!fsVars, RaceProofs!fsVars, Race!vars, RaceProofs!vars, Race!PC, RaceProofs!PC,
      Race!Fresh, RaceProofs!Fresh, Race!Cwd, RaceProofs!Cwd, Race!Go, RaceProofs!Go,
      Race!Return, RaceProofs!Return, Race!Path, RaceProofs!Path, Race!BackupRootFine,
      RaceProofs!BackupRootFine, Race!ControlledParents, RaceProofs!ControlledParents,
      Race!Begin, RaceProofs!Begin, Race!Lookup, RaceProofs!Lookup, Race!Mkdir,
      RaceProofs!Mkdir, Race!LookAgain, RaceProofs!LookAgain, Race!Check, RaceProofs!Check,
      Race!Open, RaceProofs!Open, Race!Compare, RaceProofs!Compare, Race!Descend,
      RaceProofs!Descend, Race!SyncParent, RaceProofs!SyncParent, Race!Active,
      RaceProofs!Active, Race!Refuse, RaceProofs!Refuse, Race!Fails, RaceProofs!Fails,
      Race!Again, RaceProofs!Again, Race!Step, RaceProofs!Step, Race!Swap, RaceProofs!Swap,
      Race!Writeback, RaceProofs!Writeback, Race!PowerLoss, RaceProofs!PowerLoss, Race!Next,
      RaceProofs!Next, Race!Last, RaceProofs!Last

LEMMA SameStutter ==
  (UNCHANGED walkVars => UNCHANGED WalkProofs!vars) /\ (UNCHANGED walkVars => UNCHANGED RaceProofs!vars)
  BY DEF walkVars, WalkProofs!vars, WalkProofs!fsVars, RaceProofs!vars, RaceProofs!fsVars

WalkPart == part = "walk" => WalkProofs!RootInv
RacePart == part = "race" => RaceProofs!RootInv /\ RaceProofs!QuietInv

LEMMA WalkHolds == MCSpec => []WalkPart
<1>1. MCInit => WalkPart
  <2>1. ASSUME MCInit, part = "walk" PROVE Walk!Init
    BY <2>1 DEF MCInit
  <2> QED
    BY <2>1, SameInit, WalkSensible, WalkProofs!RootInit DEF WalkPart
<1>2. WalkPart /\ [MCNext]_mcVars => WalkPart'
  <2> SUFFICES ASSUME WalkPart, [MCNext]_mcVars, part' = "walk" PROVE WalkProofs!RootInv'
    BY DEF WalkPart
  <2>1. part = "walk"
    BY DEF MCNext, mcVars
  <2>2. Walk!Next \/ UNCHANGED walkVars
    BY <2>1 DEF MCNext, mcVars
  <2>3. [WalkProofs!Next]_WalkProofs!vars
    BY <2>2, SameWalkNext, SameStutter
  <2> QED
    BY <2>1, <2>3, WalkSensible, WalkProofs!RootStep DEF WalkPart
<1> QED
  BY <1>1, <1>2, PTL DEF MCSpec

LEMMA RaceHolds == MCSpec => []RacePart
<1>1. MCInit => RacePart
  <2>1. ASSUME MCInit, part = "race" PROVE Race!Init
    BY <2>1 DEF MCInit
  <2> QED
    BY <2>1, SameInit, WalkSensible, RaceProofs!RootInit, RaceProofs!QuietInit DEF RacePart
<1>2. RacePart /\ [MCNext]_mcVars => RacePart'
  <2> SUFFICES ASSUME RacePart, [MCNext]_mcVars, part' = "race"
               PROVE  RaceProofs!RootInv' /\ RaceProofs!QuietInv'
    BY DEF RacePart
  <2>1. part = "race"
    BY DEF MCNext, mcVars
  <2>2. Race!Next \/ UNCHANGED walkVars
    BY <2>1 DEF MCNext, mcVars
  <2>3. [RaceProofs!Next]_RaceProofs!vars
    BY <2>2, SameRaceNext, SameStutter
  <2> QED
    BY <2>1, <2>3, WalkSensible, RaceProofs!RootStep, RaceProofs!QuietStep DEF RacePart
<1> QED
  BY <1>1, <1>2, PTL DEF MCSpec

\* Whatever another writer puts in the place of a component, the run works in
\* directories that it has checked.
THEOREM StartWalkChecked == MCSpec => []WalkInv
<1>1. WalkPart => WalkInv
  <2>1. WalkProofs!RootInv => WalkProofs!WalkInv
    BY WalkSensible, WalkProofs!RootInvSays
  <2>2. WalkProofs!WalkInv => Walk!WalkInv
    BY DEF WalkProofs!WalkInv, WalkProofs!TypeOK, WalkProofs!PC, WalkProofs!WalkedIsChecked,
       Walk!WalkInv, Walk!TypeOK, Walk!PC, Walk!WalkedIsChecked
  <2> QED
    BY <2>1, <2>2 DEF WalkPart, WalkInv
<1> QED
  BY <1>1, WalkHolds, PTL

\* The way to the root survives a power loss, with another writer about and
\* among first runs alone.
THEOREM StartWalkDurable == MCSpec => []WalkedIsDurable
<1>1. WalkPart /\ RacePart => WalkedIsDurable
  BY DEF WalkPart, RacePart, WalkedIsDurable, WalkProofs!RootInv, RaceProofs!RootInv,
     WalkProofs!WalkedIsDurable, RaceProofs!WalkedIsDurable, Walk!WalkedIsDurable,
     Race!WalkedIsDurable
<1> QED
  BY <1>1, WalkHolds, RaceHolds, PTL

\* However many first runs start together, however deep the root lies and whenever
\* the power goes, none stops because of another: mkdir takes what another one has
\* made, and every check passes what another one has left.
THEOREM StartNobodyRefused == MCSpec => []NobodyIsRefused
<1>1. RacePart => NobodyIsRefused
  BY DEF RacePart, NobodyIsRefused, RaceProofs!QuietInv, RaceProofs!NobodyIsRefused,
     Race!NobodyIsRefused
<1> QED
  BY <1>1, RaceHolds, PTL

=============================================================================

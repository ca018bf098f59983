------------------------------ MODULE AuditProofs ------------------------------
(***************************************************************************)
(* The digest is that of one instant, for any files, sizes and times; and  *)
(* what verify says of a backup is so, for any files and limits.           *)
(***************************************************************************)
EXTENDS MCAudit, SequenceTheorems, FiniteSetTheorems, TLAPS

(***************************************************************************)
(* The hashing of a file.                                                  *)
(***************************************************************************)
\* What a file can hold is a sequence of blocks of at most MaxSize.
LEMMA ContentBounded == \A c \in Content : c \in Seq(Byte) /\ Len(c) <= MaxSize
  BY HashAssumption DEF Content, BoundedSeq, SeqOf

SnapshotType ==
    [ino : Inodes, size : Nat, mtime : Tick, ctime : Tick, named : BOOLEAN]

LEMMA SnapshotTyped == ASSUME TypeOK, NEW i \in Inodes PROVE Snapshot(i) \in SnapshotType
  BY HashAssumption DEF TypeOK, Snapshot, SnapshotType

Reading == pc \in {"read", "fstatAgain", "lstatAgain"}

\* No file has changed in the future.
NoFuture == \A i \in Inodes : ctime[i] <= now

\* What was read is what the open file begins with.
ReadSoFar ==
    /\ Len(read) <= Len(content[fd])
    /\ \A k \in 1 .. Len(read) : read[k] = content[fd][k]

\* The open file is the one that was looked up.  Unless it was changed in the
\* tick of its check, it has not changed since as long as its ctime has not.
OpenFile ==
    Reading =>
        /\ before.ino = fd
        /\ before.ctime <= ctime[fd]
        /\ ~racy =>
              /\ before.ctime < now
              /\ before.ctime = ctime[fd] =>
                    ReadSoFar /\ (pc # "read" => Len(read) = Len(content[fd]))

\* Before the file is read nothing is.
NothingRead == pc \in {"lstat", "open", "fstat"} => read = <<>>

HashInv == TypeOK /\ before \in SnapshotType /\ NoFuture /\ OpenFile /\ NothingRead

LEMMA HashInit == Init => HashInv
<1> SUFFICES ASSUME Init PROVE HashInv
  OBVIOUS
<1>1. TypeOK
  <2>1. content \in [Inodes -> Seq(Byte)] /\ \A i \in Inodes : Len(content[i]) <= MaxSize
    <3>1. content \in [Inodes -> Content]
      BY DEF Init
    <3> QED
      BY <3>1, ContentBounded
  <2>2. read \in Seq(Byte) /\ Len(read) <= MaxSize
    BY HashAssumption DEF Init
  <2>3. 0 \in Tick
    BY HashAssumption DEF Tick
  <2>4. mtime \in [Inodes -> Tick] /\ ctime \in [Inodes -> Tick] /\ now \in Tick
    BY <2>3 DEF Init
  <2> QED
    BY <2>1, <2>2, <2>4 DEF Init, TypeOK
<1>2. before \in SnapshotType
  BY <1>1, SnapshotTyped DEF Init
<1>3. NoFuture /\ OpenFile /\ NothingRead
  BY HashAssumption DEF Init, NoFuture, OpenFile, Reading, NothingRead
<1> QED
  BY <1>1, <1>2, <1>3 DEF HashInv

LEMMA ReaderKeeps ==
  ASSUME HashInv,
         Lstat \/ Open \/ Fstat \/ ReadBlock \/ ReadEOF \/ FstatAgain \/ LstatAgain \/ Fails
  PROVE  HashInv'
<1> USE DEF HashInv, TypeOK, fileVars, Tick
<1>1. CASE Lstat
  <2>1. Snapshot(entry) \in SnapshotType
    BY SnapshotTyped
  <2> QED
    BY <1>1, <2>1 DEF Lstat, NoFuture, OpenFile, Reading, NothingRead
<1>2. CASE Open
  BY <1>2 DEF Open, NoFuture, OpenFile, Reading, NothingRead
<1>3. CASE Fstat
  <2>1. before.ino = fd /\ before.ctime = ctime[fd]
    BY <1>3 DEF Fstat, SameSnapshot, Snapshot
  <2>2. ctime[fd] <= now /\ ctime[fd] \in Nat /\ now \in Nat
    BY HashAssumption DEF NoFuture
  <2>3. /\ read = <<>> /\ pc' = "read" /\ racy' = (ctime[fd] = now)
        /\ UNCHANGED <<fileVars, now, fd, before, read>>
    BY <1>3 DEF Fstat, NothingRead
  <2>4. ReadSoFar'
    BY <2>3, LenProperties DEF ReadSoFar
  <2>5. before'.ino = fd' /\ before'.ctime = ctime'[fd'] /\ now' = now /\ pc' = "read"
    BY <2>1, <2>3
  <2>6. ~racy' => ctime'[fd'] < now'
    <3>1. racy' = (ctime[fd] = now) /\ ctime' = ctime /\ fd' = fd /\ now' = now
      BY <2>3
    <3>2. ~racy' => ctime[fd] # now
      BY <3>1
    <3>3. ctime[fd] # now => ctime[fd] < now
      BY <2>2
    <3> QED
      BY <3>1, <3>2, <3>3
  <2>7. OpenFile'
    BY <2>2, <2>3, <2>4, <2>5, <2>6 DEF OpenFile
  <2> QED
    BY <2>3, <2>7 DEF NoFuture, NothingRead
<1>4. CASE ReadBlock
  <2>1. /\ pc = "read" /\ Len(read) < Len(content[fd])
        /\ read' = Append(read, content[fd][Len(read) + 1])
        /\ UNCHANGED <<fileVars, now, pc, fd, before, racy>>
    BY <1>4 DEF ReadBlock
  <2>2. content[fd] \in Seq(Byte) /\ Len(content[fd]) \in Nat /\ Len(read) \in Nat
    BY LenProperties
  <2>3. content[fd][Len(read) + 1] \in Byte
    BY <2>1, <2>2, ElementOfSeq
  <2>4. /\ read' \in Seq(Byte) /\ Len(read') = Len(read) + 1
        /\ \A k \in 1 .. Len(read) : read'[k] = read[k]
        /\ read'[Len(read) + 1] = content[fd][Len(read) + 1]
    BY <2>1, <2>3, AppendProperties
  <2>5. ReadSoFar => ReadSoFar'
    BY <2>1, <2>2, <2>4 DEF ReadSoFar
  <2>6. TypeOK'
    BY <2>1, <2>2, <2>4, HashAssumption
  <2>7. OpenFile'
    BY <2>1, <2>5 DEF OpenFile, Reading
  <2> QED
    BY <2>1, <2>6, <2>7 DEF NoFuture, NothingRead
<1>5. CASE ReadEOF
  <2>1. /\ pc = "read" /\ pc' = "fstatAgain" /\ Len(read) >= Len(content[fd])
        /\ UNCHANGED <<fileVars, now, fd, before, read, racy>>
    BY <1>5 DEF ReadEOF
  <2>2. Len(content[fd]) \in Nat /\ Len(read) \in Nat
    BY LenProperties
  <2>3. ReadSoFar => ReadSoFar' /\ Len(read') = Len(content'[fd'])
    BY <2>1, <2>2 DEF ReadSoFar
  <2> QED
    BY <2>1, <2>3 DEF NoFuture, OpenFile, Reading, NothingRead
<1>6. CASE FstatAgain
  BY <1>6 DEF FstatAgain, NoFuture, OpenFile, Reading, NothingRead, ReadSoFar
<1>7. CASE LstatAgain
  BY <1>7 DEF LstatAgain, NoFuture, OpenFile, Reading, NothingRead
<1>8. CASE Fails
  BY <1>8 DEF Fails, NoFuture, OpenFile, Reading, NothingRead
<1> QED
  BY <1>1, <1>2, <1>3, <1>4, <1>5, <1>6, <1>7, <1>8

\* A change of the open file leaves a ctime later than the one that was checked.
LEMMA ChangeShows ==
  ASSUME HashInv, NEW i \in Inodes,
         ctime' = [ctime EXCEPT ![i] = now] \/ ctime' = [ctime EXCEPT ![i] = now, ![entry] = now],
         \A j \in Inodes \ {i} : content'[j] = content[j],
         i = fd => ctime'[i] = now,
         UNCHANGED <<now, readerVars>>
  PROVE  OpenFile' /\ NoFuture' /\ NothingRead'
<1> USE DEF HashInv, TypeOK, readerVars
<1>1. \A j \in Inodes : ctime'[j] \in {ctime[j], now} /\ ctime[j] \in Nat /\ now \in Nat
  BY HashAssumption DEF Tick
<1>2. ctime'[i] = now
  OBVIOUS
<1>3. NoFuture' /\ NothingRead'
  BY <1>1 DEF NoFuture, NothingRead
<1>4. OpenFile'
  <2> SUFFICES ASSUME Reading'
               PROVE  /\ before'.ino = fd'
                      /\ before'.ctime <= ctime'[fd']
                      /\ ~racy' =>
                            /\ before'.ctime < now'
                            /\ before'.ctime = ctime'[fd'] =>
                                  ReadSoFar' /\ (pc' # "read" => Len(read') = Len(content'[fd']))
    BY DEF OpenFile
  <2>1. Reading
    BY DEF Reading
  <2>2. before.ino = fd /\ before.ctime <= ctime[fd] /\ ctime[fd] <= now
    BY <2>1 DEF OpenFile, NoFuture
  <2>3. before.ctime \in Nat
    BY HashAssumption DEF SnapshotType, Tick
  <2>4. CASE fd = i
    BY <1>1, <1>2, <2>1, <2>2, <2>3, <2>4 DEF OpenFile
  <2>5. CASE fd # i
    <3>1. content'[fd] = content[fd]
      BY <2>5
    <3>2. before.ctime = ctime'[fd] /\ ~racy => before.ctime = ctime[fd]
      BY <1>1, <2>1, <2>2, <2>3 DEF OpenFile
    <3>3. UNCHANGED <<pc, fd, before, read, racy, now>>
      OBVIOUS
    <3>4. ReadSoFar => ReadSoFar'
      BY <3>1, <3>3 DEF ReadSoFar
    <3>5. before'.ino = fd' /\ before'.ctime <= ctime'[fd']
      <4>1. ctime'[fd] = ctime[fd] \/ ctime'[fd] = now
        BY <1>1
      <4>2. before.ctime <= ctime'[fd]
        BY <1>1, <2>2, <2>3, <4>1
      <4> QED
        BY <2>2, <3>3, <4>2
    <3>6. ASSUME ~racy'
          PROVE  /\ before'.ctime < now'
                 /\ before'.ctime = ctime'[fd'] =>
                       ReadSoFar' /\ (pc' # "read" => Len(read') = Len(content'[fd']))
      BY <2>1, <3>1, <3>2, <3>3, <3>4, <3>6 DEF OpenFile
    <3> QED
      BY <3>5, <3>6
  <2> QED
    BY <2>4, <2>5
<1> QED
  BY <1>3, <1>4

LEMMA WriterKeeps ==
  ASSUME HashInv, NEW i \in Inodes, Write(i) \/ Utimes(i) \/ Replace(i)
  PROVE  HashInv'
<1>1. CASE Write(i)
  <2>1. PICK c \in Content : content' = [content EXCEPT ![i] = c]
    BY <1>1 DEF Write
  <2>2. c \in Seq(Byte) /\ Len(c) <= MaxSize
    BY ContentBounded
  <2>3. /\ mtime' = [mtime EXCEPT ![i] = now] /\ ctime' = [ctime EXCEPT ![i] = now]
        /\ UNCHANGED <<entry, now, readerVars>>
    BY <1>1 DEF Write
  <2>4. TypeOK' /\ (before \in SnapshotType)'
    BY <2>1, <2>2, <2>3 DEF HashInv, TypeOK, readerVars
  <2>5. OpenFile' /\ NoFuture' /\ NothingRead'
    BY <2>1, <2>3, ChangeShows DEF HashInv, TypeOK
  <2> QED
    BY <2>4, <2>5 DEF HashInv
<1>2. CASE Utimes(i)
  <2>1. PICK t \in Tick : mtime' = [mtime EXCEPT ![i] = t]
    BY <1>2 DEF Utimes
  <2>2. ctime' = [ctime EXCEPT ![i] = now] /\ UNCHANGED <<entry, content, now, readerVars>>
    BY <1>2 DEF Utimes
  <2>3. TypeOK' /\ (before \in SnapshotType)'
    BY <2>1, <2>2 DEF HashInv, TypeOK, readerVars
  <2>4. OpenFile' /\ NoFuture' /\ NothingRead'
    BY <2>2, ChangeShows DEF HashInv, TypeOK
  <2> QED
    BY <2>3, <2>4 DEF HashInv
<1>3. CASE Replace(i)
  <2>1. /\ entry' = i /\ ctime' = [ctime EXCEPT ![i] = now, ![entry] = now]
        /\ UNCHANGED <<content, mtime, now, readerVars>>
    BY <1>3 DEF Replace
  <2>2. TypeOK' /\ (before \in SnapshotType)'
    BY <2>1 DEF HashInv, TypeOK, readerVars
  <2>3. OpenFile' /\ NoFuture' /\ NothingRead'
    BY <2>1, ChangeShows DEF HashInv, TypeOK
  <2> QED
    BY <2>2, <2>3 DEF HashInv
<1> QED
  BY <1>1, <1>2, <1>3

LEMMA TimeKeeps == ASSUME HashInv, TimePasses PROVE HashInv'
<1>1. /\ now < MaxTick /\ now' = now + 1
      /\ UNCHANGED <<entry, content, mtime, ctime, pc, fd, before, read, racy>>
  BY DEF TimePasses, fileVars, readerVars
<1>2. now \in Nat /\ \A i \in Inodes : ctime[i] \in Nat
  BY HashAssumption DEF HashInv, TypeOK, Tick
<1>3. TypeOK' /\ (before \in SnapshotType)' /\ NothingRead'
  BY <1>1, HashAssumption DEF HashInv, TypeOK, Tick, SnapshotType, NothingRead
<1>4. NoFuture'
  BY <1>1, <1>2 DEF HashInv, NoFuture
<1>5. before.ctime \in Nat
  BY HashAssumption DEF HashInv, SnapshotType, Tick
<1>6. OpenFile'
  BY <1>1, <1>2, <1>5 DEF HashInv, OpenFile, ReadSoFar, Reading
<1> QED
  BY <1>3, <1>4, <1>6 DEF HashInv

LEMMA HashStep == ASSUME HashInv, [Next]_vars PROVE HashInv'
<1>1. CASE UNCHANGED vars
  BY <1>1 DEF vars, fileVars, readerVars, HashInv, TypeOK, NoFuture, OpenFile, ReadSoFar,
     Reading, NothingRead
<1> QED
  BY <1>1, ReaderKeeps, WriterKeeps, TimeKeeps DEF Next

\* The last look finds the file that was read under its name, as it was.
LEMMA LastLook == ASSUME HashInv, [Next]_vars PROVE ReturnsOneInstant
<1> SUFFICES ASSUME pc' = "hashed", pc # "hashed", ~racy
             PROVE  read' = content'[entry']
  BY DEF ReturnsOneInstant
<1>1. LstatAgain
  BY DEF Next, vars, readerVars, Lstat, Open, Fstat, ReadBlock, ReadEOF, FstatAgain, Fails,
     Write, Utimes, Replace, TimePasses, HashInv, TypeOK
<1>2. /\ pc = "lstatAgain" /\ entry = before.ino /\ ctime[entry] = before.ctime
      /\ UNCHANGED <<fileVars, read>>
  BY <1>1 DEF LstatAgain, SameSnapshot, Snapshot
<1>3. entry = fd /\ ReadSoFar /\ Len(read) = Len(content[fd])
  BY <1>2 DEF HashInv, OpenFile, Reading
<1>4. read \in Seq(Byte) /\ content[fd] \in Seq(Byte)
  BY DEF HashInv, TypeOK
<1>5. read = content[fd]
  BY <1>3, <1>4, SeqEqual DEF ReadSoFar
<1> QED
  BY <1>2, <1>3, <1>5 DEF fileVars

\* However a file is changed, replaced or has its times set while it is hashed,
\* hashFile returns the digest of what the name stands for when it returns, if
\* the file was not changed in the tick in which it was opened.
THEOREM DigestHolds == Spec => DigestOfOneInstant
<1>1. HashInv /\ [Next]_vars => HashInv'
  BY HashStep
<1>2. HashInv /\ HashInv' /\ [Next]_vars => [TypeOK' /\ ReturnsOneInstant]_vars
  BY LastLook DEF HashInv
<1> QED
  BY HashInit, <1>1, <1>2, PTL DEF Spec, DigestOfOneInstant
(***************************************************************************)
(* The audit of a backup.                                                  *)
(***************************************************************************)
AllContent == UNION {A!ContentOf(n) : n \in A!Names}

\* TypeOK, and what it leaves open of the types.
AuditTyped ==
    /\ A!TypeOK
    /\ tree \in [A!Names -> AllContent \cup {None}]
    /\ had \in [A!Names -> SUBSET (AllContent \cup {None})]
    /\ manifest \in {Garbled, None} \/ manifest = [n \in DOMAIN manifest |-> manifest[n]]
    /\ auditPc \in {"generate", "validate", "kept", "failed", "backup", "metadata",
                    "structure", "reason", "parse", "list", "hash", "reported"}
    /\ quiet \in BOOLEAN /\ torn \in BOOLEAN
    /\ auditPc # "reported" => hashed + Cardinality(todo) <= Cardinality(A!Names)
    /\ auditPc \notin {"hash", "reported"} => hashed = 0
    /\ auditPc # "hash" => open = None
    /\ open = None => ~torn
    /\ auditPc \in {"list", "hash"} => DOMAIN expected \subseteq A!Names

\* The stage that is sealed is one that prepare has left, and what has been
\* sealed and not changed is right.
Sealing ==
    /\ auditPc \in {"generate", "validate"} =>
          unsafe = {} /\ tree[Meta] = "sealed" /\ tree[Checkpoints] = "sealed"
    /\ auditPc = "generate" => manifest \in {None, Garbled}
    /\ auditPc = "validate" => manifest = [n \in A!Files |-> tree[n]]
    /\ auditPc = "kept" => ~A!Sealable
    /\ auditPc \notin {"generate", "validate", "kept", "failed"} /\ changes = 0
          /\ tree[Meta] # "format1" => A!Truth = "ok"

\* Each file that was hashed had the content that the manifest gives it, and one
\* that was written to meanwhile either shows it or was blurred.
Witnessed ==
    /\ A!Auditing => \A n \in A!Names : tree[n] \in had[n]
    /\ auditPc # "reported" => verdict = "invalid"
    /\ auditPc = "hash" =>
          /\ todo \subseteq DOMAIN expected
          /\ \A n \in DOMAIN expected \ todo : n \notin blurred => expected[n] \in had[n]
    /\ torn => open \in stale \cup blurred

\* As long as the top directory looks the same it has the files it had, and those
\* are the ones of the manifest once the tree was listed.
TopSeen ==
    A!Auditing /\ Top \notin stale \cup blurred =>
        \A n \in A!Names \ Deep :
            /\ None \in had[n] => had[n] = {None}
            /\ auditPc = "hash" => (n \in DOMAIN expected <=> tree[n] # None)

\* What an audit during which nothing has changed has found out so far.
QuietSoFar ==
    quiet =>
        /\ stale = {} /\ ~torn
        /\ auditPc \in {"structure", "reason", "parse", "list", "hash"} =>
              Meta \notin unsafe /\ tree[Meta] \notin {None, "garbled", "format1"}
        /\ auditPc = "reason" => ~A!ValidBackupRoot
        /\ auditPc \in {"parse", "list", "hash"} => A!ValidBackupRoot
        /\ auditPc \in {"list", "hash"} => expected = manifest
        /\ auditPc = "hash" =>
              /\ todo \subseteq A!Files
              /\ \A n \in A!Files \ todo : tree[n] = manifest[n]
              /\ hashed + Cardinality(todo) = Cardinality(A!Files)

AuditInv ==
    /\ AuditTyped /\ Sealing /\ Witnessed /\ TopSeen /\ QuietSoFar
    /\ A!OkUnderWrites /\ A!QuietAuditIsTrue

\* Audit counts as this module does.
LEMMA SameCardinality == \A S : A!Cardinality(S) = Cardinality(S)
  BY DEF A!Cardinality, Cardinality

LEMMA LimitsTyped == Dirs \subseteq Nat /\ MaxEntries \in Nat /\ MaxChanges \in Nat
  BY AuditAssumption

LEMMA ConstantsApart ==
  /\ Meta \in A!Names /\ Checkpoints \in A!Names /\ Meta # Checkpoints
  /\ Top \notin A!Names /\ Sums \notin A!Names /\ None \notin A!Names /\ Top # None
  /\ \A n \in A!Names : /\ {"sealed", "other"} \subseteq A!ContentOf(n)
                        /\ A!ContentOf(n) \subseteq AllContent /\ None \notin A!ContentOf(n)
  /\ None \notin AllContent
  /\ None \notin {"sealed", "other", "format1", "undated", "garbled", "unprepared"}
  /\ \A S \in SUBSET A!Names : \A m \in [S -> AllContent] : m \notin {None, Garbled}
<1>1. Meta \in A!Names /\ Checkpoints \in A!Names /\ Meta # Checkpoints
  BY AuditAssumption DEF A!Names
<1>2. /\ A!ContentOf(Meta) = {"sealed", "other", "format1", "undated", "garbled"}
      /\ A!ContentOf(Checkpoints) = {"sealed", "other", "unprepared"}
  BY <1>1 DEF A!ContentOf
<1>3. None \notin AllContent
  BY AuditAssumption DEF AllContent
<1>4. \A S \in SUBSET A!Names : \A m \in [S -> AllContent] : m \notin {None, Garbled}
  BY AuditAssumption DEF AllContent
<1>5. \A n \in A!Names : {"sealed", "other"} \subseteq A!ContentOf(n)
  BY DEF A!ContentOf
<1>6. \A n \in A!Names : A!ContentOf(n) \subseteq AllContent
  BY DEF AllContent
<1>7. None \notin A!ContentOf(Meta) \cup A!ContentOf(Checkpoints)
  BY <1>1, <1>3, <1>6
<1>8. Top \notin A!Names /\ Sums \notin A!Names /\ None \notin A!Names /\ Top # None
  BY AuditAssumption
<1> QED
  BY <1>1, <1>2, <1>3, <1>4, <1>5, <1>6, <1>7, <1>8

LEMMA NamesFinite == IsFiniteSet(A!Names) /\ Cardinality(A!Names) \in Nat
<1>1. IsFiniteSet(Plain \cup {Meta}) /\ A!Names = (Plain \cup {Meta}) \cup {Checkpoints}
  BY AuditAssumption, FS_AddElement DEF A!Names
<1>2. IsFiniteSet(A!Names)
  BY <1>1, FS_AddElement
<1> QED
  BY <1>2, FS_CardinalityType

LEMMA Sizes ==
  ASSUME AuditTyped
  PROVE  /\ A!Files \subseteq A!Names
         /\ IsFiniteSet(A!Files) /\ IsFiniteSet(todo)
         /\ Cardinality(A!Files) \in Nat /\ Cardinality(todo) \in Nat
         /\ Cardinality(A!Files) <= Cardinality(A!Names)
         /\ dirs \in Nat
         /\ manifest # None => A!Entries = Cardinality(A!Files) + dirs + 1
         /\ manifest = None => A!Entries = Cardinality(A!Files) + dirs
<1>1. A!Files \in SUBSET A!Names /\ todo \in SUBSET A!Names /\ dirs \in Nat
  BY DEF A!Files, AuditTyped, A!TypeOK
<1>2. /\ IsFiniteSet(A!Files) /\ Cardinality(A!Files) <= Cardinality(A!Names)
      /\ IsFiniteSet(todo)
  BY <1>1, NamesFinite, FS_Subset
<1>3. Cardinality(A!Files) \in Nat /\ Cardinality(todo) \in Nat
  BY <1>2, FS_CardinalityType
<1> QED
  BY <1>1, <1>2, <1>3, SameCardinality DEF A!Entries

\* The tree can be listed if and only if it is safe and has no more entries than
\* the documentation says, when it has a manifest.
LEMMA Listable ==
  ASSUME AuditTyped
  PROVE  manifest # None =>
            (A!ListFiles <=> /\ unsafe = {} /\ A!Files \cap Refused = {}
                             /\ ~ (A!Cardinality(A!Files) + dirs > MaxEntries))
  BY Sizes, LimitsTyped, SameCardinality DEF A!ListFiles

\* So can the manifest be parsed.
LEMMA Parseable ==
  ASSUME AuditTyped, manifest \notin {None, Garbled}, Sums \notin unsafe
  PROVE  A!ParseManifest <=> ~ (\/ A!Cardinality(DOMAIN manifest) \notin 1 .. MaxEntries
                                \/ ~ (A!Bytes(DOMAIN manifest) <= MaxManifest))
<1>1. DOMAIN manifest \in SUBSET A!Names
  BY DEF AuditTyped, A!TypeOK
<1>2. IsFiniteSet(DOMAIN manifest)
  BY <1>1, NamesFinite, FS_Subset
<1>3. /\ Cardinality(DOMAIN manifest) \in Nat
      /\ Cardinality(DOMAIN manifest) = 0 <=> DOMAIN manifest = {}
  BY <1>2, FS_CardinalityType, FS_EmptySet
<1>4. A!Cardinality(DOMAIN manifest) \in 1 .. MaxEntries <=>
         DOMAIN manifest # {} /\ A!Cardinality(DOMAIN manifest) <= MaxEntries
  BY <1>3, LimitsTyped, SameCardinality
<1> QED
  BY <1>4 DEF A!ParseManifest

\* Of a valid backup whose manifest is another than its tree the truth is that
\* they do not match, and of any other valid backup that it is right.
LEMMA TruthOfValid ==
  ASSUME AuditTyped, A!ValidBackupRoot, Meta \notin unsafe, tree[Meta] # "format1"
  PROVE  A!Truth = IF \E n \in A!Files : manifest[n] # tree[n] THEN "mismatch" ELSE "ok"
<1>1. manifest \notin {None, Garbled} /\ Sums \notin unsafe /\ DOMAIN manifest = A!Files
  BY DEF A!ValidBackupRoot, A!ParseManifest, A!MatchingFileSet
<1>2. /\ unsafe = {} /\ A!Files \cap Refused = {}
      /\ ~ (A!Cardinality(A!Files) + dirs > MaxEntries)
  BY <1>1, Listable DEF A!ValidBackupRoot
<1>3. ~ (\/ A!Cardinality(DOMAIN manifest) \notin 1 .. MaxEntries
         \/ ~ (A!Bytes(DOMAIN manifest) <= MaxManifest))
  BY <1>1, Parseable DEF A!ValidBackupRoot
<1>4. /\ tree[Meta] \notin {None, "garbled", "undated", "format1"}
      /\ tree[Checkpoints] \notin {None, "unprepared"}
  BY DEF A!ValidBackupRoot, A!CheckpointRoot
<1> QED
  BY <1>1, <1>2, <1>3, <1>4 DEF A!Truth

LEMMA AuditStarts == A!Init => AuditInv
<1> SUFFICES ASSUME A!Init PROVE AuditInv
  OBVIOUS
<1>1. PICK S \in SUBSET Plain, meta \in {"sealed", "format1"} :
          /\ tree = [n \in A!Names |-> IF n = Meta THEN meta
                                     ELSE IF n \in S \cup {Checkpoints} THEN "sealed" ELSE None]
          /\ auditPc = IF meta = "sealed" THEN "generate" ELSE "backup"
  BY DEF A!Init
<1>2. /\ todo = {} /\ hashed = 0 /\ changes = 0 /\ unsafe = {} /\ dirs \in Dirs
      /\ open = None /\ torn = FALSE /\ stale = {} /\ fresh = A!Names \cup {Top}
      /\ verdict = "invalid" /\ quiet = TRUE /\ had = [n \in A!Names |-> {}]
      /\ auditPc \in {"generate", "backup"} /\ manifest \in {None, Garbled}
  BY <1>1 DEF A!Init
<1>3. \A n \in A!Names : tree[n] \in A!ContentOf(n) \cup {None}
  <2>1. {"sealed", "format1"} \subseteq A!ContentOf(Meta)
    BY ConstantsApart DEF A!ContentOf
  <2> QED
    BY <1>1, <2>1, ConstantsApart
<1>4. tree \in [A!Names -> AllContent \cup {None}]
  BY <1>1, <1>3, ConstantsApart
<1>5. Cardinality(todo) = 0 /\ hashed + Cardinality(todo) <= Cardinality(A!Names)
  BY <1>2, NamesFinite, FS_EmptySet
<1>6. A!TypeOK
  <2>1. hashed \in 0 .. A!Cardinality(A!Names) /\ changes \in 0 .. MaxChanges
    BY <1>2, NamesFinite, LimitsTyped, SameCardinality
  <2>2. stale \subseteq A!Watched /\ dirs \in Nat
    BY <1>2, LimitsTyped
  <2> QED
    BY <1>2, <1>3, <2>1, <2>2 DEF A!TypeOK, A!Verdict
<1>7. AuditTyped
  BY <1>2, <1>4, <1>5, <1>6 DEF AuditTyped
<1>8. Sealing
  <2>1. tree[Meta] = meta
    BY <1>1, ConstantsApart
  <2>2. tree[Checkpoints] = "sealed"
    BY <1>1, AuditAssumption, ConstantsApart
  <2> QED
    BY <1>1, <1>2, <2>1, <2>2 DEF Sealing
<1> QED
  BY <1>2, <1>7, <1>8
     DEF AuditInv, Witnessed, TopSeen, QuietSoFar, A!Auditing, A!OkUnderWrites,
         A!QuietAuditIsTrue, A!Reported

\* What the code makes of a tree does not change unless the tree does.
LEMMA SameTree ==
  ASSUME UNCHANGED <<tree, dirs, manifest, unsafe>>
  PROVE  /\ A!Files' = A!Files /\ A!Truth' = A!Truth
         /\ A!ValidBackupRoot' <=> A!ValidBackupRoot
         /\ A!Sealable' <=> A!Sealable
<1>1. A!Files' = A!Files
  BY DEF A!Files
<1>2. A!Entries' = A!Entries
  BY <1>1 DEF A!Entries
<1> QED
  BY <1>1, <1>2
     DEF A!Truth, A!Sealable, A!ValidBackupRoot, A!ListFiles, A!ParseManifest,
         A!MatchingFileSet, A!CheckpointRoot

\* The stage is sealed.
LEMMA RunKeeps == ASSUME AuditInv, A!Run PROVE AuditInv'
<1> USE DEF A!lookVars, A!resultVars, A!treeVars, A!historyVars
<1>1. /\ A!Files' = A!Files
      /\ UNCHANGED <<tree, dirs, unsafe, changes, open, torn, stale, expected, todo, hashed,
                     verdict, quiet, blurred, had>>
      /\ auditPc \in {"generate", "validate"}
      /\ auditPc' \in {"validate", "backup", "kept", "failed"}
      /\ fresh' \in {fresh, fresh \cup {Top}}
      /\ manifest' \in {manifest, Garbled, [n \in A!Files |-> tree[n]]}
  BY DEF A!Run, A!GenerateManifest, A!Validate, A!SealRefused, A!SealFails, A!Files
<1>2. AuditTyped'
  <2>1. \A n \in A!Files : n \in A!Names /\ tree[n] \in A!ContentOf(n)
    BY DEF A!Files, AuditInv, AuditTyped, A!TypeOK
  <2>2. A!Watched' = A!Watched
    BY <1>1 DEF A!Watched, A!Auditing
  <2>3. \/ manifest' \in {Garbled, None}
        \/ /\ DOMAIN manifest' \subseteq A!Names
           /\ \A n \in DOMAIN manifest' : manifest'[n] \in A!ContentOf(n)
    BY <1>1, <2>1 DEF AuditInv, AuditTyped, A!TypeOK
  <2>4. A!TypeOK'
    BY <1>1, <2>2, <2>3 DEF AuditInv, AuditTyped, A!TypeOK, A!Verdict
  <2>5. manifest' \in {Garbled, None} \/ manifest' = [n \in DOMAIN manifest' |-> manifest'[n]]
    BY <1>1 DEF AuditInv, AuditTyped
  <2> QED
    BY <1>1, <2>4, <2>5 DEF AuditInv, AuditTyped
<1>3. Sealing'
  <2>1. CASE A!GenerateManifest
    BY <1>1, <2>1 DEF A!GenerateManifest, AuditInv, Sealing
  <2>2. CASE A!SealFails
    BY <1>1, <2>2 DEF A!SealFails, Sealing
  <2>3. CASE A!Validate
    <3>1. /\ auditPc = "validate" /\ A!ValidBackupRoot /\ unsafe = {} /\ tree[Meta] = "sealed"
          /\ manifest = [n \in A!Files |-> tree[n]]
      BY <2>3 DEF A!Validate, AuditInv, Sealing
    <3>2. A!Truth = "ok"
      BY <3>1, TruthOfValid DEF AuditInv
    <3> QED
      BY <1>1, <2>3, <3>2, SameTree DEF A!Validate, Sealing
  <2>4. CASE A!SealRefused
    <3> SUFFICES ASSUME A!Sealable PROVE FALSE
      BY <1>1, <2>4, SameTree DEF A!SealRefused, Sealing
    <3>1. /\ Cardinality(A!Files) + dirs <= MaxEntries /\ A!Bytes(A!Files) <= MaxManifest
          /\ A!Files \cap Refused = {} /\ manifest # Garbled
          /\ unsafe = {} /\ tree[Meta] = "sealed" /\ tree[Checkpoints] = "sealed"
      BY <1>1, SameCardinality DEF A!Sealable, AuditInv, Sealing
    <3>2. A!ListFiles
      BY <3>1, Sizes, LimitsTyped DEF AuditInv, A!ListFiles
    <3>3. CASE auditPc = "generate" /\ ~A!Generates
      BY <3>1, <3>2, <3>3 DEF A!Generates, AuditInv, Sealing
    <3>4. CASE auditPc = "validate" /\ ~A!ValidBackupRoot
      <4>1. manifest = [n \in A!Files |-> tree[n]] /\ DOMAIN manifest = A!Files
        BY <3>4 DEF AuditInv, Sealing
      <4>2. A!Files \in SUBSET A!Names /\ manifest \in [A!Files -> AllContent]
        BY <4>1 DEF A!Files, AuditInv, AuditTyped
      <4>3. manifest \notin {None, Garbled}
        BY <4>2, ConstantsApart
      <4>4. Meta \in A!Files
        BY <3>1, ConstantsApart DEF A!Files
      <4>5. A!Cardinality(A!Files) <= MaxEntries
        BY <3>1, Sizes, LimitsTyped, SameCardinality DEF AuditInv
      <4>6. A!ParseManifest /\ A!MatchingFileSet(manifest)
        BY <3>1, <4>1, <4>3, <4>4, <4>5 DEF A!ParseManifest, A!MatchingFileSet
      <4> QED
        BY <3>1, <3>2, <3>4, <4>6, ConstantsApart DEF A!ValidBackupRoot, A!CheckpointRoot
    <3> QED
      BY <2>4, <3>3, <3>4 DEF A!SealRefused
  <2> QED
    BY <2>1, <2>2, <2>3, <2>4 DEF A!Run
<1> QED
  BY <1>1, <1>2, <1>3
     DEF AuditInv, Witnessed, TopSeen, QuietSoFar, A!Auditing, A!OkUnderWrites,
         A!QuietAuditIsTrue, A!Reported

\* An audit that ends may say v if that is so as far as nothing has changed.
LEMMA ReportsKeeps ==
  ASSUME AuditInv, A!Auditing, NEW v \in A!Verdict, A!Reports(v),
         quiet' \in BOOLEAN, quiet' => quiet /\ v = A!Truth,
         hashed' \in 0 .. Cardinality(A!Names),
         v = "ok" =>
            /\ quiet' => hashed' = Cardinality(A!Files)
            /\ \A n \in DOMAIN expected \ blurred : expected[n] \in had[n]
            /\ Top \notin blurred =>
                  \A n \in A!Names \ Deep : IF n \in DOMAIN expected THEN None \notin had[n]
                                                                   ELSE had[n] = {None}
  PROVE  AuditInv'
<1>1. /\ UNCHANGED <<tree, dirs, manifest, unsafe, fresh, changes, expected, todo, blurred, had>>
      /\ auditPc' = "reported" /\ verdict' = v /\ open' = None /\ torn' = FALSE /\ stale' = {}
  BY DEF A!Reports, A!treeVars
<1>2. /\ A!Files' = A!Files /\ A!Truth' = A!Truth
  BY <1>1, SameTree
<1>3. AuditTyped'
  <2>1. A!TypeOK'
    BY <1>1, <1>2, SameCardinality DEF AuditInv, AuditTyped, A!TypeOK
  <2> QED
    BY <1>1, <2>1 DEF AuditInv, AuditTyped
<1>4. A!QuietAuditIsTrue'
  BY <1>1, <1>2, SameCardinality DEF A!QuietAuditIsTrue, A!Reported
<1>5. A!OkUnderWrites'
  BY <1>1 DEF A!OkUnderWrites, A!Reported
<1>6. Sealing'
  BY <1>1, <1>2 DEF AuditInv, Sealing, A!Auditing
<1> QED
  BY <1>1, <1>3, <1>4, <1>5, <1>6
     DEF AuditInv, Witnessed, TopSeen, QuietSoFar, A!Auditing

LEMMA ConcludeKeeps ==
  ASSUME AuditInv, A!Auditing, NEW v \in A!Verdict, A!Conclude(v),
         quiet => v = A!Truth,
         v = "ok" =>
            /\ quiet => hashed = Cardinality(A!Files)
            /\ \A n \in DOMAIN expected \ blurred : expected[n] \in had[n]
            /\ Top \notin blurred =>
                  \A n \in A!Names \ Deep : IF n \in DOMAIN expected THEN None \notin had[n]
                                                                   ELSE had[n] = {None}
  PROVE  AuditInv'
<1>1. A!Reports(v) /\ hashed' = hashed /\ quiet' = quiet
  BY DEF A!Conclude
<1>2. quiet \in BOOLEAN /\ hashed \in 0 .. Cardinality(A!Names)
  BY SameCardinality DEF AuditInv, AuditTyped, A!TypeOK
<1> QED
  BY <1>1, <1>2, ReportsKeeps

\* An audit that goes on.
LEMMA ContinueKeeps ==
  ASSUME AuditInv, A!ReadMetadata \/ A!CheckStructure \/ A!ReadManifest, auditPc' # "reported"
  PROVE  AuditInv'
<1> USE DEF A!Continue, A!treeVars, A!lookVars, A!historyVars
<1>1. /\ UNCHANGED <<tree, dirs, manifest, unsafe, fresh, changes, open, torn, stale, todo,
                     hashed, verdict, quiet, blurred, had>>
      /\ auditPc \in {"metadata", "structure", "parse"}
      /\ auditPc' \in {"structure", "reason", "parse", "list"}
  BY DEF A!ReadMetadata, A!CheckStructure, A!ReadManifest, A!Conclude, A!Reports
<1>2. /\ A!Files' = A!Files /\ A!Truth' = A!Truth
      /\ A!ValidBackupRoot' <=> A!ValidBackupRoot
  BY <1>1, SameTree
<1>3. AuditTyped'
  <2>1. A!Watched' = A!Watched
    BY <1>1 DEF A!Watched, A!Auditing
  <2>2. A!TypeOK'
    BY <1>1, <1>2, <2>1 DEF AuditInv, AuditTyped, A!TypeOK
  <2>3. auditPc' = "list" => DOMAIN expected' \subseteq A!Names
    BY <1>1 DEF AuditInv, AuditTyped, A!TypeOK, A!ReadMetadata, A!CheckStructure,
                A!ReadManifest, A!ParseManifest, A!Conclude, A!Reports
  <2> QED
    BY <1>1, <2>2, <2>3 DEF AuditInv, AuditTyped
<1>4. Sealing' /\ Witnessed' /\ TopSeen'
  BY <1>1, <1>2 DEF AuditInv, Sealing, Witnessed, TopSeen, A!Auditing
<1>5. QuietSoFar'
  <2>1. CASE A!ReadMetadata
    BY <1>1, <1>2, <2>1 DEF A!ReadMetadata, A!Conclude, A!Reports, AuditInv, QuietSoFar
  <2>2. CASE A!CheckStructure
    BY <1>1, <1>2, <2>2 DEF A!CheckStructure, AuditInv, QuietSoFar
  <2>3. CASE A!ReadManifest
    BY <1>1, <1>2, <2>3 DEF A!ReadManifest, A!Conclude, A!Reports, AuditInv, QuietSoFar
  <2> QED
    BY <2>1, <2>2, <2>3
<1> QED
  BY <1>1, <1>3, <1>4, <1>5 DEF AuditInv, A!OkUnderWrites, A!QuietAuditIsTrue, A!Reported

LEMMA BoundaryKeeps == ASSUME AuditInv, A!OpenBackup \/ A!Return PROVE AuditInv'
<1> USE DEF A!OpenBackup, A!Return, A!treeVars, A!lookVars, A!resultVars
<1>1. /\ UNCHANGED <<tree, dirs, manifest, unsafe, fresh, changes>>
      /\ quiet' = TRUE /\ blurred' = {}
      /\ auditPc' \in {"metadata", "backup"} /\ auditPc \notin {"generate", "validate", "kept", "failed"}
      /\ auditPc' = "metadata" => had' = [n \in A!Names |-> {tree[n]}]
  BY DEF A!Auditing
<1>2. /\ A!Files' = A!Files /\ A!Files \subseteq A!Names /\ A!Truth' = A!Truth
  BY <1>1, SameTree DEF A!Files
<1>3. had' \in [A!Names -> SUBSET (AllContent \cup {None})]
  BY DEF AuditInv, AuditTyped
<1>4. hashed' = 0 /\ hashed' + Cardinality(todo') <= Cardinality(A!Names)
  <2>1. CASE A!OpenBackup
    BY <2>1 DEF AuditInv, AuditTyped
  <2>2. CASE A!Return
    <3>1. Cardinality(todo') = 0
      BY <2>2, FS_EmptySet
    <3>2. hashed' = 0
      BY <2>2
    <3> QED
      BY <3>1, <3>2, NamesFinite
  <2> QED
    BY <2>1, <2>2
<1>5. 0 \in 0 .. A!Cardinality(A!Names)
  BY NamesFinite, SameCardinality
<1>6. verdict' = "invalid"
  BY DEF AuditInv, Witnessed
<1>7. todo' \subseteq A!Names /\ open' = None /\ torn' = FALSE /\ stale' = {}
  <2>1. CASE A!OpenBackup
    <3>1. auditPc = "backup" /\ UNCHANGED <<todo, open, torn, stale>>
      BY <2>1
    <3>2. open = None /\ ~torn /\ torn \in BOOLEAN /\ stale = {} /\ todo \subseteq A!Names
      BY <3>1 DEF AuditInv, AuditTyped, A!TypeOK, A!Watched, A!Auditing
    <3> QED
      BY <3>1, <3>2
  <2>2. CASE A!Return
    BY <2>2
  <2> QED
    BY <2>1, <2>2
<1>8. A!TypeOK'
  BY <1>1, <1>2, <1>4, <1>5, <1>6, <1>7 DEF AuditInv, AuditTyped, A!TypeOK, A!Verdict
<1>9. AuditTyped'
  BY <1>1, <1>3, <1>4, <1>7, <1>8 DEF AuditInv, AuditTyped
<1>10. Witnessed' /\ TopSeen'
  BY <1>1, <1>6, <1>7 DEF Witnessed, TopSeen, A!Auditing
<1>11. Sealing'
  BY <1>1, <1>2 DEF AuditInv, Sealing
<1> QED
  BY <1>1, <1>7, <1>9, <1>10, <1>11
     DEF AuditInv, QuietSoFar, A!OkUnderWrites, A!QuietAuditIsTrue, A!Reported

LEMMA ListKeeps == ASSUME AuditInv, A!List, auditPc' = "hash" PROVE AuditInv'
<1> USE DEF A!List, A!Continue, A!Conclude, A!Reports, A!treeVars, A!lookVars, A!historyVars
<1>1. /\ UNCHANGED <<tree, dirs, manifest, unsafe, fresh, changes, open, torn, stale, hashed,
                     verdict, quiet, blurred, had, expected>>
      /\ auditPc = "list" /\ todo' = A!Files /\ A!MatchingFileSet(expected)
  OBVIOUS
<1>2. /\ A!Files' = A!Files /\ A!Truth' = A!Truth
      /\ A!ValidBackupRoot' <=> A!ValidBackupRoot
  BY <1>1, SameTree
<1>3. /\ hashed = 0 /\ Cardinality(todo') = Cardinality(A!Files)
      /\ open = None /\ DOMAIN expected = A!Files /\ A!Auditing
  BY <1>1 DEF AuditInv, AuditTyped, A!MatchingFileSet, A!Auditing
<1>4. AuditTyped'
  <2>1. A!Watched' = A!Watched
    BY <1>1 DEF A!Watched, A!Auditing
  <2>2. A!TypeOK'
    BY <1>1, <1>2, <1>3, <2>1, Sizes DEF AuditInv, AuditTyped, A!TypeOK
  <2> QED
    BY <1>1, <1>3, <2>2, Sizes DEF AuditInv, AuditTyped
<1>5. Sealing' /\ Witnessed'
  BY <1>1, <1>2, <1>3 DEF AuditInv, Sealing, Witnessed, A!Auditing
<1>6. TopSeen'
  BY <1>1, <1>3 DEF AuditInv, TopSeen, A!Files, A!Auditing
<1>7. QuietSoFar'
  BY <1>1, <1>2, <1>3, Sizes DEF AuditInv, QuietSoFar
<1> QED
  BY <1>1, <1>4, <1>5, <1>6, <1>7 DEF AuditInv, A!OkUnderWrites, A!QuietAuditIsTrue, A!Reported

LEMMA FindReasonKeeps == ASSUME AuditInv, A!FindReason PROVE AuditInv'
<1> DEFINE v == IF A!ParseManifest /\ A!ListFiles /\ ~A!MatchingFileSet(manifest)
                THEN "mismatch" ELSE "invalid"
<1>1. auditPc = "reason" /\ A!Conclude(v) /\ A!Auditing
  BY DEF A!FindReason, A!Auditing
<1>2. ASSUME quiet PROVE v = A!Truth
  <2>1. /\ Meta \notin unsafe /\ tree[Meta] \notin {None, "garbled", "format1"}
        /\ ~A!ValidBackupRoot
    BY <1>1, <1>2 DEF AuditInv, QuietSoFar
  <2>2. CASE manifest \in {None, Garbled}
    BY <2>1, <2>2 DEF A!Truth, A!ParseManifest
  <2>3. CASE manifest \notin {None, Garbled} /\ ~A!ListFiles
    BY <2>1, <2>3, Listable DEF A!Truth, AuditInv
  <2>4. CASE manifest \notin {None, Garbled} /\ A!ListFiles
    <3>1. /\ unsafe = {} /\ A!Files \cap Refused = {}
          /\ ~ (A!Cardinality(A!Files) + dirs > MaxEntries)
      BY <2>4, Listable DEF AuditInv
    <3>2. CASE ~A!ParseManifest
      BY <2>1, <2>4, <3>1, <3>2, Parseable DEF A!Truth, AuditInv
    <3>3. CASE A!ParseManifest
      <4>1. ~ (\/ A!Cardinality(DOMAIN manifest) \notin 1 .. MaxEntries
               \/ ~ (A!Bytes(DOMAIN manifest) <= MaxManifest))
        BY <2>4, <3>1, <3>3, Parseable DEF AuditInv
      <4>2. DOMAIN manifest = A!Files =>
               tree[Meta] = "undated" \/ tree[Checkpoints] \in {None, "unprepared"}
        BY <2>1, <2>4, <3>3 DEF A!ValidBackupRoot, A!MatchingFileSet, A!CheckpointRoot
      <4> QED
        BY <2>1, <2>4, <3>1, <3>3, <4>1, <4>2 DEF A!Truth, A!MatchingFileSet
    <3> QED
      BY <3>2, <3>3
  <2> QED
    BY <2>2, <2>3, <2>4
<1> QED
  BY <1>1, <1>2, ConcludeKeeps DEF A!Verdict

LEMMA HashStartKeeps == ASSUME AuditInv, A!HashStart PROVE AuditInv'
<1>1. auditPc = "hash" /\ open = None /\ A!Auditing
  BY DEF A!HashStart, A!Auditing
<1>2. PICK n \in todo :
          IF tree[n] = None \/ n \in unsafe THEN A!Conclude("invalid")
          ELSE /\ open' = n /\ torn' = FALSE
               /\ UNCHANGED <<tree, dirs, manifest, unsafe, fresh, changes, auditPc, stale,
                              expected, todo, hashed, verdict, quiet, blurred, had>>
  BY DEF A!HashStart, A!treeVars, A!resultVars, A!historyVars
<1>3. CASE tree[n] = None \/ n \in unsafe
  <2>1. ~quiet
    BY <1>1, <1>2, <1>3 DEF AuditInv, QuietSoFar, A!ValidBackupRoot, A!ListFiles, A!Files
  <2> QED
    BY <1>1, <1>2, <1>3, <2>1, ConcludeKeeps DEF A!Verdict
<1>4. CASE ~ (tree[n] = None \/ n \in unsafe)
  <2>1. /\ open' = n /\ torn' = FALSE
        /\ UNCHANGED <<tree, dirs, manifest, unsafe, fresh, changes, auditPc, stale, expected,
                       todo, hashed, verdict, quiet, blurred, had>>
    BY <1>2, <1>4
  <2>2. /\ A!Files' = A!Files /\ A!Truth' = A!Truth
        /\ A!ValidBackupRoot' <=> A!ValidBackupRoot
    BY <2>1, SameTree
  <2>3. A!Watched \subseteq A!Watched'
    BY <1>1, <2>1 DEF A!Watched, A!Auditing
  <2>4. n \in A!Names /\ n # None
    BY <1>2, ConstantsApart DEF AuditInv, AuditTyped, A!TypeOK
  <2>5. A!TypeOK'
    BY <1>2, <2>1, <2>2, <2>3 DEF AuditInv, AuditTyped, A!TypeOK
  <2>6. AuditTyped'
    BY <1>1, <2>1, <2>4, <2>5 DEF AuditInv, AuditTyped
  <2>7. Sealing' /\ Witnessed' /\ TopSeen' /\ QuietSoFar'
    BY <1>1, <2>1, <2>2 DEF AuditInv, Sealing, Witnessed, TopSeen, QuietSoFar, A!Auditing
  <2> QED
    BY <1>1, <2>1, <2>6, <2>7 DEF AuditInv, A!OkUnderWrites, A!QuietAuditIsTrue, A!Reported
<1> QED
  BY <1>3, <1>4

LEMMA HashEndKeeps == ASSUME AuditInv, A!HashEnd PROVE AuditInv'
<1>1. auditPc = "hash" /\ open # None /\ open \in todo /\ A!Auditing
  BY DEF A!HashEnd, A!Auditing, AuditInv, AuditTyped, A!TypeOK
<1>2. quiet => /\ A!ValidBackupRoot /\ todo \subseteq A!Files /\ expected = manifest
               /\ Meta \notin unsafe /\ tree[Meta] # "format1" /\ stale = {} /\ ~torn
  BY <1>1 DEF AuditInv, QuietSoFar
<1>3. CASE open \in stale
  BY <1>1, <1>2, <1>3, ConcludeKeeps DEF A!HashEnd, A!Verdict
<1>4. CASE open \notin stale
  <2>1. PICK digest \in A!Digest : A!Compare(digest)
    BY <1>4 DEF A!HashEnd
  <2>2. quiet => digest = tree[open]
    BY <1>2, <2>1 DEF A!Digest
  <2>3. open \in blurred \/ digest \in had[open]
    BY <1>1, <1>4, <2>1 DEF A!Digest, AuditInv, Witnessed, AuditTyped, A!TypeOK
  <2>4. /\ hashed \in Nat /\ hashed + Cardinality(todo) <= Cardinality(A!Names)
        /\ hashed' = hashed + 1
        /\ Cardinality(todo) \in Nat /\ Cardinality(A!Names) \in Nat
    BY <1>1, <2>1, NamesFinite, Sizes, SameCardinality
       DEF A!Compare, AuditInv, AuditTyped, A!TypeOK
  <2>5. /\ Cardinality(todo \ {open}) = Cardinality(todo) - 1
        /\ Cardinality(todo \ {open}) \in Nat
    <3>1. Cardinality(todo \ {open}) = Cardinality(todo) - 1 /\ IsFiniteSet(todo \ {open})
      BY <1>1, Sizes, FS_RemoveElement DEF AuditInv
    <3> QED
      BY <3>1, FS_CardinalityType
  <2>6. CASE digest # expected[open]
    <3>1. A!Reports("mismatch") /\ quiet' = quiet
      BY <2>1, <2>6 DEF A!Compare
    <3>2. quiet => A!Truth = "mismatch"
      BY <1>1, <1>2, <2>2, <2>6, TruthOfValid DEF AuditInv
    <3>3. hashed' \in 0 .. Cardinality(A!Names)
      BY <2>4, <2>5
    <3> QED
      BY <1>1, <3>1, <3>2, <3>3, ReportsKeeps DEF A!Verdict, AuditInv, AuditTyped
  <2>7. CASE digest = expected[open]
    <3>1. /\ todo' = todo \ {open} /\ open' = None /\ torn' = FALSE /\ stale' = stale \ {open}
          /\ UNCHANGED <<tree, dirs, manifest, unsafe, fresh, changes, auditPc, expected,
                         verdict, quiet, blurred, had>>
      BY <2>1, <2>7 DEF A!Compare, A!treeVars, A!historyVars
    <3>2. /\ A!Files' = A!Files /\ A!Truth' = A!Truth
          /\ A!ValidBackupRoot' <=> A!ValidBackupRoot
      BY <3>1, SameTree
    <3>3. /\ hashed' + Cardinality(todo') = hashed + Cardinality(todo)
          /\ hashed' \in 0 .. Cardinality(A!Names)
      BY <2>4, <2>5, <3>1
    <3>4. A!Watched' = A!Watched \ {open}
      BY <1>1, <3>1, ConstantsApart
         DEF A!Watched, A!Auditing, AuditInv, AuditTyped, A!TypeOK
    <3>5. AuditTyped'
      <4>1. A!TypeOK'
        BY <3>1, <3>2, <3>3, <3>4, SameCardinality DEF AuditInv, AuditTyped, A!TypeOK
      <4> QED
        BY <1>1, <2>4, <3>1, <3>3, <4>1 DEF AuditInv, AuditTyped
    <3>6. Sealing'
      BY <1>1, <3>1, <3>2 DEF AuditInv, Sealing
    <3>7. Witnessed'
      BY <1>1, <2>3, <2>7, <3>1 DEF AuditInv, Witnessed, A!Auditing
    <3>8. TopSeen'
      <4>1. open # Top
        BY <1>1, ConstantsApart DEF AuditInv, AuditTyped, A!TypeOK
      <4> QED
        BY <1>1, <3>1, <4>1 DEF AuditInv, TopSeen, A!Auditing
    <3>9. QuietSoFar'
      <4>1. quiet => hashed' + Cardinality(todo') = Cardinality(A!Files)
        BY <1>1, <3>3 DEF AuditInv, QuietSoFar
      <4>2. quiet => \A m \in A!Files \ todo' : tree[m] = manifest[m]
        BY <1>1, <1>2, <2>2, <2>7, <3>1 DEF AuditInv, QuietSoFar
      <4>3. quiet => tree[Meta] \notin {None, "garbled", "format1"}
        BY <1>1 DEF AuditInv, QuietSoFar
      <4> QED
        BY <1>1, <1>2, <3>1, <3>2, <4>1, <4>2, <4>3 DEF QuietSoFar
    <3> QED
      BY <1>1, <3>1, <3>5, <3>6, <3>7, <3>8, <3>9
         DEF AuditInv, A!OkUnderWrites, A!QuietAuditIsTrue, A!Reported
  <2> QED
    BY <2>6, <2>7
<1> QED
  BY <1>3, <1>4

LEMMA FinishKeeps == ASSUME AuditInv, A!Finish PROVE AuditInv'
<1> DEFINE v == IF Top \in stale THEN "invalid" ELSE "ok"
<1>1. auditPc = "hash" /\ todo = {} /\ A!Conclude(v) /\ A!Auditing
  BY DEF A!Finish, A!Auditing
<1>2. \A n \in DOMAIN expected \ blurred : expected[n] \in had[n]
  BY <1>1 DEF AuditInv, Witnessed
<1>3. ASSUME Top \notin stale, Top \notin blurred, NEW n \in A!Names \ Deep
      PROVE  IF n \in DOMAIN expected THEN None \notin had[n] ELSE had[n] = {None}
  <2>1. /\ None \in had[n] => had[n] = {None}
        /\ n \in DOMAIN expected <=> tree[n] # None
        /\ tree[n] \in had[n]
    BY <1>1, <1>3 DEF AuditInv, TopSeen, Witnessed
  <2> QED
    BY <2>1
<1>4. ASSUME quiet PROVE v = A!Truth /\ hashed = Cardinality(A!Files)
  <2>1. /\ A!ValidBackupRoot /\ stale = {}
        /\ Meta \notin unsafe /\ tree[Meta] # "format1"
        /\ \A n \in A!Files : tree[n] = manifest[n]
        /\ hashed + Cardinality(todo) = Cardinality(A!Files)
    BY <1>1, <1>4 DEF AuditInv, QuietSoFar
  <2>2. Cardinality(todo) = 0 /\ hashed \in Nat
    BY <1>1, NamesFinite, FS_EmptySet, SameCardinality DEF AuditInv, AuditTyped, A!TypeOK
  <2> QED
    BY <2>1, <2>2, TruthOfValid DEF AuditInv
<1> QED
  BY <1>1, <1>2, <1>3, <1>4, ConcludeKeeps DEF A!Verdict

LEMMA VerifyKeeps == ASSUME AuditInv, A!Verify PROVE AuditInv'
<1>1. CASE A!OpenBackup \/ A!Return
  BY <1>1, BoundaryKeeps
<1>2. CASE A!ReadMetadata
  <2>1. auditPc = "metadata" /\ A!Auditing
    BY <1>2 DEF A!ReadMetadata, A!Auditing
  <2>2. CASE auditPc' # "reported"
    BY <1>2, <2>2, ContinueKeeps
  <2>3. CASE Meta \in unsafe \/ tree[Meta] \in {None, "garbled"}
    <3>1. A!Conclude("invalid") /\ A!Truth = "invalid"
      BY <1>2, <2>3 DEF A!ReadMetadata, A!Truth
    <3> QED
      BY <2>1, <3>1, ConcludeKeeps DEF A!Verdict
  <2>4. CASE /\ ~ (Meta \in unsafe \/ tree[Meta] \in {None, "garbled"})
             /\ tree[Meta] = "format1"
    <3>1. A!Conclude("legacy") /\ A!Truth = "legacy"
      BY <1>2, <2>4 DEF A!ReadMetadata, A!Truth
    <3> QED
      BY <2>1, <3>1, ConcludeKeeps DEF A!Verdict
  <2> QED
    BY <1>2, <2>2, <2>3, <2>4 DEF A!ReadMetadata, A!Continue
<1>3. CASE A!CheckStructure
  BY <1>3, ContinueKeeps DEF A!CheckStructure, A!Continue
<1>4. CASE A!FindReason
  BY <1>4, FindReasonKeeps
<1>5. CASE A!ReadManifest
  <2>1. auditPc = "parse" /\ A!Auditing
    BY <1>5 DEF A!ReadManifest, A!Auditing
  <2>2. CASE A!ParseManifest
    BY <1>5, <2>2, ContinueKeeps DEF A!ReadManifest, A!Continue
  <2>3. CASE ~A!ParseManifest
    <3>1. ~quiet
      BY <2>1, <2>3 DEF AuditInv, QuietSoFar, A!ValidBackupRoot
    <3>2. A!Conclude("invalid")
      BY <1>5, <2>3 DEF A!ReadManifest
    <3> QED
      BY <2>1, <3>1, <3>2, ConcludeKeeps DEF A!Verdict
  <2> QED
    BY <2>2, <2>3
<1>6. CASE A!List
  <2>1. auditPc = "list" /\ A!Auditing
    BY <1>6 DEF A!List, A!Auditing
  <2>2. quiet => A!ListFiles /\ A!MatchingFileSet(expected)
    BY <2>1 DEF AuditInv, QuietSoFar, A!ValidBackupRoot
  <2>3. CASE ~A!ListFiles
    BY <1>6, <2>1, <2>2, <2>3, ConcludeKeeps DEF A!List, A!Verdict
  <2>4. CASE A!ListFiles /\ ~A!MatchingFileSet(expected)
    BY <1>6, <2>1, <2>2, <2>4, ConcludeKeeps DEF A!List, A!Verdict
  <2>5. CASE A!ListFiles /\ A!MatchingFileSet(expected)
    BY <1>6, <2>5, ListKeeps DEF A!List, A!Continue
  <2> QED
    BY <2>3, <2>4, <2>5
<1>7. CASE A!HashStart \/ A!HashEnd
  BY <1>7, HashStartKeeps, HashEndKeeps
<1>8. CASE A!Finish
  BY <1>8, FinishKeeps
<1>9. CASE A!CallFails
  BY <1>9, ReportsKeeps, SameCardinality
     DEF A!CallFails, A!Verdict, AuditInv, AuditTyped, A!TypeOK
<1> QED
  BY <1>1, <1>2, <1>3, <1>4, <1>5, <1>6, <1>7, <1>8, <1>9 DEF A!Verify

\* Any change that leaves a tree with a manifest: what was hashed or found out
\* before does not count as quiet any more, and every content is remembered.  A
\* file comes to the top directory or goes from it only if that is changed too.
LEMMA ChangeKeeps ==
  ASSUME AuditInv,
         NEW hidden \in SUBSET (A!Names \cup {Top}), NEW plain \in SUBSET A!Names,
         A!Change(hidden, plain),
         \A n \in A!Names : tree'[n] \in A!ContentOf(n) \cup {None},
         tree' \in [A!Names -> AllContent \cup {None}],
         \A n \in A!Names \ Deep : Top \in hidden \/ (tree'[n] = None <=> tree[n] = None),
         dirs' \in Nat,
         unsafe' \subseteq A!Files' \cup {Sums},
         \/ manifest' \in {Garbled, None}
         \/ /\ manifest' = [n \in DOMAIN manifest' |-> manifest'[n]]
            /\ DOMAIN manifest' \subseteq A!Names
            /\ \A n \in DOMAIN manifest' : manifest'[n] \in A!ContentOf(n)
  PROVE  AuditInv'
<1> USE DEF A!resultVars
<1>1. /\ UNCHANGED <<auditPc, open, expected, todo, hashed, verdict>>
      /\ auditPc \notin {"generate", "validate", "kept", "failed", "reported"}
      /\ changes < MaxChanges /\ changes' = changes + 1
      /\ quiet' = ~A!Auditing
      /\ torn' \in BOOLEAN /\ torn' = (torn \/ open \in hidden \cup plain)
      /\ fresh' = fresh \cup hidden \cup plain
      /\ blurred' = blurred \cup (A!Watched \cap hidden \cap fresh)
      /\ A!Auditing' = A!Auditing /\ A!Watched' = A!Watched
  BY DEF A!Change, A!Auditing, A!Watched, AuditInv, AuditTyped
<1>2. /\ stale \subseteq stale' /\ stale' \subseteq stale \cup A!Watched
      /\ A!Watched \cap (plain \cup (hidden \ fresh)) \subseteq stale'
  BY DEF A!Change
<1>3. changes \in Nat /\ changes' \in 0 .. MaxChanges /\ changes' # 0
  BY <1>1, LimitsTyped DEF AuditInv, AuditTyped, A!TypeOK
<1>4. A!TypeOK'
  BY <1>1, <1>2, <1>3 DEF AuditInv, AuditTyped, A!TypeOK, A!Verdict
<1>5. Sealing'
  BY <1>1, <1>3 DEF AuditInv, Sealing
<1>6. open = None => ~torn'
  BY <1>1, ConstantsApart DEF AuditInv, AuditTyped
<1>7. torn' => open \in stale' \cup blurred'
  <2>1. open # None /\ open \in hidden \cup plain => open \in A!Watched
    BY DEF A!Watched, A!Auditing, AuditInv, AuditTyped
  <2> QED
    BY <1>1, <1>2, <1>6, <2>1 DEF AuditInv, Witnessed
<1>8. CASE A!Auditing
  <2>1. had' = [n \in A!Names |-> had[n] \cup {tree'[n]}]
    BY <1>8 DEF A!Change
  <2>2. had' \in [A!Names -> SUBSET (AllContent \cup {None})]
    BY <2>1 DEF AuditInv, AuditTyped
  <2>3. AuditTyped'
    BY <1>1, <1>4, <1>6, <2>2 DEF AuditInv, AuditTyped
  <2>4. Witnessed'
    <3>1. auditPc = "hash" =>
             \A n \in DOMAIN expected \ todo : n \notin blurred' => expected[n] \in had'[n]
      <4> SUFFICES ASSUME auditPc = "hash", NEW n \in DOMAIN expected \ todo, n \notin blurred'
                   PROVE  expected[n] \in had'[n]
        OBVIOUS
      <4>1. expected[n] \in had[n]
        BY <1>1 DEF AuditInv, Witnessed
      <4>2. n \in A!Names
        BY DEF AuditInv, AuditTyped
      <4> QED
        BY <2>1, <4>1, <4>2
    <3> QED
      BY <1>1, <1>7, <2>1, <3>1 DEF AuditInv, Witnessed
  <2>5. TopSeen'
    <3> SUFFICES ASSUME Top \notin stale' \cup blurred', NEW n \in A!Names \ Deep
                 PROVE  /\ None \in had'[n] => had'[n] = {None}
                        /\ auditPc' = "hash" => (n \in DOMAIN expected' <=> tree'[n] # None)
      BY DEF TopSeen
    <3>1. Top \in A!Watched
      BY <1>8, ConstantsApart DEF A!Watched
    <3>2. Top \notin hidden /\ Top \notin stale \cup blurred
      BY <1>1, <1>2, <3>1
    <3>3. tree'[n] = None <=> tree[n] = None
      BY <3>2
    <3>4. /\ None \in had[n] => had[n] = {None}
          /\ auditPc = "hash" => (n \in DOMAIN expected <=> tree[n] # None)
          /\ tree[n] \in had[n]
      BY <1>8, <3>2 DEF AuditInv, TopSeen, Witnessed
    <3> QED
      BY <1>1, <2>1, <3>3, <3>4
  <2> QED
    BY <1>1, <1>5, <1>8, <2>3, <2>4, <2>5
       DEF AuditInv, QuietSoFar, A!OkUnderWrites, A!QuietAuditIsTrue, A!Reported
<1>9. CASE ~A!Auditing
  <2>1. auditPc = "backup" /\ had' = had
    BY <1>1, <1>9 DEF A!Change, A!Auditing
  <2>2. AuditTyped'
    BY <1>1, <1>4, <1>6, <2>1 DEF AuditInv, AuditTyped
  <2>3. stale' = {} /\ ~torn'
    BY <1>1, <1>4, <1>6, <1>9, <2>1 DEF A!TypeOK, A!Watched, AuditInv, AuditTyped
  <2>4. Witnessed' /\ TopSeen'
    BY <1>1, <1>9, <2>1, <2>3 DEF AuditInv, Witnessed, TopSeen
  <2> QED
    BY <1>1, <1>5, <2>1, <2>2, <2>3, <2>4
       DEF AuditInv, QuietSoFar, A!OkUnderWrites, A!QuietAuditIsTrue, A!Reported
<1> QED
  BY <1>8, <1>9

LEMMA OtherWriterKeeps == ASSUME AuditInv, A!OtherWriter PROVE AuditInv'
<1>1. /\ \A n \in A!Names : tree[n] \in A!ContentOf(n) \cup {None}
      /\ tree \in [A!Names -> AllContent \cup {None}]
      /\ dirs \in Nat
      /\ unsafe \subseteq A!Files \cup {Sums}
      /\ \/ manifest \in {Garbled, None}
         \/ /\ manifest = [n \in DOMAIN manifest |-> manifest[n]]
            /\ DOMAIN manifest \subseteq A!Names
            /\ \A n \in DOMAIN manifest : manifest[n] \in A!ContentOf(n)
  BY DEF AuditInv, AuditTyped, A!TypeOK
<1>2. \A n \in A!Names : None \notin A!ContentOf(n) /\ A!ContentOf(n) \subseteq AllContent
  BY ConstantsApart
<1>3. ASSUME NEW n \in A!Names, A!Overwrite(n) \/ A!Add(n)
      PROVE  AuditInv'
  <2>1. PICK c \in A!ContentOf(n) : tree' = [tree EXCEPT ![n] = c]
    BY <1>3 DEF A!Overwrite, A!Add
  <2>2. /\ \A m \in A!Names : tree'[m] \in A!ContentOf(m) \cup {None}
        /\ tree' \in [A!Names -> AllContent \cup {None}]
    BY <1>1, <1>2, <2>1
  <2>3. /\ A!Files \subseteq A!Files'
        /\ unsafe' = unsafe /\ manifest' = manifest /\ dirs' = dirs
    BY <1>1, <1>2, <1>3, <2>1 DEF A!Overwrite, A!Add, A!Files
  <2>4. CASE A!Overwrite(n)
    <3>1. \A m \in A!Names : tree'[m] = None <=> tree[m] = None
      BY <1>1, <1>2, <2>1, <2>4 DEF A!Overwrite
    <3>2. A!Change({n}, {})
      BY <2>4 DEF A!Overwrite
    <3> QED
      BY <1>1, <2>2, <2>3, <3>1, <3>2, ChangeKeeps
  <2>5. CASE A!Add(n)
    <3>1. \A m \in A!Names \ Deep : Top \in A!TopOf(n) \/ (tree'[m] = None <=> tree[m] = None)
      BY <1>1, <2>1 DEF A!TopOf
    <3>2. A!Change(A!TopOf(n), {n})
      BY <2>5 DEF A!Add
    <3>3. A!TopOf(n) \in SUBSET (A!Names \cup {Top})
      BY DEF A!TopOf
    <3> QED
      BY <1>1, <2>2, <2>3, <3>1, <3>2, <3>3, ChangeKeeps
  <2> QED
    BY <1>3, <2>4, <2>5
<1>4. ASSUME NEW n \in A!Names, A!Remove(n)
      PROVE  AuditInv'
  <2>1. /\ tree' = [tree EXCEPT ![n] = None] /\ unsafe' = unsafe \ {n} /\ manifest' = manifest
        /\ dirs' = dirs /\ A!Change(A!TopOf(n), {n})
    BY <1>4 DEF A!Remove
  <2>2. /\ \A m \in A!Names : tree'[m] \in A!ContentOf(m) \cup {None}
        /\ tree' \in [A!Names -> AllContent \cup {None}]
        /\ unsafe' \subseteq A!Files' \cup {Sums}
    BY <1>1, <2>1 DEF A!Files
  <2>3. \A m \in A!Names \ Deep : Top \in A!TopOf(n) \/ (tree'[m] = None <=> tree[m] = None)
    BY <1>1, <2>1 DEF A!TopOf
  <2>4. A!TopOf(n) \in SUBSET (A!Names \cup {Top})
    BY DEF A!TopOf
  <2> QED
    BY <1>1, <2>1, <2>2, <2>3, <2>4, ChangeKeeps
<1>5. ASSUME NEW n \in A!Names \cup {Sums}, A!Spoil(n)
      PROVE  AuditInv'
  <2>1. /\ tree' = tree /\ unsafe' = unsafe \cup {n} /\ manifest' = manifest /\ dirs' = dirs
        /\ A!Change({}, {n} \cap A!Names)
        /\ IF n = Sums THEN manifest # None ELSE tree[n] # None
    BY <1>5 DEF A!Spoil
  <2>2. unsafe' \subseteq A!Files' \cup {Sums}
    BY <1>1, <2>1 DEF A!Files
  <2> QED
    BY <1>1, <2>1, <2>2, ChangeKeeps
<1>6. CASE A!ChangeDirs
  <2>1. /\ tree' = tree /\ unsafe' = unsafe /\ manifest' = manifest /\ dirs' \in Nat
        /\ A!Change({Top}, {}) /\ A!Files' = A!Files
    BY <1>6 DEF A!ChangeDirs, A!Files
  <2> QED
    BY <1>1, <2>1, ChangeKeeps
<1>7. CASE A!Forge
  <2>1. tree' = tree /\ unsafe' \subseteq unsafe /\ dirs' = dirs /\ A!Files' = A!Files
    BY <1>7 DEF A!Forge, A!Files
  <2>2. \/ manifest' \in {Garbled, None}
        \/ /\ manifest' = [n \in DOMAIN manifest' |-> manifest'[n]]
           /\ DOMAIN manifest' \subseteq A!Names
           /\ \A n \in DOMAIN manifest' : manifest'[n] \in A!ContentOf(n)
    <3>1. CASE manifest' \in {Garbled, None, [n \in A!Files |-> tree[n]]}
      BY <1>1, <3>1 DEF A!Files
    <3>2. ASSUME manifest \notin {Garbled, None}, NEW n \in A!Names,
                 manifest' = [x \in DOMAIN manifest \ {n} |-> manifest[x]]
          PROVE  /\ manifest' = [x \in DOMAIN manifest' |-> manifest'[x]]
                 /\ DOMAIN manifest' \subseteq A!Names
                 /\ \A x \in DOMAIN manifest' : manifest'[x] \in A!ContentOf(x)
      BY <1>1, <3>2
    <3>3. ASSUME manifest \notin {Garbled, None}, NEW n \in A!Names, NEW c \in A!ContentOf(n),
                 manifest' = [x \in DOMAIN manifest \cup {n} |-> IF x = n THEN c ELSE manifest[x]]
          PROVE  /\ manifest' = [x \in DOMAIN manifest' |-> manifest'[x]]
                 /\ DOMAIN manifest' \subseteq A!Names
                 /\ \A x \in DOMAIN manifest' : manifest'[x] \in A!ContentOf(x)
      BY <1>1, <3>3
    <3> QED
      BY <1>7, <3>1, <3>2, <3>3 DEF A!Forge
  <2>3. PICK top \in {{}, {Top}} : A!Change(top, {})
    BY <1>7 DEF A!Forge
  <2>4. top \in SUBSET (A!Names \cup {Top}) /\ {} \in SUBSET A!Names
    OBVIOUS
  <2>5. unsafe' \subseteq A!Files' \cup {Sums}
    BY <1>1, <2>1
  <2> QED
    BY <1>1, <2>1, <2>2, <2>3, <2>4, <2>5, ChangeKeeps
<1> QED
  BY <1>3, <1>4, <1>5, <1>6, <1>7 DEF A!OtherWriter

LEMMA TickKeeps == ASSUME AuditInv, A!TimePasses PROVE AuditInv'
<1>1. /\ fresh' = {}
      /\ UNCHANGED <<tree, dirs, manifest, unsafe, changes, auditPc, open, torn, stale, expected,
                     todo, hashed, verdict, quiet, blurred, had>>
  BY DEF A!TimePasses, A!treeVars, A!lookVars, A!resultVars, A!historyVars
<1>2. /\ A!Files' = A!Files /\ A!Truth' = A!Truth
      /\ A!ValidBackupRoot' <=> A!ValidBackupRoot
      /\ A!Watched' = A!Watched
  BY <1>1, SameTree DEF A!Watched, A!Auditing
<1>3. AuditTyped'
  BY <1>1, <1>2 DEF AuditInv, AuditTyped, A!TypeOK
<1>4. Sealing'
  BY <1>1, <1>2, SameTree DEF AuditInv, Sealing
<1> QED
  BY <1>1, <1>2, <1>3, <1>4, SameTree
     DEF AuditInv, Witnessed, TopSeen, QuietSoFar, A!Auditing,
         A!OkUnderWrites, A!QuietAuditIsTrue, A!Reported

LEMMA AuditStep == ASSUME AuditInv, [A!Next]_auditVars PROVE AuditInv'
<1>1. CASE A!Next
  BY <1>1, RunKeeps, VerifyKeeps, OtherWriterKeeps, TickKeeps DEF A!Next
<1>2. CASE UNCHANGED auditVars
  <2>1. /\ A!Files' = A!Files /\ A!Truth' = A!Truth
        /\ A!ValidBackupRoot' <=> A!ValidBackupRoot
        /\ A!Watched' = A!Watched
    BY <1>2, SameTree DEF auditVars, A!Watched, A!Auditing
  <2>2. Sealing'
    BY <1>2, <2>1, SameTree DEF auditVars, AuditInv, Sealing
  <2>3. AuditTyped'
    BY <1>2, <2>1 DEF auditVars, AuditInv, AuditTyped, A!TypeOK
  <2> QED
    BY <1>2, <2>1, <2>2, <2>3
       DEF auditVars, AuditInv, Witnessed, TopSeen, QuietSoFar, A!Auditing,
           A!OkUnderWrites, A!QuietAuditIsTrue, A!Reported
<1> QED
  BY <1>1, <1>2

LEMMA AuditHolds == MCSpec => [](part = "audit" => AuditInv)
<1>1. MCInit => (part = "audit" => AuditInv)
  BY AuditStarts DEF MCInit
<1>2. ASSUME part = "audit" => AuditInv, [MCNext]_<<part, vars, auditVars>>
      PROVE  (part = "audit" => AuditInv)'
  BY <1>2, AuditStep DEF MCNext
<1> QED
  BY <1>1, <1>2, PTL DEF MCSpec

\* For any names, limits, lengths of lines and number of changes: an audit during
\* which nothing has changed and no call failed reports what is so.
THEOREM QuietAudit == MCSpec => []QuietAuditIsTrue
<1>1. (part = "audit" => AuditInv) => QuietAuditIsTrue
  BY DEF AuditInv, QuietAuditIsTrue
<1> QED
  BY <1>1, AuditHolds, PTL

\* For any of them: a backup that passes while it is written to had every file of
\* its manifest right at some time, and those and no others in its top directory
\* throughout, but for what was changed in the tick in which it was looked at.
THEOREM AuditUnderWrites == MCSpec => []OkUnderWrites
<1>1. (part = "audit" => AuditInv) => OkUnderWrites
  BY DEF AuditInv, OkUnderWrites
<1> QED
  BY <1>1, AuditHolds, PTL

\* For any of them: unless a call fails, a stage is kept unsealed only if it has
\* more entries, names of more bytes, or other names than can be sealed, and a
\* sealed one that is not changed passes.  The types, too.
THEOREM StagesSealed == MCSpec => []SealsWithinLimit
<1>1. (part = "audit" => AuditInv) => SealsWithinLimit
  BY DEF AuditInv, AuditTyped, Sealing, SealsWithinLimit, A!SealsWithinLimit,
         A!QuietAuditIsTrue, A!Reported
<1> QED
  BY <1>1, AuditHolds, PTL

=============================================================================

-------------------------------- MODULE HashFile --------------------------------
(***************************************************************************)
(* hashFile: one file of a backup is looked up, checked, opened and read   *)
(* to its end, and then compared with what it was, while another writer    *)
(* may overwrite, append, truncate, replace it or set its times.           *)
(*                                                                         *)
(* A file is an inode; times are those of the kernel, which gives all      *)
(* changes of one tick the same.  The digest stands for the blocks it was  *)
(* computed from.                                                          *)
(***************************************************************************)
EXTENDS Integers, Sequences, SequencesExt

CONSTANTS
    Inodes,
    Byte,      \* what a block can hold
    MaxSize,   \* blocks in a file
    MaxTick    \* bound on the clock

ASSUME HashAssumption == MaxSize \in Nat /\ MaxTick \in Nat

VARIABLES
    entry,    \* the inode that has the name
    content, mtime, ctime,  \* of each inode
    now,
    pc,
    fd,       \* the inode that is open
    before,   \* the snapshot of Lstat, which is also that of the open file
    read,     \* the blocks read so far
    racy      \* the file was changed in the very tick in which it was opened

fileVars == <<entry, content, mtime, ctime>>
readerVars == <<pc, fd, before, read, racy>>
vars == <<fileVars, now, readerVars>>

Content == BoundedSeq(Byte, MaxSize)
Tick == 0 .. MaxTick

\* What sameSnapshot looks at; the link count changes with the name.
Snapshot(i) == [ino |-> i, size |-> Len(content[i]), mtime |-> mtime[i], ctime |-> ctime[i],
                named |-> i = entry]

TypeOK ==
    /\ entry \in Inodes
    /\ content \in [Inodes -> Seq(Byte)] /\ \A i \in Inodes : Len(content[i]) <= MaxSize
    /\ mtime \in [Inodes -> Tick] /\ ctime \in [Inodes -> Tick]
    /\ now \in Tick
    /\ pc \in {"lstat", "open", "fstat", "read", "fstatAgain", "lstatAgain", "hashed", "failed"}
    /\ fd \in Inodes
    /\ read \in Seq(Byte) /\ Len(read) <= MaxSize
    /\ racy \in BOOLEAN

Init ==
    /\ entry \in Inodes
    /\ content \in [Inodes -> Content]
    /\ mtime = [i \in Inodes |-> 0] /\ ctime = mtime
    /\ now = 0
    /\ pc = "lstat"
    /\ before = Snapshot(entry) /\ fd = entry
    /\ read = <<>> /\ racy = FALSE

Ended == pc \in {"hashed", "failed"}

\* Mutant: the time of the last change of the inode is left out.
SameSnapshotMutant(a, b) ==
    a.ino = b.ino /\ a.size = b.size /\ a.mtime = b.mtime /\ a.named = b.named

SameSnapshot(a, b) == a = b

(***************************************************************************)
(* The reader.                                                             *)
(***************************************************************************)
Lstat ==
    /\ pc = "lstat"
    /\ before' = Snapshot(entry)
    /\ pc' = "open"
    /\ UNCHANGED <<fileVars, now, fd, read, racy>>

Open ==
    /\ pc = "open"
    /\ fd' = entry
    /\ pc' = "fstat"
    /\ UNCHANGED <<fileVars, now, before, read, racy>>

\* checkedFile: the file is the one that was looked up, as it was then.
Fstat ==
    /\ pc = "fstat" /\ SameSnapshot(before, Snapshot(fd))
    /\ racy' = (ctime[fd] = now)
    /\ pc' = "read"
    /\ UNCHANGED <<fileVars, now, fd, before, read>>

ReadBlock ==
    /\ pc = "read" /\ Len(read) < Len(content[fd])
    /\ read' = Append(read, content[fd][Len(read) + 1])
    /\ UNCHANGED <<fileVars, now, pc, fd, before, racy>>

ReadEOF ==
    /\ pc = "read" /\ Len(read) >= Len(content[fd])
    /\ pc' = "fstatAgain"
    /\ UNCHANGED <<fileVars, now, fd, before, read, racy>>

FstatAgain ==
    /\ pc = "fstatAgain" /\ SameSnapshot(before, Snapshot(fd))
    /\ pc' = "lstatAgain"
    /\ UNCHANGED <<fileVars, now, fd, before, read, racy>>

LstatAgain ==
    /\ pc = "lstatAgain" /\ SameSnapshot(before, Snapshot(entry))
    /\ pc' = "hashed"
    /\ UNCHANGED <<fileVars, now, fd, before, read, racy>>

\* The snapshots differ, a call fails, or the context is cancelled.
Fails ==
    /\ ~Ended
    /\ pc' = "failed"
    /\ UNCHANGED <<fileVars, now, fd, before, read, racy>>

(***************************************************************************)
(* The other writer, and the clock, until hashFile has returned.           *)
(***************************************************************************)
Write(i) ==
    /\ \E c \in Content : content' = [content EXCEPT ![i] = c]
    /\ mtime' = [mtime EXCEPT ![i] = now]
    /\ ctime' = [ctime EXCEPT ![i] = now]
    /\ UNCHANGED <<entry, now, readerVars>>

\* utimensat sets what it likes, but not the time of the change.
Utimes(i) ==
    /\ \E t \in Tick : mtime' = [mtime EXCEPT ![i] = t]
    /\ ctime' = [ctime EXCEPT ![i] = now]
    /\ UNCHANGED <<entry, content, now, readerVars>>

\* rename(2) of another file over the name.
Replace(i) ==
    /\ i # entry
    /\ entry' = i
    /\ ctime' = [ctime EXCEPT ![i] = now, ![entry] = now]
    /\ UNCHANGED <<content, mtime, now, readerVars>>

TimePasses ==
    /\ now < MaxTick
    /\ now' = now + 1
    /\ UNCHANGED <<fileVars, readerVars>>

Next ==
    \/ Lstat \/ Open \/ Fstat \/ ReadBlock \/ ReadEOF \/ FstatAgain \/ LstatAgain \/ Fails
    \/ ~Ended /\ \E i \in Inodes : Write(i) \/ Utimes(i) \/ Replace(i)
    \/ ~Ended /\ TimePasses

Spec == Init /\ [][Next]_vars

(***************************************************************************)
(* Properties.                                                             *)
(***************************************************************************)
\* The digest is that of what the name stands for when hashFile returns, not
\* of some blocks from before a change and some from after it, unless the file
\* was changed in the tick in which it was opened.
ReturnsOneInstant ==
    pc' = "hashed" /\ pc # "hashed" /\ ~racy => read' = content'[entry']

DigestOfOneInstant == [][TypeOK' /\ ReturnsOneInstant]_vars

=============================================================================

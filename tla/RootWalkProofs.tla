----------------------------- MODULE RootWalkProofs -----------------------------
(***************************************************************************)
(* What openBackupRoot has walked through was checked and is durable, for  *)
(* any number of runs and directories, any depth of the root, whatever is  *)
(* replaced and whenever the power goes.                                   *)
(***************************************************************************)
EXTENDS RootWalk, Induction, SequenceTheorems

\* What the model takes for granted of its constants.
Sensible == Top \in Inodes /\ None \notin Inodes /\ Depth \in Nat \ {0}

\* Every entry stands for an inode that has been used.
EntriesUsed ==
    /\ used \subseteq Inodes /\ good \subseteq used /\ Top \in good
    /\ entries \in [Inodes -> used \cup {None}]
    /\ onDisk \in [Inodes -> used \cup {None}]

\* What is about to be entered is what was checked.
OpenedIsChecked ==
    /\ pc \in [Runs -> PC]
    /\ seen \in [Runs -> used \cup {None}]
    /\ opened \in [Runs -> used \cup {None}]
    /\ \A r \in Runs :
          /\ pc[r] \in {"open", "compare", "sync"} => seen[r] \in good
          /\ pc[r] = "sync" => opened[r] = seen[r]

\* A walk that goes on has not reached the root yet.
TrailFits ==
    /\ trail \in [Runs -> Seq(used)]
    /\ \A r \in Runs :
          /\ Len(trail[r]) \in 1 .. Depth + 1
          /\ pc[r] # "openRoot" => Len(trail[r]) <= Depth

RootInv ==
    EntriesUsed /\ OpenedIsChecked /\ TrailFits /\ WalkedIsChecked /\ WalkedIsDurable

LEMMA RootInvSays == ASSUME Sensible, RootInv PROVE WalkInv
  BY DEF Sensible, RootInv, EntriesUsed, OpenedIsChecked, TrailFits, WalkInv, TypeOK

\* / by itself is a trail.
LEMMA AtTop ==
  ASSUME Sensible, Top \in good, good \subseteq used
  PROVE  /\ <<Top>> \in Seq(used) /\ Len(<<Top>>) = 1 /\ <<Top>>[1] = Top
         /\ 1 \in 1 .. Depth + 1 /\ 1 <= Depth
  BY DEF Sensible

LEMMA RootInit == ASSUME Sensible, Init PROVE RootInv
<1>1. EntriesUsed
  BY DEF Sensible, Init, EntriesUsed
<1>2. OpenedIsChecked
  BY DEF Init, OpenedIsChecked, PC
<1>3. trail = [r \in Runs |-> <<Top>>]
  BY DEF Init
<1>4. TrailFits /\ WalkedIsChecked /\ WalkedIsDurable
  <2>1. \A r \in Runs : trail[r] = <<Top>>
    BY <1>3
  <2>2. /\ <<Top>> \in Seq(used) /\ Len(<<Top>>) = 1 /\ <<Top>>[1] = Top /\ Top \in good
        /\ 1 \in 1 .. Depth + 1 /\ 1 <= Depth
    BY <1>1 DEF EntriesUsed, Sensible
  <2>3. TrailFits
    BY <1>3, <2>1, <2>2 DEF TrailFits
  <2>4. WalkedIsChecked /\ WalkedIsDurable
    BY <2>1, <2>2 DEF WalkedIsChecked, WalkedIsDurable
  <2> QED
    BY <2>3, <2>4
<1> QED
  BY <1>1, <1>2, <1>4 DEF RootInv

\* A trail has a first member, and as many as a natural number.
LEMMA TrailLength ==
  ASSUME RootInv, NEW r \in Runs
  PROVE  trail[r] \in Seq(used) /\ Len(trail[r]) \in Nat /\ Len(trail[r]) >= 1
<1>1. trail[r] \in Seq(used) /\ Len(trail[r]) \in 1 .. Depth + 1
  BY DEF RootInv, TrailFits
<1>2. Len(trail[r]) \in Nat
  BY <1>1, LenProperties
<1> QED
  BY <1>1, <1>2

LEMMA SeqGrows == ASSUME NEW S, NEW T, S \subseteq T PROVE Seq(S) \subseteq Seq(T)
<1> SUFFICES ASSUME NEW s \in Seq(S) PROVE s \in Seq(T)
  OBVIOUS
<1>1. Len(s) \in Nat /\ s \in [1 .. Len(s) -> S]
  BY LenProperties
<1>2. s \in [1 .. Len(s) -> T]
  BY <1>1
<1> QED
  BY <1>1, <1>2, SeqDef

\* The members of a trail have been used.
LEMMA TrailUsed ==
  ASSUME RootInv, NEW r \in Runs, NEW n \in 1 .. Len(trail[r])
  PROVE  trail[r][n] \in used
  BY ElementOfSeq DEF RootInv, TrailFits

LEMMA CwdUsed == ASSUME RootInv, NEW r \in Runs PROVE Cwd(r) \in used
<1>1. Len(trail[r]) \in 1 .. Len(trail[r])
  BY TrailLength
<1> QED
  BY <1>1, TrailUsed DEF Cwd, Last

(***************************************************************************)
(* Steps that leave the file system and the trails alone.                  *)
(***************************************************************************)
LEMMA LookKeeps ==
  ASSUME Sensible, RootInv, NEW r \in Runs,
         Begin(r) \/ Lookup(r) \/ LookAgain(r) \/ Check(r) \/ Open(r) \/ Compare(r)
  PROVE  RootInv'
<1>1. UNCHANGED <<entries, onDisk, used, good, trail>>
  BY DEF Begin, Lookup, LookAgain, Check, Open, Compare, fsVars
<1>2. entries[Cwd(r)] \in used \cup {None}
  BY CwdUsed DEF RootInv, EntriesUsed
<1>3. OpenedIsChecked'
  BY <1>1, <1>2 DEF RootInv, OpenedIsChecked, PC, Go, Begin, Lookup, LookAgain, Check, Open, Compare
<1>4. TrailFits'
  <2>1. \A q \in Runs : pc'[q] # "openRoot" => pc[q] # "openRoot" \/ q = r
    BY DEF RootInv, OpenedIsChecked, Go, Begin, Lookup, LookAgain, Check, Open, Compare
  <2>2. pc[r] # "openRoot"
    BY DEF Begin, Lookup, LookAgain, Check, Open, Compare
  <2> QED
    BY <1>1, <2>1, <2>2 DEF RootInv, TrailFits
<1>5. EntriesUsed' /\ WalkedIsChecked' /\ WalkedIsDurable'
  BY <1>1 DEF RootInv, EntriesUsed, WalkedIsChecked, WalkedIsDurable
<1> QED
  BY <1>3, <1>4, <1>5 DEF RootInv

LEMMA ReturnKeeps ==
  ASSUME Sensible, RootInv, NEW r \in Runs, Refuse(r) \/ Fails(r) \/ Again(r)
  PROVE  RootInv'
<1>1. PICK next \in {"failed", "idle"} : Return(r, next)
  BY DEF Refuse, Fails, Again
<1>2. /\ UNCHANGED <<entries, onDisk, used, good>>
      /\ pc' = [pc EXCEPT ![r] = next] /\ trail' = [trail EXCEPT ![r] = <<Top>>]
      /\ seen' = [seen EXCEPT ![r] = None] /\ opened' = [opened EXCEPT ![r] = None]
  BY <1>1 DEF Return, Go, fsVars
<1>3. EntriesUsed' /\ OpenedIsChecked'
  BY <1>2 DEF RootInv, EntriesUsed, OpenedIsChecked, PC
<1>4. TrailFits'
  BY <1>2, AtTop DEF RootInv, EntriesUsed, OpenedIsChecked, TrailFits
<1>5. WalkedIsChecked' /\ WalkedIsDurable'
  <2>1. trail'[r] = <<Top>> /\ \A q \in Runs \ {r} : trail'[q] = trail[q]
    BY <1>2 DEF RootInv, TrailFits
  <2> QED
    BY <1>2, <2>1, AtTop DEF RootInv, EntriesUsed, WalkedIsChecked, WalkedIsDurable
<1> QED
  BY <1>3, <1>4, <1>5 DEF RootInv

(***************************************************************************)
(* Steps that change the file system.                                      *)
(***************************************************************************)
\* What is put under a name is new, so no trail leads there.
LEMMA NewEntry ==
  ASSUME Sensible, RootInv, NEW d \in used, NEW i \in (Inodes \ used) \cup {None},
         entries' = [entries EXCEPT ![d] = i],
         UNCHANGED <<onDisk, trail>>
  PROVE  WalkedIsDurable'
<1> SUFFICES ASSUME NEW r \in Runs, NEW n \in 1 .. Len(trail[r]) - 1,
                    entries'[trail[r][n]] = trail[r][n + 1]
             PROVE  onDisk[trail[r][n]] = trail[r][n + 1]
  BY DEF WalkedIsDurable
<1>1. n \in 1 .. Len(trail[r]) /\ n + 1 \in 1 .. Len(trail[r])
  BY TrailLength
<1>2. trail[r][n] \in used /\ trail[r][n + 1] \in used
  BY <1>1, TrailUsed
<1>3. trail[r][n] # d
  BY <1>2 DEF RootInv, EntriesUsed, Sensible
<1>4. entries[trail[r][n]] = trail[r][n + 1]
  BY <1>2, <1>3 DEF RootInv, EntriesUsed
<1> QED
  BY <1>4 DEF RootInv, WalkedIsDurable

\* The other parts of the invariant only want inodes to be used.
LEMMA GrowKeeps ==
  ASSUME RootInv, used' \subseteq Inodes, used \subseteq used', good \subseteq good',
         good' \subseteq used', UNCHANGED <<trail, seen, opened>>,
         pc' = pc \/ \E r \in Runs : pc[r] = "missing" /\ pc' = [pc EXCEPT ![r] = "lookAgain"]
  PROVE  OpenedIsChecked' /\ TrailFits' /\ WalkedIsChecked'
<1>1. OpenedIsChecked'
  BY DEF RootInv, OpenedIsChecked, PC
<1>2. trail' \in [Runs -> Seq(used')]
  <2>1. Seq(used) \subseteq Seq(used')
    BY SeqGrows
  <2> QED
    BY <2>1 DEF RootInv, TrailFits
<1>3. TrailFits' /\ WalkedIsChecked'
  BY <1>2 DEF RootInv, TrailFits, WalkedIsChecked, OpenedIsChecked
<1> QED
  BY <1>1, <1>3

LEMMA MkdirKeeps == ASSUME Sensible, RootInv, NEW r \in Runs, Mkdir(r) PROVE RootInv'
<1>1. pc[r] = "missing" /\ pc' = [pc EXCEPT ![r] = "lookAgain"] /\ UNCHANGED <<trail, seen, opened>>
  BY DEF Mkdir, Go
<1>2. CASE UNCHANGED fsVars
  <2>1. OpenedIsChecked' /\ TrailFits' /\ WalkedIsChecked'
    BY <1>1, <1>2, GrowKeeps DEF fsVars, RootInv, EntriesUsed
  <2> QED
    BY <1>1, <1>2, <2>1 DEF fsVars, RootInv, EntriesUsed, WalkedIsDurable
<1>3. CASE ~UNCHANGED fsVars
  <2>1. PICK i \in Fresh :
          /\ entries' = [entries EXCEPT ![Cwd(r)] = i]
          /\ used' = used \cup {i} /\ good' = good \cup {i}
          /\ UNCHANGED onDisk
    BY <1>3 DEF Mkdir
  <2>2. i \in Inodes \ used /\ Cwd(r) \in used
    BY CwdUsed DEF Fresh
  <2>3. WalkedIsDurable'
    BY <1>1, <2>1, <2>2, NewEntry
  <2>4. EntriesUsed'
    BY <2>1, <2>2 DEF RootInv, EntriesUsed
  <2>5. OpenedIsChecked' /\ TrailFits' /\ WalkedIsChecked'
    BY <1>1, <2>1, <2>4, GrowKeeps DEF RootInv, EntriesUsed
  <2> QED
    BY <2>3, <2>4, <2>5 DEF RootInv
<1> QED
  BY <1>2, <1>3

\* A name that another writer has changed stands for nothing, or for a new inode.
Swapped(d, i) ==
    /\ i \in (Inodes \ used) \cup {None}
    /\ entries' = [entries EXCEPT ![d] = i]
    /\ used' = IF i = None THEN used ELSE used \cup {i}
    /\ good \subseteq good' /\ good' \subseteq used'

LEMMA SwapKeeps == ASSUME Sensible, RootInv, NEW d \in used, Swap(d) PROVE RootInv'
<1>1. UNCHANGED <<onDisk, pc, trail, seen, opened>>
  BY DEF Swap
<1>2. \E i \in Inodes \cup {None} : Swapped(d, i)
  <2>1. CASE entries' = [entries EXCEPT ![d] = None] /\ UNCHANGED <<used, good>>
    BY <2>1 DEF Swapped, RootInv, EntriesUsed
  <2>2. ASSUME NEW i \in Fresh, NEW fine \in BOOLEAN,
               entries' = [entries EXCEPT ![d] = i], used' = used \cup {i},
               good' = IF fine THEN good \cup {i} ELSE good
        PROVE  Swapped(d, i)
    BY <2>2 DEF Swapped, Fresh, Sensible, RootInv, EntriesUsed
  <2> QED
    BY <2>1, <2>2 DEF Swap, Fresh
<1>3. PICK i \in Inodes \cup {None} : Swapped(d, i)
  BY <1>2
<1>4. WalkedIsDurable'
  BY <1>1, <1>3, NewEntry DEF Swapped
<1>5. EntriesUsed'
  BY <1>1, <1>3 DEF Swapped, RootInv, EntriesUsed
<1>6. OpenedIsChecked' /\ TrailFits' /\ WalkedIsChecked'
  BY <1>1, <1>3, <1>5, GrowKeeps DEF Swapped, EntriesUsed
<1> QED
  BY <1>4, <1>5, <1>6 DEF RootInv

LEMMA WritebackKeeps == ASSUME Sensible, RootInv, NEW d \in used, Writeback(d) PROVE RootInv'
<1>1. /\ onDisk' = [onDisk EXCEPT ![d] = entries[d]]
      /\ UNCHANGED <<entries, used, good, pc, trail, seen, opened>>
  BY DEF Writeback
<1>2. WalkedIsDurable'
  <2> SUFFICES ASSUME NEW r \in Runs, NEW n \in 1 .. Len(trail[r]) - 1,
                      entries[trail[r][n]] = trail[r][n + 1]
               PROVE  onDisk'[trail[r][n]] = trail[r][n + 1]
    BY <1>1 DEF WalkedIsDurable
  <2>1. n \in 1 .. Len(trail[r])
    BY TrailLength
  <2>2. trail[r][n] \in used /\ onDisk[trail[r][n]] = trail[r][n + 1]
    BY <2>1, TrailUsed DEF RootInv, WalkedIsDurable
  <2> QED
    BY <1>1, <2>2 DEF RootInv, EntriesUsed
<1>3. EntriesUsed' /\ OpenedIsChecked' /\ TrailFits' /\ WalkedIsChecked'
  BY <1>1 DEF RootInv, EntriesUsed, OpenedIsChecked, TrailFits, WalkedIsChecked
<1> QED
  BY <1>2, <1>3 DEF RootInv

LEMMA PowerLossKeeps == ASSUME Sensible, RootInv, PowerLoss PROVE RootInv'
<1>1. EntriesUsed' /\ OpenedIsChecked'
  BY DEF PowerLoss, RootInv, EntriesUsed, OpenedIsChecked, PC
<1>2. trail' = [r \in Runs |-> <<Top>>]
  BY DEF PowerLoss
<1>3. TrailFits' /\ WalkedIsChecked' /\ WalkedIsDurable'
  <2>1. \A r \in Runs : trail'[r] = <<Top>>
    BY <1>2
  <2>2. /\ <<Top>> \in Seq(used') /\ Len(<<Top>>) = 1 /\ <<Top>>[1] = Top /\ Top \in good'
        /\ 1 \in 1 .. Depth + 1 /\ 1 <= Depth
    BY <1>1 DEF EntriesUsed, Sensible
  <2>3. TrailFits'
    BY <1>2, <2>1, <2>2 DEF TrailFits
  <2>4. WalkedIsChecked' /\ WalkedIsDurable'
    BY <2>1, <2>2 DEF WalkedIsChecked, WalkedIsDurable
  <2> QED
    BY <2>3, <2>4
<1> QED
  BY <1>1, <1>3 DEF RootInv

(***************************************************************************)
(* The step into a directory.                                              *)
(***************************************************************************)
LEMMA SyncParentKeeps == ASSUME Sensible, RootInv, NEW r \in Runs, SyncParent(r) PROVE RootInv'
<1> DEFINE len == Len(trail[r])
<1>1. /\ pc[r] = "sync"
      /\ onDisk' = [onDisk EXCEPT ![Cwd(r)] = entries[Cwd(r)]]
      /\ trail' = [trail EXCEPT ![r] = Append(trail[r], opened[r])]
      /\ seen' = [seen EXCEPT ![r] = None] /\ opened' = [opened EXCEPT ![r] = None]
      /\ pc' = [pc EXCEPT ![r] = IF len = Depth THEN "openRoot" ELSE "lookup"]
      /\ UNCHANGED <<entries, used, good>>
  BY DEF SyncParent, Descend, Go
<1>2. /\ trail[r] \in Seq(used) /\ len \in Nat /\ len >= 1 /\ len <= Depth /\ Depth \in Nat
      /\ opened[r] \in good /\ good \subseteq used
  <2>1. opened[r] \in good /\ good \subseteq used
    BY <1>1 DEF RootInv, EntriesUsed, OpenedIsChecked
  <2>2. len <= Depth /\ Depth \in Nat
    BY <1>1 DEF RootInv, TrailFits, Sensible
  <2> QED
    BY <2>1, <2>2, TrailLength
<1>3. /\ trail'[r] \in Seq(used) /\ Len(trail'[r]) = len + 1
      /\ \A n \in 1 .. len : trail'[r][n] = trail[r][n]
      /\ trail'[r][len + 1] = opened[r]
  <2>1. trail'[r] = Append(trail[r], opened[r])
    BY <1>1 DEF RootInv, TrailFits
  <2> QED
    BY <1>2, <2>1, AppendProperties
<1>4. \A q \in Runs \ {r} : trail'[q] = trail[q] /\ pc'[q] = pc[q]
  BY <1>1 DEF RootInv, TrailFits, OpenedIsChecked
<1>5. EntriesUsed'
  BY <1>1, CwdUsed DEF RootInv, EntriesUsed
<1>6. OpenedIsChecked'
  BY <1>1 DEF RootInv, OpenedIsChecked, PC
<1>7. TrailFits'
  <2>1. trail' \in [Runs -> Seq(used')]
    BY <1>1, <1>3, <1>4 DEF RootInv, TrailFits
  <2>2. pc'[r] # "openRoot" => len # Depth
    BY <1>1 DEF RootInv, OpenedIsChecked
  <2>3. Len(trail'[r]) \in 1 .. Depth + 1 /\ (pc'[r] # "openRoot" => Len(trail'[r]) <= Depth)
    <3>1. len + 1 \in 1 .. Depth + 1 /\ (len # Depth => len + 1 <= Depth)
      BY <1>2
    <3> QED
      BY <1>3, <2>2, <3>1
  <2> QED
    BY <1>4, <2>1, <2>3 DEF RootInv, TrailFits
<1>8. WalkedIsChecked'
  <2>1. \A n \in 1 .. Len(trail'[r]) : trail'[r][n] \in good
    BY <1>2, <1>3 DEF RootInv, WalkedIsChecked
  <2> QED
    <3> SUFFICES ASSUME NEW q \in Runs, NEW n \in 1 .. Len(trail'[q])
                 PROVE  trail'[q][n] \in good
      BY <1>1 DEF WalkedIsChecked
    <3>1. CASE q = r
      BY <2>1, <3>1
    <3>2. CASE q # r
      BY <1>4, <3>2 DEF RootInv, WalkedIsChecked
    <3> QED
      BY <3>1, <3>2
<1>9. \A d \in used : onDisk'[d] = IF d = Cwd(r) THEN entries[d] ELSE onDisk[d]
  BY <1>1, CwdUsed DEF RootInv, EntriesUsed
<1>10. WalkedIsDurable'
  <2> SUFFICES ASSUME NEW q \in Runs, NEW n \in 1 .. Len(trail'[q]) - 1,
                      entries[trail'[q][n]] = trail'[q][n + 1]
               PROVE  onDisk'[trail'[q][n]] = trail'[q][n + 1]
    BY <1>1 DEF WalkedIsDurable
  <2>1. CASE q = r /\ n = len
    <3>1. trail'[q][n] = Cwd(r)
      BY <1>2, <1>3, <2>1 DEF Cwd, Last
    <3> QED
      BY <1>9, <3>1, CwdUsed
  <2>2. CASE ~(q = r /\ n = len)
    <3>1. n \in 1 .. Len(trail[q]) - 1 /\ n \in 1 .. Len(trail[q])
      <4>1. CASE q = r
        BY <1>2, <1>3, <2>2, <4>1
      <4>2. CASE q # r
        <5>1. trail'[q] = trail[q] /\ Len(trail[q]) \in Nat
          BY <1>4, <4>2, TrailLength
        <5> QED
          BY <5>1
      <4> QED
        BY <4>1, <4>2
    <3>2. trail'[q][n] = trail[q][n] /\ trail'[q][n + 1] = trail[q][n + 1]
      <4>1. CASE q = r
        <5>1. n \in 1 .. len /\ n + 1 \in 1 .. len
          BY <1>2, <3>1, <4>1
        <5> QED
          BY <1>3, <4>1, <5>1
      <4>2. CASE q # r
        BY <1>4, <4>2
      <4> QED
        BY <4>1, <4>2
    <3>3. onDisk[trail[q][n]] = trail[q][n + 1] /\ trail[q][n] \in used
      BY <3>1, <3>2, TrailUsed DEF RootInv, WalkedIsDurable
    <3> QED
      BY <1>9, <3>2, <3>3
  <2> QED
    BY <2>1, <2>2
<1> QED
  BY <1>5, <1>6, <1>7, <1>8, <1>10 DEF RootInv

LEMMA RootStep == ASSUME Sensible, RootInv, [Next]_vars PROVE RootInv'
<1>1. CASE UNCHANGED vars
  BY <1>1 DEF vars, fsVars, RootInv, EntriesUsed, OpenedIsChecked, TrailFits,
     WalkedIsChecked, WalkedIsDurable
<1>2. CASE \E r \in Runs : Step(r)
  BY <1>2, LookKeeps, ReturnKeeps, MkdirKeeps, SyncParentKeeps DEF Step
<1> QED
  BY <1>1, <1>2, SwapKeeps, WritebackKeeps, PowerLossKeeps DEF Next

\* Whatever is put in the place of a component between its check and its open, a
\* run works in directories it has checked.
THEOREM WalkedChecked == ASSUME Sensible PROVE Spec => []WalkInv
<1>1. Init => RootInv
  BY RootInit
<1>2. RootInv /\ [Next]_vars => RootInv'
  BY RootStep
<1>3. RootInv => WalkInv
  BY RootInvSays
<1> QED
  BY <1>1, <1>2, <1>3, PTL DEF Spec

\* Whoever made a component and whenever runs are killed or the power goes, the
\* way a run has come is on stable storage, so a backup that is promoted there
\* does not vanish with one of its parents.
THEOREM WalkedDurable == ASSUME Sensible PROVE Spec => []WalkedIsDurable
<1>1. Init => RootInv
  BY RootInit
<1>2. RootInv /\ [Next]_vars => RootInv'
  BY RootStep
<1>3. RootInv => WalkedIsDurable
  BY DEF RootInv
<1> QED
  BY <1>1, <1>2, <1>3, PTL DEF Spec

(***************************************************************************)
(* First runs that nobody disturbs.                                        *)
(***************************************************************************)
\* The way a run has come is the one that leads to where it is, what it has found
\* on it is still there, and all of it was made by runs.
QuietInv ==
    /\ good = used
    /\ \A r \in Runs :
          /\ trail[r][1] = Top
          /\ \A n \in 1 .. Len(trail[r]) - 1 : entries[trail[r][n]] = trail[r][n + 1]
          /\ pc[r] \in {"lookAgain", "check", "open", "compare", "sync"} => entries[Cwd(r)] # None
          /\ pc[r] \in {"check", "open", "compare", "sync"} => seen[r] = entries[Cwd(r)]
          /\ pc[r] \in {"compare", "sync"} => opened[r] = entries[Cwd(r)]
    /\ NobodyIsRefused

\* The function that Path defines.
IsPath(f) ==
    f = [n \in 0 .. Depth |->
           IF n = 0 THEN Top ELSE IF f[n - 1] = None THEN None ELSE entries[f[n - 1]]]

LEMMA PathIs ==
  ASSUME Sensible, EntriesUsed
  PROVE  /\ Path[0] = Top
         /\ \A n \in 0 .. Depth : Path[n] \in used \cup {None}
         /\ \A n \in 1 .. Depth : Path[n - 1] # None => Path[n] = entries[Path[n - 1]]
<1> DEFINE V == used \cup {None}
           next == [d \in V |-> IF d = None THEN None ELSE entries[d]]
<1>1. Top \in V /\ next \in [V -> V] /\ Depth \in Nat
  BY DEF Sensible, EntriesUsed
<1>2. \A d \in V : next[d] = IF d = None THEN None ELSE entries[d]
  OBVIOUS
<1> HIDE DEF V, next
<1>3. PICK f \in [0 .. Depth -> V] :
        f[0] = Top /\ \A n \in 1 .. Depth : f[n] = next[f[n - 1]]
  <2>1. \E f \in [0 .. Depth -> V] : Stepwise(f, Top, next, Depth)
    BY <1>1, StepwiseExists
  <2> QED
    BY <2>1 DEF Stepwise
<1>4. IsPath(f)
  <2> DEFINE g == [n \in 0 .. Depth |->
                     IF n = 0 THEN Top ELSE IF f[n - 1] = None THEN None ELSE entries[f[n - 1]]]
  <2>1. ASSUME NEW n \in 0 .. Depth PROVE f[n] = g[n]
    <3>1. CASE n = 0
      BY <1>3, <3>1
    <3>2. CASE n # 0
      <4>1. n \in 1 .. Depth /\ n - 1 \in 0 .. Depth
        BY <1>1, <3>2
      <4> QED
        BY <1>2, <1>3, <3>2, <4>1
    <3> QED
      BY <3>1, <3>2
  <2>2. f = g
    BY <2>1
  <2> QED
    BY <2>2 DEF IsPath
<1>5. Path = CHOOSE h : IsPath(h)
  BY DEF Path, IsPath
<1>6. IsPath(Path)
  BY <1>4, <1>5
<1>7. \A n \in 0 .. Depth : Path[n] = IF n = 0 THEN Top
                                      ELSE IF Path[n - 1] = None THEN None ELSE entries[Path[n - 1]]
  BY <1>6, Zenon DEF IsPath
<1>8. 0 \in 0 .. Depth /\ \A n \in 1 .. Depth : n \in 0 .. Depth /\ n # 0 /\ n - 1 \in 0 .. Depth
  BY <1>1
<1>9. Path[0] = Top /\ \A n \in 1 .. Depth : Path[n - 1] # None => Path[n] = entries[Path[n - 1]]
  BY <1>7, <1>8
<1>10. \A n \in 0 .. Depth : Path[n] \in V
  <2> DEFINE S == {n \in Nat : n \in 0 .. Depth => Path[n] \in V}
  <2>1. 0 \in S
    BY <1>1, <1>9
  <2>2. ASSUME NEW n \in Nat, n \in S PROVE n + 1 \in S
    <3> SUFFICES ASSUME n + 1 \in 0 .. Depth PROVE Path[n + 1] \in V
      OBVIOUS
    <3>1. n \in 0 .. Depth /\ (n + 1) - 1 = n /\ n + 1 # 0
      BY <1>1
    <3>2. Path[n] \in V /\ Path[n + 1] = IF Path[n] = None THEN None ELSE entries[Path[n]]
      BY <1>7, <2>2, <3>1
    <3> QED
      BY <3>2 DEF V, EntriesUsed
  <2>3. Nat \subseteq S
    <3> HIDE DEF S
    <3> QED
      BY <2>1, <2>2, SetInduction
  <2> QED
    BY <1>1, <2>3
<1> QED
  BY <1>9, <1>10 DEF V

\* The walk by pathnames leads along the trail.
LEMMA PathIsTrail ==
  ASSUME Sensible, RootInv, QuietInv, NEW r \in Runs
  PROVE  \A n \in 0 .. Len(trail[r]) - 1 : n <= Depth => Path[n] = trail[r][n + 1]
<1> DEFINE len == Len(trail[r])
           S == {n \in Nat : n \in 0 .. len - 1 /\ n <= Depth => Path[n] = trail[r][n + 1]}
<1>1. len \in Nat /\ len >= 1 /\ Depth \in Nat /\ EntriesUsed
  BY TrailLength DEF Sensible, RootInv
<1>2. 0 \in S
  <2>1. Path[0] = Top /\ trail[r][1] = Top
    BY <1>1, PathIs DEF QuietInv
  <2> QED
    BY <2>1
<1>3. ASSUME NEW n \in Nat, n \in S PROVE n + 1 \in S
  <2> SUFFICES ASSUME n + 1 \in 0 .. len - 1, n + 1 <= Depth PROVE Path[n + 1] = trail[r][n + 2]
    OBVIOUS
  <2>1. n \in 0 .. len - 1 /\ n <= Depth /\ n + 1 \in 1 .. len - 1 /\ n + 1 \in 1 .. len
        /\ n + 1 \in 1 .. Depth /\ (n + 1) - 1 = n /\ (n + 1) + 1 = n + 2
    BY <1>1
  <2>2. Path[n] = trail[r][n + 1]
    BY <1>3, <2>1
  <2>3. trail[r][n + 1] \in used /\ None \notin used
    BY <1>1, <2>1, TrailUsed DEF EntriesUsed, Sensible
  <2>4. Path[n + 1] = entries[Path[n]]
    BY <1>1, <2>1, <2>2, <2>3, PathIs
  <2>5. entries[trail[r][n + 1]] = trail[r][n + 2]
    BY <2>1 DEF QuietInv
  <2> QED
    BY <2>2, <2>4, <2>5
<1>4. Nat \subseteq S
  <2> HIDE DEF S
  <2> QED
    BY <1>2, <1>3, SetInduction
<1> QED
  BY <1>1, <1>4

\* So there is nothing to refuse.
LEMMA NothingRefused ==
  ASSUME Sensible, RootInv, QuietInv, NEW r \in Runs
  PROVE  ~Refuse(r)
<1>1. EntriesUsed /\ OpenedIsChecked /\ Depth \in Nat /\ good = used /\ None \notin used
  BY DEF Sensible, RootInv, QuietInv, EntriesUsed
<1>2. BackupRootFine
  BY <1>1, PathIs DEF BackupRootFine
<1>3. pc[r] = "missing" => ControlledParents(r)
  <2> SUFFICES ASSUME pc[r] = "missing", NEW n \in 1 .. Len(trail[r]) - 1
               PROVE  Path[n] \in good
    BY DEF ControlledParents
  <2>1. Len(trail[r]) \in Nat /\ Len(trail[r]) <= Depth
    BY TrailLength DEF RootInv, TrailFits
  <2>2. n \in 0 .. Len(trail[r]) - 1 /\ n <= Depth /\ n + 1 \in 1 .. Len(trail[r])
    BY <1>1, <2>1
  <2> QED
    BY <1>1, <2>2, PathIsTrail, TrailUsed
<1>4. entries[Cwd(r)] \in used \cup {None}
  BY <1>1, CwdUsed DEF EntriesUsed
<1> QED
  BY <1>1, <1>2, <1>3, <1>4 DEF Refuse, QuietInv

\* Names that runs have gone through stay.
LEMMA QuietStay ==
  ASSUME Sensible, RootInv, QuietInv,
         \A d \in used : entries[d] # None => entries'[d] = entries[d],
         UNCHANGED trail, good' = used',
         NEW r \in Runs
  PROVE  /\ trail'[r][1] = Top
         /\ \A n \in 1 .. Len(trail'[r]) - 1 : entries'[trail'[r][n]] = trail'[r][n + 1]
         /\ Cwd(r)' = Cwd(r)
         /\ entries[Cwd(r)] # None => entries'[Cwd(r)] = entries[Cwd(r)]
<1>1. None \notin used
  BY DEF Sensible, RootInv, EntriesUsed
<1>2. Cwd(r)' = Cwd(r) /\ Cwd(r) \in used
  BY CwdUsed DEF Cwd, Last
<1>3. ASSUME NEW n \in 1 .. Len(trail[r]) - 1 PROVE entries'[trail[r][n]] = trail[r][n + 1]
  <2>1. n \in 1 .. Len(trail[r]) /\ n + 1 \in 1 .. Len(trail[r])
    BY TrailLength
  <2>2. trail[r][n] \in used /\ trail[r][n + 1] \in used /\ entries[trail[r][n]] = trail[r][n + 1]
    BY <2>1, TrailUsed DEF QuietInv
  <2> QED
    BY <1>1, <2>2
<1> QED
  BY <1>2, <1>3 DEF QuietInv

LEMMA QuietLooks ==
  ASSUME Sensible, RootInv, QuietInv, NEW r \in Runs,
         Begin(r) \/ Lookup(r) \/ LookAgain(r) \/ Check(r) \/ Open(r) \/ Compare(r)
  PROVE  QuietInv'
<1>1. UNCHANGED <<entries, onDisk, used, good, trail>>
  BY DEF Begin, Lookup, LookAgain, Check, Open, Compare, fsVars
<1>2. pc \in [Runs -> PC] /\ seen \in [Runs -> used \cup {None}] /\ opened \in [Runs -> used \cup {None}]
  BY DEF RootInv, OpenedIsChecked
<1>3. \A q \in Runs : Cwd(q)' = Cwd(q)
  BY <1>1 DEF Cwd, Last
<1>4. \A q \in Runs \ {r} : pc'[q] = pc[q] /\ seen'[q] = seen[q] /\ opened'[q] = opened[q]
  BY <1>2 DEF Go, Begin, Lookup, LookAgain, Check, Open, Compare
<1>5. /\ pc'[r] # "failed"
      /\ pc'[r] \in {"lookAgain", "check", "open", "compare", "sync"} => entries[Cwd(r)] # None
      /\ pc'[r] \in {"check", "open", "compare", "sync"} => seen'[r] = entries[Cwd(r)]
      /\ pc'[r] \in {"compare", "sync"} => opened'[r] = entries[Cwd(r)]
  BY <1>2 DEF QuietInv, NobodyIsRefused, Go, Begin, Lookup, LookAgain, Check, Open, Compare
<1> QED
  BY <1>1, <1>3, <1>4, <1>5 DEF QuietInv, NobodyIsRefused

LEMMA QuietReturns ==
  ASSUME Sensible, RootInv, QuietInv, NEW r \in Runs, Again(r)
  PROVE  QuietInv'
<1>1. /\ UNCHANGED <<entries, onDisk, used, good>>
      /\ pc' = [pc EXCEPT ![r] = "idle"] /\ trail' = [trail EXCEPT ![r] = <<Top>>]
      /\ seen' = [seen EXCEPT ![r] = None] /\ opened' = [opened EXCEPT ![r] = None]
  BY DEF Again, Return, Go, fsVars
<1>2. /\ pc \in [Runs -> PC] /\ seen \in [Runs -> used \cup {None}]
      /\ opened \in [Runs -> used \cup {None}] /\ trail \in [Runs -> Seq(used)]
  BY DEF RootInv, OpenedIsChecked, TrailFits
<1>3. \A q \in Runs \ {r} : /\ pc'[q] = pc[q] /\ seen'[q] = seen[q] /\ opened'[q] = opened[q]
                            /\ trail'[q] = trail[q] /\ Cwd(q)' = Cwd(q)
  BY <1>1, <1>2 DEF Cwd, Last
<1>4. pc'[r] = "idle" /\ trail'[r] = <<Top>>
  BY <1>1, <1>2
<1>5. Len(trail'[r]) = 1 /\ trail'[r][1] = Top /\ 1 .. Len(trail'[r]) - 1 = {}
  BY <1>4
<1> QED
  BY <1>1, <1>3, <1>4, <1>5 DEF QuietInv, NobodyIsRefused

LEMMA QuietMkdir ==
  ASSUME Sensible, RootInv, QuietInv, NEW r \in Runs, Mkdir(r)
  PROVE  QuietInv'
<1>1. /\ pc' = [pc EXCEPT ![r] = "lookAgain"] /\ UNCHANGED <<trail, seen, opened>>
      /\ pc[r] = "missing" /\ pc \in [Runs -> PC]
      /\ Cwd(r) \in used /\ entries \in [Inodes -> used \cup {None}] /\ used \subseteq Inodes
      /\ None \notin Inodes
  BY CwdUsed DEF Mkdir, Go, Sensible, RootInv, OpenedIsChecked, EntriesUsed
<1>2. /\ \A d \in used : entries[d] # None => entries'[d] = entries[d]
      /\ good' = used' /\ entries'[Cwd(r)] # None
  <2>1. CASE entries[Cwd(r)] # None /\ UNCHANGED fsVars
    BY <2>1 DEF fsVars, QuietInv
  <2>2. CASE ~(entries[Cwd(r)] # None /\ UNCHANGED fsVars)
    <3>1. PICK i \in Fresh :
             /\ entries[Cwd(r)] = None
             /\ entries' = [entries EXCEPT ![Cwd(r)] = i]
             /\ used' = used \cup {i} /\ good' = good \cup {i}
      BY <2>2 DEF Mkdir
    <3>2. i \in Inodes
      BY DEF Fresh
    <3> QED
      BY <1>1, <3>1, <3>2 DEF QuietInv
  <2> QED
    BY <2>1, <2>2
<1>3. \A q \in Runs : /\ trail'[q][1] = Top /\ Cwd(q)' = Cwd(q)
                      /\ \A n \in 1 .. Len(trail'[q]) - 1 : entries'[trail'[q][n]] = trail'[q][n + 1]
                      /\ entries[Cwd(q)] # None => entries'[Cwd(q)] = entries[Cwd(q)]
  BY <1>1, <1>2, QuietStay
<1>4. \A q \in Runs \ {r} : pc'[q] = pc[q]
  BY <1>1
<1>5. pc'[r] = "lookAgain"
  BY <1>1
<1> QED
  BY <1>1, <1>2, <1>3, <1>4, <1>5 DEF QuietInv, NobodyIsRefused

LEMMA QuietSyncs ==
  ASSUME Sensible, RootInv, QuietInv, NEW r \in Runs, SyncParent(r)
  PROVE  QuietInv'
<1> DEFINE len == Len(trail[r])
<1>1. /\ pc[r] = "sync"
      /\ trail' = [trail EXCEPT ![r] = Append(trail[r], opened[r])]
      /\ seen' = [seen EXCEPT ![r] = None] /\ opened' = [opened EXCEPT ![r] = None]
      /\ pc' = [pc EXCEPT ![r] = IF len = Depth THEN "openRoot" ELSE "lookup"]
      /\ UNCHANGED <<entries, used, good>>
  BY DEF SyncParent, Descend, Go
<1>2. /\ pc \in [Runs -> PC] /\ seen \in [Runs -> used \cup {None}]
      /\ opened \in [Runs -> used \cup {None}] /\ trail \in [Runs -> Seq(used)]
  BY DEF RootInv, OpenedIsChecked, TrailFits
<1>3. \A q \in Runs \ {r} : /\ pc'[q] = pc[q] /\ seen'[q] = seen[q] /\ opened'[q] = opened[q]
                            /\ trail'[q] = trail[q] /\ Cwd(q)' = Cwd(q)
  BY <1>1, <1>2 DEF Cwd, Last
<1>4. pc'[r] \in {"openRoot", "lookup"} /\ trail'[r] = Append(trail[r], opened[r])
  BY <1>1, <1>2
<1>5. trail[r] \in Seq(used) /\ len \in Nat /\ len >= 1 /\ opened[r] \in used
      /\ opened[r] = entries[Cwd(r)] /\ Cwd(r) = trail[r][len]
  <2>1. opened[r] \in good /\ good \subseteq used
    BY <1>1 DEF RootInv, EntriesUsed, OpenedIsChecked
  <2>2. Cwd(r) = trail[r][len]
    BY DEF Cwd, Last
  <2> QED
    BY <1>1, <2>1, <2>2, TrailLength DEF QuietInv
<1>6. /\ Len(trail'[r]) = len + 1 /\ trail'[r][len + 1] = opened[r]
      /\ \A n \in 1 .. len : trail'[r][n] = trail[r][n]
  BY <1>4, <1>5, AppendProperties
<1> HIDE DEF len
<1>7. trail'[r][1] = Top
  BY <1>5, <1>6 DEF QuietInv
<1>8. ASSUME NEW n \in 1 .. Len(trail'[r]) - 1
      PROVE  entries[trail'[r][n]] = trail'[r][n + 1]
  <2>1. CASE n = len
    BY <1>5, <1>6, <2>1
  <2>2. CASE n # len
    <3>1. n \in 1 .. len - 1 /\ n \in 1 .. len /\ n + 1 \in 1 .. len
      BY <1>5, <1>6, <2>2
    <3>2. entries[trail[r][n]] = trail[r][n + 1]
      BY <3>1 DEF QuietInv, len
    <3> QED
      BY <1>6, <3>1, <3>2
  <2> QED
    BY <2>1, <2>2
<1>9. ASSUME NEW q \in Runs
      PROVE  /\ pc'[q] # "failed" /\ trail'[q][1] = Top
             /\ \A n \in 1 .. Len(trail'[q]) - 1 : entries'[trail'[q][n]] = trail'[q][n + 1]
             /\ pc'[q] \in {"lookAgain", "check", "open", "compare", "sync"}
                  => entries'[Cwd(q)'] # None
             /\ pc'[q] \in {"check", "open", "compare", "sync"} => seen'[q] = entries'[Cwd(q)']
             /\ pc'[q] \in {"compare", "sync"} => opened'[q] = entries'[Cwd(q)']
  <2>1. CASE q = r
    BY <1>1, <1>4, <1>7, <1>8, <2>1
  <2>2. CASE q # r
    BY <1>1, <1>3, <2>2 DEF QuietInv, NobodyIsRefused
  <2> QED
    BY <2>1, <2>2
<1> QED
  BY <1>1, <1>9 DEF QuietInv, NobodyIsRefused

LEMMA OnlyTop == <<Top>>[1] = Top /\ 1 .. Len(<<Top>>) - 1 = {}
<1>1. Len(<<Top>>) = 1 /\ <<Top>>[1] = Top
  OBVIOUS
<1>2. 1 .. 1 - 1 = {}
  OBVIOUS
<1> QED
  BY <1>1, <1>2

LEMMA QuietPowerLoss ==
  ASSUME Sensible, RootInv, QuietInv, PowerLoss
  PROVE  QuietInv'
<1>1. pc' = [r \in Runs |-> "idle"] /\ trail' = [r \in Runs |-> <<Top>>] /\ UNCHANGED <<used, good>>
  BY DEF PowerLoss
<1>2. \A r \in Runs : pc'[r] = "idle" /\ trail'[r] = <<Top>>
  BY <1>1
<1>3. \A r \in Runs : trail'[r][1] = Top /\ 1 .. Len(trail'[r]) - 1 = {}
  BY <1>2, OnlyTop
<1> QED
  BY <1>1, <1>2, <1>3 DEF QuietInv, NobodyIsRefused

LEMMA QuietInit == ASSUME Sensible, Init PROVE QuietInv
<1>1. pc = [r \in Runs |-> "idle"] /\ trail = [r \in Runs |-> <<Top>>] /\ good = used
  BY DEF Init
<1>2. \A r \in Runs : pc[r] = "idle" /\ trail[r] = <<Top>>
  BY <1>1
<1>3. \A r \in Runs : trail[r][1] = Top /\ 1 .. Len(trail[r]) - 1 = {}
  BY <1>2, OnlyTop
<1> QED
  BY <1>1, <1>2, <1>3 DEF QuietInv, NobodyIsRefused

LEMMA QuietStep ==
  ASSUME Sensible, ~Hostile, RootInv, QuietInv, [Next]_vars
  PROVE  QuietInv'
<1>1. ASSUME NEW r \in Runs, Step(r) PROVE QuietInv'
  <2>1. ~Refuse(r) /\ ~Fails(r)
    BY NothingRefused DEF Fails
  <2> QED
    BY <1>1, <2>1, QuietLooks, QuietMkdir, QuietSyncs, QuietReturns DEF Step
<1>2. ASSUME NEW d \in used, Swap(d) \/ Writeback(d) PROVE QuietInv'
  <2>1. UNCHANGED <<entries, used, good, pc, trail, seen, opened>>
    BY <1>2 DEF Swap, Writeback
  <2> QED
    BY <2>1 DEF QuietInv, NobodyIsRefused, Cwd, Last
<1>3. CASE PowerLoss
  BY <1>3, QuietPowerLoss
<1>4. CASE UNCHANGED vars
  BY <1>4 DEF vars, fsVars, QuietInv, NobodyIsRefused, Cwd, Last
<1> QED
  BY <1>1, <1>2, <1>3, <1>4 DEF Next

\* First runs that start together do not stop each other, however many they are,
\* however deep the root lies and whenever the power goes: Mkdir takes what another
\* one has made, and every check finds what that one has left.
THEOREM NobodyRefused == ASSUME Sensible, ~Hostile PROVE Spec => []NobodyIsRefused
<1>1. Init => RootInv /\ QuietInv
  BY RootInit, QuietInit
<1>2. RootInv /\ QuietInv /\ [Next]_vars => RootInv' /\ QuietInv'
  BY RootStep, QuietStep
<1>3. QuietInv => NobodyIsRefused
  BY DEF QuietInv
<1> QED
  BY <1>1, <1>2, <1>3, PTL DEF Spec

=============================================================================

------------------------------ MODULE OutputProofs ------------------------------
(***************************************************************************)
(* The output of xtrabackup, for every length of what is written: the ring *)
(* of the command log is a ring, and reads as the tail of the stream; the  *)
(* events of --verbose are the lines of the streams within their budget;   *)
(* and the failure log is always that of one run.                          *)
(***************************************************************************)
EXTENDS MCOutput, Induction, SequenceTheorems, FiniteSetTheorems

(***************************************************************************)
(* The ring.  Arithmetic is kept in lemmas of its own, on numbers alone:   *)
(* Remain, Place and Turn say how many bytes are left, where the k-th of   *)
(* them is, and which byte a slot gets.                                    *)
(***************************************************************************)
\* The % of Write, on the numbers it meets.
LEMMA WrapsAtTheEnd ==
    ASSUME NEW n \in 0 .. MaxLog
    PROVE  n % MaxLog = IF n = MaxLog THEN 0 ELSE n
  BY MaxLogAssumption

\* WriteAt leaves a file of bytes.
LEMMA PutType ==
    ASSUME NEW d \in [Slots -> Byte], NEW at \in Nat, NEW bytes \in Seq(Byte)
    PROVE  Put(d, at, bytes) \in [Slots -> Byte]
  <1> SUFFICES ASSUME NEW i \in Slots, at <= i, i < at + Len(bytes)
               PROVE  bytes[i - at + 1] \in Byte
    BY DEF Put
  <1>1. i - at + 1 \in 1 .. Len(bytes)
    BY MaxLogAssumption DEF Slots
  <1> QED
    BY <1>1

\* Slicing a piece in two.
LEMMA Parts ==
    ASSUME NEW p \in Seq(Byte), NEW n \in 0 .. Len(p)
    PROVE  /\ First(p, n) \in Seq(Byte) /\ Len(First(p, n)) = n
           /\ \A i \in 1 .. n : First(p, n)[i] = p[i]
           /\ After(p, n) \in Seq(Byte) /\ Len(After(p, n)) = Len(p) - n
           /\ \A i \in 1 .. Len(p) - n : After(p, n)[i] = p[n + i]
  BY DEF First, After

\* How many bytes remain of l old and m new ones.
Remain(l, m) == IF l + m < MaxLog THEN l + m ELSE MaxLog

\* As many bytes remain as fit, the newest ones.
LEMMA RemainIs ==
    ASSUME NEW l \in Nat, NEW m \in Nat
    PROVE  /\ Remain(l, m) \in 0 .. MaxLog
           /\ l + m - Remain(l, m) \in 0 .. l + m
           /\ l + m - Remain(l, m) = IF l + m > MaxLog THEN l + m - MaxLog ELSE 0
           /\ l + m - (l + m - Remain(l, m)) = Remain(l, m)
           /\ \A k \in 1 .. Remain(l, m) :
                 /\ (l + m - Remain(l, m)) + k \in 1 .. l + m
                 /\ (l + m - Remain(l, m)) + k - l = m - Remain(l, m) + k
  BY MaxLogAssumption DEF Remain

\* The newest bytes of one sequence.
LEMMA NewestOf ==
    ASSUME NEW w \in Seq(Byte), NEW n \in 0 .. Len(w)
    PROVE  n = (IF Len(w) > MaxLog THEN Len(w) - MaxLog ELSE 0) =>
           /\ T!Newest(w) \in Seq(Byte) /\ Len(T!Newest(w)) = Len(w) - n
           /\ \A k \in 1 .. Len(w) - n : T!Newest(w)[k] = w[n + k]
  <1>1. ASSUME n = IF Len(w) > MaxLog THEN Len(w) - MaxLog ELSE 0
        PROVE  T!Newest(w) = After(w, n)
    BY <1>1 DEF T!Newest, T!After, After
  <1>2. /\ After(w, n) \in Seq(Byte) /\ Len(After(w, n)) = Len(w) - n
        /\ \A k \in 1 .. Len(w) - n : After(w, n)[k] = w[n + k]
    BY Parts
  <1> QED
    BY <1>1, <1>2

\* t is what remains of s, of length l, and p, of length m.
IsNewest(t, s, p, l, m) ==
    /\ t \in Seq(Byte)
    /\ Len(t) = Remain(l, m)
    /\ \A k \in 1 .. Remain(l, m) :
          t[k] = IF l + m - Remain(l, m) + k <= l
                 THEN s[l + m - Remain(l, m) + k] ELSE p[m - Remain(l, m) + k]

LEMMA NewestIs ==
    ASSUME NEW s, NEW p, NEW l \in Nat, NEW m \in Nat
    PROVE  s \in Seq(Byte) /\ p \in Seq(Byte) /\ l = Len(s) /\ m = Len(p)
              => IsNewest(T!Newest(s \o p), s, p, l, m)
  <1>1. SUFFICES ASSUME s \in Seq(Byte) /\ p \in Seq(Byte) /\ l = Len(s) /\ m = Len(p)
        PROVE  /\ T!Newest(s \o p) \in Seq(Byte)
               /\ Len(T!Newest(s \o p)) = Remain(l, m)
               /\ \A k \in 1 .. Remain(l, m) : T!Newest(s \o p)[k] =
                     IF l + m - Remain(l, m) + k <= l
                     THEN s[l + m - Remain(l, m) + k] ELSE p[m - Remain(l, m) + k]
    BY DEF IsNewest
  <1>2. PICK n \in Nat : n = l + m - Remain(l, m)
    BY RemainIs
  <1>3. PICK w : w = s \o p
    OBVIOUS
  <1>4. /\ n \in 0 .. l + m /\ n = IF l + m > MaxLog THEN l + m - MaxLog ELSE 0
        /\ l + m - n = Remain(l, m)
        /\ \A k \in 1 .. Remain(l, m) :
              n + k \in 1 .. l + m /\ n + k - l = m - Remain(l, m) + k
    BY <1>2, RemainIs
  <1>5. /\ w \in Seq(Byte) /\ Len(w) = l + m
        /\ \A i \in 1 .. l + m : w[i] = IF i <= l THEN s[i] ELSE p[i - l]
    BY <1>1, <1>3, ConcatProperties
  <1>6. /\ T!Newest(w) \in Seq(Byte) /\ Len(T!Newest(w)) = Remain(l, m)
        /\ \A k \in 1 .. Remain(l, m) : T!Newest(w)[k] = w[n + k]
    <2>1. w \in Seq(Byte) /\ n \in 0 .. Len(w)
      BY <1>4, <1>5
    <2>2. Len(w) = l + m
      BY <1>5
    <2>3. n = IF Len(w) > MaxLog THEN Len(w) - MaxLog ELSE 0
      <3>1. n = IF l + m > MaxLog THEN l + m - MaxLog ELSE 0
        BY <1>4
      <3> QED
        BY <3>1, <2>2, MaxLogAssumption
    <2>4. Len(w) - n = Remain(l, m)
      <3>1. l + m - n = Remain(l, m)
        BY <1>4
      <3> QED
        BY <3>1, <2>2
    <2> QED
      BY <2>1, <2>3, <2>4, NewestOf, Zenon
  <1>7. ASSUME NEW k \in 1 .. Remain(l, m)
        PROVE  w[n + k] = IF n + k <= l THEN s[n + k] ELSE p[m - Remain(l, m) + k]
    <2>1. n + k \in 1 .. l + m /\ n + k - l = m - Remain(l, m) + k
      BY <1>4
    <2>2. w[n + k] = IF n + k <= l THEN s[n + k] ELSE p[n + k - l]
      <3>1. \A i \in 1 .. l + m : w[i] = IF i <= l THEN s[i] ELSE p[i - l]
        BY <1>5
      <3> QED
        BY <3>1, <2>1, SMT
    <2> QED
      BY <2>1, <2>2, Zenon
  <1> QED
    BY <1>2, <1>3, <1>6, <1>7, Zenon

\* The slot of the k-th of n bytes, counted back from at.
Place(at, n, k) == IF at - n + k - 1 >= 0 THEN at - n + k - 1 ELSE at - n + k - 1 + MaxLog

Slot(k) == Place(pos, size, k)

\* Bytes() of any ring.
Begin(at, n) == IF n = MaxLog THEN at ELSE 0
Ahead(at, n) == IF n > MaxLog - Begin(at, n) THEN MaxLog - Begin(at, n) ELSE n

BytesOf(d, at, n) ==
    [k \in 1 .. n |->
       IF k <= Ahead(at, n) THEN d[Begin(at, n) + k - 1] ELSE d[k - Ahead(at, n) - 1]]

\* The two reads of Bytes() give every byte from its place.
LEMMA BytesOfIs ==
    ASSUME NEW d \in [Slots -> Byte], NEW at \in Slots, NEW n \in 0 .. MaxLog,
           n < MaxLog => at = n
    PROVE  /\ BytesOf(d, at, n) \in Seq(Byte) /\ Len(BytesOf(d, at, n)) = n
           /\ \A k \in 1 .. n :
                 Place(at, n, k) \in Slots /\ BytesOf(d, at, n)[k] = d[Place(at, n, k)]
  <1> USE MaxLogAssumption
  <1>1. ASSUME NEW k \in 1 .. n
        PROVE  /\ Place(at, n, k) \in Slots
               /\ BytesOf(d, at, n)[k] = d[Place(at, n, k)]
    BY <1>1 DEF BytesOf, Begin, Ahead, Place, Slots
  <1>2. BytesOf(d, at, n) = [k \in 1 .. n |-> d[Place(at, n, k)]]
    BY <1>1 DEF BytesOf
  <1>3. \A k \in 1 .. n : d[Place(at, n, k)] \in Byte
    BY <1>1
  <1> QED
    BY <1>1, <1>2, <1>3

\* The same of the ring as it is.
LEMMA BytesIs ==
    ASSUME RingInv
    PROVE  /\ Bytes \in Seq(Byte) /\ Len(Bytes) = size
           /\ \A k \in 1 .. size : Slot(k) \in Slots /\ Bytes[k] = disk[Slot(k)]
  <1>1. Bytes = BytesOf(disk, pos, size)
    BY DEF Bytes, BytesOf, Begin, Ahead, FirstRead, Start
  <1> QED
    BY <1>1, BytesOfIs DEF RingInv, TypeOK, Slot

\* The same of the ring after a step.
LEMMA BytesIsNext ==
    ASSUME RingInv'
    PROVE  /\ Bytes' \in Seq(Byte) /\ Len(Bytes') = size'
           /\ \A k \in 1 .. size' : Slot(k)' \in Slots /\ Bytes'[k] = disk'[Slot(k)']
  <1>1. Bytes' = BytesOf(disk', pos', size')
    BY DEF Bytes, BytesOf, Begin, Ahead, FirstRead, Start
  <1> QED
    BY <1>1, BytesOfIs DEF RingInv, TypeOK, Slot

\* Two turns of the loop leave a file of bytes.
LEMMA TwoPuts ==
    ASSUME RingInv, NEW p \in Seq(Byte), Room \in 1 .. Len(p)
    PROVE  Put(Put(disk, pos, First(p, Room)), 0, After(p, Room)) \in [Slots -> Byte]
  <1>1. First(p, Room) \in Seq(Byte) /\ After(p, Room) \in Seq(Byte)
    BY Parts
  <1>2. Put(disk, pos, First(p, Room)) \in [Slots -> Byte]
    BY <1>1, PutType DEF RingInv, TypeOK, Slots
  <1> QED
    BY <1>1, <1>2, PutType

\* Every write, complete or not, leaves a ring.
LEMMA RingStep == ASSUME RingInv, Next PROVE RingInv'
  <1>1. PICK p \in Pieces : Write(p) \/ WriteFails(p)
    BY DEF Next
  <1>0. piece' \in Seq(Byte) /\ failed' \in BOOLEAN
    BY <1>1, PiecesAssumption, Zenon DEF Write, WriteFails
  <1> USE MaxLogAssumption DEF RingInv, TypeOK
  <1>2. p \in Seq(Byte)
    BY PiecesAssumption
  <1>3. CASE WriteOversized(p)
    <2>1. Len(p) - MaxLog \in 0 .. Len(p)
      BY <1>2, <1>3 DEF WriteOversized
    <2>2. disk' \in [Slots -> Byte]
      BY <1>2, <1>3, <2>1, Parts, PutType DEF WriteOversized
    <2> QED
      BY <1>0, <1>3, <2>2 DEF WriteOversized, Slots
  <1>4. CASE WriteInPlace(p)
    <2>1. disk' \in [Slots -> Byte]
      BY <1>2, <1>4, PutType DEF WriteInPlace, Slots
    <2>2. pos + Len(p) \in 0 .. MaxLog
      BY <1>2, <1>4 DEF WriteInPlace, Room, Slots
    <2>3. pos' = IF pos + Len(p) = MaxLog THEN 0 ELSE pos + Len(p)
      BY <1>4, <2>2, WrapsAtTheEnd DEF WriteInPlace
    <2> QED
      BY <1>0, <1>2, <1>4, <2>1, <2>2, <2>3 DEF WriteInPlace, Grown, Slots
  <1>5. CASE WriteWrapped(p)
    <2>1. Room \in 1 .. Len(p)
      BY <1>2, <1>5 DEF WriteWrapped, Room, Slots
    <2>2. disk' \in [Slots -> Byte]
      BY <1>2, <1>5, <2>1, TwoPuts DEF WriteWrapped
    <2> QED
      BY <1>0, <1>2, <1>5, <2>1, <2>2 DEF WriteWrapped, Grown, Room, Slots
  <1>6. CASE FailsInFirst(p)
    <2>1. disk' \in [Slots -> Byte]
      <3>1. CASE Len(p) >= MaxLog
        <4>1. Len(p) - MaxLog \in 0 .. Len(p)
          BY <1>2, <3>1
        <4>2. After(p, Len(p) - MaxLog) \in Seq(Byte) /\ Len(After(p, Len(p) - MaxLog)) = MaxLog
          BY <1>2, <4>1, Parts
        <4>3. PICK n \in 0 .. MaxLog - 1 :
                 disk' = Put(disk, 0, First(After(p, Len(p) - MaxLog), n))
          BY <1>2, <1>6, <3>1 DEF FailsInFirst
        <4>4. First(After(p, Len(p) - MaxLog), n) \in Seq(Byte)
          BY <4>2, Parts
        <4> QED
          BY <4>3, <4>4, PutType
      <3>2. CASE Len(p) < MaxLog
        <4>1. PICK n \in 0 .. Len(p) - 1 : disk' = Put(disk, pos, First(p, n))
          BY <1>2, <1>6, <3>2 DEF FailsInFirst
        <4>2. n \in 0 .. Len(p)
          BY <1>2, <4>1
        <4>3. First(p, n) \in Seq(Byte)
          BY <1>2, <4>2, Parts
        <4> QED
          BY <4>1, <4>3, PutType DEF Slots
      <3> QED
        BY <1>2, <3>1, <3>2
    <2> QED
      BY <1>0, <1>6, <2>1 DEF FailsInFirst
  <1>7. CASE FailsInSecond(p)
    <2>1. Room \in 1 .. Len(p)
      BY <1>2, <1>7 DEF FailsInSecond, Room, Slots
    <2>2. PICK n \in 0 .. Len(p) - Room - 1 :
             disk' = Put(Put(disk, pos, First(p, Room)), 0, First(After(p, Room), n))
      BY <1>7 DEF FailsInSecond
    <2>3. After(p, Room) \in Seq(Byte) /\ n \in 0 .. Len(After(p, Room))
      BY <1>2, <2>1, <2>2, Parts
    <2>4. First(After(p, Room), n) \in Seq(Byte) /\ First(p, Room) \in Seq(Byte)
      <3>1. First(After(p, Room), n) \in Seq(Byte)
        BY <2>3, Parts
      <3>2. Room \in 0 .. Len(p) /\ p \in Seq(Byte)
        BY <1>2, <2>1
      <3> QED
        BY <3>1, <3>2, Parts
    <2>5. Put(disk, pos, First(p, Room)) \in [Slots -> Byte]
      BY <2>4, PutType DEF Slots
    <2>6. disk' \in [Slots -> Byte]
      BY <2>2, <2>4, <2>5, PutType
    <2> QED
      BY <1>0, <1>2, <1>7, <2>1, <2>6 DEF FailsInSecond, Grown, Room, Slots
  <1> QED
    BY <1>1, <1>3, <1>4, <1>5, <1>6, <1>7 DEF Write, WriteFails

\* Every byte that is left is an old one or one of p, each in its order.
Shifted(p) ==
    /\ size' = Remain(size, Len(p))
    /\ \A k \in 1 .. size' :
          disk'[Slot(k)'] =
             IF size + Len(p) - size' + k <= size
             THEN disk[Slot(size + Len(p) - size' + k)]
             ELSE p[Len(p) - size' + k]

\* A piece as long as the ring replaces all of it.
LEMMA OversizedShifts ==
    ASSUME RingInv, NEW p \in Seq(Byte), WriteOversized(p)
    PROVE  Shifted(p)
  <1> USE MaxLogAssumption DEF RingInv, TypeOK, WriteOversized
  <1>1. PICK m \in Nat : m = Len(p) /\ m >= MaxLog
    OBVIOUS
  <1>2. size' = Remain(size, m) /\ size' = MaxLog /\ pos' = 0
    BY <1>1 DEF Remain
  <1>3. PICK q \in Seq(Byte) :
           /\ disk' = Put(disk, 0, q) /\ Len(q) = MaxLog
           /\ \A k \in 1 .. MaxLog : q[k] = p[m - MaxLog + k]
    <2>1. m - MaxLog \in 0 .. Len(p)
      BY <1>1
    <2> DEFINE q == After(p, m - MaxLog)
    <2>2. /\ q \in Seq(Byte) /\ Len(q) = Len(p) - (m - MaxLog)
          /\ \A k \in 1 .. Len(p) - (m - MaxLog) : q[k] = p[m - MaxLog + k]
      BY <2>1, Parts
    <2>3. Len(p) - (m - MaxLog) = MaxLog
      BY <1>1
    <2>4. disk' = Put(disk, 0, q)
      BY <1>1
    <2> QED
      BY <2>2, <2>3, <2>4
  <1>4. ASSUME NEW k \in 1 .. MaxLog
        PROVE  disk'[Slot(k)'] = p[m - MaxLog + k] /\ ~(size + m - MaxLog + k <= size)
    <2>1. Slot(k)' = k - 1 /\ k - 1 \in Slots
      BY <1>2 DEF Slot, Place, Slots
    <2>2. Put(disk, 0, q)[k - 1] = q[k]
      BY <1>3, <2>1 DEF Put
    <2> QED
      BY <1>1, <1>3, <2>1, <2>2
  <1> QED
    BY <1>1, <1>2, <1>4 DEF Shifted

\* The slots from at on, around the ring: x is the Turn(at, x)-th.
Turn(at, x) == IF x >= at THEN x - at + 1 ELSE x - at + MaxLog + 1

\* After a write of m bytes, the k-th byte that is left has the slot of a byte
\* of the piece, or its old one.
LEMMA TurnIs ==
    ASSUME NEW at \in Slots, NEW z \in 0 .. MaxLog, z < MaxLog => at = z,
           NEW m \in Nat, m < MaxLog, NEW at2, NEW z2,
           at2 = IF at + m >= MaxLog THEN at + m - MaxLog ELSE at + m,
           z2 = Remain(z, m),
           NEW k \in 1 .. z2, NEW j \in Int, j = m - z2 + k
    PROVE  /\ Place(at2, z2, k) \in Slots
           /\ j >= 1 => j <= m /\ Turn(at, Place(at2, z2, k)) = j
           /\ j < 1 => /\ Turn(at, Place(at2, z2, k)) > m
                       /\ Place(at2, z2, k) = Place(at, z, z + j)
  BY MaxLogAssumption DEF Slots, Remain, Place, Turn

\* Every slot is met once around the ring.
LEMMA TurnType ==
    ASSUME NEW at \in Slots, NEW x \in Slots
    PROVE  Turn(at, x) \in 1 .. MaxLog
  BY MaxLogAssumption DEF Slots, Turn

\* The bytes of p go to the slots from pos on, around the ring.
Around(p) ==
    \A x \in Slots :
       disk'[x] = IF Turn(pos, x) <= Len(p) THEN p[Turn(pos, x)] ELSE disk[x]

\* One turn of the loop goes around the ring.
LEMMA InPlaceAround ==
    ASSUME RingInv, NEW p \in Seq(Byte), WriteInPlace(p)
    PROVE  Around(p)
  <1>1. PICK m \in Nat : m = Len(p) /\ m <= MaxLog - pos
    BY DEF WriteInPlace, Room
  <1>2. pos \in 0 .. MaxLog - 1
    BY DEF RingInv, TypeOK, Slots
  <1>3. ASSUME NEW x \in Slots
        PROVE  /\ pos <= x /\ x < pos + m <=> Turn(pos, x) <= m
               /\ pos <= x => x - pos + 1 = Turn(pos, x)
    BY <1>1, <1>2, MaxLogAssumption DEF Slots, Turn
  <1>4. disk' = [x \in Slots |-> IF pos <= x /\ x < pos + m THEN p[x - pos + 1] ELSE disk[x]]
    BY <1>1 DEF WriteInPlace, Put
  <1> QED
    BY <1>1, <1>3, <1>4 DEF Around

\* Which part of a wrapped piece a slot gets.
LEMMA WrapIs ==
    ASSUME NEW at \in Slots, NEW m \in Nat, m < MaxLog, NEW r \in Nat, r = MaxLog - at, r < m,
           NEW x \in Slots
    PROVE  /\ x >= at => /\ Turn(at, x) = x - at + 1 /\ Turn(at, x) \in 1 .. r
                        /\ Turn(at, x) <= m
                        /\ ~(0 <= x /\ x < 0 + (m - r)) /\ at <= x /\ x < at + r
           /\ x < m - r => /\ Turn(at, x) = r + (x - 0 + 1) /\ x - 0 + 1 \in 1 .. m - r
                           /\ Turn(at, x) <= m /\ 0 <= x /\ x < 0 + (m - r)
           /\ ~(x >= at) /\ ~(x < m - r) =>
                 ~(Turn(at, x) <= m) /\ ~(0 <= x /\ x < 0 + (m - r)) /\ ~(at <= x)
  BY MaxLogAssumption DEF Slots, Turn

\* Two turns of the loop go around the ring.
LEMMA WrappedAround ==
    ASSUME RingInv, NEW p \in Seq(Byte), WriteWrapped(p)
    PROVE  Around(p)
  <1>1. PICK m \in Nat, r \in Nat :
           m = Len(p) /\ r = Room /\ r = MaxLog - pos /\ r < m /\ m < MaxLog
    BY MaxLogAssumption DEF RingInv, TypeOK, Slots, WriteWrapped, Room
  <1>2. PICK f, g : f = First(p, r) /\ g = After(p, r)
    OBVIOUS
  <1>3. /\ Len(f) = r /\ Len(g) = m - r
        /\ \A i \in 1 .. r : f[i] = p[i]
        /\ \A i \in 1 .. m - r : g[i] = p[r + i]
    <2>1. r \in 0 .. Len(p)
      BY <1>1
    <2>2. /\ Len(First(p, r)) = r /\ Len(After(p, r)) = Len(p) - r
          /\ \A i \in 1 .. r : First(p, r)[i] = p[i]
          /\ \A i \in 1 .. Len(p) - r : After(p, r)[i] = p[r + i]
      BY <2>1, Parts
    <2> QED
      BY <1>1, <1>2, <2>2, Zenon
  <1>4. pos \in Slots
    BY DEF RingInv, TypeOK
  <1>5. disk' = Put(Put(disk, pos, f), 0, g)
    BY <1>1, <1>2 DEF WriteWrapped
  <1>6. ASSUME NEW x \in Slots
        PROVE  disk'[x] = IF 0 <= x /\ x < 0 + (m - r) THEN g[x - 0 + 1]
                          ELSE IF pos <= x /\ x < pos + r THEN f[x - pos + 1]
                          ELSE disk[x]
    <2>1. Put(disk, pos, f)[x] = IF pos <= x /\ x < pos + r THEN f[x - pos + 1] ELSE disk[x]
      BY <1>3 DEF Put
    <2>2. disk'[x] = IF 0 <= x /\ x < 0 + Len(g) THEN g[x - 0 + 1] ELSE Put(disk, pos, f)[x]
      BY <1>5 DEF Put
    <2> QED
      BY <1>3, <2>1, <2>2
  <1>7. ASSUME NEW x \in Slots
        PROVE  disk'[x] = IF Turn(pos, x) <= m THEN p[Turn(pos, x)] ELSE disk[x]
    <2>1. CASE x >= pos
      <3>1. /\ Turn(pos, x) = x - pos + 1 /\ Turn(pos, x) \in 1 .. r /\ Turn(pos, x) <= m
            /\ ~(0 <= x /\ x < 0 + (m - r)) /\ pos <= x /\ x < pos + r
        BY <1>1, <1>4, <2>1, WrapIs
      <3>2. f[x - pos + 1] = p[Turn(pos, x)]
        BY <1>3, <3>1
      <3> QED
        BY <1>6, <3>1, <3>2
    <2>2. CASE x < m - r
      <3>1. /\ Turn(pos, x) = r + (x - 0 + 1) /\ x - 0 + 1 \in 1 .. m - r
            /\ Turn(pos, x) <= m /\ 0 <= x /\ x < 0 + (m - r)
        BY <1>1, <1>4, <2>2, WrapIs
      <3>2. g[x - 0 + 1] = p[Turn(pos, x)]
        BY <1>3, <3>1
      <3> QED
        BY <1>6, <3>1, <3>2
    <2>3. CASE ~(x >= pos) /\ ~(x < m - r)
      <3>1. ~(Turn(pos, x) <= m) /\ ~(0 <= x /\ x < 0 + (m - r)) /\ ~(pos <= x)
        BY <1>1, <1>4, <2>3, WrapIs
      <3> QED
        BY <1>6, <3>1
    <2> QED
      BY <2>1, <2>2, <2>3
  <1> QED
    BY <1>1, <1>7 DEF Around

\* Old bytes come before those of the piece.
LEMMA Sums ==
    ASSUME NEW x \in Int, NEW y \in Int, NEW c \in Int, NEW k \in Int
    PROVE  /\ c - y + k \in Int
           /\ x + c - y + k = x + (c - y + k)
           /\ x + (c - y + k) <= x <=> c - y + k < 1
  OBVIOUS

\* What goes around the ring shifts its bytes.
LEMMA AroundShifts ==
    ASSUME RingInv, NEW p \in Seq(Byte), WriteInPlace(p) \/ WriteWrapped(p), Around(p)
    PROVE  Shifted(p)
  <1>1. PICK m \in Nat : m = Len(p) /\ m < MaxLog
    BY DEF WriteInPlace, WriteWrapped
  <1>2. pos \in Slots /\ size \in 0 .. MaxLog /\ (size < MaxLog => pos = size)
    BY DEF RingInv, TypeOK
  <1>3. size' = Remain(size, m)
    BY <1>1 DEF WriteInPlace, WriteWrapped, Grown, Remain
  <1>4. pos' = IF pos + m >= MaxLog THEN pos + m - MaxLog ELSE pos + m
    <2>1. CASE WriteInPlace(p)
      <3>1. pos + m \in 0 .. MaxLog
        BY <1>1, <1>2, <2>1, MaxLogAssumption DEF WriteInPlace, Room, Slots
      <3>2. pos' = IF pos + m = MaxLog THEN 0 ELSE pos + m
        BY <1>1, <2>1, <3>1, WrapsAtTheEnd DEF WriteInPlace
      <3> QED
        BY <1>1, <1>2, <3>1, <3>2, MaxLogAssumption DEF Slots
    <2>2. CASE WriteWrapped(p)
      BY <1>1, <1>2, <2>2, MaxLogAssumption DEF WriteWrapped, Room, Slots
    <2> QED
      BY <2>1, <2>2
  <1>5. ASSUME NEW k \in 1 .. size'
        PROVE  disk'[Slot(k)'] =
                 IF size + m - size' + k <= size
                 THEN disk[Slot(size + m - size' + k)] ELSE p[m - size' + k]
    <2>1. PICK j \in Int : /\ j = m - size' + k /\ size + m - size' + k = size + j
                           /\ (size + j <= size <=> j < 1)
      <3>1. size' \in Int /\ size \in Int /\ m \in Int /\ k \in Int
        <4>1. size' \in Int /\ size \in Int
          BY <1>2, <1>3, RemainIs
        <4> QED
          BY <4>1
      <3>2. /\ m - size' + k \in Int
            /\ size + m - size' + k = size + (m - size' + k)
            /\ size + (m - size' + k) <= size <=> m - size' + k < 1
        BY <3>1, Sums, Zenon
      <3> QED
        BY <3>2, Zenon
    <2>2. /\ Slot(k)' \in Slots
          /\ j >= 1 => j <= m /\ Turn(pos, Slot(k)') = j
          /\ j < 1 => Turn(pos, Slot(k)') > m /\ Slot(k)' = Slot(size + j)
      BY <1>1, <1>2, <1>3, <1>4, <2>1, TurnIs DEF Slot
    <2>3. disk'[Slot(k)'] = IF Turn(pos, Slot(k)') <= m
                            THEN p[Turn(pos, Slot(k)')] ELSE disk[Slot(k)']
      BY <1>1, <2>2 DEF Around
    <2>4. CASE j >= 1
      BY <2>1, <2>2, <2>3, <2>4
    <2>5. CASE j < 1
      <3>1. ~(Turn(pos, Slot(k)') <= m)
        BY <1>2, <2>2, <2>5, TurnType, MaxLogAssumption
      <3> QED
        BY <2>1, <2>2, <2>3, <2>5, <3>1
    <2> QED
      BY <2>4, <2>5
  <1> QED
    BY <1>1, <1>3, <1>5 DEF Shifted

\* Every complete write does.
LEMMA WriteShifts ==
    ASSUME RingInv, NEW p \in Seq(Byte), Write(p)
    PROVE  Shifted(p)
  BY OversizedShifts, InPlaceAround, WrappedAround, AroundShifts DEF Write

(***************************************************************************)
(* The refinement.                                                         *)
(***************************************************************************)
\* A complete write appends to the tail.
LEMMA WriteImplements ==
    ASSUME RingInv, RingInv', NEW p \in Seq(Byte), Write(p)
    PROVE  T!Write(p)
  <1>1. PICK l \in Nat, m \in Nat : l = size /\ m = Len(p)
    <2>1. size \in Nat
      BY MaxLogAssumption DEF RingInv, TypeOK
    <2>2. Len(p) \in Nat
      OBVIOUS
    <2> QED
      BY <2>1, <2>2, Zenon
  <1>2. PICK z \in Nat : z = size' /\ z = Remain(l, m)
    BY <1>1, WriteShifts DEF RingInv, TypeOK, Shifted
  <1>3. /\ Bytes \in Seq(Byte) /\ Len(Bytes) = l
        /\ \A k \in 1 .. l : Bytes[k] = disk[Slot(k)]
    BY <1>1, BytesIs
  <1>4. /\ Bytes' \in Seq(Byte) /\ Len(Bytes') = z
        /\ \A k \in 1 .. z : Bytes'[k] = disk'[Slot(k)']
    BY <1>2, BytesIsNext
  <1>5. PICK t : t = T!Newest(Bytes \o p)
    OBVIOUS
  <1>6. /\ t \in Seq(Byte) /\ Len(t) = z
        /\ \A k \in 1 .. z : t[k] =
              IF l + m - z + k <= l THEN Bytes[l + m - z + k] ELSE p[m - z + k]
    <2>1. PICK old : old = Bytes
      OBVIOUS
    <2>2. old \in Seq(Byte) /\ p \in Seq(Byte) /\ l = Len(old) /\ m = Len(p)
      BY <1>1, <1>3, <2>1
    <2>3. IsNewest(T!Newest(old \o p), old, p, l, m)
      BY <2>2, NewestIs
    <2>4. t = T!Newest(old \o p)
      BY <1>5, <2>1
    <2> QED
      BY <1>2, <2>1, <2>3, <2>4 DEF IsNewest
  <1>7. \A k \in 1 .. z : disk'[Slot(k)'] =
           IF l + m - z + k <= l THEN disk[Slot(l + m - z + k)] ELSE p[m - z + k]
    BY <1>1, <1>2, WriteShifts DEF Shifted
  <1>8. ASSUME NEW k \in 1 .. z
        PROVE  Bytes'[k] = t[k]
    <2>1. l + m - z + k <= l => l + m - z + k \in 1 .. l
      <3>1. l + m - z \in Nat
        BY <1>2, RemainIs
      <3> QED
        BY <3>1
    <2>2. l + m - z + k <= l => Bytes[l + m - z + k] = disk[Slot(l + m - z + k)]
      BY <1>3, <2>1
    <2> QED
      BY <1>4, <1>6, <1>7, <2>2
  <1>9. Bytes' = t
    BY <1>4, <1>6, <1>8, SeqEqual
  <1> QED
    BY <1>5, <1>9 DEF T!Write, Write

\* A failing write that fits leaves what is read alone.
LEMMA FailureSparesRoom ==
    ASSUME RingInv, RingInv', NEW p \in Seq(Byte), FailsInFirst(p) \/ FailsInSecond(p),
           size + Len(p) <= MaxLog
    PROVE  Bytes' = Bytes
  <1>1. PICK m \in Nat : m = Len(p) /\ size + m <= MaxLog
    OBVIOUS
  <1>2. /\ pos \in Slots /\ size \in 0 .. MaxLog /\ (size < MaxLog => pos = size)
        /\ disk \in [Slots -> Byte]
    BY DEF RingInv, TypeOK
  <1>3. ~FailsInSecond(p)
    BY <1>1, <1>2, MaxLogAssumption DEF FailsInSecond, Room, Slots
  <1>4. pos' = pos /\ size' = size
    BY <1>3 DEF FailsInFirst
  <1>5. ASSUME NEW k \in 1 .. size
        PROVE  disk'[Slot(k)] = disk[Slot(k)]
    <2>1. size < MaxLog /\ Slot(k) = k - 1 /\ Slot(k) < pos /\ k - 1 \in Slots /\ m < MaxLog
      <3>1. m # 0
        BY <1>1, <1>2, <1>3, MaxLogAssumption DEF FailsInFirst
      <3> QED
        BY <1>1, <1>2, <3>1, MaxLogAssumption DEF Slot, Place, Slots
    <2>2. PICK n : disk' = Put(disk, pos, First(p, n))
      BY <1>1, <1>3, <2>1, MaxLogAssumption DEF FailsInFirst
    <2>3. ~(pos <= Slot(k))
      BY <1>2, <2>1, MaxLogAssumption DEF Slots
    <2> QED
      BY <2>1, <2>2, <2>3 DEF Put
  <1>6. /\ Bytes \in Seq(Byte) /\ Len(Bytes) = size
        /\ \A k \in 1 .. size : Bytes[k] = disk[Slot(k)]
    BY BytesIs
  <1>7. /\ Bytes' \in Seq(Byte) /\ Len(Bytes') = size
        /\ \A k \in 1 .. size : Bytes'[k] = disk'[Slot(k)]
    <2>1. /\ Bytes' \in Seq(Byte) /\ Len(Bytes') = size'
          /\ \A k \in 1 .. size' : Bytes'[k] = disk'[Slot(k)']
      BY BytesIsNext
    <2>2. \A k : Slot(k)' = Slot(k)
      BY <1>4 DEF Slot
    <2> QED
      BY <1>4, <2>1, <2>2
  <1> QED
    BY <1>5, <1>6, <1>7, SeqEqual

\* An incomplete write is one the tail allows.
LEMMA FailureImplements ==
    ASSUME RingInv, RingInv', NEW p \in Seq(Byte), WriteFails(p)
    PROVE  T!Fails(p)
  <1> USE DEF WriteFails
  <1>1. Len(Bytes) = size /\ Bytes' \in Seq(Byte) /\ Len(Bytes') = size'
    BY BytesIs, BytesIsNext
  <1>2. CASE size + Len(p) <= MaxLog
    BY <1>1, <1>2, FailureSparesRoom DEF T!Fails
  <1>3. CASE ~(size + Len(p) <= MaxLog)
    <2>1. size' \in size .. MaxLog
      BY MaxLogAssumption DEF RingInv, TypeOK, FailsInFirst, FailsInSecond, Grown, Room, Slots
    <2>2. Bytes' \in [1 .. size' -> Byte]
      BY <1>1, LenProperties
    <2> QED
      BY <1>1, <1>3, <2>1, <2>2 DEF T!Fails
  <1> QED
    BY <1>2, <1>3

\* The file, pos and size always make a ring: what is not full yet ends at pos.
THEOREM RingStays == Spec => []RingInv
  <1>1. Init => RingInv
    <2>1. Init => failed \in BOOLEAN
      BY Zenon DEF Init
    <2>2. Init => piece \in Seq(Byte)
      BY DEF Init
    <2> QED
      BY <2>1, <2>2, MaxLogAssumption DEF Init, RingInv, TypeOK, Slots
  <1>2. RingInv /\ [Next]_vars => RingInv'
    <2>1. CASE Next
      BY <2>1, RingStep
    <2>2. CASE UNCHANGED vars
      BY <2>2 DEF vars, RingInv, TypeOK
    <2> QED
      BY <2>1, <2>2
  <1> QED
    BY <1>1, <1>2, PTL DEF Spec

\* What Bytes() reads is the last maxLog bytes of what was written, until a
\* write fails that the ring had no room for; then nothing is dropped.
THEOREM ImplementsTail == Spec => TailSpec
  <1>1. Init => T!Init
    <2>1. Init => Bytes = <<>>
      BY DEF Init, Bytes
    <2> QED
      BY <2>1 DEF T!Init, Init
  <1>2. RingInv /\ RingInv' /\ [Next]_vars => [T!Next]_<<Bytes, piece, failed>>
    <2>1. ASSUME RingInv, RingInv', Next
          PROVE  T!Next
      <3>1. PICK p \in Pieces : Write(p) \/ WriteFails(p)
        BY <2>1 DEF Next
      <3>2. p \in Seq(Byte)
        BY PiecesAssumption
      <3>3. T!Write(p) \/ T!Fails(p)
        BY <2>1, <3>1, <3>2, WriteImplements, FailureImplements
      <3> QED
        BY <3>3 DEF T!Next
    <2>2. ASSUME UNCHANGED vars
          PROVE  UNCHANGED <<Bytes, piece, failed>>
      BY <2>2 DEF vars, Bytes, FirstRead, Start
    <2> QED
      BY <2>1, <2>2
  <1> QED
    BY <1>1, <1>2, RingStays, PTL DEF Spec, TailSpec, T!Spec

(***************************************************************************)
(* The events of --verbose.                                                *)
(***************************************************************************)
NothingScanned == [line |-> <<>>, all |-> <<>>]

\* What the lines of a stream are after so many bytes.
ScanOf(bytes) == P!Fold(P!Scan, NothingScanned, bytes)

\* The bytes of a stream, with the newline that its flush stands for.
Given(s) == consumed[s] \o IF s \in flushed THEN << 0 >> ELSE <<>>

\* TypeOK, and what it leaves open of the types.
PhaseTyped ==
    /\ P!TypeOK
    /\ input \in [P!Stream -> Seq({0, 1})] /\ consumed \in [P!Stream -> Seq({0, 1})]
    /\ buf \in [P!Stream -> Seq({1})]
    /\ events \in Seq(P!Event)
    /\ remaining \in 0 .. MaxOutput
    /\ \A s \in P!Stream : Len(consumed[s]) + Len(input[s]) <= MaxSent

\* A stream is flushed after its copier, each once, unless the phase is uncertain.
FlushInOrder ==
    /\ flushed # {} => copying = {}
    /\ phasePc \in {"run", "flushStdout"} => flushed = {}
    /\ phasePc = "flushStderr" => flushed = {"stdout"}
    /\ phasePc \in {"flushStdout", "flushStderr"} => copying = {}
    /\ phasePc \in {"version", "next"} /\ ~uncertain => flushed = P!Stream

\* A buffer holds what it has room for of the line that its stream is in.
BufferInv ==
    \A s \in P!Stream :
        /\ buf[s] = P!First(ScanOf(Given(s)).line, MaxLine)
        /\ truncated[s] <=> Len(ScanOf(Given(s)).line) > MaxLine

NoLaterPhase == \A i \in 1 .. Len(events) : events[i].phase <= phase

\* What the buffers and the events say of the bytes.
OutputInv ==
    BufferInv /\ NoLaterPhase /\ P!LinesLogged /\ remaining = MaxOutput - P!Fold(P!Spend, 0, events)

PhaseInv == PhaseTyped /\ FlushInOrder /\ OutputInv

LEMMA SameFold == \A step, start, s : P!Fold(step, start, s) = Fold(step, start, s)
  BY DEF P!Fold, Fold

\* The first n elements of a sequence.
LEMMA FirstIs ==
  ASSUME NEW S, NEW q \in Seq(S), NEW n \in Nat
  PROVE  /\ P!First(q, n) \in Seq(S)
         /\ Len(P!First(q, n)) = IF Len(q) > n THEN n ELSE Len(q)
         /\ \A i \in 1 .. Len(P!First(q, n)) : P!First(q, n)[i] = q[i]
         /\ P!First(q, n) = q <=> Len(q) <= n
  BY DEF P!First

\* Cutting after each piece is cutting at the end.
LEMMA FirstOfFirst ==
  ASSUME NEW S, NEW l \in Seq(S), NEW p \in Seq(S), NEW n \in Nat
  PROVE  /\ P!First(P!First(l, n) \o p, n) = P!First(l \o p, n)
         /\ Len(l) > n \/ Len(P!First(l, n) \o p) > n <=> Len(l \o p) > n
<1> DEFINE f == P!First(l, n)
           x == P!First(f \o p, n)
           y == P!First(l \o p, n)
<1>1. f \in Seq(S) /\ Len(f) = (IF Len(l) > n THEN n ELSE Len(l)) /\ (f = l <=> Len(l) <= n)
  BY FirstIs
<1>2. \A i \in 1 .. Len(f) : f[i] = l[i]
  BY FirstIs
<1> HIDE DEF f
<1>3. /\ f \o p \in Seq(S) /\ Len(f \o p) = Len(f) + Len(p)
      /\ l \o p \in Seq(S) /\ Len(l \o p) = Len(l) + Len(p)
  <2>1. f \in Seq(S)
    BY <1>1
  <2> QED
    BY <2>1
<1>4. x = y
  <2>1. CASE Len(l) <= n
    BY <1>1, <2>1
  <2>2. CASE Len(l) > n
    <3>1. /\ x \in Seq(S) /\ Len(x) = IF Len(f \o p) > n THEN n ELSE Len(f \o p)
          /\ \A i \in 1 .. Len(x) : x[i] = (f \o p)[i]
      BY <1>3, FirstIs
    <3>2. /\ y \in Seq(S) /\ Len(y) = IF Len(l \o p) > n THEN n ELSE Len(l \o p)
          /\ \A i \in 1 .. Len(y) : y[i] = (l \o p)[i]
      BY <1>3, FirstIs
    <3> HIDE DEF x, y
    <3>3. Len(p) \in Nat /\ Len(l) \in Nat
      OBVIOUS
    <3>4. Len(f) = n /\ Len(f \o p) = n + Len(p) /\ Len(l \o p) = Len(l) + Len(p)
      BY <1>1, <1>3, <2>2
    <3>5. Len(x) = n /\ Len(y) = n
      BY <2>2, <3>1, <3>2, <3>3, <3>4
    <3>6. ASSUME NEW i \in 1 .. n PROVE x[i] = y[i]
      <4>1. (f \o p)[i] = f[i]
        BY <1>1, <3>4
      <4>2. (l \o p)[i] = l[i]
        BY <2>2
      <4> QED
        BY <1>2, <3>1, <3>2, <3>4, <3>5, <4>1, <4>2
    <3> QED
      BY <3>1, <3>2, <3>5, <3>6
  <2> QED
    BY <2>1, <2>2
<1>5. Len(l) > n \/ Len(f \o p) > n <=> Len(l \o p) > n
  <2>1. Len(p) \in Nat /\ Len(l) \in Nat
    OBVIOUS
  <2>2. /\ Len(f) = (IF Len(l) > n THEN n ELSE Len(l))
        /\ Len(f \o p) = Len(f) + Len(p) /\ Len(l \o p) = Len(l) + Len(p)
    BY <1>1, <1>3
  <2> QED
    BY <2>1, <2>2
<1> QED
  BY <1>4, <1>5 DEF f

(***************************************************************************)
(* Lines.                                                                  *)
(***************************************************************************)
LEMMA ScanFolds == Folds(P!Scanned, {0, 1}, NothingScanned, P!Scan)
<1>1. NothingScanned \in P!Scanned
  BY DEF NothingScanned, P!Scanned
<1>2. ASSUME NEW acc \in P!Scanned, NEW byte \in {0, 1}
      PROVE  (IF byte # 0 THEN [acc EXCEPT !.line = Append(@, byte)]
              ELSE [line |-> <<>>,
                    all |-> IF acc.line = <<>> THEN acc.all ELSE Append(acc.all, acc.line)])
             \in P!Scanned
  <2>1. acc.line \in Seq({1}) /\ acc.all \in Seq(Seq({1}))
    BY DEF P!Scanned
  <2>2. CASE byte = 0
    <3>1. (IF acc.line = <<>> THEN acc.all ELSE Append(acc.all, acc.line)) \in Seq(Seq({1}))
      BY <2>1
    <3> QED
      BY <2>2, <3>1 DEF P!Scanned
  <2>3. CASE byte # 0
    <3>1. byte = 1 /\ Append(acc.line, byte) \in Seq({1})
      BY <2>1, <2>3
    <3>2. [acc EXCEPT !.line = Append(@, byte)] \in P!Scanned
      BY <3>1 DEF P!Scanned
    <3> QED
      BY <2>3, <3>2
  <2> QED
    BY <2>2, <2>3
<1>3. P!Scan \in [P!Scanned -> [{0, 1} -> P!Scanned]]
  BY <1>2 DEF P!Scan
<1> QED
  BY <1>1, <1>3 DEF Folds

LEMMA ScanIs ==
  /\ ScanOf(<<>>) = NothingScanned
  /\ \A c \in Seq({0, 1}) : ScanOf(c).line \in Seq({1}) /\ ScanOf(c).all \in Seq(Seq({1}))
<1>1. ScanOf(<<>>) = NothingScanned
  BY ScanFolds, FoldEmpty, SameFold DEF ScanOf
<1>2. \A c \in Seq({0, 1}) : ScanOf(c) \in P!Scanned
  BY ScanFolds, FoldType, SameFold DEF ScanOf
<1> QED
  BY <1>1, <1>2 DEF P!Scanned

LEMMA ScanByte ==
  ASSUME NEW c \in Seq({0, 1}), NEW byte \in {0, 1}
  PROVE  ScanOf(Append(c, byte)) =
             IF byte # 0 THEN [ScanOf(c) EXCEPT !.line = Append(@, byte)]
             ELSE [line |-> <<>>,
                   all |-> IF ScanOf(c).line = <<>> THEN ScanOf(c).all
                           ELSE Append(ScanOf(c).all, ScanOf(c).line)]
<1>1. ScanOf(Append(c, byte)) = P!Scan[ScanOf(c)][byte]
  BY ScanFolds, FoldAppend, SameFold DEF ScanOf
<1>2. ScanOf(c) \in P!Scanned
  BY ScanFolds, FoldType, SameFold DEF ScanOf
<1> QED
  BY <1>1, <1>2 DEF P!Scan

\* Bytes without a newline lengthen the line.
LEMMA ScanPart ==
  ASSUME NEW c \in Seq({0, 1}), NEW p \in Seq({1})
  PROVE  /\ c \o p \in Seq({0, 1})
         /\ ScanOf(c \o p).line = ScanOf(c).line \o p
         /\ ScanOf(c \o p).all = ScanOf(c).all
<1> DEFINE Longer == {q \in Seq({1}) :
                    /\ ScanOf(c \o q).line = ScanOf(c).line \o q
                    /\ ScanOf(c \o q).all = ScanOf(c).all}
<1>1. <<>> \in Longer
  <2>1. c \o <<>> = c /\ ScanOf(c).line \o <<>> = ScanOf(c).line
    BY ScanIs, ConcatEmptySeq
  <2>2. <<>> \in Seq({1})
    OBVIOUS
  <2> QED
    BY <2>1, <2>2, Zenon
<1>2. ASSUME NEW q \in Seq({1}), q \in Longer, NEW byte \in {1}
      PROVE  Append(q, byte) \in Longer
  <2>1. c \o q \in Seq({0, 1}) /\ c \o Append(q, byte) = Append(c \o q, byte) /\ byte \in {0, 1} /\ byte # 0
    OBVIOUS
  <2>2. ScanOf(Append(c \o q, byte)) = [ScanOf(c \o q) EXCEPT !.line = Append(@, byte)]
    BY <2>1, ScanByte
  <2>3. ScanOf(c \o q) \in P!Scanned
    BY <2>1, ScanFolds, FoldType, SameFold DEF ScanOf
  <2>4. /\ ScanOf(Append(c \o q, byte)).line = Append(ScanOf(c \o q).line, byte)
        /\ ScanOf(Append(c \o q, byte)).all = ScanOf(c \o q).all
    BY <2>2, <2>3 DEF P!Scanned
  <2>5. Append(ScanOf(c).line \o q, byte) = ScanOf(c).line \o Append(q, byte)
    <3>1. \A u \in Seq({1}) : Append(u \o q, byte) = u \o Append(q, byte)
      OBVIOUS
    <3> QED
      BY <3>1, ScanIs
  <2>6. Append(q, byte) \in Seq({1})
    OBVIOUS
  <2> QED
    BY <1>2, <2>1, <2>4, <2>5, <2>6, Zenon
<1>3. Seq({1}) \subseteq Longer
  <2> HIDE DEF Longer
  <2> QED
    BY <1>1, <1>2, SequenceInduction
<1>4. c \o p \in Seq({0, 1})
  OBVIOUS
<1> QED
  BY <1>3, <1>4

\* A newline ends the line.
LEMMA ScanNewline ==
  ASSUME NEW c \in Seq({0, 1})
  PROVE  /\ c \o << 0 >> = Append(c, 0) /\ c \o << 0 >> \in Seq({0, 1})
         /\ ScanOf(c \o << 0 >>).line = <<>>
         /\ ScanOf(c \o << 0 >>).all = IF ScanOf(c).line = <<>> THEN ScanOf(c).all
                                     ELSE Append(ScanOf(c).all, ScanOf(c).line)
<1>1. c \o << 0 >> = Append(c, 0) /\ Append(c, 0) \in Seq({0, 1}) /\ 0 \in {0, 1}
  OBVIOUS
<1> DEFINE all == IF ScanOf(c).line = <<>> THEN ScanOf(c).all
                  ELSE Append(ScanOf(c).all, ScanOf(c).line)
<1>2. ScanOf(Append(c, 0)) = [line |-> <<>>, all |-> all]
  BY <1>1, ScanByte
<1> HIDE DEF all
<1>3. ScanOf(Append(c, 0)).line = <<>> /\ ScanOf(Append(c, 0)).all = all
  BY <1>2
<1> QED
  BY <1>1, <1>3 DEF all

(***************************************************************************)
(* The events of one stream against its lines.                             *)
(***************************************************************************)
\* LinesLogged, for one stream.
StreamOk(bytes, logged, room) ==
    /\ Len(logged) <= Len(P!Lines(bytes))
    /\ room => Len(logged) = Len(P!Lines(bytes))
    /\ \A k \in 1 .. Len(logged) :
          /\ P!IsPrefix(logged[k].line, P!Lines(bytes)[k])
          /\ logged[k].truncated <=> logged[k].line # P!Lines(bytes)[k]

LEMMA LinesAre == \A bytes : P!Lines(bytes) = ScanOf(bytes).all
  BY DEF P!Lines, ScanOf, NothingScanned

LEMMA LinesLoggedIs ==
  P!LinesLogged <=> \A s \in P!Stream : StreamOk(Given(s), P!Logged(s), remaining > Overhead)
  BY DEF P!LinesLogged, StreamOk, Given

\* What is logged of a line is a prefix of it, flagged unless it is all of it.
LEMMA ContentIs ==
  ASSUME NEW X \in Seq({1}), NEW n \in Nat,
         NEW line, line = P!First(X, MaxLine), NEW content, content = P!First(line, n),
         NEW cut \in BOOLEAN, cut <=> Len(X) > MaxLine
  PROVE  /\ line \in Seq({1}) /\ content \in Seq({1}) /\ Len(content) <= n
         /\ line = <<>> /\ ~cut <=> X = <<>>
         /\ P!IsPrefix(content, X)
         /\ (cut \/ content # line) <=> content # X
<1>1. MaxLine \in Nat
  BY OutputAssumption
<1>2. /\ line \in Seq({1}) /\ Len(line) = (IF Len(X) > MaxLine THEN MaxLine ELSE Len(X))
      /\ line = X <=> Len(X) <= MaxLine
  BY <1>1, FirstIs
<1>3. \A i \in 1 .. Len(line) : line[i] = X[i]
  BY <1>1, FirstIs
<1>4. content \in Seq({1}) /\ Len(content) = IF Len(line) > n THEN n ELSE Len(line)
  BY <1>2, FirstIs
<1>5. \A i \in 1 .. Len(content) : content[i] = line[i]
  BY <1>2, FirstIs
<1>6. Len(X) \in Nat /\ Len(line) \in Nat /\ Len(content) \in Nat
  BY <1>2, <1>4
<1>7. Len(content) <= n /\ Len(content) <= Len(line) /\ Len(line) <= Len(X)
  BY <1>1, <1>2, <1>4, <1>6
<1>8. line = <<>> /\ ~cut <=> X = <<>>
  <2>1. ~cut => line = X
    BY <1>1, <1>2, <1>6
  <2>2. X = <<>> => Len(X) = 0
    OBVIOUS
  <2>3. X = <<>> => ~cut
    BY <1>1, <2>2
  <2> QED
    BY <2>1, <2>3
<1>9. P!IsPrefix(content, X)
  <2>1. \A i \in 1 .. Len(content) : content[i] = X[i]
    BY <1>3, <1>5, <1>6, <1>7
  <2>2. Len(content) <= Len(X)
    BY <1>6, <1>7
  <2>3. SubSeq(content, 1, Len(content)) = SubSeq(X, 1, Len(content))
    BY <1>4, <1>6, <2>1, <2>2
  <2> QED
    BY <2>2, <2>3 DEF P!IsPrefix
<1>10. (cut \/ content # line) <=> content # X
  <2>1. cut => Len(line) < Len(X)
    BY <1>1, <1>2, <1>6
  <2>2. cut => content # X
    BY <1>6, <1>7, <2>1
  <2>3. ~cut => line = X
    BY <1>1, <1>2, <1>6
  <2> QED
    BY <2>2, <2>3
<1> QED
  BY <1>2, <1>4, <1>7, <1>8, <1>9, <1>10

\* A line ends, and there is nothing to be logged of it, or no budget.
LEMMA EndUnlogged ==
  ASSUME NEW c \in Seq({0, 1}), NEW logged \in Seq(P!Event), NEW room \in BOOLEAN,
         StreamOk(c, logged, room), ScanOf(c).line = <<>> \/ ~room
  PROVE  StreamOk(c \o << 0 >>, logged, room)
<1> DEFINE A == ScanOf(c).all
           B == ScanOf(c \o << 0 >>).all
<1>1. A \in Seq(Seq({1})) /\ ScanOf(c).line \in Seq({1})
  BY ScanIs
<1>2. B = IF ScanOf(c).line = <<>> THEN A ELSE Append(A, ScanOf(c).line)
  BY ScanNewline
<1>3. /\ Len(logged) <= Len(A) /\ (room => Len(logged) = Len(A))
      /\ \A k \in 1 .. Len(logged) : P!IsPrefix(logged[k].line, A[k])
                                     /\ (logged[k].truncated <=> logged[k].line # A[k])
  BY LinesAre DEF StreamOk
<1> HIDE DEF A, B
<1>4. Len(logged) \in Nat /\ Len(A) \in Nat /\ Len(A) <= Len(B)
      /\ (room => Len(B) = Len(A)) /\ \A k \in 1 .. Len(A) : B[k] = A[k]
  <2>1. CASE ScanOf(c).line = <<>>
    BY <1>1, <1>2, <2>1
  <2>2. CASE ScanOf(c).line # <<>>
    BY <1>1, <1>2, <2>2
  <2> QED
    BY <2>1, <2>2
<1>5. \A k \in 1 .. Len(logged) : B[k] = A[k]
  BY <1>3, <1>4
<1>6. Len(logged) <= Len(B) /\ (room => Len(logged) = Len(B))
  <2>1. Len(B) \in Nat
    BY <1>1, <1>2
  <2> QED
    BY <1>3, <1>4, <2>1
<1> QED
  BY <1>3, <1>5, <1>6, LinesAre DEF StreamOk, B

\* A line ends and is logged.
LEMMA EndLogged ==
  ASSUME NEW c \in Seq({0, 1}), NEW logged \in Seq(P!Event), StreamOk(c, logged, TRUE),
         ScanOf(c).line # <<>>, NEW e \in P!Event,
         P!IsPrefix(e.line, ScanOf(c).line),
         e.truncated <=> e.line # ScanOf(c).line,
         NEW room \in BOOLEAN
  PROVE  StreamOk(c \o << 0 >>, Append(logged, e), room)
<1> DEFINE A == ScanOf(c).all
           B == ScanOf(c \o << 0 >>).all
           l == ScanOf(c).line
           n == Len(logged)
           after == Append(logged, e)
<1>1. A \in Seq(Seq({1})) /\ l \in Seq({1})
  BY ScanIs
<1>2. B = Append(A, l)
  BY ScanNewline
<1>3. /\ n = Len(A)
      /\ \A k \in 1 .. n : P!IsPrefix(logged[k].line, A[k])
                           /\ (logged[k].truncated <=> logged[k].line # A[k])
  BY LinesAre DEF StreamOk
<1>4. n \in Nat /\ Len(after) = n + 1 /\ after[n + 1] = e /\ \A k \in 1 .. n : after[k] = logged[k]
  OBVIOUS
<1> HIDE DEF A, n, after, l
<1>5. Len(B) = n + 1 /\ B[n + 1] = l /\ \A k \in 1 .. n : B[k] = A[k]
  BY <1>1, <1>2, <1>3
<1> HIDE DEF B
<1>6. \A k \in 1 .. n + 1 : P!IsPrefix(after[k].line, B[k])
                            /\ (after[k].truncated <=> after[k].line # B[k])
  <2> TAKE k \in 1 .. n + 1
  <2>1. CASE k \in 1 .. n
    BY <1>3, <1>4, <1>5, <2>1
  <2>2. CASE k = n + 1
    BY <1>4, <1>5, <2>2 DEF l
  <2> QED
    BY <1>4, <2>1, <2>2
<1>7. P!Lines(c \o << 0 >>) = B
  BY LinesAre DEF B
<1>8. StreamOk(c \o << 0 >>, after, room)
  BY <1>4, <1>5, <1>6, <1>7 DEF StreamOk
<1> QED
  BY <1>8 DEF after

(***************************************************************************)
(* What has been logged, and what it has taken of the budget.              *)
(***************************************************************************)
KeepOf(ph, s) ==
    [logged \in Seq(P!Event) |-> [e \in P!Event |->
        IF e.phase = ph /\ e.stream = s THEN Append(logged, e) ELSE logged]]

LoggedOf(ph, s, log) == P!Fold(KeepOf(ph, s), <<>>, log)

LEMMA LoggedIs == \A s : P!Logged(s) = LoggedOf(phase, s, events)
  BY DEF P!Logged, P!Keep, LoggedOf, KeepOf

LEMMA KeepFolds ==
  ASSUME NEW ph, NEW s
  PROVE  Folds(Seq(P!Event), P!Event, <<>>, KeepOf(ph, s))
<1>1. <<>> \in Seq(P!Event)
  OBVIOUS
<1>2. \A logged \in Seq(P!Event), e \in P!Event :
          (IF e.phase = ph /\ e.stream = s THEN Append(logged, e) ELSE logged) \in Seq(P!Event)
  OBVIOUS
<1>3. KeepOf(ph, s) \in [Seq(P!Event) -> [P!Event -> Seq(P!Event)]]
  BY <1>2 DEF KeepOf
<1> QED
  BY <1>1, <1>3 DEF Folds

LEMMA LoggedSteps ==
  ASSUME NEW ph, NEW s
  PROVE  /\ LoggedOf(ph, s, <<>>) = <<>>
         /\ \A log \in Seq(P!Event) : LoggedOf(ph, s, log) \in Seq(P!Event)
         /\ \A log \in Seq(P!Event), e \in P!Event :
               LoggedOf(ph, s, Append(log, e)) =
                   IF e.phase = ph /\ e.stream = s THEN Append(LoggedOf(ph, s, log), e)
                   ELSE LoggedOf(ph, s, log)
<1>1. LoggedOf(ph, s, <<>>) = <<>>
  BY KeepFolds, FoldEmpty, SameFold DEF LoggedOf
<1>2. \A log \in Seq(P!Event) : LoggedOf(ph, s, log) \in Seq(P!Event)
  BY KeepFolds, FoldType, SameFold DEF LoggedOf
<1>3. ASSUME NEW log \in Seq(P!Event), NEW e \in P!Event
      PROVE  LoggedOf(ph, s, Append(log, e)) =
                 IF e.phase = ph /\ e.stream = s THEN Append(LoggedOf(ph, s, log), e)
                 ELSE LoggedOf(ph, s, log)
  <2>1. LoggedOf(ph, s, Append(log, e)) = KeepOf(ph, s)[LoggedOf(ph, s, log)][e]
    BY KeepFolds, FoldAppend, SameFold DEF LoggedOf
  <2>2. LoggedOf(ph, s, log) \in Seq(P!Event)
    BY <1>2
  <2> QED
    BY <2>1, <2>2 DEF KeepOf
<1> QED
  BY <1>1, <1>2, <1>3

\* A new phase has no events yet.
LEMMA NothingLogged ==
  ASSUME NEW ph, NEW s
  PROVE  \A log \in Seq(P!Event) :
            (\A i \in 1 .. Len(log) : log[i].phase # ph) => LoggedOf(ph, s, log) = <<>>
<1> DEFINE Earlier(log) == \A i \in 1 .. Len(log) : log[i].phase # ph
           Short == {log \in Seq(P!Event) : Earlier(log) => LoggedOf(ph, s, log) = <<>>}
<1>1. <<>> \in Short
  <2>1. LoggedOf(ph, s, <<>>) = <<>> /\ <<>> \in Seq(P!Event)
    BY LoggedSteps
  <2> QED
    BY <2>1
<1>2. ASSUME NEW log \in Seq(P!Event), log \in Short, NEW e \in P!Event
      PROVE  Append(log, e) \in Short
  <2> DEFINE longer == Append(log, e)
  <2>1. /\ Len(longer) = Len(log) + 1 /\ Len(log) \in Nat /\ longer \in Seq(P!Event)
        /\ longer[Len(log) + 1] = e /\ \A i \in 1 .. Len(log) : longer[i] = log[i]
    OBVIOUS
  <2>2. /\ LoggedOf(ph, s, longer) = IF e.phase = ph /\ e.stream = s
                                     THEN Append(LoggedOf(ph, s, log), e) ELSE LoggedOf(ph, s, log)
    <3>1. \A g \in Seq(P!Event), f \in P!Event :
             LoggedOf(ph, s, Append(g, f)) = IF f.phase = ph /\ f.stream = s
                                             THEN Append(LoggedOf(ph, s, g), f) ELSE LoggedOf(ph, s, g)
      BY LoggedSteps
    <3> QED
      BY <3>1, Zenon
  <2> HIDE DEF longer
  <2>3. ASSUME Earlier(longer) PROVE LoggedOf(ph, s, longer) = <<>>
    <3>1. e.phase # ph
      BY <2>1, <2>3
    <3>2. Earlier(log)
      BY <2>1, <2>3
    <3> QED
      BY <1>2, <2>2, <3>1, <3>2
  <2>4. longer \in Short
    <3> HIDE DEF Earlier
    <3> QED
      BY <2>1, <2>3
  <2> QED
    BY <2>4 DEF longer
<1>3. Seq(P!Event) \subseteq Short
  <2> HIDE DEF Short
  <2> QED
    BY <1>1, <1>2, SequenceInduction
<1> QED
  BY <1>3

SpentOf(log) == P!Fold(P!Spend, 0, log)

LEMMA SpendFolds == Folds(Nat, P!Event, 0, P!Spend)
<1>1. \A n \in Nat, e \in P!Event : n + Overhead + Escape * Len(e.line) \in Nat
  <2> TAKE n \in Nat, e \in P!Event
  <2>1. Len(e.line) \in Nat
    BY DEF P!Event
  <2>2. \A k \in Nat : Escape * k \in Nat
    BY OutputAssumption
  <2>3. Escape * Len(e.line) \in Nat
    BY <2>1, <2>2
  <2> QED
    BY <2>3, OutputAssumption
<1>2. P!Spend \in [Nat -> [P!Event -> Nat]]
  BY <1>1 DEF P!Spend
<1> QED
  BY <1>2 DEF Folds

LEMMA SpentSteps ==
  /\ SpentOf(<<>>) = 0
  /\ \A log \in Seq(P!Event) : SpentOf(log) \in Nat
  /\ \A log \in Seq(P!Event), e \in P!Event :
        SpentOf(Append(log, e)) = SpentOf(log) + Overhead + Escape * Len(e.line)
<1>1. SpentOf(<<>>) = 0
  BY SpendFolds, FoldEmpty, SameFold DEF SpentOf
<1>2. \A log \in Seq(P!Event) : SpentOf(log) \in Nat
  BY SpendFolds, FoldType, SameFold DEF SpentOf
<1>3. ASSUME NEW log \in Seq(P!Event), NEW e \in P!Event
      PROVE  SpentOf(Append(log, e)) = SpentOf(log) + Overhead + Escape * Len(e.line)
  <2>1. SpentOf(Append(log, e)) = P!Spend[SpentOf(log)][e]
    BY SpendFolds, FoldAppend, SameFold DEF SpentOf
  <2> QED
    BY <1>2, <2>1 DEF P!Spend
<1> QED
  BY <1>1, <1>2, <1>3

LEMMA Quotient ==
  ASSUME NEW n \in Nat, NEW e \in Nat \ {0}
  PROVE  n \div e \in Nat /\ e * (n \div e) <= n
<1> DEFINE d == n \div e
<1>1. d \in Nat /\ e * d <= n
  OBVIOUS
<1> QED
  BY <1>1

\* As many bytes as fit, each as long as it can get, are not more than fit.
LEMMA Fits ==
  ASSUME NEW n \in Nat, NEW e \in Nat \ {0}, NEW k \in Nat, k <= n \div e
  PROVE  n \div e \in Nat /\ e * k \in 0 .. n
<1> DEFINE d == n \div e
<1>1. d \in Nat /\ e * d <= n
  BY Quotient
<1> HIDE DEF d
<1>2. PICK m \in Nat : d = k + m
  <2>1. d - k \in Nat /\ d = k + (d - k)
    BY <1>1 DEF d
  <2> QED
    BY <2>1
<1>3. e * d = e * k + e * m /\ e * m \in Nat /\ e * k \in Nat
  BY <1>2
<1> QED
  BY <1>1, <1>3 DEF d

(***************************************************************************)
(* The steps of the copiers and of the run.                                *)
(***************************************************************************)
LEMMA LinesLoggedNext ==
  P!LinesLogged' <=>
      \A s \in P!Stream : StreamOk(Given(s)', LoggedOf(phase', s, events'), remaining' > Overhead)
<1>1. \A s : P!Logged(s)' = LoggedOf(phase', s, events')
  BY DEF P!Logged, P!Keep, LoggedOf, KeepOf
<1>2. P!LinesLogged' <=> \A s \in P!Stream : StreamOk(Given(s)', P!Logged(s)', remaining' > Overhead)
  BY DEF P!LinesLogged, StreamOk, Given
<1> QED
  BY <1>1, <1>2

LEMMA GivenIs ==
  ASSUME PhaseTyped, NEW s \in P!Stream
  PROVE  /\ Given(s) \in Seq({0, 1})
         /\ s \notin flushed => Given(s) = consumed[s]
<1>1. consumed[s] \in Seq({0, 1})
  BY DEF PhaseTyped
<1> QED
  BY <1>1, ScanNewline, ConcatEmptySeq DEF Given

OutputVars == <<phase, buf, truncated, remaining, events>>

LEMMA OutputUntouched ==
  ASSUME OutputInv, UNCHANGED OutputVars, \A s \in P!Stream : Given(s)' = Given(s)
  PROVE  OutputInv'
<1>1. BufferInv'
  BY DEF OutputInv, OutputVars, BufferInv
<1>2. NoLaterPhase'
  BY DEF OutputInv, OutputVars, NoLaterPhase
<1>3. P!LinesLogged'
  <2>1. \A s \in P!Stream : StreamOk(Given(s), LoggedOf(phase, s, events), remaining > Overhead)
    BY LinesLoggedIs, LoggedIs DEF OutputInv
  <2> QED
    BY <2>1, LinesLoggedNext DEF OutputVars
<1> QED
  BY <1>1, <1>2, <1>3 DEF OutputInv, OutputVars, P!Spend, P!Event, P!Fold

\* The line of a stream ends, by a newline or because the stream is flushed.
LEMMA LineEnds ==
  ASSUME PhaseTyped, OutputInv, NEW s \in P!Stream, s \notin flushed, NEW p \in Seq({1}),
         NEW line, line = P!First(buf[s] \o p, MaxLine),
         NEW cut \in BOOLEAN, cut <=> truncated[s] \/ Len(buf[s] \o p) > MaxLine,
         P!Flush(s, line, cut),
         phase' = phase,
         Given(s)' = (Given(s) \o p) \o << 0 >>,
         \A t \in P!Stream \ {s} : Given(t)' = Given(t)
  PROVE  /\ OutputInv' /\ events' \in Seq(P!Event) /\ remaining' \in 0 .. MaxOutput
         /\ buf' = [buf EXCEPT ![s] = <<>>] /\ truncated' = [truncated EXCEPT ![s] = FALSE]
<1> DEFINE c == Given(s) \o p
           X == ScanOf(Given(s)).line \o p
<1>1. /\ Given(s) \in Seq({0, 1}) /\ ScanOf(Given(s)).line \in Seq({1})
      /\ c \in Seq({0, 1}) /\ X \in Seq({1})
      /\ ScanOf(c).line = X /\ ScanOf(c).all = ScanOf(Given(s)).all
  <2>1. Given(s) \in Seq({0, 1})
    BY GivenIs
  <2>2. ScanOf(Given(s)).line \in Seq({1})
    BY <2>1, ScanIs
  <2>3. X \in Seq({1})
    BY <2>2
  <2> QED
    BY <2>1, <2>2, <2>3, ScanPart
<1>2. line = P!First(X, MaxLine) /\ (cut <=> Len(X) > MaxLine)
  <2>1. /\ buf[s] = P!First(ScanOf(Given(s)).line, MaxLine)
        /\ truncated[s] <=> Len(ScanOf(Given(s)).line) > MaxLine
    BY DEF OutputInv, BufferInv
  <2>2. MaxLine \in Nat
    BY OutputAssumption
  <2> DEFINE l == ScanOf(Given(s)).line
  <2>3. l \in Seq({1})
    BY <1>1
  <2> HIDE DEF l
  <2>4. /\ P!First(P!First(l, MaxLine) \o p, MaxLine) = P!First(l \o p, MaxLine)
        /\ Len(l) > MaxLine \/ Len(P!First(l, MaxLine) \o p) > MaxLine <=> Len(l \o p) > MaxLine
    BY <2>2, <2>3, FirstOfFirst
  <2> QED
    BY <2>1, <2>4 DEF l
<1>3. /\ buf' = [buf EXCEPT ![s] = <<>>] /\ truncated' = [truncated EXCEPT ![s] = FALSE]
  BY DEF P!Flush
<1>4. /\ ScanOf(Given(s)').line = <<>>
      /\ Given(s)' = c \o << 0 >>
  BY <1>1, ScanNewline
<1>5. BufferInv'
  <2> SUFFICES ASSUME NEW t \in P!Stream
               PROVE  /\ buf'[t] = P!First(ScanOf(Given(t)').line, MaxLine)
                      /\ truncated'[t] <=> Len(ScanOf(Given(t)').line) > MaxLine
    BY DEF BufferInv
  <2>1. buf \in [P!Stream -> Seq({1})] /\ truncated \in [P!Stream -> BOOLEAN]
    BY DEF PhaseTyped, P!TypeOK
  <2>2. CASE t = s
    <3>1. P!First(<<>>, MaxLine) = <<>> /\ ~(Len(<<>>) > MaxLine)
      BY OutputAssumption DEF P!First
    <3> QED
      BY <1>3, <1>4, <2>1, <2>2, <3>1
  <2>3. CASE t # s
    <3>1. buf'[t] = buf[t] /\ truncated'[t] = truncated[t] /\ Given(t)' = Given(t)
      BY <1>3, <2>1, <2>3
    <3> QED
      BY <3>1 DEF OutputInv, BufferInv
  <2> QED
    BY <2>2, <2>3
<1>6. /\ events \in Seq(P!Event) /\ remaining \in 0 .. MaxOutput
      /\ phase \in 1 .. Phases
  BY DEF PhaseTyped, P!TypeOK
<1>7. \A t \in P!Stream :
         /\ StreamOk(Given(t), LoggedOf(phase, t, events), remaining > Overhead)
         /\ LoggedOf(phase, t, events) \in Seq(P!Event)
  BY <1>6, LinesLoggedIs, LoggedIs, LoggedSteps DEF OutputInv
<1>8. StreamOk(c, LoggedOf(phase, s, events), remaining > Overhead)
  BY <1>1, <1>7, LinesAre DEF StreamOk
<1>9. remaining = MaxOutput - SpentOf(events) /\ NoLaterPhase
  BY DEF OutputInv, SpentOf
<1>10. CASE (line = <<>> /\ ~cut) \/ remaining <= Overhead
  <2>1. remaining' = remaining /\ events' = events
    BY <1>10 DEF P!Flush
  <2>2. P!LinesLogged'
    <3>1. remaining \in Int /\ Overhead \in Int
      BY <1>6, OutputAssumption
    <3>2. X = <<>> \/ ~(remaining > Overhead)
      <4>1. CASE remaining <= Overhead
        BY <3>1, <4>1
      <4>2. CASE line = <<>> /\ ~cut
        BY <1>1, <1>2, <4>2, OutputAssumption DEF P!First
      <4> QED
        BY <1>10, <4>1, <4>2
    <3>3. StreamOk(c \o << 0 >>, LoggedOf(phase, s, events), remaining > Overhead)
      <4>1. (remaining > Overhead) \in BOOLEAN
        OBVIOUS
      <4> HIDE DEF c, X
      <4> QED
        BY <1>1, <1>7, <1>8, <3>2, <4>1, EndUnlogged
    <3>4. \A t \in P!Stream : StreamOk(Given(t)', LoggedOf(phase, t, events), remaining > Overhead)
      BY <1>4, <1>7, <3>3
    <3> QED
      BY <2>1, <3>4, LinesLoggedNext
  <2>3. NoLaterPhase'
    BY <1>9, <2>1 DEF NoLaterPhase
  <2>4. remaining' = MaxOutput - SpentOf(events')
    BY <1>9, <2>1
  <2> QED
    BY <1>3, <1>5, <1>6, <2>1, <2>2, <2>3, <2>4 DEF OutputInv, SpentOf
<1>11. CASE ~((line = <<>> /\ ~cut) \/ remaining <= Overhead)
  <2> DEFINE n == (remaining - Overhead) \div Escape
             content == P!First(line, n)
             e == [phase |-> phase, stream |-> s, line |-> content, truncated |-> cut \/ content # line]
  <2>1. remaining' = remaining - (Escape * Len(content) + Overhead) /\ events' = Append(events, e)
    BY <1>11 DEF P!Flush
  <2>2. /\ Overhead \in Nat /\ Escape \in Nat \ {0} /\ remaining - Overhead \in Nat
        /\ remaining > Overhead /\ n \in Nat
    <3>1. Overhead \in Nat /\ Escape \in Nat \ {0} /\ MaxOutput \in Nat
      BY OutputAssumption
    <3>2. remaining > Overhead /\ remaining - Overhead \in Nat
      BY <1>6, <1>11, <3>1
    <3> QED
      BY <3>1, <3>2, Quotient
  <2>3. /\ line \in Seq({1}) /\ content \in Seq({1}) /\ Len(content) <= n
        /\ (line = <<>> /\ ~cut <=> X = <<>>)
        /\ P!IsPrefix(content, X)
        /\ (cut \/ content # line) <=> content # X
    <3>1. content = P!First(line, n)
      OBVIOUS
    <3> HIDE DEF X, n, content
    <3>2. X \in Seq({1}) /\ n \in Nat /\ line = P!First(X, MaxLine) /\ (cut <=> Len(X) > MaxLine)
      BY <1>1, <1>2, <2>2
    <3> QED
      BY <3>1, <3>2, ContentIs, ZenonT(30)
  <2>4. e \in P!Event /\ e.phase = phase /\ e.stream = s /\ e.line = content
        /\ (e.truncated <=> content # X)
    BY <1>6, <2>3 DEF P!Event
  <2> HIDE DEF e, content, n
  <2>5. Len(content) \in Nat /\ Escape * Len(content) \in 0 .. remaining - Overhead
    <3>1. Len(content) \in Nat
      BY <2>3
    <3> QED
      BY <2>2, <2>3, <3>1, Fits DEF n
  <2>6. remaining' \in 0 .. MaxOutput /\ events' \in Seq(P!Event)
    <3>1. events' \in Seq(P!Event)
      BY <1>6, <2>1, <2>4
    <3> DEFINE spent == Escape * Len(content)
    <3>2. spent \in 0 .. remaining - Overhead /\ remaining' = remaining - (spent + Overhead)
      BY <2>1, <2>5
    <3> HIDE DEF spent
    <3>3. remaining' \in 0 .. MaxOutput
      <4>1. remaining \in 0 .. MaxOutput /\ MaxOutput \in Nat /\ Overhead \in Nat
            /\ remaining - Overhead \in Nat
        BY <1>6, <2>2, OutputAssumption
      <4> QED
        BY <3>2, <4>1
    <3> QED
      BY <3>1, <3>3
  <2>7. remaining' = MaxOutput - SpentOf(events')
    <3>1. SpentOf(events') = SpentOf(events) + Overhead + Escape * Len(content)
      BY <1>6, <2>1, <2>4, SpentSteps
    <3>2. SpentOf(events) \in Nat /\ MaxOutput \in Nat /\ Escape * Len(content) \in Nat
      BY <1>6, <2>5, SpentSteps, OutputAssumption
    <3> QED
      BY <1>9, <2>1, <2>2, <3>1, <3>2
  <2>8. NoLaterPhase'
    <3>1. /\ Len(events') = Len(events) + 1 /\ events'[Len(events) + 1] = e
          /\ \A i \in 1 .. Len(events) : events'[i] = events[i]
      BY <1>6, <2>1
    <3>2. Len(events) \in Nat /\ phase \in Int
      BY <1>6
    <3>3. ASSUME NEW i \in 1 .. Len(events') PROVE events'[i].phase <= phase'
      <4>1. CASE i = Len(events) + 1
        BY <2>4, <3>1, <3>2, <4>1
      <4>2. CASE i # Len(events) + 1
        <5>1. i \in 1 .. Len(events)
          BY <3>1, <3>2, <4>2
        <5> QED
          BY <1>9, <3>1, <5>1 DEF NoLaterPhase
      <4> QED
        BY <4>1, <4>2
    <3> QED
      BY <3>3 DEF NoLaterPhase
  <2>9. P!LinesLogged'
    <3> SUFFICES ASSUME NEW t \in P!Stream
                 PROVE  StreamOk(Given(t)', LoggedOf(phase, t, events'), remaining' > Overhead)
      BY LinesLoggedNext
    <3>1. \A u : LoggedOf(phase, u, events') =
             IF u = s THEN Append(LoggedOf(phase, u, events), e) ELSE LoggedOf(phase, u, events)
      <4> TAKE u
      <4>1. \A g \in Seq(P!Event), f \in P!Event :
               LoggedOf(phase, u, Append(g, f)) = IF f.phase = phase /\ f.stream = u
                                                  THEN Append(LoggedOf(phase, u, g), f)
                                                  ELSE LoggedOf(phase, u, g)
        BY LoggedSteps
      <4>2. LoggedOf(phase, u, Append(events, e)) = IF e.phase = phase /\ e.stream = u
                                                    THEN Append(LoggedOf(phase, u, events), e)
                                                    ELSE LoggedOf(phase, u, events)
        BY <1>6, <2>4, <4>1
      <4> QED
        BY <2>1, <2>4, <4>2
    <3>2. CASE t = s
      <4>1. StreamOk(c, LoggedOf(phase, s, events), TRUE)
        BY <1>8, <2>2 DEF StreamOk
      <4>2. X # <<>>
        BY <1>11, <2>3
      <4>3. StreamOk(c \o << 0 >>, Append(LoggedOf(phase, s, events), e), remaining' > Overhead)
        <5>1. (remaining' > Overhead) \in BOOLEAN
          OBVIOUS
        <5>2. ScanOf(c).line # <<>> /\ P!IsPrefix(e.line, ScanOf(c).line)
              /\ (e.truncated <=> e.line # ScanOf(c).line)
          BY <1>1, <2>3, <2>4, <4>2
        <5> HIDE DEF c, X
        <5> QED
          BY <1>1, <1>7, <2>4, <4>1, <5>1, <5>2, EndLogged
      <4> QED
        BY <1>4, <3>1, <3>2, <4>3
    <3>3. CASE t # s
      <4>1. remaining' > Overhead => remaining > Overhead
        BY <2>2
      <4> QED
        BY <1>7, <3>1, <3>3, <4>1 DEF StreamOk
    <3> QED
      BY <3>2, <3>3
  <2> QED
    BY <1>3, <1>5, <2>6, <2>7, <2>8, <2>9 DEF OutputInv, SpentOf
<1> QED
  BY <1>10, <1>11

Quiet == UNCHANGED OutputVars

LEMMA StreamIs == P!Stream = {"stdout", "stderr"}
  BY DEF P!Stream

\* What is left of the buffers is within their bound.
LEMMA BufferBound ==
  ASSUME BufferInv, PhaseTyped, NEW s \in P!Stream
  PROVE  Len(buf[s]) \in 0 .. MaxLine
<1>1. Given(s) \in Seq({0, 1}) /\ MaxLine \in Nat
  BY GivenIs, OutputAssumption
<1> DEFINE l == ScanOf(Given(s)).line
<1>2. l \in Seq({1}) /\ buf[s] = P!First(l, MaxLine)
  BY <1>1, ScanIs DEF BufferInv
<1> HIDE DEF l
<1>3. Len(buf[s]) = IF Len(l) > MaxLine THEN MaxLine ELSE Len(l)
  BY <1>1, <1>2, FirstIs
<1>4. Len(l) \in Nat
  BY <1>2
<1> QED
  BY <1>1, <1>3, <1>4

\* PhaseTyped after a step, from what the step writes.
LEMMA OutputTyped ==
  ASSUME PhaseTyped, FlushInOrder, OutputInv', UNCHANGED <<phase, uncertain, copying>>,
         phasePc' \in {"run", "flushStdout", "flushStderr", "version", "next", "ended"},
         flushed' \subseteq P!Stream,
         input' \in [P!Stream -> Seq({0, 1})], consumed' \in [P!Stream -> Seq({0, 1})],
         \A t \in P!Stream : Len(consumed'[t]) + Len(input'[t]) <= MaxSent,
         events' \in Seq(P!Event), remaining' \in 0 .. MaxOutput,
         buf' \in [P!Stream -> Seq({1})], truncated' \in [P!Stream -> BOOLEAN]
  PROVE  PhaseTyped'
<1>2. ASSUME NEW t \in P!Stream PROVE Len(buf'[t]) <= MaxLine
  <2>1. Given(t)' \in Seq({0, 1}) /\ MaxLine \in Nat
    <3>1. consumed'[t] \in Seq({0, 1}) /\ << 0 >> \in Seq({0, 1}) /\ <<>> \in Seq({0, 1})
      OBVIOUS
    <3>2. \A u \in Seq({0, 1}), v \in Seq({0, 1}) : u \o v \in Seq({0, 1})
      OBVIOUS
    <3>3. Given(t)' = consumed'[t] \o (IF t \in flushed' THEN << 0 >> ELSE <<>>)
      BY DEF Given
    <3> QED
      BY <3>1, <3>2, <3>3, OutputAssumption
  <2> DEFINE l == ScanOf(Given(t)').line
  <2>2. l \in Seq({1}) /\ buf'[t] = P!First(l, MaxLine)
    BY <2>1, ScanIs DEF OutputInv, BufferInv
  <2> HIDE DEF l
  <2>3. Len(buf'[t]) = IF Len(l) > MaxLine THEN MaxLine ELSE Len(l)
    BY <2>1, <2>2, FirstIs
  <2>4. Len(l) \in Nat
    BY <2>2
  <2> QED
    BY <2>1, <2>3, <2>4
<1>3. ASSUME NEW t \in P!Stream PROVE Len(consumed'[t]) <= MaxSent
  <2>1. Len(consumed'[t]) \in Nat /\ Len(input'[t]) \in Nat /\ MaxSent \in Nat
    BY OutputAssumption
  <2> QED
    BY <2>1
<1>4. P!TypeOK'
  <2>1. phase \in 1 .. Phases /\ uncertain \in BOOLEAN /\ copying \subseteq P!Stream
    BY DEF PhaseTyped, P!TypeOK
  <2> QED
    BY <1>2, <1>3, <2>1 DEF P!TypeOK
<1> QED
  BY <1>4 DEF PhaseTyped, P!Event

LEMMA ReadPieceStep ==
  ASSUME PhaseInv, NEW s \in P!Stream, P!ReadPiece(s)
  PROVE  PhaseInv'
<1> USE DEF PhaseInv
<1>1. PICK p \in P!Piece : /\ Len(consumed[s]) + Len(p) <= MaxSent
                           /\ input' = [input EXCEPT ![s] = p]
  BY DEF P!ReadPiece
<1>2. p \in Seq({0, 1})
  BY OutputAssumption DEF P!Piece, P!BoundedSeq, P!SeqOf
<1>3. UNCHANGED <<phase, phasePc, uncertain, copying, buf, truncated, consumed, flushed, remaining, events>>
  BY DEF P!ReadPiece
<1>4. PhaseTyped'
  <2>1. input' \in [P!Stream -> Seq({0, 1})]
    BY <1>1, <1>2 DEF PhaseTyped
  <2>2. \A t \in P!Stream : Len(consumed'[t]) + Len(input'[t]) <= MaxSent
    BY <1>1, <1>3 DEF PhaseTyped
  <2> QED
    BY <1>3, <2>1, <2>2 DEF PhaseTyped, P!TypeOK, P!Event
<1>5. FlushInOrder'
  BY <1>3 DEF FlushInOrder
<1>6. OutputInv'
  <2>1. \A t \in P!Stream : Given(t)' = Given(t)
    BY <1>3 DEF Given
  <2> QED
    BY <1>3, <2>1, OutputUntouched DEF OutputVars
<1> QED
  BY <1>4, <1>5, <1>6

\* Steps that leave the streams alone.
LEMMA ControlStep ==
  ASSUME PhaseInv, UNCHANGED <<phase, input, buf, truncated, consumed, flushed, remaining, events>>,
         phasePc' \in {"run", "flushStdout", "flushStderr", "version", "next", "ended"},
         uncertain' \in BOOLEAN, copying' \subseteq P!Stream,
         FlushInOrder'
  PROVE  PhaseInv'
<1> USE DEF PhaseInv
<1>1. PhaseTyped'
  BY DEF PhaseTyped, P!TypeOK, P!Event
<1>2. OutputInv'
  <2>1. \A t \in P!Stream : Given(t)' = Given(t)
    BY DEF Given
  <2> QED
    BY <2>1, OutputUntouched DEF OutputVars
<1> QED
  BY <1>1, <1>2

LEMMA ControlSteps ==
  ASSUME PhaseInv,
         \/ P!PhaseReturns \/ P!PhaseUncertain \/ P!ReadVersion \/ P!End
         \/ \E s \in P!Stream : P!StreamEnds(s)
  PROVE  PhaseInv'
<1> USE DEF PhaseInv
<1>1. FlushInOrder /\ copying \subseteq P!Stream /\ uncertain \in BOOLEAN
      /\ phasePc \in {"run", "flushStdout", "flushStderr", "version", "next", "ended"}
  BY DEF PhaseTyped, P!TypeOK
<1>2. CASE P!PhaseReturns
  BY <1>1, <1>2, ControlStep DEF P!PhaseReturns, P!lineVars, FlushInOrder
<1>3. CASE P!PhaseUncertain
  BY <1>1, <1>3, ControlStep DEF P!PhaseUncertain, P!lineVars, FlushInOrder, P!AfterFlush
<1>4. CASE P!ReadVersion
  BY <1>1, <1>4, ControlStep DEF P!ReadVersion, P!lineVars, FlushInOrder
<1>5. CASE P!End
  BY <1>1, <1>5, ControlStep DEF P!End, P!lineVars, FlushInOrder
<1>6. ASSUME NEW s \in P!Stream, P!StreamEnds(s) PROVE PhaseInv'
  BY <1>1, <1>6, ControlStep DEF P!StreamEnds, P!lineVars, FlushInOrder
<1> QED
  BY <1>2, <1>3, <1>4, <1>5, <1>6

LEMMA NothingIs == <<>> \in Seq({1}) /\ Len(<<>>) = 0
  OBVIOUS

\* The piece up to its first newline, if it has one, and what comes after it.
ChunkOf(q) == IF P!Newline(q) = 0 THEN q ELSE SubSeq(q, 1, P!Newline(q) - 1)
RestOf(q) == IF P!Newline(q) = 0 THEN <<>> ELSE SubSeq(q, P!Newline(q) + 1, Len(q))
DoneOf(q) == P!First(q, Len(ChunkOf(q)) + 1)

LEMMA NewlineIs ==
  ASSUME NEW q \in Seq({0, 1}), q # <<>>
  PROVE  /\ ChunkOf(q) \in Seq({1}) /\ RestOf(q) \in Seq({0, 1})
         /\ P!Newline(q) = 0 => DoneOf(q) = ChunkOf(q)
         /\ P!Newline(q) # 0 => DoneOf(q) = ChunkOf(q) \o << 0 >>
         /\ Len(DoneOf(q)) + Len(RestOf(q)) = Len(q)
<1> DEFINE n == P!Newline(q)
           chunk == ChunkOf(q)
           rest == RestOf(q)
<1>0. /\ chunk = IF n = 0 THEN q ELSE SubSeq(q, 1, n - 1)
      /\ rest = IF n = 0 THEN <<>> ELSE SubSeq(q, n + 1, Len(q))
      /\ DoneOf(q) = P!First(q, Len(chunk) + 1)
  BY DEF ChunkOf, RestOf, DoneOf
<1> DEFINE at == {i \in 1 .. Len(q) : q[i] = 0}
<1>1. Len(q) \in Nat /\ \A i \in 1 .. Len(q) : q[i] \in {0, 1}
  OBVIOUS
<1>2. n = IF at = {} THEN 0 ELSE CHOOSE i \in at : \A j \in at : i <= j
  BY DEF P!Newline
<1> HIDE DEF n, chunk, rest
<1>3. CASE at = {}
  <2>1. n = 0 /\ chunk = q /\ rest = <<>>
    BY <1>0, <1>2, <1>3
  <2>2. \A i \in 1 .. Len(q) : q[i] \in {1}
    BY <1>1, <1>3
  <2>3. q \in Seq({1})
    BY <1>1, <2>2
  <2>4. P!First(q, Len(q) + 1) = q
    BY <1>1 DEF P!First
  <2>5. Len(<<>>) = 0 /\ <<>> \in Seq({0, 1})
    OBVIOUS
  <2> QED
    BY <1>0, <1>1, <2>1, <2>3, <2>4, <2>5 DEF n, chunk, rest
<1>4. CASE at # {}
  <2>1. at \in SUBSET Nat
    OBVIOUS
  <2>2. n \in at /\ \A j \in at : n <= j
    <3>1. \E x \in at : \A y \in at : x <= y
      <4> HIDE DEF at
      <4> QED
        BY <1>4, <2>1, LeastNumber
    <3> QED
      BY <1>2, <1>4, <3>1
  <2>3. n \in 1 .. Len(q) /\ q[n] = 0 /\ \A i \in 1 .. n - 1 : q[i] = 1
    BY <1>1, <2>2
  <2>4. n # 0 /\ chunk = SubSeq(q, 1, n - 1) /\ rest = SubSeq(q, n + 1, Len(q))
    <3>1. n # 0
      BY <1>1, <2>3
    <3> QED
      BY <1>0, <3>1, Zenon
  <2>5. chunk \in Seq({1}) /\ Len(chunk) = n - 1 /\ \A i \in 1 .. n - 1 : chunk[i] = q[i]
    BY <1>1, <2>3, <2>4
  <2>6. rest \in Seq({0, 1}) /\ Len(rest) = Len(q) - n
    BY <1>1, <2>3, <2>4
  <2> DEFINE f == P!First(q, n)
  <2>7. f \in Seq({0, 1}) /\ Len(f) = n /\ \A i \in 1 .. n : f[i] = q[i]
    BY <1>1, <2>3, FirstIs
  <2> HIDE DEF f
  <2>8. f = chunk \o << 0 >>
    BY <2>3, <2>5, <2>7
  <2>9. P!First(q, Len(chunk) + 1) = chunk \o << 0 >>
        /\ Len(P!First(q, Len(chunk) + 1)) + Len(rest) = Len(q)
    <3>1. Len(chunk) + 1 = n
      BY <2>3, <2>5
    <3>2. P!First(q, Len(chunk) + 1) = f
      BY <3>1 DEF f
    <3>3. Len(f) + Len(rest) = Len(q)
      BY <1>1, <2>3, <2>6, <2>7
    <3> QED
      BY <2>8, <3>2, <3>3
  <2> QED
    BY <1>0, <2>4, <2>5, <2>6, <2>9 DEF n, chunk, rest
<1> QED
  BY <1>3, <1>4

LEMMA WritePartStep ==
  ASSUME PhaseInv, NEW s \in P!Stream, P!WritePart(s)
  PROVE  PhaseInv'
<1> DEFINE q == input[s]
           n == P!Newline(q)
           chunk == ChunkOf(q)
           rest == RestOf(q)
           done == DoneOf(q)
           line == P!First(buf[s] \o chunk, MaxLine)
           cut == truncated[s] \/ Len(buf[s] \o chunk) > MaxLine
<1>1. PhaseTyped /\ FlushInOrder /\ OutputInv
  BY DEF PhaseInv
<1>2. s \in copying /\ q # <<>> /\ flushed = {}
  BY <1>1 DEF P!WritePart, FlushInOrder
<1>3. UNCHANGED <<phase, phasePc, uncertain, copying, flushed>>
  BY DEF P!WritePart
<1>4. /\ input' = [input EXCEPT ![s] = rest]
      /\ consumed' = [consumed EXCEPT ![s] = @ \o done]
      /\ n = 0 => /\ buf' = [buf EXCEPT ![s] = line]
                  /\ truncated' = [truncated EXCEPT ![s] = cut]
                  /\ UNCHANGED <<remaining, events>>
      /\ n # 0 => P!Flush(s, line, cut)
  BY DEF P!WritePart, ChunkOf, RestOf, DoneOf
<1>5. /\ input \in [P!Stream -> Seq({0, 1})] /\ consumed \in [P!Stream -> Seq({0, 1})]
      /\ buf \in [P!Stream -> Seq({1})] /\ truncated \in [P!Stream -> BOOLEAN]
      /\ \A t \in P!Stream : Len(consumed[t]) + Len(input[t]) <= MaxSent
  BY <1>1 DEF PhaseTyped, P!TypeOK
<1>6. /\ chunk \in Seq({1}) /\ rest \in Seq({0, 1})
      /\ n = 0 => done = chunk
      /\ n # 0 => done = chunk \o << 0 >>
      /\ Len(done) + Len(rest) = Len(q)
  <2>1. q \in Seq({0, 1})
    BY <1>5
  <2> HIDE DEF q
  <2> QED
    BY <1>2, <2>1, NewlineIs
<1> HIDE DEF q, n, chunk, rest, done, line, cut
<1>7. done \in Seq({0, 1})
  BY <1>6
<1>8. /\ input' \in [P!Stream -> Seq({0, 1})] /\ consumed' \in [P!Stream -> Seq({0, 1})]
      /\ input'[s] = rest /\ consumed'[s] = consumed[s] \o done
      /\ \A t \in P!Stream \ {s} : input'[t] = input[t] /\ consumed'[t] = consumed[t]
  BY <1>4, <1>5, <1>6, <1>7
<1>9. \A t \in P!Stream : Len(consumed'[t]) + Len(input'[t]) <= MaxSent
  <2>1. Len(consumed'[s]) = Len(consumed[s]) + Len(done)
    BY <1>5, <1>7, <1>8
  <2>2. /\ Len(consumed[s]) \in Nat /\ Len(done) \in Nat /\ Len(rest) \in Nat /\ Len(q) \in Nat
        /\ Len(consumed[s]) + Len(q) <= MaxSent /\ MaxSent \in Nat
    BY <1>5, <1>6, <1>7, OutputAssumption DEF q
  <2>3. Len(consumed'[s]) + Len(input'[s]) <= MaxSent
    BY <1>6, <1>8, <2>1, <2>2
  <2> QED
    BY <1>5, <1>8, <2>3
<1>10. /\ \A t \in P!Stream \ {s} : Given(t)' = Given(t)
       /\ Given(s) = consumed[s] /\ Given(s)' = Given(s) \o done
  <2>1. \A t \in P!Stream : Given(t) = consumed[t] /\ Given(t)' = consumed'[t]
    BY <1>2, <1>3, <1>5, <1>8, ConcatEmptySeq DEF Given
  <2> QED
    BY <1>8, <2>1
<1>11. Given(s) \in Seq({0, 1})
  BY <1>5, <1>10
<1>12. /\ UNCHANGED <<phase, uncertain, copying>> /\ flushed' \subseteq P!Stream
       /\ phasePc' \in {"run", "flushStdout", "flushStderr", "version", "next", "ended"}
       /\ FlushInOrder'
  BY <1>1, <1>3 DEF PhaseTyped, P!TypeOK, FlushInOrder
<1>13. CASE n # 0
  <2>1. Given(s)' = (Given(s) \o chunk) \o << 0 >>
    <3>1. \A u \in Seq({0, 1}), v \in Seq({1}) : u \o (v \o << 0 >>) = (u \o v) \o << 0 >>
      OBVIOUS
    <3> QED
      BY <1>6, <1>10, <1>11, <1>13, <3>1
  <2>2. cut \in BOOLEAN
    BY <1>5 DEF cut
  <2>3. /\ OutputInv' /\ events' \in Seq(P!Event) /\ remaining' \in 0 .. MaxOutput
        /\ buf' = [buf EXCEPT ![s] = <<>>] /\ truncated' = [truncated EXCEPT ![s] = FALSE]
    BY <1>1, <1>2, <1>3, <1>4, <1>6, <1>10, <1>13, <2>1, <2>2, LineEnds DEF line, cut
  <2>4. buf' \in [P!Stream -> Seq({1})] /\ truncated' \in [P!Stream -> BOOLEAN]
    BY <1>5, <2>3, NothingIs
  <2> QED
    BY <1>1, <1>8, <1>9, <1>12, <2>3, <2>4, OutputTyped DEF PhaseInv
<1>14. CASE n = 0
  <2>1. /\ Given(s)' = Given(s) \o chunk /\ MaxLine \in Nat
        /\ UNCHANGED <<phase, remaining, events>>
    BY <1>3, <1>4, <1>6, <1>10, <1>14, OutputAssumption
  <2> DEFINE l == ScanOf(Given(s)).line
  <2>2. /\ l \in Seq({1}) /\ Given(s)' \in Seq({0, 1})
        /\ ScanOf(Given(s)').line = l \o chunk /\ ScanOf(Given(s)').all = ScanOf(Given(s)).all
    <3>1. ScanOf(Given(s)).line \in Seq({1})
      BY <1>11, ScanIs
    <3> QED
      BY <1>6, <1>11, <2>1, <3>1, ScanPart
  <2>3. buf[s] = P!First(l, MaxLine) /\ (truncated[s] <=> Len(l) > MaxLine)
    BY <1>1 DEF OutputInv, BufferInv
  <2> HIDE DEF l
  <2>4. line = P!First(l \o chunk, MaxLine) /\ (cut <=> Len(l \o chunk) > MaxLine)
    <3>1. /\ P!First(P!First(l, MaxLine) \o chunk, MaxLine) = P!First(l \o chunk, MaxLine)
          /\ Len(l) > MaxLine \/ Len(P!First(l, MaxLine) \o chunk) > MaxLine
                <=> Len(l \o chunk) > MaxLine
      BY <1>6, <2>1, <2>2, FirstOfFirst
    <3> QED
      BY <2>3, <3>1 DEF line, cut
  <2>5. line \in Seq({1})
    <3>1. l \o chunk \in Seq({1})
      BY <1>6, <2>2
    <3> QED
      BY <2>1, <2>4, <3>1, FirstIs
  <2>6. /\ buf' \in [P!Stream -> Seq({1})] /\ truncated' \in [P!Stream -> BOOLEAN]
        /\ buf'[s] = line /\ truncated'[s] = cut
        /\ \A t \in P!Stream \ {s} : buf'[t] = buf[t] /\ truncated'[t] = truncated[t]
    <3>1. cut \in BOOLEAN
      BY <1>5 DEF cut
    <3> QED
      BY <1>4, <1>5, <1>14, <2>5, <3>1
  <2>7. BufferInv'
    <3> SUFFICES ASSUME NEW t \in P!Stream
                 PROVE  /\ buf'[t] = P!First(ScanOf(Given(t)').line, MaxLine)
                        /\ truncated'[t] <=> Len(ScanOf(Given(t)').line) > MaxLine
      BY DEF BufferInv
    <3>1. CASE t = s
      BY <2>2, <2>4, <2>6, <3>1
    <3>2. CASE t # s
      BY <1>1, <1>10, <2>6, <3>2 DEF OutputInv, BufferInv
    <3> QED
      BY <3>1, <3>2
  <2>8. P!LinesLogged'
    <3>1. \A t \in P!Stream : StreamOk(Given(t), LoggedOf(phase, t, events), remaining > Overhead)
      BY <1>1, LinesLoggedIs, LoggedIs DEF OutputInv
    <3>2. StreamOk(Given(s)', LoggedOf(phase, s, events), remaining > Overhead)
      BY <2>2, <3>1, LinesAre DEF StreamOk
    <3>3. \A t \in P!Stream : StreamOk(Given(t)', LoggedOf(phase, t, events), remaining > Overhead)
      BY <1>10, <3>1, <3>2
    <3> QED
      BY <2>1, <3>3, LinesLoggedNext
  <2>9. OutputInv'
    <3>1. remaining' = MaxOutput - P!Fold(P!Spend, 0, events)' /\ NoLaterPhase'
      BY <1>1, <2>1 DEF OutputInv, NoLaterPhase, P!Fold, P!Spend, P!Event
    <3> QED
      BY <2>7, <2>8, <3>1, <2>1 DEF OutputInv, P!Fold, P!Spend, P!Event
  <2>10. events' \in Seq(P!Event) /\ remaining' \in 0 .. MaxOutput
    BY <1>1, <2>1 DEF PhaseTyped
  <2> QED
    BY <1>1, <1>8, <1>9, <1>12, <2>6, <2>9, <2>10, OutputTyped DEF PhaseInv
<1> QED
  BY <1>13, <1>14

LEMMA CloseStreamStep ==
  ASSUME PhaseInv, NEW s \in P!Stream, P!CloseStream(s)
  PROVE  PhaseInv'
<1>1. PhaseTyped /\ FlushInOrder /\ OutputInv
  BY DEF PhaseInv
<1>2. /\ phasePc = P!Flushing[s] /\ flushed' = flushed \cup {s}
      /\ P!Flush(s, buf[s], truncated[s])
      /\ phasePc' = (IF s = "stdout" THEN "flushStderr" ELSE P!AfterFlush)
      /\ UNCHANGED <<phase, uncertain, copying, input, consumed>>
  BY DEF P!CloseStream
<1>3. /\ consumed \in [P!Stream -> Seq({0, 1})] /\ input \in [P!Stream -> Seq({0, 1})]
      /\ buf \in [P!Stream -> Seq({1})] /\ truncated \in [P!Stream -> BOOLEAN]
      /\ \A t \in P!Stream : Len(consumed[t]) + Len(input[t]) <= MaxSent
      /\ flushed \subseteq P!Stream /\ phase \in 1 .. Phases /\ uncertain \in BOOLEAN
      /\ copying \subseteq P!Stream
  BY <1>1 DEF PhaseTyped, P!TypeOK
<1>4. copying = {} /\ s \notin flushed
  BY <1>1, <1>2, StreamIs DEF FlushInOrder, P!Flushing
<1>5. FlushInOrder' /\ phasePc' \in {"run", "flushStdout", "flushStderr", "version", "next", "ended"}
  BY <1>1, <1>2, <1>3, <1>4, StreamIs DEF FlushInOrder, P!Flushing, P!AfterFlush
<1>6. /\ Given(s)' = Given(s) \o << 0 >>
      /\ \A t \in P!Stream \ {s} : Given(t)' = Given(t)
  <2>1. consumed[s] \o <<>> = consumed[s]
    BY <1>3, ConcatEmptySeq
  <2> QED
    BY <1>2, <1>4, <2>1 DEF Given
<1>7. /\ OutputInv' /\ events' \in Seq(P!Event) /\ remaining' \in 0 .. MaxOutput
      /\ buf' = [buf EXCEPT ![s] = <<>>] /\ truncated' = [truncated EXCEPT ![s] = FALSE]
  <2> DEFINE none == <<>>
  <2>1. none \in Seq({1}) /\ buf[s] \o none = buf[s] /\ Given(s) \o none = Given(s)
    <3>1. buf[s] \in Seq({1}) /\ Given(s) \in Seq({0, 1})
      BY <1>1, <1>3, GivenIs
    <3> QED
      BY <3>1, ConcatEmptySeq
  <2>2. Len(buf[s]) \in 0 .. MaxLine /\ MaxLine \in Nat
    BY <1>1, BufferBound, OutputAssumption DEF OutputInv
  <2>3. P!First(buf[s], MaxLine) = buf[s] /\ ~(Len(buf[s]) > MaxLine)
    BY <2>2 DEF P!First
  <2> HIDE DEF none
  <2>4. /\ buf[s] = P!First(buf[s] \o none, MaxLine) /\ truncated[s] \in BOOLEAN
        /\ truncated[s] <=> truncated[s] \/ Len(buf[s] \o none) > MaxLine
        /\ Given(s)' = (Given(s) \o none) \o << 0 >>
    BY <1>3, <1>6, <2>1, <2>3
  <2> QED
    BY <1>1, <1>2, <1>4, <1>6, <2>1, <2>4, LineEnds
<1>8. flushed' \subseteq P!Stream
  BY <1>2, <1>3
<1>9. buf' \in [P!Stream -> Seq({1})] /\ truncated' \in [P!Stream -> BOOLEAN]
  BY <1>3, <1>7, NothingIs
<1>10. input' \in [P!Stream -> Seq({0, 1})] /\ consumed' \in [P!Stream -> Seq({0, 1})]
       /\ \A t \in P!Stream : Len(consumed'[t]) + Len(input'[t]) <= MaxSent
  BY <1>2, <1>3
<1> QED
  BY <1>1, <1>2, <1>5, <1>7, <1>8, <1>9, <1>10, OutputTyped DEF PhaseInv

\* A stream that has been given nothing.
LEMMA NothingGiven ==
  /\ ScanOf(<<>>).line = <<>>
  /\ P!First(<<>>, MaxLine) = <<>> /\ ~(Len(<<>>) > MaxLine)
  /\ \A room : StreamOk(<<>>, <<>>, room)
<1>1. P!First(<<>>, MaxLine) = <<>> /\ ~(Len(<<>>) > MaxLine)
  BY OutputAssumption DEF P!First
<1>2. ScanOf(<<>>).line = <<>> /\ ScanOf(<<>>).all = <<>>
  BY ScanIs DEF NothingScanned
<1>3. ASSUME NEW room PROVE StreamOk(<<>>, <<>>, room)
  <2>1. P!Lines(<<>>) = <<>> /\ Len(<<>>) = 0
    BY <1>2, LinesAre
  <2> QED
    BY <2>1 DEF StreamOk
<1> QED
  BY <1>1, <1>2, <1>3

LEMMA NextPhaseStep ==
  ASSUME PhaseInv, P!NextPhase
  PROVE  PhaseInv'
<1> DEFINE none == <<>>
<1>1. PhaseTyped /\ FlushInOrder /\ OutputInv
  BY DEF PhaseInv
<1>2. /\ phasePc = "next" /\ ~uncertain /\ phase < Phases
      /\ phase' = phase + 1 /\ phasePc' = "run" /\ copying' = P!Stream
      /\ input' = [s \in P!Stream |-> none] /\ consumed' = [s \in P!Stream |-> none]
      /\ flushed' = {}
      /\ UNCHANGED <<uncertain, buf, truncated, remaining, events>>
  BY DEF P!NextPhase
<1>3. flushed = P!Stream
  BY <1>1, <1>2 DEF FlushInOrder
<1>4. /\ buf \in [P!Stream -> Seq({1})] /\ truncated \in [P!Stream -> BOOLEAN]
      /\ phase \in 1 .. Phases /\ Phases \in Nat /\ MaxSent \in Nat /\ MaxLine \in Nat
      /\ events \in Seq(P!Event) /\ remaining \in 0 .. MaxOutput /\ uncertain \in BOOLEAN
      /\ consumed \in [P!Stream -> Seq({0, 1})]
  BY <1>1, OutputAssumption DEF PhaseTyped, P!TypeOK
<1>5. none \in Seq({0, 1}) /\ Len(none) = 0 /\ none \o none = none
  OBVIOUS
<1>6. \A s \in P!Stream : Given(s)' = none /\ input'[s] = none /\ consumed'[s] = none
  BY <1>2, <1>5 DEF Given
<1>7. ScanOf(none).line = none /\ P!First(none, MaxLine) = none /\ ~(Len(none) > MaxLine)
      /\ \A room : StreamOk(none, none, room)
  BY NothingGiven
<1>8. \A s \in P!Stream : buf[s] = none /\ ~truncated[s]
  <2> TAKE s \in P!Stream
  <2>1. Given(s) = consumed[s] \o << 0 >>
    BY <1>3 DEF Given
  <2>2. ScanOf(Given(s)).line = none
    BY <1>4, <2>1, ScanNewline
  <2> QED
    BY <1>1, <1>7, <2>2 DEF OutputInv, BufferInv
<1> HIDE DEF none
<1>9. BufferInv'
  BY <1>2, <1>6, <1>7, <1>8 DEF BufferInv
<1>10. NoLaterPhase /\ Len(events) \in Nat
       /\ \A i \in 1 .. Len(events) : events[i].phase \in Nat
  <2>1. \A e \in P!Event : e.phase \in Nat
    BY <1>4 DEF P!Event
  <2>2. \A i \in 1 .. Len(events) : events[i] \in P!Event
    BY <1>4
  <2> QED
    BY <1>1, <1>4, <2>1, <2>2 DEF OutputInv
<1>11. NoLaterPhase'
  <2>1. \A i \in 1 .. Len(events) : events[i].phase <= phase + 1
    BY <1>4, <1>10 DEF NoLaterPhase
  <2> QED
    BY <1>2, <2>1 DEF NoLaterPhase
<1>12. P!LinesLogged'
  <2>1. \A i \in 1 .. Len(events) : events[i].phase # phase + 1
    BY <1>4, <1>10 DEF NoLaterPhase
  <2>2. \A s \in P!Stream : LoggedOf(phase + 1, s, events) = none
    BY <1>4, <2>1, NothingLogged DEF none
  <2>3. \A s \in P!Stream : StreamOk(Given(s)', LoggedOf(phase', s, events'), remaining' > Overhead)
    BY <1>2, <1>6, <1>7, <2>2
  <2> QED
    BY <2>3, LinesLoggedNext
<1>13. OutputInv'
  <2>1. remaining' = MaxOutput - P!Fold(P!Spend, 0, events')
    BY <1>1, <1>2 DEF OutputInv
  <2> QED
    BY <1>9, <1>11, <1>12, <2>1 DEF OutputInv, P!Spend, P!Event, P!Fold
<1>14. FlushInOrder'
  BY <1>2 DEF FlushInOrder
<1>15. PhaseTyped'
  <2>1. phase' \in 1 .. Phases
    BY <1>2, <1>4
  <2>2. /\ input' \in [P!Stream -> Seq({0, 1})] /\ consumed' \in [P!Stream -> Seq({0, 1})]
        /\ \A s \in P!Stream : Len(consumed'[s]) + Len(input'[s]) <= MaxSent
        /\ \A s \in P!Stream : Len(buf'[s]) <= MaxLine /\ Len(consumed'[s]) <= MaxSent
    <3>1. input' \in [P!Stream -> Seq({0, 1})] /\ consumed' \in [P!Stream -> Seq({0, 1})]
      BY <1>2, <1>5
    <3>2. \A s \in P!Stream : buf'[s] = none
      BY <1>2, <1>8
    <3> QED
      BY <1>4, <1>5, <1>6, <3>1, <3>2
  <2>3. P!TypeOK'
    BY <1>2, <1>4, <2>1, <2>2 DEF P!TypeOK
  <2> QED
    BY <1>2, <1>4, <2>2, <2>3 DEF PhaseTyped, P!Event
<1> QED
  BY <1>13, <1>14, <1>15 DEF PhaseInv

LEMMA PhaseInit ==
  ASSUME P!Init
  PROVE  PhaseInv
<1> DEFINE none == <<>>
<1>1. /\ phase = 1 /\ phasePc = "run" /\ uncertain = FALSE /\ copying = P!Stream
      /\ input = [s \in P!Stream |-> none] /\ buf = [s \in P!Stream |-> none]
      /\ truncated = [s \in P!Stream |-> FALSE] /\ consumed = [s \in P!Stream |-> none]
      /\ flushed = {} /\ remaining = MaxOutput /\ events = none
  BY DEF P!Init, P!NewBuffers
<1>2. /\ none \in Seq({0, 1}) /\ none \in Seq({1}) /\ none \in Seq(P!Event)
      /\ Len(none) = 0 /\ none \o none = none
  OBVIOUS
<1>3. Phases \in Nat \ {0} /\ MaxSent \in Nat /\ MaxLine \in Nat /\ MaxOutput \in Nat
  BY OutputAssumption
<1>4. \A s \in P!Stream : Given(s) = none
  BY <1>1, <1>2 DEF Given
<1>5. /\ ScanOf(none).line = none /\ P!First(none, MaxLine) = none /\ ~(Len(none) > MaxLine)
      /\ \A room : StreamOk(none, none, room)
      /\ \A s : LoggedOf(1, s, none) = none
      /\ SpentOf(none) = 0
  BY NothingGiven, LoggedSteps, SpentSteps
<1> HIDE DEF none
<1>6. BufferInv
  BY <1>1, <1>4, <1>5 DEF BufferInv
<1>7. NoLaterPhase
  BY <1>1, <1>2 DEF NoLaterPhase
<1>8. P!LinesLogged
  BY <1>1, <1>4, <1>5, LinesLoggedIs, LoggedIs
<1>9. OutputInv
  <2>1. remaining = MaxOutput - P!Fold(P!Spend, 0, events)
    BY <1>1, <1>3, <1>5 DEF SpentOf
  <2> QED
    BY <1>6, <1>7, <1>8, <2>1 DEF OutputInv
<1>10. FlushInOrder
  BY <1>1 DEF FlushInOrder
<1>11. PhaseTyped
  <2>1. /\ input \in [P!Stream -> Seq({0, 1})] /\ consumed \in [P!Stream -> Seq({0, 1})]
        /\ buf \in [P!Stream -> Seq({1})] /\ truncated \in [P!Stream -> BOOLEAN]
    BY <1>1, <1>2
  <2>2. \A s \in P!Stream : input[s] = none /\ buf[s] = none /\ consumed[s] = none
    BY <1>1
  <2>3. P!TypeOK
    <3>1. \A s \in P!Stream : Len(buf[s]) <= MaxLine /\ Len(consumed[s]) <= MaxSent
      BY <1>2, <1>3, <2>2
    <3>2. 1 \in 1 .. Phases
      BY <1>3
    <3> QED
      BY <1>1, <2>1, <3>1, <3>2 DEF P!TypeOK
  <2> QED
    BY <1>1, <1>2, <1>3, <2>1, <2>2, <2>3 DEF PhaseTyped
<1> QED
  BY <1>9, <1>10, <1>11 DEF PhaseInv

LEMMA PhaseStep ==
  ASSUME PhaseInv, P!Next
  PROVE  PhaseInv'
<1>1. ASSUME NEW s \in P!Stream, P!Copier(s) PROVE PhaseInv'
  BY <1>1, ReadPieceStep, WritePartStep, ControlSteps DEF P!Copier
<1>2. ASSUME P!Run PROVE PhaseInv'
  BY <1>2, ControlSteps, NextPhaseStep, CloseStreamStep DEF P!Run
<1> QED
  BY <1>1, <1>2 DEF P!Next

LEMMA PhaseUntouched ==
  ASSUME PhaseInv, UNCHANGED phaseVars
  PROVE  PhaseInv'
<1> USE DEF PhaseInv, phaseVars
<1>1. PhaseTyped'
  BY DEF PhaseTyped, P!TypeOK, P!Event
<1>2. FlushInOrder'
  BY DEF FlushInOrder
<1>3. OutputInv'
  <2>1. \A t \in P!Stream : Given(t)' = Given(t)
    BY DEF Given
  <2> QED
    BY <2>1, OutputUntouched DEF OutputVars
<1> QED
  BY <1>1, <1>2, <1>3

LEMMA PhaseHolds == MCSpec => [](part = "phases" => PhaseInv)
<1> DEFINE Inv == part = "phases" => PhaseInv
<1>1. MCInit => Inv
  BY PhaseInit DEF MCInit
<1>2. Inv /\ [MCNext]_<<part, vars, phaseVars, failureVars>> => Inv'
  <2> SUFFICES ASSUME Inv, [MCNext]_<<part, vars, phaseVars, failureVars>>, part' = "phases"
               PROVE  PhaseInv'
    OBVIOUS
  <2>1. part = "phases" /\ PhaseInv
    BY DEF MCNext
  <2>2. CASE P!Next
    BY <2>1, <2>2, PhaseStep
  <2>3. CASE UNCHANGED phaseVars
    BY <2>1, <2>3, PhaseUntouched
  <2> QED
    BY <2>1, <2>2, <2>3 DEF MCNext
<1> QED
  BY <1>1, <1>2, PTL DEF MCSpec

\* LinesLogged of PhaseOutput: however the bytes of a stream are cut into pieces,
\* whatever the other one logs meanwhile, and whether or not a copier outlives its
\* phase, the events of a stream are its lines in order, without a gap as long as
\* there is budget for an event, each a prefix of its line that is flagged when it
\* is not all of it (lineOutput.Write and flush).
THEOREM LinesAreLogged == MCSpec => []LinesLogged
<1>1. (part = "phases" => PhaseInv) => LinesLogged
  BY DEF LinesLogged, PhaseInv, OutputInv
<1> QED
  BY <1>1, PhaseHolds, PTL

\* BudgetHeld of PhaseOutput: what the events of all phases may take on stderr is
\* what is gone from maxVerboseOutput, and that is never exceeded, for every length
\* of line, budget, overhead and expansion.
THEOREM BudgetIsHeld == MCSpec => []BudgetHeld
<1>1. (part = "phases" => PhaseInv) => BudgetHeld
  BY DEF BudgetHeld, PhaseInv, OutputInv, PhaseTyped, P!BudgetHeld
<1> QED
  BY <1>1, PhaseHolds, PTL

(***************************************************************************)
(* The failure log.                                                        *)
(***************************************************************************)
\* A run that is neither at work on an output file nor was killed has tried to
\* remove it, and a copy is renamed only when all of it is written.
FailureInv ==
    /\ F!TypeOK /\ whole
    /\ \A r \in Runs :
          /\ command[r] = "output" /\ runPc[r] \in {"idle", "done"} => <<"command", r>> \in stuck
          /\ r \in failure => \/ runPc[r] \in {"write", "rename", "discard", "crashed"}
                              \/ <<"failure", r>> \in stuck
          /\ runPc[r] = "idle" => r \notin failure
          /\ runPc[r] = "write" => r \in failure
          /\ runPc[r] = "rename" => r \in written

LEMMA FailureStep == ASSUME FailureInv, [F!Next]_failureVars PROVE FailureInv'
<1> USE DEF FailureInv, F!TypeOK, F!PC, F!Go, F!files
<1>1. ASSUME NEW r \in Runs, F!Step(r)
      PROVE  FailureInv'
  <2>1. CASE F!OpenCommandLog(r)
    BY <2>1 DEF F!OpenCommandLog
  <2>2. CASE F!PhasesEnd(r) \/ F!CheckPrevious(r) \/ F!Crash(r)
    BY <2>2 DEF F!PhasesEnd, F!CheckPrevious, F!Crash
  <2>3. CASE F!CreateTemp(r)
    BY <2>3 DEF F!CreateTemp
  <2>4. CASE F!WriteTemp(r)
    BY <2>4 DEF F!WriteTemp
  <2>5. CASE F!RenameTemp(r)
    BY <2>5 DEF F!RenameTemp
  <2>6. CASE F!Fails(r)
    BY <2>6 DEF F!Fails
  <2>7. CASE F!Discard(r)
    BY <2>7 DEF F!Discard
  <2>8. CASE F!CheckCommandLog(r)
    BY <2>8 DEF F!CheckCommandLog
  <2>9. CASE F!RemoveCommandLog(r)
    BY <2>9, OutputAssumption DEF F!RemoveCommandLog
  <2> QED
    BY <1>1, <2>1, <2>2, <2>3, <2>4, <2>5, <2>6, <2>7, <2>8, <2>9 DEF F!Step
<1>2. ASSUME NEW r \in Runs, F!PlantCommand(r)
      PROVE  FailureInv'
  BY <1>2, OutputAssumption DEF F!PlantCommand
<1>3. CASE F!Plant
  BY <1>3 DEF F!Plant
<1>4. CASE UNCHANGED failureVars
  BY <1>4 DEF failureVars
<1> QED
  BY <1>1, <1>2, <1>3, <1>4 DEF F!Next

LEMMA FailureHolds == MCSpec => [](part = "failure" => FailureInv)
<1>1. MCInit => (part = "failure" => FailureInv)
  BY OutputAssumption DEF MCInit, F!Init, FailureInv, F!TypeOK, F!PC
<1>2. ASSUME part = "failure" => FailureInv, [MCNext]_<<part, vars, phaseVars, failureVars>>
      PROVE  (part = "failure" => FailureInv)'
  BY <1>2, FailureStep DEF MCNext
<1> QED
  BY <1>1, <1>2, PTL DEF MCSpec

\* For any number of runs, of which any may be killed: what is under
\* .last-failure.log is the whole output of one of them.
THEOREM FailureLogWhole == MCSpec => []WholeLog
<1>1. (part = "failure" => FailureInv) => WholeLog
  BY DEF FailureInv, WholeLog, F!WholeLog
<1> QED
  BY <1>1, FailureHolds, PTL

\* For any number of them: once nobody is at work no other output file is left,
\* but for those of the runs that were killed and those whose removal has failed.
THEOREM NoOutputLeft == MCSpec => []OutputRemoved
<1>1. (part = "failure" => FailureInv) => OutputRemoved
  BY DEF FailureInv, F!TypeOK, F!PC, OutputRemoved, F!OutputRemoved, F!Locked
<1> QED
  BY <1>1, FailureHolds, PTL
=============================================================================

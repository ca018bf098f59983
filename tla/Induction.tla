-------------------------------- MODULE Induction --------------------------------
(***************************************************************************)
(* Induction over numbers and over sequences, on a set instead of a        *)
(* predicate, and what follows from it of folds.                           *)
(***************************************************************************)
EXTENDS SequenceFold, WellFoundedInduction, TLAPS

LEMMA LessInRel == \A x \in Nat : x > 0 => <<x - 1, x>> \in OpToRel(<, Nat)
  BY DEF OpToRel

\* A set that has 0 and with each number the next one has them all.
LEMMA SetInduction ==
  ASSUME NEW S, 0 \in S, \A n \in Nat : n \in S => n + 1 \in S
  PROVE  Nat \subseteq S
<1> SUFFICES ASSUME Nat \ S # {} PROVE FALSE
  OBVIOUS
<1>1. PICK x \in Nat \ S : \A y \in Nat \ S : ~ (<<y, x>> \in OpToRel(<, Nat))
  <2> DEFINE T == Nat \ S
  <2> DEFINE R == OpToRel(<, Nat)
  <2>1. IsWellFoundedOn(R, Nat)
    BY NatLessThanWellFounded
  <2>2. T \subseteq Nat /\ T # {}
    OBVIOUS
  <2> HIDE DEF T, R
  <2>3. \E x \in T : \A y \in T : ~ (<<y, x>> \in R)
    BY <2>1, <2>2, WFMin
  <2> QED
    BY <2>3 DEF T, R
<1>2. x > 0 /\ x - 1 \in Nat /\ (x - 1) + 1 = x /\ x \notin S
  OBVIOUS
<1>3. <<x - 1, x>> \in OpToRel(<, Nat)
  BY <1>2, LessInRel
<1>4. x - 1 \in S
  BY <1>1, <1>2, <1>3
<1>5. x \in S
  BY <1>2, <1>4
<1> QED
  BY <1>2, <1>5

\* A set of numbers that is not empty has a least one.
LEMMA LeastNumber ==
  ASSUME NEW T \in SUBSET Nat, T # {}
  PROVE  \E x \in T : \A y \in T : x <= y
<1> SUFFICES ASSUME \A x \in T : \E y \in T : ~ (x <= y) PROVE FALSE
  OBVIOUS
<1> DEFINE S == {n \in Nat : \A y \in T : n <= y}
<1>1. 0 \in S
  OBVIOUS
<1>2. ASSUME NEW n \in Nat, n \in S PROVE n + 1 \in S
  <2>1. n \notin T
    BY <1>2
  <2>2. \A y \in T : y \in Nat /\ n <= y /\ y # n
    BY <1>2, <2>1
  <2>3. \A y \in T : n + 1 <= y
    BY <2>2
  <2> QED
    BY <2>3
<1>3. Nat \subseteq S
  <2> HIDE DEF S
  <2> QED
    BY <1>1, <1>2, SetInduction
<1>4. PICK y \in T : TRUE
  OBVIOUS
<1>5. y + 1 \in S
  BY <1>3
<1> QED
  BY <1>5

\* A set of sequences that has the empty one and with each one those that are
\* an element longer has them all.
LEMMA SequenceInduction ==
  ASSUME NEW E, NEW T, <<>> \in T,
         \A s \in Seq(E) : s \in T => \A e \in E : Append(s, e) \in T
  PROVE  Seq(E) \subseteq T
<1> DEFINE S == {n \in Nat : \A s \in Seq(E) : Len(s) = n => s \in T}
<1>1. 0 \in S
  OBVIOUS
<1>2. ASSUME NEW n \in Nat, n \in S PROVE n + 1 \in S
  <2> SUFFICES ASSUME NEW s \in Seq(E), Len(s) = n + 1 PROVE s \in T
    OBVIOUS
  <2> DEFINE front == SubSeq(s, 1, n)
  <2>1. front \in Seq(E) /\ Len(front) = n /\ s[n + 1] \in E
    OBVIOUS
  <2>2. s = Append(front, s[n + 1])
    OBVIOUS
  <2>3. front \in T
    BY <1>2, <2>1
  <2> HIDE DEF front
  <2> QED
    BY <2>1, <2>2, <2>3
<1>3. Nat \subseteq S
  <2> HIDE DEF S
  <2> QED
    BY <1>1, <1>2, SetInduction
<1> QED
  BY <1>3

(***************************************************************************)
(* Folds.                                                                  *)
(***************************************************************************)
Folds(V, E, start, step) == start \in V /\ step \in [V -> [E -> V]]

\* The function that Fold defines.
IsAccs(f, step, start, s) ==
    f = [n \in 0 .. Len(s) |-> IF n = 0 THEN start ELSE step[f[n - 1]][s[n]]]

Accs(step, start, s) == CHOOSE f : IsAccs(f, step, start, s)

LEMMA AccsMeans ==
  \A f, step, start, s : IsAccs(f, step, start, s) /\ Len(s) \in Nat =>
      f[0] = start /\ \A n \in 1 .. Len(s) : f[n] = step[f[n - 1]][s[n]]
<1> SUFFICES ASSUME NEW f, NEW step, NEW start, NEW s, Len(s) \in Nat, IsAccs(f, step, start, s)
             PROVE  f[0] = start /\ \A n \in 1 .. Len(s) : f[n] = step[f[n - 1]][s[n]]
  OBVIOUS
<1>1. \A n \in 0 .. Len(s) : f[n] = IF n = 0 THEN start ELSE step[f[n - 1]][s[n]]
  BY Zenon DEF IsAccs
<1>2. 0 \in 0 .. Len(s) /\ \A n \in 1 .. Len(s) : n \in 0 .. Len(s) /\ n # 0
  OBVIOUS
<1> QED
  BY <1>1, <1>2, Zenon

LEMMA AccsExist ==
  ASSUME NEW V, NEW E, NEW start, NEW step, Folds(V, E, start, step)
  PROVE  \A s \in Seq(E) : \E f \in [0 .. Len(s) -> V] : IsAccs(f, step, start, s)
<1> DEFINE T == {s \in Seq(E) : \E f \in [0 .. Len(s) -> V] : IsAccs(f, step, start, s)}
<1>1. <<>> \in T
  <2> DEFINE f == [n \in 0 .. Len(<<>>) |-> start]
  <2>1. f \in [0 .. Len(<<>>) -> V] /\ IsAccs(f, step, start, <<>>)
    BY DEF Folds, IsAccs
  <2> QED
    BY <2>1
<1>2. ASSUME NEW s \in Seq(E), s \in T, NEW e \in E
      PROVE  Append(s, e) \in T
  <2> DEFINE t == Append(s, e)
             N == Len(s)
  <2>1. PICK f \in [0 .. N -> V] : IsAccs(f, step, start, s)
    BY <1>2
  <2> DEFINE g == [n \in 0 .. N + 1 |-> IF n = N + 1 THEN step[f[N]][e] ELSE f[n]]
  <2>2. N \in Nat /\ t \in Seq(E) /\ Len(t) = N + 1 /\ t[N + 1] = e
        /\ \A n \in 1 .. N : t[n] = s[n]
    OBVIOUS
  <2> HIDE DEF t, N
  <2>3. f[0] = start /\ \A n \in 1 .. N : f[n] = step[f[n - 1]][s[n]]
    BY <2>1, <2>2, AccsMeans DEF N
  <2>4. g \in [0 .. N + 1 -> V]
    BY <2>1, <2>2 DEF Folds
  <2>5. ASSUME NEW n \in 0 .. N + 1
        PROVE  g[n] = IF n = 0 THEN start ELSE step[g[n - 1]][t[n]]
    <3>1. CASE n = 0
      BY <2>2, <2>3, <3>1
    <3>2. CASE n \in 1 .. N
      <4>1. n \in Nat /\ n # 0 /\ n # N + 1 /\ n - 1 \in 0 .. N + 1 /\ n - 1 # N + 1
        BY <2>2, <3>2
      <4>2. g[n] = f[n] /\ g[n - 1] = f[n - 1]
        BY <4>1
      <4> HIDE DEF g
      <4> QED
        BY <2>2, <2>3, <3>2, <4>1, <4>2
    <3>3. CASE n = N + 1
      BY <2>2, <3>3
    <3> QED
      BY <2>2, <3>1, <3>2, <3>3
  <2>6. g = [n \in 0 .. Len(t) |-> IF n = 0 THEN start ELSE step[g[n - 1]][t[n]]]
    <3> DEFINE h == [n \in 0 .. N + 1 |-> IF n = 0 THEN start ELSE step[g[n - 1]][t[n]]]
    <3>1. \A n \in 0 .. N + 1 : g[n] = h[n]
      BY <2>5
    <3>2. g = h
      BY <3>1
    <3> QED
      BY <2>2, <3>2
  <2> HIDE DEF g
  <2>7. g \in [0 .. Len(t) -> V] /\ IsAccs(g, step, start, t)
    BY <2>2, <2>4, <2>6 DEF IsAccs
  <2> QED
    BY <2>2, <2>7 DEF t
<1>3. Seq(E) \subseteq T
  <2> HIDE DEF T
  <2> QED
    BY <1>1, <1>2, SequenceInduction
<1> QED
  BY <1>3

LEMMA AccsAre ==
  ASSUME NEW V, NEW E, NEW start, NEW step, Folds(V, E, start, step), NEW s \in Seq(E)
  PROVE  /\ Accs(step, start, s)[0] = start
         /\ \A n \in 1 .. Len(s) :
               Accs(step, start, s)[n] = step[Accs(step, start, s)[n - 1]][s[n]]
<1> DEFINE f == Accs(step, start, s)
<1>1. IsAccs(f, step, start, s)
  BY AccsExist DEF Accs
<1>2. Len(s) \in Nat
  OBVIOUS
<1> HIDE DEF f
<1>3. f[0] = start /\ \A n \in 1 .. Len(s) : f[n] = step[f[n - 1]][s[n]]
  BY <1>1, <1>2, AccsMeans
<1> QED
  BY <1>3 DEF f

LEMMA FoldIs == \A step, start, s : Fold(step, start, s) = Accs(step, start, s)[Len(s)]
  BY DEF Fold, Accs, IsAccs

\* Nothing is folded into what it starts with.
LEMMA FoldEmpty ==
  ASSUME NEW V, NEW E, NEW start, NEW step, Folds(V, E, start, step)
  PROVE  Fold(step, start, <<>>) = start
<1> DEFINE none == <<>>
<1>1. none \in Seq(E) /\ Len(none) = 0
  OBVIOUS
<1> HIDE DEF none
<1>2. Accs(step, start, none)[0] = start
  <2>1. \A s \in Seq(E) : Accs(step, start, s)[0] = start
    BY AccsAre
  <2> QED
    BY <1>1, <2>1
<1>3. Fold(step, start, none) = start
  BY <1>1, <1>2, FoldIs
<1> QED
  BY <1>3 DEF none

\* One element more is one step more.
LEMMA FoldAppend ==
  ASSUME NEW V, NEW E, NEW start, NEW step, Folds(V, E, start, step), NEW s \in Seq(E), NEW e \in E
  PROVE  Fold(step, start, Append(s, e)) = step[Fold(step, start, s)][e]
<1> DEFINE t == Append(s, e)
           N == Len(s)
           f == Accs(step, start, s)
           g == Accs(step, start, t)
           S == {n \in Nat : n <= N => g[n] = f[n]}
<1>1. N \in Nat /\ t \in Seq(E) /\ Len(t) = N + 1 /\ t[N + 1] = e
      /\ \A n \in 1 .. N : t[n] = s[n]
  OBVIOUS
<1>2. f[0] = start /\ \A n \in 1 .. N : f[n] = step[f[n - 1]][s[n]]
  BY AccsAre
<1> HIDE DEF f, t
<1>3. g[0] = start /\ \A n \in 1 .. Len(t) : g[n] = step[g[n - 1]][t[n]]
  BY <1>1, AccsAre
<1> HIDE DEF g, N
<1>4. g[0] = start /\ \A n \in 1 .. N + 1 : g[n] = step[g[n - 1]][t[n]]
  BY <1>1, <1>3
<1>5. 0 \in S
  BY <1>2, <1>4
<1>6. ASSUME NEW n \in Nat, n \in S PROVE n + 1 \in S
  <2> SUFFICES ASSUME n + 1 <= N PROVE g[n + 1] = f[n + 1]
    OBVIOUS
  <2>1. n + 1 \in 1 .. N /\ n + 1 \in 1 .. N + 1 /\ (n + 1) - 1 = n /\ n <= N
    BY <1>1
  <2>2. g[n] = f[n]
    BY <1>6, <2>1
  <2>3. g[n + 1] = step[g[n]][t[n + 1]] /\ f[n + 1] = step[f[n]][s[n + 1]] /\ t[n + 1] = s[n + 1]
    BY <1>1, <1>2, <1>4, <2>1
  <2> QED
    BY <2>2, <2>3
<1>7. N \in S
  <2> HIDE DEF S
  <2> QED
    BY <1>1, <1>5, <1>6, SetInduction
<1>8. g[N] = f[N] /\ g[N + 1] = step[g[N]][e]
  <2>1. N + 1 \in 1 .. N + 1 /\ (N + 1) - 1 = N
    BY <1>1
  <2> QED
    BY <1>1, <1>4, <1>7, <2>1
<1>9. Fold(step, start, s) = f[N] /\ Fold(step, start, t) = g[N + 1]
  BY <1>1, FoldIs DEF f, g, N
<1> QED
  BY <1>8, <1>9 DEF t

\* A fold stays among what its steps lead to.
LEMMA FoldType ==
  ASSUME NEW V, NEW E, NEW start, NEW step, Folds(V, E, start, step)
  PROVE  \A s \in Seq(E) : Fold(step, start, s) \in V
<1> DEFINE T == {s \in Seq(E) : Fold(step, start, s) \in V}
<1>1. <<>> \in T
  <2>1. Fold(step, start, <<>>) = start /\ start \in V
    BY FoldEmpty DEF Folds
  <2> QED
    BY <2>1
<1>2. ASSUME NEW s \in Seq(E), s \in T, NEW e \in E
      PROVE  Append(s, e) \in T
  <2>1. Fold(step, start, Append(s, e)) = step[Fold(step, start, s)][e]
    BY FoldAppend
  <2>2. step[Fold(step, start, s)][e] \in V
    BY <1>2 DEF Folds
  <2> QED
    BY <2>1, <2>2
<1>3. Seq(E) \subseteq T
  <2> HIDE DEF T
  <2> QED
    BY <1>1, <1>2, SequenceInduction
<1> QED
  BY <1>3

\* A function on numbers that is defined step by step, each value by the one
\* before it.
Stepwise(f, start, next, N) ==
    /\ f[0] = start /\ \A n \in 1 .. N : f[n] = next[f[n - 1]]
    /\ f = [n \in 0 .. N |-> IF n = 0 THEN start ELSE next[f[n - 1]]]

LEMMA StepwiseExists ==
  ASSUME NEW V, NEW start \in V, NEW next \in [V -> V], NEW N \in Nat
  PROVE  \E f \in [0 .. N -> V] : Stepwise(f, start, next, N)
<1> DEFINE step == [v \in V |-> [e \in {0} |-> next[v]]]
           s == [i \in 1 .. N |-> 0]
<1>1. Folds(V, {0}, start, step)
  BY DEF Folds
<1>2. s \in Seq({0}) /\ Len(s) = N /\ \A n \in 1 .. N : s[n] = 0
  OBVIOUS
<1>3. \A v \in V : step[v][0] = next[v]
  OBVIOUS
<1> HIDE DEF step, s
<1>4. PICK f \in [0 .. N -> V] : IsAccs(f, step, start, s)
  BY <1>1, <1>2, AccsExist
<1>5. f[0] = start /\ \A n \in 1 .. N : f[n] = step[f[n - 1]][s[n]]
  BY <1>2, <1>4, AccsMeans
<1>6. \A n \in 1 .. N : f[n] = next[f[n - 1]]
  <2> TAKE n \in 1 .. N
  <2>1. n - 1 \in 0 .. N
    OBVIOUS
  <2> QED
    BY <1>2, <1>3, <1>5, <2>1
<1>7. f = [n \in 0 .. N |-> IF n = 0 THEN start ELSE next[f[n - 1]]]
  <2> DEFINE h == [n \in 0 .. N |-> IF n = 0 THEN start ELSE next[f[n - 1]]]
  <2>1. \A n \in 0 .. N : f[n] = h[n]
    BY <1>5, <1>6
  <2> QED
    BY <2>1
<1> QED
  BY <1>5, <1>6, <1>7 DEF Stepwise

=============================================================================

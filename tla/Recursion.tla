------------------------------ MODULE Recursion ------------------------------
(* Induction without an operator for the predicate: over a set of numbers and *)
(* along the steps of a recursive function.  Its values exist, keep what each *)
(* step keeps, and agree with those of a function that has the same steps;    *)
(* the concatenation of a list of lists is such a function.                   *)
EXTENDS Integers, Sequences, SequencesExt, WellFoundedInduction, SequenceTheorems, TLAPS

LEMMA SetInduction ==
  ASSUME NEW S \in SUBSET Nat, 0 \in S, \A n \in Nat : n \in S => n + 1 \in S
  PROVE S = Nat
<1> DEFINE R == OpToRel(<,Nat)
           T == Nat \ S
<1>1. SUFFICES ASSUME T # {} PROVE FALSE
  OBVIOUS
<1>2. \A a, b \in Nat : a < b => <<a, b>> \in R
  BY DEF OpToRel
<1>3. IsWellFoundedOn(R, Nat)
  BY NatLessThanWellFounded, Zenon DEF R
<1> HIDE DEF R
<1>4. PICK x \in T : \A y \in T : ~ (<<y, x>> \in R)
  BY <1>1, <1>3, WFMin
<1>5. x \in Nat /\ x # 0 /\ x-1 \in Nat /\ x - 1 < x
  BY <1>4
<1>6. x - 1 \in S
  BY <1>2, <1>4, <1>5
<1> QED BY <1>4, <1>5, <1>6

(* The runs of a loop of n rounds: the state after each round. *)
Runs(State, base, n, next) ==
    {f \in [0 .. n -> State] : f[0] = base /\ \A k \in 1 .. n : f[k] = next[k][f[k - 1]]}

(* A function defined by recursion along 0 .. N exists ...                    *)
LEMMA RecursionExists ==
    ASSUME NEW State, NEW base \in State, NEW N \in Nat,
           NEW next \in [1 .. N -> [State -> State]]
    PROVE  \E f : f \in Runs(State, base, N, next)
<1> DEFINE Def(f, n) == f[0] = base /\ \A k \in 1 .. n : f[k] = next[k][f[k - 1]]
           S == {n \in Nat : n <= N => \E f \in [0 .. n -> State] : Def(f, n)}
<1>1. 0 \in S
  <2> DEFINE f == [k \in 0 .. 0 |-> base]
  <2>1. f \in [0 .. 0 -> State] /\ Def(f, 0)
    OBVIOUS
  <2> QED
    BY <2>1
<1>2. ASSUME NEW n \in Nat, n \in S PROVE n + 1 \in S
  <2> SUFFICES ASSUME n + 1 <= N
               PROVE  \E g \in [0 .. n + 1 -> State] : Def(g, n + 1)
    OBVIOUS
  <2>1. PICK f \in [0 .. n -> State] : Def(f, n)
    BY <1>2
  <2> DEFINE g == [k \in 0 .. n + 1 |-> IF k = n + 1 THEN next[n + 1][f[n]] ELSE f[k]]
  <2>2. g \in [0 .. n + 1 -> State]
    <3>1. next[n + 1] \in [State -> State] /\ f[n] \in State
      OBVIOUS
    <3>2. next[n + 1][f[n]] \in State
      BY <3>1
    <3> QED
      BY <3>2
  <2>3. ASSUME NEW k \in 1 .. n + 1
        PROVE  g[k] = next[k][g[k - 1]]
    <3>1. CASE k = n + 1
      BY <3>1
    <3>2. CASE k \in 1 .. n
      <4>1. g[k] = f[k] /\ g[k - 1] = f[k - 1]
        BY <3>2
      <4> QED
        BY <2>1, <3>2, <4>1
    <3> QED
      BY <3>1, <3>2
  <2>4. Def(g, n + 1)
    BY <2>1, <2>3
  <2> HIDE DEF Def, g
  <2> QED
    BY <2>2, <2>4
<1> HIDE DEF S
<1>3. S = Nat
  <2>1. S \in SUBSET Nat
    BY DEF S
  <2> QED
    BY <1>1, <1>2, <2>1, SetInduction
<1> QED
  BY <1>3 DEF S, Runs

(* ... and what each of its steps keeps holds of all its values.              *)
LEMMA StepsKeep ==
    ASSUME NEW State, NEW N \in Nat, NEW f, f[0] \in State,
           \A k \in 1 .. N : f[k - 1] \in State => f[k] \in State
    PROVE  \A k \in 0 .. N : f[k] \in State
<1> DEFINE S == {n \in Nat : n <= N => f[n] \in State}
<1>1. 0 \in S
  OBVIOUS
<1>2. ASSUME NEW n \in Nat, n \in S PROVE n + 1 \in S
  <2>1. n + 1 <= N => n + 1 \in 1 .. N /\ (n + 1) - 1 = n
    OBVIOUS
  <2> QED
    BY <1>2, <2>1
<1> HIDE DEF S
<1>3. S = Nat
  <2>1. S \in SUBSET Nat
    BY DEF S
  <2> QED
    BY <1>1, <1>2, <2>1, SetInduction
<1> QED
  BY <1>3 DEF S

(* Two functions that make the same steps are the same. *)
SameSteps(N, f, g) ==
    f[0] = g[0] /\ \A k \in 1 .. N : f[k - 1] = g[k - 1] => f[k] = g[k]
SameValues(N, f, g) == \A k \in 0 .. N : f[k] = g[k]

LEMMA StepsAgree ==
    ASSUME NEW N \in Nat, NEW f, NEW g, SameSteps(N, f, g)
    PROVE  SameValues(N, f, g)
<1> DEFINE S == {n \in Nat : n <= N => f[n] = g[n]}
<1>1. 0 \in S
  BY DEF SameSteps
<1>2. ASSUME NEW n \in Nat, n \in S PROVE n + 1 \in S
  <2>1. n + 1 <= N => n + 1 \in 1 .. N /\ (n + 1) - 1 = n /\ n <= N
    OBVIOUS
  <2>2. n + 1 \in 1 .. N => (f[(n + 1) - 1] = g[(n + 1) - 1] => f[n + 1] = g[n + 1])
    BY DEF SameSteps
  <2>3. n <= N => f[n] = g[n]
    BY <1>2
  <2>4. n + 1 <= N => f[n + 1] = g[n + 1]
    BY <2>1, <2>2, <2>3
  <2> QED
    BY <2>4
<1> HIDE DEF S
<1>3. S = Nat
  <2>1. S \in SUBSET Nat
    BY DEF S
  <2> QED
    BY <1>1, <1>2, <2>1, SetInduction
<1>4. \A k \in 0 .. N : k \in S /\ k <= N
  BY <1>3
<1> QED
  BY <1>4 DEF S, SameValues

(* The sequences joined so far, piece after piece. *)
Joins(T, N, pieces) ==
    {f \in [0 .. N -> Seq(T)] : f[0] = <<>> /\ \A k \in 1 .. N : f[k] = f[k - 1] \o pieces[k]}

LEMMA JoinsExist ==
    ASSUME NEW T, NEW N \in Nat, NEW pieces \in [1 .. N -> Seq(T)]
    PROVE  \E f : f \in Joins(T, N, pieces)
<1> DEFINE next == [k \in 1 .. N |-> [s \in Seq(T) |-> s \o pieces[k]]]
<1>1. next \in [1 .. N -> [Seq(T) -> Seq(T)]]
  OBVIOUS
<1>2. <<>> \in Seq(T)
  OBVIOUS
<1> HIDE DEF next
<1>3. PICK f : f \in Runs(Seq(T), <<>>, N, next)
  BY <1>1, <1>2, RecursionExists
<1>4. f \in [0 .. N -> Seq(T)] /\ f[0] = <<>> /\ \A k \in 1 .. N : f[k] = next[k][f[k - 1]]
  BY <1>3 DEF Runs
<1>5. \A k \in 1 .. N : f[k] = f[k - 1] \o pieces[k]
  <2>1. \A k \in 1 .. N : f[k - 1] \in Seq(T)
    BY <1>4
  <2> QED
    BY <1>4, <2>1 DEF next
<1> QED
  BY <1>4, <1>5 DEF Joins

(* FlattenSeq, as such a run. *)
LEMMA FlattenRuns ==
    ASSUME NEW T, NEW seqs \in Seq(Seq(T))
    PROVE  \E f \in Joins(T, Len(seqs), seqs) : FlattenSeq(seqs) = f[Len(seqs)]
<1> DEFINE N == Len(seqs)
           Def(g) == g = [i \in 1 .. N |-> IF i = 1 THEN seqs[i] ELSE g[i - 1] \o seqs[i]]
           e == CHOOSE g : Def(g)
<1>1. N \in Nat /\ seqs \in [1 .. N -> Seq(T)]
  OBVIOUS
<1> HIDE DEF N
<1>2. PICK f : f \in Joins(T, N, seqs)
  BY <1>1, JoinsExist
<1>3. f \in [0 .. N -> Seq(T)] /\ f[0] = <<>> /\ \A k \in 1 .. N : f[k] = f[k - 1] \o seqs[k]
  BY <1>2 DEF Joins
<1>4. 1 <= N => f[1] = seqs[1]
  <2>1. 1 <= N => 1 \in 1 .. N /\ 1 - 1 = 0
    BY <1>1
  <2>2. 1 <= N => f[1] = <<>> \o seqs[1] /\ seqs[1] \in Seq(T)
    BY <1>1, <1>3, <2>1
  <2>3. \A s \in Seq(T) : <<>> \o s = s
    OBVIOUS
  <2> QED
    BY <2>2, <2>3
<1>5. \E g : Def(g)
  <2> DEFINE g == [i \in 1 .. N |-> f[i]]
  <2>1. ASSUME NEW i \in 1 .. N
        PROVE  g[i] = IF i = 1 THEN seqs[i] ELSE g[i - 1] \o seqs[i]
    <3>1. CASE i = 1
      BY <1>1, <1>4, <3>1
    <3>2. CASE i # 1
      <4>1. i - 1 \in 1 .. N
        BY <1>1, <3>2
      <4>2. g[i - 1] = f[i - 1] /\ g[i] = f[i]
        BY <4>1
      <4>3. f[i] = f[i - 1] \o seqs[i]
        BY <1>3
      <4> HIDE DEF g
      <4> QED
        BY <3>2, <4>2, <4>3, Zenon
    <3> QED
      BY <3>1, <3>2
  <2>2. Def(g)
    BY <2>1
  <2> QED
    BY <2>2
<1>6. Def(e)
  BY <1>5
<1>7. N > 0 => FlattenSeq(seqs) = e[N]
  BY <1>1 DEF FlattenSeq, N
<1> HIDE DEF e
<1>8. \A k \in 0 .. N : k > 0 => f[k] = e[k]
  <2> DEFINE h == [k \in 0 .. N |-> IF k = 0 THEN <<>> ELSE e[k]]
  <2>1. f[0] = h[0]
    BY <1>1, <1>3
  <2>2. \A k \in 1 .. N : e[k] = IF k = 1 THEN seqs[k] ELSE e[k - 1] \o seqs[k]
    BY <1>1, <1>6
  <2>3. ASSUME NEW k \in 1 .. N, f[k - 1] = h[k - 1] PROVE f[k] = h[k]
    <3>1. CASE k = 1
      BY <1>1, <1>4, <2>2, <3>1
    <3>2. CASE k # 1
      <4>1. h[k - 1] = e[k - 1] /\ h[k] = e[k]
        BY <1>1, <3>2
      <4> HIDE DEF h
      <4>2. f[k] = f[k - 1] \o seqs[k] /\ e[k] = e[k - 1] \o seqs[k]
        BY <1>3, <2>2, <3>2
      <4> QED
        BY <2>3, <4>1, <4>2, Zenon
    <3> QED
      BY <3>1, <3>2
  <2> HIDE DEF h
  <2>4. SameSteps(N, f, h)
    BY <2>1, <2>3 DEF SameSteps
  <2>5. SameValues(N, f, h)
    BY <1>1, <2>4, StepsAgree
  <2>6. \A k \in 0 .. N : f[k] = h[k]
    BY <2>5 DEF SameValues
  <2> QED
    BY <1>1, <2>6 DEF h
<1>9. FlattenSeq(seqs) = f[N]
  <2>1. CASE N = 0
    <3>1. FlattenSeq(seqs) = seqs
      BY <2>1 DEF FlattenSeq, N
    <3>2. seqs = <<>>
      BY <2>1 DEF N
    <3> QED
      BY <1>3, <2>1, <3>1, <3>2
  <2>2. CASE N > 0
    BY <1>1, <1>7, <1>8, <2>2
  <2> QED
    BY <1>1, <2>1, <2>2
<1> QED
  BY <1>2, <1>9 DEF N

-----------------------------------------------------------------------------
(* What FlattenSeq makes of lists, one after another.                         *)

ThreeOf(T, s, t, u) == s \in Seq(T) /\ t \in Seq(T) /\ u \in Seq(T)
Regrouped(s, t, u) == (s \o t) \o u = s \o (t \o u)

LEMMA Associative ==
    ASSUME NEW T, NEW s, NEW t, NEW u, ThreeOf(T, s, t, u)
    PROVE  Regrouped(s, t, u)
<1>1. s \in Seq(T) /\ t \in Seq(T) /\ u \in Seq(T)
  BY DEF ThreeOf
<1> QED
  BY <1>1, ConcatAssociative DEF Regrouped

(* Every piece that is joined stays a prefix of the whole. *)
LEMMA JoinedPrefix ==
    ASSUME NEW N \in Nat, NEW pieces, \A k \in 1 .. N : pieces[k] \in Seq(Nat),
           NEW f \in Joins(Nat, N, pieces), NEW a \in 0 .. N
    PROVE  \E rest \in Seq(Nat) : f[N] = f[a] \o rest
<1> DEFINE T == Nat
           One == {1}
           Rest(k) == k >= a => \E rest \in Seq(T) : f[k] = f[a] \o rest
           h == [k \in 0 .. N |-> IF Rest(k) THEN 1 ELSE 0]
<1>0. f \in Joins(T, N, pieces) /\ \A k \in 1 .. N : pieces[k] \in Seq(T)
  OBVIOUS
<1> HIDE DEF T
<1>1. f \in [0 .. N -> Seq(T)] /\ \A k \in 1 .. N : f[k] = f[k - 1] \o pieces[k]
  BY <1>0 DEF Joins
<1>2. f[a] \in Seq(T)
  BY <1>1
<1>3. Rest(a)
  <2>1. <<>> \in Seq(T) /\ f[a] = f[a] \o <<>>
    BY <1>2
  <2> QED
    BY <2>1
<1>4. ASSUME NEW k \in 1 .. N, Rest(k - 1) PROVE Rest(k)
  <2>1. CASE k > a
    <3>1. PICK rest \in Seq(T) : f[k - 1] = f[a] \o rest
      BY <1>4, <2>1
    <3>2. f[k] = (f[a] \o rest) \o pieces[k] /\ pieces[k] \in Seq(T)
      BY <1>0, <1>1, <3>1
    <3>3. (f[a] \o rest) \o pieces[k] = f[a] \o (rest \o pieces[k])
      <4>1. ThreeOf(T, f[a], rest, pieces[k])
        BY <1>2, <3>2 DEF ThreeOf
      <4>2. Regrouped(f[a], rest, pieces[k])
        BY <4>1, Associative, Zenon
      <4> QED
        BY <4>2, Zenon DEF Regrouped
    <3>4. rest \o pieces[k] \in Seq(T)
      BY <3>2
    <3> QED
      BY <3>2, <3>3, <3>4, Zenon
  <2>2. CASE k = a
    BY <1>3, <2>2
  <2>3. CASE k < a
    BY <2>3
  <2> HIDE DEF Rest
  <2>4. k > a \/ k = a \/ k < a
    OBVIOUS
  <2> QED
    BY <2>1, <2>2, <2>3, <2>4, Zenon
<1>5. Rest(0)
  BY <1>3
<1> HIDE DEF Rest
<1>6. \A k \in 0 .. N : h[k] \in One
  <2>0. \A k \in 0 .. N : h[k] = 1 <=> Rest(k)
    OBVIOUS
  <2>1. h[0] \in One
    BY <1>5
  <2>2. \A k \in 1 .. N : h[k - 1] \in One => h[k] \in One
    <3>1. \A k \in 1 .. N : k \in 0 .. N /\ k - 1 \in 0 .. N
      OBVIOUS
    <3> HIDE DEF h
    <3> QED
      BY <1>4, <2>0, <3>1
  <2>3. N \in Nat /\ h[0] \in One
    BY <2>1
  <2> HIDE DEF h, One
  <2> QED
    BY <2>2, <2>3, StepsKeep, Zenon
<1>7. Rest(N)
  <2>1. \A k \in 0 .. N : h[k] = 1 <=> Rest(k)
    OBVIOUS
  <2>2. N \in 0 .. N
    OBVIOUS
  <2> HIDE DEF h
  <2> QED
    BY <1>6, <2>1, <2>2
<1> QED
  BY <1>7 DEF Rest, T

LEMMA FlattenConcat ==
    ASSUME NEW T, NEW a \in Seq(Seq(T)), NEW b \in Seq(Seq(T))
    PROVE  /\ FlattenSeq(a) \in Seq(T) /\ FlattenSeq(b) \in Seq(T)
           /\ FlattenSeq(a \o b) = FlattenSeq(a) \o FlattenSeq(b)
<1> DEFINE A == Len(a)
           B == Len(b)
           c == a \o b
<1>1. /\ A \in Nat /\ B \in Nat /\ c \in Seq(Seq(T)) /\ Len(c) = A + B
      /\ \A k \in 1 .. A : a[k] \in Seq(T) /\ c[k] = a[k]
      /\ \A k \in 1 .. B : b[k] \in Seq(T) /\ c[A + k] = b[k]
  OBVIOUS
<1>2. PICK f \in Joins(T, A, a) : FlattenSeq(a) = f[A]
  BY FlattenRuns
<1>3. PICK g \in Joins(T, B, b) : FlattenSeq(b) = g[B]
  BY FlattenRuns
<1> HIDE DEF A, B, c
<1>4. PICK h \in Joins(T, A + B, c) : FlattenSeq(c) = h[A + B]
  <2>1. \E h \in Joins(T, Len(c), c) : FlattenSeq(c) = h[Len(c)]
    BY <1>1, FlattenRuns
  <2> QED
    BY <1>1, <2>1
<1>5. f \in [0 .. A -> Seq(T)] /\ f[0] = <<>> /\ \A k \in 1 .. A : f[k] = f[k - 1] \o a[k]
  BY <1>2 DEF Joins
<1>6. g \in [0 .. B -> Seq(T)] /\ g[0] = <<>> /\ \A k \in 1 .. B : g[k] = g[k - 1] \o b[k]
  BY <1>3 DEF Joins
<1>7. /\ h \in [0 .. A + B -> Seq(T)] /\ h[0] = <<>>
      /\ \A k \in 1 .. A + B : h[k] = h[k - 1] \o c[k]
  BY <1>4 DEF Joins
<1>8. h[A] = f[A]
  <2>1. ASSUME NEW k \in 1 .. A, h[k - 1] = f[k - 1] PROVE h[k] = f[k]
    <3>1. k \in 1 .. A + B
      BY <1>1
    <3> QED
      BY <1>1, <1>5, <1>7, <2>1, <3>1
  <2>2. h[0] = f[0]
    BY <1>5, <1>7
  <2>3. SameSteps(A, h, f)
    BY <2>1, <2>2 DEF SameSteps
  <2>4. SameValues(A, h, f)
    BY <1>1, <2>3, StepsAgree
  <2>5. A \in 0 .. A
    BY <1>1
  <2> QED
    BY <2>4, <2>5 DEF SameValues
<1> DEFINE p == [k \in 0 .. B |-> h[A + k]]
           q == [k \in 0 .. B |-> f[A] \o g[k]]
<1>9. p[0] = q[0]
  <2>1. 0 \in 0 .. B /\ A + 0 = A /\ f[A] \in Seq(T) /\ g[0] = <<>>
    BY <1>1, <1>5, <1>6
  <2>2. f[A] \o <<>> = f[A]
    BY <2>1
  <2> QED
    BY <1>8, <2>1, <2>2
<1>10. ASSUME NEW k \in 1 .. B, p[k - 1] = q[k - 1] PROVE p[k] = q[k]
  <2>1. A + k \in 1 .. A + B /\ (A + k) - 1 = A + (k - 1) /\ k - 1 \in 0 .. B /\ k \in 0 .. B
    BY <1>1
  <2>2. h[A + k] = h[A + (k - 1)] \o b[k]
    BY <1>1, <1>7, <2>1
  <2>3. h[A + (k - 1)] = f[A] \o g[k - 1]
    BY <1>10, <2>1
  <2>4. f[A] \in Seq(T) /\ g[k - 1] \in Seq(T) /\ b[k] \in Seq(T) /\ g[k] = g[k - 1] \o b[k]
    <3>1. f[A] \in Seq(T)
      BY <1>1, <1>5
    <3>2. g[k - 1] \in Seq(T) /\ b[k] \in Seq(T) /\ g[k] = g[k - 1] \o b[k]
      BY <1>1, <1>6, <2>1
    <3> QED
      BY <3>1, <3>2
  <2>5. (f[A] \o g[k - 1]) \o b[k] = f[A] \o (g[k - 1] \o b[k])
    <3>1. ThreeOf(T, f[A], g[k - 1], b[k])
      BY <2>4 DEF ThreeOf
    <3>2. Regrouped(f[A], g[k - 1], b[k])
      BY <3>1, Associative, Zenon
    <3> QED
      BY <3>2, Zenon DEF Regrouped
  <2>6. h[A + k] = f[A] \o g[k]
    BY <2>2, <2>3, <2>4, <2>5
  <2> QED
    BY <2>1, <2>6
<1> HIDE DEF p, q
<1>11. \A k \in 0 .. B : p[k] = q[k]
  <2>1. SameSteps(B, p, q)
    BY <1>9, <1>10 DEF SameSteps
  <2>2. SameValues(B, p, q)
    BY <1>1, <2>1, StepsAgree
  <2> QED
    BY <2>2 DEF SameValues
<1>12. h[A + B] = f[A] \o g[B]
  <2>1. B \in 0 .. B
    BY <1>1
  <2> QED
    BY <1>11, <2>1 DEF p, q
<1>13. f[A] \in Seq(T) /\ g[B] \in Seq(T)
  BY <1>1, <1>5, <1>6
<1> QED
  BY <1>2, <1>3, <1>4, <1>12, <1>13 DEF c

(* A sequence of single values is flattened to these. *)
LEMMA FlattenSeparate ==
    ASSUME NEW T, NEW s \in Seq(T)
    PROVE  /\ [i \in DOMAIN s |-> <<s[i]>>] \in Seq(Seq(T) \ {<<>>})
           /\ FlattenSeq([i \in DOMAIN s |-> <<s[i]>>]) = s
<1> DEFINE N == Len(s)
           c == [i \in DOMAIN s |-> <<s[i]>>]
<1>1. N \in Nat /\ DOMAIN s = 1 .. N /\ s \in [1 .. N -> T]
  OBVIOUS
<1> HIDE DEF N
<1>2. \A i \in 1 .. N : c[i] = <<s[i]>> /\ c[i] \in Seq(T) \ {<<>>}
  BY <1>1
<1>3. c \in [1 .. N -> Seq(T) \ {<<>>}]
  BY <1>1
<1> HIDE DEF c
<1>4. c \in Seq(Seq(T) \ {<<>>}) /\ c \in Seq(Seq(T)) /\ Len(c) = N
  BY <1>1, <1>3
<1>5. PICK f \in Joins(T, N, c) : FlattenSeq(c) = f[N]
  BY <1>4, FlattenRuns
<1>6. f \in [0 .. N -> Seq(T)] /\ f[0] = <<>> /\ \A k \in 1 .. N : f[k] = f[k - 1] \o c[k]
  BY <1>5 DEF Joins
<1> DEFINE p == [k \in 0 .. N |-> SubSeq(s, 1, k)]
<1>7. f[0] = p[0]
  BY <1>1, <1>6
<1>8. ASSUME NEW k \in 1 .. N, f[k - 1] = p[k - 1] PROVE f[k] = p[k]
  <2>1. k - 1 \in 0 .. N /\ k \in 0 .. N
    BY <1>1
  <2>2. f[k] = SubSeq(s, 1, k - 1) \o <<s[k]>>
    BY <1>2, <1>6, <1>8, <2>1
  <2>3. /\ SubSeq(s, 1, k - 1) \in Seq(T) /\ Len(SubSeq(s, 1, k - 1)) = k - 1
        /\ \A i \in 1 .. k - 1 : SubSeq(s, 1, k - 1)[i] = s[i]
    <3>1. 1 \in Int /\ k - 1 \in Int /\ (\A i \in 1 .. k - 1 : s[i] \in T)
          /\ (k - 1) - 1 + 1 = k - 1 /\ (1 <= k - 1 \/ k - 1 = 0) /\ \A i \in 1 .. k - 1 : 1 + i - 1 = i
      BY <1>1
    <3> QED
      BY <3>1, SubSeqProperties
  <2>4. /\ SubSeq(s, 1, k) \in Seq(T) /\ Len(SubSeq(s, 1, k)) = k
        /\ \A i \in 1 .. k : SubSeq(s, 1, k)[i] = s[i]
    <3>1. 1 \in Int /\ k \in Int /\ (\A i \in 1 .. k : s[i] \in T)
          /\ k - 1 + 1 = k /\ 1 <= k /\ \A i \in 1 .. k : 1 + i - 1 = i
      BY <1>1
    <3> QED
      BY <3>1, SubSeqProperties
  <2> DEFINE x == SubSeq(s, 1, k - 1)
             y == SubSeq(s, 1, k)
  <2>5. s[k] \in T
    BY <1>1
  <2> HIDE DEF x, y
  <2>6. y = x \o <<s[k]>>
    BY <2>3, <2>4, <2>5 DEF x, y
  <2> QED
    BY <2>1, <2>2, <2>6 DEF x, y
<1> HIDE DEF p
<1>9. \A k \in 0 .. N : f[k] = p[k]
  <2>1. SameSteps(N, f, p)
    BY <1>7, <1>8 DEF SameSteps
  <2>2. SameValues(N, f, p)
    BY <1>1, <2>1, StepsAgree
  <2> QED
    BY <2>2 DEF SameValues
<1>10. p[N] = s
  BY <1>1 DEF p, N
<1>11. f[N] = s
  BY <1>1, <1>9, <1>10
<1> QED
  BY <1>4, <1>5, <1>11 DEF c
=============================================================================

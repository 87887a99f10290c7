----------------------------- MODULE FoldLemmas -----------------------------
(***************************************************************************)
(* Facts about numbers, folds and sequences for the proofs about modules   *)
(* that use the operators of SequencesExt.                                 *)
(*                                                                         *)
(* FoldLeft and FlattenSeq are recursive functions: what they are equal to *)
(* is known only when such a function exists.  Induction and Recursion are *)
(* about sets and functions in place of operators, so that they can be     *)
(* used like any lemma; FoldExists and Flattened follow from them.         *)
(***************************************************************************)
EXTENDS Integers, SequencesExt, FiniteSetTheorems, WellFoundedInduction, TLAPS

-----------------------------------------------------------------------------
(* Induction and recursion over the naturals *)

\* A set of naturals has a least element.
LEMMA LeastOf ==
  ASSUME NEW T, T \subseteq Nat, T # {}
  PROVE  \E i \in T : \A j \in T : i <= j
  <1>1. \E i \in T : \A j \in T : ~(<<j, i>> \in OpToRel(<, Nat))
    BY NatLessThanWellFounded, WFMin, Zenon
  <1>2. \A i, j \in Nat : j < i => <<j, i>> \in OpToRel(<, Nat)
    BY DEF OpToRel
  <1>3. \E i \in T : \A j \in T : ~(j < i)
    BY <1>1, <1>2, Zenon
  <1> QED
    BY <1>3, SMT

LEMMA Induction ==
  ASSUME NEW S, 0 \in S, \A n \in Nat : n \in S => n + 1 \in S
  PROVE  Nat \subseteq S
  <1> SUFFICES ASSUME Nat \ S # {} PROVE FALSE
    OBVIOUS
  <1>1. PICK n \in Nat \ S : \A m \in Nat \ S : n <= m
    <2>1. Nat \ S \subseteq Nat
      OBVIOUS
    <2> QED
      BY <2>1, LeastOf
  <1>2. n - 1 \in Nat /\ n - 1 \notin Nat \ S
    BY <1>1, SMT
  <1> QED
    BY <1>1, <1>2, SMT

\* The greatest element of a set of naturals with a bound.
LEMMA MaxOf ==
  ASSUME NEW N \in Nat, NEW T, T \subseteq 1 .. N, T # {}
  PROVE  /\ Max(T) \in T /\ \A y \in T : y <= Max(T)
  <1> DEFINE above == {k \in Nat : \A y \in T : y <= k}
  <1>1. N \in above /\ above \subseteq Nat
    BY SMT
  <1>2. PICK u \in above : \A k \in above : u <= k
    <2> HIDE DEF above
    <2> QED
      BY <1>1, LeastOf
  <1>3. u \in T
    <2> SUFFICES ASSUME u \notin T PROVE FALSE
      OBVIOUS
    <2>1. \A y \in T : y \in Nat /\ 1 <= y /\ y <= u /\ y # u
      BY <1>2, SMT
    <2>2. u \in Nat
      BY <1>2
    <2>3. \E y \in T : TRUE
      OBVIOUS
    <2>4. u - 1 \in Nat /\ \A y \in T : y <= u - 1
      BY <2>1, <2>2, <2>3, SMT
    <2>5. u - 1 \in above
      BY <2>4
    <2> QED
      BY <1>2, <2>2, <2>5, SMT
  <1>4. \E x \in T : \A y \in T : x >= y
    BY <1>2, <1>3
  <1> QED
    BY <1>4 DEF Max

\* f begins with b and goes on by the functions of G.
IsRun(f, b, G) == f[0] = b /\ \A n \in Nat : f[n + 1] = G[n][f[n]]

\* To apply the functions of G one after the other.
LEMMA Recursion ==
  ASSUME NEW X, NEW b, NEW G, b \in X, G \in [Nat -> [X -> X]]
  PROVE  \E f \in [Nat -> X] : IsRun(f, b, G)
  <1> DEFINE Upto(n, g) == /\ g \in [0 .. n -> X] /\ g[0] = b
                           /\ \A k \in 0 .. n - 1 : g[k + 1] = G[k][g[k]]
  <1>1. \A n \in Nat : \E g : Upto(n, g)
    <2> DEFINE S == {n \in Nat : \E g : Upto(n, g)}
    <2>1. 0 \in S
      <3>1. Upto(0, [k \in 0 .. 0 |-> b])
        BY SMT
      <3> QED
        BY <3>1
    <2>2. ASSUME NEW n \in Nat, n \in S PROVE n + 1 \in S
      <3>1. PICK g : Upto(n, g)
        BY <2>2
      <3> DEFINE h == [k \in 0 .. n + 1 |-> IF k = n + 1 THEN G[n][g[n]] ELSE g[k]]
      <3>2. G[n][g[n]] \in X
        BY <3>1, SMT
      <3>3. h \in [0 .. n + 1 -> X] /\ h[0] = b
        BY <3>1, <3>2, SMT
      <3>4. \A k \in 0 .. n : h[k + 1] = G[k][h[k]]
        BY <3>1, SMT
      <3>5. Upto(n + 1, h)
        <4>1. (n + 1) - 1 = n
          OBVIOUS
        <4> HIDE DEF h
        <4> QED
          BY <3>3, <3>4, <4>1
      <3>6. n + 1 \in Nat
        OBVIOUS
      <3> HIDE DEF Upto, h
      <3> QED
        BY <3>5, <3>6
    <2> HIDE DEF S
    <2>3. Nat \subseteq S
      BY <2>1, <2>2, Induction
    <2> QED
      BY <2>3 DEF S
  <1>2. ASSUME NEW n \in Nat, NEW m \in Nat, NEW g, NEW h, Upto(n, g), Upto(m, h)
        PROVE  \A k \in Nat : k <= n /\ k <= m => g[k] = h[k]
    <2> DEFINE S == {k \in Nat : k <= n /\ k <= m => g[k] = h[k]}
    <2>1. 0 \in S
      BY <1>2
    <2>2. ASSUME NEW k \in Nat, k \in S PROVE k + 1 \in S
      BY <1>2, <2>2, SMT
    <2> HIDE DEF S
    <2>3. Nat \subseteq S
      BY <2>1, <2>2, Induction
    <2> QED
      BY <2>3 DEF S
  <1> DEFINE A(n) == CHOOSE g : Upto(n, g)
             f == [n \in Nat |-> A(n)[n]]
  <1>3. \A n \in Nat : Upto(n, A(n))
    <2> HIDE DEF Upto
    <2> QED
      BY <1>1
  <1>4. f \in [Nat -> X] /\ f[0] = b
    <2>1. \A n \in Nat : A(n)[n] \in X
      <3> HIDE DEF A
      <3> QED
        BY <1>3, SMT
    <2>2. A(0)[0] = b
      BY <1>3
    <2> HIDE DEF A
    <2> QED
      BY <2>1, <2>2
  <1>5. ASSUME NEW n \in Nat PROVE f[n + 1] = G[n][f[n]]
    <2>1. Upto(n, A(n)) /\ Upto(n + 1, A(n + 1))
      <3> HIDE DEF Upto, A
      <3> QED
        BY <1>3
    <2> HIDE DEF A
    <2>2. A(n)[n] = A(n + 1)[n]
      <3> HIDE DEF Upto
      <3>1. n + 1 \in Nat /\ n <= n /\ n <= n + 1
        OBVIOUS
      <3> QED
        BY <1>2, <2>1, <3>1
    <2>3. A(n + 1)[n + 1] = G[n][A(n + 1)[n]]
      BY <2>1, SMT
    <2> QED
      BY <2>2, <2>3
  <1> HIDE DEF f
  <1>6. IsRun(f, b, G)
    BY <1>4, <1>5 DEF IsRun
  <1> QED
    BY <1>4, <1>6

-----------------------------------------------------------------------------
(* Folds *)

\* The first numbers, without the last of them.
LEMMA FirstOnes ==
  ASSUME NEW k \in Nat
  PROVE  /\ 1 .. 0 = {} /\ 1 .. k + 1 # {}
         /\ Max(1 .. k + 1) = k + 1 /\ (1 .. k + 1) \ {k + 1} = 1 .. k
  <1>1. k + 1 \in 1 .. k + 1 /\ k + 1 \in Nat
    BY SMT
  <1>2. Max(1 .. k + 1) \in 1 .. k + 1 /\ \A y \in 1 .. k + 1 : y <= Max(1 .. k + 1)
    BY <1>1, MaxOf
  <1>3. Max(1 .. k + 1) = k + 1
    BY <1>1, <1>2, SMT
  <1>4. 1 .. k + 1 # {}
    BY <1>1
  <1>6. 1 .. 0 = {}
    BY SMT
  <1>5. (1 .. k + 1) \ {k + 1} = 1 .. k
    BY SMT
  <1> QED
    BY <1>3, <1>4, <1>5, <1>6

\* h goes through the numbers from 1 to N and applies G of those in the set.
IsFold(h, N, b, G) ==
  \A T \in SUBSET (1 .. N) : h[T] = IF T = {} THEN b ELSE G[Max(T)][h[T \ {Max(T)}]]

\* The function that MapThenFoldSet looks for exists.
LEMMA FoldExists ==
  ASSUME NEW N, NEW X, NEW b, NEW G, N \in Nat, b \in X, G \in [1 .. N -> [X -> X]]
  PROVE  \E h \in [SUBSET (1 .. N) -> X] : IsFold(h, N, b, G)
  <1> DEFINE Y == [SUBSET (1 .. N) -> X]
             B == [T \in SUBSET (1 .. N) |-> b]
             More(n, H) == [T \in SUBSET (1 .. N) |-> IF n + 1 \in T THEN G[n + 1][H[T]] ELSE H[T]]
             GG == [n \in Nat |-> [H \in Y |-> More(n, H)]]
  <1>1. \A n \in Nat : \A H \in Y : More(n, H) \in Y
    BY SMT
  <1>2. B \in Y /\ GG \in [Nat -> [Y -> Y]]
    <2>1. B \in Y
      OBVIOUS
    <2> HIDE DEF Y, More
    <2> QED
      BY <1>1, <2>1
  <1>3. PICK F \in [Nat -> Y] : F[0] = B /\ \A n \in Nat : F[n + 1] = GG[n][F[n]]
    <2> HIDE DEF Y, B, GG
    <2>1. PICK F \in [Nat -> Y] : IsRun(F, B, GG)
      BY <1>2, Recursion
    <2> QED
      BY <2>1 DEF IsRun
  <1>4. \A n \in Nat : F[n + 1] = More(n, F[n]) /\ F[n] \in Y
    <2> HIDE DEF Y, B, More
    <2> QED
      BY <1>3
  <1>5. /\ \A T \in SUBSET (1 .. N) : F[0][T] = b
        /\ \A n \in Nat : \A T \in SUBSET (1 .. N) :
             F[n + 1][T] = IF n + 1 \in T THEN G[n + 1][F[n][T]] ELSE F[n][T]
    <2>1. \A T \in SUBSET (1 .. N) : F[0][T] = b
      BY <1>3
    <2>2. \A n \in Nat : \A T \in SUBSET (1 .. N) :
            More(n, F[n])[T] = IF n + 1 \in T THEN G[n + 1][F[n][T]] ELSE F[n][T]
      OBVIOUS
    <2> HIDE DEF More
    <2> QED
      BY <1>4, <2>1, <2>2
  <1>6. \A n \in Nat : \A T \in SUBSET (1 .. N) : F[n][T] \in X
    BY <1>4
  <1> HIDE DEF Y, B, More, GG
  \* A number to come makes no difference yet.
  <1>7. ASSUME NEW T \in SUBSET (1 .. N), NEW x \in T
        PROVE  \A n \in Nat : n < x => F[n][T] = F[n][T \ {x}]
    <2> DEFINE S == {n \in Nat : n < x => F[n][T] = F[n][T \ {x}]}
    <2>1. 0 \in S
      BY <1>5
    <2>2. ASSUME NEW n \in Nat, n \in S PROVE n + 1 \in S
      <3>1. x \in Nat /\ T \ {x} \in SUBSET (1 .. N) /\ n + 1 \in Nat
        BY SMT
      <3>2. n + 1 < x => (n + 1 \in T <=> n + 1 \in T \ {x}) /\ n < x
        BY <3>1, SMT
      <3> QED
        BY <1>5, <2>2, <3>1, <3>2
    <2> HIDE DEF S
    <2>3. Nat \subseteq S
      BY <2>1, <2>2, Induction
    <2> QED
      BY <2>3 DEF S
  \* Once all numbers of a set are behind, nothing changes for it.
  <1>8. ASSUME NEW T \in SUBSET (1 .. N), NEW m \in Nat, \A y \in T : y <= m
        PROVE  \A n \in Nat : n >= m => F[n][T] = F[m][T]
    <2> DEFINE S == {n \in Nat : n >= m => F[n][T] = F[m][T]}
    <2>1. 0 \in S
      BY SMT
    <2>2. ASSUME NEW n \in Nat, n \in S PROVE n + 1 \in S
      <3>1. CASE n >= m
        <4>1. n + 1 \notin T /\ n + 1 \in Nat
          BY <1>8, <3>1, SMT
        <4> QED
          BY <1>5, <2>2, <3>1, <4>1
      <3>2. CASE ~(n >= m)
        <4>1. n + 1 \in Nat /\ (n + 1 >= m => n + 1 = m)
          BY <3>2, SMT
        <4> QED
          BY <4>1
      <3> QED
        BY <3>1, <3>2
    <2> HIDE DEF S
    <2>3. Nat \subseteq S
      BY <2>1, <2>2, Induction
    <2> QED
      BY <2>3 DEF S
  <1>9. F[N] \in [SUBSET (1 .. N) -> X]
    BY <1>4 DEF Y
  <1>10. ASSUME NEW T \in SUBSET (1 .. N)
         PROVE  F[N][T] = IF T = {} THEN b ELSE G[Max(T)][F[N][T \ {Max(T)}]]
    <2>1. CASE T = {}
      <3>1. 0 \in Nat /\ N >= 0 /\ \A y \in T : y <= 0
        BY <2>1, SMT
      <3>2. F[N][T] = F[0][T]
        BY <1>8, <3>1
      <3> QED
        BY <1>5, <2>1, <3>2
    <2>2. CASE T # {}
      <3> DEFINE x == Max(T)
      <3>1. x \in T /\ \A y \in T : y <= x
        BY <2>2, MaxOf
      <3> HIDE DEF x
      <3>2. x \in 1 .. N /\ x \in Nat /\ x - 1 \in Nat /\ N >= x /\ N >= x - 1 /\ x - 1 < x
            /\ (x - 1) + 1 = x
        BY <3>1, SMT
      <3>3. F[N][T] = F[x][T]
        BY <1>8, <3>1, <3>2
      <3>4. F[x][T] = G[x][F[x - 1][T]]
        BY <1>5, <3>1, <3>2
      <3>5. F[x - 1][T] = F[x - 1][T \ {x}]
        BY <1>7, <3>1, <3>2
      <3>6. F[N][T \ {x}] = F[x - 1][T \ {x}]
        <4>1. T \ {x} \in SUBSET (1 .. N)
          OBVIOUS
        <4>2. \A y \in T \ {x} : y <= x - 1
          BY <3>1, <3>2, SMT
        <4> QED
          BY <1>8, <3>2, <4>1, <4>2
      <3> QED
        BY <2>2, <3>3, <3>4, <3>5, <3>6 DEF x
    <2> QED
      BY <2>1, <2>2
  <1>11. IsFold(F[N], N, b, G)
    BY <1>10 DEF IsFold
  <1> QED
    BY <1>9, <1>11

-----------------------------------------------------------------------------
(* Sequences *)

\* As many as there are numbers in a set that has every smaller one.
LEMMA Initial ==
  ASSUME NEW N \in Nat, NEW T, T \subseteq 1 .. N,
         \A i \in T : \A j \in 1 .. i : j \in T
  PROVE  Cardinality(T) \in 0 .. N /\ T = 1 .. Cardinality(T)
  <1>1. CASE T = {}
    BY <1>1, FS_EmptySet
  <1>2. CASE T # {}
    <2>1. Max(T) \in T /\ \A y \in T : y <= Max(T)
      BY <1>2, MaxOf
    <2> DEFINE m == Max(T)
    <2>2. m \in Nat /\ m <= N /\ T = 1 .. m
      <3> HIDE DEF m
      <3>1. m \in T /\ \A y \in T : y <= m
        BY <2>1 DEF m
      <3>2. m \in Nat /\ m <= N /\ T \subseteq 1 .. m
        BY <3>1, SMT
      <3>3. 1 .. m \subseteq T
        BY <3>1
      <3> QED
        BY <3>2, <3>3
    <2>3. Cardinality(1 .. m) = m
      <3> HIDE DEF m
      <3> QED
        BY <2>2, FS_Interval, SMT
    <2> HIDE DEF m
    <2> QED
      BY <2>2, <2>3
  <1> QED
    BY <1>1, <1>2

\* r put in after the first k elements of s.
With(s, r, k) == SubSeq(s, 1, k) \o <<r>> \o SubSeq(s, k + 1, Len(s))

LEMMA Insertion ==
  ASSUME NEW X, NEW s, NEW r, NEW k, s \in Seq(X), r \in X, k \in 0 .. Len(s)
  PROVE  /\ With(s, r, k) \in Seq(X) /\ Len(With(s, r, k)) = Len(s) + 1
         /\ \A i \in 1 .. k : With(s, r, k)[i] = s[i]
         /\ With(s, r, k)[k + 1] = r
         /\ \A i \in k + 2 .. Len(s) + 1 : With(s, r, k)[i] = s[i - 1]
  <1> DEFINE a == SubSeq(s, 1, k)
             b == SubSeq(s, k + 1, Len(s))
  <1>1. a \in Seq(X) /\ Len(a) = k /\ \A i \in 1 .. k : a[i] = s[i]
    BY SMT
  <1>2. b \in Seq(X) /\ Len(b) = Len(s) - k /\ \A i \in 1 .. Len(s) - k : b[i] = s[k + i]
    BY SMT
  <1> HIDE DEF a, b
  <1> DEFINE u == a \o <<r>>
  <1>3. /\ u \in Seq(X) /\ Len(u) = k + 1
        /\ \A i \in 1 .. k : u[i] = s[i]
        /\ u[k + 1] = r
    BY <1>1, SMT
  <1> HIDE DEF u
  <1>4. /\ u \o b \in Seq(X) /\ Len(u \o b) = Len(s) + 1
        /\ \A i \in 1 .. k + 1 : (u \o b)[i] = u[i]
        /\ \A i \in k + 2 .. Len(s) + 1 : (u \o b)[i] = b[i - (k + 1)]
    BY <1>2, <1>3, SMT
  <1>5. \A i \in k + 2 .. Len(s) + 1 : b[i - (k + 1)] = s[i - 1]
    BY <1>2, SMT
  <1>6. With(s, r, k) = u \o b
    BY DEF With, u, a, b
  <1> QED
    BY <1>3, <1>4, <1>5, <1>6, SMT

LEMMA ConcatElements ==
  ASSUME NEW X, NEW a \in Seq(X), NEW b \in Seq(X)
  PROVE  a \o b \in Seq(X) /\ ToSet(a \o b) = ToSet(a) \cup ToSet(b)
  <1> DEFINE c == a \o b
  <1>1. /\ Len(a) \in Nat /\ DOMAIN a = 1 .. Len(a) /\ Len(b) \in Nat /\ DOMAIN b = 1 .. Len(b)
        /\ c \in Seq(X) /\ DOMAIN c = 1 .. Len(a) + Len(b)
        /\ \A i \in 1 .. Len(a) : c[i] = a[i]
        /\ \A i \in 1 .. Len(b) : c[Len(a) + i] = b[i]
    BY SMT
  <1> HIDE DEF c
  <1>2. ASSUME NEW i \in DOMAIN c PROVE c[i] \in ToSet(a) \cup ToSet(b)
    <2>1. CASE i <= Len(a)
      <3>1. i \in DOMAIN a /\ c[i] = a[i]
        BY <1>1, <2>1, SMT
      <3> QED
        BY <3>1 DEF ToSet
    <2>2. CASE ~(i <= Len(a))
      <3>1. i - Len(a) \in DOMAIN b /\ i = Len(a) + (i - Len(a))
        BY <1>1, <2>2, SMT
      <3>2. c[i] = b[i - Len(a)]
        BY <1>1, <3>1
      <3> QED
        BY <3>1, <3>2 DEF ToSet
    <2> QED
      BY <2>1, <2>2
  <1>3. ASSUME NEW i \in DOMAIN a PROVE a[i] \in ToSet(c)
    <2>1. i \in DOMAIN c /\ c[i] = a[i]
      BY <1>1, SMT
    <2> QED
      BY <2>1 DEF ToSet
  <1>4. ASSUME NEW i \in DOMAIN b PROVE b[i] \in ToSet(c)
    <2>1. Len(a) + i \in DOMAIN c /\ c[Len(a) + i] = b[i]
      BY <1>1, SMT
    <2> QED
      BY <2>1 DEF ToSet
  <1>5. ToSet(c) = ToSet(a) \cup ToSet(b)
    BY <1>2, <1>3, <1>4 DEF ToSet
  <1> QED
    BY <1>1, <1>5 DEF c

\* FlattenSeq has the elements of its parts.
LEMMA Flattened ==
  ASSUME NEW X, NEW q \in Seq(Seq(X))
  PROVE  /\ FlattenSeq(q) \in Seq(X)
         /\ \A x : x \in ToSet(FlattenSeq(q)) <=> \E i \in DOMAIN q : x \in ToSet(q[i])
  <1> DEFINE N == Len(q)
             Y == Seq(X)
  <1>1. N \in Nat /\ DOMAIN q = 1 .. N /\ \A i \in 1 .. N : q[i] \in Y
    OBVIOUS
  <1>2. CASE N = 0
    <2>1. q = [i \in 1 .. N |-> q[i]]
      OBVIOUS
    <2>2. DOMAIN q = {} /\ q = <<>>
      BY <1>1, <1>2, <2>1, SMT
    <2>3. FlattenSeq(q) = q
      BY <1>2 DEF FlattenSeq
    <2>4. ToSet(q) = {}
      BY <2>2 DEF ToSet
    <2>5. q \in Seq(X)
      BY <2>2
    <2>6. ~(\E i \in DOMAIN q : TRUE)
      BY <2>2
    <2> QED
      BY <2>3, <2>4, <2>5, <2>6
  <1>3. CASE N # 0
    <2> DEFINE Body(f) == [i \in 1 .. Len(q) |-> IF i = 1 THEN q[i] ELSE f[i - 1] \o q[i]]
               it == CHOOSE f : f = Body(f)
               G == [n \in Nat |-> [c \in Y |-> IF n + 2 <= N THEN c \o q[n + 2] ELSE c]]
    <2>1. FlattenSeq(q) = it[N]
      BY <1>3 DEF FlattenSeq
    <2>2. it = Body(it)
      <3>1. G \in [Nat -> [Y -> Y]]
        <4>1. ASSUME NEW n \in Nat, NEW c \in Y PROVE (IF n + 2 <= N THEN c \o q[n + 2] ELSE c) \in Y
          <5>1. n + 2 <= N => n + 2 \in 1 .. N
            BY <1>1, SMT
          <5>2. n + 2 <= N => c \o q[n + 2] \in Y
            BY <1>1, <5>1, ConcatElements
          <5> QED
            BY <5>2
        <4> HIDE DEF Y, N
        <4> QED
          BY <4>1
      <3>2. q[1] \in Y
        BY <1>1, <1>3
      <3>3. PICK F \in [Nat -> Y] : F[0] = q[1] /\ \A n \in Nat : F[n + 1] = G[n][F[n]]
        <4> HIDE DEF Y, N, G
        <4>1. PICK F \in [Nat -> Y] : IsRun(F, q[1], G)
          BY <3>1, <3>2, Recursion
        <4> QED
          BY <4>1 DEF IsRun
      <3> DEFINE h == [i \in 1 .. N |-> F[i - 1]]
      <3>4. ASSUME NEW i \in 1 .. N PROVE h[i] = IF i = 1 THEN q[i] ELSE h[i - 1] \o q[i]
        <4>1. CASE i = 1
          BY <3>3, <4>1
        <4>2. CASE i # 1
          <5> DEFINE n == i - 2
          <5>1. n \in Nat /\ n + 2 = i /\ n + 1 = i - 1 /\ n + 2 <= N /\ i - 1 \in 1 .. N
                /\ (i - 1) - 1 = n
            BY <1>1, <4>2, SMT
          <5> HIDE DEF n
          <5>2. F[n] \in Y
            <6> HIDE DEF Y
            <6> QED
              BY <5>1
          <5>3. F[n + 1] = F[n] \o q[n + 2]
            <6> HIDE DEF Y, N
            <6> QED
              BY <3>3, <5>1, <5>2
          <5>4. h[i] = F[i - 1] /\ h[i - 1] = F[n]
            BY <5>1
          <5> QED
            BY <4>2, <5>1, <5>3, <5>4
        <4> QED
          BY <4>1, <4>2
      <3>5. h = Body(h)
        BY <3>4
      <3> HIDE DEF Body, h
      <3> QED
        BY <3>5
    <2> HIDE DEF it
    <2>3. \A i \in 1 .. N : it[i] = IF i = 1 THEN q[i] ELSE it[i - 1] \o q[i]
      BY <2>2
    <2> DEFINE Good(k) ==
                 /\ it[k] \in Y
                 /\ \A x : x \in ToSet(it[k]) <=> \E i \in 1 .. k : x \in ToSet(q[i])
               S == {k \in Nat : k < N => Good(k + 1)}
    <2> HIDE DEF N, Y
    <2>4. 0 \in S
      <3>1. 1 \in 1 .. N /\ 0 + 1 = 1
        BY <1>1, <1>3, SMT
      <3>2. it[1] = q[1] /\ q[1] \in Y
        BY <1>1, <2>3, <3>1
      <3>3. \A i : i \in 1 .. 1 <=> i = 1
        BY SMT
      <3>4. Good(1)
        BY <3>2, <3>3
      <3> HIDE DEF Good
      <3> QED
        BY <3>1, <3>4
    <2>5. ASSUME NEW k \in Nat, k \in S PROVE k + 1 \in S
      <3> SUFFICES ASSUME k + 1 < N PROVE Good(k + 2)
        <4>1. (k + 1) + 1 = k + 2 /\ k + 1 \in Nat
          OBVIOUS
        <4> HIDE DEF Good
        <4> QED
          BY <4>1
      <3>1. k + 2 \in 1 .. N /\ k + 1 \in 1 .. N /\ (k + 2) - 1 = k + 1 /\ k + 2 # 1 /\ k < N
        BY <1>1, SMT
      <3>2. Good(k + 1)
        <4> HIDE DEF Good
        <4> QED
          BY <2>5, <3>1
      <3>3. it[k + 2] = it[k + 1] \o q[k + 2]
        BY <2>3, <3>1
      <3>4. /\ it[k + 2] \in Y
            /\ ToSet(it[k + 2]) = ToSet(it[k + 1]) \cup ToSet(q[k + 2])
        BY <1>1, <3>1, <3>2, <3>3, ConcatElements DEF Y
      <3>5. \A i : i \in 1 .. k + 2 <=> i \in 1 .. k + 1 \/ i = k + 2
        BY SMT
      <3> QED
        BY <3>2, <3>4, <3>5
    <2> HIDE DEF S
    <2>6. Nat \subseteq S
      BY <2>4, <2>5, Induction
    <2>7. Good(N)
      <3>1. N - 1 \in Nat /\ N - 1 < N /\ (N - 1) + 1 = N
        BY <1>1, <1>3, SMT
      <3>2. N - 1 \in S
        BY <2>6, <3>1
      <3> HIDE DEF Good
      <3>3. Good((N - 1) + 1)
        BY <3>1, <3>2 DEF S
      <3> QED
        BY <3>1, <3>3
    <2> QED
      BY <1>1, <2>1, <2>7 DEF Y
  <1> QED
    BY <1>2, <1>3
=============================================================================

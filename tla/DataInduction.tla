----------------------------- MODULE DataInduction -----------------------------
(***************************************************************************)
(* Induction over data, for the proofs about texts.  The induction         *)
(* theorems of the library take a predicate as their parameter; what they  *)
(* say is proved here from the well-foundedness of the numbers, about      *)
(* sets.  With it, functions that are defined by recursion exist, and      *)
(* FlattenSeq of the community modules can be reasoned about.              *)
(***************************************************************************)
EXTENDS Integers, Sequences, SequencesExt, SequenceTheorems, WellFoundedInduction, TLAPS

\* The order of the numbers is well founded: the library states this of no operator.
LEMMA LessIsWellFounded ==
    \E R : IsWellFoundedOn(R, Nat) /\ \A x, y \in Nat : y < x => <<y, x>> \in R
  <1>1. IsWellFoundedOn(OpToRel(<, Nat), Nat)
    BY NatLessThanWellFounded
  <1>2. \A x, y \in Nat : y < x => <<y, x>> \in OpToRel(<, Nat)
    BY DEF OpToRel
  <1>3. QED
    BY <1>1, <1>2, Zenon

\* A set of numbers that is not empty has a smallest one.
LEMMA Smallest ==
    ASSUME NEW T, T \subseteq Nat, T # {}
    PROVE  \E x \in T : \A y \in T : x <= y
  <1>1. PICK R : /\ IsWellFoundedOn(R, Nat)
                 /\ \A x, y \in Nat : y < x => <<y, x>> \in R
    BY LessIsWellFounded
  <1>2. PICK x \in T : \A y \in T : <<y, x>> \notin R
    BY <1>1, WFMin
  <1>3. ASSUME NEW y \in T PROVE x <= y
    <2>1. ~(y < x)
      BY <1>1, <1>2, Zenon
    <2>2. QED
      BY <2>1
  <1>4. QED
    BY <1>3

\* Induction from m to n over a set instead of a predicate.
LEMMA Induction ==
    ASSUME NEW S, NEW m \in Int, NEW n \in Int, m \in S,
           \A k \in m..n - 1 : k \in S => k + 1 \in S
    PROVE  m..n \subseteq S
  <1> DEFINE T == {k \in Nat : m + k <= n /\ m + k \notin S}
  <1> SUFFICES ASSUME T # {} PROVE FALSE
    <2>1. ASSUME T = {}, NEW j \in m..n PROVE j \in S
      <3>1. j - m \in Nat /\ m + (j - m) = j /\ j <= n
        OBVIOUS
      <3>2. j - m \notin T
        BY <2>1
      <3>3. QED
        BY <3>1, <3>2
    <2>2. QED
      BY <2>1
  <1>1. T \subseteq Nat
    OBVIOUS
  <1> HIDE DEF T
  <1>2. PICK x \in T : \A y \in T : x <= y
    BY <1>1, Smallest
  <1>3. x \in Nat /\ m + x <= n /\ m + x \notin S
    BY <1>2 DEF T
  <1>4. x # 0
    BY <1>3
  <1>5. x - 1 \in Nat /\ x - 1 \notin T
    BY <1>2, <1>3, <1>4
  <1>6. m + (x - 1) \in S
    BY <1>3, <1>5 DEF T
  <1>7. m + (x - 1) \in m..n - 1 /\ (m + (x - 1)) + 1 = m + x
    BY <1>3, <1>4
  <1>8. QED
    BY <1>3, <1>6, <1>7

Recurses(f, n, c, Step) ==
    f = [i \in 1..n |-> IF i = 1 THEN c ELSE Step[i][f[i - 1]]]

\* A function defined by recursion over 1..n exists.
LEMMA Recursive ==
    ASSUME NEW n \in Nat, NEW c, NEW Step
    PROVE  \E f : Recurses(f, n, c, Step)
  <1> DEFINE Good(k) ==
        \E f : f = [i \in 1..k |-> IF i = 1 THEN c ELSE Step[i][f[i - 1]]]
             S == {k \in 0..n : Good(k)}
  <1>1. 0 \in S
    <2>1. <<>> = [i \in 1..0 |-> IF i = 1 THEN c ELSE Step[i][<<>>[i - 1]]]
      OBVIOUS
    <2>2. Good(0)
      BY <2>1
    <2> HIDE DEF Good
    <2>3. QED
      BY <2>2
  <1>2. ASSUME NEW k \in 0..n - 1, k \in S
        PROVE  k + 1 \in S
    <2>1. PICK f : f = [i \in 1..k |-> IF i = 1 THEN c ELSE Step[i][f[i - 1]]]
      BY <1>2
    <2> DEFINE g == [i \in 1..k + 1 |-> IF i \in 1..k THEN f[i]
                     ELSE IF i = 1 THEN c ELSE Step[i][f[k]]]
    <2>2. ASSUME NEW i \in 1..k + 1
          PROVE  g[i] = IF i = 1 THEN c ELSE Step[i][g[i - 1]]
      <3>1. CASE i \in 1..k
        <4>1. i = 1 \/ i - 1 \in 1..k
          BY <3>1
        <4>2. i = 1 \/ g[i - 1] = f[i - 1]
          BY <4>1
        <4>3. f[i] = IF i = 1 THEN c ELSE Step[i][f[i - 1]]
          BY <2>1, <3>1
        <4>4. QED
          BY <3>1, <4>2, <4>3
      <3>2. CASE i \notin 1..k
        <4>1. i = k + 1
          BY <3>2
        <4>2. k = 0 \/ g[k] = f[k]
          OBVIOUS
        <4>3. QED
          BY <3>2, <4>1, <4>2
      <3>3. QED
        BY <3>1, <3>2
    <2>3. g = [i \in 1..k + 1 |-> IF i = 1 THEN c ELSE Step[i][g[i - 1]]]
      BY <2>2
    <2>4. Good(k + 1)
      BY <2>3
    <2>5. QED
      BY <2>4
  <1>3. n \in S
    <2> HIDE DEF S
    <2>1. 0..n \subseteq S
      BY <1>1, <1>2, Induction
    <2>2. QED
      BY <2>1
  <1>4. PICK f : f = [i \in 1..n |-> IF i = 1 THEN c ELSE Step[i][f[i - 1]]]
    BY <1>3
  <1>5. QED
    BY <1>4 DEF Recurses

\* With values of a set it has values of that set.
LEMMA RecursiveOn ==
    ASSUME NEW S, NEW n \in Nat, NEW c \in S, NEW Step \in [1..n -> [S -> S]]
    PROVE  \E f \in [1..n -> S] : Recurses(f, n, c, Step)
  <1>1. PICK f : Recurses(f, n, c, Step)
    BY Recursive
  <1>2. /\ f = [i \in 1..n |-> f[i]]
        /\ \A i \in 1..n : f[i] = IF i = 1 THEN c ELSE Step[i][f[i - 1]]
    BY <1>1 DEF Recurses
  <1> DEFINE T == {i \in 1..n : f[i] \in S}
  <1>3. n = 0 \/ 1 \in T
    <2>1. n = 0 \/ 1 \in 1..n
      OBVIOUS
    <2>2. QED
      BY <1>2, <2>1
  <1>4. ASSUME NEW k \in 1..n - 1, k \in T PROVE k + 1 \in T
    <2>1. k + 1 \in 1..n /\ k + 1 # 1 /\ (k + 1) - 1 = k
      OBVIOUS
    <2>2. f[k + 1] = Step[k + 1][f[k]] /\ f[k] \in S /\ Step[k + 1] \in [S -> S]
      BY <1>2, <1>4, <2>1
    <2>3. QED
      BY <2>1, <2>2
  <1>5. 1..n \subseteq T
    <2> HIDE DEF T
    <2>1. n \in Int /\ 1 \in Int /\ (n = 0 => 1..n = {})
      OBVIOUS
    <2>2. QED
      BY <1>3, <1>4, <2>1, Induction, Zenon
  <1>6. f \in [1..n -> S]
    BY <1>2, <1>5
  <1>7. QED
    BY <1>1, <1>6

RecursesFromZero(f, n, c, Step) ==
    f = [i \in 0..n |-> IF i = 0 THEN c ELSE Step[i][f[i - 1]]]

\* The same for a function over 0..n.
LEMMA RecursiveFromZero ==
    ASSUME NEW S, NEW n \in Nat, NEW c \in S, NEW Step \in [1..n -> [S -> S]]
    PROVE  \E f \in [0..n -> S] : RecursesFromZero(f, n, c, Step)
  <1> DEFINE Next(i) == IF i = 1 THEN [x \in S |-> x] ELSE Step[i - 1]
             Later == [i \in 1..n + 1 |-> Next(i)]
  <1>1. Later \in [1..n + 1 -> [S -> S]]
    <2>1. ASSUME NEW i \in 1..n + 1 PROVE Next(i) \in [S -> S]
      <3>1. i = 1 \/ i - 1 \in 1..n
        OBVIOUS
      <3>2. QED
        BY <3>1
    <2> HIDE DEF Next
    <2>2. QED
      BY <2>1
  <1>2. \A i \in 1..n : Later[i + 1] = Step[i]
    OBVIOUS
  <1> HIDE DEF Later
  <1>3. n + 1 \in Nat
    OBVIOUS
  <1>4. PICK g \in [1..n + 1 -> S] : Recurses(g, n + 1, c, Later)
    BY <1>1, <1>3, RecursiveOn
  <1> DEFINE f == [i \in 0..n |-> g[i + 1]]
  <1>5. f \in [0..n -> S]
    OBVIOUS
  <1>6. ASSUME NEW i \in 0..n PROVE f[i] = IF i = 0 THEN c ELSE Step[i][f[i - 1]]
    <2>1. i + 1 \in 1..n + 1 /\ (i + 1 = 1 <=> i = 0) /\ (i + 1) - 1 = i /\ f[i] = g[i + 1]
      OBVIOUS
    <2>2. g[i + 1] = IF i + 1 = 1 THEN c ELSE Later[i + 1][g[(i + 1) - 1]]
      BY <1>4, <2>1 DEF Recurses
    <2>3. i # 0 => i \in 1..n /\ i - 1 \in 0..n /\ (i - 1) + 1 = i
      OBVIOUS
    <2>4. i # 0 => f[i - 1] = g[i]
      BY <2>3
    <2> HIDE DEF f
    <2>5. QED
      BY <1>2, <2>1, <2>2, <2>3, <2>4
  <1>7. RecursesFromZero(f, n, c, Step)
    BY <1>6 DEF RecursesFromZero
  <1>8. QED
    BY <1>5, <1>7

RecursesOverNat(f, c, Step) ==
    f = [i \in Nat |-> IF i = 0 THEN c ELSE Step[i][f[i - 1]]]

\* A function defined by recursion over all the numbers exists: its values are those of
\* the functions up to each number, which agree.
LEMMA RecursiveOverNat ==
    ASSUME NEW S, NEW c \in S, NEW Step \in [Nat -> [S -> S]]
    PROVE  \E f \in [Nat -> S] : RecursesOverNat(f, c, Step)
  <1> DEFINE UpTo(f, n) == /\ f \in [0..n -> S]
                           /\ \A i \in 0..n : f[i] = IF i = 0 THEN c ELSE Step[i][f[i - 1]]
             Best(n) == CHOOSE f : UpTo(f, n)
             F == [n \in Nat |-> Best(n)[n]]
  <1>1. ASSUME NEW n \in Nat PROVE UpTo(Best(n), n)
    <2>1. [i \in 1..n |-> Step[i]] \in [1..n -> [S -> S]]
      OBVIOUS
    <2>2. PICK f \in [0..n -> S] : RecursesFromZero(f, n, c, [i \in 1..n |-> Step[i]])
      BY <2>1, RecursiveFromZero
    <2>3. ASSUME NEW i \in 0..n PROVE f[i] = IF i = 0 THEN c ELSE Step[i][f[i - 1]]
      <3>1. f[i] = IF i = 0 THEN c ELSE [j \in 1..n |-> Step[j]][i][f[i - 1]]
        BY <2>2 DEF RecursesFromZero
      <3>2. i # 0 => i \in 1..n
        OBVIOUS
      <3>3. QED
        BY <3>1, <3>2
    <2>4. UpTo(f, n)
      BY <2>2, <2>3
    <2> HIDE DEF UpTo
    <2>5. QED
      BY <2>4
  <1>2. ASSUME NEW n \in Nat, NEW m \in Nat, n <= m, NEW f, NEW g, UpTo(f, n), UpTo(g, m)
        PROVE  f[n] = g[n]
    <2> DEFINE T == {i \in 0..n : f[i] = g[i]}
    <2>1. 0 \in T
      BY <1>2
    <2>2. ASSUME NEW k \in 0..n - 1, k \in T PROVE k + 1 \in T
      <3>1. k + 1 \in 0..n /\ k + 1 \in 0..m /\ k + 1 # 0 /\ (k + 1) - 1 = k
        BY <1>2
      <3>2. f[k + 1] = Step[k + 1][f[k]] /\ g[k + 1] = Step[k + 1][g[k]]
        BY <1>2, <3>1
      <3>3. QED
        BY <2>2, <3>1, <3>2
    <2>3. 0 \in Int /\ n \in Int /\ n \in 0..n
      OBVIOUS
    <2> HIDE DEF T
    <2>4. 0..n \subseteq T
      BY <2>1, <2>2, <2>3, Induction, Zenon
    <2>5. QED
      BY <2>3, <2>4 DEF T
  <1>3. ASSUME NEW n \in Nat
        PROVE  F[n] \in S /\ F[n] = IF n = 0 THEN c ELSE Step[n][F[n - 1]]
    <2> DEFINE g == Best(n)
    <2>1. UpTo(g, n)
      BY <1>1
    <2>2. n \in 0..n /\ F[n] = g[n]
      OBVIOUS
    <2>3. n # 0 => n - 1 \in Nat /\ n - 1 <= n /\ n - 1 \in 0..n
      OBVIOUS
    <2>4. n # 0 => F[n - 1] = g[n - 1]
      <3> SUFFICES ASSUME n # 0 PROVE F[n - 1] = g[n - 1]
        OBVIOUS
      <3>1. UpTo(Best(n - 1), n - 1) /\ F[n - 1] = Best(n - 1)[n - 1]
        BY <1>1, <2>3
      <3> HIDE DEF Best, F, UpTo
      <3>2. QED
        BY <1>2, <2>1, <2>3, <3>1
    <2> HIDE DEF Best, F, g
    <2>5. QED
      BY <2>1, <2>2, <2>3, <2>4
  <1>4. F \in [Nat -> S]
    <2>1. F = [n \in Nat |-> F[n]]
      OBVIOUS
    <2> HIDE DEF F
    <2>2. QED
      BY <1>3, <2>1
  <1>5. RecursesOverNat(F, c, Step)
    <2>1. F = [n \in Nat |-> F[n]]
      OBVIOUS
    <2> HIDE DEF F
    <2>2. QED
      BY <1>3, <2>1 DEF RecursesOverNat
  <1>6. QED
    BY <1>4, <1>5

\* Induction over things with a rank: what holds of each, if it holds of those of lower
\* ranks, holds of all.
LEMMA RankInduction ==
    ASSUME NEW T, NEW Rank \in [T -> Nat], NEW S,
           \A t \in T : (\A u \in T : Rank[u] < Rank[t] => u \in S) => t \in S
    PROVE  T \subseteq S
  <1> DEFINE R == {Rank[t] : t \in T \ S}
  <1> SUFFICES ASSUME T \ S # {} PROVE FALSE
    OBVIOUS
  <1>1. R \subseteq Nat /\ R # {}
    OBVIOUS
  <1>2. PICK x \in R : \A y \in R : x <= y
    BY <1>1, Smallest
  <1>3. PICK t \in T \ S : x = Rank[t]
    BY <1>2
  <1>4. ASSUME NEW u \in T, Rank[u] < Rank[t], u \notin S PROVE FALSE
    <2>1. Rank[u] \in R /\ Rank[u] \in Nat /\ Rank[t] \in Nat
      BY <1>4
    <2> HIDE DEF R
    <2>2. Rank[t] <= Rank[u]
      BY <1>2, <1>3, <2>1
    <2>3. QED
      BY <1>4, <2>1, <2>2
  <1>5. QED
    BY <1>3, <1>4

\* What FlattenSeq folds.
Flattens(f, X, n, s) ==
    /\ f \in [1..n -> Seq(X)]
    /\ FlattenSeq(s) = f[n]
    /\ f[1] = s[1]
    /\ \A i \in 1..n - 1 : f[i + 1] = f[i] \o s[i + 1]

\* The recursion inside FlattenSeq has a solution, and FlattenSeq is its last value.
LEMMA FlattenStep ==
    ASSUME NEW X, NEW n \in Nat \ {0}, NEW s \in [1..n -> Seq(X)]
    PROVE  \E f : Flattens(f, X, n, s)
  <1> DEFINE Step == [i \in 1..n |-> [a \in Seq(X) |-> a \o s[i]]]
             flatten == CHOOSE f : f = [i \in 1..Len(s) |->
                                           IF i = 1 THEN s[i] ELSE f[i - 1] \o s[i]]
  <1>1. Len(s) = n /\ n \in Nat /\ n \in Int /\ 1 \in Int /\ s[1] \in Seq(X)
    OBVIOUS
  <1>2. \A a \in Seq(X), i \in 1..n : Step[i][a] = a \o s[i]
    OBVIOUS
  <1>3. PICK f \in [1..n -> Seq(X)] : Recurses(f, n, s[1], Step)
    <2>1. ASSUME NEW i \in 1..n, NEW a \in Seq(X)
          PROVE  a \o s[i] \in Seq(X)
      BY ConcatProperties
    <2>2. Step \in [1..n -> [Seq(X) -> Seq(X)]]
      BY <2>1
    <2> HIDE DEF Step
    <2>3. QED
      BY <1>1, <2>2, RecursiveOn
  <1> HIDE DEF Step
  <1>4. f = [i \in 1..n |-> IF i = 1 THEN s[i] ELSE f[i - 1] \o s[i]]
    <2>1. ASSUME NEW i \in 1..n, i # 1
          PROVE  Step[i][f[i - 1]] = f[i - 1] \o s[i]
      <3>1. f[i - 1] \in Seq(X)
        BY <2>1
      <3>2. QED
        BY <1>2, <3>1
    <2>2. QED
      BY <1>3, <2>1 DEF Recurses
  <1>5. flatten = [i \in 1..Len(s) |-> IF i = 1 THEN s[i] ELSE flatten[i - 1] \o s[i]]
    BY <1>1, <1>4
  <1>6. FlattenSeq(s) = flatten[Len(s)]
    BY <1>1 DEF FlattenSeq
  <1> HIDE DEF flatten
  <1>7. flatten = [i \in 1..n |-> IF i = 1 THEN s[i] ELSE flatten[i - 1] \o s[i]]
    BY <1>1, <1>5
  <1>8. \A i \in 1..n : flatten[i] = f[i]
    <2> DEFINE T == {i \in 1..n : flatten[i] = f[i]}
    <2>1. 1 \in T
      BY <1>4, <1>7
    <2>2. ASSUME NEW k \in 1..n - 1, k \in T PROVE k + 1 \in T
      <3>1. k + 1 \in 1..n /\ k + 1 # 1 /\ (k + 1) - 1 = k
        OBVIOUS
      <3>2. f[k + 1] = f[k] \o s[k + 1]
        BY <1>4, <3>1
      <3>3. flatten[k + 1] = flatten[k] \o s[k + 1]
        BY <1>7, <3>1
      <3>4. QED
        BY <2>2, <3>1, <3>2, <3>3
    <2>3. 1..n \subseteq T
      <3> HIDE DEF T
      <3>1. QED
        BY <1>1, <2>1, <2>2, Induction, Zenon
    <2>4. QED
      BY <2>3
  <1>9. FlattenSeq(s) = f[n]
    BY <1>1, <1>6, <1>8
  <1>10. ASSUME NEW i \in 1..n - 1 PROVE f[i + 1] = f[i] \o s[i + 1]
    <2>1. i + 1 \in 1..n /\ i + 1 # 1 /\ (i + 1) - 1 = i
      OBVIOUS
    <2>2. QED
      BY <1>4, <2>1
  <1>11. f[1] = s[1]
    BY <1>4
  <1>12. QED
    BY <1>9, <1>10, <1>11 DEF Flattens

\* Nothing flattens to nothing.
LEMMA FlattenEmpty == FlattenSeq(<<>>) = <<>>
  BY DEF FlattenSeq

\* Sequences over X flatten to a sequence over X.
LEMMA FlattenType ==
    ASSUME NEW X, NEW s \in Seq(Seq(X))
    PROVE  FlattenSeq(s) \in Seq(X)
  <1>1. CASE s = <<>>
    BY <1>1, FlattenEmpty, EmptySeq
  <1>2. CASE s # <<>>
    <2>1. Len(s) \in Nat \ {0} /\ s \in [1..Len(s) -> Seq(X)]
      BY <1>2
    <2>2. PICK f : Flattens(f, X, Len(s), s)
      BY <2>1, FlattenStep
    <2>3. QED
      BY <2>1, <2>2 DEF Flattens
  <1>3. QED
    BY <1>1, <1>2

\* What a prefix of a sequence is.
LEMMA PrefixProperties ==
    ASSUME NEW X, NEW s \in Seq(X), NEW k \in 0..Len(s)
    PROVE  /\ SubSeq(s, 1, k) \in Seq(X)
           /\ Len(SubSeq(s, 1, k)) = k
           /\ SubSeq(s, 1, k) \in [1..k -> X]
           /\ \A i \in 1..k : SubSeq(s, 1, k)[i] = s[i]
  <1>1. k \in Int /\ 1 \in Int /\ Len(s) \in Nat
    OBVIOUS
  <1>2. \A i \in 1..k : s[i] \in X
    OBVIOUS
  <1>3. SubSeq(s, 1, k) = [i \in 1..k |-> s[i]]
    OBVIOUS
  <1>4. SubSeq(s, 1, k) \in [1..k -> X] /\ \A i \in 1..k : SubSeq(s, 1, k)[i] = s[i]
    BY <1>2, <1>3
  <1>5. SubSeq(s, 1, k) \in Seq(X) /\ Len(SubSeq(s, 1, k)) = k
    BY <1>1, <1>2, SubSeqProperties
  <1>6. QED
    BY <1>4, <1>5

\* One more sequence adds its elements at the end.
LEMMA FlattenPrefix ==
    ASSUME NEW X, NEW s \in Seq(Seq(X)), NEW k \in 0..Len(s) - 1
    PROVE  FlattenSeq(SubSeq(s, 1, k + 1)) = FlattenSeq(SubSeq(s, 1, k)) \o s[k + 1]
  <1> DEFINE t == SubSeq(s, 1, k + 1)
             u == SubSeq(s, 1, k)
  <1>1. /\ k \in Nat /\ k \in 0..Len(s) /\ k + 1 \in 0..Len(s)
        /\ k + 1 \in Nat \ {0} /\ k + 1 \in 1..Len(s)
    OBVIOUS
  <1>2. t \in [1..k + 1 -> Seq(X)] /\ \A i \in 1..k + 1 : t[i] = s[i]
    BY <1>1, PrefixProperties
  <1>3. u \in [1..k -> Seq(X)] /\ \A i \in 1..k : u[i] = s[i]
    BY <1>1, PrefixProperties
  <1>4. s[k + 1] \in Seq(X)
    BY <1>1
  <1>c. u = <<>> \/ k # 0
    OBVIOUS
  <1> HIDE DEF t, u
  <1>5. PICK f : Flattens(f, X, k + 1, t)
    BY <1>1, <1>2, FlattenStep
  <1>6. /\ FlattenSeq(t) = f[k + 1] /\ f[1] = t[1]
        /\ \A i \in 1..k : f[i + 1] = f[i] \o t[i + 1]
    <2>1. 1..(k + 1) - 1 = 1..k
      BY <1>1
    <2>2. QED
      BY <1>5, <2>1 DEF Flattens
  <1>7. CASE k = 0
    <2>1. u = <<>> /\ FlattenSeq(u) = <<>>
      BY <1>7, <1>c, FlattenEmpty
    <2>2. FlattenSeq(t) = s[k + 1]
      BY <1>2, <1>6, <1>7
    <2>3. <<>> \o s[k + 1] = s[k + 1]
      BY <1>4, ConcatEmptySeq
    <2>4. QED
      BY <2>1, <2>2, <2>3 DEF t, u
  <1>8. CASE k # 0
    <2>1. /\ k \in Nat \ {0} /\ k \in 1..k /\ 1 \in 1..k /\ 1 \in Int /\ k \in Int
          /\ 1 \in 1..k+1
      BY <1>1, <1>8
    <2>2. PICK g : Flattens(g, X, k, u)
      BY <1>3, <2>1, FlattenStep
    <2>3. /\ FlattenSeq(u) = g[k] /\ g[1] = u[1]
          /\ \A i \in 1..k - 1 : g[i + 1] = g[i] \o u[i + 1]
      BY <2>2 DEF Flattens
    <2> DEFINE T == {i \in 1..k : f[i] = g[i]}
    <2>4. 1 \in T
      BY <1>2, <1>3, <1>6, <2>1, <2>3
    <2>5. ASSUME NEW j \in 1..k - 1, j \in T PROVE j + 1 \in T
      <3>1. j + 1 \in 1..k /\ j + 1 \in 1..k + 1 /\ j \in 1..k
        BY <2>1
      <3>2. f[j + 1] = f[j] \o t[j + 1]
        BY <1>6, <3>1
      <3>3. g[j + 1] = g[j] \o u[j + 1]
        BY <2>3
      <3>4. t[j + 1] = u[j + 1]
        BY <1>2, <1>3, <3>1
      <3>5. f[j] = g[j]
        BY <2>5
      <3>6. QED
        BY <3>1, <3>2, <3>3, <3>4, <3>5
    <2>6. k \in T
      <3> HIDE DEF T
      <3>1. 1..k \subseteq T
        BY <2>1, <2>4, <2>5, Induction, Zenon
      <3>2. QED
        BY <2>1, <3>1
    <2>7. f[k + 1] = f[k] \o t[k + 1]
      BY <1>6, <2>1
    <2>8. t[k + 1] = s[k + 1]
      BY <1>1, <1>2
    <2>9. f[k] = g[k]
      BY <2>6
    <2>10. QED
      BY <1>6, <2>3, <2>7, <2>8, <2>9 DEF t, u
  <1>9. QED
    BY <1>7, <1>8

\* The same for the first k values of a function.
Flat(b, k) == FlattenSeq([i \in 1..k |-> b[i]])

\* The values make a sequence.
LEMMA FlatType ==
    ASSUME NEW X, NEW k \in Nat, NEW b, \A i \in 1..k : b[i] \in Seq(X)
    PROVE  Flat(b, k) \in Seq(X)
  <1>1. [i \in 1..k |-> b[i]] \in Seq(Seq(X))
    OBVIOUS
  <1>2. QED
    BY <1>1, FlattenType DEF Flat

\* No values make the empty sequence.
LEMMA FlatNone == ASSUME NEW b PROVE Flat(b, 0) = <<>>
  <1>1. [i \in 1..0 |-> b[i]] = <<>>
    OBVIOUS
  <1>2. QED
    BY <1>1, FlattenEmpty DEF Flat

\* One more value is added at the end.
LEMMA FlatNext ==
    ASSUME NEW X, NEW k \in Nat, NEW b, \A i \in 1..k + 1 : b[i] \in Seq(X)
    PROVE  Flat(b, k + 1) = Flat(b, k) \o b[k + 1]
  <1> DEFINE s == [i \in 1..k + 1 |-> b[i]]
  <1>1. s \in Seq(Seq(X)) /\ Len(s) = k + 1
    OBVIOUS
  <1>2. k \in 0..Len(s) - 1 /\ k \in 0..Len(s) /\ k + 1 \in 0..Len(s)
    BY <1>1
  <1>3. SubSeq(s, 1, k + 1) = s
    BY <1>1, SubSeqFull
  <1>4. SubSeq(s, 1, k) = [i \in 1..k |-> b[i]]
    OBVIOUS
  <1>5. s[k + 1] = b[k + 1]
    OBVIOUS
  <1> HIDE DEF s
  <1>6. FlattenSeq(SubSeq(s, 1, k + 1)) = FlattenSeq(SubSeq(s, 1, k)) \o s[k + 1]
    BY <1>1, <1>2, FlattenPrefix
  <1>7. QED
    BY <1>3, <1>4, <1>5, <1>6 DEF s, Flat

\* From i to before e, the values are those of a sequence one by one.
Copies(b, s, i, e) == \A k \in i..e - 1 : b[k] = <<s[k]>>

\* They add a part of it.
LEMMA FlatRun ==
    ASSUME NEW X, NEW s \in Seq(X), NEW b, NEW i \in Nat, NEW e \in Nat,
           i >= 1, i <= e, e <= Len(s) + 1,
           \A k \in 1..i - 1 : b[k] \in Seq(X), Copies(b, s, i, e)
    PROVE  Flat(b, e - 1) = Flat(b, i - 1) \o SubSeq(s, i, e - 1)
  <1> DEFINE T == {k \in i..e : Flat(b, k - 1) = Flat(b, i - 1) \o SubSeq(s, i, k - 1)}
  <1>1. Len(s) \in Nat /\ i \in Int /\ e \in Int /\ i - 1 \in Nat /\ e \in i..e
    OBVIOUS
  <1>2. Flat(b, i - 1) \in Seq(X)
    BY <1>1, FlatType
  <1>3. i \in T
    <2>1. SubSeq(s, i, i - 1) = <<>>
      BY <1>1, SubSeqEmpty
    <2>2. Flat(b, i - 1) \o <<>> = Flat(b, i - 1)
      BY <1>2, ConcatEmptySeq
    <2>3. i \in i..e
      BY <1>1
    <2>4. QED
      BY <2>1, <2>2, <2>3
  <1>4. ASSUME NEW k \in i..e - 1, k \in T PROVE k + 1 \in T
    <2>1. /\ k - 1 \in Nat /\ (k - 1) + 1 = k /\ (k + 1) - 1 = k
          /\ k \in 1..Len(s) /\ k + 1 \in i..e
      BY <1>1
    <2>2. \A j \in 1..k : b[j] \in Seq(X)
      <3>1. ASSUME NEW j \in i..e - 1 PROVE b[j] \in Seq(X)
        <4>1. s[j] \in X
          BY <1>1
        <4>2. <<s[j]>> \in Seq(X)
          BY <4>1
        <4>3. b[j] = <<s[j]>>
          BY DEF Copies
        <4>4. QED
          BY <4>2, <4>3, Zenon
      <3>2. QED
        BY <1>1, <3>1
    <2>3. Flat(b, k) = Flat(b, k - 1) \o <<s[k]>>
      <3>1. b[k] = <<s[k]>>
        BY DEF Copies
      <3>2. QED
        BY <2>1, <2>2, <3>1, FlatNext
    <2>4. SubSeq(s, i, k) = SubSeq(s, i, k - 1) \o <<s[k]>>
      BY <1>1, <2>1, SubSeqRecursiveSecond
    <2>5. SubSeq(s, i, k - 1) \in Seq(X) /\ <<s[k]>> \in Seq(X)
      <3>1. \A j \in i..k - 1 : s[j] \in X
        BY <1>1
      <3>2. s[k] \in X
        BY <2>1
      <3>3. QED
        BY <1>1, <2>1, <3>1, <3>2, SubSeqProperties
    <2>6. (Flat(b, i - 1) \o SubSeq(s, i, k - 1)) \o <<s[k]>>
            = Flat(b, i - 1) \o (SubSeq(s, i, k - 1) \o <<s[k]>>)
      <3> DEFINE p == Flat(b, i - 1)
                 q == SubSeq(s, i, k - 1)
                 r == <<s[k]>>
      <3>1. p \in Seq(X) /\ q \in Seq(X) /\ r \in Seq(X)
        BY <1>2, <2>5
      <3> HIDE DEF p, q, r
      <3>2. (p \o q) \o r = p \o (q \o r)
        BY <3>1, ConcatAssociative
      <3>3. QED
        BY <3>2 DEF p, q, r
    <2>7. Flat(b, k - 1) = Flat(b, i - 1) \o SubSeq(s, i, k - 1)
      BY <1>4
    <2>8. Flat(b, k) = Flat(b, i - 1) \o SubSeq(s, i, k)
      BY <2>3, <2>4, <2>6, <2>7
    <2>9. QED
      BY <2>1, <2>8
  <1>5. e \in T
    <2> HIDE DEF T
    <2>1. i..e \subseteq T
      BY <1>1, <1>3, <1>4, Induction, Zenon
    <2>2. QED
      BY <1>1, <2>1
  <1>6. QED
    BY <1>5

\* Values that are empty add nothing.
LEMMA FlatNothing ==
    ASSUME NEW X, NEW b, NEW i \in Nat, NEW e \in Nat, i >= 1, i <= e,
           \A k \in 1..i - 1 : b[k] \in Seq(X),
           \A k \in i..e - 1 : b[k] = <<>>
    PROVE  Flat(b, e - 1) = Flat(b, i - 1)
  <1> DEFINE T == {k \in i..e : Flat(b, k - 1) = Flat(b, i - 1)}
  <1>1. i \in Int /\ e \in Int /\ i - 1 \in Nat /\ e \in i..e
    OBVIOUS
  <1>2. Flat(b, i - 1) \in Seq(X)
    BY <1>1, FlatType
  <1>3. i \in T
    OBVIOUS
  <1>4. ASSUME NEW k \in i..e - 1, k \in T PROVE k + 1 \in T
    <2>1. k - 1 \in Nat /\ (k - 1) + 1 = k /\ (k + 1) - 1 = k /\ k + 1 \in i..e
      BY <1>1
    <2>2. \A j \in 1..k : b[j] \in Seq(X)
      <3>1. \A j \in i..e - 1 : b[j] \in Seq(X)
        BY EmptySeq, Zenon
      <3>2. QED
        BY <1>1, <3>1
    <2>3. Flat(b, k) = Flat(b, k - 1) \o b[k]
      BY <2>1, <2>2, FlatNext
    <2>4. Flat(b, i - 1) \o <<>> = Flat(b, i - 1)
      BY <1>2, ConcatEmptySeq
    <2>5. Flat(b, k) = Flat(b, i - 1)
      BY <1>4, <2>3, <2>4
    <2>6. QED
      BY <2>1, <2>5
  <1>5. e \in T
    <2> HIDE DEF T
    <2>1. i..e \subseteq T
      BY <1>1, <1>3, <1>4, Induction, Zenon
    <2>2. QED
      BY <1>1, <2>1
  <1>6. QED
    BY <1>5

\* Where the i-th of n values is in what they all make.
IsLaid(b, n, i) ==
    /\ Len(Flat(b, i - 1)) \in Nat /\ Len(b[i]) \in Nat
    /\ Len(Flat(b, i)) = Len(Flat(b, i - 1)) + Len(b[i])
    /\ Len(Flat(b, i)) <= Len(Flat(b, n))
    /\ \A k \in 1..Len(b[i]) : Flat(b, n)[Len(Flat(b, i - 1)) + k] = b[i][k]

\* It is after the ones before it, and whole.
LEMMA FlatAt ==
    ASSUME NEW X, NEW b, NEW n \in Nat, \A j \in 1..n : b[j] \in Seq(X), NEW i \in 1..n
    PROVE  IsLaid(b, n, i)
  <1> DEFINE T == {m \in i..n : /\ Len(Flat(b, i)) <= Len(Flat(b, m))
                                /\ \A k \in 1..Len(Flat(b, i)) :
                                      Flat(b, m)[k] = Flat(b, i)[k]}
  <1>1. /\ i \in Int /\ n \in Int /\ i - 1 \in Nat /\ (i - 1) + 1 = i /\ n \in i..n
        /\ i \in i..n
    OBVIOUS
  <1>2. ASSUME NEW m \in 0..n PROVE Flat(b, m) \in Seq(X) /\ Len(Flat(b, m)) \in Nat
    <2>1. m \in Nat /\ \A j \in 1..m : b[j] \in Seq(X)
      OBVIOUS
    <2>2. Flat(b, m) \in Seq(X)
      BY <2>1, FlatType
    <2>3. QED
      BY <2>2
  <1>3. ASSUME NEW m \in 0..n - 1
        PROVE  /\ Flat(b, m + 1) = Flat(b, m) \o b[m + 1]
               /\ Len(Flat(b, m + 1)) = Len(Flat(b, m)) + Len(b[m + 1])
               /\ \A k \in 1..Len(Flat(b, m)) : Flat(b, m + 1)[k] = Flat(b, m)[k]
               /\ \A k \in 1..Len(b[m + 1]) :
                     Flat(b, m + 1)[Len(Flat(b, m)) + k] = b[m + 1][k]
    <2>1. m \in Nat /\ m \in 0..n /\ \A j \in 1..m + 1 : b[j] \in Seq(X)
      OBVIOUS
    <2>2. Flat(b, m + 1) = Flat(b, m) \o b[m + 1]
      BY <2>1, FlatNext
    <2> DEFINE p == Flat(b, m)
               q == b[m + 1]
    <2>3. p \in Seq(X) /\ q \in Seq(X)
      BY <1>2, <2>1
    <2> HIDE DEF p, q
    <2>4. /\ Len(p \o q) = Len(p) + Len(q)
          /\ \A k \in 1..Len(p) : (p \o q)[k] = p[k]
          /\ \A k \in 1..Len(q) : (p \o q)[Len(p) + k] = q[k]
      <3>1. Len(p) \in Nat /\ Len(q) \in Nat
        BY <2>3
      <3>2. Len(p \o q) = Len(p) + Len(q)
        BY <2>3
      <3>3. \A k \in 1..Len(p) : (p \o q)[k] = p[k]
        BY <2>3
      <3>4. \A k \in 1..Len(q) : (p \o q)[Len(p) + k] = q[k]
        BY <2>3, <3>1
      <3>5. QED
        BY <3>2, <3>3, <3>4
    <2>5. QED
      BY <2>2, <2>4 DEF p, q
  <1>4. i \in T
    <2>1. Len(Flat(b, i)) \in Nat
      BY <1>2
    <2>2. QED
      BY <1>1, <2>1
  <1>5. ASSUME NEW m \in i..n - 1, m \in T PROVE m + 1 \in T
    <2>1. m \in 0..n - 1 /\ m \in 0..n /\ m + 1 \in i..n /\ m + 1 \in 1..n /\ i \in 0..n
      BY <1>1
    <2>2. /\ Len(Flat(b, m)) \in Nat /\ Len(b[m + 1]) \in Nat /\ Len(Flat(b, i)) \in Nat
      BY <1>2, <2>1
    <2>3. /\ Len(Flat(b, m + 1)) = Len(Flat(b, m)) + Len(b[m + 1])
          /\ \A k \in 1..Len(Flat(b, m)) : Flat(b, m + 1)[k] = Flat(b, m)[k]
      BY <1>3, <2>1
    <2>4. /\ Len(Flat(b, i)) <= Len(Flat(b, m))
          /\ \A k \in 1..Len(Flat(b, i)) : Flat(b, m)[k] = Flat(b, i)[k]
      BY <1>5
    <2>5. Len(Flat(b, i)) <= Len(Flat(b, m + 1))
      BY <2>2, <2>3, <2>4
    <2>6. \A k \in 1..Len(Flat(b, i)) : k \in 1..Len(Flat(b, m))
      BY <2>2, <2>4
    <2>7. QED
      BY <2>1, <2>3, <2>4, <2>5, <2>6
  <1>6. n \in T
    <2> HIDE DEF T
    <2>1. i..n \subseteq T
      BY <1>1, <1>4, <1>5, Induction, Zenon
    <2>2. QED
      BY <1>1, <2>1
  <1>7. /\ i - 1 \in 0..n - 1 /\ i - 1 \in 0..n
        /\ Len(Flat(b, i - 1)) \in Nat /\ Len(b[i]) \in Nat
    BY <1>1, <1>2
  <1>8. /\ Len(Flat(b, i)) = Len(Flat(b, i - 1)) + Len(b[i])
        /\ \A k \in 1..Len(b[i]) : Flat(b, i)[Len(Flat(b, i - 1)) + k] = b[i][k]
    <2> DEFINE m == i - 1
    <2>1. m \in 0..n - 1 /\ m + 1 = i
      BY <1>1, <1>7
    <2> HIDE DEF m
    <2>2. /\ Len(Flat(b, m + 1)) = Len(Flat(b, m)) + Len(b[m + 1])
          /\ \A k \in 1..Len(b[m + 1]) :
                Flat(b, m + 1)[Len(Flat(b, m)) + k] = b[m + 1][k]
      BY <1>3, <2>1
    <2>3. QED
      BY <2>1, <2>2 DEF m
  <1>9. \A k \in 1..Len(b[i]) : Len(Flat(b, i - 1)) + k \in 1..Len(Flat(b, i))
    BY <1>7, <1>8
  <1>10. /\ Len(Flat(b, i)) <= Len(Flat(b, n))
         /\ \A k \in 1..Len(Flat(b, i)) : Flat(b, n)[k] = Flat(b, i)[k]
    BY <1>6
  <1>11. QED
    BY <1>7, <1>8, <1>9, <1>10 DEF IsLaid
===============================================================================

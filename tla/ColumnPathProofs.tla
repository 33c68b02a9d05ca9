---------------------------- MODULE ColumnPathProofs ----------------------------
(***************************************************************************)
(* Proofs about ColumnPath: for every column of any nested type, every     *)
(* size of the words, the masks and the digits, and whatever form the      *)
(* server chooses or its peer miscounts.                                   *)
(*                                                                         *)
(* From the inside out: the words of numbers, then columns of one layout   *)
(* each, then, by induction on the depth of a type (DataInduction), of any *)
(* type; the same of types and of what append_rows makes of values; then   *)
(* the chunk of a column, in the form it is sent in, in any other form,    *)
(* and with a part that is wrong; and last the inductive invariant of the  *)
(* specification.                                                          *)
(*                                                                         *)
(* T are the types that the program can have, as deep as Depth says, and V *)
(* its values; CodecsDefined gives the constants the equations that        *)
(* TypeCodec and VectorCodec define them by.                               *)
(***************************************************************************)
EXTENDS ColumnPath, DataInduction, FiniteSetTheorems, TLAPS

(* Powers, digits and words *)

\* The sizes of words, smallest first, and the radix.
LEMMA Sized ==
    /\ \A b \in Sizes : Half[b] \in Nat \ {0}
    /\ Half[8] < Half[16] /\ Half[16] < Half[32] /\ Half[32] < Half[64] /\ Half[64] < Half[128]
    /\ Radix \in Nat /\ Radix > 1
  BY SizesAssumption DEF Sizes

\* The powers of the radix.
LEMMA PowerSays ==
    /\ Power \in [Nat -> Nat]
    /\ Power[0] = 1
    /\ \A k \in Nat : Power[k + 1] = Radix * Power[k]
    /\ \A k \in Nat : Power[k] > 0
  <1> DEFINE Step == [i \in Nat |-> [p \in Nat |-> Radix * p]]
  <1>1. Radix \in Nat /\ Radix > 0
    BY Sized
  <1>2. Step \in [Nat -> [Nat -> Nat]] /\ \A i, p \in Nat : Step[i][p] = Radix * p
    BY <1>1
  <1> HIDE DEF Step
  <1>3. PICK f \in [Nat -> Nat] : RecursesOverNat(f, 1, Step)
    BY <1>2, RecursiveOverNat
  <1>4. f = [i \in Nat |-> IF i = 0 THEN 1 ELSE Step[i][f[i - 1]]]
    BY <1>3 DEF RecursesOverNat
  <1>5. ASSUME NEW i \in Nat PROVE f[i] = IF i = 0 THEN 1 ELSE Radix * f[i - 1]
    <2>1. f[i] = IF i = 0 THEN 1 ELSE Step[i][f[i - 1]]
      BY <1>4
    <2>2. i # 0 => i - 1 \in Nat
      OBVIOUS
    <2>3. QED
      BY <1>2, <2>1, <2>2
  <1>6. f = [k \in Nat |-> IF k = 0 THEN 1 ELSE Radix * f[k - 1]]
    BY <1>5
  <1>7. Power = [k \in Nat |-> IF k = 0 THEN 1 ELSE Radix * Power[k - 1]]
    BY <1>6 DEF Power
  <1>8. Power[0] = 1
    BY <1>7
  <1>9. ASSUME NEW k \in Nat PROVE Power[k + 1] = Radix * Power[k]
    BY <1>7
  <1> DEFINE T == {k \in Nat : Power[k] \in Nat /\ Power[k] > 0}
  <1>10. ASSUME NEW n \in Nat PROVE n \in T
    <2>1. 0 \in T
      BY <1>8
    <2>2. ASSUME NEW k \in 0..n - 1, k \in T PROVE k + 1 \in T
      <3>1. k \in Nat /\ k + 1 \in Nat /\ Power[k] \in Nat /\ Power[k] > 0
        BY <2>2
      <3>2. \A p \in Nat : p > 0 => Radix * p \in Nat /\ Radix * p > 0
        BY <1>1
      <3>3. QED
        BY <1>9, <3>1, <3>2
    <2>3. 0 \in Int /\ n \in Int /\ n \in 0..n
      OBVIOUS
    <2> HIDE DEF T
    <2>4. 0..n \subseteq T
      BY <2>1, <2>2, <2>3, Induction, Zenon
    <2>5. QED
      BY <2>3, <2>4
  <1>11. Power \in [Nat -> Nat]
    BY <1>7, <1>10
  <1>12. QED
    BY <1>8, <1>9, <1>10, <1>11

\* A power of more digits is no smaller.
LEMMA PowerGrows ==
    ASSUME NEW a \in Nat, NEW b \in Nat, a <= b
    PROVE  Power[a] <= Power[b]
  <1> DEFINE T == {k \in a..b : Power[a] <= Power[k]}
  <1>1. Power[a] \in Nat
    BY PowerSays
  <1>2. a \in T
    BY <1>1
  <1>3. ASSUME NEW k \in a..b - 1, k \in T PROVE k + 1 \in T
    <2>1. k \in Nat /\ k + 1 \in a..b
      OBVIOUS
    <2>2. Power[k + 1] = Radix * Power[k] /\ Power[k] \in Nat /\ Radix \in Nat /\ Radix > 1
      BY <2>1, PowerSays, Sized
    <2>3. \A p, r \in Nat : r > 1 => p <= r * p
      OBVIOUS
    <2>4. QED
      BY <1>1, <1>3, <2>1, <2>2, <2>3
  <1>4. a \in Int /\ b \in Int /\ b \in a..b
    OBVIOUS
  <1> HIDE DEF T
  <1>5. a..b \subseteq T
    BY <1>2, <1>3, <1>4, Induction, Zenon
  <1>6. QED
    BY <1>4, <1>5 DEF T

\* What the sums of digits are made of.
LEMMA NaturalsClosed == \A x, y, z \in Nat : x * y + z \in Nat /\ z + x * y \in Nat
  OBVIOUS

\* One more digit, and then more of them.
LEMMA Distributes ==
    ASSUME NEW x \in Nat, NEW y \in Nat, NEW r \in Nat, NEW q \in Nat
    PROVE  (x * r + y) * q = x * (r * q) + y * q
  OBVIOUS

\* The sum of the digits after the point, each at its place, is what all the digits say.
LEMMA DigitsAgree ==
    ASSUME NEW fraction \in Seq(0..Radix - 1), NEW scale \in Nat, Len(fraction) <= scale
    PROVE  LET digits == [k \in 1..scale |-> IF k <= Len(fraction) THEN fraction[k] ELSE 0]
           IN DigitsSay(digits) = FractionSaid(fraction, scale) /\ DigitsSay(digits) \in Nat
  <1> DEFINE n == Len(fraction)
             digits == [k \in 1..scale |-> IF k <= Len(fraction) THEN fraction[k] ELSE 0]
             SayStep == [k \in 1..scale |-> [x \in Nat |-> x * Radix + digits[k]]]
             SumStep == [k \in 1..n |-> [x \in Nat |-> x + fraction[k] * Power[scale - k]]]
  <1>1. Radix \in Nat /\ Radix > 1 /\ Power \in [Nat -> Nat] /\ n \in Nat /\ n <= scale
    <2>1. Radix \in Nat /\ Radix > 1
      BY Sized
    <2>2. Power \in [Nat -> Nat]
      BY PowerSays
    <2>3. n \in Nat /\ n <= scale
      OBVIOUS
    <2>4. QED
      BY <2>1, <2>2, <2>3
  <1> HIDE DEF SayStep, SumStep, digits
  <1>2. \A k \in 1..n : fraction[k] \in Nat
    <2>1. ASSUME NEW k \in 1..n PROVE fraction[k] \in 0..Radix - 1
      BY ElementOfSeq
    <2>2. QED
      BY <1>1, <2>1
  <1>3. /\ \A k \in 1..scale : digits[k] \in Nat
        /\ \A k \in 1..n : digits[k] = fraction[k]
        /\ \A k \in 1..scale : k > n => digits[k] = 0
        /\ Len(digits) = scale
    <2>1. \A k \in 1..scale : digits[k] = IF k <= n THEN fraction[k] ELSE 0
      BY DEF digits
    <2>2. Len(digits) = scale
      BY DEF digits
    <2> HIDE DEF n
    <2>3. ASSUME NEW k \in 1..scale PROVE digits[k] \in Nat
      <3>1. CASE k <= n
        <4>1. k \in 1..n
          BY <1>1, <3>1
        <4>2. digits[k] = fraction[k]
          BY <2>1, <3>1
        <4>3. QED
          BY <1>2, <4>1, <4>2
      <3>2. CASE ~(k <= n)
        <4>1. digits[k] = 0
          BY <2>1, <3>2
        <4>2. QED
          BY <4>1
      <3>3. QED
        BY <3>1, <3>2
    <2>4. ASSUME NEW k \in 1..n PROVE digits[k] = fraction[k]
      BY <1>1, <2>1
    <2>5. ASSUME NEW k \in 1..scale, k > n PROVE digits[k] = 0
      <3>1. ~(k <= n)
        BY <1>1, <2>5
      <3>2. QED
        BY <2>1, <3>1
    <2>6. QED
      BY <2>2, <2>3, <2>4, <2>5
  <1>4. PICK say \in [0..scale -> Nat] : RecursesFromZero(say, scale, 0, SayStep)
    <2>1. ASSUME NEW k \in 1..scale, NEW x \in Nat PROVE x * Radix + digits[k] \in Nat
      <3>1. digits[k] \in Nat /\ Radix \in Nat
        BY <1>1, <1>3
      <3>2. QED
        BY <3>1, NaturalsClosed
    <2>2. SayStep \in [1..scale -> [Nat -> Nat]]
      BY <2>1 DEF SayStep
    <2>3. QED
      BY <2>2, RecursiveFromZero
  <1>5. PICK sum \in [0..n -> Nat] : RecursesFromZero(sum, n, 0, SumStep)
    <2>1. ASSUME NEW k \in 1..n, NEW x \in Nat PROVE x + fraction[k] * Power[scale - k] \in Nat
      <3>1. scale - k \in Nat
        BY <1>1
      <3>2. Power[scale - k] \in Nat /\ fraction[k] \in Nat
        BY <1>1, <1>2, <3>1
      <3>3. QED
        BY <3>2, NaturalsClosed
    <2>2. SumStep \in [1..n -> [Nat -> Nat]]
      BY <2>1 DEF SumStep
    <2>3. QED
      BY <1>1, <2>2, RecursiveFromZero
  <1>6. ASSUME NEW k \in 0..scale
        PROVE  say[k] = IF k = 0 THEN 0 ELSE say[k - 1] * Radix + digits[k]
    <2>1. say[k] = IF k = 0 THEN 0 ELSE SayStep[k][say[k - 1]]
      BY <1>4 DEF RecursesFromZero
    <2>2. k # 0 => k \in 1..scale /\ k - 1 \in 0..scale /\ say[k - 1] \in Nat
      OBVIOUS
    <2>3. QED
      BY <2>1, <2>2 DEF SayStep
  <1>7. ASSUME NEW k \in 0..n
        PROVE  sum[k] = IF k = 0 THEN 0 ELSE sum[k - 1] + fraction[k] * Power[scale - k]
    <2>1. sum[k] = IF k = 0 THEN 0 ELSE SumStep[k][sum[k - 1]]
      BY <1>5 DEF RecursesFromZero
    <2> HIDE DEF n
    <2>2. ASSUME k # 0 PROVE k \in 1..n /\ k - 1 \in 0..n /\ sum[k - 1] \in Nat
      <3>1. k \in 1..n /\ k - 1 \in 0..n
        BY <1>1, <2>2
      <3>2. QED
        BY <3>1
    <2>3. QED
      BY <2>1, <2>2 DEF SumStep
  <1>8. DigitsSay(digits) = say[scale]
    <2> DEFINE Rec(f) == f = [k \in 0..Len(digits) |->
                                 IF k = 0 THEN 0 ELSE f[k - 1] * Radix + digits[k]]
    <2>1. Rec(say)
      BY <1>3, <1>6
    <2>2. Rec(CHOOSE f : Rec(f))
      <3> HIDE DEF Rec
      <3>1. QED
        BY <2>1
    <2>3. ASSUME NEW f, Rec(f) PROVE f[scale] = say[scale]
      <3> DEFINE T == {k \in 0..scale : f[k] = say[k]}
      <3>1. \A k \in 0..scale : f[k] = IF k = 0 THEN 0 ELSE f[k - 1] * Radix + digits[k]
        BY <1>3, <2>3
      <3>2. 0 \in T
        BY <1>6, <3>1
      <3>3. ASSUME NEW k \in 0..scale - 1, k \in T PROVE k + 1 \in T
        <4>1. k + 1 \in 0..scale /\ k + 1 # 0 /\ (k + 1) - 1 = k
          OBVIOUS
        <4>2. f[k + 1] = f[k] * Radix + digits[k + 1]
          BY <3>1, <4>1
        <4>3. say[k + 1] = say[k] * Radix + digits[k + 1]
          BY <1>6, <4>1
        <4>4. QED
          BY <3>3, <4>1, <4>2, <4>3
      <3> HIDE DEF T
      <3>4. 0 \in Int /\ scale \in Int /\ scale \in 0..scale
        OBVIOUS
      <3>5. 0..scale \subseteq T
        BY <3>2, <3>3, <3>4, Induction, Zenon
      <3>6. QED
        BY <3>4, <3>5 DEF T
    <2>4. DigitsSay(digits) = (CHOOSE f : Rec(f))[scale]
      BY <1>3 DEF DigitsSay
    <2> HIDE DEF Rec
    <2>5. QED
      BY <2>2, <2>3, <2>4
  <1>9. FractionSaid(fraction, scale) = sum[n]
    <2> DEFINE Rec(f) == f = [k \in 0..Len(fraction) |->
                                 IF k = 0 THEN 0 ELSE f[k - 1] + fraction[k] * Power[scale - k]]
    <2>1. Rec(sum)
      BY <1>7
    <2>2. Rec(CHOOSE f : Rec(f))
      <3> HIDE DEF Rec
      <3>1. QED
        BY <2>1
    <2>3. ASSUME NEW f, Rec(f) PROVE f[n] = sum[n]
      <3> DEFINE T == {k \in 0..n : f[k] = sum[k]}
      <3>1. \A k \in 0..n : f[k] = IF k = 0 THEN 0 ELSE f[k - 1] + fraction[k] * Power[scale - k]
        BY <2>3
      <3>2. 0 \in T
        <4>1. 0 \in 0..n
          BY <1>1
        <4>2. f[0] = 0 /\ sum[0] = 0
          BY <1>7, <3>1, <4>1
        <4>3. QED
          BY <4>1, <4>2
      <3>3. ASSUME NEW k \in 0..n - 1, k \in T PROVE k + 1 \in T
        <4>1. k + 1 \in 0..n /\ k + 1 # 0 /\ (k + 1) - 1 = k
          BY <1>1
        <4>2. f[k + 1] = f[k] + fraction[k + 1] * Power[scale - (k + 1)]
          BY <3>1, <4>1
        <4>3. sum[k + 1] = sum[k] + fraction[k + 1] * Power[scale - (k + 1)]
          BY <1>7, <4>1
        <4>4. QED
          BY <3>3, <4>1, <4>2, <4>3
      <3> HIDE DEF T
      <3>4. 0 \in Int /\ n \in Int /\ n \in 0..n
        BY <1>1
      <3>5. 0..n \subseteq T
        BY <3>2, <3>3, <3>4, Induction, Zenon
      <3>6. QED
        BY <3>4, <3>5 DEF T
    <2>4. FractionSaid(fraction, scale) = (CHOOSE f : Rec(f))[n]
      BY DEF FractionSaid
    <2> HIDE DEF Rec, n
    <2>5. QED
      BY <2>2, <2>3, <2>4
  <1> HIDE DEF n
  <1> DEFINE Upto(k) == IF k <= n THEN k ELSE n
             T == {k \in 0..scale : sum[Upto(k)] = say[k] * Power[scale - k]}
  <1>10. 0 \in T
    BY <1>1, <1>6, <1>7
  <1>11. ASSUME NEW k \in 0..scale - 1, k \in T PROVE k + 1 \in T
    <2>1. /\ k + 1 \in 0..scale /\ k + 1 \in 1..scale /\ k + 1 # 0 /\ (k + 1) - 1 = k
          /\ k \in 0..scale /\ scale - k \in Nat /\ scale - (k + 1) \in Nat
          /\ (scale - (k + 1)) + 1 = scale - k
      OBVIOUS
    <2> DEFINE p == Power[scale - (k + 1)]
               d == digits[k + 1]
    <2>2. p \in Nat /\ d \in Nat /\ say[k] \in Nat /\ Power[scale - k] = Radix * p
      BY <1>1, <1>3, <2>1, PowerSays
    <2>3. say[k + 1] = say[k] * Radix + d
      BY <1>6, <2>1
    <2>4. sum[Upto(k)] = say[k] * (Radix * p)
      BY <1>11, <2>2
    <2>6. say[k + 1] * p = sum[Upto(k)] + d * p
      <3> HIDE DEF p, d, Upto
      <3>1. (say[k] * Radix + d) * p = say[k] * (Radix * p) + d * p
        <4>1. say[k] \in Nat /\ Radix \in Nat
          BY <1>1, <2>2
        <4>2. d \in Nat /\ p \in Nat
          BY <2>2
        <4>3. QED
          BY <4>1, <4>2, Distributes, SMT
      <3>2. QED
        BY <2>3, <2>4, <3>1
    <2>7. sum[Upto(k + 1)] = sum[Upto(k)] + d * p
      <3>1. CASE k + 1 <= n
        <4>1. k <= n /\ k + 1 \in 0..n /\ k + 1 \in 1..n
          BY <1>1, <2>1, <3>1
        <4>2. sum[k + 1] = sum[k] + fraction[k + 1] * p
          BY <1>7, <2>1, <4>1
        <4>3. d = fraction[k + 1]
          BY <1>3, <4>1
        <4>4. QED
          BY <3>1, <4>1, <4>2, <4>3
      <3>2. CASE ~(k + 1 <= n)
        <4>1. Upto(k) = n /\ Upto(k + 1) = n
          BY <1>1, <2>1, <3>2
        <4>2. d = 0
          BY <1>1, <1>3, <2>1, <3>2
        <4>3. sum[n] \in Nat
          BY <1>1
        <4> HIDE DEF d, p, Upto
        <4>4. QED
          BY <2>2, <4>1, <4>2, <4>3
      <3>3. QED
        BY <3>1, <3>2
    <2>8. QED
      BY <2>1, <2>6, <2>7
  <1>12. 0 \in Int /\ scale \in Int /\ scale \in 0..scale /\ scale - scale = 0
    OBVIOUS
  <1>13. sum[n] = say[scale] * Power[scale - scale]
    <2> HIDE DEF T
    <2>1. 0..scale \subseteq T
      BY <1>10, <1>11, <1>12, Induction, Zenon
    <2>2. sum[Upto(scale)] = say[scale] * Power[scale - scale]
      BY <1>12, <2>1 DEF T
    <2>3. Upto(scale) = n
      BY <1>1
    <2> HIDE DEF Upto
    <2>4. QED
      BY <2>2, <2>3
  <1>14. sum[n] = say[scale] /\ say[scale] \in Nat
    BY <1>12, <1>13, PowerSays
  <1>15. QED
    BY <1>8, <1>9, <1>14 DEF digits

\* What an unsigned word has a place for is its own word.
LEMMA WrappedInside ==
    ASSUME NEW half \in Nat \ {0}, NEW n \in Int, 0 <= n, n < 2 * half
    PROVE  Wrapped(n, half) = n
  BY DEF Wrapped

\* A negative number is written as the word's upper half.
LEMMA WrappedBelow ==
    ASSUME NEW half \in Nat \ {0}, NEW n \in Int, -half <= n, n < 0
    PROVE  Wrapped(n, half) = n + 2 * half
  BY DEF Wrapped

\* A number beyond the word comes round.
LEMMA WrappedAbove ==
    ASSUME NEW half \in Nat \ {0}, NEW n \in Int, 2 * half <= n, n < 4 * half
    PROVE  Wrapped(n, half) = n - 2 * half
  BY DEF Wrapped

\* What is written is a word.
LEMMA WrappedIsWord ==
    ASSUME NEW half \in Nat \ {0}, NEW n \in Int
    PROVE  Wrapped(n, half) \in Nat /\ Wrapped(n, half) < 2 * half
  BY DEF Wrapped

\* A number that is in a word comes out of it.
LEMMA SignedReturns ==
    ASSUME NEW half \in Nat \ {0}, NEW n \in Int, InWord(n, half, TRUE)
    PROVE  Signed(Wrapped(n, half), half) = n
  BY WrappedInside, WrappedBelow DEF Signed, InWord

\* A number that is in an unsigned word comes out of it.
LEMMA UnsignedReturns ==
    ASSUME NEW half \in Nat \ {0}, NEW n \in Int, InWord(n, half, FALSE)
    PROVE  Wrapped(n, half) = n
  BY WrappedInside DEF InWord

Kinds == {"none", "DECIMAL", "STRING", "GEO", "LIST", "ARRAY", "STRUCT", "ENUM", "GENERIC",
          "INTEGER_LITERAL"}

\* What a type's metadata is, by its kind.
LEMMA InfoIs ==
    ASSUME NEW T, NEW i, IsInfo(i, T)
    PROVE  /\ i.kind \in Kinds
           /\ i.kind = "none" => i = NoInfo
           /\ i.kind = "DECIMAL" => i \in [kind : {"DECIMAL"}, alias : STRING, width : Nat, scale : Nat]
           /\ i.kind \in {"STRING", "GEO"} => i \in [kind : {"STRING", "GEO"}, alias : STRING, text : STRING]
           /\ i.kind = "LIST" => i \in [kind : {"LIST"}, alias : STRING, child : T]
           /\ i.kind = "ARRAY" => i \in [kind : {"ARRAY"}, alias : STRING, child : T, size : Nat]
           /\ i.kind = "STRUCT" =>
                /\ i \in [kind : {"STRUCT"}, alias : STRING, names : Seq(STRING), children : Seq(T)]
                /\ Len(i.names) = Len(i.children)
           /\ i.kind = "ENUM" =>
                /\ i \in [kind : {"ENUM"}, alias : STRING, texts : Seq(STRING)]
                /\ Len(i.texts) <= 2 * Half[32]
           /\ i.kind \in {"GENERIC", "INTEGER_LITERAL"} =>
                i \in [kind : {"GENERIC", "INTEGER_LITERAL"}, alias : STRING]
  <1>1. NoInfo.kind = "none"
    BY DEF NoInfo
  <1>2. CASE i = NoInfo
    BY <1>1, <1>2 DEF Kinds
  <1>3. CASE i \in [kind : {"DECIMAL"}, alias : STRING, width : Nat, scale : Nat]
    BY <1>3 DEF Kinds
  <1>4. CASE i \in [kind : {"STRING", "GEO"}, alias : STRING, text : STRING]
    BY <1>4 DEF Kinds
  <1>5. CASE i \in [kind : {"LIST"}, alias : STRING, child : T]
    BY <1>5 DEF Kinds
  <1>6. CASE i \in [kind : {"ARRAY"}, alias : STRING, child : T, size : Nat]
    BY <1>6 DEF Kinds
  <1>7. CASE /\ i \in [kind : {"STRUCT"}, alias : STRING, names : Seq(STRING), children : Seq(T)]
             /\ Len(i.names) = Len(i.children)
    BY <1>7 DEF Kinds
  <1>8. CASE /\ i \in [kind : {"ENUM"}, alias : STRING, texts : Seq(STRING)]
             /\ Len(i.texts) <= 2 * Half[32]
    BY <1>8 DEF Kinds
  <1>9. CASE i \in [kind : {"GENERIC", "INTEGER_LITERAL"}, alias : STRING]
    BY <1>9 DEF Kinds
  <1>10. QED
    BY <1>2, <1>3, <1>4, <1>5, <1>6, <1>7, <1>8, <1>9 DEF IsInfo

\* The same of a type, and of the types inside it.
LEMMA TypeIs ==
    ASSUME NEW T, NEW Depth, TypesNested(T, Depth), NEW t \in T
    PROVE  /\ t = [id |-> t.id, info |-> t.info] /\ t.id \in STRING
           /\ t.info.kind \in Kinds
           /\ t.info.kind = "none" => t.info = NoInfo
           /\ t.info.kind = "DECIMAL" => t.info.width \in Nat /\ t.info.scale \in Nat
           /\ t.info.kind = "LIST" => t.info.child \in T /\ Depth[t.info.child] < Depth[t]
           /\ t.info.kind = "ARRAY" => /\ t.info.child \in T /\ Depth[t.info.child] < Depth[t]
                                       /\ t.info.size \in Nat
           /\ t.info.kind = "STRUCT" =>
                /\ t.info.names \in Seq(STRING) /\ t.info.children \in Seq(T)
                /\ Len(t.info.names) = Len(t.info.children)
                /\ \A k \in DOMAIN t.info.children : Depth[t.info.children[k]] < Depth[t]
           /\ t.info.kind = "ENUM" =>
                t.info.texts \in Seq(STRING) /\ Len(t.info.texts) <= 2 * Half[32]
  <1>1. IsType(t, T) /\ \A k \in DOMAIN TypesInside(t) : Depth[TypesInside(t)[k]] < Depth[t]
    BY DEF TypesNested
  <1>2. t = [id |-> t.id, info |-> t.info] /\ t.id \in STRING /\ IsInfo(t.info, T)
    BY <1>1 DEF IsType
  <1> DEFINE i == t.info
  <1> HIDE DEF i
  <1>3. IsInfo(i, T)
    BY <1>2 DEF i
  <1>4. CASE i.kind \in {"LIST", "ARRAY"}
    <2>1. TypesInside(t) = <<i.child>>
      BY <1>4 DEF TypesInside, i
    <2>2. Depth[i.child] < Depth[t]
      BY <1>1, <2>1
    <2>3. i.child \in T /\ (i.kind = "ARRAY" => i.size \in Nat)
      BY <1>3, <1>4, InfoIs
    <2>4. QED
      BY <1>2, <1>4, <2>2, <2>3 DEF i, Kinds
  <1>5. CASE i.kind = "STRUCT"
    <2>1. TypesInside(t) = i.children
      BY <1>5 DEF TypesInside, i
    <2>2. \A k \in DOMAIN i.children : Depth[i.children[k]] < Depth[t]
      BY <1>1, <2>1
    <2>3. i.names \in Seq(STRING) /\ i.children \in Seq(T) /\ Len(i.names) = Len(i.children)
      BY <1>3, <1>5, InfoIs
    <2>4. QED
      BY <1>2, <1>5, <2>2, <2>3 DEF i, Kinds
  <1>6. CASE i.kind \notin {"LIST", "ARRAY", "STRUCT"}
    <2>1. /\ i.kind \in Kinds
          /\ i.kind = "none" => i = NoInfo
          /\ i.kind = "DECIMAL" => i.width \in Nat /\ i.scale \in Nat
          /\ i.kind = "ENUM" => i.texts \in Seq(STRING) /\ Len(i.texts) <= 2 * Half[32]
      BY <1>3, InfoIs
    <2>2. QED
      BY <1>2, <1>6, <2>1 DEF i
  <1>7. QED
    BY <1>4, <1>5, <1>6

InWords(size) == -Half[size]..Half[size] - 1
Words(size) == 0..2 * Half[size] - 1

\* What a value is, by the field that says so.
LEMMA ValueIs ==
    ASSUME NEW V, ValuesNested(V), NEW v \in V
    PROVE  /\ Is(v, "null") => v = Null
           /\ Is(v, "bool") => v = [bool |-> v.bool] /\ v.bool \in BOOLEAN
           /\ Is(v, "int") => v = [int |-> v.int] /\ v.int \in InWords(64)
           /\ Is(v, "uint") => v = [uint |-> v.uint] /\ v.uint \in Words(64)
           /\ Is(v, "huge") => v = [huge |-> v.huge] /\ v.huge \in InWords(128)
           /\ Is(v, "uhuge") => v = [uhuge |-> v.uhuge] /\ v.uhuge \in Words(128)
           /\ Is(v, "float") => v = [float |-> v.float] /\ v.float \in Int /\ v.float % Radix = 0
           /\ Is(v, "double") => v = [double |-> v.double] /\ v.double \in Int
           /\ Is(v, "text") => v = [text |-> v.text] /\ v.text \in STRING /\ v.text \notin NotUtf8
           /\ Is(v, "bytes") => v = [bytes |-> v.bytes] /\ v.bytes \in STRING
           /\ Is(v, "decimal") => /\ v = [decimal |-> v.decimal, width |-> v.width, scale |-> v.scale]
                                  /\ v.decimal \in InWords(128)
           /\ Is(v, "date") => v = [date |-> v.date] /\ v.date \in InWords(32)
           /\ Is(v, "time") => /\ v = [time |-> v.time, unit |-> v.unit]
                               /\ v.time \in InWords(64) /\ v.unit \in {"micros", "nanos"}
           /\ Is(v, "timetz") => v = [timetz |-> v.timetz] /\ v.timetz \in InWords(64)
           /\ Is(v, "timestamp") =>
                /\ v = [timestamp |-> v.timestamp, unit |-> v.unit, utc |-> v.utc]
                /\ v.timestamp \in InWords(64) /\ v.utc \in BOOLEAN
                /\ v.unit \in {"seconds", "millis", "micros", "nanos"}
           /\ Is(v, "interval") => v = [interval |-> v.interval]
           /\ Is(v, "list") => v = [list |-> v.list] /\ v.list \in Seq(V)
           /\ Is(v, "struct") => v = [struct |-> v.struct] /\ v.struct \in [DOMAIN v.struct -> V]
                                 /\ DOMAIN v.struct \subseteq STRING
  <1>1. IsValue(v, V)
    BY DEF ValuesNested
  <1>2. QED
    BY <1>1 DEF IsValue, Null, Is, InWords, Words

-------------------------------------------------------------------------------
(* Words *)

\* What the reader makes of a value's word, for a value that its column holds.
WordReturns(v, t) ==
    LET word == WordOf(v, t)
    IN word.ok /\ word = Ok(word.value) /\ FromWord(word.value, t) = Ok(v)

\* A value's word gives this.
WordGives(v, t, held) ==
    /\ WordOf(v, t) = Ok(WordOf(v, t).value)
    /\ FromWord(WordOf(v, t).value, t) = Ok(held)

\* An integer, in whichever way it is written, is read as the same number.
LEMMA NumberSays ==
    ASSUME NEW V, ValuesNested(V), NEW v \in V, NEW half \in Nat, half <= Half[128],
           NEW signed \in BOOLEAN, SaysInteger(v), InWord(IntegerSaid(v), half, signed)
    PROVE  /\ Number(v, signed) = Ok(IntegerSaid(v))
           /\ IntegerSaid(v) \in Int
           /\ ~Is(v, "time") /\ ~Is(v, "timetz") /\ ~Is(v, "timestamp")
           /\ ~Is(v, "date") /\ ~Is(v, "null") /\ ~Is(v, "decimal")
  <1> DEFINE n == IntegerSaid(v)
  <1>1. Half[128] \in Nat
    BY Sized DEF Sizes
  <1>2. ASSUME InWord(n, half, signed), n \in Int
        PROVE  (n < 0 => signed) /\ (signed => InWord(n, Half[128], TRUE))
    BY <1>1, <1>2 DEF InWord
  <1> HIDE DEF n
  <1>3. CASE Is(v, "int")
    <2>1. v = [int |-> v.int] /\ v.int \in Int
      BY <1>3, ValueIs DEF InWords
    <2>2. DOMAIN v = {"int"}
      BY <2>1
    <2>3. n = v.int
      BY <2>2 DEF n, IntegerSaid, Is
    <2>4. InWord(n, half, signed) /\ n \in Int
      BY <2>1, <2>3 DEF n
    <2>5. Number(v, signed) = Ok(n)
      BY <1>2, <2>2, <2>3, <2>4 DEF Number, Is
    <2>6. QED
      BY <2>2, <2>4, <2>5 DEF n, Is
  <1>4. CASE Is(v, "uint")
    <2>1. v = [uint |-> v.uint] /\ v.uint \in Int
      BY <1>4, ValueIs DEF Words
    <2>2. DOMAIN v = {"uint"}
      BY <2>1
    <2>3. n = v.uint
      BY <2>2 DEF n, IntegerSaid, Is
    <2>4. InWord(n, half, signed) /\ n \in Int
      BY <2>1, <2>3 DEF n
    <2>5. Number(v, signed) = Ok(n)
      BY <1>2, <2>2, <2>3, <2>4 DEF Number, Is
    <2>6. QED
      BY <2>2, <2>4, <2>5 DEF n, Is
  <1>5. CASE Is(v, "huge")
    <2>1. v = [huge |-> v.huge] /\ v.huge \in Int
      BY <1>5, ValueIs DEF InWords
    <2>2. DOMAIN v = {"huge"}
      BY <2>1
    <2>3. n = v.huge
      BY <2>2 DEF n, IntegerSaid, Is
    <2>4. InWord(n, half, signed) /\ n \in Int
      BY <2>1, <2>3 DEF n
    <2>5. Number(v, signed) = Ok(n)
      BY <1>2, <2>2, <2>3, <2>4 DEF Number, Is
    <2>6. QED
      BY <2>2, <2>4, <2>5 DEF n, Is
  <1>6. CASE Is(v, "uhuge")
    <2>1. v = [uhuge |-> v.uhuge] /\ v.uhuge \in Int
      BY <1>6, ValueIs DEF Words
    <2>2. DOMAIN v = {"uhuge"}
      BY <2>1
    <2>3. n = v.uhuge
      BY <2>2 DEF n, IntegerSaid, Is
    <2>4. InWord(n, half, signed) /\ n \in Int
      BY <2>1, <2>3 DEF n
    <2>5. Number(v, signed) = Ok(n)
      BY <1>2, <2>2, <2>3, <2>4 DEF Number, Is
    <2>6. QED
      BY <2>2, <2>4, <2>5 DEF n, Is
  <1>7. CASE Is(v, "text") /\ v.text \in DOMAIN Numbers /\ Numbers[v.text].fraction = <<>>
    <2>1. v = [text |-> v.text]
      BY <1>7, ValueIs
    <2>2. DOMAIN v = {"text"}
      BY <2>1
    <2> DEFINE said == Numbers[v.text]
    <2>3. said.negative \in BOOLEAN /\ said.whole \in Nat
      BY <1>7, SizesAssumption
    <2>4. n = IF said.negative THEN -said.whole ELSE said.whole
      BY <1>7, <2>3 DEF n, IntegerSaid
    <2>5. InWord(n, half, signed) /\ n \in Int
      BY <2>3, <2>4 DEF n
    <2>6. Number(v, signed) = Ok(n)
      BY <1>2, <1>7, <2>2, <2>4, <2>5 DEF Number, Is
    <2>7. QED
      BY <2>2, <2>5, <2>6 DEF n, Is
  <1>8. QED
    BY <1>3, <1>4, <1>5, <1>6, <1>7 DEF SaysInteger, Is

IntegerIds == {"TINYINT", "SMALLINT", "INTEGER", "BIGINT", "HUGEINT", "UTINYINT", "USMALLINT",
               "UINTEGER", "UBIGINT", "POINTER", "UHUGEINT"}

\* The columns of integers.
LEMMA IntegerIs ==
    ASSUME NEW t, t.id \in IntegerIds
    PROVE  \E size \in Sizes, signed \in BOOLEAN :
              /\ Physical(t) = Word(size, signed)
              /\ \A word : FromWord(word, t) =
                    Ok([n \in {IntegerName(t)} |-> IF signed THEN Signed(word, Half[size]) ELSE word])
  <1>1. CASE t.id = "TINYINT"
    <2>1. Physical(t) = Word(8, TRUE)
      BY <1>1 DEF Physical, Word64Ids, Word, TextIds, BytesIds, StructIds, ListIds, Laid
    <2>2. \A word : FromWord(word, t) = Ok([n \in {IntegerName(t)} |-> Signed(word, Half[8])])
      BY <1>1, <2>1 DEF FromWord, Word, IntegerName, FromInt64, IntOf
    <2>3. QED
      BY <2>1, <2>2 DEF Sizes
  <1>2. CASE t.id = "SMALLINT"
    <2>1. Physical(t) = Word(16, TRUE)
      BY <1>2 DEF Physical, Word64Ids, Word, TextIds, BytesIds, StructIds, ListIds, Laid
    <2>2. \A word : FromWord(word, t) = Ok([n \in {IntegerName(t)} |-> Signed(word, Half[16])])
      BY <1>2, <2>1 DEF FromWord, Word, IntegerName, FromInt64, IntOf
    <2>3. QED
      BY <2>1, <2>2 DEF Sizes
  <1>3. CASE t.id = "INTEGER"
    <2>1. Physical(t) = Word(32, TRUE)
      BY <1>3 DEF Physical, Word64Ids, Word, TextIds, BytesIds, StructIds, ListIds, Laid
    <2>2. \A word : FromWord(word, t) = Ok([n \in {IntegerName(t)} |-> Signed(word, Half[32])])
      BY <1>3, <2>1 DEF FromWord, Word, IntegerName, FromInt64, IntOf
    <2>3. QED
      BY <2>1, <2>2 DEF Sizes
  <1>4. CASE t.id = "BIGINT"
    <2>1. Physical(t) = Word(64, TRUE)
      BY <1>4 DEF Physical, Word64Ids, Word, TextIds, BytesIds, StructIds, ListIds, Laid
    <2>2. \A word : FromWord(word, t) = Ok([n \in {IntegerName(t)} |-> Signed(word, Half[64])])
      BY <1>4, <2>1 DEF FromWord, Word, IntegerName, FromInt64, IntOf
    <2>3. QED
      BY <2>1, <2>2 DEF Sizes
  <1>5. CASE t.id = "HUGEINT"
    <2>1. Physical(t) = Word(128, TRUE)
      BY <1>5 DEF Physical, Word64Ids, Word, TextIds, BytesIds, StructIds, ListIds, Laid
    <2>2. \A word : FromWord(word, t) = Ok([n \in {IntegerName(t)} |-> Signed(word, Half[128])])
      BY <1>5, <2>1 DEF FromWord, Word, IntegerName, FromInt64, IntOf
    <2>3. QED
      BY <2>1, <2>2 DEF Sizes
  <1>6. CASE t.id = "UTINYINT"
    <2>1. Physical(t) = Word(8, FALSE)
      BY <1>6 DEF Physical, Word64Ids, Word, TextIds, BytesIds, StructIds, ListIds, Laid
    <2>2. \A word : FromWord(word, t) = Ok([n \in {IntegerName(t)} |-> word])
      BY <1>6, <2>1 DEF FromWord, Word, IntegerName, FromInt64, IntOf
    <2>3. QED
      BY <2>1, <2>2 DEF Sizes
  <1>7. CASE t.id = "USMALLINT"
    <2>1. Physical(t) = Word(16, FALSE)
      BY <1>7 DEF Physical, Word64Ids, Word, TextIds, BytesIds, StructIds, ListIds, Laid
    <2>2. \A word : FromWord(word, t) = Ok([n \in {IntegerName(t)} |-> word])
      BY <1>7, <2>1 DEF FromWord, Word, IntegerName, FromInt64, IntOf
    <2>3. QED
      BY <2>1, <2>2 DEF Sizes
  <1>8. CASE t.id = "UINTEGER"
    <2>1. Physical(t) = Word(32, FALSE)
      BY <1>8 DEF Physical, Word64Ids, Word, TextIds, BytesIds, StructIds, ListIds, Laid
    <2>2. \A word : FromWord(word, t) = Ok([n \in {IntegerName(t)} |-> word])
      BY <1>8, <2>1 DEF FromWord, Word, IntegerName, FromInt64, IntOf
    <2>3. QED
      BY <2>1, <2>2 DEF Sizes
  <1>9. CASE t.id \in {"UBIGINT", "POINTER"}
    <2>1. Physical(t) = Word(64, FALSE)
      BY <1>9 DEF Physical, Word64Ids, Word, TextIds, BytesIds, StructIds, ListIds, Laid
    <2>2. \A word : FromWord(word, t) = Ok([n \in {IntegerName(t)} |-> word])
      <3>1. CASE t.id = "UBIGINT"
        BY <2>1, <3>1 DEF FromWord, Word, IntegerName, FromInt64, IntOf
      <3>2. CASE t.id = "POINTER"
        BY <2>1, <3>2 DEF FromWord, Word, IntegerName, FromInt64, IntOf
      <3>3. QED
        BY <1>9, <3>1, <3>2
    <2>3. QED
      BY <2>1, <2>2 DEF Sizes
  <1>10. CASE t.id = "UHUGEINT"
    <2>1. Physical(t) = Word(128, FALSE)
      BY <1>10 DEF Physical, Word64Ids, Word, TextIds, BytesIds, StructIds, ListIds, Laid
    <2>2. \A word : FromWord(word, t) = Ok([n \in {IntegerName(t)} |-> word])
      BY <1>10, <2>1 DEF FromWord, Word, IntegerName, FromInt64, IntOf
    <2>3. QED
      BY <2>1, <2>2 DEF Sizes
  <1>11. QED
    BY <1>1, <1>2, <1>3, <1>4, <1>5, <1>6, <1>7, <1>8, <1>9, <1>10 DEF IntegerIds

\* An integer returns.
LEMMA IntegerReturns ==
    ASSUME NEW V, ValuesNested(V), NEW v \in V, ~IsNull(v),
           NEW t, t.id \in IntegerIds, NEW inner, HeldOf(v, t, inner).ok
    PROVE  WordGives(v, t, HeldOf(v, t, inner).value)
  <1>1. PICK size \in Sizes, signed \in BOOLEAN :
           /\ Physical(t) = Word(size, signed)
           /\ \A word : FromWord(word, t) =
                 Ok([n \in {IntegerName(t)} |-> IF signed THEN Signed(word, Half[size]) ELSE word])
    BY IntegerIs
  <1> DEFINE half == Half[size]
             said == IntegerSaid(v)
  <1>2. Physical(t).kind = "word" /\ Physical(t).half = half /\ Physical(t).signed = signed
    BY <1>1 DEF Word
  <1>3. half \in Nat \ {0} /\ half <= Half[128] /\ Half[128] \in Nat
    <2>1. Half[128] \in Nat /\ half \in Nat \ {0}
      BY Sized DEF Sizes
    <2>2. half <= Half[128]
      <3>1. CASE size = 128
        BY <2>1, <3>1
      <3>2. CASE size # 128
        <4>1. half < Half[128]
          BY SMTT(30), <3>2, SizesAssumption DEF Sizes
        <4>2. QED
          BY <2>1, <4>1
      <3>3. QED
        BY <3>1, <3>2
    <2>3. QED
      BY <2>1, <2>2
  <1>4. IntegerName(t) # "none"
    BY DEF IntegerIds, IntegerName
  <1>5. /\ SaysInteger(v) /\ InWord(said, half, signed)
        /\ HeldOf(v, t, inner).value = [n \in {IntegerName(t)} |-> said]
    <2> HIDE DEF half, said
    <2>1. HeldOf(v, t, inner) =
             IF SaysInteger(v) /\ InWord(said, half, signed)
             THEN Ok([n \in {IntegerName(t)} |-> said]) ELSE Fail("does not fit")
      BY <1>2, <1>4 DEF HeldOf, said, IntegerIds, ListIds, StructIds
    <2>2. ~Fail("does not fit").ok
      BY DEF Fail
    <2>3. SaysInteger(v) /\ InWord(said, half, signed)
      BY <2>1, <2>2
    <2>4. QED
      BY <2>1, <2>3 DEF Ok
  <1> HIDE DEF half
  <1>6. /\ Number(v, signed) = Ok(said) /\ said \in Int
        /\ ~Is(v, "time") /\ ~Is(v, "timetz") /\ ~Is(v, "timestamp")
    BY <1>3, <1>5, NumberSays
  <1>7. NumberOf(v, t) = Number(v, signed)
    BY <1>2, <1>6 DEF NumberOf, IntegerIds
  <1>8. WordOf(v, t) = Ok(Wrapped(said, half))
    BY <1>2, <1>6, <1>7 DEF WordOf, Ok
  <1>9. IF signed THEN Signed(Wrapped(said, half), half) = said ELSE Wrapped(said, half) = said
    BY <1>3, <1>5, <1>6, SignedReturns, UnsignedReturns
  <1> HIDE DEF said
  <1>10. FromWord(Wrapped(said, half), t) = Ok([n \in {IntegerName(t)} |-> said])
    BY <1>1, <1>9 DEF half
  <1>11. QED
    BY <1>5, <1>8, <1>10 DEF WordGives, Ok

\* A DECIMAL fits the word that is chosen for its digits, and its text says the same.
LEMMA DecimalReturns ==
    ASSUME NEW V, ValuesNested(V), NEW v \in V, ~IsNull(v),
           NEW t, t.id = "DECIMAL", t.info.kind = "DECIMAL",
           t.info.width \in Nat, t.info.scale \in Nat, Physical(t).kind # "none",
           NEW inner, HeldOf(v, t, inner).ok
    PROVE  WordGives(v, t, HeldOf(v, t, inner).value)
  <1> DEFINE width == t.info.width
             scale == t.info.scale
             said == DecimalSaid(v, t)
             n == said.number
             enough == {b \in DOMAIN Digits : width <= Digits[b]}
  <1>1. /\ said.fits /\ InDigits(n, width)
        /\ HeldOf(v, t, inner).value = [decimal |-> n, width |-> width, scale |-> scale]
    <2> HIDE DEF said
    <2>1. HeldOf(v, t, inner) =
             IF said.fits /\ InDigits(said.number, width)
             THEN Ok([decimal |-> said.number, width |-> width, scale |-> scale])
             ELSE Fail("does not fit")
      BY DEF HeldOf, said, IntegerName, ListIds, StructIds
    <2>2. ~Fail("does not fit").ok
      BY DEF Fail
    <2>3. said.fits /\ InDigits(said.number, width)
      BY <2>1, <2>2
    <2>4. HeldOf(v, t, inner) = Ok([decimal |-> said.number, width |-> width, scale |-> scale])
      BY <2>1, <2>3
    <2>5. QED
      BY <2>3, <2>4 DEF Ok
  <1>2. PICK b \in Sizes : /\ Physical(t) = Word(b, TRUE)
                           /\ width <= Digits[b] /\ b \in DOMAIN Digits
    <2>1. Physical(t) = SizeOfDecimal(t.info)
      BY DEF Physical, TextIds, BytesIds, StructIds, ListIds, Word64Ids
    <2>2. ASSUME enough = {} PROVE FALSE
      <3>1. SizeOfDecimal(t.info) = Laid("none")
        BY <2>2 DEF SizeOfDecimal
      <3>2. QED
        BY <2>1, <3>1 DEF Laid
    <2>3. Physical(t) = Word(Min(enough), TRUE)
      BY <2>1, <2>2, Zenon DEF SizeOfDecimal
    <2>4. enough \subseteq Nat /\ enough \subseteq Sizes
      BY SMTT(30), SizesAssumption DEF Sizes
    <2> HIDE DEF enough
    <2>5. Min(enough) \in enough
      <3>1. PICK x \in enough : \A y \in enough : x <= y
        BY <2>2, <2>4, Smallest
      <3>2. Min(enough) = CHOOSE m \in enough : \A y \in enough : m <= y
        BY DEF Min
      <3>3. QED
        BY <3>1, <3>2
    <2>6. QED
      BY <2>3, <2>4, <2>5 DEF enough
  <1> DEFINE half == Half[b]
  <1>3. half \in Nat \ {0}
    BY Sized
  <1>4. n \in Int /\ NumberOf(v, t) = Ok(n)
    <2>1. CASE Is(v, "decimal")
      <3>1. said = [fits |-> v.scale = scale, number |-> v.decimal]
        <4>1. DOMAIN v = {"decimal", "width", "scale"}
          BY <2>1, ValueIs
        <4>2. QED
          BY <4>1 DEF DecimalSaid, Is
      <3>2. n = v.decimal
        BY <3>1
      <3> HIDE DEF n, said
      <3>3. v.decimal \in Int
        BY <2>1, ValueIs DEF InWords
      <3>4. NumberOf(v, t) = Ok(v.decimal)
        BY <2>1 DEF NumberOf, Word64Ids
      <3>5. QED
        BY <3>2, <3>3, <3>4
    <2>2. CASE ~Is(v, "decimal")
      <3> DEFINE number == Numbers[v.text]
                 digits == FractionDigits(v.text, scale)
                 size == number.whole * Power[scale] + FractionSaid(number.fraction, scale)
      <3>1. /\ Is(v, "text") /\ v.text \in DOMAIN Numbers /\ Len(number.fraction) <= scale
            /\ n = IF number.negative THEN -size ELSE size
        <4> HIDE DEF size
        <4>1. CASE Is(v, "text") /\ v.text \in DOMAIN Numbers /\ Len(number.fraction) <= scale
          <5>1. said = [fits |-> TRUE, number |-> IF number.negative THEN -size ELSE size]
            BY <2>2, <4>1 DEF DecimalSaid, size
          <5>2. QED
            BY <4>1, <5>1
        <4>2. CASE ~(Is(v, "text") /\ v.text \in DOMAIN Numbers /\ Len(number.fraction) <= scale)
          <5>1. said = [fits |-> FALSE, number |-> 0]
            BY <2>2, <4>2 DEF DecimalSaid
          <5>2. QED
            BY <1>1, <5>1
        <4>3. QED
          BY <4>1, <4>2
      <3>2. /\ number.negative \in BOOLEAN /\ number.whole \in Nat
            /\ number.fraction \in Seq(0..Radix - 1)
        BY <3>1, SizesAssumption
      <3>3. DigitsSay(digits) = FractionSaid(number.fraction, scale) /\ DigitsSay(digits) \in Nat
        BY <3>1, <3>2, DigitsAgree DEF FractionDigits
      <3>4. size \in Nat
        <4>1. Power[scale] \in Nat
          BY PowerSays
        <4> DEFINE fraction == FractionSaid(number.fraction, scale)
        <4>2. fraction \in Nat
          BY <3>3
        <4> HIDE DEF fraction
        <4>3. number.whole * Power[scale] + fraction \in Nat
          BY <3>2, <4>1, <4>2, NaturalsClosed
        <4>4. QED
          BY <4>3 DEF fraction
      <3>5. Unscaled(v.text, scale) = IF number.negative THEN -size ELSE size
        BY <3>3 DEF Unscaled
      <3> HIDE DEF size
      <3>6. n \in Int
        BY <3>1, <3>2, <3>4
      <3> HIDE DEF n, said
      <3>7. NumberOf(v, t) = Ok(Unscaled(v.text, scale))
        BY <2>2, <3>1 DEF NumberOf, Word64Ids
      <3>8. QED
        BY <3>1, <3>5, <3>6, <3>7
    <2>3. QED
      BY <2>1, <2>2
  <1>5. InWord(n, half, TRUE)
    <2>1. Digits[b] \in Nat /\ Power[Digits[b]] <= half
      BY <1>2, SizesAssumption
    <2>2. Power[width] <= Power[Digits[b]] /\ Power[width] \in Nat /\ Power[Digits[b]] \in Nat
      BY <1>2, <2>1, PowerGrows, PowerSays
    <2> HIDE DEF n, half, width
    <2>3. -Power[width] < n /\ n < Power[width]
      BY <1>1 DEF InDigits
    <2>4. QED
      BY <1>3, <1>4, <2>1, <2>2, <2>3 DEF InWord
  <1> HIDE DEF n, said
  <1>6. WordOf(v, t) = Ok(Wrapped(n, half))
    BY <1>2, <1>4 DEF WordOf, Word, Ok
  <1>7. Signed(Wrapped(n, half), half) = n
    BY <1>3, <1>4, <1>5, SignedReturns
  <1>8. FromWord(Wrapped(n, half), t) = Ok([decimal |-> n, width |-> width, scale |-> scale])
    BY <1>2, <1>7 DEF FromWord, Word
  <1>9. QED
    BY <1>1, <1>6, <1>8 DEF WordGives, Ok

\* The least member.
LEMMA MinIs ==
    ASSUME NEW S, S \subseteq Nat, S # {}
    PROVE  Min(S) \in S /\ \A y \in S : Min(S) <= y
  <1>1. PICK x \in S : \A y \in S : x <= y
    BY Smallest
  <1>2. Min(S) = CHOOSE m \in S : \A y \in S : m <= y
    BY DEF Min
  <1>3. QED
    BY <1>1, <1>2

\* The word of an ENUM has room for all its texts.
LEMMA EnumIs ==
    ASSUME NEW t, t.id = "ENUM", t.info.kind = "ENUM",
           t.info.texts \in Seq(STRING), Len(t.info.texts) <= 2 * Half[32]
    PROVE  \E size \in Sizes : Physical(t) = Word(size, FALSE) /\ Len(t.info.texts) <= 2 * Half[size]
  <1> DEFINE enough == {b \in DOMAIN EnumLimit : Len(t.info.texts) <= EnumLimit[b]} \cup {32}
  <1>1. Physical(t) = Word(Min(enough), FALSE)
    BY DEF Physical, SizeOfEnum, TextIds, BytesIds, StructIds, ListIds, Word64Ids
  <1>2. /\ enough \subseteq Sizes /\ enough \subseteq Nat /\ enough # {}
        /\ \A b \in enough : b # 32 => Len(t.info.texts) <= EnumLimit[b] /\ b \in DOMAIN EnumLimit
    BY SMTT(30), SizesAssumption DEF Sizes
  <1> HIDE DEF enough
  <1> DEFINE size == Min(enough)
  <1>3. size \in enough
    BY <1>2, MinIs
  <1>4. Len(t.info.texts) <= 2 * Half[size]
    <2> HIDE DEF size
    <2>1. CASE size = 32
      BY <2>1
    <2>2. CASE size # 32
      <3>1. /\ Len(t.info.texts) <= EnumLimit[size] /\ EnumLimit[size] <= 2 * Half[size]
            /\ EnumLimit[size] \in Nat
        BY <1>2, <1>3, <2>2, SizesAssumption
      <3>2. Half[size] \in Nat /\ Len(t.info.texts) \in Nat
        BY <1>2, <1>3, Sized
      <3>3. QED
        BY <3>1, <3>2
    <2>3. QED
      BY <2>1, <2>2
  <1>5. QED
    BY <1>1, <1>2, <1>3, <1>4

\* A text of an ENUM is found by its index again.
LEMMA EnumReturns ==
    ASSUME NEW V, ValuesNested(V), NEW v \in V, ~IsNull(v),
           NEW t, t.id = "ENUM", t.info.kind = "ENUM",
           t.info.texts \in Seq(STRING), Len(t.info.texts) <= 2 * Half[32],
           NEW inner, HeldOf(v, t, inner).ok
    PROVE  WordGives(v, t, HeldOf(v, t, inner).value)
  <1> DEFINE texts == t.info.texts
             index == IntegerSaid(v) + 1
  <1>1. PICK size \in Sizes : Physical(t) = Word(size, FALSE) /\ Len(texts) <= 2 * Half[size]
    BY EnumIs
  <1> DEFINE half == Half[size]
  <1>2. half \in Nat \ {0} /\ Len(texts) \in Nat
    BY Sized
  <1>3. HeldOf(v, t, inner) =
             IF Is(v, "text") /\ v.text \in ToSet(texts) THEN Ok(v)
             ELSE IF Is(v, "int") \/ Is(v, "uint")
             THEN (IF index \in DOMAIN texts THEN Ok([text |-> texts[index]])
                   ELSE Fail("does not fit"))
             ELSE Fail("does not fit")
    <2> HIDE DEF index
    <2>1. QED
      BY DEF HeldOf, index, IntegerName, ListIds, StructIds
  <1>4. ~Fail("does not fit").ok
    BY DEF Fail
  <1>5. ASSUME NEW k \in 1..Len(texts), NEW held, held = [text |-> texts[k]],
               HeldOf(v, t, inner) = Ok(held), NumberOf(v, t) = Ok(k - 1)
        PROVE  WordGives(v, t, HeldOf(v, t, inner).value)
    <2>1. Wrapped(k - 1, half) = k - 1
      <3>1. k - 1 \in Int /\ 0 <= k - 1 /\ k - 1 < 2 * half
        BY <1>1, <1>2
      <3>2. QED
        BY <1>2, <3>1, WrappedInside
    <2>2. WordOf(v, t) = Ok(k - 1)
      <3>1. Physical(t).kind = "word" /\ Physical(t).half = half
        BY <1>1 DEF Word
      <3> HIDE DEF half, texts
      <3>2. NumberOf(v, t).ok /\ NumberOf(v, t).value = k - 1
        BY <1>5 DEF Ok
      <3>3. WordOf(v, t) = Ok(Wrapped(NumberOf(v, t).value, Physical(t).half))
        BY <3>1, <3>2 DEF WordOf
      <3>4. QED
        BY <2>1, <3>1, <3>2, <3>3
    <2>3. k - 1 < Len(texts) /\ (k - 1) + 1 = k
      BY <1>2
    <2>4. FromWord(k - 1, t) = Ok(held)
      BY <1>1, <1>5, <2>3 DEF FromWord, Word
    <2>5. QED
      BY <1>5, <2>2, <2>4 DEF WordGives, Ok
  <1>6. CASE Is(v, "text") /\ v.text \in ToSet(texts)
    <2> DEFINE S == {k \in DOMAIN texts : texts[k] = v.text}
    <2>1. v = [text |-> v.text] /\ DOMAIN v = {"text"}
      BY <1>6, ValueIs
    <2>2. S # {} /\ S \subseteq 1..Len(texts) /\ S \subseteq Nat
      BY <1>6 DEF ToSet
    <2> HIDE DEF S
    <2>3. Min(S) \in S
      BY <2>2, MinIs
    <2>4. Min(S) \in 1..Len(texts) /\ texts[Min(S)] = v.text
      BY <2>2, <2>3 DEF S
    <2>5. NumberOf(v, t) = Ok(Min(S) - 1)
      BY <1>6, <2>1, Zenon DEF NumberOf, S, Is
    <2>6. HeldOf(v, t, inner) = Ok(v)
      BY <1>3, <1>6
    <2>7. QED
      BY <1>5, <2>1, <2>4, <2>5, <2>6
  <1>7. CASE ~(Is(v, "text") /\ v.text \in ToSet(texts))
    <2>1. Is(v, "int") \/ Is(v, "uint")
      BY <1>3, <1>4, <1>7
    <2>2. index \in DOMAIN texts /\ HeldOf(v, t, inner) = Ok([text |-> texts[index]])
      BY <1>3, <1>4, <1>7, <2>1
    <2>3. NumberOf(v, t) = Ok(IntegerSaid(v)) /\ IntegerSaid(v) \in Int
      <3>1. CASE Is(v, "int")
        <4>1. DOMAIN v = {"int"} /\ v.int \in Int
          BY <3>1, ValueIs DEF InWords
        <4>2. IntegerSaid(v) = v.int
          BY <4>1 DEF IntegerSaid, Is
        <4>3. v.int >= 0
          BY <2>2, <4>1, <4>2
        <4> HIDE DEF index
        <4>4. QED
          BY <3>1, <4>1, <4>2, <4>3 DEF NumberOf, Is
      <3>2. CASE Is(v, "uint")
        <4>1. DOMAIN v = {"uint"} /\ v.uint \in Int
          BY <3>2, ValueIs DEF Words
        <4>2. IntegerSaid(v) = v.uint
          BY <4>1 DEF IntegerSaid, Is
        <4> HIDE DEF index
        <4>3. QED
          BY <3>2, <4>1, <4>2 DEF NumberOf, Is
      <3>3. QED
        BY <2>1, <3>1, <3>2
    <2>4. index \in 1..Len(texts) /\ NumberOf(v, t) = Ok(index - 1)
      BY <2>2, <2>3
    <2> HIDE DEF index
    <2>5. QED
      BY <1>5, <2>2, <2>4
  <1>8. QED
    BY <1>6, <1>7

\* The number of a UUID, its first bit turned over twice.
LEMMA UuidReturns ==
    ASSUME NEW V, ValuesNested(V), NEW v \in V, ~IsNull(v),
           NEW t, t.id = "UUID", NEW inner, HeldOf(v, t, inner).ok
    PROVE  WordGives(v, t, HeldOf(v, t, inner).value)
  <1> DEFINE half == Half[128]
  <1>1. half \in Nat \ {0}
    BY Sized DEF Sizes
  <1>2. Physical(t) = Word(128, TRUE)
    BY DEF Physical, TextIds, BytesIds, StructIds, ListIds, Word64Ids, Word, Laid
  <1>3. HeldOf(v, t, inner) =
           IF Is(v, "text") /\ v.text \in ToSet(Uuids) THEN Ok(v) ELSE Fail("does not fit")
    BY DEF HeldOf, IntegerName, ListIds, StructIds
  <1>4. Is(v, "text") /\ v.text \in ToSet(Uuids) /\ HeldOf(v, t, inner) = Ok(v)
    <2>1. ~Fail("does not fit").ok
      BY DEF Fail
    <2>2. QED
      BY <1>3, <2>1
  <1>5. v = [text |-> v.text]
    BY <1>4, ValueIs
  <1> DEFINE n == CHOOSE m \in DOMAIN Uuids : Uuids[m] = v.text
  <1>6. n \in 0..2 * half - 1 /\ Uuids[n] = v.text /\ NumberOf(v, t) = Ok(n + half)
    <2>1. \E m \in DOMAIN Uuids : Uuids[m] = v.text
      BY <1>4 DEF ToSet
    <2>2. DOMAIN Uuids = 0..2 * half - 1
      BY DEF Uuids
    <2>3. /\ t.id # "ENUM" /\ t.id # "DECIMAL" /\ ~(t.id = "DATE" /\ Is(v, "date"))
          /\ t.id \notin Word64Ids
      BY DEF Word64Ids
    <2>4. NumberOf(v, t) = Ok(n + half)
      BY <1>4, <2>1, <2>3, Zenon DEF NumberOf, TopBit
    <2>5. QED
      BY <2>1, <2>2, <2>4
  <1> HIDE DEF n, half
  <1>7. Wrapped(Wrapped(n + half, half) + half, half) = n
    <2>1. n \in Int /\ 0 <= n /\ n < 2 * half
      BY <1>1, <1>6
    <2>2. CASE n < half
      <3>1. Wrapped(n + half, half) = n + half
        BY <1>1, <2>1, <2>2, WrappedInside
      <3>2. Wrapped(n + half + half, half) = (n + half + half) - 2 * half
        <4>1. n + half + half \in Int /\ 2 * half <= n + half + half /\ n + half + half < 4 * half
          BY <1>1, <2>1, <2>2
        <4>2. QED
          BY <1>1, <4>1, WrappedAbove
      <3>3. QED
        BY <1>1, <2>1, <3>1, <3>2
    <2>3. CASE ~(n < half)
      <3>1. Wrapped(n + half, half) = (n + half) - 2 * half
        <4>1. n + half \in Int /\ 2 * half <= n + half /\ n + half < 4 * half
          BY <1>1, <2>1, <2>3
        <4>2. QED
          BY <1>1, <4>1, WrappedAbove
      <3>2. ((n + half) - 2 * half) + half = n
        BY <1>1, <2>1
      <3>3. Wrapped(n, half) = n
        BY <1>1, <2>1, WrappedInside
      <3>4. QED
        BY <3>1, <3>2, <3>3
    <2>4. QED
      BY <2>2, <2>3
  <1> DEFINE word == Wrapped(n + half, half)
  <1>8. WordOf(v, t) = Ok(word)
    BY <1>2, <1>6 DEF WordOf, Word, Ok, half
  <1> HIDE DEF word
  <1>9. FromWord(word, t) = Ok([text |-> v.text])
    <2>1. Physical(t).kind = "word" /\ Physical(t).half = half
      BY <1>2 DEF Word, half
    <2>2. Wrapped(word + TopBit, half) = n
      BY <1>7 DEF word, TopBit, half
    <2>3. FromWord(word, t) = Ok([text |-> Uuids[Wrapped(word + TopBit, half)]])
      BY <2>1 DEF FromWord
    <2>4. QED
      BY <1>6, <2>2, <2>3
  <1>10. QED
    BY <1>4, <1>5, <1>8, <1>9 DEF WordGives, Ok

Others == {"null", "int", "uint", "huge", "uhuge", "decimal", "list", "struct"}

\* The id of the columns that hold a value as it is.
LEMMA IdIs ==
    ASSUME NEW V, ValuesNested(V), NEW v \in V
    PROVE  /\ IdOf(v) = "BOOLEAN" => Is(v, "bool")
           /\ IdOf(v) = "VARCHAR" => Is(v, "text")
           /\ IdOf(v) = "BLOB" => Is(v, "bytes")
           /\ IdOf(v) = "FLOAT" => Is(v, "float")
           /\ IdOf(v) = "DOUBLE" => Is(v, "double")
           /\ IdOf(v) = "DATE" => Is(v, "date")
           /\ IdOf(v) = "INTERVAL" => Is(v, "interval")
           /\ IdOf(v) = "TIMETZ" => Is(v, "timetz")
           /\ IdOf(v) = "TIME" => Is(v, "time") /\ v.unit = "micros"
           /\ IdOf(v) = "TIME_NS" => Is(v, "time") /\ v.unit = "nanos"
           /\ IdOf(v) = "TIMESTAMP_S" => Is(v, "timestamp") /\ v.unit = "seconds" /\ ~v.utc
           /\ IdOf(v) = "TIMESTAMP_MS" => Is(v, "timestamp") /\ v.unit = "millis" /\ ~v.utc
           /\ IdOf(v) = "TIMESTAMP" => Is(v, "timestamp") /\ v.unit = "micros" /\ ~v.utc
           /\ IdOf(v) = "TIMESTAMP_NS" => Is(v, "timestamp") /\ v.unit = "nanos" /\ ~v.utc
           /\ IdOf(v) = "TIMESTAMPTZ" => Is(v, "timestamp") /\ v.unit = "micros" /\ v.utc
           /\ IdOf(v) \in {"BOOLEAN", "VARCHAR", "BLOB", "FLOAT", "DOUBLE", "DATE", "INTERVAL",
                           "TIMETZ", "TIME", "TIME_NS", "TIMESTAMP_S", "TIMESTAMP_MS",
                           "TIMESTAMP", "TIMESTAMP_NS", "TIMESTAMPTZ", "none"}
  <1>1. CASE Is(v, "time")
    <2>1. DOMAIN v = {"time", "unit"} /\ v.unit \in {"micros", "nanos"}
      BY <1>1, ValueIs
    <2>2. IdOf(v) = TimeId(v.unit)
      BY <2>1 DEF IdOf, Is
    <2>3. QED
      BY <1>1, <2>1, <2>2 DEF TimeId
  <1>2. CASE Is(v, "timestamp")
    <2>1. /\ DOMAIN v = {"timestamp", "unit", "utc"} /\ v.utc \in BOOLEAN
          /\ v.unit \in {"seconds", "millis", "micros", "nanos"}
      BY <1>2, ValueIs
    <2>2. IdOf(v) = IF v.utc /\ v.unit # "micros" THEN "none" ELSE TimestampId(v.unit, v.utc)
      BY <2>1 DEF IdOf, Is
    <2>3. CASE v.utc
      BY <1>2, <2>1, <2>2, <2>3 DEF TimestampId
    <2>4. CASE ~v.utc
      BY <1>2, <2>1, <2>2, <2>4 DEF TimestampId
    <2>5. QED
      BY <2>3, <2>4
  <1>3. CASE ~Is(v, "time") /\ ~Is(v, "timestamp")
    <2>1. CASE Is(v, "bool")
      <3>1. DOMAIN v = {"bool"}
        BY <2>1, ValueIs
      <3>2. IdOf(v) = "BOOLEAN"
        BY <3>1 DEF IdOf, Is
      <3>3. QED
        BY <2>1, <3>2
    <2>2. CASE Is(v, "text")
      <3>1. DOMAIN v = {"text"}
        BY <2>2, ValueIs
      <3>2. IdOf(v) = "VARCHAR"
        BY <3>1 DEF IdOf, Is
      <3>3. QED
        BY <2>2, <3>2
    <2>3. CASE Is(v, "bytes")
      <3>1. DOMAIN v = {"bytes"}
        BY <2>3, ValueIs
      <3>2. IdOf(v) = "BLOB"
        BY <3>1 DEF IdOf, Is
      <3>3. QED
        BY <2>3, <3>2
    <2>4. CASE Is(v, "float")
      <3>1. DOMAIN v = {"float"}
        BY <2>4, ValueIs
      <3>2. IdOf(v) = "FLOAT"
        BY <3>1 DEF IdOf, Is
      <3>3. QED
        BY <2>4, <3>2
    <2>5. CASE Is(v, "double")
      <3>1. DOMAIN v = {"double"}
        BY <2>5, ValueIs
      <3>2. IdOf(v) = "DOUBLE"
        BY <3>1 DEF IdOf, Is
      <3>3. QED
        BY <2>5, <3>2
    <2>6. CASE Is(v, "date")
      <3>1. DOMAIN v = {"date"}
        BY <2>6, ValueIs
      <3>2. IdOf(v) = "DATE"
        BY <3>1 DEF IdOf, Is
      <3>3. QED
        BY <2>6, <3>2
    <2>7. CASE Is(v, "interval")
      <3>1. DOMAIN v = {"interval"}
        BY <2>7, ValueIs
      <3>2. IdOf(v) = "INTERVAL"
        BY <3>1 DEF IdOf, Is
      <3>3. QED
        BY <2>7, <3>2
    <2>8. CASE Is(v, "timetz")
      <3>1. DOMAIN v = {"timetz"}
        BY <2>8, ValueIs
      <3>2. IdOf(v) = "TIMETZ"
        BY <3>1 DEF IdOf, Is
      <3>3. QED
        BY <2>8, <3>2
    <2>9. CASE /\ ~Is(v, "bool") /\ ~Is(v, "text") /\ ~Is(v, "bytes") /\ ~Is(v, "float")
               /\ ~Is(v, "double") /\ ~Is(v, "date") /\ ~Is(v, "interval") /\ ~Is(v, "timetz")
      <3>1. IdOf(v) = "none"
        BY <1>3, <2>9 DEF IdOf
      <3>2. QED
        BY <3>1
    <2>10. QED
      BY <2>1, <2>2, <2>3, <2>4, <2>5, <2>6, <2>7, <2>8, <2>9
  <1>4. QED
    BY <1>1, <1>2, <1>3

TimeIds == {"TIME", "TIME_NS", "TIMETZ", "TIMESTAMP_S", "TIMESTAMP_MS", "TIMESTAMP",
            "TIMESTAMP_NS", "TIMESTAMPTZ"}
OwnIds == TimeIds \cup {"BOOLEAN", "FLOAT", "DOUBLE", "DATE", "INTERVAL"}
NestedIds == StructIds \cup ListIds \cup {"ARRAY"}
MadeIds == IntegerIds \cup {"DECIMAL", "ENUM", "UUID"}

\* A column of any other type holds only the values that are of its type as they are.
LEMMA OwnHeld ==
    ASSUME NEW v, NEW t, ~IsNull(v), t.id \notin MadeIds, t.id \notin NestedIds,
           NEW inner, HeldOf(v, t, inner).ok
    PROVE  IdOf(v) = t.id /\ HeldOf(v, t, inner) = Ok(v)
  <1>1. HeldOf(v, t, inner) = IF IdOf(v) = t.id THEN Ok(v) ELSE Fail("does not fit")
    BY DEF HeldOf, IntegerName, MadeIds, NestedIds, IntegerIds
  <1>2. ~Fail("does not fit").ok
    BY DEF Fail
  <1>3. QED
    BY <1>1, <1>2

\* Times and timestamps of the column's own unit return.
LEMMA TimeReturns ==
    ASSUME NEW V, ValuesNested(V), NEW v \in V, NEW t, t.id \in TimeIds, IdOf(v) = t.id
    PROVE  WordGives(v, t, v)
  <1> DEFINE half == Half[64]
             n == IF Is(v, "time") THEN v.time ELSE IF Is(v, "timetz") THEN v.timetz ELSE v.timestamp
  <1>1. half \in Nat \ {0}
    BY Sized DEF Sizes
  <1>2. Physical(t) = Word(64, TRUE)
    BY DEF Physical, TimeIds, TextIds, BytesIds, StructIds, ListIds, Word64Ids, Word, Laid
  <1>3. t.id # "DATE" /\ t.id # "UUID" /\ t.id # "ENUM" /\ t.id # "DECIMAL" /\ t.id \in Word64Ids
    BY DEF TimeIds, Word64Ids
  <1>4. ~IsNull(v) /\ n \in InWords(64) /\ NumberOf(v, t) = Ok(n) /\ FromInt64(n, t) = v
    <2>1. CASE t.id \in {"TIME", "TIME_NS"}
      <3>1. Is(v, "time") /\ v.unit = IF t.id = "TIME" THEN "micros" ELSE "nanos"
        BY <2>1, IdIs
      <3>2. v = [time |-> v.time, unit |-> v.unit] /\ v.time \in InWords(64)
        BY <3>1, ValueIs
      <3>3. DOMAIN v = {"time", "unit"} /\ n = v.time
        BY <3>1, <3>2
      <3>4. NumberOf(v, t) = Ok(v.time)
        BY <1>3, <3>3 DEF NumberOf, Is
      <3>5. FromInt64(n, t) = v
        BY <2>1, <3>1, <3>2, <3>3 DEF FromInt64
      <3>6. QED
        BY <3>2, <3>3, <3>4, <3>5 DEF IsNull, Is
    <2>2. CASE t.id = "TIMETZ"
      <3>1. Is(v, "timetz")
        BY <2>2, IdIs
      <3>2. v = [timetz |-> v.timetz] /\ v.timetz \in InWords(64)
        BY <3>1, ValueIs
      <3>3. DOMAIN v = {"timetz"} /\ n = v.timetz
        BY <3>1, <3>2 DEF Is
      <3>4. NumberOf(v, t) = Ok(v.timetz)
        BY <1>3, <3>3 DEF NumberOf, Is
      <3>5. FromInt64(n, t) = v
        BY <2>2, <3>2, <3>3 DEF FromInt64
      <3>6. QED
        BY <3>2, <3>3, <3>4, <3>5 DEF IsNull, Is
    <2>3. CASE t.id \notin {"TIME", "TIME_NS", "TIMETZ"}
      <3> DEFINE unit == CASE t.id = "TIMESTAMP_S" -> "seconds"
                           [] t.id = "TIMESTAMP_MS" -> "millis"
                           [] t.id = "TIMESTAMP_NS" -> "nanos"
                           [] OTHER -> "micros"
      <3>1. Is(v, "timestamp") /\ v.unit = unit /\ (v.utc <=> t.id = "TIMESTAMPTZ")
        BY <2>3, IdIs DEF TimeIds
      <3>2. /\ v = [timestamp |-> v.timestamp, unit |-> v.unit, utc |-> v.utc]
            /\ v.timestamp \in InWords(64) /\ v.utc \in BOOLEAN
        BY <3>1, ValueIs
      <3>3. DOMAIN v = {"timestamp", "unit", "utc"} /\ n = v.timestamp
        BY <3>1, <3>2 DEF Is
      <3>4. NumberOf(v, t) = Ok(v.timestamp)
        BY <1>3, <3>3 DEF NumberOf, Is
      <3>5. FromInt64(n, t) = [timestamp |-> n, unit |-> unit, utc |-> t.id = "TIMESTAMPTZ"]
        BY <2>3 DEF FromInt64, TimeIds
      <3>6. v.utc = (t.id = "TIMESTAMPTZ")
        BY <3>1, <3>2
      <3> HIDE DEF unit
      <3>7. FromInt64(n, t) = v
        BY <3>1, <3>2, <3>3, <3>5, <3>6
      <3>8. QED
        BY <3>2, <3>3, <3>4, <3>7 DEF IsNull, Is
    <2>4. QED
      BY <2>1, <2>2, <2>3
  <1> HIDE DEF n
  <1>5. n \in Int /\ InWord(n, half, TRUE)
    BY <1>1, <1>4 DEF InWord, InWords
  <1>6. Signed(Wrapped(n, half), half) = n
    BY <1>1, <1>5, SignedReturns
  <1>7. /\ Physical(t).kind = "word" /\ Physical(t).half = half /\ Physical(t).signed
    BY <1>2 DEF Word
  <1> HIDE DEF half
  <1>8. WordOf(v, t) = Ok(Wrapped(n, half))
    <2>1. NumberOf(v, t).ok /\ NumberOf(v, t).value = n
      BY <1>4 DEF Ok
    <2>2. QED
      BY <1>4, <1>7, <2>1 DEF WordOf
  <1>9. FromWord(Wrapped(n, half), t) = Ok(FromInt64(n, t))
    BY <1>6, <1>7 DEF FromWord, TimeIds
  <1>10. QED
    BY <1>4, <1>8, <1>9 DEF WordGives, Ok

\* How the values of each type are laid out.
LEMMA PhysicalIs ==
    ASSUME NEW t, t.info.kind \in Kinds
    PROVE  /\ t.id = "BOOLEAN" => Physical(t) = Laid("bool")
           /\ t.id \in {"DATE", "SQLNULL"} => Physical(t) = Word(32, TRUE)
           /\ t.id \in TimeIds => Physical(t) = Word(64, TRUE)
           /\ t.id = "UUID" => Physical(t) = Word(128, TRUE)
           /\ t.id = "DECIMAL" => Physical(t) = IF t.info.kind = "DECIMAL" THEN SizeOfDecimal(t.info)
                                                ELSE Laid("none")
           /\ t.id = "ENUM" => Physical(t) = IF t.info.kind = "ENUM" THEN SizeOfEnum(t.info)
                                             ELSE Laid("none")
           /\ t.id \in {"FLOAT", "DOUBLE"} => Physical(t) = Laid("float")
           /\ t.id = "INTERVAL" => Physical(t) = Laid("interval")
           /\ t.id \in TextIds \cup BytesIds => Physical(t) = Laid("text")
           /\ t.id = "STRUCT" => Physical(t) = IF t.info.kind = "STRUCT" THEN Laid("struct")
                                               ELSE Laid("none")
           /\ t.id \in StructIds \ {"STRUCT"} => Physical(t) = Laid("struct")
           /\ t.id \in ListIds => Physical(t) = IF t.info.kind \in {"LIST", "ARRAY"} THEN Laid("list")
                                                ELSE Laid("none")
           /\ t.id = "ARRAY" => Physical(t) = IF t.info.kind = "ARRAY" THEN Laid("array")
                                              ELSE Laid("none")
           /\ t.id \notin MadeIds \cup OwnIds \cup NestedIds \cup TextIds \cup BytesIds \cup {"SQLNULL"}
                 => Physical(t) = Laid("none")
  <1> USE DEF Physical, TextIds, BytesIds, StructIds, ListIds, Word64Ids, TimeIds
  <1>1. t.id = "BOOLEAN" => Physical(t) = Laid("bool")
    BY DEF Laid, Word
  <1>2. t.id \in {"DATE", "SQLNULL"} => Physical(t) = Word(32, TRUE)
    BY DEF Laid, Word
  <1>3. t.id \in TimeIds => Physical(t) = Word(64, TRUE)
    BY DEF Laid, Word
  <1>4. t.id = "UUID" => Physical(t) = Word(128, TRUE)
    BY DEF Laid, Word
  <1>5. t.id = "DECIMAL" => Physical(t) = IF t.info.kind = "DECIMAL" THEN SizeOfDecimal(t.info)
                                          ELSE Laid("none")
    BY DEF Laid, Word
  <1>6. t.id = "ENUM" => Physical(t) = IF t.info.kind = "ENUM" THEN SizeOfEnum(t.info)
                                       ELSE Laid("none")
    BY DEF Laid, Word
  <1>7. t.id \in {"FLOAT", "DOUBLE"} => Physical(t) = Laid("float")
    BY DEF Laid, Word
  <1>8. t.id = "INTERVAL" => Physical(t) = Laid("interval")
    BY DEF Laid, Word
  <1>9. t.id \in TextIds \cup BytesIds => Physical(t) = Laid("text")
    BY DEF Laid, Word
  <1>10. t.id = "STRUCT" => Physical(t) = IF t.info.kind = "STRUCT" THEN Laid("struct")
                                          ELSE Laid("none")
    BY DEF Laid, Word
  <1>11. t.id \in StructIds \ {"STRUCT"} => Physical(t) = Laid("struct")
    BY DEF Laid, Word
  <1>12. t.id \in ListIds => Physical(t) = IF t.info.kind \in {"LIST", "ARRAY"} THEN Laid("list")
                                           ELSE Laid("none")
    BY DEF Laid, Word
  <1>13. t.id = "ARRAY" => Physical(t) = IF t.info.kind = "ARRAY" THEN Laid("array")
                                         ELSE Laid("none")
    BY DEF Laid, Word
  <1>14. t.id \notin MadeIds \cup OwnIds \cup NestedIds \cup TextIds \cup BytesIds \cup {"SQLNULL"}
            => Physical(t) = Laid("none")
    BY DEF Laid, Word, MadeIds, IntegerIds, OwnIds, NestedIds
  <1>15. QED
    BY <1>1, <1>2, <1>3, <1>4, <1>5, <1>6, <1>7, <1>8, <1>9, <1>10, <1>11, <1>12, <1>13, <1>14, Zenon

\* The types of each layout.
LEMMA KindIs ==
    ASSUME NEW T, NEW Depth, TypesNested(T, Depth), NEW t \in T
    PROVE  /\ Physical(t).kind \in FixedKinds \cup {"text", "struct", "list", "array", "none"}
           /\ Physical(t).kind \in FixedKinds =>
                /\ t.id \in MadeIds \cup OwnIds \cup {"SQLNULL"}
                /\ t.id = "DECIMAL" => t.info.kind = "DECIMAL"
                /\ t.id = "ENUM" => t.info.kind = "ENUM"
           /\ Physical(t).kind = "bool" => t.id = "BOOLEAN"
           /\ Physical(t).kind = "interval" => t.id = "INTERVAL"
           /\ Physical(t).kind = "float" => t.id \in {"FLOAT", "DOUBLE"}
           /\ Physical(t).kind = "text" => t.id \in TextIds \cup BytesIds
           /\ Physical(t).kind = "struct" =>
                t.id \in StructIds /\ (t.id = "STRUCT" => t.info.kind = "STRUCT")
           /\ Physical(t).kind = "list" => t.id \in ListIds /\ t.info.kind \in {"LIST", "ARRAY"}
           /\ Physical(t).kind = "array" => t.id = "ARRAY" /\ t.info.kind = "ARRAY"
  <1>1. t.info.kind \in Kinds
    BY TypeIs
  <1>2. \A size, signed : Word(size, signed).kind = "word"
    BY DEF Word
  <1>3. \A kind : Laid(kind).kind = kind
    BY DEF Laid
  <1>4. CASE t.id \in IntegerIds
    <2>1. Physical(t).kind = "word"
      BY <1>2, <1>4, IntegerIs
    <2>2. QED
      BY <1>4, <2>1 DEF IntegerIds, MadeIds, FixedKinds
  <1>5. CASE t.id = "DECIMAL"
    <2>1. SizeOfDecimal(t.info).kind \in {"word", "none"}
      BY DEF SizeOfDecimal, Word, Laid
    <2>2. QED
      BY ZenonT(30), <1>1, <1>3, <1>5, <2>1, PhysicalIs DEF MadeIds, FixedKinds
  <1>6. CASE t.id = "ENUM"
    <2>1. SizeOfEnum(t.info).kind = "word"
      BY DEF SizeOfEnum, Word
    <2>2. QED
      BY ZenonT(30), <1>1, <1>3, <1>6, <2>1, PhysicalIs DEF MadeIds, FixedKinds
  <1>7. CASE t.id \in OwnIds \cup {"UUID", "SQLNULL"}
    <2>1. /\ t.id \in TimeIds \cup {"DATE", "SQLNULL", "UUID"} => Physical(t).kind = "word"
          /\ t.id = "BOOLEAN" => Physical(t).kind = "bool"
          /\ t.id = "INTERVAL" => Physical(t).kind = "interval"
          /\ t.id \in {"FLOAT", "DOUBLE"} => Physical(t).kind = "float"
      <3>1. CASE t.id \in TimeIds \cup {"DATE", "SQLNULL", "UUID"}
        <4>1. \/ Physical(t) = Word(32, TRUE) \/ Physical(t) = Word(64, TRUE)
              \/ Physical(t) = Word(128, TRUE)
          BY <1>1, <3>1, PhysicalIs
        <4>2. QED
          BY <3>1, <4>1 DEF Word, TimeIds
      <3>2. CASE t.id = "BOOLEAN"
        <4>1. Physical(t) = Laid("bool")
          BY <1>1, <3>2, PhysicalIs
        <4>2. QED
          BY <3>2, <4>1 DEF Laid, TimeIds
      <3>3. CASE t.id = "INTERVAL"
        <4>1. Physical(t) = Laid("interval")
          BY <1>1, <3>3, PhysicalIs
        <4>2. QED
          BY <3>3, <4>1 DEF Laid, TimeIds
      <3>4. CASE t.id \in {"FLOAT", "DOUBLE"}
        <4>1. Physical(t) = Laid("float")
          BY <1>1, <3>4, PhysicalIs
        <4>2. QED
          BY <3>4, <4>1 DEF Laid, TimeIds
      <3>5. QED
        BY <1>7, <3>1, <3>2, <3>3, <3>4 DEF OwnIds
    <2>2. \/ t.id \in TimeIds \cup {"DATE", "SQLNULL", "UUID"} /\ Physical(t).kind = "word"
          \/ t.id = "BOOLEAN" /\ Physical(t).kind = "bool"
          \/ t.id = "INTERVAL" /\ Physical(t).kind = "interval"
          \/ t.id \in {"FLOAT", "DOUBLE"} /\ Physical(t).kind = "float"
      BY <1>7, <2>1 DEF OwnIds
    <2>3. t.id \in MadeIds \cup OwnIds \cup {"SQLNULL"} /\ t.id \notin {"DECIMAL", "ENUM"}
      BY <1>7 DEF MadeIds, OwnIds, TimeIds
    <2>4. QED
      BY <2>2, <2>3, SMTT(60) DEF FixedKinds
  <1>8. CASE t.id \in TextIds \cup BytesIds
    <2>1. Physical(t).kind = "text"
      BY <1>1, <1>3, <1>8, PhysicalIs
    <2>2. QED
      BY <1>8, <2>1 DEF FixedKinds
  <1>9. CASE t.id \in StructIds
    <2>1. /\ t.id = "STRUCT" => Physical(t).kind = IF t.info.kind = "STRUCT" THEN "struct" ELSE "none"
          /\ t.id # "STRUCT" => Physical(t).kind = "struct"
      BY <1>1, <1>3, <1>9, PhysicalIs
    <2>2. QED
      BY <1>9, <2>1 DEF FixedKinds
  <1>10. CASE t.id \in ListIds
    <2>1. Physical(t).kind = IF t.info.kind \in {"LIST", "ARRAY"} THEN "list" ELSE "none"
      BY <1>1, <1>3, <1>10, PhysicalIs
    <2>2. QED
      BY <1>10, <2>1 DEF FixedKinds
  <1>11. CASE t.id = "ARRAY"
    <2>1. Physical(t).kind = IF t.info.kind = "ARRAY" THEN "array" ELSE "none"
      BY <1>1, <1>3, <1>11, PhysicalIs
    <2>2. QED
      BY <1>11, <2>1 DEF FixedKinds
  <1>12. CASE t.id \notin MadeIds \cup OwnIds \cup NestedIds \cup TextIds \cup BytesIds \cup {"SQLNULL"}
    <2>1. Physical(t).kind = "none"
      BY <1>1, <1>3, <1>12, PhysicalIs
    <2>2. QED
      BY <2>1 DEF FixedKinds
  <1>13. QED
    BY <1>4, <1>5, <1>6, <1>7, <1>8, <1>9, <1>10, <1>11, <1>12 DEF MadeIds, NestedIds

\* So does every value that is of the column's type as it is.
LEMMA OwnReturns ==
    ASSUME NEW V, ValuesNested(V), NEW v \in V, NEW t, t.info.kind \in Kinds,
           t.id \in OwnIds, IdOf(v) = t.id
    PROVE  WordGives(v, t, v)
  <1>1. CASE t.id \in TimeIds
    BY <1>1, TimeReturns
  <1>2. CASE t.id = "BOOLEAN"
    <2>1. Is(v, "bool")
      BY <1>2, IdIs
    <2>2. v = [bool |-> v.bool] /\ v.bool \in BOOLEAN /\ DOMAIN v = {"bool"}
      BY <2>1, ValueIs
    <2>3. Physical(t).kind = "bool"
      <3>1. Physical(t) = Laid("bool")
        BY <1>2, PhysicalIs
      <3>2. QED
        BY <3>1 DEF Laid
    <2>4. ~IsNull(v)
      BY <2>2 DEF IsNull, Is
    <2> DEFINE word == IF v.bool THEN 1 ELSE 0
    <2>5. WordOf(v, t) = Ok(word)
      BY <2>1, <2>3, <2>4 DEF WordOf
    <2>6. FromWord(word, t) = Ok([bool |-> word # 0])
      BY <1>2, <2>3 DEF FromWord
    <2>7. (word # 0) = v.bool
      BY <2>2
    <2> HIDE DEF word
    <2>8. FromWord(word, t) = Ok(v)
      BY <2>2, <2>6, <2>7
    <2>9. QED
      BY <2>5, <2>8 DEF WordGives, Ok
  <1>3. CASE t.id \in {"FLOAT", "DOUBLE"}
    <2>1. Physical(t).kind = "float"
      <3>1. Physical(t) = Laid("float")
        BY <1>3, PhysicalIs
      <3>2. QED
        BY <3>1 DEF Laid
    <2> DEFINE n == IF t.id = "FLOAT" THEN v.float ELSE v.double
    <2>2. n \in Int /\ ~IsNull(v) /\ FloatOf(v, t) = Ok(n)
          /\ v = IF t.id = "FLOAT" THEN [float |-> n] ELSE [double |-> n]
      <3>1. CASE t.id = "FLOAT"
        <4>1. Is(v, "float")
          BY <3>1, IdIs
        <4>2. /\ v = [float |-> v.float] /\ v.float \in Int /\ v.float % Radix = 0
              /\ DOMAIN v = {"float"}
          BY <4>1, ValueIs
        <4>3. FloatOf(v, t) = Ok(v.float)
          BY <3>1, <4>2 DEF FloatOf, Is
        <4>4. QED
          BY <3>1, <4>2, <4>3 DEF IsNull, Is
      <3>2. CASE t.id = "DOUBLE"
        <4>1. Is(v, "double")
          BY <3>2, IdIs
        <4>2. v = [double |-> v.double] /\ v.double \in Int /\ DOMAIN v = {"double"}
          BY <4>1, ValueIs
        <4>3. FloatOf(v, t) = Ok(v.double)
          BY <3>2, <4>2 DEF FloatOf, Is
        <4>4. QED
          BY <3>2, <4>2, <4>3 DEF IsNull, Is
      <3>3. QED
        BY <1>3, <3>1, <3>2
    <2> HIDE DEF n
    <2>3. WordOf(v, t) = Ok(n)
      BY <2>1, <2>2 DEF WordOf
    <2>4. FromWord(n, t) = Ok(v)
      BY <1>3, <2>1, <2>2 DEF FromWord
    <2>5. QED
      BY <2>3, <2>4 DEF WordGives, Ok
  <1>4. CASE t.id = "DATE"
    <2> DEFINE half == Half[32]
               n == v.date
    <2>1. Is(v, "date")
      BY <1>4, IdIs
    <2>2. v = [date |-> n] /\ n \in InWords(32) /\ DOMAIN v = {"date"} /\ ~IsNull(v)
      <3>1. v = [date |-> n] /\ n \in InWords(32)
        BY <2>1, ValueIs
      <3>2. QED
        BY <3>1 DEF IsNull, Is
    <2>3. /\ Physical(t).kind = "word" /\ Physical(t).half = half /\ Physical(t).signed
      BY <1>4, PhysicalIs DEF Word
    <2>4. half \in Nat \ {0}
      BY Sized DEF Sizes
    <2>5. n \in Int /\ InWord(n, half, TRUE)
      BY <2>2, <2>4 DEF InWord, InWords
    <2>6. Signed(Wrapped(n, half), half) = n
      BY <2>4, <2>5, SignedReturns
    <2> HIDE DEF half
    <2>7. NumberOf(v, t) = Ok(n)
      BY <1>4, <2>1 DEF NumberOf, Word64Ids
    <2> HIDE DEF n
    <2>8. WordOf(v, t) = Ok(Wrapped(n, half))
      <3>1. NumberOf(v, t).ok /\ NumberOf(v, t).value = n
        BY <2>7 DEF Ok
      <3>2. QED
        BY <2>2, <2>3, <3>1 DEF WordOf
    <2>9. FromWord(Wrapped(n, half), t) = Ok([date |-> n])
      BY <1>4, <2>3, <2>6 DEF FromWord
    <2>10. WordOf(v, t).value = Wrapped(n, half) /\ FromWord(Wrapped(n, half), t) = Ok(v)
      BY <2>2, <2>8, <2>9 DEF Ok
    <2>11. QED
      BY <2>8, <2>10 DEF WordGives
  <1>5. CASE t.id = "INTERVAL"
    <2>1. Is(v, "interval")
      BY <1>5, IdIs
    <2>2. v = [interval |-> v.interval] /\ DOMAIN v = {"interval"}
      BY <2>1, ValueIs
    <2>3. Physical(t).kind = "interval"
      <3>1. Physical(t) = Laid("interval")
        BY <1>5, PhysicalIs
      <3>2. QED
        BY <3>1 DEF Laid
    <2>4. ~IsNull(v)
      BY <2>2 DEF IsNull, Is
    <2>5. WordOf(v, t) = Ok(v.interval)
      BY <2>1, <2>3, <2>4 DEF WordOf
    <2>6. FromWord(v.interval, t) = Ok([interval |-> v.interval])
      BY <1>5, <2>3 DEF FromWord
    <2>7. QED
      BY <2>2, <2>5, <2>6 DEF WordGives, Ok
  <1>6. QED
    BY <1>1, <1>2, <1>3, <1>4, <1>5 DEF OwnIds

\* What a column of words is to hold for a value is what its word gives.
LEMMA FixedReturns ==
    ASSUME NEW T, NEW Depth, TypesNested(T, Depth), NEW t \in T, Physical(t).kind \in FixedKinds,
           NEW V, ValuesNested(V), NEW v \in V, ~IsNull(v),
           NEW inner, HeldOf(v, t, inner).ok
    PROVE  WordGives(v, t, HeldOf(v, t, inner).value)
  <1>1. /\ t.id \in MadeIds \cup OwnIds \cup {"SQLNULL"}
        /\ t.id = "DECIMAL" => t.info.kind = "DECIMAL"
        /\ t.id = "ENUM" => t.info.kind = "ENUM"
    BY KindIs
  <1>2. CASE t.id \in IntegerIds
    BY <1>2, IntegerReturns
  <1>3. CASE t.id = "DECIMAL"
    <2>1. t.info.width \in Nat /\ t.info.scale \in Nat
      BY <1>1, <1>3, TypeIs
    <2>2. Physical(t).kind # "none"
      BY DEF FixedKinds
    <2>3. QED
      BY <1>1, <1>3, <2>1, <2>2, DecimalReturns
  <1>4. CASE t.id = "ENUM"
    <2>1. t.info.texts \in Seq(STRING) /\ Len(t.info.texts) <= 2 * Half[32]
      BY <1>1, <1>4, TypeIs
    <2>2. QED
      BY <1>1, <1>4, <2>1, EnumReturns
  <1>5. CASE t.id = "UUID"
    BY <1>5, UuidReturns
  <1>6. CASE t.id \in OwnIds \cup {"SQLNULL"}
    <2>1. t.id \notin MadeIds /\ t.id \notin NestedIds
      BY <1>6 DEF OwnIds, TimeIds, MadeIds, IntegerIds, NestedIds, StructIds, ListIds
    <2>2. IdOf(v) = t.id /\ HeldOf(v, t, inner) = Ok(v)
      BY <2>1, OwnHeld
    <2>3. t.id \in OwnIds
      BY <1>6, <2>2, IdIs
    <2>4. t.info.kind \in Kinds
      BY TypeIs
    <2>5. WordGives(v, t, v)
      BY <2>2, <2>3, <2>4, OwnReturns
    <2>6. QED
      BY <2>2, <2>5 DEF Ok
  <1>7. QED
    BY <1>1, <1>2, <1>3, <1>4, <1>5, <1>6 DEF MadeIds

\* The word of a NULL is looked at too: it can be read but in an ENUM without values.
LEMMA NullReturns ==
    ASSUME NEW T, NEW Depth, TypesNested(T, Depth), NEW t \in T, Physical(t).kind \in FixedKinds,
           NEW v, IsNull(v), t.id = "ENUM" => t.info.texts # <<>>
    PROVE  WordOf(v, t) = Ok(WordOf(v, t).value) /\ FromWord(WordOf(v, t).value, t).ok
  <1>1. WordOf(v, t) = Ok(IF Physical(t).kind = "interval" THEN <<0, 0, 0>> ELSE 0)
    BY DEF WordOf
  <1> DEFINE word == IF Physical(t).kind = "interval" THEN <<0, 0, 0>> ELSE 0
  <1>2. FromWord(word, t).ok
    <2>1. CASE t.id = "ENUM" /\ Physical(t).kind \notin {"bool", "interval"}
      <3>1. t.info.kind = "ENUM"
        BY <2>1, KindIs
      <3>2. t.info.texts \in Seq(STRING) /\ t.info.texts # <<>>
        BY <2>1, <3>1, TypeIs
      <3>3. 0 < Len(t.info.texts)
        BY <3>2
      <3>4. word = 0
        BY <2>1
      <3> HIDE DEF word
      <3>5. FromWord(word, t) = Ok([text |-> t.info.texts[word + 1]])
        BY <2>1, <3>3, <3>4 DEF FromWord
      <3>6. QED
        BY <3>5 DEF Ok
    <2>2. CASE ~(t.id = "ENUM" /\ Physical(t).kind \notin {"bool", "interval"})
      <3> HIDE DEF word
      <3>1. t.id \in MadeIds \cup OwnIds \cup {"SQLNULL"} /\ t.info.kind \in Kinds
        BY KindIs, TypeIs
      <3>2. CASE Physical(t).kind = "bool"
        <4>1. t.id = "BOOLEAN"
          BY <3>2, KindIs
        <4>2. QED
          BY <3>2, <4>1 DEF FromWord, Ok
      <3>3. CASE Physical(t).kind = "interval"
        <4>1. t.id = "INTERVAL"
          BY <3>3, KindIs
        <4>2. QED
          BY <3>3, <4>1 DEF FromWord, Ok
      <3>4. CASE Physical(t).kind \notin {"bool", "interval"}
        BY <2>2, <3>4 DEF FromWord, Ok
      <3>5. QED
        BY <3>2, <3>3, <3>4
    <2>3. QED
      BY <2>1, <2>2
  <1> HIDE DEF word
  <1>3. QED
    BY <1>1, <1>2 DEF Ok, word

\* Results that are collected all succeeded.
LEMMA CollectOk ==
    ASSUME NEW results, DOMAIN results \subseteq Nat, Collect(results).ok
    PROVE  /\ \A i \in DOMAIN results : results[i].ok
           /\ Collect(results) = Ok([i \in DOMAIN results |-> results[i].value])
  <1> DEFINE failed == {i \in DOMAIN results : ~results[i].ok}
  <1>1. ASSUME failed # {} PROVE FALSE
    <2>1. Collect(results) = results[Min(failed)]
      BY <1>1 DEF Collect
    <2>2. failed \subseteq Nat
      OBVIOUS
    <2> HIDE DEF failed
    <2>3. Min(failed) \in failed
      BY <1>1, <2>2, MinIs
    <2>4. QED
      BY <2>1, <2>3 DEF failed
  <1>2. Collect(results) = Ok([i \in DOMAIN results |-> results[i].value])
    BY <1>1 DEF Collect
  <1>3. QED
    BY <1>1, <1>2

\* Results that all succeeded are collected.
LEMMA CollectAll ==
    ASSUME NEW results, \A i \in DOMAIN results : results[i].ok
    PROVE  Collect(results) = Ok([i \in DOMAIN results |-> results[i].value])
  <1>1. {i \in DOMAIN results : ~results[i].ok} = {}
    OBVIOUS
  <1>2. QED
    BY <1>1 DEF Collect

-------------------------------------------------------------------------------
(* The mask *)

\* The mask is padded to whole words.
LEMMA MaskSizeIs ==
    ASSUME NEW n \in Nat
    PROVE  MaskSize(n) \in Nat /\ MaskSize(n) >= n
  <1> DEFINE b == MaskBits
             m == n + b - 1
             q == m \div b
  <1>1. b \in Nat \ {0}
    BY MaskAssumption
  <1> HIDE DEF b
  <1>2. m \in Nat
    BY <1>1
  <1> HIDE DEF m
  <1>3. q \in Nat /\ m = b * q + (m % b) /\ m % b \in 0..b - 1
    BY <1>1, <1>2
  <1> HIDE DEF q
  <1>4. q * b = b * q /\ q * b \in Nat
    BY <1>1, <1>3
  <1>5. q * b >= n
    BY <1>1, <1>3, <1>4 DEF m
  <1>6. MaskSize(n) = q * b
    BY DEF MaskSize, q, m, b
  <1>7. QED
    BY <1>4, <1>5, <1>6

\* A bit for each value, and none when nothing is NULL.
LEMMA MaskIs ==
    ASSUME NEW S, NEW column \in Seq(S)
    PROVE  LET m == Mask(column)
               n == Len(column)
           IN /\ (m = NoMask) = (\A i \in 1..n : ~IsNull(column[i]))
              /\ m # NoMask =>
                    /\ Len(m) = MaskSize(n) /\ m \in Seq({0, 1}) /\ DOMAIN m = 1..MaskSize(n)
                    /\ \A i \in 1..MaskSize(n) : (m[i] = 1) = (i <= n /\ ~IsNull(column[i]))
  <1> DEFINE n == Len(column)
             all == \A i \in 1..n : ~IsNull(column[i])
             bits == [i \in 1..MaskSize(n) |-> IF i <= n /\ ~IsNull(column[i]) THEN 1 ELSE 0]
  <1>1. n \in Nat /\ DOMAIN column = 1..n /\ MaskSize(n) \in Nat /\ MaskSize(n) >= n
    BY MaskSizeIs
  <1>2. CASE all
    <2>1. Mask(column) = NoMask
      BY <1>1, <1>2 DEF Mask
    <2>2. QED
      BY <1>2, <2>1
  <1>3. CASE ~all
    <2>1. Mask(column) = bits
      BY <1>1, <1>3 DEF Mask
    <2>2. bits \in Seq({0, 1}) /\ Len(bits) = MaskSize(n)
      BY <1>1
    <2>3. 1 \in 1..MaskSize(n)
      BY <1>1, <1>3
    <2>4. bits[1] \in {0, 1} /\ NoMask[1] = -1
      BY <2>3 DEF NoMask
    <2>5. ASSUME bits = NoMask PROVE FALSE
      <3> HIDE DEF bits
      <3>1. QED
        BY <2>4, <2>5
    <2>6. \A i \in 1..MaskSize(n) : (bits[i] = 1) = (i <= n /\ ~IsNull(column[i]))
      OBVIOUS
    <2>7. DOMAIN bits = 1..MaskSize(n)
      OBVIOUS
    <2> HIDE DEF bits
    <2>8. (Mask(column) = NoMask) = all
      BY <1>3, <2>1, <2>5
    <2>9. QED
      BY <2>1, <2>2, <2>6, <2>7, <2>8
  <1>4. QED
    BY <1>2, <1>3

\* So a value is valid when it is not NULL, also to a reader of more values.
LEMMA ValidIs ==
    ASSUME NEW S, NEW column \in Seq(S), NEW vector, vector.mask = Mask(column),
           NEW i \in 1..Len(column)
    PROVE  IsValid(vector, i) = ~IsNull(column[i])
  <1> DEFINE m == Mask(column)
             n == Len(column)
  <1>1. /\ (m = NoMask) = (\A k \in 1..n : ~IsNull(column[k]))
        /\ m # NoMask => \A k \in 1..MaskSize(n) : (m[k] = 1) = (k <= n /\ ~IsNull(column[k]))
    BY MaskIs
  <1>2. n \in Nat /\ i \in 1..MaskSize(n) /\ i <= n
    <2>1. n \in Nat /\ i \in 1..n
      OBVIOUS
    <2> HIDE DEF n
    <2>2. MaskSize(n) \in Nat /\ MaskSize(n) >= n
      BY <2>1, MaskSizeIs
    <2>3. QED
      BY <2>1, <2>2
  <1> HIDE DEF m, n
  <1>3. vector.mask = m
    BY DEF m
  <1>4. CASE m = NoMask
    <2>1. ~IsNull(column[i])
      BY <1>1, <1>4 DEF n
    <2>2. QED
      BY <1>3, <1>4, <2>1 DEF IsValid
  <1>5. CASE m # NoMask
    <2>1. (m[i] = 1) = ~IsNull(column[i])
      BY <1>1, <1>2, <1>5
    <2>2. QED
      BY <1>3, <1>5, <2>1 DEF IsValid
  <1>6. QED
    BY <1>4, <1>5

-------------------------------------------------------------------------------
(* Flat vectors *)

\* What a flat vector says, when it is read.
LEMMA FlatSays ==
    ASSUME NEW vector, vector.form = "flat", NEW t, NEW count, NEW inner
    PROVE  LET d == DecodedOf(vector, t, count, inner)
               f == DecodedFlat(vector, t, count, inner)
           IN /\ d.ok => /\ Physical(t).kind # "none" /\ LengthsAgree(vector, t, count) /\ f.ok
                         /\ ~(vector.mask # NoMask /\ Len(f.value) > count)
              /\ /\ Physical(t).kind # "none" /\ LengthsAgree(vector, t, count) /\ f.ok
                 /\ ~(vector.mask # NoMask /\ Len(f.value) > count)
                 => d = Ok([i \in DOMAIN f.value |-> IF IsValid(vector, i) THEN f.value[i] ELSE Null])
  <1> DEFINE d == DecodedOf(vector, t, count, inner)
             f == DecodedFlat(vector, t, count, inner)
             none == Physical(t).kind = "none"
             agree == LengthsAgree(vector, t, count)
             short == ~(vector.mask # NoMask /\ Len(f.value) > count)
             out == [i \in DOMAIN f.value |-> IF IsValid(vector, i) THEN f.value[i] ELSE Null]
  <1>1. d = IF none THEN Fail("unsupported") ELSE IF ~agree THEN Fail("length")
            ELSE IF f.ok THEN Masked(f.value, vector, count) ELSE f
    BY DEF DecodedOf
  <1>2. Masked(f.value, vector, count) = IF ~short THEN Fail("panic") ELSE Ok(out)
    BY DEF Masked
  <1>3. \A e : ~Fail(e).ok
    BY DEF Fail
  <1> HIDE DEF d, f, none, agree, short, out
  <1>4. d.ok => ~none /\ agree /\ f.ok /\ short
    BY <1>1, <1>2, <1>3
  <1>5. ~none /\ agree /\ f.ok /\ short => d = Ok(out)
    BY <1>1, <1>2
  <1>6. QED
    BY <1>4, <1>5 DEF d, f, none, agree, short, out

\* A column has at least what another is to hold, in place.
Placed(out, column, t) ==
    /\ \E S : out \in Seq(S)
    /\ Len(out) >= Len(column)
    /\ \A i \in 1..Len(column) : Held(column[i], t).ok => out[i] = Held(column[i], t).value

AllHeld(column, t) == \A i \in 1..Len(column) : Held(column[i], t).ok

\* What is decoded of a column that was encoded is in place, also for too many rows.
Keeps(column, t, count) ==
    LET e == Encoded(column, t)
        d == Decoded(e.value, t, count)
    IN e.ok /\ count >= Len(column) /\ d.ok => d = Ok(d.value) /\ Placed(d.value, column, t)

\* A column that its type can hold is encoded and decoded.
Returns(column, t) ==
    LET e == Encoded(column, t)
        d == Decoded(e.value, t, Len(column))
    IN Supported(t) /\ AllHeld(column, t) => e.ok /\ d.ok /\ Len(d.value) = Len(column)

\* What a column holds for a value: a NULL for a NULL.
LEMMA HeldIs ==
    ASSUME NEW T, NEW Depth, NEW V, CodecsDefined(T, Depth, V), NEW t \in T, NEW v \in V
    PROVE  /\ \E inner : Held(v, t) = HeldOf(v, t, inner)
           /\ IsNull(v) => v = Null /\ Held(v, t) = Ok(Null)
  <1> DEFINE inside == InnerValues(v, t)
             inner == [k \in DOMAIN inside |-> Held(inside[k].value, inside[k].type)]
  <1>1. Held(v, t) = HeldOf(v, t, inner)
    BY DEF CodecsDefined, ValuesMadeAsDefined
  <1>2. ValuesNested(V)
    BY DEF CodecsDefined
  <1> HIDE DEF inner
  <1>3. IsNull(v) => v = Null
    BY <1>2, ValueIs DEF IsNull
  <1>4. IsNull(v) => HeldOf(v, t, inner) = Ok(Null)
    BY DEF HeldOf
  <1>5. QED
    BY <1>1, <1>3, <1>4

\* What a column of words holds for a value is what the value's word says.
LEMMA HeldByWord ==
    ASSUME NEW T, NEW Depth, NEW V, CodecsDefined(T, Depth, V), NEW t \in T, NEW v \in V,
           Physical(t).kind \in FixedKinds, ~IsNull(v), Held(v, t).ok
    PROVE  WordGives(v, t, Held(v, t).value)
  <1>1. PICK inner : Held(v, t) = HeldOf(v, t, inner)
    BY HeldIs
  <1>2. QED
    BY <1>1, FixedReturns DEF CodecsDefined

\* NULLs need no place of their own.
LEMMA MaskedPlaced ==
    ASSUME NEW T, NEW Depth, NEW V, CodecsDefined(T, Depth, V), NEW t \in T, NEW column \in Seq(V),
           NEW vector, vector.mask = Mask(column), NEW S, NEW f \in Seq(S), Len(f) >= Len(column),
           \A i \in 1..Len(column) : ~IsNull(column[i]) /\ Held(column[i], t).ok
                                         => f[i] = Held(column[i], t).value
    PROVE  Placed([i \in DOMAIN f |-> IF IsValid(vector, i) THEN f[i] ELSE Null], column, t)
  <1> DEFINE out == [i \in DOMAIN f |-> IF IsValid(vector, i) THEN f[i] ELSE Null]
  <1>1. DOMAIN f = 1..Len(f) /\ Len(f) \in Nat /\ Len(column) \in Nat
    OBVIOUS
  <1>2. out \in Seq(S \cup {Null}) /\ Len(out) = Len(f)
    <2>1. \A i \in 1..Len(f) : f[i] \in S
      OBVIOUS
    <2>2. QED
      BY <1>1, <2>1
  <1>3. ASSUME NEW i \in 1..Len(column), Held(column[i], t).ok
        PROVE  out[i] = Held(column[i], t).value
    <2>1. i \in DOMAIN f
      BY <1>1
    <2>2. column[i] \in V
      OBVIOUS
    <2>3. IsValid(vector, i) = ~IsNull(column[i])
      BY ValidIs
    <2>4. CASE IsNull(column[i])
      <3>1. out[i] = Null
        BY <2>1, <2>3, <2>4
      <3>2. Held(column[i], t) = Ok(Null)
        BY <2>2, <2>4, HeldIs
      <3>3. QED
        BY <3>1, <3>2 DEF Ok
    <2>5. CASE ~IsNull(column[i])
      <3>1. out[i] = f[i]
        BY <2>1, <2>3, <2>5
      <3>2. QED
        BY <1>3, <2>5, <3>1
    <2>6. QED
      BY <2>4, <2>5
  <1> HIDE DEF out
  <1>4. Len(out) >= Len(column)
    BY <1>2
  <1>5. Placed(out, column, t)
    BY <1>2, <1>3, <1>4 DEF Placed
  <1>6. QED
    BY <1>5 DEF out

-------------------------------------------------------------------------------
(* Columns of words *)

\* A column of words is sent when each of its values has a word.
LEMMA WordsSent ==
    ASSUME NEW T, NEW Depth, NEW V, CodecsDefined(T, Depth, V), NEW t \in T, NEW column \in Seq(V),
           Physical(t).kind \in FixedKinds
    PROVE  LET e == Encoded(column, t)
               n == Len(column)
               vector == [form |-> "flat", mask |-> Mask(column),
                          words |-> [i \in 1..n |-> WordOf(column[i], t).value]]
           IN /\ e.ok => e = Ok(vector)
              /\ (\A i \in 1..n : WordOf(column[i], t).ok) => e = Ok(vector)
  <1> DEFINE e == Encoded(column, t)
             n == Len(column)
             made == [i \in DOMAIN column |-> WordOf(column[i], t)]
             words == [i \in 1..n |-> WordOf(column[i], t).value]
             inside == Inner(column, t)
             vectors == [k \in DOMAIN inside |-> Encoded(inside[k].values, inside[k].type)]
  <1>1. e = EncodedOf(column, t, vectors)
    BY DEF CodecsDefined, VectorsSentAsDefined
  <1>2. DOMAIN column = 1..n /\ n \in Nat /\ DOMAIN made = 1..n /\ DOMAIN made \subseteq Nat
    OBVIOUS
  <1>3. EncodedOf(column, t, vectors) =
           IF Collect(made).ok
           THEN Ok([form |-> "flat", mask |-> Mask(column), words |-> Collect(made).value])
           ELSE Collect(made)
    <2> HIDE DEF vectors
    <2>1. Physical(t).kind \notin {"text", "struct", "list", "array", "none"}
      BY DEF FixedKinds
    <2>2. QED
      BY <2>1, Zenon DEF EncodedOf
  <1> HIDE DEF vectors
  <1>4. [i \in DOMAIN made |-> made[i].value] = words
    BY <1>2
  <1>5. (\A i \in 1..n : WordOf(column[i], t).ok) => Collect(made) = Ok(words)
    <2>1. ASSUME \A i \in 1..n : WordOf(column[i], t).ok
          PROVE  \A i \in DOMAIN made : made[i].ok
      BY <1>2, <2>1
    <2> HIDE DEF made, words
    <2>2. QED
      BY <1>4, <2>1, CollectAll
  <1> HIDE DEF made, words
  <1>6. Collect(made).ok => Collect(made) = Ok(words)
    BY <1>2, <1>4, CollectOk
  <1>7. e.ok => Collect(made).ok
    BY <1>1, <1>3
  <1>8. Collect(made) = Ok(words) => e = Ok([form |-> "flat", mask |-> Mask(column), words |-> words])
    BY <1>1, <1>3 DEF Ok
  <1> HIDE DEF e
  <1>9. e.ok => e = Ok([form |-> "flat", mask |-> Mask(column), words |-> words])
    BY <1>6, <1>7, <1>8
  <1>10. QED
    BY <1>5, <1>8, <1>9 DEF e, words

\* Every word is read, and a word for each row.
LEMMA WordsRead ==
    ASSUME NEW T, NEW Depth, NEW V, CodecsDefined(T, Depth, V), NEW t \in T,
           Physical(t).kind \in FixedKinds, NEW vector, vector.form = "flat", NEW count \in Nat
    PROVE  LET d == Decoded(vector, t, count)
               read == [i \in 1..count |-> FromWord(vector.words[i], t).value]
               out == [i \in DOMAIN read |-> IF IsValid(vector, i) THEN read[i] ELSE Null]
           IN /\ d.ok => LengthsAgree(vector, t, count) /\ d = Ok(out)
              /\ LengthsAgree(vector, t, count) /\ (\A i \in 1..count : FromWord(vector.words[i], t).ok)
                    => d = Ok(out)
  <1> DEFINE d == Decoded(vector, t, count)
             read == [i \in 1..count |-> FromWord(vector.words[i], t).value]
             out == [i \in DOMAIN read |-> IF IsValid(vector, i) THEN read[i] ELSE Null]
             made == [i \in 1..count |-> FromWord(vector.words[i], t)]
             inside == InnerVectors(vector, t, count)
             inner == [k \in DOMAIN inside |->
                          Decoded(inside[k].vector, inside[k].type, inside[k].count)]
             f == DecodedFlat(vector, t, count, inner)
             agree == LengthsAgree(vector, t, count)
  <1>1. d = DecodedOf(vector, t, count, inner)
    BY DEF CodecsDefined, VectorsReadAsDefined
  <1> HIDE DEF inner
  <1>2. f = Collect(made)
    <2>1. Physical(t).kind \notin {"text", "struct", "list", "array", "none"}
      BY DEF FixedKinds
    <2>2. QED
      BY <2>1 DEF DecodedFlat
  <1>3. Physical(t).kind # "none"
    BY DEF FixedKinds
  <1>4. DOMAIN made = 1..count /\ [i \in DOMAIN made |-> made[i].value] = read
    OBVIOUS
  <1>5. (\A i \in 1..count : FromWord(vector.words[i], t).ok) => f = Ok(read)
    <2>1. ASSUME \A i \in 1..count : FromWord(vector.words[i], t).ok
          PROVE  \A i \in DOMAIN made : made[i].ok
      BY <2>1
    <2> HIDE DEF made, read, f
    <2>2. QED
      BY <1>2, <1>4, <2>1, CollectAll
  <1>6. f.ok => f = Ok(read)
    <2> HIDE DEF made, read, f
    <2>1. QED
      BY <1>2, <1>4, CollectOk
  <1>7. Len(read) = count /\ DOMAIN read = 1..count
    OBVIOUS
  <1> HIDE DEF d, f, made, agree, read
  <1>8. d.ok => agree /\ f.ok
    BY <1>1, FlatSays DEF agree, f
  <1>9. agree /\ f = Ok(read) => d = Ok(out)
    <2>1. ASSUME agree, f = Ok(read) PROVE d = Ok(out)
      <3>1. f.value = read /\ f.ok
        BY <2>1 DEF Ok
      <3>2. ~(vector.mask # NoMask /\ Len(f.value) > count)
        BY <1>7, <3>1
      <3>3. d = Ok([i \in DOMAIN f.value |-> IF IsValid(vector, i) THEN f.value[i] ELSE Null])
        BY <1>1, <1>3, <2>1, <3>1, <3>2, FlatSays DEF agree, f
      <3>4. QED
        BY <3>1, <3>3
    <2>2. QED
      BY <2>1
  <1> HIDE DEF out
  <1>10. QED
    BY <1>5, <1>6, <1>8, <1>9 DEF d, agree, out, read

\* The reader of as many rows as there are values finds the lengths right.
LEMMA LengthsOfOwn ==
    ASSUME NEW S, NEW column \in Seq(S), NEW vector, vector.mask = Mask(column), NEW t,
           Physical(t).kind \in FixedKinds => Len(vector.words) = Len(column),
           Physical(t).kind = "list" => Len(vector.entries) = Len(column),
           Physical(t).kind = "array" => vector.size = t.info.size,
           Physical(t).kind = "struct" => Len(vector.vectors) <= Len(Names(t))
    PROVE  LengthsAgree(vector, t, Len(column))
  <1>1. vector.mask # NoMask => Len(vector.mask) = MaskSize(Len(column))
    BY MaskIs
  <1>2. QED
    BY <1>1 DEF LengthsAgree

\* What is sent of a column of words holds every value in its row.
LEMMA WordsKeep ==
    ASSUME NEW T, NEW Depth, NEW V, CodecsDefined(T, Depth, V), NEW t \in T,
           Physical(t).kind \in FixedKinds, NEW column \in Seq(V), NEW count \in Nat
    PROVE  Keeps(column, t, count)
  <1> DEFINE e == Encoded(column, t)
             n == Len(column)
             d == Decoded(e.value, t, count)
             words == [i \in 1..n |-> WordOf(column[i], t).value]
             vector == [form |-> "flat", mask |-> Mask(column), words |-> words]
  <1> SUFFICES ASSUME e.ok, count >= n, d.ok PROVE d = Ok(d.value) /\ Placed(d.value, column, t)
    BY DEF Keeps
  <1>1. e = Ok(vector)
    BY WordsSent
  <1>2. e.value = vector
    BY <1>1 DEF Ok
  <1> DEFINE read == [i \in 1..count |-> FromWord(vector.words[i], t).value]
             out == [i \in DOMAIN read |-> IF IsValid(vector, i) THEN read[i] ELSE Null]
  <1>3. /\ vector.form = "flat" /\ vector.mask = Mask(column) /\ vector.words = words
        /\ n \in Nat /\ Len(words) = n /\ DOMAIN read = 1..count /\ Len(read) = count
    OBVIOUS
  <1> HIDE DEF e, vector, words
  <1>4. LengthsAgree(vector, t, count) /\ Decoded(vector, t, count) = Ok(out)
    <2>1. Decoded(vector, t, count).ok
      BY <1>2
    <2> HIDE DEF read
    <2>2. LengthsAgree(vector, t, count)
      BY <1>3, <2>1, WordsRead
    <2>3. Decoded(vector, t, count) = Ok(out)
      BY <1>3, <2>1, WordsRead DEF read
    <2>4. QED
      BY <2>2, <2>3
  <1>5. count = n
    BY <1>3, <1>4 DEF LengthsAgree
  <1>6. \E S : read \in Seq(S)
    <2>1. read \in Seq({read[i] : i \in 1..count})
      BY <1>3
    <2>2. QED
      BY <2>1
  <1>7. ASSUME NEW i \in 1..n, ~IsNull(column[i]), Held(column[i], t).ok
        PROVE  read[i] = Held(column[i], t).value
    <2>1. column[i] \in V
      OBVIOUS
    <2>2. WordGives(column[i], t, Held(column[i], t).value)
      BY <1>7, <2>1, HeldByWord
    <2>3. FromWord(words[i], t) = Ok(Held(column[i], t).value)
      BY <2>2 DEF WordGives, words
    <2>4. read[i] = FromWord(words[i], t).value
      BY <1>3, <1>5
    <2>5. QED
      BY <2>3, <2>4 DEF Ok
  <1> HIDE DEF read
  <1>8. Placed(out, column, t)
    BY <1>3, <1>5, <1>6, <1>7, MaskedPlaced
  <1>9. d = Ok(out)
    BY <1>2, <1>4
  <1> HIDE DEF d, out
  <1>10. QED
    BY <1>8, <1>9 DEF Ok

\* What a column's type must have, and all the types inside it too.
LEMMA SupportedIs ==
    ASSUME NEW T, NEW Depth, NEW V, CodecsDefined(T, Depth, V), NEW t \in T, Supported(t)
    PROVE  /\ Physical(t).kind # "none"
           /\ t.id = "ENUM" => t.info.texts # <<>>
           /\ t.info.kind # "INTEGER_LITERAL"
           /\ \A k \in DOMAIN TypesInside(t) : Supported(TypesInside(t)[k])
  <1>1. SupportedOf(t, [k \in DOMAIN TypesInside(t) |-> Supported(TypesInside(t)[k])])
    BY DEF CodecsDefined, TypesSentAsDefined
  <1>2. QED
    BY <1>1 DEF SupportedOf

\* The words that may stand for a column: what is NULL has any word that can be read.
WordsFor(words, column, t) ==
    /\ Len(words) = Len(column)
    /\ \A i \in 1..Len(column) :
          IF IsNull(column[i]) THEN FromWord(words[i], t).ok
          ELSE FromWord(words[i], t) = Ok(Held(column[i], t).value)

\* Whatever stands in the words of NULLs, the column is read.
LEMMA WordsForAreRead ==
    ASSUME NEW T, NEW Depth, NEW V, CodecsDefined(T, Depth, V), NEW t \in T,
           Physical(t).kind \in FixedKinds, NEW column \in Seq(V), NEW vector,
           vector.form = "flat", vector.mask = Mask(column), WordsFor(vector.words, column, t)
    PROVE  Decoded(vector, t, Len(column)).ok /\ Len(Decoded(vector, t, Len(column)).value) = Len(column)
  <1> DEFINE n == Len(column)
             read == [i \in 1..n |-> FromWord(vector.words[i], t).value]
             out == [i \in DOMAIN read |-> IF IsValid(vector, i) THEN read[i] ELSE Null]
  <1>1. n \in Nat
    OBVIOUS
  <1>2. ASSUME NEW i \in 1..n PROVE FromWord(vector.words[i], t).ok
    <2>1. IF IsNull(column[i]) THEN FromWord(vector.words[i], t).ok
          ELSE FromWord(vector.words[i], t) = Ok(Held(column[i], t).value)
      BY DEF WordsFor
    <2>2. QED
      BY <2>1 DEF Ok
  <1>3. LengthsAgree(vector, t, n)
    <2>1. Len(vector.words) = Len(column) /\ Physical(t).kind \notin {"list", "array", "struct"}
      BY DEF WordsFor, FixedKinds
    <2>2. QED
      BY <2>1, LengthsOfOwn
  <1>4. Decoded(vector, t, n) = Ok(out)
    BY <1>1, <1>2, <1>3, WordsRead
  <1>5. Len(out) = n
    BY <1>1
  <1> HIDE DEF out
  <1>6. QED
    BY <1>4, <1>5 DEF Ok

\* A column of words whose type can hold it is sent and read.
LEMMA WordsReturn ==
    ASSUME NEW T, NEW Depth, NEW V, CodecsDefined(T, Depth, V), NEW t \in T,
           Physical(t).kind \in FixedKinds, NEW column \in Seq(V)
    PROVE  Returns(column, t)
  <1> DEFINE e == Encoded(column, t)
             n == Len(column)
             d == Decoded(e.value, t, n)
             words == [i \in 1..n |-> WordOf(column[i], t).value]
             vector == [form |-> "flat", mask |-> Mask(column), words |-> words]
  <1> SUFFICES ASSUME Supported(t), AllHeld(column, t) PROVE e.ok /\ d.ok /\ Len(d.value) = n
    BY DEF Returns
  <1>1. ASSUME NEW i \in 1..n
        PROVE  /\ WordOf(column[i], t).ok
               /\ IF IsNull(column[i]) THEN FromWord(words[i], t).ok
                  ELSE FromWord(words[i], t) = Ok(Held(column[i], t).value)
    <2>1. column[i] \in V /\ words[i] = WordOf(column[i], t).value
      OBVIOUS
    <2>2. CASE IsNull(column[i])
      <3>1. t.id = "ENUM" => t.info.texts # <<>>
        BY SupportedIs
      <3>2. /\ WordOf(column[i], t) = Ok(WordOf(column[i], t).value)
            /\ FromWord(WordOf(column[i], t).value, t).ok
        BY <2>2, <3>1, NullReturns DEF CodecsDefined
      <3>3. QED
        BY <2>1, <2>2, <3>2 DEF Ok
    <2>3. CASE ~IsNull(column[i])
      <3>1. Held(column[i], t).ok
        BY DEF AllHeld
      <3>2. WordGives(column[i], t, Held(column[i], t).value)
        BY <2>1, <2>3, <3>1, HeldByWord
      <3>3. QED
        BY <2>1, <2>3, <3>2 DEF WordGives, Ok
    <2>4. QED
      BY <2>2, <2>3
  <1>2. e = Ok(vector)
    BY <1>1, WordsSent
  <1>3. vector.form = "flat" /\ vector.mask = Mask(column) /\ vector.words = words /\ Len(words) = n
    OBVIOUS
  <1> HIDE DEF vector, words
  <1>4. WordsFor(vector.words, column, t)
    BY <1>1, <1>3 DEF WordsFor
  <1>5. Decoded(vector, t, n).ok /\ Len(Decoded(vector, t, n).value) = n
    BY <1>3, <1>4, WordsForAreRead
  <1>6. QED
    BY <1>2, <1>5 DEF Ok

-------------------------------------------------------------------------------
(* Columns of texts *)

\* A column of texts, which is always sent.
LEMMA TextsSent ==
    ASSUME NEW T, NEW Depth, NEW V, CodecsDefined(T, Depth, V), NEW t \in T, NEW column \in Seq(V),
           Physical(t).kind = "text"
    PROVE  Encoded(column, t) = Ok([form |-> "flat", mask |-> Mask(column),
                                    texts |-> [i \in 1..Len(column) |-> Text(column[i])]])
  <1> DEFINE e == Encoded(column, t)
             inside == Inner(column, t)
             vectors == [k \in DOMAIN inside |-> Encoded(inside[k].values, inside[k].type)]
  <1>1. e = EncodedOf(column, t, vectors)
    BY DEF CodecsDefined, VectorsSentAsDefined
  <1> HIDE DEF vectors
  <1>2. EncodedOf(column, t, vectors) =
           Ok([form |-> "flat", mask |-> Mask(column),
               texts |-> [i \in DOMAIN column |-> Text(column[i])]])
    BY Zenon DEF EncodedOf, FixedKinds
  <1>3. DOMAIN column = 1..Len(column)
    OBVIOUS
  <1>4. QED
    BY <1>1, <1>2, <1>3

\* A text is read as it is, and checked where there is a row that is not NULL.
TextRead(text, t) == IF t.id \in BytesIds THEN [bytes |-> text] ELSE [text |-> text]

\* How many texts there are is not counted when there is no mask (vector.rs:409-447).
LEMMA TextsRead ==
    ASSUME NEW T, NEW Depth, NEW V, CodecsDefined(T, Depth, V), NEW t \in T,
           Physical(t).kind = "text", NEW vector, vector.form = "flat", NEW count \in Nat
    PROVE  LET d == Decoded(vector, t, count)
               read == [i \in DOMAIN vector.texts |-> TextRead(vector.texts[i], t)]
               out == [i \in DOMAIN read |-> IF IsValid(vector, i) THEN read[i] ELSE Null]
               short == ~(vector.mask # NoMask /\ Len(read) > count)
           IN /\ d.ok => LengthsAgree(vector, t, count) /\ short /\ d = Ok(out)
              /\ /\ LengthsAgree(vector, t, count) /\ short
                 /\ \/ t.id \in BytesIds
                    \/ \A i \in 1..count : IsValid(vector, i) /\ i \in DOMAIN vector.texts
                                              => vector.texts[i] \notin NotUtf8
                 => d = Ok(out)
  <1> DEFINE d == Decoded(vector, t, count)
             read == [i \in DOMAIN vector.texts |-> TextRead(vector.texts[i], t)]
             out == [i \in DOMAIN read |-> IF IsValid(vector, i) THEN read[i] ELSE Null]
             short == ~(vector.mask # NoMask /\ Len(read) > count)
             inside == InnerVectors(vector, t, count)
             inner == [k \in DOMAIN inside |->
                          Decoded(inside[k].vector, inside[k].type, inside[k].count)]
             f == DecodedFlat(vector, t, count, inner)
             agree == LengthsAgree(vector, t, count)
             wrong == /\ t.id \notin BytesIds
                      /\ \E i \in {j \in 1..count : IsValid(vector, j)} \cap DOMAIN vector.texts :
                            vector.texts[i] \in NotUtf8
  <1>1. d = DecodedOf(vector, t, count, inner)
    BY DEF CodecsDefined, VectorsReadAsDefined
  <1> HIDE DEF inner
  <1>2. f = IF wrong THEN Fail("not UTF-8") ELSE Ok(read)
    <2>1. CASE t.id \in BytesIds
      <3>1. read = [i \in DOMAIN vector.texts |-> [bytes |-> vector.texts[i]]]
        BY <2>1 DEF TextRead
      <3>2. f = Ok([i \in DOMAIN vector.texts |-> [bytes |-> vector.texts[i]]])
        BY <2>1 DEF DecodedFlat, FixedKinds
      <3> HIDE DEF read, f
      <3>3. QED
        BY <2>1, <3>1, <3>2
    <2>2. CASE t.id \notin BytesIds
      <3>1. read = [i \in DOMAIN vector.texts |-> [text |-> vector.texts[i]]]
        BY <2>2 DEF TextRead
      <3>2. f = IF wrong THEN Fail("not UTF-8")
                ELSE Ok([i \in DOMAIN vector.texts |-> [text |-> vector.texts[i]]])
        BY <2>2 DEF DecodedFlat, FixedKinds
      <3> HIDE DEF read, f
      <3>3. QED
        BY <3>1, <3>2
    <2>3. QED
      BY <2>1, <2>2
  <1> HIDE DEF d, f, agree, read
  <1>3. f.ok => f = Ok(read) /\ ~wrong
    BY <1>2 DEF Fail
  <1>4. ~wrong => f = Ok(read)
    BY <1>2
  <1>5. f = Ok(read) => f.value = read /\ f.ok
    BY DEF Ok
  <1>6. d.ok => agree /\ f.ok /\ ~(vector.mask # NoMask /\ Len(f.value) > count)
    BY <1>1, FlatSays DEF agree, f
  <1>7. agree /\ f.ok /\ ~(vector.mask # NoMask /\ Len(f.value) > count)
           => d = Ok([i \in DOMAIN f.value |-> IF IsValid(vector, i) THEN f.value[i] ELSE Null])
    BY <1>1, FlatSays DEF agree, f
  <1>8. agree /\ short /\ f = Ok(read) => d = Ok(out)
    BY <1>5, <1>7
  <1> HIDE DEF out, short
  <1>9. d.ok => agree /\ short /\ d = Ok(out)
    <2>1. f.ok => f.value = read
      BY <1>3, <1>5
    <2>2. d.ok => short
      BY <1>6, <2>1 DEF short
    <2>3. QED
      BY <1>3, <1>6, <1>8, <2>2
  <1>10. /\ agree /\ short
         /\ \/ t.id \in BytesIds
            \/ \A i \in 1..count : IsValid(vector, i) /\ i \in DOMAIN vector.texts
                                      => vector.texts[i] \notin NotUtf8
         => d = Ok(out)
    <2> SUFFICES ASSUME agree, short,
                        \/ t.id \in BytesIds
                        \/ \A i \in 1..count : IsValid(vector, i) /\ i \in DOMAIN vector.texts
                                                  => vector.texts[i] \notin NotUtf8
                 PROVE  d = Ok(out)
      OBVIOUS
    <2>1. ~wrong
      OBVIOUS
    <2>2. QED
      BY <1>4, <1>8, <2>1
  <1>11. QED
    BY <1>9, <1>10 DEF d, agree, out, read, short

\* What a column of texts holds is a text, or bytes, and is read as such.
LEMMA TextHeld ==
    ASSUME NEW T, NEW Depth, NEW V, CodecsDefined(T, Depth, V), NEW t \in T, NEW v \in V,
           Physical(t).kind = "text", ~IsNull(v), Held(v, t).ok
    PROVE  /\ TextRead(Text(v), t) = Held(v, t).value
           /\ t.id \in BytesIds \/ Text(v) \notin NotUtf8
  <1>1. ValuesNested(V) /\ TypesNested(T, Depth)
    BY DEF CodecsDefined
  <1>2. t.id \in TextIds \cup BytesIds
    BY <1>1, KindIs
  <1>3. t.id \notin MadeIds /\ t.id \notin NestedIds
    BY <1>2 DEF TextIds, BytesIds, MadeIds, IntegerIds, NestedIds, StructIds, ListIds
  <1>4. PICK inner : Held(v, t) = HeldOf(v, t, inner)
    BY HeldIs
  <1>5. IdOf(v) = t.id /\ Held(v, t) = Ok(v)
    BY <1>3, <1>4, OwnHeld
  <1>6. Held(v, t).value = v
    BY <1>5 DEF Ok
  <1>7. t.id \in {"VARCHAR", "BLOB"}
    BY <1>1, <1>2, <1>5, IdIs DEF TextIds, BytesIds
  <1>8. CASE t.id = "VARCHAR"
    <2>1. Is(v, "text")
      BY <1>1, <1>5, <1>8, IdIs
    <2>2. v = [text |-> v.text] /\ v.text \notin NotUtf8 /\ DOMAIN v = {"text"}
      BY <1>1, <2>1, ValueIs
    <2>3. Text(v) = v.text
      BY <2>2 DEF Text, Is
    <2>4. QED
      BY <1>6, <1>8, <2>2, <2>3 DEF TextRead, BytesIds
  <1>9. CASE t.id = "BLOB"
    <2>1. Is(v, "bytes")
      BY <1>1, <1>5, <1>9, IdIs
    <2>2. v = [bytes |-> v.bytes] /\ DOMAIN v = {"bytes"}
      BY <1>1, <2>1, ValueIs
    <2>3. Text(v) = v.bytes
      BY <2>2 DEF Text, Is
    <2>4. QED
      BY <1>6, <1>9, <2>2, <2>3 DEF TextRead, BytesIds
  <1>10. QED
    BY <1>7, <1>8, <1>9

\* The texts that are there are in place, however many there are.
LEMMA TextPlaced ==
    ASSUME NEW T, NEW Depth, NEW V, CodecsDefined(T, Depth, V), NEW t \in T, NEW column \in Seq(V),
           Physical(t).kind = "text", NEW vector, vector.form = "flat", vector.mask = Mask(column),
           NEW S, vector.texts \in Seq(S), NEW count \in Nat, Decoded(vector, t, count).ok
    PROVE  LET d == Decoded(vector, t, count)
           IN /\ d = Ok(d.value) /\ (\E U : d.value \in Seq(U)) /\ Len(d.value) = Len(vector.texts)
              /\ \A i \in 1..Len(column) :
                    i <= Len(vector.texts) /\ vector.texts[i] = Text(column[i]) /\ Held(column[i], t).ok
                       => d.value[i] = Held(column[i], t).value
  <1> DEFINE d == Decoded(vector, t, count)
             m == Len(vector.texts)
             read == [i \in DOMAIN vector.texts |-> TextRead(vector.texts[i], t)]
             out == [i \in DOMAIN read |-> IF IsValid(vector, i) THEN read[i] ELSE Null]
  <1>1. d = Ok(out)
    BY TextsRead
  <1>2. m \in Nat /\ DOMAIN vector.texts = 1..m /\ DOMAIN read = 1..m /\ DOMAIN out = 1..m
    OBVIOUS
  <1>3. out \in Seq({out[i] : i \in 1..m}) /\ Len(out) = m
    <2>1. out = [i \in 1..m |-> out[i]]
      BY <1>2
    <2> HIDE DEF out
    <2>2. QED
      BY <1>2, <2>1
  <1>4. ASSUME NEW i \in 1..Len(column), i <= m, vector.texts[i] = Text(column[i]),
               Held(column[i], t).ok
        PROVE  out[i] = Held(column[i], t).value
    <2>1. i \in DOMAIN read /\ column[i] \in V
      BY <1>2, <1>4
    <2>2. IsValid(vector, i) = ~IsNull(column[i])
      BY ValidIs
    <2>3. CASE IsNull(column[i])
      <3>1. out[i] = Null
        BY <2>1, <2>2, <2>3
      <3>2. Held(column[i], t) = Ok(Null)
        BY <2>1, <2>3, HeldIs
      <3>3. QED
        BY <3>1, <3>2 DEF Ok
    <2>4. CASE ~IsNull(column[i])
      <3>1. out[i] = read[i] /\ read[i] = TextRead(vector.texts[i], t)
        BY <1>2, <2>1, <2>2, <2>4
      <3>2. TextRead(Text(column[i]), t) = Held(column[i], t).value
        BY <1>4, <2>1, <2>4, TextHeld
      <3>3. QED
        BY <1>4, <3>1, <3>2
    <2>5. QED
      BY <2>3, <2>4
  <1> HIDE DEF d, out, m
  <1>5. d.value = out
    BY <1>1 DEF Ok
  <1>6. QED
    BY <1>1, <1>3, <1>4, <1>5 DEF d, m

\* What is sent of a column of texts holds every text in its row.
LEMMA TextsKeep ==
    ASSUME NEW T, NEW Depth, NEW V, CodecsDefined(T, Depth, V), NEW t \in T,
           Physical(t).kind = "text", NEW column \in Seq(V), NEW count \in Nat
    PROVE  Keeps(column, t, count)
  <1> DEFINE e == Encoded(column, t)
             n == Len(column)
             d == Decoded(e.value, t, count)
             texts == [i \in 1..n |-> Text(column[i])]
             vector == [form |-> "flat", mask |-> Mask(column), texts |-> texts]
  <1> SUFFICES ASSUME e.ok, count >= n, d.ok PROVE d = Ok(d.value) /\ Placed(d.value, column, t)
    BY DEF Keeps
  <1>1. e = Ok(vector)
    BY TextsSent
  <1>2. e.value = vector
    BY <1>1 DEF Ok
  <1>3. /\ vector.form = "flat" /\ vector.mask = Mask(column) /\ vector.texts = texts
        /\ texts \in Seq({texts[i] : i \in 1..n}) /\ Len(texts) = n /\ n \in Nat
        /\ \A i \in 1..n : texts[i] = Text(column[i])
    OBVIOUS
  <1> HIDE DEF e, vector, texts
  <1>4. Decoded(vector, t, count).ok
    BY <1>2
  <1>5. /\ d = Ok(d.value) /\ (\E U : d.value \in Seq(U)) /\ Len(d.value) = n
        /\ \A i \in 1..n : Held(column[i], t).ok => d.value[i] = Held(column[i], t).value
    <2> DEFINE x == Decoded(vector, t, count)
               S == {texts[i] : i \in 1..n}
    <2>1. vector.form = "flat" /\ vector.mask = Mask(column) /\ vector.texts \in Seq(S)
      BY <1>3
    <2>2. /\ x = Ok(x.value) /\ (\E U : x.value \in Seq(U)) /\ Len(x.value) = Len(vector.texts)
          /\ \A i \in 1..n :
                i <= Len(vector.texts) /\ vector.texts[i] = Text(column[i]) /\ Held(column[i], t).ok
                   => x.value[i] = Held(column[i], t).value
      <3> HIDE DEF S, d
      <3>1. QED
        BY <1>4, <2>1, TextPlaced
    <2>3. x = d
      BY <1>2
    <2> HIDE DEF d, x
    <2>4. QED
      BY <1>3, <2>2, <2>3
  <1> HIDE DEF d
  <1>6. Placed(d.value, column, t)
    BY <1>3, <1>5 DEF Placed
  <1>7. QED
    BY <1>5, <1>6

\* A column of texts whose type can hold it is sent and read.
LEMMA TextsReturn ==
    ASSUME NEW T, NEW Depth, NEW V, CodecsDefined(T, Depth, V), NEW t \in T,
           Physical(t).kind = "text", NEW column \in Seq(V)
    PROVE  Returns(column, t)
  <1> DEFINE e == Encoded(column, t)
             n == Len(column)
             d == Decoded(e.value, t, n)
             texts == [i \in 1..n |-> Text(column[i])]
             vector == [form |-> "flat", mask |-> Mask(column), texts |-> texts]
             read == [i \in DOMAIN vector.texts |-> TextRead(vector.texts[i], t)]
             out == [i \in DOMAIN read |-> IF IsValid(vector, i) THEN read[i] ELSE Null]
  <1> SUFFICES ASSUME Supported(t), AllHeld(column, t) PROVE e.ok /\ d.ok /\ Len(d.value) = n
    BY DEF Returns
  <1>1. e = Ok(vector)
    BY TextsSent
  <1>2. /\ vector.form = "flat" /\ vector.mask = Mask(column) /\ vector.texts = texts
        /\ Len(texts) = n /\ n \in Nat /\ Len(read) = n /\ Len(out) = n
        /\ DOMAIN vector.texts = 1..n
    OBVIOUS
  <1>3. ASSUME t.id \notin BytesIds, NEW i \in 1..n, IsValid(vector, i)
        PROVE  vector.texts[i] \notin NotUtf8
    <2>1. vector.texts[i] = Text(column[i]) /\ column[i] \in V
      OBVIOUS
    <2> HIDE DEF vector, texts
    <2>2. ~IsNull(column[i])
      BY <1>2, <1>3, ValidIs
    <2>3. Held(column[i], t).ok
      BY DEF AllHeld
    <2>4. Text(column[i]) \notin NotUtf8
      BY <1>3, <2>1, <2>2, <2>3, TextHeld
    <2>5. QED
      BY <2>1, <2>4
  <1>4. LengthsAgree(vector, t, n)
    <2>1. Physical(t).kind \notin FixedKinds /\ Physical(t).kind \notin {"list", "array", "struct"}
      BY DEF FixedKinds
    <2> HIDE DEF vector
    <2>2. QED
      BY <1>2, <2>1, LengthsOfOwn
  <1> HIDE DEF vector, texts
  <1>5. Decoded(vector, t, n) = Ok(out)
    <2>1. ~(vector.mask # NoMask /\ Len(read) > n)
      BY <1>2
    <2>2. \/ t.id \in BytesIds
          \/ \A i \in 1..n : IsValid(vector, i) /\ i \in DOMAIN vector.texts
                                => vector.texts[i] \notin NotUtf8
      BY <1>3
    <2>3. QED
      BY <1>2, <1>4, <2>1, <2>2, TextsRead
  <1> HIDE DEF out
  <1>6. QED
    BY <1>1, <1>2, <1>5 DEF Ok

-------------------------------------------------------------------------------
(* Columns of structs *)

FieldIndex(name, t) == CHOOSE k \in DOMAIN Names(t) : Names(t)[k] = name
FieldColumn(column, name) == [i \in 1..Len(column) |-> Child(column[i], name)]

\* The fields of a struct, and their types, which are less deep.
LEMMA NamesAre ==
    ASSUME NEW T, NEW Depth, TypesNested(T, Depth), NEW t \in T
    PROVE  /\ Names(t) \in Seq(STRING)
           /\ \A k \in DOMAIN Names(t) :
                 /\ t.info.kind = "STRUCT" /\ t.info.children[k] \in T
                 /\ Depth[t.info.children[k]] < Depth[t]
                 /\ k \in DOMAIN TypesInside(t) /\ TypesInside(t)[k] = t.info.children[k]
  <1>1. CASE t.info.kind = "STRUCT"
    <2>1. /\ t.info.names \in Seq(STRING) /\ t.info.children \in Seq(T)
          /\ Len(t.info.names) = Len(t.info.children)
          /\ \A k \in DOMAIN t.info.children : Depth[t.info.children[k]] < Depth[t]
      BY <1>1, TypeIs
    <2>2. Names(t) = t.info.names
      BY <1>1 DEF Names
    <2>3. TypesInside(t) = t.info.children
      BY <1>1 DEF TypesInside
    <2>4. DOMAIN t.info.names = DOMAIN t.info.children
      BY <2>1
    <2>5. QED
      BY <1>1, <2>1, <2>2, <2>3, <2>4
  <1>2. CASE t.info.kind # "STRUCT"
    <2>1. Names(t) = <<>>
      BY <1>2 DEF Names
    <2>2. QED
      BY <2>1
  <1>3. QED
    BY <1>1, <1>2

\* A field of a value, and NULL where there is none.
LEMMA ChildIs ==
    ASSUME NEW V, ValuesNested(V), NEW v \in V, NEW name
    PROVE  /\ Null \in V /\ Child(v, name) \in V
           /\ IsNull(v) => Child(v, name) = Null
           /\ IsNull(Null)
  <1>1. Null \in V
    BY DEF ValuesNested, IsValue
  <1>2. CASE Is(v, "struct")
    <2>1. v = [struct |-> v.struct] /\ v.struct \in [DOMAIN v.struct -> V]
      BY <1>2, ValueIs
    <2>2. ~IsNull(v)
      <3>1. DOMAIN v = {"struct"}
        BY <2>1
      <3>2. QED
        BY <3>1 DEF IsNull, Is
    <2>3. QED
      BY <1>1, <2>1, <2>2 DEF Child, Null, IsNull, Is
  <1>3. CASE ~Is(v, "struct")
    BY <1>1, <1>3 DEF Child, Null, IsNull, Is
  <1>4. QED
    BY <1>2, <1>3

\* The column of one field has a value for each struct.
LEMMA FieldColumnIs ==
    ASSUME NEW V, ValuesNested(V), NEW column \in Seq(V), NEW name
    PROVE  /\ FieldColumn(column, name) \in Seq(V) /\ Len(FieldColumn(column, name)) = Len(column)
           /\ \A i \in 1..Len(column) : FieldColumn(column, name)[i] = Child(column[i], name)
  <1>1. \A i \in 1..Len(column) : Child(column[i], name) \in V
    <2>1. \A i \in 1..Len(column) : column[i] \in V
      OBVIOUS
    <2>2. QED
      BY <2>1, ChildIs
  <1>2. QED
    BY <1>1 DEF FieldColumn

HeldFields(v, t) ==
    [name \in ToSet(Names(t)) |->
        Held(Child(v, name), t.info.children[FieldIndex(name, t)]).value]

\* A value is a struct of the type's fields, and each can hold its part.
StructFits(v, t) ==
    /\ Is(v, "struct") /\ DOMAIN v.struct \subseteq ToSet(Names(t))
    /\ IsInjective(Names(t))
    /\ \A k \in DOMAIN Names(t) : Held(Child(v, Names(t)[k]), t.info.children[k]).ok

\* A struct is held when its fields are.
LEMMA HeldStruct ==
    ASSUME NEW T, NEW Depth, NEW V, CodecsDefined(T, Depth, V), NEW t \in T, NEW v \in V,
           t.id \in StructIds, ~IsNull(v)
    PROVE  Held(v, t) = IF StructFits(v, t) THEN Ok([struct |-> HeldFields(v, t)])
                        ELSE Fail("does not fit")
  <1> DEFINE names == Names(t)
             inside == InnerValues(v, t)
             inner == [k \in DOMAIN inside |-> Held(inside[k].value, inside[k].type)]
             field == [k \in DOMAIN names |-> Held(Child(v, names[k]), t.info.children[k])]
             given == Is(v, "struct") /\ DOMAIN v.struct \subseteq ToSet(names) /\ IsInjective(names)
             fields == [name \in ToSet(names) |->
                           Collect(inner).value[CHOOSE k \in DOMAIN names : names[k] = name]]
  <1>1. Held(v, t) = HeldOf(v, t, inner)
    BY DEF CodecsDefined, ValuesMadeAsDefined
  <1>2. inside = [k \in DOMAIN names |->
                     [value |-> Child(v, names[k]), type |-> t.info.children[k]]]
    BY DEF InnerValues, StructIds, ListIds
  <1>3. inner = field
    BY <1>2
  <1> HIDE DEF inner
  <1>4. HeldOf(v, t, inner) =
           IF given /\ Collect(inner).ok THEN Ok([struct |-> fields]) ELSE Fail("does not fit")
    <2>1. /\ IntegerName(t) = "none" /\ t.id \notin {"DECIMAL", "ENUM", "UUID", "ARRAY"}
          /\ t.id \notin ListIds
      BY DEF IntegerName, StructIds, ListIds
    <2> HIDE DEF fields
    <2>2. HeldOf(v, t, inner) =
             IF /\ Is(v, "struct") /\ DOMAIN v.struct \subseteq ToSet(names)
                /\ IsInjective(names) /\ Collect(inner).ok
             THEN Ok([struct |-> [name \in ToSet(names) |->
                        Collect(inner).value[CHOOSE k \in DOMAIN names : names[k] = name]]])
             ELSE Fail("does not fit")
      BY <2>1, Zenon DEF HeldOf
    <2>3. QED
      BY <2>2 DEF fields
  <1>5. DOMAIN field = DOMAIN names /\ DOMAIN names \subseteq Nat
    <2>1. names \in Seq(STRING)
      BY NamesAre DEF CodecsDefined
    <2>2. QED
      BY <2>1
  <1>6. Collect(field).ok <=> \A k \in DOMAIN names : field[k].ok
    <2>1. (\A k \in DOMAIN field : field[k].ok) => Collect(field).ok
      BY CollectAll DEF Ok
    <2>2. Collect(field).ok => \A k \in DOMAIN field : field[k].ok
      <3> HIDE DEF field
      <3>1. QED
        BY <1>5, CollectOk
    <2>3. QED
      BY <1>5, <2>1, <2>2
  <1>7. Collect(field).ok => fields = HeldFields(v, t)
    <2> SUFFICES ASSUME Collect(field).ok PROVE fields = HeldFields(v, t)
      OBVIOUS
    <2>1. Collect(field).value = [k \in DOMAIN names |-> field[k].value]
      <3> HIDE DEF field
      <3>1. Collect(field) = Ok([k \in DOMAIN field |-> field[k].value])
        BY <1>5, CollectOk
      <3>2. QED
        BY <1>5, <3>1 DEF Ok
    <2>2. ASSUME NEW name \in ToSet(names)
          PROVE  fields[name] = Held(Child(v, name), t.info.children[FieldIndex(name, t)]).value
      <3> DEFINE k == CHOOSE j \in DOMAIN names : names[j] = name
      <3>1. \E j \in DOMAIN names : names[j] = name
        BY DEF ToSet
      <3>2. k \in DOMAIN names /\ names[k] = name
        BY <3>1
      <3>3. FieldIndex(name, t) = k
        BY DEF FieldIndex
      <3>4. fields[name] = Collect(field).value[k]
        BY <1>3
      <3> HIDE DEF k, fields, names
      <3>5. fields[name] = field[k].value
        BY <2>1, <3>2, <3>4
      <3>6. field[k] = Held(Child(v, name), t.info.children[k])
        BY <3>2
      <3>7. QED
        BY <3>3, <3>5, <3>6
    <2>3. fields = [name \in ToSet(names) |-> fields[name]]
      OBVIOUS
    <2> HIDE DEF fields
    <2>4. QED
      BY <2>2, <2>3 DEF HeldFields
  <1> HIDE DEF fields
  <1>8. \A k \in DOMAIN names : field[k].ok = Held(Child(v, names[k]), t.info.children[k]).ok
    OBVIOUS
  <1> HIDE DEF field, given
  <1>9. Held(v, t) = IF given /\ (\A k \in DOMAIN names : field[k].ok)
                     THEN Ok([struct |-> HeldFields(v, t)]) ELSE Fail("does not fit")
    BY <1>1, <1>3, <1>4, <1>6, <1>7
  <1>10. (\A k \in DOMAIN names : field[k].ok)
            = (\A k \in DOMAIN names : Held(Child(v, names[k]), t.info.children[k]).ok)
    BY <1>8
  <1>11. StructFits(v, t) = (given /\ (\A k \in DOMAIN names : field[k].ok))
    BY <1>10, Zenon DEF given, StructFits
  <1>12. QED
    BY <1>9, <1>11

\* A column of structs is sent when the columns of its fields are.
LEMMA StructsSent ==
    ASSUME NEW T, NEW Depth, NEW V, CodecsDefined(T, Depth, V), NEW t \in T, NEW column \in Seq(V),
           Physical(t).kind = "struct"
    PROVE  LET e == Encoded(column, t)
               names == Names(t)
               field == [k \in DOMAIN names |->
                            Encoded(FieldColumn(column, names[k]), t.info.children[k])]
               vector == [form |-> "flat", mask |-> Mask(column),
                          vectors |-> [k \in DOMAIN names |-> field[k].value]]
           IN /\ e.ok => e = Ok(vector) /\ \A k \in DOMAIN names : field[k].ok
              /\ (\A k \in DOMAIN names : field[k].ok) => e = Ok(vector)
  <1> DEFINE e == Encoded(column, t)
             names == Names(t)
             field == [k \in DOMAIN names |->
                          Encoded(FieldColumn(column, names[k]), t.info.children[k])]
             vectors == [k \in DOMAIN names |-> field[k].value]
             inside == Inner(column, t)
             inner == [k \in DOMAIN inside |-> Encoded(inside[k].values, inside[k].type)]
  <1>1. e = EncodedOf(column, t, inner)
    BY DEF CodecsDefined, VectorsSentAsDefined
  <1>2. inner = field
    <2>1. DOMAIN column = 1..Len(column)
      OBVIOUS
    <2>2. inside = [k \in DOMAIN names |->
                       [values |-> FieldColumn(column, names[k]), type |-> t.info.children[k]]]
      BY <2>1 DEF Inner, FieldColumn
    <2> HIDE DEF inside
    <2>3. QED
      BY <2>2
  <1> HIDE DEF inner
  <1>3. EncodedOf(column, t, inner) =
           IF Collect(inner).ok
           THEN Ok([form |-> "flat", mask |-> Mask(column), vectors |-> Collect(inner).value])
           ELSE Collect(inner)
    <2>1. Physical(t).kind \notin FixedKinds
      BY DEF FixedKinds
    <2>2. QED
      BY <2>1, Zenon DEF EncodedOf
  <1>4. DOMAIN field = DOMAIN names /\ DOMAIN names \subseteq Nat
    <2>1. names \in Seq(STRING)
      BY NamesAre DEF CodecsDefined
    <2>2. QED
      BY <2>1
  <1> HIDE DEF field, e
  <1>5. Collect(field).ok => Collect(field) = Ok(vectors) /\ \A k \in DOMAIN names : field[k].ok
    BY <1>4, CollectOk
  <1>6. (\A k \in DOMAIN names : field[k].ok) => Collect(field) = Ok(vectors)
    BY <1>4, CollectAll
  <1>7. Collect(field) = Ok(vectors)
           => e = Ok([form |-> "flat", mask |-> Mask(column), vectors |-> vectors])
    BY <1>1, <1>2, <1>3 DEF Ok
  <1>8. e.ok => Collect(field).ok
    BY <1>1, <1>2, <1>3
  <1> HIDE DEF vectors
  <1>9. QED
    BY <1>5, <1>6, <1>7, <1>8 DEF e, field, vectors

\* A struct of what the vectors of its fields hold in a row.
RowStruct(names, value, i) ==
    [struct |-> [name \in ToSet(names) |->
        LET k == Max({j \in DOMAIN names : names[j] = name})
        IN IF i \in DOMAIN value[k] THEN value[k][i] ELSE Null]]

\* A column of structs is read when those of its fields are, and none lacks where a row is
\* not NULL.
LEMMA StructsRead ==
    ASSUME NEW T, NEW Depth, NEW V, CodecsDefined(T, Depth, V), NEW t \in T,
           Physical(t).kind = "struct", NEW vector, vector.form = "flat", NEW count \in Nat,
           DOMAIN vector.vectors \subseteq Nat
    PROVE  LET d == Decoded(vector, t, count)
               names == Names(t)
               dec == [k \in DOMAIN vector.vectors |->
                          Decoded(vector.vectors[k], t.info.children[k], count)]
               value == [k \in DOMAIN vector.vectors |-> dec[k].value]
               out == [i \in 1..count |->
                          IF IsValid(vector, i) THEN RowStruct(names, value, i) ELSE Null]
               whole == Len(vector.vectors) < Len(names) => \A i \in 1..count : ~IsValid(vector, i)
               read == \A k \in DOMAIN vector.vectors : dec[k].ok
           IN /\ d.ok => LengthsAgree(vector, t, count) /\ whole /\ read /\ d = Ok(out)
              /\ LengthsAgree(vector, t, count) /\ whole /\ read => d = Ok(out)
  <1> DEFINE d == Decoded(vector, t, count)
             names == Names(t)
             dec == [k \in DOMAIN vector.vectors |->
                        Decoded(vector.vectors[k], t.info.children[k], count)]
             value == [k \in DOMAIN vector.vectors |-> dec[k].value]
             out == [i \in 1..count |->
                        IF IsValid(vector, i) THEN RowStruct(names, value, i) ELSE Null]
             valid == {i \in 1..count : IsValid(vector, i)}
             whole == Len(vector.vectors) < Len(names) => \A i \in 1..count : ~IsValid(vector, i)
             read == \A k \in DOMAIN vector.vectors : dec[k].ok
             inside == InnerVectors(vector, t, count)
             inner == [k \in DOMAIN inside |->
                          Decoded(inside[k].vector, inside[k].type, inside[k].count)]
             f == DecodedFlat(vector, t, count, inner)
             flat == [i \in 1..count |-> IF i \notin valid THEN Null ELSE RowStruct(names, value, i)]
             agree == LengthsAgree(vector, t, count)
  <1>1. d = DecodedOf(vector, t, count, inner)
    BY DEF CodecsDefined, VectorsReadAsDefined
  <1>2. inner = dec
    <2>1. inside = [k \in DOMAIN vector.vectors |->
                       [vector |-> vector.vectors[k], type |-> t.info.children[k], count |-> count]]
      BY DEF InnerVectors
    <2> HIDE DEF inside
    <2>2. QED
      BY <2>1
  <1> HIDE DEF inner
  <1>3. f = IF ~Collect(dec).ok THEN Collect(dec)
            ELSE IF Len(vector.vectors) < Len(names) /\ valid # {} THEN Fail("incomplete")
            ELSE Ok([i \in 1..count |->
                       IF i \notin valid THEN Null
                       ELSE [struct |-> [name \in ToSet(names) |->
                               LET k == Max({j \in DOMAIN names : names[j] = name})
                               IN IF i \in DOMAIN Collect(dec).value[k]
                                  THEN Collect(dec).value[k][i] ELSE Null]]])
    <2>1. Physical(t).kind \notin FixedKinds
      BY DEF FixedKinds
    <2> HIDE DEF dec
    <2>2. QED
      BY <1>2, <2>1, Zenon DEF DecodedFlat
  <1>4. f = IF ~Collect(dec).ok THEN Collect(dec)
            ELSE IF ~whole THEN Fail("incomplete")
            ELSE Ok([i \in 1..count |->
                       IF i \notin valid THEN Null ELSE RowStruct(names, Collect(dec).value, i)])
    <2>1. (Len(vector.vectors) < Len(names) /\ valid # {}) = ~whole
      OBVIOUS
    <2> HIDE DEF f, dec, whole, valid
    <2>2. QED
      BY <1>3, <2>1, Zenon DEF RowStruct
  <1>5. DOMAIN dec = DOMAIN vector.vectors /\ [k \in DOMAIN dec |-> dec[k].value] = value
    OBVIOUS
  <1>6. read => Collect(dec) = Ok(value)
    <2> HIDE DEF dec, value
    <2>1. QED
      BY <1>5, CollectAll
  <1>7. Collect(dec).ok => read /\ Collect(dec) = Ok(value)
    <2> HIDE DEF dec, value
    <2>1. QED
      BY <1>5, CollectOk
  <1>8. out = [i \in DOMAIN flat |-> IF IsValid(vector, i) THEN flat[i] ELSE Null]
    <2> HIDE DEF value
    <2>1. QED
      OBVIOUS
  <1>9. flat \in Seq({flat[i] : i \in 1..count}) /\ Len(flat) = count
    <2> HIDE DEF value
    <2>1. QED
      OBVIOUS
  <1> HIDE DEF d, f, dec, agree, whole, read, out, value, valid
  <1>10. f.ok => read /\ whole /\ f = Ok(flat)
    <2>1. f.ok => Collect(dec).ok /\ whole
      BY <1>4 DEF Fail
    <2>2. Collect(dec).ok => Collect(dec).value = value
      BY <1>7 DEF Ok
    <2>3. QED
      BY <1>4, <1>7, <2>1, <2>2
  <1>11. read /\ whole => f = Ok(flat)
    <2>1. read => Collect(dec).ok /\ Collect(dec).value = value
      BY <1>6 DEF Ok
    <2>2. QED
      BY <1>4, <2>1
  <1> HIDE DEF flat
  <1>12. d.ok => agree /\ f.ok
    BY <1>1, FlatSays DEF agree, f
  <1>13. ASSUME agree, f = Ok(flat) PROVE d = Ok(out)
    <2>1. f.value = flat /\ f.ok
      BY <1>13 DEF Ok
    <2>2. ~(vector.mask # NoMask /\ Len(f.value) > count)
      BY <1>9, <2>1
    <2>3. Physical(t).kind # "none"
      OBVIOUS
    <2>4. d = Ok([i \in DOMAIN f.value |-> IF IsValid(vector, i) THEN f.value[i] ELSE Null])
      BY <1>1, <1>13, <2>1, <2>2, <2>3, FlatSays DEF agree, f
    <2>5. QED
      BY <1>8, <2>1, <2>4
  <1>14. d.ok => agree /\ whole /\ read /\ d = Ok(out)
    BY <1>10, <1>12, <1>13
  <1>15. agree /\ whole /\ read => d = Ok(out)
    BY <1>11, <1>13
  <1>16. QED
    BY <1>14, <1>15 DEF d, agree, whole, read, out, value, dec

\* The greatest member.
LEMMA MaxIs ==
    ASSUME NEW n \in Nat, NEW S, S \subseteq 1..n, S # {}
    PROVE  Max(S) \in S /\ \A y \in S : y <= Max(S)
  <1> DEFINE R == {n - y : y \in S}
  <1>1. R \subseteq Nat /\ R # {}
    <2>1. \A y \in S : n - y \in Nat
      OBVIOUS
    <2>2. PICK y \in S : TRUE
      OBVIOUS
    <2>3. n - y \in R
      OBVIOUS
    <2>4. R \subseteq Nat
      BY <2>1
    <2> HIDE DEF R
    <2>5. QED
      BY <2>3, <2>4
  <1> HIDE DEF R
  <1>2. PICK r \in R : \A s \in R : r <= s
    BY <1>1, Smallest
  <1>3. PICK x \in S : r = n - x
    BY <1>2 DEF R
  <1>4. \A y \in S : y <= x
    <2>1. ASSUME NEW y \in S PROVE y <= x
      <3>1. n - y \in R /\ n - x \in Nat /\ n - y \in Nat /\ x \in Nat /\ y \in Nat
        BY <1>1 DEF R
      <3>2. n - x <= n - y
        BY <1>2, <1>3, <3>1
      <3>3. QED
        BY <3>1, <3>2
    <2>2. QED
      BY <2>1
  <1>5. Max(S) = CHOOSE m \in S : \A y \in S : m >= y
    BY DEF Max
  <1>6. \E m \in S : \A y \in S : m >= y
    BY <1>4
  <1>7. Max(S) \in S /\ \A y \in S : Max(S) >= y
    BY <1>5, <1>6
  <1>8. QED
    BY <1>7

\* Of fields with names of their own, each is where its name is.
LEMMA FieldFound ==
    ASSUME NEW S, NEW names \in Seq(S), IsInjective(names), NEW name \in ToSet(names)
    PROVE  \E k \in DOMAIN names :
              /\ names[k] = name
              /\ Max({j \in DOMAIN names : names[j] = name}) = k
              /\ (CHOOSE j \in DOMAIN names : names[j] = name) = k
  <1>1. PICK k \in DOMAIN names : names[k] = name
    BY DEF ToSet
  <1>2. \A j \in DOMAIN names : names[j] = name => j = k
    BY <1>1 DEF IsInjective
  <1> DEFINE Q == {j \in DOMAIN names : names[j] = name}
  <1>3. Q = {k}
    BY <1>1, <1>2
  <1>4. Len(names) \in Nat /\ Q \subseteq 1..Len(names) /\ Q # {}
    BY <1>1
  <1> HIDE DEF Q
  <1>5. Max(Q) = k
    BY SMTT(30), <1>3, <1>4, MaxIs
  <1>6. (CHOOSE j \in DOMAIN names : names[j] = name) = k
    BY <1>1, <1>2
  <1>7. QED
    BY <1>1, <1>5, <1>6 DEF Q

\* What the vectors of the fields hold of a struct.
LEMMA StructPlaced ==
    ASSUME NEW T, NEW Depth, NEW V, CodecsDefined(T, Depth, V), NEW t \in T, NEW column \in Seq(V),
           t.id \in StructIds, NEW i \in 1..Len(column), ~IsNull(column[i]),
           Held(column[i], t).ok, NEW value,
           \A k \in DOMAIN Names(t) : Placed(value[k], FieldColumn(column, Names(t)[k]), t.info.children[k])
    PROVE  RowStruct(Names(t), value, i) = Held(column[i], t).value
  <1> DEFINE names == Names(t)
             v == column[i]
             held == HeldFields(v, t)
             found(name) == Max({j \in DOMAIN names : names[j] = name})
             row == [name \in ToSet(names) |->
                        IF i \in DOMAIN value[found(name)] THEN value[found(name)][i] ELSE Null]
  <1>1. v \in V
    OBVIOUS
  <1>2. /\ IsInjective(names)
        /\ \A k \in DOMAIN names : Held(Child(v, names[k]), t.info.children[k]).ok
        /\ Held(v, t) = Ok([struct |-> held])
    <2>1. ~Fail("does not fit").ok
      BY DEF Fail
    <2> HIDE DEF held
    <2>2. Held(v, t) = IF StructFits(v, t) THEN Ok([struct |-> held]) ELSE Fail("does not fit")
      BY <1>1, HeldStruct DEF held
    <2>3. StructFits(v, t) /\ Held(v, t) = Ok([struct |-> held])
      BY <2>1, <2>2
    <2>4. QED
      BY <2>3, Zenon DEF StructFits
  <1>3. names \in Seq(STRING)
    BY NamesAre DEF CodecsDefined
  <1>4. ASSUME NEW name \in ToSet(names)
        PROVE  row[name] = held[name]
    <2> HIDE DEF names, row, held
    <2>0. IsInjective(names)
      BY <1>2
    <2>1. PICK k \in DOMAIN names : names[k] = name /\ found(name) = k
                                    /\ (CHOOSE j \in DOMAIN names : names[j] = name) = k
      BY <1>3, <2>0, FieldFound
    <2> USE DEF names, row, held
    <2>2. held[name] = Held(Child(v, name), t.info.children[k]).value
      BY <2>1 DEF HeldFields, FieldIndex
    <2> DEFINE field == FieldColumn(column, names[k])
    <2>3. /\ Len(field) = Len(column) /\ field[i] = Child(v, name)
      BY <2>1, FieldColumnIs DEF CodecsDefined
    <2>4. Placed(value[k], field, t.info.children[k])
      OBVIOUS
    <2> HIDE DEF field
    <2>5. PICK S : value[k] \in Seq(S)
      BY <2>4 DEF Placed
    <2>6. Len(value[k]) >= Len(column)
      BY <2>3, <2>4 DEF Placed
    <2>7. i \in DOMAIN value[k]
      BY <2>5, <2>6
    <2>8. Held(Child(v, name), t.info.children[k]).ok
      BY <1>2, <2>1
    <2>9. value[k][i] = Held(Child(v, name), t.info.children[k]).value
      BY <2>3, <2>4, <2>8 DEF Placed
    <2>10. row[name] = value[k][i]
      BY <2>1, <2>7
    <2>11. QED
      BY <2>2, <2>9, <2>10
  <1>5. held = [name \in ToSet(names) |-> held[name]]
    BY DEF HeldFields
  <1>6. row = [name \in ToSet(names) |-> row[name]]
    OBVIOUS
  <1>7. RowStruct(names, value, i) = [struct |-> row]
    BY DEF RowStruct
  <1> HIDE DEF row, held
  <1>8. row = held
    BY <1>4, <1>5, <1>6
  <1>9. QED
    BY <1>2, <1>7, <1>8 DEF Ok

\* What is sent of structs holds every struct in its row, if that is so of the fields.
LEMMA StructsKeep ==
    ASSUME NEW T, NEW Depth, NEW V, CodecsDefined(T, Depth, V), NEW t \in T,
           Physical(t).kind = "struct", NEW column \in Seq(V), NEW count \in Nat,
           \A k \in DOMAIN Names(t) :
              Keeps(FieldColumn(column, Names(t)[k]), t.info.children[k], count)
    PROVE  Keeps(column, t, count)
  <1> DEFINE e == Encoded(column, t)
             n == Len(column)
             names == Names(t)
             d == Decoded(e.value, t, count)
             field == [k \in DOMAIN names |->
                          Encoded(FieldColumn(column, names[k]), t.info.children[k])]
             vectors == [k \in DOMAIN names |-> field[k].value]
             vector == [form |-> "flat", mask |-> Mask(column), vectors |-> vectors]
  <1> SUFFICES ASSUME e.ok, count >= n, d.ok PROVE d = Ok(d.value) /\ Placed(d.value, column, t)
    BY DEF Keeps
  <1>1. e = Ok(vector) /\ \A k \in DOMAIN names : field[k].ok
    BY StructsSent
  <1>2. e.value = vector
    BY <1>1 DEF Ok
  <1>3. names \in Seq(STRING) /\ DOMAIN names \subseteq Nat
    <2>1. names \in Seq(STRING)
      BY NamesAre DEF CodecsDefined
    <2>2. QED
      BY <2>1
  <1>4. vector.form = "flat" /\ vector.mask = Mask(column) /\ vector.vectors = vectors
        /\ DOMAIN vectors = DOMAIN names /\ n \in Nat
    OBVIOUS
  <1>5. \A k \in DOMAIN names :
           vectors[k] = Encoded(FieldColumn(column, names[k]), t.info.children[k]).value
    OBVIOUS
  <1>6. \A k \in DOMAIN names : Encoded(FieldColumn(column, names[k]), t.info.children[k]).ok
    BY <1>1
  <1> HIDE DEF e, vector, vectors, field
  <1> DEFINE dec == [k \in DOMAIN vector.vectors |->
                        Decoded(vector.vectors[k], t.info.children[k], count)]
             value == [k \in DOMAIN vector.vectors |-> dec[k].value]
             row == [i \in 1..count |-> RowStruct(names, value, i)]
             out == [i \in 1..count |->
                        IF IsValid(vector, i) THEN RowStruct(names, value, i) ELSE Null]
  <1>7. d = Ok(out) /\ \A k \in DOMAIN vector.vectors : dec[k].ok
    <2>1. Decoded(vector, t, count).ok /\ DOMAIN vector.vectors \subseteq Nat
      BY <1>2, <1>3, <1>4
    <2>2. Decoded(vector, t, count) = Ok(out) /\ \A k \in DOMAIN vector.vectors : dec[k].ok
      BY <1>4, <2>1, StructsRead
    <2>3. QED
      BY <1>2, <2>2
  <1>8. ASSUME NEW k \in DOMAIN names
        PROVE  Placed(value[k], FieldColumn(column, names[k]), t.info.children[k])
    <2>1. Keeps(FieldColumn(column, names[k]), t.info.children[k], count)
      OBVIOUS
    <2>2. Len(FieldColumn(column, names[k])) = n
      BY FieldColumnIs DEF CodecsDefined
    <2>3. dec[k] = Decoded(Encoded(FieldColumn(column, names[k]), t.info.children[k]).value,
                           t.info.children[k], count)
      BY <1>4, <1>5
    <2>4. dec[k].ok /\ value[k] = dec[k].value
      BY <1>4, <1>7
    <2> HIDE DEF dec, value
    <2>5. QED
      BY <1>6, <2>1, <2>2, <2>3, <2>4 DEF Keeps
  <1>9. t.id \in StructIds
    <2>1. Physical(t).kind = "struct" => t.id \in StructIds
      BY KindIs DEF CodecsDefined
    <2>2. QED
      BY <2>1
  <1> HIDE DEF value
  <1>10. ASSUME NEW i \in 1..n, ~IsNull(column[i]), Held(column[i], t).ok
         PROVE  row[i] = Held(column[i], t).value
    <2>1. RowStruct(names, value, i) = Held(column[i], t).value
      BY <1>8, <1>9, <1>10, StructPlaced
    <2>2. QED
      BY <1>4, <2>1
  <1>11. row \in Seq({row[i] : i \in 1..count}) /\ Len(row) = count /\ DOMAIN row = 1..count
    OBVIOUS
  <1>12. out = [i \in DOMAIN row |-> IF IsValid(vector, i) THEN row[i] ELSE Null]
    OBVIOUS
  <1> HIDE DEF row, out
  <1>13. Placed(out, column, t)
    <2> DEFINE S == {row[i] : i \in 1..count}
    <2>1. row \in Seq(S) /\ Len(row) >= Len(column) /\ vector.mask = Mask(column)
      BY <1>4, <1>11
    <2>2. \A i \in 1..Len(column) : ~IsNull(column[i]) /\ Held(column[i], t).ok
                                        => row[i] = Held(column[i], t).value
      BY <1>10
    <2> HIDE DEF S, dec, d, n, names
    <2>3. Placed([i \in DOMAIN row |-> IF IsValid(vector, i) THEN row[i] ELSE Null], column, t)
      BY <2>1, <2>2, MaskedPlaced
    <2>4. QED
      BY <1>12, <2>3
  <1> HIDE DEF d
  <1>14. QED
    BY <1>7, <1>13 DEF Ok

\* A column of structs whose type can hold it is sent and read, if those of its fields are.
LEMMA StructsReturn ==
    ASSUME NEW T, NEW Depth, NEW V, CodecsDefined(T, Depth, V), NEW t \in T,
           Physical(t).kind = "struct", NEW column \in Seq(V),
           \A k \in DOMAIN Names(t) :
              Returns(FieldColumn(column, Names(t)[k]), t.info.children[k]),
           \A k \in DOMAIN Names(t) :
              AllHeld(column, t) => AllHeld(FieldColumn(column, Names(t)[k]), t.info.children[k])
    PROVE  Returns(column, t)
  <1> DEFINE e == Encoded(column, t)
             n == Len(column)
             names == Names(t)
             d == Decoded(e.value, t, n)
             field == [k \in DOMAIN names |->
                          Encoded(FieldColumn(column, names[k]), t.info.children[k])]
             vectors == [k \in DOMAIN names |-> field[k].value]
             vector == [form |-> "flat", mask |-> Mask(column), vectors |-> vectors]
  <1> SUFFICES ASSUME Supported(t), AllHeld(column, t) PROVE e.ok /\ d.ok /\ Len(d.value) = n
    BY DEF Returns
  <1>1. ASSUME NEW k \in DOMAIN names
        PROVE  LET x == Encoded(FieldColumn(column, names[k]), t.info.children[k])
               IN x.ok /\ Decoded(x.value, t.info.children[k], n).ok
    <2>1. k \in DOMAIN TypesInside(t) /\ TypesInside(t)[k] = t.info.children[k]
      BY NamesAre DEF CodecsDefined
    <2>2. Supported(t.info.children[k])
      BY <2>1, SupportedIs
    <2>3. Len(FieldColumn(column, names[k])) = n
      BY FieldColumnIs DEF CodecsDefined
    <2>4. QED
      BY <2>2, <2>3 DEF Returns
  <1>2. \A k \in DOMAIN names : field[k].ok
    BY <1>1
  <1>3. e = Ok(vector)
    BY <1>2, StructsSent
  <1>4. names \in Seq(STRING) /\ DOMAIN names \subseteq Nat
    <2>1. names \in Seq(STRING)
      BY NamesAre DEF CodecsDefined
    <2>2. QED
      BY <2>1
  <1>5. vector.form = "flat" /\ vector.mask = Mask(column) /\ vector.vectors = vectors
        /\ DOMAIN vectors = DOMAIN names /\ n \in Nat /\ Len(vectors) = Len(names)
    <2>1. vectors = [k \in 1..Len(names) |-> vectors[k]] /\ Len(names) \in Nat
      BY <1>4
    <2> HIDE DEF vectors
    <2>2. Len(vectors) = Len(names) /\ DOMAIN vectors = DOMAIN names
      BY <1>4, <2>1
    <2>3. QED
      BY <2>2
  <1>6. \A k \in DOMAIN names :
           vectors[k] = Encoded(FieldColumn(column, names[k]), t.info.children[k]).value
    OBVIOUS
  <1> HIDE DEF vector, vectors, field, e
  <1> DEFINE dec == [k \in DOMAIN vector.vectors |->
                        Decoded(vector.vectors[k], t.info.children[k], n)]
             value == [k \in DOMAIN vector.vectors |-> dec[k].value]
             out == [i \in 1..n |->
                        IF IsValid(vector, i) THEN RowStruct(names, value, i) ELSE Null]
  <1>7. \A k \in DOMAIN vector.vectors : dec[k].ok
    BY <1>1, <1>5, <1>6
  <1>8. LengthsAgree(vector, t, n)
    <2>1. Physical(t).kind \notin FixedKinds /\ Physical(t).kind \notin {"list", "array"}
      BY DEF FixedKinds
    <2>2. Len(vector.vectors) <= Len(Names(t))
      BY <1>4, <1>5
    <2>3. QED
      BY <1>5, <2>1, <2>2, LengthsOfOwn
  <1>9. ~(Len(vector.vectors) < Len(names)) /\ DOMAIN vector.vectors \subseteq Nat
    BY <1>4, <1>5
  <1>10. Decoded(vector, t, n) = Ok(out)
    <2> HIDE DEF out
    <2>1. LengthsAgree(vector, t, n)
             /\ (Len(vector.vectors) < Len(names) => \A i \in 1..n : ~IsValid(vector, i))
             /\ (\A k \in DOMAIN vector.vectors : dec[k].ok)
      BY <1>7, <1>8, <1>9
    <2>2. QED
      BY <1>5, <1>9, <2>1, StructsRead DEF out
  <1>11. Len(out) = n
    BY <1>5
  <1> HIDE DEF out
  <1>12. QED
    BY <1>3, <1>10, <1>11 DEF Ok

\* The fields of the structs that a column is to hold are held too.
LEMMA FieldsHeld ==
    ASSUME NEW T, NEW Depth, NEW V, CodecsDefined(T, Depth, V), NEW t \in T, NEW column \in Seq(V),
           t.id \in StructIds, AllHeld(column, t), NEW k \in DOMAIN Names(t)
    PROVE  AllHeld(FieldColumn(column, Names(t)[k]), t.info.children[k])
  <1> DEFINE name == Names(t)[k]
             inside == t.info.children[k]
  <1>1. ValuesNested(V) /\ inside \in T
    BY NamesAre DEF CodecsDefined
  <1>2. ASSUME NEW i \in 1..Len(column) PROVE Held(Child(column[i], name), inside).ok
    <2>1. column[i] \in V /\ Held(column[i], t).ok
      BY DEF AllHeld
    <2>2. CASE IsNull(column[i])
      <3>1. Child(column[i], name) = Null /\ Null \in V /\ IsNull(Null)
        BY <1>1, <2>1, <2>2, ChildIs
      <3>2. Held(Null, inside) = Ok(Null)
        BY <1>1, <3>1, HeldIs
      <3>3. QED
        BY <3>1, <3>2 DEF Ok
    <2>3. CASE ~IsNull(column[i])
      <3>1. \A j \in DOMAIN Names(t) : Held(Child(column[i], Names(t)[j]), t.info.children[j]).ok
        <4>1. ~Fail("does not fit").ok
          BY DEF Fail
        <4>2. Held(column[i], t) = IF StructFits(column[i], t)
                                   THEN Ok([struct |-> HeldFields(column[i], t)])
                                   ELSE Fail("does not fit")
          BY <2>1, <2>3, HeldStruct
        <4>3. StructFits(column[i], t)
          BY <2>1, <4>1, <4>2
        <4>4. QED
          BY <4>3, Zenon DEF StructFits
      <3>2. QED
        BY <3>1
    <2>4. QED
      BY <2>2, <2>3
  <1>3. /\ Len(FieldColumn(column, name)) = Len(column)
        /\ \A i \in 1..Len(column) : FieldColumn(column, name)[i] = Child(column[i], name)
    BY <1>1, FieldColumnIs
  <1>4. QED
    BY <1>2, <1>3 DEF AllHeld

-------------------------------------------------------------------------------
(* Columns of lists and of arrays *)

IsListKind(t) == Physical(t).kind \in {"list", "array"}
ItemsOf(v, t) == IF Physical(t).kind = "list" THEN Items(v) ELSE Padded(v, t.info.size)
Laying(column, t) == [i \in 1..Len(column) |-> ItemsOf(column[i], t)]
ItemColumn(column, t) == Flat(Laying(column, t), Len(column))

\* The type of the items, which is less deep.
LEMMA ListTypeIs ==
    ASSUME NEW T, NEW Depth, TypesNested(T, Depth), NEW t \in T, IsListKind(t)
    PROVE  /\ t.id \in ListIds \cup {"ARRAY"}
           /\ Physical(t).kind = "list" <=> t.id # "ARRAY"
           /\ t.info.child \in T /\ Depth[t.info.child] < Depth[t]
           /\ 1 \in DOMAIN TypesInside(t) /\ TypesInside(t)[1] = t.info.child
           /\ Physical(t).kind = "array" => t.info.size \in Nat
  <1>1. /\ Physical(t).kind = "list" => t.id \in ListIds /\ t.info.kind \in {"LIST", "ARRAY"}
        /\ Physical(t).kind = "array" => t.id = "ARRAY" /\ t.info.kind = "ARRAY"
    BY KindIs
  <1>2. t.info.kind \in {"LIST", "ARRAY"}
    BY <1>1 DEF IsListKind
  <1>3. TypesInside(t) = <<t.info.child>>
    BY <1>2 DEF TypesInside
  <1>4. /\ t.info.child \in T /\ Depth[t.info.child] < Depth[t]
        /\ t.info.kind = "ARRAY" => t.info.size \in Nat
    BY <1>2, TypeIs
  <1>5. 1 \in DOMAIN <<t.info.child>> /\ <<t.info.child>>[1] = t.info.child
    OBVIOUS
  <1>6. Physical(t).kind = "list" <=> t.id # "ARRAY"
    BY <1>1 DEF IsListKind, ListIds
  <1>7. t.id \in ListIds \cup {"ARRAY"}
    BY <1>1 DEF IsListKind
  <1>8. QED
    BY <1>1, <1>3, <1>4, <1>5, <1>6, <1>7

\* The items of a value: none for a NULL list, and a whole array of NULLs for a NULL array.
LEMMA ItemsAre ==
    ASSUME NEW T, NEW Depth, NEW V, CodecsDefined(T, Depth, V), NEW t \in T, NEW v \in V, IsListKind(t)
    PROVE  /\ ItemsOf(v, t) \in Seq(V) /\ Len(ItemsOf(v, t)) \in Nat
           /\ Is(v, "list") => ~IsNull(v) /\ ItemsOf(v, t) = v.list /\ Items(v) = v.list /\ v.list \in Seq(V)
           /\ IsNull(v) /\ Physical(t).kind = "list" => ItemsOf(v, t) = <<>>
           /\ IsNull(v) /\ Physical(t).kind = "array" =>
                 Len(ItemsOf(v, t)) = t.info.size
                 /\ \A k \in 1..t.info.size : ItemsOf(v, t)[k] = Null
  <1>1. ValuesNested(V) /\ TypesNested(T, Depth)
    BY DEF CodecsDefined
  <1>2. Null \in V
    BY <1>1 DEF ValuesNested, IsValue
  <1>3. CASE Is(v, "list")
    <2>1. v = [list |-> v.list] /\ v.list \in Seq(V) /\ DOMAIN v = {"list"}
      BY <1>1, <1>3, ValueIs
    <2>2. ~IsNull(v)
      BY <2>1 DEF IsNull, Is
    <2>3. Items(v) = v.list
      BY <1>3 DEF Items
    <2>4. ItemsOf(v, t) = v.list
      BY <2>2, <2>3 DEF ItemsOf, Padded
    <2>5. QED
      BY <1>3, <2>1, <2>2, <2>3, <2>4
  <1>4. CASE ~Is(v, "list")
    <2>1. Items(v) = <<>>
      BY <1>4 DEF Items
    <2>2. <<>> \in Seq(V) /\ Len(<<>>) = 0
      OBVIOUS
    <2>3. CASE Physical(t).kind = "list"
      <3>1. ItemsOf(v, t) = <<>>
        BY <2>1, <2>3 DEF ItemsOf
      <3>2. QED
        BY <1>4, <2>2, <2>3, <3>1
    <2>4. CASE Physical(t).kind = "array"
      <3>1. t.info.size \in Nat
        BY <1>1, <2>4, ListTypeIs
      <3>2. ItemsOf(v, t) = IF IsNull(v) THEN [k \in 1..t.info.size |-> Null] ELSE <<>>
        BY <2>1, <2>4 DEF ItemsOf, Padded
      <3>3. [k \in 1..t.info.size |-> Null] \in Seq(V) /\ Len([k \in 1..t.info.size |-> Null]) = t.info.size
        BY <1>2, <3>1
      <3>4. QED
        BY <1>4, <2>2, <2>4, <3>1, <3>2, <3>3
    <2>5. QED
      BY <2>3, <2>4 DEF IsListKind
  <1>5. QED
    BY <1>3, <1>4

\* The items of all the lists follow each other.
LEMMA ItemColumnIs ==
    ASSUME NEW T, NEW Depth, NEW V, CodecsDefined(T, Depth, V), NEW t \in T, IsListKind(t),
           NEW column \in Seq(V)
    PROVE  /\ ItemColumn(column, t) \in Seq(V) /\ Len(ItemColumn(column, t)) \in Nat
           /\ \A i \in 1..Len(column) :
                 /\ Laying(column, t)[i] = ItemsOf(column[i], t)
                 /\ Laying(column, t)[i] \in Seq(V)
                 /\ IsLaid(Laying(column, t), Len(column), i)
           /\ Flat(Laying(column, t), Len(column)) = FlattenSeq(Laying(column, t))
  <1> DEFINE b == Laying(column, t)
             n == Len(column)
  <1>1. n \in Nat /\ \A i \in 1..n : column[i] \in V
    OBVIOUS
  <1>2. b = [i \in 1..n |-> ItemsOf(column[i], t)]
    BY DEF Laying
  <1> HIDE DEF b, n
  <1>3. \A i \in 1..n : b[i] = ItemsOf(column[i], t)
    BY <1>2
  <1>4. \A i \in 1..n : b[i] \in Seq(V)
    BY <1>1, <1>3, ItemsAre
  <1>5. Flat(b, n) \in Seq(V)
    BY <1>1, <1>4, FlatType
  <1>6. \A i \in 1..n : IsLaid(b, n, i)
    BY <1>1, <1>4, FlatAt
  <1>7. Flat(b, n) = FlattenSeq(b)
    <2>1. [i \in 1..n |-> b[i]] = b
      BY <1>2
    <2>2. QED
      BY <2>1 DEF Flat
  <1>8. QED
    BY <1>3, <1>4, <1>5, <1>6, <1>7 DEF b, n, ItemColumn

\* A value is a list, of an array as long, and each of its items can be held.
ListFits(v, t) ==
    /\ Is(v, "list") /\ (t.id = "ARRAY" => Len(v.list) = t.info.size)
    /\ \A k \in 1..Len(v.list) : Held(v.list[k], t.info.child).ok

HeldItems(v, t) == [k \in 1..Len(v.list) |-> Held(v.list[k], t.info.child).value]

\* A list is held when its items are.
LEMMA HeldList ==
    ASSUME NEW T, NEW Depth, NEW V, CodecsDefined(T, Depth, V), NEW t \in T, NEW v \in V,
           t.id \in ListIds \cup {"ARRAY"}, ~IsNull(v)
    PROVE  Held(v, t) = IF ListFits(v, t) THEN Ok(ListOf(HeldItems(v, t)))
                        ELSE Fail("does not fit")
  <1> DEFINE inside == InnerValues(v, t)
             inner == [k \in DOMAIN inside |-> Held(inside[k].value, inside[k].type)]
             item == [k \in DOMAIN Items(v) |-> Held(v.list[k], t.info.child)]
             given == Is(v, "list") /\ (t.id = "ARRAY" => Len(v.list) = t.info.size)
  <1>1. Held(v, t) = HeldOf(v, t, inner)
    BY DEF CodecsDefined, ValuesMadeAsDefined
  <1>2. inside = [k \in DOMAIN Items(v) |-> [value |-> v.list[k], type |-> t.info.child]]
    BY DEF InnerValues, StructIds, ListIds
  <1>3. inner = item
    BY <1>2
  <1> HIDE DEF inner
  <1>4. HeldOf(v, t, inner) = IF given /\ Collect(inner).ok THEN Ok(ListOf(Collect(inner).value))
                              ELSE Fail("does not fit")
    <2>1. /\ IntegerName(t) = "none" /\ t.id \notin {"DECIMAL", "ENUM", "UUID"}
          /\ t.id \notin StructIds
      BY DEF IntegerName, StructIds, ListIds
    <2>2. CASE t.id \in ListIds
      <3>1. t.id # "ARRAY"
        BY <2>2 DEF ListIds
      <3>2. HeldOf(v, t, inner) = IF Is(v, "list") /\ Collect(inner).ok THEN Ok(ListOf(Collect(inner).value))
                                  ELSE Fail("does not fit")
        BY <2>1, <2>2, <3>1, Zenon DEF HeldOf
      <3>3. QED
        BY <3>1, <3>2
    <2>3. CASE t.id = "ARRAY"
      <3>1. t.id \notin ListIds
        BY <2>3 DEF ListIds
      <3>2. HeldOf(v, t, inner) = IF Is(v, "list") /\ Len(v.list) = t.info.size /\ Collect(inner).ok
                                  THEN Ok(ListOf(Collect(inner).value)) ELSE Fail("does not fit")
        BY <2>1, <2>3, <3>1, Zenon DEF HeldOf
      <3>3. QED
        BY <2>3, <3>2
    <2>4. QED
      BY <2>2, <2>3
  <1>5. CASE ~Is(v, "list")
    <2>1. ~given
      BY <1>5
    <2>2. ~ListFits(v, t)
      BY <1>5 DEF ListFits
    <2> HIDE DEF given
    <2>3. QED
      BY <1>1, <1>4, <2>1, <2>2
  <1>6. CASE Is(v, "list")
    <2>1. Items(v) = v.list /\ v.list \in Seq(V)
      BY <1>6, ValueIs DEF Items, CodecsDefined
    <2> DEFINE n == Len(v.list)
    <2>2. DOMAIN Items(v) = 1..n /\ 1..n \subseteq Nat
      BY <2>1
    <2>3. DOMAIN item = 1..n /\ \A k \in 1..n : item[k] = Held(v.list[k], t.info.child)
      BY <2>2
    <2>4. [k \in DOMAIN item |-> item[k].value] = HeldItems(v, t)
      BY <2>3 DEF HeldItems
    <2> HIDE DEF item, n
    <2>5. (\A k \in 1..n : item[k].ok) => Collect(item) = Ok(HeldItems(v, t))
      BY <2>3, <2>4, CollectAll
    <2>6. Collect(item).ok => Collect(item) = Ok(HeldItems(v, t)) /\ \A k \in 1..n : item[k].ok
      BY <2>2, <2>3, <2>4, CollectOk
    <2>7. (\A k \in 1..n : item[k].ok) <=> (\A k \in 1..n : Held(v.list[k], t.info.child).ok)
      BY <2>3
    <2>8. ListFits(v, t) <=> given /\ \A k \in 1..n : item[k].ok
      BY <2>7 DEF ListFits, n
    <2> HIDE DEF given
    <2>9. Ok(HeldItems(v, t)).ok /\ Ok(HeldItems(v, t)).value = HeldItems(v, t)
      BY DEF Ok
    <2>10. CASE ListFits(v, t)
      <3>1. given /\ Collect(item) = Ok(HeldItems(v, t))
        BY <2>5, <2>8, <2>10
      <3>2. Collect(item).ok /\ Collect(item).value = HeldItems(v, t)
        BY <2>9, <3>1
      <3>3. QED
        BY <1>1, <1>3, <1>4, <2>10, <3>1, <3>2
    <2>11. CASE ~ListFits(v, t)
      <3>1. ~(given /\ Collect(item).ok)
        BY <2>6, <2>8, <2>11
      <3>2. QED
        BY <1>1, <1>3, <1>4, <2>11, <3>1
    <2>12. QED
      BY <2>10, <2>11
  <1>7. QED
    BY <1>5, <1>6

\* What is in every row is NULL or a list, of an array as long.
ListsOnly(column, t) ==
    \A i \in 1..Len(column) :
        IsNull(column[i]) \/ (Is(column[i], "list")
                              /\ (Physical(t).kind = "array" => Len(Items(column[i])) = t.info.size))

ListVector(column, t) ==
    LET items == ItemColumn(column, t)
        child == Encoded(items, t.info.child).value
    IN IF Physical(t).kind = "list"
       THEN [form |-> "flat", mask |-> Mask(column), size |-> Len(items),
             entries |-> Entries(column), child |-> child]
       ELSE [form |-> "flat", mask |-> Mask(column), size |-> t.info.size, child |-> child]

\* One result, collected.
LEMMA CollectOne ==
    ASSUME NEW x
    PROVE  Collect(<<x>>).ok = x.ok /\ (x.ok => Collect(<<x>>).ok /\ Collect(<<x>>).value[1] = x.value)
  <1> DEFINE s == <<x>>
             got == [i \in 1..1 |-> s[i].value]
  <1>1. DOMAIN s = 1..1 /\ s[1] = x
    OBVIOUS
  <1>2. CASE x.ok
    <2>1. \A i \in DOMAIN s : s[i].ok
      BY <1>1, <1>2
    <2>2. got[1] = x.value
      BY <1>1
    <2> HIDE DEF s
    <2>3. Collect(s) = Ok([i \in DOMAIN s |-> s[i].value])
      BY <2>1, CollectAll
    <2>4. [i \in DOMAIN s |-> s[i].value] = got
      BY <1>1
    <2>5. Collect(s) = Ok(got)
      BY <2>3, <2>4
    <2> HIDE DEF got
    <2>6. Collect(s).ok = TRUE /\ Collect(s).value = got
      BY <2>5 DEF Ok
    <2>7. {i \in DOMAIN s : ~s[i].ok} = {}
      BY <2>1
    <2>8. QED
      BY <1>2, <2>2, <2>6 DEF s
  <1>3. CASE ~x.ok
    <2> DEFINE failed == {i \in DOMAIN s : ~s[i].ok}
    <2>1. failed = {1}
      BY <1>1, <1>3
    <2>2. failed \subseteq Nat /\ failed # {}
      BY <2>1
    <2>3. Collect(s) = IF failed = {} THEN Ok([i \in DOMAIN s |-> s[i].value]) ELSE s[Min(failed)]
      BY DEF Collect
    <2> HIDE DEF failed, s
    <2>4. Min(failed) = 1
      BY <2>1, <2>2, MinIs
    <2>5. Collect(s) = x
      BY <1>1, <2>2, <2>3, <2>4
    <2>6. QED
      BY <1>3, <2>5 DEF s
  <1>4. QED
    BY <1>2, <1>3

\* A column of lists is sent when the column of all their items is.
LEMMA ListsSent ==
    ASSUME NEW T, NEW Depth, NEW V, CodecsDefined(T, Depth, V), NEW t \in T, IsListKind(t),
           NEW column \in Seq(V)
    PROVE  LET e == Encoded(column, t)
               child == Encoded(ItemColumn(column, t), t.info.child)
           IN /\ e.ok => e = Ok(ListVector(column, t)) /\ child.ok /\ ListsOnly(column, t)
              /\ child.ok /\ ListsOnly(column, t) => e = Ok(ListVector(column, t))
  <1> DEFINE e == Encoded(column, t)
             items == ItemColumn(column, t)
             child == Encoded(items, t.info.child)
             one == [values |-> items, type |-> t.info.child]
             inside == Inner(column, t)
             inner == [k \in DOMAIN inside |-> Encoded(inside[k].values, inside[k].type)]
             NotLists == {i \in DOMAIN column : ~IsNull(column[i]) /\ ~Is(column[i], "list")}
             wrong == \/ NotLists # {}
                      \/ \E i \in DOMAIN column :
                            ~IsNull(column[i]) /\ Len(Items(column[i])) # t.info.size
  <1>1. e = EncodedOf(column, t, inner)
    BY DEF CodecsDefined, VectorsSentAsDefined
  <1>2. DOMAIN column = 1..Len(column)
    OBVIOUS
  <1>3. items = FlattenSeq(Laying(column, t))
    BY ItemColumnIs DEF ItemColumn
  <1>4. inside = <<one>>
    <2>1. CASE Physical(t).kind = "list"
      <3>1. inside = <<[values |-> FlattenSeq([i \in DOMAIN column |-> Items(column[i])]),
                        type |-> t.info.child]>>
        BY <2>1, Zenon DEF Inner
      <3>2. Laying(column, t) = [i \in DOMAIN column |-> Items(column[i])]
        BY <1>2, <2>1 DEF Laying, ItemsOf
      <3>3. QED
        BY <1>3, <3>1, <3>2
    <2>2. CASE Physical(t).kind = "array"
      <3>1. inside = <<[values |-> FlattenSeq([i \in DOMAIN column |-> Padded(column[i], t.info.size)]),
                        type |-> t.info.child]>>
        BY <2>2, Zenon DEF Inner
      <3>2. Laying(column, t) = [i \in DOMAIN column |-> Padded(column[i], t.info.size)]
        BY <1>2, <2>2 DEF Laying, ItemsOf
      <3>3. QED
        BY <1>3, <3>1, <3>2
    <2>3. QED
      BY <2>1, <2>2 DEF IsListKind
  <1> HIDE DEF items
  <1>5. inner = <<child>>
    <2> HIDE DEF inside
    <2>1. inside[1] = one /\ DOMAIN inside = {1}
      BY <1>4
    <2>2. one.values = items /\ one.type = t.info.child
      OBVIOUS
    <2>3. inner = [k \in {1} |-> child]
      BY <2>1, <2>2
    <2>4. [k \in {1} |-> child] = <<child>>
      OBVIOUS
    <2>5. QED
      BY <2>3, <2>4
  <1>6. Inner(column, t)[1].values = items
    BY <1>4
  <1> HIDE DEF inner, inside, e, NotLists
  <1>7. Collect(inner).ok = child.ok /\ (child.ok => Collect(inner).ok /\ Collect(inner).value[1] = child.value)
    BY <1>5, CollectOne
  <1>8. \A error : ~Fail(error).ok
    BY DEF Fail
  <1>9. \A x : Ok(x).ok
    BY DEF Ok
  <1>10. CASE Physical(t).kind = "list"
    <2>1. e = IF NotLists # {} THEN Fail("not a list")
              ELSE IF Collect(inner).ok
              THEN Ok([form |-> "flat", mask |-> Mask(column), size |-> Len(Inner(column, t)[1].values),
                       entries |-> Entries(column), child |-> Collect(inner).value[1]])
              ELSE Collect(inner)
      <3>1. Physical(t).kind \notin FixedKinds
        BY <1>10 DEF FixedKinds
      <3>2. QED
        BY <1>1, <1>10, <3>1, Zenon DEF EncodedOf, NotLists
    <2>2. NotLists = {} <=> ListsOnly(column, t)
      BY <1>2, <1>10 DEF ListsOnly, NotLists
    <2>3. ListVector(column, t) =
             [form |-> "flat", mask |-> Mask(column), size |-> Len(items),
              entries |-> Entries(column), child |-> child.value]
      BY <1>10 DEF ListVector, items
    <2> HIDE DEF child
    <2>4. child.ok /\ NotLists = {} => e = Ok(ListVector(column, t))
      BY <1>6, <1>7, <2>1, <2>3
    <2>5. e.ok => NotLists = {} /\ Collect(inner).ok
      BY <1>8, <2>1
    <2>6. e.ok => NotLists = {} /\ child.ok
      BY <1>7, <2>5
    <2>7. QED
      BY <2>2, <2>4, <2>6 DEF e, child, items
  <1>11. CASE Physical(t).kind = "array"
    <2>1. e = IF wrong THEN Fail("not an array")
              ELSE IF Collect(inner).ok
              THEN Ok([form |-> "flat", mask |-> Mask(column), size |-> t.info.size,
                       child |-> Collect(inner).value[1]])
              ELSE Collect(inner)
      <3>1. Physical(t).kind \notin FixedKinds
        BY <1>11 DEF FixedKinds
      <3>2. QED
        BY <1>1, <1>11, <3>1, Zenon DEF EncodedOf, NotLists
    <2>2. ~wrong <=> ListsOnly(column, t)
      BY <1>2, <1>11 DEF ListsOnly, NotLists
    <2>3. ListVector(column, t) =
             [form |-> "flat", mask |-> Mask(column), size |-> t.info.size, child |-> child.value]
      BY <1>11 DEF ListVector, items
    <2> HIDE DEF child, wrong
    <2>4. child.ok /\ ~wrong => e = Ok(ListVector(column, t))
      BY <1>7, <2>1, <2>3
    <2>5. e.ok => ~wrong /\ Collect(inner).ok
      BY <1>8, <2>1
    <2>6. e.ok => ~wrong /\ child.ok
      BY <1>7, <2>5
    <2>7. QED
      BY <2>2, <2>4, <2>6 DEF e, child, items
  <1>12. QED
    BY <1>10, <1>11 DEF IsListKind

\* What a vector says of the place of a row's items, and how many are read.
SpanOf(vector, t, i) ==
    IF Physical(t).kind = "list" THEN vector.entries[i]
    ELSE [offset |-> vector.size * (i - 1), length |-> vector.size]

ReadSize(vector, t, count) ==
    IF Physical(t).kind = "list" THEN vector.size ELSE vector.size * count

RowList(vector, t, items, i) ==
    LET span == SpanOf(vector, t, i)
    IN ListOf(SubSeq(items, span.offset + 1, span.offset + span.length))

SpanInside(vector, t, items, i) ==
    SpanOf(vector, t, i).offset + SpanOf(vector, t, i).length <= Len(items)

\* A column of lists is read when that of the items is, and no row reaches beyond it.
LEMMA ListsRead ==
    ASSUME NEW T, NEW Depth, NEW V, CodecsDefined(T, Depth, V), NEW t \in T, IsListKind(t),
           NEW vector, vector.form = "flat", NEW count \in Nat
    PROVE  LET d == Decoded(vector, t, count)
               dec == Decoded(vector.child, t.info.child, ReadSize(vector, t, count))
               out == [i \in 1..count |->
                          IF IsValid(vector, i) THEN RowList(vector, t, dec.value, i) ELSE Null]
               inside == \A i \in 1..count : IsValid(vector, i) =>
                            ~(SpanOf(vector, t, i).offset + SpanOf(vector, t, i).length
                                > Len(dec.value))
           IN /\ d.ok => LengthsAgree(vector, t, count) /\ dec.ok /\ inside /\ d = Ok(out)
              /\ LengthsAgree(vector, t, count) /\ dec.ok /\ inside => d = Ok(out)
  <1> DEFINE d == Decoded(vector, t, count)
             dec == Decoded(vector.child, t.info.child, ReadSize(vector, t, count))
             out == [i \in 1..count |->
                        IF IsValid(vector, i) THEN RowList(vector, t, dec.value, i) ELSE Null]
             inside == \A i \in 1..count : IsValid(vector, i) =>
                          ~(SpanOf(vector, t, i).offset + SpanOf(vector, t, i).length
                              > Len(dec.value))
             parts == InnerVectors(vector, t, count)
             inner == [k \in DOMAIN parts |-> Decoded(parts[k].vector, parts[k].type, parts[k].count)]
             f == DecodedFlat(vector, t, count, inner)
             agree == LengthsAgree(vector, t, count)
             flat == [i \in 1..count |->
                        IF i \in {j \in 1..count : IsValid(vector, j)}
                        THEN RowList(vector, t, dec.value, i) ELSE Null]
             short == ~(vector.mask # NoMask /\ Len(f.value) > count)
  <1>1. d = DecodedOf(vector, t, count, inner)
    BY DEF CodecsDefined, VectorsReadAsDefined
  <1>2. inner = <<dec>>
    <2> DEFINE one == [vector |-> vector.child, type |-> t.info.child,
                       count |-> ReadSize(vector, t, count)]
    <2>1. parts = <<one>>
      <3>1. CASE Physical(t).kind = "list"
        <4>1. ReadSize(vector, t, count) = vector.size
          BY <3>1 DEF ReadSize
        <4>2. parts = <<[vector |-> vector.child, type |-> t.info.child, count |-> vector.size]>>
          BY <3>1, Zenon DEF InnerVectors
        <4>3. QED
          BY <4>1, <4>2
      <3>2. CASE Physical(t).kind = "array"
        <4>1. ReadSize(vector, t, count) = vector.size * count
          BY <3>2 DEF ReadSize
        <4>2. parts = <<[vector |-> vector.child, type |-> t.info.child, count |-> vector.size * count]>>
          BY <3>2, Zenon DEF InnerVectors
        <4>3. QED
          BY <4>1, <4>2
      <3>3. QED
        BY <3>1, <3>2 DEF IsListKind
    <2> HIDE DEF parts
    <2>2. parts[1] = one /\ DOMAIN parts = {1}
      BY <2>1
    <2>3. one.vector = vector.child /\ one.type = t.info.child /\ one.count = ReadSize(vector, t, count)
      OBVIOUS
    <2>4. inner = [k \in {1} |-> dec]
      BY <2>2, <2>3
    <2>5. [k \in {1} |-> dec] = <<dec>>
      OBVIOUS
    <2>6. QED
      BY <2>4, <2>5
  <1> HIDE DEF parts, inner, dec
  <1>3. Collect(inner).ok = dec.ok /\ (dec.ok => Collect(inner).ok /\ Collect(inner).value[1] = dec.value)
    BY <1>2, CollectOne
  <1>4. ASSUME agree
        PROVE  f = IF ~Collect(inner).ok THEN Collect(inner)
                   ELSE IF \E i \in {j \in 1..count : IsValid(vector, j)} :
                              SpanOf(vector, t, i).offset + SpanOf(vector, t, i).length
                                 > Len(Collect(inner).value[1])
                   THEN Fail("panic")
                   ELSE Ok([i \in 1..count |->
                              IF i \in {j \in 1..count : IsValid(vector, j)}
                              THEN RowList(vector, t, Collect(inner).value[1], i) ELSE Null])
    <2>1. Physical(t).kind = "list" => Len(vector.entries) = count
      BY <1>4 DEF LengthsAgree
    <2>2. Physical(t).kind \notin FixedKinds /\ Physical(t).kind \notin {"text", "struct"}
      BY DEF FixedKinds, IsListKind
    <2>3. CASE Physical(t).kind = "list"
      <3>1. f = IF ~Collect(inner).ok THEN Collect(inner)
                ELSE IF \E i \in {j \in 1..count : IsValid(vector, j)} :
                           vector.entries[i].offset + vector.entries[i].length
                              > Len(Collect(inner).value[1])
                THEN Fail("panic")
                ELSE Ok([i \in 1..count |->
                           IF i \in {j \in 1..count : IsValid(vector, j)}
                           THEN ListOf(SubSeq(Collect(inner).value[1], vector.entries[i].offset + 1,
                                              vector.entries[i].offset + vector.entries[i].length))
                           ELSE Null])
        BY <2>1, <2>2, <2>3, Zenon DEF DecodedFlat
      <3>2. \A i : SpanOf(vector, t, i) = vector.entries[i]
        BY <2>3 DEF SpanOf
      <3> DEFINE items == Collect(inner).value[1]
                 made == [i \in 1..count |->
                            IF i \in {j \in 1..count : IsValid(vector, j)}
                            THEN ListOf(SubSeq(items, vector.entries[i].offset + 1,
                                               vector.entries[i].offset + vector.entries[i].length))
                            ELSE Null]
                 rows == [i \in 1..count |->
                            IF i \in {j \in 1..count : IsValid(vector, j)}
                            THEN RowList(vector, t, items, i) ELSE Null]
                 past == \E i \in {j \in 1..count : IsValid(vector, j)} :
                            vector.entries[i].offset + vector.entries[i].length > Len(items)
                 over == \E i \in {j \in 1..count : IsValid(vector, j)} :
                            SpanOf(vector, t, i).offset + SpanOf(vector, t, i).length > Len(items)
      <3>3. f = IF ~Collect(inner).ok THEN Collect(inner)
                ELSE IF past THEN Fail("panic") ELSE Ok(made)
        BY <3>1
      <3>4. past = over
        BY <3>2
      <3> HIDE DEF items, f
      <3>5. \A i : RowList(vector, t, items, i)
                     = ListOf(SubSeq(items, vector.entries[i].offset + 1, vector.entries[i].offset + vector.entries[i].length))
        BY <3>2 DEF RowList
      <3>6. made = rows
        BY <3>5
      <3> HIDE DEF made, rows, past, over
      <3>7. f = IF ~Collect(inner).ok THEN Collect(inner)
                ELSE IF over THEN Fail("panic") ELSE Ok(rows)
        BY <3>3, <3>4, <3>6
      <3>8. QED
        BY <3>7 DEF rows, over, items
    <2>4. CASE Physical(t).kind = "array"
      <3> DEFINE S(i) == [offset |-> vector.size * (i - 1), length |-> vector.size]
      <3>1. f = IF ~Collect(inner).ok THEN Collect(inner)
                ELSE IF \E i \in {j \in 1..count : IsValid(vector, j)} :
                           S(i).offset + S(i).length > Len(Collect(inner).value[1])
                THEN Fail("panic")
                ELSE Ok([i \in 1..count |->
                           IF i \in {j \in 1..count : IsValid(vector, j)}
                           THEN ListOf(SubSeq(Collect(inner).value[1], S(i).offset + 1,
                                              S(i).offset + S(i).length))
                           ELSE Null])
        BY <2>2, <2>4, Zenon DEF DecodedFlat
      <3>2. \A i : SpanOf(vector, t, i) = S(i)
        BY <2>4 DEF SpanOf
      <3> DEFINE items == Collect(inner).value[1]
                 made == [i \in 1..count |->
                            IF i \in {j \in 1..count : IsValid(vector, j)}
                            THEN ListOf(SubSeq(items, S(i).offset + 1,
                                               S(i).offset + S(i).length))
                            ELSE Null]
                 rows == [i \in 1..count |->
                            IF i \in {j \in 1..count : IsValid(vector, j)}
                            THEN RowList(vector, t, items, i) ELSE Null]
                 past == \E i \in {j \in 1..count : IsValid(vector, j)} :
                            S(i).offset + S(i).length > Len(items)
                 over == \E i \in {j \in 1..count : IsValid(vector, j)} :
                            SpanOf(vector, t, i).offset + SpanOf(vector, t, i).length > Len(items)
      <3>3. f = IF ~Collect(inner).ok THEN Collect(inner)
                ELSE IF past THEN Fail("panic") ELSE Ok(made)
        BY <3>1
      <3>4. past = over
        BY <3>2
      <3> HIDE DEF items, f, S
      <3>5. \A i : RowList(vector, t, items, i)
                     = ListOf(SubSeq(items, S(i).offset + 1, S(i).offset + S(i).length))
        BY <3>2 DEF RowList
      <3>6. made = rows
        BY <3>5
      <3> HIDE DEF made, rows, past, over
      <3>7. f = IF ~Collect(inner).ok THEN Collect(inner)
                ELSE IF over THEN Fail("panic") ELSE Ok(rows)
        BY <3>3, <3>4, <3>6
      <3>8. QED
        BY <3>7 DEF rows, over, items
    <2>5. QED
      BY <2>3, <2>4 DEF IsListKind
  <1>5. out = [i \in DOMAIN flat |-> IF IsValid(vector, i) THEN flat[i] ELSE Null]
    OBVIOUS
  <1>6. Len(flat) = count
    OBVIOUS
  <1>7. inside = ~(\E i \in {j \in 1..count : IsValid(vector, j)} :
                      SpanOf(vector, t, i).offset + SpanOf(vector, t, i).length > Len(dec.value))
    OBVIOUS
  <1>8. flat = [i \in 1..count |->
                  IF i \in {j \in 1..count : IsValid(vector, j)}
                  THEN RowList(vector, t, dec.value, i) ELSE Null]
    OBVIOUS
  <1> HIDE DEF d, f, agree, out, inside, flat
  <1>9. \A error : ~Fail(error).ok
    BY DEF Fail
  <1>10. agree /\ f.ok => dec.ok /\ inside /\ f = Ok(flat)
    <2> SUFFICES ASSUME agree, f.ok PROVE dec.ok /\ inside /\ f = Ok(flat)
      OBVIOUS
    <2>1. Collect(inner).ok
      BY <1>4
    <2>2. dec.ok /\ Collect(inner).value[1] = dec.value
      BY <1>3, <2>1
    <2>3. inside
      BY <1>4, <1>7, <1>9, <2>1, <2>2
    <2>4. f = Ok(flat)
      BY <1>4, <1>7, <1>8, <2>1, <2>2, <2>3
    <2>5. QED
      BY <2>2, <2>3, <2>4
  <1>11. agree /\ dec.ok /\ inside => f = Ok(flat)
    BY <1>3, <1>4, <1>7, <1>8
  <1>12. d.ok => agree /\ f.ok
    BY <1>1, FlatSays DEF agree, f
  <1>13. ASSUME agree, f = Ok(flat) PROVE d = Ok(out)
    <2>1. f.value = flat /\ f.ok
      BY <1>13 DEF Ok
    <2>2. ~(vector.mask # NoMask /\ Len(f.value) > count)
      BY <1>6, <2>1
    <2>3. Physical(t).kind # "none"
      BY DEF IsListKind
    <2>4. d = Ok([i \in DOMAIN f.value |-> IF IsValid(vector, i) THEN f.value[i] ELSE Null])
      BY <1>1, <1>13, <2>1, <2>2, <2>3, FlatSays DEF agree, f
    <2>5. QED
      BY <1>5, <2>1, <2>4
  <1>14. d.ok => agree /\ dec.ok /\ inside /\ d = Ok(out)
    BY <1>10, <1>12, <1>13
  <1>15. agree /\ dec.ok /\ inside => d = Ok(out)
    BY <1>11, <1>13
  <1>16. QED
    BY <1>14, <1>15 DEF d, agree, dec, inside, out

\* Values of one length are where their number says.
OfOneLength(b, X, n, size) == \A j \in 1..n : b[j] \in Seq(X) /\ Len(b[j]) = size

\* Sequences of one length, one after the other.
LEMMA FlatSame ==
    ASSUME NEW X, NEW b, NEW n \in Nat, NEW size \in Nat, OfOneLength(b, X, n, size)
    PROVE  \A k \in 0..n : Len(Flat(b, k)) = size * k
  <1> DEFINE S == {k \in 0..n : Len(Flat(b, k)) = size * k}
  <1> USE DEF OfOneLength
  <1>1. 0 \in S
    <2>1. Flat(b, 0) = <<>> /\ Len(<<>>) = 0 /\ size * 0 = 0
      BY FlatNone
    <2>2. QED
      BY <2>1
  <1>2. ASSUME NEW k \in 0..n - 1, k \in S PROVE k + 1 \in S
    <2>1. k \in Nat /\ k + 1 \in 1..n /\ (\A j \in 1..k + 1 : b[j] \in Seq(X)) /\ k + 1 \in 0..n
      OBVIOUS
    <2>2. Flat(b, k + 1) = Flat(b, k) \o b[k + 1]
      BY <2>1, FlatNext
    <2>3. Flat(b, k) \in Seq(X)
      <3>1. \A j \in 1..k : b[j] \in Seq(X)
        BY <2>1
      <3>2. QED
        BY <2>1, <3>1, FlatType
    <2>4. Len(Flat(b, k + 1)) = Len(Flat(b, k)) + Len(b[k + 1])
      BY <2>1, <2>2, <2>3
    <2>5. Len(b[k + 1]) = size /\ Len(Flat(b, k)) = size * k
      BY <1>2, <2>1
    <2>6. size * k + size = size * (k + 1)
      BY <2>1
    <2>7. QED
      BY <2>1, <2>4, <2>5, <2>6
  <1>3. 0..n \subseteq S
    <2> HIDE DEF S
    <2>1. 0 \in Int /\ n \in Int
      OBVIOUS
    <2>2. QED
      BY <1>1, <1>2, <2>1, Induction, Zenon
  <1>4. QED
    BY <1>3

\* Where the items of a row are, of a column of lists and of one of arrays.
LEMMA SpansAre ==
    ASSUME NEW T, NEW Depth, NEW V, CodecsDefined(T, Depth, V), NEW t \in T, IsListKind(t),
           NEW column \in Seq(V), NEW vector,
           Physical(t).kind = "list" => vector.entries = Entries(column),
           Physical(t).kind = "array" => vector.size = t.info.size,
           ListsOnly(column, t), NEW i \in 1..Len(column), ~IsNull(column[i])
    PROVE  /\ SpanOf(vector, t, i).offset = Len(Flat(Laying(column, t), i - 1))
           /\ SpanOf(vector, t, i).length = Len(Laying(column, t)[i])
           /\ Laying(column, t)[i] = column[i].list
           /\ Is(column[i], "list") /\ column[i].list \in Seq(V)
  <1> DEFINE b == Laying(column, t)
             n == Len(column)
  <1>1. n \in Nat /\ DOMAIN column = 1..n /\ \A j \in 1..n : column[j] \in V
    OBVIOUS
  <1>2. \A j \in 1..n : b[j] = ItemsOf(column[j], t) /\ b[j] \in Seq(V)
    BY ItemColumnIs
  <1>3. Is(column[i], "list")
    BY DEF ListsOnly
  <1>4. b[i] = column[i].list /\ Items(column[i]) = column[i].list /\ column[i].list \in Seq(V)
    BY <1>1, <1>2, <1>3, ItemsAre
  <1>5. CASE Physical(t).kind = "list"
    <2>1. SpanOf(vector, t, i) = Entries(column)[i]
      BY <1>5 DEF SpanOf
    <2>2. [j \in 1..i - 1 |-> Items(column[j])] = [j \in 1..i - 1 |-> b[j]]
      <3>1. \A j \in 1..i - 1 : j \in 1..n
        BY <1>1
      <3>2. \A j \in 1..i - 1 : b[j] = Items(column[j])
        BY <1>2, <1>5, <3>1 DEF ItemsOf
      <3> HIDE DEF b
      <3>3. QED
        BY <3>2
    <2>3. Entries(column)[i] = [offset |-> Len(FlattenSeq([j \in 1..i - 1 |-> Items(column[j])])),
                                length |-> Len(Items(column[i]))]
      BY <1>1 DEF Entries
    <2>4. Flat(b, i - 1) = FlattenSeq([j \in 1..i - 1 |-> Items(column[j])])
      BY <2>2 DEF Flat
    <2> HIDE DEF b
    <2>5. SpanOf(vector, t, i) = [offset |-> Len(Flat(b, i - 1)), length |-> Len(b[i])]
      BY <1>4, <2>1, <2>3, <2>4
    <2>6. /\ SpanOf(vector, t, i).offset = Len(Flat(b, i - 1))
          /\ SpanOf(vector, t, i).length = Len(b[i])
      BY <2>5
    <2>7. QED
      BY <1>3, <1>4, <2>6 DEF b
  <1>6. CASE Physical(t).kind = "array"
    <2>1. t.info.size \in Nat
      BY <1>6, ListTypeIs DEF CodecsDefined
    <2> DEFINE size == t.info.size
    <2>2. ASSUME NEW j \in 1..n PROVE b[j] \in Seq(V) /\ Len(b[j]) = size
      <3>1. column[j] \in V /\ b[j] = ItemsOf(column[j], t)
        BY <1>1, <1>2
      <3>2. CASE IsNull(column[j])
        BY <1>2, <1>6, <3>1, <3>2, ItemsAre
      <3>3. CASE ~IsNull(column[j])
        <4>1. Is(column[j], "list") /\ Len(Items(column[j])) = size
          BY <1>6, <3>3 DEF ListsOnly
        <4>2. b[j] = column[j].list /\ Items(column[j]) = column[j].list
          BY <3>1, <4>1, ItemsAre
        <4>3. QED
          BY <1>2, <4>1, <4>2
      <3>4. QED
        BY <3>2, <3>3
    <2> HIDE DEF b, n, size
    <2>3. \A k \in 0..n : Len(Flat(b, k)) = size * k
      <3>1. size \in Nat
        BY <2>1 DEF size
      <3>2. QED
        <4>1. n \in Nat
          BY <1>1
        <4>2. OfOneLength(b, V, n, size)
          BY <2>2 DEF OfOneLength
        <4>3. QED
          BY <3>1, <4>1, <4>2, FlatSame
    <2>4. i - 1 \in 0..n
      BY <1>1 DEF n
    <2>5. Physical(t).kind # "list"
      BY <1>6
    <2>6. SpanOf(vector, t, i) = [offset |-> size * (i - 1), length |-> size]
      BY <1>6, <2>5 DEF SpanOf, size
    <2>7. Len(b[i]) = size
      BY <2>2 DEF n
    <2>8. QED
      BY <1>3, <1>4, <2>3, <2>4, <2>6, <2>7 DEF b
  <1>7. QED
    BY <1>5, <1>6 DEF IsListKind

\* What is read of the items holds what the lists are to hold.
LEMMA ListPlaced ==
    ASSUME NEW T, NEW Depth, NEW V, CodecsDefined(T, Depth, V), NEW t \in T, IsListKind(t),
           NEW column \in Seq(V), NEW vector,
           Physical(t).kind = "list" => vector.entries = Entries(column),
           Physical(t).kind = "array" => vector.size = t.info.size,
           ListsOnly(column, t), NEW i \in 1..Len(column), ~IsNull(column[i]),
           NEW value, Placed(value, ItemColumn(column, t), t.info.child)
    PROVE  /\ Held(column[i], t).ok => RowList(vector, t, value, i) = Held(column[i], t).value
           /\ ~(SpanOf(vector, t, i).offset + SpanOf(vector, t, i).length > Len(value))
  <1> DEFINE b == Laying(column, t)
             n == Len(column)
             items == ItemColumn(column, t)
             list == column[i].list
             off == Len(Flat(b, i - 1))
             m == Len(list)
  <1>1. /\ SpanOf(vector, t, i).offset = off /\ SpanOf(vector, t, i).length = Len(b[i])
        /\ b[i] = list /\ Is(column[i], "list") /\ list \in Seq(V)
    <2> HIDE DEF b, n, items, list, off, m
    <2>1. /\ SpanOf(vector, t, i).offset = Len(Flat(Laying(column, t), i - 1))
          /\ SpanOf(vector, t, i).length = Len(Laying(column, t)[i])
          /\ Laying(column, t)[i] = column[i].list
          /\ Is(column[i], "list") /\ column[i].list \in Seq(V)
      BY SpansAre
    <2>2. QED
      BY <2>1 DEF b, list, off
  <1>2. IsLaid(b, n, i)
    BY ItemColumnIs
  <1>3. /\ off \in Nat /\ m \in Nat /\ off + m <= Len(items)
        /\ \A k \in 1..m : items[off + k] = list[k]
    BY <1>1, <1>2 DEF IsLaid, ItemColumn
  <1>4. Len(items) \in Nat
    BY ItemColumnIs
  <1>5. PICK S : value \in Seq(S)
    BY DEF Placed
  <1>6. Len(value) >= Len(items) /\ Len(value) \in Nat
    BY <1>5 DEF Placed
  <1> HIDE DEF b, n, items, list, off, m
  <1>7. off + m <= Len(value)
    BY <1>3, <1>4, <1>6
  <1>8. SpanOf(vector, t, i).length = m
    BY <1>1 DEF m
  <1>9. ASSUME Held(column[i], t).ok
        PROVE  RowList(vector, t, value, i) = Held(column[i], t).value
    <2>1. column[i] \in V /\ t.id \in ListIds \cup {"ARRAY"}
      <3>1. t.id \in ListIds \cup {"ARRAY"}
        BY ListTypeIs DEF CodecsDefined
      <3>2. QED
        BY <3>1
    <2>2. ListFits(column[i], t) /\ Held(column[i], t) = Ok(ListOf(HeldItems(column[i], t)))
      <3>1. ~Fail("does not fit").ok
        BY DEF Fail
      <3>2. QED
        BY <1>9, <2>1, <3>1, HeldList
    <2>3. \A k \in 1..m : Held(list[k], t.info.child).ok
      BY <2>2 DEF ListFits, list, m
    <2>4. ASSUME NEW k \in 1..m
          PROVE  value[off + k] = Held(list[k], t.info.child).value
      <3>1. off + k \in 1..Len(items) /\ items[off + k] = list[k]
        BY <1>3, <1>4
      <3>2. Held(items[off + k], t.info.child).ok
        BY <2>3, <3>1
      <3>3. QED
        BY <3>1, <3>2 DEF Placed, items
    <2>5. SubSeq(value, off + 1, off + m) = [k \in 1..m |-> value[off + k]]
      BY <1>3, <1>5, <1>6, <1>7
    <2>6. HeldItems(column[i], t) = [k \in 1..m |-> Held(list[k], t.info.child).value]
      BY DEF HeldItems, list, m
    <2>7. SubSeq(value, off + 1, off + m) = HeldItems(column[i], t)
      BY <2>4, <2>5, <2>6
    <2>8. RowList(vector, t, value, i) = ListOf(SubSeq(value, off + 1, off + m))
      BY <1>1, <1>8 DEF RowList
    <2>9. Held(column[i], t).value = ListOf(HeldItems(column[i], t))
      BY <2>2 DEF Ok
    <2>10. QED
      BY <2>7, <2>8, <2>9
  <1>10. ~(SpanOf(vector, t, i).offset + SpanOf(vector, t, i).length > Len(value))
    BY <1>1, <1>3, <1>6, <1>7, <1>8
  <1>11. QED
    BY <1>9, <1>10

\* The lists of NULLs are not looked at.
LEMMA ListsPlaced ==
    ASSUME NEW T, NEW Depth, NEW V, CodecsDefined(T, Depth, V), NEW t \in T, IsListKind(t),
           NEW column \in Seq(V), NEW vector, vector.form = "flat", vector.mask = Mask(column),
           vector.child = Encoded(ItemColumn(column, t), t.info.child).value,
           Encoded(ItemColumn(column, t), t.info.child).ok,
           Physical(t).kind = "list" => vector.entries = Entries(column),
           Physical(t).kind = "array" => vector.size = t.info.size,
           ListsOnly(column, t), NEW count \in Nat, count >= Len(column),
           ReadSize(vector, t, count) >= Len(ItemColumn(column, t)),
           Keeps(ItemColumn(column, t), t.info.child, ReadSize(vector, t, count)),
           Decoded(vector, t, count).ok
    PROVE  LET d == Decoded(vector, t, count)
           IN d = Ok(d.value) /\ Placed(d.value, column, t)
  <1> DEFINE d == Decoded(vector, t, count)
             n == Len(column)
             dec == Decoded(vector.child, t.info.child, ReadSize(vector, t, count))
             row == [i \in 1..count |-> RowList(vector, t, dec.value, i)]
             out == [i \in 1..count |->
                        IF IsValid(vector, i) THEN RowList(vector, t, dec.value, i) ELSE Null]
  <1>1. n \in Nat
    OBVIOUS
  <1>2. dec.ok /\ d = Ok(out)
    BY ListsRead
  <1>3. Placed(dec.value, ItemColumn(column, t), t.info.child)
    <2>1. dec = Decoded(Encoded(ItemColumn(column, t), t.info.child).value, t.info.child,
                        ReadSize(vector, t, count))
      OBVIOUS
    <2> HIDE DEF dec
    <2>2. QED
      BY <1>2, <2>1 DEF Keeps
  <1> HIDE DEF dec
  <1>4. ASSUME NEW i \in 1..n, ~IsNull(column[i]), Held(column[i], t).ok
        PROVE  row[i] = Held(column[i], t).value
    <2>1. RowList(vector, t, dec.value, i) = Held(column[i], t).value
      BY <1>3, <1>4, ListPlaced
    <2>2. QED
      BY <1>1, <2>1
  <1>5. row \in Seq({row[i] : i \in 1..count}) /\ Len(row) = count
    OBVIOUS
  <1>6. out = [i \in DOMAIN row |-> IF IsValid(vector, i) THEN row[i] ELSE Null]
    OBVIOUS
  <1> HIDE DEF row, out
  <1>7. Placed([i \in DOMAIN row |-> IF IsValid(vector, i) THEN row[i] ELSE Null], column, t)
    <2> DEFINE S == {row[i] : i \in 1..count}
    <2>1. row \in Seq(S) /\ Len(row) >= Len(column)
      BY <1>5
    <2>2. \A i \in 1..Len(column) : ~IsNull(column[i]) /\ Held(column[i], t).ok
                                        => row[i] = Held(column[i], t).value
      BY <1>4
    <2>3. vector.mask = Mask(column)
      OBVIOUS
    <2> HIDE DEF S, d, n
    <2>4. QED
      BY <2>1, <2>2, <2>3, MaskedPlaced
  <1> HIDE DEF d
  <1>8. d.value = out
    BY <1>2 DEF Ok
  <1>9. QED
    BY <1>2, <1>6, <1>7, <1>8 DEF d

\* The vector of lists, as it is sent, says where the items are.
LEMMA ListVectorIs ==
    ASSUME NEW column, NEW t, IsListKind(t)
    PROVE  LET vector == ListVector(column, t)
           IN /\ vector.form = "flat" /\ vector.mask = Mask(column)
              /\ vector.child = Encoded(ItemColumn(column, t), t.info.child).value
              /\ Physical(t).kind = "list" =>
                    vector.entries = Entries(column) /\ vector.size = Len(ItemColumn(column, t))
              /\ Physical(t).kind = "array" => vector.size = t.info.size
  BY DEF ListVector, IsListKind

\* A reader of enough rows reads all the items.
LEMMA ReadSizeIs ==
    ASSUME NEW T, NEW Depth, NEW V, CodecsDefined(T, Depth, V), NEW t \in T, IsListKind(t),
           NEW column \in Seq(V), NEW vector, vector = ListVector(column, t), ListsOnly(column, t),
           NEW count \in Nat, count >= Len(column)
    PROVE  /\ ReadSize(vector, t, count) \in Nat
           /\ ReadSize(vector, t, count) >= Len(ItemColumn(column, t))
           /\ count = Len(column) => ReadSize(vector, t, count) = Len(ItemColumn(column, t))
  <1> DEFINE n == Len(column)
             items == ItemColumn(column, t)
             b == Laying(column, t)
  <1>1. n \in Nat /\ Len(items) \in Nat
    BY ItemColumnIs
  <1>2. CASE Physical(t).kind = "list"
    <2>1. ReadSize(vector, t, count) = Len(items)
      BY <1>2, ListVectorIs DEF ReadSize
    <2>2. QED
      BY <1>1, <2>1
  <1>3. CASE Physical(t).kind = "array"
    <2> DEFINE size == t.info.size
    <2>1. size \in Nat
      BY <1>3, ListTypeIs DEF CodecsDefined
    <2>2. ReadSize(vector, t, count) = size * count
      BY <1>3, ListVectorIs DEF ReadSize
    <2>3. Len(items) = size * n
      <3>1. ASSUME NEW j \in 1..n PROVE b[j] \in Seq(V) /\ Len(b[j]) = size
        <4>1. column[j] \in V /\ b[j] = ItemsOf(column[j], t) /\ b[j] \in Seq(V)
          BY ItemColumnIs
        <4>2. CASE IsNull(column[j])
          BY <1>3, <4>1, <4>2, ItemsAre
        <4>3. CASE ~IsNull(column[j])
          <5>1. Is(column[j], "list") /\ Len(Items(column[j])) = size
            BY <1>3, <4>3 DEF ListsOnly
          <5>2. b[j] = column[j].list /\ Items(column[j]) = column[j].list
            BY <4>1, <5>1, ItemsAre
          <5>3. QED
            BY <4>1, <5>1, <5>2
        <4>4. QED
          BY <4>2, <4>3
      <3> HIDE DEF b, n, size
      <3>2. OfOneLength(b, V, n, size)
        BY <3>1 DEF OfOneLength
      <3>3. size \in Nat
        BY <2>1 DEF size
      <3>4. \A k \in 0..n : Len(Flat(b, k)) = size * k
        BY <1>1, <3>2, <3>3, FlatSame
      <3>5. Len(Flat(b, n)) = size * n
        BY <1>1, <3>4
      <3>6. QED
        BY <3>5 DEF ItemColumn, b, n
    <2> HIDE DEF size, items, n
    <2>4. size * count \in Nat /\ size * count >= size * n
      <3>1. PICK d \in Nat : count = n + d
        <4>1. count - n \in Nat /\ count = n + (count - n)
          BY <1>1 DEF n
        <4>2. QED
          BY <4>1
      <3>2. size \in Nat
        BY <2>1
      <3>3. size * count = size * n + size * d /\ size * d \in Nat /\ size * n \in Nat
        BY <1>1, <3>1, <3>2
      <3>4. QED
        BY <3>3
    <2>5. QED
      BY <2>2, <2>3, <2>4 DEF n, items
  <1>4. QED
    BY <1>2, <1>3 DEF IsListKind

\* What is sent of lists holds every list in its row, if that is so of the items.
LEMMA ListsKeep ==
    ASSUME NEW T, NEW Depth, NEW V, CodecsDefined(T, Depth, V), NEW t \in T, IsListKind(t),
           NEW column \in Seq(V), NEW count \in Nat,
           \A n \in Nat : Keeps(ItemColumn(column, t), t.info.child, n)
    PROVE  Keeps(column, t, count)
  <1> DEFINE e == Encoded(column, t)
             vector == ListVector(column, t)
             d == Decoded(e.value, t, count)
  <1> SUFFICES ASSUME e.ok, count >= Len(column), d.ok
               PROVE  d = Ok(d.value) /\ Placed(d.value, column, t)
    BY DEF Keeps
  <1>1. /\ e = Ok(vector) /\ ListsOnly(column, t)
        /\ Encoded(ItemColumn(column, t), t.info.child).ok
    BY ListsSent
  <1>2. e.value = vector
    BY <1>1 DEF Ok
  <1>3. /\ vector.form = "flat" /\ vector.mask = Mask(column)
        /\ vector.child = Encoded(ItemColumn(column, t), t.info.child).value
        /\ Physical(t).kind = "list" => vector.entries = Entries(column)
        /\ Physical(t).kind = "array" => vector.size = t.info.size
    BY ListVectorIs
  <1>4. ReadSize(vector, t, count) \in Nat /\ ReadSize(vector, t, count) >= Len(ItemColumn(column, t))
    BY <1>1, ReadSizeIs
  <1> HIDE DEF e, vector
  <1>5. Keeps(ItemColumn(column, t), t.info.child, ReadSize(vector, t, count))
    BY <1>4
  <1>6. Decoded(vector, t, count).ok
    BY <1>2
  <1>7. /\ Decoded(vector, t, count) = Ok(Decoded(vector, t, count).value)
        /\ Placed(Decoded(vector, t, count).value, column, t)
    BY <1>1, <1>3, <1>4, <1>5, <1>6, ListsPlaced
  <1>8. QED
    BY <1>2, <1>7

\* The items of the lists that a column is to hold are held too.
LEMMA ItemsHeld ==
    ASSUME NEW T, NEW Depth, NEW V, CodecsDefined(T, Depth, V), NEW t \in T, IsListKind(t),
           NEW column \in Seq(V), AllHeld(column, t)
    PROVE  ListsOnly(column, t)
           /\ AllHeld(ItemColumn(column, t), t.info.child)
  <1>1. t.id \in ListIds \cup {"ARRAY"} /\ t.info.child \in T
        /\ (Physical(t).kind = "list" <=> t.id # "ARRAY")
    BY ListTypeIs DEF CodecsDefined
  <1>2. ASSUME NEW i \in 1..Len(column), ~IsNull(column[i])
        PROVE  /\ Is(column[i], "list")
               /\ (Physical(t).kind = "array" => Len(Items(column[i])) = t.info.size)
               /\ \A k \in 1..Len(ItemsOf(column[i], t)) : Held(ItemsOf(column[i], t)[k], t.info.child).ok
    <2>1. column[i] \in V /\ Held(column[i], t).ok
      BY DEF AllHeld
    <2>2. ListFits(column[i], t)
      <3>1. ~Fail("does not fit").ok
        BY DEF Fail
      <3>2. QED
        BY <1>1, <1>2, <2>1, <3>1, HeldList
    <2>3. /\ Is(column[i], "list") /\ (t.id = "ARRAY" => Len(column[i].list) = t.info.size)
          /\ \A k \in 1..Len(column[i].list) : Held(column[i].list[k], t.info.child).ok
      BY <2>2 DEF ListFits
    <2>4. Items(column[i]) = column[i].list /\ ItemsOf(column[i], t) = column[i].list
      BY <2>1, <2>3, ItemsAre
    <2>5. Physical(t).kind = "array" => t.id = "ARRAY"
      BY <1>1
    <2>6. QED
      BY <2>3, <2>4, <2>5
  <1>3. ASSUME NEW i \in 1..Len(column), IsNull(column[i]), NEW k \in 1..Len(ItemsOf(column[i], t))
        PROVE  Held(ItemsOf(column[i], t)[k], t.info.child).ok
    <2>1. column[i] \in V
      OBVIOUS
    <2>2. CASE Physical(t).kind = "list"
      <3>1. ItemsOf(column[i], t) = <<>>
        BY <1>3, <2>1, <2>2, ItemsAre
      <3>2. 1..Len(ItemsOf(column[i], t)) = {}
        BY <3>1
      <3>3. QED
        BY <3>2
    <2>3. CASE Physical(t).kind = "array"
      <3>1. ItemsOf(column[i], t)[k] = Null
        <4>1. Len(ItemsOf(column[i], t)) = t.info.size
          BY <1>3, <2>1, <2>3, ItemsAre
        <4>2. k \in 1..t.info.size
          BY <4>1
        <4>3. \A j \in 1..t.info.size : ItemsOf(column[i], t)[j] = Null
          BY <1>3, <2>1, <2>3, ItemsAre
        <4>4. QED
          BY <4>2, <4>3
      <3>2. Null \in V /\ IsNull(Null)
        BY DEF CodecsDefined, ValuesNested, IsValue, Null, IsNull, Is
      <3>3. Held(Null, t.info.child) = Ok(Null)
        BY <1>1, <3>2, HeldIs
      <3>4. QED
        BY <3>1, <3>3 DEF Ok
    <2>4. QED
      BY <2>2, <2>3 DEF IsListKind
  <1>4. ListsOnly(column, t)
    BY <1>2 DEF ListsOnly
  <1> DEFINE U == {v \in V : Held(v, t.info.child).ok}
             b == Laying(column, t)
             n == Len(column)
  <1>5. ASSUME NEW i \in 1..n PROVE b[i] \in Seq(U)
    <2>1. b[i] = ItemsOf(column[i], t) /\ b[i] \in Seq(V)
      BY ItemColumnIs
    <2>2. \A k \in 1..Len(b[i]) : Held(b[i][k], t.info.child).ok
      BY <1>2, <1>3, <2>1
    <2>3. \A k \in 1..Len(b[i]) : b[i][k] \in U
      BY <2>1, <2>2
    <2> HIDE DEF U, b
    <2>4. QED
      BY <2>1, <2>3
  <1>6. Flat(b, n) \in Seq(U)
    <2>1. n \in Nat
      OBVIOUS
    <2> HIDE DEF U, b, n
    <2>2. QED
      BY <1>5, <2>1, FlatType
  <1>7. AllHeld(ItemColumn(column, t), t.info.child)
    <2>1. \A k \in 1..Len(Flat(b, n)) : Flat(b, n)[k] \in U
      <3> HIDE DEF U, b, n
      <3>1. QED
        BY <1>6
    <2>2. QED
      BY <2>1 DEF AllHeld, ItemColumn
  <1>8. QED
    BY <1>4, <1>7

\* A column of lists whose type can hold it is sent and read, if that of the items is.
LEMMA ListsReturn ==
    ASSUME NEW T, NEW Depth, NEW V, CodecsDefined(T, Depth, V), NEW t \in T, IsListKind(t),
           NEW column \in Seq(V),
           Returns(ItemColumn(column, t), t.info.child),
           \A n \in Nat : Keeps(ItemColumn(column, t), t.info.child, n)
    PROVE  Returns(column, t)
  <1> DEFINE e == Encoded(column, t)
             n == Len(column)
             vector == ListVector(column, t)
             d == Decoded(e.value, t, n)
             items == ItemColumn(column, t)
             child == Encoded(items, t.info.child)
             dec == Decoded(vector.child, t.info.child, ReadSize(vector, t, n))
  <1> SUFFICES ASSUME Supported(t), AllHeld(column, t) PROVE e.ok /\ d.ok /\ Len(d.value) = n
    BY DEF Returns
  <1>1. ListsOnly(column, t) /\ AllHeld(items, t.info.child)
    BY ItemsHeld
  <1>2. Supported(t.info.child)
    BY ListTypeIs, SupportedIs DEF CodecsDefined
  <1>3. child.ok /\ Decoded(child.value, t.info.child, Len(items)).ok
    BY <1>1, <1>2 DEF Returns
  <1>4. e = Ok(vector)
    BY <1>1, <1>3, ListsSent
  <1>5. n \in Nat /\ Len(items) \in Nat
    BY ItemColumnIs
  <1>6. /\ vector.form = "flat" /\ vector.mask = Mask(column) /\ vector.child = child.value
        /\ Physical(t).kind = "list" => vector.entries = Entries(column)
        /\ Physical(t).kind = "array" => vector.size = t.info.size
    BY ListVectorIs
  <1>7. ReadSize(vector, t, n) = Len(items)
    BY <1>1, <1>5, ReadSizeIs
  <1>8. dec.ok /\ Placed(dec.value, items, t.info.child)
    <2>1. dec = Decoded(child.value, t.info.child, Len(items))
      BY <1>6, <1>7
    <2>2. Keeps(items, t.info.child, Len(items))
      BY <1>5
    <2> HIDE DEF items, dec
    <2>3. Len(items) >= Len(items)
      BY <1>5
    <2>4. QED
      BY <1>3, <2>1, <2>2, <2>3 DEF Keeps
  <1> HIDE DEF e, vector, items, child, dec
  <1>9. \A i \in 1..n : IsValid(vector, i) =>
           ~(SpanOf(vector, t, i).offset + SpanOf(vector, t, i).length > Len(dec.value))
    <2> SUFFICES ASSUME NEW i \in 1..n, IsValid(vector, i)
                 PROVE  ~(SpanOf(vector, t, i).offset + SpanOf(vector, t, i).length > Len(dec.value))
      OBVIOUS
    <2>1. ~IsNull(column[i])
      BY <1>6, ValidIs
    <2>2. Placed(dec.value, ItemColumn(column, t), t.info.child)
      BY <1>8 DEF items
    <2>3. QED
      BY <1>1, <1>6, <2>1, <2>2, ListPlaced
  <1>10. LengthsAgree(vector, t, n)
    <2>1. Physical(t).kind \notin FixedKinds /\ Physical(t).kind # "struct"
      BY DEF FixedKinds, IsListKind
    <2>2. Len(Entries(column)) = n
      <3>1. DOMAIN column = 1..n
        OBVIOUS
      <3>2. QED
        BY <1>5, <3>1 DEF Entries
    <2>3. QED
      BY <1>6, <2>1, <2>2, LengthsOfOwn
  <1> DEFINE out == [i \in 1..n |->
                       IF IsValid(vector, i) THEN RowList(vector, t, dec.value, i) ELSE Null]
  <1>11. Decoded(vector, t, n) = Ok(out)
    <2> DEFINE read == Decoded(vector.child, t.info.child, ReadSize(vector, t, n))
               given == [i \in 1..n |->
                           IF IsValid(vector, i) THEN RowList(vector, t, read.value, i) ELSE Null]
               inside == \A i \in 1..n : IsValid(vector, i) =>
                            ~(SpanOf(vector, t, i).offset + SpanOf(vector, t, i).length
                                > Len(read.value))
    <2>1. dec = read /\ out = given
      BY DEF dec
    <2>2. inside
      BY <1>9, <2>1
    <2>3. LengthsAgree(vector, t, n) /\ read.ok
      BY <1>8, <1>10, <2>1
    <2>4. vector.form = "flat" /\ n \in Nat
      BY <1>5, <1>6
    <2>5. LengthsAgree(vector, t, n) /\ read.ok /\ inside => Decoded(vector, t, n) = Ok(given)
      <3> HIDE DEF out, dec, n
      <3>1. QED
        BY <2>4, ListsRead
    <2> HIDE DEF read, given, inside, out, dec
    <2>6. QED
      BY <2>1, <2>2, <2>3, <2>5
  <1>12. Len(out) = n
    BY <1>5
  <1> HIDE DEF out
  <1>13. QED
    BY <1>4, <1>11, <1>12 DEF Ok

-------------------------------------------------------------------------------
(* Columns of any type *)

\* A column of a type without a layout is refused.
LEMMA NoneSent ==
    ASSUME NEW T, NEW Depth, NEW V, CodecsDefined(T, Depth, V), NEW t \in T, NEW column \in Seq(V),
           Physical(t).kind = "none"
    PROVE  ~Encoded(column, t).ok
  <1> DEFINE inside == Inner(column, t)
             inner == [k \in DOMAIN inside |-> Encoded(inside[k].values, inside[k].type)]
  <1>1. Encoded(column, t) = EncodedOf(column, t, inner)
    BY DEF CodecsDefined, VectorsSentAsDefined
  <1> HIDE DEF inner
  <1>2. EncodedOf(column, t, inner) = Fail("unsupported")
    <2>1. Physical(t).kind \notin FixedKinds
      BY DEF FixedKinds
    <2>2. QED
      BY <2>1, Zenon DEF EncodedOf
  <1>3. QED
    BY <1>1, <1>2 DEF Fail

\* A type of which all columns are kept and returned.
Carries(t, V) ==
    /\ \A column \in Seq(V), count \in Nat : Keeps(column, t, count)
    /\ \A column \in Seq(V) : Returns(column, t)

\* What is so of the types inside is so of the type.
LEMMA CarriesOf ==
    ASSUME NEW T, NEW Depth, NEW V, CodecsDefined(T, Depth, V), NEW t \in T,
           \A u \in T : Depth[u] < Depth[t] => Carries(u, V)
    PROVE  Carries(t, V)
  <1>1. TypesNested(T, Depth) /\ ValuesNested(V)
    BY DEF CodecsDefined
  <1>2. Physical(t).kind \in FixedKinds \cup {"text", "struct", "list", "array", "none"}
    BY <1>1, KindIs
  <1>3. CASE Physical(t).kind \in FixedKinds
    BY <1>3, WordsKeep, WordsReturn DEF Carries
  <1>4. CASE Physical(t).kind = "text"
    BY <1>4, TextsKeep, TextsReturn DEF Carries
  <1>5. CASE Physical(t).kind = "struct"
    <2> SUFFICES ASSUME NEW column \in Seq(V), NEW count \in Nat
                 PROVE  Keeps(column, t, count) /\ Returns(column, t)
      BY DEF Carries
    <2>1. t.id \in StructIds
      BY <1>1, <1>5, KindIs
    <2>2. ASSUME NEW k \in DOMAIN Names(t)
          PROVE  /\ Keeps(FieldColumn(column, Names(t)[k]), t.info.children[k], count)
                 /\ Returns(FieldColumn(column, Names(t)[k]), t.info.children[k])
                 /\ AllHeld(column, t) => AllHeld(FieldColumn(column, Names(t)[k]), t.info.children[k])
      <3>1. t.info.children[k] \in T /\ Depth[t.info.children[k]] < Depth[t]
        BY <1>1, NamesAre
      <3>2. FieldColumn(column, Names(t)[k]) \in Seq(V)
        BY <1>1, FieldColumnIs
      <3>3. Carries(t.info.children[k], V)
        BY <3>1
      <3>4. AllHeld(column, t) => AllHeld(FieldColumn(column, Names(t)[k]), t.info.children[k])
        BY <2>1, FieldsHeld
      <3>5. QED
        BY <3>2, <3>3, <3>4 DEF Carries
    <2>3. Keeps(column, t, count)
      BY <1>5, <2>2, StructsKeep
    <2>4. Returns(column, t)
      BY <1>5, <2>2, StructsReturn
    <2>5. QED
      BY <2>3, <2>4
  <1>6. CASE IsListKind(t)
    <2> SUFFICES ASSUME NEW column \in Seq(V), NEW count \in Nat
                 PROVE  Keeps(column, t, count) /\ Returns(column, t)
      BY DEF Carries
    <2>1. t.info.child \in T /\ Depth[t.info.child] < Depth[t]
      BY <1>1, <1>6, ListTypeIs
    <2>2. ItemColumn(column, t) \in Seq(V)
      BY <1>6, ItemColumnIs
    <2>3. /\ \A n \in Nat : Keeps(ItemColumn(column, t), t.info.child, n)
          /\ Returns(ItemColumn(column, t), t.info.child)
      BY <2>1, <2>2 DEF Carries
    <2>4. Keeps(column, t, count)
      BY <1>6, <2>3, ListsKeep
    <2>5. Returns(column, t)
      BY <1>6, <2>3, ListsReturn
    <2>6. QED
      BY <2>4, <2>5
  <1>7. CASE Physical(t).kind = "none"
    <2>1. \A column \in Seq(V), count \in Nat : Keeps(column, t, count)
      BY <1>7, NoneSent DEF Keeps
    <2>2. \A column \in Seq(V) : Returns(column, t)
      BY <1>7, SupportedIs DEF Returns
    <2>3. QED
      BY <2>1, <2>2 DEF Carries
  <1>8. QED
    BY <1>2, <1>3, <1>4, <1>5, <1>6, <1>7 DEF IsListKind

\* By induction on the depth of types, all columns are kept and returned.
LEMMA CarriesAll ==
    ASSUME NEW T, NEW Depth, NEW V, CodecsDefined(T, Depth, V)
    PROVE  \A t \in T : Carries(t, V)
  <1> DEFINE S == {t \in T : Carries(t, V)}
  <1>1. Depth \in [T -> Nat]
    BY DEF CodecsDefined, TypesNested
  <1>2. ASSUME NEW t \in T, \A u \in T : Depth[u] < Depth[t] => u \in S PROVE t \in S
    BY <1>2, CarriesOf
  <1>3. T \subseteq S
    <2> HIDE DEF S
    <2>1. QED
      BY <1>1, <1>2, RankInduction
  <1>4. QED
    BY <1>3

-------------------------------------------------------------------------------
(* What append_rows makes of values says what they say *)

Stays(v, t, V) ==
    /\ Normalized(v, t) \in V
    /\ IsNull(Normalized(v, t)) <=> IsNull(v)
    /\ Held(v, t).ok => Held(Normalized(v, t), t) = Held(v, t)

\* A list is made of its items, a struct without a type too (builders.rs:175-210).
LEMMA ListStays ==
    ASSUME NEW T, NEW Depth, NEW V, CodecsDefined(T, Depth, V), NEW t \in T, NEW v \in V,
           Is(v, "list"), HasItems(t),
           \A u \in T, w \in V : Depth[u] < Depth[t] => Stays(w, u, V)
    PROVE  Stays(v, t, V)
  <1> DEFINE child == t.info.child
             n == Len(v.list)
             inside == NormalizedParts(v, t)
             parts == [k \in DOMAIN inside |-> Normalized(inside[k].value, inside[k].type)]
             items == [k \in 1..n |-> Normalized(v.list[k], child)]
             made == ListOf(items)
  <1>1. TypesNested(T, Depth) /\ ValuesNested(V)
    BY DEF CodecsDefined
  <1>2. child \in T /\ Depth[child] < Depth[t] /\ t.id \in ListIds \cup {"ARRAY"}
    BY <1>1, TypeIs DEF HasItems
  <1>3. v.list \in Seq(V) /\ n \in Nat /\ DOMAIN v.list = 1..n /\ ~IsNull(v) /\ ~Is(v, "struct")
    <2>1. v = [list |-> v.list] /\ v.list \in Seq(V)
      BY <1>1, ValueIs
    <2>2. DOMAIN v = {"list"}
      BY <2>1
    <2>3. QED
      BY <2>1, <2>2 DEF IsNull, Is
  <1>4. Normalized(v, t) = made
    <2>1. Normalized(v, t) = NormalizedOf(v, t, parts)
      BY DEF CodecsDefined, ValuesMadeAsDefined
    <2>2. inside = [k \in 1..n |-> [value |-> v.list[k], type |-> child]]
      <3>1. inside = [k \in DOMAIN v.list |-> [value |-> v.list[k], type |-> child]]
        BY <1>3, Zenon DEF NormalizedParts
      <3>2. QED
        BY <1>3, <3>1
    <2>3. parts = items
      BY <2>2
    <2> HIDE DEF parts
    <2>4. NormalizedOf(v, t, parts) = ListOf(parts)
      BY <1>3, Zenon DEF NormalizedOf
    <2>5. QED
      BY <2>1, <2>3, <2>4
  <1>5. ASSUME NEW k \in 1..n PROVE Stays(v.list[k], child, V)
    <2>1. v.list[k] \in V
      BY <1>3
    <2>2. QED
      BY <1>2, <2>1
  <1>6. /\ items \in Seq(V) /\ Len(items) = n
        /\ \A k \in 1..n : items[k] = Normalized(v.list[k], child)
    BY <1>3, <1>5 DEF Stays
  <1> HIDE DEF items
  <1>7. made \in V /\ Is(made, "list") /\ ~IsNull(made) /\ made.list = items
    <2>1. made \in [list : Seq(V)] /\ DOMAIN made = {"list"} /\ made.list = items
      BY <1>6 DEF ListOf
    <2>2. IsValue(made, V)
      BY <2>1 DEF IsValue
    <2>3. made \in V
      BY <1>1, <2>2 DEF ValuesNested
    <2> HIDE DEF made
    <2>4. QED
      BY <2>1, <2>3 DEF Is, IsNull
  <1> HIDE DEF made
  <1>8. ASSUME Held(v, t).ok PROVE Held(made, t) = Held(v, t)
    <2>1. ListFits(v, t) /\ Held(v, t) = Ok(ListOf(HeldItems(v, t)))
      <3>1. ~Fail("does not fit").ok
        BY DEF Fail
      <3>2. QED
        BY <1>2, <1>3, <1>8, <3>1, HeldList
    <2>2. \A k \in 1..n : Held(items[k], child) = Held(v.list[k], child) /\ Held(v.list[k], child).ok
      <3>1. \A k \in 1..n : Held(v.list[k], child).ok
        BY <2>1 DEF ListFits
      <3>2. QED
        BY <1>5, <1>6, <3>1 DEF Stays
    <2>3. ListFits(made, t)
      BY <1>6, <1>7, <2>1, <2>2 DEF ListFits
    <2>4. HeldItems(made, t) = HeldItems(v, t)
      <3>1. HeldItems(v, t) = [k \in 1..n |-> Held(v.list[k], child).value]
        BY DEF HeldItems
      <3>2. HeldItems(made, t) = [k \in 1..n |-> Held(items[k], child).value]
        BY <1>6, <1>7 DEF HeldItems
      <3> HIDE DEF n, child
      <3>3. QED
        BY <2>2, <3>1, <3>2
    <2>5. Held(made, t) = Ok(ListOf(HeldItems(made, t)))
      BY <1>2, <1>7, <2>3, HeldList
    <2>6. QED
      BY <2>1, <2>4, <2>5
  <1>9. QED
    BY <1>3, <1>4, <1>7, <1>8 DEF Stays

\* A struct is made of its fields, and the fields of the type that it lacks are NULL.
LEMMA StructStays ==
    ASSUME NEW T, NEW Depth, NEW V, CodecsDefined(T, Depth, V), NEW t \in T, NEW v \in V,
           Is(v, "struct"), t.id = "STRUCT",
           \A u \in T, w \in V : Depth[u] < Depth[t] => Stays(w, u, V)
    PROVE  Stays(v, t, V)
  <1> DEFINE names == Names(t)
             child == t.info.children
             inside == NormalizedParts(v, t)
             parts == [k \in DOMAIN inside |-> Normalized(inside[k].value, inside[k].type)]
             fields == [k \in DOMAIN names |-> Normalized(Child(v, names[k]), child[k])]
             last(name) == Max({k \in DOMAIN names : names[k] = name})
             struct == [name \in ToSet(names) |-> fields[last(name)]]
             made == [struct |-> struct]
  <1>1. TypesNested(T, Depth) /\ ValuesNested(V)
    BY DEF CodecsDefined
  <1>2. names \in Seq(STRING) /\ Len(names) \in Nat /\ DOMAIN names = 1..Len(names)
    <2>1. names \in Seq(STRING)
      BY <1>1, NamesAre
    <2>2. QED
      BY <2>1
  <1>3. \A k \in DOMAIN names : child[k] \in T /\ Depth[child[k]] < Depth[t]
    BY <1>1, NamesAre
  <1>4. ~IsNull(v) /\ ~Is(v, "list")
    <2>1. v = [struct |-> v.struct]
      BY <1>1, ValueIs
    <2>2. DOMAIN v = {"struct"}
      BY <2>1
    <2>3. QED
      BY <2>2 DEF IsNull, Is
  <1>5. Normalized(v, t) = made
    <2>1. Normalized(v, t) = NormalizedOf(v, t, parts)
      BY DEF CodecsDefined, ValuesMadeAsDefined
    <2>2. inside = [k \in DOMAIN names |-> [value |-> Child(v, names[k]), type |-> child[k]]]
      BY <1>4, Zenon DEF NormalizedParts
    <2>3. parts = fields
      <3> HIDE DEF inside
      <3>1. QED
        BY <2>2
    <2> HIDE DEF parts
    <2>4. NormalizedOf(v, t, parts) =
             [struct |-> [name \in ToSet(names) |-> parts[last(name)]]]
      BY <1>4, Zenon DEF NormalizedOf
    <2> HIDE DEF fields, last, names
    <2>5. QED
      BY <2>1, <2>3, <2>4
  <1>6. ASSUME NEW k \in DOMAIN names
        PROVE  Stays(Child(v, names[k]), child[k], V) /\ fields[k] = Normalized(Child(v, names[k]), child[k])
    <2>1. Child(v, names[k]) \in V
      BY <1>1, ChildIs
    <2>2. QED
      BY <1>3, <2>1
  <1>7. ASSUME NEW name \in ToSet(names)
        PROVE  last(name) \in DOMAIN names /\ names[last(name)] = name
    <2> DEFINE S == {k \in DOMAIN names : names[k] = name}
    <2>1. S \subseteq 1..Len(names) /\ S # {}
      BY <1>2 DEF ToSet
    <2> HIDE DEF S
    <2>2. Max(S) \in S
      BY <1>2, <2>1, MaxIs
    <2>3. QED
      BY <2>2 DEF S
  <1>8. made \in V /\ Is(made, "struct") /\ ~IsNull(made) /\ made.struct = struct
    <2>1. \A name \in ToSet(names) : fields[last(name)] \in V
      BY <1>6, <1>7 DEF Stays
    <2>2. ToSet(names) \subseteq STRING
      BY <1>2 DEF ToSet
    <2>3. DOMAIN struct = ToSet(names) /\ struct \in [ToSet(names) -> V]
      BY <2>1
    <2> HIDE DEF struct, fields, last, names
    <2>4. made = [struct |-> made.struct] /\ made.struct = struct /\ DOMAIN made = {"struct"}
      OBVIOUS
    <2>5. IsValue(made, V)
      BY <2>2, <2>3, <2>4 DEF IsValue
    <2>6. made \in V
      BY <1>1, <2>5 DEF ValuesNested
    <2> HIDE DEF made
    <2>7. QED
      BY <2>4, <2>6 DEF Is, IsNull
  <1>9. \A name \in ToSet(names) : Child(made, name) = fields[last(name)]
    <2>1. DOMAIN struct = ToSet(names) /\ \A name \in ToSet(names) : struct[name] = fields[last(name)]
      OBVIOUS
    <2> HIDE DEF made, struct, fields, last, names
    <2>2. QED
      BY <1>8, <2>1 DEF Child
  <1>10. DOMAIN made.struct = ToSet(names)
    BY <1>8
  <1> HIDE DEF made, struct, fields
  <1>11. ASSUME Held(v, t).ok PROVE Held(made, t) = Held(v, t)
    <2>1. StructFits(v, t) /\ Held(v, t) = Ok([struct |-> HeldFields(v, t)])
      <3>1. ~Fail("does not fit").ok
        BY DEF Fail
      <3>2. t.id \in StructIds
        BY DEF StructIds
      <3>3. QED
        BY <1>4, <1>11, <3>1, <3>2, HeldStruct
    <2>2. IsInjective(names) /\ \A k \in DOMAIN names : Held(Child(v, names[k]), child[k]).ok
      BY <2>1 DEF StructFits
    <2>3. ASSUME NEW k \in DOMAIN names
          PROVE  /\ Held(Child(made, names[k]), child[k]) = Held(Child(v, names[k]), child[k])
                 /\ FieldIndex(names[k], t) = k /\ names[k] \in ToSet(names)
      <3>1. names[k] \in ToSet(names)
        BY DEF ToSet
      <3>2. PICK j \in DOMAIN names : names[j] = names[k] /\ last(names[k]) = j
                                      /\ (CHOOSE i \in DOMAIN names : names[i] = names[k]) = j
        <4> HIDE DEF names
        <4>1. names \in Seq(STRING) /\ IsInjective(names) /\ names[k] \in ToSet(names)
          BY <1>2, <2>2, <3>1
        <4>2. QED
          BY <4>1, FieldFound
      <3>3. j = k
        BY <2>2, <3>2 DEF IsInjective
      <3>4. Child(made, names[k]) = Normalized(Child(v, names[k]), child[k])
        BY <1>6, <1>9, <3>1, <3>2, <3>3
      <3>5. Held(Normalized(Child(v, names[k]), child[k]), child[k]) = Held(Child(v, names[k]), child[k])
        BY <1>6, <2>2 DEF Stays
      <3>6. QED
        BY <3>1, <3>2, <3>3, <3>4, <3>5 DEF FieldIndex
    <2>4. StructFits(made, t)
      <3>1. \A k \in DOMAIN names : Held(Child(made, names[k]), child[k]).ok
        BY <2>2, <2>3
      <3>2. QED
        BY <1>8, <1>10, <2>2, <3>1, Zenon DEF StructFits
    <2>5. ASSUME NEW name \in ToSet(names)
          PROVE  Held(Child(made, name), child[FieldIndex(name, t)]).value
                    = Held(Child(v, name), child[FieldIndex(name, t)]).value
      <3>1. PICK k \in DOMAIN names : names[k] = name
        BY DEF ToSet
      <3>2. QED
        BY <2>3, <3>1
    <2>6. HeldFields(made, t) = HeldFields(v, t)
      BY <2>5 DEF HeldFields
    <2>7. Held(made, t) = Ok([struct |-> HeldFields(made, t)])
      <3>1. t.id \in StructIds
        BY DEF StructIds
      <3>2. QED
        BY <1>8, <2>4, <3>1, HeldStruct
    <2>8. QED
      BY <2>1, <2>6, <2>7
  <1>12. QED
    BY <1>4, <1>5, <1>8, <1>11 DEF Stays

\* What is so of the types inside is so of the type.
LEMMA ValueStays ==
    ASSUME NEW T, NEW Depth, NEW V, CodecsDefined(T, Depth, V), NEW t \in T, NEW v \in V,
           \A u \in T, w \in V : Depth[u] < Depth[t] => Stays(w, u, V)
    PROVE  Stays(v, t, V)
  <1>1. CASE Is(v, "list") /\ HasItems(t)
    BY <1>1, ListStays
  <1>2. CASE Is(v, "struct") /\ t.id = "STRUCT"
    BY <1>2, StructStays
  <1>3. CASE ~(Is(v, "list") /\ HasItems(t)) /\ ~(Is(v, "struct") /\ t.id = "STRUCT")
    <2> DEFINE inside == NormalizedParts(v, t)
               parts == [k \in DOMAIN inside |-> Normalized(inside[k].value, inside[k].type)]
    <2>1. Normalized(v, t) = NormalizedOf(v, t, parts)
      BY DEF CodecsDefined, ValuesMadeAsDefined
    <2> HIDE DEF parts
    <2>2. NormalizedOf(v, t, parts) = v
      BY <1>3, Zenon DEF NormalizedOf
    <2>3. QED
      BY <2>1, <2>2 DEF Stays
  <1>4. QED
    BY <1>1, <1>2, <1>3

\* By induction on the depth of types, what is made of a value says what the value says.
LEMMA NormalizedStays ==
    ASSUME NEW T, NEW Depth, NEW V, CodecsDefined(T, Depth, V)
    PROVE  \A t \in T, v \in V : Stays(v, t, V)
  <1> DEFINE S == {t \in T : \A v \in V : Stays(v, t, V)}
  <1>1. Depth \in [T -> Nat]
    BY DEF CodecsDefined, TypesNested
  <1>2. ASSUME NEW t \in T, \A u \in T : Depth[u] < Depth[t] => u \in S PROVE t \in S
    <2>1. \A u \in T, w \in V : Depth[u] < Depth[t] => Stays(w, u, V)
      BY <1>2
    <2>2. QED
      BY <2>1, ValueStays
  <1>3. T \subseteq S
    <2> HIDE DEF S
    <2>1. QED
      BY <1>1, <1>2, RankInduction
  <1>4. QED
    BY <1>3

-------------------------------------------------------------------------------
(* Types on the wire *)

InnerTypes(t) == [k \in DOMAIN TypesInside(t) |-> EncodedType(TypesInside(t)[k])]

FieldOf(x, n, default) == IF n \in DOMAIN x THEN x[n] ELSE default

\* The object of a type's metadata: what is not there has its default.
SaysInfo(x, i, inner) ==
    /\ IsFunction(x) /\ 100 \in DOMAIN x /\ x[100] = i.kind
    /\ MustHave(i.kind) \subseteq DOMAIN x
    /\ DOMAIN x \subseteq {100} \cup MustHave(i.kind) \cup MayLack(i.kind)
    /\ FieldOf(x, 101, "") = i.alias
    /\ i.kind = "DECIMAL" => FieldOf(x, 200, 0) = i.width /\ FieldOf(x, 201, 0) = i.scale
    /\ i.kind \in {"STRING", "GEO"} => FieldOf(x, 200, "") = i.text
    /\ i.kind \in {"LIST", "ARRAY"} => x[200] = inner[1]
    /\ i.kind = "ARRAY" => x[201] = i.size
    /\ i.kind = "STRUCT" =>
          /\ 200 \in DOMAIN x
          /\ x[200] = [k \in DOMAIN i.names |-> [n \in {0, 1} |-> IF n = 0 THEN i.names[k] ELSE inner[k]]]
    /\ i.kind = "ENUM" => x[200] = Len(i.texts) /\ x[201] = i.texts

\* The fields that the metadata of each kind must have, and that it may lack.
LEMMA FieldsOf ==
    ASSUME NEW kind
    PROVE  /\ kind = "LIST" => MustHave(kind) = {200} /\ MayLack(kind) = {101}
           /\ kind \in {"ARRAY", "ENUM"} => MustHave(kind) = {200, 201} /\ MayLack(kind) = {101}
           /\ kind = "DECIMAL" => MustHave(kind) = {} /\ MayLack(kind) = {101, 200, 201}
           /\ kind \in {"STRING", "GEO", "STRUCT"} => MustHave(kind) = {} /\ MayLack(kind) = {101, 200}
           /\ kind \notin {"LIST", "ARRAY", "ENUM", "DECIMAL", "STRING", "GEO", "STRUCT"} =>
                 MustHave(kind) = {} /\ MayLack(kind) = {101}
  <1>1. CASE kind = "LIST"
    BY <1>1 DEF MustHave, MayLack
  <1>2. CASE kind \in {"ARRAY", "ENUM"}
    BY <1>2 DEF MustHave, MayLack
  <1>3. CASE kind = "DECIMAL"
    BY <1>3 DEF MustHave, MayLack
  <1>4. CASE kind \in {"STRING", "GEO", "STRUCT"}
    BY <1>4 DEF MustHave, MayLack
  <1>5. CASE kind \notin {"LIST", "ARRAY", "ENUM", "DECIMAL", "STRING", "GEO", "STRUCT"}
    BY <1>5 DEF MustHave, MayLack
  <1>6. QED
    BY <1>1, <1>2, <1>3, <1>4, <1>5

\* What encode_extra_type_info writes says what the metadata is.
LEMMA InfoSent ==
    ASSUME NEW i, NEW inner
    PROVE  SaysInfo(EncodedInfo(i, inner), i, inner)
  <1> DEFINE x == EncodedInfo(i, inner)
             kind == i.kind
             Field200 ==
                CASE i.kind = "DECIMAL" -> i.width
                  [] i.kind \in {"STRING", "GEO"} -> i.text
                  [] i.kind \in {"LIST", "ARRAY"} -> inner[1]
                  [] i.kind = "STRUCT" ->
                       [k \in DOMAIN i.names |-> [n \in {0, 1} |-> IF n = 0 THEN i.names[k] ELSE inner[k]]]
                  [] i.kind = "ENUM" -> Len(i.texts)
             Field201 ==
                CASE i.kind = "DECIMAL" -> i.scale
                  [] i.kind = "ARRAY" -> i.size
                  [] i.kind = "ENUM" -> i.texts
             unsent == IF i.alias = "" THEN {101} ELSE {}
             D == {100} \cup MustHave(kind) \cup (MayLack(kind) \ unsent)
  <1>1. x = [n \in D |-> CASE n = 100 -> i.kind
                           [] n = 101 -> i.alias
                           [] n = 200 -> Field200
                           [] n = 201 -> Field201]
    BY Zenon DEF EncodedInfo
  <1> HIDE DEF x
  <1>2. /\ kind = "LIST" => MustHave(kind) = {200} /\ MayLack(kind) = {101}
        /\ kind \in {"ARRAY", "ENUM"} => MustHave(kind) = {200, 201} /\ MayLack(kind) = {101}
        /\ kind = "DECIMAL" => MustHave(kind) = {} /\ MayLack(kind) = {101, 200, 201}
        /\ kind \in {"STRING", "GEO", "STRUCT"} => MustHave(kind) = {} /\ MayLack(kind) = {101, 200}
        /\ kind \notin {"LIST", "ARRAY", "ENUM", "DECIMAL", "STRING", "GEO", "STRUCT"} =>
              MustHave(kind) = {} /\ MayLack(kind) = {101}
    BY FieldsOf
  <1>3. /\ i.kind = "DECIMAL" => Field200 = i.width /\ Field201 = i.scale
        /\ i.kind \in {"STRING", "GEO"} => Field200 = i.text
        /\ i.kind \in {"LIST", "ARRAY"} => Field200 = inner[1]
        /\ i.kind = "STRUCT" =>
              Field200 = [k \in DOMAIN i.names |-> [n \in {0, 1} |-> IF n = 0 THEN i.names[k] ELSE inner[k]]]
        /\ i.kind = "ENUM" => Field200 = Len(i.texts) /\ Field201 = i.texts
        /\ i.kind = "ARRAY" => Field201 = i.size
    <2>1. i.kind = "DECIMAL" => Field200 = i.width /\ Field201 = i.scale
      OBVIOUS
    <2>2. i.kind \in {"STRING", "GEO"} => Field200 = i.text
      OBVIOUS
    <2>3. i.kind \in {"LIST", "ARRAY"} => Field200 = inner[1]
      OBVIOUS
    <2>4. i.kind = "STRUCT" =>
              Field200 = [k \in DOMAIN i.names |-> [n \in {0, 1} |-> IF n = 0 THEN i.names[k] ELSE inner[k]]]
      BY Zenon
    <2>5. i.kind = "ENUM" => Field200 = Len(i.texts) /\ Field201 = i.texts
      OBVIOUS
    <2>6. i.kind = "ARRAY" => Field201 = i.size
      OBVIOUS
    <2>7. QED
      BY <2>1, <2>2, <2>3, <2>4, <2>5, <2>6
  <1>7. /\ 100 \in D /\ MustHave(kind) \subseteq D
        /\ D \subseteq {100} \cup MustHave(kind) \cup MayLack(kind)
        /\ i.kind = "DECIMAL" => 200 \in D /\ 201 \in D
        /\ i.kind \in {"STRING", "GEO", "LIST", "ARRAY", "STRUCT", "ENUM"} => 200 \in D
        /\ i.kind \in {"ARRAY", "ENUM"} => 201 \in D
    <2> HIDE DEF Field200, Field201
    <2>1. 100 \in D /\ MustHave(kind) \subseteq D
      OBVIOUS
    <2>2. D \subseteq {100} \cup MustHave(kind) \cup MayLack(kind)
      <3> HIDE DEF unsent
      <3>1. QED
        OBVIOUS
    <2>3. unsent \subseteq {101}
      OBVIOUS
    <2> HIDE DEF unsent
    <2>4. i.kind = "DECIMAL" => 200 \in D /\ 201 \in D
      BY <1>2, <2>3
    <2>5. i.kind \in {"STRING", "GEO", "STRUCT"} => 200 \in D
      BY <1>2, <2>3
    <2>6. i.kind = "LIST" => 200 \in D
      BY <1>2
    <2>7. i.kind \in {"ARRAY", "ENUM"} => 200 \in D /\ 201 \in D
      BY <1>2
    <2>8. QED
      BY <2>1, <2>2, <2>4, <2>5, <2>6, <2>7
  <1>9. 101 \notin D => i.alias = ""
    <2>1. 101 \in MayLack(kind)
      BY DEF MayLack
    <2>2. 101 \notin D => 101 \in unsent
      <3> HIDE DEF unsent, Field200, Field201
      <3>1. QED
        BY <2>1
    <2>3. QED
      BY <2>2
  <1> HIDE DEF Field200, Field201, D, unsent, kind
  <1>4. DOMAIN x = D /\ IsFunction(x)
    <2>1. DOMAIN x = D
      BY <1>1, Zenon
    <2>2. x = [n \in D |-> x[n]]
      <3> DEFINE G(n) == CASE n = 100 -> i.kind
                           [] n = 101 -> i.alias
                           [] n = 200 -> Field200
                           [] n = 201 -> Field201
      <3>1. x = [n \in D |-> G(n)]
        BY <1>1, Zenon
      <3> HIDE DEF G
      <3>2. QED
        BY <3>1
    <2>3. QED
      BY <2>1, <2>2, Zenon DEF IsFunction
  <1>5. /\ x[100] = i.kind
        /\ 101 \in D => x[101] = i.alias
        /\ 200 \in D => x[200] = Field200
        /\ 201 \in D => x[201] = Field201
    <2>1. x[100] = i.kind
      BY <1>1, <1>7
    <2>2. 101 \in D => x[101] = i.alias
      BY <1>1
    <2>3. 200 \in D => x[200] = Field200
      BY <1>1
    <2>4. 201 \in D => x[201] = Field201
      BY <1>1
    <2>5. QED
      BY <2>1, <2>2, <2>3, <2>4
  <1>6. FieldOf(x, 101, "") = i.alias
    BY <1>4, <1>5, <1>9 DEF FieldOf
  <1>8. QED
    <2> USE DEF kind
    <2>1. i.kind = "DECIMAL" => FieldOf(x, 200, 0) = i.width /\ FieldOf(x, 201, 0) = i.scale
      BY <1>3, <1>4, <1>5, <1>7 DEF FieldOf
    <2>2. i.kind \in {"STRING", "GEO"} => FieldOf(x, 200, "") = i.text
      BY <1>3, <1>4, <1>5, <1>7 DEF FieldOf
    <2>3. i.kind \in {"LIST", "ARRAY"} => x[200] = inner[1]
      BY <1>3, <1>5, <1>7
    <2>4. i.kind = "ARRAY" => x[201] = i.size
      BY <1>3, <1>5, <1>7
    <2>5. i.kind = "STRUCT" =>
            /\ 200 \in DOMAIN x
            /\ x[200] = [k \in DOMAIN i.names |-> [n \in {0, 1} |-> IF n = 0 THEN i.names[k] ELSE inner[k]]]
      BY <1>3, <1>4, <1>5, <1>7, Zenon
    <2>6. i.kind = "ENUM" => x[200] = Len(i.texts) /\ x[201] = i.texts
      BY <1>3, <1>5, <1>7
    <2>7. x[100] = i.kind /\ 100 \in DOMAIN x
      BY <1>4, <1>5, <1>7
    <2>8. /\ MustHave(i.kind) \subseteq DOMAIN x
          /\ DOMAIN x \subseteq {100} \cup MustHave(i.kind) \cup MayLack(i.kind)
      BY <1>4, <1>7
    <2>9. SaysInfo(x, i, inner)
      BY <1>4, <1>6, <2>1, <2>2, <2>3, <2>4, <2>5, <2>6, <2>7, <2>8, Zenon DEF SaysInfo
    <2>10. QED
      BY <2>9 DEF x

\* The types inside a type.
LEMMA InsideIs ==
    ASSUME NEW T, NEW Depth, TypesNested(T, Depth), NEW t \in T
    PROVE  /\ TypesInside(t) \in Seq(T)
           /\ \A k \in DOMAIN TypesInside(t) : Depth[TypesInside(t)[k]] < Depth[t]
           /\ t.info.kind \in {"LIST", "ARRAY"} => TypesInside(t) = <<t.info.child>>
           /\ t.info.kind = "STRUCT" =>
                 /\ TypesInside(t) = t.info.children
                 /\ t.info.names \in Seq(STRING) /\ Len(t.info.names) = Len(t.info.children)
           /\ t.info.kind \notin {"LIST", "ARRAY", "STRUCT"} => TypesInside(t) = <<>>
  <1>1. \A k \in DOMAIN TypesInside(t) : Depth[TypesInside(t)[k]] < Depth[t]
    BY DEF TypesNested
  <1>2. CASE t.info.kind \in {"LIST", "ARRAY"}
    <2>1. TypesInside(t) = <<t.info.child>>
      BY <1>2 DEF TypesInside
    <2>2. t.info.child \in T
      BY <1>2, TypeIs
    <2>3. QED
      BY <1>1, <1>2, <2>1, <2>2
  <1>3. CASE t.info.kind = "STRUCT"
    <2>1. TypesInside(t) = t.info.children
      BY <1>3 DEF TypesInside
    <2>2. /\ t.info.names \in Seq(STRING) /\ t.info.children \in Seq(T)
          /\ Len(t.info.names) = Len(t.info.children)
      BY <1>3, TypeIs
    <2>3. QED
      BY <1>1, <1>3, <2>1, <2>2
  <1>4. CASE t.info.kind \notin {"LIST", "ARRAY", "STRUCT"}
    <2>1. TypesInside(t) = <<>>
      BY <1>4 DEF TypesInside
    <2>2. QED
      BY <1>1, <1>4, <2>1
  <1>5. QED
    BY <1>2, <1>3, <1>4

\* An object that says what a type is.
Says(w, t) ==
    /\ IsFunction(w) /\ 100 \in DOMAIN w /\ w[100] = t.id
    /\ IF t.info.kind = "none" THEN 101 \notin DOMAIN w
       ELSE 101 \in DOMAIN w /\ SaysInfo(w[101], t.info, InnerTypes(t))

\* What says what a type is says what the types inside it are.
LEMMA SaysInside ==
    ASSUME NEW T, NEW Depth, TypesNested(T, Depth), NEW t \in T, NEW w, Says(w, t)
    PROVE  IsTypeObject(w) /\ Inside(w) = InnerTypes(t)
  <1> DEFINE i == w[101]
             Field(k) == [n \in {0, 1} |-> IF n = 0 THEN t.info.names[k] ELSE InnerTypes(t)[k]]
  <1>1. IsFunction(w)
    BY DEF Says
  <1>2. CASE t.info.kind = "none"
    <2>1. 101 \notin DOMAIN w
      BY <1>2 DEF Says
    <2>2. Inside(w) = <<>>
      BY <2>1 DEF Inside
    <2>3. TypesInside(t) = <<>>
      BY <1>2, InsideIs
    <2>4. InnerTypes(t) = <<>>
      BY <2>3 DEF InnerTypes
    <2>5. QED
      BY <1>1, <2>1, <2>2, <2>4 DEF IsTypeObject
  <1>3. CASE t.info.kind # "none"
    <2>1. 101 \in DOMAIN w /\ SaysInfo(i, t.info, InnerTypes(t))
      BY <1>3 DEF Says
    <2> HIDE DEF i
    <2>2. IsFunction(i) /\ i[100] = t.info.kind /\ MustHave(t.info.kind) \subseteq DOMAIN i
      BY <2>1 DEF SaysInfo
    <2>3. CASE t.info.kind \in {"LIST", "ARRAY"}
      <3>1. 200 \in DOMAIN i
        BY <2>2, <2>3 DEF MustHave
      <3>2. i[200] = InnerTypes(t)[1]
        BY <2>1, <2>3 DEF SaysInfo
      <3>3. Inside(w) = <<i[200]>>
        BY <2>1, <2>2, <2>3, <3>1 DEF Inside, i
      <3>4. TypesInside(t) = <<t.info.child>>
        BY <2>3, InsideIs
      <3>5. InnerTypes(t) = <<InnerTypes(t)[1]>>
        BY <3>4 DEF InnerTypes
      <3>6. i[100] # "STRUCT"
        BY <2>2, <2>3
      <3>7. IsTypeObject(w)
        BY <1>1, <2>2, <3>6 DEF IsTypeObject, i
      <3>8. QED
        BY <3>2, <3>3, <3>5, <3>7
    <2>4. CASE t.info.kind = "STRUCT"
      <3>1. 200 \in DOMAIN i /\ i[200] = [k \in DOMAIN t.info.names |-> Field(k)]
        BY <2>1, <2>4, Zenon DEF SaysInfo
      <3>2. DOMAIN InnerTypes(t) = DOMAIN t.info.names
        <4>1. /\ TypesInside(t) = t.info.children
              /\ t.info.names \in Seq(STRING) /\ Len(t.info.names) = Len(t.info.children)
              /\ TypesInside(t) \in Seq(T)
          BY <2>4, InsideIs
        <4>2. DOMAIN InnerTypes(t) = DOMAIN t.info.children
          BY <4>1 DEF InnerTypes
        <4>3. QED
          BY <4>1, <4>2
      <3>3. \A k : IsFunction(Field(k)) /\ 1 \in DOMAIN Field(k) /\ Field(k)[1] = InnerTypes(t)[k]
        BY DEF IsFunction
      <3> HIDE DEF Field
      <3>4. /\ DOMAIN i[200] = DOMAIN t.info.names
            /\ \A k \in DOMAIN t.info.names : i[200][k] = Field(k)
            /\ IsFunction(i[200])
        BY <3>1 DEF IsFunction
      <3>5. Inside(w) = [k \in DOMAIN i[200] |-> i[200][k][1]]
        BY <2>1, <2>2, <2>4, <3>1 DEF Inside, i
      <3>6. Inside(w) = [k \in DOMAIN t.info.names |-> InnerTypes(t)[k]]
        BY <3>3, <3>4, <3>5
      <3>7. InnerTypes(t) = [k \in DOMAIN t.info.names |-> InnerTypes(t)[k]]
        BY <3>2 DEF InnerTypes
      <3>8. IsTypeObject(w)
        BY <1>1, <2>2, <3>3, <3>4 DEF IsTypeObject, i
      <3>9. QED
        BY <3>6, <3>7, <3>8
    <2>5. CASE t.info.kind \notin {"LIST", "ARRAY", "STRUCT"}
      <3>1. Inside(w) = <<>>
        BY <2>2, <2>5 DEF Inside, i
      <3>2. TypesInside(t) = <<>>
        BY <2>5, InsideIs
      <3>3. InnerTypes(t) = <<>>
        BY <3>2 DEF InnerTypes
      <3>4. i[100] # "STRUCT"
        BY <2>2, <2>5
      <3>5. IsTypeObject(w)
        BY <1>1, <2>2, <3>4 DEF IsTypeObject, i
      <3>6. QED
        BY <3>1, <3>3, <3>5
    <2>6. QED
      BY <2>3, <2>4, <2>5
  <1>4. QED
    BY <1>2, <1>3

\* What says what metadata is is read as that metadata.
LEMMA InfoRead ==
    ASSUME NEW T, NEW Depth, TypesNested(T, Depth), NEW t \in T, t.info.kind # "none",
           NEW x, SaysInfo(x, t.info, InnerTypes(t))
    PROVE  DecodedInfo(x, TypesInside(t)) = t.info
  <1> DEFINE i == t.info
             alias == FieldOf(x, 101, "")
             kids == TypesInside(t)
  <1>0. IsInfo(i, T) /\ i.kind # "none"
    BY DEF TypesNested, IsType
  <1>1. x[100] = i.kind /\ alias = i.alias
    BY DEF SaysInfo
  <1>2. CASE i.kind = "DECIMAL"
    <2>1. FieldOf(x, 200, 0) = i.width /\ FieldOf(x, 201, 0) = i.scale
      BY <1>2 DEF SaysInfo
    <2>2. i \in [kind : {"DECIMAL"}, alias : STRING, width : Nat, scale : Nat]
      <3> HIDE DEF i
      <3>1. QED
        BY <1>0, <1>2, InfoIs
    <2>3. DecodedInfo(x, kids) = [kind |-> x[100], alias |-> alias, width |-> FieldOf(x, 200, 0),
                                  scale |-> FieldOf(x, 201, 0)]
      BY <1>1, <1>2 DEF DecodedInfo, FieldOf
    <2> HIDE DEF i, alias
    <2>4. QED
      BY <1>1, <2>1, <2>2, <2>3 DEF i
  <1>3. CASE i.kind \in {"STRING", "GEO"}
    <2>1. FieldOf(x, 200, "") = i.text
      BY <1>3 DEF SaysInfo
    <2>2. i \in [kind : {"STRING", "GEO"}, alias : STRING, text : STRING]
      <3> HIDE DEF i
      <3>1. QED
        BY <1>0, <1>3, InfoIs
    <2>3. DecodedInfo(x, kids) = [kind |-> x[100], alias |-> alias, text |-> FieldOf(x, 200, "")]
      BY <1>1, <1>3 DEF DecodedInfo, FieldOf
    <2> HIDE DEF i, alias
    <2>4. QED
      BY <1>1, <2>1, <2>2, <2>3 DEF i
  <1>4. CASE i.kind = "LIST"
    <2>1. kids = <<i.child>>
      BY <1>4, InsideIs
    <2>2. i \in [kind : {"LIST"}, alias : STRING, child : T]
      <3> HIDE DEF i
      <3>1. QED
        BY <1>0, <1>4, InfoIs
    <2>3. DecodedInfo(x, kids) = [kind |-> x[100], alias |-> alias, child |-> kids[1]]
      BY <1>1, <1>4 DEF DecodedInfo, FieldOf
    <2>4. kids[1] = i.child
      BY <2>1
    <2> HIDE DEF i, alias, kids
    <2>5. QED
      BY <1>1, <2>2, <2>3, <2>4 DEF i, kids
  <1>5. CASE i.kind = "ARRAY"
    <2>1. kids = <<i.child>> /\ x[201] = i.size
      BY <1>5, InsideIs DEF SaysInfo
    <2>2. i \in [kind : {"ARRAY"}, alias : STRING, child : T, size : Nat]
      <3> HIDE DEF i
      <3>1. QED
        BY <1>0, <1>5, InfoIs
    <2>3. DecodedInfo(x, kids) = [kind |-> x[100], alias |-> alias, child |-> kids[1], size |-> x[201]]
      BY <1>1, <1>5 DEF DecodedInfo, FieldOf
    <2>4. kids[1] = i.child
      BY <2>1
    <2> HIDE DEF i, alias, kids
    <2>5. QED
      BY <1>1, <2>1, <2>2, <2>3, <2>4 DEF i, kids
  <1>6. CASE i.kind = "STRUCT"
    <2>1. /\ x[200] = [k \in DOMAIN i.names |-> [n \in {0, 1} |-> IF n = 0 THEN i.names[k] ELSE InnerTypes(t)[k]]]
      BY <1>6, Zenon DEF SaysInfo
    <2>2. /\ i \in [kind : {"STRUCT"}, alias : STRING, names : Seq(STRING), children : Seq(T)]
          /\ Len(i.names) = Len(i.children)
      <3> HIDE DEF i
      <3>1. QED
        BY <1>0, <1>6, InfoIs
    <2>3. DecodedInfo(x, kids) = [kind |-> x[100], alias |-> alias,
                                  names |-> [k \in DOMAIN kids |-> x[200][k][0]], children |-> kids]
      BY <1>1, <1>6 DEF DecodedInfo, FieldOf
    <2>4. kids = i.children
      BY <1>6, InsideIs
    <2>5. DOMAIN kids = DOMAIN i.names /\ i.names = [k \in DOMAIN i.names |-> i.names[k]]
      <3> HIDE DEF i, kids
      <3>1. QED
        BY <2>2, <2>4
    <2>6. \A k \in DOMAIN i.names : x[200][k][0] = i.names[k]
      BY <2>1
    <2> HIDE DEF i, alias, kids
    <2>7. [k \in DOMAIN kids |-> x[200][k][0]] = i.names
      BY <2>5, <2>6
    <2>8. QED
      BY <1>1, <2>2, <2>3, <2>4, <2>7 DEF i, kids
  <1>7. CASE i.kind = "ENUM"
    <2>1. x[201] = i.texts
      BY <1>7 DEF SaysInfo
    <2>2. i \in [kind : {"ENUM"}, alias : STRING, texts : Seq(STRING)]
      <3> HIDE DEF i
      <3>1. QED
        BY <1>0, <1>7, InfoIs
    <2>3. DecodedInfo(x, kids) = [kind |-> x[100], alias |-> alias, texts |-> x[201]]
      BY <1>1, <1>7 DEF DecodedInfo, FieldOf
    <2> HIDE DEF i, alias
    <2>4. QED
      BY <1>1, <2>1, <2>2, <2>3 DEF i
  <1>8. CASE i.kind \in {"GENERIC", "INTEGER_LITERAL"}
    <2>2. i \in [kind : {"GENERIC", "INTEGER_LITERAL"}, alias : STRING]
      <3> HIDE DEF i
      <3>1. QED
        BY <1>0, <1>8, InfoIs
    <2>3. DecodedInfo(x, kids) = [kind |-> x[100], alias |-> alias]
      BY <1>1, <1>8 DEF DecodedInfo, FieldOf
    <2> HIDE DEF i, alias
    <2>4. QED
      BY <1>1, <2>2, <2>3 DEF i
  <1>9. i.kind \in Kinds
    <2> HIDE DEF i
    <2>1. QED
      BY <1>0, InfoIs
  <1>10. QED
    BY <1>0, <1>2, <1>3, <1>4, <1>5, <1>6, <1>7, <1>8, <1>9 DEF Kinds

\* A type that is read as it was sent.
Restores(t) == Readable(EncodedType(t)) /\ DecodedType(EncodedType(t)) = t

\* An object that says what a type is is read as that type.
LEMMA SaysRead ==
    ASSUME NEW T, NEW Depth, TypesNested(T, Depth), TypesReadAsDefined, NEW t \in T,
           NEW w, Says(w, t), \A k \in DOMAIN TypesInside(t) : Restores(TypesInside(t)[k])
    PROVE  Readable(w) /\ DecodedType(w) = t
  <1> DEFINE types == InnerTypes(t)
             readable == [k \in DOMAIN types |-> Readable(types[k])]
             decoded == [k \in DOMAIN types |-> DecodedType(types[k])]
             i == w[101]
  <1>1. IsTypeObject(w) /\ Inside(w) = types
    BY SaysInside
  <1>2. (Readable(w) <=> ReadableOf(w, readable)) /\ DecodedType(w) = DecodedTypeOf(w, decoded)
    BY <1>1 DEF TypesReadAsDefined
  <1>3. /\ DOMAIN types = DOMAIN TypesInside(t)
        /\ \A k \in DOMAIN TypesInside(t) : types[k] = EncodedType(TypesInside(t)[k])
    BY DEF InnerTypes
  <1>4. TypesInside(t) \in Seq(T)
    BY InsideIs
  <1>5. decoded = TypesInside(t)
    <2> HIDE DEF types
    <2>1. \A k \in DOMAIN TypesInside(t) : DecodedType(types[k]) = TypesInside(t)[k]
      BY <1>3 DEF Restores
    <2>2. decoded = [k \in DOMAIN TypesInside(t) |-> TypesInside(t)[k]]
      BY <1>3, <2>1
    <2>3. QED
      BY <1>4, <2>2
  <1>6. \A k \in DOMAIN readable : readable[k]
    <2> HIDE DEF types
    <2>1. DOMAIN readable = DOMAIN types /\ \A k \in DOMAIN types : readable[k] = Readable(types[k])
      BY Zenon
    <2>2. \A k \in DOMAIN types : Readable(types[k])
      BY <1>3, Zenon DEF Restores
    <2>3. QED
      BY <2>1, <2>2, Zenon
  <1> HIDE DEF types, readable, decoded
  <1>7. t = [id |-> t.id, info |-> t.info] /\ w[100] = t.id
    BY TypeIs DEF Says
  <1>8. CASE t.info.kind = "none"
    <2>1. 101 \notin DOMAIN w /\ t.info = NoInfo
      BY <1>8, TypeIs DEF Says
    <2>2. ReadableOf(w, readable)
      BY <2>1, Zenon DEF ReadableOf
    <2>3. DecodedTypeOf(w, decoded) = t
      BY <1>7, <2>1 DEF DecodedTypeOf
    <2>4. QED
      BY <1>2, <2>2, <2>3
  <1>9. CASE t.info.kind # "none"
    <2>1. 101 \in DOMAIN w /\ SaysInfo(i, t.info, types)
      BY <1>9 DEF Says, types
    <2>2. DecodedInfo(i, decoded) = t.info
      BY <1>5, <1>9, <2>1, InfoRead DEF types
    <2>3. DecodedTypeOf(w, decoded) = t
      BY <1>7, <2>1, <2>2 DEF DecodedTypeOf
    <2> HIDE DEF i
    <2>4. /\ MustHave(i[100]) \subseteq DOMAIN i
          /\ DOMAIN i \subseteq {100} \cup MustHave(i[100]) \cup MayLack(i[100])
          /\ i[100] = "ENUM" => Len(i[201]) = i[200]
      BY <2>1 DEF SaysInfo
    <2>5. ReadableOf(w, readable)
      BY <1>6, <2>1, <2>4, Zenon DEF ReadableOf, i
    <2>6. QED
      BY <1>2, <2>3, <2>5
  <1>10. QED
    BY <1>8, <1>9

\* What encode_logical_type writes says what the type is.
LEMMA TypeSays ==
    ASSUME NEW T, NEW Depth, NEW V, CodecsDefined(T, Depth, V), NEW t \in T
    PROVE  Says(EncodedType(t), t)
  <1> DEFINE w == EncodedType(t)
             info == EncodedInfo(t.info, InnerTypes(t))
             D == IF t.info.kind = "none" THEN {100} ELSE {100, 101}
  <1>1. w = EncodedTypeOf(t, InnerTypes(t))
    BY DEF CodecsDefined, TypesSentAsDefined, InnerTypes
  <1> HIDE DEF w
  <1>2. w = [n \in D |-> IF n = 100 THEN t.id ELSE info]
    BY <1>1 DEF EncodedTypeOf
  <1>3. SaysInfo(info, t.info, InnerTypes(t))
    BY InfoSent
  <1> HIDE DEF info
  <1>4. DOMAIN w = D /\ IsFunction(w)
    <2> HIDE DEF D
    <2>1. QED
      BY <1>2 DEF IsFunction
  <1>5. w[100] = t.id
    BY <1>2
  <1>6. t.info.kind # "none" => w[101] = info
    BY <1>2
  <1>7. QED
    BY <1>3, <1>4, <1>5, <1>6 DEF Says, w

\* By induction on the depth of types, a type is read as it was sent.
LEMMA TypesReturn ==
    ASSUME NEW T, NEW Depth, NEW V, CodecsDefined(T, Depth, V)
    PROVE  \A t \in T : Restores(t)
  <1> DEFINE S == {t \in T : Restores(t)}
  <1>1. Depth \in [T -> Nat] /\ TypesNested(T, Depth) /\ TypesReadAsDefined
    BY DEF CodecsDefined, TypesNested
  <1>2. ASSUME NEW t \in T, \A u \in T : Depth[u] < Depth[t] => u \in S PROVE t \in S
    <2>1. /\ TypesInside(t) \in Seq(T)
          /\ \A k \in DOMAIN TypesInside(t) : Depth[TypesInside(t)[k]] < Depth[t]
      BY <1>1, InsideIs
    <2>2. \A k \in DOMAIN TypesInside(t) : Restores(TypesInside(t)[k])
      BY <1>2, <2>1
    <2>3. Says(EncodedType(t), t)
      BY TypeSays
    <2>4. QED
      BY <1>1, <2>2, <2>3, SaysRead DEF Restores
  <1>3. T \subseteq S
    <2> HIDE DEF S
    <2>1. QED
      BY <1>1, <1>2, RankInduction
  <1>4. QED
    BY <1>3

\* A type that columns can have is sent.
LEMMA SupportedSent ==
    ASSUME NEW T, NEW Depth, NEW V, CodecsDefined(T, Depth, V)
    PROVE  \A t \in T : Supported(t) => Sendable(t)
  <1> DEFINE S == {t \in T : Supported(t) => Sendable(t)}
  <1>1. Depth \in [T -> Nat] /\ TypesNested(T, Depth) /\ TypesSentAsDefined(T)
    BY DEF CodecsDefined, TypesNested
  <1>2. ASSUME NEW t \in T, \A u \in T : Depth[u] < Depth[t] => u \in S PROVE t \in S
    <2> DEFINE inside == TypesInside(t)
               supported == [k \in DOMAIN inside |-> Supported(inside[k])]
               sendable == [k \in DOMAIN inside |-> Sendable(inside[k])]
    <2>1. /\ inside \in Seq(T)
          /\ \A k \in DOMAIN inside : Depth[inside[k]] < Depth[t]
      BY <1>1, InsideIs
    <2>2. \A k \in DOMAIN inside : Supported(inside[k]) => Sendable(inside[k])
      BY <1>2, <2>1
    <2>3. /\ Supported(t) <=> SupportedOf(t, supported)
          /\ Sendable(t) <=> SendableOf(t, sendable)
      BY <1>1, Zenon DEF TypesSentAsDefined
    <2> HIDE DEF inside
    <2>4. /\ DOMAIN supported = DOMAIN inside /\ DOMAIN sendable = DOMAIN inside
          /\ \A k \in DOMAIN inside : supported[k] = Supported(inside[k])
          /\ \A k \in DOMAIN inside : sendable[k] = Sendable(inside[k])
      BY Zenon
    <2> HIDE DEF supported, sendable
    <2>5. ASSUME SupportedOf(t, supported) PROVE SendableOf(t, sendable)
      <3>1. t.info.kind # "INTEGER_LITERAL" /\ \A k \in DOMAIN supported : supported[k]
        BY <2>5 DEF SupportedOf
      <3>2. \A k \in DOMAIN sendable : sendable[k]
        BY <2>2, <2>4, <3>1, Zenon
      <3>3. QED
        BY <3>1, <3>2 DEF SendableOf
    <2>6. QED
      BY <2>3, <2>5
  <1>3. T \subseteq S
    <2> HIDE DEF S
    <2>1. QED
      BY <1>1, <1>2, RankInduction
  <1>4. QED
    BY <1>3

\* What has its default may be left out.
LEMMA TerseSays ==
    ASSUME NEW t, NEW w, Says(w, t)
    PROVE  Says(Terse(w), t)
  <1> DEFINE i == w[101]
             Default(n) == i[100] = "DECIMAL" /\ n \in {200, 201} /\ i[n] = 0
             D == {m \in DOMAIN i : ~Default(m)}
             x == [n \in D |-> i[n]]
             inner == InnerTypes(t)
             kind == t.info.kind
  <1>1. CASE 101 \notin DOMAIN w
    BY <1>1 DEF Terse
  <1>2. CASE 101 \in DOMAIN w
    <2>1. SaysInfo(i, t.info, inner) /\ kind # "none" /\ IsFunction(w) /\ w[100] = t.id
          /\ 100 \in DOMAIN w
      BY <1>2 DEF Says
    <2>2. Terse(w) = [w EXCEPT ![101] = x]
      BY <1>2 DEF Terse
    <2>3. /\ IsFunction(i) /\ 100 \in DOMAIN i /\ i[100] = kind
          /\ MustHave(kind) \subseteq DOMAIN i
          /\ DOMAIN i \subseteq {100} \cup MustHave(kind) \cup MayLack(kind)
          /\ FieldOf(i, 101, "") = t.info.alias
      BY <2>1 DEF SaysInfo
    <2> HIDE DEF i, inner
    <2>4. /\ DOMAIN x = D /\ D \subseteq DOMAIN i /\ \A n \in D : x[n] = i[n]
          /\ \A n \in DOMAIN i : n \notin D => kind = "DECIMAL" /\ n \in {200, 201} /\ i[n] = 0
          /\ IsFunction(x)
      BY <2>3 DEF IsFunction
    <2> HIDE DEF x, D
    <2>5. 100 \in D /\ (101 \in DOMAIN i <=> 101 \in D)
      <3>1. 100 \in D
        <4>1. 100 \in DOMAIN i
          BY <2>3, Zenon
        <4>2. 100 \notin {200, 201}
          OBVIOUS
        <4>3. QED
          BY <2>4, <4>1, <4>2
      <3>2. 101 \in DOMAIN i => 101 \in D
        BY <2>4
      <3>3. 101 \in D => 101 \in DOMAIN i
        BY <2>4
      <3>4. QED
        BY <3>1, <3>2, <3>3
    <2>6. kind # "DECIMAL" => D = DOMAIN i /\ x = i
      <3>1. kind # "DECIMAL" => D = DOMAIN i
        BY <2>4
      <3>2. QED
        BY <2>3, <2>4, <3>1 DEF IsFunction
    <2>7. SaysInfo(x, t.info, inner)
      <3>1. CASE kind # "DECIMAL"
        BY <2>1, <2>6, <3>1
      <3>2. CASE kind = "DECIMAL"
        <4>1. FieldOf(i, 200, 0) = t.info.width /\ FieldOf(i, 201, 0) = t.info.scale
          BY <2>1, <3>2 DEF SaysInfo
        <4>2. FieldOf(x, 200, 0) = t.info.width
          BY <2>4, <4>1 DEF FieldOf
        <4>3. FieldOf(x, 201, 0) = t.info.scale
          BY <2>4, <4>1 DEF FieldOf
        <4>4. FieldOf(x, 101, "") = t.info.alias
          BY ZenonT(30), <2>3, <2>4, <2>5 DEF FieldOf
        <4>5. MustHave(kind) = {}
          BY <3>2, FieldsOf
        <4>6. x[100] = kind /\ 100 \in DOMAIN x
          BY ZenonT(30), <2>3, <2>4, <2>5
        <4>7. DOMAIN x \subseteq {100} \cup MustHave(kind) \cup MayLack(kind)
          BY <2>3, <2>4
        <4>8. QED
          BY <2>4, <3>2, <4>2, <4>3, <4>4, <4>5, <4>6, <4>7 DEF SaysInfo
      <3>3. QED
        BY <3>1, <3>2
    <2>8. [w EXCEPT ![101] = x][101] = x /\ [w EXCEPT ![101] = x][100] = w[100]
          /\ DOMAIN [w EXCEPT ![101] = x] = DOMAIN w
      BY <1>2, <2>1
    <2>9. IsFunction([w EXCEPT ![101] = x])
      BY DEF IsFunction
    <2>10. QED
      BY <1>2, <2>1, <2>2, <2>7, <2>8, <2>9 DEF Says, inner
  <1>3. QED
    BY <1>1, <1>2

\* Metadata that is missing, has a field of an extension or has a wrong count is
\* refused, or is that of a type without metadata.
LEMMA MistakenRead ==
    ASSUME NEW T, NEW Depth, TypesNested(T, Depth), TypesReadAsDefined, NEW t \in T,
           NEW w, Says(w, t), 101 \in DOMAIN w,
           NEW e \in {Without(w, 101), [w EXCEPT ![101] = With(@, 103, "extension")]}
                \cup (IF w[101][100] = "ENUM" THEN {[w EXCEPT ![101][200] = @ + 1]} ELSE {})
    PROVE  Readable(e) => DecodedType(e) = Plain(t.id)
  <1> DEFINE readable == [k \in DOMAIN Inside(e) |-> Readable(Inside(e)[k])]
             decoded == [k \in DOMAIN Inside(e) |-> DecodedType(Inside(e)[k])]
             i == w[101]
             kind == t.info.kind
  <1>1. IsTypeObject(w) /\ IsFunction(w) /\ 100 \in DOMAIN w /\ w[100] = t.id
    BY SaysInside DEF Says
  <1>2. SaysInfo(i, t.info, InnerTypes(t))
    BY DEF Says
  <1> HIDE DEF i
  <1>3. /\ IsFunction(i) /\ 100 \in DOMAIN i /\ i[100] = kind
        /\ MustHave(kind) \subseteq DOMAIN i
        /\ kind = "ENUM" => i[200] = Len(t.info.texts) /\ i[201] = t.info.texts
    BY <1>2 DEF SaysInfo
  <1>4. ASSUME IsTypeObject(e)
        PROVE  /\ Readable(e) <=> ReadableOf(e, readable)
               /\ DecodedType(e) = DecodedTypeOf(e, decoded)
    BY <1>4 DEF TypesReadAsDefined
  <1> HIDE DEF readable, decoded
  <1>5. CASE e = Without(w, 101)
    <2>1. DOMAIN e = DOMAIN w \ {101} /\ IsFunction(e) /\ \A m \in DOMAIN w \ {101} : e[m] = w[m]
      BY <1>5 DEF Without, IsFunction
    <2>2. e[100] = t.id /\ 101 \notin DOMAIN e
      BY <1>1, <2>1
    <2>3. IsTypeObject(e)
      BY <2>1, <2>2 DEF IsTypeObject
    <2>4. QED
      BY <1>4, <2>2, <2>3 DEF DecodedTypeOf, Plain
  <1>6. CASE e = [w EXCEPT ![101] = With(i, 103, "extension")]
    <2> DEFINE x == With(i, 103, "extension")
    <2>1. DOMAIN x = DOMAIN i \cup {103} /\ IsFunction(x) /\ \A m \in DOMAIN i \ {103} : x[m] = i[m]
      BY DEF With, IsFunction
    <2> HIDE DEF x
    <2>2. DOMAIN e = DOMAIN w /\ e[101] = x /\ IsFunction(e)
      BY <1>6 DEF x, IsFunction
    <2>3. x[100] = i[100] /\ (200 \in DOMAIN x => 200 \in DOMAIN i /\ x[200] = i[200])
      BY <1>3, <2>1
    <2>4. IsTypeObject(e)
      BY <1>1, <2>1, <2>2, <2>3 DEF IsTypeObject, i
    <2>5. 103 \notin {100} \cup MustHave(kind) \cup MayLack(kind)
      BY FieldsOf
    <2>6. ~(DOMAIN x \subseteq {100} \cup MustHave(x[100]) \cup MayLack(x[100]))
      BY <1>3, <2>1, <2>3, <2>5
    <2>7. ~ReadableOf(e, readable)
      BY <2>2, <2>6 DEF ReadableOf
    <2>8. QED
      BY <1>4, <2>4, <2>7
  <1>7. CASE w[101][100] = "ENUM" /\ e = [w EXCEPT ![101][200] = @ + 1]
    <2> DEFINE x == [i EXCEPT ![200] = @ + 1]
    <2>1. e = [w EXCEPT ![101] = x]
      BY <1>7 DEF i
    <2>2. kind = "ENUM" /\ 200 \in DOMAIN i /\ 201 \in DOMAIN i
      BY <1>3, <1>7, FieldsOf DEF i
    <2>3. DOMAIN x = DOMAIN i /\ IsFunction(x) /\ x[100] = "ENUM" /\ x[200] = i[200] + 1 /\ x[201] = i[201]
      BY <1>3, <2>2 DEF IsFunction
    <2> HIDE DEF x
    <2>4. DOMAIN e = DOMAIN w /\ e[101] = x /\ IsFunction(e)
      BY <2>1 DEF IsFunction
    <2>5. IsTypeObject(e)
      BY <2>3, <2>4 DEF IsTypeObject
    <2>6. Len(t.info.texts) \in Nat
      <3>1. t.info.texts \in Seq(STRING)
        BY <2>2, TypeIs
      <3>2. QED
        BY <3>1
    <2>7. Len(x[201]) # x[200]
      BY <1>3, <2>2, <2>3, <2>6
    <2>8. ~ReadableOf(e, readable)
      BY <2>3, <2>4, <2>7 DEF ReadableOf
    <2>9. QED
      BY <1>4, <2>5, <2>8
  <1>8. QED
    BY <1>5, <1>6, <1>7 DEF i

-------------------------------------------------------------------------------
(* Chunks *)

Normal(column, t) == [i \in DOMAIN column |-> Normalized(column[i], t)]
Wanted(column, t) == [i \in 1..Len(column) |-> Held(column[i], t).value]

\* What is encoded of a column's values is held as they are.
LEMMA NormalIs ==
    ASSUME NEW T, NEW Depth, NEW V, CodecsDefined(T, Depth, V), NEW t \in T, NEW column \in Seq(V)
    PROVE  /\ Normal(column, t) \in Seq(V) /\ Len(Normal(column, t)) = Len(column)
           /\ \A i \in 1..Len(column) :
                 /\ Held(column[i], t).ok => Held(Normal(column, t)[i], t) = Held(column[i], t)
                 /\ IsNull(Normal(column, t)[i]) <=> IsNull(column[i])
           /\ AllHeld(column, t) =>
                 AllHeld(Normal(column, t), t) /\ Wanted(Normal(column, t), t) = Wanted(column, t)
  <1> DEFINE n == Len(column)
             normal == Normal(column, t)
  <1>1. ASSUME NEW i \in 1..n PROVE Stays(column[i], t, V)
    <2>1. column[i] \in V
      OBVIOUS
    <2>2. QED
      BY <2>1, NormalizedStays
  <1>2. DOMAIN column = 1..n /\ n \in Nat
    OBVIOUS
  <1>3. normal \in Seq(V) /\ Len(normal) = n /\ \A i \in 1..n : normal[i] = Normalized(column[i], t)
    BY <1>1, <1>2 DEF Normal, Stays
  <1> HIDE DEF normal
  <1>4. ASSUME NEW i \in 1..n
        PROVE  /\ Held(column[i], t).ok => Held(normal[i], t) = Held(column[i], t)
               /\ IsNull(normal[i]) <=> IsNull(column[i])
    BY <1>1, <1>3 DEF Stays
  <1>5. AllHeld(column, t) => AllHeld(normal, t) /\ Wanted(normal, t) = Wanted(column, t)
    BY <1>3, <1>4 DEF AllHeld, Wanted
  <1>6. QED
    BY <1>3, <1>4, <1>5 DEF normal

\* A column is held when all its values are.
LEMMA HeldColumnIs ==
    ASSUME NEW V, NEW column \in Seq(V), NEW t
    PROVE  LET c == Collect([i \in DOMAIN column |-> Held(column[i], t)])
           IN /\ c.ok <=> AllHeld(column, t)
              /\ c.ok => c.value = Wanted(column, t)
  <1> DEFINE results == [i \in DOMAIN column |-> Held(column[i], t)]
             c == Collect(results)
  <1>1. DOMAIN column = 1..Len(column) /\ DOMAIN column \subseteq Nat
    OBVIOUS
  <1>2. DOMAIN results = DOMAIN column /\ \A i \in DOMAIN column : results[i] = Held(column[i], t)
    OBVIOUS
  <1> HIDE DEF results
  <1>3. ASSUME c.ok PROVE AllHeld(column, t) /\ c.value = Wanted(column, t)
    <2>1. /\ \A i \in DOMAIN results : results[i].ok
          /\ c = Ok([i \in DOMAIN results |-> results[i].value])
      BY <1>1, <1>2, <1>3, CollectOk
    <2>2. c.value = [i \in DOMAIN results |-> results[i].value]
      BY <2>1 DEF Ok
    <2>3. QED
      BY <1>1, <1>2, <2>1, <2>2 DEF AllHeld, Wanted
  <1>4. ASSUME AllHeld(column, t) PROVE c.ok
    <2>1. \A i \in DOMAIN results : results[i].ok
      BY <1>1, <1>2, <1>4 DEF AllHeld
    <2>2. c = Ok([i \in DOMAIN results |-> results[i].value])
      BY <2>1, CollectAll
    <2>3. QED
      BY <2>2 DEF Ok
  <1>5. QED
    BY <1>3, <1>4 DEF results

\* A chunk that is sent.
LEMMA ChunkSent ==
    ASSUME NEW column, NEW t
    PROVE  LET e == Encoded(column, t)
               sends == EncodedChunk(column, t)
               c == [count |-> Len(column), type |-> EncodedType(t), vector |-> e.value]
           IN /\ sends.ok => Sendable(t) /\ e.ok /\ sends.value = c
              /\ Sendable(t) /\ e.ok => sends.ok /\ sends.value = c
  <1> DEFINE e == Encoded(column, t)
             c == [count |-> Len(column), type |-> EncodedType(t), vector |-> e.value]
  <1>1. EncodedChunk(column, t) = IF ~Sendable(t) THEN Fail("unsupported")
                                  ELSE IF e.ok THEN Ok(c) ELSE e
    BY DEF EncodedChunk
  <1>2. ~Fail("unsupported").ok
    BY DEF Fail
  <1>3. Ok(c).ok /\ Ok(c).value = c
    BY DEF Ok
  <1> HIDE DEF e, c
  <1>4. /\ EncodedChunk(column, t).ok => Sendable(t) /\ e.ok /\ EncodedChunk(column, t).value = c
        /\ Sendable(t) /\ e.ok => EncodedChunk(column, t).ok /\ EncodedChunk(column, t).value = c
    BY <1>1, <1>2, <1>3
  <1>5. QED
    BY <1>4 DEF e, c

\* A chunk whose type is read.
LEMMA ChunkRead ==
    ASSUME NEW c, NEW t
    PROVE  LET d == Decoded(c.vector, DecodedType(c.type), c.count)
               reads == DecodedChunk(c)
           IN /\ reads.ok => /\ Readable(c.type) /\ d.ok
                             /\ reads.value = [count |-> c.count, type |-> DecodedType(c.type),
                                               values |-> d.value]
              /\ Readable(c.type) /\ d.ok =>
                    reads = Ok([count |-> c.count, type |-> DecodedType(c.type), values |-> d.value])
  <1> DEFINE d == Decoded(c.vector, DecodedType(c.type), c.count)
             r == [count |-> c.count, type |-> DecodedType(c.type), values |-> d.value]
  <1>1. DecodedChunk(c) = IF ~Readable(c.type) THEN Fail("metadata") ELSE IF d.ok THEN Ok(r) ELSE d
    BY DEF DecodedChunk
  <1>2. ~Fail("metadata").ok
    BY DEF Fail
  <1>3. Ok(r).ok /\ Ok(r).value = r
    BY DEF Ok
  <1> HIDE DEF d, r
  <1>4. /\ DecodedChunk(c).ok => Readable(c.type) /\ d.ok /\ DecodedChunk(c).value = r
        /\ Readable(c.type) /\ d.ok => DecodedChunk(c) = Ok(r)
    BY <1>1, <1>2, <1>3
  <1>5. QED
    BY <1>4 DEF d, r

\* A value of a column at its row.
LEMMA RowIs ==
    ASSUME NEW c, NEW S, c.values \in Seq(S), NEW n \in Nat, c.count >= n, Len(c.values) >= n,
           c.count \in Nat, NEW i \in 1..n
    PROVE  RowsOf(c)[i] = c.values[i]
  BY DEF RowsOf

\* What is sent of the values that a type can hold is there, in place, as it is read.
LEMMA SentKeeps ==
    ASSUME NEW T, NEW Depth, NEW V, CodecsDefined(T, Depth, V), NEW t \in T, NEW column \in Seq(V),
           EncodedChunk(Normal(column, t), t).ok,
           NEW read_chunk, read_chunk = DecodedChunk(EncodedChunk(Normal(column, t), t).value), read_chunk.ok
    PROVE  \A i \in 1..Len(column) :
              Held(column[i], t).ok => RowsOf(read_chunk.value)[i] = Held(column[i], t).value
  <1> DEFINE normal == Normal(column, t)
             n == Len(column)
             c == EncodedChunk(normal, t).value
             e == Encoded(normal, t)
             d == Decoded(e.value, t, n)
  <1>1. /\ normal \in Seq(V) /\ Len(normal) = n /\ n \in Nat
        /\ \A i \in 1..n : Held(column[i], t).ok => Held(normal[i], t) = Held(column[i], t)
    BY NormalIs
  <1> HIDE DEF normal
  <1>2. /\ e.ok /\ c = [count |-> n, type |-> EncodedType(t), vector |-> e.value]
    BY <1>1, ChunkSent DEF normal
  <1>3. c.count = n /\ c.type = EncodedType(t) /\ c.vector = e.value
    BY <1>2
  <1>4. Readable(EncodedType(t)) /\ DecodedType(EncodedType(t)) = t
    BY TypesReturn DEF Restores
  <1> HIDE DEF c
  <1>5. d.ok /\ read_chunk.value = [count |-> n, type |-> t, values |-> d.value]
    <2>1. read_chunk = DecodedChunk(c)
      BY DEF c, normal
    <2>2. QED
      BY <1>3, <1>4, <2>1, ChunkRead
  <1>6. Placed(d.value, normal, t)
    <2>1. Keeps(normal, t, n)
      BY <1>1, CarriesAll DEF Carries
    <2>2. QED
      BY <1>1, <1>2, <1>5, <2>1 DEF Keeps
  <1>7. read_chunk.value.values = d.value /\ read_chunk.value.count = n
    BY <1>5
  <1> HIDE DEF d
  <1>8. PICK S : d.value \in Seq(S)
    BY <1>6 DEF Placed
  <1>9. Len(d.value) >= n /\ \A i \in 1..n : Held(normal[i], t).ok => d.value[i] = Held(normal[i], t).value
    BY <1>1, <1>6 DEF Placed
  <1>10. ASSUME NEW i \in 1..n PROVE RowsOf(read_chunk.value)[i] = d.value[i]
    <2> DEFINE r == read_chunk.value
    <2>1. r.values = d.value /\ r.count = n
      BY <1>7
    <2> HIDE DEF r
    <2>2. r.values \in Seq(S) /\ r.count >= n /\ Len(r.values) >= n /\ r.count \in Nat
      BY <1>1, <1>8, <1>9, <2>1
    <2>3. RowsOf(r)[i] = r.values[i]
      BY <1>1, <2>2, RowIs
    <2>4. QED
      BY <2>1, <2>3 DEF r
  <1>11. QED
    BY <1>1, <1>9, <1>10

\* A column that is in place and has no other values is the column.
LEMMA PlacedIs ==
    ASSUME NEW V, NEW column \in Seq(V), NEW t, NEW out, Placed(out, column, t),
           Len(out) = Len(column), AllHeld(column, t)
    PROVE  out = Wanted(column, t)
  BY DEF Placed, AllHeld, Wanted

\* A vector of a column that its type can hold says what it holds.
LEMMA SentReturns ==
    ASSUME NEW T, NEW Depth, NEW V, CodecsDefined(T, Depth, V), NEW t \in T, NEW column \in Seq(V),
           Supported(t), AllHeld(column, t)
    PROVE  /\ Encoded(column, t).ok
           /\ Decoded(Encoded(column, t).value, t, Len(column)) = Ok(Wanted(column, t))
  <1> DEFINE e == Encoded(column, t)
             n == Len(column)
             d == Decoded(e.value, t, n)
  <1>1. Returns(column, t) /\ Keeps(column, t, n)
    BY CarriesAll DEF Carries
  <1>2. e.ok /\ d.ok /\ Len(d.value) = n
    BY <1>1 DEF Returns
  <1>3. d = Ok(d.value) /\ Placed(d.value, column, t)
    BY <1>1, <1>2 DEF Keeps
  <1>4. QED
    BY <1>2, <1>3, PlacedIs

\* The chunk of such a column comes back.
LEMMA ChunkReturns ==
    ASSUME NEW T, NEW Depth, NEW V, CodecsDefined(T, Depth, V), NEW t \in T, NEW column \in Seq(V),
           Supported(t), AllHeld(column, t)
    PROVE  /\ EncodedChunk(Normal(column, t), t).ok
           /\ DecodedChunk(EncodedChunk(Normal(column, t), t).value)
                 = Ok([count |-> Len(column), type |-> t, values |-> Wanted(column, t)])
  <1> DEFINE normal == Normal(column, t)
             n == Len(column)
             c == EncodedChunk(normal, t).value
             e == Encoded(normal, t)
  <1>1. /\ normal \in Seq(V) /\ Len(normal) = n
        /\ AllHeld(normal, t) /\ Wanted(normal, t) = Wanted(column, t)
    BY NormalIs
  <1> HIDE DEF normal
  <1>2. e.ok /\ Decoded(e.value, t, n) = Ok(Wanted(column, t))
    BY <1>1, SentReturns
  <1>3. Sendable(t)
    BY SupportedSent
  <1>4. EncodedChunk(normal, t).ok /\ c = [count |-> n, type |-> EncodedType(t), vector |-> e.value]
    BY <1>1, <1>2, <1>3, ChunkSent
  <1>5. c.count = n /\ c.type = EncodedType(t) /\ c.vector = e.value
    BY <1>4
  <1>6. Readable(EncodedType(t)) /\ DecodedType(EncodedType(t)) = t
    BY TypesReturn DEF Restores
  <1> HIDE DEF c
  <1>7. DecodedChunk(c) = Ok([count |-> n, type |-> t, values |-> Wanted(column, t)])
    <2>1. Ok(Wanted(column, t)).ok /\ Ok(Wanted(column, t)).value = Wanted(column, t)
      BY DEF Ok
    <2>2. QED
      BY <1>2, <1>5, <1>6, <2>1, ChunkRead
  <1>8. QED
    BY <1>4, <1>7 DEF c, normal

-------------------------------------------------------------------------------
(* Forms of vectors *)

\* The entries of a dictionary: all the values of a column.
LEMMA EntriesAre ==
    ASSUME NEW V, NEW column \in Seq(V)
    PROVE  LET S == ToSet(column)
               entries == SetToSeq(S)
           IN /\ entries \in Seq(V) /\ Len(entries) = Cardinality(S)
              /\ \A i \in 1..Len(column) : \E k \in DOMAIN entries : entries[k] = column[i]
              /\ \A k \in DOMAIN entries : \E i \in 1..Len(column) : entries[k] = column[i]
  <1> DEFINE S == ToSet(column)
             n == Len(column)
             m == Cardinality(S)
             entries == SetToSeq(S)
  <1>1. /\ S = {column[i] : i \in 1..n} /\ n \in Nat /\ S \subseteq V
        /\ column \in [1..n -> S]
    BY DEF ToSet
  <1> HIDE DEF S
  <1>2. column \in Surjection(1..n, S)
    BY <1>1 DEF Surjection
  <1>3. IsFiniteSet(S)
    BY <1>1, <1>2, FS_NatSurjection DEF ExistsSurjection
  <1>4. m \in Nat /\ ExistsBijection(1..m, S)
    BY <1>3, FS_CardinalityType
  <1>5. \E f \in [1..m -> S] : IsInjective(f)
    BY <1>4 DEF ExistsBijection, Bijection, Injection
  <1>6. entries \in [1..m -> S] /\ IsInjective(entries)
    BY <1>5 DEF SetToSeq
  <1> HIDE DEF entries
  <1>7. entries \in Injection(1..m, S)
    BY <1>6 DEF Injection
  <1>8. Cardinality(1..m) = m
    BY <1>4, FS_Interval
  <1>9. entries \in Surjection(1..m, S)
    BY <1>3, <1>7, <1>8, FS_Injection
  <1>10. \A v \in S : \E k \in 1..m : entries[k] = v
    BY <1>9 DEF Surjection
  <1> HIDE DEF m
  <1>11. entries \in Seq(V) /\ Len(entries) = m /\ DOMAIN entries = 1..m
    <2>1. m \in Nat /\ DOMAIN entries = 1..m
      BY <1>4, <1>6
    <2>2. entries \in [1..m -> V]
      BY <1>1, <1>6
    <2>3. entries \in Seq(V)
      BY <2>1, <2>2
    <2>4. Len(entries) = m
      BY <2>1, <2>3
    <2>5. QED
      BY <2>1, <2>3, <2>4
  <1>12. \A i \in 1..n : column[i] \in S
    BY <1>1
  <1>13. \A k \in DOMAIN entries : \E i \in 1..n : entries[k] = column[i]
    BY <1>1, <1>6, <1>11
  <1>14. QED
    BY <1>10, <1>11, <1>12, <1>13 DEF S, m, entries

\* The values of a column can be the values of its dictionary.
LEMMA EntriesReturn ==
    ASSUME NEW T, NEW Depth, NEW V, CodecsDefined(T, Depth, V), NEW t \in T, NEW column \in Seq(V),
           Supported(t), AllHeld(column, t)
    PROVE  LET entries == SetToSeq(ToSet(column))
           IN /\ entries \in Seq(V)
              /\ Decoded(Encoded(entries, t).value, t, Len(entries)) = Ok(Wanted(entries, t))
  <1> DEFINE entries == SetToSeq(ToSet(column))
  <1>1. /\ entries \in Seq(V)
        /\ \A k \in DOMAIN entries : \E i \in 1..Len(column) : entries[k] = column[i]
    BY EntriesAre
  <1> HIDE DEF entries
  <1>2. AllHeld(entries, t)
    BY <1>1 DEF AllHeld
  <1>3. Decoded(Encoded(entries, t).value, t, Len(entries)) = Ok(Wanted(entries, t))
    BY <1>1, <1>2, SentReturns
  <1>4. QED
    BY <1>1, <1>3 DEF entries

\* A dictionary of the values says what the column says.
LEMMA DictionaryRead ==
    ASSUME NEW T, NEW Depth, NEW V, CodecsDefined(T, Depth, V), NEW t \in T, NEW column \in Seq(V),
           Supported(t), AllHeld(column, t)
    PROVE  LET entries == SetToSeq(ToSet(column))
               vector == [form |-> "dictionary", size |-> Len(entries),
                          of |-> Encoded(entries, t).value,
                          selection |-> [i \in DOMAIN column |->
                            (CHOOSE k \in DOMAIN entries : entries[k] = column[i]) - 1]]
           IN Decoded(vector, t, Len(column)) = Ok(Wanted(column, t))
  <1> DEFINE n == Len(column)
             entries == SetToSeq(ToSet(column))
             m == Len(entries)
             At(i) == CHOOSE k \in DOMAIN entries : entries[k] = column[i]
             selection == [i \in DOMAIN column |-> At(i) - 1]
             of == Encoded(entries, t).value
             vector == [form |-> "dictionary", size |-> m, of |-> of, selection |-> selection]
             dec == Decoded(of, t, m)
             inner == <<dec>>
             out == [i \in 1..n |-> Wanted(entries, t)[selection[i] + 1]]
  <1>1. /\ entries \in Seq(V)
        /\ \A i \in 1..n : \E k \in DOMAIN entries : entries[k] = column[i]
    BY EntriesAre
  <1>2. dec = Ok(Wanted(entries, t))
    BY EntriesReturn
  <1>3. \A i \in 1..n : At(i) \in DOMAIN entries /\ entries[At(i)] = column[i]
    BY <1>1
  <1> HIDE DEF At, entries
  <1>4. /\ n \in Nat /\ DOMAIN column = 1..n /\ m \in Nat /\ DOMAIN entries = 1..m
    BY <1>1
  <1>5. /\ Len(selection) = n /\ \A i \in 1..n : selection[i] = At(i) - 1
    BY <1>4
  <1> HIDE DEF selection, of
  <1>6. /\ vector.form = "dictionary" /\ vector.size = m /\ vector.of = of /\ vector.selection = selection
        /\ "of" \in DOMAIN vector
    OBVIOUS
  <1>7. IsFunction(vector)
    BY DEF IsFunction
  <1> HIDE DEF vector
  <1>8. InnerVectors(vector, t, n) = <<[vector |-> of, type |-> t, count |-> m]>>
    BY <1>6 DEF InnerVectors
  <1>9. Decoded(vector, t, n) = DecodedOf(vector, t, n, inner)
    <2> DEFINE inside == InnerVectors(vector, t, n)
    <2>1. Decoded(vector, t, n)
            = DecodedOf(vector, t, n, [k \in DOMAIN inside |->
                  Decoded(inside[k].vector, inside[k].type, inside[k].count)])
      BY <1>6, <1>7 DEF CodecsDefined, VectorsReadAsDefined
    <2>2. DOMAIN inside = {1} /\ inside[1] = [vector |-> of, type |-> t, count |-> m]
      BY <1>8
    <2> HIDE DEF inside
    <2>3. inside[1].vector = of /\ inside[1].type = t /\ inside[1].count = m
      BY <2>2
    <2>4. [k \in DOMAIN inside |-> Decoded(inside[k].vector, inside[k].type, inside[k].count)] = inner
      <3> HIDE DEF dec
      <3>1. [k \in {1} |-> dec] = <<dec>>
        OBVIOUS
      <3>2. [k \in DOMAIN inside |-> Decoded(inside[k].vector, inside[k].type, inside[k].count)]
              = [k \in {1} |-> dec]
        BY <2>2, <2>3 DEF dec
      <3>3. QED
        BY <3>1, <3>2
    <2>5. QED
      BY <2>1, <2>4 DEF inside
  <1>10. inner[1] = dec
    OBVIOUS
  <1> HIDE DEF inner, dec
  <1>11. dec.ok /\ dec.value = Wanted(entries, t) /\ Len(dec.value) = m
    BY <1>2, <1>4 DEF Ok, Wanted
  <1>12. ~\E i \in 1..n : vector.selection[i] >= Len(dec.value)
    BY <1>3, <1>4, <1>5, <1>6, <1>11
  <1>13. DecodedOf(vector, t, n, inner) = Ok([i \in 1..n |-> dec.value[vector.selection[i] + 1]])
    BY <1>5, <1>6, <1>10, <1>11, <1>12 DEF DecodedOf
  <1>14. \A i \in 1..n : dec.value[vector.selection[i] + 1] = Held(column[i], t).value
    <2> TAKE i \in 1..n
    <2>1. At(i) \in 1..m /\ (At(i) - 1) + 1 = At(i)
      BY <1>3, <1>4
    <2>2. dec.value[At(i)] = Held(entries[At(i)], t).value
      BY <1>11, <2>1 DEF Wanted
    <2>3. QED
      BY <1>3, <1>5, <1>6, <2>1, <2>2
  <1>15. [i \in 1..n |-> dec.value[vector.selection[i] + 1]] = Wanted(column, t)
    BY <1>14 DEF Wanted
  <1>16. Decoded(vector, t, n) = Ok(Wanted(column, t))
    BY <1>9, <1>13, <1>15
  <1>17. QED
    BY <1>16 DEF vector, of, selection, At, entries

\* So does the one value of a column that has no other.
LEMMA ConstantRead ==
    ASSUME NEW T, NEW Depth, NEW V, CodecsDefined(T, Depth, V), NEW t \in T, NEW column \in Seq(V),
           Supported(t), AllHeld(column, t), Cardinality(ToSet(column)) <= 1
    PROVE  Decoded([form |-> "constant", of |-> Encoded(SetToSeq(ToSet(column)), t).value],
                   t, Len(column)) = Ok(Wanted(column, t))
  <1> DEFINE n == Len(column)
             entries == SetToSeq(ToSet(column))
             m == Len(entries)
             of == Encoded(entries, t).value
             vector == [form |-> "constant", of |-> of]
             dec == Decoded(of, t, m)
             inner == <<dec>>
  <1>1. /\ entries \in Seq(V) /\ m <= 1
        /\ \A i \in 1..n : \E k \in DOMAIN entries : entries[k] = column[i]
        /\ \A k \in DOMAIN entries : \E i \in 1..n : entries[k] = column[i]
    BY EntriesAre
  <1>2. dec = Ok(Wanted(entries, t))
    BY EntriesReturn
  <1> HIDE DEF entries
  <1>3. /\ n \in Nat /\ DOMAIN column = 1..n /\ m \in Nat /\ DOMAIN entries = 1..m
    BY <1>1
  <1>4. m = IF n > 0 THEN 1 ELSE 0
    <2>1. CASE n > 0
      <3>1. 1 \in 1..n
        BY <1>3, <2>1
      <3>2. PICK k \in DOMAIN entries : entries[k] = column[1]
        BY <1>1, <3>1
      <3>3. QED
        BY <1>1, <1>3, <2>1, <3>2
    <2>2. CASE ~(n > 0)
      <3>1. 1..n = {}
        BY <1>3, <2>2
      <3>2. DOMAIN entries = {}
        BY <1>1, <3>1
      <3>3. m < 1
        BY <1>3, <3>2
      <3>4. QED
        BY <1>3, <2>2, <3>3
    <2>3. QED
      BY <2>1, <2>2
  <1>5. \A i \in 1..n : m = 1 /\ entries[1] = column[i]
    <2> TAKE i \in 1..n
    <2>1. PICK k \in DOMAIN entries : entries[k] = column[i]
      BY <1>1
    <2>2. m = 1 /\ k = 1
      BY <1>1, <1>3, <2>1
    <2>3. QED
      BY <2>1, <2>2
  <1> HIDE DEF of
  <1>6. vector.form = "constant" /\ vector.of = of /\ "of" \in DOMAIN vector
    OBVIOUS
  <1>7. IsFunction(vector)
    BY DEF IsFunction
  <1> HIDE DEF vector
  <1>8. InnerVectors(vector, t, n) = <<[vector |-> of, type |-> t, count |-> m]>>
    BY <1>4, <1>6 DEF InnerVectors
  <1>9. Decoded(vector, t, n) = DecodedOf(vector, t, n, inner)
    <2> DEFINE inside == InnerVectors(vector, t, n)
    <2>1. Decoded(vector, t, n)
            = DecodedOf(vector, t, n, [k \in DOMAIN inside |->
                  Decoded(inside[k].vector, inside[k].type, inside[k].count)])
      BY <1>6, <1>7 DEF CodecsDefined, VectorsReadAsDefined
    <2>2. DOMAIN inside = {1} /\ inside[1] = [vector |-> of, type |-> t, count |-> m]
      BY <1>8
    <2> HIDE DEF inside
    <2>3. inside[1].vector = of /\ inside[1].type = t /\ inside[1].count = m
      BY <2>2
    <2>4. [k \in DOMAIN inside |-> Decoded(inside[k].vector, inside[k].type, inside[k].count)] = inner
      <3> HIDE DEF dec
      <3>1. [k \in {1} |-> dec] = <<dec>>
        OBVIOUS
      <3>2. [k \in DOMAIN inside |-> Decoded(inside[k].vector, inside[k].type, inside[k].count)]
              = [k \in {1} |-> dec]
        BY <2>2, <2>3 DEF dec
      <3>3. QED
        BY <3>1, <3>2
    <2>5. QED
      BY <2>1, <2>4 DEF inside
  <1>10. inner[1] = dec
    OBVIOUS
  <1> HIDE DEF inner, dec
  <1>11. dec.ok /\ dec.value = Wanted(entries, t) /\ Len(dec.value) = m
    BY <1>2, <1>3 DEF Ok, Wanted
  <1>12. DecodedOf(vector, t, n, inner)
            = Ok([i \in 1..n |-> IF dec.value = <<>> THEN Null ELSE dec.value[1]])
    BY <1>6, <1>10, <1>11 DEF DecodedOf
  <1>13. \A i \in 1..n : (IF dec.value = <<>> THEN Null ELSE dec.value[1]) = Held(column[i], t).value
    <2> TAKE i \in 1..n
    <2>1. m = 1 /\ entries[1] = column[i]
      BY <1>5
    <2>2. dec.value[1] = Held(entries[1], t).value
      BY <1>11, <2>1 DEF Wanted
    <2>3. dec.value # <<>>
      <3>1. Len(<<>>) = 0 /\ Len(dec.value) = 1
        BY <1>11, <2>1
      <3>2. Len(dec.value) # Len(<<>>)
        BY <3>1
      <3>3. QED
        BY <3>2, Zenon
    <2>4. QED
      BY <2>1, <2>2, <2>3
  <1>14. [i \in 1..n |-> IF dec.value = <<>> THEN Null ELSE dec.value[1]] = Wanted(column, t)
    BY <1>13 DEF Wanted
  <1>15. Decoded(vector, t, n) = Ok(Wanted(column, t))
    BY <1>9, <1>12, <1>14
  <1>16. QED
    BY <1>15 DEF vector, of, entries

SequenceIds == {"TINYINT", "SMALLINT", "INTEGER", "BIGINT", "DATE"}

\* The number of a value that a column of a sequence holds is read as the value.
LEMMA NumberRead ==
    ASSUME NEW T, NEW Depth, NEW V, CodecsDefined(T, Depth, V), NEW t \in T, t.id \in SequenceIds,
           NEW v \in V, Is(v, "int") \/ Is(v, "date"), Held(v, t).ok
    PROVE  LET n == SequenceNumber(v)
           IN /\ n \in Int
              /\ Held(v, t).value = IF t.id = "DATE" THEN [date |-> Signed(Wrapped(n, Half[32]), Half[32])]
                                    ELSE FromInt64(Signed(Wrapped(n, Half[64]), Half[64]), t)
  <1> DEFINE n == SequenceNumber(v)
  <1>1. ValuesNested(V)
    BY DEF CodecsDefined
  <1>2. PICK inner : Held(v, t) = HeldOf(v, t, inner)
    BY HeldIs
  <1>3. Half[32] \in Nat \ {0} /\ Half[64] \in Nat \ {0}
    BY Sized DEF Sizes
  <1>4. ~IsNull(v)
    <2>1. Is(v, "int") => v = [int |-> v.int]
      BY <1>1, ValueIs
    <2>2. Is(v, "date") => v = [date |-> v.date]
      BY <1>1, ValueIs
    <2>3. QED
      BY <2>1, <2>2 DEF Is, IsNull
  <1>5. CASE Is(v, "int")
    <2>1. v = [int |-> v.int] /\ v.int \in InWords(64)
      BY <1>1, <1>5, ValueIs
    <2>2. ~Is(v, "date") /\ ~Is(v, "text") /\ n = v.int
      BY <2>1 DEF Is, SequenceNumber
    <2>3. n \in Int /\ InWord(n, Half[64], TRUE)
      BY <1>3, <2>1, <2>2 DEF InWords, InWord
    <2>4. t.id # "DATE"
      <3>1. ASSUME t.id = "DATE" PROVE FALSE
        <4>1. t.id \notin MadeIds /\ t.id \notin NestedIds
          BY <3>1 DEF MadeIds, NestedIds, IntegerIds, StructIds, ListIds
        <4>2. IdOf(v) = "DATE"
          BY <1>2, <1>4, <3>1, <4>1, OwnHeld
        <4>3. Is(v, "date")
          BY <1>1, <4>2, IdIs
        <4>4. QED
          BY <2>2, <4>3
      <3>2. QED
        BY <3>1
    <2>5. IntegerName(t) = "int"
      BY <2>4 DEF IntegerName, SequenceIds
    <2>6. IntegerSaid(v) = v.int
      <3>1. DOMAIN v = {"int"}
        BY <2>1
      <3>2. (CHOOSE what \in DOMAIN v : TRUE) = "int"
        BY <3>1
      <3>3. QED
        BY <2>2, <3>2 DEF IntegerSaid
    <2>7. HeldOf(v, t, inner).value = [k \in {"int"} |-> IntegerSaid(v)]
      <3> DEFINE fits == SaysInteger(v) /\ InWord(IntegerSaid(v), Physical(t).half, Physical(t).signed)
                 held == [k \in {IntegerName(t)} |-> IntegerSaid(v)]
      <3>1. HeldOf(v, t, inner) = IF fits THEN Ok(held) ELSE Fail("does not fit")
        <4>1. IntegerName(t) # "none"
          BY <2>5
        <4>2. QED
          BY <1>4, <2>4, <4>1 DEF HeldOf, ListIds, StructIds, SequenceIds
      <3> HIDE DEF fits, held
      <3>2. ~Fail("does not fit").ok
        BY DEF Fail
      <3>3. HeldOf(v, t, inner) = Ok(held)
        BY <1>2, <3>1, <3>2
      <3>4. HeldOf(v, t, inner).value = held
        BY <3>3 DEF Ok
      <3>5. QED
        BY <2>5, <3>4 DEF held
    <2>8. Signed(Wrapped(n, Half[64]), Half[64]) = n
      BY <1>3, <2>3, SignedReturns
    <2>9. FromInt64(n, t) = IntOf(n)
      BY <2>4 DEF FromInt64, SequenceIds
    <2>10. [k \in {"int"} |-> n] = [int |-> n]
      OBVIOUS
    <2>11. Held(v, t).value = [int |-> n]
      BY <1>2, <2>2, <2>6, <2>7, <2>10
    <2>12. QED
      BY <2>3, <2>4, <2>8, <2>9, <2>11 DEF IntOf
  <1>6. CASE Is(v, "date")
    <2>1. v = [date |-> v.date] /\ v.date \in InWords(32)
      BY <1>1, <1>6, ValueIs
    <2>2. ~Is(v, "int") /\ ~Is(v, "text") /\ n = v.date
      BY <2>1 DEF Is, SequenceNumber
    <2>3. n \in Int /\ InWord(n, Half[32], TRUE)
      BY <1>3, <2>1, <2>2 DEF InWords, InWord
    <2>4. t.id = "DATE"
      <3>1. ASSUME t.id # "DATE" PROVE FALSE
        <4>1. IntegerName(t) = "int"
          BY <3>1 DEF IntegerName, SequenceIds
        <4>2. ~SaysInteger(v)
          BY <2>1 DEF SaysInteger, Is
        <4>3. IntegerName(t) # "none"
          BY <4>1
        <4>4. HeldOf(v, t, inner) = Fail("does not fit")
          BY <1>4, <3>1, <4>2, <4>3 DEF HeldOf, ListIds, StructIds, SequenceIds
        <4>5. ~Fail("does not fit").ok
          BY DEF Fail
        <4>6. QED
          BY <1>2, <4>4, <4>5
      <3>2. QED
        BY <3>1
    <2>5. t.id \notin MadeIds /\ t.id \notin NestedIds
      BY <2>4 DEF MadeIds, NestedIds, IntegerIds, StructIds, ListIds
    <2>6. HeldOf(v, t, inner) = Ok(v)
      BY <1>2, <1>4, <2>5, OwnHeld
    <2>7. Held(v, t).value = [date |-> n]
      BY <1>2, <2>1, <2>2, <2>6 DEF Ok
    <2>8. Signed(Wrapped(n, Half[32]), Half[32]) = n
      BY <1>3, <2>3, SignedReturns
    <2>9. QED
      BY <2>3, <2>4, <2>7, <2>8
  <1>7. QED
    BY <1>5, <1>6

\* So does a sequence, of the numbers between which the steps are the same.
LEMMA SequenceRead ==
    ASSUME NEW T, NEW Depth, NEW V, CodecsDefined(T, Depth, V), NEW t \in T, t.id \in SequenceIds,
           NEW column \in Seq(V), AllHeld(column, t), Len(column) > 1,
           \A i \in DOMAIN column : Is(column[i], "int") \/ Is(column[i], "date"),
           \A i \in 1..Len(column) - 1 :
              SequenceNumber(column[i + 1]) - SequenceNumber(column[i])
                 = SequenceNumber(column[2]) - SequenceNumber(column[1])
    PROVE  Decoded([form |-> "sequence", start |-> SequenceNumber(column[1]),
                    increment |-> SequenceNumber(column[2]) - SequenceNumber(column[1])],
                   t, Len(column)) = Ok(Wanted(column, t))
  <1> DEFINE n == Len(column)
             N(i) == SequenceNumber(column[i])
             start == N(1)
             step == N(2) - N(1)
             vector == [form |-> "sequence", start |-> start, increment |-> step]
             At(i) == vector.start + vector.increment * (i - 1)
             S == {i \in 1..n : N(i) = start + step * (i - 1)}
  <1>1. /\ n \in Nat /\ n > 1 /\ DOMAIN column = 1..n /\ 1 \in 1..n /\ 2 \in 1..n
        /\ \A i \in 1..n : column[i] \in V
    OBVIOUS
  <1>2. ASSUME NEW i \in 1..n
        PROVE  /\ N(i) \in Int
               /\ Held(column[i], t).value =
                     IF t.id = "DATE" THEN [date |-> Signed(Wrapped(N(i), Half[32]), Half[32])]
                     ELSE FromInt64(Signed(Wrapped(N(i), Half[64]), Half[64]), t)
    BY <1>1, NumberRead DEF AllHeld
  <1>3. \A i \in 1..n - 1 : N(i + 1) - N(i) = step
    OBVIOUS
  <1>4. \A i \in 1..n : N(i) \in Int
    BY <1>2
  <1> HIDE DEF N
  <1>5. start \in Int /\ step \in Int
    BY <1>1, <1>4
  <1>6. 1..n \subseteq S
    <2>1. 1 \in S
      BY <1>1, <1>5
    <2>2. ASSUME NEW k \in 1..n - 1, k \in S PROVE k + 1 \in S
      <3>1. k + 1 \in 1..n /\ k \in 1..n
        BY <1>1
      <3>2. N(k + 1) = N(k) + step
        <4>1. N(k + 1) - N(k) = step
          BY <1>3
        <4>2. N(k + 1) \in Int /\ N(k) \in Int
          BY <1>4, <3>1
        <4> HIDE DEF step
        <4>3. QED
          BY <1>5, <4>1, <4>2
      <3>3. N(k) = start + step * (k - 1)
        BY <2>2
      <3> HIDE DEF start, step
      <3>4. step * ((k + 1) - 1) = step * (k - 1) + step
        BY <1>5, <3>1
      <3>5. N(k + 1) = start + step * ((k + 1) - 1)
        <4>1. step * (k - 1) \in Int
          BY <1>5, <3>1
        <4>2. QED
          BY <1>5, <3>2, <3>3, <3>4, <4>1
      <3>6. QED
        BY <3>1, <3>5
    <2>3. n \in Int /\ 1 \in Int
      BY <1>1
    <2> HIDE DEF S
    <2>4. QED
      BY <2>1, <2>2, <2>3, Induction
  <1>7. vector.form = "sequence" /\ \A i \in 1..n : At(i) = N(i)
    BY <1>6
  <1> HIDE DEF S, start, step
  <1>8. Decoded(vector, t, n) = Ok(SequenceValues(vector, t, n))
    <2> DEFINE inside == InnerVectors(vector, t, n)
               inner == [k \in DOMAIN inside |->
                            Decoded(inside[k].vector, inside[k].type, inside[k].count)]
    <2>1. Decoded(vector, t, n) = DecodedOf(vector, t, n, inner)
      <3>1. vector.form \notin {"constant", "dictionary"}
        BY <1>7
      <3> HIDE DEF vector
      <3>2. QED
        BY <3>1 DEF CodecsDefined, VectorsReadAsDefined
    <2> HIDE DEF inner, vector
    <2>2. QED
      BY <1>7, <2>1 DEF DecodedOf
  <1> HIDE DEF At, vector
  <1>9. SequenceValues(vector, t, n) = Wanted(column, t)
    <2>1. SequenceValues(vector, t, n)
            = [i \in 1..n |-> IF t.id = "DATE" THEN [date |-> Signed(Wrapped(At(i), Half[32]), Half[32])]
                              ELSE FromInt64(Signed(Wrapped(At(i), Half[64]), Half[64]), t)]
      BY DEF SequenceValues, At
    <2>2. \A i \in 1..n : (IF t.id = "DATE" THEN [date |-> Signed(Wrapped(At(i), Half[32]), Half[32])]
                           ELSE FromInt64(Signed(Wrapped(At(i), Half[64]), Half[64]), t))
                          = Held(column[i], t).value
      BY <1>2, <1>7
    <2>3. QED
      BY <2>1, <2>2 DEF Wanted
  <1>10. QED
    BY <1>8, <1>9 DEF vector, start, step, N

-------------------------------------------------------------------------------
(* The words of NULLs *)

\* Any word can be read but that of an ENUM.
LEMMA AnyWordRead ==
    ASSUME NEW T, NEW Depth, TypesNested(T, Depth), NEW t \in T, Physical(t).kind = "word",
           t.id # "ENUM", NEW word
    PROVE  FromWord(word, t).ok
  <1>1. t.id \in MadeIds \cup OwnIds \cup {"SQLNULL"} /\ t.info.kind \in Kinds
    BY KindIs, TypeIs DEF FixedKinds
  <1>2. QED
    BY <1>1 DEF FromWord, Ok

\* The least word instead of each NULL's own changes nothing.
LEMMA LeastRead ==
    ASSUME NEW T, NEW Depth, NEW V, CodecsDefined(T, Depth, V), NEW t \in T, NEW column \in Seq(V),
           Supported(t), AllHeld(column, t), Physical(t).kind = "word",
           NEW vector, vector = Encoded(Normal(column, t), t).value,
           NEW words, words = [i \in DOMAIN vector.words |->
                                 IF IsNull(column[i])
                                 THEN (IF Physical(t).signed THEN Physical(t).half ELSE 0)
                                 ELSE vector.words[i]]
    PROVE  Decoded([vector EXCEPT !.words = words], t, Len(column)) = Ok(Wanted(column, t))
  <1> DEFINE n == Len(column)
             normal == Normal(column, t)
             least == IF Physical(t).signed THEN Physical(t).half ELSE 0
             v == [vector EXCEPT !.words = words]
  <1>1. /\ normal \in Seq(V) /\ Len(normal) = n /\ n \in Nat
        /\ \A i \in 1..n : IsNull(normal[i]) <=> IsNull(column[i])
        /\ AllHeld(normal, t) /\ Wanted(normal, t) = Wanted(column, t)
    BY NormalIs
  <1>2. Physical(t).kind \in FixedKinds /\ TypesNested(T, Depth)
    BY DEF FixedKinds, CodecsDefined
  <1> HIDE DEF normal
  <1>3. Encoded(normal, t).ok
    BY <1>1, SentReturns
  <1>4. vector = [form |-> "flat", mask |-> Mask(normal), words |-> [i \in 1..n |-> WordOf(normal[i], t).value]]
    <2> DEFINE w == [form |-> "flat", mask |-> Mask(normal), words |-> [i \in 1..n |-> WordOf(normal[i], t).value]]
    <2>1. Encoded(normal, t) = Ok(w)
      BY <1>1, <1>2, <1>3, WordsSent
    <2> HIDE DEF w
    <2>2. Encoded(normal, t).value = w
      BY <2>1 DEF Ok
    <2>3. QED
      BY <2>2 DEF w, normal
  <1>5. /\ v.form = "flat" /\ v.mask = Mask(normal) /\ v.words = words
        /\ DOMAIN vector.words = 1..n
        /\ \A i \in 1..n : vector.words[i] = WordOf(normal[i], t).value
    BY <1>4
  <1> HIDE DEF v
  <1>6. FromWord(least, t).ok
    <2>1. CASE t.id # "ENUM"
      BY <1>2, <2>1, AnyWordRead
    <2>2. CASE t.id = "ENUM"
      <3>1. t.info.kind = "ENUM" /\ t.info.texts # <<>>
        BY <1>2, <2>2, KindIs, SupportedIs
      <3>2. t.info.texts \in Seq(STRING) /\ Len(t.info.texts) <= 2 * Half[32]
        BY <1>2, <3>1, TypeIs
      <3>3. PICK size \in Sizes : Physical(t) = Word(size, FALSE)
        BY <2>2, <3>1, <3>2, EnumIs
      <3>4. least = 0
        BY <3>3 DEF Word
      <3>5. IsNull(Null)
        BY DEF IsNull, Is, Null
      <3>6. FromWord(WordOf(Null, t).value, t).ok
        BY <1>2, <3>1, <3>5, NullReturns
      <3>7. WordOf(Null, t) = Ok(0)
        BY <3>5 DEF WordOf
      <3>8. WordOf(Null, t).value = 0
        BY <3>7 DEF Ok
      <3>9. QED
        BY <3>4, <3>6, <3>8
    <2>3. QED
      BY <2>1, <2>2
  <1> HIDE DEF least
  <1>7. words = [i \in 1..n |-> IF IsNull(column[i]) THEN least ELSE vector.words[i]]
    BY <1>5 DEF least
  <1>8. Len(words) = n /\ \A i \in 1..n : words[i] = IF IsNull(column[i]) THEN least ELSE vector.words[i]
    BY <1>1, <1>7
  <1>9. ASSUME NEW i \in 1..n, ~IsNull(normal[i])
        PROVE  FromWord(words[i], t) = Ok(Held(normal[i], t).value)
    <2>1. normal[i] \in V /\ Held(normal[i], t).ok
      BY <1>1 DEF AllHeld
    <2>2. WordGives(normal[i], t, Held(normal[i], t).value)
      BY <1>2, <1>9, <2>1, HeldByWord
    <2>3. words[i] = WordOf(normal[i], t).value
      BY <1>1, <1>5, <1>8, <1>9
    <2>4. QED
      BY <2>2, <2>3 DEF WordGives
  <1>10. WordsFor(v.words, normal, t)
    BY <1>1, <1>5, <1>6, <1>8, <1>9 DEF WordsFor
  <1>11. Decoded(v, t, n).ok /\ Len(Decoded(v, t, n).value) = n
    BY <1>1, <1>2, <1>5, <1>10, WordsForAreRead
  <1> DEFINE read == [i \in 1..n |-> FromWord(v.words[i], t).value]
             out == [i \in DOMAIN read |-> IF IsValid(v, i) THEN read[i] ELSE Null]
  <1>12. Decoded(v, t, n) = Ok(out)
    <2>1. Decoded(v, t, n).ok
      BY <1>11
    <2>2. n \in Nat /\ v.form = "flat" /\ Physical(t).kind \in FixedKinds
      BY <1>1, <1>2, <1>5
    <2> HIDE DEF read, n
    <2>3. Decoded(v, t, n) = Ok(out)
      BY <2>1, <2>2, WordsRead DEF read
    <2>4. QED
      BY <2>3
  <1>13. ASSUME NEW i \in 1..n
         PROVE  (IF IsValid(v, i) THEN FromWord(v.words[i], t).value ELSE Null) = Held(normal[i], t).value
    <2>1. IsValid(v, i) = ~IsNull(normal[i])
      BY <1>1, <1>5, ValidIs
    <2>2. CASE IsNull(normal[i])
      <3>1. normal[i] \in V
        BY <1>1
      <3>2. Held(normal[i], t) = Ok(Null)
        BY <2>2, <3>1, HeldIs
      <3>3. Held(normal[i], t).value = Null
        BY <3>2 DEF Ok
      <3>4. ~IsValid(v, i)
        BY <2>1, <2>2
      <3>5. QED
        BY <3>3, <3>4
    <2>3. CASE ~IsNull(normal[i])
      <3>1. FromWord(v.words[i], t) = Ok(Held(normal[i], t).value)
        BY <1>5, <1>9, <2>3
      <3>2. FromWord(v.words[i], t).value = Held(normal[i], t).value
        BY <3>1 DEF Ok
      <3>3. QED
        BY <2>1, <2>3, <3>2
    <2>4. QED
      BY <2>2, <2>3
  <1>14. out = Wanted(normal, t)
    <2>1. out = [i \in 1..n |-> IF IsValid(v, i) THEN FromWord(v.words[i], t).value ELSE Null]
      OBVIOUS
    <2> HIDE DEF out, read
    <2>2. QED
      BY <1>1, <1>13, <2>1 DEF Wanted
  <1>15. QED
    BY <1>1, <1>12, <1>14 DEF v

-------------------------------------------------------------------------------
(* Wrong lengths *)

\* What is decoded has what another column is to hold, in place, or has no more than the
\* last text less.
InPlace(out, column, t) ==
    /\ \E S : out \in Seq(S)
    /\ \A i \in 1..Len(column) :
          \/ i <= Len(out) /\ out[i] = Held(column[i], t).value
          \/ /\ Physical(t).kind = "text" /\ i = Len(column)
             /\ i <= Len(out) => IsNull(out[i])

\* What has all that is to be held has it in place.
LEMMA PlacedInPlace ==
    ASSUME NEW S, NEW column \in Seq(S), NEW t, NEW out, AllHeld(column, t), Placed(out, column, t)
    PROVE  InPlace(out, column, t)
  <1>1. PICK U : out \in Seq(U)
    BY DEF Placed
  <1>2. Len(out) \in Nat /\ Len(column) \in Nat /\ Len(out) >= Len(column)
    BY <1>1 DEF Placed
  <1>3. \A i \in 1..Len(column) : i <= Len(out) /\ out[i] = Held(column[i], t).value
    BY <1>2 DEF Placed, AllHeld
  <1>4. QED
    BY <1>1, <1>3 DEF InPlace

\* One more at the end, or one less.
LEMMA ResizedIs ==
    ASSUME NEW S, NEW s \in Seq(S), NEW x \in S, NEW r \in Resized(s, x)
    PROVE  /\ r \in Seq(S)
           /\ Len(r) = Len(s) + 1 \/ (Len(s) > 0 /\ Len(r) = Len(s) - 1)
           /\ \A i \in 1..Len(s) : i <= Len(r) => r[i] = s[i]
  <1>1. CASE r = Append(s, x)
    BY <1>1
  <1>2. CASE s # <<>> /\ r = Front(s)
    <2>1. Len(s) \in Nat /\ Len(s) > 0
      BY <1>2
    <2>2. r = SubSeq(s, 1, Len(s) - 1)
      BY <1>2 DEF Front
    <2>3. Len(s) - 1 \in Nat /\ Len(s) - 1 <= Len(s)
      BY <2>1
    <2>4. r \in Seq(S) /\ Len(r) = Len(s) - 1
      <3> DEFINE m == Len(s) - 1
      <3>1. r = SubSeq(s, 1, m) /\ m \in Nat /\ m <= Len(s)
        BY <2>2, <2>3
      <3>2. r = [i \in 1..m |-> s[i]]
        <4> HIDE DEF m
        <4>1. QED
          BY <3>1
      <3>3. \A i \in 1..m : s[i] \in S
        BY <3>1
      <3> HIDE DEF m
      <3>4. r \in Seq(S) /\ Len(r) = m
        BY <3>1, <3>2, <3>3
      <3>5. QED
        BY <3>4 DEF m
    <2>5. \A i \in 1..Len(s) - 1 : r[i] = s[i]
      BY <2>1, <2>2, <2>3
    <2>6. QED
      BY <2>1, <2>4, <2>5
  <1>3. QED
    BY <1>1, <1>2 DEF Resized

\* What is read has a layout, and the lengths it must have.
LEMMA FlatRefuses ==
    ASSUME NEW T, NEW Depth, NEW V, CodecsDefined(T, Depth, V), NEW t \in T,
           NEW vector, vector.form = "flat", NEW count, Decoded(vector, t, count).ok
    PROVE  Physical(t).kind # "none" /\ LengthsAgree(vector, t, count)
  <1> DEFINE inside == InnerVectors(vector, t, count)
             inner == [k \in DOMAIN inside |->
                          Decoded(inside[k].vector, inside[k].type, inside[k].count)]
  <1>1. Decoded(vector, t, count) = DecodedOf(vector, t, count, inner)
    BY DEF CodecsDefined, VectorsReadAsDefined
  <1> HIDE DEF inner
  <1>2. QED
    BY <1>1, FlatSays

\* The vector of a column, by the kind of its type.
LEMMA VectorIs ==
    ASSUME NEW T, NEW Depth, NEW V, CodecsDefined(T, Depth, V), NEW t \in T, NEW column \in Seq(V),
           Encoded(column, t).ok
    PROVE  LET v == Encoded(column, t).value
               kind == Physical(t).kind
               n == Len(column)
           IN /\ v.form = "flat" /\ v.mask = Mask(column)
              /\ {"form", "mask"} \subseteq DOMAIN v
              /\ "words" \in DOMAIN v <=> kind \in FixedKinds
              /\ "texts" \in DOMAIN v <=> kind = "text"
              /\ "vectors" \in DOMAIN v <=> kind = "struct"
              /\ "entries" \in DOMAIN v <=> kind = "list"
              /\ "size" \in DOMAIN v <=> IsListKind(t)
              /\ kind \in FixedKinds => v.words \in Seq({v.words[i] : i \in 1..n}) /\ Len(v.words) = n
              /\ kind = "text" => v.texts = [i \in 1..n |-> Text(column[i])]
              /\ kind = "struct" => /\ DOMAIN v.vectors = DOMAIN Names(t)
                                    /\ IsFunction(v.vectors)
              /\ IsListKind(t) => v = ListVector(column, t) /\ ListsOnly(column, t)
                                  /\ Encoded(ItemColumn(column, t), t.info.child).ok
  <1> DEFINE e == Encoded(column, t)
             kind == Physical(t).kind
             n == Len(column)
  <1>0. n \in Nat
    OBVIOUS
  <1>1. kind \in FixedKinds \cup {"text", "struct", "list", "array", "none"}
    BY KindIs DEF CodecsDefined
  <1>2. CASE kind \in FixedKinds
    <2> DEFINE words == [i \in 1..n |-> WordOf(column[i], t).value]
               w == [form |-> "flat", mask |-> Mask(column), words |-> words]
    <2>1. e = Ok(w)
      BY <1>2, WordsSent
    <2>2. e.value = w
      <3> HIDE DEF w
      <3>1. QED
        BY <2>1 DEF Ok
    <2>3. words \in Seq({words[i] : i \in 1..n}) /\ Len(words) = n
      BY <1>0
    <2> HIDE DEF words
    <2>4. kind \notin {"text", "struct", "list", "array"}
      BY <1>2 DEF FixedKinds
    <2>5. QED
      BY <1>2, <2>2, <2>3, <2>4 DEF IsListKind
  <1>3. CASE kind = "text"
    <2> DEFINE texts == [i \in 1..n |-> Text(column[i])]
               w == [form |-> "flat", mask |-> Mask(column), texts |-> texts]
    <2>1. e = Ok(w)
      BY <1>3, TextsSent
    <2>2. e.value = w
      <3> HIDE DEF w
      <3>1. QED
        BY <2>1 DEF Ok
    <2> HIDE DEF texts
    <2>3. QED
      BY <1>3, <2>2 DEF IsListKind, FixedKinds, texts
  <1>4. CASE kind = "struct"
    <2> DEFINE names == Names(t)
               field == [k \in DOMAIN names |->
                            Encoded(FieldColumn(column, names[k]), t.info.children[k])]
               vectors == [k \in DOMAIN names |-> field[k].value]
               w == [form |-> "flat", mask |-> Mask(column), vectors |-> vectors]
    <2>1. e = Ok(w)
      BY <1>4, StructsSent
    <2>2. e.value = w
      <3> HIDE DEF w
      <3>1. QED
        BY <2>1 DEF Ok
    <2>3. DOMAIN vectors = DOMAIN names /\ IsFunction(vectors)
      BY DEF IsFunction
    <2> HIDE DEF vectors
    <2>4. QED
      BY <1>4, <2>2, <2>3 DEF IsListKind, FixedKinds
  <1>5. CASE IsListKind(t)
    <2>1. e = Ok(ListVector(column, t)) /\ ListsOnly(column, t)
          /\ Encoded(ItemColumn(column, t), t.info.child).ok
      BY <1>5, ListsSent
    <2>2. e.value = ListVector(column, t)
      BY <2>1 DEF Ok
    <2>3. CASE kind = "list"
      BY <1>5, <2>1, <2>2, <2>3 DEF IsListKind, FixedKinds, ListVector
    <2>4. CASE kind = "array"
      BY <1>5, <2>1, <2>2, <2>4 DEF IsListKind, FixedKinds, ListVector
    <2>5. QED
      BY <1>5, <2>3, <2>4 DEF IsListKind
  <1>6. CASE kind = "none"
    BY <1>6, NoneSent
  <1>7. QED
    BY <1>1, <1>2, <1>3, <1>4, <1>5, <1>6 DEF IsListKind

\* A mask of the wrong length is refused.
LEMMA MaskMiscount ==
    ASSUME NEW T, NEW Depth, NEW V, CodecsDefined(T, Depth, V), NEW t \in T, NEW column \in Seq(V),
           NEW v, v.form = "flat", v.mask = Mask(column), {"form", "mask"} \subseteq DOMAIN v, v.mask # NoMask,
           NEW m \in Resized(v.mask, 1)
    PROVE  ~Decoded([v EXCEPT !.mask = m], t, Len(column)).ok
  <1> DEFINE n == Len(column)
             w == [v EXCEPT !.mask = m]
  <1>1. n \in Nat
    OBVIOUS
  <1>2. Len(v.mask) = MaskSize(n) /\ v.mask \in Seq({0, 1})
    BY MaskIs
  <1>3. m \in Seq({0, 1}) /\ Len(m) # Len(v.mask)
    BY <1>2, ResizedIs
  <1>0. \A i \in 1..Len(m) : m[i] \in {0, 1}
    BY <1>3
  <1>4. m # NoMask
    <2>1. ASSUME m = <<-1>> PROVE FALSE
      <3>1. Len(m) = 1 /\ m[1] = -1
        BY <2>1
      <3>2. m[1] \in {0, 1}
        <4>1. 1 \in 1..Len(m)
          BY <3>1
        <4>2. QED
          BY <1>0, <4>1
      <3>3. QED
        BY <3>1, <3>2
    <2>2. QED
      BY <2>1 DEF NoMask
  <1>5. w.form = "flat" /\ w.mask = m
    OBVIOUS
  <1> HIDE DEF w
  <1>6. ~LengthsAgree(w, t, n)
    BY <1>2, <1>3, <1>4, <1>5 DEF LengthsAgree
  <1>7. QED
    BY <1>5, <1>6, FlatRefuses DEF w

\* Words of the wrong number are refused.
LEMMA WordsMiscount ==
    ASSUME NEW T, NEW Depth, NEW V, CodecsDefined(T, Depth, V), NEW t \in T,
           Physical(t).kind \in FixedKinds,
           NEW v, v.form = "flat", {"form", "words"} \subseteq DOMAIN v, NEW S, v.words \in Seq(S),
           NEW words \in Resized(v.words, 0)
    PROVE  ~Decoded([v EXCEPT !.words = words], t, Len(v.words)).ok
  <1> DEFINE n == Len(v.words)
             w == [v EXCEPT !.words = words]
  <1>1. v.words \in Seq(S \cup {0}) /\ 0 \in S \cup {0}
    OBVIOUS
  <1>2. Len(words) # n
    <2>1. Len(words) = n + 1 \/ (n > 0 /\ Len(words) = n - 1)
      BY <1>1, ResizedIs
    <2>2. QED
      BY <2>1
  <1>3. w.form = "flat" /\ w.words = words
    OBVIOUS
  <1> HIDE DEF w
  <1>5. ~LengthsAgree(w, t, n)
    BY <1>2, <1>3 DEF LengthsAgree
  <1>6. QED
    BY <1>3, <1>5, FlatRefuses DEF w

\* Texts are not counted: one of another number leaves the others where they are.
LEMMA TextsInPlace ==
    ASSUME NEW T, NEW Depth, NEW V, CodecsDefined(T, Depth, V), NEW t \in T, NEW column \in Seq(V),
           Physical(t).kind = "text", AllHeld(column, t),
           NEW w, w.form = "flat", w.mask = Mask(column), NEW S, w.texts \in Seq(S),
           NEW n \in Nat, n = Len(column), Len(w.texts) = n + 1 \/ (n > 0 /\ Len(w.texts) = n - 1),
           \A i \in 1..n : i <= Len(w.texts) => w.texts[i] = Text(column[i]),
           Decoded(w, t, n).ok
    PROVE  InPlace(Decoded(w, t, n).value, column, t)
  <1> DEFINE d == Decoded(w, t, n)
             m == Len(w.texts)
  <1>1. /\ \E U : d.value \in Seq(U)
        /\ Len(d.value) = m
        /\ \A i \in 1..Len(column) : i <= m /\ w.texts[i] = Text(column[i]) /\ Held(column[i], t).ok
                              => d.value[i] = Held(column[i], t).value
    BY TextPlaced
  <1>2. m \in Nat
    OBVIOUS
  <1>3. m = n + 1 \/ (n > 0 /\ m = n - 1)
    OBVIOUS
  <1> HIDE DEF d, m
  <1>4. ASSUME NEW i \in 1..n
        PROVE  \/ i <= m /\ d.value[i] = Held(column[i], t).value
               \/ i = n /\ ~(i <= m)
    <2>1. CASE i <= m
      <3>1. Held(column[i], t).ok
        BY DEF AllHeld
      <3>2. w.texts[i] = Text(column[i])
        BY <2>1 DEF m
      <3>3. d.value[i] = Held(column[i], t).value
        BY <1>1, <2>1, <3>1, <3>2
      <3>4. QED
        BY <2>1, <3>3
    <2>2. CASE ~(i <= m)
      <3>1. i = n
        BY <1>2, <1>3, <2>2
      <3>2. QED
        BY <2>2, <3>1
    <2>3. QED
      BY <2>1, <2>2
  <1>5. InPlace(d.value, column, t)
    BY <1>1, <1>4 DEF InPlace
  <1>6. QED
    BY <1>5 DEF d

\* Texts of the wrong number are refused, or stay in their rows.
LEMMA TextsMiscount ==
    ASSUME NEW T, NEW Depth, NEW V, CodecsDefined(T, Depth, V), NEW t \in T, NEW column \in Seq(V),
           Physical(t).kind = "text", AllHeld(column, t),
           NEW v, v.form = "flat", v.mask = Mask(column), {"form", "mask", "texts"} \subseteq DOMAIN v,
           NEW S, v.texts \in Seq(S), NEW none \in S, Len(v.texts) = Len(column),
           \A i \in 1..Len(column) : v.texts[i] = Text(column[i]),
           NEW texts \in Resized(v.texts, none)
    PROVE  Decoded([v EXCEPT !.texts = texts], t, Len(column)).ok =>
              InPlace(Decoded([v EXCEPT !.texts = texts], t, Len(column)).value, column, t)
  <1> DEFINE n == Len(column)
             w == [v EXCEPT !.texts = texts]
  <1>1. n \in Nat
    OBVIOUS
  <1>2. w.form = "flat" /\ w.mask = Mask(column)
    OBVIOUS
  <1>3. w.texts = texts
    OBVIOUS
  <1> HIDE DEF w, n
  <1>4. /\ texts \in Seq(S)
        /\ Len(texts) = Len(v.texts) + 1 \/ (Len(v.texts) > 0 /\ Len(texts) = Len(v.texts) - 1)
        /\ \A i \in 1..Len(v.texts) : i <= Len(texts) => texts[i] = v.texts[i]
    BY ResizedIs
  <1>5. /\ Len(w.texts) = n + 1 \/ (n > 0 /\ Len(w.texts) = n - 1)
        /\ \A i \in 1..n : i <= Len(w.texts) => w.texts[i] = Text(column[i])
    BY <1>3, <1>4 DEF n
  <1>6. w.texts \in Seq(S)
    BY <1>3, <1>4
  <1>7. n = Len(column)
    BY DEF n
  <1>8. Decoded(w, t, n).ok => InPlace(Decoded(w, t, n).value, column, t)
    BY <1>1, <1>2, <1>5, <1>6, <1>7, TextsInPlace
  <1>9. QED
    BY <1>8 DEF w, n

\* Entries of the wrong number are refused.
LEMMA EntriesMiscount ==
    ASSUME NEW T, NEW Depth, NEW V, CodecsDefined(T, Depth, V), NEW t \in T, NEW column \in Seq(V),
           Physical(t).kind = "list",
           NEW v, v.form = "flat", {"form", "entries"} \subseteq DOMAIN v, v.entries = Entries(column),
           NEW entries \in Resized(v.entries, [offset |-> 0, length |-> 0])
    PROVE  ~Decoded([v EXCEPT !.entries = entries], t, Len(column)).ok
  <1> DEFINE n == Len(column)
             w == [v EXCEPT !.entries = entries]
             none == [offset |-> 0, length |-> 0]
             S == {v.entries[i] : i \in 1..n} \cup {none}
  <1>1. n \in Nat /\ DOMAIN v.entries = 1..n /\ v.entries = [i \in 1..n |-> v.entries[i]]
    BY DEF Entries
  <1>2. v.entries \in Seq(S) /\ none \in S /\ Len(v.entries) = n
    <2> HIDE DEF none
    <2>1. v.entries \in [1..n -> S]
      BY <1>1
    <2> HIDE DEF S
    <2>2. v.entries \in Seq(S) /\ Len(v.entries) = n
      BY <1>1, <2>1
    <2>3. QED
      BY <2>2 DEF S
  <1> HIDE DEF S
  <1>3. Len(entries) # n
    <2>1. Len(entries) = n + 1 \/ (n > 0 /\ Len(entries) = n - 1)
      <3>1. entries \in Resized(v.entries, none)
        OBVIOUS
      <3> HIDE DEF none
      <3>2. QED
        BY <1>2, <3>1, ResizedIs
    <2>2. QED
      BY <1>1, <2>1
  <1>4. w.form = "flat" /\ w.entries = entries
    OBVIOUS
  <1> HIDE DEF w
  <1>5. ~LengthsAgree(w, t, n)
    BY <1>3, <1>4 DEF LengthsAgree
  <1>6. QED
    BY <1>4, <1>5, FlatRefuses DEF w

\* One vector too few of the fields of structs is read when all rows are NULL.
LEMMA NullsInPlace ==
    ASSUME NEW T, NEW Depth, NEW V, CodecsDefined(T, Depth, V), NEW t \in T, NEW column \in Seq(V),
           \A i \in 1..Len(column) : IsNull(column[i]),
           NEW out, out = [i \in 1..Len(column) |-> Null]
    PROVE  InPlace(out, column, t)
  <1>1. Len(column) \in Nat /\ \A i \in 1..Len(column) : column[i] \in V
    OBVIOUS
  <1>2. out \in Seq({Null}) /\ Len(out) = Len(column)
    BY <1>1
  <1>3. ASSUME NEW i \in 1..Len(column)
        PROVE  i <= Len(out) /\ out[i] = Held(column[i], t).value
    <2>1. Held(column[i], t) = Ok(Null)
      BY <1>1, HeldIs
    <2>2. Held(column[i], t).value = Null
      BY <2>1 DEF Ok
    <2>3. i <= Len(out)
      BY <1>1, <1>2
    <2>4. QED
      BY <2>2, <2>3
  <1>4. QED
    BY <1>2, <1>3 DEF InPlace

\* So the rows are as they were.
LEMMA VectorsInPlace ==
    ASSUME NEW T, NEW Depth, NEW V, CodecsDefined(T, Depth, V), NEW t \in T, NEW column \in Seq(V),
           Physical(t).kind = "struct", NEW w, w.form = "flat", w.mask = Mask(column),
           DOMAIN w.vectors \subseteq Nat, Len(w.vectors) < Len(Names(t)),
           Decoded(w, t, Len(column)).ok
    PROVE  InPlace(Decoded(w, t, Len(column)).value, column, t)
  <1> DEFINE n == Len(column)
             d == Decoded(w, t, n)
             dec == [k \in DOMAIN w.vectors |-> Decoded(w.vectors[k], t.info.children[k], n)]
             value == [k \in DOMAIN w.vectors |-> dec[k].value]
             out == [i \in 1..n |-> IF IsValid(w, i) THEN RowStruct(Names(t), value, i) ELSE Null]
  <1>1. n \in Nat
    OBVIOUS
  <1>2. (\A i \in 1..n : ~IsValid(w, i)) /\ d = Ok(out)
    BY <1>1, StructsRead
  <1>3. \A i \in 1..n : IsNull(column[i])
    BY <1>2, ValidIs
  <1> HIDE DEF value, d
  <1>4. out = [i \in 1..n |-> Null]
    BY <1>2
  <1> HIDE DEF out
  <1>5. d.value = out
    BY <1>2 DEF Ok
  <1>6. InPlace(d.value, column, t)
    BY <1>3, <1>4, <1>5, NullsInPlace
  <1>7. QED
    BY <1>6 DEF d

\* Fields of the wrong number are refused, or stay in their rows.
LEMMA VectorsMiscount ==
    ASSUME NEW T, NEW Depth, NEW V, CodecsDefined(T, Depth, V), NEW t \in T, NEW column \in Seq(V),
           Physical(t).kind = "struct",
           NEW v, v.form = "flat", v.mask = Mask(column),
           {"form", "mask", "vectors"} \subseteq DOMAIN v,
           DOMAIN v.vectors = DOMAIN Names(t), IsFunction(v.vectors), v.vectors # <<>>,
           NEW vectors \in Resized(v.vectors, v.vectors[1])
    PROVE  Decoded([v EXCEPT !.vectors = vectors], t, Len(column)).ok =>
              InPlace(Decoded([v EXCEPT !.vectors = vectors], t, Len(column)).value, column, t)
  <1> DEFINE n == Len(column)
             w == [v EXCEPT !.vectors = vectors]
             N == Len(Names(t))
             S == {v.vectors[k] : k \in 1..N}
  <1>1. w.form = "flat" /\ w.mask = Mask(column)
    OBVIOUS
  <1>2. w.vectors = vectors
    OBVIOUS
  <1> HIDE DEF w
  <1>3. N \in Nat /\ DOMAIN v.vectors = 1..N
    <2>1. Names(t) \in Seq(STRING)
      BY NamesAre DEF CodecsDefined
    <2>2. QED
      BY <2>1
  <1>4. v.vectors \in Seq(S) /\ Len(v.vectors) = N
    <2>1. v.vectors = [k \in 1..N |-> v.vectors[k]]
      BY <1>3 DEF IsFunction
    <2>2. \A k \in 1..N : v.vectors[k] \in S
      OBVIOUS
    <2> HIDE DEF S, N
    <2>3. QED
      BY <1>3, <2>1, <2>2
  <1>5. v.vectors[1] \in S
    <2>1. N # 0
      BY <1>3, <1>4
    <2>2. 1 \in 1..N
      BY <1>3, <2>1
    <2>3. QED
      BY <2>2
  <1> HIDE DEF S, N
  <1>6. vectors \in Seq(S) /\ (Len(vectors) = N + 1 \/ (N > 0 /\ Len(vectors) = N - 1))
    <2>1. vectors \in Seq(S) /\ (Len(vectors) = Len(v.vectors) + 1
                                 \/ (Len(v.vectors) > 0 /\ Len(vectors) = Len(v.vectors) - 1))
      BY <1>4, <1>5, ResizedIs
    <2>2. QED
      BY <1>4, <2>1
  <1>7. DOMAIN w.vectors \subseteq Nat
    BY <1>2, <1>6
  <1>8. CASE Len(vectors) = N + 1
    <2>1. ~LengthsAgree(w, t, n)
      <3>1. ~(Len(w.vectors) <= Len(Names(t)))
        BY <1>2, <1>3, <1>8 DEF N
      <3>2. QED
        BY <3>1 DEF LengthsAgree
    <2>2. ~Decoded(w, t, n).ok
      BY <1>1, <2>1, FlatRefuses
    <2>3. QED
      BY <2>2 DEF w
  <1>9. CASE Len(vectors) = N - 1
    <2>1. Len(w.vectors) < Len(Names(t))
      BY <1>2, <1>3, <1>9 DEF N
    <2>2. Decoded(w, t, n).ok => InPlace(Decoded(w, t, n).value, column, t)
      BY <1>1, <1>7, <2>1, VectorsInPlace
    <2>3. QED
      BY <2>2 DEF w
  <1>10. QED
    BY <1>6, <1>8, <1>9

\* The wrong size of the items of lists is that of another vector, and arrays say theirs.
LEMMA SizeInPlace ==
    ASSUME NEW T, NEW Depth, NEW V, CodecsDefined(T, Depth, V), NEW t \in T, NEW column \in Seq(V),
           IsListKind(t), AllHeld(column, t), ListsOnly(column, t),
           Encoded(ItemColumn(column, t), t.info.child).ok,
           NEW w, w.form = "flat", w.mask = Mask(column),
           w.child = Encoded(ItemColumn(column, t), t.info.child).value,
           Physical(t).kind = "list" => w.entries = Entries(column)
                                        /\ w.size = Len(ItemColumn(column, t)) + 1,
           Physical(t).kind = "array" => w.size = t.info.size + 1
    PROVE  Decoded(w, t, Len(column)).ok => InPlace(Decoded(w, t, Len(column)).value, column, t)
  <1> DEFINE n == Len(column)
             items == ItemColumn(column, t)
             child == t.info.child
  <1>1. n \in Nat
    OBVIOUS
  <1>2. items \in Seq(V) /\ Len(items) \in Nat
    BY ItemColumnIs
  <1>3. child \in T /\ (Physical(t).kind = "array" => t.info.size \in Nat)
    BY ListTypeIs DEF CodecsDefined
  <1>4. CASE Physical(t).kind = "list"
    <2>1. ReadSize(w, t, n) = Len(items) + 1
      BY <1>4 DEF ReadSize
    <2>2. Keeps(items, child, Len(items) + 1)
      <3>1. Carries(child, V)
        BY <1>3, CarriesAll
      <3>2. Len(items) + 1 \in Nat
        BY <1>2
      <3>3. QED
        BY <1>2, <3>1, <3>2 DEF Carries
    <2>3. ReadSize(w, t, n) >= Len(items) /\ Keeps(items, child, ReadSize(w, t, n))
      BY <1>2, <2>1, <2>2
    <2>4. w.entries = Entries(column) /\ Physical(t).kind # "array"
      BY <1>4
    <2>5. Decoded(w, t, n).ok => Placed(Decoded(w, t, n).value, column, t)
      BY <1>1, <2>3, <2>4, ListsPlaced
    <2>6. QED
      BY <2>5, PlacedInPlace
  <1>5. CASE Physical(t).kind = "array"
    <2>1. w.size # t.info.size
      BY <1>3, <1>5
    <2>2. ~LengthsAgree(w, t, n)
      BY <1>5, <2>1 DEF LengthsAgree
    <2>3. QED
      BY <2>2, FlatRefuses
  <1>6. QED
    BY <1>4, <1>5 DEF IsListKind

\* Items of the wrong number are refused, or stay in their lists.
LEMMA SizeMiscount ==
    ASSUME NEW T, NEW Depth, NEW V, CodecsDefined(T, Depth, V), NEW t \in T, NEW column \in Seq(V),
           IsListKind(t), AllHeld(column, t), ListsOnly(column, t),
           Encoded(ItemColumn(column, t), t.info.child).ok,
           NEW v, v = ListVector(column, t), NEW w, w = [v EXCEPT !.size = @ + 1]
    PROVE  Decoded(w, t, Len(column)).ok => InPlace(Decoded(w, t, Len(column)).value, column, t)
  <1>1. /\ {"form", "mask", "child", "size"} \subseteq DOMAIN v
        /\ Physical(t).kind = "list" => "entries" \in DOMAIN v
    BY DEF ListVector
  <1>2. /\ v.form = "flat" /\ v.mask = Mask(column)
        /\ v.child = Encoded(ItemColumn(column, t), t.info.child).value
        /\ Physical(t).kind = "list" =>
              v.entries = Entries(column) /\ v.size = Len(ItemColumn(column, t))
        /\ Physical(t).kind = "array" => v.size = t.info.size
    BY ListVectorIs
  <1>3. w.form = v.form /\ w.mask = v.mask /\ w.child = v.child /\ w.size = v.size + 1
        /\ (Physical(t).kind = "list" => w.entries = v.entries)
    BY <1>1
  <1>4. QED
    BY <1>2, <1>3, SizeInPlace

\* A vector with a part too many or too few.
Miscounted(v, w) ==
    \/ /\ v.mask # NoMask
       /\ \E m \in Resized(v.mask, 1) : w = [v EXCEPT !.mask = m]
    \/ /\ "words" \in DOMAIN v
       /\ \E x \in Resized(v.words, 0) : w = [v EXCEPT !.words = x]
    \/ /\ "texts" \in DOMAIN v
       /\ \E x \in Resized(v.texts, "") : w = [v EXCEPT !.texts = x]
    \/ /\ "entries" \in DOMAIN v
       /\ \E e \in Resized(v.entries, [offset |-> 0, length |-> 0]) : w = [v EXCEPT !.entries = e]
    \/ /\ "vectors" \in DOMAIN v /\ v.vectors # <<>>
       /\ \E x \in Resized(v.vectors, v.vectors[1]) : w = [v EXCEPT !.vectors = x]
    \/ /\ "size" \in DOMAIN v
       /\ w = [v EXCEPT !.size = @ + 1]

TextsOf(column) == [i \in 1..Len(column) |-> Text(column[i])]

\* The texts of a column, among which is none that the peer may add.
LEMMA TextsAre ==
    ASSUME NEW V, NEW column \in Seq(V), NEW texts, texts = TextsOf(column),
           NEW none
    PROVE  \E S : /\ texts \in Seq(S) /\ none \in S /\ Len(texts) = Len(column)
                  /\ \A i \in 1..Len(column) : texts[i] = Text(column[i])
  <1> DEFINE n == Len(column)
             S == {texts[i] : i \in 1..n} \cup {none}
  <1>0. texts = [i \in 1..n |-> Text(column[i])]
    BY DEF TextsOf
  <1>1. n \in Nat
    OBVIOUS
  <1>2. none \in S /\ \A i \in 1..n : texts[i] \in S
    OBVIOUS
  <1>3. \A i \in 1..n : texts[i] = Text(column[i])
    BY <1>0
  <1>4. texts = [i \in 1..n |-> texts[i]]
    BY <1>0
  <1> HIDE DEF S, n
  <1>5. texts \in Seq(S) /\ Len(texts) = n
    BY <1>1, <1>2, <1>4
  <1>6. QED
    BY <1>2, <1>3, <1>5 DEF n

\* Whatever part has the wrong length: the vector is refused, or the values stay in their rows.
LEMMA MiscountRead ==
    ASSUME NEW T, NEW Depth, NEW V, CodecsDefined(T, Depth, V), NEW t \in T, NEW column \in Seq(V),
           AllHeld(column, t), Encoded(column, t).ok, NEW w, Miscounted(Encoded(column, t).value, w)
    PROVE  Decoded(w, t, Len(column)).ok => InPlace(Decoded(w, t, Len(column)).value, column, t)
  <1> DEFINE v == Encoded(column, t).value
             n == Len(column)
             kind == Physical(t).kind
             Goal == Decoded(w, t, n).ok => InPlace(Decoded(w, t, n).value, column, t)
  <1>1. /\ v.form = "flat" /\ v.mask = Mask(column)
        /\ {"form", "mask"} \subseteq DOMAIN v
        /\ "words" \in DOMAIN v <=> kind \in FixedKinds
        /\ "texts" \in DOMAIN v <=> kind = "text"
        /\ "vectors" \in DOMAIN v <=> kind = "struct"
        /\ "entries" \in DOMAIN v <=> kind = "list"
        /\ "size" \in DOMAIN v <=> IsListKind(t)
        /\ kind \in FixedKinds => v.words \in Seq({v.words[i] : i \in 1..n}) /\ Len(v.words) = n
        /\ kind = "text" => v.texts = [i \in 1..n |-> Text(column[i])]
        /\ kind = "struct" => DOMAIN v.vectors = DOMAIN Names(t) /\ IsFunction(v.vectors)
        /\ IsListKind(t) => /\ v = ListVector(column, t) /\ ListsOnly(column, t)
                            /\ Encoded(ItemColumn(column, t), t.info.child).ok
    BY VectorIs
  <1>2. Miscounted(v, w)
    OBVIOUS
  <1> HIDE DEF v, Goal
  <1>3. ASSUME v.mask # NoMask, NEW m \in Resized(v.mask, 1), w = [v EXCEPT !.mask = m]
        PROVE  Goal
    <2>1. ~Decoded([v EXCEPT !.mask = m], t, Len(column)).ok
      BY <1>1, <1>3, MaskMiscount
    <2>2. QED
      BY <1>3, <2>1 DEF Goal
  <1>4. ASSUME "words" \in DOMAIN v, NEW x \in Resized(v.words, 0), w = [v EXCEPT !.words = x]
        PROVE  Goal
    <2>1. Physical(t).kind \in FixedKinds
      BY <1>1, <1>4
    <2>2. PICK S : v.words \in Seq(S)
      BY <1>1, <2>1
    <2>3. ~Decoded([v EXCEPT !.words = x], t, Len(v.words)).ok
      BY <1>1, <1>4, <2>1, <2>2, WordsMiscount
    <2>4. QED
      BY <1>1, <1>4, <2>1, <2>3 DEF Goal
  <1>5. ASSUME "texts" \in DOMAIN v, NEW x, x \in Resized(v.texts, ""), w = [v EXCEPT !.texts = x]
        PROVE  Goal
    <2> DEFINE none == ""
    <2>1. kind = "text" /\ x \in Resized(v.texts, none)
      BY <1>1, <1>5
    <2> HIDE DEF none
    <2>2. v.texts = TextsOf(column)
      BY <1>1, <2>1 DEF TextsOf
    <2>3. PICK S : /\ v.texts \in Seq(S) /\ none \in S /\ Len(v.texts) = Len(column)
                   /\ \A i \in 1..Len(column) : v.texts[i] = Text(column[i])
      BY <2>2, TextsAre
    <2>4. {"form", "mask", "texts"} \subseteq DOMAIN v
      BY <1>1, <1>5
    <2>5. Decoded([v EXCEPT !.texts = x], t, Len(column)).ok =>
             InPlace(Decoded([v EXCEPT !.texts = x], t, Len(column)).value, column, t)
      BY <1>1, <2>1, <2>3, <2>4, TextsMiscount
    <2>6. QED
      BY <1>5, <2>5 DEF Goal
  <1>6. ASSUME "entries" \in DOMAIN v, NEW e \in Resized(v.entries, [offset |-> 0, length |-> 0]),
               w = [v EXCEPT !.entries = e]
        PROVE  Goal
    <2>1. kind = "list" /\ IsListKind(t) /\ {"form", "entries"} \subseteq DOMAIN v
      BY <1>1, <1>6 DEF IsListKind
    <2>2. v.entries = Entries(column)
      BY <1>1, <2>1, ListVectorIs
    <2>3. ~Decoded([v EXCEPT !.entries = e], t, Len(column)).ok
      BY <1>1, <1>6, <2>1, <2>2, EntriesMiscount
    <2>4. QED
      BY <1>6, <2>3 DEF Goal
  <1>7. ASSUME "vectors" \in DOMAIN v, v.vectors # <<>>, NEW x \in Resized(v.vectors, v.vectors[1]),
               w = [v EXCEPT !.vectors = x]
        PROVE  Goal
    <2>1. kind = "struct" /\ {"form", "mask", "vectors"} \subseteq DOMAIN v
      BY <1>1, <1>7
    <2>2. Decoded([v EXCEPT !.vectors = x], t, Len(column)).ok =>
             InPlace(Decoded([v EXCEPT !.vectors = x], t, Len(column)).value, column, t)
      BY <1>1, <1>7, <2>1, VectorsMiscount
    <2>3. QED
      BY <1>7, <2>2 DEF Goal
  <1>8. ASSUME "size" \in DOMAIN v, w = [v EXCEPT !.size = @ + 1]
        PROVE  Goal
    <2>1. IsListKind(t)
      BY <1>1, <1>8
    <2>2. Decoded(w, t, Len(column)).ok => InPlace(Decoded(w, t, Len(column)).value, column, t)
      BY <1>1, <1>8, <2>1, SizeMiscount
    <2>3. QED
      BY <2>2 DEF Goal
  <1>9. Goal
    BY <1>2, <1>3, <1>4, <1>5, <1>6, <1>7, <1>8 DEF Miscounted
  <1>10. QED
    BY <1>9 DEF Goal

-------------------------------------------------------------------------------
(* Wrong metadata *)

\* The word of an integer, whatever else its type has.
LEMMA IntegerLaid ==
    ASSUME NEW t, NEW u, u.id = t.id, t.id \in IntegerIds
    PROVE  Physical(u) = Physical(t)
  <1> USE DEF Word64Ids, TextIds, BytesIds, StructIds, ListIds
  <1>1. CASE t.id = "TINYINT"
    <2>1. Physical(u) = Word(8, TRUE)
      BY <1>1 DEF Physical, Word, Laid
    <2>2. Physical(t) = Word(8, TRUE)
      BY <1>1 DEF Physical, Word, Laid
    <2>3. QED
      BY <2>1, <2>2
  <1>2. CASE t.id = "UTINYINT"
    <2>1. Physical(u) = Word(8, FALSE)
      BY <1>2 DEF Physical, Word, Laid
    <2>2. Physical(t) = Word(8, FALSE)
      BY <1>2 DEF Physical, Word, Laid
    <2>3. QED
      BY <2>1, <2>2
  <1>3. CASE t.id = "SMALLINT"
    <2>1. Physical(u) = Word(16, TRUE)
      BY <1>3 DEF Physical, Word, Laid
    <2>2. Physical(t) = Word(16, TRUE)
      BY <1>3 DEF Physical, Word, Laid
    <2>3. QED
      BY <2>1, <2>2
  <1>4. CASE t.id = "USMALLINT"
    <2>1. Physical(u) = Word(16, FALSE)
      BY <1>4 DEF Physical, Word, Laid
    <2>2. Physical(t) = Word(16, FALSE)
      BY <1>4 DEF Physical, Word, Laid
    <2>3. QED
      BY <2>1, <2>2
  <1>5. CASE t.id = "INTEGER"
    <2>1. Physical(u) = Word(32, TRUE)
      BY <1>5 DEF Physical, Word, Laid
    <2>2. Physical(t) = Word(32, TRUE)
      BY <1>5 DEF Physical, Word, Laid
    <2>3. QED
      BY <2>1, <2>2
  <1>6. CASE t.id = "UINTEGER"
    <2>1. Physical(u) = Word(32, FALSE)
      BY <1>6 DEF Physical, Word, Laid
    <2>2. Physical(t) = Word(32, FALSE)
      BY <1>6 DEF Physical, Word, Laid
    <2>3. QED
      BY <2>1, <2>2
  <1>7. CASE t.id = "BIGINT"
    <2>1. Physical(u) = Word(64, TRUE)
      BY <1>7 DEF Physical, Word, Laid
    <2>2. Physical(t) = Word(64, TRUE)
      BY <1>7 DEF Physical, Word, Laid
    <2>3. QED
      BY <2>1, <2>2
  <1>8. CASE t.id \in {"UBIGINT", "POINTER"}
    <2>1. Physical(u) = Word(64, FALSE)
      BY <1>8 DEF Physical, Word, Laid
    <2>2. Physical(t) = Word(64, FALSE)
      BY <1>8 DEF Physical, Word, Laid
    <2>3. QED
      BY <2>1, <2>2
  <1>9. CASE t.id = "HUGEINT"
    <2>1. Physical(u) = Word(128, TRUE)
      BY <1>9 DEF Physical, Word, Laid
    <2>2. Physical(t) = Word(128, TRUE)
      BY <1>9 DEF Physical, Word, Laid
    <2>3. QED
      BY <2>1, <2>2
  <1>10. CASE t.id = "UHUGEINT"
    <2>1. Physical(u) = Word(128, FALSE)
      BY <1>10 DEF Physical, Word, Laid
    <2>2. Physical(t) = Word(128, FALSE)
      BY <1>10 DEF Physical, Word, Laid
    <2>3. QED
      BY <2>1, <2>2
  <1>11. QED
    BY <1>1, <1>2, <1>3, <1>4, <1>5, <1>6, <1>7, <1>8, <1>9, <1>10 DEF IntegerIds

\* A type without metadata is laid out as one with, or not at all.
LEMMA PlainLaid ==
    ASSUME NEW T, NEW Depth, TypesNested(T, Depth), NEW t \in T, NEW u, u = Plain(t.id),
           Physical(u).kind # "none"
    PROVE  /\ u \in T /\ u.id = t.id /\ Names(u) = <<>>
           /\ t.id \notin {"DECIMAL", "ENUM", "STRUCT", "ARRAY"} \cup ListIds
           /\ Physical(u) = Physical(t)
  <1>1. u \in T
    BY DEF TypesNested
  <1>2. u.id = t.id /\ u.info.kind = "none"
    BY DEF Plain, NoInfo
  <1>3. Names(u) = <<>>
    BY <1>2 DEF Names
  <1>4. u.info.kind \in Kinds /\ t.info.kind \in Kinds
    BY <1>1, TypeIs
  <1>5. Laid("none").kind = "none"
    BY DEF Laid
  <1>6. t.id \notin {"DECIMAL", "ENUM", "STRUCT", "ARRAY"} \cup ListIds
    <2>1. \/ t.id \notin {"DECIMAL", "ENUM", "STRUCT", "ARRAY"} \cup ListIds
          \/ Physical(u) = Laid("none")
      BY <1>2, <1>4, PhysicalIs
    <2>2. QED
      BY <1>5, <2>1
  <1>7. Physical(u) = Physical(t)
    <2>1. CASE t.id \in StructIds
      BY <1>2, <1>4, <1>6, <2>1, PhysicalIs DEF StructIds
    <2>2. CASE t.id \notin StructIds
      <3>1. CASE t.id \in IntegerIds
        BY <1>2, <3>1, IntegerLaid
      <3>2. CASE t.id \notin IntegerIds
        <4>1. CASE t.id = "BOOLEAN"
          BY <1>2, <1>4, <4>1, PhysicalIs
        <4>2. CASE t.id \in {"DATE", "SQLNULL"}
          BY <1>2, <1>4, <4>2, PhysicalIs
        <4>3. CASE t.id \in TimeIds
          BY <1>2, <1>4, <4>3, PhysicalIs
        <4>4. CASE t.id = "UUID"
          BY <1>2, <1>4, <4>4, PhysicalIs
        <4>5. CASE t.id \in {"FLOAT", "DOUBLE"}
          BY <1>2, <1>4, <4>5, PhysicalIs
        <4>6. CASE t.id = "INTERVAL"
          BY <1>2, <1>4, <4>6, PhysicalIs
        <4>7. CASE t.id \in TextIds \cup BytesIds
          BY <1>2, <1>4, <4>7, PhysicalIs
        <4>8. CASE t.id \notin MadeIds \cup OwnIds \cup NestedIds \cup TextIds \cup BytesIds \cup {"SQLNULL"}
          BY <1>2, <1>4, <4>8, PhysicalIs
        <4>9. QED
          BY <1>6, <2>2, <3>2, <4>1, <4>2, <4>3, <4>4, <4>5, <4>6, <4>7, <4>8
             DEF MadeIds, OwnIds, NestedIds
      <3>3. QED
        BY <3>1, <3>2
    <2>3. QED
      BY <2>1, <2>2
  <1>8. QED
    BY <1>1, <1>2, <1>3, <1>6, <1>7

\* A word is read by the id of its type alone.
LEMMA PlainWord ==
    ASSUME NEW t, NEW u, u.id = t.id, t.id \notin {"DECIMAL", "ENUM"}, Physical(u) = Physical(t),
           Physical(t).kind = "bool" => t.id = "BOOLEAN",
           Physical(t).kind = "interval" => t.id = "INTERVAL",
           NEW word
    PROVE  FromWord(word, u) = FromWord(word, t)
  <1>1. \A n : FromInt64(n, u) = FromInt64(n, t)
    BY Zenon DEF FromInt64
  <1>2. CASE Physical(t).kind \in {"bool", "interval"}
    <2>1. CASE Physical(t).kind = "bool"
      <3>1. t.id = "BOOLEAN" /\ u.id = "BOOLEAN" /\ Physical(t).kind # "interval"
        BY <2>1
      <3>2. FromWord(word, t) = Ok([bool |-> word # 0])
        BY <2>1, <3>1, Zenon DEF FromWord
      <3>3. FromWord(word, u) = Ok([bool |-> word # 0])
        BY <2>1, <3>1, Zenon DEF FromWord
      <3>4. QED
        BY <3>2, <3>3, Zenon
    <2>2. CASE Physical(t).kind = "interval"
      <3>1. t.id = "INTERVAL" /\ u.id = "INTERVAL" /\ Physical(t).kind # "bool"
        BY <2>2
      <3>2. FromWord(word, t) = Ok([interval |-> word])
        BY <2>2, <3>1, Zenon DEF FromWord
      <3>3. FromWord(word, u) = Ok([interval |-> word])
        BY <2>2, <3>1, Zenon DEF FromWord
      <3>4. QED
        BY <3>2, <3>3
    <2>3. QED
      BY <1>2, <2>1, <2>2
  <1>3. CASE Physical(t).kind \notin {"bool", "interval"} /\ t.id \in {"FLOAT", "DOUBLE", "UUID", "DATE", "HUGEINT", "UHUGEINT"}
    BY <1>3, Zenon DEF FromWord
  <1>4. CASE /\ Physical(t).kind \notin {"bool", "interval"}
             /\ t.id \notin {"FLOAT", "DOUBLE", "UUID", "DATE", "HUGEINT", "UHUGEINT"}
    BY <1>1, <1>4, Zenon DEF FromWord
  <1>5. QED
    BY <1>2, <1>3, <1>4

\* So are the words of a column,
LEMMA PlainWords ==
    ASSUME NEW T, NEW Depth, NEW V, CodecsDefined(T, Depth, V), NEW t \in T, NEW u \in T,
           u.id = t.id, t.id \notin {"DECIMAL", "ENUM"}, Physical(u) = Physical(t),
           Physical(t).kind \in FixedKinds,
           NEW v, v.form = "flat", NEW n \in Nat, Decoded(v, t, n).ok, Decoded(v, u, n).ok
    PROVE  Decoded(v, u, n) = Decoded(v, t, n)
  <1> DEFINE Scalars(x) == [i \in 1..n |-> FromWord(v.words[i], x).value]
             Out(x) == [i \in DOMAIN Scalars(x) |-> IF IsValid(v, i) THEN Scalars(x)[i] ELSE Null]
  <1>1. Decoded(v, t, n) = Ok(Out(t))
    BY WordsRead
  <1>2. Decoded(v, u, n) = Ok(Out(u))
    BY WordsRead
  <1>3. \A word : FromWord(word, u) = FromWord(word, t)
    BY PlainWord, KindIs DEF CodecsDefined
  <1>4. Scalars(u) = Scalars(t)
    BY <1>3
  <1>5. QED
    BY <1>1, <1>2, <1>4

\* and its texts.
LEMMA PlainTexts ==
    ASSUME NEW T, NEW Depth, NEW V, CodecsDefined(T, Depth, V), NEW t \in T, NEW u \in T,
           u.id = t.id, Physical(u) = Physical(t), Physical(t).kind = "text",
           NEW v, v.form = "flat", NEW n \in Nat, Decoded(v, t, n).ok, Decoded(v, u, n).ok
    PROVE  Decoded(v, u, n) = Decoded(v, t, n)
  <1> DEFINE Texts(x) == [i \in DOMAIN v.texts |-> TextRead(v.texts[i], x)]
             Out(x) == [i \in DOMAIN Texts(x) |-> IF IsValid(v, i) THEN Texts(x)[i] ELSE Null]
  <1>1. Decoded(v, t, n) = Ok(Out(t))
    BY TextsRead
  <1>2. Decoded(v, u, n) = Ok(Out(u))
    BY TextsRead
  <1>3. \A text : TextRead(text, u) = TextRead(text, t)
    BY DEF TextRead
  <1>4. Texts(u) = Texts(t)
    BY <1>3
  <1>5. QED
    BY <1>1, <1>2, <1>4

\* Structs without fields are read only when all their rows are NULL.
LEMMA PlainStructs ==
    ASSUME NEW T, NEW Depth, NEW V, CodecsDefined(T, Depth, V), NEW t \in T, NEW u \in T,
           u.id = t.id, Names(u) = <<>>, Physical(u) = Physical(t), Physical(t).kind = "struct",
           NEW v, v.form = "flat", DOMAIN v.vectors = DOMAIN Names(t), IsFunction(v.vectors),
           NEW n \in Nat, Decoded(v, t, n).ok, Decoded(v, u, n).ok
    PROVE  Decoded(v, u, n) = Decoded(v, t, n)
  <1> DEFINE Value(x) == [k \in DOMAIN v.vectors |->
                 [j \in DOMAIN v.vectors |-> Decoded(v.vectors[j], x.info.children[j], n)][k].value]
             Out(x) == [i \in 1..n |-> IF IsValid(v, i) THEN RowStruct(Names(x), Value(x), i) ELSE Null]
             N == Len(Names(t))
  <1>1. Names(t) \in Seq(STRING) /\ N \in Nat
    <2>1. Names(t) \in Seq(STRING)
      BY NamesAre DEF CodecsDefined
    <2>2. QED
      BY <2>1
  <1>2. DOMAIN v.vectors = 1..N /\ DOMAIN v.vectors \subseteq Nat
    BY <1>1
  <1>3. Len(v.vectors) = N
    <2>1. v.vectors = [k \in 1..N |-> v.vectors[k]]
      BY <1>2 DEF IsFunction
    <2> HIDE DEF N
    <2>2. QED
      BY <1>1, <2>1
  <1>4. N = 0
    <2>1. Len(v.vectors) <= Len(Names(u))
      <3>1. LengthsAgree(v, u, n)
        BY FlatRefuses
      <3>2. QED
        BY <3>1 DEF LengthsAgree
    <2>2. Len(<<>>) = 0
      OBVIOUS
    <2>3. QED
      BY <1>1, <1>3, <2>1, <2>2
  <1>5. Names(t) = <<>>
    BY <1>1, <1>4
  <1>6. Decoded(v, t, n) = Ok(Out(t))
    BY <1>2, StructsRead
  <1>7. Decoded(v, u, n) = Ok(Out(u))
    BY <1>2, StructsRead
  <1> HIDE DEF Value
  <1>8. \A i : RowStruct(Names(u), Value(u), i) = RowStruct(Names(t), Value(t), i)
    <2>1. ToSet(<<>>) = {}
      BY DEF ToSet
    <2>2. QED
      BY <1>5, <2>1 DEF RowStruct
  <1>9. Out(u) = Out(t)
    BY <1>8
  <1>10. QED
    BY <1>6, <1>7, <1>9

\* What is sent is flat, with a vector for each field.
LEMMA SentFlat ==
    ASSUME NEW T, NEW Depth, NEW V, CodecsDefined(T, Depth, V), NEW t \in T, NEW column \in Seq(V),
           Encoded(column, t).ok
    PROVE  LET v == Encoded(column, t).value
           IN /\ v.form = "flat"
              /\ Physical(t).kind = "struct" =>
                    DOMAIN v.vectors = DOMAIN Names(t) /\ IsFunction(v.vectors)
  <1> DEFINE v == Encoded(column, t).value
  <1> DEFINE n == Len(column)
  <1>1. /\ v.form = "flat" /\ v.mask = Mask(column)
        /\ {"form", "mask"} \subseteq DOMAIN v
        /\ "words" \in DOMAIN v <=> Physical(t).kind \in FixedKinds
        /\ "texts" \in DOMAIN v <=> Physical(t).kind = "text"
        /\ "vectors" \in DOMAIN v <=> Physical(t).kind = "struct"
        /\ "entries" \in DOMAIN v <=> Physical(t).kind = "list"
        /\ "size" \in DOMAIN v <=> IsListKind(t)
        /\ Physical(t).kind \in FixedKinds => v.words \in Seq({v.words[i] : i \in 1..n}) /\ Len(v.words) = n
        /\ Physical(t).kind = "text" => v.texts = [i \in 1..n |-> Text(column[i])]
        /\ Physical(t).kind = "struct" => DOMAIN v.vectors = DOMAIN Names(t) /\ IsFunction(v.vectors)
        /\ IsListKind(t) => /\ v = ListVector(column, t) /\ ListsOnly(column, t)
                            /\ Encoded(ItemColumn(column, t), t.info.child).ok
    BY VectorIs
  <1> HIDE DEF v
  <1>2. v.form = "flat" /\ (Physical(t).kind = "struct" => DOMAIN v.vectors = DOMAIN Names(t) /\ IsFunction(v.vectors))
    BY <1>1
  <1>3. QED
    BY <1>2 DEF v

\* A column that is read as of its type without metadata is as it was.
LEMMA PlainRead ==
    ASSUME NEW T, NEW Depth, NEW V, CodecsDefined(T, Depth, V), NEW t \in T, NEW column \in Seq(V),
           Supported(t), AllHeld(column, t), NEW u, u = Plain(t.id),
           NEW v, v = Encoded(column, t).value, Decoded(v, u, Len(column)).ok
    PROVE  Decoded(v, u, Len(column)) = Ok(Wanted(column, t))
  <1> DEFINE n == Len(column)
  <1>0. TypesNested(T, Depth) /\ n \in Nat /\ u \in T
    BY DEF CodecsDefined, TypesNested
  <1>1. Encoded(column, t).ok /\ Decoded(v, t, n) = Ok(Wanted(column, t))
    BY SentReturns
  <1>2. Decoded(v, t, n).ok
    BY <1>1 DEF Ok
  <1>3. v.form = "flat" /\ (Physical(t).kind = "struct" =>
                              DOMAIN v.vectors = DOMAIN Names(t) /\ IsFunction(v.vectors))
    BY <1>1, SentFlat
  <1>4. Physical(u).kind # "none"
    BY <1>0, <1>3, FlatRefuses
  <1>5. /\ u.id = t.id /\ Names(u) = <<>>
        /\ t.id \notin {"DECIMAL", "ENUM", "STRUCT", "ARRAY"} \cup ListIds
        /\ Physical(u) = Physical(t)
    BY <1>0, <1>4, PlainLaid
  <1>6. Physical(t).kind \in FixedKinds \cup {"text", "struct"}
    BY <1>0, <1>4, <1>5, KindIs
  <1> HIDE DEF n
  <1>7. CASE Physical(t).kind \in FixedKinds
    <2>1. Decoded(v, u, n) = Decoded(v, t, n)
      BY <1>0, <1>2, <1>3, <1>5, <1>7, PlainWords DEF n
    <2>2. QED
      BY <1>1, <2>1 DEF n
  <1>8. CASE Physical(t).kind = "text"
    <2>1. Decoded(v, u, n) = Decoded(v, t, n)
      BY <1>0, <1>2, <1>3, <1>5, <1>8, PlainTexts DEF n
    <2>2. QED
      BY <1>1, <2>1 DEF n
  <1>9. CASE Physical(t).kind = "struct"
    <2>1. Decoded(v, u, n) = Decoded(v, t, n)
      BY <1>0, <1>2, <1>3, <1>5, <1>9, PlainStructs DEF n
    <2>2. QED
      BY <1>1, <2>1 DEF n
  <1>10. QED
    BY <1>6, <1>7, <1>8, <1>9

-------------------------------------------------------------------------------
(* What is sent of a column, whole *)

\* What is sent of a column that its type can hold.
LEMMA ChunkIs ==
    ASSUME NEW T, NEW Depth, NEW V, CodecsDefined(T, Depth, V), NEW t \in T, NEW column \in Seq(V),
           Supported(t), AllHeld(column, t), NEW c, c = EncodedChunk(Normal(column, t), t).value
    PROVE  /\ c = [count |-> Len(column), type |-> EncodedType(t), vector |-> c.vector]
           /\ c.vector = Encoded(Normal(column, t), t).value
           /\ Encoded(Normal(column, t), t).ok
           /\ Says(c.type, t)
  <1> DEFINE normal == Normal(column, t)
             e == Encoded(normal, t)
  <1>1. normal \in Seq(V) /\ Len(normal) = Len(column)
    BY NormalIs
  <1>2. EncodedChunk(normal, t).ok
    BY ChunkReturns
  <1> HIDE DEF normal
  <1>3. e.ok /\ EncodedChunk(normal, t).value =
                   [count |-> Len(normal), type |-> EncodedType(t), vector |-> e.value]
    BY <1>2, ChunkSent
  <1>4. c = [count |-> Len(column), type |-> EncodedType(t), vector |-> e.value]
    BY <1>1, <1>3 DEF normal
  <1> HIDE DEF e
  <1>5. c.vector = e.value /\ c.type = EncodedType(t)
    BY <1>4
  <1>6. Says(c.type, t)
    BY <1>5, TypeSays
  <1>7. QED
    BY <1>3, <1>4, <1>5, <1>6 DEF e, normal

\* Another vector that says the same is read as the same column, also with a terser type.
LEMMA ReshapedRead ==
    ASSUME NEW T, NEW Depth, NEW V, CodecsDefined(T, Depth, V), NEW t \in T, NEW column \in Seq(V),
           Supported(t), AllHeld(column, t), NEW c, c = EncodedChunk(Normal(column, t), t).value,
           NEW v, Decoded(v, t, Len(column)) = Ok(Wanted(column, t)),
           NEW d, d.count = Len(column), d.type = Terse(c.type), d.vector = v
    PROVE  DecodedChunk(d) = Ok([count |-> Len(column), type |-> t, values |-> Wanted(column, t)])
  <1>1. Says(c.type, t)
    BY ChunkIs
  <1>2. d.count = Len(column) /\ d.type = Terse(c.type) /\ d.vector = v
    OBVIOUS
  <1>3. Says(d.type, t)
    BY <1>1, <1>2, TerseSays
  <1>4. Readable(d.type) /\ DecodedType(d.type) = t
    <2>1. TypesNested(T, Depth) /\ TypesReadAsDefined
      BY DEF CodecsDefined
    <2>2. \A k \in DOMAIN TypesInside(t) : Restores(TypesInside(t)[k])
      <3>1. TypesInside(t) \in Seq(T)
        BY <2>1, InsideIs
      <3>2. QED
        BY <3>1, TypesReturn
    <2>3. QED
      BY <1>3, <2>1, <2>2, SaysRead
  <1>5. Ok(Wanted(column, t)).ok /\ Ok(Wanted(column, t)).value = Wanted(column, t)
    BY DEF Ok
  <1>6. Decoded(d.vector, DecodedType(d.type), d.count) = Ok(Wanted(column, t))
    BY <1>2, <1>4
  <1>7. DecodedChunk(d) = Ok([count |-> d.count, type |-> DecodedType(d.type),
                              values |-> Wanted(column, t)])
    BY <1>4, <1>5, <1>6, ChunkRead
  <1>8. QED
    BY <1>2, <1>4, <1>7

\* What a chunk has of a column, at the rows of its values.
Unmoved(c, column, t) ==
    \A i \in 1..Len(column) :
        \/ RowsOf(c)[i] = Held(column[i], t).value
        \/ Physical(t).kind = "text" /\ i = Len(column) /\ IsNull(RowsOf(c)[i])

\* What is decoded in place is in place in the rows.
LEMMA RowsInPlace ==
    ASSUME NEW V, NEW column \in Seq(V), NEW t, NEW c, c.count = Len(column),
           InPlace(c.values, column, t)
    PROVE  Unmoved(c, column, t)
  <1> DEFINE n == Len(column)
             out == c.values
  <1>1. PICK S : out \in Seq(S)
    BY DEF InPlace
  <1>2. n \in Nat /\ Len(out) \in Nat /\ DOMAIN out = 1..Len(out)
    BY <1>1
  <1>3. IsNull(Null)
    BY DEF IsNull, Is, Null
  <1> HIDE DEF n, out
  <1>4. ASSUME NEW i \in 1..n
        PROVE  RowsOf(c)[i] = IF i <= Len(out) THEN out[i] ELSE Null
    <2>1. RowsOf(c)[i] = IF i \in DOMAIN out THEN out[i] ELSE Null
      BY DEF RowsOf, n, out
    <2>2. i \in DOMAIN out <=> i <= Len(out)
      BY <1>2
    <2>3. QED
      BY <2>1, <2>2
  <1>5. ASSUME NEW i \in 1..n
        PROVE  \/ RowsOf(c)[i] = Held(column[i], t).value
               \/ Physical(t).kind = "text" /\ i = n /\ IsNull(RowsOf(c)[i])
    <2>1. \/ i <= Len(out) /\ out[i] = Held(column[i], t).value
          \/ Physical(t).kind = "text" /\ i = n /\ (i <= Len(out) => IsNull(out[i]))
      BY DEF InPlace, n, out
    <2>2. CASE i <= Len(out)
      BY <1>4, <2>1, <2>2
    <2>3. CASE ~(i <= Len(out))
      BY <1>3, <1>4, <2>1, <2>3
    <2>4. QED
      BY <2>2, <2>3
  <1>6. QED
    BY <1>5 DEF Unmoved, n

\* What is in place of what is encoded is of the values.
LEMMA NormalInPlace ==
    ASSUME NEW T, NEW Depth, NEW V, CodecsDefined(T, Depth, V), NEW t \in T, NEW column \in Seq(V),
           AllHeld(column, t), NEW out, InPlace(out, Normal(column, t), t)
    PROVE  InPlace(out, column, t)
  <1>1. /\ Len(Normal(column, t)) = Len(column)
        /\ \A i \in 1..Len(column) :
              Held(column[i], t).ok => Held(Normal(column, t)[i], t) = Held(column[i], t)
    BY NormalIs
  <1>2. \A i \in 1..Len(column) : Held(Normal(column, t)[i], t) = Held(column[i], t)
    BY <1>1 DEF AllHeld
  <1>3. QED
    BY <1>1, <1>2 DEF InPlace

\* A vector with a part too many or too few.
LEMMA MiscountUnmoved ==
    ASSUME NEW T, NEW Depth, NEW V, CodecsDefined(T, Depth, V), NEW t \in T, NEW column \in Seq(V),
           Supported(t), AllHeld(column, t), NEW c, c = EncodedChunk(Normal(column, t), t).value,
           NEW w, Miscounted(c.vector, w), NEW d, d = [c EXCEPT !.vector = w], DecodedChunk(d).ok
    PROVE  Unmoved(DecodedChunk(d).value, column, t)
  <1> DEFINE normal == Normal(column, t)
             n == Len(column)
             out == Decoded(w, t, n)
  <1>1. /\ normal \in Seq(V) /\ Len(normal) = n /\ AllHeld(normal, t)
    BY NormalIs
  <1>2. /\ c = [count |-> n, type |-> EncodedType(t), vector |-> c.vector]
        /\ c.vector = Encoded(normal, t).value /\ Encoded(normal, t).ok
    BY ChunkIs
  <1>3. d.count = n /\ d.type = EncodedType(t) /\ d.vector = w
    BY <1>2
  <1> HIDE DEF normal, n
  <1>4. Readable(d.type) /\ DecodedType(d.type) = t
    BY <1>3, TypesReturn DEF Restores
  <1>5. out.ok /\ DecodedChunk(d).value = [count |-> n, type |-> t, values |-> out.value]
    BY <1>3, <1>4, ChunkRead
  <1>6. InPlace(out.value, normal, t)
    <2>1. Miscounted(Encoded(normal, t).value, w)
      BY <1>2
    <2>2. QED
      BY <1>1, <1>2, <1>5, <2>1, MiscountRead
  <1>7. InPlace(out.value, column, t)
    BY <1>6, NormalInPlace DEF normal
  <1>8. DecodedChunk(d).value.count = n /\ DecodedChunk(d).value.values = out.value
    BY <1>5
  <1>9. QED
    BY <1>7, <1>8, RowsInPlace DEF n

\* A type that lost its metadata, or that has metadata of another.
Mistaken(w) ==
    {Without(w, 101), [w EXCEPT ![101] = With(@, 103, "extension")]}
    \cup (IF w[101][100] = "ENUM" THEN {[w EXCEPT ![101][200] = @ + 1]} ELSE {})

\* A chunk with wrong metadata is refused, or its values stay in their rows.
LEMMA MistakenUnmoved ==
    ASSUME NEW T, NEW Depth, NEW V, CodecsDefined(T, Depth, V), NEW t \in T, NEW column \in Seq(V),
           Supported(t), AllHeld(column, t), NEW c, c = EncodedChunk(Normal(column, t), t).value,
           101 \in DOMAIN c.type, NEW e \in Mistaken(c.type),
           NEW d, d = [c EXCEPT !.type = e], DecodedChunk(d).ok
    PROVE  Unmoved(DecodedChunk(d).value, column, t)
  <1> DEFINE normal == Normal(column, t)
             n == Len(column)
             u == Plain(t.id)
             v == c.vector
             out == Decoded(v, u, n)
  <1>1. /\ normal \in Seq(V) /\ Len(normal) = n /\ AllHeld(normal, t)
        /\ Wanted(normal, t) = Wanted(column, t)
    BY NormalIs
  <1>2. /\ c = [count |-> n, type |-> EncodedType(t), vector |-> c.vector]
        /\ v = Encoded(normal, t).value /\ Says(c.type, t)
    BY ChunkIs
  <1>3. d.count = n /\ d.type = e /\ d.vector = v
    BY <1>2
  <1>4. Readable(e) => DecodedType(e) = u
    BY <1>2, MistakenRead DEF Mistaken, CodecsDefined
  <1> HIDE DEF normal, n, u, v
  <1>5. out.ok /\ DecodedChunk(d).value = [count |-> n, type |-> u, values |-> out.value]
    BY <1>3, <1>4, ChunkRead
  <1>6. out = Ok(Wanted(normal, t))
    BY <1>1, <1>2, <1>5, PlainRead DEF u
  <1>7. out.value = Wanted(column, t)
    BY <1>1, <1>6 DEF Ok
  <1>8. InPlace(out.value, column, t)
    <2>1. n \in Nat
      BY DEF n
    <2>2. Wanted(column, t) \in Seq({Wanted(column, t)[i] : i \in 1..n})
          /\ Len(Wanted(column, t)) = n
      BY <2>1 DEF Wanted, n
    <2>3. \A i \in 1..n : i <= n /\ Wanted(column, t)[i] = Held(column[i], t).value
      BY <2>1 DEF Wanted, n
    <2>4. QED
      BY <1>7, <2>2, <2>3 DEF InPlace, n
  <1>9. DecodedChunk(d).value.count = n /\ DecodedChunk(d).value.values = out.value
    BY <1>5
  <1>10. QED
    BY <1>8, <1>9, RowsInPlace DEF n

-------------------------------------------------------------------------------
(* The inductive invariant *)

\* A column whose type can hold its values.
LEMMA WellTypedIs ==
    ASSUME NEW V, values \in Seq(V)
    PROVE  WellTyped => /\ type.ok /\ Supported(type.value) /\ AllHeld(values, type.value)
                        /\ HeldColumn.value = Wanted(values, type.value)
  BY HeldColumnIs DEF WellTyped, HeldColumn

Intact == Unmoved(DecodedChunk(sent.value).value, values, type.value)

\* The inductive invariant: what is sent is what is encoded of the values, or is read as the
\* values, or is refused or leaves them in their rows.
Inv(T) ==
    /\ values \in Columns
    /\ stage \in Stages
    /\ stage = "given" => type = Unknown
    /\ stage \in {"given", "typed"} => sent = Unknown /\ chunk = Unknown
    /\ stage \notin {"given", "typed"} => type.ok
    /\ type.ok => type = Ok(type.value) /\ type.value \in T
    /\ stage = "encoded" => sent = EncodedChunk(Normal(values, type.value), type.value)
    /\ stage \in {"reshaped", "altered"} => sent.ok /\ WellTyped
    /\ stage = "reshaped" => DecodedChunk(sent.value) = Read(HeldColumn.value)
    /\ stage = "altered" /\ DecodedChunk(sent.value).ok => Intact
    /\ sent.ok => sent.value.count = Len(values)
    /\ chunk = Unknown \/ (sent.ok /\ chunk = DecodedChunk(sent.value))

\* Nothing is known at first.
LEMMA UnknownIs == ~Unknown.ok
  BY DEF Unknown, Fail

\* What has succeeded.
LEMMA OkIs == ASSUME NEW x PROVE Ok(x).ok /\ Ok(x).value = x
  BY DEF Ok

\* No column is encoded at first.
LEMMA InvInit ==
    ASSUME NEW T, Init
    PROVE  Inv(T)
  BY UnknownIs DEF Init, Inv, Stages

\* An inferred type is one that the program can have,
LEMMA InvInfer ==
    ASSUME NEW T, NEW V, ColumnsGiven(T, V), Inv(T), Infer
    PROVE  Inv(T)'
  <1>1. Inferred(values).ok => Inferred(values) = Ok(Inferred(values).value) /\ Inferred(values).value \in T
    BY DEF ColumnsGiven, Inv
  <1>2. ~sent.ok /\ sent = Unknown /\ chunk = Unknown
    BY UnknownIs DEF Infer, Inv
  <1>3. QED
    BY <1>1, <1>2, UnknownIs DEF Infer, Inv, Stages

\* and so is a declared one.
LEMMA InvDeclare ==
    ASSUME NEW T, NEW V, ColumnsGiven(T, V), Inv(T), Declare
    PROVE  Inv(T)'
  <1>1. PICK t \in T : type' = Ok(t)
    BY DEF Declare, ColumnsGiven
  <1>2. type'.ok /\ type'.value = t
    BY <1>1, OkIs
  <1>3. ~sent.ok /\ sent = Unknown /\ chunk = Unknown
    BY UnknownIs DEF Declare, Inv
  <1>4. QED
    BY <1>1, <1>2, <1>3, UnknownIs DEF Declare, Inv, Stages

\* What is sent is what is encoded of the values.
LEMMA InvEncode ==
    ASSUME NEW T, NEW Depth, NEW V, CodecsDefined(T, Depth, V), ColumnsGiven(T, V), Inv(T), Encode
    PROVE  Inv(T)'
  <1> DEFINE t == type.value
  <1>1. values \in Seq(V) /\ type.ok /\ t \in T
    BY DEF Inv, Encode, ColumnsGiven
  <1>2. sent' = EncodedChunk(Normal(values, t), t)
    BY DEF Encode, Normal
  <1>3. sent'.ok => sent'.value.count = Len(values)
    <2>1. Len(Normal(values, t)) = Len(values)
      BY <1>1, NormalIs
    <2>2. sent'.ok => sent'.value = [count |-> Len(Normal(values, t)), type |-> EncodedType(t),
                                     vector |-> Encoded(Normal(values, t), t).value]
      BY <1>2, ChunkSent
    <2>3. QED
      BY <2>1, <2>2
  <1>4. chunk = Unknown
    BY DEF Inv, Encode
  <1>5. /\ values' = values /\ type' = type /\ chunk' = chunk /\ stage' = "encoded"
    BY DEF Encode
  <1> HIDE DEF t
  <1>6. QED
    BY <1>1, <1>2, <1>3, <1>4, <1>5 DEF Inv, Stages, t

DictionaryOf(column, t) ==
    LET entries == SetToSeq(ToSet(column))
    IN [form |-> "dictionary", size |-> Len(entries), of |-> Encoded(entries, t).value,
        selection |-> [i \in DOMAIN column |->
            (CHOOSE k \in DOMAIN entries : entries[k] = column[i]) - 1]]

\* The dictionary of the model.
LEMMA DictionarySays ==
    ASSUME NEW T, NEW Depth, NEW V, CodecsDefined(T, Depth, V), NEW t \in T, NEW column \in Seq(V),
           Supported(t), AllHeld(column, t)
    PROVE  Decoded(DictionaryOf(column, t), t, Len(column)) = Ok(Wanted(column, t))
  BY DictionaryRead DEF DictionaryOf

\* What the server may send for a column says the same.
LEMMA FormsRead ==
    ASSUME NEW T, NEW Depth, NEW V, CodecsDefined(T, Depth, V), values \in Seq(V),
           type.value \in T, WellTyped,
           NEW flat, flat = Encoded(Normal(values, type.value), type.value).value,
           NEW v \in {Dictionary} \cup (IF IsConstant THEN {Constant} ELSE {})
                \cup (IF IsSequence THEN {Sequence} ELSE {})
                \cup (IF Physical(type.value).kind = "word"
                      THEN {[flat EXCEPT !.words = LeastWords(flat)]}
                      ELSE {})
    PROVE  Decoded(v, type.value, Len(values)) = Ok(Wanted(values, type.value))
  <1> DEFINE t == type.value
             n == Len(values)
             Goal == Decoded(v, t, n) = Ok(Wanted(values, t))
  <1>1. Supported(t) /\ AllHeld(values, t)
    BY WellTypedIs
  <1>2. CASE v = Dictionary
    <2>1. v = DictionaryOf(values, t)
      BY <1>2, Zenon DEF Dictionary, FlatOf, DictionaryOf
    <2>2. QED
      BY <1>1, <2>1, DictionarySays
  <1>3. CASE IsConstant /\ v = Constant
    <2> DEFINE vector == [form |-> "constant", of |-> Encoded(SetToSeq(ToSet(values)), t).value]
    <2>1. v = vector
      BY <1>3, Zenon DEF Constant, FlatOf
    <2>2. Decoded(vector, t, n) = Ok(Wanted(values, t))
      BY <1>1, <1>3, ConstantRead DEF IsConstant
    <2> HIDE DEF vector
    <2>3. QED
      BY <2>1, <2>2
  <1>4. CASE IsSequence /\ v = Sequence
    <2> DEFINE vector == [form |-> "sequence", start |-> SequenceNumber(values[1]),
                          increment |-> SequenceNumber(values[2]) - SequenceNumber(values[1])]
    <2>1. v = vector
      BY <1>4, Zenon DEF Sequence
    <2>2. t.id \in SequenceIds
      BY <1>4 DEF IsSequence, SequenceIds
    <2>3. /\ Len(values) > 1
          /\ \A i \in DOMAIN values : Is(values[i], "int") \/ Is(values[i], "date")
          /\ \A i \in 1..Len(values) - 1 :
                SequenceNumber(values[i + 1]) - SequenceNumber(values[i])
                   = SequenceNumber(values[2]) - SequenceNumber(values[1])
      BY <1>4 DEF IsSequence
    <2>4. Decoded(vector, t, n) = Ok(Wanted(values, t))
      <3> HIDE DEF t
      <3>1. t \in T
        BY DEF t
      <3>2. QED
        BY <1>1, <2>2, <2>3, <3>1, SequenceRead
    <2> HIDE DEF vector
    <2>5. QED
      BY <2>1, <2>4
  <1>5. CASE Physical(t).kind = "word" /\ v = [flat EXCEPT !.words = LeastWords(flat)]
    <2> DEFINE words == [i \in DOMAIN flat.words |->
                            IF IsNull(values[i])
                            THEN (IF Physical(t).signed THEN Physical(t).half ELSE 0)
                            ELSE flat.words[i]]
    <2>1. LeastWords(flat) = words
      BY Zenon DEF LeastWords
    <2>2. Decoded([flat EXCEPT !.words = words], t, n) = Ok(Wanted(values, t))
      <3> HIDE DEF t
      <3>1. t \in T /\ flat = Encoded(Normal(values, t), t).value
        BY DEF t
      <3>2. QED
        BY <1>1, <1>5, <3>1, LeastRead
    <2> HIDE DEF words
    <2>3. QED
      BY <1>5, <2>1, <2>2
  <1>6. QED
    <2>1. v = Dictionary \/ (IsConstant /\ v = Constant) \/ (IsSequence /\ v = Sequence)
          \/ (Physical(t).kind = "word" /\ v = [flat EXCEPT !.words = LeastWords(flat)])
      OBVIOUS
    <2>2. QED
      BY <1>2, <1>3, <1>4, <1>5, <2>1

\* The column stays what it is to hold.
LEMMA SameColumn ==
    ASSUME UNCHANGED <<values, type>>
    PROVE  (WellTyped' <=> WellTyped) /\ HeldColumn' = HeldColumn
  BY DEF WellTyped, HeldColumn

\* The chunk in another form is read as the values.
LEMMA InvReshapes ==
    ASSUME NEW T, NEW Depth, NEW V, CodecsDefined(T, Depth, V), ColumnsGiven(T, V), Inv(T),
           ServerReshapes
    PROVE  Inv(T)'
  <1> DEFINE t == type.value
             c == sent.value
             n == Len(values)
             read == Ok([count |-> n, type |-> t, values |-> Wanted(values, t)])
  <1>1. /\ values \in Seq(V) /\ type.ok /\ t \in T /\ WellTyped /\ stage = "encoded" /\ sent.ok
        /\ sent = EncodedChunk(Normal(values, t), t) /\ chunk = Unknown /\ c.count = n
    BY DEF Inv, ServerReshapes, ColumnsGiven
  <1>2. Supported(t) /\ AllHeld(values, t) /\ HeldColumn.value = Wanted(values, t)
    BY <1>1, WellTypedIs
  <1>3. c = EncodedChunk(Normal(values, t), t).value
    BY <1>1
  <1>4. /\ c = [count |-> n, type |-> EncodedType(t), vector |-> c.vector]
        /\ c.vector = Encoded(Normal(values, t), t).value
    BY <1>1, <1>2, <1>3, ChunkIs
  <1>5. PICK v \in {Dictionary} \cup (IF IsConstant THEN {Constant} ELSE {})
                   \cup (IF IsSequence THEN {Sequence} ELSE {})
                   \cup (IF Physical(type.value).kind = "word"
                         THEN {[c.vector EXCEPT !.words = LeastWords(c.vector)]}
                         ELSE {}) :
           sent' = Ok([c EXCEPT !.vector = v, !.type = Terse(@)])
    BY DEF ServerReshapes
  <1>6. Decoded(v, t, n) = Ok(Wanted(values, t))
    BY <1>1, <1>4, FormsRead
  <1> DEFINE d == [c EXCEPT !.vector = v, !.type = Terse(@)]
  <1>7. sent'.ok /\ sent'.value = d
    BY <1>5, OkIs
  <1>8. DecodedChunk(d) = read
    <2> HIDE DEF t, c
    <2>1. t \in T /\ values \in Seq(V)
      BY <1>1
    <2>2. Decoded(v, t, Len(values)) = Ok(Wanted(values, t))
      BY <1>6
    <2>3. d.count = Len(values) /\ d.type = Terse(c.type) /\ d.vector = v
      BY <1>4
    <2> HIDE DEF d
    <2>4. DecodedChunk(d) = Ok([count |-> Len(values), type |-> t, values |-> Wanted(values, t)])
      BY <1>2, <1>3, <2>1, <2>2, <2>3, ReshapedRead
    <2>5. QED
      BY <2>4
  <1>9. d.count = n
    BY <1>4
  <1>10. /\ values' = values /\ type' = type /\ chunk' = chunk /\ stage' = "reshaped"
    BY DEF ServerReshapes
  <1>11. WellTyped' /\ HeldColumn'.value = Wanted(values, t)
    BY <1>1, <1>2, <1>10, SameColumn
  <1>12. Read(HeldColumn.value)' = read
    BY <1>10, <1>11 DEF Read
  <1> HIDE DEF t, c, d, n, read
  <1>13. DecodedChunk(sent.value)' = read
    BY <1>7, <1>8
  <1>14. type.ok => type = Ok(type.value) /\ type.value \in T
    BY DEF Inv
  <1>15. sent'.value.count = Len(values)
    BY <1>7, <1>9 DEF n
  <1>16. values \in Columns
    BY DEF Inv
  <1>17. QED
    BY <1>1, <1>7, <1>10, <1>11, <1>12, <1>13, <1>14, <1>15, <1>16 DEF Inv, Stages

\* What the peer gets wrong is one part of the vector.
LEMMA MiscountedIs ==
    ASSUME MiscountedVector(sent.value.vector), NEW n, NEW t, NEW v,
           sent.value = [count |-> n, type |-> t, vector |-> v]
    PROVE  \E w : Miscounted(v, w) /\ sent' = Ok([sent.value EXCEPT !.vector = w])
  <1> DEFINE c == sent.value
             Goal == \E w : Miscounted(v, w) /\ sent' = Ok([c EXCEPT !.vector = w])
  <1>1. c.vector = v
    OBVIOUS
  <1>2. ASSUME NEW m \in Resized(v.mask, 1), v.mask # NoMask, sent' = Ok([c EXCEPT !.vector.mask = m])
        PROVE  Goal
    <2> DEFINE w == [v EXCEPT !.mask = m]
    <2>1. [c EXCEPT !.vector.mask = m] = [c EXCEPT !.vector = w]
      BY <1>1
    <2>2. Miscounted(v, w)
      BY <1>2 DEF Miscounted
    <2> HIDE DEF w, c
    <2>3. QED
      BY <1>2, <2>1, <2>2
  <1>3. ASSUME NEW x \in Resized(v.words, 0), "words" \in DOMAIN v,
               sent' = Ok([c EXCEPT !.vector.words = x])
        PROVE  Goal
    <2> DEFINE w == [v EXCEPT !.words = x]
    <2>1. [c EXCEPT !.vector.words = x] = [c EXCEPT !.vector = w]
      BY <1>1
    <2>2. Miscounted(v, w)
      BY <1>3 DEF Miscounted
    <2> HIDE DEF w, c
    <2>3. QED
      BY <1>3, <2>1, <2>2
  <1>4. ASSUME NEW x, x \in Resized(v.texts, ""), "texts" \in DOMAIN v,
               sent' = Ok([c EXCEPT !.vector.texts = x])
        PROVE  Goal
    <2> DEFINE w == [v EXCEPT !.texts = x]
    <2>1. [c EXCEPT !.vector.texts = x] = [c EXCEPT !.vector = w]
      BY <1>1
    <2>2. Miscounted(v, w)
      BY <1>4, Zenon DEF Miscounted
    <2> HIDE DEF w, c
    <2>3. QED
      BY <1>4, <2>1, <2>2, Zenon
  <1>5. ASSUME NEW e \in Resized(v.entries, [offset |-> 0, length |-> 0]), "entries" \in DOMAIN v,
               sent' = Ok([c EXCEPT !.vector.entries = e])
        PROVE  Goal
    <2> DEFINE w == [v EXCEPT !.entries = e]
    <2>1. [c EXCEPT !.vector.entries = e] = [c EXCEPT !.vector = w]
      BY <1>1
    <2>2. Miscounted(v, w)
      BY <1>5 DEF Miscounted
    <2> HIDE DEF w, c
    <2>3. QED
      BY <1>5, <2>1, <2>2
  <1>6. ASSUME NEW x \in Resized(v.vectors, v.vectors[1]), "vectors" \in DOMAIN v, v.vectors # <<>>,
               sent' = Ok([c EXCEPT !.vector.vectors = x])
        PROVE  Goal
    <2> DEFINE w == [v EXCEPT !.vectors = x]
    <2>1. [c EXCEPT !.vector.vectors = x] = [c EXCEPT !.vector = w]
      BY <1>1
    <2>2. Miscounted(v, w)
      BY <1>6 DEF Miscounted
    <2> HIDE DEF w, c
    <2>3. QED
      BY <1>6, <2>1, <2>2
  <1>7. ASSUME "size" \in DOMAIN v, sent' = Ok([c EXCEPT !.vector.size = @ + 1])
        PROVE  Goal
    <2> DEFINE w == [v EXCEPT !.size = @ + 1]
    <2>1. [c EXCEPT !.vector.size = @ + 1] = [c EXCEPT !.vector = w]
      BY <1>1
    <2>2. Miscounted(v, w)
      BY <1>7 DEF Miscounted
    <2> HIDE DEF w, c
    <2>3. QED
      BY <1>7, <2>1, <2>2
  <1>8. MiscountedVector(v)
    BY <1>1
  <1> HIDE DEF Goal
  <1>9. Goal
    BY <1>2, <1>3, <1>4, <1>5, <1>6, <1>7, <1>8 DEF MiscountedVector
  <1>10. QED
    BY <1>9 DEF Goal

\* The chunk that is altered is refused, or leaves the values in their rows.
LEMMA InvErrs ==
    ASSUME NEW T, NEW Depth, NEW V, CodecsDefined(T, Depth, V), ColumnsGiven(T, V), Inv(T),
           PeerErrs
    PROVE  Inv(T)'
  <1> DEFINE t == type.value
             c == sent.value
             n == Len(values)
  <1>1. /\ values \in Seq(V) /\ type.ok /\ t \in T /\ WellTyped /\ stage = "encoded" /\ sent.ok
        /\ sent = EncodedChunk(Normal(values, t), t) /\ chunk = Unknown /\ c.count = n
    BY DEF Inv, PeerErrs, ColumnsGiven
  <1>2. Supported(t) /\ AllHeld(values, t)
    BY <1>1, WellTypedIs
  <1>3. c = EncodedChunk(Normal(values, t), t).value
    BY <1>1
  <1>4. c = [count |-> n, type |-> EncodedType(t), vector |-> c.vector]
    BY <1>1, <1>2, <1>3, ChunkIs
  <1>5. \E d : /\ sent' = Ok(d) /\ d.count = n
               /\ DecodedChunk(d).ok => Unmoved(DecodedChunk(d).value, values, t)
    <2>1. CASE MiscountedVector(c.vector)
      <3>1. PICK w : Miscounted(c.vector, w) /\ sent' = Ok([c EXCEPT !.vector = w])
        BY <1>4, <2>1, MiscountedIs
      <3> DEFINE d == [c EXCEPT !.vector = w]
      <3>2. d.count = n
        BY <1>4
      <3> HIDE DEF t, c
      <3>3. t \in T /\ values \in Seq(V)
        BY <1>1
      <3>4. DecodedChunk(d).ok => Unmoved(DecodedChunk(d).value, values, t)
        BY <1>2, <1>3, <3>1, <3>3, MiscountUnmoved
      <3> HIDE DEF d
      <3>5. sent' = Ok(d)
        BY <3>1 DEF d
      <3>6. QED
        BY <3>2, <3>4, <3>5
    <2>2. CASE MistakenType(c.type)
      <3>1. PICK e \in Mistaken(c.type) : sent' = Ok([c EXCEPT !.type = e])
        BY <2>2 DEF MistakenType, Mistaken
      <3>2. 101 \in DOMAIN c.type
        BY <2>2 DEF MistakenType
      <3> DEFINE d == [c EXCEPT !.type = e]
      <3>3. d.count = n
        BY <1>4
      <3> HIDE DEF t, c
      <3>4. t \in T /\ values \in Seq(V)
        BY <1>1
      <3>5. DecodedChunk(d).ok => Unmoved(DecodedChunk(d).value, values, t)
        BY <1>2, <1>3, <3>1, <3>2, <3>4, MistakenUnmoved
      <3> HIDE DEF d
      <3>6. sent' = Ok(d)
        BY <3>1 DEF d
      <3>7. QED
        BY <3>3, <3>5, <3>6
    <2>3. QED
      BY <2>1, <2>2 DEF PeerErrs
  <1>6. PICK d : /\ sent' = Ok(d) /\ d.count = n
                 /\ DecodedChunk(d).ok => Unmoved(DecodedChunk(d).value, values, t)
    BY <1>5
  <1>7. sent'.ok /\ sent'.value = d
    BY <1>6, OkIs
  <1>8. /\ values' = values /\ type' = type /\ chunk' = chunk /\ stage' = "altered"
    BY DEF PeerErrs
  <1>9. WellTyped'
    BY <1>1, <1>8, SameColumn
  <1>10. DecodedChunk(sent.value)'.ok => Intact'
    BY <1>6, <1>7, <1>8 DEF Intact
  <1>11. type.ok => type = Ok(type.value) /\ type.value \in T
    BY DEF Inv
  <1>12. values \in Columns
    BY DEF Inv
  <1> HIDE DEF t, c
  <1>13. QED
    BY <1>1, <1>6, <1>7, <1>8, <1>9, <1>10, <1>11, <1>12 DEF Inv, Stages

\* A chunk is decoded once.
LEMMA InvDecode ==
    ASSUME NEW T, Inv(T), Decode
    PROVE  Inv(T)'
  <1>1. UNCHANGED <<values, type, sent, stage>> /\ sent.ok /\ chunk' = DecodedChunk(sent.value)
    BY DEF Decode
  <1>2. (WellTyped' <=> WellTyped) /\ HeldColumn' = HeldColumn
    BY <1>1, SameColumn
  <1>3. Intact' <=> Intact
    BY <1>1 DEF Intact
  <1>4. Read(HeldColumn.value)' = Read(HeldColumn.value)
    BY <1>1, <1>2 DEF Read
  <1>5. stage \notin {"given", "typed"}
    BY <1>1, UnknownIs DEF Inv
  <1>6. QED
    BY <1>1, <1>2, <1>3, <1>4, <1>5 DEF Inv

\* And nothing else happens.
LEMMA InvStutter ==
    ASSUME NEW T, Inv(T), UNCHANGED vars
    PROVE  Inv(T)'
  <1>1. UNCHANGED <<values, type, sent, stage, chunk>>
    BY DEF vars
  <1>2. (WellTyped' <=> WellTyped) /\ HeldColumn' = HeldColumn
    BY <1>1, SameColumn
  <1>3. Intact' <=> Intact
    BY <1>1 DEF Intact
  <1>4. Read(HeldColumn.value)' = Read(HeldColumn.value)
    BY <1>1, <1>2 DEF Read
  <1>5. QED
    BY <1>1, <1>2, <1>3, <1>4 DEF Inv

\* The inductive invariant holds throughout.
LEMMA Invariant ==
    ASSUME NEW T, NEW Depth, NEW V, CodecsDefined(T, Depth, V), ColumnsGiven(T, V)
    PROVE  Spec => []Inv(T)
  <1>1. Init => Inv(T)
    BY InvInit
  <1>2. Inv(T) /\ [Next]_vars => Inv(T)'
    <2> SUFFICES ASSUME Inv(T), [Next]_vars PROVE Inv(T)'
      OBVIOUS
    <2>1. CASE Infer
      BY <2>1, InvInfer
    <2>2. CASE Declare
      BY <2>2, InvDeclare
    <2>3. CASE Encode
      BY <2>3, InvEncode
    <2>4. CASE ServerReshapes
      BY <2>4, InvReshapes
    <2>5. CASE PeerErrs
      BY <2>5, InvErrs
    <2>6. CASE Decode
      BY <2>6, InvDecode
    <2>7. CASE UNCHANGED vars
      BY <2>7, InvStutter
    <2>8. QED
      BY <2>1, <2>2, <2>3, <2>4, <2>5, <2>6, <2>7 DEF Next
  <1>3. QED
    BY <1>1, <1>2, PTL DEF Spec

\* What is decoded has a row for each value.
LEMMA ChunkCounts ==
    ASSUME NEW T, Inv(T), chunk.ok
    PROVE  sent.ok /\ chunk = DecodedChunk(sent.value) /\ chunk.value.count = Len(values)
  <1>1. sent.ok /\ chunk = DecodedChunk(sent.value) /\ sent.value.count = Len(values)
    BY UnknownIs DEF Inv
  <1>2. chunk.value.count = sent.value.count
    <2> DEFINE c == sent.value
    <2>1. DecodedChunk(c).ok
      BY <1>1
    <2> HIDE DEF c
    <2>2. DecodedChunk(c).value = [count |-> c.count, type |-> DecodedType(c.type),
             values |-> Decoded(c.vector, DecodedType(c.type), c.count).value]
      BY <2>1, ChunkRead
    <2>3. QED
      BY <1>1, <2>2 DEF c
  <1>3. QED
    BY <1>1, <1>2

-------------------------------------------------------------------------------
(* The theorems *)

\* A column is typed, sent and decoded in this order, with a row for each of its values,
\* whatever the peer sends instead (vector.rs:223-328).
THEOREM TypeCorrect ==
    ASSUME NEW T, NEW Depth, NEW V, CodecsDefined(T, Depth, V), ColumnsGiven(T, V)
    PROVE  Spec => []TypeOK
  <1>1. ASSUME Inv(T) PROVE TypeOK
    <2>1. type.ok \/ sent = Unknown
      BY <1>1 DEF Inv
    <2>2. sent.ok \/ chunk = Unknown
      BY <1>1 DEF Inv
    <2>3. ASSUME chunk.ok PROVE Len(RowsOf(chunk.value)) = Len(values)
      <3>1. chunk.value.count = Len(values)
        BY <1>1, <2>3, ChunkCounts
      <3>2. Len(values) \in Nat
        <4>1. values \in Seq(V)
          BY <1>1 DEF Inv, ColumnsGiven
        <4>2. QED
          BY <4>1
      <3> DEFINE n == Len(values)
                 f == RowsOf(chunk.value)
      <3>3. f = [i \in 1..n |-> f[i]]
        BY <3>1 DEF RowsOf
      <3> HIDE DEF n, f
      <3>4. Len(f) = n
        BY <3>2, <3>3 DEF n
      <3>5. QED
        BY <3>4 DEF n, f
    <2>4. QED
      BY <1>1, <2>1, <2>2, <2>3 DEF Inv, TypeOK
  <1>2. Inv(T) => TypeOK
    BY <1>1
  <1>3. Spec => []Inv(T)
    BY Invariant
  <1>4. QED
    BY <1>2, <1>3, PTL

\* A column whose type can hold its values is sent, and comes back as it was with its type:
\* for every column, of every nested type, and every size of the words (vector.rs:352-614,
\* logical_types.rs:506-738).
THEOREM ColumnsRoundTrip ==
    ASSUME NEW T, NEW Depth, NEW V, CodecsDefined(T, Depth, V), ColumnsGiven(T, V)
    PROVE  Spec => []RoundTrip
  <1>1. ASSUME Inv(T) PROVE RoundTrip
    <2> SUFFICES ASSUME stage = "encoded", WellTyped
                 PROVE  sent.ok /\ chunk \in {Unknown, Read(HeldColumn.value)}
      BY DEF RoundTrip
    <2> DEFINE t == type.value
    <2>1. values \in Seq(V)
      BY <1>1 DEF Inv, ColumnsGiven
    <2>2. t \in T /\ Supported(t) /\ AllHeld(values, t) /\ HeldColumn.value = Wanted(values, t)
      BY <1>1, <2>1, WellTypedIs DEF Inv
    <2>3. sent = EncodedChunk(Normal(values, t), t)
      BY <1>1 DEF Inv
    <2> HIDE DEF t
    <2>4. /\ sent.ok
          /\ DecodedChunk(sent.value)
                = Ok([count |-> Len(values), type |-> t, values |-> Wanted(values, t)])
      BY <2>1, <2>2, <2>3, ChunkReturns
    <2>5. DecodedChunk(sent.value) = Read(HeldColumn.value)
      BY <2>2, <2>4 DEF Read, t
    <2>6. chunk = Unknown \/ chunk = DecodedChunk(sent.value)
      BY <1>1 DEF Inv
    <2>7. QED
      BY <2>4, <2>5, <2>6
  <1>2. Inv(T) => RoundTrip
    BY <1>1
  <1>3. Spec => []Inv(T)
    BY Invariant
  <1>4. QED
    BY <1>2, <1>3, PTL

\* Constant, dictionary, sequence, other words for NULLs and terse metadata are read as the
\* flat column would be (vector.rs:362-406, 616-635).
THEOREM FormsDecodeAlike ==
    ASSUME NEW T, NEW Depth, NEW V, CodecsDefined(T, Depth, V), ColumnsGiven(T, V)
    PROVE  Spec => []FormsAgree
  <1>1. Inv(T) => FormsAgree
    BY DEF Inv, FormsAgree
  <1>2. Spec => []Inv(T)
    BY Invariant
  <1>3. QED
    BY <1>1, <1>2, PTL

\* A vector with a part too long or too short, or wrong metadata, is refused, or moves no value
\* to another row (vector.rs:409-567).
THEOREM MiscountsMoveNothing ==
    ASSUME NEW T, NEW Depth, NEW V, CodecsDefined(T, Depth, V), ColumnsGiven(T, V)
    PROVE  Spec => []MiscountMovesNothing
  <1>1. ASSUME Inv(T) PROVE MiscountMovesNothing
    <2> SUFFICES ASSUME stage = "altered", chunk.ok, NEW i \in DOMAIN values
                 PROVE  \/ RowsOf(chunk.value)[i] = HeldColumn.value[i]
                        \/ /\ Physical(type.value).kind = "text"
                           /\ i = Len(values) /\ IsNull(RowsOf(chunk.value)[i])
      BY DEF MiscountMovesNothing
    <2>1. values \in Seq(V) /\ WellTyped
      BY <1>1 DEF Inv, ColumnsGiven
    <2>2. HeldColumn.value = Wanted(values, type.value) /\ i \in 1..Len(values)
      BY <2>1, WellTypedIs
    <2>3. HeldColumn.value[i] = Held(values[i], type.value).value
      BY <2>2 DEF Wanted
    <2>4. Unmoved(chunk.value, values, type.value)
      BY <1>1, ChunkCounts DEF Inv, Intact
    <2>5. QED
      BY <2>2, <2>3, <2>4 DEF Unmoved
  <1>2. Inv(T) => MiscountMovesNothing
    BY <1>1
  <1>3. Spec => []Inv(T)
    BY Invariant
  <1>4. QED
    BY <1>2, <1>3, PTL

\* A value that the column's type cannot hold changes none of those that it can (vector.rs:706-799).
THEOREM MisfitsStay ==
    ASSUME NEW T, NEW Depth, NEW V, CodecsDefined(T, Depth, V), ColumnsGiven(T, V)
    PROVE  Spec => []MisfitsStayPut
  <1>1. ASSUME Inv(T) PROVE MisfitsStayPut
    <2> SUFFICES ASSUME stage = "encoded", type.ok, chunk.ok, NEW i \in DOMAIN values,
                        Held(values[i], type.value).ok
                 PROVE  RowsOf(chunk.value)[i] = Held(values[i], type.value).value
      BY DEF MisfitsStayPut
    <2> DEFINE t == type.value
    <2>1. values \in Seq(V) /\ t \in T /\ i \in 1..Len(values)
      BY <1>1 DEF Inv, ColumnsGiven
    <2>2. /\ sent.ok /\ sent = EncodedChunk(Normal(values, t), t)
          /\ chunk = DecodedChunk(sent.value)
      BY <1>1, ChunkCounts DEF Inv
    <2> HIDE DEF t
    <2>3. \A k \in 1..Len(values) :
             Held(values[k], t).ok => RowsOf(chunk.value)[k] = Held(values[k], t).value
      BY <2>1, <2>2, SentKeeps
    <2>4. QED
      BY <2>1, <2>3 DEF t
  <1>2. Inv(T) => MisfitsStayPut
    BY <1>1
  <1>3. Spec => []Inv(T)
    BY Invariant
  <1>4. QED
    BY <1>2, <1>3, PTL
===============================================================================

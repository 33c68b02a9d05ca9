---------------------------- MODULE WireCodecProofs ----------------------------
(***************************************************************************)
(* Proofs about WireCodec: for every message, every radix and width of     *)
(* numbers, and both versions.  A message that is sent is read field by    *)
(* field; cut off or longer it is refused; and a handshake is never        *)
(* misread by the other version.                                           *)
(*                                                                         *)
(* From the unit up: numbers, payloads and lists, fields, objects, then    *)
(* the layouts of the messages.  A thing that lies somewhere on a wire is  *)
(* read from there, whatever is behind it.                                 *)
(***************************************************************************)
EXTENDS WireCodec, DataInduction

-------------------------------------------------------------------------------
(* Numbers *)

\* The parameters of numbers.
LEMMA Widths ==
    /\ MaxBytes \in Nat /\ MaxBytes > 0
    /\ Radix \in Nat /\ Radix > 3
    /\ WordSize \in Nat /\ WordSize > 100
  BY WidthAssumption

\* Powers are what they are called.
LEMMA Powers ==
    /\ Power[0] = 1
    /\ \A k \in 0..MaxBytes - 1 : Power[k + 1] = Radix * Power[k]
    /\ \A k \in 0..MaxBytes : Power[k] \in Nat /\ Power[k] > 0
  <1> DEFINE Step == [i \in 1..MaxBytes |-> [p \in Nat |-> Radix * p]]
  <1>1. Step \in [1..MaxBytes -> [Nat -> Nat]]
    BY Widths
  <1>2. PICK f \in [0..MaxBytes -> Nat] : RecursesFromZero(f, MaxBytes, 1, Step)
    <2> HIDE DEF Step
    <2>1. QED
      BY <1>1, Widths, RecursiveFromZero
  <1>3. f = [k \in 0..MaxBytes |-> IF k = 0 THEN 1 ELSE Radix * f[k - 1]]
    <2>1. ASSUME NEW k \in 0..MaxBytes, k # 0 PROVE Step[k][f[k - 1]] = Radix * f[k - 1]
      <3>1. f[k - 1] \in Nat /\ k \in 1..MaxBytes
        BY <2>1, Widths
      <3>2. QED
        BY <3>1
    <2> HIDE DEF Step
    <2>2. QED
      BY <1>2, <2>1 DEF RecursesFromZero
  <1>4. Power = [k \in 0..MaxBytes |-> IF k = 0 THEN 1 ELSE Radix * Power[k - 1]]
    BY <1>3 DEF Power
  <1>5. Power[0] = 1
    BY <1>4, Widths
  <1>6. ASSUME NEW k \in 0..MaxBytes - 1 PROVE Power[k + 1] = Radix * Power[k]
    <2>1. k + 1 \in 0..MaxBytes /\ k + 1 # 0 /\ (k + 1) - 1 = k
      BY Widths
    <2>2. QED
      BY <1>4, <2>1
  <1> DEFINE T == {k \in 0..MaxBytes : Power[k] \in Nat /\ Power[k] > 0}
  <1>7. 0 \in T
    BY <1>5, Widths
  <1>8. ASSUME NEW k \in 0..MaxBytes - 1, k \in T PROVE k + 1 \in T
    <2>1. Power[k] \in Nat /\ Power[k] > 0 /\ Power[k + 1] = Radix * Power[k]
      BY <1>6, <1>8
    <2>2. k + 1 \in 0..MaxBytes
      BY Widths
    <2>3. \A p \in Nat : p > 0 => Radix * p \in Nat /\ Radix * p > 0
      BY Widths
    <2>4. QED
      BY <2>1, <2>2, <2>3
  <1>9. 0..MaxBytes \subseteq T
    <2>1. 0 \in Int /\ MaxBytes \in Int
      BY Widths
    <2> HIDE DEF T
    <2>2. QED
      BY <1>7, <1>8, <2>1, Induction, Zenon
  <1>10. QED
    BY <1>5, <1>6, <1>9

\* What a shift leaves and the digit it takes off.
Over(c) == c \div Radix
Digit(c) == c % Radix

\* A shift takes the last digit off.
LEMMA Shifts ==
    ASSUME NEW n \in Int
    PROVE  /\ Shifted(n) \in [0..MaxBytes -> Int]
           /\ Shifted(n)[0] = n
           /\ \A k \in 0..MaxBytes - 1 : Shifted(n)[k + 1] = Over(Shifted(n)[k])
  <1> DEFINE Step == [i \in 1..MaxBytes |-> [c \in Int |-> c \div Radix]]
             current == CHOOSE f : f = [k \in 0..MaxBytes |->
                                            IF k = 0 THEN n ELSE f[k - 1] \div Radix]
  <1>1. Step \in [1..MaxBytes -> [Int -> Int]]
    BY Widths
  <1>2. PICK f \in [0..MaxBytes -> Int] : RecursesFromZero(f, MaxBytes, n, Step)
    <2> HIDE DEF Step
    <2>1. QED
      BY <1>1, Widths, RecursiveFromZero
  <1>3. f = [k \in 0..MaxBytes |-> IF k = 0 THEN n ELSE f[k - 1] \div Radix]
    <2>1. ASSUME NEW k \in 0..MaxBytes, k # 0 PROVE Step[k][f[k - 1]] = f[k - 1] \div Radix
      <3>1. f[k - 1] \in Int /\ k \in 1..MaxBytes
        BY <2>1, Widths
      <3>2. QED
        BY <3>1
    <2> HIDE DEF Step
    <2>2. QED
      BY <1>2, <2>1 DEF RecursesFromZero
  <1>4. current = [k \in 0..MaxBytes |-> IF k = 0 THEN n ELSE current[k - 1] \div Radix]
    BY <1>3
  <1>5. Shifted(n) = current
    BY DEF Shifted
  <1> HIDE DEF current
  <1>6. current[0] = n
    BY <1>4, Widths
  <1>7. ASSUME NEW k \in 0..MaxBytes - 1 PROVE current[k + 1] = current[k] \div Radix
    <2>1. k + 1 \in 0..MaxBytes /\ k + 1 # 0 /\ (k + 1) - 1 = k
      BY Widths
    <2>2. QED
      BY <1>4, <2>1
  <1> DEFINE T == {k \in 0..MaxBytes : current[k] \in Int}
  <1>8. 0 \in T
    BY <1>6, Widths
  <1>9. ASSUME NEW k \in 0..MaxBytes - 1, k \in T PROVE k + 1 \in T
    <2>1. k + 1 \in 0..MaxBytes
      BY Widths
    <2>2. QED
      BY <1>7, <1>9, <2>1, Widths
  <1>10. 0..MaxBytes \subseteq T
    <2>1. 0 \in Int /\ MaxBytes \in Int
      BY Widths
    <2> HIDE DEF T
    <2>2. QED
      BY <1>8, <1>9, <2>1, Induction, Zenon
  <1>11. current \in [0..MaxBytes -> Int]
    BY <1>4, <1>10
  <1>12. QED
    BY <1>5, <1>6, <1>7, <1>11 DEF Over

\* Dividing a remainder by Radix takes its last digit off.
LEMMA DigitOff ==
    ASSUME NEW c \in Int
    PROVE  /\ Digit(c) \in 0..Radix - 1 /\ Over(c) \in Int
           /\ c = Radix * Over(c) + Digit(c)
  <1>1. Digit(c) \in 0..Radix - 1 /\ Over(c) \in Int
    BY Widths DEF Digit, Over
  <1>2. Digit(c) = c - Radix * Over(c)
    BY Widths DEF Digit, Over
  <1>3. Radix * Over(c) \in Int
    BY <1>1, Widths
  <1>4. QED
    BY <1>1, <1>2, <1>3

\* What the first k digits of n make.
Low(n, k) == n - Shifted(n)[k] * Power[k]

\* What the first k digits of n count for is n less what is left after k shifts.
LEMMA LowDigits ==
    ASSUME NEW n \in Int
    PROVE  /\ Low(n, 0) = 0
           /\ \A k \in 0..MaxBytes - 1 :
                 Low(n, k + 1) = Low(n, k) + Digit(Shifted(n)[k]) * Power[k]
           /\ \A k \in 0..MaxBytes : 0 <= Low(n, k) /\ Low(n, k) < Power[k]
  <1> DEFINE s == Shifted(n)
             T == {k \in 0..MaxBytes : 0 <= Low(n, k) /\ Low(n, k) < Power[k]}
  <1>1. /\ s \in [0..MaxBytes -> Int] /\ s[0] = n
        /\ \A k \in 0..MaxBytes - 1 : s[k + 1] = Over(s[k])
    BY Shifts
  <1>2. Low(n, 0) = 0
    BY <1>1, Powers DEF Low
  <1> HIDE DEF s
  <1>3. ASSUME NEW k \in 0..MaxBytes - 1
        PROVE  /\ Low(n, k) \in Int
               /\ Low(n, k + 1) = Low(n, k) + Digit(s[k]) * Power[k]
               /\ Digit(s[k]) \in 0..Radix - 1
    <2> DEFINE q == Over(s[k])
               r == Digit(s[k])
               p == Power[k]
               c == s[k]
    <2>1. c \in Int /\ s[k + 1] = q /\ p \in Nat /\ Power[k + 1] = Radix * p
      BY <1>1, Powers, Widths
    <2>2. r \in 0..Radix - 1 /\ q \in Int /\ c = Radix * q + r
      BY <2>1, DigitOff
    <2>3. Low(n, k) = n - c * p /\ Low(n, k + 1) = n - q * (Radix * p)
      BY <2>1 DEF Low, s
    <2> HIDE DEF q, r, p, c
    <2>4. n - q * (Radix * p) = (n - c * p) + r * p
      <3>1. c * p = (Radix * q) * p + r * p
        BY <2>1, <2>2, Widths
      <3>2. (Radix * q) * p = q * (Radix * p)
        BY <2>1, <2>2, Widths
      <3>3. c * p \in Int /\ r * p \in Int /\ q * (Radix * p) \in Int
        BY <2>1, <2>2, Widths
      <3>4. QED
        BY <3>1, <3>2, <3>3
    <2>5. QED
      BY <2>1, <2>2, <2>3, <2>4 DEF q, r, p, c
  <1>4. 0 \in T
    BY <1>2, Powers, Widths
  <1>5. ASSUME NEW k \in 0..MaxBytes - 1, k \in T PROVE k + 1 \in T
    <2> DEFINE r == Digit(s[k])
               p == Power[k]
               l == Low(n, k)
    <2>1. /\ p \in Nat /\ p > 0 /\ Power[k + 1] = Radix * p /\ r \in 0..Radix - 1
          /\ l \in Int /\ 0 <= l /\ l < p /\ Low(n, k + 1) = l + r * p
      BY <1>3, <1>5, Powers, Widths
    <2> HIDE DEF r, p, l
    <2>2. 0 <= r * p /\ r * p <= (Radix - 1) * p /\ r * p \in Int
      BY <2>1, Widths
    <2>3. (Radix - 1) * p + p = Radix * p
      BY <2>1, Widths
    <2>4. 0 <= l + r * p /\ l + r * p < Radix * p
      BY <2>1, <2>2, <2>3, Widths
    <2>5. k + 1 \in 0..MaxBytes
      BY Widths
    <2>6. QED
      BY <2>1, <2>4, <2>5
  <1>6. 0..MaxBytes \subseteq T
    <2>1. 0 \in Int /\ MaxBytes \in Int
      BY Widths
    <2> HIDE DEF T
    <2>2. QED
      BY <1>4, <1>5, <2>1, Induction, Zenon
  <1>7. QED
    BY <1>2, <1>3, <1>6 DEF s

\* x is on the wire from unit i on.
Lies(w, i, x) ==
    /\ i \in Nat \ {0} /\ Len(w) \in Nat /\ Len(x) \in Nat /\ i + Len(x) - 1 <= Len(w)
    /\ DOMAIN w = 1..Len(w)
    /\ \A j \in 1..Len(x) : w[i + j - 1] = x[j]

\* A unit of digits is a byte.
LEMMA DigitUnits ==
    ASSUME NEW n \in Int, NEW k \in 1..MaxBytes
    PROVE  /\ Len(Digits(n, k)) = k
           /\ \A j \in 1..k :
                 /\ Digits(n, k)[j] = Byte(Digit(Shifted(n)[j - 1]), j < k)
                 /\ Digit(Shifted(n)[j - 1]) \in 0..Radix - 1
  <1>1. k \in Nat
    BY Widths
  <1>2. ASSUME NEW j \in 1..k PROVE Digit(Shifted(n)[j - 1]) \in 0..Radix - 1
    <2>1. j - 1 \in 0..MaxBytes
      BY Widths
    <2>2. Shifted(n)[j - 1] \in Int
      BY <2>1, Shifts
    <2>3. QED
      BY <2>2, DigitOff
  <1>3. Digits(n, k) = [j \in 1..k |-> Byte(Digit(Shifted(n)[j - 1]), j < k)]
    BY DEF Digits, Digit
  <1>4. Len(Digits(n, k)) = k
    BY <1>1, <1>3
  <1>5. QED
    BY <1>2, <1>3, <1>4

\* Where digits lie, a number of as many bytes ends.
LEMMA DigitsEnd ==
    ASSUME NEW n \in Int, NEW k \in 1..MaxBytes, NEW w, NEW i, Lies(w, i, Digits(n, k))
    PROVE  /\ EndsAt(w, i, k)
           /\ \A j \in 1..MaxBytes : EndsAt(w, i, j) => j = k
           /\ \A j \in 1..k : w[i + j - 1].value.digit = Digit(Shifted(n)[j - 1])
  <1>1. ASSUME NEW j \in 1..k
        PROVE  /\ Is(w, i + j - 1, "byte")
               /\ w[i + j - 1].value.digit = Digit(Shifted(n)[j - 1])
               /\ w[i + j - 1].value.more = (j < k)
    <2>1. Len(Digits(n, k)) = k /\ Digits(n, k)[j] = Byte(Digit(Shifted(n)[j - 1]), j < k)
      BY DigitUnits
    <2>2. w[i + j - 1] = Byte(Digit(Shifted(n)[j - 1]), j < k)
      BY <2>1 DEF Lies
    <2>3. i + j - 1 \in DOMAIN w
      BY <2>1 DEF Lies
    <2>4. QED
      BY <2>2, <2>3 DEF Byte, Unit, Is
  <1>2. EndsAt(w, i, k)
    BY <1>1 DEF EndsAt
  <1>3. ASSUME NEW j \in 1..MaxBytes, EndsAt(w, i, j) PROVE j = k
    <2>1. CASE j < k
      <3>1. j \in 1..k /\ j \in 1..j /\ ~(j < j)
        BY <2>1, Widths
      <3>2. ~w[i + j - 1].value.more
        BY <1>3, <3>1 DEF EndsAt
      <3>3. QED
        BY <1>1, <2>1, <3>1, <3>2
    <2>2. CASE k < j
      <3>1. k \in 1..k /\ k \in 1..j /\ ~(k < k)
        BY <2>2, Widths
      <3>2. w[i + k - 1].value.more
        BY <1>3, <2>2, <3>1 DEF EndsAt
      <3>3. QED
        BY <1>1, <3>1, <3>2
    <2>3. j \in Int /\ k \in Int
      BY Widths
    <2>4. QED
      BY <2>1, <2>2, <2>3
  <1>4. QED
    BY <1>1, <1>2, <1>3

\* Where digits lie, their value is read.
LEMMA DigitsValue ==
    ASSUME NEW n \in Int, NEW k \in 1..MaxBytes, NEW w, NEW i, Lies(w, i, Digits(n, k))
    PROVE  LebValue(w, i, k) = Low(n, k)
  <1> DEFINE digit == [j \in 1..k |-> w[i + j - 1].value.digit]
  <1> DEFINE Step == [j \in 1..k |->
                         [x \in Int |-> x + Digit(Shifted(n)[j - 1]) * Power[j - 1]]]
             value == CHOOSE f : f = [j \in 0..k |->
                         IF j = 0 THEN 0
                         ELSE f[j - 1] + digit[j] * Power[j - 1]]
             T == {j \in 0..k : value[j] = Low(n, j)}
  <1>1. k \in Nat /\ k \in Int /\ 0 \in Int /\ k \in 0..k
    BY Widths
  <1>2. ASSUME NEW j \in 1..k
        PROVE  /\ digit[j] = Digit(Shifted(n)[j - 1])
               /\ Digit(Shifted(n)[j - 1]) * Power[j - 1] \in Int
    <2>1. j - 1 \in 0..MaxBytes
      BY Widths
    <2>2. Power[j - 1] \in Nat
      BY <2>1, Powers
    <2>3. Digit(Shifted(n)[j - 1]) \in 0..Radix - 1
      BY DigitUnits
    <2>4. Digit(Shifted(n)[j - 1]) * Power[j - 1] \in Int
      BY <2>2, <2>3, Widths
    <2>5. QED
      BY <2>4, DigitsEnd
  <1>3. Step \in [1..k -> [Int -> Int]]
    BY <1>2
  <1>4. PICK f \in [0..k -> Int] : RecursesFromZero(f, k, 0, Step)
    <2> HIDE DEF Step
    <2>1. QED
      BY <1>1, <1>3, RecursiveFromZero
  <1>5. f = [j \in 0..k |-> IF j = 0 THEN 0
                           ELSE f[j - 1] + digit[j] * Power[j - 1]]
    <2>1. ASSUME NEW j \in 0..k, j # 0
          PROVE  Step[j][f[j - 1]] = f[j - 1] + digit[j] * Power[j - 1]
      <3>1. j \in 1..k /\ f[j - 1] \in Int
        BY <1>1, <2>1
      <3>2. QED
        BY <1>2, <3>1
    <2> HIDE DEF Step, digit
    <2>2. QED
      BY <1>4, <2>1 DEF RecursesFromZero
  <1>6. value = [j \in 0..k |-> IF j = 0 THEN 0
                               ELSE value[j - 1] + digit[j] * Power[j - 1]]
    BY <1>5
  <1>7. LebValue(w, i, k) = value[k]
    BY DEF LebValue, DigitSum
  <1> HIDE DEF value, digit
  <1>8. 0 \in T
    BY <1>1, <1>6, LowDigits
  <1>9. ASSUME NEW j \in 0..k - 1, j \in T PROVE j + 1 \in T
    <2>1. /\ j + 1 \in 0..k /\ j + 1 # 0 /\ (j + 1) - 1 = j /\ j + 1 \in 1..k
          /\ j \in 0..MaxBytes - 1
      BY Widths
    <2>2. value[j + 1] = value[j] + digit[j + 1] * Power[j]
      BY <1>6, <2>1
    <2>3. digit[j + 1] = Digit(Shifted(n)[j])
      BY <1>2, <2>1
    <2>4. Low(n, j + 1) = Low(n, j) + Digit(Shifted(n)[j]) * Power[j]
      BY <2>1, LowDigits
    <2>5. QED
      BY <1>9, <2>1, <2>2, <2>3, <2>4
  <1>10. k \in T
    <2> HIDE DEF T
    <2>1. 0..k \subseteq T
      BY <1>1, <1>8, <1>9, Induction, Zenon
    <2>2. QED
      BY <1>1, <2>1
  <1>11. QED
    BY <1>7, <1>10

\* An unsigned number has a length, and nothing is left after so many shifts.
LEMMA UlebLength ==
    ASSUME NEW n \in Words
    PROVE  \E k \in 1..MaxBytes : Uleb(n) = Digits(n, k) /\ Shifted(n)[k] = 0
  <1> DEFINE P(k) == Shifted(n)[k] = 0 /\ \A j \in 1..k - 1 : Shifted(n)[j] # 0
             T == {k \in 1..MaxBytes : Shifted(n)[k] = 0}
  <1>1. n \in Int /\ 0 <= n /\ n < WordSize
    BY Widths DEF Words, U64Max
  <1>2. MaxBytes \in T
    <2> DEFINE p == Power[MaxBytes]
               c == Shifted(n)[MaxBytes]
    <2>1. p \in Nat /\ p >= WordSize /\ MaxBytes \in 1..MaxBytes /\ MaxBytes \in 0..MaxBytes
      BY Powers, Widths, WidthAssumption
    <2>2. c \in Int
      BY <1>1, <2>1, Shifts
    <2>3. 0 <= n - c * p /\ n - c * p < p
      BY <1>1, <2>1, LowDigits DEF Low
    <2> HIDE DEF p, c
    <2>4. c = 0
      <3>1. n < p
        BY <1>1, <2>1, Widths
      <3>2. ~(c >= 1)
        <4>1. c >= 1 => c * p >= p
          BY <2>1, <2>2
        <4>2. c * p \in Int
          BY <2>1, <2>2
        <4>3. QED
          BY <1>1, <2>1, <2>2, <2>3, <3>1, <4>1, <4>2
      <3>3. ~(c <= -1)
        <4>1. c <= -1 => c * p <= -p
          BY <2>1, <2>2
        <4>2. c * p \in Int
          BY <2>1, <2>2
        <4>3. QED
          BY <1>1, <2>1, <2>2, <2>3, <3>1, <4>1, <4>2
      <3>4. QED
        BY <2>2, <3>2, <3>3
    <2>5. QED
      BY <2>1, <2>4 DEF c
  <1>3. T \subseteq Nat /\ T # {}
    BY <1>2
  <1>4. PICK k \in T : \A j \in T : k <= j
    <2> HIDE DEF T
    <2>1. QED
      BY <1>3, Smallest
  <1>5. k \in 1..MaxBytes /\ P(k)
    <2>1. ASSUME NEW j \in 1..k - 1 PROVE j \notin T /\ j \in 1..MaxBytes
      BY <1>4, Widths
    <2>2. QED
      BY <1>4, <2>1
  <1> DEFINE m == CHOOSE j \in 1..MaxBytes : P(j)
  <1>6. m \in 1..MaxBytes /\ P(m)
    BY <1>5
  <1>7. Uleb(n) = Digits(n, m)
    BY DEF Uleb
  <1>8. QED
    BY <1>6, <1>7

\* What is left of a signed number after MaxBytes shifts is its sign.
LEMMA SignIsLeft ==
    ASSUME NEW n \in SignedWords
    PROVE  SignLeft(n, MaxBytes)
  <1> DEFINE b == MaxBytes - 1
             p == Power[b]
             c == Shifted(n)[b]
             d == Digit(c)
             o == Over(c)
  <1>1. n \in Int /\ -WordSize <= 2 * n /\ 2 * n < WordSize
    BY DEF SignedWords
  <1>2. b \in 0..MaxBytes - 1 /\ b \in 0..MaxBytes /\ b + 1 = MaxBytes
    BY Widths
  <1> HIDE DEF b
  <1>3. p \in Nat /\ p > 0 /\ Radix * p >= WordSize
    BY <1>2, Powers, WidthAssumption
  <1>4. c \in Int /\ Shifted(n)[MaxBytes] = o
    BY <1>1, <1>2, Shifts
  <1>5. 0 <= n - c * p /\ n - c * p < p
    BY <1>1, <1>2, LowDigits DEF Low
  <1>6. d \in 0..Radix - 1 /\ o \in Int /\ c = Radix * o + d
    <2> HIDE DEF c
    <2>1. QED
      BY <1>4, DigitOff
  <1>7. PICK half \in Nat : Radix = 2 * half
    <2>1. Radix % 2 = 0 /\ Radix \in Nat
      BY WidthAssumption
    <2>2. QED
      BY <2>1
  <1> HIDE DEF p, c, d, o
  <1>8. c < half
    <2>1. ~(c >= half)
      <3>1. c >= half => c * p >= half * p
        BY <1>3, <1>4, <1>7
      <3>2. Radix * p = 2 * (half * p) /\ half * p \in Int /\ c * p \in Int
        BY <1>3, <1>4, <1>7
      <3>3. QED
        BY <1>1, <1>3, <1>5, <3>1, <3>2, Widths
    <2>2. QED
      BY <1>4, <1>7, <2>1
  <1>9. c >= -half
    <2>1. ~(c <= -half - 1)
      <3>1. c <= -half - 1 => c * p <= (-half - 1) * p
        BY <1>3, <1>4, <1>7
      <3>2. /\ Radix * p = 2 * (half * p) /\ half * p \in Int /\ c * p \in Int
            /\ (-half - 1) * p = -(half * p) - p
        BY <1>3, <1>4, <1>7
      <3>3. QED
        BY <1>1, <1>3, <1>5, <3>1, <3>2, Widths
    <2>2. QED
      BY <1>4, <1>7, <2>1
  <1>10. o = IF IsNegative(d) THEN -1 ELSE 0
    <2>1. CASE c >= 0
      <3>1. o = 0
        <4>1. ~(o >= 1)
          <5>1. o >= 1 => Radix * o >= Radix
            BY <1>6, Widths
          <5>2. QED
            BY <1>4, <1>6, <1>7, <1>8, <5>1, Widths
        <4>2. ~(o <= -1)
          <5>1. o <= -1 => Radix * o <= -Radix
            BY <1>6, Widths
          <5>2. QED
            BY <1>4, <1>6, <2>1, <5>1, Widths
        <4>3. QED
          BY <1>6, <4>1, <4>2
      <3>2. d = c
        BY <1>4, <1>6, <3>1, Widths
      <3>3. QED
        BY <1>4, <1>7, <1>8, <3>1, <3>2 DEF IsNegative
    <2>2. CASE c < 0
      <3>1. o = -1
        <4>1. ~(o >= 0)
          <5>1. o >= 0 => Radix * o >= 0
            BY <1>6, Widths
          <5>2. QED
            BY <1>4, <1>6, <2>2, <5>1, Widths
        <4>2. ~(o <= -2)
          <5>1. o <= -2 => Radix * o <= -2 * Radix
            BY <1>6, Widths
          <5>2. QED
            BY <1>4, <1>6, <1>7, <1>9, <5>1, Widths
        <4>3. QED
          BY <1>6, <4>1, <4>2
      <3>2. d = c + Radix
        BY <1>4, <1>6, <3>1, Widths
      <3>3. QED
        BY <1>4, <1>7, <1>9, <3>1, <3>2 DEF IsNegative
    <2>3. QED
      BY <1>4, <2>1, <2>2
  <1>11. SignLeft(n, MaxBytes) <=> o = IF IsNegative(d) THEN -1 ELSE 0
    <2>1. MaxBytes - 1 = b
      BY DEF b
    <2>2. QED
      BY <1>4, <2>1 DEF SignLeft, Digit, c, d
  <1>12. QED
    BY <1>10, <1>11

\* A signed number has a length, and its sign is left after so many shifts.
LEMMA SlebLength ==
    ASSUME NEW n \in SignedWords
    PROVE  \E k \in 1..MaxBytes : Sleb(n) = Digits(n, k) /\ SignLeft(n, k)
  <1> DEFINE P(k) == SignLeft(n, k) /\ \A j \in 1..k - 1 : ~SignLeft(n, j)
             T == {k \in 1..MaxBytes : SignLeft(n, k)}
  <1>1. MaxBytes \in T
    BY SignIsLeft, Widths
  <1>2. T \subseteq Nat /\ T # {}
    BY <1>1
  <1>3. PICK k \in T : \A j \in T : k <= j
    <2> HIDE DEF T
    <2>1. QED
      BY <1>2, Smallest
  <1>4. k \in 1..MaxBytes /\ P(k)
    <2>1. ASSUME NEW j \in 1..k - 1 PROVE j \notin T /\ j \in 1..MaxBytes
      BY <1>3, Widths
    <2>2. QED
      BY <1>3, <2>1
  <1> DEFINE m == CHOOSE j \in 1..MaxBytes : P(j)
  <1>5. m \in 1..MaxBytes /\ P(m)
    BY <1>4
  <1>6. Sleb(n) = Digits(n, m)
    BY DEF Sleb
  <1>7. QED
    BY <1>5, <1>6

\* read_uleb_u64 reads what write_uleb wrote.
LEMMA UlebRead ==
    ASSUME NEW n \in Words, NEW w, NEW i, Lies(w, i, Uleb(n))
    PROVE  ReadUleb(w, i) = Got(n, i + Len(Uleb(n)))
  <1>1. PICK k \in 1..MaxBytes : Uleb(n) = Digits(n, k) /\ Shifted(n)[k] = 0
    BY UlebLength
  <1>2. n \in Int /\ Lies(w, i, Digits(n, k)) /\ Len(Uleb(n)) = k /\ k \in 0..MaxBytes
    BY <1>1, DigitUnits, Widths DEF Words, U64Max
  <1> DEFINE m == CHOOSE j \in 1..MaxBytes : EndsAt(w, i, j)
  <1>3. m = k /\ \E j \in 1..MaxBytes : EndsAt(w, i, j)
    BY <1>2, DigitsEnd
  <1>4. LebValue(w, i, k) = n
    <2>1. Low(n, k) = n
      <3>1. Power[k] \in Nat
        BY <1>2, Powers
      <3>2. QED
        BY <1>1, <1>2, <3>1 DEF Low
    <2>2. QED
      BY <1>2, <2>1, DigitsValue
  <1>5. QED
    BY <1>2, <1>3, <1>4 DEF ReadUleb

\* read_sleb_i64 reads what write_sleb wrote.
LEMMA SlebRead ==
    ASSUME NEW n \in SignedWords, NEW w, NEW i, Lies(w, i, Sleb(n))
    PROVE  ReadSleb(w, i) = Got(n, i + Len(Sleb(n)))
  <1>1. PICK k \in 1..MaxBytes : Sleb(n) = Digits(n, k) /\ SignLeft(n, k)
    BY SlebLength
  <1>2. n \in Int /\ Lies(w, i, Digits(n, k)) /\ Len(Sleb(n)) = k /\ k \in 0..MaxBytes
    BY <1>1, DigitUnits, Widths DEF SignedWords
  <1> DEFINE m == CHOOSE j \in 1..MaxBytes : EndsAt(w, i, j)
  <1>3. m = k /\ \E j \in 1..MaxBytes : EndsAt(w, i, j)
    BY <1>2, DigitsEnd
  <1>4. w[i + k - 1].value.digit = Digit(Shifted(n)[k - 1])
    <2>1. k \in 1..k
      BY Widths
    <2>2. QED
      BY <1>2, <2>1, DigitsEnd
  <1>5. Shifted(n)[k] = IF IsNegative(w[i + k - 1].value.digit) THEN -1 ELSE 0
    BY <1>1, <1>4 DEF SignLeft, Digit
  <1>6. LebValue(w, i, k) = n - Shifted(n)[k] * Power[k]
    BY <1>2, DigitsValue DEF Low
  <1>7. Power[k] \in Nat
    BY <1>2, Powers
  <1>8. LebValue(w, i, k) - (IF IsNegative(w[i + k - 1].value.digit) THEN Power[k] ELSE 0) = n
    BY <1>2, <1>5, <1>6, <1>7
  <1>9. QED
    BY <1>2, <1>3, <1>8 DEF ReadSleb

-------------------------------------------------------------------------------
(* Parts of a wire *)

Values == Nat \cup Texts \cup Chunks \cup {"x"}
Units ==
    [unit : {"field", "text", "chunk"}, value : Values]
        \cup [unit : {"byte"}, value : [digit : Nat, more : BOOLEAN]]

\* What lies behind each other lies where each begins.
LEMMA LiesBoth ==
    ASSUME NEW x \in Seq(Units), NEW y \in Seq(Units), NEW w, NEW i, Lies(w, i, x \o y)
    PROVE  /\ Lies(w, i, x) /\ Lies(w, i + Len(x), y)
           /\ Len(x \o y) = Len(x) + Len(y)
  <1>1. /\ Len(x) \in Nat /\ Len(y) \in Nat /\ Len(x \o y) = Len(x) + Len(y)
        /\ \A k \in 1..Len(x) : (x \o y)[k] = x[k]
        /\ \A k \in 1..Len(y) : (x \o y)[Len(x) + k] = y[k]
    <2>1. Len(x) \in Nat /\ Len(y) \in Nat /\ Len(x \o y) = Len(x) + Len(y)
      OBVIOUS
    <2>2. \A k \in 1..Len(x) : (x \o y)[k] = x[k]
      OBVIOUS
    <2>3. \A k \in 1..Len(y) : (x \o y)[Len(x) + k] = y[k]
      BY <2>1
    <2>4. QED
      BY <2>1, <2>2, <2>3
  <1> DEFINE z == x \o y
  <1> HIDE DEF z
  <1>2. /\ i \in Nat \ {0} /\ Len(w) \in Nat /\ i + Len(z) - 1 <= Len(w)
        /\ DOMAIN w = 1..Len(w) /\ \A j \in 1..Len(z) : w[i + j - 1] = z[j]
    BY DEF Lies, z
  <1>3. Lies(w, i, x)
    <2>1. ASSUME NEW j \in 1..Len(x) PROVE w[i + j - 1] = x[j]
      <3>1. j \in 1..Len(z)
        BY <1>1 DEF z
      <3>2. QED
        BY <1>1, <1>2, <3>1 DEF z
    <2>2. i + Len(x) - 1 <= Len(w)
      BY <1>1, <1>2 DEF z
    <2>3. QED
      BY <1>1, <1>2, <2>1, <2>2 DEF Lies
  <1>4. Lies(w, i + Len(x), y)
    <2>1. ASSUME NEW j \in 1..Len(y) PROVE w[(i + Len(x)) + j - 1] = y[j]
      <3>1. Len(x) + j \in 1..Len(z) /\ i + (Len(x) + j) - 1 = (i + Len(x)) + j - 1
        BY <1>1, <1>2 DEF z
      <3>2. QED
        BY <1>1, <1>2, <3>1 DEF z
    <2>2. (i + Len(x)) + Len(y) - 1 <= Len(w) /\ i + Len(x) \in Nat \ {0}
      BY <1>1, <1>2 DEF z
    <2>3. QED
      BY <1>1, <1>2, <2>1, <2>2 DEF Lies
  <1>5. QED
    BY <1>1, <1>3, <1>4

\* Of parts that lie behind each other, each lies behind the ones before it.
LEMMA LiesEach ==
    ASSUME NEW n \in Nat, NEW b, \A j \in 1..n : b[j] \in Seq(Units),
           NEW w, NEW i, Lies(w, i, Flat(b, n)), NEW k \in 1..n
    PROVE  /\ Lies(w, i + Len(Flat(b, k - 1)), b[k])
           /\ Len(Flat(b, k)) = Len(Flat(b, k - 1)) + Len(b[k])
           /\ Len(Flat(b, k - 1)) \in Nat /\ Len(b[k]) \in Nat
  <1> DEFINE p == Len(Flat(b, k - 1))
  <1>1. IsLaid(b, n, k)
    BY FlatAt
  <1>2. /\ p \in Nat /\ Len(b[k]) \in Nat /\ Len(Flat(b, k)) = p + Len(b[k])
        /\ Len(Flat(b, k)) <= Len(Flat(b, n))
        /\ \A j \in 1..Len(b[k]) : Flat(b, n)[p + j] = b[k][j]
    BY <1>1 DEF IsLaid
  <1>3. /\ i \in Nat \ {0} /\ Len(w) \in Nat /\ Len(Flat(b, n)) \in Nat
        /\ i + Len(Flat(b, n)) - 1 <= Len(w) /\ DOMAIN w = 1..Len(w)
        /\ \A j \in 1..Len(Flat(b, n)) : w[i + j - 1] = Flat(b, n)[j]
    BY DEF Lies
  <1> HIDE DEF p
  <1>4. ASSUME NEW j \in 1..Len(b[k]) PROVE w[(i + p) + j - 1] = b[k][j]
    <2>1. p + j \in 1..Len(Flat(b, n)) /\ i + (p + j) - 1 = (i + p) + j - 1
      BY <1>2, <1>3
    <2>2. QED
      BY <1>2, <1>3, <2>1
  <1>5. i + p \in Nat \ {0} /\ (i + p) + Len(b[k]) - 1 <= Len(w)
    <2> DEFINE q == Len(b[k])
               r == Len(Flat(b, n))
               e == Len(w)
    <2>1. /\ p \in Nat /\ q \in Nat /\ p + q <= r /\ r \in Nat /\ e \in Nat /\ i \in Nat \ {0}
          /\ i + r - 1 <= e
      BY <1>2, <1>3
    <2> HIDE DEF q, r, e
    <2>2. i + p \in Nat \ {0} /\ (i + p) + q - 1 <= e
      BY <2>1
    <2>3. QED
      BY <2>2 DEF q, e
  <1>6. Lies(w, i + p, b[k])
    BY <1>2, <1>3, <1>4, <1>5 DEF Lies
  <1>7. QED
    BY <1>2, <1>6 DEF p

\* A single unit that lies there is read.
LEMMA UnitRead ==
    ASSUME NEW kind, NEW v, NEW w, NEW i, Lies(w, i, <<Unit(kind, v)>>)
    PROVE  Is(w, i, kind) /\ w[i] = Unit(kind, v) /\ w[i].value = v /\ i \in Nat \ {0}
  <1>1. 1 \in 1..Len(<<Unit(kind, v)>>) /\ <<Unit(kind, v)>>[1] = Unit(kind, v)
    OBVIOUS
  <1>2. w[i + 1 - 1] = Unit(kind, v) /\ i \in Nat \ {0} /\ i \in DOMAIN w
    BY <1>1 DEF Lies
  <1>3. i + 1 - 1 = i
    BY <1>2
  <1>4. QED
    BY <1>2, <1>3 DEF Is, Unit

-------------------------------------------------------------------------------
(* What is written is a sequence of units *)

\* What is written at a time is one unit.
LEMMA UnitTypes ==
    /\ \A id \in Nat : FieldId(id) \in Seq(Units) /\ Len(FieldId(id)) = 1
    /\ \A s \in Texts : WriteText(s) \in Seq(Units) /\ Len(WriteText(s)) = 1
    /\ \A c \in Chunks : WriteChunk(c) \in Seq(Units) /\ Len(WriteChunk(c)) = 1
    /\ \A b \in BOOLEAN : WriteBool(b) \in Seq(Units) /\ Len(WriteBool(b)) = 1
  <1>1. ASSUME NEW u \in Units PROVE <<u>> \in Seq(Units) /\ Len(<<u>>) = 1
    OBVIOUS
  <1>2. ASSUME NEW id \in Nat PROVE Unit("field", id) \in Units
    BY DEF Units, Values, Unit
  <1>3. ASSUME NEW s \in Texts PROVE Unit("text", s) \in Units
    BY DEF Units, Values, Unit
  <1>4. ASSUME NEW c \in Chunks PROVE Unit("chunk", c) \in Units
    BY DEF Units, Values, Unit
  <1>5. ASSUME NEW b \in BOOLEAN PROVE Byte(IF b THEN 1 ELSE 0, FALSE) \in Units
    BY DEF Units, Unit, Byte
  <1> HIDE DEF Units
  <1>6. QED
    BY <1>1, <1>2, <1>3, <1>4, <1>5 DEF FieldId, WriteText, WriteChunk, WriteBool

\* Digits are units.
LEMMA DigitTypes ==
    ASSUME NEW n \in Int, NEW k \in 1..MaxBytes
    PROVE  Digits(n, k) \in Seq(Units)
  <1>1. ASSUME NEW j \in 1..k PROVE Digits(n, k)[j] \in Units
    <2>1. /\ Digits(n, k)[j] = Byte(Digit(Shifted(n)[j - 1]), j < k)
          /\ Digit(Shifted(n)[j - 1]) \in 0..Radix - 1
      BY DigitUnits
    <2>2. Digit(Shifted(n)[j - 1]) \in Nat /\ (j < k) \in BOOLEAN
      BY <2>1
    <2>3. QED
      BY <2>1, <2>2 DEF Byte, Unit, Units
  <1>2. Digits(n, k) = [j \in 1..k |-> Digits(n, k)[j]]
    BY DEF Digits
  <1>3. k \in Nat
    BY Widths
  <1> HIDE DEF Units
  <1>4. QED
    BY <1>1, <1>2, <1>3

\* LEB128 numbers are sequences of units.
LEMMA NumberTypes ==
    /\ \A n \in Words : Uleb(n) \in Seq(Units)
    /\ \A n \in SignedWords : Sleb(n) \in Seq(Units)
    /\ \A h \in HugeInts : WriteHugeInt(h) \in Seq(Units)
  <1>1. ASSUME NEW n \in Words PROVE Uleb(n) \in Seq(Units)
    BY UlebLength, DigitTypes DEF Words
  <1>2. ASSUME NEW n \in SignedWords PROVE Sleb(n) \in Seq(Units)
    <2>1. n \in Int
      BY DEF SignedWords
    <2>2. QED
      BY <2>1, SlebLength, DigitTypes
  <1>3. ASSUME NEW h \in HugeInts PROVE WriteHugeInt(h) \in Seq(Units)
    <2>1. h.upper \in SignedWords /\ h.lower \in Words
      BY DEF HugeInts
    <2>2. Sleb(h.upper) \in Seq(Units) /\ Uleb(h.lower) \in Seq(Units)
      BY <1>1, <1>2, <2>1
    <2>3. QED
      BY <2>2, ConcatProperties DEF WriteHugeInt
  <1>4. QED
    BY <1>1, <1>2, <1>3

\* A pointer to a chunk is a sequence of units.
LEMMA PointerType ==
    ASSUME NEW c \in Chunks
    PROVE  /\ WritePointer(c) \in Seq(Units)
           /\ WriteBool(TRUE) \o FieldId(300) \in Seq(Units)
           /\ WriteBool(TRUE) \o FieldId(300) \o WriteChunk(c) \in Seq(Units)
  <1>1. /\ WriteBool(TRUE) \in Seq(Units) /\ FieldId(300) \in Seq(Units)
        /\ WriteChunk(c) \in Seq(Units) /\ FieldId(FIELD_END) \in Seq(Units)
    <2>1. 300 \in Nat /\ FIELD_END \in Nat /\ TRUE \in BOOLEAN
      BY DEF FIELD_END
    <2>2. QED
      BY <2>1, UnitTypes, Zenon
  <1>2. WriteBool(TRUE) \o FieldId(300) \in Seq(Units)
    BY <1>1, ConcatProperties
  <1>3. WriteBool(TRUE) \o FieldId(300) \o WriteChunk(c) \in Seq(Units)
    BY <1>1, <1>2, ConcatProperties
  <1>4. WriteBool(TRUE) \o FieldId(300) \o WriteChunk(c) \o FieldId(FIELD_END) \in Seq(Units)
    BY <1>1, <1>3, ConcatProperties
  <1>5. QED
    BY <1>2, <1>3, <1>4 DEF WritePointer

\* An item of a list, by its kind.
Item(kind, v) ==
    CASE kind = "text" -> WriteText(v)
      [] kind = "chunk" -> WriteChunk(v)
      [] kind = "pointer" -> WritePointer(v)
ItemsOf(kind) == IF kind = "text" THEN Texts ELSE Chunks
ItemKinds == {"text", "chunk", "pointer"}

\* So is an item of a list.
LEMMA ItemType ==
    ASSUME NEW kind \in ItemKinds, NEW v \in ItemsOf(kind)
    PROVE  Item(kind, v) \in Seq(Units)
  BY UnitTypes, PointerType DEF Item, ItemsOf, ItemKinds

\* The items of a list behind each other.
Items(kind, items) == Flat([j \in DOMAIN items |-> Item(kind, items[j])], Len(items))

\* So are all items, one behind the other.
LEMMA ItemsType ==
    ASSUME NEW kind \in ItemKinds, NEW items \in Seq(ItemsOf(kind))
    PROVE  /\ \A j \in 1..Len(items) : [k \in DOMAIN items |-> Item(kind, items[k])][j] \in Seq(Units)
           /\ Items(kind, items) \in Seq(Units)
           /\ FlattenSeq([j \in DOMAIN items |-> Item(kind, items[j])]) = Items(kind, items)
  <1> DEFINE b == [j \in DOMAIN items |-> Item(kind, items[j])]
  <1>1. Len(items) \in Nat /\ DOMAIN items = 1..Len(items)
    OBVIOUS
  <1>2. ASSUME NEW j \in 1..Len(items) PROVE b[j] \in Seq(Units)
    <2>1. items[j] \in ItemsOf(kind)
      OBVIOUS
    <2>2. QED
      BY <1>1, <2>1, ItemType
  <1>3. [j \in 1..Len(items) |-> b[j]] = b
    BY <1>1
  <1> HIDE DEF b
  <1>4. Flat(b, Len(items)) \in Seq(Units)
    BY <1>1, <1>2, FlatType
  <1>5. FlattenSeq(b) = Flat(b, Len(items))
    BY <1>3 DEF Flat
  <1>6. QED
    BY <1>2, <1>4, <1>5 DEF b, Items

-------------------------------------------------------------------------------
(* What is written is read *)

\* A boolean that lies there is read.
LEMMA BoolRead ==
    ASSUME NEW b \in BOOLEAN, NEW w, NEW i, Lies(w, i, WriteBool(b))
    PROVE  ReadBool(w, i) = Got(b, i + 1)
  <1> DEFINE d == [digit |-> IF b THEN 1 ELSE 0, more |-> FALSE]
  <1>1. WriteBool(b) = <<Unit("byte", d)>>
    BY DEF WriteBool, Byte
  <1>2. Is(w, i, "byte") /\ w[i].value = d
    <2> HIDE DEF d
    <2>1. QED
      BY <1>1, UnitRead
  <1>3. w[i].value.digit = (IF b THEN 1 ELSE 0) /\ w[i].value.more = FALSE
    BY <1>2
  <1>4. QED
    BY <1>2, <1>3 DEF ReadBool

\* A field id that lies there is met.
LEMMA FieldIdRead ==
    ASSUME NEW id, NEW w, NEW i, Lies(w, i, FieldId(id))
    PROVE  IsField(w, i, id) /\ Is(w, i, "field") /\ w[i].value = id
  BY UnitRead DEF FieldId, IsField

\* The two halves of a huge integer that lie there are read.
LEMMA HugeIntRead ==
    ASSUME NEW h \in HugeInts, NEW w, NEW i, Lies(w, i, WriteHugeInt(h))
    PROVE  ReadHugeInt(w, i) = Got(h, i + Len(WriteHugeInt(h)))
  <1> DEFINE x == Sleb(h.upper)
             y == Uleb(h.lower)
  <1>1. h.upper \in SignedWords /\ h.lower \in Words /\ h = [upper |-> h.upper, lower |-> h.lower]
    BY DEF HugeInts
  <1>2. x \in Seq(Units) /\ y \in Seq(Units) /\ Len(x) \in Nat /\ Len(y) \in Nat
    BY <1>1, NumberTypes
  <1>3. Lies(w, i, x \o y)
    BY DEF WriteHugeInt
  <1>4. Lies(w, i, x) /\ Lies(w, i + Len(x), y) /\ Len(x \o y) = Len(x) + Len(y) /\ i \in Nat
    <2> HIDE DEF x, y
    <2>1. i \in Nat
      BY <1>3 DEF Lies
    <2>2. QED
      BY <1>2, <1>3, <2>1, LiesBoth
  <1>5. ReadSleb(w, i) = Got(h.upper, i + Len(x))
    BY <1>1, <1>4, SlebRead
  <1>6. ReadUleb(w, i + Len(x)) = Got(h.lower, (i + Len(x)) + Len(y))
    BY <1>1, <1>4, UlebRead
  <1>7. Len(WriteHugeInt(h)) = Len(x) + Len(y)
    BY <1>4 DEF WriteHugeInt
  <1> HIDE DEF x, y
  <1>8. (i + Len(x)) + Len(y) = i + Len(WriteHugeInt(h))
    BY <1>2, <1>4, <1>7
  <1>9. /\ ReadSleb(w, i).ok /\ ReadSleb(w, i).value = h.upper
        /\ ReadSleb(w, i).at = i + Len(x)
    BY <1>5 DEF Got
  <1>10. /\ ReadUleb(w, i + Len(x)).ok /\ ReadUleb(w, i + Len(x)).value = h.lower
         /\ ReadUleb(w, i + Len(x)).at = i + Len(WriteHugeInt(h))
    BY <1>6, <1>8 DEF Got
  <1>11. ReadHugeInt(w, i)
            = Got([upper |-> h.upper, lower |-> h.lower], i + Len(WriteHugeInt(h)))
    BY <1>9, <1>10 DEF ReadHugeInt, Then
  <1>12. QED
    BY <1>1, <1>11

\* A pointer to a chunk that lies there is read as the chunk.
LEMMA PointerRead ==
    ASSUME NEW c \in Chunks, NEW w, NEW i, Lies(w, i, WritePointer(c))
    PROVE  ReadPointer(w, i) = Got(c, i + Len(WritePointer(c)))
  <1> DEFINE b == WriteBool(TRUE)
             f == FieldId(300)
             k == WriteChunk(c)
             e == FieldId(FIELD_END)
  <1>1. /\ b \in Seq(Units) /\ f \in Seq(Units) /\ k \in Seq(Units) /\ e \in Seq(Units)
        /\ Len(b) = 1 /\ Len(f) = 1 /\ Len(k) = 1 /\ Len(e) = 1
    <2>1. 300 \in Nat /\ FIELD_END \in Nat /\ TRUE \in BOOLEAN
      BY DEF FIELD_END
    <2>2. QED
      BY <2>1, UnitTypes, Zenon
  <1>2. WritePointer(c) = ((b \o f) \o k) \o e
    BY DEF WritePointer
  <1>3. b \o f \in Seq(Units) /\ (b \o f) \o k \in Seq(Units)
    BY PointerType
  <1>4. i \in Nat
    BY DEF Lies
  <1>5. /\ Lies(w, i, b) /\ Lies(w, i + 1, f) /\ Lies(w, i + 2, k) /\ Lies(w, i + 3, e)
        /\ Len(WritePointer(c)) = 4
    <2> HIDE DEF b, f, k, e
    <2>1. /\ Lies(w, i, (b \o f) \o k) /\ Lies(w, i + Len((b \o f) \o k), e)
          /\ Len(WritePointer(c)) = Len((b \o f) \o k) + 1
      <3> DEFINE y == (b \o f) \o k
      <3>1. y \in Seq(Units) /\ Lies(w, i, y \o e)
        BY <1>2, <1>3
      <3> HIDE DEF y
      <3>2. Lies(w, i, y) /\ Lies(w, i + Len(y), e) /\ Len(y \o e) = Len(y) + Len(e)
        BY <1>1, <3>1, LiesBoth
      <3>3. QED
        BY <1>1, <1>2, <3>2 DEF y
    <2>2. /\ Lies(w, i, b \o f) /\ Lies(w, i + Len(b \o f), k)
          /\ Len((b \o f) \o k) = Len(b \o f) + 1
      BY <1>1, <1>3, <2>1, LiesBoth
    <2>3. Lies(w, i, b) /\ Lies(w, i + 1, f) /\ Len(b \o f) = 2
      BY <1>1, <2>2, LiesBoth
    <2>4. QED
      BY <2>1, <2>2, <2>3
  <1>6. ReadBool(w, i) = Got(TRUE, i + 1)
    BY <1>5, BoolRead
  <1>7. IsField(w, i + 1, 300)
    BY <1>5, FieldIdRead
  <1>8. ReadUnit(w, i + 2, "chunk") = Got(c, i + 3)
    <2>1. Is(w, i + 2, "chunk") /\ w[i + 2].value = c
      BY <1>5, UnitRead DEF WriteChunk
    <2>2. (i + 2) + 1 = i + 3
      BY <1>4
    <2>3. QED
      BY <2>1, <2>2 DEF ReadUnit
  <1>9. ReadEnd(w, i + 3, c) = Got(c, i + 4)
    <2>1. Is(w, i + 3, "field") /\ w[i + 3].value = FIELD_END
      BY <1>5, FieldIdRead
    <2>2. (i + 3) + 1 = i + 4
      BY <1>4
    <2>3. QED
      BY <2>1, <2>2 DEF ReadEnd
  <1>10. (i + 1) + 1 = i + 2
    BY <1>4
  <1> HIDE DEF b, f, k, e
  <1>11. QED
    BY <1>5, <1>6, <1>7, <1>8, <1>9, <1>10 DEF ReadPointer, Then, Got

\* An item that lies there is read.
LEMMA ItemRead ==
    ASSUME NEW kind \in ItemKinds, NEW v \in ItemsOf(kind), NEW w, NEW i,
           Lies(w, i, Item(kind, v))
    PROVE  ReadItem(w, i, kind) = Got(v, i + Len(Item(kind, v)))
  <1>1. CASE kind = "pointer"
    <2>1. Item(kind, v) = WritePointer(v) /\ v \in Chunks
      BY <1>1 DEF Item, ItemsOf
    <2>2. QED
      BY <1>1, <2>1, PointerRead DEF ReadItem
  <1>2. CASE kind # "pointer"
    <2>1. Item(kind, v) = <<Unit(kind, v)>>
      BY <1>2 DEF Item, ItemKinds, WriteText, WriteChunk
    <2>2. Is(w, i, kind) /\ w[i].value = v
      BY <2>1, UnitRead
    <2>3. Len(Item(kind, v)) = 1
      BY <2>1
    <2>4. QED
      BY <1>2, <2>2, <2>3 DEF ReadItem, ReadUnit
  <1>3. QED
    BY <1>1, <1>2

-------------------------------------------------------------------------------
(* Reading several things behind each other *)

\* One more item is read.
TimesStep(w, kind, r) ==
    IF ~r.ok THEN r
    ELSE LET s == ReadItem(w, r.at, kind)
         IN IF s.ok THEN Got(Append(r.value, s.value), s.at) ELSE s

\* The recursion inside ReadTimes has a solution.
LEMMA TimesExist ==
    ASSUME NEW n \in Nat, NEW w, NEW i, NEW kind
    PROVE  \E f : f = [k \in 0..n |->
                          IF k = 0 THEN Got(<<>>, i) ELSE TimesStep(w, kind, f[k - 1])]
  <1> DEFINE T == {m \in 0..n : \E f : f = [k \in 0..m |->
                          IF k = 0 THEN Got(<<>>, i) ELSE TimesStep(w, kind, f[k - 1])]}
  <1>1. 0 \in T
    <2> DEFINE f == [k \in 0..0 |-> Got(<<>>, i)]
    <2>1. f = [k \in 0..0 |->
                  IF k = 0 THEN Got(<<>>, i) ELSE TimesStep(w, kind, f[k - 1])]
      OBVIOUS
    <2> HIDE DEF f
    <2>2. QED
      BY <2>1
  <1>2. ASSUME NEW m \in 0..n - 1, m \in T PROVE m + 1 \in T
    <2>1. PICK f : f = [k \in 0..m |->
                          IF k = 0 THEN Got(<<>>, i) ELSE TimesStep(w, kind, f[k - 1])]
      BY <1>2
    <2> DEFINE g == [k \in 0..m + 1 |->
                       IF k = m + 1 THEN TimesStep(w, kind, f[m]) ELSE f[k]]
    <2>2. ASSUME NEW k \in 0..m + 1
          PROVE  g[k] = IF k = 0 THEN Got(<<>>, i) ELSE TimesStep(w, kind, g[k - 1])
      <3>1. CASE k = m + 1
        <4>1. k # 0 /\ k - 1 = m /\ m \in 0..m + 1 /\ m # m + 1
          BY <3>1
        <4>2. g[k - 1] = f[m]
          BY <4>1
        <4>3. QED
          BY <3>1, <4>1, <4>2
      <3>2. CASE k # m + 1
        <4>1. k \in 0..m /\ g[k] = f[k]
          BY <3>2
        <4>2. k # 0 => k - 1 \in 0..m + 1 /\ k - 1 # m + 1 /\ g[k - 1] = f[k - 1]
          BY <4>1
        <4>3. f[k] = IF k = 0 THEN Got(<<>>, i) ELSE TimesStep(w, kind, f[k - 1])
          BY <2>1, <4>1
        <4> HIDE DEF g
        <4>4. QED
          BY <4>1, <4>2, <4>3
      <3>3. QED
        BY <3>1, <3>2
    <2>3. g = [k \in 0..m + 1 |->
                 IF k = 0 THEN Got(<<>>, i) ELSE TimesStep(w, kind, g[k - 1])]
      BY <2>2
    <2>4. m + 1 \in 0..n
      OBVIOUS
    <2> HIDE DEF g
    <2>5. QED
      BY <2>3, <2>4
  <1>3. n \in T
    <2>1. 0 \in Int /\ n \in Int /\ n \in 0..n
      OBVIOUS
    <2> HIDE DEF T
    <2>2. 0..n \subseteq T
      BY <1>1, <1>2, <2>1, Induction, Zenon
    <2>3. QED
      BY <2>1, <2>2
  <1>4. QED
    BY <1>3

\* f has what is read after each item.
ReadsTimes(f, w, i, n, kind) ==
    /\ ReadTimes(w, i, n, kind) = f[n]
    /\ f[0] = Got(<<>>, i)
    /\ \A k \in 0..n - 1 : f[k + 1] = TimesStep(w, kind, f[k])

\* ReadTimes has its intermediate results.
LEMMA TimesRead ==
    ASSUME NEW n \in Nat, NEW w, NEW i, NEW kind
    PROVE  \E f : ReadsTimes(f, w, i, n, kind)
  <1> DEFINE read == CHOOSE f : f = [k \in 0..n |->
                          IF k = 0 THEN Got(<<>>, i) ELSE TimesStep(w, kind, f[k - 1])]
  <1>1. read = [k \in 0..n |->
                  IF k = 0 THEN Got(<<>>, i) ELSE TimesStep(w, kind, read[k - 1])]
    BY TimesExist
  <1>2. ReadTimes(w, i, n, kind) = read[n]
    BY DEF ReadTimes, TimesStep, Then
  <1> HIDE DEF read
  <1>3. read[0] = Got(<<>>, i)
    BY <1>1
  <1>4. ASSUME NEW k \in 0..n - 1 PROVE read[k + 1] = TimesStep(w, kind, read[k])
    <2>1. k + 1 \in 0..n /\ k + 1 # 0 /\ (k + 1) - 1 = k
      OBVIOUS
    <2>2. QED
      BY <1>1, <2>1
  <1>5. QED
    BY <1>2, <1>3, <1>4 DEF ReadsTimes

\* As many items as were written are read.
LEMMA ItemsRead ==
    ASSUME NEW kind \in ItemKinds, NEW items \in Seq(ItemsOf(kind)), NEW w, NEW i,
           Lies(w, i, Items(kind, items))
    PROVE  ReadTimes(w, i, Len(items), kind) = Got(items, i + Len(Items(kind, items)))
  <1> DEFINE n == Len(items)
             b == [j \in DOMAIN items |-> Item(kind, items[j])]
             at == [k \in 0..n |-> i + Len(Flat(b, k))]
  <1>1. n \in Nat /\ n \in Int /\ 0 \in Int /\ DOMAIN items = 1..n /\ n \in 0..n
    OBVIOUS
  <1>2. PICK f : ReadsTimes(f, w, i, n, kind)
    BY <1>1, TimesRead
  <1>3. \A j \in 1..n : b[j] \in Seq(Units)
    BY ItemsType
  <1>4. i \in Nat /\ Items(kind, items) = Flat(b, n)
    BY DEF Lies, Items
  <1>5. \A j \in 1..n : b[j] = Item(kind, items[j]) /\ items[j] \in ItemsOf(kind)
    BY <1>1
  <1> DEFINE T == {k \in 0..n : f[k] = Got(SubSeq(items, 1, k), at[k])}
  <1>6. 0 \in T
    <2>1. SubSeq(items, 1, 0) = <<>>
      BY SubSeqEmpty
    <2>2. Flat(b, 0) = <<>>
      BY FlatNone
    <2>3. at[0] = i
      BY <1>1, <1>4, <2>2
    <2>4. f[0] = Got(<<>>, i)
      BY <1>2 DEF ReadsTimes
    <2>5. 0 \in 0..n
      BY <1>1
    <2> HIDE DEF b, at, n
    <2>6. f[0] = Got(SubSeq(items, 1, 0), at[0])
      BY <2>1, <2>3, <2>4
    <2>7. QED
      BY <2>5, <2>6
  <1>7. ASSUME NEW k \in 0..n - 1, k \in T PROVE k + 1 \in T
    <2>1. k + 1 \in 1..n /\ (k + 1) - 1 = k /\ k + 1 \in 0..n /\ k \in 0..n
      BY <1>1
    <2>2. /\ Lies(w, i + Len(Flat(b, k)), b[k + 1])
          /\ Len(Flat(b, k + 1)) = Len(Flat(b, k)) + Len(b[k + 1])
          /\ Len(Flat(b, k)) \in Nat /\ Len(b[k + 1]) \in Nat
      <3> DEFINE j == k + 1
      <3>1. j \in 1..n /\ j - 1 = k
        BY <2>1
      <3>2. Lies(w, i, Flat(b, n))
        BY <1>4
      <3> HIDE DEF j, b, n
      <3>3. /\ Lies(w, i + Len(Flat(b, j - 1)), b[j])
            /\ Len(Flat(b, j)) = Len(Flat(b, j - 1)) + Len(b[j])
            /\ Len(Flat(b, j - 1)) \in Nat /\ Len(b[j]) \in Nat
        BY <1>1, <1>3, <3>1, <3>2, LiesEach, Zenon
      <3>4. QED
        BY <3>1, <3>3 DEF j
    <2>3. b[k + 1] = Item(kind, items[k + 1]) /\ items[k + 1] \in ItemsOf(kind)
      BY <1>5, <2>1
    <2>4. at[k + 1] = at[k] + Len(b[k + 1]) /\ at[k] = i + Len(Flat(b, k))
      <3> DEFINE l == Len(Flat(b, k))
                 m == Len(b[k + 1])
      <3>1. l \in Nat /\ m \in Nat /\ i \in Nat /\ Len(Flat(b, k + 1)) = l + m
        BY <1>4, <2>2
      <3>2. at[k] = i + l /\ at[k + 1] = i + Len(Flat(b, k + 1))
        BY <2>1
      <3> HIDE DEF l, m, at, b
      <3>3. at[k + 1] = at[k] + m
        BY <3>1, <3>2
      <3>4. QED
        BY <3>2, <3>3 DEF l, m
    <2>5. ReadItem(w, at[k], kind) = Got(items[k + 1], at[k + 1])
      <3> HIDE DEF b, at
      <3>1. QED
        BY <2>2, <2>3, <2>4, ItemRead
    <2>6. Append(SubSeq(items, 1, k), items[k + 1]) = SubSeq(items, 1, k + 1)
      <3> DEFINE s == SubSeq(items, 1, k)
                 t == SubSeq(items, 1, k + 1)
      <3>1. /\ s \in Seq(ItemsOf(kind)) /\ Len(s) = k /\ \A m \in 1..k : s[m] = items[m]
            /\ t \in Seq(ItemsOf(kind)) /\ Len(t) = k + 1 /\ \A m \in 1..k + 1 : t[m] = items[m]
        BY <2>1, PrefixProperties
      <3> HIDE DEF s, t
      <3> DEFINE v == items[k + 1]
                 u == Append(s, v)
      <3>2. v \in ItemsOf(kind) /\ t[k + 1] = v /\ k + 1 \in 1..k + 1 /\ k \in Nat
        BY <2>1, <2>3, <3>1
      <3> HIDE DEF v
      <3>3. /\ u \in Seq(ItemsOf(kind)) /\ Len(u) = k + 1 /\ u[k + 1] = v
            /\ \A m \in 1..k : u[m] = s[m]
        BY <3>1, <3>2, AppendProperties
      <3> HIDE DEF u
      <3>4. \A m \in 1..k + 1 : u[m] = t[m]
        <4>1. ASSUME NEW m \in 1..k + 1 PROVE u[m] = t[m]
          <5>1. CASE m \in 1..k
            BY <3>1, <3>3, <5>1
          <5>2. CASE m = k + 1
            BY <3>2, <3>3, <5>2
          <5>3. QED
            BY <3>2, <5>1, <5>2
        <4>2. QED
          BY <4>1
      <3>5. u = t
        BY <3>1, <3>3, <3>4, SeqEqual
      <3>6. QED
        BY <3>5 DEF s, t, u, v
    <2>7. f[k] = Got(SubSeq(items, 1, k), at[k]) /\ f[k + 1] = TimesStep(w, kind, f[k])
      BY <1>2, <1>7, <2>1 DEF ReadsTimes
    <2> HIDE DEF b, at
    <2>8. /\ f[k].ok /\ f[k].value = SubSeq(items, 1, k) /\ f[k].at = at[k]
      BY <2>7 DEF Got
    <2>9. /\ ReadItem(w, at[k], kind).ok /\ ReadItem(w, at[k], kind).value = items[k + 1]
          /\ ReadItem(w, at[k], kind).at = at[k + 1]
      BY <2>5 DEF Got
    <2>10. f[k + 1] = Got(Append(SubSeq(items, 1, k), items[k + 1]), at[k + 1])
      BY <2>7, <2>8, <2>9 DEF TimesStep
    <2>11. QED
      BY <2>1, <2>6, <2>10
  <1>8. n \in T
    <2> HIDE DEF T
    <2>1. 0..n \subseteq T
      BY <1>1, <1>6, <1>7, Induction, Zenon
    <2>2. QED
      BY <1>1, <2>1
  <1>9. SubSeq(items, 1, n) = items
    BY SubSeqFull
  <1>10. f[n] = Got(items, at[n]) /\ at[n] = i + Len(Flat(b, n))
    <2>1. at[n] = i + Len(Flat(b, n))
      BY <1>1
    <2> HIDE DEF at, b
    <2>2. QED
      BY <1>8, <1>9, <2>1
  <1>11. ReadTimes(w, i, n, kind) = f[n]
    BY <1>2 DEF ReadsTimes
  <1>12. QED
    BY <1>4, <1>10, <1>11

\* A list is written as its length and its items.
LEMMA ListRead ==
    ASSUME NEW kind \in ItemKinds, NEW items \in Lists(ItemsOf(kind)), NEW x,
           x = Uleb(Len(items)) \o Items(kind, items)
    PROVE  /\ x \in Seq(Units)
           /\ \A w, i : Lies(w, i, x) => ReadList(w, i, kind) = Got(items, i + Len(x))
  <1> DEFINE u == Uleb(Len(items))
             y == Items(kind, items)
  <1>1. items \in Seq(ItemsOf(kind)) /\ Len(items) \in Words
    BY DEF Lists
  <1>2. u \in Seq(Units) /\ y \in Seq(Units) /\ Len(u) \in Nat /\ Len(y) \in Nat
    <2>1. u \in Seq(Units) /\ y \in Seq(Units)
      BY <1>1, NumberTypes, ItemsType
    <2> HIDE DEF u, y
    <2>2. QED
      BY <2>1
  <1>3. x = u \o y
    OBVIOUS
  <1>4. ASSUME NEW w, NEW i, Lies(w, i, x)
        PROVE  ReadList(w, i, kind) = Got(items, i + Len(x))
    <2>1. i \in Nat
      BY <1>4 DEF Lies
    <2>2. Lies(w, i, u) /\ Lies(w, i + Len(u), y) /\ Len(x) = Len(u) + Len(y)
      <3> HIDE DEF u, y
      <3>1. QED
        BY <1>2, <1>3, <1>4, LiesBoth
    <2>3. ReadUleb(w, i) = Got(Len(items), i + Len(u))
      BY <1>1, <2>2, UlebRead
    <2>4. ReadTimes(w, i + Len(u), Len(items), kind) = Got(items, (i + Len(u)) + Len(y))
      BY <1>1, <2>2, ItemsRead
    <2> HIDE DEF u, y
    <2>5. (i + Len(u)) + Len(y) = i + Len(x)
      BY <1>2, <2>1, <2>2
    <2>6. /\ ReadUleb(w, i).ok /\ ReadUleb(w, i).value = Len(items)
          /\ ReadUleb(w, i).at = i + Len(u)
      BY <2>3 DEF Got
    <2>7. QED
      BY <2>4, <2>5, <2>6 DEF ReadList, Then
  <1>5. x \in Seq(Units)
    <2> HIDE DEF u, y
    <2>1. QED
      BY <1>2, <1>3, ConcatProperties
  <1>6. QED
    BY <1>4, <1>5

-------------------------------------------------------------------------------
(* Fields *)

\* None is no value of a field.
LEMMA NoneIsNothing == None \notin Int /\ None \notin Texts /\ None \notin Chunks /\ None # Empty
  BY MessageAssumption

\* The code of a type of message is a word.
LEMMA Codes ==
    ASSUME NEW t \in DOMAIN MessageType
    PROVE  MessageType[t] \in Words
  <1>1. \A n \in 1..100 : n \in Words
    BY Widths DEF Words, U64Max
  <1>2. MessageType[t] \in 1..100
    BY DEF MessageType
  <1>3. QED
    BY <1>1, <1>2

\* v can be written as one kind of field and read as another.
Compatible(written, read, v) ==
    \/ written = "string" /\ read = "string" /\ v \in Option(Texts)
    \/ written = "string" /\ read = "text" /\ v \in Texts
    \/ written = "default_zero" /\ read = "default_zero" /\ v \in Words
    \/ written = "default_zero" /\ read = "index" /\ v \in Words \ {0}
    \/ written = "none_is_zero" /\ read = "default_zero" /\ v \in Option(Words)
    \/ written = "index" /\ read \in {"some", "index"} /\ v \in Option(Words)
    \/ written = "or_invalid" /\ read = "or_invalid" /\ v \in Option(Words)
    \/ written = "code" /\ read = "required" /\ v \in DOMAIN MessageType
    \/ written = "count" /\ read = "default_zero" /\ v \in Lists(Chunks)
    \/ written = "hugeint" /\ read = "hugeint" /\ v \in HugeInts
    \/ written = "bool" /\ read = "bool" /\ v \in BOOLEAN
    \/ written = "texts" /\ read = "texts" /\ v \in Lists(Texts)
    \/ written = "pointers" /\ read = "pointers" /\ v \in Lists(Chunks)
    \/ written = "pointer" /\ read = "pointer" /\ v \in Chunks

\* What is on the wire of it.
Sent(written, v) ==
    IF written = "or_invalid" /\ v = None THEN OPTIONAL_INDEX_INVALID
    ELSE IF written = "code" THEN MessageType[v]
    ELSE IF written = "count" THEN Len(v)
    ELSE v

\* A payload that lies there is read.
PayloadReads(written, read, v) ==
    /\ Payload(written, v) \in Seq(Units)
    /\ \A w, i : Lies(w, i, Payload(written, v)) =>
          ReadPayload(w, i, read) = Got(Sent(written, v), i + Len(Payload(written, v)))

\* A text is read as the text it is.
LEMMA TextPayload ==
    ASSUME NEW v \in Texts, NEW read \in {"string", "text"}
    PROVE  PayloadReads("string", read, v)
  <1>1. Payload("string", v) = WriteText(v) /\ Sent("string", v) = v
    BY DEF Payload, Sent
  <1>2. ASSUME NEW w, NEW i, Lies(w, i, WriteText(v))
        PROVE  ReadPayload(w, i, read) = Got(v, i + 1)
    <2>1. Is(w, i, "text") /\ w[i].value = v
      BY <1>2, UnitRead DEF WriteText
    <2>2. QED
      BY <2>1 DEF ReadPayload, ReadUnit
  <1>3. QED
    BY <1>1, <1>2, UnitTypes DEF PayloadReads

\* A kind that is written as a word is read as that word.
LEMMA WordPayload ==
    ASSUME NEW written \in {"index", "default_zero", "none_is_zero", "or_invalid", "code", "count"},
           NEW v, Sent(written, v) \in Words,
           written \in {"index", "default_zero", "none_is_zero"} => v # None,
           NEW read \in {"default_zero", "some", "index", "or_invalid", "required"}
    PROVE  PayloadReads(written, read, v)
  <1> DEFINE n == Sent(written, v)
  <1>1. Payload(written, v) = Uleb(n)
    BY DEF Payload, Sent
  <1>2. \A w, i : ReadPayload(w, i, read) = ReadUleb(w, i)
    BY DEF ReadPayload
  <1> HIDE DEF n
  <1>3. n \in Words
    BY DEF n
  <1>4. Uleb(n) \in Seq(Units)
    BY <1>3, NumberTypes
  <1>5. \A w, i : Lies(w, i, Uleb(n)) => ReadUleb(w, i) = Got(n, i + Len(Uleb(n)))
    BY <1>3, UlebRead
  <1>6. QED
    BY <1>1, <1>2, <1>4, <1>5 DEF PayloadReads, n

\* A huge integer is read as itself.
LEMMA HugeIntPayload ==
    ASSUME NEW v \in HugeInts
    PROVE  PayloadReads("hugeint", "hugeint", v)
  <1>1. Payload("hugeint", v) = WriteHugeInt(v) /\ Sent("hugeint", v) = v
    BY DEF Payload, Sent
  <1>2. \A w, i : ReadPayload(w, i, "hugeint") = ReadHugeInt(w, i)
    BY DEF ReadPayload
  <1>3. WriteHugeInt(v) \in Seq(Units)
    BY NumberTypes
  <1>4. \A w, i : Lies(w, i, WriteHugeInt(v)) =>
            ReadHugeInt(w, i) = Got(v, i + Len(WriteHugeInt(v)))
    BY HugeIntRead
  <1>5. QED
    BY <1>1, <1>2, <1>3, <1>4 DEF PayloadReads

\* A boolean is read as itself.
LEMMA BoolPayload ==
    ASSUME NEW v \in BOOLEAN
    PROVE  PayloadReads("bool", "bool", v)
  <1>1. Payload("bool", v) = WriteBool(v) /\ Sent("bool", v) = v
    BY DEF Payload, Sent
  <1>2. \A w, i : ReadPayload(w, i, "bool") = ReadBool(w, i)
    BY DEF ReadPayload
  <1>3. WriteBool(v) \in Seq(Units) /\ Len(WriteBool(v)) = 1
    BY UnitTypes
  <1>4. \A w, i : Lies(w, i, WriteBool(v)) => ReadBool(w, i) = Got(v, i + 1)
    BY BoolRead
  <1>5. QED
    BY <1>1, <1>2, <1>3, <1>4 DEF PayloadReads

\* A pointer is read as its chunk.
LEMMA PointerPayload ==
    ASSUME NEW v \in Chunks
    PROVE  PayloadReads("pointer", "pointer", v)
  <1>1. Payload("pointer", v) = WritePointer(v) /\ Sent("pointer", v) = v
    BY DEF Payload, Sent
  <1>2. \A w, i : ReadPayload(w, i, "pointer") = ReadPointer(w, i)
    BY DEF ReadPayload
  <1>3. WritePointer(v) \in Seq(Units)
    BY PointerType
  <1>4. \A w, i : Lies(w, i, WritePointer(v)) =>
            ReadPointer(w, i) = Got(v, i + Len(WritePointer(v)))
    BY PointerRead
  <1>5. QED
    BY <1>1, <1>2, <1>3, <1>4 DEF PayloadReads

\* A list of texts is read as itself.
LEMMA TextsPayload ==
    ASSUME NEW v \in Lists(Texts)
    PROVE  PayloadReads("texts", "texts", v)
  <1>1. Payload("texts", v) = WriteTexts(v) /\ Sent("texts", v) = v
    BY DEF Payload, Sent
  <1>2. \A w, i : ReadPayload(w, i, "texts") = ReadList(w, i, "text")
    BY DEF ReadPayload
  <1>3. v \in Lists(ItemsOf("text")) /\ "text" \in ItemKinds /\ v \in Seq(ItemsOf("text"))
    BY DEF ItemsOf, ItemKinds, Lists
  <1>4. [j \in DOMAIN v |-> WriteText(v[j])] = [j \in DOMAIN v |-> Item("text", v[j])]
    BY DEF Item
  <1>5. WriteTexts(v) = Uleb(Len(v)) \o Items("text", v)
    <2>1. FlattenSeq([j \in DOMAIN v |-> Item("text", v[j])]) = Items("text", v)
      BY <1>3, ItemsType
    <2>2. QED
      BY <1>4, <2>1 DEF WriteTexts
  <1>6. /\ WriteTexts(v) \in Seq(Units)
        /\ \A w, i : Lies(w, i, WriteTexts(v)) =>
              ReadList(w, i, "text") = Got(v, i + Len(WriteTexts(v)))
    BY <1>3, <1>5, ListRead
  <1>7. QED
    BY <1>1, <1>2, <1>6 DEF PayloadReads

\* A list of pointers is read as its chunks.
LEMMA PointersPayload ==
    ASSUME NEW v \in Lists(Chunks)
    PROVE  PayloadReads("pointers", "pointers", v)
  <1>1. Payload("pointers", v) = WritePointers(v) /\ Sent("pointers", v) = v
    BY DEF Payload, Sent
  <1>2. \A w, i : ReadPayload(w, i, "pointers") = ReadList(w, i, "pointer")
    BY DEF ReadPayload
  <1>3. v \in Lists(ItemsOf("pointer")) /\ "pointer" \in ItemKinds /\ v \in Seq(ItemsOf("pointer"))
    BY DEF ItemsOf, ItemKinds, Lists
  <1>4. [j \in DOMAIN v |-> WritePointer(v[j])] = [j \in DOMAIN v |-> Item("pointer", v[j])]
    BY DEF Item
  <1>5. WritePointers(v) = Uleb(Len(v)) \o Items("pointer", v)
    <2>1. FlattenSeq([j \in DOMAIN v |-> Item("pointer", v[j])]) = Items("pointer", v)
      BY <1>3, ItemsType
    <2>2. QED
      BY <1>4, <2>1 DEF WritePointers
  <1>6. /\ WritePointers(v) \in Seq(Units)
        /\ \A w, i : Lies(w, i, WritePointers(v)) =>
              ReadList(w, i, "pointer") = Got(v, i + Len(WritePointers(v)))
    BY <1>3, <1>5, ListRead
  <1>7. QED
    BY <1>1, <1>2, <1>6 DEF PayloadReads

\* Whatever is not left out can be read.
LEMMA PayloadRead ==
    ASSUME NEW written, NEW read, NEW v, Compatible(written, read, v), ~Omitted(written, v)
    PROVE  PayloadReads(written, read, v)
  <1>1. CASE written = "string" /\ read \in {"string", "text"} /\ v \in Option(Texts)
    <2>1. v \in Texts
      BY <1>1 DEF Omitted, Option
    <2>2. QED
      BY <1>1, <2>1, TextPayload
  <1>2. CASE /\ written \in {"index", "default_zero", "none_is_zero", "or_invalid", "code", "count"}
             /\ read \in {"default_zero", "some", "index", "or_invalid", "required"}
    <2>1. CASE written = "code" \/ written = "count"
      <3>1. Sent(written, v) \in Words
        BY <1>2, <2>1, Codes DEF Compatible, Sent, Lists
      <3>2. QED
        BY <1>2, <2>1, <3>1, WordPayload
    <2>2. CASE written = "or_invalid"
      <3>1. OPTIONAL_INDEX_INVALID \in Words
        BY Widths DEF OPTIONAL_INDEX_INVALID, U64Max, Words
      <3>2. Sent(written, v) \in Words
        BY <2>2, <3>1 DEF Compatible, Sent, Option
      <3>3. QED
        BY <1>2, <2>2, <3>2, WordPayload
    <2>3. CASE written \in {"index", "default_zero", "none_is_zero"}
      <3>1. v \in Words /\ v # None
        BY <2>3, NoneIsNothing DEF Compatible, Omitted, Option, Words, U64Max
      <3>2. Sent(written, v) = v
        BY <2>3 DEF Sent
      <3>3. QED
        BY <1>2, <3>1, <3>2, WordPayload
    <2>4. QED
      BY <1>2, <2>1, <2>2, <2>3
  <1>3. CASE written = "hugeint" /\ read = "hugeint" /\ v \in HugeInts
    BY <1>3, HugeIntPayload
  <1>4. CASE written = "bool" /\ read = "bool" /\ v \in BOOLEAN
    BY <1>4, BoolPayload
  <1>5. CASE written = "texts" /\ read = "texts" /\ v \in Lists(Texts)
    BY <1>5, TextsPayload
  <1>6. CASE written = "pointers" /\ read = "pointers" /\ v \in Lists(Chunks)
    BY <1>6, PointersPayload
  <1>7. CASE written = "pointer" /\ read = "pointer" /\ v \in Chunks
    BY <1>7, PointerPayload
  <1>8. QED
    BY <1>1, <1>2, <1>3, <1>4, <1>5, <1>6, <1>7 DEF Compatible, Option

\* What a reader has for a field.
Received(m, f, g) ==
    IF Omitted(f[2], m[f[3]]) THEN Default(g[2]) ELSE Filtered(g[2], Sent(f[2], m[f[3]]))

\* A field is a sequence of units.
LEMMA FieldType ==
    ASSUME NEW m, NEW f, f[1] \in Nat, NEW read, Compatible(f[2], read, m[f[3]])
    PROVE  WriteField(m, f) \in Seq(Units)
  <1>1. CASE Omitted(f[2], m[f[3]])
    BY <1>1 DEF WriteField
  <1>2. CASE ~Omitted(f[2], m[f[3]])
    <2> DEFINE x == FieldId(f[1])
               y == Payload(f[2], m[f[3]])
    <2>1. x \in Seq(Units) /\ y \in Seq(Units)
      BY <1>2, UnitTypes, PayloadRead DEF PayloadReads
    <2>2. WriteField(m, f) = x \o y
      BY <1>2 DEF WriteField
    <2> HIDE DEF x, y
    <2>3. QED
      BY <2>1, <2>2, ConcatProperties
  <1>3. QED
    BY <1>1, <1>2

\* A field that is there.
LEMMA FieldRead ==
    ASSUME NEW m, NEW f, f[1] \in Nat, NEW g, g[1] = f[1],
           Compatible(f[2], g[2], m[f[3]]), ~Omitted(f[2], m[f[3]]),
           NEW w, NEW i, Lies(w, i, WriteField(m, f))
    PROVE  /\ IsField(w, i, f[1])
           /\ ReadField(w, i, g[1], g[2]) = Got(Received(m, f, g), i + Len(WriteField(m, f)))
           /\ WriteField(m, f) # <<>>
  <1> DEFINE x == FieldId(f[1])
             y == Payload(f[2], m[f[3]])
             s == Sent(f[2], m[f[3]])
             e == i + Len(WriteField(m, f))
  <1>1. x \in Seq(Units) /\ Len(x) = 1 /\ PayloadReads(f[2], g[2], m[f[3]])
    BY UnitTypes, PayloadRead
  <1>2. WriteField(m, f) = x \o y /\ y \in Seq(Units)
    BY <1>1 DEF WriteField, PayloadReads
  <1>3. /\ Lies(w, i, x) /\ Lies(w, i + 1, y) /\ Len(x \o y) = 1 + Len(y) /\ Len(y) \in Nat
        /\ i \in Nat
    <2>1. Lies(w, i, x \o y) /\ i \in Nat
      BY <1>2 DEF Lies
    <2> HIDE DEF x, y, s, e
    <2>2. Lies(w, i, x) /\ Lies(w, i + Len(x), y) /\ Len(x \o y) = Len(x) + Len(y)
      BY <1>1, <1>2, <2>1, LiesBoth
    <2>3. Len(y) \in Nat
      BY <1>2
    <2>4. QED
      BY <1>1, <2>1, <2>2, <2>3
  <1>4. Is(w, i, "field") /\ w[i].value = f[1] /\ IsField(w, i, f[1])
    BY <1>3, FieldIdRead
  <1>5. ReadPayload(w, i + 1, g[2]) = Got(s, e)
    <2>1. ReadPayload(w, i + 1, g[2]) = Got(s, (i + 1) + Len(y))
      BY <1>1, <1>3 DEF PayloadReads
    <2> HIDE DEF x, y
    <2>2. (i + 1) + Len(y) = i + Len(WriteField(m, f))
      BY <1>2, <1>3, <1>4
    <2>3. QED
      BY <2>1, <2>2
  <1> HIDE DEF s, e
  <1>6. /\ ReadPayload(w, i + 1, g[2]).ok /\ ReadPayload(w, i + 1, g[2]).value = s
        /\ ReadPayload(w, i + 1, g[2]).at = e
    BY <1>5 DEF Got
  <1>7. ReadField(w, i, g[1], g[2]) = Got(Filtered(g[2], s), e)
    BY <1>4, <1>6 DEF ReadField, Then
  <1>8. WriteField(m, f) # <<>>
    <2> HIDE DEF x, y
    <2>1. QED
      BY <1>1, <1>2, <1>3
  <1>9. QED
    BY <1>4, <1>7, <1>8 DEF Received, s, e

\* A field that is not there, but may be left out.
LEMMA FieldMissing ==
    ASSUME NEW w, NEW i, Is(w, i, "field"), NEW id, w[i].value # id,
           NEW kind, kind \notin Required
    PROVE  ReadField(w, i, id, kind) = Got(Default(kind), i)
  BY DEF ReadField

\* What has to be there is never left out.
LEMMA NeverOmitted ==
    ASSUME NEW written, NEW read, NEW v, Compatible(written, read, v), Omitted(written, v)
    PROVE  read \notin Required
  BY DEF Compatible, Omitted, Required

-------------------------------------------------------------------------------
(* Objects *)

\* The ids of a layout count its fields.
Counts(F) ==
    /\ Len(F) \in 0..8 /\ DOMAIN F = 1..Len(F)
    /\ \A k \in 1..Len(F) : F[k][1] = k

\* m has what a layout writes.
Fills(m, F) ==
    \A k \in 1..Len(F) : \E read : Compatible(F[k][2], read, m[F[k][3]])

\* What is on the wire of each field.
Pieces(m, F) == [k \in 1..8 |-> IF k <= Len(F) THEN WriteField(m, F[k]) ELSE <<>>]

\* The pieces of an object are sequences of units.
LEMMA PieceTypes ==
    ASSUME NEW m, NEW F, Counts(F), Fills(m, F)
    PROVE  \A k \in 1..8 : Pieces(m, F)[k] \in Seq(Units)
  <1>1. ASSUME NEW k \in 1..8, k <= Len(F) PROVE WriteField(m, F[k]) \in Seq(Units)
    <2>1. k \in 1..Len(F)
      BY <1>1 DEF Counts
    <2>2. F[k][1] \in Nat /\ \E read : Compatible(F[k][2], read, m[F[k][3]])
      BY <2>1 DEF Counts, Fills
    <2>3. QED
      BY <2>2, FieldType
  <1>2. \A k \in 1..8 : Pieces(m, F)[k] = IF k <= Len(F) THEN WriteField(m, F[k]) ELSE <<>>
    BY DEF Pieces
  <1>3. <<>> \in Seq(Units)
    OBVIOUS
  <1>4. QED
    BY <1>1, <1>2, <1>3

\* An object is its pieces and an end.
LEMMA ObjectPieces ==
    ASSUME NEW m, NEW F, Counts(F), Fills(m, F)
    PROVE  /\ WriteObject(m, F) = Flat(Pieces(m, F), 8) \o FieldId(FIELD_END)
           /\ Flat(Pieces(m, F), 8) \in Seq(Units) /\ FieldId(FIELD_END) \in Seq(Units)
           /\ Len(FieldId(FIELD_END)) = 1 /\ WriteObject(m, F) \in Seq(Units)
  <1> DEFINE b == Pieces(m, F)
             n == Len(F)
  <1>1. n \in Nat /\ n \in 0..8
    BY SMTT(30) DEF Counts
  <1>2. \A k \in 1..8 : b[k] \in Seq(Units)
    BY PieceTypes
  <1>3. \A k \in n + 1..8 : b[k] = <<>>
    BY <1>1 DEF Pieces
  <1>4. Flat(b, 8) = Flat(b, n)
    <2> DEFINE s == n + 1
    <2> HIDE DEF b, n
    <2>1. /\ s \in Nat /\ 9 \in Nat /\ s >= 1 /\ s <= 9 /\ 9 - 1 = 8 /\ s - 1 = n
          /\ \A k \in 1..s - 1 : k \in 1..8
      BY <1>1
    <2>2. /\ \A k \in 1..s - 1 : b[k] \in Seq(Units)
          /\ \A k \in s..9 - 1 : b[k] = <<>>
      BY <1>2, <1>3, <2>1
    <2> HIDE DEF s
    <2>3. Flat(b, 9 - 1) = Flat(b, s - 1)
      BY <2>1, <2>2, FlatNothing
    <2>4. QED
      BY <2>1, <2>3
  <1>5. FlattenSeq([k \in DOMAIN F |-> WriteField(m, F[k])]) = Flat(b, n)
    <2>1. DOMAIN F = 1..n
      BY DEF Counts
    <2>2. [k \in DOMAIN F |-> WriteField(m, F[k])] = [k \in 1..n |-> b[k]]
      BY <1>1, <2>1 DEF Pieces
    <2>3. QED
      BY <2>2 DEF Flat
  <1>6. Flat(b, 8) \in Seq(Units)
    <2> HIDE DEF b
    <2>1. QED
      BY <1>2, FlatType
  <1>7. FieldId(FIELD_END) \in Seq(Units) /\ Len(FieldId(FIELD_END)) = 1
    BY UnitTypes DEF FIELD_END
  <1>8. WriteObject(m, F) = Flat(b, 8) \o FieldId(FIELD_END)
    BY <1>4, <1>5 DEF WriteObject
  <1> DEFINE x == Flat(b, 8)
             y == FieldId(FIELD_END)
  <1>9. x \o y \in Seq(Units)
    <2> HIDE DEF x, y
    <2>1. x \in Seq(Units) /\ y \in Seq(Units)
      BY <1>6, <1>7 DEF x, y
    <2>2. QED
      BY <2>1, ConcatProperties
  <1>10. QED
    BY <1>6, <1>7, <1>8, <1>9

\* Where the fields up to k end, the next unit is the id of a later field that
\* is there, or of what is behind all of them.
NextUnit(m, F, w, i, z, k) ==
    LET p == i + Len(Flat(Pieces(m, F), k))
    IN /\ Is(w, p, "field")
       /\ \/ w[p].value \in k + 1..8 /\ Pieces(m, F)[w[p].value] # <<>>
          \/ p = z /\ \A j \in k + 1..8 : Pieces(m, F)[j] = <<>>

\* The pieces of m lie at i, and a field id behind them.
ObjectLies(m, F, w, i, z) ==
    /\ Counts(F) /\ Fills(m, F) /\ Lies(w, i, Flat(Pieces(m, F), 8))
    /\ z = i + Len(Flat(Pieces(m, F), 8)) /\ Is(w, z, "field") /\ w[z].value \notin 1..8

\* A piece that is there lies where the next unit is.
LEMMA PieceLies ==
    ASSUME NEW m, NEW F, NEW w, NEW i, NEW z, ObjectLies(m, F, w, i, z), NEW k \in 1..8
    PROVE  /\ Lies(w, i + Len(Flat(Pieces(m, F), k - 1)), Pieces(m, F)[k])
           /\ Len(Flat(Pieces(m, F), k))
                 = Len(Flat(Pieces(m, F), k - 1)) + Len(Pieces(m, F)[k])
           /\ Len(Flat(Pieces(m, F), k - 1)) \in Nat /\ Len(Pieces(m, F)[k]) \in Nat
           /\ i \in Nat
  <1> DEFINE b == Pieces(m, F)
  <1>1. \A j \in 1..8 : b[j] \in Seq(Units)
    BY PieceTypes DEF ObjectLies
  <1>2. Lies(w, i, Flat(b, 8)) /\ 8 \in Nat /\ i \in Nat
    BY DEF ObjectLies, Lies
  <1> HIDE DEF b
  <1>3. /\ Lies(w, i + Len(Flat(b, k - 1)), b[k])
        /\ Len(Flat(b, k)) = Len(Flat(b, k - 1)) + Len(b[k])
        /\ Len(Flat(b, k - 1)) \in Nat /\ Len(b[k]) \in Nat
    BY <1>1, <1>2, LiesEach
  <1>4. QED
    BY <1>2, <1>3 DEF b

\* Behind the pieces of the first fields is a later one, or the end.
LEMMA NextUnits ==
    ASSUME NEW m, NEW F, NEW w, NEW i, NEW z, ObjectLies(m, F, w, i, z)
    PROVE  \A k \in 0..8 : NextUnit(m, F, w, i, z, k)
  <1> DEFINE b == Pieces(m, F)
             at(k) == i + Len(Flat(b, k))
             T == {j \in 0..8 : NextUnit(m, F, w, i, z, 8 - j)}
  <1>1. 0 \in T
    <2>1. 8 - 0 = 8 /\ 0 \in 0..8 /\ 8 + 1..8 = {}
      OBVIOUS
    <2>2. NextUnit(m, F, w, i, z, 8)
      BY <2>1 DEF NextUnit, ObjectLies
    <2>3. QED
      BY <2>1, <2>2
  <1>2. ASSUME NEW j \in 0..8 - 1, j \in T PROVE j + 1 \in T
    <2> DEFINE k == 8 - j
    <2>1. /\ k \in 1..8 /\ k - 1 \in 0..8 /\ 8 - (j + 1) = k - 1 /\ j + 1 \in 0..8
          /\ (k - 1) + 1 = k
      OBVIOUS
    <2>2. NextUnit(m, F, w, i, z, k)
      BY <1>2
    <2> HIDE DEF k
    <2>3. /\ Lies(w, at(k - 1), b[k]) /\ Len(Flat(b, k)) = Len(Flat(b, k - 1)) + Len(b[k])
          /\ Len(Flat(b, k - 1)) \in Nat /\ Len(b[k]) \in Nat /\ i \in Nat
      BY <2>1, PieceLies
    <2>4. ASSUME b[k] = <<>> PROVE NextUnit(m, F, w, i, z, k - 1)
      <3>1. at(k - 1) = at(k)
        <4>1. Len(b[k]) = 0
          BY <2>4
        <4> HIDE DEF b
        <4>2. QED
          BY <2>3, <4>1
      <3>2. Is(w, at(k - 1), "field")
        BY <2>2, <3>1 DEF NextUnit
      <3>3. CASE w[at(k)].value \in k + 1..8 /\ b[w[at(k)].value] # <<>>
        BY <2>1, <3>1, <3>2, <3>3 DEF NextUnit
      <3>4. CASE at(k) = z /\ \A l \in k + 1..8 : b[l] = <<>>
        <4>1. \A l \in (k - 1) + 1..8 : b[l] = <<>>
          <5> HIDE DEF b
          <5>1. QED
            BY <2>1, <2>4, <3>4
        <4>2. at(k - 1) = z
          BY <3>1, <3>4
        <4>3. QED
          BY <3>2, <4>1, <4>2 DEF NextUnit
      <3>5. QED
        BY <2>2, <3>3, <3>4 DEF NextUnit
    <2>5. ASSUME b[k] # <<>> PROVE NextUnit(m, F, w, i, z, k - 1)
      <3>1. k \in 1..Len(F) /\ b[k] = WriteField(m, F[k]) /\ F[k][1] = k
        BY <2>1, <2>5 DEF Pieces, ObjectLies, Counts
      <3>2. PICK read : Compatible(F[k][2], read, m[F[k][3]])
        BY <3>1 DEF ObjectLies, Fills
      <3>3. ~Omitted(F[k][2], m[F[k][3]])
        BY <2>5, <3>1 DEF WriteField
      <3> DEFINE g == <<k, read>>
      <3>4. g[1] = F[k][1] /\ g[2] = read /\ F[k][1] \in Nat
        BY <2>1, <3>1
      <3> HIDE DEF g
      <3>5. Lies(w, at(k - 1), WriteField(m, F[k]))
        BY <2>3, <3>1
      <3>6. IsField(w, at(k - 1), k)
        BY <3>1, <3>2, <3>3, <3>4, <3>5, FieldRead
      <3>7. Is(w, at(k - 1), "field") /\ w[at(k - 1)].value = k
        BY <3>6 DEF IsField
      <3>8. k \in (k - 1) + 1..8
        BY <2>1
      <3>9. NextUnit(m, F, w, i, z, k - 1)
        BY <2>5, <3>7, <3>8 DEF NextUnit
      <3>10. QED
        BY <3>9
    <2>6. NextUnit(m, F, w, i, z, k - 1)
      BY <2>4, <2>5
    <2>7. QED
      BY <2>1, <2>6
  <1>3. 0..8 \subseteq T
    <2>1. 0 \in Int /\ 8 \in Int
      OBVIOUS
    <2> HIDE DEF T
    <2>2. QED
      BY <1>1, <1>2, <2>1, Induction, Zenon
  <1>4. ASSUME NEW k \in 0..8 PROVE NextUnit(m, F, w, i, z, k)
    <2>1. 8 - k \in 0..8 /\ 8 - (8 - k) = k
      OBVIOUS
    <2>2. 8 - k \in T
      BY <1>3, <2>1
    <2>3. QED
      BY <2>1, <2>2
  <1>5. QED
    BY <1>4

\* One more field is read.
FieldsStep(w, g, r) ==
    IF ~r.ok THEN r
    ELSE LET s == ReadField(w, r.at, g[1], g[2])
         IN IF s.ok THEN Got(With(r.value, g[3], s.value), s.at) ELSE s

\* The recursion inside ReadFields has a solution.
LEMMA FieldsExist ==
    ASSUME NEW n \in Nat, NEW w, NEW i, NEW known, NEW G
    PROVE  \E f : f = [k \in 0..n |->
                          IF k = 0 THEN Got(known, i) ELSE FieldsStep(w, G[k], f[k - 1])]
  <1> DEFINE T == {m \in 0..n : \E f : f = [k \in 0..m |->
                          IF k = 0 THEN Got(known, i) ELSE FieldsStep(w, G[k], f[k - 1])]}
  <1>1. 0 \in T
    <2> DEFINE f == [k \in 0..0 |-> Got(known, i)]
    <2>1. f = [k \in 0..0 |->
                  IF k = 0 THEN Got(known, i) ELSE FieldsStep(w, G[k], f[k - 1])]
      OBVIOUS
    <2> HIDE DEF f
    <2>2. QED
      BY <2>1
  <1>2. ASSUME NEW m \in 0..n - 1, m \in T PROVE m + 1 \in T
    <2>1. PICK f : f = [k \in 0..m |->
                          IF k = 0 THEN Got(known, i) ELSE FieldsStep(w, G[k], f[k - 1])]
      BY <1>2
    <2> DEFINE g == [k \in 0..m + 1 |->
                       IF k = m + 1 THEN FieldsStep(w, G[m + 1], f[m]) ELSE f[k]]
    <2>2. ASSUME NEW k \in 0..m + 1
          PROVE  g[k] = IF k = 0 THEN Got(known, i) ELSE FieldsStep(w, G[k], g[k - 1])
      <3>1. CASE k = m + 1
        <4>1. k # 0 /\ k - 1 = m /\ m \in 0..m + 1 /\ m # m + 1
          BY <3>1
        <4>2. g[k - 1] = f[m]
          BY <4>1
        <4>3. QED
          BY <3>1, <4>1, <4>2
      <3>2. CASE k # m + 1
        <4>1. k \in 0..m /\ g[k] = f[k]
          BY <3>2
        <4>2. k # 0 => k - 1 \in 0..m + 1 /\ k - 1 # m + 1 /\ g[k - 1] = f[k - 1]
          BY <4>1
        <4>3. f[k] = IF k = 0 THEN Got(known, i) ELSE FieldsStep(w, G[k], f[k - 1])
          BY <2>1, <4>1
        <4> HIDE DEF g
        <4>4. QED
          BY <4>1, <4>2, <4>3
      <3>3. QED
        BY <3>1, <3>2
    <2>3. g = [k \in 0..m + 1 |->
                 IF k = 0 THEN Got(known, i) ELSE FieldsStep(w, G[k], g[k - 1])]
      BY <2>2
    <2>4. m + 1 \in 0..n
      OBVIOUS
    <2> HIDE DEF g
    <2>5. QED
      BY <2>3, <2>4
  <1>3. n \in T
    <2>1. 0 \in Int /\ n \in Int /\ n \in 0..n
      OBVIOUS
    <2> HIDE DEF T
    <2>2. 0..n \subseteq T
      BY <1>1, <1>2, <2>1, Induction, Zenon
    <2>3. QED
      BY <2>1, <2>2
  <1>4. QED
    BY <1>3

\* f has what is read after each field.
ReadsFields(f, w, i, known, G) ==
    /\ ReadFields(w, i, known, G) = f[Len(G)]
    /\ f[0] = Got(known, i)
    /\ \A k \in 0..Len(G) - 1 : f[k + 1] = FieldsStep(w, G[k + 1], f[k])

\* ReadFields has its intermediate results.
LEMMA FieldsRead ==
    ASSUME NEW G, Len(G) \in Nat, NEW w, NEW i, NEW known
    PROVE  \E f : ReadsFields(f, w, i, known, G)
  <1> DEFINE n == Len(G)
             read == CHOOSE f : f = [k \in 0..n |->
                          IF k = 0 THEN Got(known, i) ELSE FieldsStep(w, G[k], f[k - 1])]
  <1>1. read = [k \in 0..n |->
                  IF k = 0 THEN Got(known, i) ELSE FieldsStep(w, G[k], read[k - 1])]
    BY FieldsExist
  <1>2. ReadFields(w, i, known, G) = read[n]
    BY DEF ReadFields, FieldsStep, Then
  <1> HIDE DEF read
  <1>3. read[0] = Got(known, i)
    BY <1>1
  <1>4. ASSUME NEW k \in 0..n - 1 PROVE read[k + 1] = FieldsStep(w, G[k + 1], read[k])
    <2>1. k + 1 \in 0..n /\ k + 1 # 0 /\ (k + 1) - 1 = k
      OBVIOUS
    <2>2. QED
      BY <1>1, <2>1
  <1>5. QED
    BY <1>2, <1>3, <1>4 DEF ReadsFields

\* What the layout F writes of m is read with the layout G.
Matches(m, F, G) ==
    /\ Counts(G)
    /\ \A k \in 1..Len(G) :
          IF k <= Len(F) THEN Compatible(F[k][2], G[k][2], m[F[k][3]])
          ELSE G[k][2] \notin Required

Reading(m, F, G, k) ==
    IF k <= Len(F) THEN Received(m, F[k], G[k]) ELSE Default(G[k][2])

\* The names of a layout.
Named(G, k) == {G[j][3] : j \in 1..k}
Distinct(G, known) ==
    /\ \A j, k \in 1..Len(G) : G[j][3] = G[k][3] => j = k
    /\ \A k \in 1..Len(G) : G[k][3] \notin DOMAIN known

\* v is what was known and the first k fields.
Knows(v, known, m, F, G, k) ==
    /\ DOMAIN v = DOMAIN known \cup Named(G, k)
    /\ \A x \in DOMAIN known : v[x] = known[x]
    /\ \A j \in 1..k : v[G[j][3]] = Reading(m, F, G, j)

\* If k fields are known, the next one is read.
LEMMA OneField ==
    ASSUME NEW m, NEW F, NEW G, NEW w, NEW i, NEW z, ObjectLies(m, F, w, i, z),
           Matches(m, F, G), NEW k \in 1..Len(G)
    PROVE  ReadField(w, i + Len(Flat(Pieces(m, F), k - 1)), G[k][1], G[k][2])
              = Got(Reading(m, F, G, k), i + Len(Flat(Pieces(m, F), k)))
  <1> DEFINE b == Pieces(m, F)
             at(j) == i + Len(Flat(b, j))
  <1>1. k \in 1..8 /\ k \in 0..8 /\ G[k][1] = k
    BY DEF Matches, Counts
  <1>2. /\ Lies(w, at(k - 1), b[k]) /\ Len(Flat(b, k)) = Len(Flat(b, k - 1)) + Len(b[k])
        /\ Len(Flat(b, k - 1)) \in Nat /\ Len(b[k]) \in Nat /\ i \in Nat
    BY <1>1, PieceLies
  <1>3. CASE k <= Len(F) /\ ~Omitted(F[k][2], m[F[k][3]])
    <2>1. /\ b[k] = WriteField(m, F[k]) /\ F[k][1] = k /\ k \in Nat
          /\ Compatible(F[k][2], G[k][2], m[F[k][3]])
      BY <1>1, <1>3 DEF Pieces, ObjectLies, Counts, Matches
    <2>2. Lies(w, at(k - 1), WriteField(m, F[k]))
      BY <1>2, <2>1
    <2>3. ReadField(w, at(k - 1), G[k][1], G[k][2])
             = Got(Received(m, F[k], G[k]), at(k - 1) + Len(b[k]))
      BY <1>1, <1>3, <2>1, <2>2, FieldRead
    <2>4. at(k - 1) + Len(b[k]) = at(k)
      <3> DEFINE x == Len(Flat(b, k - 1))
                 y == Len(b[k])
      <3>1. x \in Nat /\ y \in Nat /\ i \in Nat /\ Len(Flat(b, k)) = x + y
        BY <1>2
      <3> HIDE DEF b, x, y
      <3>2. (i + x) + y = i + Len(Flat(b, k))
        BY <3>1
      <3>3. QED
        BY <3>2 DEF x, y
    <2>5. Reading(m, F, G, k) = Received(m, F[k], G[k])
      BY <1>3 DEF Reading
    <2>6. QED
      BY <2>3, <2>4, <2>5
  <1>4. CASE ~(k <= Len(F) /\ ~Omitted(F[k][2], m[F[k][3]]))
    <2>1. b[k] = <<>>
      BY <1>1, <1>4 DEF Pieces, WriteField
    <2>2. at(k - 1) = at(k)
      <3>1. Len(b[k]) = 0
        BY <2>1
      <3> HIDE DEF b
      <3>2. QED
        BY <1>2, <3>1
    <2>3. G[k][2] \notin Required
      BY <1>4, NeverOmitted DEF Matches
    <2>4. Is(w, at(k), "field") /\ w[at(k)].value # k
      <3>1. NextUnit(m, F, w, i, z, k)
        BY <1>1, NextUnits
      <3>2. CASE w[at(k)].value \in k + 1..8
        BY <1>1, <3>1, <3>2 DEF NextUnit
      <3>3. CASE at(k) = z
        BY <1>1, <3>1, <3>3 DEF NextUnit, ObjectLies
      <3>4. QED
        BY <3>1, <3>2, <3>3 DEF NextUnit
    <2>5. ReadField(w, at(k - 1), G[k][1], G[k][2]) = Got(Default(G[k][2]), at(k))
      <3> HIDE DEF b
      <3>1. QED
        BY <1>1, <2>2, <2>3, <2>4, FieldMissing
    <2>6. Reading(m, F, G, k) = Default(G[k][2])
      BY <1>4 DEF Reading, Received
    <2>7. QED
      BY <2>5, <2>6
  <1>5. QED
    BY <1>3, <1>4

\* A name that is new is added to what is known.
LEMMA Extended ==
    ASSUME NEW v, NEW name, NEW x, name \notin DOMAIN v
    PROVE  /\ DOMAIN With(v, name, x) = DOMAIN v \cup {name}
           /\ \A y \in DOMAIN v : With(v, name, x)[y] = v[y]
           /\ With(v, name, x)[name] = x
  BY DEF With

FieldsAreRead(m, F, G, w, i, known) ==
    \E v : /\ Knows(v, known, m, F, G, Len(G))
           /\ ReadFields(w, i, known, G) = Got(v, i + Len(Flat(Pieces(m, F), Len(G))))

\* All fields of an object are read, with the defaults of those left out.
LEMMA AllFields ==
    ASSUME NEW m, NEW F, NEW G, NEW w, NEW i, NEW z, ObjectLies(m, F, w, i, z),
           Matches(m, F, G), NEW known, Distinct(G, known)
    PROVE  FieldsAreRead(m, F, G, w, i, known)
  <1> DEFINE b == Pieces(m, F)
             n == Len(G)
             at == [k \in 0..n |-> i + Len(Flat(b, k))]
  <1>1. n \in 0..8 /\ n \in Nat /\ n \in Int /\ 0 \in Int /\ n \in 0..n /\ 0 \in 0..n
    <2>1. n \in 0..8
      BY DEF Matches, Counts
    <2> HIDE DEF n
    <2>2. QED
      BY <2>1
  <1>2. PICK f : ReadsFields(f, w, i, known, G)
    BY <1>1, FieldsRead
  <1> DEFINE T == {k \in 0..n : \E v : Knows(v, known, m, F, G, k) /\ f[k] = Got(v, at[k])}
  <1>3. 0 \in T
    <2>1. f[0] = Got(known, i)
      BY <1>2 DEF ReadsFields
    <2>2. at[0] = i
      <3>1. Flat(b, 0) = <<>>
        BY FlatNone
      <3>2. Len(Flat(b, 0)) = 0 /\ at[0] = i + Len(Flat(b, 0)) /\ i \in Nat
        BY <1>1, <3>1 DEF ObjectLies, Lies
      <3> HIDE DEF at, b
      <3>3. QED
        BY <3>2
    <2>3. Knows(known, known, m, F, G, 0)
      BY DEF Knows, Named
    <2> HIDE DEF at, n
    <2>4. QED
      BY <1>1, <2>1, <2>2, <2>3
  <1>4. ASSUME NEW k \in 0..n - 1, k \in T PROVE k + 1 \in T
    <2>1. k + 1 \in 1..n /\ (k + 1) - 1 = k /\ k + 1 \in 0..n /\ k \in 0..n
      BY <1>1
    <2>2. PICK v : Knows(v, known, m, F, G, k) /\ f[k] = Got(v, at[k])
      BY <1>4
    <2> DEFINE name == G[k + 1][3]
               x == Reading(m, F, G, k + 1)
    <2>3. ReadField(w, at[k], G[k + 1][1], G[k + 1][2]) = Got(x, at[k + 1])
      <3> DEFINE l == k + 1
      <3>1. l \in 1..Len(G) /\ l - 1 = k
        BY <2>1
      <3> HIDE DEF l
      <3>2. ReadField(w, i + Len(Flat(b, l - 1)), G[l][1], G[l][2])
               = Got(Reading(m, F, G, l), i + Len(Flat(b, l)))
        BY <3>1, OneField
      <3>3. at[k] = i + Len(Flat(b, k)) /\ at[k + 1] = i + Len(Flat(b, k + 1))
        BY <2>1
      <3> HIDE DEF at, b
      <3>4. QED
        BY <3>1, <3>2, <3>3 DEF l
    <2>4. name \notin DOMAIN v
      <3>1. name \notin DOMAIN known
        BY <2>1 DEF Distinct
      <3>2. name \notin Named(G, k)
        <4>1. ASSUME NEW j \in 1..k, name = G[j][3] PROVE FALSE
          <5>1. j \in 1..Len(G) /\ k + 1 \in 1..Len(G) /\ j # k + 1
            BY <1>1, <2>1
          <5>2. QED
            BY <4>1, <5>1 DEF Distinct
        <4>2. QED
          BY <4>1 DEF Named
      <3>3. QED
        BY <2>2, <3>1, <3>2 DEF Knows
    <2> DEFINE u == With(v, name, x)
    <2>5. /\ DOMAIN u = DOMAIN v \cup {name} /\ u[name] = x
          /\ \A y \in DOMAIN v : u[y] = v[y]
      <3> HIDE DEF name, x, at, b
      <3>1. QED
        BY <2>4 DEF With
    <2>6. Knows(u, known, m, F, G, k + 1)
      <3>1. Named(G, k + 1) = Named(G, k) \cup {name}
        BY <2>1 DEF Named
      <3>2. DOMAIN u = DOMAIN known \cup Named(G, k + 1)
        <4> HIDE DEF u, name
        <4>1. QED
          BY <2>2, <2>5, <3>1 DEF Knows
      <3>3. ASSUME NEW y \in DOMAIN known PROVE u[y] = known[y]
        <4> HIDE DEF u, name
        <4>1. QED
          BY <2>2, <2>5 DEF Knows
      <3>4. ASSUME NEW j \in 1..k + 1 PROVE u[G[j][3]] = Reading(m, F, G, j)
        <4>1. CASE j = k + 1
          <5>1. G[j][3] = name /\ Reading(m, F, G, j) = x
            BY <4>1
          <5> HIDE DEF u, name, x
          <5>2. QED
            BY <2>5, <5>1
        <4>2. CASE j # k + 1
          <5>1. j \in 1..k
            BY <2>1, <4>2
          <5>2. G[j][3] \in DOMAIN v /\ v[G[j][3]] = Reading(m, F, G, j)
            BY <2>2, <5>1 DEF Knows, Named
          <5> HIDE DEF u
          <5>3. QED
            BY <2>5, <5>2
        <4>3. QED
          BY <4>1, <4>2
      <3> HIDE DEF u
      <3>5. QED
        BY <3>2, <3>3, <3>4 DEF Knows
    <2>7. f[k + 1] = FieldsStep(w, G[k + 1], f[k])
      BY <1>2 DEF ReadsFields
    <2> HIDE DEF at, x, name, b
    <2>8. f[k].ok /\ f[k].value = v /\ f[k].at = at[k]
      BY <2>2 DEF Got
    <2> DEFINE s == ReadField(w, at[k], G[k + 1][1], G[k + 1][2])
    <2>9. s.ok /\ s.value = x /\ s.at = at[k + 1]
      BY <2>3 DEF Got
    <2> HIDE DEF u
    <2>10. f[k + 1] = Got(u, at[k + 1])
      BY <2>7, <2>8, <2>9 DEF FieldsStep, u, name
    <2>11. QED
      BY <2>1, <2>6, <2>10
  <1>5. n \in T
    <2> HIDE DEF T
    <2>1. 0..n \subseteq T
      BY <1>1, <1>3, <1>4, Induction, Zenon
    <2>2. QED
      BY <1>1, <2>1
  <1>6. at[n] = i + Len(Flat(b, n))
    BY <1>1
  <1>7. ReadFields(w, i, known, G) = f[n]
    BY <1>2 DEF ReadsFields
  <1> HIDE DEF at
  <1>8. QED
    BY <1>5, <1>6, <1>7 DEF FieldsAreRead

\* An object that ends where its layout does.
LEMMA ObjectRead ==
    ASSUME NEW m, NEW F, NEW G, NEW w, NEW i, NEW z, ObjectLies(m, F, w, i, z),
           Matches(m, F, G), NEW known, Distinct(G, known),
           \A k \in Len(G) + 1..8 : Pieces(m, F)[k] = <<>>
    PROVE  \E v : /\ Knows(v, known, m, F, G, Len(G))
                  /\ ReadObject(w, i, known, G) = ReadEnd(w, z, v)
  <1> DEFINE p == i + Len(Flat(Pieces(m, F), Len(G)))
  <1>0. FieldsAreRead(m, F, G, w, i, known)
    BY AllFields
  <1>1. PICK v : /\ Knows(v, known, m, F, G, Len(G))
                 /\ ReadFields(w, i, known, G) = Got(v, p)
    BY <1>0 DEF FieldsAreRead
  <1>2. NextUnit(m, F, w, i, z, Len(G))
    BY NextUnits DEF Matches, Counts
  <1>3. p = z
    BY <1>2 DEF NextUnit
  <1> HIDE DEF p
  <1>4. /\ ReadFields(w, i, known, G).ok /\ ReadFields(w, i, known, G).value = v
        /\ ReadFields(w, i, known, G).at = z
    BY <1>1, <1>3 DEF Got
  <1>5. ReadObject(w, i, known, G) = ReadEnd(w, z, v)
    BY <1>4 DEF ReadObject, Then
  <1>6. QED
    BY <1>1, <1>5

\* An object with a field behind those of its layout.
LEMMA UnknownField ==
    ASSUME NEW m, NEW F, NEW G, NEW w, NEW i, NEW z, ObjectLies(m, F, w, i, z),
           Matches(m, F, G), NEW known, Distinct(G, known),
           NEW k \in Len(G) + 1..8, Pieces(m, F)[k] # <<>>
    PROVE  ReadObject(w, i, known, G) = Fail("end of object")
  <1> DEFINE p == i + Len(Flat(Pieces(m, F), Len(G)))
  <1>0. FieldsAreRead(m, F, G, w, i, known)
    BY AllFields
  <1>1. PICK v : /\ Knows(v, known, m, F, G, Len(G))
                 /\ ReadFields(w, i, known, G) = Got(v, p)
    BY <1>0 DEF FieldsAreRead
  <1>2. NextUnit(m, F, w, i, z, Len(G))
    BY NextUnits DEF Matches, Counts
  <1>3. Is(w, p, "field") /\ w[p].value \in Len(G) + 1..8 /\ Len(G) \in Nat
    BY <1>2 DEF NextUnit, Matches, Counts
  <1>4. w[p].value # FIELD_END
    BY <1>3 DEF FIELD_END
  <1> HIDE DEF p
  <1>5. /\ ReadFields(w, i, known, G).ok /\ ReadFields(w, i, known, G).value = v
        /\ ReadFields(w, i, known, G).at = p
    BY <1>1 DEF Got
  <1>6. QED
    BY <1>3, <1>4, <1>5 DEF ReadObject, ReadEnd, Then

\* Where an object lies, its fields and what ends it do.
LEMMA ObjectLiesThere ==
    ASSUME NEW m, NEW F, Counts(F), Fills(m, F), NEW w, NEW i, Lies(w, i, WriteObject(m, F)),
           NEW z, z = i + Len(Flat(Pieces(m, F), 8))
    PROVE  /\ ObjectLies(m, F, w, i, z)
           /\ w[z].value = FIELD_END /\ z + 1 = i + Len(WriteObject(m, F))
  <1> DEFINE x == Flat(Pieces(m, F), 8)
             y == FieldId(FIELD_END)
  <1>1. /\ WriteObject(m, F) = x \o y /\ x \in Seq(Units) /\ y \in Seq(Units) /\ Len(y) = 1
    BY ObjectPieces
  <1>2. /\ Lies(w, i, x) /\ Lies(w, i + Len(x), y) /\ Len(x \o y) = Len(x) + 1
        /\ i \in Nat /\ Len(x) \in Nat
    <2>1. Lies(w, i, x \o y) /\ i \in Nat
      BY <1>1 DEF Lies
    <2> HIDE DEF x, y
    <2>2. Lies(w, i, x) /\ Lies(w, i + Len(x), y) /\ Len(x \o y) = Len(x) + Len(y)
      BY <1>1, <2>1, LiesBoth
    <2>3. Len(x) \in Nat
      BY <1>1
    <2>4. QED
      BY <1>1, <2>1, <2>2, <2>3
  <1>3. z = i + Len(x)
    OBVIOUS
  <1>4. Is(w, z, "field") /\ w[z].value = FIELD_END
    BY <1>2, <1>3, FieldIdRead
  <1>5. z + 1 = i + Len(WriteObject(m, F))
    <2> HIDE DEF x, y
    <2>1. QED
      BY <1>1, <1>2, <1>3
  <1>6. FIELD_END \notin 1..8
    BY DEF FIELD_END
  <1>7. QED
    BY <1>2, <1>4, <1>5, <1>6 DEF ObjectLies

\* The object read at i is of the fields of m, and ends before e.
ObjectIsRead(m, F, G, w, i, known, e) ==
    \E v : Knows(v, known, m, F, G, Len(G)) /\ ReadObject(w, i, known, G) = Got(v, e)

\* An object is read with a layout that has the fields it has.
LEMMA WholeObject ==
    ASSUME NEW m, NEW F, NEW G, Counts(F), Fills(m, F), Matches(m, F, G),
           \A k \in Len(G) + 1..8 : Pieces(m, F)[k] = <<>>,
           NEW known, Distinct(G, known), NEW w, NEW i, Lies(w, i, WriteObject(m, F))
    PROVE  ObjectIsRead(m, F, G, w, i, known, i + Len(WriteObject(m, F)))
  <1> DEFINE z == i + Len(Flat(Pieces(m, F), 8))
             e == i + Len(WriteObject(m, F))
  <1>1. ObjectLies(m, F, w, i, z) /\ w[z].value = FIELD_END /\ z + 1 = e
    BY ObjectLiesThere
  <1>2. Is(w, z, "field")
    BY <1>1 DEF ObjectLies
  <1> HIDE DEF z, e
  <1>3. PICK v : /\ Knows(v, known, m, F, G, Len(G))
                 /\ ReadObject(w, i, known, G) = ReadEnd(w, z, v)
    BY <1>1, ObjectRead
  <1>4. ReadEnd(w, z, v) = Got(v, e)
    BY <1>1, <1>2 DEF ReadEnd
  <1>5. ObjectIsRead(m, F, G, w, i, known, e)
    BY <1>3, <1>4 DEF ObjectIsRead
  <1>6. QED
    BY <1>5 DEF e

\* An object is refused by a layout that has not the fields it has.
LEMMA LongerObject ==
    ASSUME NEW m, NEW F, NEW G, Counts(F), Fills(m, F), Matches(m, F, G),
           NEW k \in Len(G) + 1..8, Pieces(m, F)[k] # <<>>,
           NEW known, Distinct(G, known), NEW w, NEW i, Lies(w, i, WriteObject(m, F))
    PROVE  ReadObject(w, i, known, G) = Fail("end of object")
  <1> DEFINE z == i + Len(Flat(Pieces(m, F), 8))
  <1>1. ObjectLies(m, F, w, i, z)
    BY ObjectLiesThere
  <1> HIDE DEF z
  <1>2. QED
    BY <1>1, UnknownField

\* An object that ends in a field of another layout is refused.
LEMMA StrangeObject ==
    ASSUME NEW m, NEW F, NEW G, Counts(F), Fills(m, F), Matches(m, F, G),
           \A k \in Len(G) + 1..8 : Pieces(m, F)[k] = <<>>,
           NEW known, Distinct(G, known), NEW w, NEW i,
           Lies(w, i, Flat(Pieces(m, F), 8)),
           NEW z, z = i + Len(Flat(Pieces(m, F), 8)), IsField(w, z, 9)
    PROVE  ReadObject(w, i, known, G) = Fail("end of object")
  <1>1. Is(w, z, "field") /\ w[z].value = 9
    BY DEF IsField
  <1>2. ObjectLies(m, F, w, i, z)
    BY <1>1 DEF ObjectLies
  <1>3. PICK v : ReadObject(w, i, known, G) = ReadEnd(w, z, v)
    BY <1>2, ObjectRead
  <1>4. w[z].value # FIELD_END
    BY <1>1 DEF FIELD_END
  <1>5. ReadEnd(w, z, v) = Fail("end of object")
    BY <1>1, <1>4 DEF ReadEnd
  <1>6. QED
    BY <1>3, <1>5

-------------------------------------------------------------------------------
(* Layouts *)

\* What a value of a kind means does not depend on more than its field's name.
Classified(written, read, name) ==
    CASE written = "string" ->
            /\ name \notin Indices \cup {"ack_index"}
            /\ name \in TextFields <=> read = "string"
      [] written = "index" ->
            /\ name \notin TextFields \cup {"ack_index"}
            /\ name \in Indices <=> read = "index"
      [] written = "or_invalid" -> name \in Indices
      [] written = "none_is_zero" -> name = "ack_index"
      [] written = "default_zero" /\ read = "index" -> name \in Indices
      [] OTHER -> name \notin TextFields \cup Indices \cup {"ack_index"}

\* A value is received as what it means.
LEMMA Means ==
    ASSUME NEW m, NEW f, NEW g, Compatible(f[2], g[2], m[f[3]]),
           Classified(f[2], g[2], f[3]), f[2] \notin {"code", "count"}
    PROVE  Received(m, f, g) = Meaning(f[3], m[f[3]])
  <1> DEFINE v == m[f[3]]
             name == f[3]
             written == f[2]
             read == g[2]
  <1>1. TextFields \cap Indices = {} /\ "ack_index" \notin TextFields \cup Indices
    BY DEF TextFields, Indices
  <1>2. OPTIONAL_INDEX_INVALID \in Words /\ OPTIONAL_INDEX_INVALID # 0 /\ 0 \in Words
    BY Widths DEF OPTIONAL_INDEX_INVALID, U64Max, Words
  <1>3. None \notin Words /\ None # Empty /\ None \notin Texts
    BY NoneIsNothing DEF Words, U64Max
  <1>4. Received(m, f, g) = IF Omitted(written, v) THEN Default(read)
                            ELSE Filtered(read, Sent(written, v))
    BY DEF Received
  <1>5. Compatible(written, read, v) /\ Classified(written, read, name)
        /\ written \notin {"code", "count"}
    OBVIOUS
  <1> HIDE DEF v, name, written, read
  <1>6. CASE written = "string"
    <2>1. read \in {"string", "text"} /\ v \in Option(Texts) /\ (read = "text" => v \in Texts)
      BY <1>5, <1>6 DEF Compatible, Option
    <2>2. name \notin Indices \cup {"ack_index"} /\ (name \in TextFields <=> read = "string")
      BY <1>5, <1>6 DEF Classified
    <2>3. Sent(written, v) = v /\ Filtered(read, v) = v
      BY <1>6, <2>1 DEF Sent, Filtered
    <2>4. Omitted(written, v) <=> v \in {None, Empty}
      BY <1>6 DEF Omitted
    <2>5. Default(read) = IF read = "text" THEN Empty ELSE None
      BY <2>1 DEF Default
    <2>6. Meaning(name, v) = IF name \in TextFields /\ v = Empty THEN None ELSE v
      BY <2>2 DEF Meaning
    <2>7. QED
      BY <1>3, <1>4, <2>1, <2>2, <2>3, <2>4, <2>5, <2>6 DEF name, v
  <1>7. CASE written = "index"
    <2>1. read \in {"some", "index"} /\ v \in Option(Words)
      BY <1>5, <1>7 DEF Compatible
    <2>2. name \notin TextFields \cup {"ack_index"} /\ (name \in Indices <=> read = "index")
      BY <1>5, <1>7 DEF Classified
    <2>3. /\ Sent(written, v) = v
          /\ Filtered(read, v) = IF read = "index" /\ v = OPTIONAL_INDEX_INVALID THEN None ELSE v
      BY <1>7, <2>1 DEF Sent, Filtered
    <2>4. (Omitted(written, v) <=> v = None) /\ Default(read) = None
      BY <1>7, <2>1 DEF Omitted, Default
    <2>5. Meaning(name, v)
             = IF name \in Indices /\ v = OPTIONAL_INDEX_INVALID THEN None ELSE v
      BY <2>2 DEF Meaning
    <2>6. QED
      BY <1>4, <2>1, <2>2, <2>3, <2>4, <2>5 DEF name, v
  <1>8. CASE written = "or_invalid"
    <2>1. read = "or_invalid" /\ v \in Option(Words) /\ name \in Indices
      BY <1>5, <1>8 DEF Compatible, Classified
    <2>2. Sent(written, v) = IF v = None THEN OPTIONAL_INDEX_INVALID ELSE v
      BY <1>8 DEF Sent
    <2>3. \A u : Filtered(read, u) = IF u = OPTIONAL_INDEX_INVALID THEN None ELSE u
      BY <2>1 DEF Filtered
    <2>4. ~Omitted(written, v)
      BY <1>8 DEF Omitted
    <2>5. Meaning(name, v) = IF v = OPTIONAL_INDEX_INVALID THEN None ELSE v
      BY <1>1, <2>1 DEF Meaning
    <2>6. QED
      BY <1>2, <1>3, <1>4, <2>1, <2>2, <2>3, <2>4, <2>5 DEF name, v
  <1>9. CASE written = "none_is_zero"
    <2>1. read = "default_zero" /\ v \in Option(Words) /\ name = "ack_index"
      BY <1>5, <1>9 DEF Compatible, Classified
    <2>2. Sent(written, v) = v /\ Filtered(read, v) = v
      BY <1>9, <2>1 DEF Sent, Filtered
    <2>3. (Omitted(written, v) <=> v \in {None, 0}) /\ Default(read) = 0
      BY <1>9, <2>1 DEF Omitted, Default
    <2>4. Meaning(name, v) = IF v = None THEN 0 ELSE v
      BY <1>1, <2>1 DEF Meaning
    <2>5. QED
      BY <1>4, <2>1, <2>2, <2>3, <2>4 DEF name, v
  <1>10. CASE written = "default_zero" /\ read = "index"
    <2>1. v \in Words \ {0} /\ name \in Indices
      BY <1>5, <1>10 DEF Compatible, Classified
    <2>2. Sent(written, v) = v /\ ~Omitted(written, v)
      BY <1>10, <2>1 DEF Sent, Omitted
    <2>3. Filtered(read, v) = IF v = OPTIONAL_INDEX_INVALID THEN None ELSE v
      BY <1>10 DEF Filtered
    <2>4. Meaning(name, v) = IF v = OPTIONAL_INDEX_INVALID THEN None ELSE v
      BY <1>1, <2>1 DEF Meaning
    <2>5. QED
      BY <1>4, <2>1, <2>2, <2>3, <2>4 DEF name, v
  <1>11. CASE \/ written \in {"hugeint", "bool", "texts", "pointers", "pointer"}
              \/ written = "default_zero" /\ read # "index"
    <2>1. Meaning(name, v) = v
      BY <1>5, <1>11 DEF Classified, Meaning
    <2>2. Sent(written, v) = v
      BY <1>11 DEF Sent
    <2>3. read \notin {"index", "or_invalid"}
      BY <1>5, <1>11 DEF Compatible
    <2>4. Filtered(read, v) = v
      BY <2>3 DEF Filtered
    <2>5. Omitted(written, v) => Default(read) = v
      <3>1. CASE written = "bool" /\ read = "bool" /\ v \in BOOLEAN
        BY <3>1 DEF Omitted, Default
      <3>2. CASE written \in {"texts", "pointers"} /\ read = written
        BY <3>2 DEF Omitted, Default
      <3>3. CASE written = "default_zero" /\ read = "default_zero"
        BY <3>3 DEF Omitted, Default
      <3>4. CASE written \in {"hugeint", "pointer"}
        BY <3>4 DEF Omitted
      <3>5. QED
        BY <1>5, <1>11, <3>1, <3>2, <3>3, <3>4 DEF Compatible
    <2>6. QED
      BY <1>4, <2>1, <2>2, <2>4, <2>5 DEF name, v
  <1>12. written \in {"string", "index", "or_invalid", "none_is_zero", "default_zero",
                     "hugeint", "bool", "texts", "pointers", "pointer"}
    BY <1>5 DEF Compatible
  <1>13. QED
    BY <1>6, <1>7, <1>8, <1>9, <1>10, <1>11, <1>12

\* A field is read as what it was written as.
Fits(m, f, g) ==
    /\ Compatible(f[2], g[2], m[f[3]]) /\ Classified(f[2], g[2], f[3])
    /\ f[2] # "code" /\ (f[2] # "count" => g[3] = f[3])

\* Two layouts agree in the fields they both have.
Fit(m, F, G) ==
    /\ Counts(F) /\ Counts(G)
    /\ \A k \in 1..Len(F) : k \in 1..Len(G) => Fits(m, F[k], G[k])

Body(m) ==
    \A k \in DOMAIN BodyFields(m.type) : m[k] \in BodyFields(m.type)[k]

\* The layouts that v1 writes and reads fit, for every type of message.
LEMMA FitV1 ==
    ASSUME NEW m, m.type \in DOMAIN MessageType, Body(m)
    PROVE  Fit(m, WrittenV1(m.type), ReadV1(m.type))
  <1>1. CASE m.type = "CONNECTION_REQUEST"
    BY <1>1 DEF Fit, Fits, Counts, Body, BodyFields, Compatible, Classified,
        TextFields, Indices, WrittenV1, ReadV1
  <1>2. CASE m.type = "CONNECTION_RESPONSE"
    BY <1>2 DEF Fit, Fits, Counts, Body, BodyFields, Compatible, Classified,
        TextFields, Indices, WrittenV1, ReadV1
  <1>3. CASE m.type = "PREPARE_REQUEST"
    BY <1>3 DEF Fit, Fits, Counts, Body, BodyFields, Compatible, Classified,
        TextFields, Indices, WrittenV1, ReadV1
  <1>4. CASE m.type = "PREPARE_RESPONSE"
    BY <1>4 DEF Fit, Fits, Counts, Body, BodyFields, Compatible, Classified,
        TextFields, Indices, WrittenV1, ReadV1
  <1>5. CASE m.type = "FETCH_REQUEST"
    BY <1>5 DEF Fit, Fits, Counts, Body, BodyFields, Compatible, Classified,
        TextFields, Indices, WrittenV1, ReadV1
  <1>6. CASE m.type = "FETCH_RESPONSE"
    BY <1>6 DEF Fit, Fits, Counts, Body, BodyFields, Compatible, Classified,
        TextFields, Indices, WrittenV1, ReadV1
  <1>7. CASE m.type = "APPEND_REQUEST"
    BY <1>7 DEF Fit, Fits, Counts, Body, BodyFields, Compatible, Classified,
        TextFields, Indices, WrittenV1, ReadV1
  <1>8. CASE m.type = "SUCCESS_RESPONSE"
    BY <1>8 DEF Fit, Fits, Counts, Body, BodyFields, Compatible, Classified,
        TextFields, Indices, WrittenV1, ReadV1
  <1>9. CASE m.type = "DISCONNECT"
    BY <1>9 DEF Fit, Fits, Counts, Body, BodyFields, Compatible, Classified,
        TextFields, Indices, WrittenV1, ReadV1
  <1>10. CASE m.type = "HEARTBEAT_REQUEST"
    BY <1>10 DEF Fit, Fits, Counts, Body, BodyFields, Compatible, Classified,
        TextFields, Indices, WrittenV1, ReadV1
  <1>11. CASE m.type = "ERROR_RESPONSE"
    BY <1>11 DEF Fit, Fits, Counts, Body, BodyFields, Compatible, Classified,
        TextFields, Indices, WrittenV1, ReadV1
  <1>12. QED
    BY <1>1, <1>2, <1>3, <1>4, <1>5, <1>6, <1>7, <1>8, <1>9, <1>10, <1>11 DEF MessageType

\* So do those of v3.
LEMMA FitV3 ==
    ASSUME NEW m, m.type \in DOMAIN MessageType, Body(m), Encodable(m, QUACK_V3)
    PROVE  Fit(m, WrittenV3(m.type), ReadV3(m.type))
  <1>1. CASE m.type = "CONNECTION_REQUEST"
    BY <1>1 DEF Fit, Fits, Counts, Body, BodyFields, Compatible, Classified,
        TextFields, Indices, WrittenV1, ReadV1, WrittenV3, ReadV3,
        Encodable, QUACK_V1, QUACK_V3, Option
  <1>2. CASE m.type = "CONNECTION_RESPONSE"
    BY <1>2 DEF Fit, Fits, Counts, Body, BodyFields, Compatible, Classified,
        TextFields, Indices, WrittenV1, ReadV1, WrittenV3, ReadV3,
        Encodable, QUACK_V1, QUACK_V3, Option
  <1>3. CASE m.type = "PREPARE_REQUEST"
    BY <1>3 DEF Fit, Fits, Counts, Body, BodyFields, Compatible, Classified,
        TextFields, Indices, WrittenV1, ReadV1, WrittenV3, ReadV3,
        Encodable, QUACK_V1, QUACK_V3, Option
  <1>4. CASE m.type = "PREPARE_RESPONSE"
    BY <1>4 DEF Fit, Fits, Counts, Body, BodyFields, Compatible, Classified,
        TextFields, Indices, WrittenV1, ReadV1, WrittenV3, ReadV3,
        Encodable, QUACK_V1, QUACK_V3, Option
  <1>5. CASE m.type = "FETCH_REQUEST"
    BY <1>5 DEF Fit, Fits, Counts, Body, BodyFields, Compatible, Classified,
        TextFields, Indices, WrittenV1, ReadV1, WrittenV3, ReadV3,
        Encodable, QUACK_V1, QUACK_V3, Option
  <1>6. CASE m.type = "FETCH_RESPONSE"
    BY <1>6 DEF Fit, Fits, Counts, Body, BodyFields, Compatible, Classified,
        TextFields, Indices, WrittenV1, ReadV1, WrittenV3, ReadV3,
        Encodable, QUACK_V1, QUACK_V3, Option
  <1>7. CASE m.type = "APPEND_REQUEST"
    BY <1>7 DEF Fit, Fits, Counts, Body, BodyFields, Compatible, Classified,
        TextFields, Indices, WrittenV1, ReadV1, WrittenV3, ReadV3,
        Encodable, QUACK_V1, QUACK_V3, Option
  <1>8. CASE m.type = "SUCCESS_RESPONSE"
    BY <1>8 DEF Fit, Fits, Counts, Body, BodyFields, Compatible, Classified,
        TextFields, Indices, WrittenV1, ReadV1, WrittenV3, ReadV3,
        Encodable, QUACK_V1, QUACK_V3, Option
  <1>9. CASE m.type = "DISCONNECT"
    BY <1>9 DEF Fit, Fits, Counts, Body, BodyFields, Compatible, Classified,
        TextFields, Indices, WrittenV1, ReadV1, WrittenV3, ReadV3,
        Encodable, QUACK_V1, QUACK_V3, Option
  <1>10. CASE m.type = "HEARTBEAT_REQUEST"
    BY <1>10 DEF Fit, Fits, Counts, Body, BodyFields, Compatible, Classified,
        TextFields, Indices, WrittenV1, ReadV1, WrittenV3, ReadV3,
        Encodable, QUACK_V1, QUACK_V3, Option
  <1>11. CASE m.type = "ERROR_RESPONSE"
    BY <1>11 DEF Fit, Fits, Counts, Body, BodyFields, Compatible, Classified,
        TextFields, Indices, WrittenV1, ReadV1, WrittenV3, ReadV3,
        Encodable, QUACK_V1, QUACK_V3, Option
  <1>12. QED
    BY <1>1, <1>2, <1>3, <1>4, <1>5, <1>6, <1>7, <1>8, <1>9, <1>10, <1>11 DEF MessageType

HeaderNames == {"type", "connection_id", "client_query_id"}
Names(t) == HeaderNames \cup DOMAIN BodyFields(t)

\* The layouts of v1, what v1 has no field for, and no field more.
LEMMA NamesV1 ==
    ASSUME NEW t \in DOMAIN MessageType
    PROVE  /\ Len(WrittenV1(t)) = Len(ReadV1(t)) /\ Len(ReadV1(t)) \in 0..8
           /\ \A k \in 1..Len(WrittenV1(t)) : WrittenV1(t)[k][2] \notin {"code", "count"}
           /\ DOMAIN AbsentV1(t) = OnlyV3(t)
           /\ Named(ReadV1(t), Len(ReadV1(t))) = DOMAIN BodyFields(t) \ OnlyV3(t)
           /\ OnlyV3(t) \subseteq DOMAIN BodyFields(t)
           /\ DOMAIN BodyFields(t) \cap HeaderNames = {}
           /\ \A j, k \in 1..Len(ReadV1(t)) : ReadV1(t)[j][3] = ReadV1(t)[k][3] => j = k
  <1>1. CASE t = "CONNECTION_REQUEST"
    BY <1>1 DEF Named, BodyFields, HeaderNames, OnlyV3, AbsentV1, WrittenV1, ReadV1
  <1>2. CASE t = "CONNECTION_RESPONSE"
    BY <1>2 DEF Named, BodyFields, HeaderNames, OnlyV3, AbsentV1, WrittenV1, ReadV1
  <1>3. CASE t = "PREPARE_REQUEST"
    BY <1>3 DEF Named, BodyFields, HeaderNames, OnlyV3, AbsentV1, WrittenV1, ReadV1
  <1>4. CASE t = "PREPARE_RESPONSE"
    BY <1>4 DEF Named, BodyFields, HeaderNames, OnlyV3, AbsentV1, WrittenV1, ReadV1
  <1>5. CASE t = "FETCH_REQUEST"
    BY <1>5 DEF Named, BodyFields, HeaderNames, OnlyV3, AbsentV1, WrittenV1, ReadV1
  <1>6. CASE t = "FETCH_RESPONSE"
    BY <1>6 DEF Named, BodyFields, HeaderNames, OnlyV3, AbsentV1, WrittenV1, ReadV1
  <1>7. CASE t = "APPEND_REQUEST"
    BY <1>7 DEF Named, BodyFields, HeaderNames, OnlyV3, AbsentV1, WrittenV1, ReadV1
  <1>8. CASE t = "SUCCESS_RESPONSE"
    BY <1>8 DEF Named, BodyFields, HeaderNames, OnlyV3, AbsentV1, WrittenV1, ReadV1
  <1>9. CASE t = "DISCONNECT"
    BY <1>9 DEF Named, BodyFields, HeaderNames, OnlyV3, AbsentV1, WrittenV1, ReadV1
  <1>10. CASE t = "HEARTBEAT_REQUEST"
    BY <1>10 DEF Named, BodyFields, HeaderNames, OnlyV3, AbsentV1, WrittenV1, ReadV1
  <1>11. CASE t = "ERROR_RESPONSE"
    BY <1>11 DEF Named, BodyFields, HeaderNames, OnlyV3, AbsentV1, WrittenV1, ReadV1
  <1>12. QED
    BY <1>1, <1>2, <1>3, <1>4, <1>5, <1>6, <1>7, <1>8, <1>9, <1>10, <1>11 DEF MessageType

\* The layouts of v3: the chunks of a FETCH_RESPONSE are counted.
LEMMA NamesV3 ==
    ASSUME NEW t \in DOMAIN MessageType
    PROVE  /\ Len(WrittenV3(t)) = Len(ReadV3(t)) /\ Len(ReadV3(t)) \in 0..8
           /\ \A k \in 1..Len(WrittenV3(t)) : WrittenV3(t)[k][2] # "code"
           /\ t # "FETCH_RESPONSE" =>
                 /\ \A k \in 1..Len(WrittenV3(t)) : WrittenV3(t)[k][2] # "count"
                 /\ Named(ReadV3(t), Len(ReadV3(t))) = DOMAIN BodyFields(t)
           /\ t = "FETCH_RESPONSE" =>
                 Named(ReadV3(t), Len(ReadV3(t)))
                    = (DOMAIN BodyFields(t) \ {"results"}) \cup {"chunk_count"}
           /\ Named(ReadV3(t), Len(ReadV3(t))) \cap HeaderNames = {}
           /\ \A j, k \in 1..Len(ReadV3(t)) : ReadV3(t)[j][3] = ReadV3(t)[k][3] => j = k
  <1>1. CASE t = "CONNECTION_REQUEST"
    BY <1>1 DEF Named, BodyFields, HeaderNames, WrittenV1, ReadV1, WrittenV3, ReadV3
  <1>2. CASE t = "CONNECTION_RESPONSE"
    BY <1>2 DEF Named, BodyFields, HeaderNames, WrittenV1, ReadV1, WrittenV3, ReadV3
  <1>3. CASE t = "PREPARE_REQUEST"
    BY <1>3 DEF Named, BodyFields, HeaderNames, WrittenV1, ReadV1, WrittenV3, ReadV3
  <1>4. CASE t = "PREPARE_RESPONSE"
    BY <1>4 DEF Named, BodyFields, HeaderNames, WrittenV1, ReadV1, WrittenV3, ReadV3
  <1>5. CASE t = "FETCH_REQUEST"
    BY <1>5 DEF Named, BodyFields, HeaderNames, WrittenV1, ReadV1, WrittenV3, ReadV3
  <1>6. CASE t = "FETCH_RESPONSE"
    BY <1>6 DEF Named, BodyFields, HeaderNames, WrittenV1, ReadV1, WrittenV3, ReadV3
  <1>7. CASE t = "APPEND_REQUEST"
    BY <1>7 DEF Named, BodyFields, HeaderNames, WrittenV1, ReadV1, WrittenV3, ReadV3
  <1>8. CASE t = "SUCCESS_RESPONSE"
    BY <1>8 DEF Named, BodyFields, HeaderNames, WrittenV1, ReadV1, WrittenV3, ReadV3
  <1>9. CASE t = "DISCONNECT"
    BY <1>9 DEF Named, BodyFields, HeaderNames, WrittenV1, ReadV1, WrittenV3, ReadV3
  <1>10. CASE t = "HEARTBEAT_REQUEST"
    BY <1>10 DEF Named, BodyFields, HeaderNames, WrittenV1, ReadV1, WrittenV3, ReadV3
  <1>11. CASE t = "ERROR_RESPONSE"
    BY <1>11 DEF Named, BodyFields, HeaderNames, WrittenV1, ReadV1, WrittenV3, ReadV3
  <1>12. QED
    BY <1>1, <1>2, <1>3, <1>4, <1>5, <1>6, <1>7, <1>8, <1>9, <1>10, <1>11 DEF MessageType

-------------------------------------------------------------------------------
(* Messages *)

\* What is known of a message to send.
LEMMA MessageFields ==
    ASSUME NEW m \in Messages
    PROVE  /\ m.type \in DOMAIN MessageType /\ Body(m) /\ DOMAIN m = Names(m.type)
           /\ m.connection_id \in Option(Texts) /\ m.client_query_id \in Option(Words)
  <1>1. /\ m.type \in DOMAIN MessageType
        /\ DOMAIN m = {"type"} \cup DOMAIN HeaderFields \cup DOMAIN BodyFields(m.type)
        /\ \A k \in DOMAIN HeaderFields : m[k] \in HeaderFields[k]
        /\ \A k \in DOMAIN BodyFields(m.type) : m[k] \in BodyFields(m.type)[k]
    BY MessageAssumption
  <1>2. DOMAIN HeaderFields = {"connection_id", "client_query_id"}
    BY DEF HeaderFields
  <1>3. m.connection_id \in Option(Texts) /\ m.client_query_id \in Option(Words)
    BY <1>1 DEF HeaderFields
  <1>4. QED
    BY <1>1, <1>2, <1>3 DEF Names, HeaderNames, Body

\* Layouts that fit, with no required field beyond what is written, match.
LEMMA FitMatches ==
    ASSUME NEW m, NEW F, NEW G, Fit(m, F, G),
           \A k \in Len(F) + 1..Len(G) : G[k][2] \notin Required
    PROVE  Matches(m, F, G) /\ Counts(F)
  <1>1. Counts(F) /\ Counts(G)
    BY DEF Fit
  <1>2. ASSUME NEW k \in 1..Len(G)
        PROVE  IF k <= Len(F) THEN Compatible(F[k][2], G[k][2], m[F[k][3]])
               ELSE G[k][2] \notin Required
    <2>1. CASE k <= Len(F)
      BY <1>1, <2>1 DEF Fit, Fits, Counts
    <2>2. CASE ~(k <= Len(F))
      BY <1>1, <2>2 DEF Counts
    <2>3. QED
      BY <2>1, <2>2
  <1>3. QED
    BY <1>1, <1>2 DEF Matches

\* A layout that fits can be written.
LEMMA FitFills ==
    ASSUME NEW m, NEW F, NEW G, Fit(m, F, G), Len(F) = Len(G)
    PROVE  Fills(m, F)
  <1>1. ASSUME NEW k \in 1..Len(F) PROVE \E read : Compatible(F[k][2], read, m[F[k][3]])
    <2>1. Fits(m, F[k], G[k])
      BY DEF Fit
    <2>2. QED
      BY <2>1 DEF Fits
  <1>2. QED
    BY <1>1 DEF Fills

\* The fields that both layouts have are read as what they mean.
LEMMA FieldsMean ==
    ASSUME NEW m, NEW F, NEW G, Fit(m, F, G), NEW v, NEW known,
           Knows(v, known, m, F, G, Len(G)),
           NEW k \in 1..Len(G), k <= Len(F), F[k][2] # "count"
    PROVE  F[k][3] = G[k][3] /\ v[G[k][3]] = Meaning(G[k][3], m[G[k][3]])
  <1>1. k \in 1..Len(F)
    BY DEF Fit, Counts
  <1>2. Fits(m, F[k], G[k])
    BY <1>1 DEF Fit
  <1>3. F[k][3] = G[k][3]
    BY <1>2 DEF Fits
  <1>4. v[G[k][3]] = Received(m, F[k], G[k])
    BY DEF Knows, Reading
  <1>5. Received(m, F[k], G[k]) = Meaning(F[k][3], m[F[k][3]])
    BY <1>2, Means DEF Fits
  <1>6. QED
    BY <1>3, <1>4, <1>5

\* The header as it is read.
HeaderMeant(m) ==
    [type |-> m.type, connection_id |-> Meaning("connection_id", m.connection_id),
     client_query_id |-> Meaning("client_query_id", m.client_query_id)]

\* The code of a type is that of no other.
LEMMA TypeOfCode ==
    ASSUME NEW t \in DOMAIN MessageType
    PROVE  TypeOf(MessageType[t]) = {t}
  <1>1. \A s \in DOMAIN MessageType : MessageType[s] = MessageType[t] => s = t
    BY DEF MessageType
  <1>2. QED
    BY <1>1 DEF TypeOf

\* The layouts of the header match.
LEMMA HeaderFits ==
    ASSUME NEW m \in Messages
    PROVE  /\ Counts(WrittenHeader) /\ Fills(m, WrittenHeader)
           /\ Matches(m, WrittenHeader, ReadHeader) /\ Distinct(ReadHeader, <<>>)
           /\ Len(WrittenHeader) = 3 /\ Len(ReadHeader) = 3
  <1>1. /\ m.type \in DOMAIN MessageType
        /\ m.connection_id \in Option(Texts) /\ m.client_query_id \in Option(Words)
    BY MessageFields
  <1>2. Counts(WrittenHeader) /\ Counts(ReadHeader) /\ Len(WrittenHeader) = 3 /\ Len(ReadHeader) = 3
    BY DEF Counts, WrittenHeader, ReadHeader
  <1>3. \A k \in 1..3 :
            Compatible(WrittenHeader[k][2], ReadHeader[k][2], m[WrittenHeader[k][3]])
    BY <1>1 DEF Compatible, WrittenHeader, ReadHeader
  <1>4. Distinct(ReadHeader, <<>>)
    BY DEF Distinct, ReadHeader
  <1>5. QED
    BY <1>2, <1>3, <1>4 DEF Matches, Fills

\* The header of m is read, whatever is behind it.
LEMMA HeaderIsRead ==
    ASSUME NEW m \in Messages, NEW w, Lies(w, 1, WriteObject(m, WrittenHeader))
    PROVE  \E h : /\ ReadObject(w, 1, <<>>, ReadHeader)
                        = Got(h, 1 + Len(WriteObject(m, WrittenHeader)))
                  /\ TypeOf(h.type) = {m.type} /\ Typed(h) = HeaderMeant(m)
  <1> DEFINE F == WrittenHeader
             G == ReadHeader
             e == 1 + Len(WriteObject(m, F))
  <1>1. \A k \in Len(G) + 1..8 : Pieces(m, F)[k] = <<>>
    BY HeaderFits DEF Pieces
  <1>2. ObjectIsRead(m, F, G, w, 1, <<>>, e)
    BY <1>1, HeaderFits, WholeObject
  <1>3. PICK h : Knows(h, <<>>, m, F, G, 3) /\ ReadObject(w, 1, <<>>, G) = Got(h, e)
    BY <1>2, HeaderFits DEF ObjectIsRead
  <1>4. /\ h.type = Received(m, F[1], G[1])
        /\ h.connection_id = Received(m, F[2], G[2])
        /\ h.client_query_id = Received(m, F[3], G[3])
    <2>1. \A k \in 1..3 : h[G[k][3]] = Received(m, F[k], G[k])
      BY <1>3, HeaderFits DEF Knows, Reading
    <2>2. G[1][3] = "type" /\ G[2][3] = "connection_id" /\ G[3][3] = "client_query_id"
      BY DEF ReadHeader
    <2> HIDE DEF F, G
    <2>3. QED
      BY <2>1, <2>2
  <1>5. h.type = MessageType[m.type]
    BY <1>4 DEF Received, WrittenHeader, ReadHeader, Omitted, Filtered, Sent
  <1>6. h.connection_id = Meaning("connection_id", m.connection_id)
    <2>1. /\ Compatible(F[2][2], G[2][2], m[F[2][3]]) /\ Classified(F[2][2], G[2][2], F[2][3])
          /\ F[2][2] \notin {"code", "count"} /\ F[2][3] = "connection_id"
      BY MessageFields DEF WrittenHeader, ReadHeader, Compatible, Classified, Indices, TextFields
    <2>2. Received(m, F[2], G[2]) = Meaning(F[2][3], m[F[2][3]])
      BY <2>1, Means
    <2>3. QED
      BY <1>4, <2>1, <2>2
  <1>7. h.client_query_id = Meaning("client_query_id", m.client_query_id)
    <2>1. /\ Compatible(F[3][2], G[3][2], m[F[3][3]]) /\ Classified(F[3][2], G[3][2], F[3][3])
          /\ F[3][2] \notin {"code", "count"} /\ F[3][3] = "client_query_id"
      BY MessageFields DEF WrittenHeader, ReadHeader, Compatible, Classified, Indices, TextFields
    <2>2. Received(m, F[3], G[3]) = Meaning(F[3][3], m[F[3][3]])
      BY <2>1, Means
    <2>3. QED
      BY <1>4, <2>1, <2>2
  <1>8. TypeOf(h.type) = {m.type}
    BY <1>5, MessageFields, TypeOfCode
  <1>9. h.connection_id # Empty
    BY <1>6, NoneIsNothing DEF Meaning, TextFields
  <1>10. Typed(h) = HeaderMeant(m)
    BY <1>6, <1>7, <1>8, <1>9 DEF Typed, HeaderMeant
  <1>11. QED
    BY <1>3, <1>8, <1>10

\* The body's layout as it is read, and what is known before it is.
ReadBy(type, version) == IF version = QUACK_V1 THEN ReadV1(type) ELSE ReadV3(type)
Before(m, version) ==
    IF version = QUACK_V1 THEN Joined(HeaderMeant(m), AbsentV1(m.type)) ELSE HeaderMeant(m)

\* The header is received as what it means.
LEMMA HeadMeans ==
    ASSUME NEW m
    PROVE  /\ DOMAIN HeaderMeant(m) = HeaderNames
           /\ \A k \in HeaderNames : HeaderMeant(m)[k] = Meaning(k, m[k])
           /\ HeaderMeant(m).type = m.type
  <1>1. Meaning("type", m.type) = m.type
    BY DEF Meaning, TextFields, Indices
  <1>2. QED
    BY <1>1 DEF HeaderMeant, HeaderNames

\* What is known before the body is the header, and what the version has no field for.
LEMMA BeforeBody ==
    ASSUME NEW m, m.type \in DOMAIN MessageType, NEW version \in Versions
    PROVE  /\ DOMAIN Before(m, version) = HeaderNames \cup
                    (IF version = QUACK_V1 THEN OnlyV3(m.type) ELSE {})
           /\ \A k \in HeaderNames : Before(m, version)[k] = Meaning(k, m[k])
           /\ Before(m, version).type = m.type
  <1>1. CASE version = QUACK_V1
    <2> DEFINE r == HeaderMeant(m)
               s == AbsentV1(m.type)
    <2>1. DOMAIN r = HeaderNames /\ DOMAIN s = OnlyV3(m.type)
      BY HeadMeans, NamesV1
    <2>2. Before(m, version) = Joined(r, s)
      BY <1>1 DEF Before
    <2>3. "type" \in HeaderNames
      BY DEF HeaderNames
    <2>4. r.type = m.type /\ \A k \in HeaderNames : r[k] = Meaning(k, m[k])
      BY HeadMeans
    <2> HIDE DEF r, s
    <2>5. QED
      BY <1>1, <2>1, <2>2, <2>3, <2>4 DEF Joined
  <1>2. CASE version # QUACK_V1
    BY <1>2, HeadMeans DEF Before
  <1>3. QED
    BY <1>1, <1>2

\* The layouts of a body match, and have the same fields.
LEMMA BodyFits ==
    ASSUME NEW m \in Messages, NEW version \in Versions, Encodable(m, version),
           NEW F, F = Written(m.type, version), NEW G, G = ReadBy(m.type, version),
           NEW known, known = Before(m, version)
    PROVE  /\ Fit(m, F, G) /\ Len(F) = Len(G) /\ Counts(F) /\ Fills(m, F) /\ Matches(m, F, G)
           /\ Distinct(G, known) /\ \A k \in Len(G) + 1..8 : Pieces(m, F)[k] = <<>>
  <1> DEFINE t == m.type
  <1>1. t \in DOMAIN MessageType /\ Body(m)
    BY MessageFields
  <1>2. Fit(m, F, G)
    <2>1. CASE version = QUACK_V1
      BY <1>1, <2>1, FitV1 DEF Written, ReadBy
    <2>2. CASE version = QUACK_V3
      BY <1>1, <2>2, FitV3 DEF Written, ReadBy, QUACK_V1, QUACK_V3
    <2>3. QED
      BY <2>1, <2>2 DEF Versions
  <1>3. Len(F) = Len(G) /\ Len(G) \in 0..8
    BY <1>1, NamesV1, NamesV3 DEF Written, ReadBy
  <1>4. \A j, k \in 1..Len(G) : G[j][3] = G[k][3] => j = k
    BY <1>1, NamesV1, NamesV3 DEF ReadBy
  <1>5. \A k \in 1..Len(G) : G[k][3] \notin DOMAIN known
    <2>1. Named(G, Len(G)) \cap DOMAIN known = {}
      <3>1. CASE version = QUACK_V1
        BY <1>1, <3>1, NamesV1, BeforeBody DEF ReadBy
      <3>2. CASE version # QUACK_V1
        BY <1>1, <3>2, NamesV3, BeforeBody DEF ReadBy
      <3>3. QED
        BY <3>1, <3>2
    <2>2. QED
      BY <2>1 DEF Named
  <1>6. Distinct(G, known)
    BY <1>4, <1>5 DEF Distinct
  <1>7. Fills(m, F)
    BY <1>2, <1>3, FitFills
  <1>8. Matches(m, F, G) /\ Counts(F)
    BY <1>2, <1>3, FitMatches
  <1>9. \A k \in Len(G) + 1..8 : Pieces(m, F)[k] = <<>>
    BY <1>3 DEF Pieces
  <1>10. QED
    BY <1>2, <1>3, <1>6, <1>7, <1>8, <1>9

\* What was sent, but for the chunks that follow the object.
InBody(m, version) ==
    IF HasTail(m.type, version) THEN DOMAIN m \ {"results"} ELSE Carried(m, version)

\* v has what was sent in the body.
IsBody(v, m, version) ==
    /\ v.type = m.type
    /\ DOMAIN v = IF HasTail(m.type, version)
                  THEN (DOMAIN m \ {"results"}) \cup {"chunk_count"} ELSE DOMAIN m
    /\ \A k \in InBody(m, version) : v[k] = Meaning(k, m[k])
    /\ HasTail(m.type, version) => v.chunk_count = Len(m.results)

\* An object whose fields are known says what the message says.
LEMMA BodyMeans ==
    ASSUME NEW m \in Messages, NEW version \in Versions, Encodable(m, version),
           NEW F, F = Written(m.type, version), NEW G, G = ReadBy(m.type, version),
           NEW known, known = Before(m, version),
           NEW v, Knows(v, known, m, F, G, Len(G))
    PROVE  IsBody(v, m, version)
  <1> DEFINE t == m.type
             only == IF version = QUACK_V1 THEN OnlyV3(t) ELSE {}
             named == Named(G, Len(G))
             tail == HasTail(t, version)
  <1>1. t \in DOMAIN MessageType /\ Body(m) /\ DOMAIN m = HeaderNames \cup DOMAIN BodyFields(t)
    BY MessageFields DEF Names
  <1>2. /\ DOMAIN known = HeaderNames \cup only
        /\ \A k \in HeaderNames : known[k] = Meaning(k, m[k])
        /\ known.type = m.type
    BY <1>1, BeforeBody
  <1>3. Fit(m, F, G) /\ Len(F) = Len(G)
    BY BodyFits
  <1>4. "type" \in HeaderNames /\ "results" \notin HeaderNames
    BY DEF HeaderNames
  <1>5. /\ DOMAIN v = DOMAIN known \cup named
        /\ \A k \in DOMAIN known : v[k] = known[k]
    BY DEF Knows
  <1>6. v.type = m.type
    BY <1>2, <1>4, <1>5
  <1>7. /\ ~tail => named = DOMAIN BodyFields(t) \ only
        /\ tail => named = (DOMAIN BodyFields(t) \ {"results"}) \cup {"chunk_count"} /\ only = {}
        /\ only \subseteq DOMAIN BodyFields(t)
    <2>1. CASE version = QUACK_V1
      BY <1>1, <2>1, NamesV1 DEF ReadBy, HasTail, QUACK_V1, QUACK_V3
    <2>2. CASE version = QUACK_V3
      BY <1>1, <2>2, NamesV3 DEF ReadBy, HasTail, QUACK_V1, QUACK_V3
    <2>3. QED
      BY <2>1, <2>2 DEF Versions
  <1>8. DOMAIN v = IF tail THEN (DOMAIN m \ {"results"}) \cup {"chunk_count"} ELSE DOMAIN m
    <2> HIDE DEF tail, named, only
    <2>1. QED
      BY <1>1, <1>2, <1>4, <1>5, <1>7
  <1>9. ASSUME NEW k \in InBody(m, version) PROVE v[k] = Meaning(k, m[k])
    <2>1. CASE k \in HeaderNames
      BY <1>2, <1>5, <2>1
    <2>2. CASE k \notin HeaderNames
      <3>1. k \in DOMAIN BodyFields(t) \ only /\ (tail => k # "results")
        BY <1>1, <1>7, <2>2 DEF InBody, Carried
      <3>2. k \in named /\ k # "chunk_count"
        <4>1. "chunk_count" \notin DOMAIN BodyFields(t)
          BY DEF BodyFields
        <4> HIDE DEF tail, named, only
        <4>2. QED
          BY <1>7, <3>1, <4>1
      <3>3. PICK j \in 1..Len(G) : k = G[j][3]
        BY <3>2 DEF Named
      <3>4. F[j][2] # "count"
        <4>1. CASE version = QUACK_V1
          BY <1>1, <1>3, <4>1, NamesV1 DEF Written
        <4>2. CASE version = QUACK_V3 /\ t # "FETCH_RESPONSE"
          BY <1>1, <1>3, <4>2, NamesV3 DEF Written, QUACK_V1, QUACK_V3
        <4>3. CASE version = QUACK_V3 /\ t = "FETCH_RESPONSE"
          <5>1. F = WrittenV3(t) /\ G = ReadV3(t)
            BY <4>3 DEF Written, ReadBy, QUACK_V1, QUACK_V3
          <5>2. F[1][2] = "count" /\ F[2][2] = "index" /\ F[3][2] = "index" /\ Len(F) = 3
                /\ G[1][3] = "chunk_count"
            BY <4>3, <5>1 DEF WrittenV3, ReadV3
          <5>3. j \in 1..3 /\ j # 1
            BY <1>3, <3>2, <3>3, <5>2
          <5>4. QED
            BY <5>2, <5>3
        <4>4. QED
          BY <4>1, <4>2, <4>3 DEF Versions
      <3>5. j \in Nat /\ j <= Len(F)
        BY <1>3
      <3>6. QED
        BY <1>3, <3>3, <3>4, <3>5, FieldsMean
    <2>3. QED
      BY <2>1, <2>2
  <1>10. ASSUME tail PROVE v.chunk_count = Len(m.results)
    <2>1. t = "FETCH_RESPONSE" /\ version = QUACK_V3
      BY <1>10 DEF HasTail
    <2>2. F = WrittenV3(t) /\ G = ReadV3(t)
      BY <2>1 DEF Written, ReadBy, QUACK_V1, QUACK_V3
    <2>3. /\ F[1][2] = "count" /\ F[1][3] = "results" /\ G[1][2] = "default_zero"
          /\ G[1][3] = "chunk_count" /\ 1 \in 1..Len(G) /\ 1 <= Len(F)
      BY <2>1, <2>2 DEF WrittenV3, ReadV3
    <2>4. v.chunk_count = Received(m, F[1], G[1])
      BY <2>3 DEF Knows, Reading
    <2>5. m.results = <<>> => Len(m.results) = 0
      OBVIOUS
    <2>6. Received(m, F[1], G[1]) = Len(m.results)
      BY <2>3, <2>5 DEF Received, Omitted, Default, Filtered, Sent
    <2>7. QED
      BY <2>4, <2>6
  <1>11. QED
    BY <1>6, <1>8, <1>9, <1>10 DEF IsBody

\* The parts of an encoded message.
HeaderPart(m) == WriteObject(m, WrittenHeader)
BodyPart(m, version) == WriteObject(m, Written(m.type, version))
TailPart(m, version) == IF HasTail(m.type, version) THEN Items("chunk", m.results) ELSE <<>>

\* The chunks behind a FETCH_RESPONSE are a list of items.
LEMMA TailItems ==
    ASSUME NEW m \in Messages, m.type = "FETCH_RESPONSE"
    PROVE  /\ m.results \in Lists(Chunks) /\ m.results \in Seq(ItemsOf("chunk"))
           /\ "chunk" \in ItemKinds /\ WriteChunks(m.results) = Items("chunk", m.results)
           /\ Items("chunk", m.results) \in Seq(Units)
  <1>1. m.results \in Lists(Chunks)
    BY MessageFields DEF Body, BodyFields
  <1>2. m.results \in Seq(ItemsOf("chunk")) /\ "chunk" \in ItemKinds
    BY <1>1 DEF Lists, ItemsOf, ItemKinds
  <1>3. [j \in DOMAIN m.results |-> WriteChunk(m.results[j])]
           = [j \in DOMAIN m.results |-> Item("chunk", m.results[j])]
    BY DEF Item
  <1>4. WriteChunks(m.results) = Items("chunk", m.results)
    BY <1>2, <1>3, ItemsType DEF WriteChunks
  <1>5. QED
    BY <1>1, <1>2, <1>4, ItemsType

\* A message is its header, its body and the chunks behind it.
LEMMA Parts ==
    ASSUME NEW m \in Messages, NEW version \in Versions, Encodable(m, version),
           NEW a, a = HeaderPart(m), NEW b, b = BodyPart(m, version),
           NEW c, c = TailPart(m, version)
    PROVE  /\ EncodeMessage(m, version) = (a \o b) \o c
           /\ EncodeMessage(m, version) \in Seq(Units)
           /\ a \in Seq(Units) /\ b \in Seq(Units) /\ c \in Seq(Units)
           /\ Len(EncodeMessage(m, version)) = Len(a) + Len(b) + Len(c)
           /\ Len(a) \in Nat /\ Len(b) \in Nat /\ Len(c) \in Nat
           /\ \A w : Lies(w, 1, EncodeMessage(m, version)) =>
                 /\ Lies(w, 1, a) /\ Lies(w, 1 + Len(a), b)
                 /\ Lies(w, 1 + Len(a) + Len(b), c)
  <1>1. a \in Seq(Units)
    BY HeaderFits, ObjectPieces DEF HeaderPart
  <1>2. b \in Seq(Units)
    BY BodyFits, ObjectPieces DEF BodyPart
  <1>3. c \in Seq(Units)
    BY TailItems DEF TailPart, HasTail
  <1>4. EncodeMessage(m, version) = (a \o b) \o c
    BY TailItems DEF EncodeMessage, HeaderPart, BodyPart, TailPart, HasTail
  <1>5. a \o b \in Seq(Units) /\ (a \o b) \o c \in Seq(Units)
    <2>1. a \o b \in Seq(Units)
      BY <1>1, <1>2, ConcatProperties
    <2>2. QED
      BY <1>3, <2>1, ConcatProperties
  <1>6. Len(a) \in Nat /\ Len(b) \in Nat /\ Len(c) \in Nat
    BY <1>1, <1>2, <1>3
  <1>7. Len(a \o b) = Len(a) + Len(b) /\ Len((a \o b) \o c) = Len(a) + Len(b) + Len(c)
    <2>1. Len(a \o b) = Len(a) + Len(b)
      BY <1>1, <1>2
    <2> DEFINE d == a \o b
    <2>2. d \in Seq(Units)
      BY <1>5
    <2> HIDE DEF d
    <2>3. Len(d \o c) = Len(d) + Len(c)
      BY <1>3, <2>2
    <2>4. QED
      BY <2>1, <2>3 DEF d
  <1>8. ASSUME NEW w, Lies(w, 1, EncodeMessage(m, version))
        PROVE  /\ Lies(w, 1, a) /\ Lies(w, 1 + Len(a), b)
               /\ Lies(w, 1 + Len(a) + Len(b), c)
    <2> DEFINE d == a \o b
    <2>1. d \in Seq(Units) /\ Lies(w, 1, d \o c) /\ Len(d) = Len(a) + Len(b)
      BY <1>4, <1>5, <1>7, <1>8
    <2> HIDE DEF d
    <2>2. Lies(w, 1, d) /\ Lies(w, 1 + Len(d), c)
      BY <1>3, <2>1, LiesBoth
    <2>3. Lies(w, 1, a) /\ Lies(w, 1 + Len(a), b)
      BY <1>1, <1>2, <2>2, LiesBoth DEF d
    <2>4. 1 + Len(d) = 1 + Len(a) + Len(b)
      BY <1>6, <2>1
    <2>5. QED
      BY <2>2, <2>3, <2>4
  <1>9. QED
    BY <1>1, <1>2, <1>3, <1>4, <1>5, <1>6, <1>7, <1>8

\* What is left of a decoder when the header is read.
DecodeBody(w, i, m, version) ==
    IF version = QUACK_V1 THEN DecodeBodyV1(w, i, HeaderMeant(m)) ELSE DecodeBodyV3(w, i, HeaderMeant(m))
Finish(w, r) ==
    IF ~r.ok THEN r ELSE IF r.at > Len(w) THEN Got(r.value, r.at) ELSE Fail("trailing")

\* When the header is read, the body is decoded behind it.
LEMMA HeaderKnown ==
    ASSUME NEW m, NEW w, NEW h, NEW i, ReadObject(w, 1, <<>>, ReadHeader) = Got(h, i),
           TypeOf(h.type) = {m.type}, Typed(h) = HeaderMeant(m), NEW version
    PROVE  DecodeMessage(w, version) = Finish(w, DecodeBody(w, i, m, version))
  <1> DEFINE r == ReadObject(w, 1, <<>>, ReadHeader)
  <1>1. r.ok /\ r.value = h /\ r.at = i
    BY DEF Got
  <1>2. TypeOf(h.type) # {}
    OBVIOUS
  <1> HIDE DEF r
  <1>3. DecodeMessage(w, version)
           = Finish(w, IF version = QUACK_V1 THEN DecodeBodyV1(w, i, Typed(h))
                       ELSE DecodeBodyV3(w, i, Typed(h)))
    BY <1>1, <1>2 DEF DecodeMessage, Then, Finish, r
  <1>4. QED
    BY <1>3 DEF DecodeBody

\* A header that lies at the start is read.
LEMMA HeaderDecoded ==
    ASSUME NEW m \in Messages, NEW w, Lies(w, 1, HeaderPart(m)), NEW version
    PROVE  DecodeMessage(w, version)
              = Finish(w, DecodeBody(w, 1 + Len(HeaderPart(m)), m, version))
  <1> DEFINE i == 1 + Len(HeaderPart(m))
  <1>1. PICK h : /\ ReadObject(w, 1, <<>>, ReadHeader) = Got(h, i)
                 /\ TypeOf(h.type) = {m.type} /\ Typed(h) = HeaderMeant(m)
    BY HeaderIsRead DEF HeaderPart
  <1> HIDE DEF i
  <1>2. QED
    BY <1>1, HeaderKnown DEF i

\* The fields of m, as its decoder has them.
Decoded(v, m, version) ==
    /\ DOMAIN v = DOMAIN m
    /\ \A k \in Carried(m, version) : v[k] = Meaning(k, m[k])

\* A body that lies there is read as an object.
LEMMA BodyIsObject ==
    ASSUME NEW m \in Messages, NEW version \in Versions, Encodable(m, version),
           NEW w, NEW i, Lies(w, i, BodyPart(m, version))
    PROVE  ObjectIsRead(m, Written(m.type, version), ReadBy(m.type, version), w, i,
                        Before(m, version), i + Len(BodyPart(m, version)))
  <1> DEFINE F == Written(m.type, version)
             G == ReadBy(m.type, version)
             known == Before(m, version)
  <1>1. /\ Counts(F) /\ Fills(m, F) /\ Matches(m, F, G) /\ Distinct(G, known)
        /\ \A k \in Len(G) + 1..8 : Pieces(m, F)[k] = <<>>
    BY BodyFits
  <1>2. BodyPart(m, version) = WriteObject(m, F)
    BY DEF BodyPart
  <1> HIDE DEF F, G, known
  <1>3. ObjectIsRead(m, F, G, w, i, known, i + Len(WriteObject(m, F)))
    BY <1>1, <1>2, WholeObject
  <1>4. QED
    BY <1>2, <1>3 DEF F, G, known

\* The codec's object of a body, and the chunks behind it.
BodyObject(w, i, m, version) == ReadObject(w, i, Before(m, version), ReadBy(m.type, version))
WithTail(w, r) ==
    IF ~r.ok THEN r
    ELSE Then(ReadTimes(w, r.at, r.value.chunk_count, "chunk"), LAMBDA chunks, end :
             Got(With([k \in DOMAIN r.value \ {"chunk_count"} |-> r.value[k]],
                      "results", chunks), end))

\* What the decoders make of the object.
LEMMA BodyDecoding ==
    ASSUME NEW m \in Messages, NEW version \in Versions, Encodable(m, version),
           NEW w, NEW i, NEW r, r = BodyObject(w, i, m, version)
    PROVE  /\ ~r.ok => DecodeBody(w, i, m, version) = r
           /\ \A v, e : r = Got(v, e) /\ v.type = m.type
                           /\ (m.type = "APPEND_REQUEST" => v.append_chunk # None) =>
                 DecodeBody(w, i, m, version)
                    = IF HasTail(m.type, version) THEN WithTail(w, r) ELSE r
  <1> DEFINE h == HeaderMeant(m)
  <1>1. h.type = m.type
    BY HeadMeans
  <1>2. CASE version = QUACK_V1
    <2>1. m.type # "HEARTBEAT_REQUEST" /\ ~HasTail(m.type, version)
      BY <1>2 DEF Encodable, HasTail, QUACK_V1, QUACK_V3
    <2>2. r = ReadObject(w, i, Joined(h, AbsentV1(h.type)), ReadV1(h.type))
      BY <1>1, <1>2 DEF BodyObject, Before, ReadBy
    <2>3. DecodeBody(w, i, m, version) = DecodeBodyV1(w, i, h)
      BY <1>2 DEF DecodeBody
    <2> HIDE DEF h
    <2>4. DecodeBodyV1(w, i, h)
             = IF ~r.ok THEN r
               ELSE IF r.value.type = "APPEND_REQUEST" /\ r.value.append_chunk = None
               THEN Fail("missing chunk") ELSE Got(r.value, r.at)
      BY <1>1, <2>1, <2>2 DEF DecodeBodyV1, Then
    <2>5. ASSUME NEW v, NEW e, r = Got(v, e), v.type = m.type,
                 m.type = "APPEND_REQUEST" => v.append_chunk # None
          PROVE  DecodeBody(w, i, m, version) = r
      <3>1. r.ok /\ r.value = v /\ r.at = e
        BY <2>5 DEF Got
      <3>2. QED
        BY <2>3, <2>4, <2>5, <3>1
    <2>6. QED
      BY <2>1, <2>3, <2>4, <2>5
  <1>3. CASE version = QUACK_V3
    <2>1. m.type # "APPEND_REQUEST" /\ version # QUACK_V1
          /\ (HasTail(m.type, version) <=> m.type = "FETCH_RESPONSE")
      BY <1>3 DEF Encodable, HasTail, QUACK_V1, QUACK_V3
    <2>2. r = ReadObject(w, i, h, ReadV3(h.type))
      BY <1>1, <2>1 DEF BodyObject, Before, ReadBy
    <2>3. DecodeBody(w, i, m, version) = DecodeBodyV3(w, i, h)
      BY <2>1 DEF DecodeBody
    <2> HIDE DEF h
    <2>4. ~r.ok => DecodeBodyV3(w, i, h) = r
      BY <1>1, <2>1, <2>2 DEF DecodeBodyV3, Then
    <2>5. ASSUME NEW v, NEW e, r = Got(v, e), v.type = m.type
          PROVE  DecodeBodyV3(w, i, h)
                    = IF HasTail(m.type, version) THEN WithTail(w, r) ELSE r
      <3>1. r.ok /\ r.value = v /\ r.at = e
        BY <2>5 DEF Got
      <3>2. CASE m.type # "FETCH_RESPONSE"
        BY <1>1, <2>1, <2>2, <2>5, <3>1, <3>2 DEF DecodeBodyV3, Then
      <3>3. CASE m.type = "FETCH_RESPONSE"
        BY <1>1, <2>1, <2>2, <2>5, <3>1, <3>3 DEF DecodeBodyV3, Then, WithTail
      <3>4. QED
        BY <3>2, <3>3
    <2>6. QED
      BY <2>3, <2>4, <2>5
  <1>4. QED
    BY <1>2, <1>3 DEF Versions

\* The object of a body that lies at i.
LEMMA BodyObjectRead ==
    ASSUME NEW m \in Messages, NEW version \in Versions, Encodable(m, version),
           NEW w, NEW i, Lies(w, i, BodyPart(m, version)),
           NEW e, e = i + Len(BodyPart(m, version))
    PROVE  \E v : /\ BodyObject(w, i, m, version) = Got(v, e) /\ IsBody(v, m, version)
                  /\ m.type = "APPEND_REQUEST" => v.append_chunk # None
  <1> DEFINE F == Written(m.type, version)
             G == ReadBy(m.type, version)
             known == Before(m, version)
  <1>1. PICK v : Knows(v, known, m, F, G, Len(G)) /\ ReadObject(w, i, known, G) = Got(v, e)
    BY BodyIsObject DEF ObjectIsRead
  <1>2. IsBody(v, m, version)
    <2>1. /\ F = Written(m.type, version) /\ G = ReadBy(m.type, version)
          /\ known = Before(m, version) /\ Knows(v, known, m, F, G, Len(G))
      BY <1>1
    <2> HIDE DEF F, G, known
    <2>2. QED
      BY <2>1, BodyMeans
  <1>3. ASSUME m.type = "APPEND_REQUEST" PROVE v.append_chunk # None
    <2>1. m.append_chunk \in Chunks /\ "append_chunk" \in DOMAIN m
      BY <1>3, MessageFields DEF Body, BodyFields, Names
    <2>2. "append_chunk" \in InBody(m, version)
      BY <1>3, <2>1 DEF InBody, HasTail, Carried, OnlyV3
    <2>3. Meaning("append_chunk", m.append_chunk) = m.append_chunk
      BY DEF Meaning, TextFields, Indices
    <2>4. v.append_chunk = m.append_chunk
      BY <1>2, <2>2, <2>3 DEF IsBody
    <2>5. QED
      BY <2>1, <2>4, NoneIsNothing
  <1>4. BodyObject(w, i, m, version) = Got(v, e)
    BY <1>1 DEF BodyObject
  <1> HIDE DEF F, G, known
  <1>5. QED
    BY <1>2, <1>3, <1>4

\* The body of m is decoded to m's fields, whatever is behind it.
LEMMA BodyDecoded ==
    ASSUME NEW m \in Messages, NEW version \in Versions, Encodable(m, version),
           NEW w, NEW i, Lies(w, i, BodyPart(m, version)),
           Lies(w, i + Len(BodyPart(m, version)), TailPart(m, version)),
           NEW e, e = i + Len(BodyPart(m, version)) + Len(TailPart(m, version))
    PROVE  \E v : Decoded(v, m, version) /\ DecodeBody(w, i, m, version) = Got(v, e)
  <1> DEFINE j == i + Len(BodyPart(m, version))
             r == BodyObject(w, i, m, version)
  <1>0. PICK v : /\ r = Got(v, j) /\ IsBody(v, m, version)
                 /\ m.type = "APPEND_REQUEST" => v.append_chunk # None
    BY BodyObjectRead
  <1>1. /\ v.type = m.type
        /\ DOMAIN v = IF HasTail(m.type, version)
                      THEN (DOMAIN m \ {"results"}) \cup {"chunk_count"} ELSE DOMAIN m
        /\ \A k \in InBody(m, version) : v[k] = Meaning(k, m[k])
        /\ HasTail(m.type, version) => v.chunk_count = Len(m.results)
    BY <1>0 DEF IsBody
  <1>2. DecodeBody(w, i, m, version) = IF HasTail(m.type, version) THEN WithTail(w, r) ELSE r
    BY <1>0, <1>1, BodyDecoding
  <1>3. e = j + Len(TailPart(m, version)) /\ Lies(w, j, TailPart(m, version))
    OBVIOUS
  <1>4. j \in Nat /\ r.ok /\ r.value = v /\ r.at = j
    BY <1>0, <1>3 DEF Got, Lies
  <1> HIDE DEF j, r
  <1>5. CASE ~HasTail(m.type, version)
    <2>1. TailPart(m, version) = <<>> /\ Len(<<>>) = 0
      BY <1>5 DEF TailPart
    <2>2. e = j
      BY <1>3, <1>4, <2>1
    <2>3. Decoded(v, m, version)
      BY <1>1, <1>5 DEF Decoded, InBody
    <2>4. QED
      BY <1>0, <1>2, <1>5, <2>2, <2>3
  <1>6. CASE HasTail(m.type, version)
    <2>1. m.type = "FETCH_RESPONSE" /\ version = QUACK_V3 /\ "results" \in DOMAIN m
      BY <1>6, MessageFields DEF HasTail, Names, BodyFields
    <2>2. ReadTimes(w, j, Len(m.results), "chunk") = Got(m.results, e)
      <3>1. Lies(w, j, Items("chunk", m.results)) /\ e = j + Len(Items("chunk", m.results))
        BY <1>3, <1>6 DEF TailPart
      <3>2. QED
        BY <2>1, <3>1, TailItems, ItemsRead
    <2> DEFINE t == ReadTimes(w, j, Len(m.results), "chunk")
               u == [k \in DOMAIN v \ {"chunk_count"} |-> v[k]]
               x == With(u, "results", m.results)
    <2>3. t.ok /\ t.value = m.results /\ t.at = e
      BY <2>2 DEF Got
    <2>4. WithTail(w, r) = Got(x, e)
      <3>1. ReadTimes(w, r.at, r.value.chunk_count, "chunk") = t
        BY <1>1, <1>4, <1>6
      <3>2. [k \in DOMAIN r.value \ {"chunk_count"} |-> r.value[k]] = u
        BY <1>4
      <3> HIDE DEF t, u
      <3>3. QED
        BY <1>4, <2>3, <3>1, <3>2 DEF WithTail, Then
    <2>5. "chunk_count" \notin DOMAIN m
      <3>1. DOMAIN m = HeaderNames \cup DOMAIN BodyFields(m.type)
        BY MessageFields DEF Names
      <3>2. "chunk_count" \notin HeaderNames
        BY DEF HeaderNames
      <3>3. DOMAIN BodyFields("FETCH_RESPONSE") = {"results", "total_batches", "batch_index"}
        BY DEF BodyFields
      <3>4. QED
        BY <2>1, <3>1, <3>2, <3>3
    <2>6. DOMAIN u = DOMAIN m \ {"results"} /\ \A k \in DOMAIN m \ {"results"} : u[k] = v[k]
      BY <1>1, <1>6, <2>5
    <2>7. /\ DOMAIN x = DOMAIN m /\ x["results"] = m.results
          /\ \A k \in DOMAIN m \ {"results"} : x[k] = v[k]
      <3> HIDE DEF u
      <3>1. QED
        BY <2>1, <2>6 DEF With
    <2>8. Meaning("results", m.results) = m.results
      BY DEF Meaning, TextFields, Indices
    <2>9. Decoded(x, m, version)
      <3> HIDE DEF x
      <3>1. ASSUME NEW k \in Carried(m, version) PROVE x[k] = Meaning(k, m[k])
        <4>1. k \in DOMAIN m
          BY DEF Carried
        <4>2. CASE k = "results"
          BY <2>7, <2>8, <4>2
        <4>3. CASE k # "results"
          BY <1>1, <1>6, <2>7, <4>1, <4>3 DEF InBody
        <4>4. QED
          BY <4>2, <4>3
      <3>2. QED
        BY <2>7, <3>1 DEF Decoded
    <2> HIDE DEF x
    <2>10. QED
      BY <1>2, <1>6, <2>4, <2>9
  <1>7. QED
    BY <1>5, <1>6

\* A message is decoded from a wire that begins with it, if nothing is behind it.
LEMMA MessageDecoded ==
    ASSUME NEW m \in Messages, NEW version \in Versions, Encodable(m, version),
           NEW w, Lies(w, 1, EncodeMessage(m, version)),
           NEW e, e = 1 + Len(EncodeMessage(m, version))
    PROVE  \E v : Decoded(v, m, version) /\ DecodeMessage(w, version) = Finish(w, Got(v, e))
  <1> DEFINE a == HeaderPart(m)
             b == BodyPart(m, version)
             c == TailPart(m, version)
             i == 1 + Len(a)
  <1>1. /\ Lies(w, 1, a) /\ Lies(w, i, b) /\ Lies(w, i + Len(b), c)
        /\ Len(a) \in Nat /\ Len(b) \in Nat /\ Len(c) \in Nat
        /\ Len(EncodeMessage(m, version)) = Len(a) + Len(b) + Len(c)
    BY Parts
  <1>2. e = i + Len(b) + Len(c)
    <2> HIDE DEF a, b, c
    <2>1. QED
      BY <1>1
  <1>3. DecodeMessage(w, version) = Finish(w, DecodeBody(w, i, m, version))
    BY <1>1, HeaderDecoded
  <1> HIDE DEF i
  <1>4. PICK v : Decoded(v, m, version) /\ DecodeBody(w, i, m, version) = Got(v, e)
    BY <1>1, <1>2, BodyDecoded
  <1>5. QED
    BY <1>3, <1>4

\* A wire lies at its first unit.
LEMMA LiesAtOne ==
    ASSUME NEW x \in Seq(Units)
    PROVE  Lies(x, 1, x)
  <1>1. Len(x) \in Nat /\ DOMAIN x = 1..Len(x)
    OBVIOUS
  <1>2. \A j \in 1..Len(x) : 1 + j - 1 = j
    BY <1>1
  <1>3. QED
    BY <1>1, <1>2 DEF Lies

\* What is encoded is decoded.
LEMMA Same ==
    ASSUME NEW m \in Messages, NEW version \in Versions, Encodable(m, version),
           NEW r, r = DecodeMessage(EncodeMessage(m, version), version)
    PROVE  r.ok /\ Decoded(r.value, m, version)
  <1> DEFINE w == EncodeMessage(m, version)
             e == 1 + Len(w)
  <1>1. w \in Seq(Units)
    BY Parts
  <1>2. Lies(w, 1, w) /\ Len(w) \in Nat
    BY <1>1, LiesAtOne
  <1>3. PICK v : Decoded(v, m, version) /\ r = Finish(w, Got(v, e))
    BY <1>2, MessageDecoded
  <1> HIDE DEF w
  <1>4. e > Len(w)
    BY <1>2
  <1>5. r = Got(v, e)
    BY <1>3, <1>4 DEF Finish, Got
  <1>6. QED
    BY <1>3, <1>5 DEF Got

-------------------------------------------------------------------------------
(* The specification *)

\* The alterations of a wire.
Altered(w, x) ==
    \/ \E n \in 0..Len(x) - 1 : w = SubSeq(x, 1, n)
    \/ w = SubSeq(x, 1, Len(x) - 1) \o FieldId(9) \o WriteText("x") \o FieldId(FIELD_END)
    \/ w = x \o WriteChunk("x")

\* The wire is what was sent or an alteration of it, and the result is what the
\* decoder makes of it.
WireInv ==
    /\ message \in Messages /\ sentAs \in Versions
    /\ stage \in {"composed", "unsendable", "sent", "altered", "read", "alteredRead"}
    /\ stage \notin {"composed", "unsendable"} => Encodable(message, sentAs)
    /\ stage \in {"sent", "read"} => wire = EncodeMessage(message, sentAs)
    /\ stage \in {"altered", "alteredRead"} => Altered(wire, EncodeMessage(message, sentAs))
    /\ stage \in {"read", "alteredRead"} =>
          readAs \in Versions /\ result = DecodeMessage(wire, readAs)

\* A message on its way stays what it is.
THEOREM WireInvariant == Spec => []WireInv
  <1>1. Init => WireInv
    BY DEF Init, WireInv
  <1>2. WireInv /\ [Next]_vars => WireInv'
    <2> SUFFICES ASSUME WireInv, [Next]_vars PROVE WireInv'
      OBVIOUS
    <2>1. CASE Encode
      BY <2>1 DEF Encode, WireInv
    <2>2. CASE Alter
      BY <2>2 DEF Alter, WireInv, Altered
    <2>3. CASE Decode
      BY <2>3 DEF Decode, WireInv
    <2>4. CASE UNCHANGED vars
      BY <2>4 DEF vars, WireInv
    <2>5. QED
      BY <2>1, <2>2, <2>3, <2>4 DEF Next
  <1>3. QED
    BY <1>1, <1>2, PTL DEF Spec

\* Whatever message one side writes, at either version, the other side reads, field
\* by field (messages.rs:179-216).
THEOREM RoundTrips == Spec => []RoundTrip
  <1>1. WireInv => RoundTrip
    <2> SUFFICES ASSUME WireInv, stage = "read", readAs = sentAs
                 PROVE  /\ result.ok /\ DOMAIN result.value = DOMAIN message
                        /\ Agrees(Carried(message, sentAs))
      BY DEF RoundTrip
    <2>1. /\ message \in Messages /\ sentAs \in Versions /\ Encodable(message, sentAs)
          /\ result = DecodeMessage(EncodeMessage(message, sentAs), sentAs)
      BY DEF WireInv
    <2>2. result.ok /\ Decoded(result.value, message, sentAs)
      BY <2>1, Same
    <2>3. QED
      BY <2>2 DEF Decoded, Agrees
  <1>2. QED
    BY <1>1, WireInvariant, PTL

-------------------------------------------------------------------------------
(* Messages of the other version *)

Handshakes == {"CONNECTION_REQUEST", "CONNECTION_RESPONSE", "ERROR_RESPONSE"}
Other(version) == IF version = QUACK_V1 THEN QUACK_V3 ELSE QUACK_V1

\* The fields both versions have are the same, those that only one has may be left out.
LEMMA CrossLayouts ==
    ASSUME NEW m \in Messages, m.type \in Handshakes, NEW version \in Versions,
           NEW F, F = Written(m.type, version),
           NEW G, G = ReadBy(m.type, Other(version)),
           NEW n, n = Len(ReadV1(m.type))
    PROVE  /\ Fit(m, F, G)
           /\ \A k \in Len(F) + 1..Len(G) : G[k][2] \notin Required
           /\ n \in 0..Len(F) /\ n \in 0..Len(G)
           /\ \A k \in 1..n : F[k][2] # "count" /\ G[k][3] = ReadV1(m.type)[k][3]
           /\ version = QUACK_V3 => Len(G) = n
  <1> DEFINE t == m.type
  <1>1. Body(m)
    BY MessageFields
  <1>2. CASE version = QUACK_V1
    <2>1. F = WrittenV1(t) /\ G = ReadV3(t)
      BY <1>2 DEF Written, ReadBy, Other, QUACK_V1, QUACK_V3
    <2>2. CASE t = "CONNECTION_REQUEST"
      <3>1. Fit(m, F, G)
        BY <1>1, <2>1, <2>2 DEF Fit, Fits, Counts, Body, BodyFields, Compatible, Classified,
          TextFields, Indices, WrittenV1, ReadV3
      <3>2. \A k \in Len(F) + 1..Len(G) : G[k][2] \notin Required
        BY <2>1, <2>2 DEF WrittenV1, ReadV3, Required
      <3>3. n \in 0..Len(F) /\ n \in 0..Len(G)
        BY <2>1, <2>2 DEF WrittenV1, ReadV1, ReadV3
      <3>4. \A k \in 1..n : F[k][2] # "count" /\ G[k][3] = ReadV1(t)[k][3]
        BY <2>1, <2>2 DEF WrittenV1, ReadV1, ReadV3
      <3>5. QED
        BY <1>2, <3>1, <3>2, <3>3, <3>4 DEF QUACK_V1, QUACK_V3
    <2>3. CASE t = "CONNECTION_RESPONSE"
      <3>1. Fit(m, F, G)
        BY <1>1, <2>1, <2>3 DEF Fit, Fits, Counts, Body, BodyFields, Compatible, Classified,
          TextFields, Indices, WrittenV1, ReadV3
      <3>2. \A k \in Len(F) + 1..Len(G) : G[k][2] \notin Required
        BY <2>1, <2>3 DEF WrittenV1, ReadV3, Required
      <3>3. n \in 0..Len(F) /\ n \in 0..Len(G)
        BY <2>1, <2>3 DEF WrittenV1, ReadV1, ReadV3
      <3>4. \A k \in 1..n : F[k][2] # "count" /\ G[k][3] = ReadV1(t)[k][3]
        BY <2>1, <2>3 DEF WrittenV1, ReadV1, ReadV3
      <3>5. QED
        BY <1>2, <3>1, <3>2, <3>3, <3>4 DEF QUACK_V1, QUACK_V3
    <2>4. CASE t = "ERROR_RESPONSE"
      BY <1>1, <2>1, <2>4 DEF Fit, Fits, Counts, Body, BodyFields, Compatible, Classified,
        TextFields, Indices, WrittenV1, ReadV1, ReadV3, Required
    <2>5. version # QUACK_V3
      BY <1>2 DEF QUACK_V1, QUACK_V3
    <2>6. QED
      BY <2>2, <2>3, <2>4, <2>5 DEF Handshakes
  <1>3. CASE version = QUACK_V3
    <2>1. F = WrittenV3(t) /\ G = ReadV1(t)
      BY <1>3 DEF Written, ReadBy, Other, QUACK_V1, QUACK_V3
    <2>2. CASE t = "CONNECTION_REQUEST"
      BY <1>1, <2>1, <2>2 DEF Fit, Fits, Counts, Body, BodyFields, Compatible, Classified,
        TextFields, Indices, WrittenV1, ReadV1, WrittenV3, Required
    <2>3. CASE t = "CONNECTION_RESPONSE"
      BY <1>1, <2>1, <2>3 DEF Fit, Fits, Counts, Body, BodyFields, Compatible, Classified,
        TextFields, Indices, WrittenV1, ReadV1, WrittenV3, Required
    <2>4. CASE t = "ERROR_RESPONSE"
      BY <1>1, <2>1, <2>4 DEF Fit, Fits, Counts, Body, BodyFields, Compatible, Classified,
        TextFields, Indices, WrittenV1, ReadV1, WrittenV3, Required
    <2>5. QED
      BY <2>2, <2>3, <2>4 DEF Handshakes
  <1>4. QED
    BY <1>2, <1>3 DEF Versions

\* Of a handshake, what one version writes matches what the other reads.
LEMMA CrossFits ==
    ASSUME NEW m \in Messages, m.type \in Handshakes, NEW version \in Versions,
           NEW F, F = Written(m.type, version),
           NEW G, G = ReadBy(m.type, Other(version)),
           NEW known, known = Before(m, Other(version))
    PROVE  /\ Counts(F) /\ Fills(m, F) /\ Matches(m, F, G) /\ Distinct(G, known)
           /\ Encodable(m, version) /\ Other(version) \in Versions
           /\ ~HasTail(m.type, version)
  <1>1. Encodable(m, version) /\ Encodable(m, Other(version)) /\ Other(version) \in Versions
        /\ ~HasTail(m.type, version)
    BY DEF Handshakes, Versions, Encodable, Other, HasTail, QUACK_V1, QUACK_V3
  <1>2. Counts(F) /\ Fills(m, F)
    BY <1>1, BodyFits
  <1>3. Distinct(G, known)
    BY <1>1, BodyFits
  <1>4. Matches(m, F, G)
    <2>1. Fit(m, F, G) /\ \A k \in Len(F) + 1..Len(G) : G[k][2] \notin Required
      BY CrossLayouts
    <2>2. QED
      BY <2>1, FitMatches
  <1>5. QED
    BY <1>1, <1>2, <1>3, <1>4

\* What both versions have fields for is read as it was meant.
LEMMA CrossMeans ==
    ASSUME NEW m \in Messages, m.type \in Handshakes, NEW version \in Versions,
           NEW F, F = Written(m.type, version),
           NEW G, G = ReadBy(m.type, Other(version)),
           NEW known, known = Before(m, Other(version)),
           NEW v, Knows(v, known, m, F, G, Len(G))
    PROVE  /\ v.type = m.type
           /\ \A k \in Carried(m, QUACK_V1) : v[k] = Meaning(k, m[k])
  <1> DEFINE t == m.type
             n == Len(ReadV1(t))
  <1>1. t \in DOMAIN MessageType /\ DOMAIN m = HeaderNames \cup DOMAIN BodyFields(t)
    BY MessageFields DEF Names
  <1>2. Other(version) \in Versions
    BY DEF Other, Versions
  <1>3. /\ HeaderNames \subseteq DOMAIN known
        /\ \A k \in HeaderNames : known[k] = Meaning(k, m[k])
        /\ known.type = m.type
    BY <1>1, <1>2, BeforeBody
  <1>4. \A k \in HeaderNames : v[k] = Meaning(k, m[k]) /\ (k = "type" => v[k] = m.type)
    BY <1>3 DEF Knows
  <1>5. v.type = m.type
    BY <1>4 DEF HeaderNames
  <1>6. /\ Fit(m, F, G) /\ n \in 0..Len(F) /\ n \in 0..Len(G) /\ Counts(F) /\ Counts(G)
        /\ \A k \in 1..n : F[k][2] # "count" /\ G[k][3] = ReadV1(t)[k][3]
    <2>1. /\ Fit(m, F, G) /\ n \in 0..Len(F) /\ n \in 0..Len(G)
          /\ \A k \in 1..n : F[k][2] # "count" /\ G[k][3] = ReadV1(t)[k][3]
      BY CrossLayouts
    <2>2. Counts(F) /\ Counts(G)
      BY <2>1 DEF Fit
    <2>3. QED
      BY <2>1, <2>2
  <1>7. ASSUME NEW k \in Carried(m, QUACK_V1), k \notin HeaderNames
        PROVE  v[k] = Meaning(k, m[k])
    <2>1. k \in DOMAIN BodyFields(t) \ OnlyV3(t)
      BY <1>1, <1>7 DEF Carried
    <2>2. k \in Named(ReadV1(t), n)
      BY <1>1, <2>1, NamesV1
    <2>3. PICK j \in 1..n : k = ReadV1(t)[j][3]
      BY <2>2 DEF Named
    <2>4. k = G[j][3] /\ F[j][2] # "count"
      BY <1>6, <2>3
    <2> HIDE DEF n
    <2>5. j \in 1..Len(G) /\ j <= Len(F)
      BY <1>6 DEF Counts
    <2>6. QED
      BY <1>6, <2>4, <2>5, FieldsMean
  <1>8. QED
    BY <1>4, <1>5, <1>7

\* A field that is not left out is there.
LEMMA PieceThere ==
    ASSUME NEW m, NEW f, f[1] \in Nat, NEW read, Compatible(f[2], read, m[f[3]])
    PROVE  WriteField(m, f) = <<>> <=> Omitted(f[2], m[f[3]])
  <1>1. CASE Omitted(f[2], m[f[3]])
    BY <1>1 DEF WriteField
  <1>2. CASE ~Omitted(f[2], m[f[3]])
    <2> DEFINE x == FieldId(f[1])
               y == Payload(f[2], m[f[3]])
    <2>1. x \in Seq(Units) /\ Len(x) = 1 /\ y \in Seq(Units)
      BY <1>2, UnitTypes, PayloadRead DEF PayloadReads
    <2>2. WriteField(m, f) = x \o y
      BY <1>2 DEF WriteField
    <2> HIDE DEF x, y
    <2>3. Len(x \o y) = Len(x) + Len(y) /\ Len(y) \in Nat
      BY <2>1, ConcatProperties
    <2>4. x \o y # <<>>
      <3>1. Len(x \o y) # 0
        BY <2>1, <2>3
      <3>2. QED
        BY <3>1
    <2>5. QED
      BY <1>2, <2>2, <2>4
  <1>3. QED
    BY <1>1, <1>2

\* Of the fields that v1 does not have, one is there if a lease is asked for.
LEMMA LeaseFields ==
    ASSUME NEW m \in Messages, m.type \in Handshakes, NEW version \in Versions,
           NEW F, F = Written(m.type, version),
           NEW n, n = Len(ReadBy(m.type, Other(version)))
    PROVE  (\E k \in n + 1..8 : Pieces(m, F)[k] # <<>>)
              <=> version = QUACK_V3 /\ AsksForLease(m)
  <1> DEFINE t == m.type
  <1>1. Body(m) /\ None # Empty /\ None \notin Texts
    BY MessageFields, NoneIsNothing
  <1>2. Counts(F) /\ Fills(m, F)
    BY CrossFits
  <1>3. \A k \in 1..Len(F) : Pieces(m, F)[k] = <<>> <=> Omitted(F[k][2], m[F[k][3]])
    <2>1. ASSUME NEW k \in 1..Len(F)
          PROVE  Pieces(m, F)[k] = <<>> <=> Omitted(F[k][2], m[F[k][3]])
      <3>1. k \in 1..8 /\ k <= Len(F) /\ F[k][1] \in Nat
        <4>1. F[k][1] = k /\ Len(F) \in 0..8
          BY <1>2 DEF Counts
        <4>2. QED
          BY <4>1
      <3>2. Pieces(m, F)[k] = WriteField(m, F[k])
        BY <3>1 DEF Pieces
      <3>3. PICK read : Compatible(F[k][2], read, m[F[k][3]])
        BY <1>2 DEF Fills
      <3>4. QED
        BY <3>1, <3>2, <3>3, PieceThere
    <2>2. QED
      BY <2>1
  <1>4. \A k \in 1..8 : k \notin 1..Len(F) => Pieces(m, F)[k] = <<>>
    BY <1>2 DEF Pieces, Counts
  <1>5. CASE version = QUACK_V1
    <2>1. F = WrittenV1(t) /\ n = Len(ReadV3(t)) /\ version # QUACK_V3
      BY <1>5 DEF Written, ReadBy, Other, QUACK_V1, QUACK_V3
    <2>2. Len(F) <= n /\ n \in Nat /\ Len(F) \in Nat
      <3>1. CASE t = "CONNECTION_REQUEST"
        BY <2>1, <3>1 DEF WrittenV1, ReadV3
      <3>2. CASE t = "CONNECTION_RESPONSE"
        BY <2>1, <3>2 DEF WrittenV1, ReadV3
      <3>3. CASE t = "ERROR_RESPONSE"
        BY <2>1, <3>3 DEF WrittenV1, ReadV1, ReadV3
      <3>4. QED
        BY <3>1, <3>2, <3>3 DEF Handshakes
    <2>3. \A k \in n + 1..8 : Pieces(m, F)[k] = <<>>
      BY <1>4, <2>2
    <2>4. QED
      BY <2>1, <2>3
  <1>6. CASE version = QUACK_V3
    <2>1. F = WrittenV3(t) /\ n = Len(ReadV1(t))
      BY <1>6 DEF Written, ReadBy, Other, QUACK_V1, QUACK_V3
    <2>2. CASE t = "CONNECTION_REQUEST"
      <3>1. /\ n = 5 /\ Len(F) = 7
            /\ F[6] = <<6, "string", "client_id">>
            /\ F[7] = <<7, "default_zero", "heartbeat_timeout_seconds">>
        BY <2>1, <2>2 DEF WrittenV3, ReadV1
      <3>2. Pieces(m, F)[6] = <<>> <=> m.client_id \in {None, Empty}
        BY <1>3, <3>1 DEF Omitted
      <3>3. Pieces(m, F)[7] = <<>> <=> m.heartbeat_timeout_seconds = 0
        BY <1>3, <3>1 DEF Omitted
      <3>4. Pieces(m, F)[8] = <<>>
        BY <1>4, <3>1
      <3>5. Meaning("client_id", m.client_id) # None <=> m.client_id \notin {None, Empty}
        BY DEF Meaning, TextFields, Indices
      <3>6. n + 1..8 = {6, 7, 8}
        BY <3>1
      <3>7. QED
        BY <1>6, <2>2, <3>2, <3>3, <3>4, <3>5, <3>6 DEF AsksForLease
    <2>3. CASE t = "CONNECTION_RESPONSE"
      <3>1. n = 3 /\ Len(F) = 4 /\ F[4] = <<4, "index", "heartbeat_timeout_seconds">>
        BY <2>1, <2>3 DEF WrittenV3, ReadV1
      <3>2. Pieces(m, F)[4] = <<>> <=> m.heartbeat_timeout_seconds = None
        BY <1>3, <3>1 DEF Omitted
      <3>3. \A k \in n + 1..8 : k # 4 => Pieces(m, F)[k] = <<>>
        BY <1>4, <3>1
      <3>4. 4 \in n + 1..8
        BY <3>1
      <3>5. QED
        BY <1>6, <2>3, <3>2, <3>3, <3>4 DEF AsksForLease
    <2>4. CASE t = "ERROR_RESPONSE"
      <3>1. n = 1 /\ Len(F) = 1
        BY <2>1, <2>4 DEF WrittenV3, WrittenV1, ReadV1
      <3>2. \A k \in n + 1..8 : Pieces(m, F)[k] = <<>>
        BY <1>4, <3>1
      <3>3. ~AsksForLease(m)
        BY <2>4 DEF AsksForLease
      <3>4. QED
        BY <3>2, <3>3
    <2>5. QED
      BY <2>2, <2>3, <2>4 DEF Handshakes
  <1>7. QED
    BY <1>5, <1>6 DEF Versions

\* A handshake read with the codec of the other version.
RefusedOrMeant(r, m, version) ==
    IF version = QUACK_V3 /\ AsksForLease(m) THEN r = Fail("end of object")
    ELSE r.ok /\ \A k \in Carried(m, QUACK_V1) : r.value[k] = Meaning(k, m[k])

\* A handshake is refused by the other version, or read as it was meant.
LEMMA CrossRead ==
    ASSUME NEW m \in Messages, m.type \in Handshakes, NEW version \in Versions,
           NEW r, r = DecodeMessage(EncodeMessage(m, version), Other(version))
    PROVE  RefusedOrMeant(r, m, version)
  <1> DEFINE o == Other(version)
             w == EncodeMessage(m, version)
             a == HeaderPart(m)
             b == BodyPart(m, version)
             c == TailPart(m, version)
             i == 1 + Len(a)
             F == Written(m.type, version)
             G == ReadBy(m.type, o)
             known == Before(m, o)
             s == BodyObject(w, i, m, o)
  <1>1. /\ Counts(F) /\ Fills(m, F) /\ Matches(m, F, G) /\ Distinct(G, known)
        /\ Encodable(m, version) /\ o \in Versions /\ ~HasTail(m.type, version)
    BY CrossFits
  <1>2. /\ w \in Seq(Units) /\ Len(w) = Len(a) + Len(b) + Len(c)
        /\ Len(a) \in Nat /\ Len(b) \in Nat /\ c = <<>>
        /\ Lies(w, 1, w) => Lies(w, 1, a) /\ Lies(w, i, b)
    <2>1. c = <<>>
      BY <1>1 DEF TailPart
    <2>2. QED
      BY <1>1, <2>1, Parts
  <1>3. Lies(w, 1, a) /\ Lies(w, i, b)
    BY <1>2, LiesAtOne
  <1>4. i + Len(b) = 1 + Len(w) /\ Len(w) \in Nat
    <2>1. Len(c) = 0
      BY <1>2
    <2> HIDE DEF a, b, c, w
    <2>2. QED
      BY <1>2, <2>1
  <1>5. r = Finish(w, DecodeBody(w, i, m, o))
    BY <1>3, HeaderDecoded
  <1>6. Encodable(m, o)
    BY DEF Handshakes, Encodable
  <1>7. s = ReadObject(w, i, known, G) /\ b = WriteObject(m, F)
    BY DEF BodyObject, BodyPart
  <1>8. /\ ~s.ok => DecodeBody(w, i, m, o) = s
        /\ \A v, e : s = Got(v, e) /\ v.type = m.type => DecodeBody(w, i, m, o) = s
    <2>1. ~HasTail(m.type, o) /\ m.type # "APPEND_REQUEST"
      BY DEF Handshakes, HasTail
    <2> HIDE DEF w, i, o
    <2>2. QED
      BY <1>1, <1>6, <2>1, BodyDecoding
  <1>9. (\E k \in Len(G) + 1..8 : Pieces(m, F)[k] # <<>>)
            <=> version = QUACK_V3 /\ AsksForLease(m)
    BY LeaseFields
  <1>10. ASSUME NEW v, Knows(v, known, m, F, G, Len(G))
         PROVE  v.type = m.type /\ \A k \in Carried(m, QUACK_V1) : v[k] = Meaning(k, m[k])
    BY <1>10, CrossMeans
  <1> HIDE DEF o, w, a, b, c, i, F, G, known, s
  <1>11. CASE version = QUACK_V3 /\ AsksForLease(m)
    <2>1. PICK k \in Len(G) + 1..8 : Pieces(m, F)[k] # <<>>
      BY <1>9, <1>11
    <2>2. s = Fail("end of object")
      BY <1>1, <1>3, <1>7, <2>1, LongerObject
    <2>3. ~s.ok
      BY <2>2 DEF Fail
    <2>4. QED
      BY <1>5, <1>8, <1>11, <2>2, <2>3 DEF Finish, RefusedOrMeant
  <1>12. CASE ~(version = QUACK_V3 /\ AsksForLease(m))
    <2>1. \A k \in Len(G) + 1..8 : Pieces(m, F)[k] = <<>>
      BY <1>9, <1>12
    <2>2. ObjectIsRead(m, F, G, w, i, known, i + Len(b))
      BY <1>1, <1>3, <1>7, <2>1, WholeObject
    <2>3. PICK v : Knows(v, known, m, F, G, Len(G)) /\ s = Got(v, i + Len(b))
      BY <1>7, <2>2 DEF ObjectIsRead
    <2>4. v.type = m.type /\ \A k \in Carried(m, QUACK_V1) : v[k] = Meaning(k, m[k])
      BY <1>10, <2>3
    <2>5. s = Got(v, 1 + Len(w))
      BY <1>4, <2>3
    <2>6. DecodeBody(w, i, m, o) = Got(v, 1 + Len(w))
      BY <1>8, <2>4, <2>5
    <2>7. 1 + Len(w) > Len(w)
      BY <1>4
    <2>8. r.ok /\ r.value = v
      BY <1>5, <2>6, <2>7 DEF Finish, Got
    <2>9. QED
      BY <1>12, <2>4, <2>8 DEF RefusedOrMeant
  <1>13. QED
    BY <1>11, <1>12 DEF RefusedOrMeant

\* A handshake of the other version is refused, if it asks for a lease, or says what
\* both versions have fields for (client.rs:883-895, messages.rs:491-749).
THEOREM HandshakesAreNotMisread == Spec => []HandshakeIsNotMisread
  <1>1. WireInv => HandshakeIsNotMisread
    <2> SUFFICES ASSUME WireInv, stage = "read", readAs # sentAs
        PROVE  /\ sentAs = QUACK_V3 /\ AsksForLease(message) => result = Fail("end of object")
               /\ message.type \in {"CONNECTION_REQUEST", "CONNECTION_RESPONSE", "ERROR_RESPONSE"}
                     /\ ~(sentAs = QUACK_V3 /\ AsksForLease(message)) =>
                  result.ok /\ Agrees(Carried(message, QUACK_V1))
      BY DEF HandshakeIsNotMisread
    <2>1. /\ message \in Messages /\ sentAs \in Versions /\ readAs \in Versions
          /\ result = DecodeMessage(EncodeMessage(message, sentAs), readAs)
      BY DEF WireInv
    <2>2. readAs = Other(sentAs)
      BY <2>1 DEF Versions, Other
    <2>3. AsksForLease(message) => message.type \in Handshakes
      BY DEF AsksForLease, Handshakes
    <2>4. message.type \in Handshakes => RefusedOrMeant(result, message, sentAs)
      BY <2>1, <2>2, CrossRead
    <2>5. QED
      BY <2>3, <2>4 DEF RefusedOrMeant, Agrees, Handshakes
  <1>2. QED
    BY <1>1, WireInvariant, PTL

-------------------------------------------------------------------------------
(* Wires that go on *)

\* w is how x begins.
Begins(w, x) ==
    /\ Len(w) \in Nat /\ Len(x) \in Nat /\ Len(w) <= Len(x)
    /\ DOMAIN w = 1..Len(w) /\ DOMAIN x = 1..Len(x)
    /\ \A j \in 1..Len(w) : x[j] = w[j]

At(w, i) == i \in Nat /\ i >= 1 /\ i <= Len(w) + 1

\* What is read of w is read of x, and within w.
Stable(r, s, w) == r.ok => s = r /\ At(w, r.at)

\* A unit of w is one of x.
LEMMA IsStable ==
    ASSUME NEW w, NEW x, Begins(w, x), NEW i, NEW kind, Is(w, i, kind)
    PROVE  Is(x, i, kind) /\ x[i] = w[i] /\ At(w, i) /\ At(w, i + 1)
  BY DEF Begins, Is, At

\* A unit is read of both.
LEMMA UnitStable ==
    ASSUME NEW w, NEW x, Begins(w, x), NEW i, NEW kind
    PROVE  Stable(ReadUnit(w, i, kind), ReadUnit(x, i, kind), w)
  <1>1. CASE Is(w, i, kind)
    <2>1. Is(x, i, kind) /\ x[i] = w[i] /\ At(w, i + 1)
      BY <1>1, IsStable
    <2>2. ReadUnit(w, i, kind) = Got(w[i].value, i + 1) /\ ReadUnit(x, i, kind) = Got(w[i].value, i + 1)
      BY <1>1, <2>1 DEF ReadUnit
    <2>3. QED
      BY <2>1, <2>2 DEF Stable, Got
  <1>2. CASE ~Is(w, i, kind)
    BY <1>2 DEF ReadUnit, Stable, Fail
  <1>3. QED
    BY <1>1, <1>2

\* The end of an object is.
LEMMA EndStable ==
    ASSUME NEW w, NEW x, Begins(w, x), NEW i, NEW v
    PROVE  Stable(ReadEnd(w, i, v), ReadEnd(x, i, v), w)
  <1>1. CASE Is(w, i, "field") /\ w[i].value = FIELD_END
    <2>1. Is(x, i, "field") /\ x[i] = w[i] /\ At(w, i + 1)
      BY <1>1, IsStable
    <2>2. ReadEnd(w, i, v) = Got(v, i + 1) /\ ReadEnd(x, i, v) = Got(v, i + 1)
      BY <1>1, <2>1 DEF ReadEnd
    <2>3. QED
      BY <2>1, <2>2 DEF Stable, Got
  <1>2. CASE ~(Is(w, i, "field") /\ w[i].value = FIELD_END)
    BY <1>2 DEF ReadEnd, Stable, Fail
  <1>3. QED
    BY <1>1, <1>2

\* A boolean is.
LEMMA BoolStable ==
    ASSUME NEW w, NEW x, Begins(w, x), NEW i
    PROVE  Stable(ReadBool(w, i), ReadBool(x, i), w)
  <1>1. CASE Is(w, i, "byte")
    <2>1. Is(x, i, "byte") /\ x[i] = w[i] /\ At(w, i + 1)
      BY <1>1, IsStable
    <2>2. ReadBool(x, i) = ReadBool(w, i)
      BY <1>1, <2>1 DEF ReadBool
    <2>3. ReadBool(w, i).ok => ReadBool(w, i).at = i + 1
      BY <1>1 DEF ReadBool, Got, Fail
    <2>4. QED
      BY <2>1, <2>2, <2>3 DEF Stable
  <1>2. CASE ~Is(w, i, "byte")
    BY <1>2 DEF ReadBool, Stable, Fail
  <1>3. QED
    BY <1>1, <1>2

\* A number that ends in w ends there in x, and has the same digits.
LEMMA EndsStable ==
    ASSUME NEW w, NEW x, Begins(w, x), NEW i \in Nat, NEW k \in 1..MaxBytes, EndsAt(w, i, k)
    PROVE  /\ EndsAt(x, i, k) /\ At(w, i + k)
           /\ (CHOOSE j \in 1..MaxBytes : EndsAt(w, i, j)) = k
           /\ (CHOOSE j \in 1..MaxBytes : EndsAt(x, i, j)) = k
           /\ LebValue(x, i, k) = LebValue(w, i, k)
           /\ x[i + k - 1] = w[i + k - 1]
  <1>1. k \in Nat /\ k \in 1..k
    BY Widths
  <1>2. ASSUME NEW j \in 1..k
        PROVE  /\ Is(x, i + j - 1, "byte") /\ x[i + j - 1] = w[i + j - 1]
               /\ (x[i + j - 1].value.more <=> j < k) /\ At(w, i + j - 1 + 1)
    <2>1. Is(w, i + j - 1, "byte") /\ (w[i + j - 1].value.more <=> j < k)
      BY DEF EndsAt
    <2> DEFINE p == i + j - 1
    <2> HIDE DEF p
    <2>2. Is(x, p, "byte") /\ x[p] = w[p] /\ At(w, p + 1)
      BY <2>1, IsStable DEF p
    <2>3. QED
      BY <2>1, <2>2 DEF p
  <1>3. EndsAt(x, i, k)
    BY <1>2 DEF EndsAt
  <1>4. ASSUME NEW y, EndsAt(y, i, k), NEW j \in 1..MaxBytes, EndsAt(y, i, j)
        PROVE  j = k
    <2>1. j \in Nat /\ j \in 1..j
      BY Widths
    <2>2. CASE j < k
      <3>1. j \in 1..k
        BY <1>1, <2>1, <2>2
      <3>2. (y[i + j - 1].value.more <=> j < k) /\ (y[i + j - 1].value.more <=> j < j)
        BY <1>4, <2>1, <3>1 DEF EndsAt
      <3>3. QED
        BY <2>1, <2>2, <3>2
    <2>3. CASE k < j
      <3>1. k \in 1..j
        BY <1>1, <2>1, <2>3
      <3>2. (y[i + k - 1].value.more <=> k < j) /\ (y[i + k - 1].value.more <=> k < k)
        BY <1>1, <1>4, <3>1 DEF EndsAt
      <3>3. QED
        BY <1>1, <2>3, <3>2
    <2>4. QED
      BY <1>1, <2>1, <2>2, <2>3
  <1>5. (CHOOSE j \in 1..MaxBytes : EndsAt(w, i, j)) = k
    BY <1>4
  <1>6. (CHOOSE j \in 1..MaxBytes : EndsAt(x, i, j)) = k
    BY <1>3, <1>4
  <1>7. LebValue(x, i, k) = LebValue(w, i, k)
    <2>1. [j \in 1..k |-> x[i + j - 1].value.digit] = [j \in 1..k |-> w[i + j - 1].value.digit]
      BY <1>2
    <2>2. QED
      BY <2>1 DEF LebValue
  <1>8. At(w, i + k) /\ x[i + k - 1] = w[i + k - 1]
    <2>1. x[i + k - 1] = w[i + k - 1] /\ At(w, i + k - 1 + 1)
      BY <1>1, <1>2
    <2>2. i + k - 1 + 1 = i + k
      BY <1>1
    <2>3. QED
      BY <2>1, <2>2
  <1>9. QED
    BY <1>3, <1>5, <1>6, <1>7, <1>8

\* A word is, and it is a number.
LEMMA UlebStable ==
    ASSUME NEW w, NEW x, Begins(w, x), NEW i \in Nat
    PROVE  /\ Stable(ReadUleb(w, i), ReadUleb(x, i), w)
           /\ ReadUleb(w, i).ok => ReadUleb(w, i).value \in Nat
  <1>1. CASE \E k \in 1..MaxBytes : EndsAt(w, i, k)
    <2>1. PICK k \in 1..MaxBytes : EndsAt(w, i, k)
      BY <1>1
    <2>2. /\ EndsAt(x, i, k) /\ At(w, i + k)
          /\ (CHOOSE j \in 1..MaxBytes : EndsAt(w, i, j)) = k
          /\ (CHOOSE j \in 1..MaxBytes : EndsAt(x, i, j)) = k
          /\ LebValue(x, i, k) = LebValue(w, i, k)
      BY <2>1, EndsStable
    <2> DEFINE n == LebValue(w, i, k)
    <2>3. ReadUleb(w, i) = IF n \in Words THEN Got(n, i + k) ELSE Fail("exceeds")
      BY <2>1, <2>2 DEF ReadUleb
    <2>4. ReadUleb(x, i) = IF n \in Words THEN Got(n, i + k) ELSE Fail("exceeds")
      BY <2>2 DEF ReadUleb
    <2> HIDE DEF n
    <2>5. n \in Words => n \in Nat
      BY Widths DEF Words, U64Max
    <2>6. QED
      BY <2>2, <2>3, <2>4, <2>5 DEF Stable, Got, Fail
  <1>2. CASE ~\E k \in 1..MaxBytes : EndsAt(w, i, k)
    BY <1>2 DEF ReadUleb, Stable, Fail
  <1>3. QED
    BY <1>1, <1>2

\* A signed word is.
LEMMA SlebStable ==
    ASSUME NEW w, NEW x, Begins(w, x), NEW i \in Nat
    PROVE  Stable(ReadSleb(w, i), ReadSleb(x, i), w)
  <1>1. CASE \E k \in 1..MaxBytes : EndsAt(w, i, k)
    <2>1. PICK k \in 1..MaxBytes : EndsAt(w, i, k)
      BY <1>1
    <2>2. /\ EndsAt(x, i, k) /\ At(w, i + k)
          /\ (CHOOSE j \in 1..MaxBytes : EndsAt(w, i, j)) = k
          /\ (CHOOSE j \in 1..MaxBytes : EndsAt(x, i, j)) = k
          /\ LebValue(x, i, k) = LebValue(w, i, k)
          /\ x[i + k - 1] = w[i + k - 1]
      BY <2>1, EndsStable
    <2> DEFINE n == LebValue(w, i, k)
                      - IF IsNegative(w[i + k - 1].value.digit) THEN Power[k] ELSE 0
    <2>3. ReadSleb(w, i) = IF n \in SignedWords THEN Got(n, i + k) ELSE Fail("exceeds")
      BY <2>1, <2>2 DEF ReadSleb
    <2>4. ReadSleb(x, i) = IF n \in SignedWords THEN Got(n, i + k) ELSE Fail("exceeds")
      BY <2>2 DEF ReadSleb
    <2> HIDE DEF n
    <2>5. QED
      BY <2>2, <2>3, <2>4 DEF Stable, Got, Fail
  <1>2. CASE ~\E k \in 1..MaxBytes : EndsAt(w, i, k)
    BY <1>2 DEF ReadSleb, Stable, Fail
  <1>3. QED
    BY <1>1, <1>2

\* A huge integer is.
LEMMA HugeIntStable ==
    ASSUME NEW w, NEW x, Begins(w, x), NEW i \in Nat
    PROVE  Stable(ReadHugeInt(w, i), ReadHugeInt(x, i), w)
  <1> DEFINE u == ReadSleb(w, i)
             l == ReadUleb(w, u.at)
             r == Got([upper |-> u.value, lower |-> l.value], l.at)
  <1>1. Stable(u, ReadSleb(x, i), w)
    BY SlebStable
  <1>2. ReadHugeInt(w, i) = IF ~u.ok THEN u ELSE IF ~l.ok THEN l ELSE r
    BY DEF ReadHugeInt, Then
  <1>3. CASE u.ok /\ l.ok
    <2>1. ReadSleb(x, i) = u /\ u.at \in Nat
      BY <1>1, <1>3 DEF Stable, At
    <2>2. Stable(l, ReadUleb(x, u.at), w)
      <3> DEFINE p == u.at
      <3>1. p \in Nat
        BY <2>1
      <3> HIDE DEF p
      <3>2. Stable(ReadUleb(w, p), ReadUleb(x, p), w)
        BY <3>1, UlebStable
      <3>3. QED
        BY <3>2 DEF p
    <2>3. ReadUleb(x, u.at) = l /\ At(w, l.at)
      BY <1>3, <2>2 DEF Stable
    <2>4. ReadHugeInt(x, i) = r
      <3> HIDE DEF u, l
      <3>1. QED
        BY <1>3, <2>1, <2>3 DEF ReadHugeInt, Then
    <2>5. r.at = l.at
      BY DEF Got
    <2> HIDE DEF u, l, r
    <2>6. QED
      BY <1>2, <1>3, <2>3, <2>4, <2>5 DEF Stable
  <1>4. CASE ~(u.ok /\ l.ok)
    <2> HIDE DEF u, l, r
    <2>1. QED
      BY <1>2, <1>4 DEF Stable
  <1>5. QED
    BY <1>3, <1>4

\* A pointer is.
LEMMA PointerStable ==
    ASSUME NEW w, NEW x, Begins(w, x), NEW i
    PROVE  Stable(ReadPointer(w, i), ReadPointer(x, i), w)
  <1> DEFINE b == ReadBool(w, i)
             c == ReadUnit(w, b.at + 1, "chunk")
             e == ReadEnd(w, c.at, c.value)
             good == b.ok /\ b.value /\ IsField(w, b.at, 300) /\ c.ok
  <1>1. ReadPointer(w, i)
           = IF ~b.ok THEN b ELSE IF ~b.value THEN Fail("null chunk")
             ELSE IF ~IsField(w, b.at, 300) THEN Fail("expected field")
             ELSE IF ~c.ok THEN c ELSE e
    BY DEF ReadPointer, Then
  <1>2. CASE good
    <2>1. ReadBool(x, i) = b
      BY <1>2, BoolStable DEF Stable
    <2>2. IsField(x, b.at, 300)
      <3>1. Is(w, b.at, "field") /\ w[b.at].value = 300
        BY <1>2 DEF IsField
      <3> HIDE DEF b
      <3>2. Is(x, b.at, "field") /\ x[b.at] = w[b.at]
        BY <3>1, IsStable
      <3>3. QED
        BY <3>1, <3>2 DEF IsField
    <2>3. ReadUnit(x, b.at + 1, "chunk") = c
      BY <1>2, UnitStable DEF Stable
    <2>4. ReadPointer(x, i) = ReadEnd(x, c.at, c.value) /\ ReadPointer(w, i) = e
      <3>1. ReadPointer(w, i) = e
        <4> HIDE DEF b, c, e
        <4>1. QED
          BY <1>1, <1>2
      <3>2. ReadPointer(x, i) = ReadEnd(x, c.at, c.value)
        <4>1. b.ok /\ b.value /\ c.ok
          BY <1>2
        <4> HIDE DEF b, c, e, good
        <4>2. QED
          BY <2>1, <2>2, <2>3, <4>1 DEF ReadPointer, Then
      <3>3. QED
        BY <3>1, <3>2
    <2>5. Stable(e, ReadEnd(x, c.at, c.value), w)
      BY EndStable
    <2>6. QED
      BY <2>4, <2>5
  <1>3. CASE ~good
    <2>0. ~Fail("null chunk").ok /\ ~Fail("expected field").ok
      BY DEF Fail
    <2>1. ~ReadPointer(w, i).ok
      <3> HIDE DEF b, c, e
      <3>1. CASE ~b.ok
        BY <1>1, <3>1
      <3>2. CASE b.ok /\ ~b.value
        BY <1>1, <2>0, <3>2
      <3>3. CASE b.ok /\ b.value /\ ~IsField(w, b.at, 300)
        BY <1>1, <2>0, <3>3
      <3>4. CASE b.ok /\ b.value /\ IsField(w, b.at, 300) /\ ~c.ok
        BY <1>1, <3>4
      <3>5. QED
        BY <1>3, <3>1, <3>2, <3>3, <3>4
    <2>2. QED
      BY <2>1 DEF Stable
  <1>4. QED
    BY <1>2, <1>3

\* An item is.
LEMMA ItemStable ==
    ASSUME NEW w, NEW x, Begins(w, x), NEW i, NEW kind
    PROVE  Stable(ReadItem(w, i, kind), ReadItem(x, i, kind), w)
  BY PointerStable, UnitStable DEF ReadItem

\* A number of items is, by induction on the number.
LEMMA TimesStable ==
    ASSUME NEW w, NEW x, Begins(w, x), NEW i \in Nat, At(w, i), NEW n \in Nat, NEW kind
    PROVE  Stable(ReadTimes(w, i, n, kind), ReadTimes(x, i, n, kind), w)
  <1>1. PICK f : ReadsTimes(f, w, i, n, kind)
    BY TimesRead
  <1>2. PICK g : ReadsTimes(g, x, i, n, kind)
    BY TimesRead
  <1> DEFINE T == {k \in 0..n : Stable(f[k], g[k], w)}
  <1>3. 0 \in T
    <2>1. f[0] = Got(<<>>, i) /\ g[0] = Got(<<>>, i)
      BY <1>1, <1>2 DEF ReadsTimes
    <2>2. QED
      BY <2>1 DEF Stable, Got
  <1>4. ASSUME NEW k \in 0..n - 1, k \in T PROVE k + 1 \in T
    <2> DEFINE r == f[k]
               s == ReadItem(w, r.at, kind)
    <2>1. f[k + 1] = TimesStep(w, kind, f[k]) /\ g[k + 1] = TimesStep(x, kind, g[k])
      BY <1>1, <1>2 DEF ReadsTimes
    <2>2. Stable(r, g[k], w)
      BY <1>4
    <2>3. Stable(s, ReadItem(x, r.at, kind), w)
      BY ItemStable
    <2>4. CASE r.ok /\ s.ok
      <3>1. g[k] = r /\ ReadItem(x, r.at, kind) = s /\ At(w, s.at)
        BY <2>2, <2>3, <2>4 DEF Stable
      <3>2. f[k + 1] = Got(Append(r.value, s.value), s.at)
        <4>1. f[k + 1] = TimesStep(w, kind, r)
          BY <2>1
        <4> HIDE DEF r
        <4>2. QED
          BY <2>4, <4>1 DEF TimesStep
      <3>3. g[k + 1] = Got(Append(r.value, s.value), s.at)
        <4> HIDE DEF r, s
        <4>1. QED
          BY <2>1, <2>4, <3>1 DEF TimesStep
      <3>4. Stable(f[k + 1], g[k + 1], w)
        <4> HIDE DEF r, s
        <4>1. QED
          BY <3>1, <3>2, <3>3 DEF Stable, Got
      <3>5. QED
        BY <3>4
    <2>5. CASE ~(r.ok /\ s.ok)
      <3>1. ~f[k + 1].ok
        <4>1. f[k + 1] = IF ~r.ok THEN r ELSE s
          BY <2>1, <2>5 DEF TimesStep
        <4> HIDE DEF r, s
        <4>2. QED
          BY <2>5, <4>1
      <3>2. QED
        BY <3>1 DEF Stable
    <2>6. QED
      BY <2>4, <2>5
  <1>5. n \in T
    <2>1. 0 \in Int /\ n \in Int /\ n \in 0..n
      OBVIOUS
    <2> HIDE DEF T
    <2>2. 0..n \subseteq T
      BY <1>3, <1>4, <2>1, Induction, Zenon
    <2>3. QED
      BY <2>1, <2>2
  <1>6. QED
    BY <1>1, <1>2, <1>5 DEF ReadsTimes

\* A list is.
LEMMA ListStable ==
    ASSUME NEW w, NEW x, Begins(w, x), NEW i \in Nat, NEW kind
    PROVE  Stable(ReadList(w, i, kind), ReadList(x, i, kind), w)
  <1> DEFINE u == ReadUleb(w, i)
  <1>1. Stable(u, ReadUleb(x, i), w) /\ (u.ok => u.value \in Nat)
    BY UlebStable
  <1>2. CASE u.ok
    <2> DEFINE n == u.value
               p == u.at
    <2>1. ReadUleb(x, i) = u /\ p \in Nat /\ At(w, p) /\ n \in Nat
      BY <1>1, <1>2 DEF Stable, At
    <2>2. ReadList(w, i, kind) = ReadTimes(w, p, n, kind)
      BY <1>2 DEF ReadList, Then
    <2>3. ReadList(x, i, kind) = ReadTimes(x, p, n, kind)
      <3> HIDE DEF u
      <3>1. QED
        BY <1>2, <2>1 DEF ReadList, Then
    <2> HIDE DEF u, n, p
    <2>4. Stable(ReadTimes(w, p, n, kind), ReadTimes(x, p, n, kind), w)
      BY <2>1, TimesStable
    <2>5. QED
      BY <2>2, <2>3, <2>4
  <1>3. CASE ~u.ok
    <2>1. ReadList(w, i, kind) = u
      BY <1>3 DEF ReadList, Then
    <2> HIDE DEF u
    <2>2. QED
      BY <1>3, <2>1 DEF Stable
  <1>4. QED
    BY <1>2, <1>3

ReadKinds ==
    {"string", "text", "default_zero", "some", "index", "or_invalid", "required", "hugeint",
     "bool", "texts", "pointers", "pointer"}

\* A payload of any kind is.
LEMMA PayloadStable ==
    ASSUME NEW w, NEW x, Begins(w, x), NEW i \in Nat, NEW kind \in ReadKinds
    PROVE  Stable(ReadPayload(w, i, kind), ReadPayload(x, i, kind), w)
  <1>1. CASE kind \in {"string", "text"}
    <2>1. \A y : ReadPayload(y, i, kind) = ReadUnit(y, i, "text")
      BY <1>1 DEF ReadPayload
    <2>2. QED
      BY <2>1, UnitStable
  <1>2. CASE kind \in {"default_zero", "some", "index", "or_invalid", "required"}
    <2>1. \A y : ReadPayload(y, i, kind) = ReadUleb(y, i)
      BY <1>2 DEF ReadPayload
    <2>2. QED
      BY <2>1, UlebStable
  <1>3. CASE kind = "hugeint"
    <2>1. \A y : ReadPayload(y, i, kind) = ReadHugeInt(y, i)
      BY <1>3 DEF ReadPayload
    <2>2. QED
      BY <2>1, HugeIntStable
  <1>4. CASE kind = "bool"
    <2>1. \A y : ReadPayload(y, i, kind) = ReadBool(y, i)
      BY <1>4 DEF ReadPayload
    <2>2. QED
      BY <2>1, BoolStable
  <1>5. CASE kind = "texts"
    <2>1. \A y : ReadPayload(y, i, kind) = ReadList(y, i, "text")
      BY <1>5 DEF ReadPayload
    <2>2. QED
      BY <2>1, ListStable
  <1>6. CASE kind = "pointers"
    <2>1. \A y : ReadPayload(y, i, kind) = ReadList(y, i, "pointer")
      BY <1>6 DEF ReadPayload
    <2>2. QED
      BY <2>1, ListStable
  <1>7. CASE kind = "pointer"
    <2>1. \A y : ReadPayload(y, i, kind) = ReadPointer(y, i)
      BY <1>7 DEF ReadPayload
    <2>2. QED
      BY <2>1, PointerStable
  <1>8. QED
    BY <1>1, <1>2, <1>3, <1>4, <1>5, <1>6, <1>7 DEF ReadKinds

\* A field is, there or not.
LEMMA FieldStable ==
    ASSUME NEW w, NEW x, Begins(w, x), NEW i \in Nat, NEW id, NEW kind \in ReadKinds
    PROVE  Stable(ReadField(w, i, id, kind), ReadField(x, i, id, kind), w)
  <1>1. CASE ~Is(w, i, "field")
    BY <1>1 DEF ReadField, Stable, Fail
  <1>2. CASE Is(w, i, "field") /\ w[i].value = id
    <2> DEFINE p == ReadPayload(w, i + 1, kind)
    <2>1. Is(x, i, "field") /\ x[i] = w[i]
      BY <1>2, IsStable
    <2>2. Stable(p, ReadPayload(x, i + 1, kind), w)
      BY PayloadStable
    <2>3. ReadField(w, i, id, kind) = IF p.ok THEN Got(Filtered(kind, p.value), p.at) ELSE p
      BY <1>2 DEF ReadField, Then
    <2>4. CASE p.ok
      <3>1. ReadPayload(x, i + 1, kind) = p /\ At(w, p.at)
        BY <2>2, <2>4 DEF Stable
      <3> HIDE DEF p
      <3>2. ReadField(x, i, id, kind) = Got(Filtered(kind, p.value), p.at)
        BY <1>2, <2>1, <2>4, <3>1 DEF ReadField, Then
      <3>3. Got(Filtered(kind, p.value), p.at).at = p.at
        BY DEF Got
      <3>4. QED
        BY <2>3, <2>4, <3>1, <3>2, <3>3 DEF Stable
    <2>5. CASE ~p.ok
      <3> HIDE DEF p
      <3>1. QED
        BY <2>3, <2>5 DEF Stable
    <2>6. QED
      BY <2>4, <2>5
  <1>3. CASE Is(w, i, "field") /\ w[i].value # id
    <2>1. Is(x, i, "field") /\ x[i] = w[i] /\ At(w, i)
      BY <1>3, IsStable
    <2>2. CASE kind \in Required
      BY <1>3, <2>2 DEF ReadField, Stable, Fail
    <2>3. CASE kind \notin Required
      <3>1. /\ ReadField(w, i, id, kind) = Got(Default(kind), i)
            /\ ReadField(x, i, id, kind) = Got(Default(kind), i)
        BY <1>3, <2>1, <2>3 DEF ReadField
      <3>2. QED
        BY <2>1, <3>1 DEF Stable, Got
    <2>4. QED
      BY <2>2, <2>3
  <1>4. QED
    BY <1>1, <1>2, <1>3

\* The fields of a layout are, by induction on their number.
LEMMA FieldsStable ==
    ASSUME NEW w, NEW x, Begins(w, x), NEW i \in Nat, At(w, i), NEW known, NEW G,
           Len(G) \in Nat, \A k \in 1..Len(G) : G[k][2] \in ReadKinds
    PROVE  Stable(ReadFields(w, i, known, G), ReadFields(x, i, known, G), w)
  <1> DEFINE n == Len(G)
  <1>1. PICK f : ReadsFields(f, w, i, known, G)
    BY FieldsRead
  <1>2. PICK g : ReadsFields(g, x, i, known, G)
    BY FieldsRead
  <1> DEFINE T == {k \in 0..n : Stable(f[k], g[k], w)}
  <1>3. 0 \in T
    <2>1. f[0] = Got(known, i) /\ g[0] = Got(known, i)
      BY <1>1, <1>2 DEF ReadsFields
    <2>2. QED
      BY <2>1 DEF Stable, Got
  <1>4. ASSUME NEW k \in 0..n - 1, k \in T PROVE k + 1 \in T
    <2> DEFINE r == f[k]
               h == G[k + 1]
               s == ReadField(w, r.at, h[1], h[2])
    <2>1. f[k + 1] = FieldsStep(w, h, r) /\ g[k + 1] = FieldsStep(x, h, g[k])
      BY <1>1, <1>2 DEF ReadsFields
    <2>2. Stable(r, g[k], w) /\ k + 1 \in 1..n
      BY <1>4
    <2>3. CASE r.ok /\ s.ok
      <3> DEFINE p == r.at
      <3>1. g[k] = r /\ p \in Nat /\ h[2] \in ReadKinds
        BY <2>2, <2>3 DEF Stable, At
      <3>2. Stable(s, ReadField(x, p, h[1], h[2]), w)
        <4> HIDE DEF p, h
        <4>1. Stable(ReadField(w, p, h[1], h[2]), ReadField(x, p, h[1], h[2]), w)
          BY <3>1, FieldStable
        <4>2. QED
          BY <4>1 DEF p
      <3>3. ReadField(x, r.at, h[1], h[2]) = s /\ At(w, s.at)
        BY <2>3, <3>2 DEF Stable
      <3>4. f[k + 1] = Got(With(r.value, h[3], s.value), s.at)
        <4> HIDE DEF r, h
        <4>1. QED
          BY <2>1, <2>3 DEF FieldsStep
      <3>5. g[k + 1] = Got(With(r.value, h[3], s.value), s.at)
        <4> HIDE DEF r, s, h, p
        <4>1. QED
          BY <2>1, <2>3, <3>1, <3>3 DEF FieldsStep
      <3>6. Stable(f[k + 1], g[k + 1], w)
        <4> HIDE DEF r, s, h, p
        <4>1. QED
          BY <3>3, <3>4, <3>5 DEF Stable, Got
      <3>7. QED
        BY <2>2, <3>6
    <2>4. CASE ~(r.ok /\ s.ok)
      <3>1. ~f[k + 1].ok
        <4>1. f[k + 1] = IF ~r.ok THEN r ELSE s
          BY <2>1, <2>4 DEF FieldsStep
        <4> HIDE DEF r, s, h
        <4>2. QED
          BY <2>4, <4>1
      <3>2. QED
        BY <2>2, <3>1 DEF Stable
    <2>5. QED
      BY <2>3, <2>4
  <1>5. n \in T
    <2>1. 0 \in Int /\ n \in Int /\ n \in 0..n
      OBVIOUS
    <2> HIDE DEF T, n
    <2>2. 0..n \subseteq T
      BY <1>3, <1>4, <2>1, Induction, Zenon
    <2>3. QED
      BY <2>1, <2>2
  <1>6. QED
    BY <1>1, <1>2, <1>5 DEF ReadsFields

\* An object that ends in w is read there from x.
LEMMA ObjectStable ==
    ASSUME NEW w, NEW x, Begins(w, x), NEW i \in Nat, At(w, i), NEW known, NEW G,
           Len(G) \in Nat, \A k \in 1..Len(G) : G[k][2] \in ReadKinds
    PROVE  Stable(ReadObject(w, i, known, G), ReadObject(x, i, known, G), w)
  <1> DEFINE r == ReadFields(w, i, known, G)
  <1>1. Stable(r, ReadFields(x, i, known, G), w)
    BY FieldsStable
  <1>2. CASE r.ok
    <2>1. ReadFields(x, i, known, G) = r
      BY <1>1, <1>2 DEF Stable
    <2>2. ReadObject(w, i, known, G) = ReadEnd(w, r.at, r.value)
      BY <1>2 DEF ReadObject, Then
    <2> HIDE DEF r
    <2>3. ReadObject(x, i, known, G) = ReadEnd(x, r.at, r.value)
      BY <1>2, <2>1 DEF ReadObject, Then
    <2>4. QED
      BY <2>2, <2>3, EndStable
  <1>3. CASE ~r.ok
    <2>1. ReadObject(w, i, known, G) = r
      BY <1>3 DEF ReadObject, Then
    <2> HIDE DEF r
    <2>2. QED
      BY <1>3, <2>1 DEF Stable
  <1>4. QED
    BY <1>2, <1>3

\* Layouts that match have kinds that are read.
LEMMA LayoutKinds ==
    ASSUME NEW m, NEW F, NEW G, Matches(m, F, G), Len(F) = Len(G)
    PROVE  Len(G) \in Nat /\ \A k \in 1..Len(G) : G[k][2] \in ReadKinds
  <1>1. Len(G) \in Nat
    BY DEF Matches, Counts
  <1>2. ASSUME NEW k \in 1..Len(G) PROVE G[k][2] \in ReadKinds
    <2>1. Compatible(F[k][2], G[k][2], m[F[k][3]])
      BY <1>1 DEF Matches
    <2>2. QED
      BY <2>1 DEF Compatible, ReadKinds
  <1>3. QED
    BY <1>1, <1>2

\* Nothing is made of a body that was refused.
LEMMA FinishFails ==
    ASSUME NEW r, ~r.ok, NEW w
    PROVE  ~Finish(w, r).ok
  BY DEF Finish

\* If the chunks behind the object are not there, the body is refused.
LEMMA TailRefused ==
    ASSUME NEW m \in Messages, NEW version \in Versions, Encodable(m, version),
           HasTail(m.type, version), NEW w, NEW i, NEW v, NEW j,
           BodyObject(w, i, m, version) = Got(v, j), IsBody(v, m, version),
           ~ReadTimes(w, j, Len(m.results), "chunk").ok
    PROVE  ~DecodeBody(w, i, m, version).ok
  <1> DEFINE r == BodyObject(w, i, m, version)
             t == ReadTimes(w, j, Len(m.results), "chunk")
  <1>1. /\ v.type = m.type /\ v.chunk_count = Len(m.results)
        /\ m.type # "APPEND_REQUEST"
    BY DEF IsBody, HasTail
  <1>2. DecodeBody(w, i, m, version) = WithTail(w, r)
    <2>1. r = Got(v, j)
      OBVIOUS
    <2> HIDE DEF r
    <2>2. QED
      BY <1>1, <2>1, BodyDecoding DEF r
  <1>3. r.ok /\ r.value = v /\ r.at = j
    BY DEF Got
  <1> HIDE DEF r
  <1>4. WithTail(w, r) = t
    BY <1>1, <1>3 DEF WithTail, Then
  <1>5. QED
    BY <1>2, <1>4

\* A wire that begins a message, and has not all of it, is refused.
LEMMA CutRefused ==
    ASSUME NEW m \in Messages, NEW version \in Versions, Encodable(m, version),
           NEW x, x = EncodeMessage(m, version), NEW w, Begins(w, x), Len(w) < Len(x)
    PROVE  ~DecodeMessage(w, version).ok
  <1> DEFINE a == HeaderPart(m)
             b == BodyPart(m, version)
             c == TailPart(m, version)
             i == 1 + Len(a)
             j == i + Len(b)
             r == ReadObject(w, 1, <<>>, ReadHeader)
             s == BodyObject(w, i, m, version)
  <1>1. /\ x \in Seq(Units) /\ Len(x) = Len(a) + Len(b) + Len(c)
        /\ Len(a) \in Nat /\ Len(b) \in Nat /\ Len(c) \in Nat
        /\ Lies(x, 1, a) /\ Lies(x, i, b) /\ Lies(x, j, c)
    <2>1. x \in Seq(Units) /\ Lies(x, 1, x)
      BY Parts, LiesAtOne
    <2>2. QED
      BY <2>1, Parts
  <1>2. i \in Nat /\ j \in Nat /\ j + Len(c) = 1 + Len(x) /\ ~At(w, 1 + Len(x)) /\ At(w, 1)
    <2>1. Len(w) \in Nat /\ Len(x) \in Nat
      BY DEF Begins
    <2> HIDE DEF a, b, c
    <2>2. QED
      BY <1>1, <2>1 DEF At
  <1>3. CASE ~r.ok
    <2>1. DecodeMessage(w, version) = r
      BY <1>3 DEF DecodeMessage, Then
    <2>2. QED
      BY <1>3, <2>1
  <1>4. CASE r.ok
    <2>1. PICK h : /\ ReadObject(x, 1, <<>>, ReadHeader) = Got(h, i)
                   /\ TypeOf(h.type) = {m.type} /\ Typed(h) = HeaderMeant(m)
      BY <1>1, HeaderIsRead DEF HeaderPart
    <2>2. Stable(r, ReadObject(x, 1, <<>>, ReadHeader), w)
      <3>1. Len(ReadHeader) \in Nat /\ \A k \in 1..Len(ReadHeader) : ReadHeader[k][2] \in ReadKinds
        BY HeaderFits, LayoutKinds
      <3>2. QED
        BY <1>2, <3>1, ObjectStable
    <2>3. r = Got(h, i) /\ At(w, r.at) /\ r.at = i
      BY <1>4, <2>1, <2>2 DEF Stable, Got
    <2>4. DecodeMessage(w, version) = Finish(w, DecodeBody(w, i, m, version))
      BY <2>1, <2>3, HeaderKnown
    <2>5. Stable(s, BodyObject(x, i, m, version), w)
      <3> DEFINE G == ReadBy(m.type, version)
                 known == Before(m, version)
      <3>1. Len(G) \in Nat /\ \A k \in 1..Len(G) : G[k][2] \in ReadKinds
        BY BodyFits, LayoutKinds
      <3> HIDE DEF G, known, i, r
      <3>2. Stable(ReadObject(w, i, known, G), ReadObject(x, i, known, G), w)
        BY <1>2, <2>3, <3>1, ObjectStable
      <3>3. QED
        BY <3>2 DEF BodyObject, G, known
    <2>6. PICK v : /\ BodyObject(x, i, m, version) = Got(v, j) /\ IsBody(v, m, version)
                   /\ m.type = "APPEND_REQUEST" => v.append_chunk # None
      <3>1. Lies(x, i, BodyPart(m, version)) /\ j = i + Len(BodyPart(m, version))
        BY <1>1
      <3> HIDE DEF i, j, a, b, c
      <3>2. QED
        BY <3>1, BodyObjectRead
    <2>7. ~DecodeBody(w, i, m, version).ok
      <3>1. CASE ~s.ok
        <4>1. DecodeBody(w, i, m, version) = s
          <5> HIDE DEF i
          <5>1. QED
            BY <3>1, BodyDecoding
        <4>2. QED
          BY <3>1, <4>1
      <3>2. CASE s.ok
        <4>1. s = Got(v, j) /\ At(w, j)
          <5> HIDE DEF i, j
          <5>1. QED
            BY <2>5, <2>6, <3>2 DEF Stable, Got
        <4>2. HasTail(m.type, version)
          <5>1. SUFFICES ASSUME ~HasTail(m.type, version) PROVE FALSE
            OBVIOUS
          <5>2. c = <<>> /\ Len(<<>>) = 0
            BY <5>1 DEF TailPart
          <5>3. j = 1 + Len(x)
            <6>1. Len(c) = 0
              BY <5>2
            <6> HIDE DEF j, c
            <6>2. QED
              BY <1>2, <6>1
          <5>4. QED
            BY <1>2, <4>1, <5>3
        <4> DEFINE t == ReadTimes(w, j, Len(m.results), "chunk")
        <4>3. m.type = "FETCH_RESPONSE" /\ c = Items("chunk", m.results)
          BY <4>2 DEF HasTail, TailPart
        <4>4. ReadTimes(x, j, Len(m.results), "chunk") = Got(m.results, 1 + Len(x))
          <5>1. Lies(x, j, Items("chunk", m.results)) /\ j + Len(Items("chunk", m.results)) = 1 + Len(x)
            BY <1>1, <1>2, <4>3
          <5> HIDE DEF j
          <5>2. QED
            BY <4>3, <5>1, TailItems, ItemsRead
        <4>5. Stable(t, ReadTimes(x, j, Len(m.results), "chunk"), w)
          <5>1. Len(m.results) \in Nat
            BY <4>3, TailItems
          <5> HIDE DEF j
          <5>2. QED
            BY <1>2, <4>1, <5>1, TimesStable
        <4>6. ~t.ok
          <5>1. SUFFICES ASSUME t.ok PROVE FALSE
            OBVIOUS
          <5>2. t.at = 1 + Len(x) /\ At(w, t.at)
            BY <4>4, <4>5, <5>1 DEF Stable, Got
          <5>3. QED
            BY <1>2, <5>2
        <4> HIDE DEF i, j
        <4>7. QED
          BY <2>6, <4>1, <4>2, <4>6, TailRefused
      <3>3. QED
        BY <3>1, <3>2
    <2>8. QED
      BY <2>4, <2>7, FinishFails
  <1>5. QED
    BY <1>3, <1>4

\* An item that is a chunk is one unit.
LEMMA ChunksThere ==
    ASSUME NEW w, NEW i \in Nat, NEW n \in Nat, ReadTimes(w, i, n, "chunk").ok
    PROVE  /\ ReadTimes(w, i, n, "chunk").at = i + n
           /\ \A j \in 1..n : Is(w, i + j - 1, "chunk")
  <1> DEFINE There(k) == \A j \in 1..k : Is(w, i + j - 1, "chunk")
  <1>1. PICK f : ReadsTimes(f, w, i, n, "chunk")
    BY TimesRead
  <1> DEFINE T == {k \in 0..n : f[k].ok => f[k].at = i + k /\ There(k)}
  <1>2. 0 \in T
    <2>1. f[0] = Got(<<>>, i)
      BY <1>1 DEF ReadsTimes
    <2>2. f[0].at = i + 0
      BY <2>1 DEF Got
    <2>3. QED
      BY <2>2
  <1>3. ASSUME NEW k \in 0..n - 1, k \in T PROVE k + 1 \in T
    <2> DEFINE r == f[k]
               s == ReadItem(w, r.at, "chunk")
    <2>1. f[k + 1] = TimesStep(w, "chunk", r)
      BY <1>1 DEF ReadsTimes
    <2>2. SUFFICES ASSUME f[k + 1].ok
                   PROVE  f[k + 1].at = i + (k + 1) /\ There(k + 1)
      OBVIOUS
    <2>3. r.ok /\ s.ok /\ f[k + 1] = Got(Append(r.value, s.value), s.at)
      <3>1. f[k + 1] = IF ~r.ok THEN r ELSE IF s.ok THEN Got(Append(r.value, s.value), s.at) ELSE s
        BY <2>1 DEF TimesStep
      <3> HIDE DEF r, s
      <3>2. QED
        BY <2>2, <3>1
    <2>4. r.at = i + k /\ There(k)
      BY <1>3, <2>3
    <2>5. Is(w, r.at, "chunk") /\ s.at = r.at + 1
      <3>1. s = ReadUnit(w, r.at, "chunk")
        BY DEF ReadItem
      <3>2. Is(w, r.at, "chunk")
        <4>1. SUFFICES ASSUME ~Is(w, r.at, "chunk") PROVE FALSE
          OBVIOUS
        <4>2. s = Fail("buffer")
          BY <3>1, <4>1 DEF ReadUnit
        <4>3. QED
          BY <2>3, <4>2 DEF Fail
      <3>3. s = Got(w[r.at].value, r.at + 1)
        BY <3>1, <3>2 DEF ReadUnit
      <3>4. QED
        BY <3>2, <3>3 DEF Got
    <2>6. f[k + 1].at = s.at
      <3> HIDE DEF r, s
      <3>1. QED
        BY <2>3 DEF Got
    <2>7. There(k + 1)
      <3>1. ASSUME NEW j \in 1..k + 1 PROVE Is(w, i + j - 1, "chunk")
        <4>1. CASE j \in 1..k
          BY <2>4, <4>1
        <4>2. CASE j = k + 1
          <5>1. i + j - 1 = i + k
            BY <4>2
          <5>2. QED
            BY <2>4, <2>5, <5>1
        <4>3. QED
          BY <4>1, <4>2
      <3>2. QED
        BY <3>1
    <2> HIDE DEF There, r, s
    <2>8. s.at = i + (k + 1)
      BY <2>4, <2>5
    <2>9. QED
      BY <2>6, <2>7, <2>8
  <1>4. n \in T
    <2>1. 0 \in Int /\ n \in Int /\ n \in 0..n
      OBVIOUS
    <2> HIDE DEF T
    <2>2. 0..n \subseteq T
      BY <1>2, <1>3, <2>1, Induction, Zenon
    <2>3. QED
      BY <2>1, <2>2
  <1>5. QED
    BY <1>1, <1>4 DEF ReadsTimes

\* A chunk behind the message is refused.
LEMMA ChunkRefused ==
    ASSUME NEW m \in Messages, NEW version \in Versions, Encodable(m, version),
           NEW x, x = EncodeMessage(m, version), NEW w, w = x \o WriteChunk("x")
    PROVE  ~DecodeMessage(w, version).ok
  <1> DEFINE y == WriteChunk("x")
             e == 1 + Len(x)
  <1>1. x \in Seq(Units)
    BY Parts
  <1>2. y \in Seq(Units) /\ Len(y) = 1
    BY DEF WriteChunk, Unit, Units, Values
  <1> HIDE DEF y
  <1>3. w \in Seq(Units) /\ w = x \o y
    BY <1>1, <1>2, ConcatProperties DEF y
  <1>4. Lies(w, 1, x) /\ Len(w) = Len(x) + 1
    <2>1. Lies(w, 1, x \o y)
      BY <1>3, LiesAtOne
    <2>2. QED
      BY <1>1, <1>2, <1>3, <2>1, LiesBoth
  <1>5. PICK v : DecodeMessage(w, version) = Finish(w, Got(v, e))
    BY <1>4, MessageDecoded
  <1>6. ~(e > Len(w))
    BY <1>1, <1>4
  <1>7. Finish(w, Got(v, e)) = Fail("trailing")
    BY <1>6 DEF Finish, Got
  <1>8. QED
    BY <1>5, <1>7 DEF Fail

\* What lies in x before unit z lies in w, if w is x up to there.
LEMMA LiesBefore ==
    ASSUME NEW x, NEW w, NEW z \in Nat, z <= Len(w) + 1, Len(w) \in Nat, DOMAIN w = 1..Len(w),
           \A k \in 1..z - 1 : w[k] = x[k],
           NEW y, NEW i, Lies(x, i, y), i + Len(y) <= z
    PROVE  Lies(w, i, y)
  <1>1. i \in Nat \ {0} /\ Len(y) \in Nat
    BY DEF Lies
  <1>2. i + Len(y) - 1 <= Len(w)
    BY <1>1
  <1>3. ASSUME NEW j \in 1..Len(y) PROVE w[i + j - 1] = y[j]
    <2>1. x[i + j - 1] = y[j]
      BY DEF Lies
    <2>2. i + j - 1 \in 1..z - 1
      BY <1>1
    <2>3. QED
      BY <2>1, <2>2
  <1>4. QED
    BY <1>1, <1>2, <1>3 DEF Lies

\* Where the last unit of x was, w has a field of another layout.
StrangeEnd(w, x) ==
    /\ Len(w) \in Nat /\ DOMAIN w = 1..Len(w) /\ Len(x) <= Len(w)
    /\ \A k \in 1..Len(x) - 1 : w[k] = x[k]
    /\ IsField(w, Len(x), 9)

\* The wire with a field more is x up to that field.
LEMMA IsStrangeEnd ==
    ASSUME NEW x \in Seq(Units), Len(x) > 0, NEW w,
           w = SubSeq(x, 1, Len(x) - 1) \o FieldId(9) \o WriteText("x") \o FieldId(FIELD_END)
    PROVE  StrangeEnd(w, x)
  <1> DEFINE n == Len(x) - 1
             p == SubSeq(x, 1, n)
             f == Unit("field", 9)
             t == Unit("text", "x")
             e == Unit("field", FIELD_END)
  <1>1. n \in Nat /\ n <= Len(x) /\ n + 1 = Len(x)
    OBVIOUS
  <1>2. p \in Seq(Units) /\ Len(p) = n /\ \A k \in 1..n : p[k] = x[k]
    BY <1>1
  <1>3. f \in Units /\ t \in Units /\ e \in Units
    BY DEF Unit, Units, Values, FIELD_END
  <1>4. w = p \o <<f>> \o <<t>> \o <<e>>
    BY DEF FieldId, WriteText
  <1>5. f.unit = "field" /\ f.value = 9
    BY DEF Unit
  <1> HIDE DEF n, p, f, t, e, Units
  <1>6. /\ w \in Seq(Units) /\ Len(w) = n + 3
        /\ \A k \in 1..n : w[k] = p[k]
        /\ w[n + 1] = f
    <2> DEFINE q == p \o <<f>>
               r == q \o <<t>>
    <2>1. q \in Seq(Units) /\ Len(q) = n + 1 /\ q[n + 1] = f /\ \A k \in 1..n : q[k] = p[k]
      BY <1>1, <1>2, <1>3
    <2> HIDE DEF q
    <2>2. r \in Seq(Units) /\ Len(r) = n + 2 /\ \A k \in 1..n + 1 : r[k] = q[k]
      BY <1>1, <1>3, <2>1
    <2> HIDE DEF r
    <2>3. w = r \o <<e>>
      BY <1>4 DEF q, r
    <2> DEFINE s == r \o <<e>>
    <2>4. s \in Seq(Units) /\ Len(s) = n + 3 /\ \A k \in 1..n + 2 : s[k] = r[k]
      BY <1>1, <1>3, <2>2
    <2> HIDE DEF s
    <2>5. \A k \in 1..n : s[k] = p[k]
      BY <1>1, <2>1, <2>2, <2>4
    <2>6. s[n + 1] = f
      BY <1>1, <2>1, <2>2, <2>4
    <2>7. w = s
      BY <2>3 DEF s
    <2>8. QED
      BY <2>4, <2>5, <2>6, <2>7
  <1>7. Len(w) \in Nat /\ DOMAIN w = 1..Len(w) /\ Len(x) <= Len(w) /\ Len(x) \in 1..Len(w)
    <2>1. DOMAIN w = 1..Len(w)
      BY <1>6
    <2>2. QED
      BY <1>1, <1>6, <2>1, SMTT(30)
  <1>8. \A k \in 1..Len(x) - 1 : w[k] = x[k]
    BY <1>1, <1>2, <1>6
  <1>9. IsField(w, Len(x), 9)
    <2>1. w[Len(x)] = f
      BY <1>1, <1>6
    <2>2. QED
      BY <1>5, <1>7, <2>1 DEF IsField, Is
  <1>10. QED
    BY <1>7, <1>8, <1>9 DEF StrangeEnd

\* A message that ends in a field that its layout has not is refused.
LEMMA StrangeRefused ==
    ASSUME NEW m \in Messages, NEW version \in Versions, Encodable(m, version),
           NEW x, x = EncodeMessage(m, version), NEW w, StrangeEnd(w, x)
    PROVE  ~DecodeMessage(w, version).ok
  <1> DEFINE a == HeaderPart(m)
             b == BodyPart(m, version)
             c == TailPart(m, version)
             i == 1 + Len(a)
             j == i + Len(b)
             F == Written(m.type, version)
             G == ReadBy(m.type, version)
             known == Before(m, version)
             flat == Flat(Pieces(m, F), 8)
  <1>1. /\ x \in Seq(Units) /\ Len(x) = Len(a) + Len(b) + Len(c)
        /\ Len(a) \in Nat /\ Len(b) \in Nat /\ Len(c) \in Nat
        /\ Lies(x, 1, a) /\ Lies(x, i, b) /\ Lies(x, j, c)
    <2>1. x \in Seq(Units) /\ Lies(x, 1, x)
      BY Parts, LiesAtOne
    <2>2. QED
      BY <2>1, Parts
  <1>2. /\ Counts(F) /\ Fills(m, F) /\ Matches(m, F, G) /\ Distinct(G, known)
        /\ \A k \in Len(G) + 1..8 : Pieces(m, F)[k] = <<>>
    BY BodyFits
  <1>3. Len(flat) \in Nat /\ Len(b) = Len(flat) + 1 /\ Lies(x, i, flat)
    <2> DEFINE d == FieldId(FIELD_END)
    <2>1. b = flat \o d /\ flat \in Seq(Units) /\ d \in Seq(Units) /\ Len(d) = 1
      BY <1>2, ObjectPieces DEF BodyPart
    <2>2. Lies(x, i, b)
      BY <1>1
    <2> HIDE DEF a, b, c, d, i, j, flat
    <2>3. Lies(x, i, flat) /\ Len(flat \o d) = Len(flat) + Len(d)
      BY <2>1, <2>2, LiesBoth
    <2>4. QED
      BY <2>1, <2>3
  <1>4. /\ Len(x) \in Nat /\ i \in Nat /\ j \in Nat /\ j + Len(c) = 1 + Len(x)
        /\ 1 + Len(a) <= Len(x) /\ i + Len(flat) + 1 = j
    <2>1. Len(x) \in Nat
      BY <1>1
    <2> HIDE DEF a, b, c, flat
    <2>2. QED
      BY <1>1, <1>3, <2>1
  <1>5. ASSUME NEW y, NEW k, Lies(x, k, y), k + Len(y) <= Len(x)
        PROVE  Lies(w, k, y)
    <2>1. Len(x) <= Len(w) + 1
      BY <1>4 DEF StrangeEnd
    <2>2. QED
      BY <1>4, <1>5, <2>1, LiesBefore DEF StrangeEnd
  <1>6. DecodeMessage(w, version) = Finish(w, DecodeBody(w, i, m, version))
    BY <1>1, <1>4, <1>5, HeaderDecoded
  <1>7. ~DecodeBody(w, i, m, version).ok
    <2>1. CASE Len(c) = 0
      <3>0. ~Fail("end of object").ok
        BY DEF Fail
      <3> DEFINE z == i + Len(flat)
                 s == BodyObject(w, i, m, version)
      <3>1. z = Len(x) /\ i + Len(flat) <= Len(x)
        <4> HIDE DEF a, b, c, i, j, flat
        <4>1. QED
          BY <1>3, <1>4, <2>1
      <3>2. Lies(w, i, flat) /\ IsField(w, z, 9)
        BY <1>3, <1>5, <3>1 DEF StrangeEnd
      <3>3. ReadObject(w, i, known, G) = Fail("end of object")
        <4> HIDE DEF F, G, known, i
        <4>1. QED
          BY <1>2, <3>2, StrangeObject
      <3>4. s = Fail("end of object")
        BY <3>3 DEF BodyObject
      <3>5. ~s.ok
        BY <3>0, <3>4
      <3>6. DecodeBody(w, i, m, version) = s
        <4> HIDE DEF i
        <4>1. QED
          BY <3>5, BodyDecoding
      <3>7. QED
        BY <3>5, <3>6
    <2>2. CASE Len(c) # 0
      <3> DEFINE n == Len(m.results)
                 t == ReadTimes(w, j, n, "chunk")
      <3>1. HasTail(m.type, version)
        <4>1. SUFFICES ASSUME ~HasTail(m.type, version) PROVE FALSE
          OBVIOUS
        <4>2. c = <<>>
          BY <4>1 DEF TailPart
        <4>3. Len(c) = 0
          BY <4>2
        <4>4. QED
          BY <2>2, <4>3
      <3>2. m.type = "FETCH_RESPONSE" /\ c = Items("chunk", m.results) /\ n \in Nat
        BY <3>1, TailItems DEF HasTail, TailPart
      <3>3. j <= Len(x)
        <4> HIDE DEF a, b, c, i, j, flat
        <4>1. QED
          BY <1>1, <1>4, <2>2
      <3>4. Lies(w, i, b)
        BY <1>1, <1>5, <3>3
      <3>5. PICK v : BodyObject(w, i, m, version) = Got(v, j) /\ IsBody(v, m, version)
        <4>1. Lies(w, i, BodyPart(m, version)) /\ j = i + Len(BodyPart(m, version))
          BY <3>4
        <4> HIDE DEF i, j, a, b, c
        <4>2. QED
          BY <4>1, BodyObjectRead
      <3>6. n = Len(c)
        <4> DEFINE u == ReadTimes(x, j, n, "chunk")
        <4>1. u = Got(m.results, j + Len(c))
          <5>1. Lies(x, j, Items("chunk", m.results))
            BY <1>1, <3>2
          <5> HIDE DEF j
          <5>2. QED
            BY <3>2, <5>1, TailItems, ItemsRead
        <4>2. u.ok /\ u.at = j + Len(c)
          BY <4>1 DEF Got
        <4>3. u.at = j + n
          <5> HIDE DEF j, n
          <5>1. QED
            BY <1>4, <3>2, <4>2, ChunksThere
        <4> HIDE DEF a, b, c, i, j, n, u
        <4>4. QED
          BY <1>1, <1>4, <3>2, <4>2, <4>3
      <3>7. ~t.ok
        <4>1. SUFFICES ASSUME t.ok PROVE FALSE
          OBVIOUS
        <4>2. n \in 1..n /\ j + n - 1 = Len(x)
          <5> HIDE DEF a, b, c, i, j, n
          <5>1. QED
            BY <1>1, <1>4, <2>2, <3>2, <3>6
        <4>3. Is(w, j + n - 1, "chunk")
          <5> HIDE DEF j, n
          <5>1. QED
            BY <1>4, <3>2, <4>1, <4>2, ChunksThere
        <4>4. Is(w, Len(x), "field")
          BY DEF StrangeEnd, IsField
        <4>5. QED
          BY <4>2, <4>3, <4>4 DEF Is
      <3> HIDE DEF i, j
      <3>8. QED
        BY <3>1, <3>5, <3>7, TailRefused
    <2>3. QED
      BY <2>1, <2>2
  <1>8. QED
    BY <1>6, <1>7, FinishFails

\* A message is not empty.
LEMMA NotEmpty ==
    ASSUME NEW m \in Messages, NEW version \in Versions, Encodable(m, version)
    PROVE  Len(EncodeMessage(m, version)) > 0
  <1> DEFINE a == HeaderPart(m)
             b == BodyPart(m, version)
             c == TailPart(m, version)
             d == FieldId(FIELD_END)
             flat == Flat(Pieces(m, WrittenHeader), 8)
  <1>1. a = flat \o d /\ flat \in Seq(Units) /\ d \in Seq(Units) /\ Len(d) = 1
    BY HeaderFits, ObjectPieces DEF HeaderPart
  <1>2. /\ Len(EncodeMessage(m, version)) = Len(a) + Len(b) + Len(c)
        /\ Len(a) \in Nat /\ Len(b) \in Nat /\ Len(c) \in Nat
    BY Parts
  <1> HIDE DEF a, b, c, d, flat
  <1>3. Len(a) = Len(flat) + 1 /\ Len(flat) \in Nat
    <2>1. flat \in Seq(Units) /\ d \in Seq(Units)
      BY <1>1
    <2>2. Len(flat \o d) = Len(flat) + Len(d) /\ Len(flat) \in Nat
      BY <2>1
    <2>3. QED
      BY <1>1, <2>2
  <1>4. QED
    BY <1>2, <1>3

\* Whatever message is cut off, or has a field or a chunk that its layout has not, is
\* never taken for another (messages.rs:214, binary.rs:232-247).
THEOREM AlterationsAreRefused == Spec => []AlteredIsRefused
  <1>1. WireInv => AlteredIsRefused
    <2> SUFFICES ASSUME WireInv, stage = "alteredRead", readAs = sentAs PROVE ~result.ok
      BY DEF AlteredIsRefused
    <2> DEFINE x == EncodeMessage(message, sentAs)
    <2>1. /\ message \in Messages /\ sentAs \in Versions /\ Encodable(message, sentAs)
          /\ result = DecodeMessage(wire, sentAs) /\ Altered(wire, x)
      BY DEF WireInv
    <2>2. x \in Seq(Units) /\ Len(x) \in Nat
      BY <2>1, Parts
    <2>3. CASE \E n \in 0..Len(x) - 1 : wire = SubSeq(x, 1, n)
      <3>1. PICK n \in 0..Len(x) - 1 : wire = SubSeq(x, 1, n)
        BY <2>3
      <3>2. Begins(wire, x) /\ Len(wire) < Len(x)
        <4> HIDE DEF x
        <4>1. QED
          BY <2>2, <3>1 DEF Begins
      <3>3. QED
        BY <2>1, <3>2, CutRefused
    <2>4. CASE wire = SubSeq(x, 1, Len(x) - 1) \o FieldId(9) \o WriteText("x") \o FieldId(FIELD_END)
      <3>1. Len(x) > 0
        BY <2>1, <2>2, NotEmpty
      <3>2. StrangeEnd(wire, x)
        BY <2>2, <2>4, <3>1, IsStrangeEnd
      <3>3. QED
        BY <2>1, <3>2, StrangeRefused
    <2>5. CASE wire = x \o WriteChunk("x")
      BY <2>1, <2>5, ChunkRefused
    <2>6. QED
      BY <2>1, <2>3, <2>4, <2>5 DEF Altered
  <1>2. QED
    BY <1>1, WireInvariant, PTL

===============================================================================

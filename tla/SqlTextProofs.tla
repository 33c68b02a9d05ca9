----------------------------- MODULE SqlTextProofs -----------------------------
(***************************************************************************)
(* Proofs about SqlText: for every query, all parameters and every depth   *)
(* to which their lists nest.                                              *)
(***************************************************************************)
EXTENDS SqlText, DataInduction, FiniteSetTheorems

-------------------------------------------------------------------------------
(* What the lexer that reads one character at a time does *)

ModeNames == {"code", "text", "name", "line", "opening", "block", "closing"}

\* A mode is followed by a mode.
LEMMA AfterIsMode ==
    ASSUME NEW m \in ModeNames, NEW c, NEW d
    PROVE  After(m, c, d) \in ModeNames
  BY DEF After, ModeNames

\* The modes of a text: the recursion of Modes has a solution.
LEMMA ModesStep ==
    ASSUME NEW s, Len(s) \in Nat
    PROVE  /\ Modes(s) \in [1..Len(s) + 1 -> ModeNames]
           /\ Modes(s)[1] = "code"
           /\ \A i \in 1..Len(s) :
                 Modes(s)[i + 1] = After(Modes(s)[i], s[i], At(s, i + 1))
  <1> DEFINE n == Len(s) + 1
             Step == [i \in 1..n |-> [m \in ModeNames |-> After(m, s[i - 1], At(s, i))]]
             mode == CHOOSE f : f = [i \in 1..Len(s) + 1 |->
                        IF i = 1 THEN "code" ELSE After(f[i - 1], s[i - 1], At(s, i))]
  <1>1. /\ n \in Nat /\ n = Len(s) + 1 /\ 1 \in 1..n /\ n \in Int /\ 1 \in Int
        /\ "code" \in ModeNames
    BY DEF ModeNames
  <1>2. \A i \in 1..n, m \in ModeNames : Step[i][m] = After(m, s[i - 1], At(s, i))
    OBVIOUS
  <1>3. Step \in [1..n -> [ModeNames -> ModeNames]]
    BY AfterIsMode
  <1> HIDE DEF Step, n
  <1>4. PICK f \in [1..n -> ModeNames] : Recurses(f, n, "code", Step)
    BY <1>1, <1>3, RecursiveOn
  <1>5. ASSUME NEW i \in 1..n, i # 1
        PROVE  Step[i][f[i - 1]] = After(f[i - 1], s[i - 1], At(s, i))
    <2>1. i - 1 \in 1..n
      BY <1>1, <1>5
    <2>2. QED
      BY <1>2, <1>4, <1>5, <2>1
  <1>6. f = [i \in 1..Len(s) + 1 |->
                IF i = 1 THEN "code" ELSE After(f[i - 1], s[i - 1], At(s, i))]
    BY <1>1, <1>4, <1>5 DEF Recurses
  <1>7. mode = [i \in 1..Len(s) + 1 |->
                   IF i = 1 THEN "code" ELSE After(mode[i - 1], s[i - 1], At(s, i))]
    BY <1>6
  <1>8. Modes(s) = mode
    BY DEF Modes
  <1> HIDE DEF mode
  <1>9. mode[1] = "code"
    BY <1>1, <1>7
  <1>10. ASSUME NEW i \in 1..Len(s)
         PROVE  mode[i + 1] = After(mode[i], s[i], At(s, i + 1))
    <2>1. i + 1 \in 1..Len(s) + 1 /\ i + 1 # 1 /\ (i + 1) - 1 = i
      OBVIOUS
    <2>2. QED
      BY <1>7, <2>1
  <1> DEFINE T == {i \in 1..n : mode[i] \in ModeNames}
  <1>11. 1 \in T
    BY <1>1, <1>9
  <1>12. ASSUME NEW k \in 1..n - 1, k \in T PROVE k + 1 \in T
    <2>1. k + 1 \in 1..n /\ k \in 1..Len(s)
      BY <1>1
    <2>2. mode[k + 1] \in ModeNames
      BY <1>10, <1>12, <2>1, AfterIsMode
    <2>3. QED
      BY <2>1, <2>2
  <1>13. 1..n \subseteq T
    <2> HIDE DEF T
    <2>1. QED
      BY <1>1, <1>11, <1>12, Induction, Zenon
  <1>14. mode \in [1..Len(s) + 1 -> ModeNames]
    BY <1>1, <1>7, <1>13
  <1>15. QED
    BY <1>8, <1>9, <1>10, <1>14

\* In which mode of sql a region's characters are.
Mode(i) == Modes(sql)[i]

\* The characters of a text, and what At says of them.
LEMMA Typed ==
    ASSUME NEW s \in Seq(STRING)
    PROVE  /\ Len(s) \in Nat
           /\ DOMAIN s = 1..Len(s)
           /\ \A i \in 1..Len(s) : s[i] \in STRING /\ At(s, i) = s[i]
           /\ \A i \in Int : i \notin 1..Len(s) => At(s, i) = "end"
  <1>1. Len(s) \in Nat /\ DOMAIN s = 1..Len(s)
    OBVIOUS
  <1>2. \A i : At(s, i) = IF i \in 1..Len(s) THEN s[i] ELSE "end"
    BY <1>1 DEF At
  <1>3. QED
    BY <1>1, <1>2

\* The mode of the query after one more character.
LEMMA ModeStep ==
    ASSUME sql \in Seq(STRING), NEW i \in 1..Len(sql)
    PROVE  /\ Mode(i) \in ModeNames
           /\ Mode(i + 1) = After(Mode(i), sql[i], At(sql, i + 1))
  <1>1. i \in 1..Len(sql) + 1 /\ Len(sql) \in Nat
    BY Typed
  <1>2. QED
    BY <1>1, ModesStep DEF Mode

-------------------------------------------------------------------------------
(* The quoted texts and the comments that the scanner finds *)

\* The recursion of QuotedEnd has a solution.
EndsFrom(f, q, k) ==
    f = [j \in k..Len(sql) + 1 |->
            IF j > Len(sql) THEN j
            ELSE IF sql[j] # q THEN f[j + 1]
            ELSE IF At(sql, j + 1) = q THEN f[j + 2]
            ELSE j + 1]

\* Such a function exists: from the end of the query back to its start.
LEMMA EndsExist ==
    ASSUME sql \in Seq(STRING), NEW q \in STRING, q # "end"
    PROVE  \E f : EndsFrom(f, q, 1)
  <1> DEFINE n == Len(sql) + 1
             T == {k \in 0..n - 1 : \E f : EndsFrom(f, q, n - k)}
  <1>1. /\ n \in Nat /\ n \in Int /\ n - 1 \in Int /\ 0 \in Int /\ n - 1 \in 0..n - 1
        /\ n = Len(sql) + 1 /\ Len(sql) \in Nat
    <2>1. Len(sql) \in Nat
      BY Typed
    <2>2. QED
      BY <2>1
  <1>2. 0 \in T
    <2> DEFINE g == [j \in n - 0..Len(sql) + 1 |-> j]
    <2>1. ASSUME NEW j \in n - 0..Len(sql) + 1 PROVE j > Len(sql)
      BY <1>1
    <2>2. EndsFrom(g, q, n - 0)
      BY <2>1 DEF EndsFrom
    <2>3. 0 \in 0..n - 1
      BY <1>1
    <2>4. QED
      BY <2>2, <2>3
  <1>3. ASSUME NEW k \in 0..(n - 1) - 1, k \in T PROVE k + 1 \in T
    <2> DEFINE m == n - (k + 1)
    <2>1. /\ m \in 1..Len(sql) /\ m \in Int /\ n - k = m + 1
          /\ k + 1 \in 0..n - 1 /\ m = n - (k + 1)
      BY <1>1
    <2> HIDE DEF m
    <2>2. PICK f : EndsFrom(f, q, m + 1)
      BY <1>3, <2>1
    <2>3. \A j \in m + 1..Len(sql) + 1 :
             f[j] = IF j > Len(sql) THEN j
                    ELSE IF sql[j] # q THEN f[j + 1]
                    ELSE IF At(sql, j + 1) = q THEN f[j + 2]
                    ELSE j + 1
      BY <2>2 DEF EndsFrom
    <2> DEFINE e == IF sql[m] # q THEN f[m + 1]
                    ELSE IF At(sql, m + 1) = q THEN f[m + 2]
                    ELSE m + 1
               g == [j \in m..Len(sql) + 1 |-> IF j = m THEN e ELSE f[j]]
    <2>4. ASSUME NEW j \in m..Len(sql) + 1
          PROVE  g[j] = IF j > Len(sql) THEN j
                        ELSE IF sql[j] # q THEN g[j + 1]
                        ELSE IF At(sql, j + 1) = q THEN g[j + 2]
                        ELSE j + 1
      <3>1. j <= Len(sql) => j + 1 \in m + 1..Len(sql) + 1 /\ g[j + 1] = f[j + 1]
        BY <1>1, <2>1
      <3>2. j <= Len(sql) /\ At(sql, j + 1) = q =>
               j + 2 \in m + 1..Len(sql) + 1 /\ g[j + 2] = f[j + 2]
        <4>1. j <= Len(sql) /\ At(sql, j + 1) = q => j + 1 <= Len(sql)
          BY <1>1, <2>1, Typed
        <4>2. QED
          BY <1>1, <2>1, <4>1
      <3>3. CASE j = m
        BY <1>1, <2>1, <3>1, <3>2, <3>3
      <3>4. CASE j # m
        <4>1. j \in m + 1..Len(sql) + 1 /\ g[j] = f[j]
          BY <1>1, <2>1, <3>4
        <4>2. f[j] = IF j > Len(sql) THEN j
                     ELSE IF sql[j] # q THEN f[j + 1]
                     ELSE IF At(sql, j + 1) = q THEN f[j + 2]
                     ELSE j + 1
          BY <2>3, <4>1
        <4> HIDE DEF g
        <4>3. QED
          BY <1>1, <2>1, <3>1, <3>2, <4>1, <4>2
      <3>5. QED
        BY <3>3, <3>4
    <2>5. EndsFrom(g, q, m)
      BY <2>4 DEF EndsFrom
    <2>6. QED
      BY <1>1, <2>1, <2>5
  <1>4. n - 1 \in T
    <2> HIDE DEF T
    <2>1. 0..n - 1 \subseteq T
      BY <1>1, <1>2, <1>3, Induction, Zenon
    <2>2. QED
      BY <1>1, <2>1
  <1>5. n - (n - 1) = 1
    BY <1>1
  <1>6. QED
    BY <1>4, <1>5

\* Where the end of a quoted text is found.
LEMMA QuotedEndSteps ==
    ASSUME sql \in Seq(STRING), NEW q \in STRING, q # "end"
    PROVE  \E f : /\ \A i \in 1..Len(sql) : QuotedEnd(q, i) = f[i + 1]
                  /\ f[Len(sql) + 1] = Len(sql) + 1
                  /\ \A j \in 1..Len(sql) :
                        f[j] = IF sql[j] # q THEN f[j + 1]
                               ELSE IF At(sql, j + 1) = q THEN f[j + 2]
                               ELSE j + 1
  <1> DEFINE end == CHOOSE f : f = [j \in 1..Len(sql) + 1 |->
                        IF j > Len(sql) THEN j
                        ELSE IF sql[j] # q THEN f[j + 1]
                        ELSE IF At(sql, j + 1) = q THEN f[j + 2]
                        ELSE j + 1]
  <1>1. end = [j \in 1..Len(sql) + 1 |->
                  IF j > Len(sql) THEN j
                  ELSE IF sql[j] # q THEN end[j + 1]
                  ELSE IF At(sql, j + 1) = q THEN end[j + 2]
                  ELSE j + 1]
    BY EndsExist DEF EndsFrom
  <1>2. \A i : QuotedEnd(q, i) = end[i + 1]
    BY DEF QuotedEnd
  <1> HIDE DEF end
  <1>3. Len(sql) \in Nat
    BY Typed
  <1>4. \A j \in 1..Len(sql) : j \in 1..Len(sql) + 1 /\ ~(j > Len(sql))
    BY <1>3
  <1>5. Len(sql) + 1 \in 1..Len(sql) + 1 /\ Len(sql) + 1 > Len(sql)
    BY <1>3
  <1>6. QED
    BY <1>1, <1>2, <1>4, <1>5

\* The mode within quotes q.
Within(q) == IF q = "'" THEN "text" ELSE "name"

\* A quote opens the mode within quotes, and only the same quote ends it.
LEMMA AfterQuote ==
    ASSUME NEW q \in {"'", DoubleQuote}
    PROVE  /\ Within(q) # "code"
           /\ \A d : After("code", q, d) = Within(q)
           /\ \A c, d : After(Within(q), c, d) = IF c = q THEN "code" ELSE Within(q)
  BY DEF Within, After, DoubleQuote

\* From j, in quotes, to where they end.
Closes(f, q, j) ==
    Mode(j) = Within(q) =>
        /\ f[j] \in j..Len(sql) + 1
        /\ f[j] <= Len(sql) => Mode(f[j]) = "code"
        /\ \A k \in j..f[j] - 1 : Mode(k) = "code" => sql[k] = q

\* read_single_quoted and read_double_quoted (sql.rs:271-301) end where the quotes do.
LEMMA QuotesClose ==
    ASSUME sql \in Seq(STRING), NEW q \in {"'", DoubleQuote}, NEW f,
           f[Len(sql) + 1] = Len(sql) + 1,
           \A j \in 1..Len(sql) :
               f[j] = IF sql[j] # q THEN f[j + 1]
                      ELSE IF At(sql, j + 1) = q THEN f[j + 2]
                      ELSE j + 1
    PROVE  \A j \in 1..Len(sql) + 1 : Closes(f, q, j)
  <1> DEFINE n == Len(sql)
             T == {d \in 0..n : \A j \in n + 1 - d..n + 1 : Closes(f, q, j)}
  <1>1. n \in Nat /\ n \in Int /\ 0 \in Int /\ 0 \in 0..n /\ n = Len(sql)
    BY Typed
  <1>2. 0 \in T
    <2>1. \A j \in n + 1 - 0..n + 1 : j = n + 1
      BY <1>1
    <2>2. Closes(f, q, n + 1)
      BY <1>1 DEF Closes
    <2>3. QED
      BY <1>1, <2>1, <2>2
  <1>3. ASSUME NEW d \in 0..n - 1, d \in T PROVE d + 1 \in T
    <2> DEFINE j == n - d
    <2>1. /\ j \in 1..n /\ j \in Int /\ d + 1 \in 0..n
          /\ n + 1 - (d + 1) = j /\ n + 1 - d = j + 1
      BY <1>1
    <2>2. \A k \in j + 1..n + 1 : Closes(f, q, k)
      BY <1>3, <2>1
    <2> HIDE DEF j
    <2>3. Closes(f, q, j)
      <3> SUFFICES ASSUME Mode(j) = Within(q)
                   PROVE  /\ f[j] \in j..n + 1
                          /\ f[j] <= n => Mode(f[j]) = "code"
                          /\ \A k \in j..f[j] - 1 : Mode(k) = "code" => sql[k] = q
        BY <1>1 DEF Closes
      <3>1. Mode(j + 1) = IF sql[j] = q THEN "code" ELSE Within(q)
        BY <1>1, <2>1, ModeStep, AfterQuote
      <3>2. Mode(j) # "code"
        BY AfterQuote
      <3>3. CASE sql[j] # q
        <4>1. f[j] = f[j + 1] /\ Mode(j + 1) = Within(q) /\ j + 1 \in j + 1..n + 1
          BY <1>1, <2>1, <3>1, <3>3
        <4>2. /\ f[j + 1] \in j + 1..n + 1
              /\ f[j + 1] <= n => Mode(f[j + 1]) = "code"
              /\ \A k \in j + 1..f[j + 1] - 1 : Mode(k) = "code" => sql[k] = q
          BY <1>1, <2>2, <4>1 DEF Closes
        <4>3. QED
          BY <1>1, <2>1, <3>2, <4>1, <4>2
      <3>4. CASE sql[j] = q /\ At(sql, j + 1) = q
        <4>1. j + 1 \in 1..n /\ sql[j + 1] = q
          <5>1. q # "end"
            BY DEF DoubleQuote
          <5>2. QED
            BY <1>1, <2>1, <3>4, <5>1, Typed
        <4>2. Mode(j + 1) = "code" /\ Mode((j + 1) + 1) = Within(q) /\ (j + 1) + 1 = j + 2
          BY <1>1, <2>1, <3>1, <3>4, <4>1, ModeStep, AfterQuote
        <4>3. f[j] = f[j + 2] /\ j + 2 \in j + 1..n + 1
          BY <1>1, <2>1, <3>4, <4>1
        <4>4. /\ f[j + 2] \in j + 2..n + 1
              /\ f[j + 2] <= n => Mode(f[j + 2]) = "code"
              /\ \A k \in j + 2..f[j + 2] - 1 : Mode(k) = "code" => sql[k] = q
          BY <1>1, <2>2, <4>2, <4>3 DEF Closes
        <4>5. \A k \in j..f[j] - 1 : k = j \/ k = j + 1 \/ k \in j + 2..f[j] - 1
          BY <1>1, <2>1, <4>3, <4>4
        <4>6. \A k \in j..f[j] - 1 : Mode(k) = "code" => sql[k] = q
          BY <3>4, <4>1, <4>3, <4>4, <4>5
        <4>7. QED
          BY <1>1, <2>1, <4>1, <4>3, <4>4, <4>6
      <3>5. CASE sql[j] = q /\ At(sql, j + 1) # q
        <4>1. f[j] = j + 1 /\ Mode(j + 1) = "code"
          BY <1>1, <2>1, <3>1, <3>5
        <4>2. QED
          BY <1>1, <2>1, <3>2, <4>1
      <3>6. QED
        BY <3>3, <3>4, <3>5
    <2>4. \A k \in j..n + 1 : Closes(f, q, k)
      BY <1>1, <2>1, <2>2, <2>3
    <2>5. QED
      BY <2>1, <2>4
  <1>4. n \in T
    <2> HIDE DEF T
    <2>1. 0..n \subseteq T
      BY <1>1, <1>2, <1>3, Induction, Zenon
    <2>2. QED
      BY <1>1, <2>1
  <1>5. n + 1 - n = 1
    BY <1>1
  <1>6. QED
    BY <1>4, <1>5

\* What starts at i and ends at e holds no placeholder: what looks like code in it
\* is a sign that opens it or a doubled quote.
IsRegion(i, e) ==
    /\ e \in i + 1..Len(sql) + 1
    /\ \A k \in i..e - 1 : Mode(k) = "code" => sql[k] \in {"'", DoubleQuote, "-", "/"}

\* Where the scanner may be: in code, or at the end of a line comment.
Boundary(i) ==
    i <= Len(sql) => Mode(i) = "code" \/ (Mode(i) = "line" /\ sql[i] = "newline")

\* What is quoted is a region (sql.rs:216-227).
LEMMA QuotedRegion ==
    ASSUME sql \in Seq(STRING), NEW i \in 1..Len(sql), Mode(i) = "code",
           sql[i] \in {"'", DoubleQuote}
    PROVE  IsRegion(i, QuotedEnd(sql[i], i)) /\ Boundary(QuotedEnd(sql[i], i))
  <1> DEFINE q == sql[i]
  <1>1. q \in STRING /\ q # "end" /\ q \in {"'", DoubleQuote} /\ Len(sql) \in Nat
    BY Typed DEF DoubleQuote
  <1>2. Mode(i + 1) = Within(q)
    BY ModeStep, AfterQuote
  <1> HIDE DEF q
  <1>3. PICK f : /\ \A j \in 1..Len(sql) : QuotedEnd(q, j) = f[j + 1]
                 /\ f[Len(sql) + 1] = Len(sql) + 1
                 /\ \A j \in 1..Len(sql) :
                       f[j] = IF sql[j] # q THEN f[j + 1]
                              ELSE IF At(sql, j + 1) = q THEN f[j + 2]
                              ELSE j + 1
    BY <1>1, QuotedEndSteps
  <1>4. Closes(f, q, i + 1)
    <2>1. \A j \in 1..Len(sql) + 1 : Closes(f, q, j)
      BY <1>1, <1>3, QuotesClose
    <2>2. QED
      BY <1>1, <2>1
  <1>5. QuotedEnd(q, i) = f[i + 1]
    BY <1>3
  <1>6. /\ f[i + 1] \in i + 1..Len(sql) + 1
        /\ f[i + 1] <= Len(sql) => Mode(f[i + 1]) = "code"
        /\ \A k \in i + 1..f[i + 1] - 1 : Mode(k) = "code" => sql[k] = q
    BY <1>2, <1>4 DEF Closes
  <1>7. \A k \in i..f[i + 1] - 1 : k = i \/ k \in i + 1..f[i + 1] - 1
    BY <1>1, <1>6
  <1>8. IsRegion(i, f[i + 1]) /\ Boundary(f[i + 1])
    BY <1>1, <1>6, <1>7 DEF IsRegion, Boundary, q
  <1>9. QED
    BY <1>5, <1>8 DEF q

\* While nothing changes the mode, it stays.
LEMMA ModeStays ==
    ASSUME sql \in Seq(STRING), NEW m, NEW a \in 1..Len(sql) + 1,
           NEW b \in a..Len(sql) + 1, Mode(a) = m,
           \A k \in a..b - 1 : After(m, sql[k], At(sql, k + 1)) = m
    PROVE  \A k \in a..b : Mode(k) = m
  <1> DEFINE T == {k \in a..b : Mode(k) = m}
  <1>1. a \in Int /\ b \in Int /\ a \in T /\ Len(sql) \in Nat
    BY Typed
  <1>2. ASSUME NEW k \in a..b - 1, k \in T PROVE k + 1 \in T
    <2>1. k \in 1..Len(sql) /\ k + 1 \in a..b
      BY <1>1
    <2>2. QED
      BY <1>2, <2>1, ModeStep
  <1>3. a..b \subseteq T
    <2> HIDE DEF T
    <2>1. QED
      BY <1>1, <1>2, Induction, Zenon
  <1>4. QED
    BY <1>3

\* The first c from i on.
LEMMA FindOne ==
    ASSUME NEW s \in Seq(STRING), NEW c, NEW i \in Nat, i >= 1
    PROVE  \/ Find(s, <<c>>, i) = 0 /\ \A k \in i..Len(s) : s[k] # c
           \/ /\ Find(s, <<c>>, i) \in i..Len(s) /\ s[Find(s, <<c>>, i)] = c
              /\ \A k \in i..Find(s, <<c>>, i) - 1 : s[k] # c
  <1> DEFINE found == {j \in i..Len(s) - Len(<<c>>) + 1 :
                          SubSeq(s, j, j + Len(<<c>>) - 1) = <<c>>}
  <1>1. Len(s) \in Nat /\ Len(<<c>>) = 1
    BY Typed
  <1>2. \A j \in i..Len(s) : SubSeq(s, j, j + 1 - 1) = <<s[j]>>
    <2> TAKE j \in i..Len(s)
    <2>1. SubSeq(s, j, j) = <<s[j]>>
      <3>1. /\ SubSeq(s, j, j) \in Seq(STRING) /\ Len(SubSeq(s, j, j)) = 1
            /\ SubSeq(s, j, j)[1] = s[j]
        BY <1>1, SubSeqProperties
      <3>2. <<s[j]>> \in Seq(STRING)
        BY <1>1
      <3> DEFINE a == SubSeq(s, j, j)
                 b == <<s[j]>>
      <3>3. Len(a) = Len(b) /\ \A k \in 1..Len(a) : a[k] = b[k]
        BY <3>1
      <3>6. a \in Seq(STRING) /\ b \in Seq(STRING)
        BY <3>1, <3>2
      <3> HIDE DEF a, b
      <3>4. a = b
        BY <3>3, <3>6, SeqEqual
      <3>5. QED
        BY <3>4 DEF a, b
    <2>2. QED
      BY <2>1, <1>1
  <1>3. found = {j \in i..Len(s) : s[j] = c}
    <2>1. i..Len(s) - 1 + 1 = i..Len(s)
      BY <1>1
    <2>2. \A j \in i..Len(s) : <<s[j]>> = <<c>> <=> s[j] = c
      OBVIOUS
    <2>3. QED
      BY <1>1, <1>2, <2>1, <2>2
  <1>4. Find(s, <<c>>, i) = IF found = {} THEN 0 ELSE Min(found)
    BY DEF Find
  <1> HIDE DEF found
  <1>5. CASE found = {}
    BY <1>3, <1>4, <1>5
  <1>6. CASE found # {}
    <2>0. found \subseteq Nat
      BY <1>1, <1>3
    <2>1. PICK j \in found : \A k \in found : j <= k
      BY <1>6, <2>0, Smallest
    <2>2. Min(found) \in found /\ \A k \in found : Min(found) <= k
      BY <2>1 DEF Min
    <2>3. QED
      BY <1>1, <1>3, <1>4, <1>6, <2>2
  <1>7. QED
    BY <1>5, <1>6

\* The first c from i on that d follows.
LEMMA FindTwo ==
    ASSUME NEW s \in Seq(STRING), NEW c, NEW d, NEW i \in Nat, i >= 1
    PROVE  \/ /\ Find(s, <<c, d>>, i) = 0
              /\ \A k \in i..Len(s) - 1 : ~(s[k] = c /\ s[k + 1] = d)
           \/ /\ Find(s, <<c, d>>, i) \in i..Len(s) - 1
              /\ s[Find(s, <<c, d>>, i)] = c /\ s[Find(s, <<c, d>>, i) + 1] = d
              /\ \A k \in i..Find(s, <<c, d>>, i) - 1 : ~(s[k] = c /\ s[k + 1] = d)
  <1> DEFINE found == {j \in i..Len(s) - Len(<<c, d>>) + 1 :
                          SubSeq(s, j, j + Len(<<c, d>>) - 1) = <<c, d>>}
  <1>1. Len(s) \in Nat /\ Len(<<c, d>>) = 2
    BY Typed
  <1>2. \A j \in i..Len(s) - 1 : SubSeq(s, j, j + 2 - 1) = <<s[j], s[j + 1]>>
    <2> TAKE j \in i..Len(s) - 1
    <2>1. SubSeq(s, j, j + 1) = <<s[j], s[j + 1]>>
      <3>1. /\ SubSeq(s, j, j + 1) \in Seq(STRING) /\ Len(SubSeq(s, j, j + 1)) = 2
            /\ SubSeq(s, j, j + 1)[1] = s[j] /\ SubSeq(s, j, j + 1)[2] = s[j + 1]
        BY <1>1, SubSeqProperties
      <3>2. <<s[j], s[j + 1]>> \in Seq(STRING)
        BY <1>1
      <3>3. \A k \in 1..2 : k = 1 \/ k = 2
        OBVIOUS
      <3> DEFINE a == SubSeq(s, j, j + 1)
                 b == <<s[j], s[j + 1]>>
      <3>8. b[1] = s[j] /\ b[2] = s[j + 1] /\ Len(b) = 2
        OBVIOUS
      <3>4. Len(a) = Len(b) /\ \A k \in 1..Len(a) : a[k] = b[k]
        <4> HIDE DEF b
        <4>1. QED
          BY <3>1, <3>3, <3>8
      <3>5. a \in Seq(STRING) /\ b \in Seq(STRING)
        BY <3>1, <3>2
      <3> HIDE DEF a, b
      <3>6. a = b
        BY <3>4, <3>5, SeqEqual
      <3>7. QED
        BY <3>6 DEF a, b
    <2>2. j + 2 - 1 = j + 1
      BY <1>1
    <2>3. QED
      BY <2>1, <2>2
  <1>3. found = {j \in i..Len(s) - 1 : s[j] = c /\ s[j + 1] = d}
    <2>1. i..Len(s) - 2 + 1 = i..Len(s) - 1
      BY <1>1
    <2>2. \A j \in i..Len(s) - 1 :
             <<s[j], s[j + 1]>> = <<c, d>> <=> s[j] = c /\ s[j + 1] = d
      OBVIOUS
    <2>3. QED
      BY <1>1, <1>2, <2>1, <2>2
  <1>4. Find(s, <<c, d>>, i) = IF found = {} THEN 0 ELSE Min(found)
    BY DEF Find
  <1> HIDE DEF found
  <1>5. CASE found = {}
    BY <1>3, <1>4, <1>5
  <1>6. CASE found # {}
    <2>0. found \subseteq Nat
      BY <1>1, <1>3
    <2>1. PICK j \in found : \A k \in found : j <= k
      BY <1>6, <2>0, Smallest
    <2>2. Min(found) \in found /\ \A k \in found : Min(found) <= k
      BY <2>1 DEF Min
    <2>3. ASSUME NEW k \in i..Min(found) - 1 PROVE k \in i..Len(s) - 1 /\ k \notin found
      <3>1. Min(found) \in i..Len(s) - 1
        BY <1>3, <2>2
      <3>2. k \in i..Len(s) - 1 /\ ~(Min(found) <= k)
        BY <1>1, <3>1
      <3>3. QED
        BY <2>2, <3>2
    <2>4. QED
      BY <1>3, <1>4, <1>6, <2>2, <2>3
  <1>7. QED
    BY <1>5, <1>6

\* A line comment is a region; its newline is not part of it (sql.rs:228-236).
LEMMA LineRegion ==
    ASSUME sql \in Seq(STRING), NEW i \in 1..Len(sql), Mode(i) = "code",
           sql[i] = "-", At(sql, i + 1) = "-"
    PROVE  /\ IsRegion(i, CommentEnd(<<"newline">>, 0, i))
           /\ Boundary(CommentEnd(<<"newline">>, 0, i))
  <1> DEFINE e == CommentEnd(<<"newline">>, 0, i)
             F == Find(sql, <<"newline">>, i + 2)
  <1>1. Len(sql) \in Nat /\ i + 2 \in Nat /\ i + 2 >= 1 /\ i \in Nat
    BY Typed
  <1>2. \/ F = 0 /\ \A k \in i + 2..Len(sql) : sql[k] # "newline"
        \/ /\ F \in i + 2..Len(sql) /\ sql[F] = "newline"
           /\ \A k \in i + 2..F - 1 : sql[k] # "newline"
    BY <1>1, FindOne
  <1>3. e = IF F = 0 THEN Len(sql) + 1 ELSE F + 0
    BY DEF CommentEnd
  <1>4. i + 1 \in 1..Len(sql) /\ sql[i + 1] = "-"
    BY <1>1, Typed
  <1> HIDE DEF e, F
  <1>5. /\ e \in i + 2..Len(sql) + 1
        /\ e <= Len(sql) => sql[e] = "newline"
        /\ \A k \in i + 2..e - 1 : sql[k] # "newline"
    BY <1>1, <1>2, <1>3, <1>4
  <1>6. Mode(i + 1) = "line"
    <2>1. After("code", "-", "-") = "line"
      BY DEF After, DoubleQuote
    <2>2. QED
      BY <2>1, ModeStep
  <1>7. \A k \in i + 1..e : Mode(k) = "line"
    <2>1. i + 1 \in 1..Len(sql) + 1 /\ e \in i + 1..Len(sql) + 1
      BY <1>1, <1>5
    <2>2. \A c, d : c # "newline" => After("line", c, d) = "line"
      BY DEF After
    <2>3. \A k \in i + 1..e - 1 : sql[k] # "newline"
      <3>1. \A k \in i + 1..e - 1 : k = i + 1 \/ k \in i + 2..e - 1
        BY <1>1, <1>5
      <3>2. QED
        BY <1>4, <1>5, <3>1
    <2>4. \A k \in i + 1..e - 1 : After("line", sql[k], At(sql, k + 1)) = "line"
      BY <2>2, <2>3
    <2>5. QED
      BY <1>6, <2>1, <2>4, ModeStays
  <1>8. \A k \in i..e - 1 : k = i \/ Mode(k) = "line"
    BY <1>1, <1>5, <1>7
  <1>9. IsRegion(i, e)
    BY <1>1, <1>5, <1>8 DEF IsRegion
  <1>10. Boundary(e)
    BY <1>1, <1>5, <1>7 DEF Boundary
  <1>11. QED
    BY <1>9, <1>10 DEF e

\* A block comment is a region (sql.rs:237-245).
LEMMA BlockRegion ==
    ASSUME sql \in Seq(STRING), NEW i \in 1..Len(sql), Mode(i) = "code",
           sql[i] = "/", At(sql, i + 1) = "*"
    PROVE  /\ IsRegion(i, CommentEnd(<<"*", "/">>, 2, i))
           /\ Boundary(CommentEnd(<<"*", "/">>, 2, i))
  <1> DEFINE e == CommentEnd(<<"*", "/">>, 2, i)
             F == Find(sql, <<"*", "/">>, i + 2)
             b == IF F = 0 THEN Len(sql) + 1 ELSE F
  <1>1. Len(sql) \in Nat /\ i + 2 \in Nat /\ i + 2 >= 1 /\ i \in Nat
    BY Typed
  <1>2. \/ F = 0 /\ \A k \in i + 2..Len(sql) - 1 : ~(sql[k] = "*" /\ sql[k + 1] = "/")
        \/ /\ F \in i + 2..Len(sql) - 1 /\ sql[F] = "*" /\ sql[F + 1] = "/"
           /\ \A k \in i + 2..F - 1 : ~(sql[k] = "*" /\ sql[k + 1] = "/")
    <2> DEFINE a == i + 2
    <2>1. a \in Nat /\ a >= 1
      BY <1>1
    <2> HIDE DEF a
    <2>2. \/ /\ Find(sql, <<"*", "/">>, a) = 0
             /\ \A k \in a..Len(sql) - 1 : ~(sql[k] = "*" /\ sql[k + 1] = "/")
          \/ /\ Find(sql, <<"*", "/">>, a) \in a..Len(sql) - 1
             /\ sql[Find(sql, <<"*", "/">>, a)] = "*"
             /\ sql[Find(sql, <<"*", "/">>, a) + 1] = "/"
             /\ \A k \in a..Find(sql, <<"*", "/">>, a) - 1 :
                   ~(sql[k] = "*" /\ sql[k + 1] = "/")
      BY <2>1, FindTwo
    <2>3. QED
      BY <2>2 DEF a
  <1>3. e = IF F = 0 THEN Len(sql) + 1 ELSE F + 2
    BY DEF CommentEnd
  <1>4. i + 1 \in 1..Len(sql) /\ sql[i + 1] = "*" /\ (i + 1) + 1 = i + 2
    BY <1>1, Typed
  <1> HIDE DEF e, F
  <1>5. b \in i + 2..Len(sql) + 1
    BY <1>1, <1>2, <1>4
  <1>6. \A k \in i + 2..b - 1 : ~(sql[k] = "*" /\ At(sql, k + 1) = "/")
    <2> SUFFICES ASSUME NEW k \in i + 2..b - 1, sql[k] = "*", At(sql, k + 1) = "/"
                 PROVE  FALSE
      OBVIOUS
    <2>1. k \in i + 2..Len(sql) - 1 /\ sql[k + 1] = "/"
      BY <1>1, <1>5, Typed
    <2>2. QED
      BY <1>1, <1>2, <2>1
  <1>7. Mode(i + 1) = "opening"
    <2>1. After("code", "/", "*") = "opening"
      BY DEF After, DoubleQuote
    <2>2. QED
      BY <2>1, ModeStep
  <1>8. Mode(i + 2) = "block"
    <2>1. \A c, d : After("opening", c, d) = "block"
      BY DEF After
    <2>2. QED
      BY <1>4, <1>7, <2>1, ModeStep
  <1>9. \A k \in i + 2..b : Mode(k) = "block"
    <2>1. i + 2 \in 1..Len(sql) + 1 /\ b \in i + 2..Len(sql) + 1
      BY <1>1, <1>5
    <2>2. \A c, d : ~(c = "*" /\ d = "/") => After("block", c, d) = "block"
      BY DEF After
    <2> HIDE DEF b
    <2>3. \A k \in i + 2..b - 1 : After("block", sql[k], At(sql, k + 1)) = "block"
      BY <1>6, <2>2
    <2>4. QED
      BY <1>8, <2>1, <2>3, ModeStays
  <1>10. F # 0 =>
            /\ Mode(F + 1) = "closing"
            /\ F + 2 \in 1..Len(sql) + 1 => Mode(F + 2) = "code"
    <2> SUFFICES ASSUME F # 0
                 PROVE  Mode(F + 1) = "closing" /\ Mode(F + 2) = "code"
      OBVIOUS
    <2>1. /\ F \in 1..Len(sql) /\ F + 1 \in 1..Len(sql) /\ (F + 1) + 1 = F + 2
          /\ F \in i + 2..b /\ sql[F] = "*" /\ At(sql, F + 1) = "/"
      BY <1>1, <1>2, Typed
    <2>2. /\ After("block", "*", "/") = "closing"
          /\ \A c, d : After("closing", c, d) = "code"
      BY DEF After
    <2>3. Mode(F + 1) = "closing"
      BY <1>9, <2>1, <2>2, ModeStep
    <2>4. QED
      BY <2>1, <2>2, <2>3, ModeStep
  <1>11. e \in i + 2..Len(sql) + 1 /\ e - 1 <= IF F = 0 THEN b - 1 ELSE F + 1
    BY <1>1, <1>2, <1>3, <1>4
  <1>12. \A k \in i..e - 1 : k = i \/ Mode(k) # "code"
    <2> TAKE k \in i..e - 1
    <2>1. k = i \/ k = i + 1 \/ k \in i + 2..b \/ (F # 0 /\ k = F + 1)
      BY <1>1, <1>2, <1>3, <1>11
    <2>2. QED
      BY <1>7, <1>9, <1>10, <2>1
  <1>13. IsRegion(i, e)
    BY <1>1, <1>11, <1>12 DEF IsRegion
  <1>14. Boundary(e)
    <2>1. e <= Len(sql) => F # 0 /\ e = F + 2 /\ F + 2 \in 1..Len(sql) + 1
      BY <1>1, <1>3, <1>11
    <2>2. QED
      BY <1>10, <2>1 DEF Boundary
  <1>15. QED
    BY <1>13, <1>14 DEF e

\* What a step of the scanner does at a character.
LEMMA RegionLemma ==
    ASSUME sql \in Seq(STRING), NEW i \in 1..Len(sql), Boundary(i)
    PROVE  \/ RegionEnd(i) = i /\ Mode(i + 1) = "code"
           \/ /\ Mode(i) = "code"
              /\ IsRegion(i, RegionEnd(i)) /\ Boundary(RegionEnd(i))
  <1>1. CASE Mode(i) # "code"
    <2>1. Mode(i) = "line" /\ sql[i] = "newline" /\ i <= Len(sql)
      BY <1>1, Typed DEF Boundary
    <2>2. RegionEnd(i) = i
      BY <2>1 DEF RegionEnd, DoubleQuote
    <2>3. \A d : After("line", "newline", d) = "code"
      BY DEF After
    <2>4. QED
      BY <2>1, <2>2, <2>3, ModeStep
  <1>2. CASE Mode(i) = "code"
    <2>1. CASE sql[i] \in {"'", DoubleQuote}
      <3>1. RegionEnd(i) = QuotedEnd(sql[i], i)
        BY <2>1 DEF RegionEnd, DoubleQuote
      <3>2. QED
        BY <1>2, <2>1, <3>1, QuotedRegion
    <2>2. CASE sql[i] = "-" /\ At(sql, i + 1) = "-"
      <3>1. RegionEnd(i) = CommentEnd(<<"newline">>, 0, i)
        BY <2>2 DEF RegionEnd, DoubleQuote
      <3>2. QED
        BY <1>2, <2>2, <3>1, LineRegion
    <2>3. CASE sql[i] = "/" /\ At(sql, i + 1) = "*"
      <3>1. RegionEnd(i) = CommentEnd(<<"*", "/">>, 2, i)
        BY <2>3 DEF RegionEnd, DoubleQuote
      <3>2. QED
        BY <1>2, <2>3, <3>1, BlockRegion
    <2>4. CASE /\ sql[i] \notin {"'", DoubleQuote}
               /\ ~(sql[i] = "-" /\ At(sql, i + 1) = "-")
               /\ ~(sql[i] = "/" /\ At(sql, i + 1) = "*")
      <3>1. RegionEnd(i) = i
        BY <2>4 DEF RegionEnd
      <3>2. After("code", sql[i], At(sql, i + 1)) = "code"
        BY <2>4 DEF After
      <3>3. QED
        BY <1>2, <3>1, <3>2, ModeStep
    <2>5. QED
      BY <2>1, <2>2, <2>3, <2>4
  <1>3. QED
    BY <1>1, <1>2

\* A name is code, and no character of it opens anything.
LEMMA NameLemma ==
    ASSUME sql \in Seq(STRING), NEW i \in 1..Len(sql), Mode(i) = "code", IsNamed(i)
    PROVE  /\ sql[i] = ":"
           /\ NameEnd(i) \in i + 2..Len(sql) + 1
           /\ \A k \in i..NameEnd(i) : Mode(k) = "code"
           /\ \A k \in i + 1..NameEnd(i) - 1 : IsIdentifierPart(sql[k])
  <1> DEFINE after == {j \in i + 1..Len(sql) : ~IsIdentifierPart(sql[j])}
             e == NameEnd(i)
  <1>1. Len(sql) \in Nat /\ sql[i] = ":" /\ IsIdentifierStart(At(sql, i + 1))
    BY Typed DEF IsNamed
  <1>2. i + 1 \in 1..Len(sql) /\ IsIdentifierPart(sql[i + 1])
    <2>1. At(sql, i + 1) # "end"
      BY <1>1 DEF IsIdentifierStart
    <2>2. i + 1 \in 1..Len(sql) /\ At(sql, i + 1) = sql[i + 1]
      BY <1>1, <2>1, Typed
    <2>3. QED
      BY <1>1, <2>2 DEF IsIdentifierStart, IsIdentifierPart
  <1>3. /\ e \in i + 2..Len(sql) + 1
        /\ \A k \in i + 1..e - 1 : IsIdentifierPart(sql[k])
    <2>1. e = IF after = {} THEN Len(sql) + 1 ELSE Min(after)
      BY DEF NameEnd
    <2>2. CASE after = {}
      BY <1>1, <1>2, <2>1, <2>2
    <2>3. CASE after # {}
      <3>1. after \subseteq Nat
        BY <1>1
      <3>2. PICK j \in after : \A k \in after : j <= k
        BY <2>3, <3>1, Smallest
      <3>3. e \in after /\ \A k \in after : e <= k
        BY <2>1, <2>3, <3>2 DEF Min
      <3> HIDE DEF e
      <3>4. e \in i + 1..Len(sql) /\ e # i + 1
        BY <1>2, <3>3
      <3>5. ASSUME NEW k \in i + 1..e - 1 PROVE IsIdentifierPart(sql[k])
        <4>1. k \in i + 1..Len(sql) /\ ~(e <= k)
          BY <1>1, <3>4
        <4>2. QED
          BY <3>3, <4>1
      <3>6. QED
        BY <1>1, <3>4, <3>5
    <2>4. QED
      BY <2>2, <2>3
  <1> HIDE DEF e
  <1>4. ASSUME NEW k \in i..e - 1 PROVE After("code", sql[k], At(sql, k + 1)) = "code"
    <2>1. sql[k] = ":" \/ IsIdentifierPart(sql[k])
      <3>1. k = i \/ k \in i + 1..e - 1
        BY <1>1, <1>3
      <3>2. QED
        BY <1>1, <1>3, <3>1
    <2>2. QED
      BY <2>1 DEF IsIdentifierPart, After, DoubleQuote
  <1>5. \A k \in i..e : Mode(k) = "code"
    <2>1. i \in 1..Len(sql) + 1 /\ e \in i..Len(sql) + 1
      BY <1>1, <1>3
    <2>2. QED
      BY <1>4, <2>1, ModeStays
  <1>6. QED
    BY <1>1, <1>3, <1>5 DEF e

-------------------------------------------------------------------------------
(* Literals are texts *)

\* Characters, the ones of literals' own signs among them.
Signs == STRING \cup {"'", ",", " ", "[", "]"}

\* The sets of parameters that have a literal, by depth, exist.
LEMMA WrittenExist ==
    ASSUME NEW n \in Nat
    PROVE  \E f : f = [d \in 0..n |->
                          IF d = 0 THEN Scalars ELSE Scalars \cup Lists(f[d - 1])]
  <1> DEFINE T == {k \in 0..n : \E f : f = [d \in 0..k |->
                          IF d = 0 THEN Scalars ELSE Scalars \cup Lists(f[d - 1])]}
  <1>1. 0 \in T
    <2> DEFINE f == [d \in 0..0 |-> Scalars]
    <2>1. f = [d \in 0..0 |->
                  IF d = 0 THEN Scalars ELSE Scalars \cup Lists(f[d - 1])]
      OBVIOUS
    <2> HIDE DEF f
    <2>2. QED
      BY <2>1
  <1>2. ASSUME NEW k \in 0..n - 1, k \in T PROVE k + 1 \in T
    <2>1. PICK f : f = [d \in 0..k |->
                          IF d = 0 THEN Scalars ELSE Scalars \cup Lists(f[d - 1])]
      BY <1>2
    <2> DEFINE g == [d \in 0..k + 1 |->
                       IF d = k + 1 THEN Scalars \cup Lists(f[k]) ELSE f[d]]
    <2>2. ASSUME NEW d \in 0..k + 1
          PROVE  g[d] = IF d = 0 THEN Scalars ELSE Scalars \cup Lists(g[d - 1])
      <3>1. CASE d = k + 1
        <4>1. d # 0 /\ d - 1 = k /\ k \in 0..k + 1 /\ k # k + 1
          BY <3>1
        <4>2. g[d - 1] = f[k]
          BY <4>1
        <4>3. QED
          BY <3>1, <4>1, <4>2
      <3>2. CASE d # k + 1
        <4>1. d \in 0..k /\ g[d] = f[d]
          BY <3>2
        <4>2. d # 0 => d - 1 \in 0..k + 1 /\ d - 1 # k + 1 /\ g[d - 1] = f[d - 1]
          BY <4>1
        <4>3. f[d] = IF d = 0 THEN Scalars ELSE Scalars \cup Lists(f[d - 1])
          BY <2>1, <4>1
        <4> HIDE DEF g
        <4>4. QED
          BY <4>1, <4>2, <4>3
      <3>3. QED
        BY <3>1, <3>2
    <2>3. g = [d \in 0..k + 1 |->
                 IF d = 0 THEN Scalars ELSE Scalars \cup Lists(g[d - 1])]
      BY <2>2
    <2>4. k + 1 \in 0..n
      OBVIOUS
    <2> HIDE DEF g
    <2>5. QED
      BY <2>3, <2>4
  <1>3. n \in T
    <2>1. 0 \in Int /\ n \in Int /\ n \in 0..n
      OBVIOUS
    <2> HIDE DEF T
    <2>2. 0..n \subseteq T
      BY <1>1, <1>2, <2>1, Induction, Zenon
    <2>3. QED
      BY <2>1, <2>2
  <1>4. QED
    BY <1>3

\* Parameters of depth 0 are scalars; those of depth d have lists of depth d - 1.
LEMMA WrittenStep ==
    ASSUME Depth \in Nat
    PROVE  /\ WrittenUpTo[0] = Scalars
           /\ \A d \in 1..Depth : WrittenUpTo[d] = Scalars \cup Lists(WrittenUpTo[d - 1])
  <1> DEFINE f == CHOOSE f : f = [d \in 0..Depth |->
                      IF d = 0 THEN Scalars ELSE Scalars \cup Lists(f[d - 1])]
  <1>1. f = [d \in 0..Depth |->
                IF d = 0 THEN Scalars ELSE Scalars \cup Lists(f[d - 1])]
    BY WrittenExist
  <1>2. WrittenUpTo = f
    BY DEF WrittenUpTo
  <1> HIDE DEF f
  <1>3. f[0] = Scalars
    <2>1. 0 \in 0..Depth
      OBVIOUS
    <2>2. QED
      BY <1>1, <2>1
  <1>4. ASSUME NEW d \in 1..Depth PROVE f[d] = Scalars \cup Lists(f[d - 1])
    <2>1. d \in 0..Depth /\ d # 0
      OBVIOUS
    <2>2. QED
      BY <1>1, <2>1
  <1>5. QED
    BY <1>2, <1>3, <1>4

\* The literals at depth d, by those of the depth below.
LiteralsBy(below, d) ==
    [p \in WrittenUpTo[d] |->
        IF p.kind = "list" THEN ListLiteral([i \in DOMAIN p.items |-> below[p.items[i]]])
        ELSE ValueLiteral(p)]

\* What a scalar parameter is.
LEMMA ScalarsAreNoLists ==
    ASSUME NEW p \in Scalars
    PROVE  /\ p.kind # "list"
           /\ p.kind = "text" => p.text \in Seq(STRING)
           /\ p.kind # "text" => p.text \in NumberTexts
  BY DEF Scalars

\* The literals of scalars need none below.
LEMMA LowestLiterals ==
    ASSUME Depth \in Nat, NEW a, NEW b
    PROVE  LiteralsBy(a, 0) = LiteralsBy(b, 0)
  <1>1. \A p \in WrittenUpTo[0] : p.kind # "list"
    BY WrittenStep, ScalarsAreNoLists
  <1>2. QED
    BY <1>1 DEF LiteralsBy

\* The literals by depth exist.
LEMMA LiteralsExist ==
    ASSUME Depth \in Nat, NEW n \in 0..Depth
    PROVE  \E f : f = [d \in 0..n |-> LiteralsBy(f[d - 1], d)]
  <1> DEFINE T == {k \in 0..n : \E f : f = [d \in 0..k |-> LiteralsBy(f[d - 1], d)]}
  <1>1. 0 \in T
    <2> DEFINE f == [d \in 0..0 |-> LiteralsBy(0, 0)]
    <2>1. ASSUME NEW d \in 0..0 PROVE LiteralsBy(0, 0) = LiteralsBy(f[d - 1], d)
      <3>1. d = 0
        OBVIOUS
      <3>2. QED
        BY <3>1, LowestLiterals
    <2>2. f = [d \in 0..0 |-> LiteralsBy(f[d - 1], d)]
      BY <2>1
    <2>3. 0 \in 0..n
      OBVIOUS
    <2> HIDE DEF f
    <2>4. QED
      BY <2>2, <2>3
  <1>2. ASSUME NEW k \in 0..n - 1, k \in T PROVE k + 1 \in T
    <2>1. PICK f : f = [d \in 0..k |-> LiteralsBy(f[d - 1], d)]
      BY <1>2
    <2> DEFINE g == [d \in 0..k + 1 |->
                       IF d = k + 1 THEN LiteralsBy(f[k], k + 1) ELSE f[d]]
    <2>2. ASSUME NEW d \in 0..k + 1 PROVE g[d] = LiteralsBy(g[d - 1], d)
      <3>1. CASE d = k + 1
        <4>1. d - 1 = k /\ k \in 0..k + 1 /\ k # k + 1
          BY <3>1
        <4>2. g[d - 1] = f[k]
          BY <4>1
        <4>3. QED
          BY <3>1, <4>1, <4>2
      <3>2. CASE d # k + 1
        <4>1. d \in 0..k /\ g[d] = f[d]
          BY <3>2
        <4>2. d # 0 => d - 1 \in 0..k + 1 /\ d - 1 # k + 1 /\ g[d - 1] = f[d - 1]
          BY <4>1
        <4>3. f[d] = LiteralsBy(f[d - 1], d)
          BY <2>1, <4>1
        <4> HIDE DEF g
        <4>4. LiteralsBy(f[d - 1], d) = LiteralsBy(g[d - 1], d)
          BY <4>2, LowestLiterals
        <4>5. QED
          BY <4>1, <4>3, <4>4
      <3>3. QED
        BY <3>1, <3>2
    <2>3. g = [d \in 0..k + 1 |-> LiteralsBy(g[d - 1], d)]
      BY <2>2
    <2>4. k + 1 \in 0..n
      OBVIOUS
    <2> HIDE DEF g
    <2>5. QED
      BY <2>3, <2>4
  <1>3. n \in T
    <2>1. 0 \in Int /\ n \in Int /\ n \in 0..n
      OBVIOUS
    <2> HIDE DEF T
    <2>2. 0..n \subseteq T
      BY <1>1, <1>2, <2>1, Induction, Zenon
    <2>3. QED
      BY <2>1, <2>2
  <1>4. QED
    BY <1>3

\* sql_literal at depth d calls itself on the items (sql.rs:105-117).
LEMMA LiteralsStep ==
    ASSUME Depth \in Nat, NEW d \in 0..Depth
    PROVE  /\ Literals[d] = LiteralsBy(Literals[d - 1], d)
           /\ \A p \in WrittenUpTo[d] :
                 Literals[d][p] =
                    IF p.kind = "list"
                    THEN ListLiteral([i \in DOMAIN p.items |-> Literals[d - 1][p.items[i]]])
                    ELSE ValueLiteral(p)
  <1> DEFINE f == CHOOSE f : f = [e \in 0..Depth |-> LiteralsBy(f[e - 1], e)]
  <1>1. f = [e \in 0..Depth |-> LiteralsBy(f[e - 1], e)]
    <2>1. Depth \in 0..Depth
      OBVIOUS
    <2>2. QED
      BY <2>1, LiteralsExist
  <1>2. Literals = f
    BY DEF Literals, LiteralsBy
  <1> HIDE DEF f
  <1>3. Literals[d] = LiteralsBy(Literals[d - 1], d)
    BY <1>1, <1>2
  <1>4. QED
    BY <1>3 DEF LiteralsBy

\* The signs are characters.
LEMMA SignTexts ==
    /\ STRING \subseteq Signs /\ Seq(STRING) \subseteq Seq(Signs)
    /\ \A c \in Signs : <<c>> \in Seq(Signs)
    /\ \A c \in Signs, d \in Signs : <<c, d>> \in Seq(Signs)
    /\ "'" \in Signs /\ "," \in Signs /\ " " \in Signs /\ "[" \in Signs /\ "]" \in Signs
  <1>1. STRING \subseteq Signs
    BY DEF Signs
  <1>2. "'" \in Signs /\ "," \in Signs /\ " " \in Signs /\ "[" \in Signs /\ "]" \in Signs
    BY Zenon DEF Signs
  <1>3. Seq(STRING) \subseteq Seq(Signs)
    <2>1. \A S, T : S \subseteq T => Seq(S) \subseteq Seq(T)
      <3> SUFFICES ASSUME NEW S, NEW T, S \subseteq T, NEW s \in Seq(S)
                   PROVE  s \in Seq(T)
        OBVIOUS
      <3>1. QED
        OBVIOUS
    <2>2. QED
      BY <1>1, <2>1, Zenon
  <1>4. \A c \in Signs : <<c>> \in Seq(Signs)
    OBVIOUS
  <1>5. \A c \in Signs, d \in Signs : <<c, d>> \in Seq(Signs)
    OBVIOUS
  <1>6. QED
    BY <1>1, <1>2, <1>3, <1>4, <1>5, Zenon

-------------------------------------------------------------------------------
(* What the characters of a literal mean *)

\* The mode of any text after one more character.
LEMMA TextStep ==
    ASSUME NEW o \in Seq(Signs), NEW i \in 1..Len(o)
    PROVE  /\ Len(o) \in Nat /\ i + 1 \in 1..Len(o) + 1
           /\ Modes(o)[i + 1] = After(Modes(o)[i], o[i], At(o, i + 1))
           /\ \A k \in 1..Len(o) : At(o, k) = o[k]
           /\ \A k \in Int : k \notin 1..Len(o) => At(o, k) = "end"
  <1>1. Len(o) \in Nat /\ i + 1 \in 1..Len(o) + 1 /\ DOMAIN o = 1..Len(o)
    OBVIOUS
  <1>2. \A k : At(o, k) = IF k \in 1..Len(o) THEN o[k] ELSE "end"
    BY <1>1 DEF At
  <1>3. QED
    BY <1>1, <1>2, ModesStep

\* Text t is in o from a on.
IsAt(t, o, a) ==
    /\ a \in 1..Len(o) + 1 /\ a + Len(t) \in 1..Len(o) + 1
    /\ \A k \in 1..Len(t) : o[a + k - 1] = t[k]

\* Read from mode m, whatever follows it, text t ends in mode n.
Leads(m, t, n) ==
    \A o \in Seq(Signs) : \A a \in 1..Len(o) + 1 :
        IsAt(t, o, a) /\ Modes(o)[a] = m => Modes(o)[a + Len(t)] = n

\* The empty text keeps the mode.
LEMMA LeadsNowhere ==
    ASSUME NEW m
    PROVE  Leads(m, <<>>, m)
  <1> SUFFICES ASSUME NEW o \in Seq(Signs), NEW a \in 1..Len(o) + 1, Modes(o)[a] = m
               PROVE  Modes(o)[a + Len(<<>>)] = m
    BY DEF Leads
  <1>1. a + Len(<<>>) = a
    OBVIOUS
  <1>2. QED
    BY <1>1

\* One character.
LEMMA LeadsOne ==
    ASSUME NEW m, NEW c, NEW n, \A d : After(m, c, d) = n
    PROVE  Leads(m, <<c>>, n)
  <1> DEFINE t == <<c>>
  <1>1. Len(t) = 1 /\ t[1] = c
    OBVIOUS
  <1> HIDE DEF t
  <1> SUFFICES ASSUME NEW o \in Seq(Signs), NEW a \in 1..Len(o) + 1,
                      IsAt(t, o, a), Modes(o)[a] = m
               PROVE  Modes(o)[a + Len(t)] = n
    BY DEF Leads, t
  <1>2. a \in 1..Len(o) /\ o[a] = c
    <2>1. Len(o) \in Nat /\ a \in Int /\ a + 1 \in 1..Len(o) + 1 /\ 1 \in 1..Len(t)
      BY <1>1 DEF IsAt
    <2>2. o[a + 1 - 1] = c /\ a + 1 - 1 = a
      BY <1>1, <2>1 DEF IsAt
    <2>3. QED
      BY <2>1, <2>2
  <1>3. QED
    BY <1>1, <1>2, TextStep

\* One text after the other.
LEMMA LeadsBoth ==
    ASSUME NEW m, NEW n, NEW q, NEW t \in Seq(Signs), NEW u \in Seq(Signs),
           Leads(m, t, n), Leads(n, u, q)
    PROVE  Leads(m, t \o u, q)
  <1> DEFINE w == t \o u
  <1>1. /\ Len(t) \in Nat /\ Len(u) \in Nat /\ Len(w) = Len(t) + Len(u)
        /\ \A k \in 1..Len(t) : w[k] = t[k]
        /\ \A k \in 1..Len(u) : w[Len(t) + k] = u[k]
    <2>1. Len(t) \in Nat /\ Len(u) \in Nat /\ Len(w) = Len(t) + Len(u)
      OBVIOUS
    <2>2. \A k \in 1..Len(t) : w[k] = t[k]
      OBVIOUS
    <2>3. \A k \in 1..Len(u) : w[Len(t) + k] = u[k]
      BY <2>1
    <2>4. QED
      BY <2>1, <2>2, <2>3
  <1> HIDE DEF w
  <1> SUFFICES ASSUME NEW o \in Seq(Signs), NEW a \in 1..Len(o) + 1,
                      IsAt(w, o, a), Modes(o)[a] = m
               PROVE  Modes(o)[a + Len(w)] = q
    BY DEF Leads, w
  <1>2. Len(o) \in Nat /\ a \in Int /\ a + Len(w) \in 1..Len(o) + 1
    BY DEF IsAt
  <1> DEFINE c == a + Len(t)
  <1>3. c \in 1..Len(o) + 1 /\ c + Len(u) = a + Len(w)
    BY <1>1, <1>2
  <1>4. IsAt(t, o, a)
    <2>1. \A k \in 1..Len(t) : k \in 1..Len(w)
      BY <1>1
    <2>2. QED
      BY <1>1, <1>3, <2>1 DEF IsAt
  <1>5. IsAt(u, o, c)
    <2>1. ASSUME NEW k \in 1..Len(u) PROVE o[c + k - 1] = u[k]
      <3>1. Len(t) + k \in 1..Len(w) /\ a + (Len(t) + k) - 1 = c + k - 1
        BY <1>1, <1>2
      <3>2. o[a + (Len(t) + k) - 1] = w[Len(t) + k]
        BY <3>1 DEF IsAt
      <3>3. QED
        BY <1>1, <3>1, <3>2
    <2>2. c + Len(u) \in 1..Len(o) + 1
      BY <1>2, <1>3
    <2> HIDE DEF c
    <2>3. QED
      BY <1>3, <2>1, <2>2 DEF IsAt
  <1>6. Modes(o)[c] = n
    BY <1>4 DEF Leads
  <1> HIDE DEF c
  <1>7. Modes(o)[c + Len(u)] = q
    BY <1>3, <1>5, <1>6 DEF Leads
  <1>8. QED
    BY <1>3, <1>7

\* Texts that keep the mode keep it one after the other.
LEMMA LeadsAll ==
    ASSUME NEW m, NEW s \in Seq(Seq(Signs)), \A i \in 1..Len(s) : Leads(m, s[i], m)
    PROVE  Leads(m, FlattenSeq(s), m)
  <1> DEFINE n == Len(s)
             T == {k \in 0..n : Leads(m, FlattenSeq(SubSeq(s, 1, k)), m)}
  <1>1. n \in Nat /\ n \in Int /\ 0 \in Int /\ 0 \in 0..n /\ n \in 0..n
    OBVIOUS
  <1>2. 0 \in T
    <2>1. SubSeq(s, 1, 0) = <<>>
      BY SubSeqEmpty
    <2>2. Leads(m, FlattenSeq(SubSeq(s, 1, 0)), m)
      BY <2>1, FlattenEmpty, LeadsNowhere
    <2>3. QED
      BY <1>1, <2>2
  <1>3. ASSUME NEW k \in 0..n - 1, k \in T PROVE k + 1 \in T
    <2>1. k \in 0..Len(s) - 1 /\ k \in 0..Len(s) /\ k + 1 \in 1..Len(s) /\ k + 1 \in 0..n
      BY <1>1
    <2>2. FlattenSeq(SubSeq(s, 1, k + 1)) = FlattenSeq(SubSeq(s, 1, k)) \o s[k + 1]
      BY <2>1, FlattenPrefix
    <2>3. FlattenSeq(SubSeq(s, 1, k)) \in Seq(Signs)
      <3>1. SubSeq(s, 1, k) \in Seq(Seq(Signs))
        BY <2>1, PrefixProperties
      <3>2. QED
        BY <3>1, FlattenType
    <2>4. s[k + 1] \in Seq(Signs) /\ Leads(m, s[k + 1], m)
      BY <2>1
    <2>5. Leads(m, FlattenSeq(SubSeq(s, 1, k)), m)
      BY <1>3
    <2>6. QED
      BY <2>1, <2>2, <2>3, <2>4, <2>5, LeadsBoth
  <1>4. n \in T
    <2> HIDE DEF T
    <2>1. 0..n \subseteq T
      BY <1>1, <1>2, <1>3, Induction, Zenon
    <2>2. QED
      BY <1>1, <2>1
  <1>5. SubSeq(s, 1, n) = s
    BY SubSeqFull
  <1>6. QED
    BY <1>4, <1>5

\* Two characters.
LEMMA TwoSigns ==
    ASSUME NEW c \in Signs, NEW d \in Signs
    PROVE  <<c>> \o <<d>> = <<c, d>>
  <1> DEFINE a == <<c>>
             b == <<d>>
             t == <<c, d>>
  <1>1. /\ a \in Seq(Signs) /\ b \in Seq(Signs) /\ t \in Seq(Signs)
        /\ Len(a) = 1 /\ Len(b) = 1 /\ Len(t) = 2
        /\ a[1] = c /\ b[1] = d /\ t[1] = c /\ t[2] = d
    OBVIOUS
  <1> HIDE DEF a, b, t
  <1>2. a \o b \in Seq(Signs) /\ Len(a \o b) = 2
    BY <1>1, ConcatProperties
  <1>3. (a \o b)[1] = c /\ (a \o b)[2] = d
    <2>1. \A k \in 1..Len(a) : (a \o b)[k] = a[k]
      BY <1>1
    <2>2. \A k \in 1..Len(b) : (a \o b)[Len(a) + k] = b[k]
      <3>1. 1 \in Nat /\ \A k \in 1..Len(b) : k = 1
        BY <1>1
      <3>2. (a \o b)[1 + 1] = b[(1 + 1) - Len(a)]
        BY <1>1, <1>2, ConcatProperties
      <3>3. QED
        BY <1>1, <3>1, <3>2
    <2>3. 1 \in 1..Len(a) /\ 1 \in 1..Len(b) /\ Len(a) + 1 = 2
      BY <1>1
    <2>4. QED
      BY <1>1, <2>1, <2>2, <2>3
  <1>4. \A k \in 1..Len(t) : (a \o b)[k] = t[k]
    <2>1. \A k \in 1..2 : k = 1 \/ k = 2
      OBVIOUS
    <2>2. QED
      BY <1>1, <1>3, <2>1
  <1>5. a \o b = t
    BY <1>1, <1>2, <1>4, SeqEqual
  <1>6. QED
    BY <1>5 DEF a, b, t

\* The first character of what follows one character.
LEMMA FirstOfBoth ==
    ASSUME NEW t \in Seq(Signs), NEW u \in Seq(Signs), Len(t) = 1
    PROVE  Len(t \o u) = 1 + Len(u) /\ (t \o u)[1] = t[1] /\ Len(u) \in Nat
  <1>1. Len(u) \in Nat /\ Len(t \o u) = Len(t) + Len(u)
    BY ConcatProperties
  <1>2. 1 \in 1..Len(t) + Len(u) /\ 1 <= Len(t)
    BY <1>1
  <1>3. (t \o u)[1] = t[1]
    BY <1>2, ConcatProperties
  <1>4. QED
    BY <1>1, <1>3

\* A text that is read as code and does not turn what is before it into a comment.
IsLiteral(t) ==
    /\ t \in Seq(Signs) /\ Len(t) >= 1 /\ t[1] # "*"
    /\ Leads("code", t, "code")

\* A number, a truth value or NULL is a literal (sql.rs:121-128).
LEMMA NumberIsLiteral ==
    ASSUME NEW t \in NumberTexts
    PROVE  IsLiteral(t)
  <1>1. /\ t \in Seq(STRING) /\ t \in Seq(Signs) /\ Len(t) \in Nat /\ Len(t) >= 1
        /\ t[Len(t)] # "-"
        /\ \A i \in 1..Len(t) :
              t[i] \notin {"'", DoubleQuote, "/", "*"} /\ (t[i] = "-" => i = 1)
    <2>1. t \in Seq(STRING) /\ t # <<>> /\ t[Len(t)] # "-"
      BY DEF NumberTexts
    <2>2. \A i \in DOMAIN t :
              t[i] \notin {"'", DoubleQuote, "/", "*"} /\ (t[i] = "-" => i = 1)
      BY DEF NumberTexts
    <2>3. DOMAIN t = 1..Len(t) /\ Len(t) \in Nat
      BY <2>1, Typed
    <2>4. t \in Seq(Signs)
      BY <2>1, SignTexts
    <2>5. Len(t) >= 1
      BY <2>1, <2>3, EmptySeq
    <2>6. QED
      BY <2>1, <2>2, <2>3, <2>4, <2>5
  <1>2. ASSUME NEW o \in Seq(Signs), NEW a \in 1..Len(o) + 1,
               IsAt(t, o, a), Modes(o)[a] = "code"
        PROVE  Modes(o)[a + Len(t)] = "code"
    <2> DEFINE b == a + Len(t)
               T == {k \in a..b : Modes(o)[k] = "code"}
    <2>1. /\ a \in Int /\ b \in Int /\ Len(o) \in Nat /\ b \in 1..Len(o) + 1
          /\ b \in a..b /\ a \in T
      BY <1>1, <1>2 DEF IsAt
    <2>2. ASSUME NEW k \in a..b - 1, k \in T PROVE k + 1 \in T
      <3> DEFINE j == k - a + 1
      <3>1. /\ k \in 1..Len(o) /\ k + 1 \in a..b /\ j \in 1..Len(t) /\ a + j - 1 = k
            /\ j + 1 <= Len(t) => k + 1 \in 1..Len(o) /\ a + (j + 1) - 1 = k + 1
        BY <1>1, <2>1
      <3> HIDE DEF j, b
      <3>2. o[k] = t[j]
        BY <3>1, <1>2 DEF IsAt
      <3>3. t[j] = "-" => At(o, k + 1) # "-"
        <4> SUFFICES ASSUME t[j] = "-" PROVE At(o, k + 1) # "-"
          OBVIOUS
        <4>1. j + 1 \in 1..Len(t)
          BY <1>1, <3>1
        <4>2. o[k + 1] = t[j + 1] /\ k + 1 \in 1..Len(o)
          <5>1. o[a + (j + 1) - 1] = t[j + 1]
            BY <1>2, <4>1 DEF IsAt
          <5>2. QED
            BY <3>1, <4>1, <5>1
        <4>3. t[j + 1] # "-"
          BY <1>1, <4>1, <3>1
        <4>4. QED
          BY <4>2, <4>3, TextStep
      <3>4. After("code", o[k], At(o, k + 1)) = "code"
        <4>1. o[k] \notin {"'", DoubleQuote, "/"} /\ (o[k] = "-" => At(o, k + 1) # "-")
          BY <1>1, <3>1, <3>2, <3>3
        <4>2. QED
          BY <4>1 DEF After
      <3>5. Modes(o)[k] = "code"
        BY <2>2
      <3>6. QED
        BY <3>1, <3>4, <3>5, TextStep
    <2>3. b \in T
      <3> HIDE DEF T, b
      <3>1. a..b \subseteq T
        BY <2>1, <2>2, Induction, Zenon
      <3>2. QED
        BY <2>1, <3>1
    <2>4. QED
      BY <2>3
  <1>3. Leads("code", t, "code")
    BY <1>2 DEF Leads
  <1>4. t[1] # "*"
    BY <1>1
  <1>5. QED
    BY <1>1, <1>3, <1>4 DEF IsLiteral

\* A text with its quotes doubled is a literal (sql.rs:139).
LEMMA TextIsLiteral ==
    ASSUME NEW chars \in Seq(STRING)
    PROVE  IsLiteral(Quoted(chars))
  <1> DEFINE Doubled(c) == IF c = "'" THEN <<"'", "'">> ELSE <<c>>
             parts == [i \in DOMAIN chars |-> Doubled(chars[i])]
             q == <<"'">>
  <1>1. Quoted(chars) = q \o FlattenSeq(parts) \o q
    BY DEF Quoted
  <1>2. /\ q \in Seq(Signs) /\ Len(q) = 1 /\ q[1] = "'"
        /\ \A c \in STRING : Doubled(c) \in Seq(Signs)
    BY SignTexts
  <1>3. ASSUME NEW c \in STRING PROVE Leads("text", Doubled(c), "text")
    <2>1. CASE c = "'"
      <3>1. Leads("text", q, "code") /\ Leads("code", q, "text")
        <4>1. /\ \A d : After("text", "'", d) = "code"
              /\ \A d : After("code", "'", d) = "text"
          BY DEF After, DoubleQuote
        <4>2. QED
          BY <4>1, LeadsOne
      <3>2. q \o q = <<"'", "'">>
        BY SignTexts, TwoSigns, Zenon
      <3> HIDE DEF q
      <3>3. Leads("text", q \o q, "text")
        BY <1>2, <3>1, LeadsBoth
      <3>4. QED
        BY <2>1, <3>2, <3>3
    <2>2. CASE c # "'"
      <3>1. \A d : After("text", c, d) = "text"
        BY <2>2 DEF After
      <3>2. Leads("text", <<c>>, "text")
        BY <3>1, LeadsOne
      <3>3. QED
        BY <2>2, <3>2
    <2>3. QED
      BY <2>1, <2>2
  <1>4. /\ parts \in Seq(Seq(Signs))
        /\ \A i \in 1..Len(parts) : Leads("text", parts[i], "text")
    <2>1. ASSUME NEW i \in 1..Len(chars)
          PROVE  /\ Doubled(chars[i]) \in Seq(Signs)
                 /\ Leads("text", Doubled(chars[i]), "text")
      <3>1. chars[i] \in STRING
        OBVIOUS
      <3> HIDE DEF Doubled
      <3>2. QED
        BY <1>2, <1>3, <3>1
    <2>2. Len(chars) \in Nat /\ DOMAIN chars = 1..Len(chars)
      BY Typed
    <2> HIDE DEF Doubled
    <2>3. Len(parts) = Len(chars)
      BY <2>2
    <2>4. QED
      BY <2>1, <2>2, <2>3
  <1> HIDE DEF parts, Doubled
  <1>5. FlattenSeq(parts) \in Seq(Signs) /\ Leads("text", FlattenSeq(parts), "text")
    BY <1>4, FlattenType, LeadsAll
  <1>6. Leads("code", q, "text") /\ Leads("text", q, "code")
    <2>1. /\ \A d : After("text", "'", d) = "code"
          /\ \A d : After("code", "'", d) = "text"
      BY DEF After, DoubleQuote
    <2>2. QED
      BY <2>1, LeadsOne
  <1> DEFINE f == FlattenSeq(parts)
  <1> HIDE DEF q, f
  <1>7. q \o f \in Seq(Signs) /\ Leads("code", q \o f, "text")
    <2>1. f \in Seq(Signs) /\ Leads("text", f, "text")
      BY <1>5 DEF f
    <2>2. q \o f \in Seq(Signs)
      BY <1>2, <2>1
    <2>3. QED
      BY <1>2, <1>6, <2>1, <2>2, LeadsBoth
  <1>8. Leads("code", (q \o f) \o q, "code")
    BY <1>2, <1>6, <1>7, LeadsBoth
  <1>9. (q \o f) \o q \in Seq(Signs) /\ Len((q \o f) \o q) >= 1 /\ ((q \o f) \o q)[1] = "'"
    <2>1. f \in Seq(Signs) /\ Len(f) \in Nat
      BY <1>5 DEF f
    <2>2. Len(q \o f) = 1 + Len(f) /\ (q \o f)[1] = "'"
      BY <1>2, <2>1, FirstOfBoth
    <2>3. QED
      BY <1>2, <1>7, <2>1, <2>2
  <1>10. QED
    BY <1>1, <1>8, <1>9 DEF IsLiteral, f

\* Literals in brackets, with commas between, are a literal (sql.rs:107-114).
LEMMA ListIsLiteral ==
    ASSUME NEW texts \in Seq(Seq(Signs)), \A i \in 1..Len(texts) : IsLiteral(texts[i])
    PROVE  IsLiteral(ListLiteral(texts))
  <1> DEFINE comma == <<",", " ">>
             open == <<"[">>
             close == <<"]">>
             Part(i) == IF i = 1 THEN texts[i] ELSE comma \o texts[i]
             parts == [i \in DOMAIN texts |-> Part(i)]
             f == FlattenSeq(parts)
  <1>1. /\ comma \in Seq(Signs) /\ open \in Seq(Signs) /\ close \in Seq(Signs)
        /\ Len(open) = 1 /\ open[1] = "["
    <2>1. comma \in Seq(Signs) /\ open \in Seq(Signs) /\ close \in Seq(Signs)
      BY SignTexts, Zenon
    <2>2. Len(open) = 1 /\ open[1] = "["
      OBVIOUS
    <2>3. QED
      BY <2>1, <2>2
  <1>2. /\ Leads("code", open, "code") /\ Leads("code", close, "code")
        /\ Leads("code", comma, "code")
    <2>1. /\ \A d : After("code", "[", d) = "code"
          /\ \A d : After("code", "]", d) = "code"
          /\ \A d : After("code", ",", d) = "code"
          /\ \A d : After("code", " ", d) = "code"
      BY DEF After, DoubleQuote
    <2> DEFINE c1 == <<",">>
               c2 == <<" ">>
    <2>2. c1 \in Seq(Signs) /\ c2 \in Seq(Signs)
      BY SignTexts, Zenon
    <2>3. Leads("code", c1, "code") /\ Leads("code", c2, "code")
      BY <2>1, LeadsOne
    <2>4. comma = c1 \o c2
      BY SignTexts, TwoSigns, Zenon
    <2> HIDE DEF c1, c2, comma
    <2>5. Leads("code", comma, "code")
      BY <2>2, <2>3, <2>4, LeadsBoth
    <2>6. QED
      BY <2>1, <2>5, LeadsOne
  <1>3. ListLiteral(texts) = open \o f \o close
    BY DEF ListLiteral, Joined
  <1> HIDE DEF comma, open, close
  <1>4. ASSUME NEW i \in 1..Len(texts)
        PROVE  Part(i) \in Seq(Signs) /\ Leads("code", Part(i), "code")
    <2>1. texts[i] \in Seq(Signs) /\ Leads("code", texts[i], "code")
      BY DEF IsLiteral
    <2>2. comma \o texts[i] \in Seq(Signs)
      BY <1>1, <2>1
    <2>3. Leads("code", comma \o texts[i], "code")
      BY <1>1, <1>2, <2>1, LeadsBoth
    <2>4. QED
      BY <2>1, <2>2, <2>3
  <1>5. /\ parts \in Seq(Seq(Signs))
        /\ \A i \in 1..Len(parts) : Leads("code", parts[i], "code")
    <2> DEFINE n == Len(texts)
    <2>1. n \in Nat /\ DOMAIN texts = 1..n
      OBVIOUS
    <2>2. \A i \in 1..n : Part(i) \in Seq(Signs) /\ Leads("code", Part(i), "code")
      BY <1>4
    <2> HIDE DEF Part, n
    <2>3. parts \in Seq(Seq(Signs)) /\ Len(parts) = n
      BY <2>1, <2>2
    <2>4. QED
      BY <2>1, <2>2, <2>3
  <1> HIDE DEF parts
  <1>6. f \in Seq(Signs) /\ Leads("code", f, "code")
    BY <1>5, FlattenType, LeadsAll
  <1> HIDE DEF f
  <1>7. open \o f \in Seq(Signs) /\ Leads("code", open \o f, "code")
    <2>1. open \o f \in Seq(Signs)
      BY <1>1, <1>6
    <2>2. QED
      BY <1>1, <1>2, <1>6, <2>1, LeadsBoth
  <1>8. Leads("code", (open \o f) \o close, "code")
    BY <1>1, <1>2, <1>7, LeadsBoth
  <1>9. /\ (open \o f) \o close \in Seq(Signs) /\ Len((open \o f) \o close) >= 1
        /\ ((open \o f) \o close)[1] = "["
    <2>1. Len(f) \in Nat /\ Len(open \o f) = 1 + Len(f) /\ (open \o f)[1] = "["
      BY <1>1, <1>6, FirstOfBoth
    <2>2. QED
      BY <1>1, <1>7, <2>1
  <1>10. QED
    BY <1>3, <1>8, <1>9 DEF IsLiteral

\* What sql_literal returns is a literal, however deep lists nest.
LEMMA LiteralIs ==
    ASSUME Depth \in Nat, NEW p \in Written
    PROVE  IsLiteral(Literal(p))
  <1> DEFINE T == {d \in 0..Depth : \A v \in WrittenUpTo[d] : IsLiteral(Literals[d][v])}
  <1>1. ASSUME NEW v \in Scalars PROVE v.kind # "list" /\ IsLiteral(ValueLiteral(v))
    BY ScalarsAreNoLists, TextIsLiteral, NumberIsLiteral DEF ValueLiteral
  <1>2. 0 \in T
    <2>1. 0 \in 0..Depth
      OBVIOUS
    <2>2. QED
      BY <1>1, <2>1, WrittenStep, LiteralsStep
  <1>3. ASSUME NEW d \in 0..Depth - 1, d \in T PROVE d + 1 \in T
    <2>1. d + 1 \in 0..Depth /\ d + 1 \in 1..Depth /\ (d + 1) - 1 = d
      OBVIOUS
    <2>2. ASSUME NEW v \in WrittenUpTo[d + 1] PROVE IsLiteral(Literals[d + 1][v])
      <3>1. v \in Scalars \/ v \in Lists(WrittenUpTo[d])
        BY <2>1, WrittenStep
      <3>2. CASE v \in Scalars
        BY <1>1, <2>1, <3>2, LiteralsStep
      <3>3. CASE v \in Lists(WrittenUpTo[d])
        <4> DEFINE texts == [i \in DOMAIN v.items |-> Literals[d][v.items[i]]]
        <4>1. v.kind = "list" /\ v.items \in Seq(WrittenUpTo[d])
          BY <3>3 DEF Lists
        <4>2. /\ texts \in Seq(Seq(Signs))
              /\ \A i \in 1..Len(texts) : IsLiteral(texts[i])
          <5>1. \A i \in 1..Len(v.items) :
                   /\ IsLiteral(Literals[d][v.items[i]])
                   /\ Literals[d][v.items[i]] \in Seq(Signs)
            BY <1>3, <4>1 DEF IsLiteral
          <5> DEFINE n == Len(v.items)
                     L(i) == Literals[d][v.items[i]]
          <5>2. n \in Nat /\ DOMAIN v.items = 1..n
            BY <4>1
          <5>3. texts = [i \in 1..n |-> L(i)]
            BY <5>2
          <5>4. \A i \in 1..n : IsLiteral(L(i)) /\ L(i) \in Seq(Signs)
            BY <5>1
          <5> HIDE DEF n, L, texts, T
          <5>5. texts \in Seq(Seq(Signs)) /\ Len(texts) = n
            BY <5>2, <5>3, <5>4
          <5>6. QED
            BY <5>3, <5>4, <5>5
        <4>3. Literals[d + 1][v] = ListLiteral(texts)
          BY <2>1, <4>1, LiteralsStep
        <4> HIDE DEF texts
        <4>4. QED
          BY <4>2, <4>3, ListIsLiteral
      <3>4. QED
        BY <3>1, <3>2, <3>3
    <2>3. QED
      BY <2>1, <2>2
  <1>4. Depth \in T
    <2>1. 0 \in Int /\ Depth \in Int /\ Depth \in 0..Depth
      OBVIOUS
    <2> HIDE DEF T
    <2>2. 0..Depth \subseteq T
      BY <1>2, <1>3, <2>1, Induction, Zenon
    <2>3. QED
      BY <2>1, <2>2
  <1>5. QED
    BY <1>4 DEF Literal, Written

\* A literal is a text.
LEMMA LiteralType ==
    ASSUME Depth \in Nat, NEW p \in Written
    PROVE  Literal(p) \in Seq(Signs)
  BY LiteralIs DEF IsLiteral

-------------------------------------------------------------------------------
(* Placeholders, and what each character becomes *)

TypedState == sql \in Queries /\ params \in Parameters

\* What the assumptions say of the query and its parameters.
LEMMA StateType ==
    ASSUME TypedState
    PROVE  /\ Depth \in Nat /\ sql \in Seq(STRING) /\ sql \in Seq(Signs)
           /\ Len(sql) \in Nat /\ DOMAIN sql = 1..Len(sql)
           /\ params.kind \in {"none", "positional", "named"}
           /\ params.kind = "positional" =>
                 Len(params.values) \in Nat
                 /\ DOMAIN params.values = 1..Len(params.values)
  <1>1. sql \in Seq(STRING) /\ Depth \in Nat
    BY SqlAssumption DEF TypedState
  <1>2. sql \in Seq(Signs)
    BY <1>1, SignTexts
  <1>3. Len(sql) \in Nat /\ DOMAIN sql = 1..Len(sql)
    BY <1>1, Typed
  <1>4. \/ params.kind = "none"
        \/ params.kind = "positional" /\ params.values \in Seq(Values)
        \/ params.kind = "named"
    BY SqlAssumption DEF TypedState
  <1>5. QED
    BY <1>1, <1>2, <1>3, <1>4

\* A placeholder is in code, and its name holds no other.
LEMMA PlaceholderFacts ==
    ASSUME TypedState, NEW p \in Placeholders
    PROVE  /\ p \in 1..Len(sql) /\ Mode(p) = "code" /\ sql[p] \in {"?", ":"}
           /\ PlaceholderEnd(p) \in p + 1..Len(sql) + 1
           /\ params.kind = "positional" => sql[p] = "?" /\ PlaceholderEnd(p) = p + 1
           /\ params.kind = "named" => IsNamed(p) /\ PlaceholderEnd(p) = NameEnd(p)
           /\ params.kind # "none"
           /\ \A k \in p + 1..PlaceholderEnd(p) - 1 :
                 sql[k] \notin {"?", ":"} /\ k \notin Placeholders
  <1>1. params.kind = "positional" \/ params.kind = "named"
    BY DEF Placeholders
  <1>2. p \in Code
    BY <1>1 DEF Placeholders
  <1>3. p \in 1..Len(sql) /\ Mode(p) = "code"
    BY <1>2, StateType DEF Code, Mode
  <1>4. CASE params.kind = "positional"
    <2>1. sql[p] = "?" /\ PlaceholderEnd(p) = p + 1
      BY <1>4 DEF Placeholders, PlaceholderEnd
    <2>2. QED
      BY <1>3, <1>4, <2>1, StateType
  <1>5. CASE params.kind = "named"
    <2>1. IsNamed(p) /\ sql[p] = ":"
      BY <1>5 DEF Placeholders, IsNamed
    <2>2. PlaceholderEnd(p) = NameEnd(p)
      BY <2>1 DEF PlaceholderEnd
    <2>3. /\ NameEnd(p) \in p + 2..Len(sql) + 1
          /\ \A k \in p + 1..NameEnd(p) - 1 : IsIdentifierPart(sql[k])
      BY <1>3, <2>1, NameLemma, StateType
    <2>4. \A k \in p + 1..NameEnd(p) - 1 : sql[k] \notin {"?", ":"}
      BY <2>3 DEF IsIdentifierPart
    <2>5. \A k \in Placeholders : sql[k] = ":"
      BY <1>5 DEF Placeholders, IsNamed
    <2>6. QED
      BY <1>3, <1>5, <2>1, <2>2, <2>3, <2>4, <2>5, StateType
  <1>6. QED
    BY <1>1, <1>4, <1>5

\* The placeholders before i.
Before(i) == {p \in Placeholders : p < i}

\* Placeholders can be counted.
LEMMA BeforeFinite ==
    ASSUME TypedState
    PROVE  /\ IsFiniteSet(Placeholders) /\ Cardinality(Placeholders) \in Nat
           /\ \A i : IsFiniteSet(Before(i)) /\ Cardinality(Before(i)) \in Nat
           /\ \A i, j : Before(i) \subseteq Before(j) =>
                 Cardinality(Before(i)) <= Cardinality(Before(j))
           /\ \A i : Cardinality(Before(i)) <= Cardinality(Placeholders)
           /\ \A i : i \notin Before(i) =>
                 /\ IsFiniteSet(Before(i) \cup {i})
                 /\ Cardinality(Before(i) \cup {i}) = Cardinality(Before(i)) + 1
  <1>1. Placeholders \subseteq 1..Len(sql) /\ IsFiniteSet(1..Len(sql))
    BY PlaceholderFacts, StateType, FS_Interval
  <1>2. IsFiniteSet(Placeholders)
    BY <1>1, FS_Subset
  <1>3. \A i : IsFiniteSet(Before(i)) /\ Cardinality(Before(i)) <= Cardinality(Placeholders)
    BY <1>2, FS_Subset DEF Before
  <1>4. Cardinality(Placeholders) \in Nat /\ \A i : Cardinality(Before(i)) \in Nat
    BY <1>2, <1>3, FS_CardinalityType
  <1>5. \A i, j : Before(i) \subseteq Before(j) =>
           Cardinality(Before(i)) <= Cardinality(Before(j))
    BY <1>3, FS_Subset
  <1>6. \A i : i \notin Before(i) =>
           /\ IsFiniteSet(Before(i) \cup {i})
           /\ Cardinality(Before(i) \cup {i}) = Cardinality(Before(i)) + 1
    BY <1>3, FS_AddElement
  <1>7. QED
    BY <1>2, <1>3, <1>4, <1>5, <1>6

\* All placeholders before i have their value, which has a literal, and end before i.
Filled(i) ==
    /\ \A p \in Before(i) : PlaceholderEnd(p) <= i
    /\ params.kind = "positional" =>
          /\ Cardinality(Before(i)) <= Len(params.values)
          /\ \A k \in 1..Cardinality(Before(i)) : params.values[k] \in Written
    /\ params.kind = "named" =>
          \A p \in Before(i) :
             NameAt(p) \in DOMAIN params.values /\ params.values[NameAt(p)] \in Written

\* Which of the three each character becomes.
LEMMA BecomesIs ==
    ASSUME TypedState, NEW k \in 1..Len(sql)
    PROVE  /\ k \in Placeholders => Becomes[k] = Literal(ValueAt(k))
           /\ \A p \in Placeholders :
                 k \in p + 1..PlaceholderEnd(p) - 1 => Becomes[k] = <<>>
           /\ k \notin Placeholders
                 /\ (\A p \in Placeholders : k \notin p + 1..PlaceholderEnd(p) - 1)
                 => Becomes[k] = <<sql[k]>>
  <1> DEFINE within == UNION {i + 1..PlaceholderEnd(i) - 1 : i \in Placeholders}
  <1>1. Becomes[k] = IF k \in Placeholders THEN Literal(ValueAt(k))
                     ELSE IF k \in within THEN <<>>
                     ELSE <<sql[k]>>
    BY StateType DEF Becomes
  <1>2. k \in within <=> \E p \in Placeholders : k \in p + 1..PlaceholderEnd(p) - 1
    OBVIOUS
  <1> HIDE DEF within
  <1>3. \A p \in Placeholders : k \in p + 1..PlaceholderEnd(p) - 1 => k \notin Placeholders
    BY PlaceholderFacts
  <1>4. QED
    BY <1>1, <1>2, <1>3

\* What a placeholder that has a value is given.
LEMMA ValueType ==
    ASSUME TypedState, NEW i \in 1..Len(sql) + 1, Filled(i), NEW k \in Before(i)
    PROVE  ValueAt(k) \in Written
  <1>1. k \in Placeholders /\ k \in 1..Len(sql) /\ k < i /\ Len(sql) \in Nat
    BY PlaceholderFacts, StateType DEF Before
  <1>2. CASE params.kind = "positional"
    <2> DEFINE upTo == {j \in Placeholders : j <= k}
    <2>1. upTo \subseteq Before(i) /\ k \in upTo
      <3>1. \A j \in Placeholders : j \in 1..Len(sql)
        BY PlaceholderFacts
      <3>2. \A j \in 1..Len(sql) : j <= k => j < i
        BY <1>1
      <3>3. k <= k
        BY <1>1
      <3>4. QED
        BY <1>1, <3>1, <3>2, <3>3 DEF Before
    <2>2. IsFiniteSet(upTo) /\ Cardinality(upTo) <= Cardinality(Before(i))
      BY <2>1, BeforeFinite, FS_Subset
    <2>3. Cardinality(upTo) \in Nat /\ Cardinality(upTo) # 0
      BY <2>1, <2>2, FS_CardinalityType, FS_EmptySet
    <2>4. Cardinality(upTo) \in 1..Cardinality(Before(i))
      BY <2>2, <2>3, BeforeFinite
    <2>5. ValueAt(k) = params.values[Cardinality(upTo)]
      BY <1>2 DEF ValueAt
    <2>6. QED
      BY <1>2, <2>4, <2>5 DEF Filled
  <1>3. CASE params.kind = "named"
    <2>1. ValueAt(k) = params.values[NameAt(k)]
      BY <1>3 DEF ValueAt
    <2>2. QED
      BY <1>3, <2>1 DEF Filled
  <1>4. QED
    BY <1>1, <1>2, <1>3, StateType, PlaceholderFacts

\* What a character before i becomes is a text.
LEMMA BecomesType ==
    ASSUME TypedState, NEW i \in 1..Len(sql) + 1, Filled(i), NEW k \in 1..i - 1
    PROVE  Becomes[k] \in Seq(Signs)
  <1>1. k \in 1..Len(sql) /\ k < i /\ Depth \in Nat
    BY StateType
  <1>2. CASE k \in Placeholders
    <2>1. Becomes[k] = Literal(ValueAt(k))
      BY <1>1, <1>2, BecomesIs
    <2>2. k \in Before(i)
      BY <1>1, <1>2 DEF Before
    <2>3. ValueAt(k) \in Written
      BY <2>2, ValueType
    <2>4. QED
      BY <1>1, <2>1, <2>3, LiteralType
  <1>3. CASE k \notin Placeholders
    <2>1. Becomes[k] = <<>> \/ Becomes[k] = <<sql[k]>>
      BY <1>1, <1>3, BecomesIs
    <2>2. sql[k] \in Signs
      BY <1>1, StateType
    <2>3. QED
      BY <2>1, <2>2, SignTexts, EmptySeq
  <1>4. QED
    BY <1>2, <1>3

\* FlatRun for texts.
LEMMA CopiedRun ==
    ASSUME NEW b, NEW s \in Seq(Signs), NEW i \in Nat, NEW e \in Nat,
           i >= 1, i <= e, e <= Len(s) + 1,
           \A k \in 1..i - 1 : b[k] \in Seq(Signs), Copies(b, s, i, e)
    PROVE  Flat(b, e - 1) = Flat(b, i - 1) \o SubSeq(s, i, e - 1)
  BY FlatRun, ZenonT(60)

\* What is put out for the characters from i to e - 1, when no placeholder is there.
LEMMA NoPlaceholder ==
    ASSUME TypedState, NEW i \in 1..Len(sql), Filled(i), NEW e \in i + 1..Len(sql) + 1,
           \A k \in i..e - 1 : k \notin Placeholders
    PROVE  /\ Before(e) = Before(i) /\ Filled(e)
           /\ Flat(Becomes, e - 1) = Flat(Becomes, i - 1) \o SubSeq(sql, i, e - 1)
  <1>1. /\ i \in Nat /\ e \in Nat /\ i >= 1 /\ i <= e /\ e <= Len(sql) + 1
        /\ i \in 1..Len(sql) + 1
    BY StateType
  <1>2. \A p \in Placeholders : p \in 1..Len(sql)
    BY PlaceholderFacts
  <1>3. Before(e) = Before(i)
    BY <1>1, <1>2 DEF Before
  <1>4. Filled(e)
    <2>1. \A p \in Before(i) : PlaceholderEnd(p) <= e
      <3>1. \A p \in Before(i) : PlaceholderEnd(p) <= i /\ PlaceholderEnd(p) \in Int
        BY PlaceholderFacts DEF Filled, Before
      <3>2. QED
        BY <1>1, <3>1
    <2>2. QED
      BY <1>3, <2>1 DEF Filled
  <1>5. ASSUME NEW k \in i..e - 1 PROVE Becomes[k] = <<sql[k]>>
    <2>1. k \in 1..Len(sql) /\ k \notin Placeholders
      BY <1>1
    <2>2. ASSUME NEW p \in Placeholders, k \in p + 1..PlaceholderEnd(p) - 1 PROVE FALSE
      <3>1. p \in Int /\ PlaceholderEnd(p) \in Int /\ p < k /\ k < PlaceholderEnd(p)
        BY <1>1, <2>2, PlaceholderFacts
      <3>2. CASE p < i
        <4>1. PlaceholderEnd(p) <= i
          BY <3>2 DEF Filled, Before
        <4>2. QED
          BY <1>1, <3>1, <4>1
      <3>3. CASE ~(p < i)
        <4>1. p \in i..e - 1
          BY <1>1, <3>1, <3>3
        <4>2. QED
          BY <4>1
      <3>4. QED
        BY <3>2, <3>3
    <2>3. QED
      BY <2>1, <2>2, BecomesIs
  <1>6. \A k \in 1..i - 1 : Becomes[k] \in Seq(Signs)
    BY <1>1, BecomesType
  <1>7. sql \in Seq(Signs)
    BY StateType
  <1>8. Flat(Becomes, e - 1) = Flat(Becomes, i - 1) \o SubSeq(sql, i, e - 1)
    <2>1. Copies(Becomes, sql, i, e)
      BY <1>5 DEF Copies
    <2>2. i \in Nat /\ e \in Nat
      BY <1>1
    <2>3. i >= 1
      BY <1>1
    <2>4. i <= e
      BY <1>1
    <2>5. e <= Len(sql) + 1
      BY <1>1
    <2>6. QED
      BY <1>6, <1>7, <2>1, <2>2, <2>3, <2>4, <2>5, CopiedRun
  <1>9. QED
    BY <1>3, <1>4, <1>8

\* What is put out for a placeholder that has a value.
LEMMA OnePlaceholder ==
    ASSUME TypedState, NEW i \in Placeholders, Filled(i),
           params.kind = "positional" =>
              /\ Cardinality(Before(i)) + 1 <= Len(params.values)
              /\ params.values[Cardinality(Before(i)) + 1] \in Written,
           params.kind = "named" =>
              NameAt(i) \in DOMAIN params.values /\ params.values[NameAt(i)] \in Written
    PROVE  /\ Before(PlaceholderEnd(i)) = Before(i) \cup {i}
           /\ Cardinality(Before(PlaceholderEnd(i))) = Cardinality(Before(i)) + 1
           /\ Filled(PlaceholderEnd(i))
           /\ Flat(Becomes, PlaceholderEnd(i) - 1)
                 = Flat(Becomes, i - 1) \o Literal(ValueAt(i))
           /\ params.kind = "positional" =>
                 ValueAt(i) = params.values[Cardinality(Before(i)) + 1]
  <1> DEFINE e == PlaceholderEnd(i)
  <1>1. /\ i \in 1..Len(sql) /\ e \in i + 1..Len(sql) + 1 /\ Len(sql) \in Nat
        /\ params.kind # "none"
    BY StateType, PlaceholderFacts
  <1>2. \A p \in Placeholders : p \in 1..Len(sql) /\ PlaceholderEnd(p) \in Int
    BY PlaceholderFacts
  <1>3. \A k \in i + 1..e - 1 : k \notin Placeholders /\ Becomes[k] = <<>>
    <2> TAKE k \in i + 1..e - 1
    <2>1. k \in 1..Len(sql)
      BY <1>1
    <2>2. QED
      BY <2>1, PlaceholderFacts, BecomesIs
  <1> HIDE DEF e
  <1>4. Before(e) = Before(i) \cup {i}
    <2>1. \A p \in Placeholders : p < e => p < i \/ p = i \/ p \in i + 1..e - 1
      BY <1>1, <1>2
    <2>2. \A p \in Placeholders : p < i => p < e
      BY <1>1, <1>2
    <2>3. i < e
      BY <1>1
    <2>4. QED
      BY <1>3, <2>1, <2>2, <2>3 DEF Before
  <1>5. Cardinality(Before(e)) = Cardinality(Before(i)) + 1
    <2>1. i \notin Before(i)
      BY <1>1 DEF Before
    <2>2. QED
      BY <1>4, <2>1, BeforeFinite
  <1>6. Filled(e)
    <2>1. \A p \in Before(e) : PlaceholderEnd(p) <= e
      <3>1. \A p \in Before(i) : PlaceholderEnd(p) <= i /\ PlaceholderEnd(p) \in Int
        BY <1>2 DEF Filled, Before
      <3>2. PlaceholderEnd(i) <= e
        BY <1>1 DEF e
      <3>3. QED
        BY <1>1, <1>4, <3>1, <3>2
    <2>2. ASSUME params.kind = "positional"
          PROVE  /\ Cardinality(Before(e)) <= Len(params.values)
                 /\ \A k \in 1..Cardinality(Before(e)) : params.values[k] \in Written
      <3> DEFINE n == Cardinality(Before(i))
      <3>1. /\ n \in Nat /\ Cardinality(Before(e)) = n + 1
            /\ n + 1 <= Len(params.values) /\ params.values[n + 1] \in Written
            /\ \A k \in 1..n : params.values[k] \in Written
        BY <1>5, <2>2, BeforeFinite DEF Filled
      <3> HIDE DEF n
      <3>2. QED
        BY <3>1
    <2>3. ASSUME params.kind = "named", NEW p \in Before(e)
          PROVE  NameAt(p) \in DOMAIN params.values /\ params.values[NameAt(p)] \in Written
      BY <1>4, <2>3 DEF Filled
    <2>4. QED
      BY <2>1, <2>2, <2>3 DEF Filled
  <1>7. Becomes[i] = Literal(ValueAt(i))
    BY <1>1, BecomesIs
  <1>8. ASSUME NEW k \in 1..e - 1 PROVE Becomes[k] \in Seq(Signs)
    <2>1. e \in 1..Len(sql) + 1
      BY <1>1
    <2>2. QED
      BY <1>6, <2>1, BecomesType
  <1>9. Flat(Becomes, i) = Flat(Becomes, i - 1) \o Becomes[i]
    <2>1. i - 1 \in Nat /\ (i - 1) + 1 = i /\ \A k \in 1..i : k \in 1..e - 1
      BY <1>1
    <2> DEFINE j == i - 1
    <2> HIDE DEF j
    <2>2. j \in Nat /\ j + 1 = i /\ \A k \in 1..j + 1 : Becomes[k] \in Seq(Signs)
      BY <1>8, <2>1 DEF j
    <2>3. Flat(Becomes, j + 1) = Flat(Becomes, j) \o Becomes[j + 1]
      BY <2>2, FlatNext
    <2>4. QED
      BY <2>2, <2>3 DEF j
  <1>10. Flat(Becomes, e - 1) = Flat(Becomes, i)
    <2> DEFINE j == i + 1
    <2>1. j \in Nat /\ j >= 1 /\ j <= e /\ e \in Nat /\ j - 1 = i
      BY <1>1
    <2>2. /\ \A k \in 1..j - 1 : Becomes[k] \in Seq(Signs)
          /\ \A k \in j..e - 1 : Becomes[k] = <<>>
      <3>1. \A k \in 1..j - 1 : k \in 1..e - 1
        BY <1>1
      <3>2. QED
        BY <1>3, <1>8, <3>1 DEF e
    <2> HIDE DEF j
    <2>3. Flat(Becomes, e - 1) = Flat(Becomes, j - 1)
      BY <2>1, <2>2, FlatNothing
    <2>4. QED
      BY <2>1, <2>3
  <1>11. params.kind = "positional" =>
            ValueAt(i) = params.values[Cardinality(Before(i)) + 1]
    <2>1. {j \in Placeholders : j <= i} = Before(i) \cup {i}
      <3>1. \A j \in 1..Len(sql) : j <= i <=> j < i \/ j = i
        BY <1>1
      <3>2. QED
        BY <1>2, <3>1 DEF Before
    <2>2. QED
      BY <1>4, <1>5, <2>1 DEF ValueAt
  <1>12. QED
    BY <1>4, <1>5, <1>6, <1>7, <1>9, <1>10, <1>11 DEF e

-------------------------------------------------------------------------------
(* The invariant of the scanner, and its steps *)

\* A scanner at i that has put out text and used so many parameters.
Scanned(i, text, count) ==
    /\ i \in 1..Len(sql) + 1 /\ Boundary(i) /\ Filled(i)
    /\ params.kind = "positional" => count = Cardinality(Before(i))
    /\ PlainCode => text = Flat(Becomes, i - 1)

Inv ==
    /\ TypedState
    /\ status = "scanning" /\ params.kind # "none" => Scanned(index, output, used)
    /\ FormatsWhatIsCode

\* No step changes the query or its parameters, or what depends on them alone.
LEMMA Unmoved ==
    ASSUME sql' = sql, params' = params
    PROVE  /\ TypedState' = TypedState
           /\ Given' = Given /\ PlainCode' = PlainCode /\ Becomes' = Becomes
           /\ \A i, text, count : Scanned(i, text, count)' = Scanned(i, text, count)
  <1>1. Code' = Code /\ \A i : IsNamed(i)' = IsNamed(i)
    BY DEF Code, IsNamed
  <1>2. Placeholders' = Placeholders
    BY <1>1 DEF Placeholders
  <1>3. \A i : NameEnd(i)' = NameEnd(i) /\ NameAt(i)' = NameAt(i)
    BY DEF NameEnd, NameAt
  <1>4. \A i : PlaceholderEnd(i)' = PlaceholderEnd(i) /\ ValueAt(i)' = ValueAt(i)
    BY <1>2, <1>3 DEF PlaceholderEnd, ValueAt
  <1>5. Becomes' = Becomes
    BY <1>2, <1>4 DEF Becomes
  <1>6. Given' = Given
    BY <1>2, <1>3 DEF Given
  <1>7. PlainCode' = PlainCode
    BY <1>1 DEF PlainCode
  <1>8. \A i : /\ Before(i)' = Before(i) /\ Filled(i)' = Filled(i)
               /\ Boundary(i)' = Boundary(i)
    BY <1>2, <1>3, <1>4 DEF Before, Filled, Boundary, Mode
  <1>9. \A i, text, count : Scanned(i, text, count)' = Scanned(i, text, count)
    BY <1>5, <1>7, <1>8 DEF Scanned
  <1>10. QED
    BY <1>5, <1>6, <1>7, <1>9 DEF TypedState

\* The scanner starts as the invariant says.
LEMMA StartsScanned ==
    ASSUME Init
    PROVE  Inv
  <1>1. TypedState
    BY DEF Init, TypedState
  <1>2. index \in 1..Len(sql) + 1 /\ Boundary(index)
    <2>1. Mode(1) = "code"
      BY <1>1, StateType, ModesStep DEF Mode
    <2>2. QED
      BY <1>1, <2>1, StateType DEF Init, Boundary
  <1>3. Before(index) = {}
    <2>1. \A p \in Placeholders : p \in 1..Len(sql)
      BY <1>1, PlaceholderFacts
    <2>2. index = 1
      BY DEF Init
    <2>3. \A p \in 1..Len(sql) : ~(p < 1)
      BY <1>1, StateType
    <2>4. QED
      BY <2>1, <2>2, <2>3 DEF Before
  <1>4. Cardinality(Before(index)) = 0
    BY <1>3, FS_EmptySet
  <1>5. Filled(index)
    <2>1. /\ params.kind = "positional" => 0 <= Len(params.values)
          /\ \A k \in 1..0 : params.values[k] \in Written
      BY <1>1, StateType
    <2>2. QED
      BY <1>3, <1>4, <2>1 DEF Filled
  <1>6. output = Flat(Becomes, index - 1)
    <2>1. index - 1 = 0 /\ output = <<>>
      BY DEF Init
    <2>2. Flat(Becomes, 0) = <<>>
      BY FlatNone
    <2>3. QED
      BY <2>1, <2>2
  <1>7. used = 0
    BY DEF Init
  <1>8. Scanned(index, output, used)
    BY <1>2, <1>4, <1>5, <1>6, <1>7 DEF Scanned
  <1>9. FormatsWhatIsCode
    BY DEF Init, FormatsWhatIsCode
  <1>10. QED
    BY <1>1, <1>8, <1>9 DEF Inv

\* A step that goes on scanning.
LEMMA GoesOn ==
    ASSUME TypedState, sql' = sql, params' = params, status' = "scanning",
           Scanned(index', output', used')
    PROVE  Inv'
  <1>1. TypedState'
    BY Unmoved
  <1>2. Scanned(index, output, used)'
    BY Unmoved DEF Scanned, Boundary, Filled, Before, Mode
  <1>3. FormatsWhatIsCode'
    BY DEF FormatsWhatIsCode
  <1>4. QED
    BY <1>1, <1>2, <1>3 DEF Inv

\* A step that ends it.
LEMMA Ends ==
    ASSUME TypedState, sql' = sql, params' = params, status' # "scanning",
           status' = "done" => Given /\ (PlainCode => output' = FlattenSeq(Becomes)),
           status' # "done" => ~Given
    PROVE  Inv'
  <1>1. TypedState' /\ Given' = Given /\ PlainCode' = PlainCode /\ Becomes' = Becomes
    BY Unmoved
  <1>2. FormatsWhatIsCode'
    BY <1>1 DEF FormatsWhatIsCode
  <1>3. QED
    BY <1>1, <1>2 DEF Inv

\* What a step finds.
LEMMA AtScanning ==
    ASSUME Inv, Scanning(index)
    PROVE  /\ TypedState /\ Scanned(index, output, used) /\ status = "scanning"
           /\ index \in 1..Len(sql) /\ Boundary(index) /\ Filled(index)
           /\ params.kind \in {"positional", "named"}
           /\ sql[index] # "newline" => Mode(index) = "code" /\ index \in Code
  <1>1. /\ TypedState /\ Scanned(index, output, used) /\ status = "scanning"
        /\ params.kind # "none" /\ index <= Len(sql)
    BY DEF Inv, Scanning
  <1>2. index \in 1..Len(sql) /\ Boundary(index) /\ Filled(index)
    BY <1>1, StateType DEF Scanned
  <1>3. params.kind \in {"positional", "named"}
    BY <1>1, StateType
  <1>4. sql[index] # "newline" => Mode(index) = "code" /\ index \in Code
    BY <1>1, <1>2, StateType DEF Boundary, Code, Mode
  <1>5. QED
    BY <1>1, <1>2, <1>3, <1>4

\* Who is a placeholder.
LEMMA PlaceholderIs ==
    ASSUME TypedState
    PROVE  /\ params.kind = "positional" => Placeholders = {i \in Code : sql[i] = "?"}
           /\ params.kind = "named" => Placeholders = {i \in Code : IsNamed(i)}
           /\ params.kind = "none" => Placeholders = {}
           /\ \A p \in Placeholders : Mode(p) = "code" /\ sql[p] \in {"?", ":"}
  <1>1. \A p \in Placeholders : Mode(p) = "code" /\ sql[p] \in {"?", ":"}
    BY PlaceholderFacts
  <1>2. QED
    BY <1>1 DEF Placeholders

\* Copying a region keeps the invariant (sql.rs:216-245).
LEMMA CopyRegionStep ==
    ASSUME Inv, CopyRegion
    PROVE  Inv'
  <1> DEFINE e == RegionEnd(index)
  <1>1. /\ TypedState /\ Scanned(index, output, used) /\ index \in 1..Len(sql)
        /\ Filled(index) /\ Boundary(index)
    BY AtScanning DEF CopyRegion
  <1>2. Len(sql) \in Nat /\ sql \in Seq(STRING)
    BY <1>1, StateType
  <1>3. IsRegion(index, e) /\ Boundary(e)
    <2>1. e > index
      BY DEF CopyRegion
    <2>2. e # index
      BY <1>1, <1>2, <2>1
    <2>3. QED
      BY <1>1, <1>2, <2>2, RegionLemma
  <1>4. e \in index + 1..Len(sql) + 1
    BY <1>3 DEF IsRegion
  <1>5. \A k \in index..e - 1 : k \notin Placeholders
    <2>1. \A k \in index..e - 1 : Mode(k) = "code" => sql[k] \notin {"?", ":"}
      BY <1>3 DEF IsRegion, DoubleQuote
    <2>2. QED
      BY <1>1, <2>1, PlaceholderIs
  <1>6. /\ sql' = sql /\ params' = params /\ used' = used /\ status' = "scanning"
        /\ index' = e /\ output' = output \o SubSeq(sql, index, e - 1)
    BY DEF CopyRegion, Scanning
  <1> HIDE DEF e
  <1>7. /\ Before(e) = Before(index) /\ Filled(e)
        /\ Flat(Becomes, e - 1) = Flat(Becomes, index - 1) \o SubSeq(sql, index, e - 1)
    BY <1>1, <1>4, <1>5, NoPlaceholder
  <1>8. Scanned(e, output \o SubSeq(sql, index, e - 1), used)
    <2>1. e \in 1..Len(sql) + 1
      BY <1>1, <1>2, <1>4
    <2>2. QED
      BY <1>1, <1>3, <1>7, <2>1 DEF Scanned
  <1>9. QED
    BY <1>1, <1>6, <1>8, GoesOn

\* Putting in the next parameter keeps the invariant (sql.rs:174-182, 246-249).
LEMMA PositionalStep ==
    ASSUME Inv, Positional
    PROVE  Inv'
  <1>1. /\ TypedState /\ Scanned(index, output, used) /\ index \in 1..Len(sql)
        /\ Filled(index) /\ params.kind = "positional" /\ sql[index] = "?"
        /\ index \in Placeholders /\ Mode(index) = "code" /\ used < Len(params.values)
        /\ params.values[used + 1] \in Written
    BY AtScanning, PlaceholderIs DEF Positional
  <1>2. PlaceholderEnd(index) = index + 1 /\ index + 1 \in index + 1..Len(sql) + 1
    BY <1>1, PlaceholderFacts
  <1>3. used = Cardinality(Before(index)) /\ used + 1 <= Len(params.values)
    BY <1>1, BeforeFinite, StateType DEF Scanned
  <1>4. /\ Cardinality(Before(index + 1)) = used + 1 /\ Filled(index + 1)
        /\ Flat(Becomes, (index + 1) - 1)
              = Flat(Becomes, index - 1) \o Literal(params.values[used + 1])
    <2>1. /\ params.kind = "positional"
                => /\ Cardinality(Before(index)) + 1 <= Len(params.values)
                   /\ params.values[Cardinality(Before(index)) + 1] \in Written
          /\ params.kind # "named"
      BY <1>1, <1>3
    <2>2. /\ Cardinality(Before(PlaceholderEnd(index))) = Cardinality(Before(index)) + 1
          /\ Filled(PlaceholderEnd(index))
          /\ Flat(Becomes, PlaceholderEnd(index) - 1)
                = Flat(Becomes, index - 1) \o Literal(ValueAt(index))
          /\ ValueAt(index) = params.values[Cardinality(Before(index)) + 1]
      BY <1>1, <2>1, OnePlaceholder
    <2>3. QED
      BY <1>2, <1>3, <2>2
  <1>5. Boundary(index + 1)
    <2>1. After("code", "?", At(sql, index + 1)) = "code"
      BY DEF After, DoubleQuote
    <2>2. Mode(index + 1) = "code"
      BY <1>1, <2>1, ModeStep, StateType
    <2>3. QED
      BY <2>2 DEF Boundary
  <1>6. /\ sql' = sql /\ params' = params /\ used' = used + 1 /\ status' = "scanning"
        /\ index' = index + 1 /\ output' = output \o Literal(params.values[used + 1])
    BY DEF Positional, Scanning
  <1>7. Scanned(index + 1, output \o Literal(params.values[used + 1]), used + 1)
    <2>1. index + 1 \in 1..Len(sql) + 1
      BY <1>1, <1>2, StateType
    <2>2. QED
      BY <1>1, <1>4, <1>5, <2>1 DEF Scanned
  <1>8. QED
    BY <1>1, <1>6, <1>7, GoesOn

\* Putting in a named parameter keeps the invariant (sql.rs:197-206, 251-263).
LEMMA NamedStep ==
    ASSUME Inv, Named
    PROVE  Inv'
  <1> DEFINE e == NameEnd(index)
             text == Literal(params.values[NameAt(index)])
  <1>1. /\ TypedState /\ Scanned(index, output, used) /\ index \in 1..Len(sql)
        /\ Filled(index) /\ params.kind = "named" /\ IsNamed(index)
        /\ index \in Placeholders /\ Mode(index) = "code"
        /\ NameAt(index) \in DOMAIN params.values
        /\ params.values[NameAt(index)] \in Written
    <2>1. sql[index] # "newline"
      BY DEF Named, IsNamed
    <2>2. QED
      BY <2>1, AtScanning, PlaceholderIs DEF Named
  <1>2. PlaceholderEnd(index) = e /\ e \in index + 1..Len(sql) + 1
    BY <1>1, PlaceholderFacts
  <1>3. /\ Filled(e)
        /\ Flat(Becomes, e - 1) = Flat(Becomes, index - 1) \o text
    <2>1. ValueAt(index) = params.values[NameAt(index)] /\ params.kind # "positional"
      BY <1>1 DEF ValueAt
    <2>2. /\ Filled(PlaceholderEnd(index))
          /\ Flat(Becomes, PlaceholderEnd(index) - 1)
                = Flat(Becomes, index - 1) \o Literal(ValueAt(index))
      BY <1>1, <2>1, OnePlaceholder
    <2>3. QED
      BY <1>2, <2>1, <2>2
  <1>4. Boundary(e)
    <2>1. \A k \in index..e : Mode(k) = "code"
      BY <1>1, NameLemma, StateType
    <2>2. e \in index..e
      BY <1>1, <1>2
    <2>3. QED
      BY <2>1, <2>2 DEF Boundary
  <1>5. /\ sql' = sql /\ params' = params /\ used' = used /\ status' = "scanning"
        /\ index' = e /\ output' = output \o text
    BY DEF Named, Scanning
  <1> HIDE DEF e, text
  <1>6. Scanned(e, output \o text, used)
    <2>1. e \in 1..Len(sql) + 1
      BY <1>1, <1>2, StateType
    <2>2. QED
      BY <1>1, <1>3, <1>4, <2>1 DEF Scanned
  <1>7. QED
    BY <1>1, <1>5, <1>6, GoesOn

\* Leaving a placeholder of the other kind as it is keeps the invariant.
LEMMA CopyTokenStep ==
    ASSUME Inv, CopyToken
    PROVE  Inv'
  <1> DEFINE e == index'
  <1>1. /\ TypedState /\ Scanned(index, output, used) /\ index \in 1..Len(sql)
        /\ Filled(index) /\ Mode(index) = "code" /\ index \in Code /\ Len(sql) \in Nat
    <2>1. sql[index] # "newline"
      BY DEF CopyToken, IsNamed
    <2>2. QED
      BY <2>1, AtScanning, StateType DEF CopyToken
  <1>2. \/ sql[index] = "?" /\ params.kind = "named" /\ e = index + 1
        \/ IsNamed(index) /\ params.kind = "positional" /\ e = NameEnd(index)
    BY DEF CopyToken
  <1>3. /\ e \in index + 1..Len(sql) + 1 /\ Boundary(e)
        /\ \A k \in index..e - 1 : k \notin Placeholders
    <2>1. CASE sql[index] = "?" /\ params.kind = "named" /\ e = index + 1
      <3>1. After("code", "?", At(sql, index + 1)) = "code"
        BY DEF After, DoubleQuote
      <3>2. Boundary(e)
        BY <1>1, <2>1, <3>1, ModeStep, StateType DEF Boundary
      <3>3. index \notin Placeholders
        BY <1>1, <2>1, PlaceholderIs DEF IsNamed
      <3>4. \A k \in index..e - 1 : k = index
        BY <1>1, <2>1
      <3>5. QED
        BY <1>1, <2>1, <3>2, <3>3, <3>4
    <2>2. CASE IsNamed(index) /\ params.kind = "positional" /\ e = NameEnd(index)
      <3>1. /\ sql[index] = ":" /\ e \in index + 2..Len(sql) + 1
            /\ \A k \in index..e : Mode(k) = "code"
            /\ \A k \in index + 1..e - 1 : IsIdentifierPart(sql[k])
        BY <1>1, <2>2, NameLemma, StateType
      <3>2. e \in index + 1..Len(sql) + 1 /\ e \in index..e
        BY <1>1, <3>1
      <3>3. Boundary(e)
        BY <3>1, <3>2 DEF Boundary
      <3>4. \A k \in index..e - 1 : sql[k] # "?"
        <4>1. \A k \in index..e - 1 : k = index \/ k \in index + 1..e - 1
          <5> HIDE DEF e
          <5>1. index \in Int /\ e \in Int
            BY <1>1, <3>2
          <5>2. QED
            BY <5>1
        <4>2. QED
          BY <3>1, <4>1 DEF IsIdentifierPart
      <3>5. \A p \in Placeholders : sql[p] = "?"
        BY <1>1, <2>2, PlaceholderIs
      <3>6. QED
        BY <3>2, <3>3, <3>4, <3>5
    <2>3. QED
      BY <1>2, <2>1, <2>2
  <1>4. /\ sql' = sql /\ params' = params /\ used' = used /\ status' = "scanning"
        /\ output' = output \o SubSeq(sql, index, e - 1)
    BY DEF CopyToken, Scanning
  <1>5. index' = e
    OBVIOUS
  <1> HIDE DEF e
  <1>6. /\ Before(e) = Before(index) /\ Filled(e)
        /\ Flat(Becomes, e - 1) = Flat(Becomes, index - 1) \o SubSeq(sql, index, e - 1)
    BY <1>1, <1>3, NoPlaceholder
  <1>7. Scanned(e, output \o SubSeq(sql, index, e - 1), used)
    <2>1. e \in 1..Len(sql) + 1
      BY <1>1, <1>3
    <2>2. QED
      BY <1>1, <1>3, <1>6, <2>1 DEF Scanned
  <1>8. QED
    BY <1>1, <1>4, <1>5, <1>7, GoesOn

\* Copying a character keeps the invariant (sql.rs:265-266).
LEMMA CopyByteStep ==
    ASSUME Inv, CopyByte
    PROVE  Inv'
  <1> DEFINE byte == IF sql[index] \in Beyond THEN "latin 1" ELSE sql[index]
             e == index + 1
  <1>1. /\ TypedState /\ Scanned(index, output, used) /\ index \in 1..Len(sql)
        /\ Filled(index) /\ Boundary(index) /\ Len(sql) \in Nat /\ sql \in Seq(Signs)
        /\ sql \in Seq(STRING) /\ params.kind # "none"
        /\ sql[index] # "newline" => index \in Code
    BY AtScanning, StateType DEF CopyByte
  <1>2. RegionEnd(index) = index /\ sql[index] # "?" /\ ~IsNamed(index)
    BY DEF CopyByte
  <1>3. e \in index + 1..Len(sql) + 1 /\ e \in 1..Len(sql) + 1 /\ e - 1 = index
    BY <1>1
  <1>4. Boundary(e)
    <2>1. ~IsRegion(index, index)
      BY <1>1 DEF IsRegion
    <2>2. Mode(index + 1) = "code"
      BY <1>1, <1>2, <2>1, RegionLemma
    <2>3. QED
      BY <2>2 DEF Boundary
  <1>5. \A k \in index..e - 1 : k \notin Placeholders
    <2>1. index \notin Placeholders
      BY <1>1, <1>2, AtScanning, PlaceholderIs DEF CopyByte
    <2>2. \A k \in index..e - 1 : k = index
      BY <1>1, <1>3
    <2>3. QED
      BY <2>1, <2>2
  <1>6. /\ sql' = sql /\ params' = params /\ used' = used /\ status' = "scanning"
        /\ index' = e /\ output' = Append(output, byte)
    BY DEF CopyByte, Scanning
  <1>7. PlainCode => byte = sql[index]
    <2>1. PlainCode => sql[index] = "newline" \/ sql[index] \notin Beyond
      BY <1>1 DEF PlainCode
    <2>2. "newline" \notin Beyond
      BY DEF Beyond, ByteA, ByteB
    <2>3. QED
      BY <2>1, <2>2
  <1> HIDE DEF e, byte
  <1>8. /\ Before(e) = Before(index) /\ Filled(e)
        /\ Flat(Becomes, e - 1) = Flat(Becomes, index - 1) \o SubSeq(sql, index, e - 1)
    BY <1>1, <1>3, <1>5, NoPlaceholder
  <1>9. PlainCode => Append(output, byte) = Flat(Becomes, e - 1)
    <2> SUFFICES ASSUME PlainCode PROVE Append(output, byte) = Flat(Becomes, e - 1)
      OBVIOUS
    <2>1. output = Flat(Becomes, index - 1)
      BY <1>1 DEF Scanned
    <2>2. output \in Seq(Signs)
      <3>1. index - 1 \in Nat /\ index \in 1..Len(sql) + 1
        BY <1>1
      <3>2. \A k \in 1..index - 1 : Becomes[k] \in Seq(Signs)
        BY <1>1, <3>1, BecomesType
      <3>3. QED
        BY <2>1, <3>1, <3>2, FlatType
    <2>3. SubSeq(sql, index, index) = <<sql[index]>>
      <3>1. SubSeq(sql, index, index) = SubSeq(sql, index, index - 1) \o <<sql[index]>>
        BY <1>1, SubSeqRecursiveSecond
      <3>2. SubSeq(sql, index, index - 1) = <<>>
        BY <1>1, SubSeqEmpty
      <3>3. <<>> \o <<sql[index]>> = <<sql[index]>>
        <4>1. <<sql[index]>> \in Seq(Signs)
          BY <1>1
        <4>2. QED
          BY <4>1, ConcatEmptySeq
      <3>4. QED
        BY <3>1, <3>2, <3>3
    <2>4. Append(output, sql[index]) = output \o <<sql[index]>>
      <3>1. sql[index] \in Signs
        BY <1>1
      <3>2. QED
        BY <2>2, <3>1, AppendIsConcat
    <2>5. QED
      BY <1>3, <1>7, <1>8, <2>1, <2>3, <2>4
  <1>10. Scanned(e, Append(output, byte), used)
    BY <1>1, <1>3, <1>4, <1>8, <1>9 DEF Scanned
  <1>11. QED
    BY <1>1, <1>6, <1>10, GoesOn

\* Taking the text as it is keeps the invariant (sql.rs:60).
LEMMA UnscannedStep ==
    ASSUME Inv, Unscanned
    PROVE  Inv'
  <1>1. TypedState /\ params.kind = "none" /\ sql \in Seq(Signs) /\ Len(sql) \in Nat
    BY StateType DEF Inv, Unscanned
  <1>2. Placeholders = {} /\ Given
    BY <1>1, PlaceholderIs DEF Given
  <1>3. Becomes = [i \in 1..Len(sql) |-> Becomes[i]]
    BY <1>1, StateType DEF Becomes
  <1>4. \A k \in 1..Len(sql) : Becomes[k] = <<sql[k]>>
    BY <1>1, <1>2, BecomesIs
  <1>5. FlattenSeq(Becomes) = sql
    <2> DEFINE e == Len(sql) + 1
    <2>1. /\ 1 \in Nat /\ e \in Nat /\ 1 >= 1 /\ 1 <= e /\ e <= Len(sql) + 1
          /\ e - 1 = Len(sql) /\ \A k \in 1..1 - 1 : Becomes[k] \in Seq(Signs)
      BY <1>1
    <2>2. Copies(Becomes, sql, 1, e)
      BY <1>1, <1>4 DEF Copies
    <2> HIDE DEF e
    <2>3. Flat(Becomes, e - 1) = Flat(Becomes, 1 - 1) \o SubSeq(sql, 1, e - 1)
      BY <1>1, <2>1, <2>2, CopiedRun
    <2>4. Flat(Becomes, 1 - 1) = <<>>
      BY FlatNone
    <2>5. SubSeq(sql, 1, Len(sql)) = sql
      BY <1>1, SubSeqFull
    <2>6. <<>> \o sql = sql
      BY <1>1, ConcatEmptySeq
    <2>7. Flat(Becomes, Len(sql)) = FlattenSeq(Becomes)
      BY <1>3 DEF Flat
    <2>8. QED
      BY <2>1, <2>3, <2>4, <2>5, <2>6, <2>7
  <1>6. sql' = sql /\ params' = params /\ status' = "done" /\ output' = sql
    BY DEF Unscanned
  <1>7. QED
    BY <1>1, <1>2, <1>5, <1>6, Ends

\* The error of a parameter too few is right (sql.rs:178-180).
LEMMA TooFewParametersStep ==
    ASSUME Inv, TooFewParameters
    PROVE  Inv'
  <1>1. /\ TypedState /\ Scanned(index, output, used) /\ index \in 1..Len(sql)
        /\ params.kind = "positional" /\ index \in Placeholders
        /\ used = Len(params.values)
    BY AtScanning, PlaceholderIs DEF TooFewParameters
  <1>2. ~Given
    <2>1. index \notin Before(index) /\ Before(index) \cup {index} \subseteq Placeholders
      BY <1>1, StateType DEF Before
    <2>2. Cardinality(Before(index)) + 1 <= Cardinality(Placeholders)
      BY <1>1, <2>1, BeforeFinite, FS_Subset
    <2>3. Cardinality(Placeholders) # Len(params.values)
      BY <1>1, <2>2, BeforeFinite, StateType DEF Scanned
    <2>4. QED
      BY <1>1, <2>3 DEF Given
  <1>3. sql' = sql /\ params' = params /\ status' = "too few parameters"
    BY DEF TooFewParameters
  <1>4. QED
    BY <1>1, <1>2, <1>3, Ends

\* The error of a missing parameter is right (sql.rs:202-204).
LEMMA MissingParameterStep ==
    ASSUME Inv, MissingParameter
    PROVE  Inv'
  <1>1. TypedState /\ params.kind = "named" /\ index \in Placeholders
    <2>1. sql[index] # "newline"
      BY DEF MissingParameter, IsNamed
    <2>2. QED
      BY <2>1, AtScanning, PlaceholderIs DEF MissingParameter
  <1>2. ~Given
    BY <1>1 DEF Given, MissingParameter
  <1>3. sql' = sql /\ params' = params /\ status' = "missing parameter"
    BY DEF MissingParameter
  <1>4. QED
    BY <1>1, <1>2, <1>3, Ends

\* A parameter without a literal is one of a placeholder (sql.rs:119-182, 193-207).
LEMMA NoLiteralStep ==
    ASSUME Inv, NoLiteral
    PROVE  Inv'
  <1>1. ~Given
    <2>1. CASE /\ sql[index] = "?" /\ params.kind = "positional"
               /\ used < Len(params.values) /\ params.values[used + 1] \notin Written
      <3>1. TypedState /\ Scanned(index, output, used)
        BY AtScanning DEF NoLiteral
      <3>2. used \in Nat /\ used + 1 \in DOMAIN params.values
        BY <2>1, <3>1, BeforeFinite, StateType DEF Scanned
      <3>3. QED
        BY <2>1, <3>2 DEF Given
    <2>2. CASE /\ IsNamed(index) /\ params.kind = "named"
               /\ NameAt(index) \in DOMAIN params.values
               /\ params.values[NameAt(index)] \notin Written
      <3>1. sql[index] # "newline"
        BY <2>2 DEF IsNamed
      <3>2. index \in Placeholders
        BY <2>2, <3>1, AtScanning, PlaceholderIs DEF NoLiteral
      <3>3. QED
        BY <2>2, <3>2 DEF Given
    <2>3. QED
      BY <2>1, <2>2 DEF NoLiteral
  <1>2. TypedState /\ sql' = sql /\ params' = params /\ status' = "no literal"
    BY DEF NoLiteral, Inv
  <1>3. QED
    BY <1>1, <1>2, Ends

\* The end of the query, and the error of a parameter too many (sql.rs:184-189, 268).
LEMMA FinishStep ==
    ASSUME Inv, Finish
    PROVE  Inv'
  <1>1. /\ TypedState /\ Scanned(index, output, used) /\ params.kind # "none"
        /\ index > Len(sql) /\ Len(sql) \in Nat /\ params.kind \in {"positional", "named"}
    BY StateType DEF Inv, Finish
  <1>2. index = Len(sql) + 1
    BY <1>1 DEF Scanned
  <1>3. Before(index) = Placeholders
    <2>1. \A p \in Placeholders : p \in 1..Len(sql)
      BY <1>1, PlaceholderFacts
    <2>2. \A p \in 1..Len(sql) : p < Len(sql) + 1
      BY <1>1
    <2>3. QED
      BY <1>2, <2>1, <2>2 DEF Before
  <1>4. PlainCode => output = FlattenSeq(Becomes)
    <2>1. PlainCode => output = Flat(Becomes, Len(sql))
      BY <1>1, <1>2 DEF Scanned
    <2>2. Becomes = [i \in 1..Len(sql) |-> Becomes[i]]
      BY <1>1, StateType DEF Becomes
    <2>3. QED
      BY <2>1, <2>2 DEF Flat
  <1>5. /\ params.kind = "positional" => (Given <=> used = Len(params.values))
        /\ params.kind = "named" => Given
    <2>1. ASSUME params.kind = "positional"
          PROVE  Given <=> used = Len(params.values)
      <3>1. /\ used = Cardinality(Placeholders)
            /\ \A k \in 1..used : params.values[k] \in Written
            /\ DOMAIN params.values = 1..Len(params.values)
        BY <1>1, <1>3, <2>1, StateType DEF Scanned, Filled
      <3>2. QED
        BY <2>1, <3>1 DEF Given
    <2>2. params.kind = "named" => Given
      BY <1>1, <1>3 DEF Given, Scanned, Filled
    <2>3. QED
      BY <2>1, <2>2
  <1>6. /\ sql' = sql /\ params' = params /\ output' = output
        /\ status' = IF params.kind = "positional" /\ used # Len(params.values)
                     THEN "too many parameters" ELSE "done"
    BY DEF Finish
  <1>7. QED
    BY <1>1, <1>4, <1>5, <1>6, Ends

\* Every step keeps the invariant.
LEMMA FormatStep ==
    ASSUME Inv, [Next]_vars
    PROVE  Inv'
  <1>1. CASE Unscanned
    BY <1>1, UnscannedStep
  <1>2. CASE CopyRegion
    BY <1>2, CopyRegionStep
  <1>3. CASE Positional
    BY <1>3, PositionalStep
  <1>4. CASE TooFewParameters
    BY <1>4, TooFewParametersStep
  <1>5. CASE Named
    BY <1>5, NamedStep
  <1>6. CASE MissingParameter
    BY <1>6, MissingParameterStep
  <1>7. CASE CopyToken
    BY <1>7, CopyTokenStep
  <1>8. CASE CopyByte
    BY <1>8, CopyByteStep
  <1>9. CASE Finish
    BY <1>9, FinishStep
  <1>10. CASE NoLiteral
    BY <1>10, NoLiteralStep
  <1>11. CASE UNCHANGED vars
    <2>1. /\ sql' = sql /\ params' = params /\ index' = index /\ used' = used
          /\ output' = output /\ status' = status
      BY <1>11 DEF vars
    <2>2. TypedState' = TypedState /\ Given' = Given /\ PlainCode' = PlainCode
          /\ Becomes' = Becomes
      BY <2>1, Unmoved
    <2>3. CASE status = "scanning"
      <3>1. params.kind # "none" => Scanned(index', output', used')
        BY <2>1, <2>3 DEF Inv
      <3>2. CASE params.kind # "none"
        BY <2>1, <2>3, <3>1, <3>2, GoesOn DEF Inv
      <3>3. CASE params.kind = "none"
        BY <2>1, <2>2, <2>3, <3>3 DEF Inv, FormatsWhatIsCode
      <3>4. QED
        BY <3>2, <3>3
    <2>4. CASE status # "scanning"
      BY <2>1, <2>2, <2>4 DEF Inv, FormatsWhatIsCode
    <2>5. QED
      BY <2>3, <2>4
  <1>12. QED
    BY <1>1, <1>2, <1>3, <1>4, <1>5, <1>6, <1>7, <1>8, <1>9, <1>10,
       <1>11 DEF Next

\* The scanner's invariant: between two steps it is in code, all before it is put
\* out as Becomes says, and it has used a parameter for each placeholder before it
\* (scan_sql, sql.rs:209-269).
THEOREM Invariance == Spec => []Inv
  <1>1. Init => Inv
    BY StartsScanned
  <1>2. Inv /\ [Next]_vars => Inv'
    BY FormatStep
  <1>3. QED
    BY <1>1, <1>2, PTL DEF Spec

\* The text that is sent has every parameter at its placeholder and nowhere else,
\* and all else as it was, if the query is ASCII outside quotes and comments; and
\* whatever the query, one is sent if and only if no parameter is too few or too
\* many and each one of a placeholder has a literal (sql.rs:58-64, 119-269).
THEOREM FormatsCode == Spec => []FormatsWhatIsCode
  <1>1. Inv => FormatsWhatIsCode
    BY DEF Inv
  <1>2. QED
    BY <1>1, Invariance, PTL

-------------------------------------------------------------------------------
(* The text put out is read as the query was *)

\* Where the i-th character's text starts in what is put out.
Start(i) == Len(Flat(Becomes, i - 1)) + 1

\* Whatever follows a character, if it is neither a second dash nor a star.
LEMMA AfterOther ==
    ASSUME NEW m, NEW c, NEW d, NEW e, d # "-", d # "*", d # "/", e # "*", c # "-",
           After(m, c, d) = "code"
    PROVE  After(m, c, e) = "code"
  BY DEF After, DoubleQuote

\* When all is given, each placeholder becomes a literal.
LEMMA Filling ==
    ASSUME TypedState, Given
    PROVE  /\ Len(sql) + 1 \in 1..Len(sql) + 1 /\ Filled(Len(sql) + 1)
           /\ \A k \in 1..Len(sql) : Becomes[k] \in Seq(Signs)
           /\ \A p \in Placeholders : IsLiteral(Becomes[p])
  <1>1. /\ Len(sql) \in Nat /\ Len(sql) + 1 \in 1..Len(sql) + 1 /\ Depth \in Nat
        /\ params.kind = "none" \/ params.kind = "positional" \/ params.kind = "named"
    BY StateType
  <1>2. \A p \in Placeholders : p \in 1..Len(sql) /\ PlaceholderEnd(p) <= Len(sql) + 1
    <2>1. \A p \in Placeholders :
             p \in 1..Len(sql) /\ PlaceholderEnd(p) \in p + 1..Len(sql) + 1
      BY PlaceholderFacts
    <2>2. QED
      BY <1>1, <2>1
  <1>3. Before(Len(sql) + 1) = Placeholders
    <2>1. \A p \in 1..Len(sql) : p < Len(sql) + 1
      BY <1>1
    <2>2. QED
      BY <1>2, <2>1 DEF Before
  <1>4. Filled(Len(sql) + 1)
    <2>1. params.kind = "positional" =>
             /\ Cardinality(Placeholders) <= Len(params.values)
             /\ \A k \in 1..Cardinality(Placeholders) : params.values[k] \in Written
      <3>1. params.kind = "positional" =>
               /\ Cardinality(Placeholders) = Len(params.values)
               /\ \A k \in DOMAIN params.values : params.values[k] \in Written
        BY DEF Given
      <3>2. QED
        BY <3>1, BeforeFinite, StateType
    <2>2. params.kind = "named" =>
             \A p \in Placeholders :
                NameAt(p) \in DOMAIN params.values /\ params.values[NameAt(p)] \in Written
      BY DEF Given
    <2>3. QED
      BY <1>2, <1>3, <2>1, <2>2 DEF Filled
  <1>5. \A k \in 1..Len(sql) : Becomes[k] \in Seq(Signs)
    <2>1. \A k \in 1..Len(sql) : k \in 1..(Len(sql) + 1) - 1
      BY <1>1
    <2>2. QED
      BY <1>1, <1>4, <2>1, BecomesType
  <1>6. ASSUME NEW p \in Placeholders PROVE IsLiteral(Becomes[p])
    <2>1. Becomes[p] = Literal(ValueAt(p))
      BY <1>2, BecomesIs
    <2>2. ValueAt(p) \in Written
      BY <1>1, <1>2, <1>3, <1>4, ValueType
    <2>3. QED
      BY <1>1, <2>1, <2>2, LiteralIs
  <1>7. QED
    BY <1>1, <1>4, <1>5, <1>6

\* Nothing follows the last character.
LEMMA AtEnd ==
    ASSUME NEW s \in Seq(Signs)
    PROVE  At(s, Len(s) + 1) = "end"
  <1>1. DOMAIN s = 1..Len(s) /\ Len(s) + 1 \notin 1..Len(s)
    OBVIOUS
  <1>2. QED
    BY <1>1 DEF At

\* The first character of a text that is at a.
LEMMA AtStart ==
    ASSUME NEW o \in Seq(Signs), NEW t, NEW a, Len(t) \in Nat, Len(t) >= 1, IsAt(t, o, a)
    PROVE  At(o, a) = t[1]
  <1>1. /\ a \in 1..Len(o) + 1 /\ a + Len(t) \in 1..Len(o) + 1 /\ Len(o) \in Nat
        /\ DOMAIN o = 1..Len(o) /\ 1 \in 1..Len(t)
    BY DEF IsAt
  <1>2. a \in 1..Len(o) /\ a + 1 - 1 = a
    BY <1>1
  <1>3. o[a + 1 - 1] = t[1]
    BY <1>1 DEF IsAt
  <1>4. QED
    BY <1>1, <1>2, <1>3 DEF At

\* A placeholder is code, and so is what follows it.
LEMMA PlaceholderMode ==
    ASSUME TypedState, NEW p \in Placeholders
    PROVE  /\ Mode(p + 1) = "code"
           /\ \A k \in p + 1..PlaceholderEnd(p) - 1 :
                 Mode(k) = "code" /\ Mode(k + 1) = "code"
  <1>1. /\ p \in 1..Len(sql) /\ Mode(p) = "code" /\ Len(sql) \in Nat /\ sql \in Seq(STRING)
        /\ params.kind = "positional" \/ params.kind = "named"
        /\ params.kind = "positional" => sql[p] = "?" /\ PlaceholderEnd(p) = p + 1
        /\ params.kind = "named" => IsNamed(p) /\ PlaceholderEnd(p) = NameEnd(p)
    BY StateType, PlaceholderFacts
  <1>2. CASE params.kind = "positional"
    <2>1. After("code", "?", At(sql, p + 1)) = "code"
      BY DEF After, DoubleQuote
    <2>2. Mode(p + 1) = "code"
      BY <1>1, <1>2, <2>1, ModeStep
    <2>3. p + 1..PlaceholderEnd(p) - 1 = {}
      BY <1>1, <1>2
    <2>4. QED
      BY <2>2, <2>3
  <1>3. CASE params.kind = "named"
    <2>1. /\ NameEnd(p) \in p + 2..Len(sql) + 1
          /\ \A k \in p..NameEnd(p) : Mode(k) = "code"
      BY <1>1, <1>3, NameLemma
    <2>2. p + 1 \in p..NameEnd(p)
      BY <1>1, <2>1
    <2>3. \A k \in p + 1..NameEnd(p) - 1 : k \in p..NameEnd(p) /\ k + 1 \in p..NameEnd(p)
      BY <1>1, <2>1
    <2>4. QED
      BY <1>1, <1>3, <2>1, <2>2, <2>3
  <1>4. QED
    BY <1>1, <1>2, <1>3

\* FlatAt for texts.
LEMMA EachIsLaid ==
    ASSUME NEW b, NEW n \in Nat, \A j \in 1..n : b[j] \in Seq(Signs), NEW i \in 1..n
    PROVE  IsLaid(b, n, i)
  BY FlatAt

\* Character by character, the text put out is read in the modes of the query.
LEMMA SameMeaning ==
    ASSUME TypedState, Given, Apart, NEW o, o = Flat(Becomes, Len(sql))
    PROVE  \A i \in 1..Len(sql) : Modes(o)[Start(i)] = Modes(sql)[i]
  <1> DEFINE n == Len(sql)
             T == {i \in 1..n + 1 : Modes(o)[Start(i)] = Modes(sql)[i]}
  <1>1. /\ n \in Nat /\ n \in Int /\ 1 \in Int /\ n + 1 \in Int /\ sql \in Seq(STRING)
        /\ n = Len(sql) /\ sql \in Seq(Signs)
        /\ \A k \in 1..n : Becomes[k] \in Seq(Signs)
        /\ \A p \in Placeholders : IsLiteral(Becomes[p])
    BY StateType, Filling
  <1>2. o \in Seq(Signs) /\ Len(o) \in Nat
    <2>1. o \in Seq(Signs)
      BY <1>1, FlatType
    <2>2. QED
      BY <2>1
  <1>3. ASSUME NEW i \in 1..n
        PROVE  /\ Start(i) \in 1..Len(o) + 1 /\ Len(Becomes[i]) \in Nat
               /\ Start(i + 1) = Start(i) + Len(Becomes[i])
               /\ Start(i + 1) \in 1..Len(o) + 1
               /\ IsAt(Becomes[i], o, Start(i))
    <2>1. /\ Len(Flat(Becomes, i - 1)) \in Nat /\ Len(Becomes[i]) \in Nat
          /\ Len(Flat(Becomes, i)) = Len(Flat(Becomes, i - 1)) + Len(Becomes[i])
          /\ Len(Flat(Becomes, i)) <= Len(Flat(Becomes, n))
          /\ \A k \in 1..Len(Becomes[i]) :
                Flat(Becomes, n)[Len(Flat(Becomes, i - 1)) + k] = Becomes[i][k]
      BY <1>1, EachIsLaid DEF IsLaid
    <2>2. (i + 1) - 1 = i
      BY <1>1
    <2>3. /\ Start(i) \in 1..Len(o) + 1 /\ Start(i + 1) = Start(i) + Len(Becomes[i])
          /\ Start(i + 1) \in 1..Len(o) + 1
      <3>1. Start(i + 1) = Len(Flat(Becomes, i)) + 1 /\ Flat(Becomes, n) = o
        BY <2>2 DEF Start
      <3> DEFINE p == Len(Flat(Becomes, i - 1))
                 q == Len(Flat(Becomes, i))
                 l == Len(Becomes[i])
      <3>2. /\ p \in Nat /\ l \in Nat /\ q = p + l
            /\ q <= Len(o) /\ Start(i) = p + 1 /\ Start(i + 1) = q + 1
        BY <2>1, <3>1 DEF Start
      <3> HIDE DEF p, q, l, n
      <3>3. Start(i) \in 1..Len(o) + 1
        BY <1>2, <3>2
      <3>4. Start(i + 1) \in 1..Len(o) + 1
        BY <1>2, <3>2
      <3>5. Start(i + 1) = Start(i) + l
        BY <3>2
      <3>6. QED
        BY <3>3, <3>4, <3>5, Zenon DEF l
    <2>4. \A k \in 1..Len(Becomes[i]) : o[Start(i) + k - 1] = Becomes[i][k]
      <3>1. \A k \in 1..Len(Becomes[i]) :
               Start(i) + k - 1 = Len(Flat(Becomes, i - 1)) + k
        BY <2>1 DEF Start
      <3>2. QED
        BY <2>1, <3>1
    <2>5. QED
      BY <2>1, <2>3, <2>4 DEF IsAt
  <1>4. Start(n + 1) = Len(o) + 1
    <2>1. (n + 1) - 1 = n
      BY <1>1
    <2>2. QED
      BY <2>1 DEF Start
  <1>5. 1 \in T
    <2>1. Start(1) = 1
      <3>1. 1 - 1 = 0 /\ Flat(Becomes, 0) = <<>> /\ Len(<<>>) = 0
        BY FlatNone
      <3>2. QED
        BY <3>1 DEF Start
    <2>2. Modes(o)[1] = "code" /\ Modes(sql)[1] = "code"
      BY <1>1, <1>2, ModesStep
    <2>3. 1 \in 1..n + 1
      BY <1>1
    <2>4. QED
      BY <2>1, <2>2, <2>3
  <1>6. ASSUME NEW i \in 1..(n + 1) - 1, i \in T PROVE i + 1 \in T
    <2>1. i \in 1..n /\ i + 1 \in 1..n + 1 /\ i \in Int
      BY <1>1
    <2>2. Modes(o)[Start(i)] = Mode(i)
      BY <1>6 DEF Mode
    <2>3. Mode(i + 1) = After(Mode(i), sql[i], At(sql, i + 1))
      BY <1>1, <2>1, ModeStep
    <2>4. CASE i \in Placeholders
      <3>1. Mode(i + 1) = "code"
        BY <1>1, <2>1, <2>4, PlaceholderMode
      <3>2. Mode(i) = "code" /\ Leads("code", Becomes[i], "code")
        BY <1>1, <2>4, PlaceholderFacts DEF IsLiteral
      <3>3. Modes(o)[Start(i) + Len(Becomes[i])] = "code"
        BY <1>2, <1>3, <2>1, <2>2, <3>2 DEF Leads
      <3>4. QED
        BY <1>3, <2>1, <3>1, <3>3 DEF Mode
    <2>5. CASE \E p \in Placeholders : i \in p + 1..PlaceholderEnd(p) - 1
      <3>1. PICK p \in Placeholders : i \in p + 1..PlaceholderEnd(p) - 1
        BY <2>5
      <3>2. Becomes[i] = <<>>
        BY <1>1, <2>1, <3>1, BecomesIs
      <3>3. Mode(i) = "code" /\ Mode(i + 1) = "code"
        BY <1>1, <2>1, <3>1, PlaceholderMode
      <3>4. Start(i + 1) = Start(i)
        <4>1. Len(Becomes[i]) = 0
          BY <3>2
        <4>2. QED
          BY <1>2, <1>3, <2>1, <4>1
      <3>5. QED
        BY <2>1, <2>2, <3>3, <3>4 DEF Mode
    <2>6. CASE /\ i \notin Placeholders
               /\ ~ \E p \in Placeholders : i \in p + 1..PlaceholderEnd(p) - 1
      <3>1. Becomes[i] = <<sql[i]>>
        BY <1>1, <2>1, <2>6, BecomesIs
      <3>2. /\ Start(i) \in 1..Len(o) /\ o[Start(i)] = sql[i]
            /\ Start(i + 1) = Start(i) + 1
        <4>1. Len(Becomes[i]) = 1 /\ Becomes[i][1] = sql[i] /\ 1 \in 1..Len(Becomes[i])
          BY <3>1
        <4>2. Start(i) + 1 - 1 = Start(i) /\ Start(i) \in 1..Len(o)
          BY <1>2, <1>3, <2>1, <4>1
        <4>3. o[Start(i) + 1 - 1] = Becomes[i][1]
          BY <1>3, <2>1, <4>1 DEF IsAt
        <4>4. QED
          BY <1>3, <2>1, <4>1, <4>2, <4>3
      <3>3. Modes(o)[Start(i + 1)] = After(Mode(i), sql[i], At(o, Start(i + 1)))
        BY <1>2, <2>2, <3>2, TextStep
      <3>4. CASE i = n
        <4>1. At(o, Start(i + 1)) = "end"
          BY <1>2, <1>4, <3>4, TextStep, AtEnd
        <4>2. At(sql, i + 1) = "end"
          BY <1>1, <3>4, AtEnd
        <4>3. QED
          BY <2>1, <2>3, <3>3, <4>1, <4>2 DEF Mode
      <3>5. CASE i # n /\ i + 1 \in Placeholders
        <4>1. i + 1 \in 1..n /\ At(sql, i + 1) = sql[i + 1] /\ sql[i + 1] \in {"?", ":"}
          BY <1>1, <2>1, <3>5, Typed, PlaceholderFacts
        <4>2. Mode(i + 1) = "code"
          BY <3>5, PlaceholderFacts
        <4>3. At(o, Start(i + 1)) # "*"
          <5>1. Len(Becomes[i + 1]) >= 1 /\ Becomes[i + 1][1] # "*"
            BY <1>1, <3>5 DEF IsLiteral
          <5>2. At(o, Start(i + 1)) = Becomes[i + 1][1]
            BY <1>2, <1>3, <4>1, <5>1, AtStart
          <5>3. QED
            BY <5>1, <5>2
        <4>4. sql[i] # "-"
          <5>1. At(sql, (i + 1) - 1) \notin {"'", "-"}
            BY <3>5 DEF Apart
          <5>2. (i + 1) - 1 = i /\ At(sql, i) = sql[i]
            BY <1>1, <2>1, Typed
          <5>3. QED
            BY <5>1, <5>2
        <4>5. After(Mode(i), sql[i], At(o, Start(i + 1))) = "code"
          <5>1. /\ At(sql, i + 1) # "-" /\ At(sql, i + 1) # "*" /\ At(sql, i + 1) # "/"
            BY <4>1
          <5>2. After(Mode(i), sql[i], At(sql, i + 1)) = "code"
            BY <2>3, <4>2
          <5>3. QED
            BY <4>3, <4>4, <5>1, <5>2, AfterOther
        <4>6. QED
          BY <2>1, <3>3, <4>2, <4>5 DEF Mode
      <3>6. CASE i # n /\ i + 1 \notin Placeholders
        <4>1. i + 1 \in 1..n /\ At(sql, i + 1) = sql[i + 1]
          BY <1>1, <2>1, <3>6, Typed
        <4>2. \A p \in Placeholders : i + 1 \notin p + 1..PlaceholderEnd(p) - 1
          <5> SUFFICES ASSUME NEW p \in Placeholders, i + 1 \in p + 1..PlaceholderEnd(p) - 1
                       PROVE  FALSE
            OBVIOUS
          <5>1. p \in Int /\ PlaceholderEnd(p) \in Int
            BY PlaceholderFacts
          <5>2. p = i \/ i \in p + 1..PlaceholderEnd(p) - 1
            BY <2>1, <5>1
          <5>3. QED
            BY <2>6, <5>2
        <4>3. Becomes[i + 1] = <<sql[i + 1]>>
          BY <3>6, <4>1, <4>2, BecomesIs
        <4>4. At(o, Start(i + 1)) = sql[i + 1]
          <5>1. Len(Becomes[i + 1]) >= 1 /\ Becomes[i + 1][1] = sql[i + 1]
            BY <4>3
          <5>2. At(o, Start(i + 1)) = Becomes[i + 1][1]
            BY <1>2, <1>3, <4>1, <5>1, AtStart
          <5>3. QED
            BY <5>1, <5>2
        <4>5. QED
          BY <2>1, <2>3, <3>3, <4>1, <4>4 DEF Mode
      <3>7. QED
        BY <3>4, <3>5, <3>6
    <2>7. QED
      BY <2>4, <2>5, <2>6
  <1>7. 1..n + 1 \subseteq T
    <2> HIDE DEF T, n
    <2>1. QED
      BY <1>1, <1>5, <1>6, Induction, Zenon
  <1>8. QED
    BY <1>1, <1>7

\* What the characters before i become, as LiteralsKeepMeaning writes it.
LEMMA PrefixIsFlat ==
    ASSUME NEW b, NEW n \in Nat, b \in [1..n -> Seq(Signs)], NEW i \in 1..n
    PROVE  FlattenSeq(SubSeq(b, 1, i - 1)) = Flat(b, i - 1)
  <1> DEFINE k == i - 1
  <1>1. b \in Seq(Seq(Signs)) /\ k \in 0..Len(b)
    OBVIOUS
  <1> HIDE DEF k
  <1>2. /\ SubSeq(b, 1, k) \in [1..k -> Seq(Signs)]
        /\ \A j \in 1..k : SubSeq(b, 1, k)[j] = b[j]
    BY <1>1, PrefixProperties
  <1>3. SubSeq(b, 1, k) = [j \in 1..k |-> b[j]]
    BY <1>2
  <1>4. QED
    BY <1>3 DEF Flat, k

\* A text that is formatted as Becomes says keeps the meaning.
LEMMA FormattedKeepsMeaning ==
    ASSUME Inv
    PROVE  LiteralsKeepMeaning
  <1> SUFFICES ASSUME status = "done", PlainCode, Apart, NEW i \in DOMAIN sql
               PROVE  Modes(output)[Len(FlattenSeq(SubSeq(Becomes, 1, i - 1))) + 1]
                         = Modes(sql)[i]
    BY DEF LiteralsKeepMeaning
  <1>1. TypedState /\ Given /\ output = FlattenSeq(Becomes)
    BY DEF Inv, FormatsWhatIsCode
  <1>2. Len(sql) \in Nat /\ DOMAIN sql = 1..Len(sql)
    BY <1>1, StateType
  <1>3. Becomes = [k \in 1..Len(sql) |-> Becomes[k]]
    BY <1>2 DEF Becomes
  <1>4. output = Flat(Becomes, Len(sql))
    BY <1>1, <1>3 DEF Flat
  <1>5. Becomes \in [1..Len(sql) -> Seq(Signs)]
    BY <1>1, <1>3, Filling
  <1>6. FlattenSeq(SubSeq(Becomes, 1, i - 1)) = Flat(Becomes, i - 1)
    BY <1>2, <1>5, PrefixIsFlat
  <1>7. Modes(output)[Start(i)] = Modes(sql)[i]
    BY <1>1, <1>2, <1>4, SameMeaning
  <1>8. QED
    BY <1>6, <1>7 DEF Start

\* Whatever is in a parameter, each character of the query is read in the formatted
\* text as it was in the query: no parameter ends a quote or opens a comment
\* (sql.rs:105-170).
THEOREM KeepsMeaning == Spec => []LiteralsKeepMeaning
  <1>1. Inv => LiteralsKeepMeaning
    BY FormattedKeepsMeaning
  <1>2. QED
    BY <1>1, Invariance, PTL

===============================================================================

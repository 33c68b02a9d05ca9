----------------------------- MODULE AppendRowsProofs -----------------------------
(***************************************************************************)
(* Proofs about AppendRows: for any number of tasks, any rows, columns and *)
(* batch sizes, and whatever the server and the network do.                *)
(***************************************************************************)
EXTENDS AppendRows, SequenceTheorems, TLAPS

-------------------------------------------------------------------------------
(* How rows are cut into batches *)

LEMMA InputFacts ==
    ASSUME NEW i \in Inputs
    PROVE  /\ i.rows \in Seq([Keys -> Cells])
           /\ Len(i.rows) \in Nat /\ DOMAIN i.rows = 1..Len(i.rows)
           /\ BatchSize(i) \in Nat
           /\ i.rows = <<>> <=> Len(i.rows) = 0
  <1>1. i.rows \in Seq([Keys -> Cells]) /\ i.batch_size \in Nat \cup {NoBatchSize}
    BY InputsAssumption
  <1>2. Len(i.rows) \in Nat /\ DOMAIN i.rows = 1..Len(i.rows)
    BY <1>1
  <1>3. QED
    BY <1>1, <1>2, EmptySeq DEF BatchSize

LEMMA SmallerOfTwo ==
    ASSUME NEW a \in Int, NEW b \in Int
    PROVE  Min({a, b}) = IF a <= b THEN a ELSE b
  <1>1. \E x \in {a, b} : \A y \in {a, b} : x <= y
    OBVIOUS
  <1>2. Min({a, b}) \in {a, b} /\ \A y \in {a, b} : Min({a, b}) <= y
    BY <1>1 DEF Min
  <1>3. QED
    BY <1>2

\* A number of rows that is cut by b has its last piece begin before its end.
LEMMA PiecesCover ==
    ASSUME NEW n \in Nat \ {0}, NEW b \in Nat \ {0}
    PROVE  LET q == (n + b - 1) \div b
           IN /\ q \in Nat \ {0}
              /\ n <= q * b
              /\ (q - 1) * b < n
  <1> DEFINE q == (n + b - 1) \div b
  <1>1. q \in Int /\ q * b <= n + b - 1 /\ n + b - 1 < q * b + b
    OBVIOUS
  <1>2. n <= q * b /\ (q - 1) * b < n
    BY <1>1
  <1>3. q > 0
    BY <1>1, <1>2
  <1>4. QED
    BY <1>1, <1>2, <1>3

LEMMA ProductMonotone ==
    ASSUME NEW b \in Nat, NEW j \in Int, NEW k \in Int, j <= k
    PROVE  j * b <= k * b
  OBVIOUS

LEMMA LastRowIs ==
    ASSUME NEW i \in Inputs, NEW k \in Nat
    PROVE  /\ LastRow(i, k) = IF k * BatchSize(i) <= Len(i.rows)
                              THEN k * BatchSize(i) ELSE Len(i.rows)
           /\ LastRow(i, k) \in 0..Len(i.rows)
           /\ LastRow(i, 0) = 0
  <1>1. BatchSize(i) \in Nat /\ Len(i.rows) \in Nat
    BY InputFacts
  <1>2. k * BatchSize(i) \in Nat /\ 0 * BatchSize(i) = 0
    BY <1>1
  <1>3. \A m \in Nat : m * BatchSize(i) \in Int =>
           LastRow(i, m) = IF m * BatchSize(i) <= Len(i.rows)
                           THEN m * BatchSize(i) ELSE Len(i.rows)
    BY <1>1, SmallerOfTwo DEF LastRow
  <1>4. QED
    BY <1>1, <1>2, <1>3

\* The batches are the rows, one after the other.
LEMMA BatchBounds ==
    ASSUME NEW i \in Inputs, Sized(i)
    PROVE  /\ Batches(i) \in Nat \ {0}
           /\ LastRow(i, Batches(i)) = Len(i.rows)
           /\ \A k \in 1..Batches(i) :
                 /\ FirstRow(i, k) = LastRow(i, k - 1) + 1
                 /\ LastRow(i, k - 1) <= LastRow(i, k)
                 /\ i.rows # <<>> => FirstRow(i, k) <= LastRow(i, k)
  <1> DEFINE n == Len(i.rows)
             b == BatchSize(i)
             q == Batches(i)
  <1>1. n \in Nat /\ b \in Nat /\ (i.rows = <<>> <=> n = 0)
    BY InputFacts
  <1>2. CASE i.rows = <<>>
    <2>1. q = 1 /\ n = 0
      BY <1>1, <1>2 DEF Batches
    <2>2. \A k \in Nat : LastRow(i, k) = 0
      BY <2>1, LastRowIs
    <2>3. FirstRow(i, 1) = 1
      BY <1>1 DEF FirstRow
    <2>4. QED
      BY <1>2, <2>1, <2>2, <2>3
  <1>3. CASE i.rows # <<>>
    <2>1. n \in Nat \ {0} /\ b \in Nat \ {0}
      BY <1>1, <1>3 DEF Sized
    <2>2. q = (n + b - 1) \div b
      BY <1>3 DEF Batches
    <2> HIDE DEF n, b, q
    <2>3. q \in Nat \ {0} /\ n <= q * b /\ (q - 1) * b < n
      BY <2>1, <2>2, PiecesCover
    <2>4. \A k \in Nat : LastRow(i, k) = IF k * b <= n THEN k * b ELSE n
      BY LastRowIs DEF n, b
    <2>5. ASSUME NEW k \in 1..q
          PROVE  /\ FirstRow(i, k) = LastRow(i, k - 1) + 1
                 /\ LastRow(i, k - 1) < LastRow(i, k)
      <3>1. (k - 1) * b <= (q - 1) * b
        BY <2>1, <2>3, ProductMonotone
      <3>2. (k - 1) * b < n /\ (k - 1) * b \in Int
        BY <2>1, <2>3, <3>1
      <3>3. LastRow(i, k - 1) = (k - 1) * b
        <4>1. k - 1 \in Nat /\ (k - 1) * b <= n
          BY <2>1, <2>3, <3>2
        <4>2. QED
          BY <2>4, <4>1
      <3>4. k * b = (k - 1) * b + b
        BY <2>1, <2>3
      <3>5. (k - 1) * b < LastRow(i, k)
        BY <2>1, <2>3, <2>4, <3>2, <3>4
      <3>6. QED
        BY <3>3, <3>5 DEF FirstRow, b
    <2>6. LastRow(i, q) = n
      BY <2>1, <2>3, <2>4
    <2>7. \A k \in 1..q : LastRow(i, k - 1) \in Int /\ LastRow(i, k) \in Int
      BY <2>1, <2>3, LastRowIs DEF n
    <2>8. QED
      BY <2>3, <2>5, <2>6, <2>7 DEF n, q
  <1>4. QED
    BY <1>2, <1>3

LEMMA BatchRows ==
    ASSUME NEW i \in Inputs, Sized(i), NEW k \in 1..Batches(i)
    PROVE  LET n == LastRow(i, k) - LastRow(i, k - 1)
           IN /\ n \in Nat
              /\ DOMAIN Batch(i, k) = 1..n
              /\ \A r \in 1..n : /\ LastRow(i, k - 1) + r \in DOMAIN i.rows
                                 /\ Batch(i, k)[r] = i.rows[LastRow(i, k - 1) + r]
  <1> DEFINE first == LastRow(i, k - 1)
             last == LastRow(i, k)
  <1>1. Batches(i) \in Nat
    BY BatchBounds
  <1>2. /\ first \in Nat /\ last \in Nat /\ first <= last /\ last <= Len(i.rows)
        /\ FirstRow(i, k) = first + 1
    BY <1>1, BatchBounds, LastRowIs, InputFacts
  <1>3. /\ i.rows \in Seq([Keys -> Cells]) /\ Len(i.rows) \in Nat
        /\ DOMAIN i.rows = 1..Len(i.rows)
    BY InputFacts
  <1> HIDE DEF first, last
  <1>4. Batch(i, k) = SubSeq(i.rows, first + 1, last)
    BY <1>2 DEF Batch, last
  <1>5. \A j \in first + 1 .. last : i.rows[j] \in [Keys -> Cells]
    BY <1>2, <1>3
  <1>6. /\ SubSeq(i.rows, first + 1, last) \in Seq([Keys -> Cells])
        /\ Len(SubSeq(i.rows, first + 1, last)) = last - first
        /\ \A r \in 1..(last - first) :
              SubSeq(i.rows, first + 1, last)[r] = i.rows[first + r]
    BY <1>2, <1>5, SubSeqProperties
  <1>7. DOMAIN Batch(i, k) = 1..(last - first)
    BY <1>4, <1>6
  <1>8. \A r \in 1..(last - first) : first + r \in DOMAIN i.rows
    BY <1>2, <1>3
  <1>9. last - first \in Nat
    BY <1>2
  <1>10. QED
    BY <1>4, <1>6, <1>7, <1>8, <1>9 DEF first, last

LEMMA ColumnsAreKeys ==
    ASSUME NEW i \in Inputs, NEW k
    PROVE  Columns(i, k) \in SUBSET Keys
  <1>1. \A rows : Inferred(rows) \in SUBSET Keys
    BY DEF Inferred
  <1>2. i.columns \in SUBSET Keys \/ i.columns = NoColumns
    BY InputsAssumption
  <1>3. QED
    BY <1>1, <1>2 DEF Columns

\* What a batch adds to the table.
LEMMA AppendedFacts ==
    ASSUME NEW c \in Callers, input[c] \in Inputs, Sized(input[c]),
           NEW k \in 1..Batches(input[c])
    PROVE  LET i == input[c]
               n == LastRow(i, k) - LastRow(i, k - 1)
           IN /\ Appended(c, k) \in Seq(Rows)
              /\ Len(Appended(c, k)) = n
              /\ n \in Nat
              /\ \A r \in 1..n :
                    /\ Appended(c, k)[r].by = c
                    /\ Appended(c, k)[r].row = LastRow(i, k - 1) + r
                    /\ Appended(c, k)[r].cells =
                          CellsSent(i, k, i.rows[LastRow(i, k - 1) + r])
  <1> DEFINE i == input[c]
             n == LastRow(i, k) - LastRow(i, k - 1)
             first == LastRow(i, k - 1)
             row(r) == [by |-> c, row |-> first + r,
                        cells |-> CellsSent(i, k, i.rows[first + r])]
  <1>1. /\ Batches(i) \in Nat /\ first \in Nat /\ n \in Nat
        /\ FirstRow(i, k) = first + 1
    <2>1. Batches(i) \in Nat /\ k - 1 \in Nat /\ FirstRow(i, k) = first + 1
      BY BatchBounds
    <2>2. first \in 0..Len(i.rows) /\ Len(i.rows) \in Nat
      BY <2>1, LastRowIs, InputFacts
    <2>3. n \in Nat
      BY BatchRows
    <2>4. QED
      BY <2>1, <2>2, <2>3
  <1>2. /\ DOMAIN Batch(i, k) = 1..n
        /\ \A r \in 1..n : Batch(i, k)[r] = i.rows[first + r]
    BY BatchRows
  <1>3. \A r \in 1..n : row(r) \in Rows
    <2>1. ASSUME NEW r \in 1..n PROVE row(r) \in Rows
      <3>1. Columns(i, k) \in SUBSET Keys
        BY ColumnsAreKeys
      <3>2. CellsSent(i, k, i.rows[first + r]) \in [Columns(i, k) -> {"null", "value"}]
        BY DEF CellsSent
      <3>3. CellsSent(i, k, i.rows[first + r])
               \in UNION {[names -> {"null", "value"}] : names \in SUBSET Keys}
        BY <3>1, <3>2
      <3>4. first + r \in Nat \ {0}
        BY <1>1
      <3>5. QED
        BY <3>3, <3>4 DEF Rows
    <2>2. QED
      BY <2>1
  <1>4. Appended(c, k) = [r \in 1..n |-> row(r)]
    <2>1. \A r \in 1..n : FirstRow(i, k) + r - 1 = first + r
      BY <1>1
    <2>2. QED
      BY <1>2, <2>1 DEF Appended
  <1> HIDE DEF n
  <1>5. Appended(c, k) \in [1..n -> Rows]
    BY <1>3, <1>4
  <1>6. Appended(c, k) \in Seq(Rows)
    BY <1>1, <1>5, SeqDef
  <1>7. Len(Appended(c, k)) = n
    BY <1>1, <1>5, <1>6
  <1>8. QED
    BY <1>1, <1>4, <1>6, <1>7 DEF n

-------------------------------------------------------------------------------
(* The inductive invariant *)

\* A caller whose request may have reached the server, unknown to it.
Tried == {"awaiting", "failed", "cancelled"}

\* The batch under way is not in the table yet, or is.
Before(c) == RowsOf(c) = UpTo(c, next[c] - 1)
After(c) == next[c] <= Batches(input[c]) /\ RowsOf(c) = UpTo(c, next[c])

CallInv ==
    \A c \in Callers :
        /\ pc[c] \in Running \cup {"ok"} => Sized(input[c])
        /\ pc[c] \in {"waiting", "locked", "awaiting"} => next[c] <= Batches(input[c])
        /\ pc[c] = "ok" => next[c] = Batches(input[c]) + 1
        /\ Before(c) \/ (pc[c] \in Tried /\ After(c))

\* A request is for the batch under way, and is not yet answered; an answer for
\* that batch says that its rows are there.
MessageInv ==
    /\ \A m \in inflight :
          /\ m.batch = next[m.by] /\ pc[m.by] \in Tried /\ Before(m.by)
          /\ Sized(input[m.by]) /\ m.batch <= Batches(input[m.by])
    /\ \A m \in replies :
          /\ m.batch <= next[m.by]
          /\ m.batch = next[m.by] => pc[m.by] \in Tried /\ After(m.by)
    /\ \A m \in inflight, r \in replies : m.by = r.by => m.batch # r.batch

\* A row of the table is one of a batch of its call, as that batch has it.
FromBatch(t, k) ==
    LET i == input[t.by]
    IN /\ Sized(i) /\ k \in 1..Batches(i)
       /\ t.row \in LastRow(i, k - 1) + 1 .. LastRow(i, k)
       /\ t.cells = CellsSent(i, k, i.rows[t.row])

Ascending ==
    \A j, k \in DOMAIN table :
        j < k /\ table[j].by = table[k].by => table[j].row < table[k].row

TableInv ==
    /\ Ascending
    /\ \A j \in DOMAIN table : \E k \in Nat : FromBatch(table[j], k)

Inv == TypeOK /\ CallInv /\ MessageInv /\ TableInv

-------------------------------------------------------------------------------
(* The steps of a caller leave the table alone *)

LEMMA TableFrame ==
    ASSUME TableInv, UNCHANGED <<input, table>>
    PROVE  /\ TableInv'
           /\ \A c : RowsOf(c)' = RowsOf(c)
           /\ \A c, k : UpTo(c, k)' = UpTo(c, k)
           /\ \A c : next'[c] = next[c] =>
                 (Before(c)' <=> Before(c)) /\ (After(c)' <=> After(c))
  BY DEF TableInv, Ascending, FromBatch, RowsOf, UpTo, Before, After

LEMMA InitInv == Init => Inv
  <1> SUFFICES ASSUME Init PROVE Inv
    OBVIOUS
  <1> USE DEF Init, LockInit
  <1>1. \A c \in Callers : input[c] \in Inputs
    OBVIOUS
  <1>2. TypeOK
    <2>1. table \in Seq(Rows)
      BY EmptySeq
    <2>2. \A c \in Callers : Sized(input[c]) => Batches(input[c]) \in Nat \ {0}
      BY <1>1, BatchBounds
    <2>3. queue \in Seq(Callers)
      BY EmptySeq
    <2>4. \A c \in Callers :
             next[c] \in 1..(IF Sized(input[c]) THEN Batches(input[c]) + 1 ELSE 1)
      BY <2>2
    <2>5. pc \in [Callers -> Running \cup Over \cup {"idle"}] /\ next \in [Callers -> Nat]
      OBVIOUS
    <2>6. QED
      BY <2>1, <2>3, <2>4, <2>5 DEF TypeOK, LockTypeOK
  <1>3. CallInv
    <2>1. ASSUME NEW c \in Callers PROVE Before(c)
      <3>1. RowsOf(c) = {}
        BY DEF RowsOf
      <3>2. next[c] - 1 = 0 /\ LastRow(input[c], 0) = 0
        BY <1>1, LastRowIs
      <3>3. QED
        BY <3>1, <3>2 DEF Before, UpTo
    <2>2. QED
      BY <2>1 DEF CallInv, Running
  <1>4. MessageInv
    BY DEF MessageInv
  <1>5. TableInv
    BY DEF TableInv, Ascending
  <1>6. QED
    BY <1>2, <1>3, <1>4, <1>5 DEF Inv

\* A caller moves on with the same batch, sends nothing and is told nothing.
LEMMA MoveInv ==
    ASSUME Inv, NEW c \in Callers, NEW s \in Running \cup Over, Goto(c, s), LockTypeOK',
           UNCHANGED <<input, next, closed, serverVars>>,
           pc[c] \in Tried => s \in Tried,
           s \in Running \cup {"ok"} => Sized(input[c]),
           s \in {"waiting", "locked", "awaiting"} => next[c] <= Batches(input[c]),
           s = "ok" => next[c] = Batches(input[c]) + 1
    PROVE  Inv'
  <1> USE DEF serverVars
  <1>1. /\ pc' \in [Callers -> Running \cup Over \cup {"idle"}]
        /\ \A d \in Callers : pc'[d] = IF d = c THEN s ELSE pc[d]
    BY DEF Inv, TypeOK, Goto
  <1>2. TypeOK'
    BY <1>1 DEF Inv, TypeOK
  <1>3. /\ TableInv'
        /\ \A d : (Before(d)' <=> Before(d)) /\ (After(d)' <=> After(d))
    BY TableFrame DEF Inv
  <1>4. CallInv'
    BY <1>1, <1>3 DEF Inv, CallInv
  <1>5. MessageInv'
    <2>1. \A m \in inflight : m.by \in Callers
      BY DEF Inv, TypeOK
    <2>2. \A m \in replies : m.by \in Callers
      BY DEF Inv, TypeOK
    <2>3. QED
      BY <1>1, <1>3, <2>1, <2>2 DEF Inv, MessageInv
  <1>6. QED
    BY <1>2, <1>3, <1>4, <1>5 DEF Inv

\* A waiter that gives up leaves the queue.
LEMMA WithdrawFacts ==
    ASSUME NEW c, LockTypeOK, Withdraw(c)
    PROVE  LockTypeOK'
  <1>1. PICK i \in DOMAIN queue : queue' = RemoveAt(queue, i)
    BY DEF Withdraw
  <1> DEFINE before == SubSeq(queue, 1, i - 1)
             after == SubSeq(queue, i + 1, Len(queue))
  <1>2. before \in Seq(Callers) /\ after \in Seq(Callers)
    BY DEF LockTypeOK
  <1>3. queue' = before \o after
    BY <1>1, Zenon DEF RemoveAt
  <1> HIDE DEF before, after
  <1>4. queue' \in Seq(Callers)
    BY <1>2, <1>3
  <1>5. QED
    BY <1>4 DEF LockTypeOK, Withdraw

LEMMA StartInv ==
    ASSUME Inv, NEW c \in Callers, Start(c)
    PROVE  Inv'
  <1>1. /\ pc[c] = "idle" /\ LockTypeOK'
        /\ UNCHANGED <<input, next, closed, serverVars>>
    BY DEF Start, lockVars, Inv, TypeOK, LockTypeOK
  <1>2. CASE Sized(input[c])
    <2>1. Goto(c, "batch") /\ "batch" \in Running \cup Over
      BY <1>2 DEF Start, Running
    <2>2. QED
      BY <1>1, <1>2, <2>1, MoveInv DEF Tried
  <1>3. CASE ~Sized(input[c])
    <2>1. Goto(c, "failed") /\ "failed" \in (Running \cup Over) \ (Running \cup {"ok"})
      BY <1>3 DEF Start, Running, Over
    <2>2. QED
      BY <1>1, <2>1, MoveInv DEF Tried, Running
  <1>4. QED
    BY <1>2, <1>3

LEMMA NextBatchInv ==
    ASSUME Inv, NEW c \in Callers, NextBatch(c)
    PROVE  Inv'
  <1>1. /\ pc[c] = "batch" /\ Sized(input[c]) /\ input[c] \in Inputs
        /\ UNCHANGED <<input, next, closed, serverVars>>
    BY DEF NextBatch, Inv, TypeOK, CallInv, Running
  <1>2. LockTypeOK'
    <2>1. holder' = holder /\ (queue' = queue \/ queue' = Append(queue, c))
      BY DEF NextBatch, Enqueue, lockVars
    <2>2. holder \in Callers \cup {NoCaller} /\ queue \in Seq(Callers)
      BY DEF Inv, TypeOK, LockTypeOK
    <2>3. Append(queue, c) \in Seq(Callers)
      BY <2>2, AppendProperties
    <2>4. QED
      BY <2>1, <2>2, <2>3 DEF LockTypeOK
  <1>3. CASE HasMore(c) /\ Goto(c, "waiting")
    <2>1. "waiting" \in Running
      BY DEF Running
    <2>2. QED
      BY <1>1, <1>2, <1>3, <2>1, MoveInv DEF HasMore, Tried
  <1>4. CASE Goto(c, "failed")
    <2>1. "failed" \in Over
      BY DEF Over
    <2>2. QED
      BY <1>1, <1>2, <1>4, <2>1, MoveInv DEF Tried, Running
  <1>5. CASE ~HasMore(c) /\ Goto(c, "ok")
    <2>1. next[c] = Batches(input[c]) + 1
      <3>1. next[c] \in 1..(Batches(input[c]) + 1) /\ Batches(input[c]) \in Nat
        BY <1>1, BatchBounds DEF Inv, TypeOK
      <3>2. QED
        BY <1>5, <3>1 DEF HasMore
    <2>2. "ok" \in Over
      BY DEF Over
    <2>3. QED
      BY <1>1, <1>2, <1>5, <2>1, <2>2, MoveInv DEF Tried
  <1>6. QED
    BY <1>3, <1>4, <1>5 DEF NextBatch

LEMMA AcquireInv ==
    ASSUME Inv, NEW c \in Callers, Acquire(c)
    PROVE  Inv'
  <1>1. /\ pc[c] = "waiting" /\ Sized(input[c]) /\ next[c] <= Batches(input[c])
        /\ "locked" \in Running /\ Goto(c, "locked")
        /\ UNCHANGED <<input, next, closed, serverVars>>
    BY DEF Acquire, Inv, CallInv, Running
  <1>2. LockTypeOK'
    BY HeadTailProperties DEF Acquire, Grant, Inv, TypeOK, LockTypeOK
  <1>3. QED
    BY <1>1, <1>2, MoveInv DEF Tried

\* The request leaves: no other of this caller is under way, nor answered.
LEMMA SendInv ==
    ASSUME Inv, NEW c \in Callers, Send(c)
    PROVE  Inv'
  <1>1. /\ pc[c] = "locked" /\ Sized(input[c]) /\ next[c] <= Batches(input[c])
        /\ UNCHANGED <<input, next, closed, replies, table>>
    BY DEF Send, Inv, CallInv, Running
  <1>2. LockTypeOK'
    BY DEF Send, Release, lockVars, Inv, TypeOK, LockTypeOK
  <1>3. CASE Goto(c, "failed") /\ UNCHANGED inflight
    <2>1. "failed" \in Over
      BY DEF Over
    <2>2. QED
      BY <1>1, <1>2, <1>3, <2>1, MoveInv DEF Tried, Running, serverVars
  <1>4. CASE Goto(c, "awaiting") /\ inflight' = inflight \cup {Request(c)}
    <2>1. /\ pc' \in [Callers -> Running \cup Over \cup {"idle"}]
          /\ \A d \in Callers : pc'[d] = IF d = c THEN "awaiting" ELSE pc[d]
      BY <1>4 DEF Inv, TypeOK, Goto, Running
    <2>2. /\ Request(c) \in [by : Callers, batch : Nat]
          /\ Request(c).by = c /\ Request(c).batch = next[c]
      BY DEF Request, Inv, TypeOK
    <2>3. TypeOK'
      BY <1>1, <1>2, <1>4, <2>1, <2>2 DEF Inv, TypeOK
    <2>4. /\ TableInv'
          /\ \A d : (Before(d)' <=> Before(d)) /\ (After(d)' <=> After(d))
      BY <1>1, TableFrame DEF Inv
    <2>5. Before(c) /\ "awaiting" \in Tried /\ pc[c] \notin Tried
      BY <1>1 DEF Inv, CallInv, Tried
    <2>6. CallInv'
      BY <1>1, <2>1, <2>4, <2>5 DEF Inv, CallInv
    <2>7. MessageInv'
      <3>1. \A m \in inflight : m.by \in Callers /\ m.by # c
        BY <2>5 DEF Inv, TypeOK, MessageInv
      <3>2. \A m \in replies : m.by \in Callers /\ (m.by = c => m.batch # next[c])
        BY <2>5 DEF Inv, TypeOK, MessageInv
      <3>3. \A m \in inflight' :
               /\ m.batch = next'[m.by] /\ pc'[m.by] \in Tried /\ Before(m.by)'
               /\ Sized(input'[m.by]) /\ m.batch <= Batches(input'[m.by])
        BY <1>1, <1>4, <2>1, <2>2, <2>4, <2>5, <3>1 DEF Inv, MessageInv
      <3>4. \A m \in replies' :
               /\ m.batch <= next'[m.by]
               /\ m.batch = next'[m.by] => pc'[m.by] \in Tried /\ After(m.by)'
        BY <1>1, <2>1, <2>4, <3>2 DEF Inv, MessageInv
      <3>5. \A m \in inflight', r \in replies' : m.by = r.by => m.batch # r.batch
        BY <1>1, <1>4, <2>2, <3>2 DEF Inv, MessageInv
      <3>6. QED
        BY <3>3, <3>4, <3>5 DEF MessageInv
    <2>8. QED
      BY <2>3, <2>4, <2>6, <2>7 DEF Inv
  <1>5. QED
    BY <1>3, <1>4 DEF Send

\* The answer says that the rows of the batch are in the table: on to the next.
LEMMA SucceedsInv ==
    ASSUME Inv, NEW c \in Callers, Succeeds(c)
    PROVE  Inv'
  <1>1. PICK m \in replies : m.by = c /\ m.batch = next[c]
    BY DEF Succeeds
  <1>2. /\ After(c) /\ pc[c] = "awaiting" /\ Sized(input[c]) /\ input[c] \in Inputs
        /\ UNCHANGED <<input, closed, inflight, replies, table>>
    BY <1>1 DEF Succeeds, serverVars, Inv, TypeOK, CallInv, MessageInv, Running
  <1>3. /\ pc' \in [Callers -> Running \cup Over \cup {"idle"}]
        /\ \A d \in Callers : pc'[d] = IF d = c THEN "batch" ELSE pc[d]
        /\ next' \in [Callers -> Nat]
        /\ \A d \in Callers : next'[d] = IF d = c THEN next[c] + 1 ELSE next[d]
        /\ LockTypeOK'
    BY DEF Succeeds, Release, Goto, Inv, TypeOK, LockTypeOK, Running
  <1>4. /\ next[c] \in Nat \ {0} /\ next[c] <= Batches(input[c])
        /\ Batches(input[c]) \in Nat
    BY <1>2, BatchBounds DEF Inv, TypeOK, After
  <1>5. TypeOK'
    <2>1. \A d \in Callers :
             next'[d] \in 1..(IF Sized(input'[d]) THEN Batches(input'[d]) + 1 ELSE 1)
      <3>1. \A d \in Callers :
               next[d] \in 1..(IF Sized(input[d]) THEN Batches(input[d]) + 1 ELSE 1)
        BY DEF Inv, TypeOK
      <3>2. next[c] + 1 \in 1..(Batches(input[c]) + 1)
        BY <1>4
      <3>3. QED
        BY <1>2, <1>3, <3>1, <3>2
    <2>2. QED
      BY <1>2, <1>3, <2>1 DEF Inv, TypeOK
  <1>6. /\ TableInv'
        /\ \A d : RowsOf(d)' = RowsOf(d)
        /\ \A d, k : UpTo(d, k)' = UpTo(d, k)
        /\ \A d : next'[d] = next[d] =>
              (Before(d)' <=> Before(d)) /\ (After(d)' <=> After(d))
    BY <1>2, TableFrame DEF Inv
  <1>7. Before(c)'
    BY <1>2, <1>3, <1>4, <1>6 DEF After, Before
  <1>8. CallInv'
    BY <1>2, <1>3, <1>6, <1>7 DEF Inv, CallInv
  <1>9. MessageInv'
    <2>1. \A r \in inflight : r.by \in Callers /\ r.by # c
      BY <1>1 DEF Inv, TypeOK, MessageInv
    <2>2. \A r \in replies : r.by \in Callers /\ r.batch \in Nat /\ r.batch <= next[r.by]
      BY DEF Inv, TypeOK, MessageInv
    <2>3. \A r \in replies : r.by = c => r.batch < next'[c]
      BY <1>3, <1>4, <2>2
    <2>4. \A r \in replies' :
             /\ r.batch <= next'[r.by]
             /\ r.batch = next'[r.by] => pc'[r.by] \in Tried /\ After(r.by)'
      BY <1>2, <1>3, <1>4, <1>6, <2>2, <2>3 DEF Inv, MessageInv
    <2>5. QED
      BY <1>2, <1>3, <1>6, <2>1, <2>4 DEF Inv, MessageInv
  <1>10. QED
    BY <1>5, <1>6, <1>8, <1>9 DEF Inv

LEMMA FailsInv ==
    ASSUME Inv, NEW c \in Callers, Fails(c) \/ Cancel(c)
    PROVE  Inv'
  <1>1. /\ \E s \in {"failed", "cancelled"} : Goto(c, s)
        /\ UNCHANGED <<input, next, closed, serverVars>>
    BY DEF Fails, Cancel
  <1>2. LockTypeOK'
    <2>1. CASE Release(c)
      BY <2>1 DEF Release, Inv, TypeOK, LockTypeOK
    <2>2. CASE Withdraw(c)
      BY <2>2, WithdrawFacts DEF Inv, TypeOK
    <2>3. QED
      BY <2>1, <2>2 DEF Fails, Cancel
  <1>3. {"failed", "cancelled"} \subseteq Over /\ {"failed", "cancelled"} \subseteq Tried
        /\ "failed" \notin Running \cup {"ok"} /\ "cancelled" \notin Running \cup {"ok"}
    BY DEF Over, Tried, Running
  <1>4. QED
    BY <1>1, <1>2, <1>3, MoveInv

LEMMA DisconnectsInv ==
    ASSUME Inv, Disconnects
    PROVE  Inv'
  <1> USE DEF Disconnects, lockVars, callVars, serverVars
  <1>1. TypeOK'
    BY DEF Inv, TypeOK, LockTypeOK
  <1>2. TableInv' /\ \A d : (Before(d)' <=> Before(d)) /\ (After(d)' <=> After(d))
    BY TableFrame DEF Inv
  <1>3. CallInv' /\ MessageInv'
    BY <1>2 DEF Inv, CallInv, MessageInv
  <1>4. QED
    BY <1>1, <1>2, <1>3 DEF Inv

-------------------------------------------------------------------------------
(* The steps of the server and the network *)

LEMMA RefusesInv ==
    ASSUME Inv, NEW m \in inflight, ServerRefuses(m)
    PROVE  Inv'
  <1> USE DEF ServerRefuses, lockVars, callVars
  <1>1. TypeOK'
    BY DEF Inv, TypeOK, LockTypeOK
  <1>2. TableInv' /\ \A d : (Before(d)' <=> Before(d)) /\ (After(d)' <=> After(d))
    BY TableFrame DEF Inv
  <1>3. CallInv' /\ MessageInv'
    BY <1>2 DEF Inv, CallInv, MessageInv
  <1>4. QED
    BY <1>1, <1>2, <1>3 DEF Inv

\* The rows of a batch follow those that were there.
LEMMA AppliesTable ==
    ASSUME Inv, NEW m \in inflight, ServerApplies(m)
    PROVE  /\ TableInv' /\ table' \in Seq(Rows)
           /\ After(m.by)'
           /\ \A d \in Callers : d # m.by => RowsOf(d)' = RowsOf(d)
  <1> DEFINE c == m.by
             k == m.batch
             first == LastRow(input[c], k - 1)
             last == LastRow(input[c], k)
             old == Len(table)
             new == Appended(c, k)
  <1>1. /\ c \in Callers /\ k = next[c] /\ Before(c) /\ input[c] \in Inputs
        /\ Sized(input[c]) /\ k <= Batches(input[c]) /\ k \in Nat /\ k >= 1
    BY DEF Inv, TypeOK, MessageInv
  <1>2. /\ k \in 1..Batches(input[c]) /\ first \in Nat /\ last \in Nat /\ first <= last
    <2>1. Batches(input[c]) \in Nat /\ k \in 1..Batches(input[c]) /\ k - 1 \in Nat
      BY <1>1, BatchBounds
    <2>2. first \in 0..Len(input[c].rows) /\ last \in 0..Len(input[c].rows)
      BY <1>1, <2>1, LastRowIs
    <2>3. first <= last
      BY <1>1, <2>1, BatchBounds
    <2>4. QED
      BY <2>1, <2>2, <2>3
  <1>3. /\ table' = table \o new
        /\ UNCHANGED <<input, next>>
    BY DEF ServerApplies, callVars
  <1>4. /\ new \in Seq(Rows) /\ Len(new) = last - first
        /\ \A r \in 1..(last - first) :
              /\ new[r].by = c /\ new[r].row = first + r
              /\ new[r].cells = CellsSent(input[c], k, input[c].rows[first + r])
    BY <1>1, <1>2, AppendedFacts
  <1>5. table \in Seq(Rows) /\ old \in Nat /\ DOMAIN table = 1..old
    BY DEF Inv, TypeOK
  <1> HIDE DEF new, old, first, last
  <1>6. /\ table' \in Seq(Rows) /\ DOMAIN table' = 1..(old + (last - first))
        /\ \A j \in 1..old : table'[j] = table[j]
        /\ \A r \in 1..(last - first) : table'[old + r] = new[r]
    BY <1>2, <1>3, <1>4, <1>5, ConcatProperties DEF old
  <1>7. \A j \in DOMAIN table' :
           \/ j \in DOMAIN table /\ table'[j] = table[j]
           \/ \E r \in 1..(last - first) : j = old + r /\ table'[j] = new[r]
    <2>1. ASSUME NEW j \in DOMAIN table', j \notin 1..old
          PROVE  \E r \in 1..(last - first) : j = old + r /\ table'[j] = new[r]
      <3>1. j - old \in 1..(last - first) /\ j = old + (j - old)
        BY <1>2, <1>5, <1>6, <2>1
      <3>2. QED
        BY <1>6, <3>1
    <2>2. QED
      BY <1>5, <1>6, <2>1
  <1>8. \A j \in DOMAIN table : table[j].by = c => table[j].row \in 1..first
    <2>1. RowsOf(c) = 1..first
      BY <1>1 DEF Before, UpTo, first
    <2>2. QED
      BY <2>1 DEF RowsOf
  <1>9. Ascending'
    <2>1. ASSUME NEW i \in DOMAIN table', NEW j \in DOMAIN table', i < j,
                 table'[i].by = table'[j].by
          PROVE  table'[i].row < table'[j].row
      <3>1. CASE j \in DOMAIN table
        <4>1. i \in DOMAIN table
          BY <1>5, <1>6, <2>1, <3>1
        <4>2. QED
          BY <1>5, <1>6, <2>1, <3>1, <4>1 DEF Inv, TableInv, Ascending
      <3>2. CASE j \notin DOMAIN table
        <4>1. PICK r \in 1..(last - first) : j = old + r /\ table'[j] = new[r]
          BY <1>7, <3>2
        <4>2. table'[j].by = c /\ table'[j].row = first + r
          BY <1>4, <4>1
        <4>3. CASE i \in DOMAIN table
          BY <1>2, <1>5, <1>6, <1>8, <2>1, <4>2, <4>3
        <4>4. CASE i \notin DOMAIN table
          <5>1. PICK s \in 1..(last - first) : i = old + s /\ table'[i] = new[s]
            BY <1>7, <4>4
          <5>2. s < r
            BY <1>5, <2>1, <4>1, <5>1
          <5>3. QED
            BY <1>2, <1>4, <4>2, <5>1, <5>2
        <4>5. QED
          BY <4>3, <4>4
      <3>3. QED
        BY <3>1, <3>2
    <2>2. QED
      BY <2>1 DEF Ascending
  <1>10. \A j \in DOMAIN table' : \E b \in Nat : FromBatch(table[j], b)'
    <2>1. ASSUME NEW j \in DOMAIN table' PROVE \E b \in Nat : FromBatch(table[j], b)'
      <3>1. CASE j \in DOMAIN table /\ table'[j] = table[j]
        <4>1. PICK b \in Nat : FromBatch(table[j], b)
          BY <3>1 DEF Inv, TableInv
        <4>2. FromBatch(table[j], b)'
          BY <1>3, <3>1, <4>1 DEF FromBatch
        <4>3. QED
          BY <4>2
      <3>2. ASSUME NEW r \in 1..(last - first), table'[j] = new[r]
            PROVE  \E b \in Nat : FromBatch(table[j], b)'
        <4>1. /\ table'[j].by = c /\ table'[j].row = first + r
              /\ table'[j].cells = CellsSent(input[c], k, input[c].rows[first + r])
          BY <1>4, <3>2
        <4>2. first + r \in first + 1 .. last
          BY <1>2
        <4>3. FromBatch(table[j], k)'
          BY <1>1, <1>2, <1>3, <4>1, <4>2 DEF FromBatch, first, last
        <4>4. QED
          BY <1>1, <4>3
      <3>3. QED
        BY <1>7, <3>1, <3>2
    <2>2. QED
      BY <2>1
  <1>11. \A d \in Callers : d # c => RowsOf(d)' = RowsOf(d)
    <2>1. ASSUME NEW d \in Callers, d # c PROVE RowsOf(d)' = RowsOf(d)
      <3>1. \A j \in DOMAIN table' :
               table'[j].by = d => j \in DOMAIN table /\ table'[j] = table[j]
        BY <1>4, <1>7, <2>1
      <3>2. \A j \in DOMAIN table : j \in DOMAIN table' /\ table'[j] = table[j]
        BY <1>2, <1>5, <1>6
      <3>3. QED
        BY <3>1, <3>2 DEF RowsOf
    <2>2. QED
      BY <2>1
  <1>12. After(c)'
    <2>1. RowsOf(c) = 1..first
      BY <1>1 DEF Before, UpTo, first
    <2>2. ASSUME NEW x \in RowsOf(c)' PROVE x \in 1..last
      <3>1. PICK j \in DOMAIN table' : table'[j].by = c /\ table'[j].row = x
        BY <2>2 DEF RowsOf
      <3>2. CASE j \in DOMAIN table /\ table'[j] = table[j]
        BY <1>2, <1>8, <3>1, <3>2
      <3>3. ASSUME NEW r \in 1..(last - first), table'[j] = new[r] PROVE x \in 1..last
        BY <1>2, <1>4, <3>1, <3>3
      <3>4. QED
        BY <1>7, <3>1, <3>2, <3>3
    <2>3. ASSUME NEW x \in 1..last PROVE x \in RowsOf(c)'
      <3>1. CASE x \in 1..first
        <4>1. PICK j \in DOMAIN table : table[j].by = c /\ table[j].row = x
          BY <2>1, <3>1 DEF RowsOf
        <4>2. j \in DOMAIN table' /\ table'[j] = table[j]
          BY <1>2, <1>5, <1>6
        <4>3. QED
          BY <4>1, <4>2 DEF RowsOf
      <3>2. CASE x \notin 1..first
        <4>1. x - first \in 1..(last - first)
          BY <1>2, <3>2
        <4>2. old + (x - first) \in DOMAIN table' /\ table'[old + (x - first)] = new[x - first]
          BY <1>2, <1>5, <1>6, <4>1
        <4>3. table'[old + (x - first)].by = c /\ table'[old + (x - first)].row = x
          BY <1>2, <1>4, <4>1, <4>2
        <4>4. QED
          BY <4>2, <4>3 DEF RowsOf
      <3>3. QED
        BY <3>1, <3>2
    <2>4. RowsOf(c)' = 1..last
      BY <2>2, <2>3
    <2>5. QED
      BY <1>1, <1>3, <2>4 DEF After, UpTo, last
  <1>13. QED
    BY <1>6, <1>9, <1>10, <1>11, <1>12 DEF TableInv

LEMMA AppliesInv ==
    ASSUME Inv, NEW m \in inflight, ServerApplies(m)
    PROVE  Inv'
  <1> USE DEF ServerApplies, lockVars, callVars
  <1> DEFINE c == m.by
             reply == [by |-> m.by, batch |-> m.batch, ok |-> TRUE]
  <1>1. /\ TableInv' /\ table' \in Seq(Rows) /\ After(c)'
        /\ \A d \in Callers : d # c => RowsOf(d)' = RowsOf(d)
    BY AppliesTable
  <1>2. /\ c \in Callers /\ m.batch = next[c] /\ m.batch \in Nat /\ pc[c] \in Tried
        /\ reply \in [by : Callers, batch : Nat, ok : BOOLEAN]
    BY DEF Inv, TypeOK, MessageInv
  <1>3. TypeOK'
    <2>1. inflight' \subseteq inflight /\ replies' = replies \cup {reply}
      OBVIOUS
    <2> HIDE DEF reply
    <2>2. QED
      BY <1>1, <1>2, <2>1 DEF Inv, TypeOK, LockTypeOK
  <1>4. \A d \in Callers : d # c =>
           (Before(d)' <=> Before(d)) /\ (After(d)' <=> After(d))
    BY <1>1 DEF Before, After, UpTo
  <1>5. CallInv'
    BY <1>1, <1>2, <1>4 DEF Inv, CallInv
  <1>6. MessageInv'
    <2>1. \A r \in inflight : r.by \in Callers /\ (r.by = c => r = m)
      <3>1. ASSUME NEW r \in inflight, r.by = c PROVE r = m
        <4>1. r.batch = m.batch
          BY <1>2, <3>1 DEF Inv, MessageInv
        <4>2. r \in [by : Callers, batch : Nat] /\ m \in [by : Callers, batch : Nat]
          BY DEF Inv, TypeOK
        <4>3. QED
          BY <3>1, <4>1, <4>2
      <3>2. QED
        BY <3>1 DEF Inv, TypeOK
    <2>2. \A r \in replies : r.by \in Callers /\ r.batch \in Nat
      BY DEF Inv, TypeOK
    <2>3. \A r \in inflight' : r \in inflight /\ r.by # c
      BY <2>1
    <2>4. /\ \A r \in replies' : r \in replies \/ r = reply
          /\ reply.by = c /\ reply.batch = next[c]
      BY <1>2
    <2> HIDE DEF reply
    <2>5. \A r \in inflight' :
             /\ r.batch = next'[r.by] /\ pc'[r.by] \in Tried /\ Before(r.by)'
             /\ Sized(input'[r.by]) /\ r.batch <= Batches(input'[r.by])
      BY <1>4, <2>1, <2>3 DEF Inv, MessageInv
    <2>6. \A r \in replies' :
             /\ r.batch <= next'[r.by]
             /\ r.batch = next'[r.by] => pc'[r.by] \in Tried /\ After(r.by)'
      BY <1>1, <1>2, <1>4, <2>2, <2>4 DEF Inv, MessageInv
    <2>7. \A r \in inflight', s \in replies' : r.by = s.by => r.batch # s.batch
      BY <2>3, <2>4 DEF Inv, MessageInv
    <2>8. QED
      BY <2>5, <2>6, <2>7 DEF MessageInv
  <1>7. QED
    BY <1>1, <1>3, <1>5, <1>6 DEF Inv

LEMMA NextInv ==
    ASSUME Inv, [Next]_vars
    PROVE  Inv'
  <1>1. ASSUME NEW c \in Callers, Caller(c) PROVE Inv'
    BY <1>1, StartInv, NextBatchInv, AcquireInv, SendInv, SucceedsInv, FailsInv DEF Caller
  <1>2. CASE Disconnects
    BY <1>2, DisconnectsInv
  <1>3. CASE Server
    BY <1>3, RefusesInv, AppliesInv DEF Server
  <1>4. CASE UNCHANGED vars
    <2>1. TypeOK'
      BY <1>4 DEF vars, lockVars, callVars, serverVars, Inv, TypeOK, LockTypeOK
    <2>2. TableInv' /\ \A d : (Before(d)' <=> Before(d)) /\ (After(d)' <=> After(d))
      BY <1>4, TableFrame DEF vars, callVars, serverVars, Inv
    <2>3. QED
      BY <1>4, <2>1, <2>2 DEF vars, callVars, serverVars, Inv, CallInv, MessageInv
  <1>5. QED
    BY <1>1, <1>2, <1>3, <1>4 DEF Next

-------------------------------------------------------------------------------
(* The theorems *)

\* The inductive invariant holds throughout.
THEOREM Invariance == Spec => []Inv
  <1>1. Inv /\ [Next]_vars => Inv'
    BY NextInv
  <1>2. QED
    BY <1>1, InitInv, PTL DEF Spec

\* Calls, messages and the table keep their types (client.rs:443-466).
THEOREM TypeCorrect == Spec => []TypeOK
  <1>1. Inv => TypeOK
    BY DEF Inv
  <1>2. QED
    BY <1>1, Invariance, PTL

\* For any rows and batch size, the rows of a call are in the table once and in
\* order, up to its last confirmed batch or the one after it (client.rs:460-464).
THEOREM LandedRowsArePrefix == Spec => []LandedIsPrefix
  <1>1. Inv => LandedIsPrefix
    BY DEF Inv, TableInv, Ascending, CallInv, Before, After, LandedIsPrefix
  <1>2. QED
    BY <1>1, Invariance, PTL

\* A call that returns Ok has all of its rows in the table (client.rs:465).
THEOREM OkMeansAllRows == Spec => []OkMeansAll
  <1>1. ASSUME Inv, NEW c \in Callers, pc[c] = "ok" PROVE RowsOf(c) = DOMAIN input[c].rows
    <2>1. /\ input[c] \in Inputs /\ Sized(input[c])
          /\ next[c] = Batches(input[c]) + 1 /\ Before(c)
      BY <1>1 DEF Inv, TypeOK, CallInv, Tried
    <2>2. LastRow(input[c], next[c] - 1) = Len(input[c].rows)
      <3>1. /\ Batches(input[c]) \in Nat
            /\ LastRow(input[c], Batches(input[c])) = Len(input[c].rows)
        BY <2>1, BatchBounds
      <3>2. QED
        BY <2>1, <3>1
    <2>3. QED
      BY <2>1, <2>2, InputFacts DEF Before, UpTo
  <1>2. Inv => OkMeansAll
    BY <1>1 DEF OkMeansAll
  <1>3. QED
    BY <1>2, Invariance, PTL

\* The names that a row has.
Names(row) == {n \in Keys : row[n] # "absent"}

\* A column of a uniform row is one of every batch.
LEMMA UniformColumns ==
    ASSUME NEW i \in Inputs, NEW k, Sized(i), k \in 1..Batches(i),
           NEW j \in LastRow(i, k - 1) + 1 .. LastRow(i, k),
           \A r \in ToSet(i.rows) : Names(r) = Names(i.rows[1]),
           i.columns = NoColumns \/ Names(i.rows[1]) \subseteq i.columns
    PROVE  j \in DOMAIN i.rows /\ Names(i.rows[j]) \subseteq Columns(i, k)
  <1> DEFINE first == LastRow(i, k - 1)
             last == LastRow(i, k)
  <1>1. /\ Batches(i) \in Nat /\ k - 1 \in Nat
        /\ first \in 0..Len(i.rows) /\ last \in 0..Len(i.rows)
        /\ Len(i.rows) \in Nat /\ DOMAIN i.rows = 1..Len(i.rows)
    <2>1. Batches(i) \in Nat /\ k - 1 \in Nat /\ k \in Nat
      BY BatchBounds
    <2>2. QED
      BY <2>1, LastRowIs, InputFacts
  <1>2. /\ DOMAIN Batch(i, k) = 1..(last - first)
        /\ \A r \in 1..(last - first) : Batch(i, k)[r] = i.rows[first + r]
    BY BatchRows
  <1> HIDE DEF first, last
  <1>3. j \in first + 1 .. last
    BY DEF first, last
  <1>4. j \in DOMAIN i.rows /\ first + 1 \in DOMAIN i.rows /\ 1 \in 1..(last - first)
    BY <1>1, <1>3
  <1>5. Batch(i, k)[1] = i.rows[first + 1]
    BY <1>2, <1>4
  <1>6. Names(i.rows[j]) = Names(i.rows[1]) /\ Names(i.rows[first + 1]) = Names(i.rows[1])
    BY <1>4 DEF ToSet
  <1>7. CASE i.columns = NoColumns
    <2>1. Columns(i, k) = Names(Batch(i, k)[1])
      BY <1>7 DEF Columns, Inferred, Names
    <2>2. QED
      BY <1>4, <1>5, <1>6, <2>1
  <1>8. CASE i.columns # NoColumns
    BY <1>4, <1>6, <1>8 DEF Columns
  <1>9. QED
    BY <1>7, <1>8

\* Rows of one shape lose no value, however they are cut into batches
\* (builders.rs:99-117).
THEOREM UniformRowsKeep == Spec => []UniformRowsKeepValues
  <1>1. Inv => UniformRowsKeepValues
    <2>1. SUFFICES
            ASSUME Inv, NEW j \in DOMAIN table,
                   \A r \in ToSet(input[table[j].by].rows) :
                      Names(r) = Names(input[table[j].by].rows[1]),
                   \/ input[table[j].by].columns = NoColumns
                   \/ Names(input[table[j].by].rows[1]) \subseteq input[table[j].by].columns,
                   NEW n \in Keys, input[table[j].by].rows[table[j].row][n] = "value"
            PROVE  n \in DOMAIN table[j].cells /\ table[j].cells[n] = "value"
      BY DEF UniformRowsKeepValues, ToSet, Names
    <2> DEFINE t == table[j]
               i == input[t.by]
    <2>2. PICK k \in Nat : FromBatch(t, k)
      BY <2>1 DEF Inv, TableInv
    <2>3. i \in Inputs
      <3>1. t \in Rows
        BY <2>1 DEF Inv, TypeOK
      <3>2. QED
        BY <2>1, <3>1 DEF Rows, Inv, TypeOK
    <2>4. /\ Sized(i) /\ k \in 1..Batches(i)
          /\ t.row \in LastRow(i, k - 1) + 1 .. LastRow(i, k)
          /\ t.cells = CellsSent(i, k, i.rows[t.row])
      BY <2>2 DEF FromBatch
    <2>5. Names(i.rows[t.row]) \subseteq Columns(i, k)
      BY <2>1, <2>3, <2>4, UniformColumns
    <2>6. n \in Columns(i, k)
      BY <2>1, <2>5 DEF Names
    <2>7. QED
      BY <2>1, <2>4, <2>6 DEF CellsSent
  <1>2. QED
    BY <1>1, Invariance, PTL
===============================================================================

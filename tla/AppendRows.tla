------------------------------- MODULE AppendRows -------------------------------
(***************************************************************************)
(* QuackClient::append_rows on a v1 connection (src/src/client.rs), with   *)
(* the columns that data_chunk_from_rows takes or infers (builders.rs).    *)
(* The rows go in batches, each an append of its own that takes the        *)
(* connection lock and gives it back: calls of several tasks interleave,   *)
(* and a failure in the middle leaves the batches already sent.            *)
(* The server is external: it applies an APPEND_REQUEST as a whole.  A     *)
(* request whose caller gave up on it may still be applied, later.         *)
(***************************************************************************)
EXTENDS ConnectionLock, FiniteSets

CONSTANTS Keys,    \* names of columns
          Inputs   \* [rows, columns, batch_size]: the calls to make

\* What a row holds under a name; a row is an IndexMap.
Cells == {"absent", "null", "value"}
NoBatchSize == -1     \* batch_size is None
NoColumns == {"none"} \* columns is None

ASSUME InputsAssumption ==
    \A i \in Inputs :
        /\ i.rows \in Seq([Keys -> Cells])
        /\ i.columns \in (SUBSET Keys) \cup {NoColumns}
        /\ i.batch_size \in Nat \cup {NoBatchSize}

VARIABLES
    pc,        \* where each caller's append_rows is
    input,     \* its arguments
    next,      \* the batch it is about to append, from 1
    closed,    \* a disconnect has closed the connection
    inflight,  \* requests the server has not dealt with: [by, batch]
    replies,   \* its answers: [by, batch, ok]
    table      \* the rows of the server's table: [by, row, cells]

callVars   == <<pc, input, next>>
serverVars == <<inflight, replies, table>>
vars == <<lockVars, callVars, closed, serverVars>>

Running == {"batch", "waiting", "locked", "awaiting"}
Over == {"ok", "failed", "cancelled"}

-------------------------------------------------------------------------------
(* Batches and chunks *)

BatchSize(i) == IF i.batch_size = NoBatchSize THEN Len(i.rows) ELSE i.batch_size

\* Slip: the last batch must be full.
BatchesFullOnly(i) ==
    IF i.rows = <<>> THEN 1 ELSE Len(i.rows) \div BatchSize(i)

\* rows.chunks(batch_size); no rows at all are appended as one empty chunk.
Batches(i) ==
    IF i.rows = <<>> THEN 1
    ELSE (Len(i.rows) + BatchSize(i) - 1) \div BatchSize(i)

\* The batches can be cut.
Sized(i) == i.rows = <<>> \/ BatchSize(i) # 0

FirstRow(i, k) == (k - 1) * BatchSize(i) + 1
LastRow(i, k) == Min({k * BatchSize(i), Len(i.rows)})
Batch(i, k) == SubSeq(i.rows, FirstRow(i, k), LastRow(i, k))

\* Slip: a column whose first value is NULL is not inferred.
InferredFromValues(rows) == {n \in Keys : rows[1][n] = "value"}

\* infer_column_definitions: the names of the first row of the batch.
Inferred(rows) == {n \in Keys : rows[1][n] # "absent"}

Columns(i, k) ==
    IF i.columns = NoColumns THEN Inferred(Batch(i, k)) ELSE i.columns

\* data_chunk_from_rows fails on no columns, on no row to infer from, and on an
\* inferred column without a value (infer_logical_type).
Converts(i, k) ==
    LET rows == Batch(i, k)
    IN /\ i.columns = NoColumns => rows # <<>>
       /\ Columns(i, k) # {}
       /\ i.columns = NoColumns =>
             \A n \in Columns(i, k) : \E r \in DOMAIN rows : rows[r][n] = "value"

\* A row of a batch in the chunk: its columns only, absent or not.
CellsSent(i, k, row) ==
    [n \in Columns(i, k) |-> IF row[n] = "value" THEN "value" ELSE "null"]

\* The rows that a batch adds to the table.
Appended(c, k) ==
    LET i == input[c]
        rows == Batch(i, k)
    IN [r \in DOMAIN rows |->
           [by |-> c, row |-> FirstRow(i, k) + r - 1, cells |-> CellsSent(i, k, rows[r])]]

-------------------------------------------------------------------------------

Rows == [by : Callers, row : Nat \ {0},
         cells : UNION {[names -> {"null", "value"}] : names \in SUBSET Keys}]

TypeOK ==
    /\ LockTypeOK
    /\ pc \in [Callers -> Running \cup Over \cup {"idle"}]
    /\ input \in [Callers -> Inputs]
    /\ next \in [Callers -> Nat]
    /\ \A c \in Callers :
          next[c] \in 1..(IF Sized(input[c]) THEN Batches(input[c]) + 1 ELSE 1)
    /\ closed \in BOOLEAN
    /\ inflight \subseteq [by : Callers, batch : Nat]
    /\ replies \subseteq [by : Callers, batch : Nat, ok : BOOLEAN]
    /\ table \in Seq(Rows)

Init ==
    /\ LockInit
    /\ pc = [c \in Callers |-> "idle"]
    /\ input \in [Callers -> Inputs]
    /\ next = [c \in Callers |-> 1]
    /\ closed = FALSE
    /\ inflight = {}
    /\ replies = {}
    /\ table = <<>>

Goto(c, s) == pc' = [pc EXCEPT ![c] = s]

\* The batch under way, and everything about it.
Request(c) == [by |-> c, batch |-> next[c]]

Start(c) ==
    /\ pc[c] = "idle"
    /\ Goto(c, IF Sized(input[c]) THEN "batch" ELSE "failed")
    /\ UNCHANGED <<lockVars, input, next, closed, serverVars>>

\* Slip: the loop runs once more.
HasMoreByOne(c) == next[c] <= Batches(input[c]) + 1

HasMore(c) == next[c] <= Batches(input[c])

\* The head of the loop: convert the next batch and ask for the lock.
NextBatch(c) ==
    /\ pc[c] = "batch"
    /\ \/ /\ HasMore(c) /\ Converts(input[c], next[c])
          /\ Goto(c, "waiting")
          /\ Enqueue(c)
       \/ /\ HasMore(c) /\ ~Converts(input[c], next[c])
          /\ Goto(c, "failed")
          /\ UNCHANGED lockVars
       \/ /\ ~HasMore(c)
          /\ Goto(c, "ok")
          /\ UNCHANGED lockVars
    /\ UNCHANGED <<input, next, closed, serverVars>>

Acquire(c) ==
    /\ pc[c] = "waiting"
    /\ Grant(c)
    /\ Goto(c, "locked")
    /\ UNCHANGED <<input, next, closed, serverVars>>

\* Slip: the early return keeps the guard.
SendKeepsGuard(c) ==
    /\ pc[c] = "locked"
    /\ IF closed
       THEN Goto(c, "failed") /\ UNCHANGED <<lockVars, inflight>>
       ELSE /\ Goto(c, "awaiting")
            /\ inflight' = inflight \cup {Request(c)}
            /\ UNCHANGED lockVars
    /\ UNCHANGED <<input, next, closed, replies, table>>

\* Connection::append up to its await; the guard is a temporary.
Send(c) ==
    /\ pc[c] = "locked"
    /\ IF closed
       THEN Goto(c, "failed") /\ Release(c) /\ UNCHANGED inflight
       ELSE /\ Goto(c, "awaiting")
            /\ inflight' = inflight \cup {Request(c)}
            /\ UNCHANGED lockVars
    /\ UNCHANGED <<input, next, closed, replies, table>>

\* SUCCESS_RESPONSE.
Succeeds(c) ==
    /\ pc[c] = "awaiting"
    /\ [by |-> c, batch |-> next[c], ok |-> TRUE] \in replies
    /\ Goto(c, "batch")
    /\ next' = [next EXCEPT ![c] = @ + 1]
    /\ Release(c)
    /\ UNCHANGED <<input, closed, serverVars>>

\* Slip: a failed batch is sent again.
FailsAndRetries(c) ==
    /\ pc[c] = "awaiting"
    /\ Goto(c, "batch")
    /\ Release(c)
    /\ UNCHANGED <<input, next, closed, serverVars>>

\* An ERROR_RESPONSE, a lost connection or a timeout: `?' ends the call.
Fails(c) ==
    /\ pc[c] = "awaiting"
    /\ Goto(c, "failed")
    /\ Release(c)
    /\ UNCHANGED <<input, next, closed, serverVars>>

\* The task drops the future at one of its awaits.
Cancel(c) ==
    /\ \/ pc[c] = "waiting" /\ Withdraw(c)
       \/ pc[c] = "awaiting" /\ Release(c)
    /\ Goto(c, "cancelled")
    /\ UNCHANGED <<input, next, closed, serverVars>>

\* Another task disconnects; a v1 connection has no heartbeat to close it.
Disconnects ==
    /\ ~closed
    /\ holder = NoCaller
    /\ closed' = TRUE
    /\ UNCHANGED <<lockVars, callVars, serverVars>>

(* The server and the network, external *)

ServerApplies(m) ==
    /\ table' = table \o Appended(m.by, m.batch)
    /\ inflight' = inflight \ {m}
    /\ replies' = replies \cup {[by |-> m.by, batch |-> m.batch, ok |-> TRUE]}
    /\ UNCHANGED <<lockVars, callVars, closed>>

\* The server refuses the batch, or the network loses it.
ServerRefuses(m) ==
    /\ inflight' = inflight \ {m}
    /\ UNCHANGED <<lockVars, callVars, closed, replies, table>>

Caller(c) ==
    \/ Start(c) \/ NextBatch(c) \/ Acquire(c) \/ Send(c)
    \/ Succeeds(c) \/ Fails(c) \/ Cancel(c)

Server == \E m \in inflight : ServerApplies(m) \/ ServerRefuses(m)

Next == (\E c \in Callers : Caller(c)) \/ Disconnects \/ Server

Spec == Init /\ [][Next]_vars

\* tokio polls a woken task; the request timeout ends every await.
Fairness ==
    \A c \in Callers :
        /\ WF_vars(Start(c)) /\ WF_vars(NextBatch(c))
        /\ WF_vars(Acquire(c)) /\ WF_vars(Send(c))
        /\ WF_vars(Succeeds(c) \/ Fails(c))

FairSpec == Spec /\ Fairness

-------------------------------------------------------------------------------
(* Properties *)

\* The rows of c's call that are in the table, by their numbers.
RowsOf(c) == {table[j].row : j \in {k \in DOMAIN table : table[k].by = c}}

UpTo(c, k) == 1..LastRow(input[c], k)

\* Whatever fails, interleaves or arrives late, the rows of a call are in the
\* table once and in order, up to the end of its last confirmed batch or of the
\* one after it (client.rs:460-464).
LandedIsPrefix ==
    /\ \A j, k \in DOMAIN table :
          j < k /\ table[j].by = table[k].by => table[j].row < table[k].row
    /\ \A c \in Callers :
          \/ RowsOf(c) = UpTo(c, next[c] - 1)
          \/ next[c] <= Batches(input[c]) /\ RowsOf(c) = UpTo(c, next[c])

\* Ok means every row, even when the last batch is short (client.rs:465).
OkMeansAll ==
    \A c \in Callers : pc[c] = "ok" => RowsOf(c) = DOMAIN input[c].rows

\* Rows that all have the names of the columns lose no value to the batches
\* they are cut into, nor to a NULL in the first of them (builders.rs:99-117).
UniformRowsKeepValues ==
    \A t \in ToSet(table) :
        LET i == input[t.by]
            names(row) == {n \in Keys : row[n] # "absent"}
        IN (\A r \in ToSet(i.rows) : names(r) = names(i.rows[1]))
              /\ (i.columns = NoColumns \/ names(i.rows[1]) \subseteq i.columns)
           => \A n \in Keys : i.rows[t.row][n] = "value" =>
                 n \in DOMAIN t.cells /\ t.cells[n] = "value"

\* Every call ends: it is served in its turn, whatever the calls of the others
\* meet (client.rs:434-438).
CallsEnd == \A c \in Callers : pc[c] \in Running ~> pc[c] \in Over
===============================================================================

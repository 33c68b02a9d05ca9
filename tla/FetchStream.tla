------------------------------ MODULE FetchStream ------------------------------
(***************************************************************************)
(* The result stream of one query: the chunks that came with the           *)
(* PREPARE_RESPONSE, then the loop of QuackClient::fetch                   *)
(* (src/src/client.rs:284-392), for both protocol versions.                *)
(*                                                                         *)
(* A v3 FETCH names the batch it wants and acknowledges the batches the    *)
(* client has; a v1 FETCH just asks for more.  The server is external.  It *)
(* holds a result of `batches' batches beyond the inline chunks; Bound[b]  *)
(* is the number of chunks in the inline part and the batches 1..b.  A     *)
(* server may end a result before its last batch in a way that the client  *)
(* believes (EndEarlyV1, EndEarlyV3); `batches' is then cut to what it     *)
(* gave.  The connection lock makes this stream the only one that fetches. *)
(***************************************************************************)
EXTENDS Naturals, Sequences

CONSTANTS MaxBatches,  \* bound: batches of a result
          Bound,       \* chunks up to and including each batch
          MaxIndex,    \* stands for u64::MAX = OPTIONAL_INDEX_INVALID
          NoIndex      \* Option::None

ASSUME BatchesAssumption ==
    /\ MaxBatches \in Nat
    /\ Bound \in [0..MaxBatches -> Nat]
    /\ \A a, b \in 0..MaxBatches : a < b => Bound[a] < Bound[b]

ASSUME IndexAssumption ==
    /\ MaxIndex \in Nat \ {0}
    /\ MaxBatches <= MaxIndex
    /\ NoIndex \notin Nat

VARIABLES
    quack_version,
    batches,           \* server: batches it gives of this result
    acknowledged,      \* v3 server: batches it has been allowed to forget
    cursor,            \* v1 server: the batch it sends next
    pc,                \* the generator's state
    needs_more_fetch,
    next_batch_index,
    ack_index,
    pending,           \* chunks received and not yet yielded
    delivered,         \* chunks yielded
    request,           \* the FETCH under way
    reply              \* the answer to it

serverVars == <<quack_version, batches, acknowledged, cursor>>
indexVars == <<needs_more_fetch, next_batch_index, ack_index>>
chunkVars == <<pending, delivered>>
vars == <<serverVars, pc, indexVars, chunkVars, request, reply>>

None == [none |-> TRUE]

\* The chunks of batch b.
Chunks(b) == [i \in 1..(Bound[b] - Bound[b - 1]) |-> Bound[b - 1] + i]
InlineChunks == [i \in 1..Bound[0] |-> i]

\* read_optional_index: u64::MAX on the wire is no index.
Decoded(i) == IF i = MaxIndex THEN NoIndex ELSE i

Response(results, total, index) ==
    [results |-> results, total_batches |-> Decoded(total), batch_index |-> Decoded(index)]

\* Slip: batches are counted from 0.
BatchZero == 0
FirstBatch == 1

Terminal == {"ended", "errored", "dropped"}

TypeOK ==
    /\ quack_version \in {1, 3}
    /\ batches \in 0..MaxBatches
    /\ acknowledged \in 0..MaxBatches
    /\ cursor \in 1..MaxBatches + 1
    /\ pc \in {"open", "awaiting"} \cup Terminal
    /\ needs_more_fetch \in BOOLEAN
    /\ next_batch_index \in 1..MaxIndex
    /\ ack_index \in 0..MaxBatches
    /\ pending \in Seq(Nat)
    /\ delivered \in Seq(Nat)
    /\ request \in [batch_index : 1..MaxIndex, ack_index : 0..MaxBatches] \cup {None}
    /\ reply \in [results : Seq(Nat), total_batches : Nat \cup {NoIndex},
                  batch_index : Nat \cup {NoIndex}] \cup {None}

\* FetchState as prepare makes it: a server that has batches left says so.
Init ==
    /\ quack_version \in {1, 3}
    /\ batches \in 0..MaxBatches
    /\ acknowledged = 0
    /\ cursor = 1
    /\ pc = "open"
    /\ needs_more_fetch \in BOOLEAN
    /\ batches > 0 => needs_more_fetch
    /\ next_batch_index = FirstBatch
    /\ ack_index = 0
    /\ pending = InlineChunks
    /\ delivered = <<>>
    /\ request = None
    /\ reply = None

-------------------------------------------------------------------------------
(* The generator *)

\* The consumer polls and gets the next chunk.
Yield ==
    /\ pc = "open"
    /\ pending # <<>>
    /\ delivered' = Append(delivered, Head(pending))
    /\ pending' = Tail(pending)
    /\ UNCHANGED <<serverVars, pc, indexVars, request, reply>>

\* Slip: the batch asked for is acknowledged along with it.
FetchRequestAcksItself ==
    [batch_index |-> next_batch_index,
     ack_index |-> IF next_batch_index <= MaxBatches THEN next_batch_index ELSE ack_index]

FetchRequest == [batch_index |-> next_batch_index, ack_index |-> ack_index]

\* The consumer polls, every chunk is out, and the result has more.
SendFetch ==
    /\ pc = "open"
    /\ pending = <<>>
    /\ needs_more_fetch
    /\ pc' = "awaiting"
    /\ request' = FetchRequest
    /\ UNCHANGED <<serverVars, indexVars, chunkVars, reply>>

\* Slip: any batch will do.
IsWantedAnyBatch(r) ==
    r.batch_index # NoIndex /\ r.results # <<>> /\ next_batch_index < MaxIndex

\* The batch asked for, with chunks; next_batch_index.checked_add succeeds.
IsWanted(r) ==
    /\ r.batch_index = next_batch_index
    /\ r.results # <<>>
    /\ next_batch_index < MaxIndex

\* The end: neither index nor chunks, and no announced batch is missing.
IsEnd(r) ==
    /\ r.batch_index = NoIndex
    /\ r.results = <<>>
    /\ r.total_batches \in {NoIndex, ack_index}

\* Slip: the empty response does not end a v3 result.
NeedsMoreAlways(r) == TRUE

NeedsMore(r) ==
    IF quack_version = 3 THEN r.batch_index # NoIndex ELSE r.results # <<>>

\* v3 advances its two indices with the batch; v1 has none.
AcceptBatch ==
    /\ pc = "awaiting"
    /\ reply # None
    /\ quack_version = 3 => IsWanted(reply)
    /\ reply.results # <<>>
    /\ pc' = "open"
    /\ pending' = reply.results
    /\ needs_more_fetch' = NeedsMore(reply)
    /\ IF quack_version = 3
       THEN /\ ack_index' = reply.batch_index
            /\ next_batch_index' = next_batch_index + 1
       ELSE UNCHANGED <<ack_index, next_batch_index>>
    /\ request' = None
    /\ reply' = None
    /\ UNCHANGED <<serverVars, delivered>>

AcceptEnd ==
    /\ pc = "awaiting"
    /\ reply # None
    /\ reply.results = <<>>
    /\ quack_version = 3 => IsEnd(reply)
    /\ pc' = "open"
    /\ needs_more_fetch' = NeedsMore(reply)
    /\ request' = None
    /\ reply' = None
    /\ UNCHANGED <<serverVars, next_batch_index, ack_index, chunkVars>>

\* Every other v3 response is an error of the protocol.
RejectReply ==
    /\ pc = "awaiting"
    /\ reply # None
    /\ quack_version = 3
    /\ ~IsWanted(reply) /\ ~IsEnd(reply)
    /\ pc' = "errored"
    /\ request' = None
    /\ reply' = None
    /\ UNCHANGED <<serverVars, indexVars, chunkVars>>

\* Closed connection, transport error, timeout, ERROR_RESPONSE, other message.
FetchFails ==
    /\ pc = "awaiting"
    /\ pc' = "errored"
    /\ request' = None
    /\ reply' = None
    /\ UNCHANGED <<serverVars, indexVars, chunkVars>>

\* The loop is left; the guard is dropped and the stream returns None.
EndStream ==
    /\ pc = "open"
    /\ pending = <<>>
    /\ ~needs_more_fetch
    /\ pc' = "ended"
    /\ UNCHANGED <<serverVars, indexVars, chunkVars, request, reply>>

DropStream ==
    /\ pc \in {"open", "awaiting"}
    /\ pc' = "dropped"
    /\ request' = None
    /\ reply' = None
    /\ UNCHANGED <<serverVars, indexVars, chunkVars>>

-------------------------------------------------------------------------------
(* The server, external *)

\* It may announce how many batches there are, in any response.
Totals == {MaxIndex, batches}

\* A v1 server sends its next batch, or an empty response after the last.
AnswerV1 ==
    /\ pc = "awaiting" /\ reply = None /\ quack_version = 1
    /\ IF cursor <= batches
       THEN /\ reply' = Response(Chunks(cursor), MaxIndex, MaxIndex)
            /\ cursor' = cursor + 1
       ELSE /\ reply' = Response(<<>>, MaxIndex, MaxIndex)
            /\ UNCHANGED cursor
    /\ UNCHANGED <<quack_version, batches, acknowledged, pc, indexVars, chunkVars,
                   request>>

\* A v3 server forgets what is acknowledged, and sends the batch asked for, or
\* an empty response after the last.
AnswerV3 ==
    /\ pc = "awaiting" /\ reply = None /\ quack_version = 3
    /\ acknowledged' = request.ack_index
    /\ \E total \in Totals :
          reply' = IF request.batch_index <= batches
                   THEN Response(Chunks(request.batch_index), total, request.batch_index)
                   ELSE Response(<<>>, total, MaxIndex)
    /\ UNCHANGED <<quack_version, batches, cursor, pc, indexVars, chunkVars, request>>

\* A v1 server has nothing more to say than an empty response: it ends the
\* result wherever it comes.
EndEarlyV1 ==
    /\ pc = "awaiting" /\ reply = None /\ quack_version = 1
    /\ cursor <= batches
    /\ batches' = cursor - 1
    /\ reply' = Response(<<>>, MaxIndex, MaxIndex)
    /\ UNCHANGED <<quack_version, acknowledged, cursor, pc, indexVars, chunkVars,
                   request>>

\* A v3 server ends the result early, and in that answer announces no number
\* of batches, or just those it has given.  What it announced in an earlier
\* answer is not compared.
EndEarlyV3 ==
    /\ pc = "awaiting" /\ reply = None /\ quack_version = 3
    /\ request.batch_index <= batches
    /\ acknowledged' = request.ack_index
    /\ batches' = request.batch_index - 1
    /\ \E total \in {MaxIndex, request.batch_index - 1} :
          reply' = Response(<<>>, total, MaxIndex)
    /\ UNCHANGED <<quack_version, cursor, pc, indexVars, chunkVars, request>>

\* A v3 server out of step: another batch, an empty batch, a batch without its
\* index, or an end that announces another number of batches than the client
\* has.  (With MaxIndex for an index or a total there is none, and an empty
\* answer is an end.)
AnswerOutOfStep ==
    /\ pc = "awaiting" /\ reply = None /\ quack_version = 3
    /\ acknowledged' = request.ack_index
    /\ \/ \E b \in 1..batches, total \in Totals :
             \/ b # request.batch_index /\ reply' = Response(Chunks(b), total, b)
             \/ b < MaxIndex /\ reply' = Response(<<>>, total, b)
             \/ reply' = Response(Chunks(b), total, MaxIndex)
       \/ \E total \in 0..MaxIndex - 1 :
             total # request.ack_index /\ reply' = Response(<<>>, total, MaxIndex)
    /\ UNCHANGED <<quack_version, batches, cursor, pc, indexVars, chunkVars, request>>

-------------------------------------------------------------------------------

Handle == AcceptBatch \/ AcceptEnd \/ RejectReply \/ FetchFails

Next ==
    \/ Yield \/ SendFetch \/ Handle \/ EndStream \/ DropStream
    \/ AnswerV1 \/ AnswerV3 \/ EndEarlyV1 \/ EndEarlyV3 \/ AnswerOutOfStep

\* The consumer keeps polling, and the request timeout ends every await.
Fairness == WF_vars(Yield \/ SendFetch \/ EndStream) /\ WF_vars(Handle)

Spec == Init /\ [][Next]_vars
FairSpec == Spec /\ Fairness

-------------------------------------------------------------------------------
(* Properties *)

Status ==
    CASE pc = "ended" -> "ended"
      [] pc \in {"errored", "dropped"} -> "stopped"
      [] OTHER -> "open"

Delivery == INSTANCE OrderedDelivery
    WITH size <- Bound[batches], out <- delivered, status <- Status

\* The stream yields the server's chunks once each and in order.  It ends by
\* itself only after the last one, or after what it has when the server says
\* the end there: at v1 by an empty answer, at v3 by one that announces no
\* number of batches but those the client has.  Every other answer a v3 server
\* can give fails the stream; a batch with the index asked for is taken to be
\* that batch (client.rs:325-361).
DeliversInOrder == Delivery!Spec

\* A batch is acknowledged, and so forgotten by the server, only when all its
\* chunks have been yielded: the next FETCH leaves after the yields
\* (client.rs:310-380).
AcknowledgedIsYielded ==
    /\ acknowledged > 0 => Bound[acknowledged] <= Len(delivered)
    /\ request # None => Bound[request.ack_index] <= Len(delivered)

\* A consumer that keeps polling sees the stream end or fail: each turn of the
\* loop consumes a batch (client.rs:309-380).
StreamSettles == <>(pc \in Terminal)
===============================================================================

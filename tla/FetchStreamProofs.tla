--------------------------- MODULE FetchStreamProofs ---------------------------
(***************************************************************************)
(* Proofs about FetchStream, for every result, every bound and every       *)
(* behaviour of the server that the module allows.                         *)
(***************************************************************************)
EXTENDS FetchStream, SequenceTheorems, TLAPS

-------------------------------------------------------------------------------
(* The inductive invariant *)

Live == pc \in {"open", "awaiting"}

\* Batches whose chunks the client holds or has yielded.  A v1 server's cursor
\* is one further while its answer is under way.
Have ==
    IF quack_version = 3 THEN ack_index
    ELSE IF reply # None /\ reply.results # <<>> THEN cursor - 2 ELSE cursor - 1

\* The chunks yielded and the chunks to yield are consecutive.
Consecutive ==
    /\ \A i \in 1..Len(delivered) : delivered[i] = i
    /\ \A i \in 1..Len(pending) : pending[i] = Len(delivered) + i

\* They are those of the batches the client has, none more and none less.
Accounted ==
    /\ Live => Have \in 0..batches /\ Len(delivered) + Len(pending) = Bound[Have]
    /\ Len(delivered) <= Bound[batches]

Indices ==
    /\ quack_version = 3 => next_batch_index = ack_index + 1
    /\ quack_version = 1 => ack_index = 0
    /\ acknowledged <= ack_index

Exchange ==
    /\ pc = "awaiting" => request = FetchRequest /\ pending = <<>>
    /\ pc # "awaiting" => request = None /\ reply = None

\* What an answer can be.
ReplyV1 ==
    \/ reply.results = <<>> /\ cursor = batches + 1
    \/ cursor \in 2..batches + 1 /\ reply.results = Chunks(cursor - 1)

ReplyV3 ==
    /\ IsWanted(reply) => next_batch_index <= batches
                          /\ reply.results = Chunks(next_batch_index)
    /\ IsEnd(reply) => ack_index = batches

Replies == reply # None => IF quack_version = 3 THEN ReplyV3 ELSE ReplyV1

Complete ==
    /\ pc = "open" /\ ~needs_more_fetch => Have = batches
    /\ pc = "ended" => Len(delivered) = Bound[batches]

Acknowledged == acknowledged > 0 => Bound[acknowledged] <= Len(delivered)

Inv ==
    /\ TypeOK
    /\ Consecutive
    /\ Accounted
    /\ Indices
    /\ Exchange
    /\ Replies
    /\ Complete
    /\ Acknowledged

-------------------------------------------------------------------------------
(* Data *)

\* The chunks of a batch: as many as Bound says, consecutive, at least one.
LEMMA ChunksProperties ==
    ASSUME NEW b \in 1..MaxBatches
    PROVE  /\ Chunks(b) \in Seq(Nat)
           /\ Len(Chunks(b)) = Bound[b] - Bound[b - 1]
           /\ Len(Chunks(b)) \in Nat \ {0}
           /\ Chunks(b) # <<>>
           /\ \A i \in 1..Len(Chunks(b)) : Chunks(b)[i] = Bound[b - 1] + i
  <1>1. /\ Bound[b] \in Nat /\ Bound[b - 1] \in Nat
        /\ Bound[b] - Bound[b - 1] \in Nat \ {0}
    BY BatchesAssumption
  <1>2. Chunks(b) \in [1..(Bound[b] - Bound[b - 1]) -> Nat]
    BY <1>1 DEF Chunks
  <1>3. /\ Chunks(b) \in Seq(Nat)
        /\ Len(Chunks(b)) = Bound[b] - Bound[b - 1]
    BY <1>1, <1>2
  <1>4. Chunks(b) # <<>>
    BY <1>1, <1>3
  <1>5. \A i \in 1..Len(Chunks(b)) : Chunks(b)[i] = Bound[b - 1] + i
    BY <1>3 DEF Chunks
  <1>6. QED
    BY <1>1, <1>3, <1>4, <1>5

\* Bound grows with the batches.
LEMMA BoundMonotone ==
    ASSUME NEW a \in 0..MaxBatches, NEW b \in 0..MaxBatches, a <= b
    PROVE  Bound[a] \in Nat /\ Bound[b] \in Nat /\ Bound[a] <= Bound[b]
  <1>1. CASE a = b
    BY <1>1, BatchesAssumption
  <1>2. CASE a < b
    BY <1>2, BatchesAssumption
  <1>3. QED
    BY <1>1, <1>2

\* An index read from the wire is a number or none.
LEMMA DecodedType ==
    ASSUME NEW i \in Nat
    PROVE  Decoded(i) \in Nat \cup {NoIndex}
  BY DEF Decoded

\* The inline chunks are 1..Bound[0] in order.
LEMMA InlineProperties ==
    /\ InlineChunks \in Seq(Nat)
    /\ Len(InlineChunks) = Bound[0]
    /\ \A i \in 1..Len(InlineChunks) : InlineChunks[i] = i
  <1>1. Bound[0] \in Nat
    BY BatchesAssumption
  <1>2. InlineChunks \in [1..Bound[0] -> Nat]
    BY <1>1 DEF InlineChunks
  <1>3. QED
    BY <1>1, <1>2 DEF InlineChunks

-------------------------------------------------------------------------------
(* The invariant is inductive: one lemma per action *)

LEMMA InitInv == Init => Inv
  <1> SUFFICES ASSUME Init PROVE Inv
    OBVIOUS
  <1> USE BatchesAssumption, IndexAssumption, InlineProperties DEF Init
  <1>1. TypeOK
    BY DEF TypeOK, FirstBatch, None, Terminal
  <1>2. Consecutive
    BY DEF Consecutive
  <1>3. Accounted
    <2>1. Have = 0
      BY DEF Have
    <2>2. Bound[0] <= Bound[batches] /\ Bound[batches] \in Nat
      BY BoundMonotone
    <2>3. QED
      BY <2>1, <2>2 DEF Accounted
  <1>4. Indices
    BY DEF Indices, FirstBatch
  <1>5. Exchange /\ Replies
    BY DEF Exchange, Replies
  <1>6. Complete
    BY DEF Complete, Have
  <1>7. Acknowledged
    BY DEF Acknowledged
  <1>8. QED
    BY <1>1, <1>2, <1>3, <1>4, <1>5, <1>6, <1>7 DEF Inv

LEMMA YieldInv == Inv /\ Yield => Inv'
  <1> SUFFICES ASSUME Inv, Yield PROVE Inv'
    OBVIOUS
  <1> USE DEF Inv, Yield, serverVars, indexVars
  <1>1. /\ delivered \in Seq(Nat) /\ pending \in Seq(Nat) /\ pending # <<>>
        /\ Len(pending) \in Nat \ {0} /\ Len(delivered) \in Nat
        /\ Head(pending) = Len(delivered) + 1
    BY DEF TypeOK, Consecutive
  <1>2. /\ delivered' \in Seq(Nat) /\ pending' \in Seq(Nat)
        /\ Len(delivered') = Len(delivered) + 1
        /\ Len(pending') = Len(pending) - 1
        /\ \A i \in 1..Len(pending') : pending'[i] = pending[i + 1]
    BY <1>1
  <1>3. TypeOK'
    BY <1>2 DEF TypeOK
  <1>4. Consecutive'
    <2>1. \A i \in 1..Len(delivered') : delivered'[i] = i
      BY <1>1, <1>2 DEF Consecutive
    <2>2. \A i \in 1..Len(pending') : pending'[i] = Len(delivered') + i
      BY <1>1, <1>2 DEF Consecutive
    <2>3. QED
      BY <2>1, <2>2 DEF Consecutive
  <1>5. Accounted'
    <2>1. /\ Have' = Have /\ Live /\ Live'
      BY DEF Have, Live
    <2>2. /\ Have \in 0..batches /\ batches \in 0..MaxBatches
          /\ Len(delivered) + Len(pending) = Bound[Have]
      BY <2>1 DEF Accounted, TypeOK
    <2>3. Bound[Have] \in Nat /\ Bound[batches] \in Nat /\ Bound[Have] <= Bound[batches]
      BY <2>2, BoundMonotone, BatchesAssumption
    <2>4. QED
      BY <1>1, <1>2, <2>1, <2>2, <2>3 DEF Accounted
  <1>6. Indices' /\ Exchange'
    BY DEF Indices, Exchange
  <1>7. Replies' /\ Complete'
    BY DEF Replies, Complete, Have, Exchange
  <1>8. Acknowledged'
    <2>1. Bound[acknowledged] \in Nat
      BY BatchesAssumption DEF TypeOK
    <2>2. QED
      BY <1>1, <1>2, <2>1 DEF Acknowledged
  <1>9. QED
    BY <1>3, <1>4, <1>5, <1>6, <1>7, <1>8

LEMMA SendFetchInv == Inv /\ SendFetch => Inv'
  <1> SUFFICES ASSUME Inv, SendFetch PROVE Inv'
    OBVIOUS
  <1> USE DEF Inv, SendFetch, serverVars, indexVars, chunkVars
  <1>1. TypeOK'
    BY DEF TypeOK, FetchRequest
  <1>2. Consecutive' /\ Indices' /\ Acknowledged'
    BY DEF Consecutive, Indices, Acknowledged
  <1>3. Exchange' /\ Replies'
    BY DEF Exchange, Replies, FetchRequest
  <1>4. Accounted'
    BY DEF Accounted, Live, Have
  <1>5. Complete'
    BY DEF Complete
  <1>6. QED
    BY <1>1, <1>2, <1>3, <1>4, <1>5

LEMMA AcceptBatchInv == Inv /\ AcceptBatch => Inv'
  <1> SUFFICES ASSUME Inv, AcceptBatch PROVE Inv'
    OBVIOUS
  <1> USE DEF Inv, AcceptBatch, serverVars
  <1> DEFINE b == Have'
  <1>1. /\ delivered \in Seq(Nat) /\ Len(delivered) \in Nat /\ pending = <<>>
        /\ batches \in 0..MaxBatches /\ MaxBatches \in Nat /\ cursor \in Nat
        /\ ack_index \in Nat /\ next_batch_index \in Nat /\ NoIndex \notin Nat
    BY BatchesAssumption, IndexAssumption DEF TypeOK, Exchange
  <1>2. /\ b \in 1..batches
        /\ pending' = Chunks(b)
        /\ Len(delivered) = Bound[b - 1]
    <2>1. CASE quack_version = 3
      <3>1. /\ next_batch_index <= batches /\ pending' = Chunks(next_batch_index)
            /\ reply.batch_index = next_batch_index
        BY <2>1 DEF Replies, ReplyV3, IsWanted
      <3>2. b = next_batch_index /\ Have = next_batch_index - 1 /\ Have = ack_index
        BY <1>1, <2>1, <3>1 DEF Have, Indices
      <3>3. Len(delivered) + Len(pending) = Bound[Have]
        BY DEF Accounted, Live
      <3>4. Bound[Have] \in Nat
        BY <1>1, <3>1, <3>2, BatchesAssumption
      <3>5. QED
        BY <1>1, <3>1, <3>2, <3>3, <3>4
    <2>2. CASE quack_version = 1
      <3>1. cursor \in 2..batches + 1 /\ pending' = Chunks(cursor - 1)
        BY <2>2 DEF Replies, ReplyV1
      <3>2. b = cursor - 1 /\ Have = cursor - 2
        BY <1>1, <2>2 DEF Have, None
      <3>3. Len(delivered) + Len(pending) = Bound[Have]
        BY DEF Accounted, Live
      <3>4. Bound[Have] \in Nat
        BY <1>1, <3>1, <3>2, BatchesAssumption
      <3>5. QED
        BY <1>1, <3>1, <3>2, <3>3, <3>4
    <2>3. QED
      BY <2>1, <2>2 DEF TypeOK
  <1> HIDE DEF b
  <1>3. /\ pending' \in Seq(Nat) /\ Len(pending') = Bound[b] - Bound[b - 1]
        /\ \A i \in 1..Len(pending') : pending'[i] = Bound[b - 1] + i
        /\ Bound[b] \in Nat /\ Bound[b - 1] \in Nat /\ Bound[batches] \in Nat
        /\ Bound[b - 1] <= Bound[batches]
    <2>1. b \in 1..MaxBatches /\ b - 1 \in 0..MaxBatches /\ b - 1 <= batches
      BY <1>1, <1>2
    <2>2. /\ Chunks(b) \in Seq(Nat) /\ Len(Chunks(b)) = Bound[b] - Bound[b - 1]
          /\ \A i \in 1..Len(Chunks(b)) : Chunks(b)[i] = Bound[b - 1] + i
      BY <2>1, ChunksProperties
    <2>3. /\ Bound[b] \in Nat /\ Bound[b - 1] \in Nat /\ Bound[batches] \in Nat
          /\ Bound[b - 1] <= Bound[batches]
      BY <1>1, <2>1, BoundMonotone, BatchesAssumption
    <2>4. QED
      BY <1>2, <2>2, <2>3
  <1>4. TypeOK'
    <2>1. CASE quack_version = 3
      <3>1. /\ ack_index' = next_batch_index /\ next_batch_index <= MaxBatches
            /\ next_batch_index < MaxIndex
        BY <1>1, <2>1 DEF IsWanted, Replies, ReplyV3
      <3>2. QED
        BY <1>1, <1>3, <2>1, <3>1, IndexAssumption DEF TypeOK, NeedsMore
    <2>2. CASE quack_version = 1
      BY <1>3, <2>2 DEF TypeOK, NeedsMore
    <2>3. QED
      BY <2>1, <2>2 DEF TypeOK
  <1>5. Consecutive'
    BY <1>1, <1>2, <1>3 DEF Consecutive
  <1>6. Accounted'
    <2>1. b \in 0..batches
      BY <1>1, <1>2
    <2>2. Len(delivered) = Bound[b - 1]
      BY <1>2
    <2>3. Len(delivered) + Len(pending') = Bound[b]
      BY SMTT(30), <1>3, <2>2
    <2>4. QED
      BY <1>1, <1>2, <1>3, <2>1, <2>3 DEF Accounted, b
  <1>7. Indices'
    BY <1>1, IndexAssumption DEF Indices, TypeOK, IsWanted
  <1>8. Exchange' /\ Replies'
    BY DEF Exchange, Replies
  <1>9. Complete'
    BY <1>1 DEF Complete, NeedsMore, IsWanted, TypeOK
  <1>10. Acknowledged'
    BY DEF Acknowledged
  <1>11. QED
    BY <1>4, <1>5, <1>6, <1>7, <1>8, <1>9, <1>10

LEMMA AcceptEndInv == Inv /\ AcceptEnd => Inv'
  <1> SUFFICES ASSUME Inv, AcceptEnd PROVE Inv'
    OBVIOUS
  <1> USE DEF Inv, AcceptEnd, serverVars, chunkVars
  <1>1. Have' = Have /\ Have = batches
    <2>1. CASE quack_version = 3
      BY <2>1 DEF Have, Replies, ReplyV3
    <2>2. CASE quack_version = 1
      <3>1. cursor = batches + 1
        <4>1. ASSUME cursor \in 2..batches + 1 PROVE Chunks(cursor - 1) # <<>>
          BY <4>1, ChunksProperties, BatchesAssumption DEF TypeOK
        <4>2. QED
          BY <2>2, <4>1 DEF Replies, ReplyV1
      <3>2. QED
        BY <2>2, <3>1 DEF Have, TypeOK
    <2>3. QED
      BY <2>1, <2>2 DEF TypeOK
  <1>2. TypeOK'
    BY DEF TypeOK, NeedsMore
  <1>3. Consecutive' /\ Indices' /\ Acknowledged'
    BY DEF Consecutive, Indices, Acknowledged
  <1>4. Exchange' /\ Replies'
    BY DEF Exchange, Replies
  <1>5. Accounted' /\ Complete'
    BY <1>1 DEF Accounted, Live, Complete
  <1>6. QED
    BY <1>2, <1>3, <1>4, <1>5

\* The three ways to stop early leave the chunks and the indices alone.
LEMMA StopInv == Inv /\ (RejectReply \/ FetchFails \/ DropStream) => Inv'
  <1> SUFFICES ASSUME Inv, RejectReply \/ FetchFails \/ DropStream PROVE Inv'
    OBVIOUS
  <1> USE DEF Inv
  <1>1. /\ UNCHANGED <<serverVars, indexVars, chunkVars>>
        /\ request' = None /\ reply' = None /\ pc' \in {"errored", "dropped"}
    BY DEF RejectReply, FetchFails, DropStream
  <1>2. TypeOK'
    BY <1>1 DEF TypeOK, serverVars, indexVars, chunkVars, Terminal
  <1>3. Consecutive' /\ Indices' /\ Acknowledged'
    BY <1>1 DEF Consecutive, Indices, Acknowledged, serverVars, indexVars, chunkVars
  <1>4. Exchange' /\ Replies' /\ Complete'
    BY <1>1 DEF Exchange, Replies, Complete
  <1>5. Accounted'
    BY <1>1 DEF Accounted, Live, serverVars, chunkVars
  <1>6. QED
    BY <1>2, <1>3, <1>4, <1>5

LEMMA EndStreamInv == Inv /\ EndStream => Inv'
  <1> SUFFICES ASSUME Inv, EndStream PROVE Inv'
    OBVIOUS
  <1> USE DEF Inv, EndStream, serverVars, indexVars, chunkVars
  <1>1. TypeOK'
    BY DEF TypeOK, Terminal
  <1>2. Consecutive' /\ Indices' /\ Acknowledged'
    BY DEF Consecutive, Indices, Acknowledged
  <1>3. Exchange' /\ Replies'
    BY DEF Exchange, Replies
  <1>4. Accounted'
    BY DEF Accounted, Live
  <1>5. Len(delivered) = Bound[batches]
    <2>1. /\ Len(delivered) + Len(pending) = Bound[batches]
          /\ Len(delivered) \in Nat /\ Len(pending) = 0
      BY DEF Accounted, Complete, Live, TypeOK
    <2>2. QED
      BY <2>1
  <1>6. Complete'
    BY <1>5 DEF Complete
  <1>7. QED
    BY <1>1, <1>2, <1>3, <1>4, <1>6

\* A well-formed response has the type of a reply.
LEMMA ResponseType ==
    ASSUME NEW results \in Seq(Nat), NEW total \in Nat, NEW index \in Nat
    PROVE  /\ Response(results, total, index) \in
                 [results : Seq(Nat), total_batches : Nat \cup {NoIndex},
                  batch_index : Nat \cup {NoIndex}]
           /\ Response(results, total, index).results = results
           /\ Response(results, total, index).total_batches = Decoded(total)
           /\ Response(results, total, index).batch_index = Decoded(index)
  BY DecodedType DEF Response

\* So has one without chunks.
LEMMA EmptyResponseType ==
    ASSUME NEW total \in Nat, NEW index \in Nat
    PROVE  /\ Response(<<>>, total, index) \in
                 [results : Seq(Nat), total_batches : Nat \cup {NoIndex},
                  batch_index : Nat \cup {NoIndex}]
           /\ Response(<<>>, total, index).results = <<>>
           /\ Response(<<>>, total, index).total_batches = Decoded(total)
           /\ Response(<<>>, total, index).batch_index = Decoded(index)
  <1>1. <<>> \in Seq(Nat)
    OBVIOUS
  <1>2. QED
    BY <1>1, ResponseType

LEMMA AnswerV1Inv == Inv /\ AnswerV1 => Inv'
  <1> SUFFICES ASSUME Inv, AnswerV1 PROVE Inv'
    OBVIOUS
  <1> USE DEF Inv, AnswerV1, indexVars, chunkVars
  <1>1. /\ batches \in 0..MaxBatches /\ MaxBatches \in Nat
        /\ cursor \in 1..MaxBatches + 1 /\ ack_index \in 0..MaxBatches
    BY BatchesAssumption DEF TypeOK
  <1>2. Have = cursor - 1 /\ Have \in 0..batches
    BY DEF Have, Accounted, Live
  <1>3. MaxIndex \in Nat
    BY IndexAssumption
  <1>4. CASE cursor <= batches
    <2>1. /\ Chunks(cursor) \in Seq(Nat) /\ Chunks(cursor) # <<>>
      BY <1>1, <1>4, ChunksProperties
    <2>2. /\ reply'.results = Chunks(cursor) /\ cursor' = cursor + 1 /\ reply' # None
          /\ reply' \in [results : Seq(Nat), total_batches : Nat \cup {NoIndex},
                         batch_index : Nat \cup {NoIndex}]
      <3>1. reply' = Response(Chunks(cursor), MaxIndex, MaxIndex) /\ cursor' = cursor + 1
        BY <1>4
      <3>2. Response(Chunks(cursor), MaxIndex, MaxIndex) # None
        BY DEF Response, None
      <3>3. QED
        BY <1>3, <2>1, <3>1, <3>2, ResponseType
    <2>3. Have' = Have
      BY <1>1, <1>2, <2>1, <2>2 DEF Have
    <2>4. TypeOK'
      BY <1>1, <1>4, <2>1, <2>2 DEF TypeOK
    <2>5. Consecutive' /\ Indices' /\ Acknowledged' /\ Exchange'
      BY DEF Consecutive, Indices, Acknowledged, Exchange, FetchRequest
    <2>6. Accounted' /\ Complete'
      BY <2>3 DEF Accounted, Live, Complete
    <2>7. Replies'
      BY <1>1, <1>4, <2>2 DEF Replies, ReplyV1
    <2>8. QED
      BY <2>4, <2>5, <2>6, <2>7
  <1>5. CASE ~(cursor <= batches)
    <2>1. /\ reply'.results = <<>> /\ cursor' = cursor /\ cursor = batches + 1
          /\ reply' \in [results : Seq(Nat), total_batches : Nat \cup {NoIndex},
                         batch_index : Nat \cup {NoIndex}]
      BY <1>1, <1>2, <1>3, <1>5, EmptyResponseType
    <2>2. Have' = Have
      BY <1>2, <2>1 DEF Have
    <2>3. TypeOK'
      BY <1>1, <2>1 DEF TypeOK
    <2>4. Consecutive' /\ Indices' /\ Acknowledged' /\ Exchange'
      BY DEF Consecutive, Indices, Acknowledged, Exchange, FetchRequest
    <2>5. Accounted' /\ Complete'
      BY <2>2 DEF Accounted, Live, Complete
    <2>6. Replies'
      BY <2>1 DEF Replies, ReplyV1
    <2>7. QED
      BY <2>3, <2>4, <2>5, <2>6
  <1>6. QED
    BY <1>4, <1>5

\* What a v3 answer leaves alone, and what it acknowledges.
LEMMA AnswerV3Frame ==
    ASSUME Inv, pc = "awaiting", reply = None, quack_version = 3,
           acknowledged' = request.ack_index,
           UNCHANGED <<quack_version, batches, cursor, pc, indexVars, chunkVars, request>>,
           reply' \in [results : Seq(Nat), total_batches : Nat \cup {NoIndex},
                       batch_index : Nat \cup {NoIndex}],
           ReplyV3'
    PROVE  Inv'
  <1> USE DEF Inv, indexVars, chunkVars
  <1>1. request.ack_index = ack_index /\ ack_index \in 0..batches
    BY DEF Exchange, FetchRequest, Accounted, Live, Have
  <1>2. TypeOK'
    BY <1>1, BatchesAssumption DEF TypeOK
  <1>3. Consecutive' /\ Exchange'
    BY DEF Consecutive, Exchange, FetchRequest
  <1>4. Indices'
    BY <1>1 DEF Indices, TypeOK
  <1>5. Accounted' /\ Complete'
    BY DEF Accounted, Live, Complete, Have
  <1>6. Acknowledged'
    <2>1. /\ pending = <<>> /\ Len(delivered) + Len(pending) = Bound[ack_index]
          /\ Len(delivered) \in Nat
      BY DEF Exchange, Accounted, Live, Have, TypeOK
    <2>2. Bound[ack_index] = Len(delivered)
      BY <2>1
    <2>3. QED
      BY <1>1, <2>1, <2>2 DEF Acknowledged
  <1>7. Replies'
    BY DEF Replies
  <1>8. QED
    BY <1>2, <1>3, <1>4, <1>5, <1>6, <1>7

LEMMA AnswerV3Inv == Inv /\ AnswerV3 => Inv'
  <1> SUFFICES ASSUME Inv, AnswerV3 PROVE Inv'
    OBVIOUS
  <1>1. /\ batches \in 0..MaxBatches /\ MaxBatches \in Nat /\ MaxIndex \in Nat
        /\ NoIndex \notin Nat /\ ack_index \in 0..batches
        /\ next_batch_index = ack_index + 1 /\ request.batch_index = next_batch_index
        /\ pc = "awaiting" /\ reply = None /\ quack_version = 3
    BY BatchesAssumption, IndexAssumption
       DEF Inv, TypeOK, AnswerV3, Accounted, Live, Have, Indices, Exchange, FetchRequest
  <1>2. PICK total \in Totals :
          reply' = IF request.batch_index <= batches
                   THEN Response(Chunks(request.batch_index), total, request.batch_index)
                   ELSE Response(<<>>, total, MaxIndex)
    BY DEF AnswerV3
  <1>3. total \in Nat
    BY <1>1 DEF Totals
  <1>4. UNCHANGED <<next_batch_index, ack_index, quack_version>>
    BY DEF AnswerV3, indexVars
  <1>5. CASE next_batch_index <= batches
    <2>1. reply' = Response(Chunks(next_batch_index), total, next_batch_index)
      BY <1>1, <1>2, <1>5
    <2>2. next_batch_index \in 1..MaxBatches
      BY <1>1, <1>5
    <2>3. Chunks(next_batch_index) \in Seq(Nat) /\ Chunks(next_batch_index) # <<>>
      BY <2>2, ChunksProperties
    <2>4. /\ reply'.results = Chunks(next_batch_index)
          /\ reply' \in [results : Seq(Nat), total_batches : Nat \cup {NoIndex},
                         batch_index : Nat \cup {NoIndex}]
      BY <1>3, <2>1, <2>2, <2>3, ResponseType
    <2>5. ReplyV3'
      BY <1>4, <1>5, <2>3, <2>4 DEF ReplyV3, IsWanted, IsEnd, Chunks, AnswerV3
    <2>6. QED
      BY <1>1, <2>4, <2>5, AnswerV3Frame DEF AnswerV3
  <1>6. CASE ~(next_batch_index <= batches)
    <2>1. reply' = Response(<<>>, total, MaxIndex)
      BY <1>1, <1>2, <1>6
    <2>2. /\ reply'.results = <<>>
          /\ reply' \in [results : Seq(Nat), total_batches : Nat \cup {NoIndex},
                         batch_index : Nat \cup {NoIndex}]
      BY <1>1, <1>3, <2>1, EmptyResponseType
    <2>3. ack_index' = batches'
      BY <1>1, <1>6 DEF AnswerV3, indexVars
    <2>4. ReplyV3'
      BY <2>2, <2>3 DEF ReplyV3, IsWanted
    <2>5. QED
      BY <1>1, <2>2, <2>4, AnswerV3Frame DEF AnswerV3
  <1>7. QED
    BY <1>5, <1>6

LEMMA AnswerOutOfStepInv == Inv /\ AnswerOutOfStep => Inv'
  <1> SUFFICES ASSUME Inv, AnswerOutOfStep PROVE Inv'
    OBVIOUS
  <1>1. /\ batches \in 0..MaxBatches /\ MaxBatches \in Nat /\ MaxIndex \in Nat
        /\ NoIndex \notin Nat /\ request.batch_index = next_batch_index
        /\ next_batch_index \in Nat
        /\ pc = "awaiting" /\ reply = None /\ quack_version = 3
    BY BatchesAssumption, IndexAssumption
       DEF Inv, TypeOK, AnswerOutOfStep, Exchange, FetchRequest
  <1>2. UNCHANGED <<next_batch_index, ack_index, quack_version, batches>>
    BY DEF AnswerOutOfStep, indexVars
  <1>3. Totals \subseteq Nat
    BY <1>1 DEF Totals
  <1>4. ASSUME NEW b \in 1..batches, NEW total \in Totals,
               b # request.batch_index, reply' = Response(Chunks(b), total, b)
        PROVE  Inv'
    <2>1. b \in 1..MaxBatches /\ b \in Nat
      BY <1>1
    <2>2. Chunks(b) \in Seq(Nat) /\ Chunks(b) # <<>>
      BY <2>1, ChunksProperties
    <2>3. /\ reply'.results = Chunks(b) /\ reply'.batch_index = Decoded(b)
          /\ reply' \in [results : Seq(Nat), total_batches : Nat \cup {NoIndex},
                         batch_index : Nat \cup {NoIndex}]
      BY ZenonT(40), <1>3, <1>4, <2>1, <2>2, ResponseType
    <2>4. reply'.batch_index # next_batch_index'
      BY <1>1, <1>2, <1>4, <2>3 DEF Decoded
    <2>5. ReplyV3'
      BY <2>2, <2>3, <2>4 DEF ReplyV3, IsWanted, IsEnd
    <2>6. QED
      BY <1>1, <2>3, <2>5, AnswerV3Frame DEF AnswerOutOfStep
  <1>5. ASSUME NEW b \in 1..batches, NEW total \in Totals,
               b < MaxIndex, reply' = Response(<<>>, total, b)
        PROVE  Inv'
    <2>1. b \in Nat
      BY <1>1
    <2>2. /\ reply'.results = <<>> /\ reply'.batch_index = Decoded(b)
          /\ reply' \in [results : Seq(Nat), total_batches : Nat \cup {NoIndex},
                         batch_index : Nat \cup {NoIndex}]
      BY <1>3, <1>5, <2>1, EmptyResponseType
    <2>3. reply'.batch_index # NoIndex
      BY <1>1, <1>5, <2>1, <2>2 DEF Decoded
    <2>4. ReplyV3'
      BY <2>2, <2>3 DEF ReplyV3, IsWanted, IsEnd
    <2>5. QED
      BY <1>1, <2>2, <2>4, AnswerV3Frame DEF AnswerOutOfStep
  <1>6. ASSUME NEW b \in 1..batches, NEW total \in Totals,
               reply' = Response(Chunks(b), total, MaxIndex)
        PROVE  Inv'
    <2>1. b \in 1..MaxBatches
      BY <1>1
    <2>2. Chunks(b) \in Seq(Nat) /\ Chunks(b) # <<>>
      BY <2>1, ChunksProperties
    <2>3. /\ reply'.results = Chunks(b) /\ reply'.batch_index = NoIndex
          /\ reply' \in [results : Seq(Nat), total_batches : Nat \cup {NoIndex},
                         batch_index : Nat \cup {NoIndex}]
      BY <1>1, <1>3, <1>6, <2>2, ResponseType DEF Decoded
    <2>4. ReplyV3'
      BY <1>1, <1>2, <2>2, <2>3 DEF ReplyV3, IsWanted, IsEnd
    <2>5. QED
      BY <1>1, <2>3, <2>4, AnswerV3Frame DEF AnswerOutOfStep
  <1>7. ASSUME NEW total \in 0..MaxIndex - 1,
               total # request.ack_index, reply' = Response(<<>>, total, MaxIndex)
        PROVE  Inv'
    <2>1. /\ total \in Nat /\ total # MaxIndex
          /\ request.ack_index = ack_index
      BY <1>1 DEF Inv, Exchange, FetchRequest
    <2>2. /\ reply'.results = <<>> /\ reply'.total_batches = total
          /\ reply' \in [results : Seq(Nat), total_batches : Nat \cup {NoIndex},
                         batch_index : Nat \cup {NoIndex}]
      BY <1>1, <1>3, <1>7, <2>1, EmptyResponseType DEF Decoded
    <2>3. ReplyV3'
      BY <1>1, <1>2, <1>7, <2>1, <2>2 DEF ReplyV3, IsWanted, IsEnd
    <2>4. QED
      BY <1>1, <2>2, <2>3, AnswerV3Frame DEF AnswerOutOfStep
  <1>8. QED
    BY <1>4, <1>5, <1>6, <1>7 DEF AnswerOutOfStep

\* A v1 server that ends early: the client has what it gave.
LEMMA EndEarlyV1Inv == Inv /\ EndEarlyV1 => Inv'
  <1> SUFFICES ASSUME Inv, EndEarlyV1 PROVE Inv'
    OBVIOUS
  <1> USE DEF Inv, EndEarlyV1, indexVars, chunkVars
  <1>1. /\ batches \in 0..MaxBatches /\ MaxBatches \in Nat
        /\ cursor \in 1..MaxBatches + 1 /\ MaxIndex \in Nat
    BY BatchesAssumption, IndexAssumption DEF TypeOK
  <1>2. /\ batches' \in 0..MaxBatches /\ batches' <= batches /\ cursor = batches' + 1
    BY <1>1
  <1>3. /\ reply'.results = <<>>
        /\ reply' \in [results : Seq(Nat), total_batches : Nat \cup {NoIndex},
                       batch_index : Nat \cup {NoIndex}]
    BY <1>1, EmptyResponseType
  <1>4. Have = batches' /\ Have' = batches'
    BY <1>1, <1>2, <1>3 DEF Have
  <1>5. Len(delivered) = Bound[batches'] /\ pending = <<>> /\ Bound[batches'] \in Nat
    <2>1. /\ Len(delivered) + Len(pending) = Bound[batches']
          /\ pending = <<>> /\ Len(delivered) \in Nat
      BY <1>4 DEF Accounted, Live, Exchange, TypeOK
    <2>2. QED
      BY <2>1
  <1>6. TypeOK'
    BY <1>2, <1>3 DEF TypeOK
  <1>7. Consecutive' /\ Indices' /\ Acknowledged' /\ Exchange'
    BY DEF Consecutive, Indices, Acknowledged, Exchange, FetchRequest
  <1>8. Accounted' /\ Complete'
    BY <1>2, <1>4, <1>5 DEF Accounted, Live, Complete
  <1>9. Replies'
    BY <1>2, <1>3 DEF Replies, ReplyV1
  <1>10. QED
    BY <1>6, <1>7, <1>8, <1>9

\* A v3 server that ends early, likewise.
LEMMA EndEarlyV3Inv == Inv /\ EndEarlyV3 => Inv'
  <1> SUFFICES ASSUME Inv, EndEarlyV3 PROVE Inv'
    OBVIOUS
  <1> USE DEF Inv, EndEarlyV3, indexVars, chunkVars
  <1>1. /\ batches \in 0..MaxBatches /\ MaxBatches \in Nat /\ MaxIndex \in Nat
        /\ ack_index \in 0..batches /\ request.ack_index = ack_index
        /\ request.batch_index = ack_index + 1
    BY BatchesAssumption, IndexAssumption
       DEF TypeOK, Exchange, FetchRequest, Indices, Accounted, Live, Have
  <1>2. batches' = ack_index /\ batches' \in 0..MaxBatches
    BY <1>1
  <1>3. /\ reply'.results = <<>>
        /\ reply' \in [results : Seq(Nat), total_batches : Nat \cup {NoIndex},
                       batch_index : Nat \cup {NoIndex}]
    <2>1. PICK total \in {MaxIndex, request.batch_index - 1} :
            reply' = Response(<<>>, total, MaxIndex)
      OBVIOUS
    <2>2. total \in Nat
      BY <1>1
    <2>3. QED
      BY <1>1, <2>1, <2>2, EmptyResponseType
  <1>4. /\ Len(delivered) = Bound[batches'] /\ pending = <<>> /\ Bound[batches'] \in Nat
        /\ Have' = batches'
    <2>1. /\ Len(delivered) + Len(pending) = Bound[batches']
          /\ pending = <<>> /\ Len(delivered) \in Nat /\ Have' = batches'
      BY <1>2 DEF Accounted, Live, Exchange, TypeOK, Have
    <2>2. QED
      BY <2>1
  <1>5. TypeOK'
    BY <1>1, <1>2, <1>3 DEF TypeOK
  <1>6. Consecutive' /\ Exchange'
    BY DEF Consecutive, Exchange, FetchRequest
  <1>7. Indices' /\ Acknowledged'
    BY <1>1, <1>2, <1>4 DEF Indices, Acknowledged
  <1>8. Accounted' /\ Complete'
    BY <1>1, <1>2, <1>4 DEF Accounted, Live, Complete
  <1>9. Replies'
    BY <1>2, <1>3 DEF Replies, ReplyV3, IsWanted
  <1>10. QED
    BY <1>5, <1>6, <1>7, <1>8, <1>9

LEMMA StutterInv == Inv /\ UNCHANGED vars => Inv'
  BY DEF Inv, vars, serverVars, indexVars, chunkVars, TypeOK, Consecutive, Accounted,
         Live, Have, Indices, Exchange, FetchRequest, Replies, ReplyV1, ReplyV3,
         IsWanted, IsEnd, Complete, Acknowledged

LEMMA NextInv == Inv /\ [Next]_vars => Inv'
  BY YieldInv, SendFetchInv, AcceptBatchInv, AcceptEndInv, StopInv, EndStreamInv,
     AnswerV1Inv, AnswerV3Inv, EndEarlyV1Inv, EndEarlyV3Inv, AnswerOutOfStepInv,
     StutterInv DEF Next, Handle

-------------------------------------------------------------------------------
(* Theorems *)

\* Every reachable state satisfies the invariant (client.rs:284-392).
THEOREM Invariance == Spec => []Inv
  BY InitInv, NextInv, PTL DEF Spec

\* The generator's variables keep their types; in particular the batch index
\* never passes u64::MAX (client.rs:333-335).
THEOREM TypeCorrect == Spec => []TypeOK
  <1>1. Inv => TypeOK
    BY DEF Inv
  <1>2. QED
    BY <1>1, Invariance, PTL

\* The server is never told to forget a chunk that the consumer has not seen
\* (client.rs:310-380).
THEOREM AcknowledgedOnlyAfterYield == Spec => []AcknowledgedIsYielded
  <1>1. Inv => AcknowledgedIsYielded
    <2> SUFFICES ASSUME Inv PROVE AcknowledgedIsYielded
      OBVIOUS
    <2>1. acknowledged > 0 => Bound[acknowledged] <= Len(delivered)
      BY DEF Inv, Acknowledged
    <2>2. ASSUME request # None PROVE Bound[request.ack_index] <= Len(delivered)
      <3>1. pc = "awaiting" /\ request.ack_index = ack_index /\ pending = <<>>
        BY <2>2 DEF Inv, Exchange, FetchRequest
      <3>2. /\ Have \in 0..batches /\ Len(delivered) + Len(pending) = Bound[Have]
            /\ batches \in 0..MaxBatches /\ Len(delivered) \in Nat
            /\ ack_index \in 0..MaxBatches /\ ack_index <= Have
        BY <3>1 DEF Inv, Accounted, Live, TypeOK, Indices, Have
      <3>3. Bound[ack_index] <= Bound[Have] /\ Bound[Have] \in Nat
        BY <3>2, BoundMonotone, BatchesAssumption
      <3>4. QED
        BY <3>1, <3>2, <3>3
    <2>3. QED
      BY <2>1, <2>2 DEF AcknowledgedIsYielded
  <1>2. QED
    BY <1>1, Invariance, PTL

-------------------------------------------------------------------------------
(* FetchStream implements OrderedDelivery *)

LEMMA InitRefines == Init => Delivery!Init
  BY BoundMonotone, BatchesAssumption DEF Init, Delivery!Init, Status

\* Yielding the next chunk is the abstract delivery.
LEMMA YieldRefines == Inv /\ Yield => Delivery!Deliver
  <1> SUFFICES ASSUME Inv, Yield PROVE Delivery!Deliver
    OBVIOUS
  <1>1. /\ pending \in Seq(Nat) /\ pending # <<>> /\ Len(pending) \in Nat \ {0}
        /\ Len(delivered) \in Nat
        /\ Head(pending) = Len(delivered) + 1
    BY DEF Inv, TypeOK, Consecutive, Yield
  <1>2. Len(delivered) < Bound[batches]
    <2>1. /\ Have \in 0..batches /\ batches \in 0..MaxBatches
          /\ Len(delivered) + Len(pending) = Bound[Have]
      BY DEF Inv, Accounted, Live, TypeOK, Yield
    <2>2. Bound[Have] \in Nat /\ Bound[batches] \in Nat /\ Bound[Have] <= Bound[batches]
      BY <2>1, BoundMonotone, BatchesAssumption
    <2>3. QED
      BY <1>1, <2>1, <2>2
  <1>3. QED
    BY <1>1, <1>2 DEF Delivery!Deliver, Yield, Status, serverVars

LEMMA EndRefines == Inv /\ EndStream => Delivery!End
  <1> SUFFICES ASSUME Inv, EndStream PROVE Delivery!End
    OBVIOUS
  <1>1. Inv'
    BY EndStreamInv
  <1>2. Len(delivered) = Bound[batches]
    BY <1>1 DEF Inv, Complete, EndStream, serverVars, chunkVars
  <1>3. QED
    BY <1>2 DEF Delivery!End, EndStream, Status, serverVars, chunkVars

LEMMA StopRefines == RejectReply \/ FetchFails \/ DropStream => Delivery!Stop
  BY DEF RejectReply, FetchFails, DropStream, Delivery!Stop, Status, serverVars, chunkVars

\* A result that the server ends early is cut to what has been yielded.
LEMMA EndEarlyRefines == Inv /\ (EndEarlyV1 \/ EndEarlyV3) => Delivery!CutShort
  <1> SUFFICES ASSUME Inv, EndEarlyV1 \/ EndEarlyV3 PROVE Delivery!CutShort
    OBVIOUS
  <1>1. /\ pc = "awaiting" /\ pending = <<>> /\ Len(delivered) \in Nat
        /\ UNCHANGED <<pc, delivered>>
    BY DEF EndEarlyV1, EndEarlyV3, chunkVars, Inv, Exchange, TypeOK
  <1>2. /\ batches \in 0..MaxBatches /\ MaxBatches \in Nat
        /\ cursor \in Nat /\ ack_index \in Nat
        /\ Len(delivered) + Len(pending) = Bound[Have]
    BY <1>1, BatchesAssumption DEF Inv, TypeOK, Accounted, Live
  <1>3. batches' = Have /\ batches' \in 0..batches - 1
    <2>1. CASE EndEarlyV1
      <3>1. Have = cursor - 1 /\ Have \in 0..batches
        BY <1>1, <2>1 DEF Inv, Accounted, Live, Have, EndEarlyV1
      <3>2. QED
        BY <1>2, <2>1, <3>1 DEF EndEarlyV1
    <2>2. CASE EndEarlyV3
      <3>1. request.batch_index = ack_index + 1 /\ Have = ack_index
        BY <1>1, <2>2 DEF Inv, Exchange, FetchRequest, Indices, Have, EndEarlyV3
      <3>2. QED
        BY <1>2, <2>2, <3>1 DEF EndEarlyV3
    <2>3. QED
      BY <2>1, <2>2
  <1>4. /\ Bound[batches'] \in Nat /\ Bound[batches] \in Nat
        /\ Bound[batches'] < Bound[batches]
    BY <1>2, <1>3, BatchesAssumption
  <1>5. Len(delivered) = Bound[batches']
    BY <1>1, <1>2, <1>3, <1>4
  <1>6. QED
    BY <1>1, <1>4, <1>5 DEF Delivery!CutShort, Status

\* Every other step shows the consumer nothing.
LEMMA InternalRefines ==
    SendFetch \/ AcceptBatch \/ AcceptEnd \/ AnswerV1 \/ AnswerV3 \/ AnswerOutOfStep
       \/ UNCHANGED vars
    => UNCHANGED Delivery!vars
  BY DEF SendFetch, AcceptBatch, AcceptEnd, AnswerV1, AnswerV3, AnswerOutOfStep, vars,
         Delivery!vars, Status, serverVars, chunkVars

\* A result stream yields the server's chunks once each and in order, and ends
\* by itself only after the last, or where the server has said the end without
\* announcing more batches in that answer (client.rs:325-361).
THEOREM StreamDeliversInOrder == Spec => DeliversInOrder
  <1>1. Inv /\ [Next]_vars => [Delivery!Next]_(Delivery!vars)
    BY YieldRefines, EndEarlyRefines, EndRefines, StopRefines, InternalRefines
       DEF Next, Handle, Delivery!Next
  <1>2. QED
    BY <1>1, InitRefines, Invariance, PTL DEF Spec, DeliversInOrder, Delivery!Spec
===============================================================================

# TLA+ development of quack_protocol_rs

A model of the Rust client of DuckDB's Quack protocol: the modules translate the
control of `src/src/*.rs`, TLC checks them on small instances, and TLAPS proves
the properties that matter most for every value of the constants. Every
definition of a module stands for lines of the source; `PROJECT.json` ("map")
names them.

## 1. Inventory

| Part | Source | State it keeps | Operations |
| --- | --- | --- | --- |
| Client session | `client.rs` `QuackClient`, `Connection`, `FetchState` | the connection mutex and who waits for it, `closed`, `query_counter`, clones of the client | `query`, `append`, `disconnect`, drop of a future, a stream or a client |
| Result stream | `client.rs` `QuackClient::fetch` | `needs_more_fetch`, `next_batch_index`, `ack_index`, chunks not yet yielded | poll, fetch, check of the answer, end, drop |
| Heartbeat lease | `client.rs` `HeartbeatGuard`, `ConnectionState` | time of the last success, `closed`, the task's sleep | record a success, send a heartbeat, close on expiry |
| Version negotiation | `client.rs` `Connection::connect` | the attempt, the previous error | validate options, send, fall back, accept |
| Append rows | `client.rs` `append_rows`, `builders.rs` | the batch under way | split, infer columns, convert, append |
| Wire codec | `binary.rs`, `messages.rs` | none (pure) | encode and decode a message at v1 and v3 |
| Column types | `logical_types.rs`, `builders.rs` | none (pure) | infer a type, its metadata on the wire and back |
| Vector codec | `vector.rs` | none (pure) | encode and decode a column, convert values |
| Arrow | `arrow/*.rs` | none (pure) | schema, and record batch of a chunk |
| Values, JSON | `values.rs`, `json.rs` | none (pure) | constructors and renderings |
| SQL text | `sql.rs` | none (pure) | format literals, replace placeholders |

How the parts meet. A `QuackClient` and its clones share one `Connection` behind
a tokio mutex. `prepare` takes the guard, sends a PREPARE_REQUEST and moves the
guard into the stream it returns; the stream's FETCHes use the same guard, and it
is released when the stream ends or is dropped. `append` and `disconnect` hold it
for one exchange. The heartbeat task does not take the mutex: it shares only
`closed` and the time of the last success with the calls, under a mutex of their
own that is never held across an await. Every exchange has an HTTP connection of
its own (`pool_max_idle_per_host(0)`), so two requests of one client may reach the
server in either order once their caller no longer waits for the first.

What is hard here:

* *Cancellation.* A future dropped at an await leaves its request on its way; a
  request that times out does, too. Both release the guard.
* *Check, then send.* The calls and the heartbeat read `closed`, and act on it
  later; the other side may close in between.
* *Ownership.* The guard must follow the stream through every FETCH, and must be
  given back on every error path and drop.
* *Indices.* A v3 stream acknowledges batches; acknowledging one that has not
  been yielded loses it, accepting the wrong one reorders rows, and the largest
  index on the wire means "none".
* *Clocks.* Client and server count the lease from different events; a heartbeat
  may hang longer than the lease.
* *Fallback.* A failed v3 handshake may mean an old server or anything else.
* *Partial failure.* An append of many rows is many appends.
* *Shared encodings.* Absent, empty, zero and the largest index share encodings
  that differ between the versions, and no message names its version.
* *Positions.* Masks, list offsets and nested NULLs must agree between two
  functions at any depth; one row off moves values silently. Arrow has its own
  masks and offsets, built from the decoded values.
* *Widths.* Every type narrows, scales or splits its values: the edges of each
  width, and times before the epoch, are where that goes wrong.

What makes each part correct is stated by the properties in section 3.
`PROJECT.json` ("hazards") lists every place at its line, with the properties
that watch it.

## 2. Modules

| Module | Models | Kind |
| --- | --- | --- |
| `ConnectionLock` | the tokio mutex: a holder and a FIFO queue | shared by the next two |
| `ServedStreams` | what a shared connection promises to each of its tasks | abstract specification |
| `ClientSession` | calls, lock, heartbeat task, server session and cursor; implements `ServedStreams` | state machine |
| `AppendRows` | `append_rows` of several tasks | state machine |
| `OrderedDelivery` | what a stream promises | abstract specification |
| `FetchStream` | `QuackClient::fetch`, implements `OrderedDelivery` | state machine |
| `HeartbeatLease` | clock of the heartbeat task | state machine with discrete time |
| `Negotiation` | `connect` | state machine |
| `WireCodec` | encoding and decoding of every message at both versions | pure operators, driven by encode, alter, decode |
| `ColumnTypes` | values, logical and physical types, one level of a type's metadata and of what `append_rows` makes of a value | pure operators |
| `VectorLayout` | words and texts of values, one level of the encoding and of the decoding of a vector | pure operators |
| `HeldValues` | one level of what a column of a type is to hold for a value, and which types columns can have | the properties' side |
| `ColumnPath` | a column's way: infer or declare, encode, reshape or alter, decode; with the equations that lead from one level of a type to all | state machine |
| `TypeCodec`, `VectorCodec` | the same operators for types of any depth, recursive as the code is | pure operators |
| `ArrowColumns` | Arrow types, arrays with masks and offsets, the record batch | pure operators |
| `JsonValues` | a value as JSON, with its options | pure operators |
| `ColumnViews` | `ColumnPath`, and what is made of the decoded column: a record batch, JSON | state machine |
| `SqlText` | placeholders and literals | state machine, one step a token |
| `*Proofs` | theorems of the module they are named after; `ConnectionProofs` of `Negotiation` and `HeartbeatLease` | proofs |
| `DataInduction` | induction over numbers, sequences and the depth of data, for the proofs about texts, messages and columns | lemmas |
| `MC*` | finite values of constants | instances |

`ConnectionLock` is extended by `ClientSession` and `AppendRows`. `ColumnPath` is
the way of a value from the caller's row to the server and back to a row, and
`ColumnViews` goes on to JSON and to Arrow. `ColumnTypes`, `VectorLayout`,
`HeldValues` and `ColumnPath` each extend the one before; `ColumnViews` extends
`ColumnPath`, `ArrowColumns` and `JsonValues`.
`ClientSession` keeps only "has more" of a stream, and abstracts the lease to
"may close"; `FetchStream` and `HeartbeatLease` are the detailed views of these
two, under the assumption that `ClientSession` establishes: one stream at a time
fetches, and one call at most is under way.

The codecs and `SqlText` are pure in the code. `WireCodec`, `ColumnPath` and
`SqlText` have a few variables that take a message, a column or a query through
what the code and a peer do to it, so that a property can compare what went in
with what came out. In `WireCodec` and `SqlText` loops are functions over the number of
their turns, and `SqlText` nests its literals with functions over the depth of a
list, so that both can be proved about.

Types nest, and the code for columns recurses on them in ten places. A module that
declares a recursive operator is beyond the provers, so each of the ten is in two
parts. What is done at one level, with what the levels inside have come to as an
argument, is an operator of `ColumnTypes`, `VectorLayout` or `HeldValues`
(`EncodedOf(values, t, vectors)`, say, and `Inner(values, t)` for the columns
inside). The operator of all levels is a constant of `ColumnPath` (`Encoded`), and
the equation between the two (`VectorsSentAsDefined`) is a named definition there.
`TypeCodec` and `VectorCodec` define it, recursively, by that same equation
(`EncodedVector`), and the configurations give the constant that value. So TLC runs
the whole recursion, and the theorems hold of whatever satisfies the equations.

`WireCodec` writes a message as
a list of fields, each with an id, a kind and a name, and a kind stands for the
function of `messages.rs` or `binary.rs` that writes or reads the field; so a layout
is data, and what holds of a kind holds of every field of that kind.

Correspondence. A TLA+ action is the code between two awaits of one task:
`Acquire` is the return of `lock_owned`, `EnsureOpen` the read of `closed`,
`Send` the hand-over of the request, `...Done` what follows the answer. They are
separate because another thread may run between them (the read of `closed` and
the send of the request have none of the lock's protection against the
heartbeat). Names are the code's where TLA+ allows. An operator marked *Slip* in
a comment is a plausible mistake in the definition under it; no behaviour of the
specification uses it, and with it in place of the right one TLC finds the
property named in `PROJECT.json` ("mutants") violated.

The server is external. It is modelled as the client uses it: one resumable
cursor for each connection, which a PREPARE resets (`client.rs:132-138`), batches
addressed by index at v3, an opaque cursor at v1, a lease renewed by the requests
that reach it. Where a property is about the client's defence against the server
(`FetchStream`, `Negotiation`) the server may also misbehave.

## 3. What the runs check

### `session` — ClientSession.cfg
Two tasks, two requests after which no new call starts, one batch beyond the
PREPARE, both versions. It has all the interesting cases: a call that waits
behind a stream, an abandoned PREPARE or DISCONNECT that arrives after the next
one has started, a disconnect queued behind a query, a close by the
heartbeat between a check and a send, drop of the last clone below a stream.
A third task adds only more waiting behind the same lock (and the proofs cover
any number).

* `OneLiveRequest`: of the unprocessed requests one at most is still wanted, and
  its caller owns the connection.
* `CursorKept`: a stream with more to fetch has the server's cursor, unless a
  PREPARE that its caller gave up on took it.
* `LateByOneAtMost`: after a close one scoped message and one heartbeat at most.
* `HeartbeatIffNeeded`, `ClosedEndsHeartbeat`: the task lives while, and only
  while, it has an open v3 connection and a client.
* `DisconnectIsFinal`: after a confirmed disconnect the connection stays closed and
  no query id is used, so that no scoped request is built. A heartbeat that is past
  its check can still leave, as `LateByOneAtMost` says.
* `ServesStreams`: refinement of `ServedStreams`. No two results are open at once;
  a stream that is told it is complete has had every batch the server had for it;
  a batch that crosses with a timeout or another task's PREPARE loses the result
  visibly, never silently.
* `WaitersServed`: every waiter gets the connection, or gives up.

### `fetch` — FetchStream.cfg
Results of zero to three batches beyond the inline chunk, the first of two
chunks. `MaxIndex`, which stands for `u64::MAX`, is 3, so that the stream meets
the edge of its index. A server may answer out of step: with another batch, none, a
batch without its index, or an end with another number of batches
(`AnswerOutOfStep`). It may also end the result early (`EndEarlyV1`, `EndEarlyV3`).

* `DeliversInOrder`: refinement of `OrderedDelivery`. The chunks come once each and
  in order, and the stream ends by itself after the last one, or where the server
  said the end. The client has to believe such an end: a v1 answer has nothing but
  its chunks, and of a v3 one the total is compared only if that same answer has one
  (`client.rs:342-351`), not with the total an earlier answer announced. So a result
  that the server cuts short is one that has become shorter (`CutShort` of
  `OrderedDelivery`), and the consumer is not told. Every other v3 answer fails the
  stream, but the contents of a batch are not compared with anything: a batch with
  the index asked for is taken to be that batch.
* `AcknowledgedIsYielded` is what makes it safe for the server to forget a batch.
* `StreamSettles` is termination for a consumer that polls.

### `lease` — HeartbeatLease.cfg
A lease of 6 ticks, an interval of 2, a request timeout of 5: the timeout is
shorter than the lease but longer than what two intervals leave of it, so that
heartbeats fail early, late, and too late.

* `DetectionBound`: an open connection heard from the server less than lease +
  interval + request timeout ago; `LostServerDetected` is the liveness side.
* `OneFailureTolerated`: one heartbeat that fails early does not close.
* `FreshIsNotExpired`: within lease minus request timeout of a success, the
  server has not expired the connection.

### `negotiation` — Negotiation.cfg
All option ranges over 0..4, valid or not, servers that speak either version,
both or none and may reject, refuse, garble or not answer.

* `ConnectedIsAgreed`: the connection has the version that was offered and
  granted, and its lease is usable.
* `HighestCommonVersion`: unless something went wrong on the way (`mishap`), connect
  settles on the highest version both sides speak and the options allow, leaves no
  other session, and fails only when there is none. With a mishap the fallback may
  settle lower and leave a v3 session behind, as `retry_rejected` shows.
* `MismatchExplained`: a v3 failure that is no mismatch is final. After a v3 mismatch,
  a v1 mismatch reports the v3 error, and any other v1 failure is itself reported.
* `ConnectEnds`.

### `append` — AppendRows.cfg
Two tasks, each with one of seven calls: a short last batch, one batch, a batch
for each row, no rows with and without columns, batch size 0 or absent, NULLs where
a type is inferred, rows of different names.

* `LandedIsPrefix`: the rows of a call are in the table once, in order, up to a
  batch boundary: the last confirmed one or the next.
* `OkMeansAll`; `UniformRowsKeepValues`: no value is lost to the batching if the
  rows share their names; `CallsEnd`.

### `wire` — WireCodec.cfg
Every type of message with and without its optional fields, read by the codec of
the same and of the other version, whole, cut off or longer than the layout.
Integers are scaled: a LEB128 byte carries 3 bits (`Radix` is 8, 128 in the code), a
word has 8 (`WordSize` is 256), and a number six bytes at most (`MaxBytes`, 19 in the
code); the values are those where a number, or its sign, takes another byte.

* `RoundTrip`: what is read is what was written, in the meaning it has for the
  other side (an empty text is none, `u64::MAX` is no index).
* `AlteredIsRefused`: a body cut off or too long is never another message.
* `HandshakeIsNotMisread`: a v3 handshake that asks for a lease fails at an end of
  object in the v1 codec, which is what the fallback recognises; any other
  handshake and any error says the same at both versions.

### `vector` — ColumnPath.cfg
Columns of up to three values of every kind: integers at the edges of every
width, texts, lists of lists, structs that lack a name, arrays, structs of lists
and lists of structs, decimals below zero, dates and times around the epoch, NULLs
everywhere, values of two kinds in one column; typed by inference or by one of
about 40 declared types. Numbers are scaled so that every edge is met: words of 8,
16, 32, 64 and 128 bits have 2, 3, 4, 6 and 8; decimals have radix 2 and 2, 3, 5
and 7 digits for the four sizes; an enumeration outgrows its word at 2 and at 4
names; a day has 8 microseconds, a microsecond 3 nanoseconds; an Arrow offset ends
at 4. A word of the mask has 2 bits, so that columns of three need padding.

* `RoundTrip`: a column whose values its type can hold, inferred or declared,
  comes back as it was. Columns can have any type that is laid out, at every depth,
  but three, which the proof of this property found (section 4).
* `FormsAgree`: nor does it matter in which form the server sends it, nor what it
  leaves in the words of NULLs.
* `MiscountMovesNothing`: a length that is wrong by one, or metadata that lacks
  its part, gives no chunk or leaves every value in its row (texts are not counted:
  the last one may become NULL). Giving no chunk is an error in the code, or, where a
  mask is shorter than what it is the mask of, an index out of range: a panic
  (`vector.rs:526`, `929`).
* `MisfitsStayPut`: a value that the type cannot hold may be refused, narrowed or
  emptied, but changes no other.
* `ArrowAgrees`: the record batch of a chunk says what its rows say, a NULL list
  apart from an empty one; what Arrow can carry has a batch (not a decimal whose
  precision Arrow does not take, nor an array longer than its offsets count); a schema
  that is not the chunk's can change names inside a struct and nothing else.
* `JsonTellsApart`: different values of a column have different JSON, with every
  option, NULLs included. The exception is stated in it: NaN and the infinities become
  null (`json.rs:58-63`), the same as each other and as a NULL.

`HypothesesHold` in `MCColumnPath` evaluates what the theorems suppose of the
constants, as far as it is about finitely many types and values.

### `sql` — SqlText.cfg
All texts of up to four parts (quotes, comment signs, placeholders, names, a
newline, a character of two bytes), with parameters of either kind, too few, too
many, negative, full of quotes, without a literal, or a list that has a list in it
(`Depth` is 2: a third level is put in brackets by the same rule, and the proofs
cover any depth). A parameter without a literal (`Unwritable`) stands for what
`value_literal` refuses (a number that is not finite, a TIMETZ, a list or a struct
inside a `Value`) and for the dates and timestamps it panics on.

* `FormatsWhatIsCode`: the placeholders that are replaced are those that a lexer
  which reads one character at a time finds outside quotes and comments, and the
  rest is untouched. This is stated for queries that are ASCII outside quotes: the
  code copies other characters byte by byte. Whatever the query, it is sent only
  if the counts agree, every name has a parameter, and the parameter of each
  placeholder has a literal; and it is refused only if not.
* `LiteralsKeepMeaning`: around a literal the query means what it meant. It is
  stated for placeholders that touch no quote or minus (`5-?` with -1 becomes a
  comment).

### Where the code and its documentation part
Four runs are expected to find a violation. Each checks a sentence of the
repository; `PROJECT.json` ("findings") quotes it.

* `serial_queries`: the mutex does not serialise the queries on the server. An
  abandoned PREPARE arrives later than the next one and takes its cursor.
* `retry_in_lease`: a failed heartbeat is not always retried before the lease
  expires.
* `retry_rejected`: v1 is tried after failures that are no rejection.
* `arrow_schema`: `to_record_batch` promises an error for a chunk whose types are
  not the schema's, but never compares the names of a STRUCT's fields: the batch
  gets the schema's.

### Fairness
A woken task is polled (tokio), the request timeout ends every await, the
heartbeat task is scheduled and its sleep ends. Whoever holds a stream drains or
drops it: that is the caller's part, the code cannot enforce it, and without it
`WaitersServed` is false (a task that awaits a second query with an undrained
stream in its hand waits for itself). The network and the server are not fair:
answers may never come. No action of the environment is assumed to happen.
`FetchStream` assumes a consumer that polls. `CHECK_DEADLOCK` is off in every
configuration, since calls, streams and connections end, and at the bounds no
new call starts.

## 4. What is proved

From the assumptions on the constants that the modules name (a non-empty set of
tasks; positive clocks; strictly increasing `Bound` and at most `MaxIndex`
batches; inputs that are sequences of rows; messages whose fields have their types,
words that fit the bytes a reader accepts; queries that are sequences of
characters, with parameters among `Values`; words that get longer and decimals that
fit them), for every number of tasks, requests, batches and rows, every range of
versions, every lease, every message, every query and every column:

* `ClientSessionProofs`: type correctness and `OneLiveRequest`, `CursorKept`,
  `LateByOneAtMost`, `HeartbeatIffNeeded`, `DisconnectIsFinal`. The invariant adds
  to them who owns the guard in each state (`GuardInv`), that ids are fresh and
  answers and awaits belong together (`IdInv`), where the cursor stands relative
  to requests in flight and abandoned (`CursorInv`), that each late message had
  its check before the close (`LateInv`), and the states of the heartbeat task
  (`HeartbeatInv`). None of the properties is inductive without these: a request
  in flight says nothing of its caller unless ids are unique, and a late send
  can be bounded only if the states between check and send can.
  `StreamsAreServed`: every behaviour of `ClientSession` is one of `ServedStreams`.
  To the invariant above it adds that a request has one answer, and that a request
  for a result which was given up on belongs to a stream that has failed
  (`FetchInv`): otherwise a late FETCH could take a batch from a stream that still
  polls. Each action is then a step of the task that owns the result, or a stutter.
* `FetchStreamProofs`: type correctness, `AcknowledgedIsYielded`, and
  `StreamDeliversInOrder`: every behaviour of `FetchStream` is one of
  `OrderedDelivery`. The invariant says that what was delivered and what is
  pending are together the chunks up to the last batch accepted, and that nothing is
  pending while an answer is awaited. An early end of the server then cuts the result
  at just what has been delivered: a step `CutShort`.
* `ConnectionProofs`, of `HeartbeatLease`: type correctness, `DetectionBound`,
  `FreshIsNotExpired`, `OneFailureTolerated`. The invariant (`LeaseInv`) relates the
  clocks: a success of the client is younger than the request timeout plus the
  server's idle time, and so on.
* `ConnectionProofs`, of `Negotiation`: type correctness, `ConnectedIsAgreed`,
  `HighestCommonVersion`, `MismatchExplained`. The invariant (`Inv`) says where an attempt
  stands in the list of versions and what the attempt before it failed with
  (`AttemptInv`), that the version a response selects has been opened on the server
  (`SessionInv`), and that, unless something went wrong, answers tell which versions
  the server speaks (`CalmInv`).
* `AppendRowsProofs`: type correctness, `LandedIsPrefix`, `OkMeansAll`,
  `UniformRowsKeepValues`. The batches are first shown to be the rows one after
  the other, for every size. The invariant then relates the three places a batch
  may be in: a request in flight is for the batch under way and its rows are not in
  the table, an answer for that batch says that they are, and the rows of a call
  ascend in the table and come from a batch of that call.
* `WireCodecProofs`: `RoundTrip`, `AlteredIsRefused` and `HandshakeIsNotMisread`, for
  every message, every even radix above 2 and every width of a word. The invariant
  (`WireInv`) is only that the wire is what the encoder wrote or an alteration of it;
  the work is in the codecs, and goes from the unit up.
  * Numbers: the digits written are as many as are needed, no more than a reader
    accepts, and their sum is the number, the sign of a signed one included
    (`UlebRead`, `SlebRead`).
  * Fields: a payload that lies on a wire (`Lies`) is read from there as it was
    written and up to its end, whatever is behind it (`PayloadRead`, one kind after
    the other; `ItemsRead` for the lists). A field that was left out is read as its
    default because the unit there is the id of a later field, or the end
    (`NextUnits`): here the order of the ids matters.
  * Objects: which kinds may be written and read together is a relation
    (`Compatible`), the layouts of each type are shown to be related at each version
    (`FitV1`, `FitV3`), and for what is so related the object is read to its end
    (`WholeObject`), refused if it has more fields than the reader (`LongerObject`),
    and has the meaning it had (`Means`).
  * Messages: the header is read, then the object, then the chunks behind a v3
    FETCH_RESPONSE (`MessageDecoded`). For the other version's codec the layouts of
    the handshakes are related in the same way (`CrossLayouts`).
  * Alterations: what is read of a wire is read of every longer one, at the same
    place (`Stable`, for each reader); so a wire that is cut off could be read only up to
    the end of the whole one, which it has not (`CutRefused`). A field or a chunk
    more is met where the end was (`StrangeRefused`, `ChunkRefused`).
* `SqlTextProofs`: type correctness, `FormatsWhatIsCode` and
  `LiteralsKeepMeaning`, for every query, any number of parameters, and lists of any
  depth. The code and the property look at a query in two ways: `sql.rs` searches for
  the end of a quote or a comment and jumps there, the property reads one character
  at a time. The invariant (`Inv`) says that they are in step whenever the scanner
  stops: it is then at a character of code, or at the newline that ends a line
  comment (`Boundary`); every placeholder behind it ended behind it and has its value,
  which has a literal (`Filled`); the count of values used is the number of placeholders behind it; and
  the output is what the characters behind it become. `FormatsWhatIsCode` alone is
  not inductive: it speaks of the end of a query only. The step needs, for each
  region, that the search ends where the reader leaves it (`QuotedRegion`,
  `LineRegion`, `BlockRegion`); a doubled quote is the hard case, since the reader
  leaves the text and enters it again. For `LiteralsKeepMeaning` a literal is shown
  to take a reader from code to code without a token of its neighbours (`LiteralIs`),
  by induction on the depth of a list, then on its items, then on the characters of
  a text; then the query and the output are read in the same modes, character by
  character (`SameMeaning`). That a placeholder touches no quote and no minus is used
  there, and without it the property is false.
* `ColumnPathProofs`: type correctness, `RoundTrip`, `FormsAgree`,
  `MiscountMovesNothing` and `MisfitsStayPut`, for columns of any length, types of any
  depth, and words, masks, decimals and enumerations of any size.

  The theorems have three hypotheses. `T` is a set of types, each made of types of `T`
  of less depth (`TypesNested`), and `V` the set of values, made of values of `V`
  (`ValuesNested`). `CodecsDefined(T, Depth, V)` says that the constant operators
  satisfy the equations that `TypeCodec` and `VectorCodec` define them by, and
  `ColumnsGiven(T, V)` that columns are sequences of values of `V` and have types of
  `T`. All are satisfied by the program: take for `V` the values that can be built, for
  `T` the types of finite depth; an equation reaches for the operator at less depth of
  the type, of the value or of the object only, so it defines it. What is inferred of a
  column is only supposed to be in `T`: the properties hold of any choice.

  From the inside out:
  * Words: the word of each value of each type, and the value that is read from it
    (`WordGives`): integers in whichever way they are written (`IntegerReturns`), the
    digits of decimal texts and their sign (`DigitsAgree`, `DecimalReturns`), the
    names of enumerations, UUIDs with their first bit turned over, times and
    timestamps of their own unit (`OwnReturns`). The word of a NULL is decoded like any
    other and must be readable (`NullReturns`).
  * Columns of one layout: `Keeps` says that what is sent of a column has, read by a
    reader of any number of rows, every value that its type can hold in its own row;
    `Returns` that a column which its type can hold is sent and read in full. Both are
    shown for words, texts, structs (of their fields), lists and arrays (of their
    items). The reader's number of rows has to be free in `Keeps`: the items of a list
    are read with a number of their own. Lists need where the items of each row are in
    the flattened column (`SpansAre`, `ListPlaced`), arrays that NULLs take the place
    of a whole array.
  * All columns, by induction on the depth of the type (`CarriesAll`); likewise that
    `normalize_append_value` makes values that say the same (`NormalizedStays`) and
    that a type is read as it was sent, also without the fields that have their
    default (`TypesReturn`, `TerseSays`).
  * Other forms: dictionaries, constants, sequences, and the least word for each NULL
    (`DictionaryRead`, `ConstantRead`, `SequenceRead`, `LeastRead`).
  * Wrong lengths and metadata: each of the parts of a vector, one too long or too
    short, is refused or leaves the values in their rows (`MiscountRead`, with one
    lemma for each part); a type that has lost its metadata is refused, or lays its
    columns out in the same way (`MistakenRead`, `PlainLaid`, `PlainRead`).

  The invariant (`Inv`) says what has been sent at each stage: the chunk that is encoded
  of the values, or one that is decoded to the same column, or one that is refused or
  moves nothing (`Intact`); and that what is decoded is decoded of what was sent. The
  properties are not inductive without it: they speak of the reader's chunk only.

  The proof found three columns for which `RoundTrip` as it was first stated is false;
  none was in the instance. A column without items or with NULLs only has a list type
  of any child, also one without a layout, and the child's vector is refused all the
  same (`vector.rs:822-852`). The word of a NULL is looked up in its enumeration, and an
  ENUM without values has none (`vector.rs:637-704`). A type with the metadata of an
  INTEGER_LITERAL anywhere inside is refused (`logical_types.rs:535-625`). `Supported`
  excludes the three, at every depth, and the instance now has them.
* `DataInduction`: what the proofs about texts, messages and columns rest on. The induction theorems of the
  library have a predicate as their parameter, which the installed provers cannot
  instantiate. They can use that the numbers are well founded, and that a set which is
  not empty has a least member; so induction is stated of sets (`Induction`), and
  from it follow that functions defined by recursion on a number exist and satisfy
  their equation (`Recursive`, `RecursiveOn`, `RecursiveFromZero`), and how `FlattenSeq` grows by one part
  (`FlattenStep`, `FlatNext`). It says nothing about this program.

Only model-checked:

* All liveness: `WaitersServed`, `CallsEnd`, `StreamSettles`, `ConnectEnds`,
  `LostServerDetected`. Fairness and ENABLED are out of the prover's reach.
* `ArrowAgrees` and `JsonTellsApart`, and that the inferred type is one the program can
  have: `ArrowColumns`, `JsonValues` and `TypeCodec` are recursive. The theorems about
  columns are of `ColumnPath`'s `Spec`; the run has `ViewSpec`, which adds the record
  batch and leaves the variables of `ColumnPath` to its `Next`.
* That `TypeCodec` and `VectorCodec` satisfy the equations of `ColumnPath`: their
  definitions are those equations, and `HypothesesHold` evaluates them.

## 5. What is not modelled

* URI parsing: a straight-line function of a text, with unit tests beside it.
* How texts are laid out: the dates, times and numbers of `sql.rs`, and the JSON
  texts of dates, decimals and bytes; the modules have the numbers they are made of.
  The ways in which `value_literal` gives no literal, errors and panics, are one.
* LEB128 numbers longer than any writer makes them: of the 19th byte the reader drops
  what is beyond 128 bits (`binary.rs:328`), and `WireCodec` adds it.
* Of the types: the metadata of expressions (ANY, TEMPLATE, INTEGER_LITERAL but for
  its refusal), the optional field of a GEOMETRY vector that is read and dropped, and
  the fractions of floats. NaN and the infinities are floats among others, which only
  JSON and SQL treat differently.
* Chunks of several columns: each is encoded by itself. That all have the chunk's
  number of rows is modelled for one.
* The checks of `one` and `values` on the number of rows, and the constructors of
  `values.rs`, which wrap their argument.
* Authentication is the server's; the client passes a token. Logging and error
  texts are left out but for the classes of error that steer the fallback. The
  number of bytes in a message, HTTP and TLS are external.

## 6. Plan

1. Done: `ClientSession` (with its refinement of `ServedStreams`), `FetchStream`,
   `HeartbeatLease`, `Negotiation`, `AppendRows`, `WireCodec`, `SqlText` and
   `ColumnPath`, each checked and proved; `ColumnViews` checked.
2. Next: `ArrowColumns` and `JsonValues` in two parts, as `VectorLayout` and
   `VectorCodec` are, so that the proofs about columns reach the record batch.
3. Then: `FetchStream` in place of the "has more" of `ClientSession`, so that
   indices and abandoned FETCHes meet in one module; the dates and times of
   `sql.rs`.

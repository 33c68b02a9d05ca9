------------------------------- MODULE WireCodec -------------------------------
(***************************************************************************)
(* The messages of both protocol versions on the wire                      *)
(* (src/src/messages.rs over src/src/binary.rs).  A message is an object   *)
(* of optional and required fields in a fixed order that ends with         *)
(* FIELD_END; the two versions give some types other fields, and nothing   *)
(* on the wire says which version it is.                                   *)
(*                                                                         *)
(* The wire is a sequence of units: a field id, a byte of a LEB128 number  *)
(* (a boolean is one, too), a text with its length (a logical type is like *)
(* one), the serialised columns of a chunk.  A unit read as one of another *)
(* kind is an error.  How many digits a byte has and how many numbers a    *)
(* word are parameters; as in the code, a word needs no more bytes than a  *)
(* reader accepts.                                                         *)
(***************************************************************************)
EXTENDS Integers, Sequences, SequencesExt

CONSTANTS Messages,  \* messages to send, with their headers
          Radix,     \* digits of a LEB128 byte, 128
          WordSize,  \* numbers of a u64 or an i64, 2^64
          MaxBytes,  \* 19
          Texts,     \* queries, names, types
          Chunks,    \* batches of rows
          Empty,     \* the text ""
          None       \* Option::None

\* What a digit of byte k + 1 counts for.
Power[k \in 0..MaxBytes] == IF k = 0 THEN 1 ELSE Radix * Power[k - 1]

\* The sign is the upper half of the digits; types of message are words.
ASSUME WidthAssumption ==
    /\ MaxBytes \in Nat \ {0}
    /\ Radix \in Nat /\ Radix > 2 /\ Radix % 2 = 0
    /\ WordSize \in Nat /\ WordSize > 100 /\ WordSize % 2 = 0
    /\ Power[MaxBytes] >= WordSize

U64Max == WordSize - 1
OPTIONAL_INDEX_INVALID == U64Max
FIELD_END == 65535
QUACK_V1 == 1
QUACK_V3 == 3
Versions == {QUACK_V1, QUACK_V3}

-------------------------------------------------------------------------------
(* The messages *)

MessageType ==
    [CONNECTION_REQUEST |-> 1, CONNECTION_RESPONSE |-> 2, PREPARE_REQUEST |-> 3,
     PREPARE_RESPONSE |-> 4, FETCH_REQUEST |-> 7, FETCH_RESPONSE |-> 8,
     APPEND_REQUEST |-> 9, SUCCESS_RESPONSE |-> 10, DISCONNECT |-> 11,
     HEARTBEAT_REQUEST |-> 16, ERROR_RESPONSE |-> 100]

TypeOf(code) == {t \in DOMAIN MessageType : MessageType[t] = code}

Option(S) == S \cup {None}
Words == 0..U64Max
SignedWords == {n \in Int : -WordSize <= 2 * n /\ 2 * n < WordSize}
HugeInts == [upper : SignedWords, lower : Words]
Lists(S) == {s \in Seq(S) : Len(s) \in Words}

HeaderFields == [connection_id |-> Option(Texts), client_query_id |-> Option(Words)]

\* The fields of a message beyond its header.
BodyFields(type) ==
    CASE type = "CONNECTION_REQUEST" ->
            [auth_string |-> Option(Texts), client_duckdb_version |-> Option(Texts),
             client_platform |-> Option(Texts), min_supported_quack_version |-> Words,
             max_supported_quack_version |-> Words, client_id |-> Option(Texts),
             heartbeat_timeout_seconds |-> Words]
      [] type = "CONNECTION_RESPONSE" ->
            [server_duckdb_version |-> Option(Texts), server_platform |-> Option(Texts),
             quack_version |-> Option(Words), heartbeat_timeout_seconds |-> Option(Words)]
      [] type = "PREPARE_REQUEST" ->
            [sql |-> Texts, query_uuid |-> Option(HugeInts), inline_rows |-> Option(Words)]
      [] type = "PREPARE_RESPONSE" ->
            [result_types |-> Lists(Texts), result_names |-> Lists(Texts),
             needs_more_fetch |-> BOOLEAN, results |-> Lists(Chunks),
             result_uuid |-> HugeInts]
      [] type = "FETCH_REQUEST" ->
            [result_uuid |-> HugeInts, batch_index |-> Option(Words \ {0}),
             ack_index |-> Option(Words)]
      [] type = "FETCH_RESPONSE" ->
            [results |-> Lists(Chunks), total_batches |-> Option(Words),
             batch_index |-> Option(Words)]
      [] type = "APPEND_REQUEST" ->
            [schema_name |-> Option(Texts), table_name |-> Texts, append_chunk |-> Chunks]
      [] type = "ERROR_RESPONSE" -> [message |-> Texts]
      [] OTHER -> <<>>

\* The client asks for batches from 1 on (client.rs:278).
ASSUME MessageAssumption ==
    /\ None \notin Int \cup Texts \cup Chunks \cup {Empty}
    /\ \A m \in Messages :
          /\ m.type \in DOMAIN MessageType
          /\ DOMAIN m = {"type"} \cup DOMAIN HeaderFields \cup DOMAIN BodyFields(m.type)
          /\ \A k \in DOMAIN HeaderFields : m[k] \in HeaderFields[k]
          /\ \A k \in DOMAIN BodyFields(m.type) : m[k] \in BodyFields(m.type)[k]

-------------------------------------------------------------------------------
(* BinaryWriter *)

Unit(kind, v) == [unit |-> kind, value |-> v]
FieldId(id) == <<Unit("field", id)>>
Byte(digit, more) == Unit("byte", [digit |-> digit, more |-> more])

\* `current', after each shift.
Shifted(n) ==
    LET current[k \in 0..MaxBytes] == IF k = 0 THEN n ELSE current[k - 1] \div Radix
    IN current

Digits(n, k) == [i \in 1..k |-> Byte(Shifted(n)[i - 1] % Radix, i < k)]

\* The first shift after which P holds.
Uleb(n) ==
    Digits(n, CHOOSE k \in 1..MaxBytes :
        Shifted(n)[k] = 0 /\ \A j \in 1..k - 1 : Shifted(n)[j] # 0)

IsNegative(digit) == 2 * digit >= Radix

\* What is left is the sign, and the last digit has it.
SignLeft(n, k) ==
    Shifted(n)[k] = IF IsNegative(Shifted(n)[k - 1] % Radix) THEN -1 ELSE 0

Sleb(n) ==
    Digits(n, CHOOSE k \in 1..MaxBytes :
        SignLeft(n, k) /\ \A j \in 1..k - 1 : ~SignLeft(n, j))

WriteBool(b) == <<Byte(IF b THEN 1 ELSE 0, FALSE)>>
WriteText(s) == <<Unit("text", s)>>
WriteChunk(c) == <<Unit("chunk", c)>>
WriteHugeInt(h) == Sleb(h.upper) \o Uleb(h.lower)

\* A pointer that is not null to what encode_data_chunk_wrapper writes.
WritePointer(c) ==
    WriteBool(TRUE) \o FieldId(300) \o WriteChunk(c) \o FieldId(FIELD_END)

WriteTexts(items) ==
    Uleb(Len(items)) \o FlattenSeq([i \in DOMAIN items |-> WriteText(items[i])])
WritePointers(items) ==
    Uleb(Len(items)) \o FlattenSeq([i \in DOMAIN items |-> WritePointer(items[i])])
WriteChunks(items) == FlattenSeq([i \in DOMAIN items |-> WriteChunk(items[i])])

\* The kinds of fields, by the function that writes them.
Payload(kind, v) ==
    CASE kind = "string" -> WriteText(v)
      [] kind \in {"index", "default_zero", "none_is_zero"} -> Uleb(v)
      [] kind = "or_invalid" -> Uleb(IF v = None THEN OPTIONAL_INDEX_INVALID ELSE v)
      [] kind = "code" -> Uleb(MessageType[v])
      [] kind = "count" -> Uleb(Len(v))
      [] kind = "hugeint" -> WriteHugeInt(v)
      [] kind = "bool" -> WriteBool(v)
      [] kind = "texts" -> WriteTexts(v)
      [] kind = "pointers" -> WritePointers(v)
      [] kind = "pointer" -> WritePointer(v)

\* What write_optional_string, ..._index_default_zero and the conditions around
\* write_field leave out.
Omitted(kind, v) ==
    \/ kind = "string" /\ v \in {None, Empty}
    \/ kind = "default_zero" /\ v = 0
    \/ kind = "none_is_zero" /\ v \in {None, 0}
    \/ kind = "index" /\ v = None
    \/ kind = "bool" /\ ~v
    \/ kind \in {"texts", "pointers", "count"} /\ v = <<>>

WriteField(m, f) ==
    IF Omitted(f[2], m[f[3]]) THEN <<>> ELSE FieldId(f[1]) \o Payload(f[2], m[f[3]])

\* The fields <<id, kind, name>> of m.
WriteObject(m, fields) ==
    FlattenSeq([i \in DOMAIN fields |-> WriteField(m, fields[i])]) \o FieldId(FIELD_END)

-------------------------------------------------------------------------------
(* BinaryReader: what is read at unit i and where the rest is, or why not *)

Got(v, at) == [ok |-> TRUE, value |-> v, at |-> at]
Fail(error) == [ok |-> FALSE, error |-> error]
Then(r, Op(_, _)) == IF r.ok THEN Op(r.value, r.at) ELSE r

Is(w, i, kind) == i \in DOMAIN w /\ w[i].unit = kind
IsField(w, i, id) == Is(w, i, "field") /\ w[i].value = id

ReadUnit(w, i, kind) ==
    IF Is(w, i, kind) THEN Got(w[i].value, i + 1) ELSE Fail("buffer")

\* The bytes of a number end at the first without the continuation bit.
EndsAt(w, i, k) ==
    \A j \in 1..k : Is(w, i + j - 1, "byte") /\ (w[i + j - 1].value.more <=> j < k)

\* The sum as a number.  The code adds in 128 bits and drops what the last of 19 bytes
\* has beyond them (binary.rs:328): that is no number any writer of it encodes.
DigitSum(digit, k) ==
    LET value[j \in 0..k] == IF j = 0 THEN 0 ELSE value[j - 1] + digit[j] * Power[j - 1]
    IN value[k]

LebValue(w, i, k) == DigitSum([j \in 1..k |-> w[i + j - 1].value.digit], k)

ReadUleb(w, i) ==
    IF ~\E k \in 1..MaxBytes : EndsAt(w, i, k) THEN Fail("buffer")
    ELSE LET k == CHOOSE k \in 1..MaxBytes : EndsAt(w, i, k)
             n == LebValue(w, i, k)
         IN IF n \in Words THEN Got(n, i + k) ELSE Fail("exceeds")

ReadSleb(w, i) ==
    IF ~\E k \in 1..MaxBytes : EndsAt(w, i, k) THEN Fail("buffer")
    ELSE LET k == CHOOSE k \in 1..MaxBytes : EndsAt(w, i, k)
             n == LebValue(w, i, k)
                    - IF IsNegative(w[i + k - 1].value.digit) THEN Power[k] ELSE 0
         IN IF n \in SignedWords THEN Got(n, i + k) ELSE Fail("exceeds")

ReadBool(w, i) ==
    IF ~Is(w, i, "byte") THEN Fail("buffer")
    ELSE IF w[i].value.digit \in {0, 1} /\ ~w[i].value.more
    THEN Got(w[i].value.digit = 1, i + 1)
    ELSE Fail("boolean")

ReadHugeInt(w, i) ==
    Then(ReadSleb(w, i), LAMBDA u, at :
        Then(ReadUleb(w, at), LAMBDA l, end : Got([upper |-> u, lower |-> l], end)))

\* Slip: fields that the reader does not know are passed over.
ReadEndLeniently(w, i, v) ==
    IF \E j \in i..Len(w) : IsField(w, j, FIELD_END)
    THEN Got(v, 1 + CHOOSE j \in i..Len(w) : IsField(w, j, FIELD_END))
    ELSE Fail("buffer")

ReadEnd(w, i, v) ==
    IF ~Is(w, i, "field") THEN Fail("buffer")
    ELSE IF w[i].value = FIELD_END THEN Got(v, i + 1)
    ELSE Fail("end of object")

ReadPointer(w, i) ==
    Then(ReadBool(w, i), LAMBDA present, at :
        IF ~present THEN Fail("null chunk")
        ELSE IF ~IsField(w, at, 300) THEN Fail("expected field")
        ELSE Then(ReadUnit(w, at + 1, "chunk"), LAMBDA c, end : ReadEnd(w, end, c)))

ReadItem(w, i, kind) ==
    IF kind = "pointer" THEN ReadPointer(w, i) ELSE ReadUnit(w, i, kind)

\* n items, behind each other.
ReadTimes(w, i, n, kind) ==
    LET read[k \in 0..n] ==
            IF k = 0 THEN Got(<<>>, i)
            ELSE Then(read[k - 1], LAMBDA items, at :
                     Then(ReadItem(w, at, kind), LAMBDA v, end : Got(Append(items, v), end)))
    IN read[n]

ReadList(w, i, kind) == Then(ReadUleb(w, i), LAMBDA n, at : ReadTimes(w, at, n, kind))

\* The kinds of fields, by the way they are read.
ReadPayload(w, i, kind) ==
    CASE kind \in {"string", "text"} -> ReadUnit(w, i, "text")
      [] kind \in {"default_zero", "some", "index", "or_invalid", "required"} -> ReadUleb(w, i)
      [] kind = "hugeint" -> ReadHugeInt(w, i)
      [] kind = "bool" -> ReadBool(w, i)
      [] kind = "texts" -> ReadList(w, i, "text")
      [] kind = "pointers" -> ReadList(w, i, "pointer")
      [] kind = "pointer" -> ReadPointer(w, i)

Required == {"or_invalid", "required", "hugeint"}

\* What an optional field is when it is not there.
Default(kind) ==
    CASE kind = "text" -> Empty
      [] kind = "default_zero" -> 0
      [] kind = "bool" -> FALSE
      [] kind \in {"texts", "pointers"} -> <<>>
      [] OTHER -> None

\* Slip: the value that means "no index" is taken for an index.
FilteredNot(kind, v) == v

\* The value that means "no index" is none.
Filtered(kind, v) ==
    IF kind \in {"index", "or_invalid"} /\ v = OPTIONAL_INDEX_INVALID THEN None ELSE v

ReadField(w, i, id, kind) ==
    IF ~Is(w, i, "field") THEN Fail("buffer")
    ELSE IF w[i].value = id
    THEN Then(ReadPayload(w, i + 1, kind), LAMBDA v, at : Got(Filtered(kind, v), at))
    ELSE IF kind \in Required THEN Fail("expected field")
    ELSE Got(Default(kind), i)

With(r, name, v) == [k \in DOMAIN r \cup {name} |-> IF k = name THEN v ELSE r[k]]
Joined(r, s) == [k \in DOMAIN r \cup DOMAIN s |-> IF k \in DOMAIN r THEN r[k] ELSE s[k]]

\* The fields <<id, kind, name>>, added to what is known.
ReadFields(w, i, known, fields) ==
    LET read[k \in 0..Len(fields)] ==
            IF k = 0 THEN Got(known, i)
            ELSE Then(read[k - 1], LAMBDA m, at :
                     Then(ReadField(w, at, fields[k][1], fields[k][2]), LAMBDA v, end :
                         Got(With(m, fields[k][3], v), end)))
    IN read[Len(fields)]

ReadObject(w, i, known, fields) ==
    Then(ReadFields(w, i, known, fields), LAMBDA m, at : ReadEnd(w, at, m))

-------------------------------------------------------------------------------
(* The codecs of the messages *)

\* encode_header.
WrittenHeader ==
    << <<1, "code", "type">>, <<2, "string", "connection_id">>,
       <<3, "or_invalid", "client_query_id">> >>

\* encode_body_v1.
WrittenV1(type) ==
    CASE type = "CONNECTION_REQUEST" ->
            << <<1, "string", "auth_string">>, <<2, "string", "client_duckdb_version">>,
               <<3, "string", "client_platform">>,
               <<4, "default_zero", "min_supported_quack_version">>,
               <<5, "default_zero", "max_supported_quack_version">> >>
      [] type = "CONNECTION_RESPONSE" ->
            << <<1, "string", "server_duckdb_version">>, <<2, "string", "server_platform">>,
               <<3, "index", "quack_version">> >>
      [] type = "PREPARE_REQUEST" -> << <<1, "string", "sql">> >>
      [] type = "PREPARE_RESPONSE" ->
            << <<1, "texts", "result_types">>, <<2, "texts", "result_names">>,
               <<3, "bool", "needs_more_fetch">>, <<4, "pointers", "results">>,
               <<5, "hugeint", "result_uuid">> >>
      [] type = "FETCH_REQUEST" -> << <<1, "hugeint", "result_uuid">> >>
      [] type = "FETCH_RESPONSE" ->
            << <<1, "pointers", "results">>, <<2, "or_invalid", "batch_index">> >>
      [] type = "APPEND_REQUEST" ->
            << <<1, "string", "schema_name">>, <<2, "string", "table_name">>,
               <<3, "pointer", "append_chunk">> >>
      [] type = "ERROR_RESPONSE" -> << <<1, "string", "message">> >>
      [] OTHER -> <<>>

\* encode_body_v3: the fields of the other types are the same.
WrittenV3(type) ==
    CASE type = "CONNECTION_REQUEST" ->
            << <<1, "string", "auth_string">>, <<2, "string", "client_duckdb_version">>,
               <<3, "string", "client_platform">>,
               <<4, "default_zero", "min_supported_quack_version">>,
               <<5, "default_zero", "max_supported_quack_version">>,
               <<6, "string", "client_id">>,
               <<7, "default_zero", "heartbeat_timeout_seconds">> >>
      [] type = "CONNECTION_RESPONSE" ->
            << <<1, "string", "server_duckdb_version">>, <<2, "string", "server_platform">>,
               <<3, "index", "quack_version">>, <<4, "index", "heartbeat_timeout_seconds">> >>
      [] type = "PREPARE_REQUEST" ->
            << <<1, "string", "sql">>, <<2, "hugeint", "query_uuid">>,
               <<3, "index", "inline_rows">> >>
      [] type = "FETCH_REQUEST" ->
            << <<1, "hugeint", "result_uuid">>, <<2, "default_zero", "batch_index">>,
               <<3, "none_is_zero", "ack_index">> >>
      [] type = "FETCH_RESPONSE" ->
            << <<1, "count", "results">>, <<2, "index", "total_batches">>,
               <<3, "index", "batch_index">> >>
      [] OTHER -> WrittenV1(type)

\* The errors of the two encoders.
Encodable(m, version) ==
    IF version = QUACK_V1 THEN m.type # "HEARTBEAT_REQUEST"
    ELSE /\ m.type # "APPEND_REQUEST"
         /\ m.type = "PREPARE_REQUEST" => m.query_uuid # None
         /\ m.type = "FETCH_REQUEST" => m.batch_index # None

\* At v3 the chunks of a FETCH_RESPONSE follow its object.
HasTail(type, version) == type = "FETCH_RESPONSE" /\ version = QUACK_V3

Written(type, version) == IF version = QUACK_V1 THEN WrittenV1(type) ELSE WrittenV3(type)

\* encode_message_for_version.
EncodeMessage(m, version) ==
    WriteObject(m, WrittenHeader) \o WriteObject(m, Written(m.type, version))
        \o IF HasTail(m.type, version) THEN WriteChunks(m.results) ELSE <<>>

ReadHeader ==
    << <<1, "required", "type">>, <<2, "string", "connection_id">>,
       <<3, "or_invalid", "client_query_id">> >>

\* decode_body_v1.
ReadV1(type) ==
    CASE type = "CONNECTION_REQUEST" ->
            << <<1, "string", "auth_string">>, <<2, "string", "client_duckdb_version">>,
               <<3, "string", "client_platform">>,
               <<4, "default_zero", "min_supported_quack_version">>,
               <<5, "default_zero", "max_supported_quack_version">> >>
      [] type = "CONNECTION_RESPONSE" ->
            << <<1, "string", "server_duckdb_version">>, <<2, "string", "server_platform">>,
               <<3, "some", "quack_version">> >>
      [] type = "PREPARE_REQUEST" -> << <<1, "text", "sql">> >>
      [] type = "PREPARE_RESPONSE" ->
            << <<1, "texts", "result_types">>, <<2, "texts", "result_names">>,
               <<3, "bool", "needs_more_fetch">>, <<4, "pointers", "results">>,
               <<5, "hugeint", "result_uuid">> >>
      [] type = "FETCH_REQUEST" -> << <<1, "hugeint", "result_uuid">> >>
      [] type = "FETCH_RESPONSE" ->
            << <<1, "pointers", "results">>, <<2, "or_invalid", "batch_index">> >>
      [] type = "APPEND_REQUEST" ->
            << <<1, "string", "schema_name">>, <<2, "text", "table_name">>,
               <<3, "pointer", "append_chunk">> >>
      [] type = "ERROR_RESPONSE" -> << <<1, "text", "message">> >>
      [] OTHER -> <<>>

\* What decode_body_v1 puts in for what v1 has no field for.
AbsentV1(type) ==
    CASE type = "CONNECTION_REQUEST" -> [client_id |-> None, heartbeat_timeout_seconds |-> 0]
      [] type = "CONNECTION_RESPONSE" -> [heartbeat_timeout_seconds |-> None]
      [] type = "PREPARE_REQUEST" -> [query_uuid |-> None, inline_rows |-> None]
      [] type = "FETCH_REQUEST" -> [batch_index |-> None, ack_index |-> None]
      [] type = "FETCH_RESPONSE" -> [total_batches |-> None]
      [] OTHER -> <<>>

DecodeBodyV1(w, i, h) ==
    IF h.type = "HEARTBEAT_REQUEST" THEN Fail("unsupported")
    ELSE Then(ReadObject(w, i, Joined(h, AbsentV1(h.type)), ReadV1(h.type)), LAMBDA m, at :
             IF m.type = "APPEND_REQUEST" /\ m.append_chunk = None
             THEN Fail("missing chunk") ELSE Got(m, at))

\* decode_body_v3: the fields of the other types are the same.
ReadV3(type) ==
    CASE type = "CONNECTION_REQUEST" ->
            << <<1, "string", "auth_string">>, <<2, "string", "client_duckdb_version">>,
               <<3, "string", "client_platform">>,
               <<4, "default_zero", "min_supported_quack_version">>,
               <<5, "default_zero", "max_supported_quack_version">>,
               <<6, "string", "client_id">>,
               <<7, "default_zero", "heartbeat_timeout_seconds">> >>
      [] type = "CONNECTION_RESPONSE" ->
            << <<1, "string", "server_duckdb_version">>, <<2, "string", "server_platform">>,
               <<3, "some", "quack_version">>, <<4, "some", "heartbeat_timeout_seconds">> >>
      [] type = "PREPARE_REQUEST" ->
            << <<1, "text", "sql">>, <<2, "hugeint", "query_uuid">>,
               <<3, "index", "inline_rows">> >>
      [] type = "FETCH_REQUEST" ->
            << <<1, "hugeint", "result_uuid">>, <<2, "index", "batch_index">>,
               <<3, "default_zero", "ack_index">> >>
      [] type = "FETCH_RESPONSE" ->
            << <<1, "default_zero", "chunk_count">>, <<2, "index", "total_batches">>,
               <<3, "index", "batch_index">> >>
      [] OTHER -> ReadV1(type)

DecodeBodyV3(w, i, h) ==
    IF h.type = "APPEND_REQUEST" THEN Fail("unsupported")
    ELSE Then(ReadObject(w, i, h, ReadV3(h.type)), LAMBDA m, at :
             IF m.type # "FETCH_RESPONSE" THEN Got(m, at)
             ELSE Then(ReadTimes(w, at, m.chunk_count, "chunk"), LAMBDA chunks, end :
                      Got(With([k \in DOMAIN m \ {"chunk_count"} |-> m[k]],
                               "results", chunks), end)))

\* MessageType::try_from, and the filter for an empty connection_id.
Typed(h) ==
    [type |-> CHOOSE t \in TypeOf(h.type) : TRUE,
     connection_id |-> IF h.connection_id = Empty THEN None ELSE h.connection_id,
     client_query_id |-> h.client_query_id]

\* decode_message_for_version: nothing may be left.
DecodeMessage(w, version) ==
    Then(ReadObject(w, 1, <<>>, ReadHeader), LAMBDA h, at :
        IF TypeOf(h.type) = {} THEN Fail("unknown type")
        ELSE Then(IF version = QUACK_V1 THEN DecodeBodyV1(w, at, Typed(h))
                  ELSE DecodeBodyV3(w, at, Typed(h)),
                  LAMBDA m, end : IF end > Len(w) THEN Got(m, end) ELSE Fail("trailing")))

-------------------------------------------------------------------------------
(* A message on its way *)

VARIABLES
    message,  \* what is sent
    sentAs,   \* by the encoder of this version
    wire,     \* its units
    stage,    \* "composed", "unsendable", "sent", "altered", "read" or "alteredRead"
    readAs,   \* read by the decoder of this version, 0 before
    result    \* what that returns

vars == <<message, sentAs, wire, stage, readAs, result>>

Init ==
    /\ message \in Messages
    /\ sentAs \in Versions
    /\ wire = <<>>
    /\ stage = "composed"
    /\ readAs = 0
    /\ result = Fail("none")

Encode ==
    /\ stage = "composed"
    /\ IF Encodable(message, sentAs)
       THEN stage' = "sent" /\ wire' = EncodeMessage(message, sentAs)
       ELSE stage' = "unsendable" /\ UNCHANGED wire
    /\ UNCHANGED <<message, sentAs, readAs, result>>

\* The body ends early, or is of a peer with another layout: it has a field, or
\* a chunk behind its last object, that the version does not know.
Alter ==
    /\ stage = "sent"
    /\ stage' = "altered"
    /\ \/ \E n \in 0..Len(wire) - 1 : wire' = SubSeq(wire, 1, n)
       \/ wire' = SubSeq(wire, 1, Len(wire) - 1)
                      \o FieldId(9) \o WriteText("x") \o FieldId(FIELD_END)
       \/ wire' = wire \o WriteChunk("x")
    /\ UNCHANGED <<message, sentAs, readAs, result>>

Decode ==
    /\ stage \in {"sent", "altered"}
    /\ stage' = IF stage = "sent" THEN "read" ELSE "alteredRead"
    /\ readAs' \in Versions
    /\ result' = DecodeMessage(wire, readAs')
    /\ UNCHANGED <<message, sentAs, wire>>

Next == Encode \/ Alter \/ Decode

Spec == Init /\ [][Next]_vars

-------------------------------------------------------------------------------
(* Properties *)

Indices == {"client_query_id", "inline_rows", "batch_index", "total_batches"}
TextFields == {"connection_id", "auth_string", "client_duckdb_version", "client_platform",
               "client_id", "server_duckdb_version", "server_platform", "schema_name"}

\* What a value says to the other side: an empty text is none, as is the index
\* u64::MAX, and no ack_index acknowledges nothing.
Meaning(k, v) ==
    CASE k \in TextFields /\ v = Empty -> None
      [] k \in Indices /\ v = OPTIONAL_INDEX_INVALID -> None
      [] k = "ack_index" /\ v = None -> 0
      [] OTHER -> v

Agrees(keys) ==
    \A k \in keys : result.value[k] = Meaning(k, message[k])

\* What v1 has no field for.
OnlyV3(type) ==
    CASE type = "CONNECTION_REQUEST" -> {"client_id", "heartbeat_timeout_seconds"}
      [] type = "CONNECTION_RESPONSE" -> {"heartbeat_timeout_seconds"}
      [] type = "PREPARE_REQUEST" -> {"query_uuid", "inline_rows"}
      [] type = "FETCH_REQUEST" -> {"batch_index", "ack_index"}
      [] type = "FETCH_RESPONSE" -> {"total_batches"}
      [] OTHER -> {}

Carried(m, version) ==
    DOMAIN m \ (IF version = QUACK_V1 THEN OnlyV3(m.type) ELSE {})

\* What one side writes the other side reads, field by field, at each version,
\* with the integers at the edges of their widths (messages.rs:179-216).
RoundTrip ==
    stage = "read" /\ readAs = sentAs =>
        /\ result.ok
        /\ DOMAIN result.value = DOMAIN message
        /\ Agrees(Carried(message, sentAs))

\* A body that ends early, or holds more than the layout has, is never taken
\* for another message (messages.rs:214, binary.rs:232-247).
AlteredIsRefused ==
    stage = "alteredRead" /\ readAs = sentAs => ~result.ok

\* A handshake with a field that v1 does not have.
AsksForLease(m) ==
    \/ /\ m.type = "CONNECTION_REQUEST"
       /\ \/ Meaning("client_id", m.client_id) # None
          \/ m.heartbeat_timeout_seconds # 0
    \/ m.type = "CONNECTION_RESPONSE" /\ m.heartbeat_timeout_seconds # None

\* Nothing on the wire names the version.  Read with the codec of the other
\* one, a handshake that asks for a lease is refused at an end of object, which
\* is how connect recognises an older server; any other says what both versions
\* have fields for; and an error is always readable (client.rs:883-895,
\* messages.rs:491-749).
HandshakeIsNotMisread ==
    stage = "read" /\ readAs # sentAs =>
        /\ sentAs = QUACK_V3 /\ AsksForLease(message) => result = Fail("end of object")
        /\ message.type \in {"CONNECTION_REQUEST", "CONNECTION_RESPONSE", "ERROR_RESPONSE"}
              /\ ~(sentAs = QUACK_V3 /\ AsksForLease(message)) =>
           result.ok /\ Agrees(Carried(message, QUACK_V1))
===============================================================================

------------------------------- MODULE ColumnPath -------------------------------
(***************************************************************************)
(* A column on its way: its type is declared or inferred, it is encoded,   *)
(* its peer may choose another form for it, or count wrongly, and it is    *)
(* decoded.                                                                *)
(*                                                                         *)
(* The types of columns are nested, and so is all that is done by their    *)
(* type.  What is done at one level is an operator of ColumnTypes, of      *)
(* VectorLayout or of HeldValues that takes what the levels inside have    *)
(* come to; the operators of all levels are constants here.  TypeCodec and *)
(* VectorCodec define them, by the equations below.                        *)
(***************************************************************************)
EXTENDS HeldValues

CONSTANTS
    Columns,            \* columns of values
    Types,              \* types that a caller may declare
    Inferred(_),        \* infer_logical_type
    Normalized(_, _),   \* normalize_append_value
    Sendable(_),        \* whether encode_logical_type accepts a type
    EncodedType(_),     \* encode_logical_type
    Readable(_),        \* whether decode_logical_type accepts what it reads
    DecodedType(_),     \* decode_logical_type
    Encoded(_, _),      \* encode_flat_vector_body
    Decoded(_, _, _),   \* decode_vector_body
    Held(_, _),         \* what a column of a type is to hold for a value
    Supported(_)        \* whether columns can have a type

VARIABLES
    values,  \* the column
    type,    \* its type, declared or inferred, or why there is none
    sent,    \* the chunk that is sent, or why it is not
    stage,   \* how far the column is
    chunk    \* what the reader decodes, or why it gets nothing

vars == <<values, type, sent, stage, chunk>>

\* encode_data_chunk, for a chunk of one column.
EncodedChunk(column, t) ==
    LET vector == Encoded(column, t)
    IN IF ~Sendable(t) THEN Fail("unsupported")
       ELSE IF vector.ok
       THEN Ok([count |-> Len(column), type |-> EncodedType(t), vector |-> vector.value])
       ELSE vector

\* decode_data_chunk, for a chunk of one column.
DecodedChunk(c) ==
    LET t == DecodedType(c.type)
        column == Decoded(c.vector, t, c.count)
    IN IF ~Readable(c.type) THEN Fail("metadata")
       ELSE IF column.ok THEN Ok([count |-> c.count, type |-> t, values |-> column.value])
       ELSE column

\* Slip: the rows there are values for.
RowsOfValues(c) == c.values

\* rows_from_chunk: a value that is not there is NULL.
RowsOf(c) == [i \in 1..c.count |-> IF i \in DOMAIN c.values THEN c.values[i] ELSE Null]

Stages == {"given", "typed", "encoded", "reshaped", "altered"}
Unknown == Fail("none")

Init ==
    /\ values \in Columns
    /\ type = Unknown
    /\ sent = Unknown
    /\ stage = "given"
    /\ chunk = Unknown

\* columns: None.
Infer ==
    /\ stage = "given"
    /\ stage' = "typed"
    /\ type' = Inferred(values)
    /\ UNCHANGED <<values, sent, chunk>>

Declare ==
    /\ stage = "given"
    /\ stage' = "typed"
    /\ \E t \in Types : type' = Ok(t)
    /\ UNCHANGED <<values, sent, chunk>>

Encode ==
    /\ stage = "typed" /\ type.ok
    /\ stage' = "encoded"
    /\ sent' = EncodedChunk([i \in DOMAIN values |-> Normalized(values[i], type.value)],
                            type.value)
    /\ UNCHANGED <<values, type, chunk>>

-------------------------------------------------------------------------------
(* What the column is to hold *)

HeldColumn == Collect([i \in DOMAIN values |-> Held(values[i], type.value)])

WellTyped == type.ok /\ Supported(type.value) /\ HeldColumn.ok

-------------------------------------------------------------------------------
(* What else the server may send for the same column *)

FlatOf(column) == Encoded(column, type.value).value

Dictionary ==
    LET entries == SetToSeq(ToSet(values))
    IN [form |-> "dictionary", size |-> Len(entries), of |-> FlatOf(entries),
        selection |-> [i \in DOMAIN values |->
            (CHOOSE k \in DOMAIN entries : entries[k] = values[i]) - 1]]

IsConstant == Cardinality(ToSet(values)) <= 1

Constant == [form |-> "constant", of |-> FlatOf(SetToSeq(ToSet(values)))]

SequenceNumber(v) == IF Is(v, "date") THEN v.date ELSE v.int

IsSequence ==
    /\ type.value.id \in {"TINYINT", "SMALLINT", "INTEGER", "BIGINT", "DATE"}
    /\ Len(values) > 1
    /\ \A i \in DOMAIN values : Is(values[i], "int") \/ Is(values[i], "date")
    /\ \A i \in 1..Len(values) - 1 :
          SequenceNumber(values[i + 1]) - SequenceNumber(values[i])
              = SequenceNumber(values[2]) - SequenceNumber(values[1])

Sequence ==
    [form |-> "sequence", start |-> SequenceNumber(values[1]),
     increment |-> SequenceNumber(values[2]) - SequenceNumber(values[1])]

\* What stands in the word of a NULL is the writer's affair.
LeastWords(v) ==
    LET p == Physical(type.value)
    IN [i \in DOMAIN v.words |->
            IF IsNull(values[i]) THEN (IF p.signed THEN p.half ELSE 0) ELSE v.words[i]]

\* A field of the metadata that has its default may be left out.
Terse(w) ==
    IF 101 \notin DOMAIN w THEN w
    ELSE LET i == w[101]
             Default(n) == i[100] = "DECIMAL" /\ n \in {200, 201} /\ i[n] = 0
         IN [w EXCEPT ![101] = [n \in {m \in DOMAIN i : ~Default(m)} |-> i[n]]]

ServerReshapes ==
    /\ stage = "encoded" /\ sent.ok /\ chunk = Unknown
    /\ WellTyped
    /\ stage' = "reshaped"
    /\ \E v \in {Dictionary} \cup (IF IsConstant THEN {Constant} ELSE {})
                \cup (IF IsSequence THEN {Sequence} ELSE {})
                \cup (IF Physical(type.value).kind = "word"
                      THEN {[sent.value.vector EXCEPT !.words = LeastWords(sent.value.vector)]}
                      ELSE {}) :
          sent' = Ok([sent.value EXCEPT !.vector = v, !.type = Terse(@)])
    /\ UNCHANGED <<values, type, chunk>>

-------------------------------------------------------------------------------
(* A peer that gets a part of the column wrong *)

\* One too many, or one too few.
Resized(s, x) == {Append(s, x)} \cup (IF s = <<>> THEN {} ELSE {Front(s)})

MiscountedVector(v) ==
    \/ /\ v.mask # NoMask
       /\ \E m \in Resized(v.mask, 1) : sent' = Ok([sent.value EXCEPT !.vector.mask = m])
    \/ /\ "words" \in DOMAIN v
       /\ \E w \in Resized(v.words, 0) : sent' = Ok([sent.value EXCEPT !.vector.words = w])
    \/ /\ "texts" \in DOMAIN v
       /\ \E w \in Resized(v.texts, "") : sent' = Ok([sent.value EXCEPT !.vector.texts = w])
    \/ /\ "entries" \in DOMAIN v
       /\ \E e \in Resized(v.entries, [offset |-> 0, length |-> 0]) :
             sent' = Ok([sent.value EXCEPT !.vector.entries = e])
    \/ /\ "vectors" \in DOMAIN v /\ v.vectors # <<>>
       /\ \E w \in Resized(v.vectors, v.vectors[1]) :
             sent' = Ok([sent.value EXCEPT !.vector.vectors = w])
    \/ /\ "size" \in DOMAIN v
       /\ sent' = Ok([sent.value EXCEPT !.vector.size = @ + 1])

Without(f, n) == [m \in DOMAIN f \ {n} |-> f[m]]
With(f, n, x) == [m \in DOMAIN f \cup {n} |-> IF m = n THEN x ELSE f[m]]

\* The metadata is missing, has a field of an extension, or has a wrong count.
MistakenType(w) ==
    /\ 101 \in DOMAIN w
    /\ \E e \in {Without(w, 101), [w EXCEPT ![101] = With(@, 103, "extension")]}
                \cup (IF w[101][100] = "ENUM" THEN {[w EXCEPT ![101][200] = @ + 1]} ELSE {}) :
          sent' = Ok([sent.value EXCEPT !.type = e])

PeerErrs ==
    /\ stage = "encoded" /\ sent.ok /\ chunk = Unknown
    /\ WellTyped
    /\ stage' = "altered"
    /\ MiscountedVector(sent.value.vector) \/ MistakenType(sent.value.type)
    /\ UNCHANGED <<values, type, chunk>>

-------------------------------------------------------------------------------
(* The reader *)

Decode ==
    /\ sent.ok /\ chunk = Unknown
    /\ chunk' = DecodedChunk(sent.value)
    /\ UNCHANGED <<values, type, sent, stage>>

Next == Infer \/ Declare \/ Encode \/ ServerReshapes \/ PeerErrs \/ Decode

Spec == Init /\ [][Next]_vars

-------------------------------------------------------------------------------
(* Properties *)

TypeOK ==
    /\ values \in Columns
    /\ stage \in Stages
    /\ type.ok \/ sent = Unknown
    /\ sent.ok \/ chunk = Unknown
    /\ chunk.ok => Len(RowsOf(chunk.value)) = Len(values)

Read(column) == Ok([count |-> Len(values), type |-> type.value, values |-> column])

\* A column whose values its type can hold, declared or inferred, can be sent, and
\* comes back as it was, with its type: NULLs, offsets, signs and the digits of
\* decimals included, at any depth (vector.rs:352-614, logical_types.rs:506-738).
RoundTrip ==
    stage = "encoded" /\ WellTyped =>
        sent.ok /\ chunk \in {Unknown, Read(HeldColumn.value)}

\* The form a server chooses for a column changes nothing, and neither does what
\* it leaves in the words of NULLs (vector.rs:362-406, 616-635).
FormsAgree == stage = "reshaped" => chunk \in {Unknown, Read(HeldColumn.value)}

\* A wrong length, and metadata that is not the column's, give no chunk (an error, or
\* a panic where the mask is short, vector.rs:526, 929), or change nothing, or, for
\* texts, which are not counted, leave the last one NULL (vector.rs:409-567): values
\* never move to other rows.
MiscountMovesNothing ==
    stage = "altered" /\ chunk.ok =>
        \A i \in DOMAIN values :
            \/ RowsOf(chunk.value)[i] = HeldColumn.value[i]
            \/ /\ Physical(type.value).kind = "text"
               /\ i = Len(values) /\ IsNull(RowsOf(chunk.value)[i])

\* A value that the column's type cannot hold may be refused, or be narrowed or
\* emptied (vector.rs:706-799), but never changes the values around it.
MisfitsStayPut ==
    stage = "encoded" /\ type.ok /\ chunk.ok =>
        \A i \in DOMAIN values :
            LET held == Held(values[i], type.value)
            IN held.ok => RowsOf(chunk.value)[i] = held.value

-------------------------------------------------------------------------------
(* From one level of a type to all: the equations of the constants, for     *)
(* the types and the values of a set.                                       *)

\* The types that the program can have, of some depth: what is inside one has less of
\* it.  Any type may have lost its metadata.
TypesNested(T, Depth) ==
    /\ Depth \in [T -> Nat]
    /\ \A t \in T :
          /\ IsType(t, T)
          /\ Plain(t.id) \in T
          /\ \A k \in DOMAIN TypesInside(t) : Depth[TypesInside(t)[k]] < Depth[t]

\* The values that the program can have.
ValuesNested(V) == \A v : v \in V <=> IsValue(v, V)

TypesSentAsDefined(T) ==
    \A t \in T :
        LET inside == TypesInside(t)
        IN /\ Sendable(t) = SendableOf(t, [k \in DOMAIN inside |-> Sendable(inside[k])])
           /\ EncodedType(t) = EncodedTypeOf(t, [k \in DOMAIN inside |-> EncodedType(inside[k])])
           /\ Supported(t) = SupportedOf(t, [k \in DOMAIN inside |-> Supported(inside[k])])

\* What is read is made of the functions that hold the fields of objects.
IsFunction(f) == f = [x \in DOMAIN f |-> f[x]]

IsTypeObject(w) ==
    /\ IsFunction(w)
    /\ 101 \in DOMAIN w =>
          LET i == w[101]
          IN /\ IsFunction(i)
             /\ 200 \in DOMAIN i /\ i[100] = "STRUCT" =>
                   /\ IsFunction(i[200])
                   /\ \A k \in DOMAIN i[200] : IsFunction(i[200][k]) /\ 1 \in DOMAIN i[200][k]

TypesReadAsDefined ==
    \A w : IsTypeObject(w) =>
        LET inside == Inside(w)
        IN /\ Readable(w) = ReadableOf(w, [k \in DOMAIN inside |-> Readable(inside[k])])
           /\ DecodedType(w) = DecodedTypeOf(w, [k \in DOMAIN inside |-> DecodedType(inside[k])])

ValuesMadeAsDefined(T, V) ==
    \A t \in T, v \in V :
        LET parts == NormalizedParts(v, t)
            inside == InnerValues(v, t)
        IN /\ Normalized(v, t) =
                 NormalizedOf(v, t, [k \in DOMAIN parts |->
                                        Normalized(parts[k].value, parts[k].type)])
           /\ Held(v, t) =
                 HeldOf(v, t, [k \in DOMAIN inside |-> Held(inside[k].value, inside[k].type)])

VectorsSentAsDefined(T, V) ==
    \A t \in T, column \in Seq(V) :
        LET inside == Inner(column, t)
        IN Encoded(column, t) =
              EncodedOf(column, t, [k \in DOMAIN inside |->
                                       Encoded(inside[k].values, inside[k].type)])

\* A vector that is to hold another does.
VectorsReadAsDefined(T) ==
    \A vector, count : \A t \in T :
        LET inside == InnerVectors(vector, t, count)
        IN (vector.form \in {"constant", "dictionary"}
                => IsFunction(vector) /\ "of" \in DOMAIN vector) =>
              Decoded(vector, t, count) =
                 DecodedOf(vector, t, count,
                           [k \in DOMAIN inside |->
                               Decoded(inside[k].vector, inside[k].type, inside[k].count)])

\* The constants are what TypeCodec and VectorCodec define, for the types T, that are as
\* deep as Depth says, and the values V.
CodecsDefined(T, Depth, V) ==
    /\ TypesNested(T, Depth)
    /\ ValuesNested(V)
    /\ TypesSentAsDefined(T)
    /\ TypesReadAsDefined
    /\ ValuesMadeAsDefined(T, V)
    /\ VectorsSentAsDefined(T, V)
    /\ VectorsReadAsDefined(T)

\* The columns are of values of V, and their types, declared or inferred, are of T.
ColumnsGiven(T, V) ==
    /\ Columns \subseteq Seq(V)
    /\ Types \subseteq T
    /\ \A column \in Columns :
          LET t == Inferred(column)
          IN t.ok => t = Ok(t.value) /\ t.value \in T
===============================================================================

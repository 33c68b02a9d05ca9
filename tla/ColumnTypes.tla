------------------------------ MODULE ColumnTypes ------------------------------
(***************************************************************************)
(* Values and the types of columns (src/src/logical_types.rs, and Value of *)
(* src/src/vector.rs), how the values of a type are laid out, and the      *)
(* objects that carry a type.                                              *)
(*                                                                         *)
(* A value is a record with one field that says what it is: [null],        *)
(* [bool], [int], [uint], [huge], [uhuge], [float], [double], [text],      *)
(* [bytes], [decimal], [date], [time], [timetz], [timestamp], [interval],  *)
(* [list] or [struct].                                                     *)
(* A type has an id and, in info, what else there is to know of it.        *)
(*                                                                         *)
(* Sizes are scaled: half of the numbers of a word of b bits are Half[b],  *)
(* and the largest DECIMAL of b bits has Digits[b] digits of base Radix.   *)
(* A DOUBLE counts units of the first digit after the point and a FLOAT    *)
(* holds whole numbers of them, so that it has less.  The types of         *)
(* expressions, that no column has, are left out.                          *)
(***************************************************************************)
EXTENDS Integers, Sequences, SequencesExt, FiniteSetsExt

CONSTANTS Half,       \* 2^7, 2^15, 2^31, 2^63 and 2^127, by the size of a word
          Digits,     \* of a DECIMAL in 16, 32, 64 and 128 bits: 4, 9, 18, 38
          Radix,      \* 10
          EnumLimit,  \* how many values an ENUM of 8 and of 16 bits may have
          Numbers     \* the texts that are numbers, and what they say

Sizes == {8, 16, 32, 64, 128}

Power[k \in Nat] == IF k = 0 THEN 1 ELSE Radix * Power[k - 1]

ASSUME SizesAssumption ==
    /\ Half \in [Sizes -> Nat \ {0}]
    /\ \A a, b \in Sizes : a < b => Half[a] < Half[b]
    /\ Radix \in Nat \ {0, 1}
    /\ Digits \in [Sizes \ {8} -> Nat]
    /\ \A b \in DOMAIN Digits : Power[Digits[b]] <= Half[b]
    /\ EnumLimit \in [{8, 16} -> Nat]
    /\ \A b \in DOMAIN EnumLimit : EnumLimit[b] <= 2 * Half[b]
    /\ \A text \in DOMAIN Numbers :
          /\ Numbers[text].negative \in BOOLEAN
          /\ Numbers[text].whole \in Nat
          /\ Numbers[text].fraction \in Seq(0..Radix - 1)

Null == [null |-> TRUE]
IntOf(n) == [int |-> n]
ListOf(items) == [list |-> items]

Is(v, what) == what \in DOMAIN v
IsNull(v) == Is(v, "null")

\* row.get(name).cloned().unwrap_or(Value::Null).
Child(v, name) ==
    IF Is(v, "struct") /\ name \in DOMAIN v.struct THEN v.struct[name] ELSE Null

Ok(v) == [ok |-> TRUE, value |-> v]
Fail(error) == [ok |-> FALSE, error |-> error]

\* collect::<Result<Vec<_>>>(): all the values, or the first error.
Collect(results) ==
    LET failed == {i \in DOMAIN results : ~results[i].ok}
    IN IF failed = {} THEN Ok([i \in DOMAIN results |-> results[i].value])
       ELSE results[Min(failed)]

-------------------------------------------------------------------------------
(* Types *)

NoInfo == [kind |-> "none"]

Plain(id) == [id |-> id, info |-> NoInfo]
Typed(id, info) == [id |-> id, info |-> info @@ [alias |-> ""]]

Decimal(width, scale) ==
    Typed("DECIMAL", [kind |-> "DECIMAL", width |-> width, scale |-> scale])
List(t) == Typed("LIST", [kind |-> "LIST", child |-> t])
Array(t, size) == Typed("ARRAY", [kind |-> "ARRAY", child |-> t, size |-> size])
Struct(names, types) ==
    Typed("STRUCT", [kind |-> "STRUCT", names |-> names, children |-> types])
Enum(texts) == Typed("ENUM", [kind |-> "ENUM", texts |-> texts])
Map(key, value) ==
    [List(Struct(<<"key", "value">>, <<key, value>>)) EXCEPT !.id = "MAP"]

\* The metadata and the types that the program can have, of the types inside them.  The
\* values of an ENUM are counted in 32 bits.
IsInfo(i, types) ==
    \/ i = NoInfo
    \/ i \in [kind : {"DECIMAL"}, alias : STRING, width : Nat, scale : Nat]
    \/ i \in [kind : {"STRING", "GEO"}, alias : STRING, text : STRING]
    \/ i \in [kind : {"LIST"}, alias : STRING, child : types]
    \/ i \in [kind : {"ARRAY"}, alias : STRING, child : types, size : Nat]
    \/ /\ i \in [kind : {"STRUCT"}, alias : STRING, names : Seq(STRING), children : Seq(types)]
       /\ Len(i.names) = Len(i.children)
    \/ /\ i \in [kind : {"ENUM"}, alias : STRING, texts : Seq(STRING)]
       /\ Len(i.texts) <= 2 * Half[32]
    \/ i \in [kind : {"GENERIC", "INTEGER_LITERAL"}, alias : STRING]

IsType(t, types) ==
    /\ t = [id |-> t.id, info |-> t.info]
    /\ t.id \in STRING
    /\ IsInfo(t.info, types)

StructIds == {"STRUCT", "UNION", "VARIANT"}
ListIds == {"LIST", "MAP"}
TextIds == {"VARCHAR", "CHAR", "BIGNUM", "TYPE", "AGGREGATE_STATE"}
BytesIds == {"BLOB", "BIT", "GEOMETRY"}
Word64Ids == {"BIGINT", "TIME", "TIME_NS", "TIMETZ", "TIMESTAMP_S", "TIMESTAMP_MS",
              "TIMESTAMP", "TIMESTAMP_NS", "TIMESTAMPTZ"}

FixedKinds == {"word", "float", "bool", "interval"}

Word(size, signed) == [kind |-> "word", half |-> Half[size], signed |-> signed]
Laid(kind) == [kind |-> kind]

\* decimal_physical_type: the smallest word that holds the width.
SizeOfDecimal(info) ==
    LET enough == {b \in DOMAIN Digits : info.width <= Digits[b]}
    IN IF enough = {} THEN Laid("none") ELSE Word(Min(enough), TRUE)

\* enum_physical_type.
SizeOfEnum(info) ==
    Word(Min({b \in DOMAIN EnumLimit : Len(info.texts) <= EnumLimit[b]} \cup {32}), FALSE)

\* get_physical_type, with what get_child_type, get_struct_children and the like
\* want of the type: "none" is a column that is refused.  (The layout of VALIDITY, a
\* bit, is refused by every reader and writer: it counts as none.)
Physical(t) ==
    CASE t.id = "BOOLEAN" -> Laid("bool")
      [] t.id = "TINYINT" -> Word(8, TRUE)
      [] t.id = "UTINYINT" -> Word(8, FALSE)
      [] t.id = "SMALLINT" -> Word(16, TRUE)
      [] t.id = "USMALLINT" -> Word(16, FALSE)
      [] t.id \in {"INTEGER", "DATE", "SQLNULL"} -> Word(32, TRUE)
      [] t.id = "UINTEGER" -> Word(32, FALSE)
      [] t.id \in Word64Ids -> Word(64, TRUE)
      [] t.id \in {"UBIGINT", "POINTER"} -> Word(64, FALSE)
      [] t.id \in {"HUGEINT", "UUID"} -> Word(128, TRUE)
      [] t.id = "UHUGEINT" -> Word(128, FALSE)
      [] t.id = "DECIMAL" /\ t.info.kind = "DECIMAL" -> SizeOfDecimal(t.info)
      [] t.id = "ENUM" /\ t.info.kind = "ENUM" -> SizeOfEnum(t.info)
      [] t.id \in {"FLOAT", "DOUBLE"} -> Laid("float")
      [] t.id = "INTERVAL" -> Laid("interval")
      [] t.id \in TextIds \cup BytesIds -> Laid("text")
      [] t.id \in StructIds /\ t.info.kind = "STRUCT" -> Laid("struct")
      [] t.id \in StructIds \ {"STRUCT"} /\ t.info.kind # "STRUCT" -> Laid("struct")
      [] t.id \in ListIds /\ t.info.kind \in {"LIST", "ARRAY"} -> Laid("list")
      [] t.id = "ARRAY" /\ t.info.kind = "ARRAY" -> Laid("array")
      [] OTHER -> Laid("none")

\* get_struct_children: a UNION or VARIANT without metadata has none.
Names(t) == IF t.info.kind = "STRUCT" THEN t.info.names ELSE <<>>

\* The numbers of a word of this width.
InWord(n, half, signed) ==
    IF signed THEN -half <= n /\ n < half ELSE 0 <= n /\ n < 2 * half

TimeId(unit) == IF unit = "micros" THEN "TIME" ELSE "TIME_NS"

\* A zone is known of microseconds alone.
TimestampId(unit, utc) ==
    CASE unit = "seconds" -> "TIMESTAMP_S"
      [] unit = "millis" -> "TIMESTAMP_MS"
      [] unit = "micros" -> IF utc THEN "TIMESTAMPTZ" ELSE "TIMESTAMP"
      [] unit = "nanos" -> "TIMESTAMP_NS"

-------------------------------------------------------------------------------
(* Values of a type *)

\* get_child_type: the types whose metadata says what the items are.
HasItems(t) == t.id \in ListIds \cup {"ARRAY"} /\ t.info.kind \in {"LIST", "ARRAY"}

\* What normalize_append_value makes of the parts of a value: of all the fields of the
\* type, or of the items.  Where there is no type for the items the column is refused.
NormalizedParts(v, t) ==
    LET names == Names(t)
        Part(value, type) == [value |-> value, type |-> type]
    IN CASE Is(v, "list") /\ HasItems(t) ->
              [k \in DOMAIN v.list |-> Part(v.list[k], t.info.child)]
         [] Is(v, "struct") /\ t.id = "STRUCT" ->
              [k \in DOMAIN names |-> Part(Child(v, names[k]), t.info.children[k])]
         [] OTHER -> <<>>

\* Structs get the fields of their type; of fields of one name the last stays.
NormalizedOf(v, t, parts) ==
    CASE Is(v, "list") /\ HasItems(t) -> ListOf(parts)
      [] Is(v, "struct") /\ t.id = "STRUCT" ->
            [struct |-> [name \in ToSet(Names(t)) |->
                            parts[Max({k \in DOMAIN Names(t) : Names(t)[k] = name})]]]
      [] OTHER -> v

-------------------------------------------------------------------------------
(* Types on the wire: an object is the function from its fields' numbers   *)
(* to what they hold; that fields come in order and objects end is         *)
(* WireCodec's.                                                            *)

\* The types inside a type's metadata.
TypesInside(t) ==
    CASE t.info.kind \in {"LIST", "ARRAY"} -> <<t.info.child>>
      [] t.info.kind = "STRUCT" -> t.info.children
      [] OTHER -> <<>>

\* encode_extra_type_info refuses an INTEGER_LITERAL, at any depth.
SendableOf(t, inner) ==
    t.info.kind # "INTEGER_LITERAL" /\ \A k \in DOMAIN inner : inner[k]

\* The fields that a kind of metadata must have, and those that it may lack: an alias,
\* and what has a default.
MustHave(kind) ==
    CASE kind = "LIST" -> {200}
      [] kind \in {"ARRAY", "ENUM"} -> {200, 201}
      [] OTHER -> {}

MayLack(kind) ==
    {101} \cup CASE kind = "DECIMAL" -> {200, 201}
                 [] kind \in {"STRING", "GEO", "STRUCT"} -> {200}
                 [] OTHER -> {}

\* encode_extra_type_info: an alias is sent when there is one.
EncodedInfo(i, inner) ==
    LET Field200 ==
            CASE i.kind = "DECIMAL" -> i.width
              [] i.kind \in {"STRING", "GEO"} -> i.text
              [] i.kind \in {"LIST", "ARRAY"} -> inner[1]
              [] i.kind = "STRUCT" ->
                   [k \in DOMAIN i.names |-> [n \in {0, 1} |-> IF n = 0 THEN i.names[k] ELSE inner[k]]]
              [] i.kind = "ENUM" -> Len(i.texts)
        Field201 ==
            CASE i.kind = "DECIMAL" -> i.scale
              [] i.kind = "ARRAY" -> i.size
              [] i.kind = "ENUM" -> i.texts
        unsent == IF i.alias = "" THEN {101} ELSE {}
    IN [n \in {100} \cup MustHave(i.kind) \cup (MayLack(i.kind) \ unsent) |->
            CASE n = 100 -> i.kind
              [] n = 101 -> i.alias
              [] n = 200 -> Field200
              [] n = 201 -> Field201]

\* encode_logical_type.
EncodedTypeOf(t, inner) ==
    [n \in IF t.info.kind = "none" THEN {100} ELSE {100, 101} |->
        IF n = 100 THEN t.id ELSE EncodedInfo(t.info, inner)]

\* The types inside a type's metadata, as far as it has the field.
Inside(w) ==
    LET i == w[101]
        has == 101 \in DOMAIN w /\ 200 \in DOMAIN i
    IN CASE has /\ i[100] \in {"LIST", "ARRAY"} -> <<i[200]>>
         [] has /\ i[100] = "STRUCT" -> [k \in DOMAIN i[200] |-> i[200][k][1]]
         [] OTHER -> <<>>

\* decode_logical_type, decode_extra_type_info: no field is missing, none is
\* unknown (an extension's is 103), and an ENUM has as many values as it says.
ReadableOf(w, inner) ==
    101 \in DOMAIN w =>
        LET i == w[101]
        IN /\ MustHave(i[100]) \subseteq DOMAIN i
           /\ DOMAIN i \subseteq {100} \cup MustHave(i[100]) \cup MayLack(i[100])
           /\ i[100] = "ENUM" => Len(i[201]) = i[200]
           /\ \A k \in DOMAIN inner : inner[k]

\* What a readable type says: a field that is not there has its default.
DecodedInfo(i, inner) ==
    LET Field(n, default) == IF n \in DOMAIN i THEN i[n] ELSE default
        kind == i[100]
        alias == Field(101, "")
    IN CASE kind = "DECIMAL" ->
              [kind |-> kind, alias |-> alias, width |-> Field(200, 0), scale |-> Field(201, 0)]
         [] kind \in {"STRING", "GEO"} ->
              [kind |-> kind, alias |-> alias, text |-> Field(200, "")]
         [] kind = "LIST" -> [kind |-> kind, alias |-> alias, child |-> inner[1]]
         [] kind = "ARRAY" ->
              [kind |-> kind, alias |-> alias, child |-> inner[1], size |-> i[201]]
         [] kind = "STRUCT" ->
              [kind |-> kind, alias |-> alias,
               names |-> [k \in DOMAIN inner |-> i[200][k][0]], children |-> inner]
         [] kind = "ENUM" -> [kind |-> kind, alias |-> alias, texts |-> i[201]]
         [] OTHER -> [kind |-> kind, alias |-> alias]

DecodedTypeOf(w, inner) ==
    [id |-> w[100],
     info |-> IF 101 \in DOMAIN w THEN DecodedInfo(w[101], inner) ELSE NoInfo]
===============================================================================

------------------------------ MODULE ArrowColumns ------------------------------
(***************************************************************************)
(* A decoded column as an Arrow array (src/src/arrow): the Arrow type of a *)
(* column's type, the array that is built for values, and what a reader of *)
(* that array finds in a slot.                                             *)
(*                                                                         *)
(* An Arrow type is a record of its name and its parameters.  An array has *)
(* its type and, as Arrow lays it out, slots that hold NULL or a native    *)
(* value, or a validity bitmap with the offsets and children of a nested   *)
(* one.  Offsets of 32 bits end at MaxOffset.                              *)
(***************************************************************************)
EXTENDS ColumnTypes

CONSTANTS MaxOffset,      \* i32::MAX
          Day,            \* how many of a unit of TIME a day has
          NanosPerMicro   \* 1000

Scalar(name) == [arrow |-> name]

\* arrow_type, field, list_item_field, struct_fields: every field is nullable.  A type
\* without the metadata it needs has none.  (A DECIMAL's width or scale beyond eight
\* bits is one that ArrowDecimal refuses.)
RECURSIVE ArrowType(_)
ArrowType(t) ==
    LET child == ArrowType(t.info.child)
        fields == Collect([k \in DOMAIN Names(t) |-> ArrowType(t.info.children[k])])
        Timestamp(unit, utc) == [arrow |-> "Timestamp", unit |-> unit, utc |-> utc]
    IN CASE t.id = "SQLNULL" -> Ok(Scalar("Null"))
         [] t.id = "BOOLEAN" -> Ok(Scalar("Boolean"))
         [] t.id \in {"TINYINT", "SMALLINT", "INTEGER", "BIGINT", "UTINYINT", "USMALLINT",
                      "UINTEGER", "UBIGINT"} ->
              Ok([arrow |-> "Int", half |-> Physical(t).half, signed |-> Physical(t).signed])
         [] t.id \in {"HUGEINT", "UHUGEINT"} -> Ok(Scalar("Decimal256"))
         [] t.id = "FLOAT" -> Ok(Scalar("Float32"))
         [] t.id = "DOUBLE" -> Ok(Scalar("Float64"))
         [] t.id = "DECIMAL" /\ t.info.kind = "DECIMAL" ->
              Ok([arrow |-> "Decimal128", precision |-> t.info.width, scale |-> t.info.scale])
         [] t.id \in {"VARCHAR", "CHAR", "ENUM", "UUID"} -> Ok(Scalar("Utf8"))
         [] t.id \in BytesIds -> Ok(Scalar("Binary"))
         [] t.id = "DATE" -> Ok(Scalar("Date32"))
         [] t.id = "TIME" -> Ok([arrow |-> "Time64", unit |-> "micros"])
         [] t.id = "TIME_NS" -> Ok([arrow |-> "Time64", unit |-> "nanos"])
         [] t.id = "TIMESTAMP_S" -> Ok(Timestamp("seconds", FALSE))
         [] t.id = "TIMESTAMP_MS" -> Ok(Timestamp("millis", FALSE))
         [] t.id = "TIMESTAMP" -> Ok(Timestamp("micros", FALSE))
         [] t.id = "TIMESTAMP_NS" -> Ok(Timestamp("nanos", FALSE))
         [] t.id = "TIMESTAMPTZ" -> Ok(Timestamp("micros", TRUE))
         [] t.id = "INTERVAL" -> Ok(Scalar("Interval"))
         [] t.id \in ListIds /\ t.info.kind \in {"LIST", "ARRAY"} ->
              IF child.ok THEN Ok([arrow |-> "List", item |-> child.value]) ELSE child
         [] t.id = "ARRAY" /\ t.info.kind = "ARRAY" ->
              IF ~child.ok THEN child
              ELSE IF MaxOffset < t.info.size THEN Fail("exceeds the Arrow limit")
              ELSE Ok([arrow |-> "FixedSizeList", item |-> child.value, size |-> t.info.size])
         [] \/ t.id = "STRUCT" /\ t.info.kind = "STRUCT"
            \/ t.id = "VARIANT" ->
              IF fields.ok
              THEN Ok([arrow |-> "Struct", names |-> Names(t), fields |-> fields.value])
              ELSE fields
         [] OTHER -> Fail("unsupported")

-------------------------------------------------------------------------------
(* build_array *)

\* The extractors of arrow/values.rs: the value must be of the column's type, and a
\* time within a day.
Native(v, t) ==
    LET p == Physical(t)
        Of(what, fits) == IF Is(v, what) /\ fits THEN Ok(v[what]) ELSE Fail("mismatch")
        Timestamp(unit, utc) == Of("timestamp", v.unit = unit /\ v.utc = utc)
        Time(unit) == Of("time", v.unit = unit /\ 0 <= v.time /\ v.time < Day[unit])
    IN CASE t.id = "BOOLEAN" -> Of("bool", TRUE)
         [] t.id \in {"TINYINT", "SMALLINT", "INTEGER", "BIGINT"} ->
              Of("int", InWord(v.int, p.half, TRUE))
         [] t.id \in {"UTINYINT", "USMALLINT", "UINTEGER", "UBIGINT"} ->
              Of("uint", InWord(v.uint, p.half, FALSE))
         [] t.id = "HUGEINT" -> Of("huge", TRUE)
         [] t.id = "UHUGEINT" -> Of("uhuge", TRUE)
         [] t.id = "FLOAT" -> Of("float", TRUE)
         [] t.id = "DOUBLE" -> Of("double", TRUE)
         [] t.id = "DECIMAL" -> Of("decimal", TRUE)
         [] t.id \in {"VARCHAR", "CHAR", "ENUM", "UUID"} -> Of("text", TRUE)
         [] t.id \in BytesIds -> Of("bytes", TRUE)
         [] t.id = "DATE" -> Of("date", TRUE)
         [] t.id = "TIME" -> Time("micros")
         [] t.id = "TIME_NS" -> Time("nanos")
         [] t.id = "TIMESTAMP_S" -> Timestamp("seconds", FALSE)
         [] t.id = "TIMESTAMP_MS" -> Timestamp("millis", FALSE)
         [] t.id = "TIMESTAMP" -> Timestamp("micros", FALSE)
         [] t.id = "TIMESTAMP_NS" -> Timestamp("nanos", FALSE)
         [] t.id = "TIMESTAMPTZ" -> Timestamp("micros", TRUE)
         [] t.id = "INTERVAL" /\ Is(v, "interval") ->
              LET nanos == v.interval[3] * NanosPerMicro
              IN IF InWord(nanos, Half[64], TRUE)
                 THEN Ok([v.interval EXCEPT ![3] = nanos]) ELSE Fail("overflow")
         [] OTHER -> Fail("mismatch")

NoSlot == [nil |-> TRUE]
Filled(x) == [native |-> x]

\* Slip: a list is NULL when it has no items.
ValidWhereNotEmpty(values) ==
    [i \in DOMAIN values |-> IF Is(values[i], "list") THEN values[i].list # <<>>
                             ELSE ~IsNull(values[i])]

Valid(values) == [i \in DOMAIN values |-> ~IsNull(values[i])]
ItemsOf(values) ==
    FlattenSeq([i \in DOMAIN values |-> IF IsNull(values[i]) THEN <<>> ELSE values[i].list])

\* primitive, boolean, collect.
Slots(values, t) ==
    Collect([i \in DOMAIN values |->
        LET native == Native(values[i], t)
        IN IF IsNull(values[i]) THEN Ok(NoSlot)
           ELSE IF native.ok THEN Ok(Filled(native.value)) ELSE native])

\* byte_capacity.
BytesTooMany(values, t) ==
    /\ t.id \in {"VARCHAR", "CHAR", "ENUM", "UUID"} \cup BytesIds
    /\ MaxOffset < FoldSeq(LAMBDA v, total :
                       total + (IF Is(v, "text") THEN Len(v.text)
                                ELSE IF Is(v, "bytes") THEN Len(v.bytes) ELSE 0), 0, values)

\* What with_precision_and_scale, of Arrow, takes for a DECIMAL.
ArrowDecimal(info) == info.width \in 1..Digits[128] /\ info.scale <= info.width

\* build_list, build_fixed_size_list, build_struct: the fields, and so the names of
\* a struct, are the schema's.
RECURSIVE Built(_, _, _)
Built(values, t, schema) ==
    LET slots == Slots(values, t)
        given == {values[i] : i \in {j \in DOMAIN values : ~IsNull(values[j])}}
        items == ItemsOf(values)
        padded == FlattenSeq([i \in DOMAIN values |->
                      IF IsNull(values[i]) THEN [k \in 1..schema.size |-> Null]
                      ELSE values[i].list])
        list == Built(items, t.info.child, schema.item)
        array == Built(padded, t.info.child, schema.item)
        names == Names(t)
        columns == Collect([k \in DOMAIN names |->
                       Built([i \in DOMAIN values |-> Child(values[i], names[k])],
                             t.info.children[k], schema.fields[k])])
    IN CASE t.id = "SQLNULL" ->
              IF given = {} THEN Ok([type |-> Scalar("Null"), slots |-> slots.value])
              ELSE Fail("mismatch")
         [] t.id \in ListIds ->
              IF schema.arrow # "List" THEN Fail("schema")
              ELSE IF \E v \in given : ~Is(v, "list") THEN Fail("mismatch")
              ELSE IF Len(items) > MaxOffset THEN Fail("offset")
              ELSE IF ~list.ok THEN list
              ELSE IF list.value.type # schema.item THEN Fail("schema")
              ELSE Ok([type |-> schema, valid |-> Valid(values), child |-> list.value,
                       ends |-> [i \in DOMAIN values |-> Len(ItemsOf(SubSeq(values, 1, i)))]])
         [] t.id = "ARRAY" ->
              IF schema.arrow # "FixedSizeList" THEN Fail("schema")
              ELSE IF \E v \in given : ~Is(v, "list") \/ Len(v.list) # schema.size
              THEN Fail("mismatch")
              ELSE IF ~array.ok THEN array
              ELSE IF array.value.type # schema.item THEN Fail("schema")
              ELSE Ok([type |-> schema, valid |-> Valid(values), child |-> array.value])
         [] t.id \in {"STRUCT", "VARIANT"} ->
              IF schema.arrow # "Struct" THEN Fail("schema")
              ELSE IF Len(names) # Len(schema.names) THEN Fail("schema")
              ELSE IF \E v \in given : \/ ~Is(v, "struct")
                                       \/ Cardinality(DOMAIN v.struct) # Len(names)
                                       \/ ~(ToSet(names) \subseteq DOMAIN v.struct)
              THEN Fail("mismatch")
              ELSE IF ~columns.ok THEN columns
              ELSE IF \E k \in DOMAIN names : columns.value[k].type # schema.fields[k]
              THEN Fail("schema")
              ELSE Ok([type |-> schema, valid |-> Valid(values), columns |-> columns.value])
         [] OTHER ->
              IF ~ArrowType(t).ok THEN ArrowType(t)
              ELSE IF BytesTooMany(values, t) THEN Fail("offset")
              ELSE IF ~slots.ok THEN slots
              ELSE IF t.id = "DECIMAL" /\ ~ArrowDecimal(t.info) THEN Fail("precision")
              ELSE Ok([type |-> ArrowType(t).value, slots |-> slots.value])

\* to_record_batch, for a chunk of one column.
RecordBatch(chunk, schema) ==
    LET array == Built(chunk.values, chunk.type, schema)
    IN IF Len(chunk.values) # chunk.count THEN Fail("count")
       ELSE IF ~array.ok THEN array
       ELSE IF array.value.type # schema THEN Fail("schema")
       ELSE Ok([schema |-> schema, array |-> array.value])

-------------------------------------------------------------------------------
(* A reader of the array: of Arrow, not of this code *)

\* A native value with what the type of its array says of it.
Meaning(x, type) ==
    CASE type.arrow = "Int" -> IF type.signed THEN [int |-> x] ELSE [uint |-> x]
      [] type.arrow = "Boolean" -> [bool |-> x]
      [] type.arrow = "Float32" -> [float |-> x]
      [] type.arrow = "Float64" -> [double |-> x]
      [] type.arrow = "Decimal256" -> [decimal256 |-> x]
      [] type.arrow = "Decimal128" ->
           [decimal |-> x, width |-> type.precision, scale |-> type.scale]
      [] type.arrow = "Utf8" -> [text |-> x]
      [] type.arrow = "Binary" -> [bytes |-> x]
      [] type.arrow = "Date32" -> [date |-> x]
      [] type.arrow = "Time64" -> [time |-> x, unit |-> type.unit]
      [] type.arrow = "Timestamp" -> [timestamp |-> x, unit |-> type.unit, utc |-> type.utc]
      [] type.arrow = "Interval" -> [nanointerval |-> x]

RECURSIVE ReadSlot(_, _)
ReadSlot(array, i) ==
    LET type == array.type
        start == IF i = 1 THEN 0 ELSE array.ends[i - 1]
    IN IF "slots" \in DOMAIN array
       THEN (IF array.slots[i] = NoSlot THEN Null
             ELSE Meaning(array.slots[i].native, type))
       ELSE IF ~array.valid[i] THEN Null
       ELSE CASE type.arrow = "List" ->
                   ListOf([k \in 1..array.ends[i] - start |->
                              ReadSlot(array.child, start + k)])
              [] type.arrow = "FixedSizeList" ->
                   ListOf([k \in 1..type.size |->
                              ReadSlot(array.child, type.size * (i - 1) + k)])
              [] type.arrow = "Struct" ->
                   [struct |-> [name \in ToSet(type.names) |->
                       ReadSlot(array.columns[SelectInSeq(type.names, LAMBDA x : x = name)],
                                i)]]

\* A value as a reader of Arrow should find it.
RECURSIVE InArrow(_)
InArrow(v) ==
    CASE Is(v, "huge") -> [decimal256 |-> v.huge]
      [] Is(v, "uhuge") -> [decimal256 |-> v.uhuge]
      [] Is(v, "interval") ->
           [nanointerval |-> [v.interval EXCEPT ![3] = @ * NanosPerMicro]]
      [] Is(v, "list") -> ListOf([k \in DOMAIN v.list |-> InArrow(v.list[k])])
      [] Is(v, "struct") ->
           [struct |-> [name \in DOMAIN v.struct |-> InArrow(v.struct[name])]]
      [] OTHER -> v
===============================================================================

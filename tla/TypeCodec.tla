-------------------------------- MODULE TypeCodec --------------------------------
(***************************************************************************)
(* Types of any depth: the one that append_rows infers for a column, what  *)
(* it makes of the values (src/src/builders.rs), and types on the wire     *)
(* (src/src/logical_types.rs).                                             *)
(***************************************************************************)
EXTENDS ColumnTypes

\* infer_logical_type: the first value that is not NULL decides, for lists, numbers
\* and decimals alone.
RECURSIVE InferredType(_)
InferredType(values) ==
    LET given == SelectSeq(values, LAMBDA v : ~IsNull(v))
        first == Head(given)
        names == SetToSeq(DOMAIN first.struct)
        children == Collect([k \in DOMAIN names |->
                        InferredType([i \in DOMAIN values |-> Child(values[i], names[k])])])
        child == InferredType(first.list)
    IN IF given = <<>> THEN Fail("only nulls")
       ELSE IF Is(first, "list")
       THEN (IF child.ok THEN Ok(List(child.value)) ELSE child)
       ELSE IF Is(first, "struct")
       THEN (IF children.ok THEN Ok(Struct(names, children.value)) ELSE children)
       ELSE Ok(CASE Is(first, "bool") -> Plain("BOOLEAN")
                 [] Is(first, "int") ->
                      Plain(IF InWord(first.int, Half[32], TRUE) THEN "INTEGER" ELSE "BIGINT")
                 [] Is(first, "uint") ->
                      Plain(IF InWord(first.uint, Half[32], FALSE) THEN "UINTEGER" ELSE "UBIGINT")
                 [] Is(first, "huge") -> Plain("HUGEINT")
                 [] Is(first, "uhuge") -> Plain("UHUGEINT")
                 [] Is(first, "float") -> Plain("FLOAT")
                 [] Is(first, "double") -> Plain("DOUBLE")
                 [] Is(first, "text") -> Plain("VARCHAR")
                 [] Is(first, "bytes") -> Plain("BLOB")
                 [] Is(first, "decimal") -> Decimal(first.width, first.scale)
                 [] Is(first, "date") -> Plain("DATE")
                 [] Is(first, "time") -> Plain(TimeId(first.unit))
                 [] Is(first, "timetz") -> Plain("TIMETZ")
                 [] Is(first, "timestamp") -> Plain(TimestampId(first.unit, first.utc))
                 [] Is(first, "interval") -> Plain("INTERVAL"))

\* normalize_append_value.
RECURSIVE NormalizedValue(_, _)
NormalizedValue(v, t) ==
    LET inner == NormalizedParts(v, t)
    IN NormalizedOf(v, t, [k \in DOMAIN inner |-> NormalizedValue(inner[k].value, inner[k].type)])

\* encode_logical_type.
RECURSIVE SendableType(_)
SendableType(t) ==
    LET inner == TypesInside(t)
    IN SendableOf(t, [k \in DOMAIN inner |-> SendableType(inner[k])])

RECURSIVE TypeSent(_)
TypeSent(t) ==
    LET inner == TypesInside(t)
    IN EncodedTypeOf(t, [k \in DOMAIN inner |-> TypeSent(inner[k])])

\* decode_logical_type.
RECURSIVE ReadableType(_)
ReadableType(w) ==
    LET inner == Inside(w)
    IN ReadableOf(w, [k \in DOMAIN inner |-> ReadableType(inner[k])])

RECURSIVE TypeRead(_)
TypeRead(w) ==
    LET inner == Inside(w)
    IN DecodedTypeOf(w, [k \in DOMAIN inner |-> TypeRead(inner[k])])
===============================================================================

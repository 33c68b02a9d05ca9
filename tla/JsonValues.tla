------------------------------ MODULE JsonValues -------------------------------
(***************************************************************************)
(* Values as JSON (src/src/json.rs).  A JSON value is a record that says   *)
(* what it is; of the text of a date, a time or a timestamp what it writes *)
(* is kept, and how it is laid out is not, nor are the forms of bytes.     *)
(***************************************************************************)
EXTENDS VectorLayout

CONSTANTS NonFinite,   \* floats that are no numbers: NaN and the infinities
          PerSecond,   \* how many of a unit a second has
          LastDay,     \* chrono's range of dates
          LastSecond   \* chrono's range of timestamps

Taggable == {"decimal", "date", "time", "timestamp"}
Options == [bigint : {"String", "Number"}, tagged : SUBSET Taggable]

\* bigint_to_json, unsigned_bigint_to_json: a Number has 64 bits.
BigIntJson(n, signed, options) ==
    IF options.bigint = "String" THEN Ok([text |-> ToString(n)])
    ELSE IF InWord(n, Half[64], signed) THEN Ok([number |-> n])
    ELSE Fail("exceeds JSON number range")

\* Number::from_f64: JSON has no such number, and null stands for it.
FloatJson(x) == IF x \in NonFinite THEN Null ELSE [number |-> x]

\* A date that chrono does not have is a panic.
DateJson(v) ==
    IF -LastDay <= v.date /\ v.date <= LastDay THEN Ok([isodate |-> v.date])
    ELSE Fail("panic")

Nanos(n, unit) == n * (PerSecond["nanos"] \div PerSecond[unit])

\* div_euclid, rem_euclid: the fraction counts forward from the second before.
Split(nanos) ==
    [seconds |-> nanos \div PerSecond["nanos"], fraction |-> nanos % PerSecond["nanos"]]

TimestampJson(v) ==
    LET split == Split(Nanos(v.timestamp, v.unit))
    IN IF -LastSecond <= split.seconds /\ split.seconds <= LastSecond
       THEN Ok([isotimestamp |-> split]) ELSE Fail("outside range")

\* to_json_value.
RECURSIVE Json(_, _)
Json(v, options) ==
    LET Tagged(kind) == kind \in options.tagged
        items == Collect([k \in DOMAIN v.list |-> Json(v.list[k], options)])
        names == SetToSeq(DOMAIN v.struct)
        fields == Collect([k \in DOMAIN names |-> Json(v.struct[names[k]], options)])
    IN CASE Is(v, "null") -> Ok(Null)
         [] Is(v, "int") -> BigIntJson(v.int, TRUE, options)
         [] Is(v, "uint") -> BigIntJson(v.uint, FALSE, options)
         [] Is(v, "huge") -> BigIntJson(v.huge, TRUE, options)
         [] Is(v, "uhuge") -> BigIntJson(v.uhuge, FALSE, options)
         [] Is(v, "float") -> Ok(FloatJson(v.float))
         [] Is(v, "double") -> Ok(FloatJson(v.double))
         [] Is(v, "decimal") /\ ~Tagged("decimal") -> Ok([text |-> DecimalText(v)])
         [] Is(v, "date") /\ ~Tagged("date") -> DateJson(v)
         [] Is(v, "time") /\ ~Tagged("time") -> Ok([isotime |-> Split(Nanos(v.time, v.unit))])
         [] Is(v, "timestamp") /\ ~Tagged("timestamp") -> TimestampJson(v)
         [] Is(v, "list") -> IF items.ok THEN Ok([array |-> items.value]) ELSE items
         [] Is(v, "struct") ->
              IF fields.ok
              THEN Ok([object |-> [name \in DOMAIN v.struct |->
                          fields.value[SelectInSeq(names, LAMBDA x : x = name)]]])
              ELSE fields
         [] OTHER -> Ok(v)
===============================================================================

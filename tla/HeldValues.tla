------------------------------- MODULE HeldValues -------------------------------
(***************************************************************************)
(* What a column of a type is to hold for a value, if it can hold it at    *)
(* all: the number that a value says, in whichever way it is written, and  *)
(* lists and structs of what their parts say.                              *)
(***************************************************************************)
EXTENDS VectorLayout

\* The values that the program can have, of the values inside them.
IsValue(v, inside) ==
    LET InWords(size) == -Half[size]..Half[size] - 1
        Units == {"seconds", "millis", "micros", "nanos"}
    IN \/ v = Null
       \/ v \in [bool : BOOLEAN]
       \/ v \in [int : InWords(64)]
       \/ v \in [uint : 0..2 * Half[64] - 1]
       \/ v \in [huge : InWords(128)]
       \/ v \in [uhuge : 0..2 * Half[128] - 1]
       \/ v \in [float : {n \in Int : n % Radix = 0}]
       \/ v \in [double : Int]
       \/ v \in [text : STRING \ NotUtf8]
       \/ v \in [bytes : STRING]
       \/ v \in [decimal : InWords(128), width : Nat, scale : Nat]
       \/ v \in [date : InWords(32)]
       \/ v \in [time : InWords(64), unit : {"micros", "nanos"}]
       \/ v \in [timetz : InWords(64)]
       \/ v \in [timestamp : InWords(64), unit : Units, utc : BOOLEAN]
       \/ v \in [interval : InWords(32) \X InWords(32) \X InWords(64)]
       \/ v \in [list : Seq(inside)]
       \/ /\ v = [struct |-> v.struct]
          /\ v.struct \in [DOMAIN v.struct -> inside]
          /\ DOMAIN v.struct \subseteq STRING

\* The number that a value is, in whichever way it is written.
SaysInteger(v) ==
    \/ DOMAIN v \cap {"int", "uint", "huge", "uhuge"} # {}
    \/ Is(v, "text") /\ v.text \in DOMAIN Numbers /\ Numbers[v.text].fraction = <<>>

IntegerSaid(v) ==
    IF ~Is(v, "text") THEN v[CHOOSE what \in DOMAIN v : TRUE]
    ELSE (IF Numbers[v.text].negative THEN -1 ELSE 1) * Numbers[v.text].whole

IntegerName(t) ==
    CASE t.id = "HUGEINT" -> "huge"
      [] t.id = "UHUGEINT" -> "uhuge"
      [] t.id \in {"TINYINT", "SMALLINT", "INTEGER", "BIGINT"} -> "int"
      [] t.id \in {"UTINYINT", "USMALLINT", "UINTEGER", "UBIGINT", "POINTER"} -> "uint"
      [] OTHER -> "none"

\* A number of this many digits, in units of its last.
InDigits(n, width) == -Power[width] < n /\ n < Power[width]

\* The digits after the point, each in units of the last of the scale.
FractionSaid(fraction, scale) ==
    LET Sum[k \in 0..Len(fraction)] ==
            IF k = 0 THEN 0 ELSE Sum[k - 1] + fraction[k] * Power[scale - k]
    IN Sum[Len(fraction)]

DecimalSaid(v, t) ==
    LET said == Numbers[v.text]
        scale == t.info.scale
        size == said.whole * Power[scale] + FractionSaid(said.fraction, scale)
    IN CASE Is(v, "decimal") -> [fits |-> v.scale = scale, number |-> v.decimal]
         [] Is(v, "text") /\ v.text \in DOMAIN Numbers /\ Len(said.fraction) <= scale ->
              [fits |-> TRUE, number |-> IF said.negative THEN -size ELSE size]
         [] OTHER -> [fits |-> FALSE, number |-> 0]

\* The ids whose columns hold values of one name, with this unit and zone.
IdOf(v) ==
    CASE Is(v, "bool") -> "BOOLEAN"
      [] Is(v, "text") -> "VARCHAR"
      [] Is(v, "bytes") -> "BLOB"
      [] Is(v, "float") -> "FLOAT"
      [] Is(v, "double") -> "DOUBLE"
      [] Is(v, "date") -> "DATE"
      [] Is(v, "interval") -> "INTERVAL"
      [] Is(v, "timetz") -> "TIMETZ"
      [] Is(v, "time") -> TimeId(v.unit)
      [] Is(v, "timestamp") ->
           IF v.utc /\ v.unit # "micros" THEN "none" ELSE TimestampId(v.unit, v.utc)
      [] OTHER -> "none"

\* The values inside a value, with their types: a struct's fields, or a list's items.
InnerValues(v, t) ==
    LET names == Names(t)
        Part(value, type) == [value |-> value, type |-> type]
    IN CASE t.id \in StructIds ->
              [k \in DOMAIN names |-> Part(Child(v, names[k]), t.info.children[k])]
         [] t.id \in ListIds \cup {"ARRAY"} ->
              [k \in DOMAIN Items(v) |-> Part(v.list[k], t.info.child)]
         [] OTHER -> <<>>

\* What the column is to hold, of what the columns inside it are to hold.
HeldOf(v, t, inner) ==
    LET p == Physical(t)
        decimal == DecimalSaid(v, t)
        index == IntegerSaid(v) + 1
        parts == Collect(inner)
        names == Names(t)
        No == Fail("does not fit")
    IN CASE IsNull(v) -> Ok(Null)
         [] ~IsNull(v) /\ IntegerName(t) # "none" ->
              IF SaysInteger(v) /\ InWord(IntegerSaid(v), p.half, p.signed)
              THEN Ok([n \in {IntegerName(t)} |-> IntegerSaid(v)]) ELSE No
         [] ~IsNull(v) /\ t.id = "DECIMAL" ->
              IF decimal.fits /\ InDigits(decimal.number, t.info.width)
              THEN Ok([decimal |-> decimal.number, width |-> t.info.width,
                       scale |-> t.info.scale])
              ELSE No
         [] ~IsNull(v) /\ t.id = "ENUM" ->
              IF Is(v, "text") /\ v.text \in ToSet(t.info.texts) THEN Ok(v)
              ELSE IF Is(v, "int") \/ Is(v, "uint")
              THEN (IF index \in DOMAIN t.info.texts THEN Ok([text |-> t.info.texts[index]])
                    ELSE No)
              ELSE No
         [] ~IsNull(v) /\ t.id = "UUID" ->
              IF Is(v, "text") /\ v.text \in ToSet(Uuids) THEN Ok(v) ELSE No
         [] ~IsNull(v) /\ t.id \in ListIds ->
              IF Is(v, "list") /\ parts.ok THEN Ok(ListOf(parts.value)) ELSE No
         [] ~IsNull(v) /\ t.id = "ARRAY" ->
              IF Is(v, "list") /\ Len(v.list) = t.info.size /\ parts.ok
              THEN Ok(ListOf(parts.value)) ELSE No
         [] ~IsNull(v) /\ t.id \in StructIds ->
              IF /\ Is(v, "struct") /\ DOMAIN v.struct \subseteq ToSet(names)
                 /\ IsInjective(names) /\ parts.ok
              THEN Ok([struct |-> [name \in ToSet(names) |->
                          parts.value[CHOOSE k \in DOMAIN names : names[k] = name]]])
              ELSE No
         [] OTHER -> IF IdOf(v) = t.id THEN Ok(v) ELSE No

\* A type that columns can have, at any depth: a literal's is not sent, and the word of a
\* NULL, that is looked at too, cannot be read in a column of an ENUM without values.
SupportedOf(t, inner) ==
    /\ Physical(t).kind # "none"
    /\ t.id = "ENUM" => t.info.texts # <<>>
    /\ t.info.kind # "INTEGER_LITERAL"
    /\ \A k \in DOMAIN inner : inner[k]
===============================================================================

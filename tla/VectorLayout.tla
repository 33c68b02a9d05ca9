------------------------------ MODULE VectorLayout ------------------------------
(***************************************************************************)
(* The vectors that carry a column's values (src/src/vector.rs): the words *)
(* and texts of values, the flat vector of a column, of the vectors of the *)
(* columns inside it, and what a vector of any form says, of what the      *)
(* vectors inside it say.                                                  *)
(*                                                                         *)
(* A vector is the record of the fields of its object; that fields come in *)
(* order and objects end is WireCodec's.  A word of the validity mask has  *)
(* MaskBits.                                                               *)
(***************************************************************************)
EXTENDS ColumnTypes

CONSTANTS MaskBits,  \* 64
          NotUtf8    \* the bytes that are no text

ASSUME MaskAssumption == MaskBits \in Nat \ {0}

-------------------------------------------------------------------------------
(* Values and words *)

Wrapped(n, half) == n % (2 * half)
Signed(word, half) == IF word >= half THEN word - 2 * half ELSE word

\* The number that digits write, the first of them first.
DigitsSay(digits) ==
    LET Say[k \in 0..Len(digits)] == IF k = 0 THEN 0 ELSE Say[k - 1] * Radix + digits[k]
    IN Say[Len(digits)]

\* The digits after the point, as many as the scale has.
FractionDigits(text, scale) ==
    LET fraction == Numbers[text].fraction
    IN [k \in 1..scale |-> IF k <= Len(fraction) THEN fraction[k] ELSE 0]

\* Slip: the sign is read off the digits before the point.
UnscaledOfInteger(text, scale) ==
    LET said == Numbers[text]
        digits == FractionDigits(text, scale)
        whole == IF said.negative THEN -said.whole ELSE said.whole
    IN whole * Power[scale] + (IF whole < 0 THEN -DigitsSay(digits) ELSE DigitsSay(digits))

\* parse_decimal_string: digits after the point are added or cut off, up to the
\* scale.
Unscaled(text, scale) ==
    LET said == Numbers[text]
        unsigned == said.whole * Power[scale] + DigitsSay(FractionDigits(text, scale))
    IN IF said.negative THEN -unsigned ELSE unsigned

\* value_to_i128, value_to_u128: a number of any kind, or a text that is one.
Number(v, signed) ==
    LET said == Numbers[v.text]
        number == CASE Is(v, "bool") -> IF v.bool THEN 1 ELSE 0
                    [] Is(v, "int") -> v.int
                    [] Is(v, "uint") -> v.uint
                    [] Is(v, "huge") -> v.huge
                    [] Is(v, "uhuge") -> v.uhuge
                    [] Is(v, "text") -> IF said.negative THEN -said.whole ELSE said.whole
        isNumber == \/ DOMAIN v \cap {"bool", "int", "uint", "huge", "uhuge"} # {}
                    \/ Is(v, "text") /\ v.text \in DOMAIN Numbers /\ said.fraction = <<>>
    IN IF isNumber /\ (number < 0 => signed)
                   /\ (Is(v, "uhuge") /\ signed => InWord(number, Half[128], TRUE))
       THEN Ok(number) ELSE Fail("cannot convert")

\* The text of a UUID, and the number it writes.
UuidText(n) == "uuid" \o ToString(n)
Uuids == [n \in 0..2 * Half[128] - 1 |-> UuidText(n)]

\* The first bit of a UUID's word is turned over.
TopBit == Half[128]

\* The number that an integer's word is to hold, before `as' keeps its low bits.
NumberOf(v, t) ==
    CASE t.id = "UUID" ->
           IF Is(v, "text") /\ \E n \in DOMAIN Uuids : Uuids[n] = v.text
           THEN Ok((CHOOSE n \in DOMAIN Uuids : Uuids[n] = v.text) + TopBit)
           ELSE Fail("invalid UUID")
      [] t.id = "ENUM" ->
           IF Is(v, "uint") THEN Ok(v.uint)
           ELSE IF Is(v, "int") /\ v.int >= 0 THEN Ok(v.int)
           ELSE IF Is(v, "text") /\ v.text \in ToSet(t.info.texts)
           THEN Ok(Min({k \in DOMAIN t.info.texts : t.info.texts[k] = v.text}) - 1)
           ELSE Fail("not of the ENUM")
      [] t.id = "DECIMAL" ->
           IF Is(v, "decimal") THEN Ok(v.decimal)
           ELSE IF ~Is(v, "text") THEN Number(v, TRUE)
           ELSE IF v.text \in DOMAIN Numbers THEN Ok(Unscaled(v.text, t.info.scale))
           ELSE Fail("invalid decimal")
      [] t.id = "DATE" /\ Is(v, "date") -> Ok(v.date)
      [] t.id \in Word64Ids /\ Is(v, "time") -> Ok(v.time)
      [] t.id \in Word64Ids /\ Is(v, "timetz") -> Ok(v.timetz)
      [] t.id \in Word64Ids /\ Is(v, "timestamp") -> Ok(v.timestamp)
      [] OTHER -> Number(v, Physical(t).signed)

\* value_to_f64; `as f32' for a FLOAT.
FloatOf(v, t) ==
    LET exact == CASE Is(v, "float") -> v.float
                   [] Is(v, "double") -> v.double
                   [] Is(v, "int") -> v.int * Radix
                   [] Is(v, "uint") -> v.uint * Radix
                   [] Is(v, "text") -> Unscaled(v.text, 1)
    IN IF \/ DOMAIN v \cap {"float", "double", "int", "uint"} # {}
          \/ Is(v, "text") /\ v.text \in DOMAIN Numbers
       THEN Ok(IF t.id = "FLOAT" THEN exact - (exact % Radix) ELSE exact)
       ELSE Fail("cannot convert")

\* encode_fixed_value: a NULL's word is zero.  What is not TRUE is FALSE.
WordOf(v, t) ==
    LET p == Physical(t)
        number == NumberOf(v, t)
    IN IF IsNull(v) THEN Ok(IF p.kind = "interval" THEN <<0, 0, 0>> ELSE 0)
       ELSE CASE p.kind = "bool" -> Ok(IF Is(v, "bool") /\ v.bool THEN 1 ELSE 0)
              [] p.kind = "interval" ->
                   IF Is(v, "interval") THEN Ok(v.interval) ELSE Fail("not an interval")
              [] p.kind = "float" -> FloatOf(v, t)
              [] p.kind = "word" ->
                   IF number.ok THEN Ok(Wrapped(number.value, p.half)) ELSE number

\* decode_int64_logical_value.
FromInt64(n, t) ==
    CASE t.id = "TIME" -> [time |-> n, unit |-> "micros"]
      [] t.id = "TIME_NS" -> [time |-> n, unit |-> "nanos"]
      [] t.id = "TIMETZ" -> [timetz |-> n]
      [] t.id = "TIMESTAMP_S" -> [timestamp |-> n, unit |-> "seconds", utc |-> FALSE]
      [] t.id = "TIMESTAMP_MS" -> [timestamp |-> n, unit |-> "millis", utc |-> FALSE]
      [] t.id = "TIMESTAMP" -> [timestamp |-> n, unit |-> "micros", utc |-> FALSE]
      [] t.id = "TIMESTAMP_NS" -> [timestamp |-> n, unit |-> "nanos", utc |-> FALSE]
      [] t.id = "TIMESTAMPTZ" -> [timestamp |-> n, unit |-> "micros", utc |-> TRUE]
      [] OTHER -> IntOf(n)

\* decode_fixed_value.
FromWord(word, t) ==
    LET p == Physical(t)
        n == IF p.signed THEN Signed(word, p.half) ELSE word
    IN CASE p.kind = "bool" -> Ok([bool |-> word # 0])
         [] p.kind = "interval" -> Ok([interval |-> word])
         [] t.id = "FLOAT" -> Ok([float |-> word])
         [] t.id = "DOUBLE" -> Ok([double |-> word])
         [] t.id = "ENUM" ->
              IF word < Len(t.info.texts) THEN Ok([text |-> t.info.texts[word + 1]])
              ELSE Fail("out of range")
         [] t.id = "UUID" -> Ok([text |-> Uuids[Wrapped(word + TopBit, p.half)]])
         [] t.id = "DECIMAL" ->
              Ok([decimal |-> n, width |-> t.info.width, scale |-> t.info.scale])
         [] t.id = "DATE" -> Ok([date |-> n])
         [] t.id = "HUGEINT" -> Ok([huge |-> n])
         [] t.id = "UHUGEINT" -> Ok([uhuge |-> n])
         [] OTHER -> Ok(IF p.signed THEN FromInt64(n, t) ELSE [uint |-> n])

\* The last digits of a number, as many as the scale has.
FractionText(n, scale) ==
    LET First[k \in 0..scale] ==
            IF k = 0 THEN ""
            ELSE First[k - 1] \o ToString((n \div Power[scale - k]) % Radix)
    IN First[scale]

\* Slip: the sign is that of the whole part.
DecimalTextOfParts(v) ==
    LET unsigned == IF v.decimal < 0 THEN -v.decimal ELSE v.decimal
        whole == unsigned \div Power[v.scale]
    IN (IF v.decimal < 0 /\ whole > 0 THEN "-" ELSE "") \o ToString(whole)
       \o (IF v.scale = 0 THEN "" ELSE "." \o FractionText(unsigned, v.scale))

\* decimal_to_string.
DecimalText(v) ==
    LET unsigned == IF v.decimal < 0 THEN -v.decimal ELSE v.decimal
    IN (IF v.decimal < 0 THEN "-" ELSE "") \o ToString(unsigned \div Power[v.scale])
       \o (IF v.scale = 0 THEN "" ELSE "." \o FractionText(unsigned, v.scale))

\* encode_string_like_value, value_to_string_lossy.
Text(v) ==
    CASE Is(v, "text") -> v.text
      [] Is(v, "bytes") -> v.bytes
      [] Is(v, "bool") -> IF v.bool THEN "true" ELSE "false"
      [] Is(v, "decimal") -> DecimalText(v)
      [] Is(v, "interval") -> ToString(v.interval)
      [] DOMAIN v \cap {"null", "list", "struct"} # {} -> ""
      [] OTHER -> ToString(v[CHOOSE what \in DOMAIN v : what \notin {"unit", "utc"}])

-------------------------------------------------------------------------------
(* encode_flat_vector_body *)

MaskSize(count) == ((count + MaskBits - 1) \div MaskBits) * MaskBits

NoMask == <<-1>>

\* write_validity_mask: no mask when nothing is NULL.
Mask(values) ==
    IF \A i \in DOMAIN values : ~IsNull(values[i]) THEN NoMask
    ELSE [i \in 1..MaskSize(Len(values)) |->
             IF i <= Len(values) /\ ~IsNull(values[i]) THEN 1 ELSE 0]

Items(v) == IF Is(v, "list") THEN v.list ELSE <<>>

\* Slip: every list starts at the first item.
EntriesFromZero(values) ==
    [i \in DOMAIN values |-> [offset |-> 0, length |-> Len(Items(values[i]))]]

\* A list's items follow those of the lists before it; NULL has none.
Entries(values) ==
    [i \in DOMAIN values |->
        [offset |-> IF IsNull(values[i]) THEN 0
                    ELSE Len(FlattenSeq([j \in 1..i - 1 |-> Items(values[j])])),
         length |-> Len(Items(values[i]))]]

\* The part of a list that an array column puts out for a value: a NULL fills its place.
Padded(v, size) == IF IsNull(v) THEN [k \in 1..size |-> Null] ELSE Items(v)

\* The columns inside a column: of the fields of structs, or of the items of lists.
Inner(values, t) ==
    LET names == Names(t)
        kind == Physical(t).kind
        Column(column, type) == [values |-> column, type |-> type]
    IN CASE kind = "struct" ->
              [k \in DOMAIN names |->
                  Column([i \in DOMAIN values |-> Child(values[i], names[k])],
                         t.info.children[k])]
         [] kind = "list" ->
              <<Column(FlattenSeq([i \in DOMAIN values |-> Items(values[i])]), t.info.child)>>
         [] kind = "array" ->
              <<Column(FlattenSeq([i \in DOMAIN values |-> Padded(values[i], t.info.size)]),
                       t.info.child)>>
         [] OTHER -> <<>>

\* A flat vector, of the vectors of the columns inside.
EncodedOf(values, t, vectors) ==
    LET kind == Physical(t).kind
        mask == Mask(values)
        words == Collect([i \in DOMAIN values |-> WordOf(values[i], t)])
        inner == Collect(vectors)
        NotLists == {i \in DOMAIN values : ~IsNull(values[i]) /\ ~Is(values[i], "list")}
    IN CASE kind \in FixedKinds ->
              IF words.ok THEN Ok([form |-> "flat", mask |-> mask, words |-> words.value])
              ELSE words
         [] kind = "text" ->
              Ok([form |-> "flat", mask |-> mask,
                  texts |-> [i \in DOMAIN values |-> Text(values[i])]])
         [] kind = "struct" ->
              IF inner.ok THEN Ok([form |-> "flat", mask |-> mask, vectors |-> inner.value])
              ELSE inner
         [] kind = "list" ->
              IF NotLists # {} THEN Fail("not a list")
              ELSE IF inner.ok
              THEN Ok([form |-> "flat", mask |-> mask, size |-> Len(Inner(values, t)[1].values),
                       entries |-> Entries(values), child |-> inner.value[1]])
              ELSE inner
         [] kind = "array" ->
              IF \/ NotLists # {}
                 \/ \E i \in DOMAIN values :
                       ~IsNull(values[i]) /\ Len(Items(values[i])) # t.info.size
              THEN Fail("not an array")
              ELSE IF inner.ok
              THEN Ok([form |-> "flat", mask |-> mask, size |-> t.info.size,
                       child |-> inner.value[1]])
              ELSE inner
         [] kind = "none" -> Fail("unsupported")

-------------------------------------------------------------------------------
(* decode_vector_body *)

\* Slip: the increment is added before the first value.
SequenceFromNext(vector, t, count) ==
    [i \in 1..count |->
        FromInt64(Signed(Wrapped(vector.start + vector.increment * i, Half[64]), Half[64]), t)]

\* decode_sequence_value: 64 bits of the number, of a DATE 32, whatever the type.
SequenceValues(vector, t, count) ==
    LET Cut(n, size) == Signed(Wrapped(n, Half[size]), Half[size])
        At(i) == vector.start + vector.increment * (i - 1)
    IN [i \in 1..count |-> IF t.id = "DATE" THEN [date |-> Cut(At(i), 32)]
                           ELSE FromInt64(Cut(At(i), 64), t)]

IsValid(vector, i) == vector.mask = NoMask \/ vector.mask[i] = 1

\* A value without a bit of the mask is an index out of range: a panic, which ends the
\* caller's task, where other wrong lengths are errors.  No value comes of either.
Masked(decoded, vector, count) ==
    IF vector.mask # NoMask /\ Len(decoded) > count THEN Fail("panic")
    ELSE Ok([i \in DOMAIN decoded |-> IF IsValid(vector, i) THEN decoded[i] ELSE Null])

\* Slip: a list may have entries for fewer rows than there are.
LengthsAgreeAtMost(vector, t, count) ==
    LET kind == Physical(t).kind
    IN /\ vector.mask # NoMask => Len(vector.mask) = MaskSize(count)
       /\ kind \in FixedKinds => Len(vector.words) = count
       /\ kind = "list" => Len(vector.entries) <= count
       /\ kind = "array" => vector.size = t.info.size
       /\ kind = "struct" => Len(vector.vectors) <= Len(Names(t))

\* The lengths that decode_flat_vector_body checks: not that of the texts.
LengthsAgree(vector, t, count) ==
    LET kind == Physical(t).kind
    IN /\ vector.mask # NoMask => Len(vector.mask) = MaskSize(count)
       /\ kind \in FixedKinds => Len(vector.words) = count
       /\ kind = "list" => Len(vector.entries) = count
       /\ kind = "array" => vector.size = t.info.size
       /\ kind = "struct" => Len(vector.vectors) <= Len(Names(t))

\* The vectors inside a vector, with their types and how many values they are read for.
InnerVectors(vector, t, count) ==
    LET kind == Physical(t).kind
        Part(v, type, n) == [vector |-> v, type |-> type, count |-> n]
    IN CASE vector.form = "constant" ->
              <<Part(vector.of, t, IF count > 0 THEN 1 ELSE 0)>>
         [] vector.form = "dictionary" -> <<Part(vector.of, t, vector.size)>>
         [] vector.form = "flat" /\ kind = "struct" ->
              [k \in DOMAIN vector.vectors |->
                  Part(vector.vectors[k], t.info.children[k], count)]
         [] vector.form = "flat" /\ kind = "list" ->
              <<Part(vector.child, t.info.child, vector.size)>>
         [] vector.form = "flat" /\ kind = "array" ->
              <<Part(vector.child, t.info.child, vector.size * count)>>
         [] OTHER -> <<>>

\* The values of a flat vector, of those of the vectors inside.  Every word is looked
\* at, that of a NULL too; the texts, lists and structs of NULLs are not.  Of fields of
\* one name the last stays.
DecodedFlat(vector, t, count, inner) ==
    LET kind == Physical(t).kind
        names == Names(t)
        all == 1..(IF kind = "list" THEN Len(vector.entries) ELSE count)
        valid == {i \in all : IsValid(vector, i)}
        parts == Collect(inner)
        Part(k, i) == IF i \in DOMAIN parts.value[k] THEN parts.value[k][i] ELSE Null
        items == parts.value[1]
        Span(i) == IF kind = "list" THEN vector.entries[i]
                   ELSE [offset |-> vector.size * (i - 1), length |-> vector.size]
        Slice(i) == SubSeq(items, Span(i).offset + 1, Span(i).offset + Span(i).length)
    IN CASE kind \in FixedKinds ->
              Collect([i \in all |-> FromWord(vector.words[i], t)])
         [] kind = "text" ->
              IF t.id \in BytesIds
              THEN Ok([i \in DOMAIN vector.texts |-> [bytes |-> vector.texts[i]]])
              ELSE IF \E i \in valid \cap DOMAIN vector.texts : vector.texts[i] \in NotUtf8
              THEN Fail("not UTF-8")
              ELSE Ok([i \in DOMAIN vector.texts |-> [text |-> vector.texts[i]]])
         [] kind = "struct" ->
              IF ~parts.ok THEN parts
              ELSE IF Len(vector.vectors) < Len(names) /\ valid # {} THEN Fail("incomplete")
              ELSE Ok([i \in all |-> IF i \notin valid THEN Null
                       ELSE [struct |-> [name \in ToSet(names) |->
                                Part(Max({k \in DOMAIN names : names[k] = name}), i)]]])
         [] kind \in {"list", "array"} ->
              IF ~parts.ok THEN parts
              ELSE IF \E i \in valid : Span(i).offset + Span(i).length > Len(items)
              THEN Fail("panic")
              ELSE Ok([i \in all |-> IF i \in valid THEN ListOf(Slice(i)) ELSE Null])

\* decode_vector_body: FSST is refused; a constant vector holds one value, a dictionary
\* any number.
DecodedOf(vector, t, count, inner) ==
    LET flat == DecodedFlat(vector, t, count, inner)
        of == inner[1]
    IN CASE vector.form = "fsst" -> Fail("unsupported")
         [] vector.form = "sequence" -> Ok(SequenceValues(vector, t, count))
         [] vector.form = "flat" ->
              IF Physical(t).kind = "none" THEN Fail("unsupported")
              ELSE IF ~LengthsAgree(vector, t, count) THEN Fail("length")
              ELSE IF flat.ok THEN Masked(flat.value, vector, count) ELSE flat
         [] vector.form = "constant" ->
              IF ~of.ok THEN of
              ELSE Ok([i \in 1..count |-> IF of.value = <<>> THEN Null ELSE of.value[1]])
         [] vector.form = "dictionary" ->
              IF ~of.ok THEN of
              ELSE IF Len(vector.selection) # count THEN Fail("length")
              ELSE IF \E i \in 1..count : vector.selection[i] >= Len(of.value)
              THEN Fail("out of range")
              ELSE Ok([i \in 1..count |-> of.value[vector.selection[i] + 1]])
===============================================================================

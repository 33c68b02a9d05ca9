------------------------------- MODULE ColumnViews -------------------------------
(***************************************************************************)
(* A column on its way, and what is made of it when it has been read: an   *)
(* Arrow record batch, and JSON.                                           *)
(***************************************************************************)
EXTENDS ColumnPath, JsonValues, ArrowColumns

CONSTANTS JsonOptions,  \* the options of some callers
          OtherSchemas  \* types of a PREPARE_RESPONSE that is not of this chunk

ASSUME OptionsAssumption == JsonOptions \subseteq Options

VARIABLE batch  \* the record batch of the chunk, or why there is none

viewVars == <<values, type, sent, stage, chunk, batch>>

ViewInit == Init /\ batch = Unknown

Travel == Next /\ UNCHANGED batch

\* into_record_batches: the schema is that of the PREPARE_RESPONSE.
ToArrow ==
    /\ chunk.ok /\ batch = Unknown
    /\ \E t \in {chunk.value.type} \cup OtherSchemas :
          LET schema == ArrowType(t)
          IN batch' = IF schema.ok THEN RecordBatch(chunk.value, schema.value) ELSE schema
    /\ UNCHANGED vars

ViewNext == Travel \/ ToArrow

ViewSpec == ViewInit /\ [][ViewNext]_viewVars

-------------------------------------------------------------------------------
(* Properties *)

\* The items and bytes of a value, at any depth.
RECURSIVE Bulk(_)
Bulk(v) ==
    LET Sum(s) == FoldSeq(LAMBDA x, total : total + x, 0, s)
    IN CASE Is(v, "list") -> Len(v.list) + Sum([k \in DOMAIN v.list |-> Bulk(v.list[k])])
         [] Is(v, "struct") ->
              MapThenSumSet(LAMBDA name : Bulk(v.struct[name]), DOMAIN v.struct)
         [] Is(v, "text") -> Len(v.text)
         [] Is(v, "bytes") -> Len(v.bytes)
         [] OTHER -> 0

\* Arrow has a time of the day, and an interval in nanoseconds of 64 bits.
RECURSIVE Carried(_)
Carried(v) ==
    /\ Is(v, "time") => v.time \in 0..Day[v.unit] - 1
    /\ Is(v, "interval") => InWord(v.interval[3] * NanosPerMicro, Half[64], TRUE)
    /\ Is(v, "list") => \A k \in DOMAIN v.list : Carried(v.list[k])
    /\ Is(v, "struct") => \A name \in DOMAIN v.struct : Carried(v.struct[name])

\* Its decimals have a digit at least, and no more of them after the point than in all.
RECURSIVE CarriedType(_)
CarriedType(t) ==
    /\ t.id = "DECIMAL" => ArrowDecimal(t.info)
    /\ \A k \in DOMAIN TypesInside(t) : CarriedType(TypesInside(t)[k])

RECURSIVE Unnamed(_)
Unnamed(a) ==
    CASE a.arrow \in {"List", "FixedSizeList"} -> [a EXCEPT !.item = Unnamed(@)]
      [] a.arrow = "Struct" ->
           [arrow |-> a.arrow, fields |-> [k \in DOMAIN a.fields |-> Unnamed(a.fields[k])]]
      [] OTHER -> a

\* The record batch of a chunk says what its rows say, a NULL list apart from an
\* empty one; a column that the type can hold and Arrow can carry has one; and a
\* schema that is not the chunk's can change the names inside a struct and nothing
\* else (arrow/mod.rs:57-89, arrow/columns.rs:36-321).
ArrowAgrees ==
    /\ chunk.ok \/ batch = Unknown
    /\ batch.ok =>
        LET own == ArrowType(chunk.value.type).value
        IN /\ Unnamed(batch.value.schema) = Unnamed(own)
           /\ batch.value.schema = own =>
                \A i \in DOMAIN values :
                    ReadSlot(batch.value.array, i) = InArrow(chunk.value.values[i])
    /\ chunk.ok /\ stage # "altered" /\ WellTyped =>
        LET own == ArrowType(type.value)
            rows == [list |-> HeldColumn.value]
        IN own.ok /\ CarriedType(type.value) /\ Carried(rows) /\ Bulk(rows) - Len(values) <= MaxOffset =>
             RecordBatch(chunk.value, own.value).ok

\* A value with NULL in the place of every float that is not finite.
RECURSIVE Finite(_)
Finite(v) ==
    CASE Is(v, "float") /\ v.float \in NonFinite -> Null
      [] Is(v, "double") /\ v.double \in NonFinite -> Null
      [] Is(v, "list") -> [list |-> [k \in DOMAIN v.list |-> Finite(v.list[k])]]
      [] Is(v, "struct") ->
           [struct |-> [name \in DOMAIN v.struct |-> Finite(v.struct[name])]]
      [] OTHER -> v

\* Values of a column that differ have different JSON, with every option: signs,
\* fractions before the epoch and NULLs included, at any depth.  Only NaN and the
\* infinities are lost: their JSON is null, as that of a NULL (json.rs:51-225).
JsonTellsApart ==
    chunk.ok =>
        LET found == chunk.value.values
        IN \A i, j \in DOMAIN found, options \in JsonOptions :
              Json(found[i], options).ok /\ Json(found[i], options) = Json(found[j], options)
                  => Finite(found[i]) = Finite(found[j])

\* to_record_batch: "Returns an error if the chunk's column types do not match the
\* schema" (arrow/mod.rs:56).
MismatchIsRefused ==
    batch.ok => batch.value.schema = ArrowType(chunk.value.type).value
===============================================================================

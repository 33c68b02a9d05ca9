------------------------------ MODULE MCColumnPath ------------------------------
(* Columns of up to three values of every kind, with NULLs, empty and nested  *)
(* lists, structs that lack a name, arrays, numbers at the edges of every     *)
(* width and values of two kinds in one column.                               *)
EXTENDS ColumnViews, VectorCodec, TypeCodec

TextOf(s) == [text |-> s]
Row(x, y) == [struct |-> [x |-> x, y |-> y]]
OnlyX(x) == [struct |-> [n \in {"x"} |-> x]]

MCHalf == 8 :> 2 @@ 16 :> 4 @@ 32 :> 8 @@ 64 :> 32 @@ 128 :> 128
MCDigits == 16 :> 2 @@ 32 :> 3 @@ 64 :> 5 @@ 128 :> 7
MCEnumLimit == 8 :> 2 @@ 16 :> 4
MCDay == [micros |-> 8, nanos |-> 24]

MCNumbers ==
    LET Say(negative, whole, fraction) ==
            [negative |-> negative, whole |-> whole, fraction |-> fraction]
    IN "3" :> Say(FALSE, 3, <<>>) @@ "-1" :> Say(TRUE, 1, <<>>)
       @@ "1.1" :> Say(FALSE, 1, <<1>>) @@ "-0.1" :> Say(TRUE, 0, <<1>>)

Ints == {Null, IntOf(-8), IntOf(-1), IntOf(7), IntOf(31)}
Texts == {Null, TextOf(""), TextOf("a")}
Lists == {Null, ListOf(<<>>), ListOf(<<IntOf(7)>>), ListOf(<<Null, IntOf(-1)>>)}
Nested == {Null, ListOf(<<>>), ListOf(<<ListOf(<<TextOf("a")>>), Null>>),
           ListOf(<<ListOf(<<>>), ListOf(<<TextOf("b"), TextOf("c")>>)>>)}
Rows == {Null, Row(IntOf(1), TextOf("a")), Row(Null, TextOf("b")), OnlyX(IntOf(3))}
RowsOfLists == {Null, Row(ListOf(<<IntOf(1), IntOf(2)>>), IntOf(1)),
                Row(ListOf(<<>>), Null)}
ListsOfRows == {Null, ListOf(<<Row(IntOf(1), Null), Null>>), ListOf(<<OnlyX(IntOf(2))>>)}
Pairs == {Null, ListOf(<<TextOf("a"), TextOf("b")>>), ListOf(<<Null, TextOf("c")>>)}
Sums == {Null, ListOf(<<TextOf("-0.1"), Null>>), ListOf(<<TextOf("1.1"), IntOf(3)>>),
         ListOf(<<[decimal |-> -5, width |-> 3, scale |-> 1]>>)}

Kinds == {Null, [bool |-> TRUE], [bool |-> FALSE], IntOf(-32), IntOf(1),
        [uint |-> 3], [uint |-> 63], [huge |-> -128], [huge |-> 1], [uhuge |-> 255],
        [uhuge |-> 3], TextOf("3"), TextOf("-1"), TextOf("1.1"), TextOf("-0.1"),
        TextOf("e"), TextOf("uuid0"), TextOf("uuid200"), [bytes |-> "b"], [bytes |-> "ff"],
        [float |-> -2], [float |-> 200], [double |-> 3], [double |-> 100], [double |-> 101],
        [decimal |-> 1, width |-> 3, scale |-> 1], [decimal |-> -1, width |-> 3, scale |-> 1],
        [decimal |-> -5, width |-> 3, scale |-> 1], [decimal |-> 3, width |-> 3, scale |-> 0],
        [date |-> -8], [date |-> 7], [time |-> 7, unit |-> "micros"],
        [time |-> 31, unit |-> "nanos"], [timetz |-> 31],
        [timestamp |-> -32, unit |-> "micros", utc |-> FALSE],
        [timestamp |-> 1, unit |-> "micros", utc |-> TRUE],
        [timestamp |-> 1, unit |-> "nanos", utc |-> FALSE],
        [timestamp |-> -1, unit |-> "nanos", utc |-> FALSE],
        [interval |-> <<-8, 7, 5>>], [interval |-> <<0, 0, 31>>], ListOf(<<IntOf(1)>>),
        OnlyX(IntOf(1))}

MCColumns ==
    BoundedSeq(Ints, 3) \cup BoundedSeq(Texts, 3) \cup BoundedSeq(Lists, 3)
    \cup BoundedSeq(Nested, 2) \cup BoundedSeq(Rows, 3) \cup BoundedSeq(RowsOfLists, 2)
    \cup BoundedSeq(ListsOfRows, 2) \cup BoundedSeq(Pairs, 3) \cup BoundedSeq(Sums, 3)
    \cup BoundedSeq(Kinds, 2)

Integer == Plain("INTEGER")
BigInt == Plain("BIGINT")
Varchar == Plain("VARCHAR")
XY(a, b) == Struct(<<"x", "y">>, <<a, b>>)

MCTypes ==
    {Plain("TINYINT"), Integer, BigInt, Plain("UTINYINT"), Plain("UBIGINT"),
     Plain("HUGEINT"), Plain("UHUGEINT"), Varchar, Plain("UUID"), Plain("DECIMAL"),
     Plain("FLOAT"), Plain("DOUBLE"),
     Plain("POINTER"), Plain("TYPE"), Decimal(2, 0), Decimal(2, 3), Array(Integer, 5),
     Decimal(3, 1), Decimal(7, 2), Enum(<<"e", "f">>),
     Enum(<<"a", "e", "3", "1.1", "b">>), Plain("TIME"), Plain("TIMETZ"),
     Plain("TIMESTAMP_NS"), Plain("SQLNULL"), List(BigInt), Map(Integer, Varchar),
     List(List(Varchar)), List(Plain("DECIMAL")), Enum(<<>>), XY(Integer, Varchar),
     XY(List(Integer), BigInt),
     Struct(<<"x", "x">>, <<Integer, Integer>>), List(XY(BigInt, Varchar)),
     [XY(Integer, Varchar) EXCEPT !.id = "UNION"], Plain("VARIANT"), Typed("BIGINT", [kind |-> "INTEGER_LITERAL"]), List(Decimal(3, 1)),
     Array(Varchar, 2), Array(BigInt, 1), Typed("VARCHAR", [kind |-> "STRING", text |-> "c"])}

\* One for NaN and one for an infinity; a FLOAT has 200.
MCNonFinite == {100, 101, 200}
MCPerSecond == [seconds |-> 1, millis |-> 2, micros |-> 4, nanos |-> 12]
MCJsonOptions == {[bigint |-> "String", tagged |-> {}],
                  [bigint |-> "Number", tagged |-> Taggable]}

MCOtherSchemas == {Integer, Struct(<<"y", "x">>, <<Integer, Varchar>>), List(Integer)}

-------------------------------------------------------------------------------
(* What ColumnPathProofs supposes of the constants, as far as it can be        *)
(* evaluated: for the types and the values of this instance, and all of those  *)
(* inside them.                                                                *)

RECURSIVE TypesWithin(_)
TypesWithin(t) ==
    {t, Plain(t.id)} \cup UNION {TypesWithin(u) : u \in ToSet(TypesInside(t))}

RECURSIVE DepthOf(_)
DepthOf(t) == 1 + Max({0} \cup {DepthOf(u) : u \in ToSet(TypesInside(t))})

RECURSIVE ValuesWithin(_)
ValuesWithin(v) ==
    {v} \cup UNION {ValuesWithin(w) : w \in CASE Is(v, "list") -> ToSet(v.list)
                                               [] Is(v, "struct") -> Range(v.struct)
                                               [] OTHER -> {}}

ASSUME HypothesesHold ==
    LET inferred == {Inferred(column) : column \in Columns}
        T == UNION {TypesWithin(t) : t \in Types \cup {i.value : i \in {j \in inferred : j.ok}}}
        V == UNION {ValuesWithin(v) : v \in {Null} \cup UNION {ToSet(column) : column \in Columns}}
    IN /\ TypesNested(T, [t \in T |-> DepthOf(t)])
       /\ \A v \in V : IsValue(v, V)
       /\ TypesSentAsDefined(T)
       /\ ValuesMadeAsDefined({t \in T : Supported(t)}, V)
       /\ ColumnsGiven(T, V)
===============================================================================

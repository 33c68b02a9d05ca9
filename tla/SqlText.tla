-------------------------------- MODULE SqlText --------------------------------
(***************************************************************************)
(* The text of a query with its parameters put in (src/src/sql.rs): one    *)
(* pass over the bytes that copies quoted texts, quoted names and comments *)
(* whole, replaces placeholders, and copies the rest byte by byte.         *)
(*                                                                         *)
(* A text is a sequence of characters.  ByteA and ByteB stand for a        *)
(* character outside ASCII, which is more than one byte.  Literals are     *)
(* numbers, texts and lists of these; the others are like one of them, or   *)
(* have none.                                                              *)
(***************************************************************************)
EXTENDS Integers, Sequences, SequencesExt, FiniteSetsExt

CONSTANTS Queries,     \* texts of queries
          Parameters,  \* what they are given: None, Positional or Named
          Depth        \* how deep the lists of a parameter nest

ByteA == "byte a"
ByteB == "byte b"
Beyond == {ByteA, ByteB}
DoubleQuote == "double quote"

IsIdentifierStart(c) == c \in {"a", "_"}
IsIdentifierPart(c) == c \in {"a", "_", "1"}

\* The character at i, or nothing.
At(s, i) == IF i \in DOMAIN s THEN s[i] ELSE "end"

\* s.find(pattern) from i on: where it is, or 0.
Find(s, pattern, i) ==
    LET found == {j \in i..Len(s) - Len(pattern) + 1 :
                     SubSeq(s, j, j + Len(pattern) - 1) = pattern}
    IN IF found = {} THEN 0 ELSE Min(found)

-------------------------------------------------------------------------------
(* Literals *)

Number(digits) == [kind |-> "number", text |-> digits]
Text(chars) == [kind |-> "text", text |-> chars]
List(items) == [kind |-> "list", items |-> items]

\* Slip: a quote in a text is left single.
QuotedAsIs(chars) == <<"'">> \o chars \o <<"'">>

Quoted(chars) ==
    LET Doubled(c) == IF c = "'" THEN <<"'", "'">> ELSE <<c>>
    IN <<"'">> \o FlattenSeq([i \in DOMAIN chars |-> Doubled(chars[i])]) \o <<"'">>

Joined(parts) ==
    FlattenSeq([i \in DOMAIN parts |-> IF i = 1 THEN parts[i] ELSE <<",", " ">> \o parts[i]])

\* A sign only before the first digit; a NULL or a truth value is a number, too.
NumberTexts ==
    {t \in Seq(STRING) :
        /\ t # <<>> /\ t[Len(t)] # "-"
        /\ \A i \in DOMAIN t :
              t[i] \notin {"'", DoubleQuote, "/", "*"} /\ (t[i] = "-" => i = 1)}

Scalars == [kind : {"number"}, text : NumberTexts] \cup [kind : {"text"}, text : Seq(STRING)]

Lists(S) == [kind : {"list"}, items : Seq(S)]

\* A scalar that sql_literal refuses (a number that is not finite, a TIMETZ, a list
\* or a struct that is a Value) or panics on (a date or a timestamp out of range).
Unwritable == [kind : {"unwritable"}]

\* Parameters whose lists nest to depth d, and those that have a literal.
ValuesUpTo[d \in 0..Depth] ==
    IF d = 0 THEN Scalars \cup Unwritable
    ELSE Scalars \cup Unwritable \cup Lists(ValuesUpTo[d - 1])

WrittenUpTo[d \in 0..Depth] ==
    IF d = 0 THEN Scalars ELSE Scalars \cup Lists(WrittenUpTo[d - 1])

ValueLiteral(p) == IF p.kind = "text" THEN Quoted(p.text) ELSE p.text

ListLiteral(texts) == <<"[">> \o Joined(texts) \o <<"]">>

\* sql_literal of each of them.
Literals[d \in 0..Depth] ==
    [p \in WrittenUpTo[d] |->
        IF p.kind = "list"
        THEN ListLiteral([i \in DOMAIN p.items |-> Literals[d - 1][p.items[i]]])
        ELSE ValueLiteral(p)]

Values == ValuesUpTo[Depth]
Written == WrittenUpTo[Depth]
Literal(p) == Literals[Depth][p]

ASSUME SqlAssumption ==
    /\ Depth \in Nat
    /\ Queries \subseteq Seq(STRING)
    /\ \A p \in Parameters :
          \/ p.kind = "none"
          \/ p.kind = "positional" /\ p.values \in Seq(Values)
          \/ p.kind = "named" /\ \A n \in DOMAIN p.values : p.values[n] \in Values

-------------------------------------------------------------------------------
(* scan_sql *)

VARIABLES
    sql,     \* the query
    params,  \* its parameters
    index,   \* the next character
    used,    \* positional parameters put in
    output,  \* the text so far
    status   \* "scanning", "done" or the error

vars == <<sql, params, index, used, output, status>>

\* read_single_quoted, read_double_quoted: the end of what quote q opens at i.
QuotedEnd(q, i) ==
    LET end[j \in 1..Len(sql) + 1] ==
            IF j > Len(sql) THEN j
            ELSE IF sql[j] # q THEN end[j + 1]
            ELSE IF At(sql, j + 1) = q THEN end[j + 2]
            ELSE j + 1
    IN end[i + 1]

\* Where a line or block comment that opens at i ends.
CommentEnd(pattern, length, i) ==
    LET found == Find(sql, pattern, i + 2)
    IN IF found = 0 THEN Len(sql) + 1 ELSE found + length

\* Slip: quoted names are read like other text.
RegionEndSingleOnly(i) ==
    CASE sql[i] = "'" -> QuotedEnd("'", i)
      [] sql[i] = "-" /\ At(sql, i + 1) = "-" -> CommentEnd(<<"newline">>, 0, i)
      [] sql[i] = "/" /\ At(sql, i + 1) = "*" -> CommentEnd(<<"*", "/">>, 2, i)
      [] OTHER -> i

\* The end of the quoted text or the comment that opens at i; i, if none does.
RegionEnd(i) ==
    CASE sql[i] \in {"'", DoubleQuote} -> QuotedEnd(sql[i], i)
      [] sql[i] = "-" /\ At(sql, i + 1) = "-" -> CommentEnd(<<"newline">>, 0, i)
      [] sql[i] = "/" /\ At(sql, i + 1) = "*" -> CommentEnd(<<"*", "/">>, 2, i)
      [] OTHER -> i

\* A colon that is not half of a cast opens a name.
IsNamed(i) ==
    /\ sql[i] = ":"
    /\ At(sql, i - 1) # ":"
    /\ IsIdentifierStart(At(sql, i + 1))

NameEnd(i) ==
    LET after == {j \in i + 1..Len(sql) : ~IsIdentifierPart(sql[j])}
    IN IF after = {} THEN Len(sql) + 1 ELSE Min(after)

Init ==
    /\ sql \in Queries
    /\ params \in Parameters
    /\ index = 1
    /\ used = 0
    /\ output = <<>>
    /\ status = "scanning"

\* format_sql without parameters takes the text as it is.
Unscanned ==
    /\ status = "scanning" /\ params.kind = "none"
    /\ output' = sql
    /\ status' = "done"
    /\ UNCHANGED <<sql, params, index, used>>

Scanning(i) ==
    /\ status = "scanning" /\ params.kind # "none"
    /\ index = i /\ i <= Len(sql)

CopyRegion ==
    /\ Scanning(index) /\ RegionEnd(index) > index
    /\ output' = output \o SubSeq(sql, index, RegionEnd(index) - 1)
    /\ index' = RegionEnd(index)
    /\ UNCHANGED <<sql, params, used, status>>

Positional ==
    /\ Scanning(index) /\ sql[index] = "?" /\ params.kind = "positional"
    /\ used < Len(params.values) /\ params.values[used + 1] \in Written
    /\ output' = output \o Literal(params.values[used + 1])
    /\ used' = used + 1
    /\ index' = index + 1
    /\ UNCHANGED <<sql, params, status>>

TooFewParameters ==
    /\ Scanning(index) /\ sql[index] = "?" /\ params.kind = "positional"
    /\ used = Len(params.values)
    /\ status' = "too few parameters"
    /\ UNCHANGED <<sql, params, index, used, output>>

NameAt(i) == SubSeq(sql, i + 1, NameEnd(i) - 1)

Named ==
    /\ Scanning(index) /\ IsNamed(index) /\ params.kind = "named"
    /\ NameAt(index) \in DOMAIN params.values
    /\ params.values[NameAt(index)] \in Written
    /\ output' = output \o Literal(params.values[NameAt(index)])
    /\ index' = NameEnd(index)
    /\ UNCHANGED <<sql, params, used, status>>

MissingParameter ==
    /\ Scanning(index) /\ IsNamed(index) /\ params.kind = "named"
    /\ NameAt(index) \notin DOMAIN params.values
    /\ status' = "missing parameter"
    /\ UNCHANGED <<sql, params, index, used, output>>

\* sql_literal ends the call: an error or a panic.
NoLiteral ==
    /\ Scanning(index)
    /\ \/ /\ sql[index] = "?" /\ params.kind = "positional"
          /\ used < Len(params.values) /\ params.values[used + 1] \notin Written
       \/ /\ IsNamed(index) /\ params.kind = "named"
          /\ NameAt(index) \in DOMAIN params.values
          /\ params.values[NameAt(index)] \notin Written
    /\ status' = "no literal"
    /\ UNCHANGED <<sql, params, index, used, output>>

\* A placeholder of the kind that the parameters are not.
CopyToken ==
    /\ Scanning(index)
    /\ \/ sql[index] = "?" /\ params.kind = "named" /\ index' = index + 1
       \/ IsNamed(index) /\ params.kind = "positional" /\ index' = NameEnd(index)
    /\ output' = output \o SubSeq(sql, index, index' - 1)
    /\ UNCHANGED <<sql, params, used, status>>

\* One byte, taken for one character.
CopyByte ==
    /\ Scanning(index) /\ RegionEnd(index) = index
    /\ sql[index] # "?" /\ ~IsNamed(index)
    /\ output' = Append(output, IF sql[index] \in Beyond THEN "latin 1" ELSE sql[index])
    /\ index' = index + 1
    /\ UNCHANGED <<sql, params, used, status>>

Finish ==
    /\ status = "scanning" /\ params.kind # "none"
    /\ index > Len(sql)
    /\ status' = IF params.kind = "positional" /\ used # Len(params.values)
                 THEN "too many parameters" ELSE "done"
    /\ UNCHANGED <<sql, params, index, used, output>>

Next ==
    \/ Unscanned \/ CopyRegion \/ Positional \/ TooFewParameters
    \/ Named \/ MissingParameter \/ NoLiteral \/ CopyToken \/ CopyByte \/ Finish

Spec == Init /\ [][Next]_vars

-------------------------------------------------------------------------------
(* What the characters of a query mean, one at a time *)

\* The mode after a character c, followed by d, in mode m.
After(m, c, d) ==
    CASE m = "code" /\ c = "'" -> "text"
      [] m = "code" /\ c = DoubleQuote -> "name"
      [] m = "code" /\ c = "-" /\ d = "-" -> "line"
      [] m = "code" /\ c = "/" /\ d = "*" -> "opening"
      [] m = "text" /\ c = "'" -> "code"
      [] m = "name" /\ c = DoubleQuote -> "code"
      [] m = "line" /\ c = "newline" -> "code"
      [] m = "opening" -> "block"
      [] m = "block" /\ c = "*" /\ d = "/" -> "closing"
      [] m = "closing" -> "code"
      [] OTHER -> m

\* The mode before each character of s.
Modes(s) ==
    LET mode[i \in 1..Len(s) + 1] ==
            IF i = 1 THEN "code" ELSE After(mode[i - 1], s[i - 1], At(s, i))
    IN mode

Code == {i \in DOMAIN sql : Modes(sql)[i] = "code"}

\* Where parameters go.
Placeholders ==
    CASE params.kind = "positional" -> {i \in Code : sql[i] = "?"}
      [] params.kind = "named" -> {i \in Code : IsNamed(i)}
      [] OTHER -> {}

PlaceholderEnd(i) == IF sql[i] = "?" THEN i + 1 ELSE NameEnd(i)

ValueAt(i) ==
    IF params.kind = "positional"
    THEN params.values[Cardinality({j \in Placeholders : j <= i})]
    ELSE params.values[NameAt(i)]

\* All placeholders have a value that has a literal, and all positional values have
\* a placeholder.
Given ==
    CASE params.kind = "positional" ->
            /\ Cardinality(Placeholders) = Len(params.values)
            /\ \A k \in DOMAIN params.values : params.values[k] \in Written
      [] params.kind = "named" ->
            \A i \in Placeholders :
               NameAt(i) \in DOMAIN params.values /\ params.values[NameAt(i)] \in Written
      [] OTHER -> TRUE

\* What each character of the query becomes.
Becomes ==
    LET within == UNION {i + 1..PlaceholderEnd(i) - 1 : i \in Placeholders}
    IN [i \in DOMAIN sql |->
           IF i \in Placeholders THEN Literal(ValueAt(i))
           ELSE IF i \in within THEN <<>>
           ELSE <<sql[i]>>]

-------------------------------------------------------------------------------
(* Properties *)

\* Outside quotes and comments the text is ASCII: the code takes the bytes of
\* other characters for characters of their own (sql.rs:265).
PlainCode == \A i \in Code : sql[i] \notin Beyond \/ params.kind = "none"

\* In a query that is ASCII outside quotes and comments, a placeholder is replaced
\* if and only if it is neither quoted nor a comment, by its own parameter, and
\* everything else stays.  A query is refused, whatever its characters, only for a
\* parameter too few or too many, or for one of a placeholder that has no literal;
\* and none is sent with one of these (sql.rs:119-269).
FormatsWhatIsCode ==
    /\ status = "done" => Given /\ (PlainCode => output = FlattenSeq(Becomes))
    /\ status \notin {"scanning", "done"} => ~Given

\* No placeholder touches a quote, a minus or another one, which could join
\* with its literal.
Apart ==
    \A i \in Placeholders :
        /\ At(sql, i - 1) \notin {"'", "-"} /\ At(sql, PlaceholderEnd(i)) # "'"
        /\ PlaceholderEnd(i) \notin Placeholders

\* A literal is one: whatever characters a parameter has, those of the query
\* around it mean in the formatted text what they meant in the query
\* (sql.rs:105-207).
LiteralsKeepMeaning ==
    status = "done" /\ PlainCode /\ Apart =>
        LET modes == Modes(output)
            Start(i) == Len(FlattenSeq(SubSeq(Becomes, 1, i - 1))) + 1
        IN \A i \in DOMAIN sql : Becomes[i] # <<>> => modes[Start(i)] = Modes(sql)[i]
===============================================================================

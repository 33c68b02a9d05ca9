------------------------------- MODULE MCSqlText -------------------------------
(* All texts of up to four parts, each part a character or two that open or   *)
(* close something, a placeholder or its neighbour; parameters too few, too   *)
(* many, negative, with quotes and placeholders in their own text, and        *)
(* without a literal, also inside a list and where no placeholder asks.       *)
EXTENDS SqlText

Parts == {<<"'">>, <<DoubleQuote>>, <<"-">>, <<"-", "-">>, <<"/", "*">>, <<"*", "/">>,
          <<"newline">>, <<"?">>, <<":">>, <<":", "a">>, <<"1">>, <<" ">>, <<ByteA, ByteB>>}

MCQueries == {FlattenSeq(parts) : parts \in BoundedSeq(Parts, 4)}

Minus == Number(<<"-", "1">>)
Can == Text(<<"a", "'", "?">>)
Comment == Text(<<"'", "-", "-">>)

None == [kind |-> "unwritable"]

PositionalOf(s) == [kind |-> "positional", values |-> s]
NamedOf(f) == [kind |-> "named", values |-> f]

MCParameters ==
    {[kind |-> "none"], PositionalOf(<<>>), PositionalOf(<<Can>>),
     PositionalOf(<<Comment, List(<<Minus, List(<<Can>>)>>)>>),
     PositionalOf(<<Can, List(<<Minus, None>>)>>),
     NamedOf([n \in {<<"a">>} |-> Comment]),
     NamedOf([n \in {<<"a">>, <<"a", "1">>} |-> IF n = <<"a">> THEN Can ELSE None]), NamedOf([n \in {<<"a", "1">>} |-> Minus])}
===============================================================================

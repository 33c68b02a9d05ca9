----------------------------- MODULE MCAppendRows -----------------------------
(* Calls for AppendRows: batches that fit and that do not, an empty batch of *)
(* rows with and without columns, rows of one shape and rows that differ.    *)
EXTENDS AppendRows

Both  == [n \in Keys |-> "value"]
Nulls(a) == [n \in Keys |-> IF n = a THEN "null" ELSE "value"]
Only(a) == [n \in Keys |-> IF n = a THEN "value" ELSE "absent"]
Call(rows, columns, size) == [rows |-> rows, columns |-> columns, batch_size |-> size]

MCInputs ==
    {Call(<<Both, Both, Both>>, NoColumns, 2),          \* a short last batch
     Call(<<Nulls("a"), Both, Nulls("b")>>, NoColumns, 2), \* the last cannot infer b
     Call(<<Only("a"), Both>>, NoColumns, NoBatchSize), \* b of the second is dropped
     Call(<<Nulls("b"), Both>>, {"a", "b"}, 1),
     Call(<<>>, {"a"}, NoBatchSize),
     Call(<<>>, NoColumns, NoBatchSize),
     Call(<<Both>>, NoColumns, 0)}
===============================================================================

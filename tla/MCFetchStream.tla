----------------------------- MODULE MCFetchStream -----------------------------
(* A result of up to three batches after one inline chunk: batch 1 has two     *)
(* chunks, batches 2 and 3 one.  A third batch has the index that the wire     *)
(* keeps for "no index".                                                       *)
EXTENDS FetchStream

MCBound == [b \in 0..3 |-> CASE b = 0 -> 1 [] b = 1 -> 3 [] b = 2 -> 4 [] b = 3 -> 5]
===============================================================================

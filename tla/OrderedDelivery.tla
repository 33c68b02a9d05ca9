---------------------------- MODULE OrderedDelivery ----------------------------
(***************************************************************************)
(* What a QuackResultStream promises to its consumer: the chunks of the    *)
(* result, each once and in the server's order.  A stream that ends by     *)
(* itself has yielded them all; a stream that fails or is dropped has      *)
(* yielded the first few.  The server says where the result ends: it may   *)
(* cut it short at what has been yielded, and the consumer cannot tell.    *)
(***************************************************************************)
EXTENDS Naturals, Sequences

VARIABLES size,    \* chunks in the result, numbered 1..size
          out,     \* the chunks yielded so far
          status

vars == <<size, out, status>>

Init ==
    /\ size \in Nat
    /\ out = <<>>
    /\ status = "open"

Deliver ==
    /\ status = "open"
    /\ Len(out) < size
    /\ out' = Append(out, Len(out) + 1)
    /\ UNCHANGED <<size, status>>

\* The server's doing, not the stream's: the result is no longer than this.
CutShort ==
    /\ status = "open"
    /\ Len(out) < size
    /\ size' = Len(out)
    /\ UNCHANGED <<out, status>>

End ==
    /\ status = "open"
    /\ Len(out) = size
    /\ status' = "ended"
    /\ UNCHANGED <<size, out>>

Stop ==
    /\ status = "open"
    /\ status' = "stopped"
    /\ UNCHANGED <<size, out>>

Next == Deliver \/ CutShort \/ End \/ Stop

Spec == Init /\ [][Next]_vars
===============================================================================

----------------------------- MODULE ServedStreams -----------------------------
(***************************************************************************)
(* What a connection that several tasks share promises to each of them: no *)
(* two results are open at once, and the batches that a result still has   *)
(* on the server reach its stream one by one, whatever the other tasks do. *)
(* A result may be lost, and its stream then fails; a stream that is told  *)
(* it is complete has had them all.                                        *)
(***************************************************************************)
EXTENDS Naturals

CONSTANT Callers

VARIABLE streams  \* of each task: whether it has one, and the batches due to it

None == [state |-> "none", due |-> 0]
States == {"none", "open", "complete", "lost"}

Change(c) == streams' = [streams EXCEPT ![c] = streams'[c]]

Init == streams = [c \in Callers |-> None]

\* The result of a query, of any size: it may be lost already.
Open(c) ==
    /\ \A d \in Callers : streams[d] = None
    /\ streams'[c].state \in States \ {"none"}
    /\ streams'[c].due \in Nat
    /\ streams'[c].state # "open" => streams'[c].due = 0
    /\ Change(c)

Deliver(c) ==
    /\ streams[c].state = "open"
    /\ streams[c].due > 0
    /\ streams' = [streams EXCEPT ![c].due = @ - 1]

Complete(c) ==
    /\ streams[c] = [state |-> "open", due |-> 0]
    /\ streams' = [streams EXCEPT ![c].state = "complete"]

Lose(c) ==
    /\ streams[c].state = "open"
    /\ streams' = [streams EXCEPT ![c] = [state |-> "lost", due |-> 0]]

\* The stream is over or is dropped.
Close(c) ==
    /\ streams[c] # None
    /\ streams' = [streams EXCEPT ![c] = None]

Next == \E c \in Callers : Open(c) \/ Deliver(c) \/ Complete(c) \/ Lose(c) \/ Close(c)

Spec == Init /\ [][Next]_streams
===============================================================================

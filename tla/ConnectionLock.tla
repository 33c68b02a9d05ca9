---------------------------- MODULE ConnectionLock ----------------------------
(***************************************************************************)
(* The tokio mutex around the Connection of a QuackClient (field           *)
(* `connection' of src/src/client.rs).  tokio hands the permit to waiters  *)
(* in the order in which they asked, so the lock is a holder and a queue.  *)
(* A task that finds the lock free joins the empty queue and is its head.  *)
(* A guard may be moved (lock_owned), so a holder is a caller, whatever    *)
(* value of its own the guard lives in.                                    *)
(***************************************************************************)
EXTENDS Naturals, Sequences, SequencesExt

CONSTANTS Callers,   \* the tasks that use clones of one QuackClient
          NoCaller

ASSUME NoCallerAssumption == NoCaller \notin Callers

VARIABLES holder,    \* the task whose call or stream owns the guard
          queue      \* the tasks awaiting the lock, oldest first

lockVars == <<holder, queue>>

LockInit ==
    /\ holder = NoCaller
    /\ queue = <<>>

\* `self.connection.lock().await' or `lock_owned().await' is polled.
Enqueue(c) ==
    /\ queue' = Append(queue, c)
    /\ UNCHANGED holder

\* The permit reaches the oldest waiter.
Grant(c) ==
    /\ holder = NoCaller
    /\ queue # <<>>
    /\ Head(queue) = c
    /\ holder' = c
    /\ queue' = Tail(queue)

\* The guard, or the value it was moved into, is dropped.
Release(c) ==
    /\ holder = c
    /\ holder' = NoCaller
    /\ UNCHANGED queue

\* The future awaiting the lock is dropped before the permit reached it.
Withdraw(c) ==
    /\ \E i \in DOMAIN queue :
          /\ queue[i] = c
          /\ queue' = RemoveAt(queue, i)
    /\ UNCHANGED holder

LockTypeOK ==
    /\ holder \in Callers \cup {NoCaller}
    /\ queue \in Seq(Callers)
===============================================================================

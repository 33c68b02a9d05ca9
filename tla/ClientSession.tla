----------------------------- MODULE ClientSession -----------------------------
(***************************************************************************)
(* One QuackClient, its clones and their streams: the calls that several   *)
(* tasks make on one connection of a Quack server, the lock that           *)
(* serialises them, the heartbeat task and the `closed' flag they share    *)
(* (src/src/client.rs).  The server is external: it keeps one cursor per   *)
(* connection id, and a request that its caller gave up on may still reach *)
(* it, later than a newer one, because each request has an HTTP connection *)
(* of its own (pool_max_idle_per_host(0)).                                 *)
(* A result is named by the client_query_id of its PREPARE: query_uuid and *)
(* result_uuid are as unique, and the code compares neither.               *)
(***************************************************************************)
EXTENDS ConnectionLock, FiniteSets

CONSTANTS MaxRequests,  \* bound: no new call once this many requests were sent
          MaxFetches    \* bound: batches a result has beyond its PREPARE

ASSUME CallersAssumption == Callers # {}
ASSUME BoundsAssumption == MaxRequests \in Nat /\ MaxFetches \in Nat

VARIABLES
    quack_version, \* the version that QuackClient::connect negotiated
    pc,            \* where each task is
    op,            \* the call it makes
    stream,        \* its open result: [result, more], result 0 before PREPARE
    awaits,        \* id of the request it awaits the answer of, 0 if none
    closed,        \* ConnectionLease.closed
    queryCounter,  \* next client_query_id
    handles,       \* tasks that still hold a clone of the QuackClient
    hb,            \* where the heartbeat task is
    inflight,      \* scoped requests the server has not processed yet
    replies,       \* answers on their way to the task that awaits them
    session,       \* the server still knows the connection id
    cursor,        \* the server's resumable cursor: [result, left]
    abandoned,     \* history: ids of the requests whose caller gave up on them
    disconnected,  \* history: a disconnect() call has closed the connection
    lateScoped,    \* history: scoped requests sent while closed
    lateBeats      \* history: heartbeats sent while closed

callerVars  == <<pc, op, stream, awaits>>
stateVars   == <<closed, queryCounter>>
taskVars    == <<quack_version, handles, hb>>
serverVars  == <<inflight, replies, session, cursor>>
historyVars == <<abandoned, disconnected, lateScoped, lateBeats>>
vars == <<lockVars, callerVars, stateVars, taskVars, serverVars, historyVars>>

Ops == {"query", "append", "disconnect"}
Kinds == {"PREPARE", "FETCH", "APPEND", "DISCONNECT"}
Outcomes == {"more", "end", "success", "error"}
Requests == [id : Nat, kind : Kinds, result : Nat]

\* The states in which a task's call or stream owns the connection guard.
Holding == {"locked", "sending", "awaiting", "streaming", "errored"}
HeartbeatRunning == {"sleeping", "checked", "awaiting"}

NoStream == [result |-> 0, more |-> FALSE]

\* Both counters of a Connection start at 1.  Slip: at 0, the id of no request.
FirstQueryIdZero == 0
FirstQueryId == 1

TypeOK ==
    /\ LockTypeOK
    /\ quack_version \in {1, 3}
    /\ pc \in [Callers -> Holding \cup {"idle", "waiting"}]
    /\ op \in [Callers -> Ops]
    /\ stream \in [Callers -> [result : Nat, more : BOOLEAN]]
    /\ awaits \in [Callers -> Nat]
    /\ closed \in BOOLEAN
    /\ queryCounter \in Nat \ {0}
    /\ handles \subseteq Callers
    /\ hb \in HeartbeatRunning \cup {"none", "exited", "aborted"}
    /\ inflight \subseteq Requests
    /\ replies \subseteq [id : Nat, outcome : Outcomes]
    /\ session \in BOOLEAN
    /\ cursor \in [result : Nat, left : Nat]
    /\ abandoned \subseteq Nat
    /\ disconnected \in BOOLEAN
    /\ lateScoped \in Nat
    /\ lateBeats \in Nat

\* QuackClient::connect has returned Ok; each task got a clone of the client.
Init ==
    /\ LockInit
    /\ quack_version \in {1, 3}
    /\ pc = [c \in Callers |-> "idle"]
    /\ op = [c \in Callers |-> "query"]
    /\ stream = [c \in Callers |-> NoStream]
    /\ awaits = [c \in Callers |-> 0]
    /\ closed = FALSE
    /\ queryCounter = FirstQueryId
    /\ handles = Callers
    /\ hb = IF quack_version = 3 THEN "sleeping" ELSE "none"
    /\ inflight = {}
    /\ replies = {}
    /\ session = TRUE
    /\ cursor = [result |-> 0, left |-> 0]
    /\ abandoned = {}
    /\ disconnected = FALSE
    /\ lateScoped = 0
    /\ lateBeats = 0

-------------------------------------------------------------------------------
(* The calls of a task *)

Goto(c, s) == pc' = [pc EXCEPT ![c] = s]

\* query, append and disconnect all start by awaiting the lock.
Call(c, o) ==
    /\ pc[c] = "idle"
    /\ c \in handles
    /\ queryCounter <= MaxRequests
    /\ Goto(c, "waiting")
    /\ op' = [op EXCEPT ![c] = o]
    /\ Enqueue(c)
    /\ UNCHANGED <<stream, awaits, stateVars, taskVars, serverVars, historyVars>>

Acquire(c) ==
    /\ pc[c] = "waiting"
    /\ Grant(c)
    /\ Goto(c, "locked")
    /\ UNCHANGED <<op, stream, awaits, stateVars, taskVars, serverVars, historyVars>>

\* The guard is dropped and the call or stream is over.
Finish(c) ==
    /\ Release(c)
    /\ Goto(c, "idle")
    /\ stream' = [stream EXCEPT ![c] = NoStream]

\* The task keeps the guard; its stream is in state s.
Keep(c, s) ==
    /\ Goto(c, s)
    /\ UNCHANGED <<lockVars, stream>>

Fetching(c) == stream[c].result # 0

\* Slip: the calls do not look at `closed'.
RefusedByVersionOnly(c) == op[c] = "append" /\ quack_version # 1

\* Connection::ensure_open, and the version check of append.
Refused(c) == closed \/ (op[c] = "append" /\ quack_version # 1)

\* A closed connection fails a call, ends a stream with an error, and lets
\* disconnect return Ok without a message.
EnsureOpen(c) ==
    /\ pc[c] = "locked"
    /\ \/ ~Refused(c) /\ Keep(c, "sending")
       \/ Refused(c) /\ ~Fetching(c) /\ Finish(c)
       \/ Refused(c) /\ Fetching(c) /\ Keep(c, "errored")
    /\ UNCHANGED <<op, awaits, stateVars, taskVars, serverVars, historyVars>>

Kind(c) ==
    CASE op[c] = "query" -> IF Fetching(c) THEN "FETCH" ELSE "PREPARE"
      [] op[c] = "append" -> "APPEND"
      [] op[c] = "disconnect" -> "DISCONNECT"

\* scoped_header takes the next client_query_id; the message leaves.
Send(c) ==
    /\ pc[c] = "sending"
    /\ Goto(c, "awaiting")
    /\ inflight' = inflight \cup
          {[id |-> queryCounter, kind |-> Kind(c), result |-> stream[c].result]}
    /\ awaits' = [awaits EXCEPT ![c] = queryCounter]
    /\ queryCounter' = queryCounter + 1
    /\ lateScoped' = IF closed THEN lateScoped + 1 ELSE lateScoped
    /\ UNCHANGED <<lockVars, op, stream, closed, taskVars, replies, session,
                   cursor, abandoned, disconnected, lateBeats>>

\* The answers a task may see: the server's, or the error of a request that
\* timed out or lost its connection, whether the server gets it or not.
Answers(c, outcome) ==
    /\ pc[c] = "awaiting"
    /\ \/ /\ [id |-> awaits[c], outcome |-> outcome] \in replies
          /\ UNCHANGED abandoned
       \/ /\ outcome = "error"
          /\ abandoned' = abandoned \cup {awaits[c]}
    /\ replies' = {m \in replies : m.id # awaits[c]}
    /\ awaits' = [awaits EXCEPT ![c] = 0]

\* Slip: prepare drops its guard when it returns.
OpenedUnlocked(c, outcome) ==
    /\ Goto(c, "streaming")
    /\ stream' = [stream EXCEPT ![c] =
           [result |-> awaits[c], more |-> outcome = "more"]]
    /\ holder' = NoCaller
    /\ UNCHANGED queue

\* The guard moves into FetchState and the stream.
Opened(c, outcome) ==
    /\ Goto(c, "streaming")
    /\ stream' = [stream EXCEPT ![c] =
           [result |-> awaits[c], more |-> outcome = "more"]]
    /\ UNCHANGED lockVars

\* QuackClient::prepare, after the await.
PrepareDone(c) ==
    /\ Kind(c) = "PREPARE"
    /\ \E outcome \in {"more", "end", "error"} :
          /\ Answers(c, outcome)
          /\ IF outcome = "error" THEN Finish(c) ELSE Opened(c, outcome)
    /\ UNCHANGED <<op, stateVars, taskVars, inflight, session, cursor,
                   disconnected, lateScoped, lateBeats>>

\* The stream is polled: it fetches, or it is over and drops the guard.
Poll(c) ==
    /\ pc[c] = "streaming"
    /\ IF stream[c].more THEN Keep(c, "locked") ELSE Finish(c)
    /\ UNCHANGED <<op, awaits, stateVars, taskVars, serverVars, historyVars>>

\* One turn of the loop of QuackClient::fetch, after the await.  The stream
\* yields an error and still owns the guard.
FetchDone(c) ==
    /\ Kind(c) = "FETCH"
    /\ \E outcome \in {"more", "end", "error"} :
          /\ Answers(c, outcome)
          /\ IF outcome = "error"
             THEN Keep(c, "errored")
             ELSE /\ Goto(c, "streaming")
                  /\ stream' = [stream EXCEPT ![c].more = (outcome = "more")]
                  /\ UNCHANGED lockVars
    /\ UNCHANGED <<op, stateVars, taskVars, inflight, session, cursor,
                   disconnected, lateScoped, lateBeats>>

AppendDone(c) ==
    /\ Kind(c) = "APPEND"
    /\ \E outcome \in {"success", "error"} : Answers(c, outcome)
    /\ Finish(c)
    /\ UNCHANGED <<op, stateVars, taskVars, inflight, session, cursor,
                   disconnected, lateScoped, lateBeats>>

\* The connection is closed only on SUCCESS_RESPONSE.
DisconnectDone(c) ==
    /\ Kind(c) = "DISCONNECT"
    /\ \E outcome \in {"success", "error"} :
          /\ Answers(c, outcome)
          /\ closed' = (closed \/ outcome = "success")
          /\ disconnected' = (disconnected \/ outcome = "success")
    /\ Finish(c)
    /\ UNCHANGED <<op, queryCounter, taskVars, inflight, session, cursor,
                   lateScoped, lateBeats>>

\* Slip: the guard outlives the stream.
DropStreamLeaks(c) ==
    /\ pc[c] \in {"streaming", "errored"}
    /\ Keep(c, "idle")
    /\ UNCHANGED <<op, awaits, stateVars, taskVars, serverVars, historyVars>>

\* A task drops its stream, or the future of its call, at an await point.
DropStream(c) ==
    /\ pc[c] \in {"streaming", "errored"}
    /\ Finish(c)
    /\ UNCHANGED <<op, awaits, stateVars, taskVars, serverVars, historyVars>>

CancelWait(c) ==
    /\ pc[c] = "waiting"
    /\ Withdraw(c)
    /\ Goto(c, "idle")
    /\ UNCHANGED <<op, stream, awaits, stateVars, taskVars, serverVars, historyVars>>

CancelRequest(c) ==
    /\ Answers(c, "error")
    /\ Finish(c)
    /\ UNCHANGED <<op, stateVars, taskVars, inflight, session, cursor,
                   disconnected, lateScoped, lateBeats>>

-------------------------------------------------------------------------------
(* The heartbeat task *)

\* The last clone aborts the task; streams are 'static and hold no clone.
DropClient(c) ==
    /\ pc[c] \in {"idle", "streaming", "errored"}
    /\ c \in handles
    /\ handles' = handles \ {c}
    /\ hb' = IF handles' = {} /\ hb \in HeartbeatRunning THEN "aborted" ELSE hb
    /\ UNCHANGED <<lockVars, callerVars, stateVars, quack_version, serverVars,
                   historyVars>>

\* Slip: the task of a closed connection goes back to sleep.
HeartbeatWakesAndSleeps ==
    /\ hb = "sleeping"
    /\ hb' = IF closed THEN "sleeping" ELSE "checked"
    /\ UNCHANGED <<lockVars, callerVars, stateVars, quack_version, handles,
                   serverVars, historyVars>>

HeartbeatWakes ==
    /\ hb = "sleeping"
    /\ hb' = IF closed THEN "exited" ELSE "checked"
    /\ UNCHANGED <<lockVars, callerVars, stateVars, quack_version, handles,
                   serverVars, historyVars>>

HeartbeatSends ==
    /\ hb = "checked"
    /\ hb' = "awaiting"
    /\ lateBeats' = IF closed THEN lateBeats + 1 ELSE lateBeats
    /\ UNCHANGED <<lockVars, callerVars, stateVars, quack_version, handles,
                   serverVars,
                   abandoned, disconnected, lateScoped>>

\* Slip: an error ends the task and leaves the connection open.
HeartbeatGivesUp ==
    /\ hb = "awaiting"
    /\ hb' = "exited"
    /\ UNCHANGED <<lockVars, callerVars, stateVars, quack_version, handles,
                   serverVars, historyVars>>

\* SUCCESS_RESPONSE, or an error before the lease has expired (HeartbeatLease
\* has the clock).  record_success does not reopen a closed connection.
HeartbeatGoesOn ==
    /\ hb = "awaiting"
    /\ hb' = "sleeping"
    /\ UNCHANGED <<lockVars, callerVars, stateVars, quack_version, handles,
                   serverVars, historyVars>>

\* Another message than SUCCESS_RESPONSE, or an error after the lease: close.
HeartbeatCloses ==
    /\ hb = "awaiting"
    /\ hb' = "exited"
    /\ closed' = TRUE
    /\ UNCHANGED <<lockVars, callerVars, queryCounter, quack_version, handles,
                   serverVars, historyVars>>

-------------------------------------------------------------------------------
(* The server and the network, external *)

\* What the server answers to r, and its cursor afterwards.  A PREPARE resets
\* the cursor whether its query succeeds or not.
Processed(r, outcome) ==
    \/ /\ ~session /\ outcome = "error"
       /\ UNCHANGED <<session, cursor>>
    \/ /\ session /\ r.kind = "PREPARE"
       /\ \E n \in 0..MaxFetches :
             /\ outcome \in IF n = 0 THEN {"end", "error"} ELSE {"more"}
             /\ cursor' = [result |-> r.id, left |-> n]
       /\ UNCHANGED session
    \/ /\ session /\ r.kind = "FETCH" /\ cursor.result = r.result
       /\ outcome = IF cursor.left > 0 THEN "more" ELSE "end"
       /\ cursor' = [cursor EXCEPT !.left = IF @ > 0 THEN @ - 1 ELSE 0]
       /\ UNCHANGED session
    \/ /\ session /\ r.kind = "FETCH" /\ cursor.result # r.result
       /\ outcome = "error"
       /\ UNCHANGED <<session, cursor>>
    \/ /\ session /\ r.kind = "APPEND" /\ outcome = "success"
       /\ UNCHANGED <<session, cursor>>
    \/ /\ session /\ r.kind = "DISCONNECT" /\ outcome = "success"
       /\ session' = FALSE
       /\ UNCHANGED cursor

ServerProcesses(r) ==
    /\ inflight' = inflight \ {r}
    /\ \E outcome \in Outcomes :
          /\ Processed(r, outcome)
          /\ replies' = IF \E c \in Callers : awaits[c] = r.id
                        THEN replies \cup {[id |-> r.id, outcome |-> outcome]}
                        ELSE replies
    /\ UNCHANGED <<lockVars, callerVars, stateVars, taskVars, historyVars>>

\* A request is lost on its way; its caller sees an error in its own time.
NetworkLoses(r) ==
    /\ inflight' = inflight \ {r}
    /\ UNCHANGED <<lockVars, callerVars, stateVars, taskVars, replies, session,
                   cursor, historyVars>>

\* The server ends the session of a v3 client it has not heard of in time.
ServerExpires ==
    /\ quack_version = 3
    /\ session
    /\ session' = FALSE
    /\ UNCHANGED <<lockVars, callerVars, stateVars, taskVars, inflight, replies,
                   cursor, historyVars>>

-------------------------------------------------------------------------------

Resolve(c) == PrepareDone(c) \/ FetchDone(c) \/ AppendDone(c) \/ DisconnectDone(c)

Caller(c) ==
    \/ \E o \in Ops : Call(c, o)
    \/ Acquire(c)
    \/ EnsureOpen(c)
    \/ Send(c)
    \/ Resolve(c)
    \/ Poll(c)
    \/ DropStream(c)
    \/ CancelWait(c)
    \/ CancelRequest(c)
    \/ DropClient(c)

Heartbeat == HeartbeatWakes \/ HeartbeatSends \/ HeartbeatGoesOn \/ HeartbeatCloses

Server == (\E r \in inflight : ServerProcesses(r) \/ NetworkLoses(r)) \/ ServerExpires

Next == (\E c \in Callers : Caller(c)) \/ Heartbeat \/ Server

\* tokio polls a woken task; the request timeout ends every await; whoever
\* holds a stream drains or drops it, which is the caller's part of the deal.
Fairness ==
    /\ \A c \in Callers :
          /\ WF_vars(Acquire(c))
          /\ WF_vars(EnsureOpen(c))
          /\ WF_vars(Send(c))
          /\ WF_vars(Resolve(c))
          /\ WF_vars(Poll(c) \/ DropStream(c))
    /\ WF_vars(Heartbeat)

Spec == Init /\ [][Next]_vars
FairSpec == Spec /\ Fairness

-------------------------------------------------------------------------------
(* Properties *)

\* The lock is carried by FetchState through every FETCH (client.rs:228-231):
\* of the requests the server has yet to process, at most one is still wanted
\* by its caller, and that caller owns the connection.
OneLiveRequest ==
    \A r, s \in inflight :
        r.id \notin abandoned =>
            /\ holder # NoCaller /\ awaits[holder] = r.id
            /\ s.id \notin abandoned => s = r

\* A stream that has more to fetch finds the server's cursor on its own result
\* (client.rs:132-138), unless a PREPARE given up on has taken it since.
CursorKept ==
    \A c \in Callers :
        stream[c].more /\ session =>
            cursor.result \in abandoned \cup {stream[c].result}

\* The heartbeat task and the calls read `closed' before they send, and the
\* other side may close in between (client.rs:706, 766): each can be late by
\* one message, never by more.
LateByOneAtMost == lateScoped <= 1 /\ lateBeats <= 1

\* While a clone of a v3 client lives and the connection is open, its
\* heartbeat task runs; without a clone it never does (client.rs:868-872).
HeartbeatIffNeeded ==
    /\ quack_version = 3 /\ ~closed /\ handles # {} => hb \in HeartbeatRunning
    /\ handles = {} \/ quack_version = 1 => hb \notin HeartbeatRunning

\* After a disconnect that the server confirmed, the connection stays closed
\* and no task takes a query id, as each scoped message needs one.  (A heartbeat
\* past its check may still leave: LateByOneAtMost.)  (client.rs:685-696)
DisconnectIsFinal ==
    [][disconnected => closed' /\ queryCounter' = queryCounter]_vars

\* Every call that waits for the connection gets it, or gives up: the lock is
\* released on every path, whatever fails (client.rs:228-392).
WaitersServed == \A c \in Callers : pc[c] = "waiting" ~> pc[c] # "waiting"

\* A closed connection ends the heartbeat task (client.rs:767-769).
ClosedEndsHeartbeat == closed ~> hb \notin HeartbeatRunning

\* What the server and the network still hold for a task's stream: the batches
\* behind the cursor and the answer on its way, or word that there are no more.
Coming(c, outcome) == [id |-> awaits[c], outcome |-> outcome] \in replies

Served(c) ==
    CASE stream[c].result = 0 -> [state |-> "none", due |-> 0]
      [] stream[c].result # 0 /\ ~stream[c].more -> [state |-> "complete", due |-> 0]
      [] stream[c].more /\ Coming(c, "end") -> [state |-> "open", due |-> 0]
      [] /\ stream[c].more /\ ~Coming(c, "end") /\ pc[c] # "errored"
         /\ session /\ cursor.result = stream[c].result ->
             [state |-> "open", due |-> cursor.left + IF Coming(c, "more") THEN 1 ELSE 0]
      [] OTHER -> [state |-> "lost", due |-> 0]

served == [c \in Callers |-> Served(c)]

Streams == INSTANCE ServedStreams WITH streams <- served

\* A stream that the client takes for complete has had every batch, and no two
\* are open at once: timeouts, cancellations, late PREPAREs and the server's
\* expiry only ever lose a result openly (client.rs:228-392).
ServesStreams == Streams!Spec

\* What the comment on QuackClient::connection says the mutex is for: queries
\* run serially on the server, so an open stream never loses its cursor.
QueriesSerialOnServer ==
    \A c \in Callers :
        stream[c].more /\ session => cursor.result = stream[c].result
===============================================================================

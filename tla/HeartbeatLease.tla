----------------------------- MODULE HeartbeatLease -----------------------------
(***************************************************************************)
(* The lease of a v3 connection and the clock of its heartbeat task        *)
(* (HeartbeatGuard, ConnectionState, Connection::send of                   *)
(* src/src/client.rs).  Time is discrete; a clock counts ticks since an    *)
(* event, and Tick does not pass a deadline.  The server is external: it   *)
(* restarts its own lease of the connection with every request that        *)
(* reaches it, may expire the connection once that lease has run out, and  *)
(* may go down.  At most one call is under way beside the heartbeat: the   *)
(* connection lock sees to that (ClientSession).                           *)
(* The model's time ends with the heartbeat task.                          *)
(***************************************************************************)
EXTENDS Naturals

CONSTANTS Timeout,        \* heartbeat_timeout of the CONNECTION_RESPONSE
          MinInterval,    \* 100 ms
          RequestTimeout  \* the timeout of every HTTP request

ASSUME ClockAssumption ==
    /\ Timeout \in Nat \ {0}
    /\ MinInterval \in Nat \ {0}
    /\ RequestTimeout \in Nat \ {0}

\* interval in HeartbeatGuard::start.
Interval ==
    IF Timeout \div 3 > MinInterval THEN Timeout \div 3 ELSE MinInterval

VARIABLES
    hb,           \* what the heartbeat task does
    hbClock,      \* since the sleep, or the request, began
    hbReached,    \* the heartbeat under way has reached the server
    call,         \* a call is awaiting its answer
    callClock,    \* since its request was sent
    callReached,  \* it has reached the server
    idle,         \* since ConnectionLease.last_successful_activity
    closed,       \* ConnectionLease.closed
    missed,       \* history: heartbeats failed since the last success
    server,       \* the server, and what it thinks of the connection
    serverIdle    \* since a request of the connection last reached the server

hbVars     == <<hb, hbClock, hbReached>>
callVars   == <<call, callClock, callReached>>
leaseVars  == <<idle, closed, missed>>
serverVars == <<server, serverIdle>>
leaseState == <<hbVars, callVars, leaseVars, serverVars>>

FlagsOK ==
    /\ hb \in {"sleeping", "awaiting", "exited"}
    /\ server \in {"alive", "expired", "down"}
    /\ call \in BOOLEAN /\ closed \in BOOLEAN
    /\ hbReached \in BOOLEAN /\ callReached \in BOOLEAN

ClocksOK ==
    /\ hbClock \in Nat /\ callClock \in 0..RequestTimeout
    /\ idle \in Nat /\ serverIdle \in Nat /\ missed \in Nat
    /\ hb = "sleeping" => hbClock <= Interval
    /\ hb = "awaiting" => hbClock <= RequestTimeout

LeaseTypeOK == FlagsOK /\ ClocksOK

LeaseInit ==
    /\ hb = "sleeping" /\ hbClock = 0 /\ hbReached = FALSE
    /\ call = FALSE /\ callClock = 0 /\ callReached = FALSE
    /\ idle = 0 /\ closed = FALSE /\ missed = 0
    /\ server = "alive" /\ serverIdle \in 0..RequestTimeout

-------------------------------------------------------------------------------

\* tokio's timers wake a task when their time has come, and not later.
Tick ==
    /\ hb # "exited"
    /\ hb = "sleeping" => hbClock < Interval
    /\ hb = "awaiting" => hbClock < RequestTimeout
    /\ call => callClock < RequestTimeout
    /\ hbClock' = hbClock + 1
    /\ callClock' = IF call THEN callClock + 1 ELSE 0
    /\ idle' = idle + 1
    /\ serverIdle' = serverIdle + 1
    /\ UNCHANGED <<hb, hbReached, call, callReached, closed, missed, server>>

\* ConnectionState::record_success.
RecordSuccess ==
    /\ idle' = IF closed THEN idle ELSE 0
    /\ missed' = IF closed THEN missed ELSE 0
    /\ UNCHANGED closed

(* The heartbeat task *)

\* The sleep is over: the task ends if the connection is closed.
HeartbeatSends ==
    /\ hb = "sleeping" /\ hbClock = Interval
    /\ IF closed
       THEN hb' = "exited" /\ UNCHANGED <<hbClock, hbReached>>
       ELSE hb' = "awaiting" /\ hbClock' = 0 /\ hbReached' = FALSE
    /\ UNCHANGED <<callVars, leaseVars, serverVars>>

\* Slip: the next sleep is counted from the last request.
SleepsFromSend == hb' = "sleeping" /\ hbReached' = FALSE /\ UNCHANGED hbClock

Sleeps == hb' = "sleeping" /\ hbClock' = 0 /\ hbReached' = FALSE

Exits == hb' = "exited" /\ UNCHANGED <<hbClock, hbReached>>

\* Slip: the heartbeat's success is not recorded.
HeartbeatSucceedsSilently ==
    /\ hb = "awaiting" /\ hbReached
    /\ Sleeps
    /\ missed' = 0
    /\ UNCHANGED <<idle, closed, callVars, serverVars>>

\* SUCCESS_RESPONSE.
HeartbeatSucceeds ==
    /\ hb = "awaiting" /\ hbReached
    /\ Sleeps
    /\ RecordSuccess
    /\ UNCHANGED <<callVars, serverVars>>

\* Any other answer closes the connection.
HeartbeatRefused ==
    /\ hb = "awaiting" /\ hbReached
    /\ Exits
    /\ closed' = TRUE
    /\ UNCHANGED <<idle, missed, callVars, serverVars>>

\* Slip: > for >=.
ExpiredLater == closed \/ idle > Timeout

\* The condition of close_if_expired.
Expired == closed \/ idle >= Timeout

\* Slip: the task ends and leaves the connection open.
HeartbeatFailsQuietly ==
    /\ hb = "awaiting"
    /\ IF Expired THEN Exits ELSE Sleeps
    /\ missed' = missed + 1
    /\ UNCHANGED <<idle, closed, callVars, serverVars>>

\* An ERROR_RESPONSE, a lost connection or a timeout, at any time up to it.
HeartbeatFails ==
    /\ hb = "awaiting"
    /\ IF Expired THEN Exits /\ closed' = TRUE
                  ELSE Sleeps /\ UNCHANGED closed
    /\ missed' = missed + 1
    /\ UNCHANGED <<idle, callVars, serverVars>>

(* The calls *)

\* ensure_open, then the request.
CallSends ==
    /\ ~call /\ ~closed /\ hb # "exited"
    /\ call' = TRUE /\ callClock' = 0 /\ callReached' = FALSE
    /\ UNCHANGED <<hbVars, leaseVars, serverVars>>

CallEnds == call' = FALSE /\ callClock' = 0 /\ callReached' = FALSE

CallSucceeds ==
    /\ call /\ callReached
    /\ CallEnds
    /\ RecordSuccess
    /\ UNCHANGED <<hbVars, serverVars>>

\* The call was a disconnect, which records its success and closes.
DisconnectSucceeds ==
    /\ call /\ callReached
    /\ CallEnds
    /\ idle' = IF closed THEN idle ELSE 0
    /\ missed' = IF closed THEN missed ELSE 0
    /\ closed' = TRUE
    /\ UNCHANGED <<hbVars, serverVars>>

\* Slip: success is recorded before the transport's `?'.
CallFailsRecorded ==
    /\ call
    /\ CallEnds
    /\ RecordSuccess
    /\ UNCHANGED <<hbVars, serverVars>>

CallFails ==
    /\ call
    /\ CallEnds
    /\ UNCHANGED <<hbVars, leaseVars, serverVars>>

(* The server, external *)

HeartbeatReaches ==
    /\ hb = "awaiting" /\ ~hbReached /\ server = "alive"
    /\ hbReached' = TRUE
    /\ serverIdle' = 0
    /\ UNCHANGED <<hb, hbClock, callVars, leaseVars, server>>

CallReaches ==
    /\ call /\ ~callReached /\ server = "alive"
    /\ callReached' = TRUE
    /\ serverIdle' = 0
    /\ UNCHANGED <<hbVars, call, callClock, leaseVars, server>>

ServerExpires ==
    /\ server = "alive" /\ serverIdle >= Timeout
    /\ server' = "expired"
    /\ UNCHANGED <<hbVars, callVars, leaseVars, serverIdle>>

ServerGoesDown ==
    /\ server = "alive"
    /\ server' = "down"
    /\ UNCHANGED <<hbVars, callVars, leaseVars, serverIdle>>

-------------------------------------------------------------------------------

HeartbeatAnswered == HeartbeatSucceeds \/ HeartbeatRefused \/ HeartbeatFails
CallAnswered == CallSucceeds \/ DisconnectSucceeds \/ CallFails
LeaseServer == HeartbeatReaches \/ CallReaches \/ ServerExpires \/ ServerGoesDown

LeaseNext ==
    \/ Tick
    \/ HeartbeatSends
    \/ HeartbeatAnswered
    \/ CallSends
    \/ CallAnswered
    \/ LeaseServer

LeaseSpec == LeaseInit /\ [][LeaseNext]_leaseState

\* Time passes, tokio runs what its timers woke, and the request timeout ends
\* every await.
FairLeaseSpec ==
    /\ LeaseSpec
    /\ WF_leaseState(Tick)
    /\ WF_leaseState(HeartbeatSends)
    /\ WF_leaseState(HeartbeatAnswered)
    /\ WF_leaseState(CallAnswered)

-------------------------------------------------------------------------------
(* Properties *)

\* However its heartbeats and calls overlap, a connection is open at most this
\* long after its last success: it is looked at only when a heartbeat fails
\* (client.rs:783), so an almost expired lease costs one more sleep and one
\* more request timeout.
DetectionBound ==
    hb # "exited" /\ ~closed => idle < Timeout + Interval + RequestTimeout

\* The client measures its lease from an answer's arrival and the server from
\* the request's: a client whose last success is fresh enough is not talking
\* to an expired connection (client.rs:629, 774).
FreshIsNotExpired ==
    server = "expired" => idle + RequestTimeout >= Timeout

\* A single failed heartbeat never costs the connection, unless it hung for
\* what its interval leaves of the lease (client.rs:762, 783).
OneFailureTolerated ==
    [][missed = 0 /\ missed' = 1 /\ closed' /\ ~closed
         => hbClock + Interval >= Timeout]_leaseState

\* A connection whose server is gone is closed, whatever calls are made on it
\* (client.rs:783-790).
LostServerDetected == server # "alive" ~> closed

\* What the log of a failed heartbeat says: the retry is sent before the lease
\* expires (client.rs:794).
RetriesBeforeExpiry ==
    hb = "awaiting" /\ hbClock = 0 /\ missed > 0 => idle < Timeout
===============================================================================

-------------------------- MODULE ClientSessionProofs --------------------------
(***************************************************************************)
(* Proofs about ClientSession: for any number of tasks, requests and       *)
(* batches, either protocol version, and whatever the network does.  Its   *)
(* invariants, its action properties, and that it implements               *)
(* ServedStreams.                                                          *)
(***************************************************************************)
EXTENDS ClientSession, SequenceTheorems, TLAPS

-------------------------------------------------------------------------------
(* The inductive invariant *)

\* The guard is where the program counters say it is; only its owner has an
\* open stream, and only an awaiting task has a request of its own.
GuardInv ==
    \A c \in Callers :
        /\ pc[c] \in Holding <=> holder = c
        /\ pc[c] \notin Holding => stream[c] = NoStream
        /\ stream[c].more => stream[c].result # 0
        /\ stream[c].result # 0 => op[c] = "query"
        /\ pc[c] \in {"locked", "sending", "awaiting"} /\ stream[c].result # 0
              => stream[c].more
        /\ pc[c] = "awaiting" <=> awaits[c] # 0

\* Ids are fresh; a request that nobody gave up on is the owner's.
IdInv ==
    /\ \A c \in Callers :
          /\ awaits[c] < queryCounter
          /\ awaits[c] # 0 => awaits[c] \notin abandoned
    /\ \A i \in abandoned : i < queryCounter
    /\ \A r \in inflight :
          /\ r.id < queryCounter /\ r.id # 0
          /\ r.id \notin abandoned =>
                holder # NoCaller /\ awaits[holder] = r.id /\ r.kind = Kind(holder)
    /\ \A r, s \in inflight : r.id = s.id => r = s
    /\ \A m \in replies : m.id < queryCounter /\ (\A r \in inflight : m.id # r.id)

\* The task's request is a PREPARE.
Preparing(c) == op[c] = "query" /\ stream[c].result = 0

\* The server's cursor is on the open result, and already was when the answer
\* to its PREPARE left, unless an abandoned request has moved it.
CursorInv ==
    /\ CursorKept
    /\ \A c \in Callers, m \in replies :
          /\ awaits[c] # 0 /\ m.id = awaits[c] /\ Preparing(c)
          /\ m.outcome \in {"more", "end"} /\ session
          => cursor.result \in abandoned \cup {awaits[c]}

\* After `closed' only those that had read it before may still send.
LateInv ==
    /\ ~closed => lateScoped = 0 /\ lateBeats = 0
    /\ \/ lateScoped = 0
       \/ lateScoped = 1 /\ \A c \in Callers : pc[c] # "sending"
    /\ lateBeats = 0 \/ (lateBeats = 1 /\ hb # "checked")
    /\ disconnected => closed /\ \A c \in Callers : pc[c] # "sending"

HeartbeatInv ==
    /\ quack_version = 1 => hb = "none"
    /\ quack_version = 3 => hb # "none"
    /\ hb = "exited" => closed
    /\ hb = "aborted" => handles = {}
    /\ hb \in HeartbeatRunning => handles # {}

Inv == TypeOK /\ GuardInv /\ IdInv /\ CursorInv /\ LateInv /\ HeartbeatInv

-------------------------------------------------------------------------------
(* What the helpers do *)

\* A call or stream that is over leaves its task idle, without a stream.
LEMMA FinishFacts ==
    ASSUME NEW c \in Callers, TypeOK, Finish(c)
    PROVE  /\ holder = c /\ holder' = NoCaller /\ queue' = queue
           /\ pc' \in [Callers -> Holding \cup {"idle", "waiting"}]
           /\ stream' \in [Callers -> [result : Nat, more : BOOLEAN]]
           /\ \A d \in Callers : pc'[d] = IF d = c THEN "idle" ELSE pc[d]
           /\ \A d \in Callers : stream'[d] = IF d = c THEN NoStream ELSE stream[d]
  <1>1. NoStream \in [result : Nat, more : BOOLEAN]
    BY DEF NoStream
  <1>2. QED
    BY <1>1 DEF TypeOK, Finish, Release, Goto

\* A task that keeps the guard changes its program counter only.
LEMMA KeepFacts ==
    ASSUME NEW c \in Callers, NEW s \in Holding, TypeOK, Keep(c, s)
    PROVE  /\ holder' = holder /\ queue' = queue /\ stream' = stream
           /\ pc' \in [Callers -> Holding \cup {"idle", "waiting"}]
           /\ \A d \in Callers : pc'[d] = IF d = c THEN s ELSE pc[d]
  BY DEF TypeOK, Keep, Goto, lockVars

\* An answer clears the task's awaited id; an error may abandon the request.
LEMMA AnswersFacts ==
    ASSUME NEW c \in Callers, NEW outcome, Inv, Answers(c, outcome)
    PROVE  /\ pc[c] = "awaiting" /\ holder = c /\ awaits[c] # 0
           /\ awaits' \in [Callers -> Nat]
           /\ \A d \in Callers : awaits'[d] = IF d = c THEN 0 ELSE awaits[d]
           /\ replies' \subseteq replies
           /\ abandoned' \subseteq Nat /\ abandoned \subseteq abandoned'
           /\ abandoned' \subseteq abandoned \cup {awaits[c]}
           /\ \/ outcome = "error" /\ awaits[c] \in abandoned'
              \/ \E m \in replies : m.id = awaits[c] /\ m.outcome = outcome
  <1>1. pc[c] = "awaiting" /\ holder = c /\ awaits[c] # 0
    BY DEF Answers, Inv, GuardInv, Holding
  <1>2. awaits \in [Callers -> Nat] /\ abandoned \subseteq Nat
    BY DEF Inv, TypeOK
  <1>3. QED
    BY <1>1, <1>2 DEF Answers

-------------------------------------------------------------------------------
(* Parts of the invariant that several actions preserve in the same way *)

\* The guard is given back.
LEMMA GuardFinish ==
    ASSUME Inv, NEW c \in Callers, Finish(c), op' = op,
           \A d \in Callers : awaits'[d] = IF d = c THEN 0 ELSE awaits[d]
    PROVE  GuardInv'
  <1>1. NoStream.result = 0 /\ NoStream.more = FALSE
    BY DEF NoStream
  <1>2. QED
    BY <1>1, FinishFacts, NoCallerAssumption DEF Inv, TypeOK, GuardInv, Holding

\* The guard stays with its owner, which no longer awaits an answer.
LEMMA GuardKeep ==
    ASSUME Inv, NEW c \in Callers, NEW s \in Holding \ {"awaiting"}, Keep(c, s), op' = op,
           holder = c,
           s \in {"locked", "sending"} /\ stream[c].result # 0 => stream[c].more,
           \A d \in Callers : awaits'[d] = IF d = c THEN 0 ELSE awaits[d]
    PROVE  GuardInv'
  <1>1. /\ holder' = holder /\ stream' = stream
        /\ \A d \in Callers : pc'[d] = IF d = c THEN s ELSE pc[d]
    BY KeepFacts DEF Inv
  <1>2. s \in Holding /\ s # "awaiting"
    OBVIOUS
  <1>3. QED
    BY <1>1, <1>2 DEF Inv, GuardInv

\* The owner awaits no answer and sends nothing: no live request is under way.
LEMMA IdQuiet ==
    ASSUME Inv, NEW c \in Callers, holder = c, awaits[c] = 0,
           UNCHANGED <<awaits, queryCounter, abandoned, inflight, replies>>
    PROVE  IdInv'
  BY DEF Inv, IdInv

\* The cursor, the streams and the answers are as before.
LEMMA CursorFrame ==
    ASSUME CursorInv,
           UNCHANGED <<op, stream, awaits, replies, session, cursor, abandoned>>
    PROVE  CursorInv'
  BY DEF CursorInv, CursorKept, Preparing

\* A stream is closed or an answer taken; the cursor stays.
LEMMA CursorShrinks ==
    ASSUME Inv, NEW c \in Callers, op' = op, session' = session, cursor' = cursor,
           \/ stream' = stream
           \/ \A d \in Callers : stream'[d] = IF d = c THEN NoStream ELSE stream[d],
           \A d \in Callers : awaits'[d] = IF d = c THEN 0 ELSE awaits[d],
           replies' \subseteq replies, abandoned \subseteq abandoned'
    PROVE  CursorInv'
  <1>1. NoStream.more = FALSE
    BY DEF NoStream
  <1>2. CursorKept'
    BY <1>1 DEF Inv, CursorInv, CursorKept
  <1>3. \A d \in Callers : awaits'[d] # 0 => d # c /\ stream'[d] = stream[d]
    OBVIOUS
  <1>4. QED
    BY <1>2, <1>3 DEF Inv, CursorInv, Preparing

-------------------------------------------------------------------------------
(* One lemma per action: the action preserves the invariant *)

LEMMA InitInv == Init => Inv
  <1> SUFFICES ASSUME Init PROVE Inv
    OBVIOUS
  <1> USE DEF Init, LockInit, FirstQueryId, NoStream
  <1>1. TypeOK
    <2>1. LockTypeOK
      BY DEF LockTypeOK
    <2>2. /\ pc \in [Callers -> Holding \cup {"idle", "waiting"}]
          /\ op \in [Callers -> Ops]
          /\ stream \in [Callers -> [result : Nat, more : BOOLEAN]]
          /\ awaits \in [Callers -> Nat]
      BY DEF Ops
    <2>3. quack_version \in {1, 3} /\ hb \in HeartbeatRunning \cup {"none", "exited", "aborted"}
      BY DEF HeartbeatRunning
    <2>4. cursor \in [result : Nat, left : Nat] /\ queryCounter \in Nat \ {0}
      OBVIOUS
    <2>5. QED
      BY <2>1, <2>2, <2>3, <2>4 DEF TypeOK
  <1>2. GuardInv
    BY NoCallerAssumption DEF GuardInv, Holding
  <1>3. IdInv /\ CursorInv
    BY DEF IdInv, CursorInv, CursorKept
  <1>4. LateInv
    BY DEF LateInv
  <1>5. HeartbeatInv
    BY CallersAssumption DEF HeartbeatInv, HeartbeatRunning
  <1>6. QED
    BY <1>1, <1>2, <1>3, <1>4, <1>5 DEF Inv

LEMMA CallInv ==
    ASSUME Inv, NEW c \in Callers, NEW o \in Ops, Call(c, o)
    PROVE  Inv'
  <1> USE DEF Inv, Call, lockVars, callerVars, stateVars, taskVars, serverVars, historyVars
  <1>1. TypeOK'
    BY DEF TypeOK, LockTypeOK, Enqueue, Goto, Holding
  <1>2. GuardInv'
    BY DEF GuardInv, TypeOK, Enqueue, Goto, Holding, NoStream
  <1>3. IdInv'
    <2>1. /\ holder' = holder
          /\ \A d \in Callers : awaits[d] # 0 => d # c /\ op'[d] = op[d]
      BY DEF GuardInv, TypeOK, Enqueue
    <2>2. \A d \in Callers : awaits[d] # 0 => Kind(d)' = Kind(d)
      BY <2>1 DEF Kind, Fetching
    <2>3. QED
      BY <2>1, <2>2, NoCallerAssumption DEF IdInv, TypeOK, LockTypeOK
  <1>4. CursorInv'
    <2>1. \A d \in Callers : awaits[d] # 0 => op'[d] = op[d]
      BY DEF GuardInv, TypeOK
    <2>2. QED
      BY <2>1 DEF CursorInv, CursorKept, Preparing
  <1>5. LateInv' /\ HeartbeatInv'
    BY DEF LateInv, HeartbeatInv, TypeOK, Goto
  <1>6. QED
    BY <1>1, <1>2, <1>3, <1>4, <1>5

LEMMA AcquireInv ==
    ASSUME Inv, NEW c \in Callers, Acquire(c)
    PROVE  Inv'
  <1> USE DEF Inv, Acquire, lockVars, callerVars, stateVars, taskVars, serverVars, historyVars
  <1>1. TypeOK'
    BY HeadTailProperties DEF TypeOK, LockTypeOK, Grant, Goto, Holding
  <1>2. GuardInv'
    BY NoCallerAssumption DEF GuardInv, TypeOK, Grant, Goto, Holding, NoStream
  <1>3. IdInv'
    BY DEF IdInv, Grant
  <1>4. CursorInv'
    BY CursorFrame
  <1>5. LateInv' /\ HeartbeatInv'
    BY DEF LateInv, HeartbeatInv, TypeOK, Goto
  <1>6. QED
    BY <1>1, <1>2, <1>3, <1>4, <1>5

LEMMA EnsureOpenInv ==
    ASSUME Inv, NEW c \in Callers, EnsureOpen(c)
    PROVE  Inv'
  <1> USE DEF Inv, EnsureOpen, lockVars, callerVars, stateVars, taskVars, serverVars, historyVars
  <1>1. /\ holder = c /\ awaits[c] = 0 /\ awaits' = awaits /\ op' = op
        /\ \A d \in Callers : awaits'[d] = IF d = c THEN 0 ELSE awaits[d]
        /\ stream[c].result # 0 => stream[c].more
    BY DEF GuardInv, Holding
  <1>2. IdInv'
    BY <1>1, IdQuiet
  <1>3. HeartbeatInv'
    BY DEF HeartbeatInv
  <1>4. CASE Keep(c, "sending") /\ ~Refused(c)
    <2>1. "sending" \in Holding \ {"awaiting"}
      BY DEF Holding
    <2>2. TypeOK'
      BY ZenonT(40), <1>4, <2>1, KeepFacts DEF TypeOK, LockTypeOK
    <2>3. GuardInv'
      BY <1>1, <1>4, <2>1, GuardKeep
    <2>4. CursorInv'
      BY <1>4, CursorFrame DEF Keep
    <2>5. LateInv'
      BY <1>4 DEF LateInv, Refused, Keep
    <2>6. QED
      BY <1>2, <1>3, <2>2, <2>3, <2>4, <2>5
  <1>5. CASE Keep(c, "errored")
    <2>1. "errored" \in Holding \ {"awaiting"}
      BY DEF Holding
    <2>2. TypeOK'
      BY ZenonT(40), <1>5, <2>1, KeepFacts DEF TypeOK, LockTypeOK
    <2>3. GuardInv'
      BY <1>1, <1>5, <2>1, GuardKeep
    <2>4. CursorInv'
      BY <1>5, CursorFrame DEF Keep
    <2>5. LateInv'
      BY <1>5, <2>1, KeepFacts DEF LateInv
    <2>6. QED
      BY <1>2, <1>3, <2>2, <2>3, <2>4, <2>5
  <1>6. CASE Finish(c)
    <2>1. TypeOK'
      BY <1>6, FinishFacts DEF TypeOK, LockTypeOK
    <2>2. GuardInv'
      BY <1>1, <1>6, GuardFinish
    <2>3. CursorInv'
      BY <1>1, <1>6, FinishFacts, CursorShrinks
    <2>4. LateInv'
      BY <1>6, FinishFacts DEF LateInv
    <2>5. QED
      BY <1>2, <1>3, <2>1, <2>2, <2>3, <2>4
  <1>7. QED
    BY <1>4, <1>5, <1>6

LEMMA SendInv ==
    ASSUME Inv, NEW c \in Callers, Send(c)
    PROVE  Inv'
  <1> USE DEF Inv, Send, lockVars, callerVars, stateVars, taskVars, serverVars, historyVars
  <1> DEFINE new == [id |-> queryCounter, kind |-> Kind(c), result |-> stream[c].result]
  <1>1. /\ holder = c /\ c # NoCaller /\ awaits[c] = 0 /\ queryCounter \in Nat \ {0}
        /\ \A d \in Callers : awaits'[d] = IF d = c THEN queryCounter ELSE awaits[d]
        /\ \A d \in Callers : pc'[d] = IF d = c THEN "awaiting" ELSE pc[d]
    BY NoCallerAssumption DEF GuardInv, Holding, TypeOK, Goto
  <1>2. inflight' = inflight \cup {new}
    OBVIOUS
  <1>3. TypeOK'
    <2>1. new \in Requests
      <3>1. Kind(c) \in Kinds
        BY DEF Kind, Kinds, TypeOK, Ops
      <3>2. stream[c].result \in Nat
        BY DEF TypeOK
      <3>3. QED
        BY <1>1, <3>1, <3>2 DEF Requests
    <2>2. pc' \in [Callers -> Holding \cup {"idle", "waiting"}] /\ awaits' \in [Callers -> Nat]
      BY <1>1 DEF TypeOK, Goto, Holding
    <2>3. lateScoped' \in Nat /\ queryCounter' \in Nat \ {0}
      BY DEF TypeOK
    <2>4. QED
      BY <1>2, <2>1, <2>2, <2>3 DEF TypeOK, LockTypeOK
  <1>4. GuardInv'
    BY <1>1 DEF GuardInv, Holding
  <1>5. IdInv'
    <2>1. Kind(c)' = Kind(c)
      BY DEF Kind, Fetching
    <2>2. \A r \in inflight : r.id < queryCounter /\ r.id # 0 /\ r.id \in abandoned
      BY <1>1 DEF IdInv
    <2>3. new.id = queryCounter /\ new.kind = Kind(c)
      OBVIOUS
    <2>4. \A m \in replies : m.id < queryCounter /\ m.id \in Nat
      BY DEF IdInv, TypeOK
    <2>5. \A r \in inflight : r.id \in Nat
      BY DEF TypeOK, Requests
    <2>6. \A i \in abandoned : i < queryCounter /\ i \in Nat
      BY DEF IdInv, TypeOK
    <2>7. \A d \in Callers : awaits[d] \in Nat
      BY DEF TypeOK
    <2> HIDE DEF new
    <2>8. \A d \in Callers : awaits'[d] < queryCounter' /\ (awaits'[d] # 0 => awaits'[d] \notin abandoned')
      BY <1>1, <2>6, <2>7 DEF IdInv
    <2>9. \A r \in inflight' : /\ r.id < queryCounter' /\ r.id # 0
            /\ r.id \notin abandoned' =>
                  holder' # NoCaller /\ awaits'[holder'] = r.id /\ r.kind = Kind(holder)'
      BY <1>1, <1>2, <2>1, <2>2, <2>3, <2>5
    <2>10. \A r, s \in inflight' : r.id = s.id => r = s
      BY <1>1, <1>2, <2>2, <2>3, <2>5 DEF IdInv
    <2>11. \A m \in replies' : m.id < queryCounter' /\ (\A r \in inflight' : m.id # r.id)
      BY <1>1, <1>2, <2>3, <2>4 DEF IdInv
    <2>12. QED
      BY <1>1, <2>6, <2>8, <2>9, <2>10, <2>11 DEF IdInv
  <1>6. CursorInv'
    <2>1. \A m \in replies : m.id # queryCounter
      BY DEF IdInv, TypeOK
    <2>2. QED
      BY <1>1, <2>1 DEF CursorInv, CursorKept, Preparing
  <1>7. LateInv'
    BY <1>1 DEF LateInv, GuardInv, Holding
  <1>8. HeartbeatInv'
    BY DEF HeartbeatInv
  <1>9. QED
    BY <1>3, <1>4, <1>5, <1>6, <1>7, <1>8

\* What the four answers have in common.
LEMMA AnswersIds ==
    ASSUME Inv, NEW c \in Callers, NEW outcome \in Outcomes, Answers(c, outcome),
           UNCHANGED <<queryCounter, inflight>>, op' = op
    PROVE  IdInv' /\ replies' \subseteq [id : Nat, outcome : Outcomes]
  <1>1. /\ holder = c /\ c # NoCaller /\ awaits[c] # 0 /\ awaits[c] < queryCounter
        /\ \A d \in Callers : awaits'[d] = IF d = c THEN 0 ELSE awaits[d]
        /\ replies' \subseteq replies
        /\ abandoned \subseteq abandoned' /\ abandoned' \subseteq abandoned \cup {awaits[c]}
        /\ \/ outcome = "error" /\ awaits[c] \in abandoned'
           \/ \E m \in replies : m.id = awaits[c] /\ m.outcome = outcome
    BY AnswersFacts, NoCallerAssumption DEF Inv, IdInv
  <1>2. \A d \in Callers \ {c} : awaits[d] = 0
    BY <1>1 DEF Inv, GuardInv, Holding
  <1>3. \A r \in inflight : r.id \in abandoned'
    BY <1>1 DEF Inv, IdInv
  <1>4. QED
    BY <1>1, <1>2, <1>3 DEF Inv, IdInv, TypeOK

LEMMA PrepareDoneInv ==
    ASSUME Inv, NEW c \in Callers, PrepareDone(c)
    PROVE  Inv'
  <1> USE DEF Inv, PrepareDone, lockVars, callerVars, stateVars, taskVars, serverVars, historyVars
  <1>1. PICK outcome \in {"more", "end", "error"} :
           /\ Answers(c, outcome)
           /\ IF outcome = "error" THEN Finish(c) ELSE Opened(c, outcome)
    OBVIOUS
  <1>2. outcome \in Outcomes
    BY DEF Outcomes
  <1>3. IdInv' /\ replies' \subseteq [id : Nat, outcome : Outcomes]
    BY <1>1, <1>2, AnswersIds
  <1>4. /\ pc[c] = "awaiting" /\ holder = c /\ awaits[c] # 0 /\ op[c] = "query"
        /\ stream[c].result = 0
        /\ awaits' \in [Callers -> Nat]
        /\ \A d \in Callers : awaits'[d] = IF d = c THEN 0 ELSE awaits[d]
        /\ replies' \subseteq replies
        /\ abandoned' \subseteq Nat /\ abandoned \subseteq abandoned'
        /\ \/ outcome = "error" /\ awaits[c] \in abandoned'
           \/ \E m \in replies : m.id = awaits[c] /\ m.outcome = outcome
    <2>1. op[c] = "query" /\ stream[c].result = 0
      BY DEF Kind, Fetching, TypeOK, Ops
    <2>2. QED
      BY <1>1, <2>1, AnswersFacts
  <1>5. HeartbeatInv'
    BY DEF HeartbeatInv
  <1>6. CASE Finish(c)
    <2>1. TypeOK'
      BY <1>3, <1>4, <1>6, FinishFacts DEF TypeOK, LockTypeOK
    <2>2. GuardInv'
      BY <1>4, <1>6, GuardFinish
    <2>3. CursorInv'
      BY <1>4, <1>6, FinishFacts, CursorShrinks
    <2>4. LateInv'
      BY <1>6, FinishFacts DEF LateInv
    <2>5. QED
      BY <1>3, <1>5, <2>1, <2>2, <2>3, <2>4
  <1>7. CASE Opened(c, outcome) /\ outcome \in {"more", "end"}
    <2>1. /\ UNCHANGED lockVars
          /\ \A d \in Callers : pc'[d] = IF d = c THEN "streaming" ELSE pc[d]
          /\ \A d \in Callers : stream'[d] =
                IF d = c THEN [result |-> awaits[c], more |-> outcome = "more"] ELSE stream[d]
          /\ stream' \in [Callers -> [result : Nat, more : BOOLEAN]]
          /\ pc' \in [Callers -> Holding \cup {"idle", "waiting"}]
      BY <1>7 DEF Opened, TypeOK, Goto, Holding
    <2>2. TypeOK'
      BY <1>3, <1>4, <2>1 DEF TypeOK, LockTypeOK
    <2>3. GuardInv'
      BY <1>4, <2>1 DEF GuardInv, Holding
    <2>4. CursorInv'
      <3>1. session => cursor.result \in abandoned' \cup {awaits[c]}
        BY <1>4, <1>7 DEF CursorInv, Preparing
      <3>2. QED
        BY <1>4, <2>1, <3>1 DEF CursorInv, CursorKept, Preparing
    <2>5. LateInv'
      BY <2>1 DEF LateInv
    <2>6. QED
      BY <1>3, <1>5, <2>2, <2>3, <2>4, <2>5
  <1>8. QED
    BY <1>1, <1>6, <1>7

LEMMA FetchDoneInv ==
    ASSUME Inv, NEW c \in Callers, FetchDone(c)
    PROVE  Inv'
  <1> USE DEF Inv, FetchDone, lockVars, callerVars, stateVars, taskVars, serverVars, historyVars
  <1>1. PICK outcome \in {"more", "end", "error"} :
           /\ Answers(c, outcome)
           /\ \/ Keep(c, "errored")
              \/ /\ Goto(c, "streaming")
                 /\ stream' = [stream EXCEPT ![c].more = (outcome = "more")]
                 /\ UNCHANGED lockVars
                 /\ outcome # "error"
    OBVIOUS
  <1>2. outcome \in Outcomes
    BY DEF Outcomes
  <1>3. IdInv' /\ replies' \subseteq [id : Nat, outcome : Outcomes]
    BY <1>1, <1>2, AnswersIds
  <1>4. /\ pc[c] = "awaiting" /\ holder = c /\ awaits[c] # 0
        /\ stream[c].result # 0
        /\ awaits' \in [Callers -> Nat]
        /\ \A d \in Callers : awaits'[d] = IF d = c THEN 0 ELSE awaits[d]
        /\ replies' \subseteq replies
        /\ abandoned' \subseteq Nat /\ abandoned \subseteq abandoned'
    <2>1. stream[c].result # 0
      BY DEF Kind, Fetching, TypeOK, Ops
    <2>2. QED
      BY <1>1, <2>1, AnswersFacts
  <1>5. HeartbeatInv'
    BY DEF HeartbeatInv
  <1>6. CASE Keep(c, "errored")
    <2>1. "errored" \in Holding \ {"awaiting"}
      BY DEF Holding
    <2>2. TypeOK'
      <3>1. /\ holder' = holder /\ queue' = queue /\ stream' = stream
            /\ pc' \in [Callers -> Holding \cup {"idle", "waiting"}]
        BY <1>6, <2>1, KeepFacts
      <3>2. QED
        BY <1>3, <1>4, <3>1 DEF TypeOK, LockTypeOK
    <2>3. GuardInv'
      BY <1>4, <1>6, <2>1, GuardKeep
    <2>4. CursorInv'
      BY <1>4, <1>6, <2>1, KeepFacts, CursorShrinks
    <2>5. LateInv'
      BY <1>6, <2>1, KeepFacts DEF LateInv
    <2>6. QED
      BY <1>3, <1>5, <2>2, <2>3, <2>4, <2>5
  <1>7. CASE /\ Goto(c, "streaming")
             /\ stream' = [stream EXCEPT ![c].more = (outcome = "more")]
             /\ UNCHANGED lockVars
             /\ outcome # "error"
    <2>1. /\ \A d \in Callers : pc'[d] = IF d = c THEN "streaming" ELSE pc[d]
          /\ pc' \in [Callers -> Holding \cup {"idle", "waiting"}]
          /\ stream' \in [Callers -> [result : Nat, more : BOOLEAN]]
          /\ \A d \in Callers :
                /\ d # c => stream'[d] = stream[d]
                /\ stream'[d].result = stream[d].result
      BY <1>7 DEF TypeOK, Goto, Holding
    <2>2. TypeOK'
      BY <1>3, <1>4, <1>7, <2>1 DEF TypeOK, LockTypeOK
    <2>3. GuardInv'
      BY <1>4, <1>7, <2>1 DEF GuardInv, Holding
    <2>4. CursorInv'
      <3>1. stream[c].more
        BY <1>4 DEF GuardInv
      <3>2. QED
        BY <1>4, <1>7, <2>1, <3>1 DEF CursorInv, CursorKept, Preparing
    <2>5. LateInv'
      BY <2>1 DEF LateInv
    <2>6. QED
      BY <1>3, <1>5, <2>2, <2>3, <2>4, <2>5
  <1>8. QED
    BY <1>1, <1>6, <1>7

LEMMA AppendDoneInv ==
    ASSUME Inv, NEW c \in Callers, AppendDone(c)
    PROVE  Inv'
  <1> USE DEF Inv, AppendDone, lockVars, callerVars, stateVars, taskVars, serverVars, historyVars
  <1>1. PICK outcome \in Outcomes : Answers(c, outcome)
    BY DEF Outcomes
  <1>2. IdInv' /\ replies' \subseteq [id : Nat, outcome : Outcomes]
    BY <1>1, AnswersIds
  <1>3. /\ awaits' \in [Callers -> Nat]
        /\ \A d \in Callers : awaits'[d] = IF d = c THEN 0 ELSE awaits[d]
        /\ replies' \subseteq replies
        /\ abandoned' \subseteq Nat /\ abandoned \subseteq abandoned'
    BY <1>1, AnswersFacts
  <1>4. TypeOK'
    BY <1>2, <1>3, FinishFacts DEF TypeOK, LockTypeOK
  <1>5. GuardInv'
    BY <1>3, GuardFinish
  <1>6. CursorInv'
    BY <1>3, FinishFacts, CursorShrinks
  <1>7. LateInv' /\ HeartbeatInv'
    BY FinishFacts DEF LateInv, HeartbeatInv
  <1>8. QED
    BY <1>2, <1>4, <1>5, <1>6, <1>7

LEMMA DisconnectDoneInv ==
    ASSUME Inv, NEW c \in Callers, DisconnectDone(c)
    PROVE  Inv'
  <1> USE DEF Inv, DisconnectDone, lockVars, callerVars, stateVars, taskVars, serverVars, historyVars
  <1>1. PICK outcome \in Outcomes :
           /\ Answers(c, outcome)
           /\ closed' = (closed \/ outcome = "success")
           /\ disconnected' = (disconnected \/ outcome = "success")
    BY DEF Outcomes
  <1>2. IdInv' /\ replies' \subseteq [id : Nat, outcome : Outcomes]
    BY <1>1, AnswersIds
  <1>3. /\ pc[c] = "awaiting" /\ holder = c
        /\ awaits' \in [Callers -> Nat]
        /\ \A d \in Callers : awaits'[d] = IF d = c THEN 0 ELSE awaits[d]
        /\ replies' \subseteq replies
        /\ abandoned' \subseteq Nat /\ abandoned \subseteq abandoned'
    BY <1>1, AnswersFacts
  <1>4. TypeOK'
    <2>1. closed' \in BOOLEAN /\ disconnected' \in BOOLEAN
      BY <1>1
    <2>2. QED
      BY <1>2, <1>3, <2>1, FinishFacts DEF TypeOK, LockTypeOK
  <1>5. GuardInv'
    BY <1>3, GuardFinish
  <1>6. CursorInv'
    BY <1>3, FinishFacts, CursorShrinks
  <1>7. LateInv'
    <2>1. \A d \in Callers : pc[d] # "sending" /\ pc'[d] # "sending"
      BY <1>3, FinishFacts DEF GuardInv, Holding
    <2>2. closed => closed'
      BY <1>1
    <2>3. disconnected' => closed'
      BY <1>1 DEF LateInv
    <2>4. QED
      BY <2>1, <2>2, <2>3 DEF LateInv
  <1>8. HeartbeatInv'
    BY <1>1 DEF HeartbeatInv
  <1>9. QED
    BY <1>2, <1>4, <1>5, <1>6, <1>7, <1>8

LEMMA PollInv ==
    ASSUME Inv, NEW c \in Callers, Poll(c) \/ DropStream(c)
    PROVE  Inv'
  <1> USE DEF Inv, Poll, DropStream, lockVars, callerVars, stateVars, taskVars, serverVars, historyVars
  <1>1. /\ holder = c /\ awaits[c] = 0 /\ op' = op
        /\ UNCHANGED <<awaits, queryCounter, abandoned, inflight, replies, session, cursor>>
        /\ \A d \in Callers : awaits'[d] = IF d = c THEN 0 ELSE awaits[d]
        /\ Finish(c) \/ (stream[c].more /\ Keep(c, "locked"))
    BY DEF GuardInv, Holding
  <1>2. IdInv'
    BY <1>1, IdQuiet
  <1>3. HeartbeatInv'
    BY DEF HeartbeatInv
  <1>4. CASE stream[c].more /\ Keep(c, "locked")
    <2>1. "locked" \in Holding \ {"awaiting"}
      BY DEF Holding
    <2>2. /\ holder' = holder /\ queue' = queue /\ stream' = stream
          /\ pc' \in [Callers -> Holding \cup {"idle", "waiting"}]
          /\ \A d \in Callers : pc'[d] = IF d = c THEN "locked" ELSE pc[d]
      BY <1>4, <2>1, KeepFacts
    <2>3. TypeOK'
      BY <2>2 DEF TypeOK, LockTypeOK
    <2>4. GuardInv'
      BY <1>1, <1>4, <2>1, GuardKeep
    <2>5. CursorInv' /\ LateInv'
      BY <2>2, CursorFrame DEF LateInv
    <2>6. QED
      BY <1>2, <1>3, <2>3, <2>4, <2>5
  <1>5. CASE Finish(c)
    <2>1. TypeOK'
      BY <1>5, FinishFacts DEF TypeOK, LockTypeOK
    <2>2. GuardInv'
      BY <1>1, <1>5, GuardFinish
    <2>3. CursorInv'
      BY <1>1, <1>5, FinishFacts, CursorShrinks
    <2>4. LateInv'
      BY <1>5, FinishFacts DEF LateInv
    <2>5. QED
      BY <1>2, <1>3, <2>1, <2>2, <2>3, <2>4
  <1>6. QED
    BY <1>1, <1>4, <1>5

LEMMA CancelWaitInv ==
    ASSUME Inv, NEW c \in Callers, CancelWait(c)
    PROVE  Inv'
  <1> USE DEF Inv, CancelWait, lockVars, callerVars, stateVars, taskVars, serverVars, historyVars
  <1>1. /\ holder' = holder
        /\ \A d \in Callers : pc'[d] = IF d = c THEN "idle" ELSE pc[d]
        /\ pc' \in [Callers -> Holding \cup {"idle", "waiting"}]
    BY DEF Withdraw, TypeOK, Goto
  <1>2. TypeOK'
    <2>1. PICK i \in DOMAIN queue : queue' = RemoveAt(queue, i)
      BY DEF Withdraw
    <2>2. queue' = SubSeq(queue, 1, i - 1) \o SubSeq(queue, i + 1, Len(queue))
      BY <2>1 DEF RemoveAt
    <2>3. queue \in Seq(Callers) /\ i \in 1..Len(queue)
      BY <2>1 DEF TypeOK, LockTypeOK
    <2>4. /\ SubSeq(queue, 1, i - 1) \in Seq(Callers)
          /\ SubSeq(queue, i + 1, Len(queue)) \in Seq(Callers)
      BY <2>3
    <2>5. queue' \in Seq(Callers)
      BY <2>2, <2>4
    <2>6. QED
      BY <1>1, <2>5 DEF TypeOK, LockTypeOK
  <1>3. GuardInv'
    BY <1>1 DEF GuardInv, Holding
  <1>4. IdInv'
    BY <1>1 DEF IdInv, Kind, Fetching
  <1>5. CursorInv'
    BY CursorFrame
  <1>6. LateInv' /\ HeartbeatInv'
    BY <1>1 DEF LateInv, HeartbeatInv
  <1>7. QED
    BY <1>2, <1>3, <1>4, <1>5, <1>6

LEMMA CancelRequestInv ==
    ASSUME Inv, NEW c \in Callers, CancelRequest(c)
    PROVE  Inv'
  <1> USE DEF Inv, CancelRequest, lockVars, callerVars, stateVars, taskVars, serverVars, historyVars
  <1>1. "error" \in Outcomes
    BY DEF Outcomes
  <1>2. IdInv' /\ replies' \subseteq [id : Nat, outcome : Outcomes]
    BY <1>1, AnswersIds
  <1>3. /\ awaits' \in [Callers -> Nat]
        /\ \A d \in Callers : awaits'[d] = IF d = c THEN 0 ELSE awaits[d]
        /\ replies' \subseteq replies
        /\ abandoned' \subseteq Nat /\ abandoned \subseteq abandoned'
    BY <1>1, AnswersFacts
  <1>4. TypeOK'
    BY <1>2, <1>3, FinishFacts DEF TypeOK, LockTypeOK
  <1>5. GuardInv'
    BY <1>3, GuardFinish
  <1>6. CursorInv'
    BY <1>3, FinishFacts, CursorShrinks
  <1>7. LateInv' /\ HeartbeatInv'
    BY FinishFacts DEF LateInv, HeartbeatInv
  <1>8. QED
    BY <1>2, <1>4, <1>5, <1>6, <1>7

LEMMA DropClientInv ==
    ASSUME Inv, NEW c \in Callers, DropClient(c)
    PROVE  Inv'
  <1> USE DEF Inv, DropClient, lockVars, callerVars, stateVars, taskVars, serverVars, historyVars
  <1>1. TypeOK'
    BY DEF TypeOK, LockTypeOK
  <1>2. GuardInv'
    BY DEF GuardInv
  <1>3. IdInv'
    BY DEF IdInv, Kind, Fetching
  <1>4. CursorInv'
    BY CursorFrame
  <1>5. LateInv' /\ HeartbeatInv'
    BY DEF LateInv, HeartbeatInv, HeartbeatRunning
  <1>6. QED
    BY <1>1, <1>2, <1>3, <1>4, <1>5

LEMMA HeartbeatKeepsInv ==
    ASSUME Inv, Heartbeat
    PROVE  Inv'
  <1> USE DEF Inv, Heartbeat, HeartbeatWakes, HeartbeatSends, HeartbeatGoesOn, HeartbeatCloses,
          lockVars, callerVars, stateVars, taskVars, serverVars, historyVars
  <1>1. TypeOK'
    <2>1. hb' \in HeartbeatRunning \cup {"none", "exited", "aborted"} /\ closed' \in BOOLEAN
      BY DEF TypeOK, HeartbeatRunning
    <2>2. lateBeats' \in Nat
      <3>1. lateBeats \in Nat
        BY DEF TypeOK
      <3>2. lateBeats' = lateBeats \/ lateBeats' = lateBeats + 1
        OBVIOUS
      <3>3. QED
        BY <3>1, <3>2
    <2>3. UNCHANGED <<lockVars, callerVars, queryCounter, quack_version, handles, serverVars,
                      abandoned, disconnected, lateScoped>>
      OBVIOUS
    <2> HIDE DEF Heartbeat
    <2>4. QED
      BY <2>1, <2>2, <2>3 DEF TypeOK, LockTypeOK
  <1>2. GuardInv'
    BY DEF GuardInv
  <1>3. IdInv'
    BY DEF IdInv, Kind, Fetching
  <1>4. CursorInv'
    BY CursorFrame
  <1>5. LateInv'
    BY DEF LateInv
  <1>6. HeartbeatInv'
    BY DEF HeartbeatInv, HeartbeatRunning
  <1>7. QED
    BY <1>1, <1>2, <1>3, <1>4, <1>5, <1>6

\* The requests on their way are fewer, and the client is as before.
LEMMA FewerRequests ==
    ASSUME Inv, NEW r \in inflight, inflight' = inflight \ {r},
           UNCHANGED <<lockVars, callerVars, stateVars, taskVars, historyVars>>,
           replies' \subseteq replies \cup {[id |-> r.id, outcome |-> o] : o \in Outcomes}
    PROVE  GuardInv' /\ IdInv' /\ LateInv' /\ HeartbeatInv' /\ inflight' \subseteq Requests
           /\ replies' \subseteq [id : Nat, outcome : Outcomes]
  <1> USE DEF Inv, lockVars, callerVars, stateVars, taskVars, historyVars
  <1>1. GuardInv' /\ LateInv' /\ HeartbeatInv'
    BY DEF GuardInv, LateInv, HeartbeatInv
  <1>2. \A m \in replies' : m \in replies \/ m.id = r.id
    OBVIOUS
  <1>3. IdInv'
    <2>1. \A m \in replies' : m.id < queryCounter /\ (\A s \in inflight' : m.id # s.id)
      BY <1>2 DEF IdInv
    <2>2. \A s \in inflight' : s.id \notin abandoned' =>
            holder' # NoCaller /\ awaits'[holder'] = s.id /\ s.kind = Kind(holder)'
      <3>1. Kind(holder)' = Kind(holder)
        BY DEF Kind, Fetching
      <3>2. QED
        BY <3>1 DEF IdInv
    <2>3. QED
      BY <2>1, <2>2 DEF IdInv
  <1>4. inflight' \subseteq Requests
    BY DEF TypeOK
  <1>5. replies' \subseteq [id : Nat, outcome : Outcomes]
    BY DEF TypeOK, Requests
  <1>6. QED
    BY <1>1, <1>3, <1>4, <1>5

LEMMA ServerProcessesInv ==
    ASSUME Inv, NEW r \in inflight, ServerProcesses(r)
    PROVE  Inv'
  <1> USE DEF Inv, ServerProcesses, lockVars, callerVars, stateVars, taskVars, serverVars, historyVars
  <1>1. PICK outcome \in Outcomes :
          /\ Processed(r, outcome)
          /\ replies' = IF \E c \in Callers : awaits[c] = r.id
                        THEN replies \cup {[id |-> r.id, outcome |-> outcome]}
                        ELSE replies
    OBVIOUS
  <1>2. replies' \subseteq replies \cup {[id |-> r.id, outcome |-> o] : o \in Outcomes}
    BY <1>1
  <1>3. /\ GuardInv' /\ IdInv' /\ LateInv' /\ HeartbeatInv' /\ inflight' \subseteq Requests
        /\ replies' \subseteq [id : Nat, outcome : Outcomes]
    BY <1>2, FewerRequests
  <1>4. r.id \in Nat /\ r.id # 0
    BY DEF TypeOK, Requests, IdInv
  <1>5. session' \in BOOLEAN /\ cursor' \in [result : Nat, left : Nat]
    <2>1. CASE r.kind = "PREPARE" /\ cursor' # cursor
      BY <1>1, <1>4, <2>1, BoundsAssumption DEF Processed, TypeOK
    <2>2. CASE r.kind = "FETCH" /\ cursor' # cursor
      BY <1>1, <2>2 DEF Processed, TypeOK
    <2>3. CASE cursor' = cursor
      BY <1>1, <2>3 DEF Processed, TypeOK
    <2>4. QED
      BY <1>1, <2>1, <2>2, <2>3 DEF Processed
  <1>6. TypeOK'
    BY <1>3, <1>5 DEF TypeOK, LockTypeOK
  <1>7. CursorInv'
    <2>1. session' => session
      BY <1>1 DEF Processed
    \* A PREPARE moves the cursor to itself; everything else leaves its result.
    <2>2. \/ cursor'.result = cursor.result
          \/ r.kind = "PREPARE" /\ cursor'.result = r.id
      BY <1>1 DEF Processed, TypeOK
    \* A live PREPARE is the owner's: no other stream is open, nor its own yet.
    <2>3. r.kind = "PREPARE" /\ r.id \notin abandoned =>
             /\ \A c \in Callers : ~stream[c].more
             /\ \A c \in Callers : awaits[c] # 0 => awaits[c] = r.id
      <3>1. SUFFICES ASSUME r.kind = "PREPARE", r.id \notin abandoned
                     PROVE  /\ \A c \in Callers : ~stream[c].more
                            /\ \A c \in Callers : awaits[c] # 0 => awaits[c] = r.id
        OBVIOUS
      <3>2. holder \in Callers /\ awaits[holder] = r.id /\ Kind(holder) = "PREPARE"
        BY <3>1 DEF IdInv, TypeOK, LockTypeOK
      <3>3. stream[holder].result = 0
        BY <3>2 DEF Kind, Fetching, TypeOK, Ops
      <3>4. \A c \in Callers : c # holder => awaits[c] = 0 /\ stream[c] = NoStream
        BY DEF GuardInv, Holding
      <3>5. QED
        BY <3>2, <3>3, <3>4 DEF GuardInv, NoStream
    <2>4. CursorKept'
      <3>1. CASE cursor'.result = cursor.result
        BY <2>1, <3>1 DEF CursorInv, CursorKept
      <3>2. CASE r.kind = "PREPARE" /\ cursor'.result = r.id
        BY <2>3, <3>2 DEF CursorKept
      <3>3. QED
        BY <2>2, <3>1, <3>2
    <2>5. ASSUME NEW c \in Callers, NEW m \in replies',
                 awaits[c] # 0, m.id = awaits[c], Preparing(c),
                 m.outcome \in {"more", "end"}, session'
          PROVE  cursor'.result \in abandoned \cup {awaits[c]}
      <3>1. CASE r.kind = "PREPARE" /\ cursor'.result = r.id
        BY <2>3, <2>5, <3>1
      <3>2. CASE cursor'.result = cursor.result /\ m \in replies
        BY <2>1, <2>5, <3>2 DEF CursorInv
      <3>3. CASE m = [id |-> r.id, outcome |-> outcome] /\ cursor'.result = cursor.result
        <4>1. r.id = awaits[c]
          BY <2>5, <3>3
        <4>2. holder = c /\ Kind(c) = "PREPARE"
          BY <2>5 DEF GuardInv, Holding, Preparing, Kind, Fetching
        <4>3. r.kind = "PREPARE"
          BY <4>1, <4>2, <2>5 DEF IdInv
        <4>4. outcome # "error" /\ session
          BY <2>1, <2>5, <3>3
        <4>5. cursor'.result = r.id
          BY <1>1, <4>3, <4>4 DEF Processed
        <4>6. QED
          BY <4>1, <4>5
      <3>4. m \in replies \/ m = [id |-> r.id, outcome |-> outcome]
        BY <1>1
      <3>5. QED
        BY <2>2, <3>1, <3>2, <3>3, <3>4
    <2>6. QED
      BY <2>4, <2>5 DEF CursorInv, Preparing
  <1>8. QED
    BY <1>3, <1>6, <1>7

LEMMA ServerElseInv ==
    ASSUME Inv, (\E r \in inflight : NetworkLoses(r)) \/ ServerExpires
    PROVE  Inv'
  <1> USE DEF Inv, lockVars, callerVars, stateVars, taskVars, serverVars, historyVars
  <1>1. CASE \E r \in inflight : NetworkLoses(r)
    <2>1. PICK r \in inflight : NetworkLoses(r)
      BY <1>1
    <2>2. /\ GuardInv' /\ IdInv' /\ LateInv' /\ HeartbeatInv' /\ inflight' \subseteq Requests
      BY <2>1, FewerRequests DEF NetworkLoses
    <2>3. CursorInv'
      BY <2>1, CursorFrame DEF NetworkLoses
    <2>4. TypeOK'
      BY <2>1, <2>2 DEF TypeOK, LockTypeOK, NetworkLoses
    <2>5. QED
      BY <2>2, <2>3, <2>4
  <1>2. CASE ServerExpires
    <2> USE DEF ServerExpires
    <2>1. TypeOK' /\ GuardInv' /\ LateInv' /\ HeartbeatInv'
      BY <1>2 DEF TypeOK, LockTypeOK, GuardInv, LateInv, HeartbeatInv
    <2>2. IdInv'
      BY <1>2 DEF IdInv, Kind, Fetching
    <2>3. CursorInv'
      BY <1>2 DEF CursorInv, CursorKept, Preparing
    <2>4. QED
      BY <2>1, <2>2, <2>3
  <1>3. QED
    BY <1>1, <1>2

LEMMA StutterInv ==
    ASSUME Inv, UNCHANGED vars
    PROVE  Inv'
  <1> USE DEF Inv, vars, lockVars, callerVars, stateVars, taskVars, serverVars, historyVars
  <1>1. TypeOK' /\ GuardInv' /\ LateInv' /\ HeartbeatInv'
    BY DEF TypeOK, LockTypeOK, GuardInv, LateInv, HeartbeatInv
  <1>2. IdInv' /\ CursorInv'
    BY CursorFrame DEF IdInv, Kind, Fetching
  <1>3. QED
    BY <1>1, <1>2

LEMMA NextInv ==
    ASSUME Inv, [Next]_vars
    PROVE  Inv'
  <1>1. ASSUME NEW c \in Callers, Caller(c) PROVE Inv'
    BY <1>1, CallInv, AcquireInv, EnsureOpenInv, SendInv, PrepareDoneInv, FetchDoneInv,
       AppendDoneInv, DisconnectDoneInv, PollInv, CancelWaitInv, CancelRequestInv,
       DropClientInv DEF Caller, Resolve
  <1>2. CASE Heartbeat
    BY <1>2, HeartbeatKeepsInv
  <1>3. CASE Server
    BY <1>3, ServerProcessesInv, ServerElseInv DEF Server
  <1>4. CASE UNCHANGED vars
    BY <1>4, StutterInv
  <1>5. QED
    BY <1>1, <1>2, <1>3, <1>4 DEF Next

-------------------------------------------------------------------------------
(* The theorems *)

\* The inductive invariant holds throughout.
THEOREM Invariance == Spec => []Inv
  <1>1. Init => Inv
    BY InitInv
  <1>2. Inv /\ [Next]_vars => Inv'
    BY NextInv
  <1>3. QED
    BY <1>1, <1>2, PTL DEF Spec

\* Every variable of the client, the server and the network keeps its type.
THEOREM TypeCorrect == Spec => []TypeOK
  <1>1. Inv => TypeOK
    BY DEF Inv
  <1>2. QED
    BY <1>1, Invariance, PTL

\* The lock carried by FetchState lets one request be wanted at a time, its
\* owner's (client.rs:228-231).
THEOREM OneRequestAtATime == Spec => []OneLiveRequest
  <1>1. Inv => OneLiveRequest
    BY DEF Inv, IdInv, OneLiveRequest
  <1>2. QED
    BY <1>1, Invariance, PTL

\* Only a PREPARE that its caller gave up on can take the server's cursor from
\* an open stream (client.rs:132-138).
THEOREM CursorIsKept == Spec => []CursorKept
  <1>1. Inv => CursorKept
    BY DEF Inv, CursorInv
  <1>2. QED
    BY <1>1, Invariance, PTL

\* The check-then-send races on `closed' let one message through on each side,
\* however many tasks there are (client.rs:706, 766).
THEOREM LateMessagesBounded == Spec => []LateByOneAtMost
  <1>1. Inv => LateByOneAtMost
    BY DEF Inv, LateInv, LateByOneAtMost
  <1>2. QED
    BY <1>1, Invariance, PTL

\* The heartbeat task lives as long as the connection has a client
\* (client.rs:868-872).
THEOREM HeartbeatLivesWhileNeeded == Spec => []HeartbeatIffNeeded
  <1>1. Inv => HeartbeatIffNeeded
    BY DEF Inv, TypeOK, HeartbeatInv, HeartbeatIffNeeded, HeartbeatRunning
  <1>2. QED
    BY <1>1, Invariance, PTL

\* A confirmed disconnect is final: the flag stays and no id is used any more
\* (client.rs:685-696).
THEOREM DisconnectStays == Spec => DisconnectIsFinal
  <1>1. Inv /\ [Next]_vars => [disconnected => closed' /\ queryCounter' = queryCounter]_vars
    <2>1. SUFFICES ASSUME Inv, [Next]_vars, disconnected
                   PROVE  (closed' /\ queryCounter' = queryCounter) \/ UNCHANGED vars
      OBVIOUS
    <2>2. closed /\ \A c \in Callers : pc[c] # "sending"
      BY <2>1 DEF Inv, LateInv
    <2> USE DEF stateVars, vars
    <2>3. ASSUME NEW c \in Callers, Caller(c) PROVE closed' /\ queryCounter' = queryCounter
      BY <2>2, <2>3 DEF Caller, Resolve, Call, Acquire, EnsureOpen, Send, PrepareDone,
         FetchDone, AppendDone, DisconnectDone, Poll, DropStream, CancelWait,
         CancelRequest, DropClient
    <2>4. CASE Heartbeat
      BY <2>2, <2>4 DEF Heartbeat, HeartbeatWakes, HeartbeatSends, HeartbeatGoesOn, HeartbeatCloses
    <2>5. CASE Server
      BY <2>2, <2>5 DEF Server, ServerProcesses, NetworkLoses, ServerExpires
    <2>6. QED
      BY <2>1, <2>3, <2>4, <2>5 DEF Next
  <1>2. QED
    BY <1>1, Invariance, PTL DEF Spec, DisconnectIsFinal

-------------------------------------------------------------------------------
(* The refinement of ServedStreams: what Inv leaves open *)

\* One answer at most for a request, and no request has id 0.
ReplyInv ==
    /\ \A m \in replies : m.id # 0
    /\ \A m, n \in replies : m.id = n.id => m = n

\* A request for a result is its stream's, or its stream has failed: a FETCH that
\* was given up on never takes a batch from a stream that still polls.
FetchInv ==
    /\ \A c \in Callers : stream[c].result < queryCounter
    /\ \A r \in inflight : r.result < queryCounter
    /\ \A r \in inflight, c \in Callers :
          /\ r.id # stream[c].result
          /\ awaits[c] = r.id => r.result = stream[c].result
          /\ awaits[c] # 0 /\ Preparing(c) => r.result # awaits[c]
          /\ r.id \in abandoned /\ stream[c].result # 0 /\ r.result = stream[c].result
                => pc[c] = "errored"

ServingInv == Inv /\ ReplyInv /\ FetchInv

-------------------------------------------------------------------------------
(* The actions preserve it *)

\* No request is added and no stream is opened; a stream whose request is given
\* up on fails or is closed.
Shrinks ==
    /\ queryCounter' = queryCounter
    /\ inflight' \subseteq inflight
    /\ \A d \in Callers :
          /\ awaits'[d] # 0 =>
                awaits'[d] = awaits[d] /\ op'[d] = op[d] /\ stream'[d] = stream[d]
          /\ stream'[d].result # 0 =>
                /\ stream'[d].result = stream[d].result
                /\ pc[d] = "errored" => pc'[d] = "errored"
                /\ pc'[d] = "errored" \/ abandoned' = abandoned

LEMMA ShrinksFetchInv ==
    ASSUME ServingInv, Shrinks
    PROVE  FetchInv'
  <1>1. queryCounter \in Nat \ {0}
    BY DEF ServingInv, Inv, TypeOK
  <1>2. \A c \in Callers : stream'[c].result < queryCounter'
    BY <1>1 DEF ServingInv, FetchInv, Shrinks
  <1>3. \A r \in inflight' : r.result < queryCounter'
    BY DEF ServingInv, FetchInv, Shrinks
  <1>4. ASSUME NEW r \in inflight', NEW c \in Callers
        PROVE  /\ r.id # stream'[c].result
               /\ awaits'[c] = r.id => r.result = stream'[c].result
               /\ awaits'[c] # 0 /\ Preparing(c)' => r.result # awaits'[c]
               /\ r.id \in abandoned' /\ stream'[c].result # 0
                  /\ r.result = stream'[c].result => pc'[c] = "errored"
    <2>1. r \in inflight /\ r.id # 0
      BY DEF ServingInv, Inv, IdInv, Shrinks
    <2>2. awaits'[c] = r.id => r.result = stream'[c].result
      BY <2>1 DEF ServingInv, FetchInv, Shrinks
    <2>3. awaits'[c] # 0 /\ Preparing(c)' => r.result # awaits'[c]
      BY <2>1 DEF ServingInv, FetchInv, Shrinks, Preparing
    <2>4. QED
      BY <2>1, <2>2, <2>3 DEF ServingInv, FetchInv, Shrinks
  <1>5. QED
    BY <1>2, <1>3, <1>4 DEF FetchInv

LEMMA FewerReplies ==
    ASSUME ServingInv, replies' \subseteq replies
    PROVE  ReplyInv'
  BY DEF ServingInv, ReplyInv

\* A stream that is not there.
LEMMA NoStreamFacts == NoStream.result = 0 /\ NoStream.more = FALSE
  BY DEF NoStream

\* A call or stream is over: every other task's is as before.
LEMMA FinishShrinks ==
    ASSUME ServingInv, NEW c \in Callers, Finish(c), op' = op,
           queryCounter' = queryCounter, inflight' \subseteq inflight,
           \A d \in Callers : awaits'[d] = IF d = c THEN 0 ELSE awaits[d]
    PROVE  Shrinks
  <1>1. /\ holder = c
        /\ \A d \in Callers : stream'[d] = IF d = c THEN NoStream ELSE stream[d]
    BY FinishFacts DEF ServingInv, Inv
  <1>2. \A d \in Callers : stream'[d].result = 0
    BY <1>1, NoStreamFacts DEF ServingInv, Inv, GuardInv, Holding
  <1>3. QED
    BY <1>1, <1>2 DEF Shrinks

LEMMA CallServing ==
    ASSUME ServingInv, NEW c \in Callers, NEW o \in Ops, Call(c, o)
    PROVE  FetchInv' /\ ReplyInv'
  <1> USE DEF Call, lockVars, callerVars, stateVars, taskVars,
             serverVars, historyVars
  <1>1. /\ awaits[c] = 0 /\ pc[c] = "idle"
        /\ \A d \in Callers : pc'[d] = IF d = c THEN "waiting" ELSE pc[d]
        /\ \A d \in Callers : op'[d] = IF d = c THEN o ELSE op[d]
    BY DEF ServingInv, Inv, GuardInv, TypeOK, Goto
  <1>2. Shrinks
    BY <1>1 DEF Shrinks
  <1>3. QED
    BY <1>2, ShrinksFetchInv, FewerReplies

LEMMA WaitServing ==
    ASSUME ServingInv, NEW c \in Callers, Acquire(c) \/ CancelWait(c)
    PROVE  FetchInv' /\ ReplyInv'
  <1> USE DEF Acquire, CancelWait, lockVars, callerVars, stateVars, taskVars,
             serverVars, historyVars
  <1>1. \A d \in Callers : pc[d] = "errored" => pc'[d] = "errored"
    BY DEF ServingInv, Inv, TypeOK, Goto
  <1>2. Shrinks
    BY <1>1 DEF Shrinks
  <1>3. QED
    BY <1>2, ShrinksFetchInv, FewerReplies

LEMMA EnsureOpenServing ==
    ASSUME ServingInv, NEW c \in Callers, EnsureOpen(c)
    PROVE  FetchInv' /\ ReplyInv'
  <1> USE DEF EnsureOpen, lockVars, callerVars, stateVars, taskVars,
             serverVars, historyVars
  <1>1. /\ awaits[c] = 0 /\ pc[c] = "locked"
        /\ \A d \in Callers : awaits'[d] = IF d = c THEN 0 ELSE awaits[d]
    BY DEF ServingInv, Inv, GuardInv
  <1>2. CASE Finish(c)
    <2>1. Shrinks
      BY <1>1, <1>2, FinishShrinks
    <2>2. QED
      BY <2>1, ShrinksFetchInv, FewerReplies
  <1>3. CASE \E s \in {"sending", "errored"} : Keep(c, s)
    <2>1. /\ stream' = stream
          /\ \A d \in Callers : pc[d] = "errored" => pc'[d] = "errored"
      BY <1>1, <1>3, KeepFacts DEF ServingInv, Inv, Holding
    <2>2. Shrinks
      BY <2>1 DEF Shrinks
    <2>3. QED
      BY <2>2, ShrinksFetchInv, FewerReplies
  <1>4. QED
    BY <1>2, <1>3

LEMMA SendServing ==
    ASSUME ServingInv, NEW c \in Callers, Send(c)
    PROVE  FetchInv' /\ ReplyInv'
  <1> USE DEF Send, lockVars, callerVars, stateVars, taskVars,
             serverVars, historyVars
  <1> DEFINE new == [id |-> queryCounter, kind |-> Kind(c), result |-> stream[c].result]
  <1>1. /\ holder = c /\ awaits[c] = 0 /\ queryCounter \in Nat \ {0}
        /\ queryCounter' = queryCounter + 1 /\ stream' = stream /\ op' = op
        /\ abandoned' = abandoned
        /\ \A d \in Callers : awaits'[d] = IF d = c THEN queryCounter ELSE 0
        /\ \A d \in Callers : stream[d].result \in Nat
    BY DEF ServingInv, Inv, GuardInv, Holding, TypeOK
  <1>2. /\ inflight' = inflight \cup {new}
        /\ new.id = queryCounter /\ new.result = stream[c].result
    OBVIOUS
  <1> HIDE DEF new
  <1>3. \A d \in Callers : stream[d].result < queryCounter
    BY DEF ServingInv, FetchInv
  <1>4. \A r \in inflight : /\ r.id \in Nat /\ r.id < queryCounter /\ r.id # 0
                            /\ r.result \in Nat /\ r.result < queryCounter
    BY DEF ServingInv, Inv, TypeOK, Requests, IdInv, FetchInv
  <1>5. queryCounter \notin abandoned
    BY <1>1 DEF ServingInv, Inv, TypeOK, IdInv
  <1>6. \A d \in Callers : pc[d] = "errored" => pc'[d] = "errored"
    BY DEF ServingInv, Inv, TypeOK, Goto
  <1>7. \A r \in inflight', d \in Callers :
           /\ r.id # stream'[d].result
           /\ awaits'[d] = r.id => r.result = stream'[d].result
           /\ awaits'[d] # 0 => r.result # awaits'[d]
    <2>1. ASSUME NEW r \in inflight, NEW d \in Callers
          PROVE  /\ r.id # stream'[d].result
                 /\ awaits'[d] # r.id
                 /\ awaits'[d] # 0 => r.result # awaits'[d]
      BY <1>1, <1>4 DEF ServingInv, FetchInv
    <2>2. ASSUME NEW d \in Callers
          PROVE  /\ new.id # stream'[d].result
                 /\ awaits'[d] = new.id => new.result = stream'[d].result
                 /\ awaits'[d] # 0 => new.result # awaits'[d]
      BY <1>1, <1>2, <1>3
    <2>3. QED
      BY <1>2, <2>1, <2>2
  <1>8. \A r \in inflight', d \in Callers :
           r.id \in abandoned' /\ stream'[d].result # 0 /\ r.result = stream'[d].result
              => pc'[d] = "errored"
    BY <1>1, <1>2, <1>5, <1>6 DEF ServingInv, FetchInv
  <1>9. /\ \A d \in Callers : stream'[d].result < queryCounter'
        /\ \A r \in inflight' : r.result < queryCounter'
    <2>1. \A r \in inflight' : r.result \in Nat /\ r.result < queryCounter
      BY <1>1, <1>2, <1>3, <1>4
    <2>2. QED
      BY <1>1, <1>3, <2>1
  <1>10. QED
    BY <1>7, <1>8, <1>9, FewerReplies DEF FetchInv

LEMMA PrepareDoneServing ==
    ASSUME ServingInv, NEW c \in Callers, PrepareDone(c)
    PROVE  FetchInv' /\ ReplyInv'
  <1> USE DEF PrepareDone, lockVars, callerVars, stateVars, taskVars,
             serverVars, historyVars
  <1>1. PICK outcome \in {"more", "end", "error"} :
           /\ Answers(c, outcome)
           /\ IF outcome = "error" THEN Finish(c) ELSE Opened(c, outcome)
    OBVIOUS
  <1>2. /\ pc[c] = "awaiting" /\ holder = c /\ awaits[c] # 0
        /\ awaits[c] \in Nat /\ awaits[c] < queryCounter
        /\ \A d \in Callers : awaits'[d] = IF d = c THEN 0 ELSE awaits[d]
        /\ replies' \subseteq replies
    BY <1>1, AnswersFacts DEF ServingInv, Inv, IdInv, TypeOK
  <1>3. ReplyInv'
    BY <1>2, FewerReplies
  <1>4. CASE Finish(c)
    <2>1. Shrinks
      BY <1>2, <1>4, FinishShrinks
    <2>2. QED
      BY <1>3, <2>1, ShrinksFetchInv
  <1>5. CASE outcome # "error" /\ Opened(c, outcome)
    <2>1. /\ \A d \in Callers : stream'[d].result = IF d = c THEN awaits[c] ELSE 0
          /\ \A d \in Callers : awaits'[d] = 0
      BY <1>2, <1>5, NoStreamFacts DEF Opened, ServingInv, Inv, GuardInv, Holding, TypeOK
    <2>2. PICK m \in replies : m.id = awaits[c]
      BY <1>1, <1>2, <1>5, AnswersFacts DEF ServingInv
    <2>3. Preparing(c)
      BY DEF Preparing, Kind, Fetching, ServingInv, Inv, TypeOK, Ops
    <2>4. \A r \in inflight : r.id # awaits[c] /\ r.id # 0 /\ r.result # awaits[c]
      BY <1>2, <2>2, <2>3 DEF ServingInv, Inv, IdInv, FetchInv
    <2>5. \A d \in Callers : stream'[d].result < queryCounter'
      BY <1>2, <2>1 DEF ServingInv, Inv, TypeOK
    <2>6. QED
      BY <1>3, <2>1, <2>4, <2>5 DEF ServingInv, FetchInv
  <1>6. QED
    BY <1>1, <1>4, <1>5

LEMMA FetchDoneServing ==
    ASSUME ServingInv, NEW c \in Callers, FetchDone(c)
    PROVE  FetchInv' /\ ReplyInv'
  <1> USE DEF FetchDone, lockVars, callerVars, stateVars, taskVars,
             serverVars, historyVars
  <1>1. PICK outcome \in {"more", "end", "error"} :
           /\ Answers(c, outcome)
           /\ IF outcome = "error"
              THEN Keep(c, "errored")
              ELSE /\ Goto(c, "streaming")
                   /\ stream' = [stream EXCEPT ![c].more = (outcome = "more")]
                   /\ UNCHANGED lockVars
    OBVIOUS
  <1>2. /\ pc[c] = "awaiting" /\ holder = c
        /\ \A d \in Callers : awaits'[d] = IF d = c THEN 0 ELSE awaits[d]
        /\ replies' \subseteq replies
    BY <1>1, AnswersFacts DEF ServingInv
  <1>3. \A d \in Callers : d # c => stream[d].result = 0
    BY <1>2, NoStreamFacts DEF ServingInv, Inv, GuardInv, Holding
  <1>4. /\ \A d \in Callers : d # c => stream'[d] = stream[d] /\ pc'[d] = pc[d]
        /\ stream'[c].result = stream[c].result
        /\ pc'[c] = "errored" \/ outcome # "error"
    BY <1>1 DEF ServingInv, Inv, TypeOK, Keep, Goto
  <1>5. outcome # "error" => abandoned' = abandoned
    BY <1>1 DEF Answers
  <1>6. Shrinks
    BY <1>2, <1>3, <1>4, <1>5 DEF Shrinks
  <1>7. QED
    BY <1>2, <1>6, ShrinksFetchInv, FewerReplies

\* Three actions take an answer, or give up on it, and end the call or stream.
LEMMA AnswersAndFinishServing ==
    ASSUME ServingInv, NEW c \in Callers,
           AppendDone(c) \/ DisconnectDone(c) \/ CancelRequest(c)
    PROVE  FetchInv' /\ ReplyInv'
  <1>1. PICK outcome : Answers(c, outcome)
    BY DEF AppendDone, DisconnectDone, CancelRequest
  <1>2. /\ \A d \in Callers : awaits'[d] = IF d = c THEN 0 ELSE awaits[d]
        /\ replies' \subseteq replies
    BY <1>1, AnswersFacts DEF ServingInv
  <1>3. /\ Finish(c) /\ op' = op
        /\ queryCounter' = queryCounter /\ inflight' = inflight
    BY DEF AppendDone, DisconnectDone, CancelRequest, stateVars
  <1>4. Shrinks
    BY <1>2, <1>3, FinishShrinks
  <1>5. QED
    BY <1>2, <1>4, ShrinksFetchInv, FewerReplies

LEMMA PollServing ==
    ASSUME ServingInv, NEW c \in Callers, Poll(c) \/ DropStream(c)
    PROVE  FetchInv' /\ ReplyInv'
  <1> USE DEF Poll, DropStream, lockVars, callerVars, stateVars, taskVars,
             serverVars, historyVars
  <1>1. \A d \in Callers : awaits'[d] = IF d = c THEN 0 ELSE awaits[d]
    BY DEF ServingInv, Inv, GuardInv
  <1>2. CASE Finish(c)
    <2>1. Shrinks
      BY <1>1, <1>2, FinishShrinks
    <2>2. QED
      BY <2>1, ShrinksFetchInv, FewerReplies
  <1>3. CASE pc[c] = "streaming" /\ Keep(c, "locked")
    <2>1. /\ stream' = stream
          /\ \A d \in Callers : pc[d] = "errored" => pc'[d] = "errored"
      BY <1>3, KeepFacts DEF ServingInv, Inv, Holding
    <2>2. Shrinks
      BY <2>1 DEF Shrinks
    <2>3. QED
      BY <2>2, ShrinksFetchInv, FewerReplies
  <1>4. QED
    BY <1>2, <1>3

\* Clones, the heartbeat task and the network's losses touch no stream.
LEMMA QuietServing ==
    ASSUME ServingInv, inflight' \subseteq inflight,
           UNCHANGED <<pc, op, stream, awaits, queryCounter, replies, abandoned>>
    PROVE  FetchInv' /\ ReplyInv'
  <1>1. Shrinks
    BY DEF Shrinks
  <1>2. QED
    BY <1>1, ShrinksFetchInv, FewerReplies

LEMMA ServerProcessesServing ==
    ASSUME ServingInv, NEW r \in inflight, ServerProcesses(r)
    PROVE  FetchInv' /\ ReplyInv'
  <1> USE DEF ServerProcesses, callerVars, stateVars, historyVars
  <1>1. Shrinks
    BY DEF Shrinks
  <1>2. PICK outcome \in Outcomes :
           replies' \subseteq replies \cup {[id |-> r.id, outcome |-> outcome]}
    OBVIOUS
  <1>3. r.id # 0 /\ \A m \in replies : m.id # r.id
    BY DEF ServingInv, Inv, IdInv
  <1>4. ReplyInv'
    BY <1>2, <1>3 DEF ServingInv, ReplyInv
  <1>5. QED
    BY <1>1, <1>4, ShrinksFetchInv

LEMMA NextServing ==
    ASSUME ServingInv, [Next]_vars
    PROVE  ServingInv'
  <1> USE DEF vars, callerVars, stateVars, serverVars, historyVars
  <1>1. Inv'
    BY NextInv DEF ServingInv
  <1>2. ASSUME NEW c \in Callers, DropClient(c) PROVE FetchInv' /\ ReplyInv'
    BY <1>2, QuietServing DEF DropClient
  <1>3. ASSUME NEW c \in Callers, Caller(c) PROVE FetchInv' /\ ReplyInv'
    BY <1>2, <1>3, CallServing, WaitServing, EnsureOpenServing, SendServing,
       PrepareDoneServing, FetchDoneServing, AnswersAndFinishServing, PollServing
       DEF Caller, Resolve
  <1>4. ASSUME Heartbeat PROVE FetchInv' /\ ReplyInv'
    BY <1>4, QuietServing
       DEF Heartbeat, HeartbeatWakes, HeartbeatSends, HeartbeatGoesOn, HeartbeatCloses
  <1>5. ASSUME NEW r \in inflight, ServerProcesses(r) PROVE FetchInv' /\ ReplyInv'
    BY <1>5, ServerProcessesServing
  <1>6. ASSUME NEW r \in inflight, NetworkLoses(r) PROVE FetchInv' /\ ReplyInv'
    BY <1>6, QuietServing DEF NetworkLoses
  <1>7. ASSUME ServerExpires PROVE FetchInv' /\ ReplyInv'
    BY <1>7, QuietServing DEF ServerExpires
  <1>8. ASSUME UNCHANGED vars PROVE FetchInv' /\ ReplyInv'
    BY <1>8, QuietServing
  <1>9. QED
    BY <1>1, <1>3, <1>4, <1>5, <1>6, <1>7, <1>8 DEF ServingInv, Next, Server

LEMMA InitServing == Init => ServingInv
  <1> SUFFICES ASSUME Init PROVE ServingInv
    OBVIOUS
  <1>1. ReplyInv /\ FetchInv
    BY DEF Init, ReplyInv, FetchInv, NoStream, FirstQueryId
  <1>2. QED
    BY <1>1, InitInv DEF ServingInv

-------------------------------------------------------------------------------
(* What a step may do to the result of one task *)

None == [state |-> "none", due |-> 0]
Lost == [state |-> "lost", due |-> 0]
Complete == [state |-> "complete", due |-> 0]
Open(n) == [state |-> "open", due |-> n]

\* From s to t: the result is opened, delivers, completes, is lost or closed.
ServedStep(s, t) ==
    \/ t = s
    \/ s = None /\ \E n \in Nat : t \in {Open(n), Complete, Lost}
    \/ \E n \in Nat : s = Open(n) /\ t = Lost
    \/ \E n \in Nat \ {0} : s = Open(n) /\ t = Open(n - 1)
    \/ s = Open(0) /\ t = Complete
    \/ s # None /\ t = None

\* Such a step of the one task that has a result is a step of ServedStreams.
LEMMA StepIsNext ==
    ASSUME NEW c \in Callers, ServedStep(Served(c), Served(c)'),
           \A d \in Callers \ {c} : Served(d) = None /\ Served(d)' = None
    PROVE  [Streams!Next]_served
  <1>1. /\ \A d \in Callers : served[d] = Served(d) /\ served'[d] = Served(d)'
        /\ served' = [served EXCEPT ![c] = Served(c)']
    BY DEF served
  <1>2. CASE Served(c)' = Served(c)
    <2>1. \A d \in Callers : Served(d)' = Served(d)
      BY <1>2
    <2>2. QED
      BY <2>1 DEF served
  <1>3. CASE Served(c) = None /\ \E n \in Nat : Served(c)' \in {Open(n), Complete, Lost}
    <2>1. PICK t : served'[c] = t /\ \E n \in Nat : t \in {Open(n), Complete, Lost}
      BY <1>1, <1>3
    <2>2. /\ t.state \in Streams!States \ {"none"} /\ t.due \in Nat
          /\ t.state # "open" => t.due = 0
      BY <2>1 DEF Streams!States, Open, Complete, Lost
    <2>3. \A d \in Callers : served[d] = Streams!None
      BY <1>1, <1>3 DEF Streams!None, None
    <2>4. Streams!Open(c)
      BY <1>1, <2>1, <2>2, <2>3 DEF Streams!Open, Streams!Change
    <2>5. QED
      BY <2>4 DEF Streams!Next
  <1>4. CASE \E n \in Nat : Served(c) = Open(n) /\ Served(c)' = Lost
    <2>1. Streams!Lose(c)
      BY <1>1, <1>4 DEF Streams!Lose, Open, Lost
    <2>2. QED
      BY <2>1 DEF Streams!Next
  <1>5. CASE \E n \in Nat \ {0} : Served(c) = Open(n) /\ Served(c)' = Open(n - 1)
    <2>1. PICK n \in Nat \ {0} :
             served[c] = Open(n) /\ served' = [served EXCEPT ![c] = Open(n - 1)]
      BY <1>1, <1>5
    <2>2. /\ [Open(n) EXCEPT !.due = @ - 1] = Open(n - 1)
          /\ Open(n).state = "open" /\ Open(n).due = n
      BY DEF Open
    <2>3. served' = [served EXCEPT ![c].due = @ - 1]
      BY <1>1, <2>1, <2>2 DEF served
    <2>4. served[c].state = "open" /\ served[c].due > 0
      BY <2>1, <2>2
    <2>5. Streams!Deliver(c)
      BY <2>3, <2>4, Zenon DEF Streams!Deliver
    <2>6. QED
      BY <2>5 DEF Streams!Next
  <1>6. CASE Served(c) = Open(0) /\ Served(c)' = Complete
    <2>1. served[c] = Open(0) /\ served' = [served EXCEPT ![c] = Complete]
      BY <1>1, <1>6
    <2>2. [Open(0) EXCEPT !.state = "complete"] = Complete
      BY DEF Open, Complete
    <2>3. Streams!Complete(c)
      BY <2>1, <2>2 DEF Streams!Complete, Open
    <2>4. QED
      BY <2>3 DEF Streams!Next
  <1>7. CASE Served(c) # None /\ Served(c)' = None
    <2>1. Streams!Close(c)
      BY <1>1, <1>7 DEF Streams!Close, Streams!None, None
    <2>2. QED
      BY <2>1 DEF Streams!Next
  <1>8. QED
    BY <1>2, <1>3, <1>4, <1>5, <1>6, <1>7 DEF ServedStep

-------------------------------------------------------------------------------
(* What Served says of a task *)

\* There is no answer to a task that awaits none.
LEMMA NothingComing ==
    ASSUME ServingInv, NEW c \in Callers, awaits[c] = 0, NEW outcome
    PROVE  ~Coming(c, outcome)
  BY DEF ServingInv, ReplyInv, Coming

LEMMA NothingComingNext ==
    ASSUME ServingInv', NEW c \in Callers, awaits'[c] = 0, NEW outcome
    PROVE  ~Coming(c, outcome)'
  BY DEF ServingInv, ReplyInv, Coming

\* The batches of a stream that still has its cursor.
Due(c) == cursor.left + IF Coming(c, "more") THEN 1 ELSE 0
Kept(c) == pc[c] # "errored" /\ session /\ cursor.result = stream[c].result

ServedIs(c) ==
    /\ holder # c => Served(c) = None
    /\ stream[c].result = 0 => Served(c) = None
    /\ stream[c].result # 0 /\ ~stream[c].more => Served(c) = Complete
    /\ stream[c].result # 0 /\ stream[c].more =>
          /\ Coming(c, "end") => Served(c) = Open(0)
          /\ ~Coming(c, "end") /\ Kept(c) => Served(c) = Open(Due(c))
          /\ ~Coming(c, "end") /\ ~Kept(c) => Served(c) = Lost
          /\ Due(c) \in Nat

AllServed == \A c \in Callers : ServedIs(c)

LEMMA ServedCases == Inv => AllServed
  <1> SUFFICES ASSUME Inv, NEW c \in Callers PROVE ServedIs(c)
    BY DEF AllServed
  <1>1. /\ stream[c].more => stream[c].result # 0
        /\ holder # c => stream[c].result = 0
    BY NoStreamFacts DEF Inv, GuardInv, Holding
  <1>2. stream[c].result = 0 => Served(c) = None
    BY <1>1 DEF Served, None
  <1>3. stream[c].result # 0 /\ ~stream[c].more => Served(c) = Complete
    BY <1>1 DEF Served, Complete
  <1>4. stream[c].more /\ Coming(c, "end") => Served(c) = Open(0)
    BY <1>1 DEF Served, Open
  <1>5. stream[c].more /\ ~Coming(c, "end") /\ Kept(c) => Served(c) = Open(Due(c))
    BY <1>1 DEF Served, Open, Due, Kept
  <1>6. stream[c].more /\ ~Coming(c, "end") /\ ~Kept(c) => Served(c) = Lost
    BY <1>1 DEF Served, Lost, Kept
  <1>7. Due(c) \in Nat
    BY DEF Due, Inv, TypeOK
  <1>8. QED
    BY <1>1, <1>2, <1>3, <1>4, <1>5, <1>6, <1>7 DEF ServedIs

LEMMA ServedCasesNext == Inv' => AllServed'
  BY ServedCases, PTL

\* Both sides of a step.
LEMMA ServedBoth ==
    ASSUME ServingInv, ServingInv', NEW c \in Callers
    PROVE  ServedIs(c) /\ ServedIs(c)'
  <1>1. Inv /\ Inv'
    BY DEF ServingInv
  <1>2. AllServed /\ AllServed'
    BY <1>1, ServedCases, ServedCasesNext
  <1>3. QED
    BY <1>2 DEF AllServed

\* A task whose stream, answers, server and failure are as before.
Same(c) ==
    /\ stream'[c] = stream[c]
    /\ session' = session /\ cursor' = cursor
    /\ pc[c] = "errored" <=> pc'[c] = "errored"
    /\ \A outcome : Coming(c, outcome)' <=> Coming(c, outcome)

LEMMA SameServed ==
    ASSUME ServingInv, ServingInv', NEW c \in Callers, Same(c)
    PROVE  Served(c)' = Served(c)
  <1>1. ServedIs(c) /\ ServedIs(c)'
    BY ServedBoth
  <1>2. (Kept(c)' <=> Kept(c)) /\ Due(c)' = Due(c)
    BY DEF Same, Kept, Due
  <1>3. Open(Due(c))' = Open(Due(c)') /\ Open(0)' = Open(0)
        /\ Complete' = Complete /\ Lost' = Lost /\ None' = None
    BY DEF Open, Complete, Lost, None
  <1>4. QED
    BY <1>1, <1>2, <1>3 DEF Same, ServedIs

LEMMA SameIsStutter ==
    ASSUME ServingInv, ServingInv', \A c \in Callers : Same(c)
    PROVE  [Streams!Next]_served
  <1>1. \A c \in Callers : Served(c)' = Served(c)
    BY SameServed
  <1>2. QED
    BY <1>1 DEF served

\* The owner's result makes a step; nobody else has one.
LEMMA OwnerIsNext ==
    ASSUME ServingInv, ServingInv', NEW c \in Callers,
           holder \in {c, NoCaller}, holder' \in {c, NoCaller},
           ServedStep(Served(c), Served(c)')
    PROVE  [Streams!Next]_served
  <1>1. \A d \in Callers \ {c} : Served(d) = None /\ Served(d)' = None
    <2>1. ASSUME NEW d \in Callers \ {c} PROVE Served(d) = None /\ Served(d)' = None
      <3>1. holder # d /\ holder' # d
        BY NoCallerAssumption
      <3>2. QED
        BY <3>1, ServedBoth DEF ServedIs, None
    <2>2. QED
      BY <2>1
  <1>2. QED
    BY <1>1, StepIsNext

-------------------------------------------------------------------------------
(* Every action makes such a step *)

\* What does not change streams, answers or the server.
LEMMA QuietServes ==
    ASSUME ServingInv, ServingInv',
           UNCHANGED <<stream, awaits, replies, session, cursor>>,
           \A c \in Callers : pc[c] = "errored" <=> pc'[c] = "errored"
    PROVE  [Streams!Next]_served
  <1>1. \A c \in Callers : Same(c)
    BY DEF Same, Coming
  <1>2. QED
    BY <1>1, SameIsStutter

\* A call or stream that is over closes its result, if it has one.
LEMMA FinishServes ==
    ASSUME ServingInv, ServingInv', NEW c \in Callers, Finish(c)
    PROVE  [Streams!Next]_served
  <1>1. holder = c /\ holder' = NoCaller /\ stream'[c] = NoStream
    BY FinishFacts DEF ServingInv, Inv
  <1>2. Served(c)' = None
    BY <1>1, ServedBoth, NoStreamFacts DEF ServedIs, None
  <1>3. ServedStep(Served(c), Served(c)')
    BY <1>2 DEF ServedStep
  <1>4. QED
    BY <1>1, <1>3, OwnerIsNext

LEMMA WaitServes ==
    ASSUME ServingInv, ServingInv', NEW c \in Callers,
           (\E o \in Ops : Call(c, o)) \/ Acquire(c) \/ CancelWait(c)
    PROVE  [Streams!Next]_served
  <1>1. \A d \in Callers : pc[d] = "errored" <=> pc'[d] = "errored"
    BY DEF Call, Acquire, CancelWait, ServingInv, Inv, TypeOK, Goto
  <1>2. UNCHANGED <<stream, awaits, replies, session, cursor>>
    BY DEF Call, Acquire, CancelWait, serverVars
  <1>3. QED
    BY <1>1, <1>2, QuietServes

LEMMA EnsureOpenServes ==
    ASSUME ServingInv, ServingInv', NEW c \in Callers, EnsureOpen(c)
    PROVE  [Streams!Next]_served
  <1> USE DEF EnsureOpen, serverVars
  <1>1. /\ pc[c] = "locked" /\ holder = c /\ awaits[c] = 0 /\ awaits'[c] = 0
        /\ stream[c].result # 0 => stream[c].more
    BY DEF ServingInv, Inv, GuardInv, Holding
  <1>2. CASE Finish(c)
    BY <1>2, FinishServes
  <1>3. CASE Keep(c, "sending")
    <2>1. /\ \A d \in Callers : pc[d] = "errored" <=> pc'[d] = "errored"
          /\ stream' = stream
      BY <1>1, <1>3, KeepFacts DEF ServingInv, Inv, Holding
    <2>2. QED
      BY <2>1, QuietServes
  <1>4. CASE Fetching(c) /\ Keep(c, "errored")
    <2>1. stream'[c] = stream[c] /\ holder' = c /\ pc'[c] = "errored"
      BY <1>1, <1>4, KeepFacts DEF ServingInv, Inv, Holding
    <2>2. ~Coming(c, "end") /\ ~Coming(c, "end")'
      BY <1>1, NothingComing, NothingComingNext
    <2>3. stream[c].result # 0 /\ stream[c].more /\ ~Kept(c)'
      BY <1>1, <1>4, <2>1 DEF Fetching, Kept
    <2>4. Served(c)' = Lost
      BY <2>1, <2>2, <2>3, ServedBoth DEF ServedIs, Lost
    <2>5. Served(c) = Lost \/ \E n \in Nat : Served(c) = Open(n)
      BY <2>2, <2>3, ServedBoth DEF ServedIs
    <2>6. ServedStep(Served(c), Served(c)')
      BY <2>4, <2>5 DEF ServedStep
    <2>7. QED
      BY <1>1, <2>1, <2>6, OwnerIsNext
  <1>5. QED
    BY <1>2, <1>3, <1>4

LEMMA SendServes ==
    ASSUME ServingInv, ServingInv', NEW c \in Callers, Send(c)
    PROVE  [Streams!Next]_served
  <1> USE DEF Send
  <1>1. /\ pc[c] = "sending" /\ awaits[c] = 0
        /\ \A d \in Callers : awaits'[d] = IF d = c THEN queryCounter ELSE awaits[d]
        /\ \A d \in Callers : pc'[d] = IF d = c THEN "awaiting" ELSE pc[d]
    BY DEF ServingInv, Inv, GuardInv, TypeOK, Goto
  <1>2. \A m \in replies : m.id # queryCounter /\ m.id # 0
    BY DEF ServingInv, Inv, TypeOK, IdInv, ReplyInv
  <1>3. \A d \in Callers : \A outcome : Coming(d, outcome)' <=> Coming(d, outcome)
    BY <1>1, <1>2 DEF Coming
  <1>4. \A d \in Callers : Same(d)
    BY <1>1, <1>3 DEF Same
  <1>5. QED
    BY <1>4, SameIsStutter

LEMMA PrepareDoneServes ==
    ASSUME ServingInv, ServingInv', NEW c \in Callers, PrepareDone(c)
    PROVE  [Streams!Next]_served
  <1> USE DEF PrepareDone
  <1>1. PICK outcome \in {"more", "end", "error"} :
           /\ Answers(c, outcome)
           /\ IF outcome = "error" THEN Finish(c) ELSE Opened(c, outcome)
    OBVIOUS
  <1>2. CASE Finish(c)
    BY <1>2, FinishServes
  <1>3. CASE Opened(c, outcome)
    <2>1. /\ holder = c /\ awaits[c] # 0 /\ awaits'[c] = 0
      BY <1>1, AnswersFacts DEF ServingInv
    <2>2. /\ holder' = c /\ stream'[c].result # 0
          /\ pc'[c] = "streaming"
      BY <1>3, <2>1 DEF Opened, lockVars, Goto, ServingInv, Inv, TypeOK
    <2>3. Served(c) = None
      <3>1. stream[c].result = 0
        BY DEF Kind, Fetching, ServingInv, Inv, TypeOK, Ops
      <3>2. QED
        BY <3>1, ServedBoth DEF ServedIs
    <2>4. ~Coming(c, "end")'
      BY <2>1, NothingComingNext
    <2>5. \E n \in Nat : Served(c)' \in {Open(n), Complete, Lost}
      BY <2>2, <2>4, ServedBoth DEF ServedIs, Complete, Lost, Open
    <2>6. ServedStep(Served(c), Served(c)')
      BY <2>3, <2>5 DEF ServedStep
    <2>7. QED
      BY <2>1, <2>2, <2>6, OwnerIsNext
  <1>4. QED
    BY <1>1, <1>2, <1>3

LEMMA FetchDoneServes ==
    ASSUME ServingInv, ServingInv', NEW c \in Callers, FetchDone(c)
    PROVE  [Streams!Next]_served
  <1> USE DEF FetchDone
  <1>1. PICK outcome \in {"more", "end", "error"} :
           /\ Answers(c, outcome)
           /\ IF outcome = "error"
              THEN Keep(c, "errored")
              ELSE /\ Goto(c, "streaming")
                   /\ stream' = [stream EXCEPT ![c].more = (outcome = "more")]
                   /\ UNCHANGED lockVars
    OBVIOUS
  <1>2. /\ pc[c] = "awaiting" /\ holder = c /\ awaits[c] # 0 /\ awaits'[c] = 0
        /\ outcome # "error" => Coming(c, outcome)
    BY <1>1, AnswersFacts DEF ServingInv, Answers, Coming
  <1>3. stream[c].result # 0 /\ stream[c].more
    BY <1>2 DEF Kind, Fetching, ServingInv, Inv, GuardInv, TypeOK, Ops
  <1>4. /\ holder' = c /\ stream'[c].result = stream[c].result
        /\ outcome = "error" => pc'[c] = "errored" /\ stream'[c] = stream[c]
        /\ outcome # "error" => pc'[c] = "streaming" /\ stream'[c].more = (outcome = "more")
    BY <1>1, <1>2 DEF ServingInv, Inv, TypeOK, Keep, Goto, lockVars
  <1>5. \A o : ~Coming(c, o)'
    BY <1>2, NothingComingNext
  <1>6. ServedIs(c) /\ ServedIs(c)'
    BY ServedBoth
  <1>7. CASE outcome = "error"
    <2>1. Served(c)' = Lost
      BY <1>3, <1>4, <1>5, <1>6, <1>7 DEF ServedIs, Kept, Lost
    <2>2. Served(c) = Lost \/ \E n \in Nat : Served(c) = Open(n)
      BY <1>3, <1>6 DEF ServedIs
    <2>3. QED
      BY <1>2, <1>4, <2>1, <2>2, OwnerIsNext DEF ServedStep
  <1>8. CASE outcome = "end"
    <2>1. Served(c) = Open(0)
      BY <1>2, <1>3, <1>6, <1>8 DEF ServedIs
    <2>2. Served(c)' = Complete
      BY <1>3, <1>4, <1>6, <1>8 DEF ServedIs, Complete
    <2>3. QED
      BY <1>2, <1>4, <2>1, <2>2, OwnerIsNext DEF ServedStep
  <1>9. CASE outcome = "more"
    <2>1. Coming(c, "more") /\ ~Coming(c, "end")
      BY <1>2, <1>9 DEF ServingInv, ReplyInv, Coming
    <2>2. Kept(c)' <=> Kept(c)
      BY <1>2, <1>4, <1>9 DEF Kept
    <2>3. Due(c) = Due(c)' + 1 /\ Due(c)' \in Nat
      BY <1>5, <2>1 DEF Due, ServingInv, Inv, TypeOK
    <2>4. CASE Kept(c)
      <3>1. Served(c) = Open(Due(c))
        BY <1>3, <1>6, <2>1, <2>4 DEF ServedIs
      <3>2. Served(c)' = Open(Due(c)')
        BY <1>3, <1>4, <1>5, <1>6, <1>9, <2>2, <2>4 DEF ServedIs, Open
      <3>3. Due(c) \in Nat \ {0} /\ Due(c)' = Due(c) - 1
        BY <2>3
      <3>4. QED
        BY <1>2, <1>4, <3>1, <3>2, <3>3, OwnerIsNext DEF ServedStep
    <2>5. CASE ~Kept(c)
      <3>1. Served(c) = Lost
        BY <1>3, <1>6, <2>1, <2>5 DEF ServedIs
      <3>2. Served(c)' = Lost
        BY <1>3, <1>4, <1>5, <1>6, <1>9, <2>2, <2>5 DEF ServedIs, Lost
      <3>3. QED
        BY <1>2, <1>4, <3>1, <3>2, OwnerIsNext DEF ServedStep
    <2>6. QED
      BY <2>4, <2>5
  <1>10. QED
    BY <1>7, <1>8, <1>9

LEMMA PollServes ==
    ASSUME ServingInv, ServingInv', NEW c \in Callers, Poll(c)
    PROVE  [Streams!Next]_served
  <1> USE DEF Poll, serverVars
  <1>1. CASE Finish(c)
    BY <1>1, FinishServes
  <1>2. CASE Keep(c, "locked")
    <2>1. /\ \A d \in Callers : pc[d] = "errored" <=> pc'[d] = "errored"
          /\ stream' = stream
      BY <1>2, KeepFacts DEF ServingInv, Inv, Holding
    <2>2. QED
      BY <2>1, QuietServes
  <1>3. QED
    BY <1>1, <1>2

\* The server ends the session, or not: a stream is lost, or as before.
LEMMA ExpiryServes ==
    ASSUME ServingInv, ServingInv', NEW c \in Callers, holder = c, holder' = c,
           UNCHANGED <<pc, stream, awaits>>,
           Coming(c, "end")' <=> Coming(c, "end"), ~Kept(c)'
    PROVE  [Streams!Next]_served
  <1>1. ServedIs(c) /\ ServedIs(c)'
    BY ServedBoth
  <1>2. CASE stream[c].result # 0 /\ stream[c].more /\ ~Coming(c, "end")
    <2>1. Served(c)' = Lost
      BY <1>1, <1>2 DEF ServedIs, Lost
    <2>2. Served(c) = Lost \/ \E n \in Nat : Served(c) = Open(n)
      BY <1>1, <1>2 DEF ServedIs
    <2>3. QED
      BY <2>1, <2>2, OwnerIsNext DEF ServedStep
  <1>3. CASE ~(stream[c].result # 0 /\ stream[c].more /\ ~Coming(c, "end"))
    <2>1. Served(c)' = Served(c)
      BY <1>1, <1>3 DEF ServedIs, None, Complete, Open
    <2>2. QED
      BY <2>1, OwnerIsNext DEF ServedStep
  <1>4. QED
    BY <1>2, <1>3

\* Without an owner there is no result.
LEMMA NobodyServes ==
    ASSUME ServingInv, ServingInv', holder = NoCaller, holder' = NoCaller
    PROVE  [Streams!Next]_served
  <1>1. ASSUME NEW d \in Callers PROVE Served(d) = None /\ Served(d)' = None
    BY ServedBoth, NoCallerAssumption DEF ServedIs, None
  <1>2. QED
    BY <1>1 DEF served

\* What the server has to do with an owner's stream that still fetches.
LEMMA RequestOfOwner ==
    ASSUME ServingInv, NEW r \in inflight, NEW c \in Callers, holder = c, stream[c].more
    PROVE  /\ r.id # stream[c].result
           /\ awaits[c] = r.id =>
                 /\ r.kind = "FETCH" /\ r.result = stream[c].result
                 /\ pc[c] = "awaiting" /\ \A o : ~Coming(c, o)
           /\ awaits[c] # r.id /\ r.result = stream[c].result => pc[c] = "errored"
  <1>1. op[c] = "query" /\ stream[c].result # 0
    BY DEF ServingInv, Inv, GuardInv
  <1>2. r.id # stream[c].result
    BY DEF ServingInv, FetchInv
  <1>3. ASSUME awaits[c] = r.id
        PROVE  /\ r.kind = "FETCH" /\ r.result = stream[c].result
               /\ pc[c] = "awaiting" /\ \A o : ~Coming(c, o)
    <2>1. r.id # 0 /\ r.id \notin abandoned /\ pc[c] = "awaiting"
      BY <1>3 DEF ServingInv, Inv, IdInv, GuardInv
    <2>2. r.kind = Kind(c)
      BY <2>1 DEF ServingInv, Inv, IdInv
    <2>3. Kind(c) = "FETCH"
      BY <1>1 DEF Kind, Fetching
    <2>4. \A o : ~Coming(c, o)
      BY <1>3 DEF Coming, ServingInv, Inv, IdInv
    <2>5. QED
      BY <1>3, <2>1, <2>2, <2>3, <2>4 DEF ServingInv, FetchInv
  <1>4. ASSUME awaits[c] # r.id, r.result = stream[c].result PROVE pc[c] = "errored"
    <2>1. r.id \in abandoned
      BY <1>4 DEF ServingInv, Inv, IdInv
    <2>2. QED
      BY <1>1, <1>4, <2>1 DEF ServingInv, FetchInv
  <1>5. QED
    BY <1>2, <1>3, <1>4

\* How the answer reaches the owner.
LEMMA AnswerComes ==
    ASSUME ServingInv, NEW r \in inflight, NEW c \in Callers, NEW outcome,
           awaits' = awaits,
           replies' = IF \E d \in Callers : awaits[d] = r.id
                      THEN replies \cup {[id |-> r.id, outcome |-> outcome]}
                      ELSE replies
    PROVE  /\ awaits[c] # r.id => \A o : Coming(c, o)' <=> Coming(c, o)
           /\ awaits[c] = r.id /\ (\A o : ~Coming(c, o)) =>
                 \A o : Coming(c, o)' <=> o = outcome
  BY DEF Coming

LEMMA ServerProcessesServes ==
    ASSUME ServingInv, ServingInv', NEW r \in inflight, ServerProcesses(r)
    PROVE  [Streams!Next]_served
  <1>1. UNCHANGED <<holder, pc, op, stream, awaits>>
    BY DEF ServerProcesses, lockVars, callerVars
  <1>2. CASE holder = NoCaller
    BY <1>1, <1>2, NobodyServes
  <1>3. ASSUME NEW c \in Callers, holder = c PROVE [Streams!Next]_served
    <2>1. PICK outcome \in Outcomes :
             /\ Processed(r, outcome)
             /\ replies' = IF \E d \in Callers : awaits[d] = r.id
                           THEN replies \cup {[id |-> r.id, outcome |-> outcome]}
                           ELSE replies
      BY DEF ServerProcesses
    <2>2. /\ awaits[c] # r.id => \A o : Coming(c, o)' <=> Coming(c, o)
          /\ awaits[c] = r.id /\ (\A o : ~Coming(c, o)) =>
                \A o : Coming(c, o)' <=> o = outcome
      BY <1>1, <2>1, AnswerComes
    <2>3. ServedIs(c) /\ ServedIs(c)'
      BY ServedBoth
    <2>4. SUFFICES ServedStep(Served(c), Served(c)')
      BY <1>1, <1>3, OwnerIsNext
    <2>5. CASE ~(stream[c].result # 0 /\ stream[c].more)
      BY <1>1, <2>3, <2>5 DEF ServedIs, ServedStep, None, Complete
    <2>6. CASE stream[c].result # 0 /\ stream[c].more
      <3>1. /\ r.id # stream[c].result
            /\ awaits[c] = r.id =>
                  /\ r.kind = "FETCH" /\ r.result = stream[c].result
                  /\ pc[c] = "awaiting" /\ \A o : ~Coming(c, o)
            /\ awaits[c] # r.id /\ r.result = stream[c].result => pc[c] = "errored"
        BY <1>3, <2>6, RequestOfOwner
      <3>2. cursor \in [result : Nat, left : Nat] /\ session \in BOOLEAN
        BY DEF ServingInv, Inv, TypeOK
      <3>3. CASE Coming(c, "end")
        BY <1>1, <2>2, <2>3, <2>6, <3>1, <3>3 DEF ServedIs, ServedStep, Open
      <3>4. CASE ~Coming(c, "end") /\ ~Kept(c)
        <4>1. ~Kept(c)'
          BY <1>1, <2>1, <3>1, <3>2, <3>4 DEF Kept, Processed
        <4>2. ~Coming(c, "end")'
          <5>1. CASE awaits[c] # r.id
            BY <2>2, <3>4, <5>1
          <5>2. CASE awaits[c] = r.id
            <6>1. outcome = "error"
              BY <2>1, <3>1, <3>4, <5>2 DEF Kept, Processed
            <6>2. QED
              BY <2>2, <3>1, <5>2, <6>1
          <5>3. QED
            BY <5>1, <5>2
        <4>3. QED
          BY <1>1, <2>3, <2>6, <3>4, <4>1, <4>2 DEF ServedIs, ServedStep, Lost
      <3>5. CASE ~Coming(c, "end") /\ Kept(c)
        <4>1. /\ Served(c) = Open(Due(c)) /\ Due(c) \in Nat
              /\ pc[c] # "errored" /\ session /\ cursor.result = stream[c].result
          BY <2>3, <2>6, <3>5 DEF ServedIs, Kept
        <4>2. CASE awaits[c] = r.id
          <5>1. /\ session' = session
                /\ outcome = (IF cursor.left > 0 THEN "more" ELSE "end")
                /\ cursor' = [cursor EXCEPT !.left = IF @ > 0 THEN @ - 1 ELSE 0]
            BY <2>1, <3>1, <4>1, <4>2 DEF Processed
          <5>2. Kept(c)' /\ Due(c) = cursor.left
            BY <1>1, <3>1, <3>2, <4>1, <4>2, <5>1 DEF Kept, Due
          <5>3. CASE cursor.left > 0
            <6>1. Coming(c, "more")' /\ ~Coming(c, "end")'
              BY <2>2, <3>1, <4>2, <5>1, <5>3
            <6>2. Due(c)' = Due(c)
              BY <3>2, <5>1, <5>2, <5>3, <6>1 DEF Due
            <6>3. Served(c)' = Served(c)
              BY <1>1, <2>3, <2>6, <4>1, <5>2, <6>1, <6>2 DEF ServedIs, Open
            <6>4. QED
              BY <6>3 DEF ServedStep
          <5>4. CASE ~(cursor.left > 0)
            <6>1. Coming(c, "end")'
              BY <2>2, <3>1, <4>2, <5>1, <5>4
            <6>2. Served(c)' = Open(0) /\ Due(c) = 0
              BY <1>1, <2>3, <2>6, <3>2, <5>2, <5>4, <6>1 DEF ServedIs, Open
            <6>3. QED
              BY <4>1, <6>2 DEF ServedStep
          <5>5. QED
            BY <5>3, <5>4
        <4>3. CASE awaits[c] # r.id
          <5>1. \A o : Coming(c, o)' <=> Coming(c, o)
            BY <2>2, <4>3
          <5>2. CASE Kept(c)'
            <6>1. cursor' = cursor
              BY <2>1, <1>1, <3>1, <3>2, <4>1, <4>3, <5>2 DEF Processed, Kept
            <6>2. Due(c)' = Due(c)
              BY <5>1, <6>1 DEF Due
            <6>3. Served(c)' = Served(c)
              BY <1>1, <2>3, <2>6, <3>5, <4>1, <5>1, <5>2, <6>2 DEF ServedIs, Open
            <6>4. QED
              BY <6>3 DEF ServedStep
          <5>3. CASE ~Kept(c)'
            <6>1. Served(c)' = Lost
              BY <1>1, <2>3, <2>6, <3>5, <5>1, <5>3 DEF ServedIs, Lost
            <6>2. QED
              BY <4>1, <6>1 DEF ServedStep
          <5>4. QED
            BY <5>2, <5>3
        <4>4. QED
          BY <4>2, <4>3
      <3>6. QED
        BY <3>3, <3>4, <3>5
    <2>7. QED
      BY <2>5, <2>6
  <1>4. QED
    BY <1>2, <1>3 DEF ServingInv, Inv, TypeOK, LockTypeOK

LEMMA ServerExpiresServes ==
    ASSUME ServingInv, ServingInv', ServerExpires
    PROVE  [Streams!Next]_served
  <1>1. UNCHANGED <<holder, pc, stream, awaits, replies>> /\ ~session'
    BY DEF ServerExpires, lockVars, callerVars
  <1>2. CASE holder = NoCaller
    BY <1>1, <1>2, NobodyServes
  <1>3. ASSUME NEW c \in Callers, holder = c PROVE [Streams!Next]_served
    <2>1. (Coming(c, "end")' <=> Coming(c, "end")) /\ ~Kept(c)'
      BY <1>1 DEF Coming, Kept
    <2>2. QED
      BY <1>1, <1>3, <2>1, ExpiryServes
  <1>4. QED
    BY <1>2, <1>3 DEF ServingInv, Inv, TypeOK, LockTypeOK

LEMMA NextServes ==
    ASSUME ServingInv, [Next]_vars
    PROVE  [Streams!Next]_served
  <1> USE DEF vars, callerVars, stateVars, serverVars, historyVars
  <1>1. ServingInv'
    BY NextServing
  <1>2. ASSUME NEW c \in Callers, DropClient(c) PROVE [Streams!Next]_served
    BY <1>1, <1>2, QuietServes DEF DropClient
  <1>3. ASSUME NEW c \in Callers,
               AppendDone(c) \/ DisconnectDone(c) \/ DropStream(c) \/ CancelRequest(c)
        PROVE  [Streams!Next]_served
    BY <1>1, <1>3, FinishServes DEF AppendDone, DisconnectDone, DropStream, CancelRequest
  <1>4. ASSUME NEW c \in Callers, Caller(c) PROVE [Streams!Next]_served
    BY <1>1, <1>2, <1>3, <1>4, WaitServes, EnsureOpenServes, SendServes,
       PrepareDoneServes, FetchDoneServes, PollServes DEF Caller, Resolve
  <1>5. CASE Heartbeat
    BY <1>1, <1>5, QuietServes
       DEF Heartbeat, HeartbeatWakes, HeartbeatSends, HeartbeatGoesOn, HeartbeatCloses
  <1>6. ASSUME NEW r \in inflight, ServerProcesses(r) PROVE [Streams!Next]_served
    BY <1>1, <1>6, ServerProcessesServes
  <1>7. ASSUME NEW r \in inflight, NetworkLoses(r) PROVE [Streams!Next]_served
    BY <1>1, <1>7, QuietServes DEF NetworkLoses
  <1>8. CASE ServerExpires
    BY <1>1, <1>8, ServerExpiresServes
  <1>9. CASE UNCHANGED vars
    BY <1>1, <1>9, QuietServes
  <1>10. QED
    BY <1>4, <1>5, <1>6, <1>7, <1>8, <1>9 DEF Next, Server

LEMMA InitServes == Init => Streams!Init
  <1> SUFFICES ASSUME Init PROVE Streams!Init
    OBVIOUS
  <1>1. \A c \in Callers : Served(c) = Streams!None
    BY DEF Init, NoStream, Served, Streams!None
  <1>2. QED
    BY <1>1 DEF Streams!Init, served

-------------------------------------------------------------------------------
(* The theorem *)

\* Whatever the tasks, the server and the network do, no two results are open at
\* once, and a stream that the client takes for complete has had every batch
\* (client.rs:228-392).
THEOREM StreamsAreServed == Spec => ServesStreams
  <1>1. Init => ServingInv
    BY InitServing
  <1>2. ServingInv /\ [Next]_vars => ServingInv'
    BY NextServing
  <1>3. ServingInv /\ [Next]_vars => [Streams!Next]_served
    BY NextServes
  <1>4. QED
    BY <1>1, <1>2, <1>3, InitServes, PTL DEF Spec, ServesStreams, Streams!Spec
===============================================================================

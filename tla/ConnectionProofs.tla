---------------------------- MODULE ConnectionProofs ----------------------------
(***************************************************************************)
(* Proofs about the two ends of a connection's life that need no lock:     *)
(* Negotiation, which opens it, for every range of versions a caller may   *)
(* ask for, every server, and whatever the network does; and               *)
(* HeartbeatLease, which keeps it open and closes it, for every lease,     *)
(* interval and request timeout.                                           *)
(***************************************************************************)
EXTENDS Negotiation, HeartbeatLease, TLAPS

(***************************************************************************)
(* Negotiation                                                             *)
(***************************************************************************)

InRange(v) == min_version <= v /\ v <= max_version

\* The versions offered are those in range, newest first.
LEMMA OfferedVersions ==
    \/ versions = <<>> /\ Len(versions) = 0 /\ ~InRange(1) /\ ~InRange(3)
    \/ Len(versions) = 1 /\ versions[1] = 1 /\ InRange(1) /\ ~InRange(3)
    \/ Len(versions) = 1 /\ versions[1] = 3 /\ ~InRange(1) /\ InRange(3)
    \/ /\ Len(versions) = 2 /\ versions[1] = 3 /\ versions[2] = 1
       /\ InRange(1) /\ InRange(3)
  <1>1. \A v : Offered(v) = IF InRange(v) THEN <<v>> ELSE <<>>
    BY DEF Offered, InRange
  <1>2. CASE InRange(1) /\ InRange(3)
    <2>1. versions = <<3>> \o <<1>>
      BY <1>1, <1>2 DEF versions
    <2>2. QED
      BY <1>2, <2>1
  <1>3. CASE InRange(1) /\ ~InRange(3)
    <2>1. versions = <<>> \o <<1>>
      BY <1>1, <1>3 DEF versions
    <2>2. QED
      BY <1>3, <2>1
  <1>4. CASE ~InRange(1) /\ InRange(3)
    <2>1. versions = <<3>> \o <<>>
      BY <1>1, <1>4 DEF versions
    <2>2. QED
      BY <1>4, <2>1
  <1>5. CASE ~InRange(1) /\ ~InRange(3)
    <2>1. versions = <<>> \o <<>>
      BY <1>1, <1>5 DEF versions
    <2>2. QED
      BY <1>5, <2>1
  <1>6. QED
    BY <1>2, <1>3, <1>4, <1>5

\* Where an attempt may be: it offers v3 first, and v1 alone or after it.
Position ==
    \/ index = 1 /\ Len(versions) = 1 /\ quack_version = 1 /\ InRange(1) /\ ~InRange(3)
    \/ index = 1 /\ Len(versions) = 1 /\ quack_version = 3 /\ ~InRange(1) /\ InRange(3)
    \/ index = 1 /\ Len(versions) = 2 /\ quack_version = 3 /\ InRange(1) /\ InRange(3)
    \/ index = 2 /\ Len(versions) = 2 /\ quack_version = 1 /\ InRange(1) /\ InRange(3)

LEMMA PositionOfAttempt ==
    ASSUME index \in 1..2, index <= Len(versions) PROVE Position
  <1>1. CASE index = 1
    BY <1>1, OfferedVersions DEF Position, quack_version
  <1>2. CASE index = 2
    BY <1>2, OfferedVersions DEF Position, quack_version
  <1>3. QED
    BY <1>1, <1>2

\* What follows from it in each case.
LEMMA LengthOfOffer == versions = <<>> \/ Len(versions) >= 1
  BY OfferedVersions

LEMMA FirstOfTwo ==
    ASSUME Position, index < Len(versions)
    PROVE  index = 1 /\ Len(versions) = 2 /\ quack_version = 3
  <1>1. \/ index = 1 /\ Len(versions) = 1
        \/ index = 1 /\ Len(versions) = 2 /\ quack_version = 3
        \/ index = 2 /\ Len(versions) = 2
    BY Zenon DEF Position
  <1>2. QED
    BY <1>1

LEMMA FirstOfOne ==
    ASSUME Position, index = 1
    PROVE  Len(versions) = 1 \/ (Len(versions) = 2 /\ quack_version = 3)
  <1>1. \/ Len(versions) = 1
        \/ Len(versions) = 2 /\ quack_version = 3
        \/ index = 2
    BY Zenon DEF Position
  <1>2. QED
    BY <1>1

\* The options do not change.
LEMMA OptionsStay ==
    ASSUME UNCHANGED <<min_version, max_version, requested>>
    PROVE  /\ versions' = versions /\ Invalid' = Invalid
           /\ \A v : InRange(v)' <=> InRange(v)
  BY DEF versions, Offered, Invalid, InRange

-------------------------------------------------------------------------------
(* The inductive invariant *)

\* An attempt is the first, or follows a mismatch of v3.
AttemptInv ==
    /\ pc \in {"attempt", "awaiting"} => ~Invalid
    /\ pc = "start" => index = 1
    /\ pc \in {"start", "attempt", "awaiting"} /\ index = 1 =>
          previous_error = NoError /\ errors[1] = NoError /\ errors[3] = NoError
    /\ pc \in {"attempt", "awaiting"} /\ index = 2 =>
          /\ previous_error = errors[3] /\ previous_error # NoError
          /\ is_version_negotiation_error(errors[3])
          /\ errors[1] = NoError
    /\ answer # NoAnswer => pc = "awaiting"

\* What a response selects has been opened.
SessionInv ==
    answer.kind = "response" => answer.response.selected \in sessions \cup {0}

\* Without a mishap the server's answers say which versions it speaks.
CalmInv ==
    ~mishap =>
        /\ previous_error # NoError => 3 \notin served
        /\ answer.kind = "response" =>
              Acceptable(answer.response) /\ quack_version \in served
                  /\ sessions = {quack_version}
        /\ answer.kind = "error" =>
              is_version_negotiation_error(answer.error) /\ quack_version \notin served
        /\ answer.kind # "other"
        /\ answer.kind # "response" /\ pc \in {"start", "attempt", "awaiting"} =>
              sessions = {}

Inv ==
    /\ TypeOK /\ AttemptInv /\ SessionInv /\ CalmInv
    /\ ConnectedIsAgreed /\ HighestCommonVersion /\ MismatchExplained

\* The four kinds of answer.
LEMMA AnswerKinds ==
    ASSUME NEW a \in Answers
    PROVE  \/ a.kind = "none" /\ a = NoAnswer
           \/ a.kind = "other" /\ a = OtherMessage
           \/ a.kind = "error" /\ a.error \in Errors /\ a = ErrorAnswer(a.error)
           \/ a.kind = "response" /\ a.response \in Responses /\ a = Response(a.response)
  BY DEF Answers, NoAnswer, OtherMessage, ErrorAnswer, Response

\* An answer of each kind is one.
LEMMA AnswersAre ==
    /\ NoAnswer \in Answers /\ NoAnswer.kind = "none"
    /\ OtherMessage \in Answers /\ OtherMessage.kind = "other" /\ OtherMessage # NoAnswer
    /\ \A e \in Errors :
          ErrorAnswer(e) \in Answers /\ ErrorAnswer(e).kind = "error"
              /\ ErrorAnswer(e).error = e /\ ErrorAnswer(e) # NoAnswer
    /\ \A r \in Responses :
          Response(r) \in Answers /\ Response(r).kind = "response"
              /\ Response(r).response = r /\ Response(r) # NoAnswer
  BY DEF Answers, NoAnswer, OtherMessage, ErrorAnswer, Response

LEMMA ErrorsAre ==
    /\ NoError \notin Errors
    /\ \A text \in NegotiationTexts \cup {"other"} : Protocol(text) \in Errors
  BY DEF Errors, NoError, Protocol

LEMMA InitInv == Init => Inv
  <1> SUFFICES ASSUME Init PROVE Inv
    OBVIOUS
  <1> USE DEF Init
  <1>1. TypeOK
    <2>1. errors \in [Versions -> Errors \cup {NoError}]
      OBVIOUS
    <2>2. result \in [version : Versions \cup {0}, error : Errors \cup {NoError}]
      OBVIOUS
    <2>3. answer \in Answers
      BY AnswersAre
    <2>4. index \in 1..2 /\ pc \in {"start", "attempt", "awaiting", "connected", "failed"}
          /\ (pc \in {"attempt", "awaiting", "connected"} => index <= Len(versions))
      OBVIOUS
    <2>5. sessions \subseteq Versions /\ served \subseteq Versions
          /\ min_version \in MinVersions /\ max_version \in MaxVersions
      OBVIOUS
    <2>6. previous_error \in Errors \cup {NoError}
          /\ granted \in {"valid", "out of range", "none"}
          /\ requested \in BOOLEAN /\ processed \in BOOLEAN /\ mishap \in BOOLEAN
      OBVIOUS
    <2>7. QED
      BY <2>1, <2>2, <2>3, <2>4, <2>5, <2>6 DEF TypeOK
  <1>2. AttemptInv
    BY DEF AttemptInv, Versions
  <1>3. SessionInv /\ CalmInv
    BY AnswersAre DEF SessionInv, CalmInv
  <1>4. ConnectedIsAgreed /\ HighestCommonVersion /\ MismatchExplained
    BY DEF ConnectedIsAgreed, HighestCommonVersion, MismatchExplained
  <1>5. QED
    BY <1>1, <1>2, <1>3, <1>4 DEF Inv

-------------------------------------------------------------------------------
(* The steps of the server and of the network *)

\* While the client awaits, only what is on the wire changes.
LEMMA WireStep ==
    ASSUME Inv, pc = "awaiting", UNCHANGED <<optionVars, clientVars, errors>>,
           processed' \in BOOLEAN, mishap' \in BOOLEAN, answer' \in Answers,
           sessions' \subseteq Versions, SessionInv', CalmInv'
    PROVE  Inv'
  <1> USE DEF Inv, optionVars, clientVars
  <1>1. versions' = versions /\ Invalid' = Invalid
    BY OptionsStay
  <1>2. TypeOK'
    BY <1>1 DEF TypeOK
  <1>3. AttemptInv'
    BY <1>1 DEF AttemptInv, is_version_negotiation_error
  <1>4. ConnectedIsAgreed' /\ HighestCommonVersion' /\ MismatchExplained'
    BY DEF ConnectedIsAgreed, HighestCommonVersion, MismatchExplained
  <1>5. QED
    BY <1>2, <1>3, <1>4

\* The version of an attempt is one of two, and stays while the client awaits.
LEMMA VersionOfAttempt ==
    ASSUME TypeOK, pc = "awaiting" PROVE quack_version \in Versions
  BY PositionOfAttempt DEF TypeOK, Position, Versions

LEMMA VersionStays ==
    ASSUME UNCHANGED <<optionVars, clientVars>> PROVE quack_version' = quack_version
  BY OptionsStay DEF optionVars, clientVars, quack_version

LEMMA AcceptsInv == ASSUME Inv, ServerAccepts PROVE Inv'
  <1> DEFINE r == [id |-> TRUE, selected |-> quack_version,
                   heartbeat |-> IF quack_version = 3 THEN "valid" ELSE "none"]
  <1> USE DEF ServerAccepts, ServerHasRequest
  <1>1. quack_version \in Versions /\ quack_version' = quack_version
    BY VersionOfAttempt, VersionStays DEF Inv
  <1>2. r \in Responses
    BY <1>1 DEF Responses
  <1>3. answer' = Response(r) /\ answer' \in Answers
        /\ answer'.kind = "response" /\ answer'.response = r
    BY <1>2, AnswersAre
  <1>4. processed' \in BOOLEAN /\ mishap' \in BOOLEAN /\ sessions' \subseteq Versions
    BY <1>1 DEF Inv, TypeOK
  <1>5. SessionInv'
    BY <1>3 DEF SessionInv
  <1>6. ~mishap => sessions \subseteq {quack_version}
    BY DEF Inv, CalmInv
  <1>7. CalmInv'
    BY <1>1, <1>3, <1>6 DEF Inv, CalmInv, Acceptable, optionVars, clientVars
  <1>8. QED
    BY <1>3, <1>4, <1>5, <1>7, WireStep

LEMMA RejectsInv == ASSUME Inv, ServerRejects PROVE Inv'
  <1> USE DEF ServerRejects, ServerHasRequest
  <1>1. quack_version' = quack_version
    BY VersionStays
  <1>2. PICK e \in Errors : is_version_negotiation_error(e) /\ answer' = ErrorAnswer(e)
    OBVIOUS
  <1>3. answer' \in Answers /\ answer'.kind = "error" /\ answer'.error = e
    BY <1>2, AnswersAre
  <1>4. processed' \in BOOLEAN /\ mishap' \in BOOLEAN /\ sessions' \subseteq Versions
    BY DEF Inv, TypeOK
  <1>5. SessionInv'
    BY <1>3 DEF SessionInv
  <1>6. ~mishap => answer.kind # "response"
    BY DEF Inv, CalmInv
  <1>7. CalmInv'
    BY <1>1, <1>2, <1>3, <1>6 DEF Inv, CalmInv, is_version_negotiation_error,
       optionVars, clientVars
  <1>8. QED
    BY <1>3, <1>4, <1>5, <1>7, WireStep

LEMMA RefusesInv == ASSUME Inv, ServerRefuses PROVE Inv'
  <1> USE DEF ServerRefuses, ServerHasRequest
  <1>1. [variant |-> "Server", text |-> "other"] \in Errors
    BY DEF Errors
  <1>2. answer' \in Answers /\ answer'.kind = "error"
    BY <1>1, AnswersAre
  <1>3. processed' \in BOOLEAN /\ mishap' \in BOOLEAN /\ sessions' \subseteq Versions
    BY DEF Inv, TypeOK
  <1>4. SessionInv' /\ CalmInv'
    BY <1>2 DEF SessionInv, CalmInv
  <1>5. QED
    BY <1>2, <1>3, <1>4, WireStep

LEMMA GarblesInv == ASSUME Inv, ServerGarbles PROVE Inv'
  <1> USE DEF ServerGarbles, ServerHasRequest
  <1>1. quack_version \in Versions
    BY VersionOfAttempt DEF Inv
  <1>2. processed' \in BOOLEAN /\ mishap' \in BOOLEAN /\ mishap'
    OBVIOUS
  <1>3. CalmInv'
    BY <1>2 DEF CalmInv
  <1>4. CASE \E r \in Responses :
               answer' = Response(r) /\ sessions' = sessions \cup ({r.selected} \ {0})
    <2>1. PICK r \in Responses :
               answer' = Response(r) /\ sessions' = sessions \cup ({r.selected} \ {0})
      BY <1>4
    <2>2. answer' \in Answers /\ answer'.kind = "response" /\ answer'.response = r
      BY <2>1, AnswersAre
    <2>3. r.selected \in Versions \cup {0}
      BY DEF Responses
    <2>4. sessions' \subseteq Versions
      BY <2>1, <2>3 DEF Inv, TypeOK
    <2>5. SessionInv'
      BY <2>1, <2>2 DEF SessionInv
    <2>6. QED
      BY <1>2, <1>3, <2>2, <2>4, <2>5, WireStep
  <1>5. CASE /\ answer' \in {OtherMessage, ErrorAnswer(Protocol("other")),
                               ErrorAnswer(Protocol("end of object"))}
             /\ sessions' = sessions \cup {quack_version}
    <2>1. Protocol("other") \in Errors /\ Protocol("end of object") \in Errors
      BY ErrorsAre DEF NegotiationTexts
    <2>2. answer' \in Answers /\ answer'.kind # "response"
      BY <1>5, <2>1, AnswersAre
    <2>3. sessions' \subseteq Versions
      BY <1>1, <1>5 DEF Inv, TypeOK
    <2>4. SessionInv'
      BY <2>2 DEF SessionInv
    <2>5. QED
      BY <1>2, <1>3, <2>2, <2>3, <2>4, WireStep
  <1>6. QED
    BY <1>4, <1>5

LEMMA NetworkInv == ASSUME Inv, NetworkFails PROVE Inv'
  <1> USE DEF NetworkFails
  <1>1. /\ [variant |-> "Http", text |-> "other"] \in Errors
        /\ Protocol("http request failed with 500") \in Errors
        /\ Protocol("other") \in Errors
    BY DEF Errors, Protocol, NegotiationTexts
  <1>2. answer' \in Answers /\ answer'.kind = "error"
    <2>1. \A e \in Errors : ErrorAnswer(e) \in Answers /\ ErrorAnswer(e).kind = "error"
      BY AnswersAre, Zenon
    <2>2. \E e \in Errors : answer' = ErrorAnswer(e)
      BY <1>1
    <2>3. QED
      BY <2>1, <2>2, Zenon
  <1>3. processed' \in BOOLEAN /\ mishap' \in BOOLEAN /\ sessions' \subseteq Versions
    BY DEF Inv, TypeOK
  <1>4. SessionInv' /\ CalmInv'
    BY <1>2 DEF SessionInv, CalmInv
  <1>5. QED
    BY <1>2, <1>3, <1>4, WireStep

-------------------------------------------------------------------------------
(* The steps of the client *)

LEMMA ValidateInv == ASSUME Inv, Validate PROVE Inv'
  <1> USE DEF Inv, Validate, Fail, optionVars, wireVars
  <1>1. versions' = versions /\ Invalid' = Invalid
    BY OptionsStay
  <1>2. ~Invalid => Len(versions) >= 1
    BY LengthOfOffer, Zenon DEF Invalid
  <1>3. Protocol("protocol version") \in Errors
    BY ErrorsAre DEF NegotiationTexts
  <1>4. TypeOK'
    <2>1. result' \in [version : Versions \cup {0}, error : Errors \cup {NoError}]
      BY <1>3 DEF TypeOK
    <2>2. QED
      BY <1>1, <1>2, <2>1 DEF TypeOK, AttemptInv
  <1>5. /\ pc = "start" /\ index = 1 /\ answer = NoAnswer /\ NoAnswer.kind = "none"
        /\ UNCHANGED <<index, previous_error, errors, answer, sessions, mishap, served>>
        /\ pc' = IF Invalid THEN "failed" ELSE "attempt"
    BY AnswersAre DEF AttemptInv
  <1> HIDE DEF Validate, Fail
  <1>6. AttemptInv'
    BY <1>1, <1>5 DEF AttemptInv, is_version_negotiation_error
  <1>7. SessionInv' /\ CalmInv'
    BY <1>5 DEF SessionInv, CalmInv
  <1> USE DEF Validate, Fail
  <1>8. ConnectedIsAgreed' /\ HighestCommonVersion' /\ MismatchExplained'
    BY <1>1 DEF ConnectedIsAgreed, HighestCommonVersion, MismatchExplained, AttemptInv
  <1>9. QED
    BY <1>4, <1>6, <1>7, <1>8

LEMMA SendInv == ASSUME Inv, SendRequest PROVE Inv'
  <1> USE DEF Inv, SendRequest, optionVars
  <1>1. versions' = versions /\ Invalid' = Invalid
    BY OptionsStay
  <1>2. TypeOK'
    BY <1>1 DEF TypeOK
  <1>3. AttemptInv'
    BY <1>1 DEF AttemptInv, is_version_negotiation_error
  <1>4. answer = NoAnswer /\ NoAnswer.kind = "none"
    BY AnswersAre DEF AttemptInv
  <1>5. SessionInv' /\ CalmInv'
    BY <1>4 DEF SessionInv, CalmInv
  <1>6. ConnectedIsAgreed' /\ HighestCommonVersion' /\ MismatchExplained'
    BY DEF ConnectedIsAgreed, HighestCommonVersion, MismatchExplained
  <1>7. QED
    BY <1>2, <1>3, <1>5, <1>6

\* What every end of an await has in common.
LEMMA Received ==
    ASSUME Inv, Receive
    PROVE  /\ versions' = versions /\ Invalid' = Invalid /\ ~Invalid
           /\ Position
           /\ answer' = NoAnswer /\ answer'.kind = "none"
           /\ UNCHANGED <<min_version, max_version, requested, served>>
           /\ UNCHANGED <<processed, sessions, mishap>>
  BY OptionsStay, PositionOfAttempt, AnswersAre
     DEF Inv, TypeOK, AttemptInv, Receive, optionVars

\* A mismatch of v3 with another version to try.
LEMMA RetryInv ==
    ASSUME Inv, Receive, OnError, Retries(answer.error) PROVE Inv'
  <1> DEFINE e == answer.error
  <1> USE DEF Inv, OnError, TryNext
  <1> USE Received
  <1>1. e \in Errors /\ e # NoError
    BY AnswerKinds, ErrorsAre DEF TypeOK, OnError
  <1>2. /\ index = 1 /\ index' = 2 /\ Len(versions) = 2 /\ quack_version = 3
        /\ is_version_negotiation_error(e)
    <2>1. index < Len(versions) /\ quack_version = 3 /\ is_version_negotiation_error(e)
      BY DEF Retries
    <2>2. index = 1 /\ Len(versions) = 2
      BY <2>1, FirstOfTwo
    <2>3. index' = index + 1
      OBVIOUS
    <2>4. QED
      BY <2>1, <2>2, <2>3
  <1>3. pc' = "attempt" /\ previous_error' = e /\ UNCHANGED <<result, granted>>
        /\ errors' = [errors EXCEPT ![3] = e] /\ pc = "awaiting"
    BY <1>2 DEF Receive
  <1>4. errors \in [Versions -> Errors \cup {NoError}]
    BY DEF TypeOK
  <1>5. errors'[3] = e /\ errors'[1] = errors[1] /\ errors[1] = NoError
    BY <1>2, <1>3, <1>4 DEF Versions, AttemptInv
  <1>6. TypeOK'
    <2>1. errors' \in [Versions -> Errors \cup {NoError}]
      BY <1>1, <1>3, <1>4
    <2> HIDE DEF OnError, TryNext
    <2>2. pc' = "attempt" /\ index' \in 1..2 /\ index' <= Len(versions')
          /\ previous_error' \in Errors
      <3>1. versions' = versions
        OBVIOUS
      <3> HIDE DEF Inv
      <3>2. index' = 2 /\ Len(versions') = 2
        BY <1>2, <3>1
      <3>3. QED
        BY <1>1, <1>3, <3>2
    <2>3. TypeOK /\ UNCHANGED <<min_version, max_version, requested, served, processed,
                               sessions, mishap, result, granted>> /\ answer' \in Answers
      BY <1>3, AnswersAre
    <2> HIDE DEF Inv
    <2>4. QED
      BY <2>1, <2>2, <2>3 DEF TypeOK
  <1>7. AttemptInv'
    BY <1>1, <1>2, <1>3, <1>5 DEF AttemptInv, is_version_negotiation_error
  <1>8. SessionInv' /\ CalmInv'
    BY <1>2, <1>3 DEF SessionInv, CalmInv
  <1>9. ConnectedIsAgreed' /\ HighestCommonVersion' /\ MismatchExplained'
    BY <1>3 DEF ConnectedIsAgreed, HighestCommonVersion, MismatchExplained
  <1>10. QED
    BY <1>6, <1>7, <1>8, <1>9

\* Any other failure ends connect.
LEMMA FailInv ==
    ASSUME Inv, Receive, NEW e \in Errors, Fail(e),
           MismatchExplained', errors' \in [Versions -> Errors \cup {NoError}],
           ~mishap => \A v \in served : ~InRange(v)
    PROVE  Inv'
  <1> USE Received DEF Inv, Fail
  <1>1. result' \in [version : Versions \cup {0}, error : Errors \cup {NoError}]
    BY DEF TypeOK
  <1>2. TypeOK'
    BY <1>1, AnswersAre DEF TypeOK
  <1>3. AttemptInv' /\ SessionInv' /\ CalmInv'
    BY DEF AttemptInv, SessionInv, CalmInv
  <1>4. ConnectedIsAgreed' /\ HighestCommonVersion'
    BY DEF ConnectedIsAgreed, HighestCommonVersion, InRange
  <1>5. QED
    BY <1>2, <1>3, <1>4

LEMMA LastErrorInv ==
    ASSUME Inv, Receive, OnError, ~Retries(answer.error) PROVE Inv'
  <1> DEFINE e == answer.error
  <1> USE Received
  <1>1. e \in Errors /\ e # NoError
    BY AnswerKinds, ErrorsAre DEF Inv, TypeOK, OnError
  <1>2. Fail(ErrorOfAttempt(e)) /\ errors' = [errors EXCEPT ![quack_version] = e]
        /\ pc = "awaiting"
    BY DEF OnError, Receive
  <1>3. quack_version \in Versions
    BY DEF Position, Versions
  <1>4. errors \in [Versions -> Errors \cup {NoError}] /\ index \in 1..2
        /\ previous_error \in Errors \cup {NoError}
    BY DEF Inv, TypeOK
  <1>5. errors' \in [Versions -> Errors \cup {NoError}]
    BY <1>1, <1>2, <1>3, <1>4
  <1>6. ErrorOfAttempt(e) \in Errors
    BY <1>1, <1>4 DEF ErrorOfAttempt
  <1>7. pc' = "failed" /\ result'.error = ErrorOfAttempt(e) /\ index' = index
    BY <1>2 DEF Fail, Inv, TypeOK
  <1>8. CASE index = 1
    <2>1. previous_error = NoError /\ errors[1] = NoError /\ errors[3] = NoError
      BY <1>2, <1>8 DEF Inv, AttemptInv
    <2>2. ErrorOfAttempt(e) = e
      BY <2>1 DEF ErrorOfAttempt
    <2>3. quack_version = 3 => errors'[3] = e /\ errors'[1] = NoError
      BY <1>2, <1>3, <1>4, <2>1 DEF Versions
    <2>4. quack_version = 1 => errors'[3] = NoError
      BY <1>2, <1>3, <1>4, <2>1 DEF Versions
    <2>5. MismatchExplained'
      BY <1>3, <1>7, <1>8, <2>2, <2>3, <2>4 DEF MismatchExplained, Versions,
         is_version_negotiation_error
    <2>6. ~mishap => is_version_negotiation_error(e) /\ quack_version \notin served
      BY <1>2 DEF Inv, CalmInv, OnError
    <2>7. Len(versions) = 1 \/ (Len(versions) = 2 /\ quack_version = 3)
      BY <1>8, FirstOfOne
    <2>8. Len(versions) = 2 => index < Len(versions)
      BY <1>8
    <2>9. ~mishap => Len(versions) = 1
      BY <2>6, <2>7, <2>8 DEF Retries
    <2>10. ~mishap => \A v \in served : ~InRange(v)
      BY <1>8, <2>6, <2>9 DEF Position, Inv, TypeOK, Versions
    <2>11. QED
      BY <1>2, <1>5, <1>6, <2>5, <2>10, FailInv
  <1>9. CASE index = 2
    <2>1. /\ previous_error = errors[3] /\ previous_error # NoError
          /\ is_version_negotiation_error(errors[3]) /\ quack_version = 1
      BY <1>2, <1>9 DEF Inv, AttemptInv, Position
    <2>2. errors'[3] = errors[3] /\ errors'[1] = e
      BY <1>2, <1>4, <2>1 DEF Versions
    <2>3. MismatchExplained'
      BY <1>7, <2>1, <2>2 DEF MismatchExplained, ErrorOfAttempt,
         is_version_negotiation_error
    <2>4. ~mishap => 1 \notin served /\ 3 \notin served
      BY <1>2, <2>1 DEF Inv, CalmInv, OnError
    <2>5. ~mishap => \A v \in served : ~InRange(v)
      BY <2>4 DEF Inv, TypeOK, Versions
    <2>6. QED
      BY <1>2, <1>5, <1>6, <2>3, <2>5, FailInv
  <1>10. QED
    BY <1>4, <1>8, <1>9

LEMMA AcceptInv ==
    ASSUME Inv, Receive, OnResponse, Acceptable(answer.response) PROVE Inv'
  <1> DEFINE r == answer.response
  <1> USE Received
  <1>1. r \in Responses /\ answer.kind = "response"
    BY AnswerKinds DEF Inv, TypeOK, OnResponse
  <1>2. /\ pc' = "connected" /\ result' = [result EXCEPT !.version = quack_version]
        /\ granted' = IF quack_version = 3 THEN r.heartbeat ELSE "none"
        /\ UNCHANGED <<index, previous_error, errors>> /\ pc = "awaiting"
    BY DEF OnResponse, Receive
  <1>3. quack_version \in Versions /\ InRange(quack_version)
    BY DEF Position, Versions
  <1>4. result' \in [version : Versions \cup {0}, error : Errors \cup {NoError}]
        /\ result'.version = quack_version
    BY <1>2, <1>3 DEF Inv, TypeOK
  <1>5. granted' = "valid" <=> quack_version = 3
    BY <1>2, <1>3 DEF Acceptable, Versions
  <1>6. TypeOK'
    BY <1>2, <1>4, <1>5, AnswersAre DEF Inv, TypeOK, Acceptable
  <1>7. quack_version \in sessions
    BY <1>1, <1>3 DEF Inv, SessionInv, Acceptable, Versions
  <1>8. ConnectedIsAgreed'
    BY <1>2, <1>3, <1>4, <1>5, <1>7 DEF ConnectedIsAgreed, InRange
  <1>9. ~mishap => sessions = {quack_version} /\ (index = 2 => 3 \notin served)
    BY <1>1, <1>2 DEF Inv, CalmInv, AttemptInv
  <1>10. ~mishap => \A v \in served : InRange(v) => v <= quack_version
    <2>1. served \subseteq {1, 3}
      BY DEF Inv, TypeOK, Versions
    <2>2. CASE quack_version = 3
      BY <2>1, <2>2
    <2>3. CASE quack_version = 1
      <3>1. ~mishap => 3 \notin served \/ ~InRange(3)
        BY <1>9, <2>3 DEF Position
      <3>2. QED
        BY <2>1, <2>3, <3>1
    <2>4. QED
      BY <1>3, <2>2, <2>3 DEF Versions
  <1>11. HighestCommonVersion'
    BY <1>2, <1>4, <1>9, <1>10 DEF HighestCommonVersion, InRange
  <1>12. AttemptInv' /\ SessionInv' /\ CalmInv' /\ MismatchExplained'
    BY <1>2 DEF Inv, AttemptInv, SessionInv, CalmInv, MismatchExplained
  <1>13. QED
    BY <1>6, <1>8, <1>11, <1>12 DEF Inv

\* A response that is not acceptable, and any other message, are mishaps.
LEMMA RefuseInv ==
    ASSUME Inv, Receive, Fail(Protocol("other")), UNCHANGED errors, mishap
    PROVE  Inv'
  <1> USE Received
  <1>1. Protocol("other") \in Errors
    BY ErrorsAre
  <1>2. errors' \in [Versions -> Errors \cup {NoError}] /\ index \in 1..2
    BY DEF Inv, TypeOK
  <1>3. pc = "awaiting" /\ index' = index
    BY DEF Receive, Fail
  <1>4. MismatchExplained'
    BY <1>2, <1>3 DEF Inv, AttemptInv, MismatchExplained, is_version_negotiation_error
  <1>5. QED
    BY <1>1, <1>2, <1>4, FailInv

LEMMA ReceiveInv == ASSUME Inv, Receive PROVE Inv'
  <1>1. CASE OnError
    BY <1>1, RetryInv, LastErrorInv
  <1>2. CASE OnResponse
    <2>1. CASE Acceptable(answer.response)
      BY <1>2, <2>1, AcceptInv
    <2>2. CASE ~Acceptable(answer.response)
      <3>1. Fail(Protocol("other")) /\ UNCHANGED errors
        BY <1>2, <2>2 DEF OnResponse
      <3>2. mishap
        BY <1>2, <2>2 DEF Inv, TypeOK, CalmInv, OnResponse
      <3>3. QED
        BY <3>1, <3>2, RefuseInv
    <2>3. QED
      BY <2>1, <2>2
  <1>3. CASE OnOther
    <2>1. Fail(Protocol("other")) /\ UNCHANGED errors
      BY <1>3 DEF OnOther
    <2>2. mishap
      BY <1>3 DEF Inv, TypeOK, CalmInv, OnOther
    <2>3. QED
      BY <2>1, <2>2, RefuseInv
  <1>4. QED
    BY <1>1, <1>2, <1>3 DEF Receive

LEMMA StutterInv == ASSUME Inv, UNCHANGED vars PROVE Inv'
  <1>1. versions' = versions /\ Invalid' = Invalid
    BY OptionsStay DEF vars, optionVars
  <1> USE DEF Inv, vars, optionVars, clientVars, wireVars
  <1>2. TypeOK'
    BY <1>1 DEF TypeOK
  <1>3. AttemptInv' /\ SessionInv'
    BY <1>1 DEF AttemptInv, SessionInv, is_version_negotiation_error
  <1>4. CalmInv'
    BY <1>1 DEF CalmInv, Acceptable, quack_version, is_version_negotiation_error
  <1>5. ConnectedIsAgreed' /\ HighestCommonVersion' /\ MismatchExplained'
    BY <1>1 DEF ConnectedIsAgreed, HighestCommonVersion, MismatchExplained,
       is_version_negotiation_error
  <1>6. QED
    BY <1>2, <1>3, <1>4, <1>5

LEMMA NextInv == ASSUME Inv, [Next]_vars PROVE Inv'
  <1>1. CASE Client
    BY <1>1, ValidateInv, SendInv, ReceiveInv DEF Client
  <1>2. CASE Server
    BY <1>2, AcceptsInv, RejectsInv, RefusesInv, GarblesInv DEF Server
  <1>3. CASE NetworkFails
    BY <1>3, NetworkInv
  <1>4. CASE UNCHANGED vars
    BY <1>4, StutterInv
  <1>5. QED
    BY <1>1, <1>2, <1>3, <1>4 DEF Next

THEOREM Invariant == Spec => []Inv
  <1>1. Init => Inv
    BY InitInv
  <1>2. Inv /\ [Next]_vars => Inv'
    BY NextInv
  <1>3. QED
    BY <1>1, <1>2, PTL DEF Spec

-------------------------------------------------------------------------------
(* The results *)

\* Every variable of connect keeps its type, and every attempt offers one of the
\* versions (client.rs:505-531).
THEOREM TypeCorrect == Spec => []TypeOK
  BY Invariant, PTL DEF Inv

\* Whatever the server answers, a connection has a version that the server has
\* opened and the options allow, with a usable lease if and only if it is v3
\* (client.rs:570-611).
THEOREM AgreedWhenConnected == Spec => []ConnectedIsAgreed
  BY Invariant, PTL DEF Inv

\* Unless something goes wrong on the way (an answer that is refused, garbled, lost
\* or of a failed server sets `mishap'), connect settles on the highest version that
\* both sides speak and the options allow, leaves no other session, and fails only
\* when there is none or the options are invalid (client.rs:532-565).
THEOREM HighestIsFound == Spec => []HighestCommonVersion
  BY Invariant, PTL DEF Inv

\* A failed connect reports the attempt that explains it: a v3 failure that is no
\* mismatch is final; after a v3 mismatch a v1 mismatch reports the v3 one, and any
\* other v1 failure is itself reported (client.rs:554-565).
THEOREM FailureExplained == Spec => []MismatchExplained
  BY Invariant, PTL DEF Inv

(***************************************************************************)
(* HeartbeatLease                                                          *)
(***************************************************************************)

\* The interval is a number, and not 0.
LEMMA IntervalType == Interval \in Nat \ {0}
  BY ClockAssumption DEF Interval

-------------------------------------------------------------------------------
(* The inductive invariant *)

\* A failure before the lease ran out, then a sleep, then a request.
BoundInv ==
    /\ hb = "sleeping" /\ ~closed => idle < Timeout + hbClock
    /\ hb = "awaiting" /\ ~closed => idle < Timeout + Interval + hbClock

\* Until a heartbeat fails, the last success is one turn of the loop ago.
FirstFailureInv ==
    /\ hb = "sleeping" /\ ~closed /\ missed = 0 => idle <= hbClock
    /\ hb = "awaiting" /\ ~closed /\ missed = 0 => idle <= Interval + hbClock

\* A request that has reached the server did so after it was sent.
FreshInv ==
    /\ hb = "awaiting" /\ hbReached => serverIdle <= hbClock
    /\ call /\ callReached => serverIdle <= callClock
    /\ serverIdle <= idle + RequestTimeout
    /\ server = "expired" => serverIdle >= Timeout

LeaseInv == LeaseTypeOK /\ BoundInv /\ FirstFailureInv /\ FreshInv

LEMMA LeaseInitInv == LeaseInit => LeaseInv
  <1> SUFFICES ASSUME LeaseInit PROVE LeaseInv
    OBVIOUS
  <1> USE ClockAssumption, IntervalType DEF LeaseInit
  <1>1. LeaseTypeOK
    <2>1. FlagsOK
      BY DEF FlagsOK
    <2>2. ClocksOK
      BY DEF ClocksOK
    <2>3. QED
      BY <2>1, <2>2 DEF LeaseTypeOK
  <1>2. BoundInv /\ FirstFailureInv
    BY DEF BoundInv, FirstFailureInv
  <1>3. FreshInv
    BY DEF FreshInv
  <1>4. QED
    BY <1>1, <1>2, <1>3 DEF LeaseInv

LEMMA TickInv == ASSUME LeaseInv, Tick PROVE LeaseInv'
  <1> USE ClockAssumption, IntervalType DEF LeaseInv, Tick, LeaseTypeOK, FlagsOK, ClocksOK
  <1>1. LeaseTypeOK'
    OBVIOUS
  <1>2. BoundInv' /\ FirstFailureInv'
    BY DEF BoundInv, FirstFailureInv
  <1>3. FreshInv'
    BY DEF FreshInv
  <1>4. QED
    BY <1>1, <1>2, <1>3

LEMMA HeartbeatInv ==
    ASSUME LeaseInv, HeartbeatSends \/ HeartbeatAnswered
    PROVE  LeaseInv'
  <1> USE ClockAssumption, IntervalType DEF LeaseInv, LeaseTypeOK, FlagsOK, ClocksOK, callVars, leaseVars, serverVars
  <1>1. CASE HeartbeatSends
    <2> USE <1>1 DEF HeartbeatSends
    <2>1. FlagsOK'
      OBVIOUS
    <2>2. ClocksOK'
      OBVIOUS
    <2>3. BoundInv' /\ FirstFailureInv'
      BY DEF BoundInv, FirstFailureInv
    <2>4. FreshInv'
      BY DEF FreshInv
    <2>5. QED
      BY <2>1, <2>2, <2>3, <2>4
  <1>2. CASE HeartbeatSucceeds
    <2> USE <1>2 DEF HeartbeatSucceeds, Sleeps, RecordSuccess
    <2>1. FlagsOK'
      OBVIOUS
    <2>2. ClocksOK'
      OBVIOUS
    <2>3. BoundInv' /\ FirstFailureInv'
      BY DEF BoundInv, FirstFailureInv
    <2>4. FreshInv'
      BY DEF FreshInv
    <2>5. QED
      BY <2>1, <2>2, <2>3, <2>4
  <1>3. CASE HeartbeatRefused
    <2> USE <1>3 DEF HeartbeatRefused, Exits
    <2>1. FlagsOK'
      OBVIOUS
    <2>2. ClocksOK'
      OBVIOUS
    <2>3. BoundInv' /\ FirstFailureInv'
      BY DEF BoundInv, FirstFailureInv
    <2>4. FreshInv'
      BY DEF FreshInv
    <2>5. QED
      BY <2>1, <2>2, <2>3, <2>4
  <1>4. CASE HeartbeatFails
    <2> USE <1>4 DEF HeartbeatFails, Expired, Exits, Sleeps
    <2>1. FlagsOK'
      OBVIOUS
    <2>2. ClocksOK'
      OBVIOUS
    <2>3. BoundInv' /\ FirstFailureInv'
      BY DEF BoundInv, FirstFailureInv
    <2>4. FreshInv'
      BY DEF FreshInv
    <2>5. QED
      BY <2>1, <2>2, <2>3, <2>4
  <1>5. QED
    BY <1>1, <1>2, <1>3, <1>4 DEF HeartbeatAnswered

LEMMA CallInv ==
    ASSUME LeaseInv, CallSends \/ CallAnswered
    PROVE  LeaseInv'
  <1> USE ClockAssumption, IntervalType DEF LeaseInv, LeaseTypeOK, FlagsOK, ClocksOK, hbVars, leaseVars, serverVars
  <1>1. CASE CallSends
    <2> USE <1>1 DEF CallSends
    <2>1. FlagsOK'
      OBVIOUS
    <2>2. ClocksOK'
      OBVIOUS
    <2>3. BoundInv' /\ FirstFailureInv'
      BY DEF BoundInv, FirstFailureInv
    <2>4. FreshInv'
      BY DEF FreshInv
    <2>5. QED
      BY <2>1, <2>2, <2>3, <2>4
  <1>2. CASE CallSucceeds
    <2> USE <1>2 DEF CallSucceeds, CallEnds, RecordSuccess
    <2>1. FlagsOK'
      OBVIOUS
    <2>2. ClocksOK'
      OBVIOUS
    <2>3. BoundInv' /\ FirstFailureInv'
      BY DEF BoundInv, FirstFailureInv
    <2>4. FreshInv'
      BY DEF FreshInv
    <2>5. QED
      BY <2>1, <2>2, <2>3, <2>4
  <1>3. CASE DisconnectSucceeds
    <2> USE <1>3 DEF DisconnectSucceeds, CallEnds
    <2>1. FlagsOK'
      OBVIOUS
    <2>2. ClocksOK'
      OBVIOUS
    <2>3. BoundInv' /\ FirstFailureInv'
      BY DEF BoundInv, FirstFailureInv
    <2>4. FreshInv'
      BY DEF FreshInv
    <2>5. QED
      BY <2>1, <2>2, <2>3, <2>4
  <1>4. CASE CallFails
    <2> USE <1>4 DEF CallFails, CallEnds
    <2>1. FlagsOK'
      OBVIOUS
    <2>2. ClocksOK'
      OBVIOUS
    <2>3. BoundInv' /\ FirstFailureInv'
      BY DEF BoundInv, FirstFailureInv
    <2>4. FreshInv'
      BY DEF FreshInv
    <2>5. QED
      BY <2>1, <2>2, <2>3, <2>4
  <1>5. QED
    BY <1>1, <1>2, <1>3, <1>4 DEF CallAnswered

LEMMA ServerInv == ASSUME LeaseInv, LeaseServer PROVE LeaseInv'
  <1> USE ClockAssumption, IntervalType
      DEF LeaseInv, LeaseTypeOK, FlagsOK, ClocksOK, hbVars, callVars, leaseVars, BoundInv, FirstFailureInv, FreshInv
  <1>1. CASE HeartbeatReaches
    BY <1>1 DEF HeartbeatReaches
  <1>2. CASE CallReaches
    BY <1>2 DEF CallReaches
  <1>3. CASE ServerExpires
    BY <1>3 DEF ServerExpires
  <1>4. CASE ServerGoesDown
    BY <1>4 DEF ServerGoesDown
  <1>5. QED
    BY <1>1, <1>2, <1>3, <1>4 DEF LeaseServer

\* The inductive invariant holds throughout.
THEOREM LeaseInvariant == LeaseSpec => []LeaseInv
  <1>1. LeaseInit => LeaseInv
    BY LeaseInitInv
  <1>2. LeaseInv /\ [LeaseNext]_leaseState => LeaseInv'
    <2>1. CASE UNCHANGED leaseState
      BY <2>1 DEF leaseState, hbVars, callVars, leaseVars, serverVars, LeaseInv, LeaseTypeOK, FlagsOK,
         ClocksOK, BoundInv, FirstFailureInv, FreshInv
    <2>2. QED
      BY <2>1, TickInv, HeartbeatInv, CallInv, ServerInv DEF LeaseNext
  <1>3. QED
    BY <1>1, <1>2, PTL DEF LeaseSpec

-------------------------------------------------------------------------------
(* The theorems *)

\* Every clock and flag keeps its type, and no deadline is passed.
THEOREM LeaseTypeCorrect == LeaseSpec => []LeaseTypeOK
  <1>1. LeaseInv => LeaseTypeOK
    BY DEF LeaseInv
  <1>2. QED
    BY <1>1, LeaseInvariant, PTL

\* An open connection had its last success less than a lease, an interval and
\* a request timeout ago (client.rs:757-798).
THEOREM DetectionIsBounded == LeaseSpec => []DetectionBound
  <1>1. LeaseInv => DetectionBound
    BY ClockAssumption, IntervalType DEF LeaseInv, LeaseTypeOK, FlagsOK, ClocksOK, BoundInv, DetectionBound
  <1>2. QED
    BY <1>1, LeaseInvariant, PTL

\* The server does not expire a connection whose client had a success within
\* the lease less one request timeout (client.rs:629, 774).
THEOREM FreshConnectionsLive == LeaseSpec => []FreshIsNotExpired
  <1>1. LeaseInv => FreshIsNotExpired
    BY ClockAssumption DEF LeaseInv, LeaseTypeOK, ClocksOK, FreshInv, FreshIsNotExpired
  <1>2. QED
    BY <1>1, LeaseInvariant, PTL

\* The first failed heartbeat closes the connection only if it hung for all
\* that its interval leaves of the lease (client.rs:762, 783).
THEOREM FirstFailureTolerated == LeaseSpec => OneFailureTolerated
  <1>1. LeaseInv /\ [LeaseNext]_leaseState =>
          [missed = 0 /\ missed' = 1 /\ closed' /\ ~closed
             => hbClock + Interval >= Timeout]_leaseState
    <2>1. SUFFICES ASSUME LeaseInv, LeaseNext, missed = 0, missed' = 1, closed', ~closed
                   PROVE  hbClock + Interval >= Timeout
      BY DEF LeaseInv, LeaseTypeOK
    <2>2. HeartbeatFails
      BY <2>1 DEF LeaseNext, Tick, HeartbeatSends, HeartbeatAnswered, HeartbeatSucceeds,
         HeartbeatRefused, CallSends, CallAnswered, CallSucceeds, DisconnectSucceeds,
         CallFails, RecordSuccess, LeaseServer, HeartbeatReaches, CallReaches, ServerExpires,
         ServerGoesDown, leaseVars
    <2>3. hb = "awaiting" /\ idle >= Timeout
      BY <2>1, <2>2 DEF HeartbeatFails, Expired
    <2>4. QED
      BY <2>1, <2>3, ClockAssumption, IntervalType DEF LeaseInv, LeaseTypeOK, ClocksOK, FirstFailureInv
  <1>2. QED
    BY <1>1, LeaseInvariant, PTL DEF LeaseSpec, OneFailureTolerated
===============================================================================

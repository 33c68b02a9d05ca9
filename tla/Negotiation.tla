------------------------------ MODULE Negotiation ------------------------------
(***************************************************************************)
(* Connection::connect of src/src/client.rs: one CONNECTION_REQUEST per    *)
(* protocol version, v3 first, each offering that version alone; a failure *)
(* that looks like a version mismatch moves on to the next version.        *)
(* The server and the network are external: a request may be accepted,     *)
(* rejected, fail before or after the server has opened a session, and its *)
(* answer may be anything that decodes, or nothing that does.              *)
(***************************************************************************)
EXTENDS Integers, Sequences, SequencesExt, FiniteSets

Versions == {1, 3}

\* The texts is_version_negotiation_error looks for, lower-cased: two name the
\* version, the others are what a codec says of a message it does not know.
NegotiationTexts ==
    {"quack version", "protocol version", "http request failed with 500",
     "deserialize", "end of object", "unexpected field"}

\* reqwest's errors are QuackError::Http.
Errors == [variant : {"Protocol", "Server", "Http"}, text : NegotiationTexts \cup {"other"}]
NoError == [variant |-> "none", text |-> "none"]

Protocol(text) == [variant |-> "Protocol", text |-> text]

\* A CONNECTION_RESPONSE: whether it has a connection id, the version it
\* selects (0 for none), and the heartbeat timeout it grants.
Responses == [id : BOOLEAN, selected : Versions \cup {0},
              heartbeat : {"valid", "out of range", "none"}]

CONSTANTS MinVersions, MaxVersions  \* the options' values to try

ASSUME OptionsAssumption == MinVersions \subseteq Nat /\ MaxVersions \subseteq Nat

VARIABLES
    min_version, max_version,  \* QuackClientOptions, or their defaults
    requested,       \* the heartbeat timeout asked for is in range
    served,          \* the versions the server speaks
    pc,              \* where connect is
    index,           \* position in `versions', from 1
    previous_error,  \* the v3 attempt's, NoError if none
    result,          \* the version connected with, 0 before, and the error
    granted,         \* the heartbeat timeout of the QuackConnectionInfo
    processed,       \* the server has dealt with the request under way
    answer,          \* the answer under way: an error, a response, "other"
    sessions,        \* versions of the connections the server has opened
    errors,          \* history: the error of each attempt
    mishap           \* history: something other than accept and reject happened

optionVars == <<min_version, max_version, requested, served>>
clientVars == <<pc, index, previous_error, result, granted>>
wireVars   == <<processed, answer, sessions, mishap>>
vars == <<optionVars, clientVars, wireVars, errors>>

NoAnswer == [kind |-> "none"]
ErrorAnswer(e) == [kind |-> "error", error |-> e]
Response(r) == [kind |-> "response", response |-> r]
OtherMessage == [kind |-> "other"]

Answers ==
    {NoAnswer, OtherMessage} \cup {ErrorAnswer(e) : e \in Errors}
        \cup {Response(r) : r \in Responses}

Offered(v) == IF min_version <= v /\ v <= max_version THEN <<v>> ELSE <<>>

\* Slip: the older version is tried first.
VersionsOldestFirst == Offered(1) \o Offered(3)

\* `versions': those supported and within the options' range, newest first.
versions == Offered(3) \o Offered(1)

quack_version == versions[index]

TypeOK ==
    /\ min_version \in MinVersions /\ max_version \in MaxVersions
    /\ requested \in BOOLEAN /\ served \subseteq Versions
    /\ pc \in {"start", "attempt", "awaiting", "connected", "failed"}
    /\ index \in 1..2
    /\ pc \in {"attempt", "awaiting", "connected"} => index <= Len(versions)
    /\ previous_error \in Errors \cup {NoError}
    /\ result \in [version : Versions \cup {0}, error : Errors \cup {NoError}]
    /\ granted \in {"valid", "out of range", "none"}
    /\ processed \in BOOLEAN
    /\ answer \in Answers
    /\ sessions \subseteq Versions
    /\ errors \in [Versions -> Errors \cup {NoError}]
    /\ mishap \in BOOLEAN

Init ==
    /\ min_version \in MinVersions /\ max_version \in MaxVersions
    /\ requested \in BOOLEAN /\ served \in SUBSET Versions
    /\ pc = "start" /\ index = 1 /\ previous_error = NoError
    /\ result = [version |-> 0, error |-> NoError] /\ granted = "none"
    /\ processed = FALSE /\ answer = NoAnswer /\ sessions = {} /\ mishap = FALSE
    /\ errors = [v \in Versions |-> NoError]

-------------------------------------------------------------------------------
(* The client *)

Fail(e) ==
    /\ pc' = "failed"
    /\ result' = [result EXCEPT !.error = e]
    /\ UNCHANGED <<index, previous_error, granted>>

Invalid ==
    \/ min_version > max_version
    \/ versions = <<>>
    \/ 3 \in ToSet(versions) /\ ~requested

\* The options are checked before anything is sent.
Validate ==
    /\ pc = "start"
    /\ IF Invalid THEN Fail(Protocol("protocol version"))
       ELSE pc' = "attempt" /\ UNCHANGED <<index, previous_error, result, granted>>
    /\ UNCHANGED <<optionVars, wireVars, errors>>

SendRequest ==
    /\ pc = "attempt"
    /\ pc' = "awaiting"
    /\ processed' = FALSE
    /\ UNCHANGED <<optionVars, index, previous_error, result, granted, answer, sessions,
                   mishap, errors>>

is_version_negotiation_error(e) ==
    e.variant \in {"Protocol", "Server"} /\ e.text \in NegotiationTexts

\* Slip: a mismatch is retried whatever version it is of.
RetriesAny(e) == is_version_negotiation_error(e)

Retries(e) ==
    /\ index < Len(versions)
    /\ quack_version = 3
    /\ is_version_negotiation_error(e)

\* Slip: the last error is the one reported.
ErrorOfAttemptLast(e) == e

\* The error to report for an attempt that failed with e and is the last.
ErrorOfAttempt(e) ==
    IF previous_error # NoError /\ is_version_negotiation_error(e)
    THEN previous_error ELSE e

\* Slip: the same version is tried again.
TryNextSame(e) ==
    /\ pc' = "attempt"
    /\ previous_error' = e
    /\ UNCHANGED <<index, result, granted>>

TryNext(e) ==
    /\ pc' = "attempt"
    /\ index' = index + 1
    /\ previous_error' = e
    /\ UNCHANGED <<result, granted>>

OnError ==
    /\ answer.kind = "error"
    /\ LET e == answer.error
       IN /\ IF Retries(e) THEN TryNext(e) ELSE Fail(ErrorOfAttempt(e))
          /\ errors' = [errors EXCEPT ![quack_version] = e]

\* Slip: the selected version is not compared.
AcceptableUncompared(r) ==
    /\ r.id
    /\ quack_version = 3 => r.heartbeat = "valid"

\* A connection id, the version offered, and for v3 a valid heartbeat timeout.
Acceptable(r) ==
    /\ r.id
    /\ r.selected = quack_version
    /\ quack_version = 3 => r.heartbeat = "valid"

OnResponse ==
    /\ answer.kind = "response"
    /\ IF Acceptable(answer.response)
       THEN /\ pc' = "connected"
            /\ result' = [result EXCEPT !.version = quack_version]
            /\ granted' = IF quack_version = 3 THEN answer.response.heartbeat ELSE "none"
            /\ UNCHANGED <<index, previous_error>>
       ELSE Fail(Protocol("other"))
    /\ UNCHANGED errors

OnOther ==
    /\ answer.kind = "other"
    /\ Fail(Protocol("other"))
    /\ UNCHANGED errors

\* The `await' of transport.send is over.
Receive ==
    /\ pc = "awaiting"
    /\ OnError \/ OnResponse \/ OnOther
    /\ answer' = NoAnswer
    /\ UNCHANGED <<optionVars, processed, sessions, mishap>>

-------------------------------------------------------------------------------
(* The server and the network, external *)

ServerHasRequest == pc = "awaiting" /\ ~processed

\* The server speaks the version, and says so.
ServerAccepts ==
    /\ ServerHasRequest
    /\ quack_version \in served
    /\ processed' = TRUE
    /\ sessions' = sessions \cup {quack_version}
    /\ answer' = Response([id |-> TRUE, selected |-> quack_version,
                           heartbeat |-> IF quack_version = 3 THEN "valid" ELSE "none"])
    /\ UNCHANGED <<optionVars, clientVars, errors, mishap>>

\* The server does not speak the version: it names it, or its codec fails on
\* the request, inside an ERROR_RESPONSE or with HTTP 500.
ServerRejects ==
    /\ ServerHasRequest
    /\ quack_version \notin served
    /\ processed' = TRUE
    /\ \E e \in Errors :
          /\ is_version_negotiation_error(e)
          /\ e.variant = "Protocol" <=> e.text = "http request failed with 500"
          /\ answer' = ErrorAnswer(e)
    /\ UNCHANGED <<optionVars, clientVars, sessions, errors, mishap>>

\* Authentication fails, or something else that is no matter of versions.
ServerRefuses ==
    /\ ServerHasRequest
    /\ processed' = TRUE
    /\ answer' = ErrorAnswer([variant |-> "Server", text |-> "other"])
    /\ mishap' = TRUE
    /\ UNCHANGED <<optionVars, clientVars, sessions, errors>>

\* The server opens a session and its answer is not what it should be: another
\* message, a response the client cannot accept, or one it cannot decode.
ServerGarbles ==
    /\ ServerHasRequest
    /\ quack_version \in served
    /\ processed' = TRUE
    /\ \/ \E r \in Responses :
             /\ answer' = Response(r)
             /\ sessions' = sessions \cup ({r.selected} \ {0})
       \/ /\ answer' \in {OtherMessage, ErrorAnswer(Protocol("other")),
                           ErrorAnswer(Protocol("end of object"))}
          /\ sessions' = sessions \cup {quack_version}
    /\ mishap' = TRUE
    /\ UNCHANGED <<optionVars, clientVars, errors>>

\* The request or its answer is lost or times out, or an HTTP status other
\* than success comes back, whether the server has dealt with it or not.
NetworkFails ==
    /\ pc = "awaiting"
    /\ answer' \in {ErrorAnswer([variant |-> "Http", text |-> "other"]),
                    ErrorAnswer(Protocol("http request failed with 500")),
                    ErrorAnswer(Protocol("other"))}
    /\ processed' = TRUE
    /\ mishap' = TRUE
    /\ UNCHANGED <<optionVars, clientVars, sessions, errors>>

-------------------------------------------------------------------------------

Client == Validate \/ SendRequest \/ Receive
Server == ServerAccepts \/ ServerRejects \/ ServerRefuses \/ ServerGarbles
Next == Client \/ Server \/ NetworkFails

Spec == Init /\ [][Next]_vars

\* The connect and request timeouts end every await.
FairSpec == Spec /\ WF_vars(Client) /\ WF_vars(Server \/ NetworkFails)

-------------------------------------------------------------------------------
(* Properties *)

\* The client and the server agree on what was connected (client.rs:570-611).
ConnectedIsAgreed ==
    pc = "connected" =>
        /\ result.version \in sessions
        /\ min_version <= result.version /\ result.version <= max_version
        /\ granted = "valid" <=> result.version = 3

\* Without mishaps connect ends with the highest version that both sides
\* speak and that the options allow, and leaves no other session behind; it
\* fails only when there is none (client.rs:532-565).
HighestCommonVersion ==
    LET common == {v \in served : min_version <= v /\ v <= max_version}
    IN ~mishap =>
        /\ pc = "connected" =>
              /\ \A v \in common : v <= result.version
              /\ sessions = {result.version}
        /\ pc = "failed" => common = {} \/ Invalid

\* A failed connect reports the attempt that explains it: a v3 failure that is
\* no mismatch is final; after a v3 mismatch, a v1 mismatch reports the v3 one,
\* and any other v1 failure is itself reported (client.rs:554-565).
MismatchExplained ==
    pc = "failed" /\ errors[3] # NoError =>
        /\ ~is_version_negotiation_error(errors[3]) =>
              result.error = errors[3] /\ index = 1
        /\ errors[1] # NoError =>
              result.error = IF is_version_negotiation_error(errors[1])
                             THEN errors[3] ELSE errors[1]

\* connect ends, whatever the server and the network do (client.rs:153-160).
ConnectEnds == <>(pc \in {"connected", "failed"})

\* What README.md says of v1: it is tried when an older server rejects the v3
\* handshake.
RetriedOnlyWhenRejected == previous_error # NoError => 3 \notin served
===============================================================================

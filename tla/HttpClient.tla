------------------------------ MODULE HttpClient ------------------------------
(***************************************************************************)
(* One process's HTTP requests: client::send of gws-rust-core (attempts,   *)
(* retries, redirects) inside Transport::send_with_policy (one refresh of  *)
(* the access token after a 401).  A caller starts a request with Request  *)
(* and finds its outcome in result.  The server takes requests off the     *)
(* wire whenever it likes, also those the client has given up on; what it  *)
(* does with them is the caller's module's.                                *)
(*                                                                         *)
(* Left out: URLs, headers, back-off delays, bodies.  A chain of redirects *)
(* to other origins is one hop: after the first only a GET is sent.  Two   *)
(* late copies of a request with one token count as one.                   *)
(***************************************************************************)
EXTENDS Naturals, FiniteSets

CONSTANTS
  MaxAttempts,  \* RetryPolicy::max_attempts
  MaxExpiries,  \* bound: access tokens that expire or are revoked
  None

ASSUME HttpAssumption == MaxAttempts \in Nat \ {0} /\ MaxExpiries \in Nat

VARIABLES
  provider,   \* whether the token can be refreshed (else it is a fixed one)
  call,       \* the request: [verb, idempotency, tries, body]
  phase,      \* idle, ready, sent, answered, hop, refresh or over
  attempt,    \* attempts made by client::send
  unknown,    \* earlier_attempt_unknown
  refreshed,  \* whether this request has had its token refreshed
  token,      \* the transport's token, numbered
  dead,       \* the tokens the server rejects
  wire,       \* the request that is waited for, unless the server has handled it
  late,       \* requests given up on that the server may still handle
  reply,      \* its answer, as the server gave it
  result,     \* outcome for the caller: [status, more, gaveUp, tooLong, note]
  hopped      \* history: a redirect to another origin was followed

clientVars == <<call, phase, attempt, unknown, refreshed, token, reply, result, hopped>>
httpVars == <<provider, clientVars, dead, wire, late>>

Verb == {"GET", "POST", "PUT", "DELETE"}
Redirects == {"seeOther", "found", "keepMethod"}
Retryable == {"limited", "failed"}        \* 408, 429, a rate-limit 403; 5xx
Answered == {"ok", "more", "missing", "refused", "denied"} \cup Retryable
Failure == {"network", "auth"}

\* An answer carries how much of an upload the server has (308) and whether
\* its Retry-After is longer than the policy waits for.
Answer(status, more, tooLong) == [status |-> status, more |-> more, tooLong |-> tooLong]

\* Mutant: every request may be sent again.
MayResendAny(c) == c.verb \in Verb

\* Idempotency::resolve
MayResend(c) ==
  \/ c.idempotency = "idempotent"
  \/ c.idempotency = "fromMethod" /\ c.verb \in {"GET", "PUT", "DELETE"}

\* redirected_method
RedirectedVerb(status, verb) ==
  IF status = "seeOther" \/ (status = "found" /\ verb = "POST") THEN "GET" ELSE verb

HttpInit ==
  /\ provider \in BOOLEAN
  /\ call = None /\ reply = None /\ result = None
  /\ phase = "idle"
  /\ attempt = 0
  /\ unknown = FALSE /\ refreshed = FALSE /\ hopped = FALSE
  /\ token = 1 /\ dead = {}
  /\ wire = {} /\ late = {}

Request(verb, idempotency, tries, body) ==
  /\ phase \in {"idle", "over"}
  /\ call' = [verb |-> verb, idempotency |-> idempotency, tries |-> tries, body |-> body]
  /\ phase' = "ready"
  /\ attempt' = 0
  /\ unknown' = FALSE /\ refreshed' = FALSE /\ hopped' = FALSE
  /\ reply' = None /\ result' = None
  /\ UNCHANGED <<provider, token, dead, wire, late>>

\* The outcome goes to the caller, with the note on a DELETE that found nothing.
Return(status, more, gaveUp, tooLong) ==
  /\ phase' = "over"
  /\ reply' = None
  /\ result' = [status |-> status, more |-> more, gaveUp |-> gaveUp, tooLong |-> tooLong,
                note |-> call.verb = "DELETE" /\ status = "missing" /\ unknown]

Fail(status) == Return(status, 0, FALSE, FALSE)

\* Another attempt, after the back-off.
Again ==
  /\ phase' = "ready"
  /\ reply' = None
  /\ UNCHANGED result

Send ==
  /\ phase = "ready"
  /\ attempt' = attempt + 1
  /\ wire' = {[token |-> token, call |-> call]}
  /\ phase' = "sent"
  /\ UNCHANGED <<provider, call, unknown, refreshed, token, dead, late, reply, result, hopped>>

\* No connection: nothing was sent, so any request may be tried again.
ConnectFails ==
  /\ phase = "ready"
  /\ attempt' = attempt + 1
  /\ IF attempt' < call.tries THEN Again ELSE Fail("network")
  /\ UNCHANGED <<provider, call, unknown, refreshed, token, dead, wire, late, hopped>>

\* Nobody waits any more; what is on its way may still arrive.
GiveUpWaiting ==
  /\ late' = late \cup wire
  /\ wire' = {}

\* Mutant: the lost answer is not remembered.
NoAnswerForgotten ==
  /\ phase \in {"sent", "answered"}
  /\ GiveUpWaiting
  /\ IF MayResend(call) /\ attempt < call.tries
     THEN Again /\ UNCHANGED unknown
     ELSE Fail("network") /\ UNCHANGED unknown
  /\ UNCHANGED <<provider, call, attempt, refreshed, token, dead, hopped>>

\* The connection breaks or the time is up, before or after the server has
\* handled the request.
NoAnswer ==
  /\ phase \in {"sent", "answered"}
  /\ GiveUpWaiting
  /\ IF MayResend(call) /\ attempt < call.tries
     THEN Again /\ unknown' = TRUE
     ELSE Fail("network") /\ UNCHANGED unknown
  /\ UNCHANGED <<provider, call, attempt, refreshed, token, dead, hopped>>

\* An error of reqwest that is never retried, or a 403 whose body does not arrive.
Broken ==
  /\ phase \in {"sent", "answered"}
  /\ GiveUpWaiting
  /\ Fail("network")
  /\ UNCHANGED <<provider, call, attempt, unknown, refreshed, token, dead, hopped>>

\* Mutant: a retryable status is retried whatever the request is.
ClassifyResends(a) ==
  IF a.status \in Retryable THEN
    /\ IF attempt < call.tries /\ ~a.tooLong
       THEN Again /\ unknown' = (unknown \/ a.status = "failed")
       ELSE Return(a.status, 0, TRUE, a.tooLong) /\ UNCHANGED unknown
    /\ UNCHANGED refreshed
  ELSE IF a.status = "denied" /\ provider /\ ~refreshed THEN
    /\ phase' = "refresh"
    /\ refreshed' = TRUE
    /\ reply' = None
    /\ UNCHANGED <<unknown, result>>
  ELSE
    /\ Return(a.status, a.more, FALSE, FALSE)
    /\ UNCHANGED <<unknown, refreshed>>

\* classify, the retry decision of send and, for a definitive 401, the
\* refresh of send_with_policy.
Classify(a) ==
  IF a.status \in Retryable THEN
    /\ IF MayResend(call) /\ attempt < call.tries /\ ~a.tooLong
       THEN Again /\ unknown' = (unknown \/ a.status = "failed")
       ELSE Return(a.status, 0, TRUE, a.tooLong) /\ UNCHANGED unknown
    /\ UNCHANGED refreshed
  ELSE IF a.status = "denied" /\ provider /\ ~refreshed THEN
    /\ phase' = "refresh"
    /\ refreshed' = TRUE
    /\ reply' = None
    /\ UNCHANGED <<unknown, result>>
  ELSE
    /\ Return(a.status, a.more, FALSE, FALSE)
    /\ UNCHANGED <<unknown, refreshed>>

Receive ==
  /\ phase = "answered"
  /\ reply.status \notin Redirects
  /\ Classify(reply)
  /\ UNCHANGED <<provider, call, attempt, token, dead, wire, late, hopped>>

\* follow_cross_origin: only a GET without body and credentials goes there.
Redirected ==
  /\ phase = "answered"
  /\ reply.status \in Redirects
  /\ IF RedirectedVerb(reply.status, call.verb) = "GET"
     THEN phase' = "hop" /\ reply' = None /\ hopped' = TRUE /\ UNCHANGED result
     ELSE Fail("network") /\ UNCHANGED hopped
  /\ UNCHANGED <<provider, call, attempt, unknown, refreshed, token, dead, wire, late>>

\* The other origin answers; the answer counts as the request's.
Hop ==
  /\ phase = "hop"
  /\ \E status \in Answered \ {"more"}, tooLong \in BOOLEAN :
       /\ tooLong => status \in Retryable
       /\ Classify(Answer(status, 0, tooLong))
  /\ UNCHANGED <<provider, call, attempt, token, dead, wire, late, hopped>>

HopFails ==
  /\ phase = "hop"
  /\ Fail("network")
  /\ UNCHANGED <<provider, call, attempt, unknown, refreshed, token, dead, wire, late, hopped>>

\* client::send starts over with the new token, and with it its locals.
Refresh ==
  /\ phase = "refresh"
  /\ token' = token + 1
  /\ attempt' = 0
  /\ unknown' = FALSE
  /\ phase' = "ready"
  /\ UNCHANGED <<provider, call, refreshed, dead, wire, late, reply, result, hopped>>

RefreshFails ==
  /\ phase = "refresh"
  /\ Fail("auth")
  /\ UNCHANGED <<provider, call, attempt, unknown, refreshed, token, dead, wire, late, hopped>>

ClientStep ==
  \/ Send \/ ConnectFails
  \/ NoAnswer \/ Broken \/ Receive
  \/ Redirected \/ Hop \/ HopFails
  \/ Refresh \/ RefreshFails

\* The server handles request m; the client hears of it if it still waits.
Answers(m, a) ==
  /\ \/ /\ m \in wire
        /\ wire' = {}
        /\ reply' = a /\ phase' = "answered"
        /\ UNCHANGED late
     \/ /\ m \in late
        /\ late' = late \ {m}
        /\ UNCHANGED <<wire, reply, phase>>
  /\ UNCHANGED <<provider, call, attempt, unknown, refreshed, token, dead, result, hopped>>

\* A token expires or is revoked, while a request with it is on its way.
TokenDies ==
  /\ phase = "sent"
  /\ token \notin dead
  /\ Cardinality(dead) < MaxExpiries
  /\ dead' = dead \cup {token}
  /\ UNCHANGED <<provider, clientVars, wire, late>>

HttpType ==
  /\ provider \in BOOLEAN /\ unknown \in BOOLEAN
  /\ refreshed \in BOOLEAN /\ hopped \in BOOLEAN
  /\ phase \in {"idle", "ready", "sent", "answered", "hop", "refresh", "over"}
  /\ attempt \in Nat /\ token \in Nat
  /\ dead \subseteq Nat
  /\ phase # "idle" => call.verb \in Verb /\ attempt <= call.tries
  /\ phase = "over" => result.status \in (Answered \cup Failure)
  /\ (phase = "sent") <=> (wire # {})
  /\ late = {} \/ phase # "idle"
===============================================================================

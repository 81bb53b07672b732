-------------------------------- MODULE SignIn ---------------------------------
(***************************************************************************)
(* The OAuth sign-in of gwsr auth login (auth/flow.rs).  With a loopback   *)
(* redirect the browser calls back a listener on 127.0.0.1, which serves a *)
(* bounded number of connections at once; anything on the machine may      *)
(* connect to it, and browsers open connections they do not use.  Without  *)
(* a browser on this machine the user pastes the redirected URL.  The      *)
(* authorization code is then exchanged for tokens.                        *)
(***************************************************************************)
EXTENDS Outcome, Sequences, FiniteSets

CONSTANTS
  Connection,
  MaxConnections   \* served at once

\* What a connection sends (or a user pastes): the state of this attempt or
\* another one, with a code or an error; or nothing, or something else.
Nothing == [path |-> "none", state |-> "none", code |-> FALSE, error |-> FALSE]
Request ==
  [path : {"callback"}, state : {"own", "none"}, code : BOOLEAN, error : BOOLEAN]
    \cup {[path |-> "other", state |-> "own", code |-> TRUE, error |-> FALSE]}

\* Whose state a code came with.
CodeOrigin == {"own", "foreign"}

ASSUME SignInAssumption ==
  /\ MaxConnections \in Nat \ {0} /\ IsFiniteSet(Connection)
  /\ NoValue \notin Request \cup {Nothing} /\ NoValue \notin CodeOrigin

VARIABLES
  gStep,     \* "off", wait, paste, exchange, over
  gPatient,  \* whether the time allowed for the sign-in suffices
  gSends,    \* for each connection, what it sends; NoValue before it is opened
  gBacklog,  \* connections the listener has not accepted yet
  gServing,  \* connections being served
  gCode,     \* the code to be exchanged
  gTokens,   \* whether there are tokens
  gEnd

signVars == <<gStep, gPatient, gSends, gBacklog, gServing, gCode, gTokens, gEnd>>

SignInit ==
  /\ gStep = "off" /\ gPatient = FALSE
  /\ gSends = [c \in Connection |-> NoValue]
  /\ gBacklog = <<>> /\ gServing = {}
  /\ gCode = NoValue /\ gTokens = FALSE /\ gEnd = NoValue

SignBegin(mode, patient) ==
  /\ gStep = "off"
  /\ gStep' = IF mode = "loopback" THEN "wait" ELSE "paste"
  /\ gPatient' = patient
  /\ UNCHANGED <<gSends, gBacklog, gServing, gCode, gTokens, gEnd>>

SignEnds(ending) ==
  /\ gStep' = "over" /\ gEnd' = ending
  /\ gBacklog' = <<>> /\ gServing' = {}

Listener == UNCHANGED <<gBacklog, gServing>>

\* Something connects to the port.  (Connections differ in what they send only, so it is
\* always the same one of those that are left.)
Connects(c, sends) ==
  /\ gStep = "wait" /\ gSends[c] = NoValue
  /\ c = CHOOSE d \in Connection : gSends[d] = NoValue
  /\ gSends' = [gSends EXCEPT ![c] = sends]
  /\ gBacklog' = Append(gBacklog, c)
  /\ UNCHANGED <<gStep, gPatient, gServing, gCode, gTokens, gEnd>>

\* serve_callback accepts the next connection while it has a free slot.
Accept ==
  /\ gStep = "wait" /\ gBacklog # <<>> /\ Cardinality(gServing) < MaxConnections
  /\ gServing' = gServing \cup {Head(gBacklog)}
  /\ gBacklog' = Tail(gBacklog)
  /\ UNCHANGED <<gStep, gPatient, gSends, gCode, gTokens, gEnd>>

\* Mutant: an error is reported before the state is looked at.
ParseCallbackErrorFirst(r) ==
  IF r.path = "other" THEN "wrongPath"
  ELSE IF r.error THEN "denied"
  ELSE IF r.state # "own" THEN "badState"
  ELSE IF r.code THEN "code"
  ELSE "malformed"

\* parse_callback: nothing counts without the state of this attempt.
ParseCallback(r) ==
  IF r.path = "other" THEN "wrongPath"
  ELSE IF r.state # "own" THEN "badState"
  ELSE IF r.error THEN "denied"
  ELSE IF r.code THEN "code"
  ELSE "malformed"

\* A code is as good as the state it came with.
CodeOf(r) == IF r.state = "own" THEN "own" ELSE "foreign"

Drop(c) ==
  /\ gServing' = gServing \ {c}
  /\ UNCHANGED <<gStep, gPatient, gSends, gBacklog, gCode, gTokens, gEnd>>

\* A connection sent its request: a code, or an error of the provider, ends the
\* wait and drops the others; anything else is answered, and the wait goes on.
Answer(c) ==
  /\ gStep = "wait" /\ c \in gServing /\ gSends[c] # Nothing
  /\ LET outcome == ParseCallback(gSends[c]) IN
       \/ /\ outcome = "code"
          /\ gStep' = "exchange" /\ gCode' = CodeOf(gSends[c])
          /\ gBacklog' = <<>> /\ gServing' = {}
          /\ UNCHANGED <<gPatient, gSends, gTokens, gEnd>>
       \/ outcome = "denied" /\ SignEnds("auth") /\ UNCHANGED <<gPatient, gSends, gCode, gTokens>>
       \/ outcome \notin {"code", "denied"} /\ Drop(c)

\* Mutant: an idle connection is waited for.
IdleTimesOutNever(c) ==
  /\ gStep = "wait" /\ c \in gServing /\ gSends[c] # Nothing /\ gSends[c].path = "other"
  /\ Drop(c)

\* One that sends no request in time, or closes, is dropped.
IdleTimesOut(c) ==
  /\ gStep = "wait" /\ c \in gServing /\ gSends[c] = Nothing
  /\ Drop(c)

\* The wait is over; the terminal is closed; the listener fails.
SignTimesOut ==
  /\ gStep \in {"wait", "paste"} /\ ~gPatient
  /\ \E e \in {"auth", "validation", "network"} : SignEnds(e)
  /\ UNCHANGED <<gPatient, gSends, gCode, gTokens>>

\* parse_pasted: one attempt.
Paste(r) ==
  /\ gStep = "paste"
  /\ LET outcome == ParseCallback(r) IN
       \/ /\ outcome = "code"
          /\ gStep' = "exchange" /\ gCode' = CodeOf(r)
          /\ Listener
          /\ UNCHANGED <<gPatient, gSends, gTokens, gEnd>>
       \/ /\ outcome # "code"
          /\ SignEnds(IF outcome = "denied" THEN "auth" ELSE "validation")
          /\ UNCHANGED <<gPatient, gSends, gCode, gTokens>>

\* exchange_code: tokens, provided a refresh token is among them.
Exchange ==
  /\ gStep = "exchange"
  /\ \/ gTokens' = TRUE /\ SignEnds("ok")
     \/ (\E e \in {"auth", "network"} : SignEnds(e)) /\ UNCHANGED gTokens
  /\ UNCHANGED <<gPatient, gSends, gCode>>

Serving == \E c \in Connection : Answer(c) \/ IdleTimesOut(c)

SignNext ==
  \/ gStep = "off" /\ \E mode \in {"loopback", "manual"}, patient \in BOOLEAN : SignBegin(mode, patient)
  \/ gStep = "wait" /\ \E c \in Connection, sends \in Request \cup {Nothing} : Connects(c, sends)
  \/ Accept \/ Serving \/ SignTimesOut
  \/ gStep = "paste" /\ \E r \in Request : Paste(r)
  \/ Exchange

\* The listener's loop polls what is ready, and every connection's timer runs out.
SignFair ==
  /\ WF_signVars(Accept)
  /\ \A c \in Connection : WF_signVars(Answer(c)) /\ WF_signVars(IdleTimesOut(c))
  /\ WF_signVars(Exchange)

SignSpec == SignInit /\ [][SignNext]_signVars /\ SignFair

SignTypeOK ==
  /\ gStep \in {"off", "wait", "paste", "exchange", "over"} /\ gPatient \in BOOLEAN
  /\ gSends \in [Connection -> Request \cup {Nothing, NoValue}]
  /\ gBacklog \in Seq(Connection) /\ gServing \subseteq Connection
  /\ Cardinality(gServing) <= MaxConnections
  /\ gCode \in CodeOrigin \cup {NoValue} /\ gTokens \in BOOLEAN
  /\ gEnd \in Ending \cup {NoValue}

\* Only an answer to this very sign-in decides it: whatever else connects to the
\* port, in whatever order, the code exchanged came with the state of this attempt,
\* and with time enough a wait is given up only for a refusal with that state.
OnlyOwnAnswer ==
  /\ gCode # NoValue => gCode = "own"
  /\ gPatient /\ gEnd = "auth" /\ gCode = NoValue /\ (\E c \in Connection : gSends[c] # NoValue) =>
       \E c \in Connection : gSends[c] \in Request /\ gSends[c].state = "own" /\ gSends[c].error

\* Connections nobody uses do not keep the redirect out, even when they take every
\* slot: once the browser has called back, the wait ends (if the time suffices).
Redirect(c) == gSends[c] \in Request /\ gSends[c].path = "callback" /\ gSends[c].state = "own" /\ gSends[c].code
RedirectServed ==
  (gStep = "wait" /\ \E c \in Connection : Redirect(c)) ~> gStep # "wait"

===============================================================================

--------------------------------- MODULE Batch --------------------------------
(***************************************************************************)
(* gwsr batch (executor/batch.rs): calls are sent in groups, one group     *)
(* after the other.  The answer to a group has one part per call; the      *)
(* parts may come in any order, may name a call the client never made, or  *)
(* may be too few.  Each result is screened and printed; the command stops *)
(* at the first group that fails, or whose results cannot all be printed,  *)
(* and says of every call what became of it.                               *)
(*                                                                         *)
(* The server carries out the calls of a request one by one, also of a     *)
(* request the client has given up on.  The request is client::send of     *)
(* HttpClient, without redirects and the refresh of the token.             *)
(***************************************************************************)
EXTENDS Outcome, Sequences, FiniteSets

CONSTANTS
  BatchCalls,   \* number of calls in the input
  BatchLimit,   \* batch_limit
  BatchTries    \* RetryPolicy::max_attempts

ASSUME BatchAssumption == BatchCalls \in Nat \ {0} /\ BatchLimit \in Nat \ {0} /\ BatchTries \in Nat \ {0}

VARIABLES
  bStep,       \* where the command is; "off" before it starts
  bGate,       \* the gate's question: impacts, invocation and what was answered yes
  bSafe,       \* the calls that may be sent more than once (BatchCall::idempotent)
  bScreen,     \* whether results are screened (block mode)
  bFirst,      \* the first call of the current group
  bAttempt,    \* attempts made to send the group
  bOpen,       \* calls of the awaited request the server has not carried out yet
  bLate,       \* for each call, requests given up on that may still carry it out
  bApplied,    \* for each call, how often the server has carried it out
  bVerdict,    \* for each call, the server's last verdict in the awaited request
  bParts,      \* the parts of the answer; in call order once matched
  bAt,         \* how many of them have been handled
  bFailed,     \* statuses of the calls answered so far that are not "ok"
  bPrinted,    \* for each call, the part printed as its result
  bFate,       \* for each call, what the command has said of it
  bEnd         \* how the command ended

bServer == <<bLate, bApplied>>
bSetting == <<bSafe, bScreen>>
bResult == <<bFailed, bPrinted, bFate>>
batchVars == <<bStep, bGate, bSetting, bFirst, bAttempt, bOpen, bServer, bVerdict,
               bParts, bAt, bResult, bEnd>>

BatchCall == 1..BatchCalls

\* One group of calls.chunks(limit), and the calls after it.
InGroup(first) == {c \in BatchCall : first <= c /\ c < first + BatchLimit}
Group == InGroup(bFirst)
NotSent == {c \in BatchCall : bFirst + BatchLimit <= c}

\* A part names a call, or nobody the client knows, or nothing; "of" is the call
\* whose result the server put into it.
Foreign == 0
Unnamed == BatchCalls + 1
Part == [name : BatchCall \cup {Foreign, Unnamed}, status : CallStatus, of : BatchCall]

Gate == [impacts : SUBSET Impact, inv : Invocation, confirmed : SUBSET Impact]

ASSUME NoPart == NoValue \notin Part /\ NoValue \notin Gate

BatchInit ==
  /\ bStep = "off"
  /\ bGate = NoValue
  /\ bSafe = {} /\ bScreen = FALSE
  /\ bFirst = 1 /\ bAttempt = 0 /\ bOpen = {}
  /\ bLate = [c \in BatchCall |-> 0] /\ bApplied = [c \in BatchCall |-> 0]
  /\ bVerdict = [c \in BatchCall |-> NoValue]
  /\ bParts = <<>> /\ bAt = 0
  /\ bFailed = {}
  /\ bPrinted = [c \in BatchCall |-> NoValue]
  /\ bFate = [c \in BatchCall |-> "pending"]
  /\ bEnd = NoValue

\* The calls are read and checked (parse_calls); the gate is asked about the
\* impacts that occur among them.
BatchStart(impacts, inv, safe, screen) ==
  /\ bStep = "off"
  /\ bStep' = IF inv.dryRun THEN "over" ELSE "destructive"
  /\ bEnd' = IF inv.dryRun THEN "ok" ELSE NoValue
  /\ bGate' = [impacts |-> impacts, inv |-> inv, confirmed |-> {}]
  /\ bSafe' = safe /\ bScreen' = screen
  /\ UNCHANGED <<bFirst, bAttempt, bOpen, bServer, bVerdict, bParts, bAt, bResult>>

BatchRefused(ending) ==
  /\ bStep' = "over"
  /\ bEnd' = ending
  /\ UNCHANGED <<bGate, bSetting, bFirst, bAttempt, bOpen, bServer, bVerdict, bParts, bAt, bResult>>

\* Mutant: the gate is asked one question for the whole batch.
BatchGateOnce(impact, next) ==
  /\ bStep = impact
  /\ bStep' = "credentials"
  /\ UNCHANGED <<bGate, bSetting, bFirst, bAttempt, bOpen, bServer, bVerdict, bParts, bAt,
                 bResult, bEnd>>

\* The gate for one impact, asked only if some call has it.
BatchGate(impact, next) ==
  /\ bStep = impact
  /\ \/ /\ impact \notin bGate.impacts \/ Decide(impact, bGate.inv) # "refuse"
        /\ bGate' = IF impact \in bGate.impacts /\ Decide(impact, bGate.inv) = "prompt"
                    THEN [bGate EXCEPT !.confirmed = @ \cup {impact}] ELSE bGate
        /\ bStep' = next
        /\ UNCHANGED <<bSetting, bFirst, bAttempt, bOpen, bServer, bVerdict, bParts, bAt,
                       bResult, bEnd>>
     \/ /\ impact \in bGate.impacts
        /\ Decide(impact, bGate.inv) # "proceed"      \* refused, or declined at the prompt
        /\ BatchRefused("unconfirmed")

\* Credentials are looked up only now.
BatchCredentials ==
  /\ bStep = "credentials"
  /\ \/ /\ bStep' = "ready"
        /\ bGate' = NoValue
        /\ UNCHANGED <<bSetting, bFirst, bAttempt, bOpen, bServer, bVerdict, bParts, bAt,
                       bResult, bEnd>>
     \/ BatchRefused("auth")

\* The command ends here: no result for the calls in "lost", for the reason
\* "why"; the later groups were never sent (batch_stopped).
BatchStop(lost, why, ending) ==
  /\ bStep' = "over"
  /\ bEnd' = ending
  /\ bFate' = [c \in BatchCall |->
                 IF c \in lost THEN why ELSE IF c \in NotSent THEN "notSent" ELSE bFate[c]]

\* The whole group is without a result (send_group failed).
BatchLost(ending) == BatchStop(Group, "unknown", ending) /\ UNCHANGED <<bFailed, bPrinted>>

BatchSend ==
  /\ bStep = "ready"
  /\ bStep' = "sent"
  /\ bAttempt' = bAttempt + 1
  /\ bOpen' = Group
  /\ bVerdict' = [c \in BatchCall |-> NoValue]
  /\ UNCHANGED <<bGate, bSetting, bFirst, bServer, bParts, bAt, bResult, bEnd>>

\* No connection: nothing was sent, so any group may be tried again.
BatchUnreachable ==
  /\ bStep = "ready"
  /\ bAttempt' = bAttempt + 1
  /\ \/ /\ bAttempt' < BatchTries
        /\ UNCHANGED <<bStep, bResult, bEnd>>
     \/ /\ bAttempt' >= BatchTries
        /\ BatchLost("network")
  /\ UNCHANGED <<bGate, bSetting, bFirst, bOpen, bServer, bVerdict, bParts, bAt>>

\* Mutant: the request is taken for repeatable because it is one POST to the
\* batch endpoint with a boundary of its own.
BatchMayResendAlways == bAttempt < BatchTries

\* The group is sent again as a whole, so only if every call in it may be.
BatchMayResend == bAttempt < BatchTries /\ Group \subseteq bSafe

\* What the server has not done yet it may still do.
BatchAbandon ==
  /\ bLate' = [c \in BatchCall |-> IF c \in bOpen THEN bLate[c] + 1 ELSE bLate[c]]
  /\ bOpen' = {}

\* No answer, or one with a retryable status: again, or the end.
BatchNoAnswer(ending) ==
  /\ bStep = "sent"
  /\ BatchAbandon
  /\ \/ /\ BatchMayResend
        /\ bStep' = "ready"
        /\ UNCHANGED <<bResult, bEnd>>
     \/ /\ ~BatchMayResend
        /\ BatchLost(ending)
  /\ UNCHANGED <<bGate, bSetting, bFirst, bAttempt, bApplied, bVerdict, bParts, bAt>>

\* The batch as a whole is refused before any call is looked at, or the answer
\* cannot be read.
BatchRejected ==
  /\ bStep = "sent"
  /\ \/ bOpen = Group /\ bOpen' = {} /\ BatchLost("api") /\ UNCHANGED bLate
     \/ BatchAbandon /\ BatchLost("network")
  /\ UNCHANGED <<bGate, bSetting, bFirst, bAttempt, bApplied, bVerdict, bParts, bAt>>

\* The server carries out one call of the awaited request ...
BatchServe(c, status) ==
  /\ c \in bOpen
  /\ bOpen' = bOpen \ {c}
  /\ bVerdict' = [bVerdict EXCEPT ![c] = status]
  /\ bApplied' = IF status = "ok" THEN [bApplied EXCEPT ![c] = @ + 1] ELSE bApplied
  /\ UNCHANGED <<bStep, bGate, bSetting, bFirst, bAttempt, bLate, bParts, bAt, bResult, bEnd>>

\* ... or of one nobody waits for.
BatchServeLate(c, applies) ==
  /\ bLate[c] > 0
  /\ bLate' = [bLate EXCEPT ![c] = @ - 1]
  /\ bApplied' = IF applies THEN [bApplied EXCEPT ![c] = @ + 1] ELSE bApplied
  /\ UNCHANGED <<bStep, bGate, bSetting, bFirst, bAttempt, bOpen, bVerdict, bParts, bAt,
                 bResult, bEnd>>

\* What the server may make of a finished group: each part tells the truth about
\* the call it names; a part without a name stands at its call's position,
\* unless parts are missing.
BatchAnswers ==
  LET n == Cardinality(Group)
      PartOf(c, name) == [name |-> name, status |-> bVerdict[c], of |-> c]
      Possible == {PartOf(c, name) : c \in Group, name \in Group \cup {Foreign, Unnamed}}
      Honest(p) == p.name \in BatchCall => p.name = p.of
      Placed(parts) == Len(parts) = n =>
        \A i \in 1..n : parts[i].name = Unnamed => parts[i].of = bFirst + i - 1
      Sequence(k) == [1..k -> {p \in Possible : Honest(p)}]
  IN  {parts \in UNION {Sequence(k) : k \in 0..n} : Placed(parts)}

\* The call a part is the result of, by its name or its position.
CallOf(parts, i) ==
  IF parts[i].name = Unnamed THEN bFirst + i - 1 ELSE parts[i].name

\* Mutant: parts are taken in the order they come.
InCallOrderAsTheyCome(parts) ==
  IF Len(parts) = Cardinality(Group) THEN {parts} ELSE {}

\* The parts in the order of the calls (in_call_order), each under its call's name,
\* as nobody looks at the names any more; none if there is not exactly one for each.
InCallOrder(parts) ==
  LET n == Cardinality(Group)
  IN  IF /\ Len(parts) = n
         /\ \A i \in 1..n : CallOf(parts, i) \in Group
         /\ \A i, j \in 1..n : i # j => CallOf(parts, i) # CallOf(parts, j)
      THEN {[k \in 1..n |->
               [parts[CHOOSE i \in 1..n : CallOf(parts, i) = bFirst + k - 1] EXCEPT !.name = bFirst + k - 1]]}
      ELSE {}

\* The answer arrives and is matched with the calls.
BatchAnswer(parts) ==
  /\ bStep = "sent" /\ bOpen = {}
  /\ \A c \in Group : bVerdict[c] # NoValue
  /\ parts \in BatchAnswers
  /\ \/ /\ bParts' \in InCallOrder(parts)
        /\ bStep' = "results"
        /\ UNCHANGED <<bResult, bEnd>>
     \/ /\ InCallOrder(parts) = {}
        /\ BatchLost("other")
        /\ UNCHANGED bParts
  /\ UNCHANGED <<bGate, bSetting, bFirst, bAttempt, bOpen, bServer, bVerdict, bAt>>

Current == bFirst + bAt
AndLater == {c \in Group : c >= Current}
Withheld == {c \in Group : bFate[c] = "withheld"}

\* The failures counted before a result is screened or printed.
CountFailure ==
  bFailed' = IF bParts[bAt + 1].status = "ok" THEN bFailed
             ELSE bFailed \cup {bParts[bAt + 1].status}

\* The next result passes the screening and is printed, or cannot be printed.
BatchPrint ==
  /\ bStep = "results" /\ bAt < Len(bParts)
  /\ CountFailure
  /\ \/ /\ bPrinted' = [bPrinted EXCEPT ![Current] = bParts[bAt + 1]]
        /\ bFate' = [bFate EXCEPT ![Current] = "printed"]
        /\ bAt' = bAt + 1
        /\ UNCHANGED <<bStep, bEnd>>
     \/ /\ BatchStop(Withheld \cup AndLater, "unprinted", "other")
        /\ UNCHANGED <<bPrinted, bAt>>
  /\ UNCHANGED <<bGate, bSetting, bFirst, bAttempt, bOpen, bServer, bVerdict, bParts>>

\* It is blocked, and the next one is looked at; or screening itself fails, and
\* with it the rest of the group is withheld.
BatchWithhold ==
  /\ bStep = "results" /\ bAt < Len(bParts) /\ bScreen
  /\ CountFailure
  /\ \/ /\ bFate' = [bFate EXCEPT ![Current] = "withheld"]
        /\ bAt' = bAt + 1
     \/ /\ bFate' = [c \in BatchCall |-> IF c \in AndLater THEN "withheld" ELSE bFate[c]]
        /\ bAt' = Len(bParts)
  /\ UNCHANGED <<bStep, bGate, bSetting, bFirst, bAttempt, bOpen, bServer, bVerdict, bParts,
                 bPrinted, bEnd>>

\* The group is through: stop if something was withheld (with the match, or with
\* the failure of the screening, whichever came first), else the next group,
\* and after the last one the outcome of the whole.
BatchGroupDone ==
  /\ bStep = "results" /\ bAt = Len(bParts)
  /\ bAt' = 0 /\ bParts' = <<>> /\ bAttempt' = 0
  /\ \/ /\ Withheld # {}
        /\ \E ending \in {"blocked", "network"} : BatchStop(Withheld, "withheld", ending)
        /\ UNCHANGED bFirst
     \/ /\ Withheld = {} /\ NotSent # {}
        /\ bFirst' = bFirst + BatchLimit
        /\ bStep' = "ready"
        /\ UNCHANGED <<bFate, bEnd>>
     \/ /\ Withheld = {} /\ NotSent = {}
        /\ bStep' = "over"
        /\ bEnd' = PartialFailure(bFailed)
        /\ UNCHANGED <<bFate, bFirst>>
  /\ UNCHANGED <<bGate, bSetting, bOpen, bServer, bVerdict, bFailed, bPrinted>>

\* Steps of the command, and of the server.
BatchClient ==
  \/ BatchGate("destructive", "outbound") \/ BatchGate("outbound", "credentials")
  \/ BatchCredentials \/ BatchSend \/ BatchUnreachable
  \/ BatchNoAnswer("network") \/ BatchNoAnswer("retryable") \/ BatchRejected
  \/ \E parts \in BatchAnswers : BatchAnswer(parts)
  \/ BatchPrint \/ BatchWithhold \/ BatchGroupDone

BatchServing ==
  \E c \in BatchCall : \/ \E s \in CallStatus : BatchServe(c, s)
                       \/ \E applies \in BOOLEAN : BatchServeLate(c, applies)

BatchBegin ==
  /\ bStep = "off"
  /\ \E impacts \in SUBSET Impact, inv \in Invocation, safe \in SUBSET BatchCall, screen \in BOOLEAN :
       BatchStart(impacts, inv, safe, screen)

BatchNext == BatchBegin \/ BatchClient \/ BatchServing

BatchSpec == BatchInit /\ [][BatchNext]_batchVars

BatchTypeOK ==
  /\ bStep \in {"off", "destructive", "outbound", "credentials", "ready", "sent", "results", "over"}
  /\ bGate \in Gate \cup {NoValue}
  /\ bSafe \subseteq BatchCall /\ bScreen \in BOOLEAN
  /\ bFirst \in BatchCall /\ bAttempt \in 0..BatchTries /\ bOpen \subseteq Group
  /\ bLate \in [BatchCall -> Nat] /\ bApplied \in [BatchCall -> Nat]
  /\ bVerdict \in [BatchCall -> CallStatus \cup {NoValue}]
  /\ bParts \in Seq(Part) /\ bAt \in 0..Len(bParts)
  /\ bFailed \subseteq CallStatus \ {"ok"}
  /\ bPrinted \in [BatchCall -> Part \cup {NoValue}]
  /\ bFate \in [BatchCall -> {"pending", "printed", "unknown", "withheld", "unprinted", "notSent"}]
  /\ bEnd \in Ending \cup {NoValue}

\* A call that must not be repeated reaches the server at most once, however
\* often its group was tried, and however late a request arrives.
BatchAtMostOnce ==
  \A c \in BatchCall \ bSafe :
    bApplied[c] + bLate[c] + (IF c \in bOpen THEN 1 ELSE 0) <= 1

\* What the command says of each call is true: a call "not sent" has not been
\* and will not be carried out; a printed result is the server's for that very
\* call; a result that was withheld or could not be printed belongs to a call
\* the server has answered; and when the command ends every call that passed
\* the gate is accounted for.
BatchTruthful ==
  /\ \A c \in BatchCall :
       /\ bFate[c] = "notSent" => bApplied[c] = 0 /\ bLate[c] = 0 /\ c \notin bOpen
       /\ bFate[c] = "printed" => bPrinted[c].of = c
       /\ bFate[c] \in {"withheld", "unprinted"} => bVerdict[c] # NoValue
  /\ bStep = "over" /\ bGate = NoValue => \A c \in BatchCall : bFate[c] # "pending"

\* The exit code is true: 0 only when every call was carried out and its
\* success printed; 6 after every result was printed only if no failure is
\* permanent (README: "retry later when every failure is retryable").
BatchExitHonest ==
  bStep = "over" /\ bGate = NoValue =>
    /\ bEnd = "ok" => \A c \in BatchCall : bPrinted[c] # NoValue /\ bPrinted[c].status = "ok" /\ bApplied[c] > 0
    /\ bEnd = "retryable" /\ (\A c \in BatchCall : bFate[c] = "printed")
         => \A c \in BatchCall : bPrinted[c].status # "perm"

\* Before anything is sent every impact among the calls has passed the gate,
\* each by itself: confirming the deletions does not confirm the mails.
BatchConfirmed ==
  bStep = "credentials" =>
    \A impact \in bGate.impacts : Decide(impact, bGate.inv) = "proceed" \/ impact \in bGate.confirmed

\* A batch asks before the worst it may do, does no call twice that may not be
\* repeated, and tells the calls that were carried out, may have been, and were
\* never sent apart, in its output and its exit code.
BatchCorrect == BatchConfirmed /\ BatchAtMostOnce /\ BatchTruthful /\ BatchExitHonest

===============================================================================

------------------------------ MODULE MethodCall ------------------------------
(***************************************************************************)
(* One generated API command (execute_to of executor/mod.rs): the checks,  *)
(* the dry run, the confirmation gate, the credentials, the request, and   *)
(* what becomes of its answer: the pages of a list, the wait for a         *)
(* long-running operation, screening, saving and printing.                 *)
(*                                                                         *)
(* A request is one step, with its retries: carried out or not, answered   *)
(* or not.  Uploads are those of ResumableUpload.  A page is known by the  *)
(* token it was asked for with; the server may give out any token, also    *)
(* one it has given out before.                                            *)
(***************************************************************************)
EXTENDS Outcome, Sequences

CONSTANTS
  Tokens,      \* bound: page tokens the server gives out, 1..Tokens
  MaxPolls     \* bound: polls before the wait's time is over

\* The JSON documents an answer brings.
Result == {"page", "operation", "response"}

ASSUME MethodAssumption == Tokens \in Nat \ {0} /\ MaxPolls \in Nat /\ NoValue \notin Result

VARIABLES
  mStep,       \* where the command is; "off" before it starts
  mShape,      \* what it was asked for
  mGate,       \* the gate: class, ask, invocation, confirmed at the prompt
  mToken,      \* the token of the page asked for; 0 is none
  mSeen,       \* seen_tokens
  mPages,      \* pages printed so far
  mPolls,      \* polls of the operation
  mValue,      \* the JSON value at hand: "page", "operation", "response" of one, "file"
  mNext,       \* the token that came with it
  mScreened,   \* whether the value passed the screening
  mPrinted,    \* the tokens of the pages on standard output, in order
  mLeaked,     \* something unscreened was put on standard output
  mApplied,    \* history: the server carried out the request
  mKnown,      \* history: the client has the server's word for it
  mSaid,       \* what the error says: nothing, "applied" or "operation"
  mTold,       \* the user was told that the list goes on, or ended oddly
  mEnd         \* how the command ended

mPageVars == <<mToken, mSeen, mPages, mNext>>
mValueVars == <<mValue, mScreened>>
mServerVars == <<mApplied, mKnown>>
mOutVars == <<mPrinted, mLeaked, mTold>>
methodVars == <<mStep, mShape, mGate, mPageVars, mPolls, mValueVars, mServerVars, mOutVars, mSaid, mEnd>>

Token == 1..Tokens

\* writes: the HTTP method is not GET, HEAD or OPTIONS.  media: alt=media without
\* --decode-field.  pollable: the operation of this method can be polled (can_wait).
Shape == [writes : BOOLEAN, output : {"none", "file", "stdout"}, pageAll : BOOLEAN,
          limit : {0, 2}, wait : BOOLEAN, pollable : BOOLEAN, screen : {"off", "block", "warn"},
          media : BOOLEAN, start : {0, 1}]

\* The shapes worth telling apart: a limit and a first token belong to a list.
UsefulShape(s) ==
  /\ ~s.pageAll => s.limit = 0 /\ s.start = 0
  /\ s.pageAll => ~s.media /\ ~s.wait

MethodInit ==
  /\ mStep = "off" /\ mShape = NoValue /\ mGate = NoValue
  /\ mToken = 0 /\ mSeen = {} /\ mPages = 0 /\ mNext = 0
  /\ mPolls = 0
  /\ mValue = NoValue /\ mScreened = FALSE
  /\ mPrinted = <<>> /\ mLeaked = FALSE
  /\ mApplied = FALSE /\ mKnown = FALSE
  /\ mSaid = "nothing" /\ mTold = FALSE
  /\ mEnd = NoValue

\* The command ends; its error, if it is one, says what it says of a write.
End(ending, says) ==
  /\ mStep' = "over"
  /\ mEnd' = ending
  /\ mSaid' = says

\* The note of a failure after the method has changed something.
Applied == IF mShape.writes THEN "applied" ELSE "nothing"

\* Contradictions are refused before anything else: --output or -o - with pages
\* or screening, and --wait for what cannot be polled.
Contradiction(s) ==
  \/ s.pageAll /\ s.output # "none"
  \/ s.screen # "off" /\ s.output = "stdout"
  \/ s.wait /\ ~s.pollable

\* Mutant: the token a run is resumed from is not remembered.
SeenAtStartNone(s) == {}

\* A run resumed from a token has asked for its page already.
SeenAtStart(s) == {s.start} \ {0}

\* The arguments are checked; --yes is known only to commands that may be gated.
MethodStart(s, class, ask, inv) ==
  /\ mStep = "off"
  /\ class # "plain" => s.writes
  /\ inv.yes => MayBeGated(class)
  /\ mShape' = s
  /\ mGate' = [impacts |-> MethodImpact(class, ask), flag |-> MayBeGated(class),
               inv |-> inv, confirmed |-> FALSE]
  /\ mToken' = s.start
  /\ mSeen' = SeenAtStart(s)
  /\ IF Contradiction(s) THEN End("validation", "nothing")
     ELSE IF inv.dryRun THEN End("ok", "nothing")
     ELSE mStep' = "gate" /\ UNCHANGED <<mSaid, mEnd>>
  /\ UNCHANGED <<mPages, mNext, mPolls, mValueVars, mServerVars, mOutVars>>

Verdicts == {Decide(impact, mGate.inv) : impact \in mGate.impacts}

\* Mutant: a destructive call is gated only under GWSR_REQUIRE_CONFIRM.
MethodGateByPolicy ==
  /\ mStep = "gate"
  /\ mGate.inv.require => "refuse" \notin Verdicts
  /\ mStep' = "credentials"
  /\ UNCHANGED <<mShape, mGate, mPageVars, mPolls, mValueVars, mServerVars, mOutVars, mSaid, mEnd>>

\* The gate, asked about this call before any credentials are looked up.
MethodGate ==
  /\ mStep = "gate"
  /\ \/ /\ "refuse" \notin Verdicts
        /\ mStep' = "credentials"
        /\ mGate' = [mGate EXCEPT !.confirmed = "prompt" \in Verdicts]
        /\ UNCHANGED <<mSaid, mEnd>>
     \/ /\ Verdicts \cap {"refuse", "prompt"} # {}
        /\ End("unconfirmed", "nothing")
        /\ UNCHANGED mGate
  /\ UNCHANGED <<mShape, mPageVars, mPolls, mValueVars, mServerVars, mOutVars>>

\* Resolved only now, so that a refused call touches no token.
MethodCredentials ==
  /\ mStep = "credentials"
  /\ mGate' = NoValue
  /\ \/ mStep' = "request" /\ UNCHANGED <<mSaid, mEnd>>
     \/ End("auth", "nothing")
  /\ UNCHANGED <<mShape, mPageVars, mPolls, mValueVars, mServerVars, mOutVars>>

\* Whether the server carried the request out; a read changes nothing.
CarriedOut(done) == mApplied' = (mApplied \/ (done /\ mShape.writes))

\* The request fails: no answer, or one that is an error.
MethodFails(ending, done) ==
  /\ mStep = "request"
  /\ CarriedOut(done)
  /\ End(ending, "nothing")
  /\ UNCHANGED <<mShape, mGate, mPageVars, mPolls, mValueVars, mKnown, mOutVars>>

\* How screening can end the command.
Blocking == IF mShape.screen = "block" /\ mShape.output = "none" THEN {"blocked"} ELSE {}

\* What is not a JSON document is inlined as text (and screened, which may block
\* it), saved or streamed, or refused.  None of these failures says that the method
\* was carried out.
Deliver(kind) ==
  \/ /\ kind = "text" \/ mShape.output # "none"
     /\ End("ok", "nothing")
     /\ mLeaked' = (mLeaked \/ (mShape.screen # "off" /\ mShape.output = "stdout"))
  \/ /\ \E ending \in {"other", "network"} \cup Blocking : End(ending, "nothing")
     /\ UNCHANGED mLeaked

\* Mutant: a page that is no JSON ends the list.
MethodOtherAnswerEnds(kind) ==
  /\ mStep = "request"
  /\ CarriedOut(TRUE) /\ mKnown' = mShape.writes
  /\ Deliver(kind)
  /\ UNCHANGED <<mShape, mGate, mPageVars, mPolls, mValueVars, mPrinted, mTold>>

\* The answer is no JSON document: an empty one, text, something binary, or
\* JSON that does not parse.  An empty later page ends the list, with a warning.
MethodOtherAnswer(kind) ==
  /\ mStep = "request"
  /\ CarriedOut(TRUE) /\ mKnown' = mShape.writes
  /\ IF kind = "empty" /\ mPages = 0 THEN
       (End("ok", "nothing") \/ End("other", "nothing")) /\ UNCHANGED <<mLeaked, mTold>>
     ELSE IF kind = "empty" THEN
       End("ok", "nothing") /\ mTold' = TRUE /\ UNCHANGED mLeaked
     ELSE IF mPages > 0 \/ kind = "badJson" THEN
       End("other", "nothing") /\ UNCHANGED <<mLeaked, mTold>>
     ELSE
       Deliver(kind) /\ UNCHANGED mTold
  /\ UNCHANGED <<mShape, mGate, mPageVars, mPolls, mValueVars, mPrinted>>

\* A stored file saved or streamed as it is (alt=media with an output).
MethodMedia ==
  /\ mStep = "request" /\ mShape.media /\ mShape.output # "none"
  /\ CarriedOut(TRUE) /\ mKnown' = mShape.writes
  /\ Deliver("media")
  /\ UNCHANGED <<mShape, mGate, mPageVars, mPolls, mValueVars, mPrinted, mTold>>

\* A JSON document: an operation, or a page with the token of the next one.
MethodAnswer(value, next) ==
  /\ mStep = "request"
  /\ ~(mShape.media /\ mShape.output # "none")
  /\ value = "operation" => next = 0 /\ mPages = 0
  /\ CarriedOut(TRUE) /\ mKnown' = mShape.writes
  /\ mValue' = value /\ mScreened' = FALSE
  /\ mNext' = next
  /\ mPages' = mPages + 1
  /\ mStep' = IF value = "operation" /\ (mShape.wait \/ (mShape.output # "none" /\ mShape.pollable))
              THEN "wait" ELSE "screen"
  /\ UNCHANGED <<mShape, mGate, mToken, mSeen, mPolls, mOutVars, mSaid, mEnd>>

\* Mutant: the deadline is never reached.
MethodPollForever ==
  /\ mStep = "wait"
  /\ \/ mPolls' = (mPolls + 1) % (MaxPolls + 1) /\ UNCHANGED <<mStep, mValue>>
     \/ mValue' = "response" /\ mStep' = "screen" /\ UNCHANGED mPolls
  /\ UNCHANGED <<mShape, mGate, mPageVars, mScreened, mServerVars, mOutVars, mSaid, mEnd>>

\* Mutant: a failing poll is an error like any other.
MethodPollUnnamed ==
  /\ mStep = "wait"
  /\ End("network", "nothing")
  /\ UNCHANGED <<mShape, mGate, mPageVars, mPolls, mValueVars, mServerVars, mOutVars>>

\* The wait for the operation, up to its deadline: still running, done, or over
\* with an error that names the operation (the time is up, a poll fails, the
\* operation failed).
MethodPoll ==
  /\ mStep = "wait"
  /\ \/ /\ mPolls < MaxPolls
        /\ mPolls' = mPolls + 1
        /\ UNCHANGED <<mStep, mValue, mSaid, mEnd>>
     \/ /\ mValue' = "response"
        /\ mStep' = "screen"
        /\ UNCHANGED <<mPolls, mSaid, mEnd>>
     \/ /\ \E ending \in {"network", "retryable", "api", "other"} : End(ending, "operation")
        /\ UNCHANGED <<mPolls, mValue>>
  /\ UNCHANGED <<mShape, mGate, mPageVars, mScreened, mServerVars, mOutVars>>

\* The result names a file, which is fetched by another request and delivered.
MethodFetchResult ==
  /\ mStep = "screen" /\ mValue = "response"
  /\ \/ \E kind \in {"text", "binary"} : Deliver(kind)
     \/ (\E ending \in {"retryable", "api"} : End(ending, "nothing")) /\ UNCHANGED mLeaked
  /\ mValue' = "file"
  /\ UNCHANGED <<mShape, mGate, mPageVars, mPolls, mScreened, mServerVars, mPrinted, mTold>>

\* Mutant: the first page is screened for all of them.
MethodScreenFirst ==
  /\ mStep = "screen"
  /\ mStep' = "output"
  /\ mScreened' = (mPages = 1)
  /\ UNCHANGED <<mShape, mGate, mPageVars, mPolls, mValue, mServerVars, mOutVars, mSaid, mEnd>>

\* Model Armor, on what will be printed or saved; in block mode a match and a
\* failure to screen end the command.
MethodScreen ==
  /\ mStep = "screen"
  /\ \/ /\ mStep' = "output"
        /\ mScreened' = (mShape.screen # "off")
        /\ UNCHANGED <<mSaid, mEnd>>
     \/ /\ mShape.screen = "block"
        /\ End("blocked", Applied)
        /\ UNCHANGED mScreened
  /\ UNCHANGED <<mShape, mGate, mPageVars, mPolls, mValue, mServerVars, mOutVars>>

PrintResult ==
  /\ mPrinted' = Append(mPrinted, mToken)
  /\ mLeaked' = (mLeaked \/ (mShape.screen # "off" /\ ~mScreened))

\* A single result is saved or printed.
MethodOutput ==
  /\ mStep = "output" /\ ~mShape.pageAll
  /\ \/ /\ End("ok", "nothing")
        /\ IF mShape.output = "file" THEN UNCHANGED <<mPrinted, mLeaked>> ELSE PrintResult
     \/ /\ End("other", Applied)
        /\ UNCHANGED <<mPrinted, mLeaked>>
  /\ UNCHANGED <<mShape, mGate, mPageVars, mPolls, mValueVars, mServerVars, mTold>>

\* Mutant: only the token of the request before is remembered.
MethodPageLastToken ==
  /\ mStep = "output" /\ mShape.pageAll
  /\ PrintResult
  /\ IF mNext = 0 THEN End("ok", "nothing") /\ UNCHANGED <<mToken, mSeen, mTold>>
     ELSE IF mShape.limit # 0 /\ mPages >= mShape.limit THEN
       End("ok", "nothing") /\ mTold' = TRUE /\ UNCHANGED <<mToken, mSeen>>
     ELSE IF mNext = mToken THEN
       End("other", "nothing") /\ UNCHANGED <<mToken, mSeen, mTold>>
     ELSE
       mStep' = "request" /\ mToken' = mNext /\ UNCHANGED <<mSeen, mSaid, mEnd, mTold>>
  /\ UNCHANGED <<mShape, mGate, mPages, mNext, mPolls, mValueVars, mServerVars>>

\* A page of --page-all is printed, and the next one asked for unless the list
\* ends, the limit is reached (which is said), or the token is an old one.
MethodPage ==
  /\ mStep = "output" /\ mShape.pageAll
  /\ \/ /\ PrintResult
        /\ IF mNext = 0 THEN
             End("ok", "nothing") /\ UNCHANGED <<mToken, mSeen, mTold>>
           ELSE IF mShape.limit # 0 /\ mPages >= mShape.limit THEN
             End("ok", "nothing") /\ mTold' = TRUE /\ UNCHANGED <<mToken, mSeen>>
           ELSE IF mNext \in mSeen THEN
             End("other", "nothing") /\ UNCHANGED <<mToken, mSeen, mTold>>
           ELSE
             /\ mStep' = "request" /\ mToken' = mNext /\ mSeen' = mSeen \cup {mNext}
             /\ UNCHANGED <<mSaid, mEnd, mTold>>
     \/ /\ End("other", "nothing")
        /\ UNCHANGED <<mPrinted, mLeaked, mToken, mSeen, mTold>>
  /\ UNCHANGED <<mShape, mGate, mPages, mNext, mPolls, mValueVars, mServerVars>>

MethodBegin ==
  /\ mStep = "off"
  /\ \E s \in {s \in Shape : UsefulShape(s)}, class \in MethodClass, ask \in Ask, inv \in Invocation :
       MethodStart(s, class, ask, inv)

MethodStep ==
  \/ MethodGate \/ MethodCredentials
  \/ \E ending \in {"network", "retryable", "api", "other"}, done \in BOOLEAN : MethodFails(ending, done)
  \/ \E kind \in {"empty", "badJson", "text", "binary"} : MethodOtherAnswer(kind)
  \/ MethodMedia
  \/ \E value \in {"page", "operation"}, next \in Token \cup {0} : MethodAnswer(value, next)
  \/ MethodPoll \/ MethodFetchResult \/ MethodScreen \/ MethodOutput \/ MethodPage

MethodNext == MethodBegin \/ MethodStep

MethodSpec == MethodInit /\ [][MethodNext]_methodVars
MethodFair == WF_methodVars(MethodStep)

MethodTypeOK ==
  /\ mStep \in {"off", "gate", "credentials", "request", "wait", "screen", "output", "over"}
  /\ mToken \in Token \cup {0} /\ mSeen \subseteq Token /\ mNext \in Token \cup {0}
  /\ mPages \in Nat /\ mPolls \in 0..MaxPolls
  /\ mPrinted \in Seq(Token \cup {0})
  /\ mSaid \in {"nothing", "applied", "operation"}
  /\ mEnd \in Ending \cup {NoValue}

\* Nothing is sent before the gate has let it pass; and what the gate can refuse
\* for want of a terminal could have been confirmed with --yes.
MethodConfirmed ==
  /\ mStep = "credentials" =>
       \A impact \in mGate.impacts : Decide(impact, mGate.inv) = "proceed" \/ mGate.confirmed
  /\ mEnd = "unconfirmed" => mGate.flag

\* No page is printed twice, whatever tokens the server gives out, also when the
\* run resumes from a token.
PagesOnce == \A i, j \in 1..Len(mPrinted) : i # j => mPrinted[i] # mPrinted[j]

\* A list that ends well has reached its end: every token the server has given
\* out was followed, or the user was told that there is more.
ListComplete ==
  mEnd = "ok" /\ mPrinted # <<>> /\ mShape.pageAll =>
    mTold \/ (mNext = 0 /\ mPrinted[Len(mPrinted)] = mToken)

\* With a template set nothing reaches standard output unscreened.
OnlyScreened == ~mLeaked

\* Once the command holds the JSON result of a write, or the operation it has
\* started, an error says so; otherwise a second run repeats the write.  (A list
\* of pages is a read, whatever its HTTP method.)
WriteIsSaid ==
  mStep = "over" /\ mEnd # "ok" /\ mKnown /\ ~mShape.pageAll
    /\ mValue \in Result => mSaid # "nothing"

\* A method asks before it does harm; prints each page once, all of them or says that
\* it does not, and nothing that was not screened; and does not pass for a failure once
\* it has changed something.
MethodTold == MethodConfirmed /\ PagesOnce /\ ListComplete /\ OnlyScreened /\ WriteIsSaid

\* The command ends, even if the server repeats its tokens.
MethodEnds == mStep # "off" ~> mStep = "over"

===============================================================================

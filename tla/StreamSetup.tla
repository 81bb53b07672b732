------------------------------ MODULE StreamSetup -----------------------------
(***************************************************************************)
(* What events +subscribe and gmail +watch do before and after their       *)
(* stream: they create a topic, let Gmail publish to it (+watch), create a *)
(* subscription, and ask Google to publish (a Workspace Events             *)
(* subscription, or a Gmail watch: the feed).  A failure on the way rolls  *)
(* back what is known to exist.  After the stream, --cleanup deletes topic *)
(* and subscription; the feed is kept.                                     *)
(*                                                                         *)
(* A request may be carried out although its answer is an error: the       *)
(* answer is lost, or a second attempt finds the resource there already.   *)
(* The stream itself is SubscribeStream and GmailWatch.                    *)
(***************************************************************************)
EXTENDS Outcome, Sequences

FeedAnswer == {"started", "pending", "failed", "unread", "refused", "lost"}

ASSUME SetupAssumption == NoValue \notin FeedAnswer

VARIABLES
  sStep,      \* where the command is; "off" before it starts
  sSetup,     \* what it was asked for
  sExists,    \* the resources that exist at Google
  sCreated,   \* the resources the command knows it has created, newest first
  sDelete,    \* the resources it still has to delete
  sLeft,      \* those it could not delete, and has said so
  sStarted,   \* the answer to the request for the feed
  sError,     \* the error to be returned
  sEnd

setupVars == <<sStep, sSetup, sExists, sCreated, sDelete, sLeft, sStarted, sError, sEnd>>

Resource == {"topic", "subscription", "feed", "userTopic"}

\* topic: --topic was given (+watch only); existing: --subscription was given.
Setup == {s \in [command : {"subscribe", "watch"}, topic : BOOLEAN, existing : BOOLEAN, cleanup : BOOLEAN] :
            s.topic => s.command = "watch" /\ ~s.existing}

SetupInit ==
  /\ sStep = "off" /\ sSetup = NoValue
  /\ sExists = {"userTopic"}
  /\ sCreated = <<>> /\ sDelete = <<>>
  /\ sLeft = {}
  /\ sStarted = NoValue /\ sError = NoValue /\ sEnd = NoValue

SetupStart(s) ==
  /\ sStep = "off"
  /\ sSetup' = s
  /\ sStep' = IF s.existing THEN "stream" ELSE IF s.topic THEN "subscription" ELSE "topic"
  /\ UNCHANGED <<sExists, sCreated, sDelete, sLeft, sStarted, sError, sEnd>>

\* The profile of an existing subscription's mailbox cannot be read (+watch).
SetupNoProfile ==
  /\ sStep = "stream" /\ sSetup.existing /\ sSetup.command = "watch"
  /\ \E e \in {"network", "retryable", "api", "other"} : sError' = e /\ sEnd' = e
  /\ sStep' = "over"
  /\ UNCHANGED <<sSetup, sExists, sCreated, sDelete, sLeft, sStarted>>

\* Mutant: the topic is deleted before the subscription that is attached to it.
RollBackOldestFirst == [i \in DOMAIN sCreated |-> sCreated[Len(sCreated) + 1 - i]]

\* What a failed setup deletes: what it has created, the subscription before
\* the topic it is attached to (roll_back).
RollBack == sCreated

SetupFails(error) ==
  /\ sError' = error
  /\ sDelete' = RollBack
  /\ sStep' = "rollBack"

\* PUT of the topic or the subscription.
SetupCreate(resource, next) ==
  /\ sStep = resource
  /\ \/ /\ sExists' = sExists \cup {resource}
        /\ sCreated' = <<resource>> \o sCreated
        /\ sStep' = next
        /\ UNCHANGED <<sDelete, sError>>
     \/ /\ \E carriedOut \in BOOLEAN :
             sExists' = IF carriedOut THEN sExists \cup {resource} ELSE sExists
        /\ \E e \in {"network", "retryable", "api"} : SetupFails(e)
        /\ UNCHANGED sCreated
  /\ UNCHANGED <<sSetup, sLeft, sStarted, sEnd>>

\* setIamPolicy, for +watch's own topic.
SetupPolicy ==
  /\ sStep = "policy"
  /\ \/ sStep' = "subscription" /\ UNCHANGED <<sError, sDelete>>
     \/ \E e \in {"network", "retryable", "api"} : SetupFails(e)
  /\ UNCHANGED <<sSetup, sExists, sCreated, sLeft, sStarted, sEnd>>

\* Mutant: an operation that is still running is rolled back like a failed one.
SetupFeedImpatient(answer) ==
  /\ sStep = "feed"
  /\ sStarted' = answer
  /\ sExists' = IF answer \in {"started", "pending", "unread", "lost"} THEN sExists \cup {"feed"} ELSE sExists
  /\ IF answer = "started" THEN sStep' = "stream" /\ UNCHANGED <<sError, sDelete>> ELSE SetupFails("other")
  /\ UNCHANGED <<sSetup, sCreated, sLeft, sEnd>>

\* The request for the feed.  Refused or lost, or (a Workspace Events operation)
\* failed: roll back.  An operation that is still running may yet publish, so
\* everything is kept.  A watch whose answer has no history id is started, and
\* rolled back all the same.
SetupFeed(answer) ==
  /\ sStep = "feed"
  /\ answer = "pending" => sSetup.command = "subscribe"
  /\ answer = "unread" => sSetup.command = "watch"
  /\ sStarted' = answer
  /\ sExists' = IF answer \in {"started", "pending", "unread", "lost"} THEN sExists \cup {"feed"} ELSE sExists
  /\ IF answer = "started" THEN
       sStep' = "stream" /\ UNCHANGED <<sError, sDelete, sEnd>>
     ELSE IF answer = "pending" THEN
       sStep' = "over" /\ sError' = "other" /\ sEnd' = "other" /\ UNCHANGED sDelete
     ELSE
       (\E e \in {"network", "retryable", "api", "other"} : SetupFails(e)) /\ UNCHANGED sEnd
  /\ UNCHANGED <<sSetup, sCreated, sLeft>>

\* Mutant: --cleanup deletes the topic the session used.
CleanupAll == sCreated \o (IF sSetup.topic THEN <<"userTopic">> ELSE <<>>)

\* What --cleanup deletes.
Cleanup == sCreated

\* The stream ends: stopped (an interrupt during the setup stops it at once, as
\* the signals are caught from before the first request), or with an error.
SetupStreamEnds(error) ==
  /\ sStep = "stream"
  /\ sError' = error
  /\ IF sSetup.cleanup /\ ~sSetup.existing
     THEN sStep' = "cleanUp" /\ sDelete' = Cleanup /\ UNCHANGED sEnd
     ELSE sStep' = "over" /\ sEnd' = (IF error = NoValue THEN "ok" ELSE error) /\ UNCHANGED sDelete
  /\ UNCHANGED <<sSetup, sExists, sCreated, sLeft, sStarted>>

\* Mutant: the first deletion that fails is the last one tried.
SetupDeleteStops ==
  /\ sStep \in {"rollBack", "cleanUp"} /\ sDelete # <<>>
  /\ \/ sExists' = sExists \ {Head(sDelete)} /\ sDelete' = Tail(sDelete) /\ UNCHANGED sLeft
     \/ sLeft' = sLeft \cup {Head(sDelete)} /\ sDelete' = <<>> /\ UNCHANGED sExists
  /\ UNCHANGED <<sStep, sSetup, sCreated, sStarted, sError, sEnd>>

\* One deletion of cleanup_resources; one that fails is remembered, and the
\* others are tried.
SetupDelete ==
  /\ sStep \in {"rollBack", "cleanUp"} /\ sDelete # <<>>
  /\ sDelete' = Tail(sDelete)
  /\ \/ sExists' = sExists \ {Head(sDelete)} /\ UNCHANGED sLeft
     \/ /\ sLeft' = sLeft \cup {Head(sDelete)}
        /\ \E carriedOut \in BOOLEAN :
             sExists' = IF carriedOut THEN sExists \ {Head(sDelete)} ELSE sExists
  /\ UNCHANGED <<sStep, sSetup, sCreated, sStarted, sError, sEnd>>

\* The first error is the command's; that of the deletions only if there is no
\* other.
SetupDeleted ==
  /\ sStep \in {"rollBack", "cleanUp"} /\ sDelete = <<>>
  /\ sStep' = "over"
  /\ \/ sError # NoValue /\ sEnd' = sError
     \/ sError = NoValue /\ sLeft = {} /\ sEnd' = "ok"
     \/ sError = NoValue /\ sLeft # {} /\ sEnd' \in {"network", "retryable", "api"}
  /\ UNCHANGED <<sSetup, sExists, sCreated, sDelete, sLeft, sStarted, sError>>

SetupStepTaken ==
  \/ SetupNoProfile
  \/ SetupCreate("topic", IF sSetup # NoValue /\ sSetup.command = "watch" THEN "policy" ELSE "subscription")
  \/ SetupPolicy
  \/ SetupCreate("subscription", "feed")
  \/ \E answer \in FeedAnswer : SetupFeed(answer)
  \/ \E e \in {NoValue, "network", "retryable", "api", "other"} : SetupStreamEnds(e)
  \/ SetupDelete \/ SetupDeleted

SetupBegin == sStep = "off" /\ \E s \in Setup : SetupStart(s)

SetupNext == SetupBegin \/ SetupStepTaken

SetupSpec == SetupInit /\ [][SetupNext]_setupVars

SetupTypeOK ==
  /\ sStep \in {"off", "topic", "policy", "subscription", "feed", "stream", "rollBack", "cleanUp", "over"}
  /\ sSetup \in Setup \cup {NoValue}
  /\ sExists \subseteq Resource
  /\ sCreated \in Seq({"topic", "subscription"}) /\ sDelete \in Seq(Resource)
  /\ sLeft \subseteq Resource
  /\ sStarted \in FeedAnswer \cup {NoValue}
  /\ sError \in Ending \cup {NoValue} /\ sEnd \in Ending \cup {NoValue}

SetupKnows(r) == \E i \in DOMAIN sCreated : sCreated[i] = r

\* A setup that fails leaves nothing behind that the command knows of and has
\* not named as left over, unless the feed may yet come to need it; and neither
\* does --cleanup, which moreover succeeds only if all is gone.
NothingForgotten ==
  sStep = "over" =>
    /\ sStarted # "pending" /\ (sStarted # "started" \/ sSetup.cleanup) =>
         \A r \in {"topic", "subscription"} : SetupKnows(r) => r \notin sExists \/ r \in sLeft
    /\ sEnd = "ok" /\ sSetup.cleanup => sExists \cap {"topic", "subscription"} = {}

\* The topic a user names is the user's: it is never deleted.
UserTopicKept == "userTopic" \in sExists

\* A feed that Google has confirmed, or that may still come up, keeps its topic
\* and subscription while the command runs and after it, but for --cleanup.  It
\* says nothing of a feed whose answer was lost, nor of a watch whose answer has
\* no history id: both may exist, and the code deletes what they publish to.
FeedKeepsTopic ==
  sStarted \in {"started", "pending"} /\ ~sSetup.cleanup =>
    \A r \in {"topic", "subscription"} : SetupKnows(r) => r \in sExists

\* A subscription never outlives its topic because of the order of deletions.
SubscriptionFirst ==
  SetupKnows("topic") /\ SetupKnows("subscription") /\ "topic" \notin sExists =>
    "subscription" \notin sExists \/ "subscription" \in sLeft

\* Setting up and cleaning up, each request of which may fail or be carried out
\* without an answer: nothing the user must remove is left unnamed, a topic of the
\* user's is kept, and a feed that the command has been told of, or told to wait
\* for, is not left to publish to a topic that is gone.
SetupCorrect == NothingForgotten /\ UserTopicKept /\ FeedKeepsTopic /\ SubscriptionFirst

===============================================================================

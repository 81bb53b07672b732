--------------------------- MODULE SubscribeStream ---------------------------
(***************************************************************************)
(* `gwsr events +subscribe --subscription S` (crates/gws-rust/src/helpers/ *)
(* events/subscribe.rs): pull a batch of CloudEvents, screen each with     *)
(* Model Armor, print it or write it to its own file, acknowledge those    *)
(* that were handled.  The process may be stopped by a signal at any       *)
(* point, killed, and started again on the same subscription (the          *)
(* `reconnect` command it prints).                                         *)
(*                                                                         *)
(* The order of a batch is the order in which the server returned it;      *)
(* every order is possible, so the next event is any of the batch.         *)
(***************************************************************************)
EXTENDS PullLoop

CONSTANT MaxSessions   \* bound: sessions started on the subscription

ASSUME SubscribeAssumption == MaxSessions \in Nat \ {0}

VARIABLES
  noAck,     \* --no-ack, chosen when the session starts
  event,     \* the event that passed the screen and is being output
  handled,   \* SubscribeStep::handle's `handled`
  failure,   \* its `failure`: "none", "transient" or "fatal"
  printed,   \* history: events output, 2 for more than once
  withheld,  \* history: events Model Armor blocked at least once
  unsettled, \* history: handled events whose acknowledgement did not arrive
  late,      \* history: events output since the signal
  sessions   \* sessions started so far

batchVars == <<noAck, event, handled, failure>>
historyVars == <<printed, withheld, unsettled, late>>
vars == <<pullVars, batchVars, historyVars, sessions>>

Init ==
  /\ PullInit
  /\ noAck \in BOOLEAN
  /\ event = {} /\ handled = {} /\ failure = "none"
  /\ printed = [m \in Msg |-> 0]
  /\ withheld = {}
  /\ unsettled = {}
  /\ late = 0
  /\ sessions = 1

-----------------------------------------------------------------------------
(* The environment publishes a message.                                    *)
Publish(m) ==
  /\ queue[m] = "unborn"
  /\ queue' = [queue EXCEPT ![m] = "ready"]
  /\ UNCHANGED <<loopVars, batch, recent, batchVars, historyVars, sessions>>

Redeliver(m) == Expire(m) /\ UNCHANGED <<batchVars, historyVars, sessions>>

(* `for m in received`: the next event is screened, unless a signal came   *)
(* first.  Screening fails closed: neither output nor acknowledgement.     *)
ScreenDespiteSignal(m) ==
  /\ pc = "handle" /\ failure = "none" /\ event = {}
  /\ m \in batch
  /\ batch' = batch \ {m}
  /\ \/ event' = {m} /\ UNCHANGED <<handled, failure, withheld>>
     \/ /\ handled' = handled \cup {m}
        /\ withheld' = withheld \cup {m}
        /\ UNCHANGED <<event, failure>>
     \/ failure' \in {"transient", "fatal"} /\ UNCHANGED <<event, handled, withheld>>
  /\ UNCHANGED <<loopVars, queue, recent, noAck, printed, unsettled, late, sessions>>

ScreenFailsOpen(m) ==
  /\ pc = "handle" /\ failure = "none" /\ event = {} /\ ~shutdown
  /\ m \in batch
  /\ batch' = batch \ {m}
  /\ handled' = handled \cup {m}
  /\ \/ event' = {m} /\ UNCHANGED <<failure, withheld>>
     \/ withheld' = withheld \cup {m} /\ UNCHANGED <<event, failure>>
     \/ failure' \in {"transient", "fatal"} /\ UNCHANGED <<event, withheld>>
  /\ UNCHANGED <<loopVars, queue, recent, noAck, printed, unsettled, late, sessions>>

ScreenForgetsBlocked(m) ==
  /\ pc = "handle" /\ failure = "none" /\ event = {} /\ ~shutdown
  /\ m \in batch
  /\ batch' = batch \ {m}
  /\ \/ event' = {m} /\ UNCHANGED <<failure, withheld>>
     \/ withheld' = withheld \cup {m} /\ UNCHANGED <<event, failure>>
     \/ failure' \in {"transient", "fatal"} /\ UNCHANGED <<event, withheld>>
  /\ UNCHANGED <<loopVars, queue, recent, noAck, handled, printed, unsettled, late, sessions>>

Screen(m) ==
  /\ pc = "handle" /\ failure = "none" /\ event = {} /\ ~shutdown
  /\ m \in batch
  /\ batch' = batch \ {m}
  /\ \/ event' = {m} /\ UNCHANGED <<handled, failure, withheld>>
     \/ /\ handled' = handled \cup {m}
        /\ withheld' = withheld \cup {m}
        /\ UNCHANGED <<event, failure>>
     \/ failure' \in {"transient", "fatal"} /\ UNCHANGED <<event, handled, withheld>>
  /\ UNCHANGED <<loopVars, queue, recent, noAck, printed, unsettled, late, sessions>>

(* SubscribeStep::output, then `handled.push`; a write that fails is fatal. *)
Output ==
  \E m \in event :
    /\ event' = {}
    /\ \/ /\ printed' = [printed EXCEPT ![m] = IF @ = 0 THEN 1 ELSE 2]
          /\ late' = IF shutdown /\ late < 2 THEN late + 1 ELSE late
          /\ handled' = handled \cup {m}
          /\ UNCHANGED failure
       \/ failure' = "fatal" /\ UNCHANGED <<printed, late, handled>>
    /\ UNCHANGED <<pullVars, noAck, withheld, unsettled, sessions>>

(* The batch is over: handled to the end, failed or stopped by a signal.   *)
BatchOver ==
  /\ pc = "handle" /\ event = {}
  /\ batch = {} \/ failure # "none" \/ shutdown

EndBatch(acked, result) ==
  /\ queue' = [m \in Msg |-> IF m \in acked THEN "acked" ELSE queue[m]]
  /\ EndStep(IF failure # "none" THEN failure ELSE result)
  /\ batch' = {} /\ event' = {} /\ handled' = {} /\ failure' = "none"
  /\ UNCHANGED <<noAck, printed, withheld, late, sessions>>

SkipAck ==
  /\ BatchOver /\ noAck
  /\ unsettled' = unsettled \cup handled
  /\ EndBatch({}, "ok")

(* The acknowledgement of what was handled, also when the batch failed; no *)
(* call when nothing was.  It is not cancelled by the signal.  A message   *)
(* whose deadline has passed may be delivered again all the same.          *)
AckIdsUnlessFailed == IF failure = "none" THEN handled ELSE {}
AckIds == handled

Ack ==
  /\ BatchOver /\ ~noAck
  /\ \E acked \in SUBSET AckIds :
       /\ {m \in AckIds : queue[m] = "leased"} \subseteq acked
       /\ unsettled' = unsettled \cup (AckIds \ acked)
       /\ EndBatch(acked, "ok")

(* A failed acknowledgement; it may have reached the server.               *)
AckFails ==
  /\ BatchOver /\ ~noAck /\ AckIds # {}
  /\ unsettled' = unsettled \cup AckIds
  /\ \E acked \in SUBSET AckIds, result \in {"transient", "fatal"} : EndBatch(acked, result)

(* The process dies: SIGKILL, power, a panic.                              *)
Killed ==
  /\ pc # "done"
  /\ pc' = "done" /\ outcome' = "killed"
  /\ unsettled' = unsettled \cup handled
  /\ batch' = {} /\ event' = {} /\ handled' = {} /\ failure' = "none"
  /\ UNCHANGED <<once, consecutive, shutdown, queue, recent, noAck, printed, withheld, late, sessions>>

(* A new session on the same subscription.                                 *)
Reconnect ==
  /\ pc = "done" /\ sessions < MaxSessions
  /\ pc' = "pull" /\ outcome' = "none" /\ consecutive' = 0 /\ shutdown' = FALSE
  /\ once' \in BOOLEAN /\ noAck' \in BOOLEAN
  /\ recent' = <<>> /\ late' = 0
  /\ batch' = {} /\ event' = {} /\ handled' = {} /\ failure' = "none"
  /\ sessions' = sessions + 1
  /\ UNCHANGED <<queue, printed, withheld, unsettled>>

StreamPull == (Pull \/ PullFails \/ PullCancelled) /\ UNCHANGED <<batchVars, historyVars, sessions>>
StreamWait == (Wake \/ StopWaiting) /\ UNCHANGED <<batchVars, historyVars, sessions>>
StreamSignal == Signal /\ UNCHANGED <<batchVars, historyVars, sessions>>

SessionStep ==
  \/ StreamPull \/ StreamWait
  \/ \E m \in Msg : Screen(m)
  \/ Output \/ SkipAck \/ Ack \/ AckFails

Next ==
  \/ SessionStep
  \/ StreamSignal \/ Killed \/ Reconnect
  \/ \E m \in Msg : Publish(m) \/ Redeliver(m)

Spec == Init /\ [][Next]_vars

(* The session's task always goes on: a call either answers or runs into   *)
(* --timeout, and a sleep ends.  Pub/Sub delivers what waits again and     *)
(* again (PullOf) and lets a deadline pass.                                *)
PullOf(m) == Pull /\ m \in batch' /\ UNCHANGED <<batchVars, historyVars, sessions>>
FairSpec ==
  /\ Spec
  /\ WF_vars(SessionStep)
  /\ \A m \in Msg : SF_vars(PullOf(m)) /\ WF_vars(Redeliver(m))

-----------------------------------------------------------------------------
TypeOK ==
  /\ PullType
  /\ pc \in {"pull", "handle", "wait", "done"}
  /\ noAck \in BOOLEAN
  /\ event \subseteq Msg /\ handled \subseteq Msg
  /\ failure \in {"none", "transient", "fatal"}
  /\ printed \in [Msg -> 0..2]
  /\ withheld \subseteq Msg /\ unsettled \subseteq Msg
  /\ late \in 0..2
  /\ sessions \in 1..MaxSessions

Announced == {m \in Msg : queue[m] # "unborn"}
Shown == {m \in Msg : printed[m] > 0 \/ m \in withheld}
Settled == {m \in Msg : queue[m] = "acked"}

(* subscribe.rs:340-343: what was written is acknowledged even when a later *)
(* event fails or the stream is stopped, so an event is output twice only   *)
(* if an acknowledgement of it was lost, came after its deadline, was not   *)
(* wanted (--no-ack) or the process was killed before sending it.           *)
NoNeedlessDuplicate == \A m \in Msg : printed[m] = 2 => m \in unsettled

(* A signal stops the stream before the next event: at most the event that  *)
(* had already passed the screen is still output.                           *)
PromptStop == late <= 1

(* Every step the stream ever takes is one of at-least-once delivery, over  *)
(* any number of failures, signals, kills and reconnects.                   *)
Delivery == INSTANCE EventDelivery WITH
  Item <- Msg,
  announced <- Announced,
  dealt <- Shown,
  settled <- Settled
AtLeastOnce == Delivery!Spec

(* A signal ends the session wherever it finds it, and a --once session     *)
(* ends by itself.                                                          *)
EndsWhenTold == shutdown \/ once ~> pc = "done"

(* An outage in which no step succeeds any more ends the session.           *)
StepSucceeds == Len(recent') > 0 /\ recent'[Len(recent')] = "ok"
OutageEnds == []<><<StepSucceeds>>_vars \/ []<>(pc = "done")

(* While the session lives and faults (a failed step, a deadline that       *)
(* passes while its batch is handled) are not endless, every waiting event  *)
(* is settled in the end: none is starved by the others of its batches.     *)
Fault ==
  \/ failure' # "none"
  \/ Len(recent') > 0 /\ recent'[Len(recent')] # "ok"
  \/ pc = "handle" /\ \E m \in Msg : Redeliver(m)
EveryEventSettles ==
  []<><<Fault>>_vars \/ \A m \in Msg : queue[m] = "ready" ~> queue[m] = "acked" \/ pc = "done" \/ noAck
=============================================================================

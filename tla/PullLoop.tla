------------------------------ MODULE PullLoop ------------------------------
(***************************************************************************)
(* What `events +subscribe` and `gmail +watch` share:                      *)
(* crates/gws-rust/src/helpers/events/stream.rs run_stream, its failure    *)
(* budget and the latched shutdown signal of helpers/mod.rs, around a      *)
(* Pub/Sub subscription.  SubscribeStream and GmailWatch extend it with    *)
(* their StreamStep::handle.                                               *)
(*                                                                         *)
(* The subscription is external: a message is published, leased to the     *)
(* client that pulls it, leased again once its acknowledgement deadline    *)
(* has passed, and gone once it is acknowledged.                           *)
(***************************************************************************)
EXTENDS Naturals, Sequences, FiniteSets

CONSTANTS
  Msg,           \* Pub/Sub messages
  MaxMessages,   \* --max-messages
  MaxFailures    \* --max-failures

ASSUME PullLoopAssumption ==
  /\ MaxMessages \in Nat \ {0}
  /\ MaxFailures \in Nat

VARIABLES
  once,         \* StreamOptions.once, chosen when the session starts
  pc,           \* where the session's task is
  consecutive,  \* FailureBudget.consecutive
  shutdown,     \* SHUTDOWN.latched # 0
  outcome,      \* what run_stream returned: "none" yet, "ok", "error", "killed"
  queue,        \* the subscription: the status of every message
  batch,        \* the received messages not handled yet
  recent        \* history: how the last steps ended: MaxFailures + 1, or from a success on

loopVars == <<once, pc, consecutive, shutdown, outcome>>
pullVars == <<loopVars, queue, batch, recent>>

Status == {"unborn", "ready", "leased", "acked"}
StepResult == {"ok", "transient", "fatal"}

(* What one pull may return.                                               *)
Pullable == {got \in SUBSET {m \in Msg : queue[m] = "ready"} :
               Cardinality(got) <= MaxMessages}

PullInit ==
  /\ once \in BOOLEAN
  /\ pc = "pull"
  /\ consecutive = 0
  /\ shutdown = FALSE
  /\ outcome = "none"
  /\ queue = [m \in Msg |-> "unborn"]
  /\ batch = {}
  /\ recent = <<>>

-----------------------------------------------------------------------------
(* The end of one loop iteration: the step returned `result`.              *)
Remember(result) ==
  recent' = IF result = "ok" THEN <<"ok">>
            ELSE Append(IF Len(recent) > MaxFailures THEN Tail(recent) ELSE recent, result)

SucceededWithoutReset ==
  /\ Remember("ok")
  /\ UNCHANGED consecutive
  /\ IF shutdown \/ once
     THEN pc' = "done" /\ outcome' = "ok"
     ELSE pc' = "wait" /\ UNCHANGED outcome

Succeeded ==
  /\ Remember("ok")
  /\ consecutive' = 0
  /\ IF shutdown \/ once
     THEN pc' = "done" /\ outcome' = "ok"
     ELSE pc' = "wait" /\ UNCHANGED outcome

FailedForGood ==
  /\ Remember("fatal")
  /\ pc' = "done" /\ outcome' = "error"
  /\ UNCHANGED consecutive

FailedButKeptGoing ==
  /\ Remember("transient")
  /\ UNCHANGED <<once, consecutive, outcome>>
  /\ pc' = "wait"

FailedOnce ==
  /\ Remember("transient")
  /\ consecutive' = consecutive + 1
  /\ IF consecutive + 1 > MaxFailures
     THEN pc' = "done" /\ outcome' = "error"
     ELSE pc' = "wait" /\ UNCHANGED outcome

EndStep(result) ==
  /\ \/ result = "ok" /\ Succeeded
     \/ result = "fatal" /\ FailedForGood
     \/ result = "transient" /\ FailedOnce
  /\ UNCHANGED <<once, shutdown>>

(* The server leases some waiting messages to the pull.                    *)
Lease(got) == queue' = [m \in Msg |-> IF m \in got THEN "leased" ELSE queue[m]]

(* A pull that answers before any signal.                                  *)
Pull ==
  /\ pc = "pull" /\ ~shutdown
  /\ \E got \in Pullable :
       /\ Lease(got)
       /\ batch' = got
  /\ pc' = "handle"
  /\ UNCHANGED <<once, consecutive, shutdown, outcome, recent>>

(* A pull that fails; the server may have leased messages to it all the    *)
(* same.  One that times out counts as a pull of nothing.                  *)
PullFails ==
  /\ pc = "pull" /\ ~shutdown
  /\ \E got \in Pullable : Lease(got)
  /\ \E result \in StepResult : EndStep(result)
  /\ UNCHANGED batch

(* The signal wins over a pull, in flight or about to be sent.             *)
PullCancelled ==
  /\ pc = "pull" /\ shutdown
  /\ \E got \in Pullable : Lease(got)
  /\ pc' = "done" /\ outcome' = "ok"
  /\ UNCHANGED <<once, consecutive, shutdown, batch, recent>>

(* The poll interval or the backoff is over.                               *)
WakeConsumesSignal ==
  /\ pc = "wait"
  /\ pc' = "pull" /\ shutdown' = FALSE
  /\ UNCHANGED <<once, consecutive, outcome, queue, batch, recent>>

Wake ==
  /\ pc = "wait"
  /\ pc' = "pull"
  /\ UNCHANGED <<once, consecutive, shutdown, outcome, queue, batch, recent>>

(* The signal ends the sleep.                                              *)
StopWaiting ==
  /\ pc = "wait" /\ shutdown
  /\ pc' = "done" /\ outcome' = "ok"
  /\ UNCHANGED <<once, consecutive, shutdown, queue, batch, recent>>

(* SIGINT or SIGTERM; the first one is latched.                            *)
Signal ==
  /\ pc # "done" /\ ~shutdown
  /\ shutdown' = TRUE
  /\ UNCHANGED <<once, pc, consecutive, outcome, queue, batch, recent>>

(* A message whose deadline has passed is delivered again.                 *)
Expire(m) ==
  /\ queue[m] = "leased"
  /\ queue' = [queue EXCEPT ![m] = "ready"]
  /\ UNCHANGED <<loopVars, batch, recent>>

PullType ==
  /\ once \in BOOLEAN
  /\ consecutive \in 0..MaxFailures + 1
  /\ shutdown \in BOOLEAN
  /\ outcome \in {"none", "ok", "error", "killed"}
  /\ (outcome = "none") = (pc # "done")
  /\ queue \in [Msg -> Status]
  /\ batch \subseteq Msg
  /\ recent \in Seq(StepResult)

-----------------------------------------------------------------------------
(* The stream gives up on failures exactly when the user asked it to: it   *)
(* ends with an error after a fatal failure or after MaxFailures + 1       *)
(* transient ones in a row, none of which it survives.                     *)
GivesUpOnTime ==
  LET n == Len(recent) IN
  (outcome = "error") =
    \/ n > 0 /\ recent[n] = "fatal"
    \/ n > MaxFailures /\ \A k \in n - MaxFailures..n : recent[k] = "transient"
=============================================================================

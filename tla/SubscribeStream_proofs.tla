----------------------- MODULE SubscribeStream_proofs -----------------------
(***************************************************************************)
(* For any messages, batch size, failure budget and number of sessions,    *)
(* `events +subscribe` delivers at least once (it implements               *)
(* EventDelivery), outputs an event twice only when its acknowledgement    *)
(* was lost, stops promptly on a signal and gives up on time.              *)
(***************************************************************************)
EXTENDS SubscribeStream, PullLoop_proofs

(* The batch in work: every event of it is waiting, being output or        *)
(* handled, one of the three, and none of it is acknowledged yet.          *)
BatchInv ==
  /\ pc # "handle" => batch = {} /\ event = {} /\ handled = {}
  /\ batch \cap event = {} /\ batch \cap handled = {} /\ event \cap handled = {}
  /\ \A m \in batch \cup event \cup handled : queue[m] \in {"ready", "leased"}

(* What is handled or acknowledged was shown, what was shown is known to   *)
(* the subscription, and an event that was output is acknowledged, about   *)
(* to be, or its acknowledgement went missing.                             *)
DealtInv ==
  /\ \A m \in handled : printed[m] > 0 \/ m \in withheld
  /\ \A m \in Msg : queue[m] = "acked" => printed[m] > 0 \/ m \in withheld
  /\ \A m \in Msg : printed[m] > 0 \/ m \in withheld => queue[m] # "unborn"
  /\ \A m \in Msg : printed[m] > 0 => queue[m] = "acked" \/ m \in unsettled \/ m \in handled
  /\ NoNeedlessDuplicate

StopInv ==
  /\ ~shutdown => late = 0
  /\ late > 0 => event = {}
  /\ late <= 1

Inv == TypeOK /\ BudgetInv /\ BatchInv /\ DealtInv /\ StopInv

LEMMA InitInv == Init => Inv
<1> SUFFICES ASSUME Init PROVE Inv
  OBVIOUS
<1> USE PullLoopAssumption, SubscribeAssumption
<1>1. TypeOK
  <2>1. recent \in Seq(StepResult)
    BY DEF Init, PullInit
  <2>2. consecutive \in 0..MaxFailures + 1 /\ queue \in [Msg -> Status]
    BY DEF Init, PullInit, Status
  <2>3. PullType
    BY <2>1, <2>2, Zenon DEF Init, PullInit, PullType
  <2>4. sessions \in 1..MaxSessions /\ printed \in [Msg -> 0..2] /\ late \in 0..2
    BY DEF Init
  <2> QED BY <2>3, <2>4 DEF Init, PullInit, TypeOK
<1>2. BudgetInv
  BY DEF Init, PullInit, BudgetInv, Counted
<1>3. BatchInv /\ DealtInv /\ StopInv
  BY DEF Init, PullInit, BatchInv, DealtInv, StopInv, NoNeedlessDuplicate
<1> QED BY <1>1, <1>2, <1>3 DEF Inv

LEMMA PullKeepsInv == Inv /\ StreamPull => Inv'
<1> SUFFICES ASSUME Inv, StreamPull PROVE Inv'
  OBVIOUS
<1> USE DEF Inv
<1>1. UNCHANGED <<batchVars, historyVars, sessions>>
  BY DEF StreamPull
<1>2. /\ PullType' /\ BudgetInv'
      /\ pc = "pull" /\ shutdown' = shutdown
      /\ \/ pc' = "handle" /\ \A m \in batch' : queue'[m] = "leased"
         \/ pc' \in {"wait", "done"} /\ batch' = batch
      /\ \A m \in Msg : queue'[m] = queue[m] \/ (queue[m] = "ready" /\ queue'[m] = "leased")
  BY PullFacts DEF StreamPull, TypeOK
<1>3. TypeOK'
  BY <1>1, <1>2 DEF TypeOK, batchVars, historyVars
<1>4. BatchInv'
  BY <1>1, <1>2 DEF BatchInv, batchVars
<1>5. DealtInv'
  BY <1>1, <1>2 DEF DealtInv, NoNeedlessDuplicate, TypeOK, batchVars, historyVars
<1>6. StopInv'
  BY <1>1, <1>2 DEF StopInv, batchVars, historyVars
<1> QED BY <1>2, <1>3, <1>4, <1>5, <1>6

LEMMA WaitKeepsInv == Inv /\ (StreamWait \/ StreamSignal) => Inv'
<1> SUFFICES ASSUME Inv, StreamWait \/ StreamSignal PROVE Inv'
  OBVIOUS
<1> USE DEF Inv
<1>1. UNCHANGED <<batchVars, historyVars, sessions>>
  BY DEF StreamWait, StreamSignal
<1>2. /\ PullType' /\ BudgetInv'
      /\ shutdown => shutdown'
      /\ UNCHANGED <<queue, batch>>
      /\ pc' = pc \/ (pc = "wait" /\ pc' \in {"pull", "done"})
  BY WaitFacts DEF StreamWait, StreamSignal, TypeOK
<1>3. TypeOK'
  BY <1>1, <1>2 DEF TypeOK, batchVars, historyVars
<1>4. BatchInv'
  BY <1>1, <1>2 DEF BatchInv, batchVars
<1>5. DealtInv'
  BY <1>1, <1>2 DEF DealtInv, NoNeedlessDuplicate, batchVars, historyVars
<1>6. StopInv'
  BY <1>1, <1>2 DEF StopInv, batchVars, historyVars
<1> QED BY <1>2, <1>3, <1>4, <1>5, <1>6

LEMMA ScreenKeepsInv == Inv /\ (\E m \in Msg : Screen(m)) => Inv'
<1> SUFFICES ASSUME Inv, NEW m \in Msg, Screen(m) PROVE Inv'
  OBVIOUS
<1> USE DEF Inv
<1>0. /\ pc = "handle" /\ ~shutdown /\ m \in batch /\ event = {}
      /\ batch' = batch \ {m}
      /\ UNCHANGED <<loopVars, queue, recent, noAck, printed, unsettled, late, sessions>>
      /\ \/ event' = {m} /\ handled' = handled /\ withheld' = withheld
         \/ event' = {} /\ handled' = handled \cup {m} /\ withheld' = withheld \cup {m}
         \/ event' = {} /\ handled' = handled /\ withheld' = withheld
      /\ failure' \in {"none", "transient", "fatal"}
  BY DEF Screen
<1>1. TypeOK'
  BY <1>0 DEF TypeOK, PullType, loopVars
<1>2. BudgetInv'
  BY <1>0, BudgetUnchanged DEF loopVars
<1>3. BatchInv'
  BY <1>0 DEF BatchInv, loopVars
<1>4. DealtInv'
  <2>1. queue[m] # "unborn"
    BY <1>0 DEF BatchInv
  <2> QED BY <1>0, <2>1 DEF DealtInv, NoNeedlessDuplicate
<1>5. StopInv'
  BY <1>0 DEF StopInv, loopVars
<1> QED BY <1>1, <1>2, <1>3, <1>4, <1>5

LEMMA OutputKeepsInv == Inv /\ Output => Inv'
<1> SUFFICES ASSUME Inv, Output PROVE Inv'
  OBVIOUS
<1> USE DEF Inv
<1>0. PICK m \in event :
        /\ event' = {}
        /\ \/ /\ printed' = [printed EXCEPT ![m] = IF @ = 0 THEN 1 ELSE 2]
              /\ late' = IF shutdown /\ late < 2 THEN late + 1 ELSE late
              /\ handled' = handled \cup {m}
              /\ UNCHANGED failure
           \/ failure' = "fatal" /\ UNCHANGED <<printed, late, handled>>
        /\ UNCHANGED <<pullVars, noAck, withheld, unsettled, sessions>>
  BY DEF Output
<1>1. m \in Msg /\ pc = "handle" /\ queue[m] \in {"ready", "leased"} /\ m \notin handled /\ late = 0
  BY <1>0 DEF TypeOK, BatchInv, StopInv
<1>2. TypeOK'
  BY <1>0, <1>1 DEF TypeOK, PullType, pullVars, loopVars
<1>3. BudgetInv'
  BY <1>0, BudgetUnchanged DEF pullVars, loopVars
<1>4. BatchInv'
  BY <1>0, <1>1 DEF BatchInv, pullVars, loopVars
<1>5. DealtInv'
  <2>1. printed[m] > 0 => m \in unsettled
    BY <1>1 DEF DealtInv
  <2>2. CASE UNCHANGED <<printed, handled>>
    BY <1>0, <2>2 DEF DealtInv, NoNeedlessDuplicate, pullVars
  <2>3. CASE /\ printed' = [printed EXCEPT ![m] = IF @ = 0 THEN 1 ELSE 2]
             /\ handled' = handled \cup {m}
    <3>1. /\ printed'[m] \in {1, 2} /\ (printed'[m] = 2 => printed[m] > 0)
          /\ \A k \in Msg \ {m} : printed'[k] = printed[k]
      BY <2>3, <1>1 DEF TypeOK
    <3> QED BY <1>0, <1>1, <2>1, <2>3, <3>1 DEF DealtInv, NoNeedlessDuplicate, TypeOK, pullVars
  <2> QED BY <1>0, <2>2, <2>3
<1>6. StopInv'
  BY <1>0, <1>1 DEF StopInv, pullVars, loopVars
<1> QED BY <1>2, <1>3, <1>4, <1>5, <1>6

(* The end of a batch: `acked` of the handled events are acknowledged, and *)
(* the rest are counted as unsettled.                                      *)
LEMMA EndBatchKeepsInv ==
  ASSUME Inv, BatchOver, NEW acked \in SUBSET handled, NEW result \in StepResult,
         EndBatch(acked, result), handled \ acked \subseteq unsettled',
         unsettled \subseteq unsettled', unsettled' \subseteq Msg
  PROVE  Inv'
<1> USE DEF Inv
<1>0. /\ pc = "handle"
      /\ batch' = {} /\ event' = {} /\ handled' = {} /\ failure' = "none"
      /\ UNCHANGED <<noAck, printed, withheld, late, sessions>>
  BY DEF BatchOver, EndBatch
<1>1. /\ queue' \in [Msg -> Status]
      /\ \A m \in acked : queue'[m] = "acked"
      /\ \A m \in Msg \ acked : queue'[m] = queue[m]
  BY DEF EndBatch, TypeOK, PullType, Status
<1>2. PICK r \in StepResult : EndStep(r)
  BY DEF EndBatch, TypeOK, StepResult
<1>3. /\ BudgetInv'
      /\ once' \in BOOLEAN /\ shutdown' = shutdown
      /\ consecutive' \in 0..MaxFailures + 1 /\ recent' \in Seq(StepResult)
      /\ outcome' \in {"none", "ok", "error", "killed"}
      /\ (outcome' = "none") = (pc' # "done")
      /\ pc' \in {"wait", "done"}
  BY <1>0, <1>2, EndStepType DEF TypeOK
<1>4. TypeOK'
  BY <1>0, <1>1, <1>3 DEF TypeOK, PullType
<1>5. BatchInv'
  BY <1>0, <1>3 DEF BatchInv
<1>6. DealtInv'
  BY <1>0, <1>1 DEF DealtInv, NoNeedlessDuplicate, TypeOK
<1>7. StopInv'
  BY <1>0, <1>3 DEF StopInv
<1> QED BY <1>3, <1>4, <1>5, <1>6, <1>7

LEMMA AckKeepsInv == Inv /\ (SkipAck \/ Ack \/ AckFails) => Inv'
<1> SUFFICES ASSUME Inv, SkipAck \/ Ack \/ AckFails PROVE Inv'
  OBVIOUS
<1>0. handled \subseteq Msg /\ unsettled \subseteq Msg
  BY DEF Inv, TypeOK
<1>1. CASE SkipAck
  BY <1>0, <1>1, EndBatchKeepsInv DEF SkipAck, StepResult
<1>2. CASE Ack
  <2>1. PICK acked \in SUBSET handled :
          EndBatch(acked, "ok") /\ unsettled' = unsettled \cup (handled \ acked)
    BY <1>2 DEF Ack, AckIds
  <2> QED BY <1>0, <1>2, <2>1, EndBatchKeepsInv DEF Ack, StepResult
<1>3. CASE AckFails
  <2>1. PICK acked \in SUBSET handled, result \in {"transient", "fatal"} : EndBatch(acked, result)
    BY <1>3 DEF AckFails, AckIds
  <2> QED BY <1>0, <1>3, <2>1, EndBatchKeepsInv DEF AckFails, AckIds, StepResult
<1> QED BY <1>1, <1>2, <1>3

LEMMA SessionKeepsInv == Inv /\ (Killed \/ Reconnect) => Inv'
<1> SUFFICES ASSUME Inv, Killed \/ Reconnect PROVE Inv'
  OBVIOUS
<1> USE DEF Inv
<1>1. CASE Killed
  <2>1. TypeOK'
    BY <1>1 DEF Killed, TypeOK, PullType
  <2>2. BudgetInv'
    BY <1>1, BudgetUnchanged DEF Killed, TypeOK, PullType
  <2>3. BatchInv' /\ StopInv'
    BY <1>1 DEF Killed, BatchInv, StopInv
  <2>4. DealtInv'
    BY <1>1 DEF Killed, DealtInv, NoNeedlessDuplicate
  <2> QED BY <2>1, <2>2, <2>3, <2>4
<1>2. CASE Reconnect
  <2>1. PullType' /\ BudgetInv'
    BY <1>2, FreshType DEF Reconnect, TypeOK, PullType
  <2>2. TypeOK'
    <3>1. sessions' \in 1..MaxSessions
      BY <1>2, SubscribeAssumption DEF Reconnect, TypeOK
    <3> QED BY <1>2, <2>1, <3>1 DEF Reconnect, TypeOK
  <2>3. BatchInv' /\ StopInv'
    BY <1>2 DEF Reconnect, BatchInv, StopInv
  <2>4. DealtInv'
    <3>1. handled = {}
      BY <1>2 DEF Reconnect, BatchInv
    <3> QED BY <1>2, <3>1 DEF Reconnect, DealtInv, NoNeedlessDuplicate
  <2> QED BY <2>1, <2>2, <2>3, <2>4
<1> QED BY <1>1, <1>2

LEMMA QueueKeepsInv == Inv /\ (\E m \in Msg : Publish(m) \/ Redeliver(m)) => Inv'
<1> SUFFICES ASSUME Inv, NEW m \in Msg, Publish(m) \/ Redeliver(m) PROVE Inv'
  OBVIOUS
<1> USE DEF Inv
<1>0. /\ queue[m] \in {"unborn", "leased"} /\ queue' = [queue EXCEPT ![m] = "ready"]
      /\ UNCHANGED <<loopVars, batch, recent, batchVars, historyVars, sessions>>
  BY DEF Publish, Redeliver, Expire
<1>1. TypeOK'
  BY <1>0 DEF TypeOK, PullType, Status, loopVars, batchVars, historyVars
<1>2. BudgetInv'
  BY <1>0, BudgetUnchanged DEF loopVars
<1>3. BatchInv'
  BY <1>0 DEF BatchInv, TypeOK, PullType, loopVars, batchVars
<1>4. DealtInv'
  BY <1>0 DEF DealtInv, NoNeedlessDuplicate, TypeOK, PullType, batchVars, historyVars
<1>5. StopInv'
  BY <1>0 DEF StopInv, loopVars, batchVars, historyVars
<1> QED BY <1>1, <1>2, <1>3, <1>4, <1>5

LEMMA StutterKeepsInv == Inv /\ UNCHANGED vars => Inv'
BY DEF vars, pullVars, loopVars, batchVars, historyVars, Inv, TypeOK, PullType, BudgetInv,
       Counted, Exhausted, BatchInv, DealtInv, StopInv, NoNeedlessDuplicate

LEMMA NextKeepsInv == Inv /\ [Next]_vars => Inv'
BY PullKeepsInv, WaitKeepsInv, ScreenKeepsInv, OutputKeepsInv, AckKeepsInv, SessionKeepsInv,
   QueueKeepsInv, StutterKeepsInv
   DEF Next, SessionStep

LEMMA SpecInv == Spec => []Inv
BY InitInv, NextKeepsInv, PTL DEF Spec

-----------------------------------------------------------------------------
(* Every state of `events +subscribe` is well typed.                       *)
THEOREM TypeCorrect == Spec => []TypeOK
<1>1. Inv => TypeOK
  BY DEF Inv
<1> QED BY <1>1, SpecInv, PTL

(* An event is output twice only when an acknowledgement of it was lost,   *)
(* late, unwanted or never sent because the process was killed             *)
(* (subscribe.rs, SubscribeStep::handle).                                  *)
THEOREM DuplicatesHaveAReason == Spec => []NoNeedlessDuplicate
<1>1. Inv => NoNeedlessDuplicate
  BY DEF Inv, DealtInv
<1> QED BY <1>1, SpecInv, PTL

(* After a signal at most the event that had passed the screen is output   *)
(* (subscribe.rs, the check of the signal before each event).              *)
THEOREM SignalStopsPromptly == Spec => []PromptStop
<1>1. Inv => PromptStop
  BY DEF Inv, StopInv, PromptStop
<1> QED BY <1>1, SpecInv, PTL

(* The stream ends with an error exactly when the failure budget says so   *)
(* (stream.rs, FailureBudget).                                             *)
THEOREM BudgetIsKept == Spec => []GivesUpOnTime
<1>1. Inv => GivesUpOnTime
  BY BudgetGivesUpOnTime DEF Inv
<1> QED BY <1>1, SpecInv, PTL

-----------------------------------------------------------------------------
(* A step maps to a step of EventDelivery or to a stutter.                 *)
LEMMA NextDelivers ==
  ASSUME Inv, [Next]_vars
  PROVE  [Delivery!Next]_<<Announced, Shown, Settled>>
<1> USE DEF Delivery!Next, Delivery!Announce, Delivery!Deal, Delivery!Settle
<1> DEFINE SameQueue == Announced' = Announced /\ Settled' = Settled
<1>1. CASE StreamPull
  <2>1. PICK got \in Pullable : Lease(got)
    BY <1>1 DEF StreamPull, Pull, PullFails, PullCancelled
  <2>2. SameQueue
    BY <2>1, LeaseFacts DEF Inv, TypeOK, Announced, Settled
  <2>3. Shown' = Shown
    BY <1>1 DEF StreamPull, Shown, historyVars
  <2> QED BY <2>2, <2>3
<1>2. CASE StreamWait \/ StreamSignal \/ SkipAck \/ Killed \/ Reconnect \/ UNCHANGED vars
  <2>1. UNCHANGED <<printed, withheld>>
    BY <1>2 DEF StreamWait, StreamSignal, SkipAck, EndBatch, Killed, Reconnect, vars, historyVars
  <2>2. \A m \in Msg : queue'[m] = queue[m]
    BY <1>2 DEF StreamWait, StreamSignal, Wake, StopWaiting, Signal, SkipAck, EndBatch, Killed,
                Reconnect, vars, pullVars, Inv, TypeOK, PullType
  <2> QED BY <2>1, <2>2 DEF Announced, Shown, Settled
<1>3. ASSUME NEW m \in Msg, Screen(m)
      PROVE  Delivery!Deal \/ UNCHANGED <<Announced, Shown, Settled>>
  <2>1. m \in batch /\ UNCHANGED <<queue, printed>>
        /\ (withheld' = withheld \/ withheld' = withheld \cup {m})
    BY <1>3 DEF Screen
  <2>2. m \in Announced
    BY <2>1 DEF Inv, BatchInv, Announced
  <2>3. SameQueue /\ (Shown' = Shown \/ Shown' = Shown \cup {m})
    BY <2>1 DEF Announced, Settled, Shown
  <2> QED BY <2>2, <2>3
<1>4. CASE Output
  <2>1. PICK m \in event :
          /\ UNCHANGED <<queue, withheld>>
          /\ \/ printed' = [printed EXCEPT ![m] = IF @ = 0 THEN 1 ELSE 2]
             \/ UNCHANGED printed
    BY <1>4 DEF Output, pullVars
  <2>2. m \in Announced /\ m \in Msg
    BY DEF Inv, BatchInv, TypeOK, Announced
  <2>3. SameQueue /\ (Shown' = Shown \/ Shown' = Shown \cup {m})
    BY <2>1, <2>2 DEF Announced, Settled, Shown, Inv, TypeOK
  <2> QED BY <2>2, <2>3
<1>5. CASE Ack \/ AckFails
  <2>1. PICK acked \in SUBSET handled, result \in StepResult : EndBatch(acked, result)
    BY <1>5 DEF Ack, AckFails, AckIds, StepResult
  <2>2. acked \subseteq Shown /\ acked \subseteq Announced
    BY <2>1 DEF Inv, DealtInv, BatchInv, TypeOK, Shown, Announced
  <2>3. Announced' = Announced /\ Settled' = Settled \cup acked /\ Shown' = Shown
    BY <2>1, <2>2 DEF EndBatch, Announced, Settled, Shown, Inv, TypeOK, PullType
  <2> QED BY <2>2, <2>3
<1>6. ASSUME NEW m \in Msg, Publish(m) \/ Redeliver(m)
      PROVE  Delivery!Announce \/ UNCHANGED <<Announced, Shown, Settled>>
  <2>1. /\ queue[m] \in {"unborn", "leased"} /\ queue' = [queue EXCEPT ![m] = "ready"]
        /\ UNCHANGED <<printed, withheld>>
    BY <1>6 DEF Publish, Redeliver, Expire, historyVars
  <2>2. Shown' = Shown /\ Settled' = Settled
    BY <2>1 DEF Shown, Settled, Inv, TypeOK, PullType
  <2>3. \/ queue[m] = "unborn" /\ m \notin Announced /\ Announced' = Announced \cup {m}
        \/ Announced' = Announced
    BY <2>1 DEF Announced, Inv, TypeOK, PullType
  <2> QED BY <2>2, <2>3
<1> QED BY <1>1, <1>2, <1>3, <1>4, <1>5, <1>6 DEF Next, SessionStep

(* `events +subscribe` implements at-least-once delivery: whatever fails,  *)
(* expires or is killed, an event is acknowledged only after it was output *)
(* or withheld.                                                            *)
THEOREM DeliversAtLeastOnce == Spec => AtLeastOnce
<1>1. Init => Delivery!Init
  BY DEF Init, PullInit, Delivery!Init, Announced, Shown, Settled
<1>2. Inv /\ [Next]_vars => [Delivery!Next]_<<Announced, Shown, Settled>>
  BY NextDelivers
<1>3. Delivery!deliveryVars = <<Announced, Shown, Settled>>
  BY DEF Delivery!deliveryVars
<1> QED
  BY <1>1, <1>2, <1>3, SpecInv, PTL DEF Spec, AtLeastOnce, Delivery!Spec, Delivery!deliveryVars
=============================================================================

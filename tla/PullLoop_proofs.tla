--------------------------- MODULE PullLoop_proofs ---------------------------
(***************************************************************************)
(* Lemmas about run_stream's failure budget, for both streams: what one    *)
(* end of a step does to the count and to the history of results.          *)
(***************************************************************************)
EXTENDS PullLoop, TLAPS

(* While the stream has not failed, `consecutive` counts the transient     *)
(* failures at the end of the history, and it is within the budget.        *)
Counted ==
  /\ consecutive \in 0..MaxFailures
  /\ consecutive <= Len(recent)
  /\ Len(recent) > 0 => recent[Len(recent)] # "fatal"
  /\ \A k \in (Len(recent) - consecutive) + 1..Len(recent) : recent[k] = "transient"
  /\ consecutive < Len(recent) => recent[Len(recent) - consecutive] # "transient"

(* It has failed for a reason.                                             *)
Exhausted ==
  /\ Len(recent) > 0
  /\ \/ recent[Len(recent)] = "fatal"
     \/ /\ Len(recent) = MaxFailures + 1
        /\ \A k \in 1..MaxFailures + 1 : recent[k] = "transient"

BudgetInv ==
  /\ recent \in Seq(StepResult)
  /\ Len(recent) <= MaxFailures + 1
  /\ consecutive \in 0..MaxFailures + 1
  /\ IF outcome = "error" THEN Exhausted ELSE Counted

(* One more result: the history keeps the last MaxFailures + 1, and        *)
(* nothing from before a success.                                          *)
LEMMA RememberFacts ==
  ASSUME recent \in Seq(StepResult), Len(recent) <= MaxFailures + 1,
         NEW result \in StepResult, Remember(result)
  PROVE  /\ recent' \in Seq(StepResult)
         /\ Len(recent') <= MaxFailures + 1
         /\ Len(recent') > 0
         /\ recent'[Len(recent')] = result
         /\ \/ result = "ok"
            \/ /\ Len(recent) <= MaxFailures
               /\ Len(recent') = Len(recent) + 1
               /\ \A k \in 1..Len(recent) : recent'[k] = recent[k]
            \/ /\ Len(recent) = MaxFailures + 1
               /\ Len(recent') = Len(recent)
               /\ \A k \in 1..MaxFailures : recent'[k] = recent[k + 1]
<1>1. CASE result # "ok" /\ Len(recent) > MaxFailures
  <2>1. /\ Tail(recent) \in Seq(StepResult)
        /\ Len(Tail(recent)) = Len(recent) - 1
        /\ \A k \in 1..Len(recent) - 1 : Tail(recent)[k] = recent[k + 1]
    BY <1>1, PullLoopAssumption
  <2>2. recent' = Append(Tail(recent), result)
    BY <1>1 DEF Remember
  <2>3. Len(recent) = MaxFailures + 1
    BY <1>1, PullLoopAssumption
  <2> QED BY <2>1, <2>2, <2>3, PullLoopAssumption
<1>2. CASE result # "ok" /\ Len(recent) <= MaxFailures
  <2>1. recent' = Append(recent, result)
    BY <1>2, PullLoopAssumption DEF Remember
  <2> QED BY <1>2, <2>1, PullLoopAssumption
<1>3. CASE result = "ok"
  <2>1. recent' = <<"ok">>
    BY <1>3 DEF Remember
  <2> QED BY <1>3, <2>1, PullLoopAssumption
<1> QED BY <1>1, <1>2, <1>3, PullLoopAssumption

(* Every end of a step keeps the count right.                              *)
LEMMA EndStepKeepsBudget ==
  ASSUME BudgetInv, outcome = "none", NEW result \in StepResult, EndStep(result)
  PROVE  BudgetInv'
<1> USE PullLoopAssumption
<1>0. /\ recent \in Seq(StepResult) /\ Len(recent) <= MaxFailures + 1
      /\ Len(recent) \in Nat /\ Counted
  BY DEF BudgetInv
<1>1. CASE result = "ok"
  <2>1. Succeeded
    BY <1>1 DEF EndStep
  <2>2. /\ recent' \in Seq(StepResult) /\ Len(recent') <= MaxFailures + 1
        /\ Len(recent') \in Nat /\ Len(recent') > 0 /\ recent'[Len(recent')] = "ok"
    BY <1>0, <2>1, RememberFacts DEF Succeeded, StepResult
  <2>3. consecutive' = 0 /\ outcome' # "error"
    BY <2>1 DEF Succeeded
  <2> QED BY <2>2, <2>3 DEF BudgetInv, Counted
<1>2. CASE result = "fatal"
  <2>1. FailedForGood
    BY <1>2 DEF EndStep
  <2>2. /\ recent' \in Seq(StepResult) /\ Len(recent') <= MaxFailures + 1
        /\ Len(recent') > 0 /\ recent'[Len(recent')] = "fatal"
    BY <1>0, <2>1, RememberFacts DEF FailedForGood, StepResult
  <2> QED BY <1>0, <2>1, <2>2 DEF FailedForGood, BudgetInv, Counted, Exhausted
<1>3. CASE result = "transient"
  <2>1. FailedOnce
    BY <1>3 DEF EndStep
  <2>2. /\ recent' \in Seq(StepResult) /\ Len(recent') <= MaxFailures + 1
        /\ Len(recent') \in Nat /\ Len(recent') > 0 /\ recent'[Len(recent')] = "transient"
        /\ \/ /\ Len(recent) <= MaxFailures
              /\ Len(recent') = Len(recent) + 1
              /\ \A k \in 1..Len(recent) : recent'[k] = recent[k]
           \/ /\ Len(recent) = MaxFailures + 1
              /\ Len(recent') = Len(recent)
              /\ \A k \in 1..MaxFailures : recent'[k] = recent[k + 1]
    BY <1>0, <2>1, RememberFacts DEF FailedOnce, StepResult
  <2>3. consecutive' = consecutive + 1 /\ consecutive \in 0..MaxFailures
    BY <1>0, <2>1 DEF FailedOnce, Counted
  <2>4. consecutive' <= Len(recent')
    BY <1>0, <2>2, <2>3 DEF Counted
  <2>5. \A k \in (Len(recent') - consecutive') + 1..Len(recent') : recent'[k] = "transient"
    <3> SUFFICES ASSUME NEW k \in (Len(recent') - consecutive') + 1..Len(recent'),
                        k # Len(recent')
                 PROVE  recent'[k] = "transient"
      BY <2>2
    <3>1. CASE Len(recent') = Len(recent) + 1
      BY <3>1, <1>0, <2>2, <2>3, <2>4 DEF Counted
    <3>2. CASE Len(recent') = Len(recent)
      <4>1. k \in 1..MaxFailures /\ k + 1 \in (Len(recent) - consecutive) + 1..Len(recent)
        BY <3>2, <1>0, <2>2, <2>3, <2>4
      <4> QED BY <4>1, <3>2, <1>0, <2>2 DEF Counted
    <3> QED BY <3>1, <3>2, <2>2
  <2>6. consecutive' < Len(recent') => recent'[Len(recent') - consecutive'] # "transient"
    <3> SUFFICES ASSUME consecutive' < Len(recent')
                 PROVE  recent'[Len(recent') - consecutive'] # "transient"
      OBVIOUS
    <3>1. CASE Len(recent') = Len(recent) + 1
      <4>1. Len(recent') - consecutive' = Len(recent) - consecutive
            /\ Len(recent) - consecutive \in 1..Len(recent)
        BY <3>1, <1>0, <2>2, <2>3
      <4> QED BY <4>1, <3>1, <1>0, <2>2 DEF Counted
    <3>2. CASE Len(recent') = Len(recent)
      <4>1. /\ (Len(recent') - consecutive') + 1 = Len(recent) - consecutive
            /\ Len(recent') - consecutive' \in 1..MaxFailures
            /\ consecutive < Len(recent)
        BY <3>2, <1>0, <2>2, <2>3
      <4> QED BY <4>1, <3>2, <1>0, <2>2 DEF Counted
    <3> QED BY <3>1, <3>2, <2>2
  <2>7. CASE consecutive + 1 > MaxFailures
    <3>1. /\ outcome' = "error" /\ consecutive' = MaxFailures + 1
          /\ Len(recent') = MaxFailures + 1
      BY <2>7, <2>1, <2>2, <2>3, <2>4 DEF FailedOnce
    <3> QED BY <3>1, <2>2, <2>5 DEF BudgetInv, Exhausted
  <2>8. CASE consecutive + 1 <= MaxFailures
    <3>1. outcome' = "none"
      BY <2>8, <2>1, <2>3 DEF FailedOnce
    <3> QED BY <3>1, <2>2, <2>3, <2>4, <2>5, <2>6, <2>8 DEF BudgetInv, Counted
  <2> QED BY <2>7, <2>8, <2>3
<1> QED BY <1>1, <1>2, <1>3 DEF StepResult

(* A step that ends nothing leaves the count and the history alone.        *)
LEMMA BudgetUnchanged ==
  ASSUME BudgetInv, consecutive' = consecutive, recent' = recent,
         outcome' = outcome \/ (outcome = "none" /\ outcome' \in {"ok", "killed"})
  PROVE  BudgetInv'
BY DEF BudgetInv, Counted, Exhausted

(* A new session starts with an empty history.                             *)
LEMMA BudgetReset ==
  ASSUME consecutive' = 0, recent' = <<>>, outcome' = "none"
  PROVE  BudgetInv'
BY PullLoopAssumption DEF BudgetInv, Counted

(* The count decides the outcome as the user asked.                        *)
LEMMA BudgetGivesUpOnTime ==
  ASSUME BudgetInv
  PROVE  GivesUpOnTime
<1> USE PullLoopAssumption
<1>0. Len(recent) \in Nat /\ Len(recent) <= MaxFailures + 1
  BY DEF BudgetInv
<1>1. CASE outcome = "error"
  <2>1. Exhausted
    BY <1>1 DEF BudgetInv
  <2>2. \/ Len(recent) > 0 /\ recent[Len(recent)] = "fatal"
        \/ /\ Len(recent) > MaxFailures
           /\ \A k \in Len(recent) - MaxFailures..Len(recent) : recent[k] = "transient"
    <3>1. CASE Len(recent) = MaxFailures + 1 /\ \A k \in 1..MaxFailures + 1 : recent[k] = "transient"
      <4>1. Len(recent) > MaxFailures /\ Len(recent) - MaxFailures = 1
        BY <3>1
      <4>2. \A k \in Len(recent) - MaxFailures..Len(recent) : recent[k] = "transient"
        BY <3>1, <4>1
      <4> QED BY <4>1, <4>2
    <3> QED BY <2>1, <3>1 DEF Exhausted
  <2> QED BY <2>2, <1>1 DEF GivesUpOnTime
<1>2. CASE outcome # "error"
  <2>1. Counted
    BY <1>2 DEF BudgetInv
  <2>2. ~(Len(recent) > MaxFailures
            /\ \A k \in Len(recent) - MaxFailures..Len(recent) : recent[k] = "transient")
    BY <2>1, <1>0 DEF Counted
  <2> QED BY <2>1, <2>2, <1>0, <1>2 DEF Counted, GivesUpOnTime
<1> QED BY <1>1, <1>2

-----------------------------------------------------------------------------
(* What the steps both streams share leave of the loop.                    *)
LEMMA EndStepType ==
  ASSUME PullType, BudgetInv, pc # "done", NEW result \in StepResult, EndStep(result)
  PROVE  /\ BudgetInv'
         /\ once' \in BOOLEAN /\ shutdown' \in BOOLEAN /\ shutdown' = shutdown
         /\ consecutive' \in 0..MaxFailures + 1 /\ recent' \in Seq(StepResult)
         /\ outcome' \in {"none", "ok", "error", "killed"}
         /\ (outcome' = "none") = (pc' # "done")
         /\ pc' \in {"wait", "done"}
<1>1. outcome = "none"
  BY DEF PullType
<1>2. BudgetInv'
  BY <1>1, EndStepKeepsBudget
<1>3. recent' \in Seq(StepResult) /\ consecutive' \in 0..MaxFailures + 1
  BY <1>2 DEF BudgetInv
<1> QED
  BY <1>1, <1>2, <1>3 DEF EndStep, Succeeded, FailedForGood, FailedOnce, PullType, StepResult

LEMMA LeaseFacts ==
  ASSUME PullType, NEW got \in Pullable, Lease(got)
  PROVE  /\ queue' \in [Msg -> Status]
         /\ got \subseteq Msg
         /\ \A m \in got : queue'[m] = "leased"
         /\ \A m \in Msg : queue'[m] = queue[m] \/ (queue[m] = "ready" /\ queue'[m] = "leased")
BY DEF PullType, Pullable, Lease, Status

(* A pull fills the batch with leased messages, or ends the iteration.     *)
LEMMA PullFacts ==
  ASSUME PullType, BudgetInv, Pull \/ PullFails \/ PullCancelled
  PROVE  /\ PullType' /\ BudgetInv'
         /\ pc = "pull" /\ shutdown' = shutdown
         /\ \/ pc' = "handle" /\ \A m \in batch' : queue'[m] = "leased"
            \/ pc' \in {"wait", "done"} /\ batch' = batch
         /\ \A m \in Msg : queue'[m] = queue[m] \/ (queue[m] = "ready" /\ queue'[m] = "leased")
<1>1. CASE Pull
  <2>1. PICK got \in Pullable : Lease(got) /\ batch' = got
    BY <1>1 DEF Pull
  <2>2. /\ pc = "pull" /\ pc' = "handle"
        /\ UNCHANGED <<once, consecutive, shutdown, outcome, recent>>
    BY <1>1 DEF Pull
  <2>3. BudgetInv'
    BY <2>2, BudgetUnchanged
  <2> QED BY <2>1, <2>2, <2>3, LeaseFacts DEF PullType
<1>2. CASE PullFails
  <2>1. PICK got \in Pullable : Lease(got)
    BY <1>2 DEF PullFails
  <2>2. PICK result \in StepResult : EndStep(result)
    BY <1>2 DEF PullFails
  <2>3. pc = "pull" /\ batch' = batch
    BY <1>2 DEF PullFails
  <2> QED BY <2>1, <2>2, <2>3, LeaseFacts, EndStepType DEF PullType
<1>3. CASE PullCancelled
  <2>1. PICK got \in Pullable : Lease(got)
    BY <1>3 DEF PullCancelled
  <2>2. /\ pc = "pull" /\ pc' = "done" /\ outcome' = "ok" /\ outcome = "none" /\ batch' = batch
        /\ UNCHANGED <<once, consecutive, shutdown, recent>>
    BY <1>3 DEF PullCancelled, PullType
  <2>3. BudgetInv'
    BY <2>2, BudgetUnchanged
  <2> QED BY <2>1, <2>2, <2>3, LeaseFacts DEF PullType
<1> QED BY <1>1, <1>2, <1>3

LEMMA WaitFacts ==
  ASSUME PullType, BudgetInv, Wake \/ StopWaiting \/ Signal
  PROVE  /\ PullType' /\ BudgetInv'
         /\ shutdown => shutdown'
         /\ UNCHANGED <<queue, batch>>
         /\ pc' = pc \/ (pc = "wait" /\ pc' \in {"pull", "done"})
<1>1. /\ UNCHANGED <<once, consecutive, queue, batch, recent>>
      /\ shutdown' \in BOOLEAN /\ (shutdown => shutdown')
      /\ pc' = pc \/ (pc = "wait" /\ pc' \in {"pull", "done"})
      /\ outcome' = outcome \/ (outcome = "none" /\ outcome' = "ok")
      /\ (outcome' = "none") = (pc' # "done")
  BY DEF Wake, StopWaiting, Signal, PullType
<1>2. BudgetInv'
  BY <1>1, BudgetUnchanged
<1> QED BY <1>1, <1>2 DEF PullType

LEMMA ExpireFacts ==
  ASSUME PullType, NEW m \in Msg, Expire(m)
  PROVE  /\ queue' \in [Msg -> Status]
         /\ queue[m] = "leased" /\ queue'[m] = "ready"
         /\ \A k \in Msg \ {m} : queue'[k] = queue[k]
BY DEF PullType, Expire, Status

(* The start of a session.                                                 *)
LEMMA FreshType ==
  ASSUME once' \in BOOLEAN, pc' = "pull", consecutive' = 0, shutdown' = FALSE, outcome' = "none",
         queue' \in [Msg -> Status], batch' = {}, recent' = <<>>
  PROVE  PullType' /\ BudgetInv'
<1>1. recent' \in Seq(StepResult)
  OBVIOUS
<1>2. consecutive' \in 0..MaxFailures + 1
  BY PullLoopAssumption
<1>3. BudgetInv'
  BY BudgetReset
<1> QED BY <1>1, <1>2, <1>3, Zenon DEF PullType
=============================================================================

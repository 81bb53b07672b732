------------------------- MODULE GmailWatch_proofs -------------------------
(***************************************************************************)
(* For any mails, labels, memory, batch size, failure budget and number of *)
(* sessions, `gmail +watch` delivers the mails of a session at least once  *)
(* (it implements EventDelivery) and prints one again only after its       *)
(* memory was filled by others.                                            *)
(***************************************************************************)
EXTENDS GmailWatch, PullLoop_proofs, FiniteSetTheorems, WellFoundedInduction

(* A nonempty set of naturals has a least element, and if it is bounded a  *)
(* greatest.                                                               *)
LEMMA LeastNat ==
  ASSUME NEW U, U \subseteq Nat, U # {}
  PROVE  \E u \in U : \A v \in U : u <= v
<1>1. IsWellFoundedOn(OpToRel(<, Nat), Nat)
  BY NatLessThanWellFounded
<1>2. PICK u \in U : \A v \in U : ~(<<v, u>> \in OpToRel(<, Nat))
  BY <1>1, WFMin
<1>3. \A v \in U : ~(v < u)
  BY <1>2 DEF OpToRel
<1> QED BY <1>3

LEMMA MaxFacts ==
  ASSUME NEW S, S \subseteq Nat, S # {}, NEW b \in Nat, \A s \in S : s <= b
  PROVE  Max(S) \in S /\ \A s \in S : s <= Max(S)
<1> DEFINE U == {u \in Nat : \A s \in S : s <= u}
<1>1. U \subseteq Nat /\ U # {}
  OBVIOUS
<1>2. PICK u \in U : \A v \in U : u <= v
  BY <1>1, LeastNat
<1>3. u \in S
  <2> SUFFICES ASSUME u \notin S PROVE FALSE
    OBVIOUS
  <2>1. \A s \in S : s <= u - 1 /\ u - 1 \in Nat
    OBVIOUS
  <2>2. u - 1 \in U
    BY <2>1
  <2> QED BY <1>2, <2>2
<1>4. \E x \in S : \A y \in S : x >= y
  BY <1>3
<1> HIDE DEF U
<1>5. Max(S) \in S /\ \A y \in S : Max(S) >= y
  BY <1>4 DEF Max
<1> QED BY <1>5

-----------------------------------------------------------------------------
(* A notification exists only once its change does, and the batch in work  *)
(* holds notifications that were published.                                *)
QueueInv ==
  /\ \A n \in Change : queue[n] # "unborn" => n <= top
  /\ \A n \in batch : queue[n] # "unborn"
  /\ pc \in {"pull", "wait", "done"} => batch = {}
  /\ base <= top

(* Every watched mail up to the session's history ID was dealt with or was *)
(* there when the session started.  While a batch is being emitted, those  *)
(* it announces beyond that are listed or dealt with already; when it is   *)
(* acknowledged, it announces nothing beyond.                              *)
HistoryInv ==
  /\ \A m \in Watched : m <= last => m \in dealt \/ m <= base
  /\ \A m \in ids : m <= top
  /\ pc = "emit" => \E n \in batch \ Bad : last < n
  /\ pc = "emit" => \A n \in batch \ Bad, m \in Watched :
                       last < m /\ m <= n => m \in ids \/ m \in dealt
  /\ pc = "ack" => \A n \in batch \ Bad : n <= last

(* Every mail is settled only after it was dealt with.                     *)
SettledInv == Settled \subseteq DealtWith

WatchInv == TypeOK /\ BudgetInv /\ QueueInv /\ HistoryInv /\ SettledInv

(* The notifications of the batch lie between 0 and the mailbox's latest.  *)
LEMMA MaxHistoryIdFacts ==
  ASSUME TypeOK, QueueInv
  PROVE  /\ MaxHistoryId \in {0} \cup (batch \ Bad)
         /\ MaxHistoryId \in Nat
         /\ \A n \in batch \ Bad : n \in Change /\ n \in Nat /\ n <= MaxHistoryId
<1>1. \A n \in batch \ Bad : n \in Change /\ n \in Nat /\ n <= top
  BY WatchAssumption DEF TypeOK, PullType, QueueInv, Change
<1>2. top \in Nat
  BY DEF TypeOK
<1>3. /\ Max({0} \cup (batch \ Bad)) \in {0} \cup (batch \ Bad)
      /\ \A n \in {0} \cup (batch \ Bad) : n <= Max({0} \cup (batch \ Bad))
  BY <1>1, <1>2, MaxFacts
<1> QED BY <1>1, <1>3 DEF MaxHistoryId

LEMMA InitWatchInv == Init => WatchInv
<1> SUFFICES ASSUME Init PROVE WatchInv
  OBVIOUS
<1> USE PullLoopAssumption, WatchAssumption
<1>1. PullType
  <2>1. recent \in Seq(StepResult)
    BY DEF Init, PullInit
  <2>2. consecutive \in 0..MaxFailures + 1 /\ queue \in [Msg -> Status]
    BY DEF Init, PullInit, Status
  <2> QED BY <2>1, <2>2, Zenon DEF Init, PullInit, PullType
<1>2. TypeOK
  <2>1. emitted \in Seq(Mail) /\ Len(emitted) <= Memory
    BY DEF Init
  <2>2. /\ printed \in [Mail -> 0..2] /\ since \in [Mail -> SUBSET Mail]
        /\ sessions \in 1..MaxSessions /\ top \in Nat /\ base \in Nat /\ last \in Nat
    BY DEF Init
  <2> QED BY <1>1, <2>1, <2>2 DEF Init, PullInit, TypeOK
<1>3. BudgetInv
  BY DEF Init, PullInit, BudgetInv, Counted
<1>4. QueueInv /\ HistoryInv /\ SettledInv
  BY DEF Init, PullInit, QueueInv, HistoryInv, SettledInv, Settled, Change
<1> QED BY <1>2, <1>3, <1>4 DEF WatchInv

(* Steps of the loop, of the subscription and of the mailbox.              *)
LEMMA LoopKeepsInv == WatchInv /\ (WatchPull \/ WatchWait \/ WatchSignal) => WatchInv'
<1> SUFFICES ASSUME WatchInv, WatchPull \/ WatchWait \/ WatchSignal PROVE WatchInv'
  OBVIOUS
<1> USE DEF WatchInv
<1>1. UNCHANGED watchVars
  BY DEF WatchPull, WatchWait, WatchSignal
<1>2. /\ PullType' /\ BudgetInv'
      /\ \/ pc' \in {"pull", "wait", "done"} /\ batch' = {}
         \/ pc' = "handle" /\ \A m \in batch' : queue'[m] # "unborn"
         \/ pc' = pc /\ batch' = batch
      /\ \A m \in Msg : queue'[m] = queue[m] \/ (queue[m] = "ready" /\ queue'[m] = "leased")
  <2>1. CASE WatchPull
    BY <2>1, PullFacts DEF WatchPull, TypeOK, QueueInv
  <2>2. CASE WatchWait \/ WatchSignal
    BY <2>2, WaitFacts DEF WatchWait, WatchSignal, TypeOK, QueueInv
  <2> QED BY <2>1, <2>2
<1>3. TypeOK'
  BY <1>1, <1>2 DEF TypeOK, watchVars
<1>4. QueueInv'
  BY <1>1, <1>2 DEF QueueInv, TypeOK, PullType, watchVars, Change
<1>5. HistoryInv'
  BY <1>1, <1>2 DEF HistoryInv, watchVars
<1>6. SettledInv'
  BY <1>1, <1>2 DEF SettledInv, Settled, DealtWith, watchVars, Change
<1> QED BY <1>2, <1>3, <1>4, <1>5, <1>6

LEMMA OutsideKeepsInv ==
  WatchInv /\ ((\E n \in Change : Arrive(n)) \/ \E m \in Msg : Garbage(m) \/ Redeliver(m)) => WatchInv'
<1> SUFFICES ASSUME WatchInv, (\E n \in Change : Arrive(n)) \/ \E m \in Msg : Garbage(m) \/ Redeliver(m)
             PROVE  WatchInv'
  OBVIOUS
<1> USE DEF WatchInv
<1>1. PICK m \in Msg :
        /\ queue' = [queue EXCEPT ![m] = "ready"]
        /\ UNCHANGED <<loopVars, batch, recent, base, last, ids, emitted, printed, since, dealt, sessions>>
        /\ \/ top' = m /\ m \in Change /\ m > top
           \/ top' = top /\ m \in Bad
           \/ top' = top /\ queue[m] = "leased"
  BY DEF Arrive, Garbage, Redeliver, Expire, watchVars, Change
<1>2. TypeOK'
  BY <1>1, WatchAssumption DEF TypeOK, PullType, Status, loopVars, Change
<1>3. BudgetInv'
  BY <1>1, BudgetUnchanged DEF loopVars
<1>4. QueueInv'
  BY <1>1, WatchAssumption DEF QueueInv, TypeOK, PullType, loopVars, Change
<1>5. HistoryInv'
  BY <1>1, WatchAssumption DEF HistoryInv, TypeOK, loopVars, Change
<1>6. SettledInv'
  BY <1>1 DEF SettledInv, Settled, DealtWith, TypeOK, PullType, Change
<1> QED BY <1>2, <1>3, <1>4, <1>5, <1>6

(* A batch given up acknowledges nothing and forgets the list.             *)
LEMMA GiveUpKeepsInv ==
  ASSUME WatchInv, pc # "done", NEW result \in StepResult, GiveUpBatch(result),
         UNCHANGED <<top, base, last, emitted, printed, since, dealt, sessions>>
  PROVE  WatchInv'
<1> USE DEF WatchInv
<1>1. EndStep(result) /\ batch' = {} /\ ids' = {} /\ queue' = queue
  BY DEF GiveUpBatch
<1>2. /\ BudgetInv'
      /\ once' \in BOOLEAN /\ shutdown' \in BOOLEAN /\ shutdown' = shutdown
      /\ consecutive' \in 0..MaxFailures + 1 /\ recent' \in Seq(StepResult)
      /\ outcome' \in {"none", "ok", "error", "killed"}
      /\ (outcome' = "none") = (pc' # "done")
      /\ pc' \in {"wait", "done"}
  BY <1>1, EndStepType DEF TypeOK
<1>3. TypeOK'
  BY <1>1, <1>2 DEF TypeOK, PullType
<1>4. QueueInv' /\ HistoryInv'
  BY <1>1, <1>2 DEF QueueInv, HistoryInv
<1>5. SettledInv'
  BY <1>1 DEF SettledInv, Settled, DealtWith
<1> QED BY <1>2, <1>3, <1>4, <1>5

LEMMA FailureKeepsInv ==
  WatchInv /\ (NothingReceived \/ ListFails \/ EmitFails \/ Interrupted) => WatchInv'
BY GiveUpKeepsInv DEF NothingReceived, ListFails, EmitFails, Interrupted, StepResult

LEMMA ListKeepsInv == WatchInv /\ (NothingNew \/ List) => WatchInv'
<1> SUFFICES ASSUME WatchInv, NothingNew \/ List PROVE WatchInv'
  OBVIOUS
<1> USE DEF WatchInv
<1>1. /\ pc = "handle"
      /\ UNCHANGED <<once, consecutive, shutdown, outcome, queue, batch, recent>>
      /\ UNCHANGED <<top, base, last, emitted, printed, since, dealt, sessions>>
      /\ \/ pc' = "ack" /\ ids' = ids /\ MaxHistoryId <= last
         \/ pc' = "emit" /\ ids' = NewMails /\ MaxHistoryId > last
  BY DEF NothingNew, List, watchVars
<1>2. TypeOK'
  BY <1>1 DEF TypeOK, PullType, NewMails
<1>3. BudgetInv'
  BY <1>1, BudgetUnchanged
<1>4. QueueInv'
  BY <1>1 DEF QueueInv
<1>5. HistoryInv'
  <2>1. \A n \in batch \ Bad : n \in Change /\ n \in Nat /\ n <= MaxHistoryId /\ n <= top
    BY MaxHistoryIdFacts DEF QueueInv
  <2>2. CASE pc' = "ack" /\ ids' = ids /\ MaxHistoryId <= last
    <3>1. \A n \in batch \ Bad : n <= last
      BY <2>1, <2>2, MaxHistoryIdFacts DEF TypeOK
    <3> QED BY <1>1, <2>2, <3>1 DEF HistoryInv
  <2>3. CASE pc' = "emit" /\ ids' = NewMails /\ MaxHistoryId > last
    <3>1. MaxHistoryId \in batch \ Bad
      BY <2>3, MaxHistoryIdFacts DEF TypeOK
    <3>2. \A m \in ids' : m <= top
      BY <2>3 DEF NewMails
    <3>3. \A n \in batch \ Bad, m \in Watched : last < m /\ m <= n => m \in ids'
      BY <2>1, <2>3, WatchAssumption DEF NewMails, TypeOK, Change
    <3> QED BY <1>1, <2>3, <3>1, <3>2, <3>3 DEF HistoryInv
  <2> QED BY <1>1, <2>2, <2>3
<1>6. SettledInv'
  BY <1>1 DEF SettledInv, Settled, DealtWith
<1> QED BY <1>2, <1>3, <1>4, <1>5, <1>6

(* The memory after one more mail.                                         *)
LEMMA RememberMailFacts ==
  ASSUME TypeOK, NEW m \in Mail
  PROVE  /\ RememberMail(m) \in Seq(Mail)
         /\ \/ /\ Len(emitted) < Memory
               /\ Len(RememberMail(m)) = Len(emitted) + 1
               /\ RememberMail(m)[Len(emitted) + 1] = m
               /\ \A i \in 1..Len(emitted) : RememberMail(m)[i] = emitted[i]
            \/ /\ Len(emitted) = Memory
               /\ Len(RememberMail(m)) = Memory
               /\ RememberMail(m)[Memory] = m
               /\ \A i \in 1..Memory - 1 : RememberMail(m)[i] = emitted[i + 1]
<1> USE WatchAssumption
<1>1. emitted \in Seq(Mail) /\ Len(emitted) \in Nat /\ Len(emitted) <= Memory
  BY DEF TypeOK
<1>2. CASE Len(emitted) < Memory
  BY <1>1, <1>2 DEF RememberMail
<1>3. CASE Len(emitted) = Memory
  <2>1. /\ Tail(emitted) \in Seq(Mail) /\ Len(Tail(emitted)) = Memory - 1
        /\ \A i \in 1..Memory - 1 : Tail(emitted)[i] = emitted[i + 1]
    BY <1>1, <1>3
  <2>2. RememberMail(m) = Append(Tail(emitted), m)
    BY <1>3 DEF RememberMail
  <2> QED BY <1>3, <2>1, <2>2
<1> QED BY <1>1, <1>2, <1>3

LEMMA EmitKeepsInv == WatchInv /\ (\E m \in Mail : Emit(m)) => WatchInv'
<1> SUFFICES ASSUME WatchInv, NEW m \in Mail, Emit(m) PROVE WatchInv'
  OBVIOUS
<1> USE DEF WatchInv
<1>1. /\ pc = "emit" /\ m \in ids /\ m \in Watched
      /\ ids' = ids \ {m} /\ dealt' = dealt \cup {m}
      /\ UNCHANGED <<loopVars, queue, batch, recent, top, base, last, sessions>>
  BY DEF Emit, TypeOK
<1>2. TypeOK'
  <2>1. emitted' \in Seq(Mail) /\ Len(emitted') <= Memory
    BY RememberMailFacts, WatchAssumption DEF Emit, TypeOK
  <2>2. printed' \in [Mail -> 0..2] /\ since' \in [Mail -> SUBSET Mail]
    BY DEF Emit, TypeOK
  <2> QED BY <1>1, <2>1, <2>2 DEF TypeOK, PullType, loopVars
<1>3. BudgetInv'
  BY <1>1, BudgetUnchanged DEF loopVars
<1>4. QueueInv' /\ HistoryInv'
  BY <1>1 DEF QueueInv, HistoryInv, loopVars
<1>5. SettledInv'
  BY <1>1 DEF SettledInv, Settled, DealtWith
<1> QED BY <1>2, <1>3, <1>4, <1>5

LEMMA EmittedKeepsInv == WatchInv /\ Emitted => WatchInv'
<1> SUFFICES ASSUME WatchInv, Emitted PROVE WatchInv'
  OBVIOUS
<1> USE DEF WatchInv
<1>1. /\ pc = "emit" /\ ids = {} /\ pc' = "ack" /\ last' = MaxHistoryId
      /\ UNCHANGED <<once, consecutive, shutdown, outcome, queue, batch, recent>>
      /\ UNCHANGED <<top, base, ids, emitted, printed, since, dealt, sessions>>
  BY DEF Emitted
<1>2. /\ MaxHistoryId \in Nat /\ MaxHistoryId \in {0} \cup (batch \ Bad)
      /\ \A n \in batch \ Bad : n \in Nat /\ n <= MaxHistoryId
  BY MaxHistoryIdFacts
<1>3. TypeOK'
  BY <1>1, <1>2 DEF TypeOK, PullType
<1>4. BudgetInv'
  BY <1>1, BudgetUnchanged
<1>5. QueueInv'
  BY <1>1 DEF QueueInv
<1>6. HistoryInv'
  <2>1. MaxHistoryId \in batch \ Bad
    <3>1. PICK n \in batch \ Bad : last < n
      BY <1>1 DEF HistoryInv
    <3> QED BY <1>2, <3>1 DEF TypeOK
  <2>2. \A m \in Watched : m <= MaxHistoryId => m \in dealt \/ m <= base
    BY <1>1, <2>1, WatchAssumption DEF HistoryInv, TypeOK, Change
  <2> QED BY <1>1, <1>2, <2>2 DEF HistoryInv
<1>7. SettledInv'
  BY <1>1 DEF SettledInv, Settled, DealtWith
<1> QED BY <1>3, <1>4, <1>5, <1>6, <1>7

(* What the acknowledgement settles was dealt with.                        *)
LEMMA AckSettles ==
  ASSUME WatchInv, pc = "ack", NEW acked \in SUBSET batch,
         queue' = [m \in Msg |-> IF m \in acked THEN "acked" ELSE queue[m]]
  PROVE  \A m \in Watched, n \in Change : m <= n /\ queue'[n] = "acked" => m \in DealtWith
<1> SUFFICES ASSUME NEW m \in Watched, NEW n \in Change, m <= n, queue'[n] = "acked"
             PROVE  m \in DealtWith
  OBVIOUS
<1>1. CASE n \in acked
  <2>1. n <= last
    BY <1>1 DEF WatchInv, HistoryInv, Change
  <2>2. m <= last
    BY <2>1, WatchAssumption DEF WatchInv, TypeOK, Change
  <2> QED BY <2>2 DEF WatchInv, HistoryInv, DealtWith
<1>2. CASE n \notin acked
  <2>1. queue[n] = "acked"
    BY <1>2 DEF Change
  <2> QED BY <2>1 DEF WatchInv, SettledInv, Settled
<1> QED BY <1>1, <1>2

LEMMA AckKeepsInv == WatchInv /\ Ack => WatchInv'
<1> SUFFICES ASSUME WatchInv, Ack PROVE WatchInv'
  OBVIOUS
<1> USE DEF WatchInv
<1>1. PICK acked \in SUBSET batch, result \in StepResult :
        /\ queue' = [m \in Msg |-> IF m \in acked THEN "acked" ELSE queue[m]]
        /\ EndStep(result)
  BY DEF Ack
<1>2. pc = "ack" /\ batch' = {} /\ UNCHANGED watchVars
  BY DEF Ack
<1>3. /\ BudgetInv'
      /\ once' \in BOOLEAN /\ shutdown' \in BOOLEAN /\ shutdown' = shutdown
      /\ consecutive' \in 0..MaxFailures + 1 /\ recent' \in Seq(StepResult)
      /\ outcome' \in {"none", "ok", "error", "killed"}
      /\ (outcome' = "none") = (pc' # "done")
      /\ pc' \in {"wait", "done"}
  BY <1>1, <1>2, EndStepType DEF TypeOK
<1>4. queue' \in [Msg -> Status]
  BY <1>1 DEF TypeOK, PullType, Status
<1>5. TypeOK'
  BY <1>2, <1>3, <1>4 DEF TypeOK, PullType, watchVars
<1>6. QueueInv'
  BY <1>1, <1>2, <1>3 DEF QueueInv, TypeOK, PullType, watchVars, Change
<1>7. HistoryInv'
  BY <1>2, <1>3 DEF HistoryInv, watchVars
<1>8. SettledInv'
  BY <1>1, <1>2, AckSettles DEF SettledInv, Settled, DealtWith, watchVars
<1> QED BY <1>3, <1>5, <1>6, <1>7, <1>8

LEMMA SessionKeepsInv == WatchInv /\ (Killed \/ Reconnect) => WatchInv'
<1> SUFFICES ASSUME WatchInv, Killed \/ Reconnect PROVE WatchInv'
  OBVIOUS
<1> USE DEF WatchInv
<1>1. CASE Killed
  <2>1. TypeOK'
    BY <1>1 DEF Killed, TypeOK, PullType
  <2>2. BudgetInv'
    BY <1>1, BudgetUnchanged DEF Killed, TypeOK, PullType
  <2>3. QueueInv' /\ HistoryInv'
    BY <1>1 DEF Killed, QueueInv, HistoryInv
  <2>4. SettledInv'
    BY <1>1 DEF Killed, SettledInv, Settled, DealtWith
  <2> QED BY <2>1, <2>2, <2>3, <2>4
<1>2. CASE Reconnect
  <2>1. PullType' /\ BudgetInv'
    BY <1>2, FreshType DEF Reconnect, TypeOK, PullType
  <2>2. TypeOK'
    <3>1. emitted' \in Seq(Mail) /\ Len(emitted') <= Memory
      BY <1>2, WatchAssumption DEF Reconnect
    <3>2. sessions' \in 1..MaxSessions /\ printed' \in [Mail -> 0..2] /\ since' \in [Mail -> SUBSET Mail]
      BY <1>2, WatchAssumption DEF Reconnect, TypeOK
    <3> QED BY <1>2, <2>1, <3>1, <3>2 DEF Reconnect, TypeOK
  <2>3. QueueInv' /\ HistoryInv'
    BY <1>2 DEF Reconnect, QueueInv, HistoryInv, TypeOK
  <2>4. SettledInv'
    <3>1. \A n \in Change : queue'[n] = "acked" => n <= base'
      BY <1>2 DEF Reconnect, QueueInv
    <3>2. \A m \in Watched, n \in Change : m \in Nat /\ n \in Nat
      BY WatchAssumption
    <3>3. top \in Nat /\ base' = top
      BY <1>2 DEF Reconnect, TypeOK
    <3> QED BY <3>1, <3>2, <3>3 DEF SettledInv, Settled, DealtWith
  <2> QED BY <2>1, <2>2, <2>3, <2>4
<1> QED BY <1>1, <1>2

LEMMA StutterKeepsInv == WatchInv /\ UNCHANGED vars => WatchInv'
BY DEF vars, watchVars, pullVars, loopVars, WatchInv, TypeOK, PullType, BudgetInv, Counted,
       Exhausted, QueueInv, HistoryInv, SettledInv, Settled, DealtWith

LEMMA NextKeepsInv == WatchInv /\ [Next]_vars => WatchInv'
BY LoopKeepsInv, OutsideKeepsInv, FailureKeepsInv, ListKeepsInv, EmitKeepsInv, EmittedKeepsInv,
   AckKeepsInv, SessionKeepsInv, StutterKeepsInv
   DEF Next, SessionStep

LEMMA SpecInv == Spec => []WatchInv
BY InitWatchInv, NextKeepsInv, PTL DEF Spec

-----------------------------------------------------------------------------
(* Every state of `gmail +watch` is well typed; in particular the memory   *)
(* of printed mails stays within EMITTED_MEMORY.                           *)
THEOREM TypeCorrect == Spec => []TypeOK
<1>1. WatchInv => TypeOK
  BY DEF WatchInv
<1> QED BY <1>1, SpecInv, PTL

(* A step maps to a step of EventDelivery or to a stutter.                 *)
LEMMA NextDelivers ==
  ASSUME WatchInv, [Next]_vars
  PROVE  [Delivery!Next]_<<Announced, DealtWith, Settled>>
<1> USE DEF Delivery!Next, Delivery!Announce, Delivery!Deal, Delivery!Settle
<1>0. \A m \in Watched : m \in Nat /\ m \in Mail
  BY WatchAssumption DEF Change
<1>1. CASE WatchPull \/ WatchWait \/ WatchSignal \/ \E m \in Msg : Garbage(m) \/ Redeliver(m)
  <2>1. UNCHANGED <<top, dealt, base>>
    BY <1>1 DEF WatchPull, WatchWait, WatchSignal, Garbage, Redeliver, watchVars
  <2>2. \A n \in Change : queue'[n] = "acked" <=> queue[n] = "acked"
    <3>1. CASE WatchPull
      BY <3>1, PullFacts DEF WatchPull, WatchInv, TypeOK, Change
    <3>2. CASE WatchWait \/ WatchSignal
      BY <3>2, WaitFacts DEF WatchWait, WatchSignal, WatchInv, TypeOK
    <3>3. ASSUME NEW m \in Msg, Garbage(m) \/ Redeliver(m)
          PROVE  \A n \in Change : queue'[n] = "acked" <=> queue[n] = "acked"
      BY <3>3 DEF Garbage, Redeliver, Expire, WatchInv, TypeOK, PullType, Change
    <3> QED BY <1>1, <3>1, <3>2, <3>3
  <2>3. UNCHANGED <<Announced, DealtWith, Settled>>
    BY <2>1, <2>2 DEF Announced, DealtWith, Settled
  <2> QED BY <2>3
<1>2. CASE NothingReceived \/ NothingNew \/ List \/ ListFails \/ EmitFails \/ Interrupted
           \/ Emitted \/ Killed \/ UNCHANGED vars
  <2>1. UNCHANGED <<top, dealt, base, queue>>
    BY <1>2 DEF NothingReceived, NothingNew, List, ListFails, EmitFails, Interrupted, Emitted,
                Killed, GiveUpBatch, vars, pullVars, watchVars
  <2>2. UNCHANGED <<Announced, DealtWith, Settled>>
    BY <2>1 DEF Announced, DealtWith, Settled
  <2> QED BY <2>2
<1>3. ASSUME NEW m \in Mail, Emit(m)
      PROVE  Delivery!Deal
  <2>1. /\ m \in ids /\ m \in Watched /\ m <= top
        /\ dealt' = dealt \cup {m} /\ UNCHANGED <<queue, top, base>>
    BY <1>3 DEF Emit, WatchInv, TypeOK, HistoryInv
  <2>2. DealtWith' = DealtWith \cup {m} /\ UNCHANGED <<Announced, Settled>> /\ m \in Announced
    BY <2>1 DEF Announced, DealtWith, Settled
  <2> QED BY <2>2
<1>4. CASE Ack
  <2>1. PICK acked \in SUBSET batch :
          queue' = [m \in Msg |-> IF m \in acked THEN "acked" ELSE queue[m]]
    BY <1>4 DEF Ack
  <2>2. UNCHANGED <<top, dealt, base>> /\ pc = "ack"
    BY <1>4 DEF Ack, watchVars
  <2>3. Settled' \subseteq DealtWith
    BY <2>1, <2>2, AckSettles DEF Settled
  <2>4. Settled \subseteq Settled'
    BY <2>1 DEF Settled, Change
  <2>5. Settled' = Settled \cup Settled' /\ UNCHANGED <<Announced, DealtWith>>
    BY <2>2, <2>4 DEF Announced, DealtWith
  <2> QED BY <2>3, <2>5
<1>5. CASE Reconnect
  <2>1. base' = top /\ UNCHANGED <<queue, top, dealt>>
    BY <1>5 DEF Reconnect
  <2>2. UNCHANGED <<Announced, Settled>>
    BY <2>1 DEF Announced, Settled
  <2>3. DealtWith \subseteq DealtWith' /\ DealtWith' \subseteq DealtWith \cup Announced
    <3>1. \A m \in DealtWith : m \in DealtWith'
      <4> SUFFICES ASSUME NEW m \in DealtWith, m \notin dealt PROVE m <= top
        BY <2>1 DEF DealtWith
      <4> QED BY <1>0 DEF DealtWith, WatchInv, QueueInv, TypeOK
    <3> QED BY <2>1, <3>1 DEF DealtWith, Announced
  <2>4. DealtWith' = DealtWith \cup (DealtWith' \ DealtWith)
        /\ DealtWith' \ DealtWith \subseteq Announced
    BY <2>3
  <2> QED BY <2>2, <2>4
<1>6. ASSUME NEW n \in Change, Arrive(n)
      PROVE  [Delivery!Next]_<<Announced, DealtWith, Settled>>
  <2>1. /\ n \in Nat /\ n > top /\ top' = n /\ UNCHANGED <<dealt, base>>
        /\ queue' = [queue EXCEPT ![n] = "ready"]
    BY <1>6, WatchAssumption DEF Arrive
  <2>2. queue[n] # "acked"
    BY <2>1 DEF WatchInv, QueueInv, TypeOK
  <2>3. UNCHANGED <<DealtWith, Settled>>
    BY <2>1, <2>2 DEF DealtWith, Settled, WatchInv, TypeOK, PullType, Change
  <2>4. Announced \subseteq Announced'
    BY <1>0, <2>1 DEF Announced, WatchInv, TypeOK
  <2>5. Announced' = Announced \cup (Announced' \ Announced) /\ Announced' \subseteq Watched
    BY <2>4 DEF Announced
  <2> QED BY <2>3, <2>5
<1> QED BY <1>1, <1>2, <1>3, <1>4, <1>5, <1>6 DEF Next, SessionStep

(* `gmail +watch` implements at-least-once delivery of the mails that      *)
(* arrive while a session runs: a notification is acknowledged only after  *)
(* every watched mail it announces was dealt with.                         *)
THEOREM DeliversAtLeastOnce == Spec => AtLeastOnce
<1>1. Init => Delivery!Init
  <2> SUFFICES ASSUME Init PROVE Announced = {} /\ DealtWith = {} /\ Settled = {}
    BY DEF Delivery!Init
  <2>1. \A m \in Watched : m \in Nat /\ ~(m <= 0)
    BY WatchAssumption
  <2> QED BY <2>1 DEF Init, PullInit, Announced, DealtWith, Settled, Change
<1>2. WatchInv /\ [Next]_vars => [Delivery!Next]_<<Announced, DealtWith, Settled>>
  BY NextDelivers
<1> QED
  BY <1>1, <1>2, SpecInv, PTL DEF Spec, AtLeastOnce, Delivery!Spec, Delivery!deliveryVars

-----------------------------------------------------------------------------
(* The memory is a queue without repetitions: each mail in it that was     *)
(* printed once was followed by those behind it, and one that has left it  *)
(* by a full memory of others.                                             *)
MemoryInv ==
  /\ \A i, j \in 1..Len(emitted) : emitted[i] = emitted[j] => i = j
  /\ \A i, j \in 1..Len(emitted) : i < j /\ printed[emitted[i]] = 1 => emitted[j] \in since[emitted[i]]
  /\ \A m \in Mail : IsFiniteSet(since[m])
  /\ \A m \in Mail : printed[m] = 1 /\ m \notin Range(emitted) => Cardinality(since[m]) >= Memory

LEMMA RangeFacts ==
  ASSUME NEW s \in Seq(Mail), NEW m
  PROVE  m \in Range(s) <=> \E i \in 1..Len(s) : s[i] = m
BY DEF Range

(* What one mail remembered does to the memory.                            *)
LEMMA RememberKeepsMemory ==
  ASSUME TypeOK, MemoryInv, NEW m \in Mail, m \notin Range(emitted),
         emitted' = RememberMail(m),
         since' = [k \in Mail |-> IF k = m \/ printed[k] # 1 THEN {} ELSE since[k] \cup {m}],
         \A k \in Mail \ {m} : printed'[k] = printed[k]
  PROVE  MemoryInv'
<1> USE WatchAssumption
<1> DEFINE e == RememberMail(m)
<1>1. /\ e \in Seq(Mail) /\ Len(e) \in 1..Memory /\ e[Len(e)] = m
      /\ \/ /\ Len(emitted) < Memory /\ Len(e) = Len(emitted) + 1
            /\ \A i \in 1..Len(e) - 1 : e[i] = emitted[i]
         \/ /\ Len(emitted) = Memory /\ Len(e) = Memory
            /\ \A i \in 1..Len(e) - 1 : e[i] = emitted[i + 1]
  <2>1. emitted \in Seq(Mail) /\ Len(emitted) \in Nat /\ Len(emitted) <= Memory
    BY DEF TypeOK
  <2>2. CASE Len(emitted) < Memory
    <3>1. /\ e \in Seq(Mail) /\ Len(e) = Len(emitted) + 1 /\ e[Len(emitted) + 1] = m
          /\ \A i \in 1..Len(emitted) : e[i] = emitted[i]
      BY <2>1, <2>2, RememberMailFacts
    <3> HIDE DEF e
    <3>2. Len(e) - 1 = Len(emitted) /\ Len(e) \in 1..Memory
      BY <2>1, <2>2, <3>1
    <3>3. e[Len(e)] = m /\ \A i \in 1..Len(e) - 1 : e[i] = emitted[i]
      BY <3>1, <3>2
    <3> QED BY <2>2, <3>1, <3>2, <3>3
  <2>3. CASE Len(emitted) = Memory
    BY <2>1, <2>3, RememberMailFacts
  <2> QED BY <2>1, <2>2, <2>3
<1>2. /\ emitted \in Seq(Mail) /\ Len(emitted) \in 0..Memory
      /\ \A i \in 1..Len(emitted) : emitted[i] # m /\ emitted[i] \in Mail
  BY RangeFacts DEF TypeOK
<1>3. \A k \in Mail : IsFiniteSet(since'[k])
  BY FS_EmptySet, FS_AddElement DEF MemoryInv
<1>4. \A k \in Mail \ {m} : printed'[k] = 1 => m \in since'[k] /\ since[k] \subseteq since'[k]
  OBVIOUS
<1> HIDE DEF e
<1>5. \A i, j \in 1..Len(e) : e[i] = e[j] => i = j
  <2> SUFFICES ASSUME NEW i \in 1..Len(e), NEW j \in 1..Len(e), e[i] = e[j], i < j
               PROVE  FALSE
    BY <1>1
  <2>1. CASE j = Len(e)
    BY <2>1, <1>1, <1>2
  <2>2. CASE j # Len(e)
    BY <2>2, <1>1, <1>2 DEF MemoryInv
  <2> QED BY <2>1, <2>2
<1>6. \A i, j \in 1..Len(e) : i < j /\ printed'[e[i]] = 1 => e[j] \in since'[e[i]]
  <2> SUFFICES ASSUME NEW i \in 1..Len(e), NEW j \in 1..Len(e), i < j, printed'[e[i]] = 1
               PROVE  e[j] \in since'[e[i]]
    OBVIOUS
  <2>1. PICK a \in 1..Len(emitted) :
          /\ e[i] = emitted[a]
          /\ j # Len(e) => \E b \in 1..Len(emitted) : a < b /\ e[j] = emitted[b]
    <3>1. CASE Len(emitted) < Memory /\ Len(e) = Len(emitted) + 1
      <4>1. i \in 1..Len(emitted) /\ e[i] = emitted[i]
        BY <3>1, <1>1, <1>2
      <4>2. j # Len(e) => j \in 1..Len(emitted) /\ e[j] = emitted[j]
        BY <3>1, <1>1, <1>2
      <4> QED BY <4>1, <4>2
    <3>2. CASE Len(emitted) = Memory /\ Len(e) = Memory
      <4>1. i + 1 \in 1..Len(emitted) /\ e[i] = emitted[i + 1]
        BY <3>2, <1>1, <1>2
      <4>2. j # Len(e) => j + 1 \in 1..Len(emitted) /\ i + 1 < j + 1 /\ e[j] = emitted[j + 1]
        BY <3>2, <1>1, <1>2
      <4> QED BY <4>1, <4>2
    <3> QED BY <3>1, <3>2, <1>1
  <2>2. e[i] \in Mail \ {m}
    BY <2>1, <1>2
  <2>3. CASE j = Len(e)
    BY <2>2, <2>3, <1>1, <1>4
  <2>4. CASE j # Len(e)
    <3>1. e[j] \in since[e[i]]
      BY <2>1, <2>2, <2>4 DEF MemoryInv
    <3> QED BY <2>2, <3>1, <1>4
  <2> QED BY <2>3, <2>4
<1>7. ASSUME NEW k \in Mail, printed'[k] = 1, k \notin Range(e)
      PROVE  Cardinality(since'[k]) >= Memory
  <2>1. k # m /\ printed[k] = 1
    BY <1>1, <1>7, RangeFacts
  <2>2. CASE k \notin Range(emitted)
    <3>1. Cardinality(since[k]) >= Memory /\ IsFiniteSet(since[k])
      BY <2>1, <2>2, <1>7 DEF MemoryInv
    <3>2. /\ Cardinality(since[k]) <= Cardinality(since'[k])
          /\ Cardinality(since[k]) \in Nat /\ Cardinality(since'[k]) \in Nat
      BY <2>1, <3>1, <1>3, <1>4, <1>7, FS_Subset, FS_CardinalityType
    <3> QED BY <3>1, <3>2
  <2>3. CASE k \in Range(emitted)
    <3>1. PICK i \in 1..Len(emitted) : emitted[i] = k
      BY <2>3, <1>2, RangeFacts
    <3>2. \A j \in 1..Len(e) : e[j] # k
      BY <1>1, <1>7, RangeFacts
    <3>3. Len(emitted) = Memory /\ Len(e) = Memory /\ i = 1
      <4>1. CASE Len(emitted) < Memory
        <5>1. i \in 1..Len(e) - 1 /\ e[i] = emitted[i]
          BY <4>1, <1>1, <1>2
        <5> QED BY <5>1, <3>1, <3>2, <1>1
      <4>2. CASE Len(emitted) = Memory /\ i # 1
        <5>1. i - 1 \in 1..Len(e) - 1 /\ e[i - 1] = emitted[i]
          BY <4>2, <1>1, <1>2
        <5> QED BY <5>1, <3>1, <3>2, <1>1
      <4> QED BY <4>1, <4>2, <1>1, <1>2
    <3>4. \A j \in 1..Memory : e[j] \in since'[k]
      <4> SUFFICES ASSUME NEW j \in 1..Memory PROVE e[j] \in since'[k]
        OBVIOUS
      <4>1. CASE j = Memory
        BY <4>1, <3>3, <2>1, <1>1, <1>4, <1>7
      <4>2. CASE j # Memory
        <5>1. j + 1 \in 1..Len(emitted) /\ e[j] = emitted[j + 1]
          BY <4>2, <3>3, <1>1
        <5>2. emitted[j + 1] \in since[k]
          BY <5>1, <3>1, <3>3, <2>1 DEF MemoryInv
        <5> QED BY <5>1, <5>2, <2>1, <1>4, <1>7
      <4> QED BY <4>1, <4>2
    <3>5. e \in Injection(1..Memory, since'[k])
      BY <3>3, <3>4, <1>1, <1>5 DEF Injection, IsInjective
    <3>6. Cardinality(1..Memory) <= Cardinality(since'[k])
      BY <3>5, <1>3, FS_Injection
    <3>7. Cardinality(since'[k]) \in Nat
      BY <1>3, FS_CardinalityType
    <3>8. Cardinality(1..Memory) = Memory
      <4>1. 1 \in Int /\ Memory \in Int /\ ~(1 > Memory) /\ Memory - 1 + 1 = Memory
        OBVIOUS
      <4> QED BY <4>1, FS_Interval
    <3> QED BY <3>6, <3>7, <3>8
  <2> QED BY <2>2, <2>3
<1>8. emitted' = e
  BY DEF e
<1> QED BY <1>3, <1>5, <1>6, <1>7, <1>8 DEF MemoryInv

LEMMA NextKeepsMemory == TypeOK /\ MemoryInv /\ [Next]_vars => MemoryInv'
<1> SUFFICES ASSUME TypeOK, MemoryInv, [Next]_vars PROVE MemoryInv'
  OBVIOUS
<1>1. ASSUME UNCHANGED <<emitted, printed, since>>
      PROVE  MemoryInv'
  BY <1>1 DEF MemoryInv
<1>2. ASSUME NEW m \in Mail, Emit(m)
      PROVE  MemoryInv'
  <2>1. CASE UNCHANGED <<emitted, printed, since>>
    BY <2>1, <1>1
  <2>2. CASE /\ m \notin Range(emitted) /\ emitted' = RememberMail(m)
             /\ since' = [k \in Mail |-> IF k = m \/ printed[k] # 1 THEN {} ELSE since[k] \cup {m}]
             /\ printed' \in {printed, [printed EXCEPT ![m] = IF @ = 0 THEN 1 ELSE 2]}
    <3>1. \A k \in Mail \ {m} : printed'[k] = printed[k]
      BY <2>2 DEF TypeOK
    <3> QED BY <2>2, <3>1, RememberKeepsMemory
  <2> QED BY <1>2, <2>1, <2>2 DEF Emit
<1>3. CASE Reconnect
  BY <1>3, FS_EmptySet DEF Reconnect, MemoryInv
<1>4. CASE WatchPull \/ WatchWait \/ WatchSignal \/ NothingReceived \/ NothingNew \/ List
           \/ ListFails \/ EmitFails \/ Interrupted \/ Emitted \/ Ack \/ Killed
           \/ (\E n \in Change : Arrive(n)) \/ (\E m \in Msg : Garbage(m) \/ Redeliver(m)) \/ UNCHANGED vars
  <2>1. UNCHANGED <<emitted, printed, since>>
    BY <1>4 DEF WatchPull, WatchWait, WatchSignal, NothingReceived, NothingNew, List, ListFails,
                EmitFails, Interrupted, Emitted, Ack, Killed, Arrive, Garbage, Redeliver, vars,
                watchVars
  <2> QED BY <1>1, <2>1
<1> QED BY <1>2, <1>3, <1>4 DEF Next, SessionStep

(* A session prints a mail again only when at least EMITTED_MEMORY other   *)
(* mails were remembered since (watch.rs, GmailWatchStep::remember).       *)
THEOREM DuplicatesAreOld == Spec => DuplicatesOnlyAfterMemory
<1>1. Init => MemoryInv
  BY FS_EmptySet DEF Init, MemoryInv
<1>2. TypeOK /\ MemoryInv /\ [Next]_vars => MemoryInv'
  BY NextKeepsMemory
<1>3. TypeOK /\ MemoryInv /\ [Next]_vars =>
        [\A m \in Mail : sessions' = sessions /\ printed[m] = 1 /\ printed'[m] = 2
           => Cardinality(since[m]) >= Memory]_vars
  <2> SUFFICES ASSUME TypeOK, MemoryInv, Next, NEW m \in Mail,
                      sessions' = sessions, printed[m] = 1, printed'[m] = 2
               PROVE  Cardinality(since[m]) >= Memory
    OBVIOUS
  <2>1. PICK k \in Mail : Emit(k)
    BY DEF Next, SessionStep, WatchPull, WatchWait, WatchSignal, NothingReceived, NothingNew, List,
           ListFails, EmitFails, Interrupted, Emitted, Ack, Killed, Arrive, Garbage, Redeliver,
           Reconnect, watchVars, TypeOK
  <2>2. k \notin Range(emitted) /\ k = m
    BY <2>1 DEF Emit, TypeOK
  <2> QED BY <2>2 DEF MemoryInv
<1> QED BY <1>1, <1>2, <1>3, TypeCorrect, PTL DEF Spec, DuplicatesOnlyAfterMemory
=============================================================================

----------------------------- MODULE GmailWatch -----------------------------
(***************************************************************************)
(* `gwsr gmail +watch` (crates/gws-rust/src/helpers/gmail/watch.rs): pull  *)
(* Gmail's notifications from Pub/Sub, list the mails added since the last *)
(* history ID, fetch, screen and print each, then acknowledge the          *)
(* notifications.  A session started with --subscription reads its first   *)
(* history ID from the mailbox's profile.                                  *)
(*                                                                         *)
(* A change of the mailbox has a history ID and adds one or more mails:    *)
(* mail k is added by the first change whose ID is at least k.  Message n  *)
(* of the subscription is the notification of the change n, and announces  *)
(* every mail up to n.  The messages in Bad are notifications that do not  *)
(* decode.                                                                 *)
(***************************************************************************)
EXTENDS PullLoop, FiniteSetsExt, SequencesExt

CONSTANTS
  Bad,          \* undecodable notifications
  Mail,         \* mails
  Watched,      \* mails with one of --label-ids
  Memory,       \* EMITTED_MEMORY
  MaxSessions   \* bound: sessions started on the subscription

Change == Msg \ Bad

ASSUME WatchAssumption ==
  /\ Bad \subseteq Msg
  /\ Change \subseteq Nat \ {0}
  /\ Mail \subseteq Nat \ {0}
  /\ Watched \subseteq Mail
  /\ Memory \in Nat \ {0}
  /\ MaxSessions \in Nat \ {0}

VARIABLES
  top,      \* the mailbox: the history ID of its latest change
  base,     \* history: the history ID this session started with
  last,     \* GmailWatchStep.last_history_id
  ids,      \* emit_new_messages' `ids`: the listed mails not reached yet
  emitted,  \* GmailWatchStep.emitted_order, whose elements are `emitted`
  printed,  \* history: how often this session printed a mail, 2 for more than once
  since,    \* history: the mails remembered since this one, printed once, was
  dealt,    \* history: mails printed, blocked by Model Armor or gone when fetched
  sessions  \* sessions started so far

watchVars == <<top, base, last, ids, emitted, printed, since, dealt, sessions>>
vars == <<pullVars, watchVars>>

Init ==
  /\ PullInit
  /\ top = 0 /\ base = 0 /\ last = 0
  /\ ids = {} /\ emitted = <<>>
  /\ printed = [m \in Mail |-> 0]
  /\ since = [m \in Mail |-> {}]
  /\ dealt = {}
  /\ sessions = 1

-----------------------------------------------------------------------------
(* A change of the mailbox, and Gmail's notification of it.                *)
Arrive(n) ==
  /\ n > top /\ \A k \in Change : k > top => n <= k
  /\ top' = n
  /\ queue' = [queue EXCEPT ![n] = "ready"]
  /\ UNCHANGED <<loopVars, batch, recent, base, last, ids, emitted, printed, since, dealt, sessions>>

(* Somebody else publishes to the topic.                                   *)
Garbage(m) ==
  /\ m \in Bad /\ queue[m] = "unborn"
  /\ queue' = [queue EXCEPT ![m] = "ready"]
  /\ UNCHANGED <<loopVars, batch, recent, watchVars>>

Redeliver(m) == Expire(m) /\ UNCHANGED watchVars

(* max_history_id over the notifications that decode.                      *)
MaxHistoryId == Max({0} \cup (batch \ Bad))

(* The step ends without acknowledging anything.                           *)
GiveUpBatch(result) ==
  /\ EndStep(result)
  /\ batch' = {} /\ ids' = {}
  /\ UNCHANGED queue

(* Nothing but notifications of changes this session has listed already,   *)
(* or that do not decode: straight to the acknowledgement.                 *)
NothingNew ==
  /\ pc = "handle" /\ batch # {} /\ MaxHistoryId <= last
  /\ pc' = "ack"
  /\ UNCHANGED <<once, consecutive, shutdown, outcome, queue, batch, recent, watchVars>>

NothingReceived ==
  /\ pc = "handle" /\ batch = {}
  /\ GiveUpBatch("ok")
  /\ UNCHANGED <<top, base, last, emitted, printed, since, dealt, sessions>>

(* users.history.list since last_history_id, to its last page.             *)
ListFromNewest == {m \in Watched : m <= top /\ m > last /\ m >= MaxHistoryId}
NewMails == {m \in Watched : m <= top /\ m > last}

List ==
  /\ pc = "handle" /\ MaxHistoryId > last /\ ~shutdown
  /\ pc' = "emit"
  /\ ids' = NewMails
  /\ UNCHANGED <<once, consecutive, shutdown, outcome, queue, batch, recent>>
  /\ UNCHANGED <<top, base, last, emitted, printed, since, dealt, sessions>>

ListFails ==
  /\ pc = "handle" /\ MaxHistoryId > last /\ ~shutdown
  /\ \E result \in {"transient", "fatal"} : GiveUpBatch(result)
  /\ UNCHANGED <<top, base, last, emitted, printed, since, dealt, sessions>>

(* `remember`: the oldest ID is forgotten beyond EMITTED_MEMORY.           *)
RememberOneLess(m) ==
  IF Len(emitted) + 1 < Memory THEN Append(emitted, m) ELSE Tail(Append(emitted, m))
RememberMail(m) ==
  IF Len(emitted) < Memory THEN Append(emitted, m) ELSE Append(Tail(emitted), m)

(* One ID of the list: skipped, gone (404), blocked, or printed.           *)
Emit(m) ==
  /\ pc = "emit" /\ ~shutdown
  /\ m \in ids /\ \A k \in ids : m <= k
  /\ ids' = ids \ {m}
  /\ dealt' = dealt \cup {m}
  /\ \/ m \in Range(emitted) /\ UNCHANGED <<emitted, printed, since>>
     \/ m \notin Range(emitted) /\ UNCHANGED <<emitted, printed, since>>
     \/ /\ m \notin Range(emitted)
        /\ emitted' = RememberMail(m)
        /\ printed' \in {printed, [printed EXCEPT ![m] = IF @ = 0 THEN 1 ELSE 2]}
        /\ since' = [k \in Mail |-> IF k = m \/ printed[k] # 1 THEN {} ELSE since[k] \cup {m}]
  /\ UNCHANGED <<loopVars, queue, batch, recent, top, base, last, sessions>>

(* Fetching, screening or output failed.                                   *)
EmitFails ==
  /\ pc = "emit" /\ ~shutdown /\ ids # {}
  /\ \E result \in {"transient", "fatal"} : GiveUpBatch(result)
  /\ UNCHANGED <<top, base, last, emitted, printed, since, dealt, sessions>>

(* The signal cancels the emission; nothing is acknowledged.               *)
InterruptedAcks ==
  /\ pc \in {"handle", "emit"} /\ MaxHistoryId > last /\ shutdown
  /\ pc' = "ack" /\ ids' = {}
  /\ UNCHANGED <<once, consecutive, shutdown, outcome, queue, batch, recent>>
  /\ UNCHANGED <<top, base, last, emitted, printed, since, dealt, sessions>>

Interrupted ==
  /\ pc \in {"handle", "emit"} /\ MaxHistoryId > last /\ shutdown
  /\ GiveUpBatch("ok")
  /\ UNCHANGED <<top, base, last, emitted, printed, since, dealt, sessions>>

(* Everything listed was emitted: the session's history moves on.          *)
Emitted ==
  /\ pc = "emit" /\ ids = {} /\ ~shutdown
  /\ pc' = "ack"
  /\ last' = MaxHistoryId
  /\ UNCHANGED <<once, consecutive, shutdown, outcome, queue, batch, recent>>
  /\ UNCHANGED <<top, base, ids, emitted, printed, since, dealt, sessions>>

(* Acknowledge the batch.  A notification whose deadline has passed may be *)
(* delivered again all the same, and a failed call may have arrived.       *)
Ack ==
  /\ pc = "ack"
  /\ \E acked \in SUBSET batch, result \in StepResult :
       /\ result = "ok" => {m \in batch : queue[m] = "leased"} \subseteq acked
       /\ queue' = [m \in Msg |-> IF m \in acked THEN "acked" ELSE queue[m]]
       /\ EndStep(result)
  /\ batch' = {}
  /\ UNCHANGED watchVars

(* The process dies.                                                       *)
Killed ==
  /\ pc # "done"
  /\ pc' = "done" /\ outcome' = "killed"
  /\ batch' = {} /\ ids' = {}
  /\ UNCHANGED <<once, consecutive, shutdown, queue, recent>>
  /\ UNCHANGED <<top, base, last, emitted, printed, since, dealt, sessions>>

(* `gwsr gmail +watch --subscription S`, the command a session prints when *)
(* it ends.                                                                *)
Reconnect ==
  /\ pc = "done" /\ sessions < MaxSessions
  /\ pc' = "pull" /\ outcome' = "none" /\ consecutive' = 0 /\ shutdown' = FALSE
  /\ once' \in BOOLEAN /\ recent' = <<>> /\ batch' = {} /\ ids' = {}
  /\ last' = top /\ base' = top
  /\ emitted' = <<>>
  /\ printed' = [m \in Mail |-> 0] /\ since' = [m \in Mail |-> {}]
  /\ sessions' = sessions + 1
  /\ UNCHANGED <<queue, top, dealt>>

WatchPull == (Pull \/ PullFails \/ PullCancelled) /\ UNCHANGED watchVars
WatchWait == (Wake \/ StopWaiting) /\ UNCHANGED watchVars
WatchSignal == Signal /\ UNCHANGED watchVars

SessionStep ==
  \/ WatchPull \/ WatchWait
  \/ NothingReceived \/ NothingNew \/ List \/ ListFails
  \/ \E m \in Mail : Emit(m)
  \/ EmitFails \/ Interrupted \/ Emitted \/ Ack

Next ==
  \/ SessionStep
  \/ WatchSignal \/ Killed \/ Reconnect
  \/ \E n \in Change : Arrive(n)
  \/ \E m \in Msg : Garbage(m) \/ Redeliver(m)

Spec == Init /\ [][Next]_vars

(* As for SubscribeStream: calls answer or time out, sleeps end, Pub/Sub   *)
(* keeps delivering what waits.                                            *)
PullOf(m) == Pull /\ m \in batch' /\ UNCHANGED watchVars
FairSpec ==
  /\ Spec
  /\ WF_vars(SessionStep)
  /\ \A m \in Msg : SF_vars(PullOf(m)) /\ WF_vars(Redeliver(m))

-----------------------------------------------------------------------------
TypeOK ==
  /\ PullType
  /\ pc \in {"pull", "handle", "emit", "ack", "wait", "done"}
  /\ top \in Nat /\ base \in Nat /\ last \in Nat
  /\ ids \subseteq Watched
  /\ emitted \in Seq(Mail) /\ Len(emitted) <= Memory
  /\ printed \in [Mail -> 0..2]
  /\ since \in [Mail -> SUBSET Mail]
  /\ dealt \subseteq Watched
  /\ sessions \in 1..MaxSessions

(* watch.rs:17-19: a notification is acknowledged only after every new      *)
(* mail it announces has been emitted.                                      *)
AckedOnlyAfterEmitted ==
  \A n \in Change : queue[n] = "acked" => \A m \in Watched : m <= n => m \in dealt

(* At-least-once delivery of the watched mails, over any number of          *)
(* failures, signals, kills and sessions: a mail is settled once a          *)
(* notification that announces it is acknowledged.  A session answers for   *)
(* the mails that arrive after it has started; those in the mailbox when it *)
(* starts count as dealt with, whether or not an earlier session reached    *)
(* them (AckedOnlyAfterEmitted does not make that allowance).               *)
Announced == {m \in Watched : m <= top}
DealtWith == {m \in Watched : m \in dealt \/ m <= base}
Settled == {m \in Watched : \E n \in Change : m <= n /\ queue[n] = "acked"}
Delivery == INSTANCE EventDelivery WITH
  Item <- Watched,
  announced <- Announced,
  dealt <- DealtWith,
  settled <- Settled
AtLeastOnce == Delivery!Spec

(* watch.rs:19-20, as far as the memory goes: a session prints a mail again *)
(* only when at least EMITTED_MEMORY other mails were remembered since.     *)
DuplicatesOnlyAfterMemory ==
  [][\A m \in Mail : sessions' = sessions /\ printed[m] = 1 /\ printed'[m] = 2
       => Cardinality(since[m]) >= Memory]_vars

(* While the session lives and faults are not endless, every watched mail   *)
(* that arrives after its start is dealt with: again and again there is     *)
(* none left to deal with.                                                  *)
Fault ==
  \/ Len(recent') > 0 /\ recent'[Len(recent')] # "ok"
  \/ pc \in {"handle", "emit", "ack"} /\ \E m \in Msg : Redeliver(m)
EveryMailEmitted ==
  []<><<Fault>>_vars \/ []<>(\A m \in Watched : m <= top => m \in dealt \/ m <= base \/ pc = "done")
=============================================================================
